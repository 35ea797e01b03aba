----------------------------- MODULE List_proofs -----------------------------
(* Theorems about List for any lists, elements and keys. The inductive      *)
(* invariant gives every node a place: the list that it is in, if any, and  *)
(* a rank there, such that links lead from each rank to the next one. A     *)
(* call moves elements by giving them other ranks. The second half reads    *)
(* the walk of Interior as a sequence, and shows what each call and each    *)
(* loop makes of it: the refinement of ListSpec. The assertions of the sort *)
(* are at the end.                                                          *)
EXTENDS ListRefinement, Integers, FiniteSetTheorems, SequenceTheorems, WellFoundedInduction, TLAPS

----------------------------------------------------------------------------
(* The inductive invariant                                                  *)

Links == [Nodes -> Nodes \cup {NULL}]

(* s comes next after n.                                                    *)
Follows(owner, rank, n, s) ==
  /\ owner[s] = owner[n] /\ rank[n] < rank[s]
  /\ \A m \in Nodes : owner[m] = owner[n] => rank[m] <= rank[n] \/ rank[s] <= rank[m]

(* Where nodes are: NULL is nowhere. A list's head is its first node and    *)
(* its tail its last one.                                                   *)
Placed(owner, rank) ==
  /\ owner \in [Nodes -> Lists \cup {NULL}]
  /\ rank \in [Nodes -> Int]
  /\ \A l \in Lists : owner[HeadOf(l)] = l /\ owner[TailOf(l)] = l
  /\ \A n \in Nodes : owner[n] # NULL =>
       rank[HeadOf(owner[n])] <= rank[n] /\ rank[n] <= rank[TailOf(owner[n])]
  /\ \A n, m \in Nodes : owner[n] # NULL /\ owner[n] = owner[m] /\ rank[n] = rank[m] => n = m

(* The links are those of that order.                                       *)
Linked(owner, rank, nx, pv) ==
  /\ nx \in [Nodes -> Nodes \cup {NULL}] /\ pv \in [Nodes -> Nodes \cup {NULL}]
  /\ \A l \in Lists : nx[TailOf(l)] = NULL /\ pv[HeadOf(l)] = NULL
  /\ \A n \in Nodes : owner[n] # NULL /\ n # TailOf(owner[n]) =>
       nx[n] \in Nodes /\ Follows(owner, rank, n, nx[n]) /\ pv[nx[n]] = n
  /\ \A n \in Nodes : owner[n] # NULL /\ n # HeadOf(owner[n]) =>
       pv[n] \in Nodes /\ Follows(owner, rank, pv[n], n) /\ nx[pv[n]] = n

(* While reverse runs, the links of the elements it has passed are swapped. *)
Turned(owner, rank, n) ==
  pc = "reverse" /\ n \in Elems /\ owner[n] = at.list /\ rank[n] < rank[at.e]

Forward(owner, rank) ==
  [n \in Nodes |-> IF Turned(owner, rank, n) THEN prev[n] ELSE next[n]]
Backward(owner, rank) ==
  [n \in Nodes |-> IF Turned(owner, rank, n) THEN next[n] ELSE prev[n]]

(* A node of l that is not its head.                                        *)
Behind(owner, l, n) == n \in Nodes /\ owner[n] = l /\ n # HeadOf(l)

SortLabels == {"pass", "first_run", "second_run", "merge"}
UniqueLabels == {"unique", "duplicate"}

LocalsType ==
  [ list : Lists \cup {NULL}, duplicates : Lists \cup {NULL}, e : Nodes \cup {NULL},
    elem : Elems \cup {NULL}, a0 : Nodes \cup {NULL}, a1b0 : Nodes \cup {NULL},
    b1 : Nodes \cup {NULL}, runs : Nat ]

(* What the locals of a loop point to.                                      *)
Locals(owner, rank) ==
  LET l == at.list IN
  /\ pc # "idle" => l \in Lists
  /\ pc \in {"ordered", "duplicate"} => at.elem \in Elems /\ owner[at.elem] = NULL
  /\ pc \in {"ordered", "reverse"} \cup UniqueLabels => Behind(owner, l, at.e)
  /\ pc = "reverse" => next[HeadOf(l)] # TailOf(l)
  /\ pc \in UniqueLabels => at.e \in Elems /\ at.duplicates # l
  /\ pc = "duplicate" => at.duplicates # NULL
  /\ pc \in SortLabels => Behind(owner, l, at.a0)
  /\ pc \in {"first_run", "second_run", "merge"} => Behind(owner, l, at.a1b0)
  /\ pc \in {"first_run", "second_run"} => rank[at.a0] < rank[at.a1b0]
  /\ pc \in {"second_run", "merge"} => Behind(owner, l, at.b1)
  /\ pc = "second_run" => rank[at.a1b0] < rank[at.b1]
  /\ pc = "merge" => rank[at.a0] <= rank[at.a1b0] /\ rank[at.a1b0] <= rank[at.b1]

Typed ==
  /\ next \in [Nodes -> Nodes \cup {NULL}] /\ prev \in [Nodes -> Nodes \cup {NULL}]
  /\ pc \in {"idle", "ordered", "reverse"} \cup UniqueLabels \cup SortLabels
  /\ at \in LocalsType

Ordered(owner, rank) ==
  /\ Placed(owner, rank)
  /\ Linked(owner, rank, Forward(owner, rank), Backward(owner, rank))
  /\ Locals(owner, rank)

IInv ==
  /\ Typed
  /\ \E owner \in [Nodes -> Lists \cup {NULL}], rank \in [Nodes -> Int] : Ordered(owner, rank)

----------------------------------------------------------------------------
(* Nodes                                                                    *)

(* Heads, tails and elements are different nodes.                           *)
LEMMA NodeFacts ==
  /\ NULL \notin Nodes /\ NULL \notin Lists /\ Elems \subseteq Nodes
  /\ \A l \in Lists : /\ HeadOf(l) \in Nodes \ Elems /\ TailOf(l) \in Nodes \ Elems
                      /\ HeadOf(l)[1] = l /\ TailOf(l)[1] = l
  /\ \A l, m \in Lists : HeadOf(l) # TailOf(m)
  /\ \A n \in Nodes : n \notin Elems => \E l \in Lists : n = HeadOf(l) \/ n = TailOf(l)
<1>1. \A l : HeadOf(l)[1] = l /\ TailOf(l)[1] = l /\ HeadOf(l)[2] = "head" /\ TailOf(l)[2] = "tail"
  BY DEF HeadOf, TailOf
<1>2. "head" # "tail"
  OBVIOUS
<1> QED
  BY <1>1, <1>2, ListAssumption DEF Nodes

(* In a list only its head and its tail are not elements.                   *)
LEMMA ListNodes ==
  ASSUME NEW owner, NEW rank, Placed(owner, rank), NEW n \in Nodes, owner[n] # NULL
  PROVE  /\ owner[n] \in Lists
         /\ n \in Elems \/ n = HeadOf(owner[n]) \/ n = TailOf(owner[n])
         /\ n # HeadOf(owner[n]) => rank[HeadOf(owner[n])] < rank[n]
         /\ n # TailOf(owner[n]) => rank[n] < rank[TailOf(owner[n])]
<1>1. owner[n] \in Lists
  BY DEF Placed
<1>2. n \in Elems \/ n = HeadOf(owner[n]) \/ n = TailOf(owner[n])
  BY NodeFacts DEF Placed
<1>3. /\ HeadOf(owner[n]) \in Nodes /\ TailOf(owner[n]) \in Nodes
      /\ owner[HeadOf(owner[n])] = owner[n] /\ owner[TailOf(owner[n])] = owner[n]
      /\ rank[HeadOf(owner[n])] <= rank[n] /\ rank[n] <= rank[TailOf(owner[n])]
      /\ rank[n] \in Int /\ rank[HeadOf(owner[n])] \in Int /\ rank[TailOf(owner[n])] \in Int
  BY <1>1, NodeFacts DEF Placed
<1>4. /\ n # HeadOf(owner[n]) => rank[HeadOf(owner[n])] # rank[n]
      /\ n # TailOf(owner[n]) => rank[TailOf(owner[n])] # rank[n]
  BY <1>3 DEF Placed
<1> QED
  BY <1>1, <1>2, <1>3, <1>4

(* Two orders agree on which of two nodes of a list is in front.            *)
SameOrder(owner, rank, owner2, rank2, S) ==
  /\ \A n \in S : owner2[n] = owner[n]
  /\ \A n, m \in S : owner[n] # NULL /\ owner[n] = owner[m] /\ rank[n] < rank[m] =>
       rank2[n] < rank2[m]

----------------------------------------------------------------------------
(* What the calls do to the order                                           *)

(* list_insert: e takes the rank of `before', and all from there on move up.*)
LEMMA InsertOrder ==
  ASSUME NEW owner, NEW rank, NEW nx, NEW pv,
         Placed(owner, rank), Linked(owner, rank, nx, pv),
         NEW l \in Lists, NEW e \in Elems, owner[e] = NULL,
         NEW before, Behind(owner, l, before),
         NEW nx2 \in [Nodes -> Nodes \cup {NULL}], NEW pv2 \in [Nodes -> Nodes \cup {NULL}],
         \A n \in Nodes : nx2[n] = IF n = pv[before] THEN e ELSE IF n = e THEN before ELSE nx[n],
         \A n \in Nodes : pv2[n] = IF n = before THEN e ELSE IF n = e THEN pv[before] ELSE pv[n]
  PROVE  \E owner2 \in [Nodes -> Lists \cup {NULL}], rank2 \in [Nodes -> Int] :
           /\ Placed(owner2, rank2) /\ Linked(owner2, rank2, nx2, pv2)
           /\ owner2[e] = l /\ SameOrder(owner, rank, owner2, rank2, Nodes \ {e})
<1> DEFINE owner2 == [n \in Nodes |-> IF n = e THEN l ELSE owner[n]]
           rank2 == [n \in Nodes |-> IF n = e THEN rank[before]
                                     ELSE IF rank[n] >= rank[before] THEN rank[n] + 1 ELSE rank[n]]
<1>0. /\ e \in Nodes /\ before \in Nodes /\ owner[before] = l /\ l # NULL /\ e # before
      /\ HeadOf(l) \in Nodes /\ TailOf(l) \in Nodes
      /\ owner \in [Nodes -> Lists \cup {NULL}] /\ rank \in [Nodes -> Int]
  BY NodeFacts DEF Behind, Placed
<1>1. PICK o2 \in [Nodes -> Lists \cup {NULL}], r2 \in [Nodes -> Int] :
        /\ \A n \in Nodes : o2[n] = IF n = e THEN l ELSE owner[n]
        /\ \A n \in Nodes : r2[n] = IF n = e THEN rank[before]
                                    ELSE IF rank[n] >= rank[before] THEN rank[n] + 1 ELSE rank[n]
  <2>1. owner2 \in [Nodes -> Lists \cup {NULL}] /\ rank2 \in [Nodes -> Int]
    BY <1>0
  <2> QED
    BY <2>1
<1>2. SameOrder(owner, rank, o2, r2, Nodes \ {e})
  BY <1>0, <1>1 DEF SameOrder
<1>3. Placed(o2, r2)
  <2>1. \A k \in Lists : o2[HeadOf(k)] = k /\ o2[TailOf(k)] = k
    BY <1>1, NodeFacts DEF Placed
  <2>2. rank[HeadOf(l)] < rank[before] /\ rank[before] <= rank[TailOf(l)]
    BY <1>0, ListNodes DEF Behind, Placed
  <2>3. ASSUME NEW n \in Nodes, o2[n] # NULL
        PROVE  r2[HeadOf(o2[n])] <= r2[n] /\ r2[n] <= r2[TailOf(o2[n])]
    <3>1. CASE n = e
      BY <1>0, <1>1, <2>2, <3>1, NodeFacts
    <3>2. CASE n # e
      <4>1. owner[n] \in Lists /\ o2[n] = owner[n]
        BY <1>1, <2>3, <3>2 DEF Placed
      <4>2. /\ HeadOf(owner[n]) \in Nodes \ {e} /\ TailOf(owner[n]) \in Nodes \ {e}
            /\ rank[HeadOf(owner[n])] <= rank[n] /\ rank[n] <= rank[TailOf(owner[n])]
        BY <4>1, NodeFacts DEF Placed
      <4> QED
        BY <1>0, <1>1, <3>2, <4>1, <4>2
    <3> QED
      BY <3>1, <3>2
  <2>4. ASSUME NEW n \in Nodes, NEW m \in Nodes, o2[n] # NULL, o2[n] = o2[m], r2[n] = r2[m]
        PROVE  n = m
    <3>1. rank[n] \in Int /\ rank[m] \in Int /\ rank[before] \in Int
      BY <1>0
    <3>2. n = e <=> m = e
      BY <1>1, <2>4, <3>1
    <3>3. CASE n # e
      <4>1. rank[n] = rank[m] /\ owner[n] = owner[m] /\ owner[n] # NULL
        BY <1>1, <2>4, <3>1, <3>2, <3>3
      <4> QED
        BY <4>1 DEF Placed
    <3> QED
      BY <3>2, <3>3
  <2> QED
    BY <2>1, <2>3, <2>4 DEF Placed
<1>4. Linked(o2, r2, nx2, pv2)
  <2> DEFINE p == pv[before]
  <2>1. /\ p \in Nodes \ {e} /\ owner[p] = l /\ p # before /\ nx[p] = before
        /\ Follows(owner, rank, p, before)
    BY <1>0 DEF Linked, Behind, Follows, Placed
  <2> HIDE DEF p
  <2>2. \A n \in Nodes : nx2[n] = IF n = p THEN e ELSE IF n = e THEN before ELSE nx[n]
    BY DEF p
  <2>3. \A n \in Nodes : pv2[n] = IF n = before THEN e ELSE IF n = e THEN p ELSE pv[n]
    BY DEF p
  <2>4. Follows(o2, r2, p, e) /\ Follows(o2, r2, e, before)
    BY <1>0, <1>1, <2>1 DEF Follows
  <2>5. ASSUME NEW n \in Nodes \ {e, p}, NEW s \in Nodes \ {e, before}, owner[n] # NULL,
               Follows(owner, rank, n, s)
        PROVE  Follows(o2, r2, n, s)
    <3>1. ~ (owner[n] = l /\ rank[n] < rank[before] /\ rank[before] <= rank[s])
      <4>1. SUFFICES ASSUME owner[n] = l, rank[n] < rank[before], rank[before] <= rank[s]
                     PROVE  FALSE
        OBVIOUS
      <4>2. rank[n] \in Int /\ rank[before] \in Int /\ rank[s] \in Int
        BY <1>0
      <4>3. rank[before] <= rank[n] \/ rank[s] <= rank[before]
        BY <1>0, <2>5, <4>1 DEF Follows
      <4>4. rank[s] = rank[before] /\ owner[s] = l
        BY <2>5, <4>1, <4>2, <4>3 DEF Follows
      <4> QED
        BY <1>0, <2>5, <4>4 DEF Placed
    <3> QED
      BY <1>0, <1>1, <2>5, <3>1 DEF Follows
  <2>6. \A k \in Lists : nx2[TailOf(k)] = NULL /\ pv2[HeadOf(k)] = NULL
    BY <1>0, <2>1, <2>2, <2>3, NodeFacts DEF Linked, Behind
  <2>7. ASSUME NEW n \in Nodes, o2[n] # NULL, n # TailOf(o2[n])
        PROVE  nx2[n] \in Nodes /\ Follows(o2, r2, n, nx2[n]) /\ pv2[nx2[n]] = n
    <3>1. CASE n = p \/ n = e
      BY <1>0, <2>1, <2>2, <2>3, <2>4, <3>1
    <3>2. CASE n # p /\ n # e
      <4>1. /\ owner[n] # NULL /\ nx[n] \in Nodes /\ Follows(owner, rank, n, nx[n])
            /\ pv[nx[n]] = n /\ owner[nx[n]] = owner[n]
        BY <1>1, <2>7, <3>2 DEF Linked, Follows
      <4>2. nx[n] # e /\ nx[n] # before
        BY <3>2, <4>1 DEF p
      <4> QED
        BY <2>2, <2>3, <2>5, <3>2, <4>1, <4>2
    <3> QED
      BY <3>1, <3>2
  <2>8. ASSUME NEW n \in Nodes, o2[n] # NULL, n # HeadOf(o2[n])
        PROVE  pv2[n] \in Nodes /\ Follows(o2, r2, pv2[n], n) /\ nx2[pv2[n]] = n
    <3>1. CASE n = before \/ n = e
      BY <1>0, <2>1, <2>2, <2>3, <2>4, <3>1
    <3>2. CASE n # before /\ n # e
      <4>1. /\ owner[n] # NULL /\ pv[n] \in Nodes /\ Follows(owner, rank, pv[n], n)
            /\ nx[pv[n]] = n /\ owner[pv[n]] = owner[n]
        BY <1>1, <2>8, <3>2 DEF Linked, Follows
      <4>2. pv[n] # e /\ pv[n] # p
        BY <2>1, <3>2, <4>1
      <4> QED
        BY <2>2, <2>3, <2>5, <3>2, <4>1, <4>2
    <3> QED
      BY <3>1, <3>2
  <2> QED
    BY <2>6, <2>7, <2>8 DEF Linked
<1> QED
  BY <1>0, <1>1, <1>2, <1>3, <1>4

(* list_remove: e is nowhere, the others stay.                              *)
LEMMA RemoveOrder ==
  ASSUME NEW owner, NEW rank, NEW nx, NEW pv,
         Placed(owner, rank), Linked(owner, rank, nx, pv),
         NEW e \in Elems, owner[e] # NULL,
         NEW nx2 \in [Nodes -> Nodes \cup {NULL}], NEW pv2 \in [Nodes -> Nodes \cup {NULL}],
         \A n \in Nodes : nx2[n] = IF n = pv[e] THEN nx[e] ELSE nx[n],
         \A n \in Nodes : pv2[n] = IF n = nx[e] THEN pv[e] ELSE pv[n]
  PROVE  \E owner2 \in [Nodes -> Lists \cup {NULL}] :
           /\ Placed(owner2, rank) /\ Linked(owner2, rank, nx2, pv2)
           /\ owner2[e] = NULL /\ \A n \in Nodes \ {e} : owner2[n] = owner[n]
<1> DEFINE owner2 == [n \in Nodes |-> IF n = e THEN NULL ELSE owner[n]]
<1>0. /\ e \in Nodes /\ owner[e] \in Lists /\ e # HeadOf(owner[e]) /\ e # TailOf(owner[e])
      /\ owner \in [Nodes -> Lists \cup {NULL}] /\ rank \in [Nodes -> Int]
  BY NodeFacts, ListNodes DEF Placed
<1>1. PICK o2 \in [Nodes -> Lists \cup {NULL}] :
        \A n \in Nodes : o2[n] = IF n = e THEN NULL ELSE owner[n]
  <2>1. owner2 \in [Nodes -> Lists \cup {NULL}]
    BY <1>0
  <2> QED
    BY <2>1
<1>2. PICK p \in Nodes, s \in Nodes :
        /\ p = pv[e] /\ s = nx[e] /\ nx[p] = e /\ pv[s] = e
        /\ Follows(owner, rank, p, e) /\ Follows(owner, rank, e, s)
        /\ owner[p] = owner[e] /\ owner[s] = owner[e] /\ p # e /\ s # e /\ p # s
  BY <1>0 DEF Linked, Follows
<1>3. Placed(o2, rank)
  BY <1>0, <1>1, NodeFacts DEF Placed
<1>4. Follows(o2, rank, p, s)
  <2>1. rank[p] < rank[e] /\ rank[e] < rank[s] /\ rank[p] < rank[s]
    BY <1>0, <1>2 DEF Follows
  <2>2. ASSUME NEW m \in Nodes \ {e}, owner[m] = owner[e]
        PROVE  rank[m] <= rank[p] \/ rank[s] <= rank[m]
    <3>1. /\ rank[m] <= rank[p] \/ rank[e] <= rank[m]
          /\ rank[m] <= rank[e] \/ rank[s] <= rank[m]
      BY <1>2, <2>2 DEF Follows
    <3>2. rank[m] # rank[e]
      BY <1>0, <2>2 DEF Placed
    <3> QED
      BY <1>0, <3>1, <3>2
  <2>3. ASSUME NEW m \in Nodes, o2[m] = o2[p]
        PROVE  m # e /\ owner[m] = owner[e]
    BY <1>0, <1>1, <1>2, <2>3, NodeFacts
  <2> QED
    BY <1>1, <1>2, <2>1, <2>2, <2>3 DEF Follows
<1>5. ASSUME NEW n \in Nodes \ {e}, NEW m \in Nodes \ {e}, owner[n] # NULL,
             Follows(owner, rank, n, m)
      PROVE  Follows(o2, rank, n, m)
  BY <1>0, <1>1, <1>5 DEF Follows
<1>6. Linked(o2, rank, nx2, pv2)
  <2>1. \A k \in Lists : nx2[TailOf(k)] = NULL /\ pv2[HeadOf(k)] = NULL
    BY <1>0, <1>2, NodeFacts DEF Linked
  <2>2. ASSUME NEW n \in Nodes, o2[n] # NULL, n # TailOf(o2[n])
        PROVE  nx2[n] \in Nodes /\ Follows(o2, rank, n, nx2[n]) /\ pv2[nx2[n]] = n
    <3>1. n # e /\ owner[n] = o2[n] /\ owner[n] # NULL
      BY <1>1, <2>2
    <3>2. /\ nx[n] \in Nodes /\ Follows(owner, rank, n, nx[n]) /\ pv[nx[n]] = n
          /\ owner[nx[n]] = owner[n]
      BY <2>2, <3>1 DEF Linked, Follows
    <3>3. CASE n = p
      BY <1>2, <1>4, <3>3
    <3>4. CASE n # p
      BY <1>2, <1>5, <3>1, <3>2, <3>4
    <3> QED
      BY <3>3, <3>4
  <2>3. ASSUME NEW n \in Nodes, o2[n] # NULL, n # HeadOf(o2[n])
        PROVE  pv2[n] \in Nodes /\ Follows(o2, rank, pv2[n], n) /\ nx2[pv2[n]] = n
    <3>1. n # e /\ owner[n] = o2[n] /\ owner[n] # NULL
      BY <1>1, <2>3
    <3>2. /\ pv[n] \in Nodes /\ Follows(owner, rank, pv[n], n) /\ nx[pv[n]] = n
          /\ owner[pv[n]] = owner[n]
      BY <2>3, <3>1 DEF Linked, Follows
    <3>3. CASE n = s
      BY <1>2, <1>4, <3>3
    <3>4. CASE n # s
      BY <1>2, <1>5, <3>1, <3>2, <3>4
    <3> QED
      BY <3>3, <3>4
  <2> QED
    BY <2>1, <2>2, <2>3 DEF Linked
<1> QED
  BY <1>0, <1>1, <1>3, <1>6

(* What a splice of m's elements from first on leaves where they are, ...   *)
Unmoved(owner, rank, m, first, last) ==
  { n \in Nodes : ~ (owner[n] = m /\ rank[first] <= rank[n] /\ rank[n] < rank[last]) }

(* ... and what it does to the links.                                       *)
Spliced(nx, pv, nx2, pv2, before, first, last) ==
  LET p == pv[first]
      back == pv[last]
      b == IF before = last THEN p ELSE pv[before]
  IN  /\ nx2 \in Links /\ pv2 \in Links
      /\ \A n \in Nodes : nx2[n] = IF n = b THEN first ELSE IF n = back THEN before
                                    ELSE IF n = p THEN last ELSE nx[n]
      /\ \A n \in Nodes : pv2[n] = IF n = before THEN back ELSE IF n = first THEN b
                                    ELSE IF n = last THEN p ELSE pv[n]

(* list_splice: the nodes from first up to but without last take the ranks  *)
(* from that of `before' on, and all from there on move up.                 *)
LEMMA SpliceOrder ==
  ASSUME NEW owner, NEW rank, NEW nx, NEW pv,
         Placed(owner, rank), Linked(owner, rank, nx, pv),
         NEW l \in Lists, NEW m \in Lists, NEW before, NEW first, NEW last,
         Behind(owner, l, before), Behind(owner, m, first), Behind(owner, m, last),
         rank[first] < rank[last],
         l = m => rank[before] < rank[first] \/ rank[last] <= rank[before],
         NEW nx2, NEW pv2, Spliced(nx, pv, nx2, pv2, before, first, last)
  PROVE  \E owner2 \in [Nodes -> Lists \cup {NULL}], rank2 \in [Nodes -> Int] :
           /\ Placed(owner2, rank2) /\ Linked(owner2, rank2, nx2, pv2)
           /\ SameOrder(owner, rank, owner2, rank2, Unmoved(owner, rank, m, first, last))
<1>9. PICK p, back, b :
        p = pv[first] /\ back = pv[last] /\ b = IF before = last THEN p ELSE pv[before]
  OBVIOUS
<1>10. /\ nx2 \in [Nodes -> Nodes \cup {NULL}] /\ pv2 \in [Nodes -> Nodes \cup {NULL}]
       /\ \A n \in Nodes : nx2[n] = IF n = b THEN first ELSE IF n = back THEN before
                                     ELSE IF n = p THEN last ELSE nx[n]
       /\ \A n \in Nodes : pv2[n] = IF n = before THEN back ELSE IF n = first THEN b
                                     ELSE IF n = last THEN p ELSE pv[n]
  BY <1>9 DEF Spliced, Links
<1> USE <1>9, <1>10
<1> DEFINE M(n) == owner[n] = m /\ rank[first] <= rank[n] /\ rank[n] < rank[last]
           owner2 == [n \in Nodes |-> IF M(n) THEN l ELSE owner[n]]
           rank2 == [n \in Nodes |->
             IF M(n) THEN rank[before] + (rank[n] - rank[first])
             ELSE IF rank[n] >= rank[before] THEN rank[n] + (rank[last] - rank[first]) ELSE rank[n]]
<1>0. /\ before \in Nodes /\ owner[before] = l /\ l # NULL
      /\ first \in Nodes /\ owner[first] = m /\ m # NULL /\ last \in Nodes /\ owner[last] = m
      /\ owner \in [Nodes -> Lists \cup {NULL}] /\ rank \in [Nodes -> Int]
      /\ ~ M(before)
  BY NodeFacts DEF Behind, Placed
<1>1. PICK o2 \in [Nodes -> Lists \cup {NULL}], r2 \in [Nodes -> Int], d \in Nat \ {0} :
        /\ d = rank[last] - rank[first]
        /\ \A n \in Nodes : M(n) =>
             o2[n] = l /\ r2[n] = rank[before] + (rank[n] - rank[first])
        /\ \A n \in Nodes : ~ M(n) =>
             o2[n] = owner[n] /\ r2[n] = IF rank[n] >= rank[before] THEN rank[n] + d ELSE rank[n]
  <2>1. owner2 \in [Nodes -> Lists \cup {NULL}] /\ rank2 \in [Nodes -> Int]
        /\ rank[last] - rank[first] \in Nat \ {0}
    BY <1>0
  <2> QED
    BY <2>1

<1>2. ASSUME NEW n \in Nodes, NEW k \in Nodes, M(n)
      PROVE  /\ rank[before] <= r2[n] /\ r2[n] < rank[before] + d
             /\ M(k) => (r2[n] < r2[k] <=> rank[n] < rank[k])
             /\ ~ M(k) => (r2[n] < r2[k] <=> rank[before] <= rank[k])
             /\ ~ M(k) => (r2[k] < r2[n] <=> rank[k] < rank[before])
  <2> HIDE DEF M
  <2>1. rank[n] \in Int /\ rank[k] \in Int /\ rank[first] \in Int /\ rank[last] \in Int
        /\ rank[before] \in Int /\ d = rank[last] - rank[first]
    BY <1>0, <1>1
  <2>2. rank[first] <= rank[n] /\ rank[n] < rank[last]
    BY <1>2 DEF M
  <2>3. r2[n] = rank[before] + (rank[n] - rank[first])
    BY <1>1, <1>2
  <2>4. M(k) => r2[k] = rank[before] + (rank[k] - rank[first])
    BY <1>1
  <2>5. ~ M(k) => r2[k] = IF rank[k] >= rank[before] THEN rank[k] + d ELSE rank[k]
    BY <1>1
  <2> QED
    BY <2>1, <2>2, <2>3, <2>4, <2>5
<1>3. ASSUME NEW n \in Nodes, NEW k \in Nodes, ~ M(n), ~ M(k)
      PROVE  r2[n] < r2[k] <=> rank[n] < rank[k]
  <2> HIDE DEF M
  <2>1. rank[n] \in Int /\ rank[k] \in Int /\ rank[before] \in Int
    BY <1>0
  <2> QED
    BY <1>1, <1>3, <2>1
<1>4. SameOrder(owner, rank, o2, r2, Unmoved(owner, rank, m, first, last))
  <2>1. Unmoved(owner, rank, m, first, last) = { n \in Nodes : ~ M(n) }
    BY DEF Unmoved
  <2> HIDE DEF M
  <2> QED
    BY <1>1, <1>3, <2>1 DEF SameOrder
<1>5. ASSUME NEW k \in Lists
      PROVE  /\ ~ M(HeadOf(k)) /\ ~ M(TailOf(k))
             /\ HeadOf(k) \in Nodes /\ TailOf(k) \in Nodes
             /\ owner[HeadOf(k)] = k /\ owner[TailOf(k)] = k
  <2>1. /\ HeadOf(k) \in Nodes /\ TailOf(k) \in Nodes
        /\ owner[HeadOf(k)] = k /\ owner[TailOf(k)] = k
    BY NodeFacts DEF Placed
  <2>2. k = m => rank[HeadOf(k)] < rank[first] /\ rank[last] <= rank[TailOf(k)]
    <3>1. first # HeadOf(m)
      BY DEF Behind
    <3>2. rank[HeadOf(m)] < rank[first]
      BY <1>0, <3>1, ListNodes
    <3>3. rank[last] <= rank[TailOf(m)]
      BY <1>0 DEF Placed
    <3> QED
      BY <3>2, <3>3
  <2> QED
    BY <1>0, <2>1, <2>2
<1>6. rank[HeadOf(l)] < rank[before] /\ rank[before] <= rank[TailOf(l)]
  BY <1>0, ListNodes DEF Behind, Placed
<1>7. Placed(o2, r2)
  <2> HIDE DEF M
  <2>1. \A k \in Lists : o2[HeadOf(k)] = k /\ o2[TailOf(k)] = k
    BY <1>1, <1>5
  <2>2. ASSUME NEW n \in Nodes, o2[n] # NULL
        PROVE  r2[HeadOf(o2[n])] <= r2[n] /\ r2[n] <= r2[TailOf(o2[n])]
    <3>0. \A k \in Nodes : r2[k] \in Int
      OBVIOUS
    <3>1. CASE M(n)
      <4>1. o2[n] = l
        BY <1>1, <3>1
      <4>2. r2[HeadOf(l)] < r2[n] /\ r2[n] < r2[TailOf(l)]
        BY <1>2, <1>5, <1>6, <3>1
      <4> QED
        BY <1>5, <3>0, <4>1, <4>2
    <3>2. CASE ~ M(n)
      <4>1. o2[n] = owner[n] /\ owner[n] \in Lists
        BY <1>1, <2>2, <3>2 DEF Placed
      <4>2. rank[HeadOf(owner[n])] <= rank[n] /\ rank[n] <= rank[TailOf(owner[n])]
        BY <2>2, <4>1 DEF Placed
      <4>3. ~ (rank[n] < rank[HeadOf(owner[n])]) /\ ~ (rank[TailOf(owner[n])] < rank[n])
        BY <1>0, <1>5, <4>1, <4>2
      <4>4. ~ (r2[n] < r2[HeadOf(owner[n])]) /\ ~ (r2[TailOf(owner[n])] < r2[n])
        BY <1>3, <1>5, <3>2, <4>1, <4>3
      <4> QED
        BY <1>5, <3>0, <4>1, <4>4
    <3> QED
      BY <3>1, <3>2
  <2>3. ASSUME NEW n \in Nodes, NEW k \in Nodes, o2[n] # NULL, o2[n] = o2[k], r2[n] = r2[k]
        PROVE  n = k
    <3>1. ~ (r2[n] < r2[k]) /\ ~ (r2[k] < r2[n])
      BY <2>3
    <3>2. rank[n] \in Int /\ rank[k] \in Int /\ rank[before] \in Int
      BY <1>0
    <3>3. M(n) <=> M(k)
      BY <1>2, <3>1, <3>2
    <3>4. rank[n] = rank[k]
      <4>1. CASE M(n)
        <5>1. ~ (rank[n] < rank[k]) /\ ~ (rank[k] < rank[n])
          BY <1>2, <3>1, <3>3, <4>1
        <5> QED
          BY <3>2, <5>1
      <4>2. CASE ~ M(n)
        <5>1. ~ (rank[n] < rank[k]) /\ ~ (rank[k] < rank[n])
          BY <1>3, <3>1, <3>3, <4>2
        <5> QED
          BY <3>2, <5>1
      <4> QED
        BY <4>1, <4>2
    <3>5. owner[n] = owner[k] /\ owner[n] # NULL
      <4>1. M(n) => owner[n] = m /\ owner[k] = m
        BY <3>3 DEF M
      <4> QED
        BY <1>0, <1>1, <2>3, <3>3, <4>1
    <3> QED
      BY <3>4, <3>5 DEF Placed
  <2> QED
    BY <2>1, <2>2, <2>3 DEF Placed
<1>8. Linked(o2, r2, nx2, pv2)
  <2>0. \A n, k \in Nodes : rank[n] \in Int /\ r2[n] \in Int /\ rank[k] \in Int
    BY <1>0
  <2>1. /\ p \in Nodes /\ owner[p] = m /\ nx[p] = first /\ Follows(owner, rank, p, first)
        /\ rank[p] < rank[first] /\ ~ M(p)
    BY <1>0, <2>0 DEF Linked, Behind, Follows
  <2>2. /\ back \in Nodes /\ owner[back] = m /\ nx[back] = last
        /\ Follows(owner, rank, back, last) /\ M(back)
    BY <1>0, <2>0 DEF Linked, Behind, Follows
  <2>3. /\ b \in Nodes /\ owner[b] = l /\ ~ M(b) /\ rank[b] < rank[before]
        /\ before # last => nx[b] = before /\ b # p /\ Follows(owner, rank, b, before)
    <3>1. CASE before = last
      BY <1>0, <2>0, <2>1, <3>1
    <3>2. CASE before # last
      <4>1. /\ b \in Nodes /\ owner[b] = l /\ rank[b] < rank[before]
            /\ nx[b] = before /\ Follows(owner, rank, b, before)
        BY <1>0, <3>2 DEF Linked, Behind, Follows
      <4>2. ~ M(b)
        <5>1. SUFFICES ASSUME M(b) PROVE FALSE
          OBVIOUS
        <5>2. l = m /\ rank[b] < rank[last]
          BY <4>1, <5>1
        <5>3. rank[before] <= rank[last]
          BY <1>0, <2>0, <4>1, <5>2 DEF Follows
        <5>4. rank[before] # rank[last]
          BY <1>0, <3>2, <5>2 DEF Placed
        <5>5. rank[first] <= rank[before]
          BY <1>0, <2>0, <4>1, <5>1
        <5> QED
          BY <1>0, <2>0, <5>2, <5>3, <5>4, <5>5
      <4>3. b # p
        BY <1>0, <2>0, <2>1, <4>1
      <4> QED
        BY <3>2, <4>1, <4>2, <4>3
    <3> QED
      BY <3>1, <3>2
  <2>4. M(first) /\ ~ M(last) /\ ~ M(before)
    BY <1>0, <2>0
  <2> HIDE DEF M
  <2>5. ASSUME NEW k \in Nodes, o2[k] = l
        PROVE  M(k) \/ (owner[k] = l /\ ~ M(k))
    BY <1>1, <2>5
  <2>6. Follows(o2, r2, b, first)
    <3>1. o2[first] = o2[b] /\ o2[b] = l
      BY <1>0, <1>1, <2>3, <2>4
    <3>2. r2[b] < r2[first]
      BY <1>0, <1>2, <2>3, <2>4
    <3>3. ASSUME NEW k \in Nodes, o2[k] = l
          PROVE  r2[k] <= r2[b] \/ r2[first] <= r2[k]
      <4>1. CASE M(k)
        <5>1. rank[first] <= rank[k]
          BY <4>1 DEF M
        <5>2. ~ (rank[k] < rank[first])
          BY <1>0, <2>0, <5>1
        <5>3. ~ (r2[k] < r2[first])
          BY <1>0, <1>2, <2>4, <4>1, <5>2
        <5> QED
          BY <1>0, <2>0, <5>3
      <4>2. CASE ~ M(k)
        <5>1. owner[k] = l
          BY <2>5, <3>3, <4>2
        <5>2. rank[k] <= rank[b] \/ rank[before] <= rank[k]
          <6>1. CASE before = last
            <7>1. b = p /\ l = m
              BY <1>0, <6>1
            <7>2. rank[k] <= rank[p] \/ rank[first] <= rank[k]
              BY <2>1, <5>1, <7>1 DEF Follows
            <7> QED
              BY <1>0, <2>0, <4>2, <5>1, <6>1, <7>1, <7>2 DEF M
          <6>2. CASE before # last
            BY <2>3, <5>1, <6>2 DEF Follows
          <6> QED
            BY <6>1, <6>2
        <5>3. rank[before] <= rank[k] => r2[first] < r2[k]
          BY <1>0, <1>2, <2>4, <4>2
        <5>4. rank[k] <= rank[b] => ~ (r2[b] < r2[k])
          <6>1. rank[k] <= rank[b] => ~ (rank[b] < rank[k])
            BY <2>0, <2>3
          <6> QED
            BY <1>3, <2>3, <4>2, <6>1
        <5> QED
          BY <1>0, <2>0, <2>3, <5>2, <5>3, <5>4
      <4> QED
        BY <4>1, <4>2
    <3> QED
      BY <3>1, <3>2, <3>3 DEF Follows
  <2>7. Follows(o2, r2, back, before)
    <3>1. o2[back] = l /\ o2[before] = l
      BY <1>0, <1>1, <2>2, <2>4
    <3>2. r2[back] < r2[before]
      BY <1>0, <1>2, <2>0, <2>2, <2>4
    <3>3. ASSUME NEW k \in Nodes, o2[k] = l
          PROVE  r2[k] <= r2[back] \/ r2[before] <= r2[k]
      <4>1. CASE M(k)
        <5>1. owner[k] = m /\ rank[k] < rank[last]
          BY <4>1 DEF M
        <5>2. ~ (rank[back] < rank[k])
          BY <1>0, <2>0, <2>2, <5>1 DEF Follows
        <5>3. ~ (r2[back] < r2[k])
          BY <1>2, <2>2, <4>1, <5>2
        <5> QED
          BY <2>0, <2>2, <5>3
      <4>2. CASE ~ M(k)
        <5>1. ~ (rank[before] <= rank[k]) => r2[k] < r2[back]
          BY <1>0, <1>2, <2>0, <2>2, <4>2
        <5>2. rank[before] <= rank[k] => ~ (r2[k] < r2[before])
          <6>1. rank[before] <= rank[k] => ~ (rank[k] < rank[before])
            BY <1>0, <2>0
          <6> QED
            BY <1>0, <1>3, <2>4, <4>2, <6>1
        <5> QED
          BY <1>0, <2>0, <2>2, <5>1, <5>2
      <4> QED
        BY <4>1, <4>2
    <3> QED
      BY <3>1, <3>2, <3>3 DEF Follows
  <2>8. ASSUME NEW n \in Nodes, NEW s \in Nodes, owner[n] # NULL, ~ M(n), ~ M(s),
               owner[s] = owner[n], rank[n] < rank[s],
               \A k \in Nodes : owner[k] = owner[n] /\ ~ M(k) => rank[k] <= rank[n] \/ rank[s] <= rank[k],
               s # before
        PROVE  Follows(o2, r2, n, s)
    <3>1. o2[n] = owner[n] /\ o2[s] = owner[n] /\ r2[n] < r2[s]
      BY <1>1, <1>3, <2>8
    <3>2. ASSUME NEW k \in Nodes, o2[k] = owner[n]
          PROVE  r2[k] <= r2[n] \/ r2[s] <= r2[k]
      <4>1. CASE M(k)
        <5>1. owner[n] = l
          BY <1>1, <3>2, <4>1
        <5>2. rank[before] <= rank[n] \/ rank[s] <= rank[before]
          BY <1>0, <2>4, <2>8, <5>1
        <5>3. rank[before] <= rank[n] => r2[k] < r2[n]
          BY <1>2, <2>8, <4>1
        <5>4. rank[s] # rank[before]
          BY <1>0, <2>8, <5>1 DEF Placed
        <5>5. rank[s] < rank[before] => r2[s] < r2[k]
          BY <1>2, <2>8, <4>1
        <5> QED
          BY <1>0, <2>0, <5>2, <5>3, <5>4, <5>5
      <4>2. CASE ~ M(k)
        <5>1. owner[k] = owner[n]
          BY <1>1, <3>2, <4>2
        <5>2. ~ (rank[n] < rank[k]) \/ ~ (rank[k] < rank[s])
          BY <2>0, <2>8, <4>2, <5>1
        <5>3. ~ (r2[n] < r2[k]) \/ ~ (r2[k] < r2[s])
          BY <1>3, <2>8, <4>2, <5>2
        <5> QED
          BY <2>0, <5>3
      <4> QED
        BY <4>1, <4>2
    <3> QED
      BY <3>1, <3>2 DEF Follows
  <2>9. before # last => Follows(o2, r2, p, last)
    <3>1. SUFFICES ASSUME before # last PROVE Follows(o2, r2, p, last)
      OBVIOUS
    <3>2. ASSUME NEW k \in Nodes, owner[k] = m, ~ M(k)
          PROVE  rank[k] <= rank[p] \/ rank[last] <= rank[k]
      <4>1. rank[k] <= rank[p] \/ rank[first] <= rank[k]
        BY <2>1, <3>2 DEF Follows
      <4> QED
        BY <1>0, <2>0, <3>2, <4>1 DEF M
    <3>3. rank[p] < rank[last]
      BY <1>0, <2>0, <2>1
    <3> QED
      BY <1>0, <2>1, <2>4, <2>8, <3>1, <3>2, <3>3
  <2>10. ASSUME NEW n \in Nodes \ {b, back, p}, NEW s \in Nodes \ {before, first, last},
                owner[n] # NULL, Follows(owner, rank, n, s)
         PROVE  Follows(o2, r2, n, s)
    <3>1. owner[s] = owner[n] /\ rank[n] < rank[s]
      BY <2>10 DEF Follows
    <3>2. M(n) <=> M(s)
      <4>1. ASSUME owner[n] = m
            PROVE  /\ rank[first] <= rank[n] \/ rank[s] <= rank[first]
                   /\ rank[last] <= rank[n] \/ rank[s] <= rank[last]
                   /\ rank[s] # rank[first] /\ rank[s] # rank[last]
        <5>1. /\ rank[first] <= rank[n] \/ rank[s] <= rank[first]
              /\ rank[last] <= rank[n] \/ rank[s] <= rank[last]
          BY <1>0, <2>10, <4>1 DEF Follows
        <5>2. rank[s] # rank[first] /\ rank[s] # rank[last]
          BY <1>0, <2>10, <3>1, <4>1 DEF Placed
        <5> QED
          BY <5>1, <5>2
      <4>2. CASE owner[n] = m
        BY <1>0, <2>0, <3>1, <4>1, <4>2 DEF M
      <4>3. CASE owner[n] # m
        BY <3>1, <4>3 DEF M
      <4> QED
        BY <4>2, <4>3
    <3>3. CASE ~ M(n)
      BY <2>8, <2>10, <3>1, <3>2, <3>3 DEF Follows
    <3>4. CASE M(n)
      <4>1. o2[n] = l /\ o2[s] = l /\ r2[n] < r2[s]
        BY <1>1, <1>2, <3>1, <3>2, <3>4
      <4>2. ASSUME NEW k \in Nodes, o2[k] = l
            PROVE  r2[k] <= r2[n] \/ r2[s] <= r2[k]
        <5>1. CASE M(k)
          <6>1. owner[k] = owner[n]
            BY <3>4, <5>1 DEF M
          <6>2. ~ (rank[n] < rank[k]) \/ ~ (rank[k] < rank[s])
            BY <2>0, <2>10, <6>1 DEF Follows
          <6>3. ~ (r2[n] < r2[k]) \/ ~ (r2[k] < r2[s])
            BY <1>2, <3>2, <3>4, <5>1, <6>2
          <6> QED
            BY <2>0, <6>3
        <5>2. CASE ~ M(k)
          <6>1. /\ rank[before] <= rank[k] => r2[s] < r2[k]
                /\ rank[k] < rank[before] => r2[k] < r2[n]
            BY <1>2, <3>2, <3>4, <5>2
          <6> QED
            BY <1>0, <2>0, <6>1
        <5> QED
          BY <5>1, <5>2
      <4> QED
        BY <4>1, <4>2 DEF Follows
    <3> QED
      BY <3>3, <3>4
  <2>11. \A k \in Lists : nx2[TailOf(k)] = NULL /\ pv2[HeadOf(k)] = NULL
    <3>1. \A k \in Lists : nx[TailOf(k)] = NULL /\ pv[HeadOf(k)] = NULL
      BY DEF Linked
    <3>2. ASSUME NEW k \in Lists
          PROVE  TailOf(k) \notin {b, back, p} /\ HeadOf(k) \notin {before, first, last}
      <4>1. HeadOf(k) \notin {before, first, last}
        BY <1>5 DEF Behind
      <4>2. TailOf(k) \notin {back, p} /\ (before # last => TailOf(k) # b)
        BY <1>0, <2>1, <2>2, <2>3, <3>1, NodeFacts
      <4> QED
        BY <4>1, <4>2
    <3> QED
      BY <1>5, <3>1, <3>2
  <2>12. o2[first] = l /\ o2[before] = l /\ o2[last] = m /\ o2[p] = m /\ o2[b] = l /\ o2[back] = l
    BY <1>0, <1>1, <2>1, <2>2, <2>3, <2>4
  <2>13. b # back /\ p # back /\ first # before /\ first # last
    BY <1>0, <2>1, <2>2, <2>3, <2>4
  <2>14. ASSUME NEW n \in Nodes, o2[n] # NULL, n # TailOf(o2[n])
         PROVE  nx2[n] \in Nodes /\ Follows(o2, r2, n, nx2[n]) /\ pv2[nx2[n]] = n
    <3>1. CASE n = b
      BY <1>0, <2>6, <2>13, <3>1
    <3>2. CASE n = back
      BY <1>0, <2>7, <2>13, <3>2
    <3>3. CASE n = p /\ n # b
      BY <1>0, <2>9, <2>13, <3>3
    <3>4. CASE n \notin {b, back, p}
      <4>1. /\ owner[n] # NULL /\ n # TailOf(owner[n])
        <5>1. CASE M(n)
          BY <1>0, <1>5, <5>1 DEF M
        <5>2. CASE ~ M(n)
          BY <1>1, <2>14, <5>2
        <5> QED
          BY <5>1, <5>2
      <4>2. nx[n] \in Nodes /\ Follows(owner, rank, n, nx[n]) /\ pv[nx[n]] = n
        BY <4>1 DEF Linked
      <4>3. nx[n] \notin {before, first, last}
        BY <3>4, <4>2
      <4>4. nx2[n] = nx[n] /\ pv2[nx[n]] = pv[nx[n]]
        BY <3>4, <4>2, <4>3
      <4> QED
        BY <2>10, <3>4, <4>1, <4>2, <4>3, <4>4
    <3> QED
      BY <3>1, <3>2, <3>3, <3>4
  <2>15. ASSUME NEW n \in Nodes, o2[n] # NULL, n # HeadOf(o2[n])
         PROVE  pv2[n] \in Nodes /\ Follows(o2, r2, pv2[n], n) /\ nx2[pv2[n]] = n
    <3>1. CASE n = first
      BY <1>0, <2>3, <2>6, <2>13, <3>1
    <3>2. CASE n = before
      BY <1>0, <2>2, <2>7, <2>13, <3>2
    <3>3. CASE n = last /\ n # before
      BY <1>0, <2>1, <2>3, <2>9, <2>13, <3>3
    <3>4. CASE n \notin {before, first, last}
      <4>1. /\ owner[n] # NULL /\ n # HeadOf(owner[n])
        <5>1. CASE M(n)
          BY <1>0, <1>5, <5>1 DEF M
        <5>2. CASE ~ M(n)
          BY <1>1, <2>15, <5>2
        <5> QED
          BY <5>1, <5>2
      <4>2. /\ pv[n] \in Nodes /\ Follows(owner, rank, pv[n], n) /\ nx[pv[n]] = n
            /\ owner[pv[n]] # NULL
        BY <4>1 DEF Linked, Follows
      <4>3. pv[n] \notin {b, back, p}
        BY <2>1, <2>2, <2>3, <3>4, <4>2
      <4>4. pv2[n] = pv[n] /\ nx2[pv[n]] = nx[pv[n]]
        BY <3>4, <4>2, <4>3
      <4> QED
        BY <2>10, <3>4, <4>2, <4>3, <4>4
    <3> QED
      BY <3>1, <3>2, <3>3, <3>4
  <2> QED
    BY <2>11, <2>14, <2>15 DEF Linked
<1> QED
  BY <1>4, <1>7, <1>8

(* list_reverse: the elements of one list get the opposite ranks.           *)
LEMMA ReverseOrder ==
  ASSUME NEW owner, NEW rank, NEW nx, NEW pv,
         Placed(owner, rank), Linked(owner, rank, nx, pv), NEW l \in Lists,
         NEW head, head = HeadOf(l), NEW tail, tail = TailOf(l),
         NEW back, back = nx[head], back # tail, NEW front, front = pv[tail],
         NEW nx2 \in [Nodes -> Nodes \cup {NULL}], NEW pv2 \in [Nodes -> Nodes \cup {NULL}],
         \A n \in Nodes : nx2[n] = IF n = head THEN front ELSE IF n = back THEN tail
                                   ELSE IF owner[n] = l /\ n # tail THEN pv[n] ELSE nx[n],
         \A n \in Nodes : pv2[n] = IF n = tail THEN back ELSE IF n = front THEN head
                                   ELSE IF owner[n] = l /\ n # head THEN nx[n] ELSE pv[n]
  PROVE  \E rank2 \in [Nodes -> Int] : Placed(owner, rank2) /\ Linked(owner, rank2, nx2, pv2)
<1> DEFINE rank2 == [n \in Nodes |->
             IF owner[n] # l THEN rank[n] ELSE IF n = head THEN - rank[tail]
             ELSE IF n = tail THEN - rank[head] ELSE - rank[n]]
<1>0. /\ head \in Nodes /\ tail \in Nodes /\ head # tail /\ owner[head] = l /\ owner[tail] = l
      /\ l # NULL /\ owner \in [Nodes -> Lists \cup {NULL}] /\ rank \in [Nodes -> Int]
      /\ \A n \in Nodes : rank[n] \in Int
  BY NodeFacts DEF Placed
<1>1. PICK r2 \in [Nodes -> Int] :
        /\ \A n \in Nodes : owner[n] # l => r2[n] = rank[n]
        /\ r2[head] = - rank[tail] /\ r2[tail] = - rank[head]
        /\ \A n \in Nodes \ {head, tail} : owner[n] = l => r2[n] = - rank[n]
  <2>1. rank2 \in [Nodes -> Int]
    BY <1>0
  <2> QED
    BY <1>0, <2>1
<1>2. \A n \in Nodes : owner[n] = l /\ n \notin {head, tail} =>
        rank[head] < rank[n] /\ rank[n] < rank[tail]
  BY <1>0, ListNodes
<1>3. rank[head] < rank[tail]
  BY <1>0, ListNodes
<1>4. /\ back \in Nodes \ {head, tail} /\ owner[back] = l /\ Follows(owner, rank, head, back)
      /\ pv[back] = head
      /\ front \in Nodes \ {head, tail} /\ owner[front] = l /\ Follows(owner, rank, front, tail)
      /\ nx[front] = tail
  <2>1. /\ back \in Nodes /\ owner[back] = l /\ Follows(owner, rank, head, back) /\ pv[back] = head
    BY <1>0 DEF Linked, Follows
  <2>2. /\ front \in Nodes /\ owner[front] = l /\ Follows(owner, rank, front, tail) /\ nx[front] = tail
    BY <1>0 DEF Linked, Follows
  <2>3. back # head /\ front # tail
    BY <1>0, <2>1, <2>2 DEF Follows
  <2>4. front # head
    BY <1>0, <2>2
  <2> QED
    BY <2>1, <2>2, <2>3, <2>4
<1>5. Placed(owner, r2)
  <2>1. \A k \in Lists : owner[HeadOf(k)] = k /\ owner[TailOf(k)] = k
    BY DEF Placed
  <2>2. ASSUME NEW n \in Nodes, owner[n] # NULL
        PROVE  r2[HeadOf(owner[n])] <= r2[n] /\ r2[n] <= r2[TailOf(owner[n])]
    <3>1. CASE owner[n] = l
      BY <1>0, <1>1, <1>2, <1>3, <3>1
    <3>2. CASE owner[n] # l
      <4>1. owner[n] \in Lists
        BY <2>2 DEF Placed
      <4>2. /\ HeadOf(owner[n]) \in Nodes /\ owner[HeadOf(owner[n])] = owner[n]
            /\ TailOf(owner[n]) \in Nodes /\ owner[TailOf(owner[n])] = owner[n]
        BY <2>1, <4>1, NodeFacts
      <4> QED
        BY <1>1, <2>2, <3>2, <4>2 DEF Placed
    <3> QED
      BY <3>1, <3>2
  <2>3. ASSUME NEW n \in Nodes, NEW m \in Nodes, owner[n] # NULL, owner[n] = owner[m], r2[n] = r2[m]
        PROVE  n = m
    <3>1. CASE owner[n] = l
      <4>0. owner[m] = l
        BY <2>3, <3>1
      <4>1. n \in {head, tail} <=> m \in {head, tail}
        <5>1. \A k \in Nodes \ {head, tail} : owner[k] = l => r2[head] < r2[k] /\ r2[k] < r2[tail]
          BY <1>0, <1>1, <1>2
        <5>2. r2[head] \in Int /\ r2[tail] \in Int
          BY <1>0
        <5> QED
          BY <2>3, <3>1, <4>0, <5>1, <5>2
      <4>2. CASE n \in {head, tail}
        BY <1>0, <1>1, <1>3, <2>3, <4>1, <4>2
      <4>3. CASE n \notin {head, tail}
        <5>1. - rank[n] = - rank[m]
          <6>1. r2[n] = - rank[n] /\ r2[m] = - rank[m]
            BY <1>1, <3>1, <4>0, <4>1, <4>3
          <6> QED
            BY <2>3, <6>1
        <5>2. rank[n] = rank[m]
          BY <1>0, <5>1
        <5> QED
          BY <2>3, <5>2 DEF Placed
      <4> QED
        BY <4>2, <4>3
    <3>2. CASE owner[n] # l
      BY <1>1, <2>3, <3>2 DEF Placed
    <3> QED
      BY <3>1, <3>2
  <2> QED
    BY <2>1, <2>2, <2>3 DEF Placed
<1>6. ASSUME NEW n \in Nodes \ {head, tail}, NEW m \in Nodes \ {head, tail}, owner[n] = l,
             Follows(owner, rank, n, m)
      PROVE  Follows(owner, r2, m, n)
  <2>1. owner[m] = l /\ r2[m] < r2[n]
    BY <1>0, <1>1, <1>6 DEF Follows
  <2>2. ASSUME NEW k \in Nodes, owner[k] = l
        PROVE  r2[k] <= r2[m] \/ r2[n] <= r2[k]
    <3>1. CASE k \in {head, tail}
      BY <1>0, <1>1, <1>2, <1>6, <2>1, <3>1
    <3>2. CASE k \notin {head, tail}
      <4>1. rank[k] <= rank[n] \/ rank[m] <= rank[k]
        BY <1>6, <2>2 DEF Follows
      <4>2. r2[k] = - rank[k] /\ r2[n] = - rank[n] /\ r2[m] = - rank[m]
        BY <1>1, <1>6, <2>1, <2>2, <3>2
      <4> QED
        BY <1>0, <4>1, <4>2
    <3> QED
      BY <3>1, <3>2
  <2> QED
    BY <1>6, <2>1, <2>2 DEF Follows
<1>7. Follows(owner, r2, head, front)
  <2>1. r2[head] < r2[front]
    BY <1>0, <1>1, <1>2, <1>4
  <2>2. ASSUME NEW k \in Nodes, owner[k] = l
        PROVE  r2[k] <= r2[head] \/ r2[front] <= r2[k]
    <3>1. CASE k \in {head, tail}
      BY <1>0, <1>1, <1>2, <1>4, <3>1
    <3>2. CASE k \notin {head, tail}
      <4>1. rank[k] <= rank[front]
        BY <1>0, <1>2, <1>4, <2>2, <3>2 DEF Follows
      <4>2. r2[k] = - rank[k] /\ r2[front] = - rank[front]
        BY <1>1, <1>4, <2>2, <3>2
      <4> QED
        BY <1>0, <1>4, <4>1, <4>2
    <3> QED
      BY <3>1, <3>2
  <2> QED
    BY <1>0, <1>4, <2>1, <2>2 DEF Follows
<1>8. Follows(owner, r2, back, tail)
  <2>1. r2[back] < r2[tail]
    BY <1>0, <1>1, <1>2, <1>4
  <2>2. ASSUME NEW k \in Nodes, owner[k] = l
        PROVE  r2[k] <= r2[back] \/ r2[tail] <= r2[k]
    <3>1. CASE k \in {head, tail}
      BY <1>0, <1>1, <1>2, <1>4, <3>1
    <3>2. CASE k \notin {head, tail}
      <4>1. rank[back] <= rank[k]
        BY <1>0, <1>2, <1>4, <2>2, <3>2 DEF Follows
      <4>2. r2[k] = - rank[k] /\ r2[back] = - rank[back]
        BY <1>1, <1>4, <2>2, <3>2
      <4> QED
        BY <1>0, <1>4, <4>1, <4>2
    <3> QED
      BY <3>1, <3>2
  <2> QED
    BY <1>0, <1>4, <2>1, <2>2 DEF Follows
<1>9. \A k \in Lists : nx2[TailOf(k)] = NULL /\ pv2[HeadOf(k)] = NULL
  <2>1. ASSUME NEW k \in Lists
        PROVE  nx2[TailOf(k)] = NULL /\ pv2[HeadOf(k)] = NULL
    <3>1. /\ nx[TailOf(k)] = NULL /\ pv[HeadOf(k)] = NULL
          /\ TailOf(k) \in Nodes /\ HeadOf(k) \in Nodes
          /\ owner[TailOf(k)] = k /\ owner[HeadOf(k)] = k
          /\ TailOf(k) # HeadOf(l) /\ HeadOf(k) # TailOf(l)
      BY NodeFacts DEF Linked, Placed
    <3> QED
      BY <1>4, <3>1
  <2> QED
    BY <2>1
<1>10. ASSUME NEW n \in Nodes, owner[n] # NULL, n # TailOf(owner[n])
       PROVE  nx2[n] \in Nodes /\ Follows(owner, r2, n, nx2[n]) /\ pv2[nx2[n]] = n
  <2>1. CASE n = head
    BY <1>0, <1>4, <1>7, <2>1
  <2>2. CASE n = back
    BY <1>0, <1>4, <1>8, <2>2
  <2>3. CASE owner[n] = l /\ n \notin {head, back}
    <3>1. nx2[n] = pv[n] /\ n # tail
      BY <1>10, <2>3
    <3>2. pv[n] \in Nodes /\ Follows(owner, rank, pv[n], n) /\ nx[pv[n]] = n /\ owner[pv[n]] = l
      BY <1>0, <1>10, <2>3 DEF Linked, Follows
    <3>3. pv[n] \notin {head, tail, front}
      BY <1>0, <1>2, <1>3, <1>4, <2>3, <3>1, <3>2 DEF Follows
    <3>4. Follows(owner, r2, n, pv[n])
      BY <1>6, <2>3, <3>1, <3>2, <3>3
    <3> QED
      BY <3>1, <3>2, <3>3, <3>4
  <2>4. CASE owner[n] # l
    <3>1. /\ nx[n] \in Nodes /\ Follows(owner, rank, n, nx[n]) /\ pv[nx[n]] = n
          /\ owner[nx[n]] = owner[n]
      BY <1>10 DEF Linked, Follows
    <3>2. nx2[n] = nx[n] /\ pv2[nx[n]] = pv[nx[n]]
      BY <1>0, <1>4, <2>4, <3>1
    <3>3. Follows(owner, r2, n, nx[n])
      BY <1>1, <2>4, <3>1 DEF Follows
    <3> QED
      BY <3>1, <3>2, <3>3
  <2> QED
    BY <2>1, <2>2, <2>3, <2>4
<1>11. ASSUME NEW n \in Nodes, owner[n] # NULL, n # HeadOf(owner[n])
       PROVE  pv2[n] \in Nodes /\ Follows(owner, r2, pv2[n], n) /\ nx2[pv2[n]] = n
  <2>1. CASE n = tail
    BY <1>0, <1>4, <1>8, <2>1
  <2>2. CASE n = front
    BY <1>0, <1>4, <1>7, <2>2
  <2>3. CASE owner[n] = l /\ n \notin {tail, front}
    <3>1. pv2[n] = nx[n] /\ n # head
      BY <1>11, <2>3
    <3>2. nx[n] \in Nodes /\ Follows(owner, rank, n, nx[n]) /\ pv[nx[n]] = n /\ owner[nx[n]] = l
      BY <1>0, <1>11, <2>3 DEF Linked, Follows
    <3>3. nx[n] \notin {head, tail, back}
      BY <1>0, <1>2, <1>3, <1>4, <2>3, <3>1, <3>2 DEF Follows
    <3>4. Follows(owner, r2, nx[n], n)
      BY <1>6, <2>3, <3>1, <3>2, <3>3
    <3> QED
      BY <3>1, <3>2, <3>3, <3>4
  <2>4. CASE owner[n] # l
    <3>1. /\ pv[n] \in Nodes /\ Follows(owner, rank, pv[n], n) /\ nx[pv[n]] = n
          /\ owner[pv[n]] = owner[n]
      BY <1>11 DEF Linked, Follows
    <3>2. pv2[n] = pv[n] /\ nx2[pv[n]] = nx[pv[n]]
      BY <1>0, <1>4, <2>4, <3>1
    <3>3. Follows(owner, r2, pv[n], n)
      BY <1>1, <2>4, <3>1 DEF Follows
    <3> QED
      BY <3>1, <3>2, <3>3
  <2> QED
    BY <2>1, <2>2, <2>3, <2>4
<1>12. Linked(owner, r2, nx2, pv2)
  BY <1>9, <1>10, <1>11 DEF Linked
<1> QED
  BY <1>5, <1>12

----------------------------------------------------------------------------
(* The walk along the next links                                            *)

(* The pair of a number and a larger one is in the relation.                *)
LEMMA LessThanPair ==
  ASSUME NEW k \in Nat, NEW m \in Nat, k < m
  PROVE  <<k, m>> \in OpToRel(<, Nat)
<1>1. OpToRel(<, Nat) = { ss \in Nat \X Nat : ss[1] < ss[2] }
  BY Zenon DEF OpToRel
<1>2. <<k, m>> \in { ss \in Nat \X Nat : ss[1] < ss[2] }
  OBVIOUS
<1> QED
  BY <1>1, <1>2, Zenon

(* A set of natural numbers that is not empty has a least element.          *)
LEMMA LeastExists ==
  ASSUME NEW S \in SUBSET Nat, S # {}
  PROVE  \E m \in S : \A k \in S : m <= k
<1> DEFINE R == OpToRel(<, Nat)
<1>1. IsWellFoundedOn(R, Nat)
  BY NatLessThanWellFounded, Zenon
<1>2. PICK m \in S : \A k \in S : ~ (<<k, m>> \in R)
  <2> HIDE DEF R
  <2> QED
    BY <1>1, WFMin, Zenon
<1>3. \A k \in S : ~ (k < m)
  BY <1>2, LessThanPair, Zenon
<1> QED
  BY <1>3

(* What holds of 0 and goes from each number to the next one holds of all:  *)
(* S has the numbers up to C of which it holds.                             *)
LEMMA UpTo ==
  ASSUME NEW C \in Nat, NEW S, 0 \in S, \A k \in 0 .. C - 1 : k \in S => k + 1 \in S
  PROVE  0 .. C \subseteq S
<1> DEFINE T == { k \in 0 .. C : k \notin S }
<1>1. SUFFICES ASSUME T # {} PROVE FALSE
  OBVIOUS
<1>2. T \in SUBSET Nat
  OBVIOUS
<1>3. PICK k \in T : \A j \in T : k <= j
  <2> HIDE DEF T
  <2> QED
    BY <1>1, <1>2, LeastExists
<1>4. k \in 1 .. C
  OBVIOUS
<1>5. k - 1 \in 0 .. C - 1 /\ k - 1 \notin T
  BY <1>3, <1>4
<1> QED
  BY <1>4, <1>5

(* What Interior goes to from a node.                                       *)
Advance(n) == IF n \in Elems THEN next[n] ELSE n

(* f goes C times from a.                                                   *)
IsWalk(f, C, a) == f = [k \in 0 .. C |-> IF k = 0 THEN a ELSE Advance(f[k - 1])]

(* A walk of any length from a node exists.                                 *)
LEMMA WalkExists ==
  ASSUME NEW C \in Nat, NEW a
  PROVE  \E f : IsWalk(f, C, a)
<1> DEFINE S == { c \in 0 .. C : \E f : IsWalk(f, c, a) }
<1>1. 0 \in S
  <2> DEFINE f == [k \in 0 .. 0 |-> a]
  <2>1. f = [k \in 0 .. 0 |-> IF k = 0 THEN a ELSE Advance(f[k - 1])]
    OBVIOUS
  <2>2. 0 \in 0 .. C
    OBVIOUS
  <2> HIDE DEF f
  <2>3. IsWalk(f, 0, a)
    BY <2>1 DEF IsWalk
  <2> QED
    BY <2>2, <2>3
<1>2. ASSUME NEW c \in 0 .. C - 1, c \in S
      PROVE  c + 1 \in S
  <2>1. PICK f : f = [k \in 0 .. c |-> IF k = 0 THEN a ELSE Advance(f[k - 1])]
    BY <1>2 DEF IsWalk
  <2> DEFINE g == [k \in 0 .. c + 1 |-> IF k = c + 1 THEN Advance(f[c]) ELSE f[k]]
  <2>2. ASSUME NEW k \in 0 .. c + 1
        PROVE  g[k] = IF k = 0 THEN a ELSE Advance(g[k - 1])
    <3>1. CASE k = c + 1
      <4>1. g[k] = Advance(f[c]) /\ k # 0 /\ k - 1 = c /\ c \in 0 .. c + 1 /\ c # c + 1
        BY <3>1
      <4>2. g[c] = f[c]
        BY <4>1
      <4> QED
        BY <4>1, <4>2
    <3>2. CASE k # c + 1
      <4>1. k \in 0 .. c /\ g[k] = f[k]
        BY <3>2
      <4>2. f[k] = IF k = 0 THEN a ELSE Advance(f[k - 1])
        BY <2>1, <4>1
      <4>3. k # 0 => k - 1 \in 0 .. c + 1 /\ k - 1 # c + 1
        BY <4>1
      <4>4. k # 0 => g[k - 1] = f[k - 1]
        BY <4>3
      <4> QED
        BY <4>1, <4>2, <4>4
    <3> QED
      BY <3>1, <3>2
  <2>3. g = [k \in 0 .. c + 1 |-> g[k]]
    OBVIOUS
  <2>4. g = [k \in 0 .. c + 1 |-> IF k = 0 THEN a ELSE Advance(g[k - 1])]
    <3> HIDE DEF g
    <3> QED
      BY <2>2, <2>3
  <2>5. c + 1 \in 0 .. C
    OBVIOUS
  <2> HIDE DEF g
  <2>6. IsWalk(g, c + 1, a)
    BY <2>4 DEF IsWalk
  <2> QED
    BY <2>5, <2>6
<1>3. C \in 0 .. C
  OBVIOUS
<1>4. 0 .. C \subseteq S
  <2> HIDE DEF S
  <2> QED
    BY <1>1, <1>2, UpTo
<1> QED
  BY <1>3, <1>4

(* Interior is such a walk, cut at the first node that is not an element.   *)
LEMMA InteriorIsAWalk ==
  ASSUME NEW l \in Lists
  PROVE  \E f : \E C \in Nat :
           /\ C = Cardinality(Elems)
           /\ f[0] = list_begin(l)
           /\ \A k \in 1 .. C : f[k] = Advance(f[k - 1])
           /\ Interior(l) = [i \in 1 .. Cardinality({ k \in 0 .. C - 1 : f[k] \in Elems }) |-> f[i - 1]]
<1> DEFINE C == Cardinality(Elems)
           node[k \in 0 .. C] == IF k = 0 THEN list_begin(l)
                                 ELSE LET n == node[k - 1] IN IF n \in Elems THEN next[n] ELSE n
<1>1. C \in Nat
  BY ListAssumption, FS_CardinalityType
<1>2. Interior(l) = [i \in 1 .. Cardinality({ k \in 0 .. C - 1 : node[k] \in Elems }) |-> node[i - 1]]
  BY DEF Interior
<1>3. \E f : f = [k \in 0 .. C |-> IF k = 0 THEN list_begin(l) ELSE Advance(f[k - 1])]
  <2> HIDE DEF C
  <2>1. \E f : IsWalk(f, C, list_begin(l))
    BY <1>1, WalkExists
  <2> QED
    BY <2>1, Zenon DEF IsWalk
<1>4. node = [k \in 0 .. C |-> IF k = 0 THEN list_begin(l)
                               ELSE LET n == node[k - 1] IN IF n \in Elems THEN next[n] ELSE n]
  <2> HIDE DEF C
  <2> QED
    BY <1>3, Zenon DEF Advance
<1>5. node[0] = list_begin(l) /\ \A k \in 1 .. C : node[k] = Advance(node[k - 1])
  <2> HIDE DEF C, node
  <2> QED
    BY <1>1, <1>4 DEF Advance
<1> HIDE DEF node, C
<1> QED
  BY <1>1, <1>2, <1>5 DEF C

(* Where the links of l are those of an order, Interior goes through the    *)
(* elements of l by their ranks.                                            *)
LEMMA InteriorIsOrder ==
  ASSUME NEW owner, NEW rank, NEW nx, NEW pv,
         Placed(owner, rank), Linked(owner, rank, nx, pv), NEW l \in Lists,
         \A n \in Nodes : owner[n] = l => next[n] = nx[n]
  PROVE  \E s \in Seq(Elems) :
           /\ s = Interior(l)
           /\ \A i \in DOMAIN s : owner[s[i]] = l
           /\ \A e \in Elems : owner[e] = l => \E i \in DOMAIN s : s[i] = e
           /\ \A i, j \in DOMAIN s : i < j => rank[s[i]] < rank[s[j]]
           /\ list_begin(l) = IF Len(s) = 0 THEN TailOf(l) ELSE s[1]
           /\ \A i \in DOMAIN s : next[s[i]] = IF i = Len(s) THEN TailOf(l) ELSE s[i + 1]
<1>1. PICK f : \E C \in Nat :
           /\ C = Cardinality(Elems)
           /\ f[0] = list_begin(l)
           /\ \A k \in 1 .. C : f[k] = Advance(f[k - 1])
           /\ Interior(l) = [i \in 1 .. Cardinality({ k \in 0 .. C - 1 : f[k] \in Elems }) |-> f[i - 1]]
  BY InteriorIsAWalk
<1>2. PICK C \in Nat :
           /\ C = Cardinality(Elems)
           /\ f[0] = list_begin(l)
           /\ \A k \in 1 .. C : f[k] = Advance(f[k - 1])
           /\ Interior(l) = [i \in 1 .. Cardinality({ k \in 0 .. C - 1 : f[k] \in Elems }) |-> f[i - 1]]
  BY <1>1
<1> DEFINE head == HeadOf(l)
           tail == TailOf(l)
<1>3. /\ head \in Nodes /\ tail \in Nodes /\ owner[head] = l /\ owner[tail] = l /\ l # NULL
      /\ head # tail /\ head \notin Elems /\ tail \notin Elems /\ Elems \subseteq Nodes
      /\ \A n \in Nodes : rank[n] \in Int
  BY NodeFacts DEF Placed
<1>4. ASSUME NEW n \in Nodes, owner[n] = l, n # tail
      PROVE  /\ next[n] \in Nodes /\ owner[next[n]] = l /\ next[n] # head
             /\ rank[n] < rank[next[n]]
             /\ \A m \in Nodes : owner[m] = l => rank[m] <= rank[n] \/ rank[next[n]] <= rank[m]
  <2>1. next[n] \in Nodes /\ Follows(owner, rank, n, next[n])
    BY <1>3, <1>4 DEF Linked
  <2>2. owner[next[n]] = l /\ rank[n] < rank[next[n]]
    BY <1>4, <2>1 DEF Follows
  <2>3. rank[head] <= rank[n]
    BY <1>3, <1>4 DEF Placed
  <2>4. next[n] # head
    BY <1>3, <2>2, <2>3
  <2> QED
    BY <1>4, <2>1, <2>2, <2>4 DEF Follows
<1>5. /\ f[0] \in Nodes /\ owner[f[0]] = l /\ f[0] # head
      /\ \A m \in Nodes : owner[m] = l /\ m # head => rank[f[0]] <= rank[m]
  <2>1. f[0] = next[head]
    BY <1>2 DEF list_begin
  <2>2. ASSUME NEW m \in Nodes, owner[m] = l, m # head
        PROVE  ~ (rank[m] <= rank[head])
    BY <1>3, <2>2, ListNodes
  <2> QED
    BY <1>3, <1>4, <2>1, <2>2
(* The walk stays in the list.                                              *)
<1>6. \A k \in 0 .. C : f[k] \in Nodes /\ owner[f[k]] = l /\ f[k] # head
  <2> DEFINE S == { k \in 0 .. C : f[k] \in Nodes /\ owner[f[k]] = l /\ f[k] # head }
  <2>1. 0 \in S
    BY <1>5
  <2>2. ASSUME NEW k \in 0 .. C - 1, k \in S
        PROVE  k + 1 \in S
    <3>1. k + 1 \in 1 .. C /\ k + 1 - 1 = k
      OBVIOUS
    <3>2. f[k + 1] = Advance(f[k])
      BY <1>2, <3>1
    <3>3. f[k] \in Nodes /\ owner[f[k]] = l /\ f[k] # head
      BY <2>2
    <3>4. f[k + 1] \in Nodes /\ owner[f[k + 1]] = l /\ f[k + 1] # head
      BY <1>3, <1>4, <3>2, <3>3 DEF Advance
    <3> QED
      BY <3>1, <3>4
  <2> HIDE DEF S
  <2>3. 0 .. C \subseteq S
    BY <2>1, <2>2, UpTo
  <2> QED
    BY <2>3 DEF S
<1>7. \A k \in 0 .. C : f[k] \notin Elems => f[k] = tail
  BY <1>3, <1>6, ListNodes
(* While it meets elements their ranks grow.                                *)
<1>8. \A j \in 0 .. C : f[j] \in Elems =>
        \A i \in 0 .. j - 1 : f[i] \in Elems /\ rank[f[i]] < rank[f[j]]
  <2> DEFINE S == { j \in 0 .. C : f[j] \in Elems =>
                      \A i \in 0 .. j - 1 : f[i] \in Elems /\ rank[f[i]] < rank[f[j]] }
  <2>1. 0 \in S
    OBVIOUS
  <2>2. ASSUME NEW j \in 0 .. C - 1, j \in S
        PROVE  j + 1 \in S
    <3>1. j + 1 \in 0 .. C /\ j + 1 \in 1 .. C /\ j + 1 - 1 = j /\ j \in 0 .. C
      OBVIOUS
    <3>2. f[j + 1] = Advance(f[j])
      BY <1>2, <3>1
    <3>3. ASSUME f[j + 1] \in Elems, NEW i \in 0 .. (j + 1) - 1
          PROVE  f[i] \in Elems /\ rank[f[i]] < rank[f[j + 1]]
      <4>1. f[j] \in Elems
        BY <3>2, <3>3 DEF Advance
      <4>2. rank[f[j]] < rank[f[j + 1]]
        BY <1>3, <1>4, <1>6, <3>1, <3>2, <4>1 DEF Advance
      <4>3. i = j \/ i \in 0 .. j - 1
        OBVIOUS
      <4>4. i \in 0 .. j - 1 => f[i] \in Elems /\ rank[f[i]] < rank[f[j]]
        BY <2>2, <4>1
      <4>5. rank[f[i]] \in Int /\ rank[f[j]] \in Int /\ rank[f[j + 1]] \in Int
        <5>1. i \in 0 .. C
          OBVIOUS
        <5> QED
          BY <1>3, <1>6, <3>1, <5>1
      <4> QED
        BY <4>1, <4>2, <4>3, <4>4, <4>5
    <3> QED
      BY <3>1, <3>3
  <2> HIDE DEF S
  <2>3. 0 .. C \subseteq S
    BY <2>1, <2>2, UpTo
  <2> QED
    BY <2>3 DEF S
(* There are not enough elements for it to go on for ever.                  *)
<1>9. \E k \in 0 .. C : f[k] \notin Elems
  <2>1. SUFFICES ASSUME \A k \in 0 .. C : f[k] \in Elems PROVE FALSE
    OBVIOUS
  <2> DEFINE g == [k \in 0 .. C |-> f[k]]
  <2>2. g \in [0 .. C -> Elems]
    BY <2>1
  <2>3. IsFiniteSet(0 .. C) /\ Cardinality(0 .. C) = C + 1
    BY FS_Interval
  <2>4. PICK i, j \in 0 .. C : i # j /\ g[i] = g[j]
    <3>1. Cardinality(Elems) < Cardinality(0 .. C)
      BY <1>2, <2>3
    <3> HIDE DEF g
    <3> QED
      BY <2>2, <2>3, <3>1, ListAssumption, FS_PigeonHole
  <2>5. f[i] = f[j]
    BY <2>4
  <2>6. i \in 0 .. j - 1 \/ j \in 0 .. i - 1
    BY <2>4
  <2>7. rank[f[i]] < rank[f[j]] \/ rank[f[j]] < rank[f[i]]
    BY <1>8, <2>1, <2>6
  <2> QED
    BY <1>3, <1>6, <2>5, <2>7
<1>10. PICK c \in 0 .. C : f[c] \notin Elems /\ \A k \in 0 .. C : f[k] \notin Elems => c <= k
  <2> DEFINE S == { k \in 0 .. C : f[k] \notin Elems }
  <2>1. S \in SUBSET Nat /\ S # {}
    BY <1>9
  <2>2. PICK c \in S : \A k \in S : c <= k
    <3> HIDE DEF S
    <3> QED
      BY <2>1, LeastExists
  <2> QED
    BY <2>2
<1>11. c \in Nat /\ Interior(l) = [i \in 1 .. c |-> f[i - 1]]
  <2>1. ASSUME NEW k \in 0 .. C - 1
        PROVE  f[k] \in Elems <=> k \in 0 .. c - 1
    <3>1. ASSUME k < c PROVE f[k] \in Elems
      BY <1>10, <3>1
    <3>2. ASSUME c <= k, f[k] \in Elems PROVE FALSE
      BY <1>8, <1>10, <3>2
    <3> QED
      BY <3>1, <3>2
  <2>2. { k \in 0 .. C - 1 : f[k] \in Elems } = 0 .. c - 1
    BY <2>1
  <2>3. Cardinality(0 .. c - 1) = c
    BY FS_Interval
  <2>4. PICK d : d = Cardinality({ k \in 0 .. C - 1 : f[k] \in Elems })
    OBVIOUS
  <2>5. Interior(l) = [i \in 1 .. d |-> f[i - 1]]
    BY <1>2, <2>4
  <2>6. d = c
    BY <2>2, <2>3, <2>4, Zenon
  <2> QED
    BY <2>5, <2>6
<1>12. \A i \in 0 .. c - 1 : i \in 0 .. C /\ f[i] \in Elems /\ owner[f[i]] = l
  BY <1>6, <1>10
<1>13. \A i \in 0 .. c - 1 : i + 1 \in 0 .. C /\ f[i + 1] = next[f[i]]
  <2>1. ASSUME NEW i \in 0 .. c - 1
        PROVE  i + 1 \in 0 .. C /\ f[i + 1] = next[f[i]]
    <3>1. i + 1 \in 1 .. C /\ i + 1 - 1 = i
      OBVIOUS
    <3> QED
      BY <1>2, <1>12, <3>1 DEF Advance
  <2> QED
    BY <2>1
(* It meets all elements of the list.                                       *)
<1>14. ASSUME NEW e \in Elems, owner[e] = l
       PROVE  \E i \in 0 .. c - 1 : f[i] = e
  <2> DEFINE S == { k \in 0 .. c : rank[e] <= rank[f[k]] }
  <2>1. c \in S
    <3>1. f[c] = tail
      BY <1>7, <1>10
    <3>2. rank[e] <= rank[tail]
      BY <1>3, <1>14 DEF Placed
    <3> QED
      BY <3>1, <3>2
  <2>2. PICK k \in S : \A j \in S : k <= j
    <3>1. S \in SUBSET Nat
      OBVIOUS
    <3> HIDE DEF S
    <3> QED
      BY <2>1, <3>1, LeastExists
  <2>3. k \in 0 .. c /\ k \in 0 .. C /\ rank[e] <= rank[f[k]]
    OBVIOUS
  <2>4. rank[f[k]] <= rank[e]
    <3>1. CASE k = 0
      BY <1>3, <1>5, <1>14, <3>1
    <3>2. CASE k # 0
      <4>1. k - 1 \in 0 .. c - 1 /\ k - 1 + 1 = k
        BY <2>3, <3>2
      <4>2. k - 1 \notin S
        BY <2>2, <4>1
      <4>3. ~ (rank[e] <= rank[f[k - 1]])
        BY <4>1, <4>2
      <4>4. f[k] = next[f[k - 1]] /\ f[k - 1] \in Elems /\ owner[f[k - 1]] = l
        BY <1>12, <1>13, <4>1
      <4> QED
        BY <1>3, <1>4, <1>14, <4>3, <4>4
    <3> QED
      BY <3>1, <3>2
  <2>5. f[k] = e
    <3>1. f[k] \in Nodes /\ owner[f[k]] = l /\ rank[f[k]] = rank[e]
      BY <1>3, <1>6, <2>3, <2>4
    <3> QED
      BY <1>3, <1>14, <3>1 DEF Placed
  <2>6. k # c
    BY <1>10, <2>5
  <2> QED
    BY <2>3, <2>5, <2>6
<1> DEFINE s == Interior(l)
<1>15. s \in Seq(Elems) /\ Len(s) = c /\ DOMAIN s = 1 .. c /\ \A i \in 1 .. c : s[i] = f[i - 1]
  <2>1. \A i \in 1 .. c : f[i - 1] \in Elems
    BY <1>12
  <2> QED
    BY <1>11, <2>1
<1> HIDE DEF s
<1>16. \A i \in DOMAIN s : owner[s[i]] = l
  BY <1>12, <1>15
<1>17. \A e \in Elems : owner[e] = l => \E i \in DOMAIN s : s[i] = e
  <2>1. ASSUME NEW e \in Elems, owner[e] = l
        PROVE  \E i \in DOMAIN s : s[i] = e
    <3>1. PICK i \in 0 .. c - 1 : f[i] = e
      BY <1>14, <2>1
    <3>2. i + 1 \in 1 .. c /\ i + 1 - 1 = i
      BY <1>10
    <3>3. i + 1 \in DOMAIN s /\ s[i + 1] = e
      BY <1>15, <3>1, <3>2
    <3> QED
      BY <3>3
  <2> QED
    BY <2>1
<1>18. \A i, j \in DOMAIN s : i < j => rank[s[i]] < rank[s[j]]
  <2>1. ASSUME NEW i \in 1 .. c, NEW j \in 1 .. c, i < j
        PROVE  rank[f[i - 1]] < rank[f[j - 1]]
    <3>1. j - 1 \in 0 .. c - 1 /\ j - 1 \in 0 .. C /\ i - 1 \in 0 .. (j - 1) - 1
      BY <1>10, <2>1
    <3> QED
      BY <1>8, <1>12, <3>1
  <2>2. ASSUME NEW i \in 1 .. c, NEW j \in 1 .. c, i < j
        PROVE  rank[s[i]] < rank[s[j]]
    <3>1. s[i] = f[i - 1] /\ s[j] = f[j - 1]
      BY <1>15
    <3> QED
      BY <2>1, <2>2, <3>1
  <2>3. DOMAIN s = 1 .. c
    BY <1>15
  <2> QED
    BY <2>2, <2>3
<1>19. list_begin(l) = IF Len(s) = 0 THEN TailOf(l) ELSE s[1]
  BY <1>2, <1>7, <1>10, <1>15
<1>20. \A i \in DOMAIN s : next[s[i]] = IF i = Len(s) THEN TailOf(l) ELSE s[i + 1]
  <2>1. ASSUME NEW i \in 1 .. c
        PROVE  next[s[i]] = IF i = c THEN TailOf(l) ELSE s[i + 1]
    <3>1. i - 1 \in 0 .. c - 1 /\ i - 1 + 1 = i
      OBVIOUS
    <3>2. next[s[i]] = f[i]
      BY <1>13, <1>15, <3>1
    <3>3. i = c => f[i] = tail
      BY <1>7, <1>10
    <3>4. i # c => i + 1 \in 1 .. c /\ i + 1 - 1 = i
      BY <1>10
    <3> QED
      BY <1>15, <3>2, <3>3, <3>4
  <2> QED
    BY <1>15, <2>1
<1> QED
  BY <1>15, <1>16, <1>17, <1>18, <1>19, <1>20 DEF s

(* Unless reverse runs on l, Interior(l) are the elements of l by rank.     *)
LEMMA InteriorOrder ==
  ASSUME Typed, NEW owner, NEW rank, Ordered(owner, rank),
         NEW l \in Lists, ~ (pc = "reverse" /\ at.list = l)
  PROVE  \E s \in Seq(Elems) :
           /\ s = Interior(l)
           /\ \A i \in DOMAIN s : owner[s[i]] = l
           /\ \A e \in Elems : owner[e] = l => \E i \in DOMAIN s : s[i] = e
           /\ \A i, j \in DOMAIN s : i < j => rank[s[i]] < rank[s[j]]
           /\ list_begin(l) = IF Len(s) = 0 THEN TailOf(l) ELSE s[1]
           /\ \A i \in DOMAIN s : next[s[i]] = IF i = Len(s) THEN TailOf(l) ELSE s[i + 1]
<1>1. Placed(owner, rank) /\ Linked(owner, rank, Forward(owner, rank), Backward(owner, rank))
  BY DEF Ordered
<1>2. \A n \in Nodes : owner[n] = l => next[n] = Forward(owner, rank)[n]
  BY DEF Forward, Turned
<1> HIDE DEF Forward, Backward
<1> QED
  BY <1>1, <1>2, InteriorIsOrder

(* An element is in the list that owns it.                                  *)
LEMMA InIsOwner ==
  ASSUME Typed, NEW owner, NEW rank, Ordered(owner, rank),
         NEW l \in Lists, ~ (pc = "reverse" /\ at.list = l), NEW e \in Elems
  PROVE  In(e, l) <=> owner[e] = l
<1>1. PICK s \in Seq(Elems) :
        /\ s = Interior(l)
        /\ \A i \in DOMAIN s : owner[s[i]] = l
        /\ \A x \in Elems : owner[x] = l => \E i \in DOMAIN s : s[i] = x
  BY InteriorOrder
<1>2. In(e, l) <=> \E i \in DOMAIN s : s[i] = e
  BY <1>1 DEF In
<1> QED
  BY <1>1, <1>2

(* Between calls the elements outside have no owner.                        *)
LEMMA OutsideIsNowhere ==
  ASSUME Typed, NEW owner, NEW rank, Ordered(owner, rank), pc = "idle", NEW e \in Outside
  PROVE  e \in Elems /\ owner[e] = NULL
<1>1. e \in Elems /\ \A l \in Lists : ~ In(e, l)
  BY DEF Outside
<1>2. \A l \in Lists : owner[e] # l
  BY <1>1, InIsOwner
<1>3. owner[e] \in Lists \cup {NULL}
  BY <1>1, NodeFacts DEF Ordered, Placed
<1> QED
  BY <1>1, <1>2, <1>3

(* Unless reverse runs, the links themselves are those of an order, ...     *)
LEMMA PlainOrder ==
  ASSUME IInv, pc # "reverse"
  PROVE  \E owner \in [Nodes -> Lists \cup {NULL}], rank \in [Nodes -> Int] :
           /\ Ordered(owner, rank) /\ Placed(owner, rank)
           /\ Linked(owner, rank, next, prev) /\ Locals(owner, rank)
<1>1. PICK owner \in [Nodes -> Lists \cup {NULL}], rank \in [Nodes -> Int] : Ordered(owner, rank)
  BY DEF IInv
<1>2. Forward(owner, rank) = next /\ Backward(owner, rank) = prev
  BY DEF IInv, Typed, Forward, Backward, Turned
<1> QED
  BY <1>1, <1>2 DEF Ordered

(* ... and a step that leaves them so keeps the invariant.                  *)
LEMMA PlainStep ==
  ASSUME NEW owner \in [Nodes -> Lists \cup {NULL}], NEW rank \in [Nodes -> Int],
         Typed', pc' # "reverse",
         Placed(owner, rank), Linked(owner, rank, next', prev'), Locals(owner, rank)'
  PROVE  IInv'
<1>1. Forward(owner, rank)' = next' /\ Backward(owner, rank)' = prev'
  BY DEF Typed, Forward, Backward, Turned
<1>2. Ordered(owner, rank)'
  BY <1>1 DEF Ordered
<1> QED
  BY <1>2 DEF IInv

(* Empty lists, and all elements nowhere.                                   *)
LEMMA InitOrder == Init => IInv
<1> SUFFICES ASSUME Init PROVE IInv
  OBVIOUS
<1> DEFINE owner == [n \in Nodes |-> IF n \in Elems THEN NULL ELSE n[1]]
           rank == [n \in Nodes |-> IF \E l \in Lists : n = TailOf(l) THEN 1 ELSE 0]
<1>1. /\ \A n \in Nodes : n \notin Elems => n[1] \in Lists
      /\ \A l, m \in Lists : HeadOf(l) # TailOf(m)
  BY NodeFacts
<1>2. PICK o \in [Nodes -> Lists \cup {NULL}], r \in [Nodes -> Int] :
        /\ \A n \in Elems : o[n] = NULL
        /\ \A l \in Lists : o[HeadOf(l)] = l /\ o[TailOf(l)] = l
        /\ \A l \in Lists : r[HeadOf(l)] = 0 /\ r[TailOf(l)] = 1
  <2>1. owner \in [Nodes -> Lists \cup {NULL}] /\ rank \in [Nodes -> Int]
    BY <1>1
  <2>2. \A n \in Elems : owner[n] = NULL
    BY NodeFacts
  <2>3. \A l \in Lists : owner[HeadOf(l)] = l /\ owner[TailOf(l)] = l
    BY NodeFacts
  <2>4. \A l \in Lists : rank[HeadOf(l)] = 0 /\ rank[TailOf(l)] = 1
    BY NodeFacts
  <2> HIDE DEF owner, rank
  <2> QED
    BY <2>1, <2>2, <2>3, <2>4
<1>3. \A n \in Nodes : o[n] # NULL => o[n] \in Lists /\ (n = HeadOf(o[n]) \/ n = TailOf(o[n]))
  BY <1>2, NodeFacts
<1>4. Placed(o, r)
  BY <1>2, <1>3, NodeFacts DEF Placed
<1>5. /\ next \in [Nodes -> Nodes \cup {NULL}] /\ prev \in [Nodes -> Nodes \cup {NULL}]
      /\ \A l \in Lists : /\ next[HeadOf(l)] = TailOf(l) /\ next[TailOf(l)] = NULL
                          /\ prev[TailOf(l)] = HeadOf(l) /\ prev[HeadOf(l)] = NULL
  <2>1. \A n \in Nodes : next[n] = IF \E l \in Lists : n = HeadOf(l) THEN TailOf(n[1]) ELSE NULL
    BY DEF Init
  <2>2. \A n \in Nodes : prev[n] = IF \E l \in Lists : n = TailOf(l) THEN HeadOf(n[1]) ELSE NULL
    BY DEF Init
  <2>3. \A l \in Lists : /\ next[HeadOf(l)] = TailOf(l) /\ next[TailOf(l)] = NULL
                         /\ prev[TailOf(l)] = HeadOf(l) /\ prev[HeadOf(l)] = NULL
    BY <2>1, <2>2, NodeFacts
  <2>4. \A n \in Nodes : next[n] \in Nodes \cup {NULL} /\ prev[n] \in Nodes \cup {NULL}
    BY <2>1, <2>2, NodeFacts
  <2> QED
    BY <2>3, <2>4 DEF Init
<1>6. Linked(o, r, next, prev)
  BY <1>2, <1>3, <1>5, NodeFacts DEF Linked, Follows
<1>7. Typed
  BY <1>5 DEF Init, Typed, LocalsType, NoLocals
<1>8. Forward(o, r) = next /\ Backward(o, r) = prev
  BY <1>5 DEF Init, Forward, Backward, Turned
<1>9. Locals(o, r)
  BY DEF Init, Locals, UniqueLabels, SortLabels
<1> QED
  BY <1>2, <1>4, <1>6, <1>7, <1>8, <1>9 DEF IInv, Ordered

----------------------------------------------------------------------------
(* The list operations as steps                                             *)

(* list_insert, in front of a node that is not a head.                      *)
LEMMA InsertStep ==
  ASSUME Typed, NEW owner, NEW rank, Placed(owner, rank), Linked(owner, rank, next, prev),
         NEW l \in Lists, NEW e \in Elems, owner[e] = NULL,
         NEW before, Behind(owner, l, before), list_insert(before, e)
  PROVE  /\ next' \in Links /\ prev' \in Links
         /\ \E owner2 \in [Nodes -> Lists \cup {NULL}], rank2 \in [Nodes -> Int] :
              /\ Placed(owner2, rank2) /\ Linked(owner2, rank2, next', prev')
              /\ owner2[e] = l /\ SameOrder(owner, rank, owner2, rank2, Nodes \ {e})
<1>1. /\ e \in Nodes /\ before \in Nodes /\ prev[before] \in Nodes
      /\ next \in Links /\ prev \in Links
  BY NodeFacts DEF Typed, Links, list_insert, has_prev
<1>2. next' \in Links /\ prev' \in Links
  BY <1>1 DEF list_insert, Links
<1>3. \A n \in Nodes :
        next'[n] = IF n = prev[before] THEN e ELSE IF n = e THEN before ELSE next[n]
  BY <1>1 DEF list_insert, Links
<1>4. \A n \in Nodes :
        prev'[n] = IF n = before THEN e ELSE IF n = e THEN prev[before] ELSE prev[n]
  BY <1>1 DEF list_insert, Links
<1>5. PICK nx \in Links, pv \in Links : nx = next /\ pv = prev
  BY <1>1
<1>6. PICK nx2 \in Links, pv2 \in Links : nx2 = next' /\ pv2 = prev'
  BY <1>2
<1>7. /\ \A n \in Nodes : nx2[n] = IF n = pv[before] THEN e ELSE IF n = e THEN before ELSE nx[n]
      /\ \A n \in Nodes : pv2[n] = IF n = before THEN e ELSE IF n = e THEN pv[before] ELSE pv[n]
  BY <1>3, <1>4, <1>5, <1>6
<1>8. nx2 \in [Nodes -> Nodes \cup {NULL}] /\ pv2 \in [Nodes -> Nodes \cup {NULL}]
  BY DEF Links
<1>9. Linked(owner, rank, nx, pv)
  BY <1>5
<1>10. \E owner2 \in [Nodes -> Lists \cup {NULL}], rank2 \in [Nodes -> Int] :
         /\ Placed(owner2, rank2) /\ Linked(owner2, rank2, nx2, pv2)
         /\ owner2[e] = l /\ SameOrder(owner, rank, owner2, rank2, Nodes \ {e})
  BY <1>7, <1>8, <1>9, InsertOrder
<1> QED
  BY <1>2, <1>6, <1>10

(* list_remove of an element of a list.                                     *)
LEMMA RemoveStep ==
  ASSUME Typed, NEW owner, NEW rank, Placed(owner, rank), Linked(owner, rank, next, prev),
         NEW e \in Elems, owner[e] # NULL, list_remove(e)
  PROVE  /\ next' \in Links /\ prev' \in Links
         /\ \E owner2 \in [Nodes -> Lists \cup {NULL}] :
              /\ Placed(owner2, rank) /\ Linked(owner2, rank, next', prev')
              /\ owner2[e] = NULL /\ \A n \in Nodes \ {e} : owner2[n] = owner[n]
<1>1. /\ e \in Nodes /\ prev[e] \in Nodes /\ next[e] \in Nodes
      /\ next \in Links /\ prev \in Links
  BY NodeFacts DEF Typed, Links, list_remove, is_interior, has_prev, has_next
<1>2. next' \in Links /\ prev' \in Links
  BY <1>1 DEF list_remove, Links
<1>3. \A n \in Nodes : next'[n] = IF n = prev[e] THEN next[e] ELSE next[n]
  BY <1>1 DEF list_remove, Links
<1>4. \A n \in Nodes : prev'[n] = IF n = next[e] THEN prev[e] ELSE prev[n]
  BY <1>1 DEF list_remove, Links
<1> QED
  BY <1>2, <1>3, <1>4, RemoveOrder DEF Links

(* list_splice of a range that is not empty to a place outside of it.       *)
LEMMA SpliceStep ==
  ASSUME Typed, NEW owner, NEW rank, Placed(owner, rank), Linked(owner, rank, next, prev),
         NEW l \in Lists, NEW m \in Lists, NEW before, NEW first, NEW last,
         Behind(owner, l, before), Behind(owner, m, first), Behind(owner, m, last),
         rank[first] < rank[last],
         l = m => rank[before] < rank[first] \/ rank[last] <= rank[before],
         list_splice(before, first, last)
  PROVE  /\ next' \in Links /\ prev' \in Links
         /\ \E owner2 \in [Nodes -> Lists \cup {NULL}], rank2 \in [Nodes -> Int] :
              /\ Placed(owner2, rank2) /\ Linked(owner2, rank2, next', prev')
              /\ SameOrder(owner, rank, owner2, rank2, Unmoved(owner, rank, m, first, last))
<1> DEFINE p == prev[first]
           back == prev[last]
           b == IF before = last THEN p ELSE prev[before]
<1>1. /\ before \in Nodes /\ first \in Nodes /\ last \in Nodes /\ m # NULL /\ l # NULL
      /\ owner[before] = l /\ before # HeadOf(l)
      /\ owner[first] = m /\ first # HeadOf(m) /\ owner[last] = m /\ last # HeadOf(m)
      /\ next \in Links /\ prev \in Links /\ \A n \in Nodes : rank[n] \in Int
  BY NodeFacts DEF Behind, Typed, Links, Placed
<1>2. /\ p \in Nodes /\ back \in Nodes /\ prev[before] \in Nodes /\ b \in Nodes
      /\ next[back] = last
  BY <1>1 DEF Linked
<1>3. first # last
  BY <1>1
<1>4. /\ next' = [[next EXCEPT ![p] = last] EXCEPT ![back] = before, ![b] = first]
      /\ prev' = [[prev EXCEPT ![last] = p] EXCEPT ![first] = b, ![before] = back]
  <2>1. [prev EXCEPT ![last] = p][before] = b
    BY <1>1 DEF Links
  <2> QED
    BY <1>2, <1>3, <2>1 DEF list_splice
<1> HIDE DEF p, back, b
<1>5. next' \in Links /\ prev' \in Links
  BY <1>1, <1>2, <1>4 DEF Links
<1>6. \A n \in Nodes : next'[n] = IF n = b THEN first ELSE IF n = back THEN before
                                  ELSE IF n = p THEN last ELSE next[n]
  BY <1>1, <1>2, <1>4 DEF Links
<1>7. \A n \in Nodes : prev'[n] = IF n = before THEN back ELSE IF n = first THEN b
                                  ELSE IF n = last THEN p ELSE prev[n]
  BY <1>1, <1>2, <1>4 DEF Links
<1>8. p = prev[first] /\ back = prev[last] /\ b = IF before = last THEN p ELSE prev[before]
  BY DEF p, back, b
<1>9. PICK nx \in Links, pv \in Links : nx = next /\ pv = prev
  BY <1>1
<1>10. PICK nx2 \in Links, pv2 \in Links : nx2 = next' /\ pv2 = prev'
  BY <1>5
<1>11. Spliced(nx, pv, nx2, pv2, before, first, last)
  BY <1>6, <1>7, <1>8, <1>9, <1>10 DEF Spliced
<1>12. Linked(owner, rank, nx, pv)
  BY <1>9
<1>13. \E owner2 \in [Nodes -> Lists \cup {NULL}], rank2 \in [Nodes -> Int] :
         /\ Placed(owner2, rank2) /\ Linked(owner2, rank2, nx2, pv2)
         /\ SameOrder(owner, rank, owner2, rank2, Unmoved(owner, rank, m, first, last))
  BY <1>11, <1>12, SpliceOrder
<1> QED
  BY <1>5, <1>10, <1>13

----------------------------------------------------------------------------
(* Places in a list                                                         *)

(* A node behind the head that is not the tail is an element; what it links *)
(* to comes next.                                                           *)
LEMMA NextBehind ==
  ASSUME NEW owner, NEW rank, NEW nx, NEW pv, Placed(owner, rank), Linked(owner, rank, nx, pv),
         NEW l \in Lists, NEW n, Behind(owner, l, n), n # TailOf(l)
  PROVE  /\ n \in Elems /\ owner[n] = l /\ l # NULL
         /\ nx[n] \in Nodes /\ Behind(owner, l, nx[n]) /\ rank[n] < rank[nx[n]]
         /\ \A m : Behind(owner, l, m) /\ rank[n] < rank[m] => rank[nx[n]] <= rank[m]
         /\ pv[nx[n]] = n
<1>1. n \in Nodes /\ owner[n] = l /\ n # HeadOf(l) /\ l # NULL
  BY NodeFacts DEF Behind
<1>2. n \in Elems
  BY <1>1, ListNodes
<1>3. nx[n] \in Nodes /\ Follows(owner, rank, n, nx[n]) /\ pv[nx[n]] = n
  BY <1>1 DEF Linked
<1>4. owner[nx[n]] = l /\ rank[n] < rank[nx[n]]
  BY <1>1, <1>3 DEF Follows
<1>5. nx[n] # HeadOf(l)
  <2>1. rank[HeadOf(l)] <= rank[n] /\ rank[HeadOf(l)] \in Int /\ rank[n] \in Int
    BY <1>1, NodeFacts DEF Placed
  <2> QED
    BY <1>4, <2>1
<1>6. ASSUME NEW m, Behind(owner, l, m), rank[n] < rank[m]
      PROVE  rank[nx[n]] <= rank[m]
  BY <1>1, <1>3, <1>6 DEF Follows, Behind, Placed
<1> QED
  BY <1>1, <1>2, <1>3, <1>4, <1>5, <1>6 DEF Behind

(* The first node behind the head, and the tail.                            *)
LEMMA Ends ==
  ASSUME NEW owner, NEW rank, NEW nx, NEW pv, Placed(owner, rank), Linked(owner, rank, nx, pv),
         NEW l \in Lists
  PROVE  /\ Behind(owner, l, nx[HeadOf(l)]) /\ Behind(owner, l, TailOf(l))
         /\ nx[HeadOf(l)] # TailOf(l) =>
              /\ pv[TailOf(l)] \in Elems /\ owner[pv[TailOf(l)]] = l
              /\ nx[HeadOf(l)] \in Elems
         /\ pv[nx[HeadOf(l)]] = HeadOf(l)
<1>1. /\ HeadOf(l) \in Nodes /\ TailOf(l) \in Nodes /\ HeadOf(l) # TailOf(l)
      /\ owner[HeadOf(l)] = l /\ owner[TailOf(l)] = l /\ l # NULL
      /\ \A n \in Nodes : rank[n] \in Int
  BY NodeFacts DEF Placed
<1>2. /\ nx[HeadOf(l)] \in Nodes /\ owner[nx[HeadOf(l)]] = l
      /\ rank[HeadOf(l)] < rank[nx[HeadOf(l)]] /\ pv[nx[HeadOf(l)]] = HeadOf(l)
  BY <1>1 DEF Linked, Follows
<1>3. Behind(owner, l, nx[HeadOf(l)]) /\ Behind(owner, l, TailOf(l))
  BY <1>1, <1>2 DEF Behind
<1>4. /\ pv[TailOf(l)] \in Nodes /\ owner[pv[TailOf(l)]] = l
      /\ rank[pv[TailOf(l)]] < rank[TailOf(l)] /\ nx[pv[TailOf(l)]] = TailOf(l)
  BY <1>1 DEF Linked, Follows
<1>5. ASSUME nx[HeadOf(l)] # TailOf(l)
      PROVE  pv[TailOf(l)] \in Elems /\ nx[HeadOf(l)] \in Elems
  <2>1. pv[TailOf(l)] # HeadOf(l) /\ pv[TailOf(l)] # TailOf(l)
    BY <1>1, <1>4, <1>5
  <2> QED
    BY <1>1, <1>2, <1>4, <1>5, <2>1, ListNodes
<1> QED
  BY <1>2, <1>3, <1>4, <1>5

(* Different nodes behind the head have different ranks, the tail the last. *)
LEMMA RankDecides ==
  ASSUME NEW owner, NEW rank, Placed(owner, rank),
         NEW l \in Lists, NEW n, NEW m, Behind(owner, l, n), Behind(owner, l, m)
  PROVE  /\ rank[n] \in Int /\ rank[m] \in Int
         /\ n # m => rank[n] < rank[m] \/ rank[m] < rank[n]
         /\ rank[n] < rank[m] => n # m /\ n # TailOf(l)
<1>1. /\ n \in Nodes /\ m \in Nodes /\ owner[n] = l /\ owner[m] = l /\ l # NULL
      /\ rank[n] \in Int /\ rank[m] \in Int
  BY NodeFacts DEF Behind, Placed
<1>2. rank[n] = rank[m] => n = m
  BY <1>1 DEF Placed
<1>3. rank[m] <= rank[TailOf(l)]
  BY <1>1 DEF Placed
<1> QED
  BY <1>1, <1>2, <1>3

(* The places in front of which callers splice: the elements and the tail.  *)
LEMMA PlacesOrder ==
  ASSUME Typed, NEW owner, NEW rank, Ordered(owner, rank),
         NEW l \in Lists, ~ (pc = "reverse" /\ at.list = l)
  PROVE  \E t : /\ t = Append(Interior(l), list_end(l)) /\ DOMAIN t \subseteq Nat
                /\ \A i \in DOMAIN t : Behind(owner, l, t[i])
                /\ \A i, j \in DOMAIN t : i < j => rank[t[i]] < rank[t[j]]
<1>1. PICK s \in Seq(Elems) :
        /\ s = Interior(l)
        /\ \A i \in DOMAIN s : owner[s[i]] = l
        /\ \A i, j \in DOMAIN s : i < j => rank[s[i]] < rank[s[j]]
  BY InteriorOrder
<1> DEFINE t == Append(s, TailOf(l))
<1>2. /\ DOMAIN t = 1 .. Len(s) + 1 /\ DOMAIN s = 1 .. Len(s) /\ Len(s) \in Nat
      /\ t[Len(s) + 1] = TailOf(l) /\ \A i \in 1 .. Len(s) : t[i] = s[i] /\ s[i] \in Elems
  OBVIOUS
<1>3. Placed(owner, rank) /\ l # NULL
  BY NodeFacts DEF Ordered
<1>4. \A i \in 1 .. Len(s) : owner[t[i]] = l /\ t[i] \in Elems
  BY <1>1, <1>2
<1>5. \A i \in 1 .. Len(s) : Behind(owner, l, t[i]) /\ rank[t[i]] < rank[TailOf(l)]
  BY <1>3, <1>4, NodeFacts, ListNodes DEF Behind
<1>6. Behind(owner, l, TailOf(l))
  BY <1>3, NodeFacts DEF Behind, Placed
<1> HIDE DEF t
<1>7. \A i \in DOMAIN t : Behind(owner, l, t[i])
  <2>1. \A i \in DOMAIN t : i \in 1 .. Len(s) \/ i = Len(s) + 1
    BY <1>2
  <2> QED
    BY <1>2, <1>5, <1>6, <2>1
<1>8. ASSUME NEW i \in DOMAIN t, NEW j \in DOMAIN t, i < j
      PROVE  rank[t[i]] < rank[t[j]]
  <2>1. i \in 1 .. Len(s)
    BY <1>2, <1>8
  <2>2. CASE j = Len(s) + 1
    BY <1>2, <1>5, <2>1, <2>2
  <2>3. CASE j # Len(s) + 1
    <3>1. j \in 1 .. Len(s)
      BY <1>2, <2>3
    <3> QED
      BY <1>1, <1>2, <1>8, <2>1, <3>1
  <2> QED
    BY <2>2, <2>3
<1>9. t = Append(Interior(l), list_end(l))
  BY <1>1 DEF t, list_end
<1>10. DOMAIN t \subseteq Nat
  BY <1>2
<1>11. \A i, j \in DOMAIN t : i < j => rank[t[i]] < rank[t[j]]
  BY <1>8
<1> QED
  BY <1>7, <1>9, <1>10, <1>11

----------------------------------------------------------------------------
(* Calls without a loop                                                     *)

(* Between calls no local matters.                                          *)
LEMMA ToIdle ==
  ASSUME NEW owner \in [Nodes -> Lists \cup {NULL}], NEW rank \in [Nodes -> Int],
         next' \in Links, prev' \in Links, pc' = "idle", at' \in LocalsType,
         Placed(owner, rank), Linked(owner, rank, next', prev')
  PROVE  IInv'
<1>1. Typed' /\ Locals(owner, rank)'
  BY DEF Typed, Links, LocalsType, Locals, UniqueLabels, SortLabels
<1> QED
  BY <1>1, PlainStep

(* insert, push_front and push_back.                                        *)
LEMMA InsertInv == IInv /\ (Insert \/ PushFront \/ PushBack) => IInv'
<1> SUFFICES ASSUME IInv, Insert \/ PushFront \/ PushBack PROVE IInv'
  OBVIOUS
<1>1. pc = "idle" /\ pc' = "idle" /\ at' = at /\ Typed /\ at \in LocalsType
  BY DEF Insert, PushFront, PushBack, Idle, IInv, Typed
<1>2. PICK owner \in [Nodes -> Lists \cup {NULL}], rank \in [Nodes -> Int] :
        Ordered(owner, rank) /\ Placed(owner, rank) /\ Linked(owner, rank, next, prev)
  BY <1>1, PlainOrder
<1>3. PICK l \in Lists, e \in Outside, before \in Nodes :
        Behind(owner, l, before) /\ list_insert(before, e)
  <2>1. CASE Insert
    <3>0. PICK l \in Lists, e \in Outside :
            \E before \in Elems \cup {list_end(l)} :
              (before = list_end(l) \/ In(before, l)) /\ list_insert(before, e)
      BY <2>1 DEF Insert
    <3>1. PICK before \in Elems \cup {list_end(l)} :
            (before = list_end(l) \/ In(before, l)) /\ list_insert(before, e)
      BY <3>0
    <3>2. CASE before = list_end(l)
      <4>1. Behind(owner, l, before)
        BY <1>2, <3>2, Ends DEF list_end
      <4> QED
        BY <3>1, <4>1 DEF Behind
    <3>3. CASE before # list_end(l)
      <4>1. before \in Elems /\ owner[before] = l
        BY <1>1, <1>2, <3>1, <3>3, InIsOwner
      <4> QED
        BY <3>1, <4>1, NodeFacts DEF Behind
    <3> QED
      BY <3>2, <3>3
  <2>2. CASE PushFront
    <3>1. PICK l \in Lists, e \in Outside : list_insert(list_begin(l), e)
      BY <2>2 DEF PushFront
    <3>2. Behind(owner, l, list_begin(l))
      BY <1>2, Ends DEF list_begin
    <3> QED
      BY <3>1, <3>2 DEF Behind
  <2>3. CASE PushBack
    <3>1. PICK l \in Lists, e \in Outside : list_insert(list_end(l), e)
      BY <2>3 DEF PushBack
    <3>2. Behind(owner, l, list_end(l))
      BY <1>2, Ends DEF list_end
    <3> QED
      BY <3>1, <3>2 DEF Behind
  <2> QED
    BY <2>1, <2>2, <2>3
<1>4. e \in Elems /\ owner[e] = NULL
  BY <1>1, <1>2, OutsideIsNowhere
<1>5. /\ next' \in Links /\ prev' \in Links
      /\ \E owner2 \in [Nodes -> Lists \cup {NULL}], rank2 \in [Nodes -> Int] :
           Placed(owner2, rank2) /\ Linked(owner2, rank2, next', prev')
  BY <1>1, <1>2, <1>3, <1>4, InsertStep
<1> QED
  BY <1>1, <1>5, ToIdle

(* remove, pop_front and pop_back.                                          *)
LEMMA RemoveInv == IInv /\ (Remove \/ PopFront \/ PopBack) => IInv'
<1> SUFFICES ASSUME IInv, Remove \/ PopFront \/ PopBack PROVE IInv'
  OBVIOUS
<1>1. pc = "idle" /\ pc' = "idle" /\ at' = at /\ Typed /\ at \in LocalsType
  BY DEF Remove, PopFront, PopBack, Idle, IInv, Typed
<1>2. PICK owner \in [Nodes -> Lists \cup {NULL}], rank \in [Nodes -> Int] :
        Ordered(owner, rank) /\ Placed(owner, rank) /\ Linked(owner, rank, next, prev)
  BY <1>1, PlainOrder
<1>3. PICK e \in Elems : owner[e] # NULL /\ list_remove(e)
  <2>1. CASE Remove
    <3>1. PICK l \in Lists, e \in Elems : In(e, l) /\ list_remove(e)
      BY <2>1 DEF Remove
    <3>2. owner[e] = l
      BY <1>1, <1>2, <3>1, InIsOwner
    <3> QED
      BY <3>1, <3>2, NodeFacts
  <2>2. CASE PopFront
    <3>1. PICK l \in Lists : next[HeadOf(l)] # TailOf(l) /\ list_remove(next[HeadOf(l)])
      BY <2>2 DEF PopFront, list_empty, list_begin, list_end
    <3>2. next[HeadOf(l)] \in Elems /\ owner[next[HeadOf(l)]] = l
      BY <1>2, <3>1, Ends DEF Behind
    <3> QED
      BY <3>1, <3>2, NodeFacts
  <2>3. CASE PopBack
    <3>1. PICK l \in Lists : next[HeadOf(l)] # TailOf(l) /\ list_remove(prev[TailOf(l)])
      BY <2>3 DEF PopBack, list_empty, list_begin, list_end
    <3>2. prev[TailOf(l)] \in Elems /\ owner[prev[TailOf(l)]] = l
      BY <1>2, <3>1, Ends
    <3> QED
      BY <3>1, <3>2, NodeFacts
  <2> QED
    BY <2>1, <2>2, <2>3
<1>4. /\ next' \in Links /\ prev' \in Links
      /\ \E owner2 \in [Nodes -> Lists \cup {NULL}] :
           Placed(owner2, rank) /\ Linked(owner2, rank, next', prev')
  BY <1>1, <1>2, <1>3, RemoveStep
<1> QED
  BY <1>1, <1>4, ToIdle

(* splice.                                                                  *)
LEMMA SpliceInv == IInv /\ Splice => IInv'
<1> SUFFICES ASSUME IInv, Splice PROVE IInv'
  OBVIOUS
<1>1. pc = "idle" /\ pc' = "idle" /\ at' = at /\ Typed /\ at \in LocalsType
  BY DEF Splice, Idle, IInv, Typed
<1>2. PICK owner \in [Nodes -> Lists \cup {NULL}], rank \in [Nodes -> Int] :
        Ordered(owner, rank) /\ Placed(owner, rank) /\ Linked(owner, rank, next, prev)
  BY <1>1, PlainOrder
<1>3. PICK m \in Lists, l \in Lists :
        LET from == Append(Interior(m), list_end(m))
            to == Append(Interior(l), list_end(l))
        IN \E i, j \in DOMAIN from, k \in DOMAIN to :
             /\ i < j
             /\ m = l => k \notin i .. j - 1
             /\ list_splice(to[k], from[i], from[j])
  BY DEF Splice
<1>4. PICK from : /\ from = Append(Interior(m), list_end(m)) /\ DOMAIN from \subseteq Nat
                  /\ \A i \in DOMAIN from : Behind(owner, m, from[i])
                  /\ \A i, j \in DOMAIN from : i < j => rank[from[i]] < rank[from[j]]
  BY <1>1, <1>2, PlacesOrder
<1>5. PICK to : /\ to = Append(Interior(l), list_end(l)) /\ DOMAIN to \subseteq Nat
                /\ \A i \in DOMAIN to : Behind(owner, l, to[i])
                /\ \A i, j \in DOMAIN to : i < j => rank[to[i]] < rank[to[j]]
  BY <1>1, <1>2, PlacesOrder
<1>6. PICK i \in DOMAIN from, j \in DOMAIN from, k \in DOMAIN to :
        /\ i < j
        /\ m = l => k \notin i .. j - 1
        /\ list_splice(to[k], from[i], from[j])
  BY <1>3, <1>4, <1>5, Zenon
<1>7. l = m => rank[to[k]] < rank[from[i]] \/ rank[from[j]] <= rank[to[k]]
  <2>1. SUFFICES ASSUME l = m PROVE rank[to[k]] < rank[from[i]] \/ rank[from[j]] <= rank[to[k]]
    OBVIOUS
  <2>2. to = from
    BY <1>4, <1>5, <2>1
  <2>3. k < i \/ j < k \/ j = k
    BY <1>4, <1>5, <1>6, <2>1
  <2>4. rank[from[j]] \in Int /\ rank[to[k]] \in Int
    BY <1>4, <1>5, <1>6 DEF Behind
  <2> QED
    BY <1>4, <1>6, <2>2, <2>3, <2>4
<1>8. Behind(owner, l, to[k]) /\ Behind(owner, m, from[i]) /\ Behind(owner, m, from[j])
      /\ rank[from[i]] < rank[from[j]]
  BY <1>4, <1>5, <1>6
<1>9. /\ next' \in Links /\ prev' \in Links
      /\ \E owner2 \in [Nodes -> Lists \cup {NULL}], rank2 \in [Nodes -> Int] :
           Placed(owner2, rank2) /\ Linked(owner2, rank2, next', prev')
  BY <1>1, <1>2, <1>6, <1>7, <1>8, SpliceStep
<1> QED
  BY <1>1, <1>9, ToIdle

----------------------------------------------------------------------------
(* Loops                                                                    *)

(* What the ordered insertion, unique and sort know while they run.         *)
LEMMA LoopFacts ==
  ASSUME IInv, pc # "reverse"
  PROVE  \E owner \in [Nodes -> Lists \cup {NULL}], rank \in [Nodes -> Int] :
           /\ Ordered(owner, rank) /\ Placed(owner, rank)
           /\ Linked(owner, rank, next, prev) /\ Locals(owner, rank)
           /\ \A l \in Lists :
                /\ Behind(owner, l, list_begin(l)) /\ Behind(owner, l, list_end(l))
                /\ ~ list_empty(l) => list_begin(l) \in Elems
                /\ \A n : Behind(owner, l, n) /\ n # list_end(l) =>
                     /\ n \in Elems /\ owner[n] = l /\ l # NULL
                     /\ next[n] \in Nodes /\ Behind(owner, l, next[n]) /\ rank[n] < rank[next[n]]
                     /\ \A m : Behind(owner, l, m) /\ rank[n] < rank[m] => rank[next[n]] <= rank[m]
           /\ Typed /\ next \in Links /\ prev \in Links /\ at \in LocalsType
           /\ \A n \in Nodes : rank[n] \in Int
<1>1. PICK owner \in [Nodes -> Lists \cup {NULL}], rank \in [Nodes -> Int] :
        /\ Ordered(owner, rank) /\ Placed(owner, rank)
        /\ Linked(owner, rank, next, prev) /\ Locals(owner, rank)
  BY PlainOrder
<1>2. ASSUME NEW l \in Lists
      PROVE  /\ Behind(owner, l, list_begin(l)) /\ Behind(owner, l, list_end(l))
             /\ ~ list_empty(l) => list_begin(l) \in Elems
  BY <1>1, Ends DEF list_begin, list_end, list_empty
<1>3. ASSUME NEW l \in Lists, NEW n, Behind(owner, l, n), n # list_end(l)
      PROVE  /\ n \in Elems /\ owner[n] = l /\ l # NULL
             /\ next[n] \in Nodes /\ Behind(owner, l, next[n]) /\ rank[n] < rank[next[n]]
             /\ \A m : Behind(owner, l, m) /\ rank[n] < rank[m] => rank[next[n]] <= rank[m]
  BY <1>1, <1>3, NextBehind DEF list_end
<1>4. Typed /\ next \in Links /\ prev \in Links /\ at \in LocalsType
  BY DEF IInv, Typed, Links
<1> QED
  BY <1>1, <1>2, <1>3, <1>4

(* A step that changes locals only.                                         *)
LEMMA LocalsStep ==
  ASSUME NEW owner \in [Nodes -> Lists \cup {NULL}], NEW rank \in [Nodes -> Int],
         Typed, UNCHANGED <<prev, next>>, pc' # "reverse", at' \in LocalsType,
         pc' \in {"idle", "ordered"} \cup UniqueLabels \cup SortLabels,
         Placed(owner, rank), Linked(owner, rank, next, prev), Locals(owner, rank)'
  PROVE  IInv'
<1>1. Typed'
  BY DEF Typed
<1>2. Linked(owner, rank, next', prev')
  OBVIOUS
<1> QED
  BY <1>1, <1>2, PlainStep

(* Every local may be absent.                                               *)
LEMMA NoLocalsType == NoLocals \in LocalsType
BY DEF NoLocals, LocalsType

(* The calls that enter a loop.                                             *)
LEMMA EnterInv == IInv /\ Call => IInv'
<1> SUFFICES ASSUME IInv, Call PROVE IInv'
  OBVIOUS
<1>1. PICK l \in Lists :
        \/ list_reverse(l) \/ list_sort(l)
        \/ \E e \in Outside : list_insert_ordered(l, e)
        \/ \E duplicates \in Lists \cup {NULL} : list_unique(l, duplicates)
  BY DEF Call
<1>2. pc = "idle"
  BY <1>1 DEF list_reverse, list_sort, list_insert_ordered, list_unique, Enter
<1>3. PICK owner \in [Nodes -> Lists \cup {NULL}], rank \in [Nodes -> Int] :
        /\ Ordered(owner, rank) /\ Placed(owner, rank)
        /\ Linked(owner, rank, next, prev) /\ Locals(owner, rank)
        /\ Behind(owner, l, list_begin(l)) /\ Behind(owner, l, list_end(l))
        /\ ~ list_empty(l) => list_begin(l) \in Elems
        /\ Typed /\ next \in Links /\ prev \in Links
        /\ \A n \in Nodes : rank[n] \in Int
  BY <1>2, LoopFacts
<1>4. list_begin(l) \in Nodes /\ Elems \subseteq Nodes
  BY <1>3, NodeFacts DEF Behind
<1>5. CASE list_reverse(l)
  <2>1. /\ pc' = "reverse" /\ at' = [NoLocals EXCEPT !.list = l, !.e = list_begin(l)]
        /\ next' = next /\ prev' = prev /\ ~ list_empty(l)
    BY <1>5 DEF list_reverse, Enter
  <2>2. at' \in LocalsType /\ at'.list = l /\ at'.e = list_begin(l)
    BY <1>4, <2>1 DEF NoLocals, LocalsType
  <2>3. Typed'
    BY <1>3, <2>1, <2>2 DEF Typed
  <2>4. ASSUME NEW n \in Nodes
        PROVE  ~ Turned(owner, rank, n)'
    <3>1. SUFFICES ASSUME n \in Elems, owner[n] = l, rank[n] < rank[list_begin(l)] PROVE FALSE
      BY <2>1, <2>2 DEF Turned
    <3>2. HeadOf(l) \in Nodes \ Elems /\ owner[HeadOf(l)] = l /\ l # NULL /\ HeadOf(l) # TailOf(l)
      BY <1>3, NodeFacts DEF Placed
    <3>3. rank[HeadOf(l)] < rank[n]
      BY <1>3, <3>1, <3>2, ListNodes
    <3>4. Follows(owner, rank, HeadOf(l), list_begin(l))
      BY <1>3, <3>2 DEF Linked, list_begin
    <3> QED
      BY <1>3, <1>4, <3>1, <3>2, <3>3, <3>4 DEF Follows
  <2>5. Forward(owner, rank)' = next /\ Backward(owner, rank)' = prev
    BY <1>3, <2>1, <2>4 DEF Forward, Backward, Links
  <2>6. Locals(owner, rank)'
    BY <1>3, <2>1, <2>2 DEF Locals, UniqueLabels, SortLabels, list_empty, list_begin, list_end
  <2> QED
    BY <1>3, <2>3, <2>5, <2>6 DEF IInv, Ordered
<1>6. CASE list_sort(l)
  <2>1. /\ pc' = "pass" /\ at' = [NoLocals EXCEPT !.list = l, !.a0 = list_begin(l)]
        /\ UNCHANGED <<prev, next>>
    BY <1>6 DEF list_sort, Enter, NewPass
  <2>2. at' \in LocalsType /\ at'.list = l /\ at'.a0 = list_begin(l)
    BY <1>4, <2>1 DEF NoLocals, LocalsType
  <2>3. Locals(owner, rank)'
    BY <1>3, <2>1, <2>2 DEF Locals, UniqueLabels, SortLabels
  <2>4. pc' \in SortLabels /\ pc' # "reverse"
    BY <2>1 DEF SortLabels
  <2> QED
    BY <1>3, <2>1, <2>2, <2>3, <2>4, LocalsStep
<1>7. CASE \E e \in Outside : list_insert_ordered(l, e)
  <2>1. PICK e \in Outside : list_insert_ordered(l, e)
    BY <1>7
  <2>2. /\ pc' = "ordered" /\ UNCHANGED <<prev, next>>
        /\ at' = [NoLocals EXCEPT !.list = l, !.elem = e, !.e = list_begin(l)]
    BY <2>1 DEF list_insert_ordered, Enter
  <2>3. e \in Elems /\ owner[e] = NULL
    BY <1>2, <1>3, OutsideIsNowhere
  <2>4. at' \in LocalsType /\ at'.list = l /\ at'.e = list_begin(l) /\ at'.elem = e
    BY <1>4, <2>2, <2>3 DEF NoLocals, LocalsType
  <2>5. Locals(owner, rank)'
    BY <1>3, <2>2, <2>3, <2>4 DEF Locals, UniqueLabels, SortLabels
  <2> QED
    BY <1>3, <2>2, <2>4, <2>5, LocalsStep
<1>8. CASE \E duplicates \in Lists \cup {NULL} : list_unique(l, duplicates)
  <2>1. PICK duplicates \in Lists \cup {NULL} : list_unique(l, duplicates)
    BY <1>8
  <2>2. /\ pc' = "unique" /\ UNCHANGED <<prev, next>> /\ l # duplicates /\ ~ list_empty(l)
        /\ at' = [NoLocals EXCEPT !.list = l, !.duplicates = duplicates, !.e = list_begin(l)]
    BY <2>1 DEF list_unique, Enter
  <2>3. /\ at' \in LocalsType /\ at'.list = l /\ at'.e = list_begin(l)
        /\ at'.duplicates = duplicates
    BY <1>4, <2>2 DEF NoLocals, LocalsType
  <2>4. Locals(owner, rank)'
    BY <1>3, <2>2, <2>3 DEF Locals, UniqueLabels, SortLabels
  <2>5. pc' \in UniqueLabels /\ pc' # "reverse"
    BY <2>2 DEF UniqueLabels
  <2> QED
    BY <1>3, <2>2, <2>3, <2>4, <2>5, LocalsStep
<1> QED
  BY <1>1, <1>5, <1>6, <1>7, <1>8

(* The ordered insertion looks for a place and inserts there.               *)
LEMMA OrderedInv == IInv /\ (OrderedStep \/ OrderedEnd) => IInv'
<1> SUFFICES ASSUME IInv, OrderedStep \/ OrderedEnd PROVE IInv'
  OBVIOUS
<1>1. pc = "ordered"
  BY DEF OrderedStep, OrderedEnd
<1>2. PICK owner \in [Nodes -> Lists \cup {NULL}], rank \in [Nodes -> Int] :
        /\ Placed(owner, rank) /\ Linked(owner, rank, next, prev) /\ Locals(owner, rank)
        /\ \A l \in Lists : \A n : Behind(owner, l, n) /\ n # list_end(l) =>
             next[n] \in Nodes /\ Behind(owner, l, next[n])
        /\ Typed /\ at \in LocalsType
  BY <1>1, LoopFacts
<1>3. /\ at.list \in Lists /\ at.elem \in Elems /\ owner[at.elem] = NULL
      /\ Behind(owner, at.list, at.e)
  BY <1>1, <1>2 DEF Locals
<1>4. CASE OrderedStep
  <2>1. /\ at.e # list_end(at.list) /\ at' = [at EXCEPT !.e = next[at.e]]
        /\ pc' = pc /\ UNCHANGED <<prev, next>>
    BY <1>4 DEF OrderedStep, Stay, end
  <2>2. next[at.e] \in Nodes /\ Behind(owner, at.list, next[at.e])
    BY <1>2, <1>3, <2>1
  <2>3. at' \in LocalsType /\ at'.list = at.list /\ at'.elem = at.elem /\ at'.e = next[at.e]
    BY <1>2, <2>1, <2>2 DEF LocalsType
  <2>4. Locals(owner, rank)'
    BY <1>1, <1>3, <2>1, <2>2, <2>3 DEF Locals, UniqueLabels, SortLabels
  <2> QED
    BY <1>1, <1>2, <2>1, <2>3, <2>4, LocalsStep
<1>5. CASE OrderedEnd
  <2>1. list_insert(at.e, at.elem) /\ pc' = "idle" /\ at' \in LocalsType
    BY <1>5, NoLocalsType DEF OrderedEnd, Return
  <2>2. /\ next' \in Links /\ prev' \in Links
        /\ \E owner2 \in [Nodes -> Lists \cup {NULL}], rank2 \in [Nodes -> Int] :
             Placed(owner2, rank2) /\ Linked(owner2, rank2, next', prev')
    BY <1>2, <1>3, <2>1, InsertStep
  <2> QED
    BY <2>1, <2>2, ToIdle
<1> QED
  BY <1>4, <1>5

(* Reverse: what it has turned, read the other way round, is as before.     *)
LEMMA ReverseStepInv == IInv /\ ReverseStep => IInv'
<1> SUFFICES ASSUME IInv, ReverseStep PROVE IInv'
  OBVIOUS
<1>1. PICK owner \in [Nodes -> Lists \cup {NULL}], rank \in [Nodes -> Int] : Ordered(owner, rank)
  BY DEF IInv
<1>2. PICK nx, pv : nx = Forward(owner, rank) /\ pv = Backward(owner, rank)
  OBVIOUS
<1>3. /\ Placed(owner, rank) /\ Linked(owner, rank, nx, pv) /\ Locals(owner, rank)
      /\ \A n \in Nodes : rank[n] \in Int
  BY <1>1, <1>2 DEF Ordered
<1>4. /\ pc = "reverse" /\ pc' = "reverse" /\ at.e # TailOf(at.list)
      /\ next' = [next EXCEPT ![at.e] = prev[at.e]] /\ prev' = [prev EXCEPT ![at.e] = next[at.e]]
      /\ at' = [at EXCEPT !.e = next[at.e]]
      /\ next \in Links /\ prev \in Links /\ at \in LocalsType
  BY DEF ReverseStep, Stay, end, list_end, IInv, Typed, Links
<1> DEFINE x == at.e
           y == next[at.e]
<1>5. at.list \in Lists /\ Behind(owner, at.list, x) /\ next[HeadOf(at.list)] # TailOf(at.list)
  BY <1>3, <1>4 DEF Locals
<1>6. /\ x \in Elems /\ x \in Nodes /\ owner[x] = at.list
      /\ nx[x] \in Nodes /\ Behind(owner, at.list, nx[x]) /\ rank[x] < rank[nx[x]]
      /\ \A m : Behind(owner, at.list, m) /\ rank[x] < rank[m] => rank[nx[x]] <= rank[m]
  BY <1>3, <1>4, <1>5, NextBehind, NodeFacts
<1>7. nx[x] = y
  BY <1>2, <1>3, <1>6 DEF Forward, Turned
<1>8. at' \in LocalsType /\ at'.list = at.list /\ at'.e = y
  BY <1>4, <1>6, <1>7 DEF LocalsType
<1>9. next' \in Links /\ prev' \in Links
  BY <1>4, <1>6 DEF Links
<1>10. /\ \A n \in Nodes : next'[n] = IF n = x THEN prev[x] ELSE next[n]
       /\ \A n \in Nodes : prev'[n] = IF n = x THEN next[x] ELSE prev[n]
  BY <1>4, <1>6 DEF Links
<1>11. ASSUME NEW n \in Nodes
       PROVE  Turned(owner, rank, n)' <=> Turned(owner, rank, n) \/ n = x
  <2>1. CASE n = x
    BY <1>4, <1>6, <1>7, <1>8, <2>1 DEF Turned
  <2>2. CASE n # x
    <3>1. ASSUME n \in Elems, owner[n] = at.list
          PROVE  rank[n] < rank[x] <=> rank[n] < rank[y]
      <4>1. Behind(owner, at.list, n)
        BY <1>5, <3>1, NodeFacts DEF Behind
      <4>2. rank[n] # rank[x]
        BY <1>3, <1>5, <1>6, <2>2, <3>1, NodeFacts DEF Placed
      <4>3. rank[n] \in Int /\ rank[x] \in Int /\ rank[y] \in Int
        BY <1>3, <1>6, <1>7
      <4> QED
        BY <1>6, <1>7, <4>1, <4>2, <4>3
    <3> QED
      BY <1>4, <1>8, <2>2, <3>1 DEF Turned
  <2> QED
    BY <2>1, <2>2
<1>12. ~ Turned(owner, rank, x)
  BY <1>3, <1>6 DEF Turned
<1>13. Forward(owner, rank)' = nx /\ Backward(owner, rank)' = pv
  <2>1. \A n \in Nodes : (IF Turned(owner, rank, n)' THEN prev'[n] ELSE next'[n]) =
                         (IF Turned(owner, rank, n) THEN prev[n] ELSE next[n])
    BY <1>10, <1>11, <1>12
  <2>2. \A n \in Nodes : (IF Turned(owner, rank, n)' THEN next'[n] ELSE prev'[n]) =
                         (IF Turned(owner, rank, n) THEN next[n] ELSE prev[n])
    BY <1>10, <1>11, <1>12
  <2> QED
    BY <1>2, <2>1, <2>2, Zenon DEF Forward, Backward
<1>14. next'[HeadOf(at.list)] = next[HeadOf(at.list)]
  BY <1>5, <1>6, <1>10, NodeFacts
<1>15. Locals(owner, rank)'
  BY <1>4, <1>5, <1>6, <1>7, <1>8, <1>14 DEF Locals, UniqueLabels, SortLabels
<1>16. Typed'
  BY <1>4, <1>8, <1>9 DEF Typed, Links
<1>17. Ordered(owner, rank)'
  BY <1>3, <1>13, <1>15 DEF Ordered
<1> QED
  BY <1>16, <1>17 DEF IInv

(* At the end all elements are turned, and the order is the opposite one.   *)
LEMMA ReverseEndInv == IInv /\ ReverseEnd => IInv'
<1> SUFFICES ASSUME IInv, ReverseEnd PROVE IInv'
  OBVIOUS
<1>1. PICK owner \in [Nodes -> Lists \cup {NULL}], rank \in [Nodes -> Int] : Ordered(owner, rank)
  BY DEF IInv
<1>2. PICK nx, pv : nx = Forward(owner, rank) /\ pv = Backward(owner, rank)
  OBVIOUS
<1>3. /\ Placed(owner, rank) /\ Linked(owner, rank, nx, pv) /\ Locals(owner, rank)
      /\ \A n \in Nodes : rank[n] \in Int
  BY <1>1, <1>2 DEF Ordered
<1>4. PICK l, head, tail, back, front :
        /\ l = at.list /\ head = HeadOf(l) /\ tail = TailOf(l)
        /\ back = next[head] /\ front = prev[tail]
  OBVIOUS
<1>5. /\ pc = "reverse" /\ pc' = "idle" /\ at.e = tail /\ at' \in LocalsType
      /\ next' = [next EXCEPT ![head] = front, ![back] = prev[front]]
      /\ prev' = [prev EXCEPT ![tail] = back, ![front] = next[back]]
      /\ next \in Links /\ prev \in Links
  BY <1>4, NoLocalsType DEF ReverseEnd, Return, end, list_end, IInv, Typed, Links
<1>6. l \in Lists /\ back # tail
  BY <1>3, <1>4, <1>5 DEF Locals
<1>7. /\ head \in Nodes \ Elems /\ tail \in Nodes \ Elems /\ head # tail /\ l # NULL
      /\ owner[head] = l /\ owner[tail] = l /\ Elems \subseteq Nodes
  BY <1>3, <1>4, <1>6, NodeFacts DEF Placed
<1>8. ASSUME NEW n \in Nodes
      PROVE  Turned(owner, rank, n) <=> owner[n] = l /\ n # head /\ n # tail
  BY <1>3, <1>4, <1>5, <1>6, <1>7, <1>8, ListNodes DEF Turned
<1>9. ASSUME NEW n \in Nodes
      PROVE  /\ nx[n] = IF owner[n] = l /\ n # head /\ n # tail THEN prev[n] ELSE next[n]
             /\ pv[n] = IF owner[n] = l /\ n # head /\ n # tail THEN next[n] ELSE prev[n]
  BY <1>2, <1>8 DEF Forward, Backward
<1>10. back = nx[head] /\ front = pv[tail]
  BY <1>4, <1>7, <1>9
<1>11. /\ back \in Elems /\ owner[back] = l /\ pv[back] = head
       /\ front \in Elems /\ owner[front] = l /\ nx[front] = tail
  <2>1. /\ front \in Elems /\ owner[front] = l /\ back \in Elems /\ pv[back] = head
        /\ Behind(owner, l, back)
    BY <1>3, <1>4, <1>6, <1>10, Ends
  <2>2. nx[front] = tail
    BY <1>3, <1>7, <1>10, <1>4 DEF Linked
  <2> QED
    BY <2>1, <2>2 DEF Behind
<1>12. prev[front] = tail /\ next[back] = head
  BY <1>7, <1>9, <1>11
<1>13. next' \in Links /\ prev' \in Links
  BY <1>5, <1>7, <1>11, <1>12 DEF Links
<1>14. /\ \A n \in Nodes : next'[n] = IF n = back THEN tail ELSE IF n = head THEN front ELSE next[n]
       /\ \A n \in Nodes : prev'[n] = IF n = front THEN head ELSE IF n = tail THEN back ELSE prev[n]
  BY <1>5, <1>7, <1>11, <1>12 DEF Links
<1>15. PICK nx2 \in Links, pv2 \in Links : nx2 = next' /\ pv2 = prev'
  BY <1>13
<1>16. \A n \in Nodes : nx2[n] = IF n = head THEN front ELSE IF n = back THEN tail
                                 ELSE IF owner[n] = l /\ n # tail THEN pv[n] ELSE nx[n]
  BY <1>7, <1>9, <1>11, <1>14, <1>15
<1>17. \A n \in Nodes : pv2[n] = IF n = tail THEN back ELSE IF n = front THEN head
                                 ELSE IF owner[n] = l /\ n # head THEN nx[n] ELSE pv[n]
  BY <1>7, <1>9, <1>11, <1>14, <1>15
<1>18. \E rank2 \in [Nodes -> Int] : Placed(owner, rank2) /\ Linked(owner, rank2, nx2, pv2)
  BY <1>3, <1>4, <1>6, <1>10, <1>16, <1>17, ReverseOrder DEF Links
<1> QED
  BY <1>5, <1>13, <1>15, <1>18, ToIdle

(* Unique: the element it removes is nowhere, or goes to the duplicates.    *)
LEMMA UniqueInv ==
  IInv /\ (UniqueRemoves \/ UniqueKeeps \/ AppendDuplicate \/ UniqueEnd) => IInv'
<1> SUFFICES ASSUME IInv, UniqueRemoves \/ UniqueKeeps \/ AppendDuplicate \/ UniqueEnd
             PROVE  IInv'
  OBVIOUS
<1>1. pc \in UniqueLabels /\ pc # "reverse"
  BY DEF UniqueRemoves, UniqueKeeps, AppendDuplicate, UniqueEnd, HasNeighbour, UniqueLabels
<1>2. PICK owner \in [Nodes -> Lists \cup {NULL}], rank \in [Nodes -> Int] :
        /\ Placed(owner, rank) /\ Linked(owner, rank, next, prev) /\ Locals(owner, rank)
        /\ \A l \in Lists :
             /\ Behind(owner, l, list_end(l))
             /\ \A n : Behind(owner, l, n) /\ n # list_end(l) =>
                  /\ n \in Elems /\ owner[n] = l /\ l # NULL
                  /\ Behind(owner, l, next[n]) /\ rank[n] < rank[next[n]]
        /\ Typed /\ at \in LocalsType /\ \A n \in Nodes : rank[n] \in Int
  BY <1>1, LoopFacts
<1>3. /\ at.list \in Lists /\ Behind(owner, at.list, at.e) /\ at.e \in Elems
      /\ at.duplicates # at.list /\ at.e # list_end(at.list)
      /\ pc = "duplicate" => at.elem \in Elems /\ owner[at.elem] = NULL /\ at.duplicates # NULL
  <2>1. pc # "idle" /\ (pc = "duplicate" => pc \in {"ordered", "duplicate"})
        /\ pc \in {"ordered", "reverse"} \cup UniqueLabels
    BY <1>1 DEF UniqueLabels
  <2>2. /\ at.list \in Lists /\ Behind(owner, at.list, at.e) /\ at.e \in Elems
        /\ at.duplicates # at.list
        /\ pc = "duplicate" => at.elem \in Elems /\ owner[at.elem] = NULL /\ at.duplicates # NULL
    BY <1>1, <1>2, <2>1 DEF Locals
  <2> QED
    BY <2>2, NodeFacts DEF list_end
<1>4. /\ at.e \in Nodes /\ owner[at.e] = at.list /\ at.list # NULL
      /\ Behind(owner, at.list, next[at.e]) /\ next[at.e] \in Nodes /\ rank[at.e] < rank[next[at.e]]
  BY <1>2, <1>3 DEF Behind
<1>5. CASE UniqueRemoves
  <2> DEFINE x == next[at.e]
  <2>1. /\ x # list_end(at.list) /\ list_remove(x) /\ at' = [at EXCEPT !.elem = x]
        /\ pc' = IF at.duplicates = NULL THEN "unique" ELSE "duplicate"
    BY <1>5 DEF UniqueRemoves, HasNeighbour, end
  <2>2. x \in Elems /\ owner[x] = at.list /\ x # at.e
    BY <1>2, <1>3, <1>4, <2>1
  <2>3. /\ next' \in Links /\ prev' \in Links
        /\ \E owner2 \in [Nodes -> Lists \cup {NULL}] :
             /\ Placed(owner2, rank) /\ Linked(owner2, rank, next', prev')
             /\ owner2[x] = NULL /\ \A n \in Nodes \ {x} : owner2[n] = owner[n]
    BY <1>2, <1>4, <2>1, <2>2, RemoveStep
  <2>4. PICK owner2 \in [Nodes -> Lists \cup {NULL}] :
          /\ Placed(owner2, rank) /\ Linked(owner2, rank, next', prev')
          /\ owner2[x] = NULL /\ \A n \in Nodes \ {x} : owner2[n] = owner[n]
    BY <2>3
  <2>5. /\ at' \in LocalsType /\ at'.list = at.list /\ at'.e = at.e /\ at'.elem = x
        /\ at'.duplicates = at.duplicates
    BY <1>2, <2>1, <2>2 DEF LocalsType
  <2>6. Behind(owner2, at.list, at.e)
    BY <1>3, <1>4, <2>2, <2>4 DEF Behind
  <2>7. Locals(owner2, rank)'
    BY <1>3, <2>1, <2>2, <2>4, <2>5, <2>6 DEF Locals, UniqueLabels, SortLabels
  <2>8. Typed' /\ pc' # "reverse"
    BY <2>1, <2>3, <2>5 DEF Typed, Links, UniqueLabels
  <2> QED
    BY <2>4, <2>7, <2>8, PlainStep
<1>6. CASE UniqueKeeps
  <2>1. /\ pc' = "unique" /\ at' = [at EXCEPT !.e = next[at.e]] /\ UNCHANGED <<prev, next>>
        /\ next[at.e] # list_end(at.list)
    BY <1>6 DEF UniqueKeeps, HasNeighbour, Stay, end
  <2>2. next[at.e] \in Elems
    BY <1>2, <1>3, <1>4, <2>1
  <2>3. /\ at' \in LocalsType /\ at'.list = at.list /\ at'.e = next[at.e]
        /\ at'.duplicates = at.duplicates
    BY <1>2, <1>4, <2>1 DEF LocalsType
  <2>4. Locals(owner, rank)'
    BY <1>3, <1>4, <2>1, <2>2, <2>3 DEF Locals, UniqueLabels, SortLabels
  <2>5. pc' \in UniqueLabels /\ pc' # "reverse"
    BY <2>1 DEF UniqueLabels
  <2> QED
    BY <1>2, <2>1, <2>3, <2>4, <2>5, LocalsStep
<1>7. CASE AppendDuplicate
  <2>1. /\ pc = "duplicate" /\ pc' = "unique" /\ at' = at
        /\ list_insert(list_end(at.duplicates), at.elem)
    BY <1>7 DEF AppendDuplicate
  <2>2. at.duplicates \in Lists
    BY <1>2, <1>3, <2>1 DEF LocalsType
  <2>3. /\ next' \in Links /\ prev' \in Links
        /\ \E owner2 \in [Nodes -> Lists \cup {NULL}], rank2 \in [Nodes -> Int] :
             /\ Placed(owner2, rank2) /\ Linked(owner2, rank2, next', prev')
             /\ owner2[at.elem] = at.duplicates
             /\ SameOrder(owner, rank, owner2, rank2, Nodes \ {at.elem})
    BY <1>2, <1>3, <2>1, <2>2, InsertStep
  <2>4. PICK owner2 \in [Nodes -> Lists \cup {NULL}], rank2 \in [Nodes -> Int] :
          /\ Placed(owner2, rank2) /\ Linked(owner2, rank2, next', prev')
          /\ SameOrder(owner, rank, owner2, rank2, Nodes \ {at.elem})
    BY <2>3
  <2>5. Behind(owner2, at.list, at.e)
    BY <1>3, <1>4, <2>1, <2>4 DEF Behind, SameOrder
  <2>6. Locals(owner2, rank2)'
    BY <1>3, <2>1, <2>5 DEF Locals, UniqueLabels, SortLabels
  <2>7. Typed' /\ pc' # "reverse"
    BY <1>2, <2>1, <2>3 DEF Typed, Links, UniqueLabels
  <2> QED
    BY <2>4, <2>6, <2>7, PlainStep
<1>8. CASE UniqueEnd
  <2>1. pc' = "idle" /\ at' \in LocalsType /\ UNCHANGED <<prev, next>>
    BY <1>8, NoLocalsType DEF UniqueEnd, Return
  <2>2. Locals(owner, rank)'
    BY <2>1 DEF Locals, UniqueLabels, SortLabels
  <2> QED
    BY <1>2, <2>1, <2>2, LocalsStep
<1> QED
  BY <1>5, <1>6, <1>7, <1>8

(* Sort: the steps that only walk.                                          *)
LEMMA SortWalksInv ==
  /\ IInv
  /\ \/ BeginRun \/ FirstRun \/ BeginSecondRun \/ SecondRun
     \/ BeginMerge \/ MergeKeeps \/ EndMerge \/ NextPass \/ SortEnd
  => IInv'
<1> SUFFICES ASSUME IInv,
                    \/ BeginRun \/ FirstRun \/ BeginSecondRun \/ SecondRun
                    \/ BeginMerge \/ MergeKeeps \/ EndMerge \/ NextPass \/ SortEnd
             PROVE  IInv'
  OBVIOUS
<1>1. pc \in SortLabels /\ pc # "reverse" /\ UNCHANGED <<prev, next>>
  BY DEF BeginRun, FirstRun, BeginSecondRun, SecondRun, BeginMerge, MergeKeeps, EndMerge,
         NextPass, SortEnd, PassIsOver, SortLabels
<1>2. PICK owner \in [Nodes -> Lists \cup {NULL}], rank \in [Nodes -> Int] :
        /\ Placed(owner, rank) /\ Linked(owner, rank, next, prev) /\ Locals(owner, rank)
        /\ \A l \in Lists :
             /\ Behind(owner, l, list_begin(l))
             /\ \A n : Behind(owner, l, n) /\ n # list_end(l) =>
                  /\ Behind(owner, l, next[n]) /\ rank[n] < rank[next[n]]
                  /\ \A m : Behind(owner, l, m) /\ rank[n] < rank[m] => rank[next[n]] <= rank[m]
        /\ Typed /\ at \in LocalsType /\ \A n \in Nodes : rank[n] \in Int
  BY <1>1, LoopFacts
<1>3. /\ at.list \in Lists /\ Behind(owner, at.list, at.a0)
      /\ pc \in {"first_run", "second_run", "merge"} => Behind(owner, at.list, at.a1b0)
      /\ pc \in {"first_run", "second_run"} => rank[at.a0] < rank[at.a1b0]
      /\ pc \in {"second_run", "merge"} => Behind(owner, at.list, at.b1)
      /\ pc = "second_run" => rank[at.a1b0] < rank[at.b1]
      /\ pc = "merge" => rank[at.a0] <= rank[at.a1b0] /\ rank[at.a1b0] <= rank[at.b1]
  BY <1>1, <1>2 DEF Locals, SortLabels
<1>4. SUFFICES /\ at' \in LocalsType /\ pc' \in {"idle"} \cup SortLabels /\ pc' # "reverse"
               /\ Locals(owner, rank)'
  BY <1>1, <1>2, LocalsStep
<1>5. ASSUME NEW n, Behind(owner, at.list, n)
      PROVE  n \in Nodes /\ rank[n] \in Int
  BY <1>2, <1>5 DEF Behind
<1>6. CASE BeginRun
  <2>1. /\ pc = "pass" /\ at.a0 # list_end(at.list) /\ pc' = "first_run"
        /\ at' = [at EXCEPT !.runs = @ + 1, !.a1b0 = next[at.a0]]
    BY <1>6 DEF BeginRun, end
  <2>2. Behind(owner, at.list, next[at.a0]) /\ rank[at.a0] < rank[next[at.a0]]
    BY <1>2, <1>3, <2>1
  <2>3. /\ at' \in LocalsType /\ at'.list = at.list /\ at'.a0 = at.a0 /\ at'.a1b0 = next[at.a0]
    <3>1. at.runs \in Nat /\ at.runs + 1 \in Nat /\ next[at.a0] \in Nodes
      BY <1>2, <1>5, <2>2 DEF LocalsType
    <3>2. at' = [at EXCEPT !.runs = at.runs + 1, !.a1b0 = next[at.a0]]
      BY <2>1
    <3> QED
      BY <1>2, <3>1, <3>2 DEF LocalsType
  <2> QED
    BY <1>3, <2>1, <2>2, <2>3 DEF Locals, UniqueLabels, SortLabels
<1>7. CASE FirstRun
  <2>1. /\ pc = "first_run" /\ at.a1b0 # list_end(at.list) /\ pc' = pc
        /\ at' = [at EXCEPT !.a1b0 = next[at.a1b0]]
    BY <1>7 DEF FirstRun, EndsRun, Stay, end
  <2>2. Behind(owner, at.list, next[at.a1b0]) /\ rank[at.a1b0] < rank[next[at.a1b0]]
    BY <1>2, <1>3, <2>1
  <2>3. rank[at.a0] < rank[next[at.a1b0]]
    BY <1>3, <1>5, <2>1, <2>2
  <2>4. /\ at' \in LocalsType /\ at'.list = at.list /\ at'.a0 = at.a0 /\ at'.a1b0 = next[at.a1b0]
    BY <1>2, <1>5, <2>1, <2>2 DEF LocalsType
  <2> QED
    BY <1>3, <2>1, <2>2, <2>3, <2>4 DEF Locals, UniqueLabels, SortLabels
<1>8. CASE BeginSecondRun
  <2>1. /\ pc = "first_run" /\ at.a1b0 # list_end(at.list) /\ pc' = "second_run"
        /\ at' = [at EXCEPT !.b1 = next[at.a1b0]]
    BY <1>8 DEF BeginSecondRun, end
  <2>2. Behind(owner, at.list, next[at.a1b0]) /\ rank[at.a1b0] < rank[next[at.a1b0]]
    BY <1>2, <1>3, <2>1
  <2>3. /\ at' \in LocalsType /\ at'.list = at.list /\ at'.a0 = at.a0 /\ at'.a1b0 = at.a1b0
        /\ at'.b1 = next[at.a1b0]
    BY <1>2, <1>5, <2>1, <2>2 DEF LocalsType
  <2> QED
    BY <1>3, <2>1, <2>2, <2>3 DEF Locals, UniqueLabels, SortLabels
<1>9. CASE SecondRun
  <2>1. /\ pc = "second_run" /\ at.b1 # list_end(at.list) /\ pc' = pc
        /\ at' = [at EXCEPT !.b1 = next[at.b1]]
    BY <1>9 DEF SecondRun, EndsRun, Stay, end
  <2>2. Behind(owner, at.list, next[at.b1]) /\ rank[at.b1] < rank[next[at.b1]]
    BY <1>2, <1>3, <2>1
  <2>3. rank[at.a1b0] < rank[next[at.b1]]
    BY <1>3, <1>5, <2>1, <2>2
  <2>4. /\ at' \in LocalsType /\ at'.list = at.list /\ at'.a0 = at.a0 /\ at'.a1b0 = at.a1b0
        /\ at'.b1 = next[at.b1]
    BY <1>2, <1>5, <2>1, <2>2 DEF LocalsType
  <2> QED
    BY <1>3, <2>1, <2>2, <2>3, <2>4 DEF Locals, UniqueLabels, SortLabels
<1>10. CASE BeginMerge
  <2>1. pc = "second_run" /\ pc' = "merge" /\ at' = at
    BY <1>10 DEF BeginMerge
  <2>2. rank[at.a0] <= rank[at.a1b0] /\ rank[at.a1b0] <= rank[at.b1]
    BY <1>3, <1>5, <2>1
  <2> QED
    BY <1>2, <1>3, <2>1, <2>2 DEF Locals, UniqueLabels, SortLabels
<1>11. CASE MergeKeeps
  <2>1. /\ pc = "merge" /\ pc' = pc /\ at.a0 # at.a1b0
        /\ at' = [at EXCEPT !.a0 = next[at.a0]]
    BY <1>11 DEF MergeKeeps, Stay
  <2>2. rank[at.a0] < rank[at.a1b0] /\ at.a0 # list_end(at.list)
    <3>1. /\ rank[at.a0] \in Int /\ rank[at.a1b0] \in Int
          /\ rank[at.a0] < rank[at.a1b0] \/ rank[at.a1b0] < rank[at.a0]
          /\ rank[at.a0] < rank[at.a1b0] => at.a0 # TailOf(at.list)
      <4>1. Behind(owner, at.list, at.a0) /\ Behind(owner, at.list, at.a1b0) /\ at.list \in Lists
        BY <1>3, <2>1
      <4>2. Placed(owner, rank) /\ at.a0 # at.a1b0
        BY <1>2, <2>1
      <4> QED
        BY <4>1, <4>2, RankDecides
    <3>2. rank[at.a0] <= rank[at.a1b0]
      BY <1>3, <2>1
    <3> QED
      BY <3>1, <3>2 DEF list_end
  <2>3. Behind(owner, at.list, next[at.a0]) /\ rank[next[at.a0]] <= rank[at.a1b0]
    BY <1>2, <1>3, <2>1, <2>2
  <2>4. /\ at' \in LocalsType /\ at'.list = at.list /\ at'.a0 = next[at.a0] /\ at'.a1b0 = at.a1b0
        /\ at'.b1 = at.b1
    BY <1>2, <1>5, <2>1, <2>3 DEF LocalsType
  <2> QED
    BY <1>3, <2>1, <2>3, <2>4 DEF Locals, UniqueLabels, SortLabels
<1>12. CASE EndMerge
  <2>1. /\ pc = "merge" /\ pc' = "pass"
        /\ at' = [at EXCEPT !.a0 = at.b1, !.a1b0 = NULL, !.b1 = NULL]
    BY <1>12 DEF EndMerge
  <2>2. at' \in LocalsType /\ at'.list = at.list /\ at'.a0 = at.b1
    BY <1>2, <1>3, <1>5, <2>1 DEF LocalsType
  <2> QED
    BY <1>3, <2>1, <2>2 DEF Locals, UniqueLabels, SortLabels
<1>13. CASE NextPass
  <2>1. pc' = "pass" /\ at' = [NoLocals EXCEPT !.list = at.list, !.a0 = list_begin(at.list)]
    BY <1>13 DEF NextPass, NewPass
  <2>2. Behind(owner, at.list, list_begin(at.list))
    BY <1>2, <1>3
  <2>3. at' \in LocalsType /\ at'.list = at.list /\ at'.a0 = list_begin(at.list)
    BY <1>3, <1>5, <2>1, <2>2 DEF NoLocals, LocalsType
  <2> QED
    BY <1>3, <2>1, <2>2, <2>3 DEF Locals, UniqueLabels, SortLabels
<1>14. CASE SortEnd
  <2>1. pc' = "idle" /\ at' \in LocalsType
    BY <1>14, NoLocalsType DEF SortEnd, Return
  <2> QED
    BY <2>1 DEF Locals, UniqueLabels, SortLabels
<1> QED
  BY <1>6, <1>7, <1>8, <1>9, <1>10, <1>11, <1>12, <1>13, <1>14

(* Sort: the first element of the second run moves in front of the first.   *)
LEMMA MergeMovesInv == IInv /\ MergeMoves => IInv'
<1> SUFFICES ASSUME IInv, MergeMoves PROVE IInv'
  OBVIOUS
<1>1. /\ pc = "merge" /\ pc' = "merge" /\ at.a0 # at.a1b0 /\ at.a1b0 # at.b1
      /\ at' = [at EXCEPT !.a1b0 = next[at.a1b0]]
      /\ list_splice(at.a0, at.a1b0, next[at.a1b0])
  BY DEF MergeMoves, Stay
<1>2. PICK owner \in [Nodes -> Lists \cup {NULL}], rank \in [Nodes -> Int] :
        /\ Placed(owner, rank) /\ Linked(owner, rank, next, prev) /\ Locals(owner, rank)
        /\ \A l \in Lists : \A n : Behind(owner, l, n) /\ n # list_end(l) =>
             /\ Behind(owner, l, next[n]) /\ rank[n] < rank[next[n]]
             /\ \A m : Behind(owner, l, m) /\ rank[n] < rank[m] => rank[next[n]] <= rank[m]
        /\ Typed /\ at \in LocalsType /\ \A n \in Nodes : rank[n] \in Int
  BY <1>1, LoopFacts
<1> DEFINE l == at.list
           x == at.a1b0
           y == next[at.a1b0]
<1>3. /\ l \in Lists /\ l # NULL /\ Behind(owner, l, at.a0) /\ Behind(owner, l, x)
      /\ Behind(owner, l, at.b1)
      /\ rank[at.a0] <= rank[x] /\ rank[x] <= rank[at.b1]
  BY <1>1, <1>2, NodeFacts DEF Locals, SortLabels
<1>4. rank[at.a0] < rank[x] /\ rank[x] < rank[at.b1] /\ x # list_end(l)
  BY <1>1, <1>2, <1>3 DEF Behind, Placed, list_end
<1>5. Behind(owner, l, y) /\ rank[x] < rank[y] /\ rank[y] <= rank[at.b1]
  BY <1>2, <1>3, <1>4
<1>6. /\ next' \in Links /\ prev' \in Links
      /\ \E owner2 \in [Nodes -> Lists \cup {NULL}], rank2 \in [Nodes -> Int] :
           /\ Placed(owner2, rank2) /\ Linked(owner2, rank2, next', prev')
           /\ SameOrder(owner, rank, owner2, rank2, Unmoved(owner, rank, l, x, y))
  BY <1>1, <1>2, <1>3, <1>4, <1>5, SpliceStep
<1>7. PICK owner2 \in [Nodes -> Lists \cup {NULL}], rank2 \in [Nodes -> Int] :
        /\ Placed(owner2, rank2) /\ Linked(owner2, rank2, next', prev')
        /\ SameOrder(owner, rank, owner2, rank2, Unmoved(owner, rank, l, x, y))
  BY <1>6
<1>8. /\ at' \in LocalsType /\ at'.list = l /\ at'.a0 = at.a0 /\ at'.a1b0 = y /\ at'.b1 = at.b1
  BY <1>1, <1>2, <1>5 DEF LocalsType, Behind
(* None of the three that the loop remembers moves.                         *)
<1>9. /\ at.a0 \in Unmoved(owner, rank, l, x, y) /\ y \in Unmoved(owner, rank, l, x, y)
      /\ at.b1 \in Unmoved(owner, rank, l, x, y)
      /\ at.a0 \in Nodes /\ y \in Nodes /\ at.b1 \in Nodes
  BY <1>2, <1>3, <1>4, <1>5 DEF Unmoved, Behind
<1>10. /\ owner[at.a0] = l /\ owner[y] = l /\ owner[at.b1] = l
       /\ at.a0 # HeadOf(l) /\ y # HeadOf(l) /\ at.b1 # HeadOf(l)
  BY <1>3, <1>5 DEF Behind
<1>11. Behind(owner2, l, at.a0) /\ Behind(owner2, l, y) /\ Behind(owner2, l, at.b1)
  BY <1>7, <1>9, <1>10 DEF SameOrder, Behind
<1>12. rank2[at.a0] <= rank2[y] /\ rank2[y] <= rank2[at.b1]
  <2>1. rank[at.a0] < rank[y] /\ (rank[y] < rank[at.b1] \/ y = at.b1)
    <3>1. /\ rank[y] \in Int /\ rank[at.b1] \in Int
          /\ y # at.b1 => rank[y] < rank[at.b1] \/ rank[at.b1] < rank[y]
      <4>1. Placed(owner, rank) /\ Behind(owner, l, y) /\ Behind(owner, l, at.b1) /\ l \in Lists
        BY <1>2, <1>3, <1>5
      <4> HIDE DEF y, l
      <4> QED
        BY <4>1, RankDecides
    <3>2. rank[at.a0] \in Int /\ rank[x] \in Int
      BY <1>2, <1>3 DEF Behind
    <3> QED
      BY <1>4, <1>5, <3>1, <3>2
  <2>2. rank2[at.a0] < rank2[y] /\ (rank2[y] < rank2[at.b1] \/ y = at.b1)
    BY <1>3, <1>7, <1>9, <1>10, <2>1 DEF SameOrder
  <2> QED
    BY <1>9, <2>2
<1>13. Locals(owner2, rank2)'
  BY <1>1, <1>3, <1>8, <1>11, <1>12 DEF Locals, UniqueLabels, SortLabels
<1>14. Typed' /\ pc' # "reverse"
  BY <1>1, <1>6, <1>8 DEF Typed, Links, SortLabels
<1> QED
  BY <1>7, <1>13, <1>14, PlainStep

(* A step that changes nothing.                                             *)
LEMMA StutterInv == IInv /\ UNCHANGED vars => IInv'
<1> SUFFICES ASSUME IInv, UNCHANGED vars PROVE IInv'
  OBVIOUS
<1>1. PICK owner \in [Nodes -> Lists \cup {NULL}], rank \in [Nodes -> Int] : Ordered(owner, rank)
  BY DEF IInv
<1>2. next' = next /\ prev' = prev /\ pc' = pc /\ at' = at
  BY DEF vars
<1>3. Typed'
  BY <1>2 DEF IInv, Typed
<1>4. Forward(owner, rank)' = Forward(owner, rank) /\ Backward(owner, rank)' = Backward(owner, rank)
  BY <1>2 DEF Forward, Backward, Turned
<1>5. Locals(owner, rank)'
  BY <1>1, <1>2 DEF Ordered, Locals
<1>6. Ordered(owner, rank)'
  BY <1>1, <1>4, <1>5 DEF Ordered
<1> QED
  BY <1>3, <1>6 DEF IInv

----------------------------------------------------------------------------
(* The invariant is what WellLinked promises                                *)

(* What links lead to from the front of l, Interior(l) does not leave.      *)
LEMMA InteriorStays ==
  ASSUME NEW l \in Lists, NEW P, list_begin(l) \in P, \A n \in P \cap Elems : next[n] \in P
  PROVE  \A i \in DOMAIN Interior(l) : Interior(l)[i] \in P
<1>1. PICK f : \E C \in Nat :
           /\ C = Cardinality(Elems)
           /\ f[0] = list_begin(l)
           /\ \A k \in 1 .. C : f[k] = Advance(f[k - 1])
           /\ Interior(l) = [i \in 1 .. Cardinality({ k \in 0 .. C - 1 : f[k] \in Elems }) |-> f[i - 1]]
  BY InteriorIsAWalk
<1>2. PICK C \in Nat :
           /\ f[0] = list_begin(l)
           /\ \A k \in 1 .. C : f[k] = Advance(f[k - 1])
           /\ Interior(l) = [i \in 1 .. Cardinality({ k \in 0 .. C - 1 : f[k] \in Elems }) |-> f[i - 1]]
  BY <1>1
<1> DEFINE S == { k \in 0 .. C : f[k] \in P }
<1>3. 0 \in S
  BY <1>2
<1>4. ASSUME NEW k \in 0 .. C - 1, k \in S
      PROVE  k + 1 \in S
  <2>1. k + 1 \in 1 .. C /\ k + 1 - 1 = k /\ f[k] \in P
    BY <1>4
  <2>2. f[k + 1] = Advance(f[k])
    BY <1>2, <2>1
  <2>3. Advance(f[k]) \in P
    BY <2>1 DEF Advance
  <2> QED
    BY <2>1, <2>2, <2>3
<1> HIDE DEF S
<1>5. 0 .. C \subseteq S
  BY <1>3, <1>4, UpTo
<1>6. PICK d : d = Cardinality({ k \in 0 .. C - 1 : f[k] \in Elems })
  OBVIOUS
<1>7. d \in Nat /\ d <= C
  <2>1. IsFiniteSet(0 .. C - 1) /\ Cardinality(0 .. C - 1) = C
    BY FS_Interval
  <2>2. { k \in 0 .. C - 1 : f[k] \in Elems } \subseteq 0 .. C - 1
    OBVIOUS
  <2> QED
    BY <1>6, <2>1, <2>2, FS_Subset, FS_CardinalityType
<1>8. Interior(l) = [i \in 1 .. d |-> f[i - 1]]
  BY <1>2, <1>6
<1>9. ASSUME NEW i \in 1 .. d
      PROVE  f[i - 1] \in P
  <2>1. i - 1 \in 0 .. C
    BY <1>7
  <2> QED
    BY <1>5, <2>1 DEF S
<1> QED
  BY <1>8, <1>9

(* Even on the list that reverse is turning it meets that list's own nodes. *)
LEMMA InHasOwner ==
  ASSUME Typed, NEW owner, NEW rank, Ordered(owner, rank),
         NEW l \in Lists, NEW e \in Elems, In(e, l)
  PROVE  owner[e] = l
<1>1. PICK nx, pv : nx = Forward(owner, rank) /\ pv = Backward(owner, rank)
  OBVIOUS
<1>2. Placed(owner, rank) /\ Linked(owner, rank, nx, pv)
  BY <1>1 DEF Ordered
<1>3. /\ HeadOf(l) \in Nodes \ Elems /\ owner[HeadOf(l)] = l /\ HeadOf(l) # TailOf(l)
      /\ l # NULL /\ Elems \subseteq Nodes /\ TailOf(l) \notin Elems
  BY <1>2, NodeFacts DEF Placed
<1> DEFINE P == { n \in Nodes : owner[n] = l }
<1>4. list_begin(l) \in P
  <2>1. nx[HeadOf(l)] = next[HeadOf(l)]
    BY <1>1, <1>3 DEF Forward, Turned
  <2>2. nx[HeadOf(l)] \in Nodes /\ owner[nx[HeadOf(l)]] = l
    BY <1>2, <1>3 DEF Linked, Follows
  <2> QED
    BY <2>1, <2>2 DEF list_begin
<1>5. ASSUME NEW n \in P \cap Elems
      PROVE  next[n] \in P
  <2>1. n \in Nodes /\ owner[n] = l /\ n # HeadOf(l) /\ n # TailOf(l)
    BY <1>3
  <2>2. next[n] = nx[n] \/ next[n] = pv[n]
    BY <1>1, <2>1 DEF Forward, Backward
  <2>3. /\ nx[n] \in Nodes /\ owner[nx[n]] = l
        /\ pv[n] \in Nodes /\ owner[pv[n]] = l
    BY <1>2, <1>3, <2>1 DEF Linked, Follows
  <2> QED
    BY <2>2, <2>3
<1>6. \A i \in DOMAIN Interior(l) : Interior(l)[i] \in P
  <2> HIDE DEF P
  <2> QED
    BY <1>4, <1>5, InteriorStays
<1> QED
  BY <1>6 DEF In

(* Places in order are places that links connect.                           *)
LEMMA InvWellLinked == IInv => WellLinked
<1> SUFFICES ASSUME IInv, NEW l \in Lists, ~ (pc = "reverse" /\ at.list = l)
             PROVE  /\ Chain(l, Interior(l))
                    /\ \A i, j \in DOMAIN Interior(l) : i # j => Interior(l)[i] # Interior(l)[j]
                    /\ \A m \in Lists \ {l} : \A e \in Elems : ~ (In(e, l) /\ In(e, m))
  BY DEF WellLinked
<1>1. PICK owner \in [Nodes -> Lists \cup {NULL}], rank \in [Nodes -> Int] :
        Typed /\ Ordered(owner, rank)
  BY DEF IInv
<1>2. PICK s \in Seq(Elems) :
        /\ s = Interior(l)
        /\ \A i \in DOMAIN s : owner[s[i]] = l
        /\ \A i, j \in DOMAIN s : i < j => rank[s[i]] < rank[s[j]]
        /\ list_begin(l) = IF Len(s) = 0 THEN TailOf(l) ELSE s[1]
        /\ \A i \in DOMAIN s : next[s[i]] = IF i = Len(s) THEN TailOf(l) ELSE s[i + 1]
  BY <1>1, InteriorOrder
<1>3. /\ DOMAIN s = 1 .. Len(s) /\ Len(s) \in Nat
      /\ \A i \in 1 .. Len(s) : s[i] \in Elems /\ s[i] \in Nodes
      /\ \A n \in Nodes : rank[n] \in Int
  BY NodeFacts
<1> DEFINE head == HeadOf(l)
           tail == TailOf(l)
<1>4. /\ head \in Nodes /\ tail \in Nodes /\ owner[head] = l /\ owner[tail] = l
      /\ head # tail /\ head \notin Elems /\ tail \notin Elems /\ l # NULL
  BY <1>1, NodeFacts DEF Ordered, Placed
(* Nothing of l is turned, so the links of its nodes are those of the order.*)
<1>5. /\ prev[head] = NULL /\ next[tail] = NULL
      /\ \A n \in Nodes : owner[n] = l /\ n # tail => next[n] \in Nodes /\ prev[next[n]] = n
  <2>1. PICK nx, pv : nx = Forward(owner, rank) /\ pv = Backward(owner, rank)
    OBVIOUS
  <2>2. Linked(owner, rank, nx, pv)
    BY <1>1, <2>1 DEF Ordered
  <2>3. \A n \in Nodes : owner[n] = l => nx[n] = next[n] /\ pv[n] = prev[n]
    BY <2>1 DEF Forward, Backward, Turned
  <2>4. prev[head] = NULL /\ next[tail] = NULL
    BY <1>4, <2>2, <2>3 DEF Linked
  <2>5. ASSUME NEW n \in Nodes, owner[n] = l, n # tail
        PROVE  next[n] \in Nodes /\ prev[next[n]] = n
    <3>1. nx[n] \in Nodes /\ owner[nx[n]] = l /\ pv[nx[n]] = n
      BY <1>4, <2>2, <2>5 DEF Linked, Follows
    <3> QED
      BY <2>3, <2>5, <3>1
  <2> QED
    BY <2>4, <2>5
<1>6. Chain(l, s)
  <2> DEFINE path == <<head>> \o s \o <<tail>>
  <2>1. /\ path[1] = head /\ path[Len(s) + 2] = tail
        /\ \A i \in 1 .. Len(s) : path[i + 1] = s[i]
    BY <1>3
  <2> HIDE DEF path
  <2>2. ASSUME NEW i \in 1 .. Len(s) + 1
        PROVE  /\ path[i] \in Nodes /\ owner[path[i]] = l /\ path[i] # tail
               /\ next[path[i]] = path[i + 1]
    <3>1. CASE i = 1
      <4>1. path[1 + 1] = IF Len(s) = 0 THEN tail ELSE s[1]
        BY <1>3, <2>1
      <4> QED
        BY <1>2, <1>4, <2>1, <3>1, <4>1 DEF list_begin
    <3>2. CASE i # 1
      <4>1. PICK k \in 1 .. Len(s) : i = k + 1
        BY <1>3, <3>2
      <4>2. path[i] = s[k]
        BY <2>1, <4>1
      <4>3. path[i + 1] = IF k = Len(s) THEN tail ELSE s[k + 1]
        <5>1. CASE k = Len(s)
          BY <1>3, <2>1, <4>1, <5>1
        <5>2. CASE k # Len(s)
          <6>1. Len(s) \in Nat
            BY <1>3
          <6>2. k + 1 \in 1 .. Len(s)
            BY <5>2, <6>1
          <6>3. i + 1 = (k + 1) + 1
            BY <4>1
          <6> QED
            BY <2>1, <5>2, <6>2, <6>3
        <5> QED
          BY <5>1, <5>2
      <4>4. k \in DOMAIN s /\ s[k] \in Elems /\ s[k] \in Nodes
        BY <1>3
      <4>5. owner[s[k]] = l /\ next[s[k]] = IF k = Len(s) THEN tail ELSE s[k + 1]
        BY <1>2, <4>4
      <4>6. s[k] # tail
        BY <1>4, <4>4
      <4> QED
        BY <4>2, <4>3, <4>4, <4>5, <4>6
    <3> QED
      BY <3>1, <3>2
  <2>3. \A i \in 1 .. Len(s) + 1 : next[path[i]] = path[i + 1] /\ prev[path[i + 1]] = path[i]
    BY <1>5, <2>2
  <2> QED
    BY <1>5, <2>3 DEF Chain, path
<1>7. ASSUME NEW i \in DOMAIN s, NEW j \in DOMAIN s, i # j
      PROVE  s[i] # s[j]
  <2>1. i < j \/ j < i
    BY <1>3, <1>7
  <2>2. rank[s[i]] < rank[s[j]] \/ rank[s[j]] < rank[s[i]]
    BY <1>2, <2>1
  <2> QED
    BY <1>3, <2>2
<1>8. \A m \in Lists \ {l} : \A e \in Elems : ~ (In(e, l) /\ In(e, m))
  BY <1>1, InHasOwner
<1> QED
  BY <1>2, <1>6, <1>7, <1>8

----------------------------------------------------------------------------
(* Loops that only read: what they have after k of their steps.            *)

(* f starts at a and takes C steps of g.                                    *)
Steps(f, C, a, g) == f = [k \in 0 .. C |-> IF k = 0 THEN a ELSE g[<<k, f[k - 1]>>]]

LEMMA StepsExist ==
  ASSUME NEW C \in Nat, NEW a, NEW g
  PROVE  \E f : Steps(f, C, a, g)
<1>1. PICK S : S = { c \in 0 .. C : \E f : Steps(f, c, a, g) }
  OBVIOUS
<1>2. 0 \in S
  <2>1. PICK f : f = [k \in 0 .. 0 |-> a]
    OBVIOUS
  <2>2. f = [k \in 0 .. 0 |-> IF k = 0 THEN a ELSE g[<<k, f[k - 1]>>]]
    BY <2>1
  <2>3. 0 \in 0 .. C
    OBVIOUS
  <2> QED
    BY <1>1, <2>2, <2>3, Zenon DEF Steps
<1>3. ASSUME NEW c \in 0 .. C - 1, c \in S
      PROVE  c + 1 \in S
  <2>1. PICK f : Steps(f, c, a, g)
    BY <1>1, <1>3, Zenon
  <2>2. PICK h : h = [k \in 0 .. c + 1 |-> IF k = c + 1 THEN g[<<k, f[c]>>] ELSE f[k]]
    OBVIOUS
  <2>3. ASSUME NEW k \in 0 .. c + 1
        PROVE  h[k] = IF k = 0 THEN a ELSE g[<<k, h[k - 1]>>]
    <3>1. CASE k = c + 1
      <4>1. k # 0 /\ k - 1 = c /\ c \in 0 .. c + 1 /\ c # c + 1
        BY <3>1
      <4>2. h[c] = f[c] /\ h[k] = g[<<k, f[c]>>]
        BY <2>2, <3>1, <4>1, Zenon
      <4> QED
        BY <4>1, <4>2, Zenon
    <3>2. CASE k # c + 1
      <4>1. k \in 0 .. c /\ (k # 0 => k - 1 \in 0 .. c + 1 /\ k - 1 # c + 1)
        BY <3>2
      <4>2. h[k] = f[k] /\ (k # 0 => h[k - 1] = f[k - 1])
        BY <2>2, <3>2, <4>1, Zenon
      <4>3. f[k] = IF k = 0 THEN a ELSE g[<<k, f[k - 1]>>]
        BY <2>1, <4>1, Zenon DEF Steps
      <4> QED
        BY <4>2, <4>3, Zenon
    <3> QED
      BY <3>1, <3>2
  <2>4. h = [k \in 0 .. c + 1 |-> IF k = 0 THEN a ELSE g[<<k, h[k - 1]>>]]
    <3>1. h = [k \in 0 .. c + 1 |-> h[k]]
      BY <2>2, Zenon
    <3> QED
      BY <2>3, <3>1, Zenon
  <2>5. c + 1 \in 0 .. C
    OBVIOUS
  <2> QED
    BY <1>1, <2>4, <2>5, Zenon DEF Steps
<1>4. C \in S
  <2>1. 0 .. C \subseteq S
    BY <1>2, <1>3, UpTo
  <2> QED
    BY <2>1
<1> QED
  BY <1>1, <1>4, Zenon

(* e is the function that Visits is.                                        *)
IsVisits(e, a, b) ==
  e = [k \in 0 .. Cardinality(Elems) |->
        IF k = 0 THEN a
        ELSE IF e[k - 1] # b /\ has_next(e[k - 1]) THEN next[e[k - 1]] ELSE e[k - 1]]

(* next leads from a through s to b.                                        *)
Passes(a, s, b) ==
  /\ s \in Seq(Elems) /\ Len(s) <= Cardinality(Elems)
  /\ a = IF Len(s) = 0 THEN b ELSE s[1]
  /\ \A i \in DOMAIN s : s[i] # b /\ next[s[i]] = IF i = Len(s) THEN b ELSE s[i + 1]
  /\ b \in Nodes

(* What a loop visits.                                                      *)
Visited(e, C, s, behind) ==
  \A k \in 0 .. C : e[k] = IF k < Len(s) THEN s[k + 1] ELSE behind

(* A loop from a on goes along s and stops at b.                            *)
LEMMA VisitsAre ==
  ASSUME NEW a, NEW s, NEW b, Passes(a, s, b)
  PROVE  /\ DOMAIN Visits(a, b) = 0 .. Cardinality(Elems)
         /\ Visited(Visits(a, b), Cardinality(Elems), s, b)
<1>1. PICK C \in Nat : C = Cardinality(Elems)
  BY ListAssumption, FS_CardinalityType
<1>2. PICK n \in Nat : n = Len(s) /\ DOMAIN s = 1 .. n /\ n <= C
  BY <1>1 DEF Passes
<1>4. b \in Nodes /\ Elems \subseteq Nodes /\ NULL \notin Nodes
  BY NodeFacts DEF Passes
<1>5. \A i \in 1 .. n : s[i] \in Elems /\ s[i] # b /\ s[i] \in Nodes
  BY <1>2, <1>4 DEF Passes
<1>6. \A i \in 1 .. n : has_next(s[i]) /\ next[s[i]] = IF i = n THEN b ELSE s[i + 1]
  <2> SUFFICES ASSUME NEW i \in 1 .. n
               PROVE  has_next(s[i]) /\ next[s[i]] = IF i = n THEN b ELSE s[i + 1]
    OBVIOUS
  <2>1. next[s[i]] = IF i = n THEN b ELSE s[i + 1]
    BY <1>2, Zenon DEF Passes
  <2>2. i # n => i + 1 \in 1 .. n
    OBVIOUS
  <2>3. next[s[i]] \in Nodes
    BY <1>4, <1>5, <2>1, <2>2, Zenon
  <2> QED
    BY <1>4, <1>5, <2>1, <2>3, Zenon DEF has_next
<1>7. a = IF 0 < n THEN s[1] ELSE b
  BY <1>2 DEF Passes
(* One more iteration. *)
<1>8. ASSUME NEW k \in 0 .. C, k # 0, NEW x, x = IF k - 1 < n THEN s[(k - 1) + 1] ELSE b
      PROVE  (IF x # b /\ has_next(x) THEN next[x] ELSE x)
             = IF k < n THEN s[k + 1] ELSE b
  <2>1. CASE k - 1 < n
    <3>1. k \in 1 .. n /\ (k - 1) + 1 = k /\ (k = n <=> ~ (k < n))
      BY <1>8, <2>1
    <3>2. x = s[k]
      BY <1>8, <2>1, <3>1, Zenon
    <3>3. x # b /\ has_next(x) /\ next[x] = IF k = n THEN b ELSE s[k + 1]
      BY <1>5, <1>6, <3>1, <3>2, Zenon DEF list_end
    <3> QED
      BY <3>1, <3>3, Zenon
  <2>2. CASE ~ (k - 1 < n)
    <3>1. ~ (k < n)
      BY <2>2
    <3>2. x = b
      BY <1>8, <2>2, Zenon DEF list_end
    <3> QED
      BY <3>1, <3>2, Zenon DEF list_end
  <2> QED
    BY <2>1, <2>2
<1>9. \E e : IsVisits(e, a, b)
  <2>1. PICK e : e = [k \in 0 .. C |-> IF k < n THEN s[k + 1] ELSE b]
    OBVIOUS
  <2>2. ASSUME NEW k \in 0 .. C
        PROVE  e[k] = IF k = 0 THEN a
                      ELSE IF e[k - 1] # b /\ has_next(e[k - 1]) THEN next[e[k - 1]]
                      ELSE e[k - 1]
    <3>1. CASE k = 0
      <4>1. e[k] = a
        BY <1>7, <2>1, <3>1
      <4> QED
        BY <3>1, <4>1
    <3>2. CASE k # 0
      <4>1. k - 1 \in 0 .. C
        BY <3>2
      <4>2. e[k - 1] = IF k - 1 < n THEN s[(k - 1) + 1] ELSE b
        BY <2>1, <4>1, Zenon
      <4>3. e[k] = IF k < n THEN s[k + 1] ELSE b
        BY <2>1, Zenon
      <4> QED
        BY <1>8, <3>2, <4>2, <4>3, Zenon
    <3> QED
      BY <3>1, <3>2
  <2>3. e = [k \in 0 .. C |-> e[k]]
    BY <2>1, Zenon
  <2> QED
    BY <1>1, <2>2, <2>3, Zenon DEF IsVisits
<1>10. PICK e : e = Visits(a, b) /\ IsVisits(e, a, b)
  <2> DEFINE V == CHOOSE e : IsVisits(e, a, b)
  <2>1. IsVisits(V, a, b)
    BY <1>9, Zenon
  <2>2. V = Visits(a, b)
    BY Zenon DEF Visits, IsVisits
  <2> QED
    BY <2>1, <2>2, Zenon
<1>11. /\ DOMAIN e = 0 .. C
       /\ \A k \in 0 .. C :
            e[k] = IF k = 0 THEN a
                   ELSE IF e[k - 1] # b /\ has_next(e[k - 1]) THEN next[e[k - 1]]
                   ELSE e[k - 1]
  BY <1>1, <1>10, Zenon DEF IsVisits
<1>12. PICK S : S = { k \in 0 .. C : e[k] = IF k < n THEN s[k + 1] ELSE b }
  OBVIOUS
<1>13. 0 \in S
  BY <1>7, <1>11, <1>12
<1>14. ASSUME NEW k \in 0 .. C - 1, k \in S
       PROVE  k + 1 \in S
  <2>1. k + 1 \in 0 .. C /\ k + 1 # 0 /\ (k + 1) - 1 = k
    OBVIOUS
  <2>2. e[k] = IF (k + 1) - 1 < n THEN s[((k + 1) - 1) + 1] ELSE b
    BY <1>12, <1>14, <2>1, Zenon
  <2>3. e[k + 1] = IF k + 1 < n THEN s[(k + 1) + 1] ELSE b
    <3>1. e[k + 1] = IF e[k] # b /\ has_next(e[k]) THEN next[e[k]] ELSE e[k]
      BY <1>11, <2>1, Zenon
    <3>2. (IF e[k] # b /\ has_next(e[k]) THEN next[e[k]] ELSE e[k])
          = IF k + 1 < n THEN s[(k + 1) + 1] ELSE b
      BY <1>8, <2>1, <2>2, Zenon
    <3> QED
      BY <3>1, <3>2, Zenon
  <2> QED
    BY <1>12, <2>1, <2>3, Zenon
<1>15. 0 .. C \subseteq S
  BY <1>13, <1>14, UpTo
<1>16. \A k \in 0 .. C : e[k] = IF k < Len(s) THEN s[k + 1] ELSE b
  BY <1>2, <1>12, <1>15
<1>17. Visited(e, C, s, b)
  BY <1>16, Zenon DEF Visited
<1> QED
  BY <1>1, <1>10, <1>11, <1>17, Zenon

(* What is in l, by a walk along next.                                      *)
Along(l, s) ==
  /\ s \in Seq(Elems) /\ Len(s) <= Cardinality(Elems)
  /\ list_begin(l) = IF Len(s) = 0 THEN TailOf(l) ELSE s[1]
  /\ \A i \in DOMAIN s : next[s[i]] = IF i = Len(s) THEN TailOf(l) ELSE s[i + 1]

LEMMA AlongPasses ==
  ASSUME NEW l \in Lists, NEW s, Along(l, s)
  PROVE  Passes(list_begin(l), s, list_end(l))
BY NodeFacts DEF Along, Passes, list_end

(* So it counts the elements.                                               *)
LEMMA SizeIs ==
  ASSUME NEW l \in Lists, NEW s, Along(l, s)
  PROVE  list_size(l) = Len(s)
<1>1. PICK C \in Nat : C = Cardinality(Elems)
  BY ListAssumption, FS_CardinalityType
<1>2. PICK n \in Nat : n = Len(s) /\ DOMAIN s = 1 .. n /\ n <= C
  BY <1>1 DEF Along
<1>3. PICK e : e = Visits(list_begin(l), list_end(l)) /\ DOMAIN e = 0 .. C
               /\ \A k \in 0 .. C : e[k] = IF k < n THEN s[k + 1] ELSE TailOf(l)
  <2>1. Passes(list_begin(l), s, list_end(l))
    BY AlongPasses
  <2>2. /\ DOMAIN Visits(list_begin(l), list_end(l)) = 0 .. C
        /\ Visited(Visits(list_begin(l), list_end(l)), C, s, list_end(l))
    BY <1>1, <2>1, VisitsAre, Zenon
  <2> QED
    BY <1>2, <2>2, Zenon DEF list_end, Visited
<1>4. \A i \in 1 .. n : s[i] # TailOf(l)
  BY <1>2, NodeFacts DEF Along
<1>5. { k \in DOMAIN e : e[k] # list_end(l) } = 0 .. n - 1
  <2>1. ASSUME NEW k \in 0 .. C
        PROVE  e[k] # list_end(l) <=> k < n
    <3>1. k < n => k + 1 \in 1 .. n
      BY <1>2
    <3> QED
      BY <1>3, <1>4, <3>1, Zenon DEF list_end
  <2> QED
    BY <1>2, <1>3, <2>1
<1>6. Cardinality(0 .. n - 1) = n
  BY FS_Interval
<1> QED
  BY <1>2, <1>3, <1>5, <1>6, Zenon DEF list_size


----------------------------------------------------------------------------
(* The best so far of s, by some weight; a later one must be better.        *)

Best(f, C, n, s, w) ==
  /\ f = [k \in 0 .. C |-> f[k]]
  /\ f[0] = s[1]
  /\ \A k \in 1 .. C :
       f[k] = IF k < n /\ w[f[k - 1]] < w[s[k + 1]] THEN s[k + 1] ELSE f[k - 1]

LEMMA BestExists ==
  ASSUME NEW C \in Nat, NEW n \in Nat, NEW s, NEW w, 0 < n, \A i \in 1 .. n : s[i] \in Elems
  PROVE  \E f : Best(f, C, n, s, w) /\ \A k \in 0 .. C : f[k] \in Elems
<1>1. PICK g : g = [p \in (1 .. C) \X Elems |->
                     IF p[1] < n /\ w[p[2]] < w[s[p[1] + 1]] THEN s[p[1] + 1] ELSE p[2]]
  OBVIOUS
<1>2. PICK f : Steps(f, C, s[1], g)
  BY StepsExist
<1>3. \A k \in 0 .. C : f[k] = IF k = 0 THEN s[1] ELSE g[<<k, f[k - 1]>>]
  BY <1>2, Zenon DEF Steps
<1>4. ASSUME NEW k \in 1 .. C, f[k - 1] \in Elems
      PROVE  /\ f[k] = IF k < n /\ w[f[k - 1]] < w[s[k + 1]] THEN s[k + 1] ELSE f[k - 1]
             /\ f[k] \in Elems
  <2>1. k \in 0 .. C /\ k # 0 /\ (k < n => k + 1 \in 1 .. n)
    OBVIOUS
  <2>2. PICK x \in Elems : x = f[k - 1]
    BY <1>4
  <2>3. f[k] = g[<<k, x>>]
    BY <1>3, <2>1, <2>2, Zenon
  <2>4. g[<<k, x>>] = IF k < n /\ w[x] < w[s[k + 1]] THEN s[k + 1] ELSE x
    BY <1>1
  <2>5. k < n => s[k + 1] \in Elems
    BY <2>1, Zenon
  <2> QED
    BY <2>2, <2>3, <2>4, <2>5, Zenon
<1>5. PICK S : S = { k \in 0 .. C : f[k] \in Elems }
  OBVIOUS
<1>6. 0 \in S
  <2>1. 1 \in 1 .. n /\ 0 \in 0 .. C
    OBVIOUS
  <2> QED
    BY <1>3, <1>5, <2>1, Zenon
<1>7. ASSUME NEW k \in 0 .. C - 1, k \in S
      PROVE  k + 1 \in S
  <2>1. k + 1 \in 1 .. C /\ k + 1 \in 0 .. C /\ (k + 1) - 1 = k
    OBVIOUS
  <2>2. f[(k + 1) - 1] \in Elems
    BY <1>5, <1>7, <2>1, Zenon
  <2> QED
    BY <1>4, <1>5, <2>1, <2>2, Zenon
<1>8. 0 .. C \subseteq S
  BY <1>6, <1>7, UpTo
<1>9. \A k \in 0 .. C : f[k] \in Elems
  BY <1>5, <1>8, Zenon
<1>10. Best(f, C, n, s, w)
  <2>1. f = [k \in 0 .. C |-> f[k]]
    BY <1>2, Zenon DEF Steps
  <2>2. f[0] = s[1]
    <3>1. 0 \in 0 .. C
      OBVIOUS
    <3> QED
      BY <1>3, <3>1, Zenon
  <2>3. \A k \in 1 .. C : k - 1 \in 0 .. C
    OBVIOUS
  <2> QED
    BY <1>4, <1>9, <2>1, <2>2, <2>3, Zenon DEF Best
<1> QED
  BY <1>9, <1>10, Zenon

(* Of the best of s, x is the one in front.                                 *)
Foremost(x, n, s, w) ==
  \E i \in 1 .. n : /\ x = s[i]
                    /\ \A j \in 1 .. n : w[s[j]] <= w[s[i]] /\ (w[s[j]] = w[s[i]] => i <= j)

LEMMA BestIs ==
  ASSUME NEW C \in Nat, NEW n \in Nat, NEW s, NEW w \in [Elems -> Int], 0 < n, n <= C,
         \A i \in 1 .. n : s[i] \in Elems, NEW f, Best(f, C, n, s, w)
  PROVE  Foremost(f[C], n, s, w)
<1>1. /\ f[0] = s[1]
      /\ \A k \in 1 .. C :
           f[k] = IF k < n /\ w[f[k - 1]] < w[s[k + 1]] THEN s[k + 1] ELSE f[k - 1]
  BY Zenon DEF Best
<1>2. PICK v : \A i \in 1 .. n : v[i] = w[s[i]] /\ v[i] \in Int
  <2>1. PICK v : v = [i \in 1 .. n |-> w[s[i]]]
    OBVIOUS
  <2> QED
    BY <2>1
<1>3. PICK S : S = { k \in 0 .. C : \E i \in 1 .. n :
                       /\ f[k] = s[i] /\ i <= k + 1
                       /\ \A j \in 1 .. n : j <= k + 1 => v[j] <= v[i] /\ (v[j] = v[i] => i <= j) }
  OBVIOUS
<1>4. 0 \in S
  <2>1. 1 \in 1 .. n /\ 1 <= 0 + 1 /\ \A j \in 1 .. n : j <= 0 + 1 => j = 1
    OBVIOUS
  <2>2. \A j \in 1 .. n : j <= 0 + 1 => v[j] <= v[1] /\ (v[j] = v[1] => 1 <= j)
    BY <1>2, <2>1
  <2>3. 0 \in 0 .. C
    OBVIOUS
  <2> QED
    BY <1>1, <1>3, <2>1, <2>2, <2>3, Zenon
<1>5. ASSUME NEW k \in 0 .. C - 1, k \in S
      PROVE  k + 1 \in S
  <2>1. PICK i \in 1 .. n :
          /\ f[k] = s[i] /\ i <= k + 1
          /\ \A j \in 1 .. n : j <= k + 1 => v[j] <= v[i] /\ (v[j] = v[i] => i <= j)
    BY <1>3, <1>5, Zenon
  <2>2. k + 1 \in 1 .. C /\ (k + 1) - 1 = k /\ k + 1 \in 0 .. C /\ i <= (k + 1) + 1
    BY <2>1
  <2>3. f[k + 1] = IF k + 1 < n /\ w[f[k]] < w[s[(k + 1) + 1]] THEN s[(k + 1) + 1] ELSE f[k]
    BY <1>1, <2>2, Zenon
  <2>4. w[f[k]] = v[i]
    BY <1>2, <2>1, Zenon
  <2>5. CASE k + 1 < n
    <3>1. PICK h \in 1 .. n :
            /\ h = (k + 1) + 1 /\ h <= (k + 1) + 1 /\ i <= h
            /\ \A j \in 1 .. n : j <= (k + 1) + 1 => j <= k + 1 \/ j = h
      BY <2>1, <2>5
    <3>2. w[s[h]] = v[h]
      BY <1>2, Zenon
    <3>3. f[k + 1] = IF v[i] < v[h] THEN s[h] ELSE s[i]
      BY <2>1, <2>3, <2>4, <2>5, <3>1, <3>2, Zenon
    <3>4. CASE v[i] < v[h]
      <4>1. \A j \in 1 .. n : j <= (k + 1) + 1 => v[j] <= v[h] /\ (v[j] = v[h] => h <= j)
        <5> SUFFICES ASSUME NEW j \in 1 .. n, j <= (k + 1) + 1
                     PROVE  v[j] <= v[h] /\ (v[j] = v[h] => h <= j)
          OBVIOUS
        <5>1. v[j] \in Int /\ v[i] \in Int /\ v[h] \in Int
          BY <1>2, Zenon
        <5>2. v[j] <= v[i] \/ j = h
          BY <2>1, <3>1, Zenon
        <5> QED
          BY <3>4, <5>1, <5>2
      <4>2. f[k + 1] = s[h]
        BY <3>3, <3>4, Zenon
      <4> QED
        BY <1>3, <2>2, <3>1, <4>1, <4>2, Zenon
    <3>5. CASE ~ (v[i] < v[h])
      <4>1. \A j \in 1 .. n : j <= (k + 1) + 1 => v[j] <= v[i] /\ (v[j] = v[i] => i <= j)
        <5> SUFFICES ASSUME NEW j \in 1 .. n, j <= (k + 1) + 1
                     PROVE  v[j] <= v[i] /\ (v[j] = v[i] => i <= j)
          OBVIOUS
        <5>1. CASE j = h
          <6>1. v[i] \in Int /\ v[h] \in Int
            BY <1>2, Zenon
          <6> QED
            BY <3>1, <3>5, <5>1, <6>1
        <5>2. CASE j # h
          BY <2>1, <3>1, <5>2, Zenon
        <5> QED
          BY <5>1, <5>2
      <4>2. f[k + 1] = s[i]
        BY <3>3, <3>5, Zenon
      <4> QED
        BY <1>3, <2>2, <3>1, <4>1, <4>2, Zenon
    <3> QED
      BY <3>4, <3>5
  <2>6. CASE ~ (k + 1 < n)
    <3>1. \A j \in 1 .. n : j <= k + 1
      BY <2>6
    <3>2. f[k + 1] = s[i]
      BY <2>1, <2>3, <2>6, Zenon
    <3> QED
      BY <1>3, <2>1, <2>2, <3>1, <3>2, Zenon
  <2> QED
    BY <2>5, <2>6
<1>6. C \in S
  <2>1. 0 .. C \subseteq S
    BY <1>4, <1>5, UpTo
  <2> QED
    BY <2>1
<1>7. \A j \in 1 .. n : j <= C + 1
  OBVIOUS
<1>8. PICK i \in 1 .. n :
        /\ f[C] = s[i]
        /\ \A j \in 1 .. n : j <= C + 1 => v[j] <= v[i] /\ (v[j] = v[i] => i <= j)
  BY <1>3, <1>6, Zenon
<1>9. \A j \in 1 .. n : w[s[j]] <= w[s[i]] /\ (w[s[j]] = w[s[i]] => i <= j)
  <2> SUFFICES ASSUME NEW j \in 1 .. n
               PROVE  w[s[j]] <= w[s[i]] /\ (w[s[j]] = w[s[i]] => i <= j)
    OBVIOUS
  <2>1. v[j] = w[s[j]] /\ v[i] = w[s[i]]
    BY <1>2, Zenon
  <2>2. v[j] <= v[i] /\ (v[j] = v[i] => i <= j)
    BY <1>7, <1>8, Zenon
  <2> QED
    BY <2>1, <2>2
<1> QED
  BY <1>8, <1>9, Zenon DEF Foremost
----------------------------------------------------------------------------
(* list_max and list_min                                                    *)

(* m is the function by which list_max is defined, for a loop that visits e.*)
IsMax(m, e, l) ==
  m = [k \in 0 .. Cardinality(Elems) |->
        IF k = 0 THEN e[0]
        ELSE IF e[k] # list_end(l) /\ Less(m[k - 1], e[k]) THEN e[k] ELSE m[k - 1]]

IsMin(m, e, l) ==
  m = [k \in 0 .. Cardinality(Elems) |->
        IF k = 0 THEN e[0]
        ELSE IF e[k] # list_end(l) /\ Less(e[k], m[k - 1]) THEN e[k] ELSE m[k - 1]]

LEMMA MaxExists ==
  ASSUME NEW l \in Lists, NEW s, Along(l, s), NEW e, NEW C \in Nat, C = Cardinality(Elems),
         Visited(e, C, s, list_end(l))
  PROVE  \E m : IsMax(m, e, l)
<1>1. PICK n \in Nat : n = Len(s) /\ n <= C /\ DOMAIN s = 1 .. n
  BY DEF Along
<1>2. \A i \in 1 .. n : s[i] \in Elems /\ s[i] # list_end(l)
  BY <1>1, NodeFacts DEF Along, list_end
<1>3. \A k \in 0 .. C : e[k] = IF k < n THEN s[k + 1] ELSE list_end(l)
  BY <1>1, Zenon DEF Visited
<1>4. CASE n = 0
  <2>1. PICK m : m = [k \in 0 .. C |-> list_end(l)]
    OBVIOUS
  <2>2. ASSUME NEW k \in 0 .. C
        PROVE  m[k] = IF k = 0 THEN e[0]
                      ELSE IF e[k] # list_end(l) /\ Less(m[k - 1], e[k]) THEN e[k] ELSE m[k - 1]
    <3>1. e[k] = list_end(l) /\ m[k] = list_end(l)
      BY <1>3, <1>4, <2>1
    <3>2. k # 0 => k - 1 \in 0 .. C
      OBVIOUS
    <3>3. k # 0 => m[k - 1] = list_end(l)
      BY <2>1, <3>2, Zenon
    <3> QED
      BY <3>1, <3>3, Zenon
  <2>3. m = [k \in 0 .. C |-> m[k]]
    BY <2>1, Zenon
  <2> QED
    BY <2>2, <2>3, Zenon DEF IsMax
<1>5. CASE n # 0
  <2>1. 0 < n /\ \A i \in 1 .. n : s[i] \in Elems
    BY <1>2, <1>5
  <2>2. PICK m : Best(m, C, n, s, Key)
    BY <2>1, BestExists, Zenon
  <2>3. ASSUME NEW k \in 0 .. C
        PROVE  m[k] = IF k = 0 THEN e[0]
                      ELSE IF e[k] # list_end(l) /\ Less(m[k - 1], e[k]) THEN e[k] ELSE m[k - 1]
    <3>1. 0 \in 0 .. C /\ 0 + 1 = 1 /\ (k # 0 => k \in 1 .. C) /\ (k < n => k + 1 \in 1 .. n)
      OBVIOUS
    <3>2. e[0] = s[1] /\ m[0] = s[1]
      BY <1>3, <2>1, <2>2, <3>1, Zenon DEF Best
    <3>3. k # 0 =>
            m[k] = IF k < n /\ Key[m[k - 1]] < Key[s[k + 1]] THEN s[k + 1] ELSE m[k - 1]
      BY <2>2, <3>1, Zenon DEF Best
    <3>4. (k < n => e[k] = s[k + 1]) /\ (e[k] # list_end(l) <=> k < n)
      BY <1>2, <1>3, <3>1, Zenon
    <3> QED
      BY <3>2, <3>3, <3>4, Zenon DEF Less
  <2>4. m = [k \in 0 .. C |-> m[k]]
    BY <2>2, Zenon DEF Best
  <2> QED
    BY <2>3, <2>4, Zenon DEF IsMax
<1> QED
  BY <1>4, <1>5

LEMMA MaxIs ==
  ASSUME NEW l \in Lists, NEW s, Along(l, s)
  PROVE  /\ Len(s) = 0 => list_max(l) = list_end(l)
         /\ Len(s) # 0 => Foremost(list_max(l), Len(s), s, Key)
<1>1. PICK C \in Nat : C = Cardinality(Elems)
  BY ListAssumption, FS_CardinalityType
<1>2. PICK n \in Nat : n = Len(s) /\ n <= C /\ DOMAIN s = 1 .. n
  BY <1>1 DEF Along
<1>3. \A i \in 1 .. n : s[i] \in Elems /\ s[i] # list_end(l)
  BY <1>2, NodeFacts DEF Along, list_end
<1>4. PICK e : e = Visits(list_begin(l), list_end(l)) /\ Visited(e, C, s, list_end(l))
  <2>1. Passes(list_begin(l), s, list_end(l))
    BY AlongPasses
  <2> QED
    BY <1>1, <2>1, VisitsAre, Zenon
<1>5. \A k \in 0 .. C : e[k] = IF k < n THEN s[k + 1] ELSE list_end(l)
  BY <1>2, <1>4, Zenon DEF Visited
<1>6. PICK m : IsMax(m, e, l) /\ list_max(l) = m[C]
  <2> DEFINE M == CHOOSE m : IsMax(m, Visits(list_begin(l), list_end(l)), l)
  <2>1. IsMax(M, Visits(list_begin(l), list_end(l)), l)
    BY <1>1, <1>4, MaxExists, Zenon
  <2>2. list_max(l) = M[Cardinality(Elems)]
    BY Zenon DEF list_max, IsMax
  <2> HIDE DEF M
  <2> QED
    BY <1>1, <1>4, <2>1, <2>2, Zenon
<1>7. \A k \in 0 .. C :
        m[k] = IF k = 0 THEN e[0]
               ELSE IF e[k] # list_end(l) /\ Less(m[k - 1], e[k]) THEN e[k] ELSE m[k - 1]
  BY <1>1, <1>6, Zenon DEF IsMax
<1>8. CASE n = 0
  <2>1. PICK S : S = { k \in 0 .. C : m[k] = list_end(l) }
    OBVIOUS
  <2>2. \A k \in 0 .. C : e[k] = list_end(l)
    BY <1>5, <1>8
  <2>3. 0 \in S
    BY <1>7, <2>1, <2>2
  <2>4. ASSUME NEW k \in 0 .. C - 1, k \in S
        PROVE  k + 1 \in S
    <3>1. k + 1 \in 0 .. C /\ k + 1 # 0 /\ (k + 1) - 1 = k
      OBVIOUS
    <3>2. m[k + 1] = m[k]
      BY <1>7, <2>2, <3>1, Zenon
    <3> QED
      BY <2>1, <2>4, <3>1, <3>2, Zenon
  <2>5. C \in S
    <3>1. 0 .. C \subseteq S
      BY <2>3, <2>4, UpTo
    <3> QED
      BY <3>1
  <2> QED
    BY <1>2, <1>6, <1>8, <2>1, <2>5, Zenon
<1>9. CASE n # 0
  <2>1. Best(m, C, n, s, Key)
    <3>1. m = [k \in 0 .. C |-> m[k]]
      BY <1>1, <1>6, Zenon DEF IsMax
    <3>2. m[0] = s[1]
      BY <1>5, <1>7, <1>9
    <3>3. ASSUME NEW k \in 1 .. C
          PROVE  m[k] = IF k < n /\ Key[m[k - 1]] < Key[s[k + 1]] THEN s[k + 1] ELSE m[k - 1]
      <4>1. k \in 0 .. C /\ k # 0 /\ (k < n => k + 1 \in 1 .. n)
        OBVIOUS
      <4>2. (k < n => e[k] = s[k + 1]) /\ (e[k] # list_end(l) <=> k < n)
        BY <1>3, <1>5, <4>1, Zenon
      <4>3. m[k] = IF e[k] # list_end(l) /\ Less(m[k - 1], e[k]) THEN e[k] ELSE m[k - 1]
        BY <1>7, <4>1, Zenon
      <4> QED
        BY <4>2, <4>3, Zenon DEF Less
    <3> QED
      BY <3>1, <3>2, <3>3, Zenon DEF Best
  <2>2. 0 < n /\ Key \in [Elems -> Int] /\ \A i \in 1 .. n : s[i] \in Elems
    BY <1>3, <1>9, ListAssumption
  <2>3. Foremost(m[C], n, s, Key)
    BY <1>2, <2>1, <2>2, BestIs, Zenon
  <2> QED
    BY <1>2, <1>6, <1>9, <2>3, Zenon
<1> QED
  BY <1>8, <1>9


(* The smallest is the largest in the opposite order.                       *)
Lightness == [x \in Elems |-> - Key[x]]

LEMMA Lighter ==
  /\ Lightness \in [Elems -> Int]
  /\ \A x, y \in Elems : Lightness[x] < Lightness[y] <=> Less(y, x)
<1>1. \A x \in Elems : Key[x] \in Int /\ Lightness[x] = - Key[x]
  BY ListAssumption DEF Lightness
<1>2. Lightness \in [Elems -> Int]
  BY ListAssumption DEF Lightness
<1> HIDE DEF Lightness
<1> QED
  BY <1>1, <1>2 DEF Less

LEMMA MinExists ==
  ASSUME NEW l \in Lists, NEW s, Along(l, s), NEW e, NEW C \in Nat, C = Cardinality(Elems),
         Visited(e, C, s, list_end(l))
  PROVE  \E m : IsMin(m, e, l)
<1>1. PICK n \in Nat : n = Len(s) /\ n <= C /\ DOMAIN s = 1 .. n
  BY DEF Along
<1>2. \A i \in 1 .. n : s[i] \in Elems /\ s[i] # list_end(l)
  BY <1>1, NodeFacts DEF Along, list_end
<1>3. \A k \in 0 .. C : e[k] = IF k < n THEN s[k + 1] ELSE list_end(l)
  BY <1>1, Zenon DEF Visited
<1>4. CASE n = 0
  <2>1. PICK m : m = [k \in 0 .. C |-> list_end(l)]
    OBVIOUS
  <2>2. ASSUME NEW k \in 0 .. C
        PROVE  m[k] = IF k = 0 THEN e[0]
                      ELSE IF e[k] # list_end(l) /\ Less(e[k], m[k - 1]) THEN e[k] ELSE m[k - 1]
    <3>1. e[k] = list_end(l) /\ m[k] = list_end(l)
      BY <1>3, <1>4, <2>1
    <3>2. k # 0 => k - 1 \in 0 .. C
      OBVIOUS
    <3>3. k # 0 => m[k - 1] = list_end(l)
      BY <2>1, <3>2, Zenon
    <3> QED
      BY <3>1, <3>3, Zenon
  <2>3. m = [k \in 0 .. C |-> m[k]]
    BY <2>1, Zenon
  <2> QED
    BY <2>2, <2>3, Zenon DEF IsMin
<1>5. CASE n # 0
  <2>1. 0 < n /\ \A i \in 1 .. n : s[i] \in Elems
    BY <1>2, <1>5
  <2>2. PICK m : Best(m, C, n, s, Lightness) /\ \A k \in 0 .. C : m[k] \in Elems
    BY <2>1, BestExists, Zenon
  <2>3. ASSUME NEW k \in 0 .. C
        PROVE  m[k] = IF k = 0 THEN e[0]
                      ELSE IF e[k] # list_end(l) /\ Less(e[k], m[k - 1]) THEN e[k] ELSE m[k - 1]
    <3>1. 0 \in 0 .. C /\ 0 + 1 = 1 /\ (k # 0 => k \in 1 .. C) /\ (k < n => k + 1 \in 1 .. n)
      OBVIOUS
    <3>2. e[0] = s[1] /\ m[0] = s[1]
      BY <1>3, <2>1, <2>2, <3>1, Zenon DEF Best
    <3>3. k # 0 =>
            m[k] = IF k < n /\ Less(s[k + 1], m[k - 1]) THEN s[k + 1] ELSE m[k - 1]
      <4>1. k # 0 =>
              m[k] = IF k < n /\ Lightness[m[k - 1]] < Lightness[s[k + 1]] THEN s[k + 1] ELSE m[k - 1]
        BY <2>2, <3>1, Zenon DEF Best
      <4>2. k # 0 => k - 1 \in 0 .. C
        OBVIOUS
      <4>3. k # 0 /\ k < n =>
              (Lightness[m[k - 1]] < Lightness[s[k + 1]] <=> Less(s[k + 1], m[k - 1]))
        BY <2>1, <2>2, <3>1, <4>2, Lighter, Zenon
      <4> QED
        BY <4>1, <4>3, Zenon
    <3>4. (k < n => e[k] = s[k + 1]) /\ (e[k] # list_end(l) <=> k < n)
      BY <1>2, <1>3, <3>1, Zenon
    <3> QED
      BY <3>2, <3>3, <3>4, Zenon
  <2>4. m = [k \in 0 .. C |-> m[k]]
    BY <2>2, Zenon DEF Best
  <2> QED
    BY <2>3, <2>4, Zenon DEF IsMin
<1> QED
  BY <1>4, <1>5

LEMMA MinIs ==
  ASSUME NEW l \in Lists, NEW s, Along(l, s)
  PROVE  /\ Len(s) = 0 => list_min(l) = list_end(l)
         /\ Len(s) # 0 => Foremost(list_min(l), Len(s), s, Lightness)
<1>1. PICK C \in Nat : C = Cardinality(Elems)
  BY ListAssumption, FS_CardinalityType
<1>2. PICK n \in Nat : n = Len(s) /\ n <= C /\ DOMAIN s = 1 .. n
  BY <1>1 DEF Along
<1>3. \A i \in 1 .. n : s[i] \in Elems /\ s[i] # list_end(l)
  BY <1>2, NodeFacts DEF Along, list_end
<1>4. PICK e : e = Visits(list_begin(l), list_end(l)) /\ Visited(e, C, s, list_end(l))
  <2>1. Passes(list_begin(l), s, list_end(l))
    BY AlongPasses
  <2> QED
    BY <1>1, <2>1, VisitsAre, Zenon
<1>5. \A k \in 0 .. C : e[k] = IF k < n THEN s[k + 1] ELSE list_end(l)
  BY <1>2, <1>4, Zenon DEF Visited
<1>6. PICK m : IsMin(m, e, l) /\ list_min(l) = m[C]
  <2> DEFINE M == CHOOSE m : IsMin(m, Visits(list_begin(l), list_end(l)), l)
  <2>1. IsMin(M, Visits(list_begin(l), list_end(l)), l)
    BY <1>1, <1>4, MinExists, Zenon
  <2>2. list_min(l) = M[Cardinality(Elems)]
    BY Zenon DEF list_min, IsMin
  <2> HIDE DEF M
  <2> QED
    BY <1>1, <1>4, <2>1, <2>2, Zenon
<1>7. \A k \in 0 .. C :
        m[k] = IF k = 0 THEN e[0]
               ELSE IF e[k] # list_end(l) /\ Less(e[k], m[k - 1]) THEN e[k] ELSE m[k - 1]
  BY <1>1, <1>6, Zenon DEF IsMin
<1>8. CASE n = 0
  <2>1. PICK S : S = { k \in 0 .. C : m[k] = list_end(l) }
    OBVIOUS
  <2>2. \A k \in 0 .. C : e[k] = list_end(l)
    BY <1>5, <1>8
  <2>3. 0 \in S
    BY <1>7, <2>1, <2>2
  <2>4. ASSUME NEW k \in 0 .. C - 1, k \in S
        PROVE  k + 1 \in S
    <3>1. k + 1 \in 0 .. C /\ k + 1 # 0 /\ (k + 1) - 1 = k
      OBVIOUS
    <3>2. m[k + 1] = m[k]
      BY <1>7, <2>2, <3>1, Zenon
    <3> QED
      BY <2>1, <2>4, <3>1, <3>2, Zenon
  <2>5. C \in S
    <3>1. 0 .. C \subseteq S
      BY <2>3, <2>4, UpTo
    <3> QED
      BY <3>1
  <2> QED
    BY <1>2, <1>6, <1>8, <2>1, <2>5, Zenon
<1>9. CASE n # 0
  <2>0. \A k \in 0 .. C : m[k] \in Elems
    <3>1. PICK S : S = { k \in 0 .. C : m[k] \in Elems }
      OBVIOUS
    <3>2. 0 \in S
      BY <1>3, <1>5, <1>7, <1>9, <3>1
    <3>3. ASSUME NEW k \in 0 .. C - 1, k \in S
          PROVE  k + 1 \in S
      <4>1. k + 1 \in 0 .. C /\ k + 1 # 0 /\ (k + 1) - 1 = k
            /\ (k + 1 < n => (k + 1) + 1 \in 1 .. n)
        OBVIOUS
      <4>2. m[k + 1] = IF e[k + 1] # list_end(l) /\ Less(e[k + 1], m[k]) THEN e[k + 1] ELSE m[k]
        <5>1. m[k + 1] = IF e[k + 1] # list_end(l) /\ Less(e[k + 1], m[(k + 1) - 1])
                         THEN e[k + 1] ELSE m[(k + 1) - 1]
          BY <1>7, <4>1, Zenon
        <5> QED
          BY <4>1, <5>1
      <4>3. e[k + 1] # list_end(l) => e[k + 1] \in Elems
        BY <1>3, <1>5, <4>1, Zenon
      <4> QED
        BY <3>1, <3>3, <4>1, <4>2, <4>3, Zenon
    <3>4. 0 .. C \subseteq S
      BY <3>2, <3>3, UpTo
    <3> QED
      BY <3>1, <3>4, Zenon
  <2>1. Best(m, C, n, s, Lightness)
    <3>1. m = [k \in 0 .. C |-> m[k]]
      BY <1>1, <1>6, Zenon DEF IsMin
    <3>2. m[0] = s[1]
      BY <1>5, <1>7, <1>9
    <3>3. ASSUME NEW k \in 1 .. C
          PROVE  m[k] = IF k < n /\ Lightness[m[k - 1]] < Lightness[s[k + 1]] THEN s[k + 1] ELSE m[k - 1]
      <4>1. k \in 0 .. C /\ k # 0 /\ (k < n => k + 1 \in 1 .. n)
        OBVIOUS
      <4>2. (k < n => e[k] = s[k + 1]) /\ (e[k] # list_end(l) <=> k < n)
        BY <1>3, <1>5, <4>1, Zenon
      <4>3. m[k] = IF e[k] # list_end(l) /\ Less(e[k], m[k - 1]) THEN e[k] ELSE m[k - 1]
        BY <1>7, <4>1, Zenon
      <4>4. k < n => (Lightness[m[k - 1]] < Lightness[s[k + 1]] <=> Less(s[k + 1], m[k - 1]))
        <5>1. k - 1 \in 0 .. C
          OBVIOUS
        <5> QED
          BY <1>3, <2>0, <4>1, <5>1, Lighter, Zenon
      <4> QED
        BY <4>2, <4>3, <4>4, Zenon
    <3> QED
      BY <3>1, <3>2, <3>3, Zenon DEF Best
  <2>2. 0 < n /\ Lightness \in [Elems -> Int] /\ \A i \in 1 .. n : s[i] \in Elems
    BY <1>3, <1>9, Lighter
  <2>3. Foremost(m[C], n, s, Lightness)
    BY <1>2, <2>1, <2>2, BestIs, Zenon
  <2> QED
    BY <1>2, <1>6, <1>9, <2>3, Zenon
<1> QED
  BY <1>8, <1>9

----------------------------------------------------------------------------
(* The queries                                                              *)

(* What the queries answer for l when its elements are t.                    *)
Answers(l, t) ==
  /\ list_size(l) = Len(t)
  /\ t = <<>> => list_max(l) = list_end(l) /\ list_min(l) = list_end(l)
  /\ t # <<>> =>
       /\ \E i \in DOMAIN t :
            /\ list_max(l) = t[i]
            /\ \A j \in DOMAIN t : Key[t[j]] < Key[t[i]] \/ (Key[t[j]] = Key[t[i]] /\ i <= j)
       /\ \E i \in DOMAIN t :
            /\ list_min(l) = t[i]
            /\ \A j \in DOMAIN t : Key[t[i]] < Key[t[j]] \/ (Key[t[i]] = Key[t[j]] /\ i <= j)

LEMMA InvQueries == IInv => QueriesAreExact
<1> SUFFICES ASSUME IInv, pc = "idle", NEW l \in Lists
             PROVE  Answers(l, Interior(l))
  BY Zenon DEF QueriesAreExact, Answers
<1>1. PICK owner \in [Nodes -> Lists \cup {NULL}], rank \in [Nodes -> Int] : Ordered(owner, rank)
  BY DEF IInv
<1>2. Typed /\ ~ (pc = "reverse" /\ at.list = l)
  BY DEF IInv
<1>3. PICK s \in Seq(Elems) :
        /\ s = Interior(l)
        /\ \A i, j \in DOMAIN s : i < j => rank[s[i]] < rank[s[j]]
        /\ list_begin(l) = IF Len(s) = 0 THEN TailOf(l) ELSE s[1]
        /\ \A i \in DOMAIN s : next[s[i]] = IF i = Len(s) THEN TailOf(l) ELSE s[i + 1]
  BY <1>1, <1>2, InteriorOrder
<1>4. PICK n \in Nat : n = Len(s) /\ DOMAIN s = 1 .. n
  BY <1>3
<1>5. \A i \in 1 .. n : s[i] \in Elems
  BY <1>3, <1>4
<1>6. n <= Cardinality(Elems)
  <2>1. ASSUME NEW i \in 1 .. n, NEW j \in 1 .. n, s[i] = s[j]
        PROVE  i = j
    <3>1. s[i] \in Nodes /\ rank[s[i]] \in Int
      BY <1>5, NodeFacts
    <3>2. rank[s[i]] = rank[s[j]] /\ ~ (rank[s[i]] < rank[s[i]])
      BY <2>1, <3>1
    <3>3. ~ (i < j) /\ ~ (j < i)
      BY <1>3, <1>4, <3>2
    <3> QED
      BY <3>3
  <2>2. s \in [1 .. n -> Elems]
    BY <1>3, <1>4
  <2>3. s \in Injection(1 .. n, Elems)
    BY <2>1, <2>2 DEF Injection, IsInjective
  <2>4. Cardinality(1 .. n) <= Cardinality(Elems)
    BY <2>3, ListAssumption, FS_Injection
  <2>5. Cardinality(1 .. n) = n
    BY FS_Interval
  <2> QED
    BY <2>4, <2>5
<1>7. Along(l, s)
  BY <1>3, <1>4, <1>6 DEF Along
<1>8. list_size(l) = n
  BY <1>4, <1>7, SizeIs
<1>9. \A i \in 1 .. n : Key[s[i]] \in Int
  BY <1>5, ListAssumption
<1>10. s = <<>> <=> n = 0
  BY <1>3, <1>4
<1>11. ASSUME n # 0
       PROVE  \E i \in 1 .. n :
                /\ list_max(l) = s[i]
                /\ \A j \in 1 .. n : Key[s[j]] < Key[s[i]] \/ (Key[s[j]] = Key[s[i]] /\ i <= j)
  <2>1. Foremost(list_max(l), n, s, Key)
    BY <1>4, <1>7, <1>11, MaxIs
  <2>2. PICK i \in 1 .. n :
          /\ list_max(l) = s[i]
          /\ \A j \in 1 .. n : Key[s[j]] <= Key[s[i]] /\ (Key[s[j]] = Key[s[i]] => i <= j)
    BY <2>1, Zenon DEF Foremost
  <2>3. \A j \in 1 .. n : Key[s[j]] < Key[s[i]] \/ (Key[s[j]] = Key[s[i]] /\ i <= j)
    BY <1>9, <2>2
  <2> QED
    BY <2>2, <2>3, Zenon
<1>12. ASSUME n # 0
       PROVE  \E i \in 1 .. n :
                /\ list_min(l) = s[i]
                /\ \A j \in 1 .. n : Key[s[i]] < Key[s[j]] \/ (Key[s[i]] = Key[s[j]] /\ i <= j)
  <2>1. Foremost(list_min(l), n, s, Lightness)
    BY <1>4, <1>7, <1>12, MinIs
  <2>2. PICK i \in 1 .. n :
          /\ list_min(l) = s[i]
          /\ \A j \in 1 .. n : /\ Lightness[s[j]] <= Lightness[s[i]]
                               /\ Lightness[s[j]] = Lightness[s[i]] => i <= j
    BY <2>1, Zenon DEF Foremost
  <2>3. \A j \in 1 .. n : Lightness[s[j]] = - Key[s[j]]
    BY <1>5, Zenon DEF Lightness
  <2>4. \A j \in 1 .. n : Key[s[i]] < Key[s[j]] \/ (Key[s[i]] = Key[s[j]] /\ i <= j)
    BY <1>9, <2>2, <2>3
  <2> QED
    BY <2>2, <2>4, Zenon
<1>13. n = 0 => list_max(l) = list_end(l) /\ list_min(l) = list_end(l)
  BY <1>4, <1>7, MaxIs, MinIs
<1>14. Answers(l, s)
  BY <1>4, <1>8, <1>10, <1>11, <1>12, <1>13, Zenon DEF Answers
<1> QED
  BY <1>3, <1>14, Zenon

----------------------------------------------------------------------------
(* Theorems                                                                 *)

(* In every reachable state every node has its place: the links of a list   *)
(* that no reverse has half turned are those of one order of its elements.  *)
THEOREM InductiveInvariant == Spec => []IInv
<1>1. Init => IInv
  BY InitOrder
<1>2. IInv /\ [Next]_vars => IInv'
  BY InsertInv, RemoveInv, SpliceInv, EnterInv, OrderedInv, ReverseStepInv, ReverseEndInv,
     UniqueInv, SortWalksInv, MergeMovesInv, StutterInv DEF Next, Loop
<1> QED
  BY <1>1, <1>2, PTL DEF Spec

(* Whatever calls came before, both directions of a list meet the same      *)
(* elements in opposite orders, from its own head to its own tail, none of  *)
(* them twice and none that another list has.                               *)
THEOREM LinksAgree == Spec => []WellLinked
BY InductiveInvariant, InvWellLinked, PTL

(* Whatever calls came before, list_size is the number of elements, and     *)
(* list_max and list_min return the front one of those with the largest and *)
(* the smallest key, or the tail of an empty list.                          *)
THEOREM QueriesAnswerRight == Spec => []QueriesAreExact
BY InductiveInvariant, InvQueries, PTL

----------------------------------------------------------------------------
(* Sequences of nodes that next leads through                               *)

First(s, b) == IF Len(s) = 0 THEN b ELSE s[1]

(* nx leads from each of s to the next one, and from the last one to b.     *)
Path(nx, s, b) ==
  /\ s \in Seq(Nodes)
  /\ \A i \in DOMAIN s : nx[s[i]] = IF i = Len(s) THEN b ELSE s[i + 1]

Distinct(s) == \A i, j \in DOMAIN s : s[i] = s[j] => i = j

Apart(s, t) == \A i \in DOMAIN s, j \in DOMAIN t : s[i] # t[j]

LEMMA Joined ==
  ASSUME NEW S, NEW s \in Seq(S), NEW t \in Seq(S)
  PROVE  /\ s \o t \in Seq(S) /\ Len(s) \in Nat /\ Len(t) \in Nat
         /\ Len(s \o t) = Len(s) + Len(t)
         /\ DOMAIN (s \o t) = 1 .. Len(s) + Len(t)
         /\ DOMAIN s = 1 .. Len(s) /\ DOMAIN t = 1 .. Len(t)
         /\ \A i \in 1 .. Len(s) : (s \o t)[i] = s[i]
         /\ \A i \in 1 .. Len(t) : (s \o t)[Len(s) + i] = t[i]
         /\ \A i \in 1 .. Len(s) + Len(t) :
              (s \o t)[i] = IF i <= Len(s) THEN s[i] ELSE t[i - Len(s)]
OBVIOUS

LEMMA Cut ==
  ASSUME NEW S, NEW s \in Seq(S), NEW i \in 1 .. Len(s) + 1, NEW j \in i - 1 .. Len(s)
  PROVE  /\ SubSeq(s, i, j) \in Seq(S) /\ Len(SubSeq(s, i, j)) = j - i + 1
         /\ DOMAIN SubSeq(s, i, j) = 1 .. j - i + 1
         /\ \A k \in 1 .. j - i + 1 : SubSeq(s, i, j)[k] = s[i + k - 1]
BY SubSeqProperties

LEMMA CutHere ==
  ASSUME NEW S, NEW s \in Seq(S), NEW i \in 0 .. Len(s)
  PROVE  s = SubSeq(s, 1, i) \o SubSeq(s, i + 1, Len(s))
<1>1. Len(s) \in Nat /\ 1 \in 1 .. Len(s) + 1 /\ i \in 1 - 1 .. Len(s) /\ Len(s) \in i .. Len(s)
  OBVIOUS
<1>2. SubSeq(s, 1, i) \o SubSeq(s, i + 1, Len(s)) = SubSeq(s, 1, Len(s))
  BY <1>1, ConcatAdjacentSubSeq, Zenon
<1> QED
  BY <1>2, SubSeqFull

LEMMA Grouped ==
  ASSUME NEW S, NEW s \in Seq(S), NEW t \in Seq(S), NEW u \in Seq(S)
  PROVE  (s \o t) \o u = s \o (t \o u)
BY SMTT(60)
(* Cutting a path and joining it.                                           *)
LEMMA PathJoined ==
  ASSUME NEW nx, NEW s \in Seq(Nodes), NEW t \in Seq(Nodes), NEW b
  PROVE  Path(nx, s \o t, b) <=> Path(nx, s, First(t, b)) /\ Path(nx, t, b)
<1>1. PICK n \in Nat, m \in Nat : n = Len(s) /\ m = Len(t) /\ DOMAIN s = 1 .. n /\ DOMAIN t = 1 .. m
  OBVIOUS
<1>2. PICK u : u = s \o t
  OBVIOUS
<1>3. /\ u \in Seq(Nodes) /\ Len(u) = n + m /\ DOMAIN u = 1 .. n + m
      /\ \A i \in 1 .. n : u[i] = s[i]
      /\ \A i \in 1 .. m : u[n + i] = t[i]
  BY <1>1, <1>2, Joined
<1>4. \A i \in 1 .. n : (IF i = n + m THEN b ELSE u[i + 1]) = IF i = n THEN First(t, b) ELSE s[i + 1]
  <2> SUFFICES ASSUME NEW i \in 1 .. n
               PROVE  (IF i = n + m THEN b ELSE u[i + 1]) = IF i = n THEN First(t, b) ELSE s[i + 1]
    OBVIOUS
  <2>1. CASE i # n
    <3>1. i + 1 \in 1 .. n /\ i # n + m
      BY <2>1
    <3> QED
      BY <1>3, <2>1, <3>1
  <2>2. CASE i = n /\ m = 0
    <3>1. i = n + m
      BY <2>2
    <3> QED
      BY <1>1, <2>2, <3>1 DEF First
  <2>3. CASE i = n /\ m # 0
    <3>1. i # n + m /\ 1 \in 1 .. m
      BY <2>3
    <3>2. u[n + 1] = t[1]
      BY <1>3, <3>1
    <3> QED
      BY <1>1, <2>3, <3>1, <3>2 DEF First
  <2> QED
    BY <2>1, <2>2, <2>3
<1>5. \A i \in 1 .. m : (IF n + i = n + m THEN b ELSE u[(n + i) + 1]) = IF i = m THEN b ELSE t[i + 1]
  <2> SUFFICES ASSUME NEW i \in 1 .. m
               PROVE  (IF n + i = n + m THEN b ELSE u[(n + i) + 1]) = IF i = m THEN b ELSE t[i + 1]
    OBVIOUS
  <2>1. i # m => i + 1 \in 1 .. m
    OBVIOUS
  <2>2. (n + i) + 1 = n + (i + 1) /\ (n + i = n + m <=> i = m)
    OBVIOUS
  <2> QED
    BY <1>3, <2>1, <2>2
<1>6. ASSUME Path(nx, u, b)
      PROVE  Path(nx, s, First(t, b)) /\ Path(nx, t, b)
  <2>1. \A i \in 1 .. n + m : nx[u[i]] = IF i = n + m THEN b ELSE u[i + 1]
    BY <1>3, <1>6 DEF Path
  <2>2. \A i \in 1 .. n : i \in 1 .. n + m
    OBVIOUS
  <2>3. \A i \in 1 .. m : n + i \in 1 .. n + m
    OBVIOUS
  <2>4. \A i \in 1 .. n : nx[s[i]] = IF i = n THEN First(t, b) ELSE s[i + 1]
    BY <1>3, <1>4, <2>1, <2>2, Zenon
  <2>5. \A i \in 1 .. m : nx[t[i]] = IF i = m THEN b ELSE t[i + 1]
    BY <1>3, <1>5, <2>1, <2>3, Zenon
  <2> QED
    BY <1>1, <2>4, <2>5 DEF Path
<1>7. ASSUME Path(nx, s, First(t, b)), Path(nx, t, b)
      PROVE  Path(nx, u, b)
  <2>6. \A i \in 1 .. n : nx[s[i]] = IF i = n THEN First(t, b) ELSE s[i + 1]
    BY <1>1, <1>7 DEF Path
  <2>7. \A i \in 1 .. m : nx[t[i]] = IF i = m THEN b ELSE t[i + 1]
    BY <1>1, <1>7 DEF Path
  <2>1. \A i \in 1 .. n : nx[u[i]] = IF i = n + m THEN b ELSE u[i + 1]
    BY <1>3, <1>4, <2>6, Zenon
  <2>2. \A i \in 1 .. m : nx[u[n + i]] = IF n + i = n + m THEN b ELSE u[(n + i) + 1]
    BY <1>3, <1>5, <2>7, Zenon
  <2>3. ASSUME NEW i \in 1 .. n + m
        PROVE  nx[u[i]] = IF i = n + m THEN b ELSE u[i + 1]
    <3>1. CASE i \in 1 .. n
      BY <2>1, <3>1
    <3>2. CASE i \notin 1 .. n
      <4>1. i - n \in 1 .. m /\ n + (i - n) = i
        BY <3>2
      <4> QED
        BY <2>2, <4>1
    <3> QED
      BY <3>1, <3>2
  <2> QED
    BY <1>3, <2>3 DEF Path
<1> QED
  BY <1>2, <1>6, <1>7

(* Another path through the same nodes.                                     *)
LEMMA PathMoved ==
  ASSUME NEW nx, NEW nx2, NEW s, NEW b, NEW b2, Path(nx, s, b),
         \A i \in DOMAIN s : nx2[s[i]] = IF i = Len(s) THEN b2 ELSE nx[s[i]]
  PROVE  Path(nx2, s, b2)
BY DEF Path

LEMMA PathKept ==
  ASSUME NEW nx, NEW nx2, NEW s, NEW b, Path(nx, s, b), \A i \in DOMAIN s : nx2[s[i]] = nx[s[i]]
  PROVE  Path(nx2, s, b)
BY DEF Path

(* There is one path from a node to another that is not on it.              *)
LEMMA PathUnique ==
  ASSUME NEW nx, NEW a, NEW b, NEW s \in Seq(Elems), NEW t \in Seq(Elems), a \in Nodes, b \notin Elems,
         Path(nx, <<a>> \o s, b), Path(nx, <<a>> \o t, b)
  PROVE  s = t
<1>1. PICK n \in Nat, m \in Nat : n = Len(s) /\ m = Len(t) /\ DOMAIN s = 1 .. n /\ DOMAIN t = 1 .. m
  OBVIOUS
<1>2. <<a>> \in Seq(Nodes) /\ Len(<<a>>) = 1 /\ DOMAIN <<a>> = {1} /\ <<a>>[1] = a /\ s \in Seq(Nodes) /\ t \in Seq(Nodes)
  BY NodeFacts
<1>3. Path(nx, <<a>>, First(s, b)) /\ Path(nx, s, b) /\ Path(nx, <<a>>, First(t, b)) /\ Path(nx, t, b)
  BY <1>2, PathJoined
<1>4. First(s, b) = First(t, b)
  BY <1>2, <1>3 DEF Path
<1>5. \A i \in 1 .. n : nx[s[i]] = IF i = n THEN b ELSE s[i + 1]
  BY <1>1, <1>3 DEF Path
<1>6. \A i \in 1 .. m : nx[t[i]] = IF i = m THEN b ELSE t[i + 1]
  BY <1>1, <1>3 DEF Path
<1>7. PICK S : S = { k \in 0 .. n : k <= m /\ \A i \in 1 .. k : s[i] = t[i] }
  OBVIOUS
<1>8. 0 \in S
  BY <1>7
<1>9. ASSUME NEW k \in 0 .. n - 1, k \in S
      PROVE  k + 1 \in S
  <2>1. k <= m /\ \A i \in 1 .. k : s[i] = t[i]
    BY <1>7, <1>9
  <2>2. s[k + 1] \in Elems
    BY <1>1
  <2>3. k + 1 <= m /\ s[k + 1] = t[k + 1]
    <3>1. CASE k = 0
      <4>1. s[1] = First(t, b)
        BY <1>1, <1>4, <3>1 DEF First
      <4>2. m # 0
        BY <1>1, <2>2, <3>1, <4>1 DEF First
      <4> QED
        BY <1>1, <3>1, <4>1, <4>2 DEF First
    <3>2. CASE k # 0
      <4>1. k \in 1 .. n /\ k \in 1 .. m /\ k # n
        BY <2>1, <3>2
      <4>2. s[k + 1] = IF k = m THEN b ELSE t[k + 1]
        <5>1. nx[s[k]] = s[k + 1]
          BY <1>5, <4>1
        <5>2. nx[t[k]] = IF k = m THEN b ELSE t[k + 1]
          BY <1>6, <4>1
        <5>3. s[k] = t[k]
          BY <2>1, <4>1
        <5> QED
          BY <5>1, <5>2, <5>3
      <4>3. k # m
        BY <2>2, <4>2
      <4> QED
        BY <4>1, <4>2, <4>3
    <3> QED
      BY <3>1, <3>2
  <2>4. \A i \in 1 .. k + 1 : s[i] = t[i]
    BY <2>1, <2>3
  <2> QED
    BY <1>7, <2>3, <2>4
<1>10. n \in S
  <2>1. 0 .. n \subseteq S
    BY <1>8, <1>9, UpTo
  <2> QED
    BY <2>1
<1>11. n <= m /\ \A i \in 1 .. n : s[i] = t[i]
  BY <1>7, <1>10
<1>12. n = m
  <2>1. SUFFICES ASSUME n < m PROVE FALSE
    BY <1>11
  <2>2. t[n + 1] \in Elems
    BY <1>1, <2>1
  <2>3. CASE n = 0
    BY <1>1, <1>4, <2>1, <2>2, <2>3 DEF First
  <2>4. CASE n # 0
    <3>1. n \in 1 .. n /\ n \in 1 .. m /\ n # m
      BY <2>1, <2>4
    <3> QED
      BY <1>5, <1>6, <1>11, <2>2, <3>1
  <2> QED
    BY <2>3, <2>4
<1> QED
  BY <1>1, <1>11, <1>12
----------------------------------------------------------------------------
(* The lists as paths                                                       *)

(* next leads through the elements s of l, and prev the same way back.      *)
Row(l, s) ==
  /\ s \in Seq(Elems) /\ Distinct(s)
  /\ Path(next, <<HeadOf(l)>> \o s, TailOf(l))
  /\ \A i \in 1 .. Len(s) + 1 : prev[Append(s, TailOf(l))[i]] = (<<HeadOf(l)>> \o s)[i]

Rows ==
  \A l \in Lists : ~ (pc = "reverse" /\ at.list = l) =>
    /\ Row(l, Interior(l))
    /\ \A m \in Lists \ {l} : Apart(Interior(l), Interior(m))

LEMMA WithEnds ==
  ASSUME NEW l \in Lists, NEW s \in Seq(Elems)
  PROVE  /\ <<HeadOf(l)>> \o s \in Seq(Nodes) /\ Len(s) \in Nat /\ DOMAIN s = 1 .. Len(s)
         /\ s \in Seq(Nodes) /\ <<HeadOf(l)>> \in Seq(Nodes)
         /\ Len(<<HeadOf(l)>> \o s) = Len(s) + 1 /\ DOMAIN (<<HeadOf(l)>> \o s) = 1 .. Len(s) + 1
         /\ \A i \in 1 .. Len(s) + 1 : (<<HeadOf(l)>> \o s)[i] = IF i = 1 THEN HeadOf(l) ELSE s[i - 1]
         /\ Append(s, TailOf(l)) \in Seq(Nodes) /\ DOMAIN Append(s, TailOf(l)) = 1 .. Len(s) + 1
         /\ \A i \in 1 .. Len(s) + 1 : Append(s, TailOf(l))[i] = IF i = Len(s) + 1 THEN TailOf(l) ELSE s[i]
<1>1. HeadOf(l) \in Nodes /\ TailOf(l) \in Nodes /\ s \in Seq(Nodes)
  BY NodeFacts
<1>2. Len(<<HeadOf(l)>>) = 1 /\ <<HeadOf(l)>>[1] = HeadOf(l) /\ <<HeadOf(l)>> \in Seq(Nodes)
  BY <1>1
<1>3. /\ <<HeadOf(l)>> \o s \in Seq(Nodes) /\ Len(s) \in Nat
      /\ Len(<<HeadOf(l)>> \o s) = Len(s) + 1 /\ DOMAIN (<<HeadOf(l)>> \o s) = 1 .. Len(s) + 1
      /\ \A i \in 1 .. Len(s) + 1 : (<<HeadOf(l)>> \o s)[i] = IF i = 1 THEN HeadOf(l) ELSE s[i - 1]
  BY <1>1, <1>2, Joined
<1> QED
  BY <1>1, <1>2, <1>3

LEMMA RowsHold == IInv => Rows
<1> SUFFICES ASSUME IInv, NEW l \in Lists, ~ (pc = "reverse" /\ at.list = l)
             PROVE  Row(l, Interior(l)) /\ \A m \in Lists \ {l} : Apart(Interior(l), Interior(m))
  BY DEF Rows
<1>1. PICK owner \in [Nodes -> Lists \cup {NULL}], rank \in [Nodes -> Int] : Ordered(owner, rank)
  BY DEF IInv
<1>2. PICK s \in Seq(Elems) : s = Interior(l)
  BY <1>1, InteriorOrder DEF IInv
<1>3. /\ Chain(l, s)
      /\ \A i, j \in DOMAIN s : i # j => s[i] # s[j]
      /\ \A m \in Lists \ {l} : \A e \in Elems : ~ (In(e, l) /\ In(e, m))
  BY <1>2, InvWellLinked, Zenon DEF WellLinked
<1>4. PICK P, T, path : P = <<HeadOf(l)>> \o s /\ T = Append(s, TailOf(l)) /\ path = P \o <<TailOf(l)>>
  OBVIOUS
<1>5. PICK n \in Nat : n = Len(s) /\ DOMAIN s = 1 .. n
  OBVIOUS
<1>6. /\ P \in Seq(Nodes) /\ Len(P) = n + 1 /\ DOMAIN P = 1 .. n + 1
      /\ \A i \in 1 .. n + 1 : P[i] = IF i = 1 THEN HeadOf(l) ELSE s[i - 1]
      /\ \A i \in 1 .. n + 1 : T[i] = IF i = n + 1 THEN TailOf(l) ELSE s[i]
  BY <1>4, <1>5, WithEnds
<1>7. \A i \in 1 .. n + 1 : path[i] = P[i] /\ path[i + 1] = T[i]
  <2> SUFFICES ASSUME NEW i \in 1 .. n + 1 PROVE path[i] = P[i] /\ path[i + 1] = T[i]
    OBVIOUS
  <2>1. path[i] = P[i]
    BY <1>4, <1>6
  <2>2. CASE i = n + 1
    <3>1. <<TailOf(l)>> \in Seq(Nodes) /\ Len(<<TailOf(l)>>) = 1 /\ <<TailOf(l)>>[1] = TailOf(l)
      BY NodeFacts
    <3>2. path[Len(P) + 1] = <<TailOf(l)>>[1]
      BY <1>4, <1>6, <3>1, Joined
    <3> QED
      BY <1>6, <2>1, <2>2, <3>1, <3>2
  <2>3. CASE i # n + 1
    <3>1. i + 1 \in 1 .. n + 1 /\ i + 1 # 1 /\ (i + 1) - 1 = i
      BY <2>3
    <3>2. path[i + 1] = P[i + 1]
      BY <1>4, <1>6, <3>1
    <3> QED
      BY <1>6, <2>1, <2>3, <3>1, <3>2
  <2> QED
    BY <2>1, <2>2, <2>3
<1>8. \A i \in 1 .. n + 1 : next[path[i]] = path[i + 1] /\ prev[path[i + 1]] = path[i]
  BY <1>3, <1>4, <1>5 DEF Chain
<1>9. \A i \in 1 .. n + 1 : next[P[i]] = T[i] /\ prev[T[i]] = P[i]
  BY <1>7, <1>8, Zenon
<1>10. \A i \in 1 .. n + 1 : T[i] = IF i = n + 1 THEN TailOf(l) ELSE P[i + 1]
  BY <1>6
<1>11. Path(next, P, TailOf(l))
  BY <1>6, <1>9, <1>10 DEF Path
<1>12. Row(l, s)
  BY <1>3, <1>4, <1>5, <1>9, <1>11 DEF Row, Distinct
<1>13. ASSUME NEW m \in Lists \ {l}, NEW i \in DOMAIN s, NEW j \in DOMAIN Interior(m)
       PROVE  s[i] # Interior(m)[j]
  <2>1. s[i] \in Elems /\ In(s[i], l)
    BY <1>2 DEF In
  <2>2. ~ In(s[i], m)
    BY <1>3, <2>1
  <2> QED
    BY <2>2, Zenon DEF In
<1> QED
  BY <1>2, <1>12, <1>13, Zenon DEF Apart

LEMMA RowsHoldNext == IInv' => Rows'
BY RowsHold, PTL

(* What a path leads through is what is in the list.                        *)
LEMMA RowIs ==
  ASSUME IInv', NEW l \in Lists, ~ (pc' = "reverse" /\ at'.list = l), NEW t \in Seq(Elems),
         Path(next', <<HeadOf(l)>> \o t, TailOf(l))
  PROVE  Interior(l)' = t
<1>1. Row(l, Interior(l))'
  BY RowsHoldNext DEF Rows
<1>2. PICK s \in Seq(Elems) : s = Interior(l)' /\ Path(next', <<HeadOf(l)>> \o s, TailOf(l))
  BY <1>1 DEF Row
<1>3. HeadOf(l) \in Nodes /\ TailOf(l) \notin Elems
  BY NodeFacts
<1> QED
  BY <1>2, <1>3, PathUnique

(* A list none of whose next links changes stays as it is.                  *)
LEMMA RowStays ==
  ASSUME IInv, IInv', NEW l \in Lists,
         ~ (pc = "reverse" /\ at.list = l), ~ (pc' = "reverse" /\ at'.list = l),
         next'[HeadOf(l)] = next[HeadOf(l)],
         \A i \in DOMAIN Interior(l) : next'[Interior(l)[i]] = next[Interior(l)[i]]
  PROVE  Interior(l)' = Interior(l)
<1>1. PICK s \in Seq(Elems) : s = Interior(l) /\ Path(next, <<HeadOf(l)>> \o s, TailOf(l))
  BY RowsHold DEF Rows, Row
<1>2. \A i \in DOMAIN (<<HeadOf(l)>> \o s) : next'[(<<HeadOf(l)>> \o s)[i]] = next[(<<HeadOf(l)>> \o s)[i]]
  <2> SUFFICES ASSUME NEW i \in 1 .. Len(s) + 1
               PROVE  next'[(<<HeadOf(l)>> \o s)[i]] = next[(<<HeadOf(l)>> \o s)[i]]
    BY WithEnds
  <2>1. (<<HeadOf(l)>> \o s)[i] = IF i = 1 THEN HeadOf(l) ELSE s[i - 1]
    BY WithEnds
  <2>2. i # 1 => i - 1 \in DOMAIN s
    BY WithEnds
  <2> QED
    BY <1>1, <2>1, <2>2
<1>3. Path(next', <<HeadOf(l)>> \o s, TailOf(l))
  BY <1>1, <1>2, PathKept, ZenonT(40)
<1>4. Interior(l)' = s
  BY <1>3, RowIs
<1> QED
  BY <1>1, <1>4
----------------------------------------------------------------------------
(* What the operations do to the sequences                                  *)

LEMMA RowNodes ==
  ASSUME NEW l \in Lists, NEW s, Row(l, s)
  PROVE  /\ s \in Seq(Elems) /\ Distinct(<<HeadOf(l)>> \o s)
         /\ \A e \in Elems : (\A i \in DOMAIN s : s[i] # e) =>
              \A i \in DOMAIN (<<HeadOf(l)>> \o s) : (<<HeadOf(l)>> \o s)[i] # e
<1>1. s \in Seq(Elems) /\ HeadOf(l) \notin Elems /\ \A i, j \in DOMAIN s : s[i] = s[j] => i = j
  BY NodeFacts DEF Row, Distinct
<1>2. PICK n \in Nat : n = Len(s) /\ DOMAIN s = 1 .. n /\ \A i \in 1 .. n : s[i] \in Elems
  BY <1>1
<1>3. PICK P : /\ P = <<HeadOf(l)>> \o s /\ DOMAIN P = 1 .. n + 1
               /\ \A i \in 1 .. n + 1 : P[i] = IF i = 1 THEN HeadOf(l) ELSE s[i - 1]
  <2>1. /\ DOMAIN (<<HeadOf(l)>> \o s) = 1 .. Len(s) + 1
        /\ \A i \in 1 .. Len(s) + 1 : (<<HeadOf(l)>> \o s)[i] = IF i = 1 THEN HeadOf(l) ELSE s[i - 1]
    BY <1>1, WithEnds
  <2> QED
    BY <1>2, <2>1, Zenon
<1>4. \A i \in 1 .. n + 1 : i # 1 => i - 1 \in 1 .. n
  OBVIOUS
<1>5. ASSUME NEW i \in 1 .. n + 1, NEW j \in 1 .. n + 1, P[i] = P[j]
      PROVE  i = j
  <2>1. CASE i = 1 \/ j = 1
    BY <1>1, <1>2, <1>3, <1>4, <1>5, <2>1
  <2>2. CASE i # 1 /\ j # 1
    <3>1. s[i - 1] = s[j - 1]
      BY <1>3, <1>5, <2>2
    <3>2. i - 1 = j - 1
      BY <1>1, <1>2, <1>4, <2>2, <3>1
    <3> QED
      BY <3>2
  <2> QED
    BY <2>1, <2>2
<1>6. ASSUME NEW e \in Elems, \A i \in DOMAIN s : s[i] # e, NEW i \in 1 .. n + 1
      PROVE  P[i] # e
  <2>1. CASE i = 1
    BY <1>1, <1>3, <2>1
  <2>2. CASE i # 1
    <3>1. i - 1 \in DOMAIN s /\ P[i] = s[i - 1]
      BY <1>2, <1>3, <1>4, <2>2
    <3> QED
      BY <1>6, <3>1
  <2> QED
    BY <2>1, <2>2
<1> QED
  BY <1>1, <1>3, <1>5, <1>6 DEF Distinct

(* Of two lists that are apart.                                             *)
LEMMA RowsApart ==
  ASSUME Rows, NEW l \in Lists, NEW m \in Lists \ {l}, ~ (pc = "reverse" /\ at.list = l),
         ~ (pc = "reverse" /\ at.list = m), NEW i \in DOMAIN (<<HeadOf(l)>> \o Interior(l))
  PROVE  /\ (<<HeadOf(l)>> \o Interior(l))[i] # HeadOf(m)
         /\ \A j \in DOMAIN Interior(m) : (<<HeadOf(l)>> \o Interior(l))[i] # Interior(m)[j]
<1>1. PICK s \in Seq(Elems), t \in Seq(Elems) : s = Interior(l) /\ t = Interior(m) /\ Apart(s, t)
  BY DEF Rows, Row
<1>2. /\ i \in 1 .. Len(s) + 1 /\ Len(s) \in Nat /\ DOMAIN s = 1 .. Len(s)
      /\ (<<HeadOf(l)>> \o s)[i] = IF i = 1 THEN HeadOf(l) ELSE s[i - 1]
  BY <1>1, WithEnds
<1>3. HeadOf(l) \notin Elems /\ HeadOf(m) \notin Elems /\ HeadOf(l) # HeadOf(m)
  BY NodeFacts
<1>4. \A j \in DOMAIN t : t[j] \in Elems
  BY <1>1
<1>5. i # 1 => i - 1 \in DOMAIN s /\ s[i - 1] \in Elems
  BY <1>1, <1>2
<1> QED
  BY <1>1, <1>2, <1>3, <1>4, <1>5 DEF Apart

(* list_insert in front of position i.                                      *)
LEMMA InsertRow ==
  ASSUME IInv, IInv', pc # "reverse", pc' # "reverse", NEW l \in Lists, NEW e \in Elems,
         \A m \in Lists : \A i \in DOMAIN Interior(m) : Interior(m)[i] # e,
         NEW i \in 1 .. Len(Interior(l)) + 1,
         list_insert(Append(Interior(l), TailOf(l))[i], e)
  PROVE  /\ Interior(l)' = Abstract!InsertAt(Interior(l), i, e)
         /\ \A m \in Lists \ {l} : Interior(m)' = Interior(m)
<1>1. Rows
  BY RowsHold
<1>2. PICK s \in Seq(Elems) : s = Interior(l) /\ Row(l, s)
  BY <1>1 DEF Rows, Row
<1>3. PICK n \in Nat : n = Len(s) /\ DOMAIN s = 1 .. n /\ i \in 1 .. n + 1
  BY <1>2
<1>4. PICK P, T, before : /\ P = <<HeadOf(l)>> \o s /\ T = Append(s, TailOf(l)) /\ before = T[i]
  OBVIOUS
<1>5. /\ P \in Seq(Nodes) /\ Len(P) = n + 1 /\ DOMAIN P = 1 .. n + 1
      /\ \A k \in 1 .. n + 1 : P[k] = IF k = 1 THEN HeadOf(l) ELSE s[k - 1]
      /\ \A k \in 1 .. n + 1 : T[k] = IF k = n + 1 THEN TailOf(l) ELSE s[k]
      /\ T \in Seq(Nodes) /\ DOMAIN T = 1 .. n + 1
  BY <1>3, <1>4, WithEnds
<1>6. Distinct(P) /\ \A k \in 1 .. n + 1 : P[k] # e
  <2>1. \A k \in DOMAIN s : s[k] # e
    BY <1>2
  <2>2. /\ Distinct(<<HeadOf(l)>> \o s)
        /\ \A k \in DOMAIN (<<HeadOf(l)>> \o s) : (<<HeadOf(l)>> \o s)[k] # e
    BY <1>2, <2>1, RowNodes
  <2> QED
    BY <1>4, <1>5, <2>2
<1>7. before \in Nodes /\ prev[before] = P[i] /\ P[i] \in Nodes /\ e \in Nodes
  BY <1>2, <1>3, <1>4, <1>5, NodeFacts DEF Row
<1>8. next \in Links /\ list_insert(before, e)
  BY <1>2, <1>4 DEF IInv, Typed, Links
<1>9. \A x \in Nodes : next'[x] = IF x = P[i] THEN e ELSE IF x = e THEN before ELSE next[x]
  BY <1>7, <1>8 DEF list_insert, Links
<1>10. PICK A, B, R : A = SubSeq(s, 1, i - 1) /\ B = SubSeq(s, i, n) /\ R = <<HeadOf(l)>> \o A
  OBVIOUS
<1>11. /\ A \in Seq(Elems) /\ Len(A) = i - 1 /\ DOMAIN A = 1 .. i - 1
       /\ \A k \in 1 .. i - 1 : A[k] = s[k]
  <2>1. 1 \in 1 .. n + 1 /\ i - 1 \in 1 - 1 .. n /\ (i - 1) - 1 + 1 = i - 1 /\ \A k \in 1 .. i - 1 : 1 + k - 1 = k
    BY <1>3
  <2> QED
    BY <1>3, <1>10, <2>1, Cut
<1>12. /\ B \in Seq(Elems) /\ Len(B) = n - i + 1 /\ DOMAIN B = 1 .. n - i + 1
       /\ \A k \in 1 .. n - i + 1 : B[k] = s[i + k - 1]
  <2>1. Len(s) \in i - 1 .. Len(s) /\ i \in 1 .. Len(s) + 1
    BY <1>3
  <2>2. /\ SubSeq(s, i, Len(s)) \in Seq(Elems) /\ Len(SubSeq(s, i, Len(s))) = Len(s) - i + 1
        /\ DOMAIN SubSeq(s, i, Len(s)) = 1 .. Len(s) - i + 1
        /\ \A k \in 1 .. Len(s) - i + 1 : SubSeq(s, i, Len(s))[k] = s[i + k - 1]
    BY <2>1, Cut
  <2> QED
    BY <1>3, <1>10, <2>2
<1>13. /\ A \in Seq(Nodes) /\ B \in Seq(Nodes) /\ <<HeadOf(l)>> \in Seq(Nodes) /\ <<e>> \in Seq(Nodes)
       /\ R \in Seq(Nodes) /\ <<e>> \o B \in Seq(Nodes)
  BY <1>7, <1>10, <1>11, <1>12, NodeFacts, WithEnds, Joined
<1>14. P = R \o B
  <2>1. i - 1 \in 0 .. Len(s) /\ (i - 1) + 1 = i
    BY <1>3
  <2>2. s = A \o B
    BY <1>3, <1>10, <2>1, CutHere
  <2>3. (<<HeadOf(l)>> \o A) \o B = <<HeadOf(l)>> \o (A \o B)
    BY <1>13, Grouped
  <2> QED
    BY <1>4, <1>10, <2>2, <2>3, Zenon
<1>15. /\ Len(R) = i /\ DOMAIN R = 1 .. i /\ \A k \in 1 .. i : R[k] = P[k]
       /\ \A k \in 1 .. n - i + 1 : B[k] = P[i + k]
  <2>1. Len(R) = i /\ DOMAIN R = 1 .. i
    BY <1>10, <1>11, WithEnds
  <2>2. /\ \A k \in 1 .. Len(R) : (R \o B)[k] = R[k]
        /\ \A k \in 1 .. Len(B) : (R \o B)[Len(R) + k] = B[k]
    BY <1>13, Joined
  <2> QED
    BY <1>12, <1>14, <2>1, <2>2
<1>16. Path(next, R, First(B, TailOf(l))) /\ Path(next, B, TailOf(l))
  BY <1>2, <1>4, <1>13, <1>14, PathJoined DEF Row
<1>17. First(B, TailOf(l)) = before
  <2>1. CASE i = n + 1
    BY <1>4, <1>5, <1>12, <2>1 DEF First
  <2>2. CASE i # n + 1
    <3>1. 1 \in 1 .. n - i + 1 /\ i + 1 - 1 = i /\ n - i + 1 # 0
      BY <1>3, <2>2
    <3> QED
      BY <1>3, <1>4, <1>5, <1>12, <2>2, <3>1 DEF First
  <2> QED
    BY <2>1, <2>2
<1>18. \A k, h \in 1 .. n + 1 : P[k] = P[h] => k = h
  BY <1>5, <1>6 DEF Distinct
<1>19. Path(next', R, e)
  <2>1. ASSUME NEW k \in 1 .. i
        PROVE  next'[R[k]] = IF k = i THEN e ELSE next[R[k]]
    <3>1. k \in 1 .. n + 1 /\ R[k] = P[k] /\ P[k] \in Nodes /\ P[k] # e
      BY <1>3, <1>5, <1>6, <1>15
    <3>2. P[k] = P[i] <=> k = i
      BY <1>3, <1>18, <3>1
    <3> QED
      BY <1>9, <3>1, <3>2
  <2> QED
    BY <1>15, <1>16, <2>1, PathMoved
<1>20. Path(next', <<e>>, before)
  <2>1. next'[e] = before
    BY <1>3, <1>6, <1>7, <1>9
  <2> QED
    BY <1>13, <2>1 DEF Path
<1>21. Path(next', B, TailOf(l))
  <2>1. ASSUME NEW k \in 1 .. n - i + 1
        PROVE  next'[B[k]] = next[B[k]]
    <3>1. i + k \in 1 .. n + 1 /\ i + k # i
      BY <1>3
    <3>2. B[k] \in Nodes /\ B[k] = P[i + k] /\ P[i + k] # P[i] /\ P[i + k] # e
      BY <1>3, <1>5, <1>6, <1>15, <1>18, <3>1
    <3> QED
      BY <1>9, <3>2
  <2> QED
    BY <1>12, <1>16, <2>1, PathKept
<1>22. Path(next', <<HeadOf(l)>> \o (A \o (<<e>> \o B)), TailOf(l))
  <2>1. Path(next', <<e>> \o B, TailOf(l))
    BY <1>13, <1>17, <1>20, <1>21, PathJoined
  <2>2. First(<<e>> \o B, TailOf(l)) = e
    BY <1>13, Joined DEF First
  <2>3. Path(next', R \o (<<e>> \o B), TailOf(l))
    BY <1>13, <1>19, <2>1, <2>2, PathJoined
  <2>4. R \o (<<e>> \o B) = <<HeadOf(l)>> \o (A \o (<<e>> \o B))
    BY <1>10, <1>13, Grouped
  <2> QED
    BY <2>3, <2>4
<1>23. PICK t : t = A \o (<<e>> \o B) /\ t \in Seq(Elems)
  <2>1. <<e>> \in Seq(Elems)
    OBVIOUS
  <2> QED
    BY <1>11, <1>12, <2>1, Joined
<1>24. Interior(l)' = t
  BY <1>22, <1>23, RowIs
<1>25. t = Abstract!InsertAt(s, i, e)
  <2>1. <<e>> \in Seq(Elems)
    OBVIOUS
  <2>2. t = (A \o <<e>>) \o B
    <3>1. (A \o <<e>>) \o B = A \o (<<e>> \o B)
      BY <1>11, <1>12, <2>1, Grouped
    <3> QED
      BY <1>23, <3>1, Zenon
  <2> QED
    BY <1>3, <1>10, <2>2 DEF Abstract!InsertAt
<1>26. ASSUME NEW m \in Lists \ {l}
       PROVE  Interior(m)' = Interior(m)
  <2>1. P[i] # HeadOf(m) /\ \A j \in DOMAIN Interior(m) : P[i] # Interior(m)[j]
    BY <1>1, <1>2, <1>3, <1>4, <1>5, RowsApart
  <2>2. Interior(m) \in Seq(Elems)
    BY <1>1 DEF Rows, Row
  <2>3. HeadOf(m) \in Nodes /\ HeadOf(m) # e /\ \A j \in DOMAIN Interior(m) : Interior(m)[j] \in Nodes /\ Interior(m)[j] # e
    BY <2>2, NodeFacts
  <2>4. next'[HeadOf(m)] = next[HeadOf(m)] /\ \A j \in DOMAIN Interior(m) : next'[Interior(m)[j]] = next[Interior(m)[j]]
    BY <1>9, <2>1, <2>3
  <2> QED
    BY <2>4, RowStays
<1> QED
  BY <1>2, <1>24, <1>25, <1>26
----------------------------------------------------------------------------
(* Pieces of a list                                                         *)

Last(s) == s[Len(s)]

LEMMA DistinctJoined ==
  ASSUME NEW s \in Seq(Nodes), NEW t \in Seq(Nodes), Distinct(s \o t)
  PROVE  Distinct(s) /\ Distinct(t) /\ Apart(s, t) /\ Apart(t, s)
<1>1. /\ Len(s) \in Nat /\ Len(t) \in Nat /\ DOMAIN (s \o t) = 1 .. Len(s) + Len(t)
      /\ DOMAIN s = 1 .. Len(s) /\ DOMAIN t = 1 .. Len(t)
      /\ \A i \in 1 .. Len(s) : (s \o t)[i] = s[i]
      /\ \A i \in 1 .. Len(t) : (s \o t)[Len(s) + i] = t[i]
  BY Joined
<1>2. \A i, j \in 1 .. Len(s) + Len(t) : (s \o t)[i] = (s \o t)[j] => i = j
  BY <1>1 DEF Distinct
<1>3. ASSUME NEW i \in 1 .. Len(s), NEW j \in 1 .. Len(s), s[i] = s[j] PROVE i = j
  <2>1. i \in 1 .. Len(s) + Len(t) /\ j \in 1 .. Len(s) + Len(t)
    BY <1>1
  <2> QED
    BY <1>1, <1>2, <1>3, <2>1
<1>4. ASSUME NEW i \in 1 .. Len(t), NEW j \in 1 .. Len(t), t[i] = t[j] PROVE i = j
  <2>1. Len(s) + i \in 1 .. Len(s) + Len(t) /\ Len(s) + j \in 1 .. Len(s) + Len(t)
    BY <1>1
  <2>2. Len(s) + i = Len(s) + j
    BY <1>1, <1>2, <1>4, <2>1
  <2> QED
    BY <1>1, <2>2
<1>5. ASSUME NEW i \in 1 .. Len(s), NEW j \in 1 .. Len(t) PROVE s[i] # t[j]
  <2>1. i \in 1 .. Len(s) + Len(t) /\ Len(s) + j \in 1 .. Len(s) + Len(t) /\ i # Len(s) + j
    BY <1>1
  <2> QED
    BY <1>1, <1>2, <2>1
<1> QED
  BY <1>1, <1>3, <1>4, <1>5 DEF Distinct, Apart

LEMMA EndsJoined ==
  ASSUME NEW S, NEW s \in Seq(S), NEW t \in Seq(S), NEW b
  PROVE  /\ Last(s \o t) = IF Len(t) = 0 THEN Last(s) ELSE Last(t)
         /\ First(s \o t, b) = First(s, First(t, b))
         /\ Len(s) # 0 => First(s \o t, b) = First(s, b) /\ First(s, b) = s[1] /\ First(s, b) \in S /\ Last(s) \in S
<1>1. /\ Len(s) \in Nat /\ Len(t) \in Nat /\ DOMAIN (s \o t) = 1 .. Len(s) + Len(t)
      /\ DOMAIN s = 1 .. Len(s) /\ DOMAIN t = 1 .. Len(t) /\ Len(s \o t) = Len(s) + Len(t)
      /\ \A i \in 1 .. Len(s) : (s \o t)[i] = s[i]
      /\ \A i \in 1 .. Len(t) : (s \o t)[Len(s) + i] = t[i]
  BY Joined
<1>2. Last(s \o t) = IF Len(t) = 0 THEN Last(s) ELSE Last(t)
  <2>1. CASE Len(t) = 0
    <3>1. s \o t = s
      BY <2>1
    <3> QED
      BY <2>1, <3>1
  <2>2. CASE Len(t) # 0
    <3>1. Len(t) \in 1 .. Len(t)
      BY <1>1, <2>2
    <3> QED
      BY <1>1, <2>2, <3>1 DEF Last
  <2> QED
    BY <2>1, <2>2
<1>3. First(s \o t, b) = First(s, First(t, b))
  <2>1. CASE Len(s) = 0
    <3>1. s \o t = t
      BY <2>1
    <3> QED
      BY <2>1, <3>1 DEF First
  <2>2. CASE Len(s) # 0
    <3>1. 1 \in 1 .. Len(s) /\ Len(s) + Len(t) # 0
      BY <1>1, <2>2
    <3> QED
      BY <1>1, <2>2, <3>1 DEF First
  <2> QED
    BY <2>1, <2>2
<1>4. Len(s) # 0 => First(s, First(t, b)) = First(s, b) /\ First(s, b) = s[1] /\ s[1] \in S /\ s[Len(s)] \in S
  BY <1>1 DEF First
<1> QED
  BY <1>2, <1>3, <1>4 DEF Last

(* Of the links of a piece only the last one can change, ...                *)
LEMMA PieceMoved ==
  ASSUME NEW nx, NEW nx2, NEW s, NEW b, NEW b2, Path(nx, s, b), Distinct(s), Len(s) # 0,
         NEW D, \A n \in Nodes \ D : nx2[n] = nx[n],
         \A i \in DOMAIN s : s[i] \in D => s[i] = Last(s), nx2[Last(s)] = b2
  PROVE  Path(nx2, s, b2)
<1>1. /\ s \in Seq(Nodes) /\ Len(s) \in Nat /\ DOMAIN s = 1 .. Len(s) /\ Len(s) \in 1 .. Len(s)
      /\ \A i \in 1 .. Len(s) : s[i] \in Nodes
  BY DEF Path
<1>2. \A i \in 1 .. Len(s) : nx2[s[i]] = IF i = Len(s) THEN b2 ELSE nx[s[i]]
  BY <1>1 DEF Distinct, Last
<1>3. \A i \in DOMAIN s : nx2[s[i]] = IF i = Len(s) THEN b2 ELSE nx[s[i]]
  BY <1>1, <1>2, Zenon
<1> QED
  BY <1>3, Zenon DEF Path

(* ... or none.                                                             *)
LEMMA PieceKept ==
  ASSUME NEW nx, NEW nx2, NEW s, NEW b, Path(nx, s, b),
         NEW D, \A n \in Nodes \ D : nx2[n] = nx[n], \A i \in DOMAIN s : s[i] \notin D
  PROVE  Path(nx2, s, b)
<1>1. s \in Seq(Nodes) /\ \A i \in DOMAIN s : s[i] \in Nodes
  BY DEF Path
<1> QED
  BY <1>1, PathKept

(* A list cut in two.                                                       *)
LEMMA RowCut ==
  ASSUME NEW l \in Lists, NEW A \in Seq(Elems), NEW B \in Seq(Elems), Row(l, A \o B)
  PROVE  /\ <<HeadOf(l)>> \o A \in Seq(Nodes) /\ B \in Seq(Nodes) /\ Len(<<HeadOf(l)>> \o A) # 0
         /\ Path(next, <<HeadOf(l)>> \o A, First(B, TailOf(l))) /\ Path(next, B, TailOf(l))
         /\ Distinct(<<HeadOf(l)>> \o A) /\ Distinct(B)
         /\ Apart(<<HeadOf(l)>> \o A, B) /\ Apart(B, <<HeadOf(l)>> \o A)
         /\ prev[First(B, TailOf(l))] = Last(<<HeadOf(l)>> \o A)
         /\ First(B, TailOf(l)) \in Nodes /\ Last(<<HeadOf(l)>> \o A) \in Nodes
<1>1. /\ A \in Seq(Nodes) /\ B \in Seq(Nodes) /\ <<HeadOf(l)>> \in Seq(Nodes) /\ TailOf(l) \in Nodes
      /\ <<HeadOf(l)>> \o A \in Seq(Nodes) /\ Len(<<HeadOf(l)>> \o A) = Len(A) + 1
      /\ DOMAIN (<<HeadOf(l)>> \o A) = 1 .. Len(A) + 1
      /\ Len(A) \in Nat /\ Len(B) \in Nat
  BY NodeFacts, WithEnds
<1>2. (<<HeadOf(l)>> \o A) \o B = <<HeadOf(l)>> \o (A \o B)
  BY <1>1, Grouped
<1>3. Path(next, (<<HeadOf(l)>> \o A) \o B, TailOf(l)) /\ Distinct((<<HeadOf(l)>> \o A) \o B)
  BY <1>2, RowNodes DEF Row
<1>4. Path(next, <<HeadOf(l)>> \o A, First(B, TailOf(l))) /\ Path(next, B, TailOf(l))
  BY <1>1, <1>3, PathJoined
<1>5. /\ Distinct(<<HeadOf(l)>> \o A) /\ Distinct(B)
      /\ Apart(<<HeadOf(l)>> \o A, B) /\ Apart(B, <<HeadOf(l)>> \o A)
  BY <1>1, <1>3, DistinctJoined
<1>6. prev[First(B, TailOf(l))] = Last(<<HeadOf(l)>> \o A)
  <2>1. PICK s \in Seq(Elems), k \in Nat : s = A \o B /\ k = Len(A) + 1 /\ Len(s) = Len(A) + Len(B)
    <3>1. A \o B \in Seq(Elems) /\ Len(A \o B) = Len(A) + Len(B) /\ Len(A) + 1 \in Nat
      BY Joined
    <3> QED
      BY <3>1, Zenon
  <2>2. k \in 1 .. Len(s) + 1
    BY <1>1, <2>1
  <2>3. prev[Append(s, TailOf(l))[k]] = (<<HeadOf(l)>> \o s)[k]
    BY <2>1, <2>2 DEF Row
  <2>4. (<<HeadOf(l)>> \o s)[k] = Last(<<HeadOf(l)>> \o A)
    <3>1. k \in 1 .. Len(<<HeadOf(l)>> \o A) /\ k = Len(<<HeadOf(l)>> \o A)
      BY <1>1, <2>1
    <3>2. ((<<HeadOf(l)>> \o A) \o B)[k] = (<<HeadOf(l)>> \o A)[k]
      BY <1>1, <3>1, Joined
    <3> QED
      BY <1>2, <2>1, <3>1, <3>2 DEF Last
  <2>5. Append(s, TailOf(l))[k] = First(B, TailOf(l))
    <3>1. Append(s, TailOf(l))[k] = IF k = Len(s) + 1 THEN TailOf(l) ELSE s[k]
      BY <2>1, <2>2, WithEnds
    <3>2. CASE Len(B) = 0
      BY <1>1, <2>1, <3>1, <3>2 DEF First
    <3>3. CASE Len(B) # 0
      <4>1. 1 \in 1 .. Len(B) /\ k # Len(s) + 1
        BY <1>1, <2>1, <3>3
      <4>2. s[k] = B[1]
        BY <2>1, <4>1, Joined
      <4> QED
        BY <3>1, <3>3, <4>1, <4>2 DEF First
    <3> QED
      BY <3>2, <3>3
  <2> QED
    BY <2>3, <2>4, <2>5
<1>7. First(B, TailOf(l)) \in Nodes
  BY <1>1 DEF First
<1>8. Last(<<HeadOf(l)>> \o A) \in Nodes /\ Len(<<HeadOf(l)>> \o A) # 0
  <2>1. Len(A) + 1 \in 1 .. Len(A) + 1 /\ Len(A) + 1 # 0
    BY <1>1
  <2> QED
    BY <1>1, <2>1 DEF Last
<1> QED
  BY <1>1, <1>4, <1>5, <1>6, <1>7, <1>8

(* What it does to next; b is what then lies in front of before.            *)
Rewired(before, first, last, b) ==
  \A n \in Nodes : next'[n] = IF n = b THEN first ELSE IF n = prev[last] THEN before
                              ELSE IF n = prev[first] THEN last ELSE next[n]

LEMMA SpliceNext ==
  ASSUME next \in Links, prev \in Links,
         NEW before \in Nodes, NEW first \in Nodes, NEW last \in Nodes, first # last,
         NEW b \in Nodes, b = IF before = last THEN prev[first] ELSE prev[before],
         next[prev[last]] = last, list_splice(before, first, last)
  PROVE  Rewired(before, first, last, b)
<1>1. next' = [[next EXCEPT ![prev[first]] = last] EXCEPT ![prev[last]] = before, ![b] = first]
  <2>1. [prev EXCEPT ![last] = prev[first]][before] = b
    BY DEF Links
  <2> QED
    BY <2>1 DEF list_splice
<1> QED
  BY <1>1 DEF Links, Rewired
(* list_remove.                                                             *)
LEMMA RemoveRow ==
  ASSUME IInv, IInv', pc # "reverse", pc' # "reverse", NEW l \in Lists, NEW e \in Elems,
         NEW A \in Seq(Elems), NEW B \in Seq(Elems), Interior(l) = A \o (<<e>> \o B),
         list_remove(e)
  PROVE  /\ Interior(l)' = A \o B
         /\ \A m \in Lists \ {l} : Interior(m)' = Interior(m)
<1>1. Rows
  BY RowsHold
<1>2. PICK s \in Seq(Elems) : s = Interior(l) /\ Row(l, s)
  BY <1>1 DEF Rows, Row
<1>3. PICK R, tail, Y : R = <<HeadOf(l)>> \o A /\ tail = TailOf(l) /\ Y = <<e>>
  OBVIOUS
<1>4. Y \in Seq(Elems) /\ Y \in Seq(Nodes) /\ A \in Seq(Nodes) /\ B \in Seq(Nodes) /\ e \in Nodes
      /\ Y \o B \in Seq(Elems) /\ A \o Y \in Seq(Elems) /\ Len(Y) = 1 /\ Y[1] = e /\ DOMAIN Y = {1}
  BY <1>3, NodeFacts, Joined
<1>5. s = A \o (Y \o B) /\ s = (A \o Y) \o B
  BY <1>2, <1>3, <1>4, Grouped
<1>6. First(Y \o B, tail) = e
  <2>1. PICK S : S = Elems
    OBVIOUS
  <2>2. Y \in Seq(S) /\ B \in Seq(S)
    BY <1>4, <2>1
  <2>3. Len(Y) # 0 => First(Y \o B, tail) = First(Y, tail) /\ First(Y, tail) = Y[1]
    BY <2>2, EndsJoined
  <2> QED
    BY <1>4, <2>3
<1>7. /\ R \in Seq(Nodes) /\ Len(R) # 0 /\ Path(next, R, e) /\ Path(next, Y \o B, tail)
      /\ Distinct(R) /\ Distinct(Y \o B) /\ Apart(Y \o B, R) /\ prev[e] = Last(R) /\ Last(R) \in Nodes
  <2>1. PICK C \in Seq(Elems) : C = Y \o B
    BY <1>4
  <2>2. Row(l, A \o C)
    BY <1>2, <1>5, <2>1
  <2>3. /\ <<HeadOf(l)>> \o A \in Seq(Nodes) /\ Len(<<HeadOf(l)>> \o A) # 0
        /\ Path(next, <<HeadOf(l)>> \o A, First(C, TailOf(l))) /\ Path(next, C, TailOf(l))
        /\ Distinct(<<HeadOf(l)>> \o A) /\ Distinct(C) /\ Apart(C, <<HeadOf(l)>> \o A)
        /\ prev[First(C, TailOf(l))] = Last(<<HeadOf(l)>> \o A) /\ Last(<<HeadOf(l)>> \o A) \in Nodes
    BY <2>2, RowCut, Zenon
  <2> QED
    BY <1>3, <1>6, <2>1, <2>3, Zenon
<1>8. Path(next, Y, First(B, tail)) /\ Path(next, B, tail)
  BY <1>4, <1>7, PathJoined
<1>9. next[e] = First(B, tail)
  BY <1>4, <1>8 DEF Path
<1>10. First(B, tail) \in Nodes /\ Apart(B, <<HeadOf(l)>> \o (A \o Y))
  BY <1>2, <1>3, <1>4, <1>5, RowCut
<1>11. next \in Links /\ prev \in Links
  BY DEF IInv, Typed, Links
<1>12. \A x \in Nodes : next'[x] = IF x = Last(R) THEN First(B, tail) ELSE next[x]
  BY <1>7, <1>9, <1>11 DEF list_remove, Links
<1>13. \A x \in Nodes \ {Last(R)} : next'[x] = next[x]
  BY <1>12
<1>14. Path(next', R, First(B, tail))
  <2>1. \A i \in DOMAIN R : R[i] \in {Last(R)} => R[i] = Last(R)
    OBVIOUS
  <2>2. next'[Last(R)] = First(B, tail)
    BY <1>7, <1>12
  <2> QED
    BY <1>7, <1>13, <2>1, <2>2, PieceMoved
<1>15. Path(next', B, tail)
  <2>1. \A i \in DOMAIN B : B[i] \notin {Last(R)}
    <3>1. <<HeadOf(l)>> \in Seq(Nodes) /\ R \o Y = <<HeadOf(l)>> \o (A \o Y)
      BY <1>3, <1>4, NodeFacts, Grouped
    <3>2. Len(R) \in DOMAIN (R \o Y) /\ (R \o Y)[Len(R)] = Last(R)
      BY <1>4, <1>7, Joined DEF Last
    <3> QED
      BY <1>10, <3>1, <3>2 DEF Apart
  <2> QED
    BY <1>8, <1>13, <2>1, PieceKept
<1>16. Path(next', R \o B, tail)
  BY <1>4, <1>7, <1>14, <1>15, PathJoined
<1>17. R \o B = <<HeadOf(l)>> \o (A \o B)
  BY <1>3, <1>4, NodeFacts, Grouped
<1>18. A \o B \in Seq(Elems)
  BY Joined
<1>19. Interior(l)' = A \o B
  BY <1>3, <1>16, <1>17, <1>18, RowIs
<1>20. ASSUME NEW m \in Lists \ {l}
       PROVE  Interior(m)' = Interior(m)
  <2>1. PICK k \in DOMAIN (<<HeadOf(l)>> \o Interior(l)) : (<<HeadOf(l)>> \o Interior(l))[k] = Last(R)
    <3>1. <<HeadOf(l)>> \o (A \o (Y \o B)) = R \o (Y \o B) /\ Y \o B \in Seq(Nodes)
      BY <1>3, <1>4, NodeFacts, Grouped, Joined, SMTT(40)
    <3>2. Len(R) \in DOMAIN (R \o (Y \o B)) /\ (R \o (Y \o B))[Len(R)] = Last(R)
      BY <1>7, <3>1, Joined DEF Last
    <3> QED
      BY <1>2, <1>5, <3>1, <3>2
  <2>2. Last(R) # HeadOf(m) /\ \A j \in DOMAIN Interior(m) : Last(R) # Interior(m)[j]
    BY <1>1, <2>1, RowsApart
  <2>3. Interior(m) \in Seq(Elems)
    BY <1>1 DEF Rows, Row
  <2>4. HeadOf(m) \in Nodes /\ \A j \in DOMAIN Interior(m) : Interior(m)[j] \in Nodes
    BY <2>3, NodeFacts
  <2>5. next'[HeadOf(m)] = next[HeadOf(m)] /\ \A j \in DOMAIN Interior(m) : next'[Interior(m)[j]] = next[Interior(m)[j]]
    BY <1>12, <2>2, <2>4
  <2> QED
    BY <2>5, RowStays
<1> QED
  BY <1>19, <1>20

----------------------------------------------------------------------------
(* list_splice                                                              *)

LEMMA ApartJoined ==
  ASSUME NEW s \in Seq(Nodes), NEW t \in Seq(Nodes), NEW u, Apart(s \o t, u)
  PROVE  Apart(s, u) /\ Apart(t, u) /\ Apart(u, s) /\ Apart(u, t)
<1>1. /\ Len(s) \in Nat /\ Len(t) \in Nat /\ DOMAIN (s \o t) = 1 .. Len(s) + Len(t)
      /\ DOMAIN s = 1 .. Len(s) /\ DOMAIN t = 1 .. Len(t)
      /\ \A i \in 1 .. Len(s) : (s \o t)[i] = s[i]
      /\ \A i \in 1 .. Len(t) : (s \o t)[Len(s) + i] = t[i]
  BY Joined
<1>2. ASSUME NEW i \in 1 .. Len(s), NEW j \in DOMAIN u PROVE s[i] # u[j]
  <2>1. i \in DOMAIN (s \o t)
    BY <1>1
  <2> QED
    BY <1>1, <2>1 DEF Apart
<1>3. ASSUME NEW i \in 1 .. Len(t), NEW j \in DOMAIN u PROVE t[i] # u[j]
  <2>1. Len(s) + i \in DOMAIN (s \o t)
    BY <1>1
  <2> QED
    BY <1>1, <2>1 DEF Apart
<1> QED
  BY <1>1, <1>2, <1>3 DEF Apart

LEMMA ListsApart ==
  ASSUME Rows, NEW l \in Lists, NEW m \in Lists \ {l}, pc # "reverse"
  PROVE  Apart(<<HeadOf(l)>> \o Interior(l), <<HeadOf(m)>> \o Interior(m))
<1>1. PICK t \in Seq(Elems) : t = Interior(m)
  BY DEF Rows, Row
<1> SUFFICES ASSUME NEW i \in DOMAIN (<<HeadOf(l)>> \o Interior(l)), NEW j \in 1 .. Len(t) + 1
             PROVE  (<<HeadOf(l)>> \o Interior(l))[i] # (<<HeadOf(m)>> \o t)[j]
  BY <1>1, WithEnds DEF Apart
<1>2. /\ (<<HeadOf(l)>> \o Interior(l))[i] # HeadOf(m)
      /\ \A k \in DOMAIN t : (<<HeadOf(l)>> \o Interior(l))[i] # t[k]
  BY <1>1, RowsApart
<1>3. /\ (<<HeadOf(m)>> \o t)[j] = IF j = 1 THEN HeadOf(m) ELSE t[j - 1]
      /\ Len(t) \in Nat /\ DOMAIN t = 1 .. Len(t)
  BY WithEnds
<1>4. j # 1 => j - 1 \in DOMAIN t
  BY <1>3
<1> QED
  BY <1>2, <1>3, <1>4

(* A list cut in three.                                                     *)
RowParts(l, A, Y, B) ==
  /\ <<HeadOf(l)>> \o A \in Seq(Nodes) /\ Len(<<HeadOf(l)>> \o A) # 0
  /\ Y \in Seq(Nodes) /\ Len(Y) # 0 /\ B \in Seq(Nodes) /\ Y \o B \in Seq(Nodes)
  /\ <<HeadOf(l)>> \o (A \o (Y \o B)) = (<<HeadOf(l)>> \o A) \o (Y \o B)
  /\ Path(next, <<HeadOf(l)>> \o A, Y[1])
  /\ Path(next, Y, First(B, TailOf(l))) /\ Path(next, B, TailOf(l))
  /\ Distinct(<<HeadOf(l)>> \o A) /\ Distinct(Y) /\ Distinct(B)
  /\ Apart(<<HeadOf(l)>> \o A, Y) /\ Apart(<<HeadOf(l)>> \o A, B) /\ Apart(Y, B)
  /\ Apart(Y, <<HeadOf(l)>> \o A) /\ Apart(B, <<HeadOf(l)>> \o A) /\ Apart(B, Y)
  /\ prev[Y[1]] = Last(<<HeadOf(l)>> \o A) /\ prev[First(B, TailOf(l))] = Last(Y)
  /\ Y[1] \in Elems /\ Last(Y) \in Elems
  /\ First(B, TailOf(l)) \in Nodes /\ Last(<<HeadOf(l)>> \o A) \in Nodes
  /\ next[Last(Y)] = First(B, TailOf(l)) /\ Y[1] # First(B, TailOf(l))

LEMMA RowCutTwice ==
  ASSUME NEW l \in Lists, NEW A \in Seq(Elems), NEW Y \in Seq(Elems), NEW B \in Seq(Elems),
         Len(Y) # 0, Row(l, A \o (Y \o B))
  PROVE  RowParts(l, A, Y, B)
<1>1. PICK C \in Seq(Elems) : C = Y \o B
  BY Joined
<1>2. PICK R, tail : R = <<HeadOf(l)>> \o A /\ tail = TailOf(l)
  OBVIOUS
<1>3. /\ Y \in Seq(Nodes) /\ B \in Seq(Nodes) /\ A \in Seq(Nodes) /\ C \in Seq(Nodes)
      /\ <<HeadOf(l)>> \in Seq(Nodes) /\ A \o Y \in Seq(Elems)
  BY NodeFacts, Joined
<1>4. /\ First(C, tail) = Y[1] /\ Y[1] \in Elems /\ Last(Y) \in Elems
  <2>1. PICK S : S = Elems
    OBVIOUS
  <2>2. Y \in Seq(S) /\ B \in Seq(S)
    BY <2>1
  <2>3. Len(Y) # 0 => /\ First(Y \o B, tail) = First(Y, tail) /\ First(Y, tail) = Y[1]
                      /\ First(Y, tail) \in S /\ Last(Y) \in S
    BY <2>2, EndsJoined
  <2> QED
    BY <1>1, <2>1, <2>3
<1>5. /\ R \in Seq(Nodes) /\ Len(R) # 0 /\ Path(next, R, Y[1]) /\ Path(next, C, tail)
      /\ Distinct(R) /\ Distinct(C) /\ Apart(C, R) /\ prev[Y[1]] = Last(R) /\ Last(R) \in Nodes
  <2>1. Row(l, A \o C)
    BY <1>1
  <2>2. /\ <<HeadOf(l)>> \o A \in Seq(Nodes) /\ Len(<<HeadOf(l)>> \o A) # 0
        /\ Path(next, <<HeadOf(l)>> \o A, First(C, TailOf(l))) /\ Path(next, C, TailOf(l))
        /\ Distinct(<<HeadOf(l)>> \o A) /\ Distinct(C) /\ Apart(C, <<HeadOf(l)>> \o A)
        /\ prev[First(C, TailOf(l))] = Last(<<HeadOf(l)>> \o A) /\ Last(<<HeadOf(l)>> \o A) \in Nodes
    BY <2>1, RowCut, Zenon
  <2> QED
    BY <1>2, <1>4, <2>2, Zenon
<1>6. Path(next, Y, First(B, tail)) /\ Path(next, B, tail)
  BY <1>1, <1>3, <1>5, PathJoined
<1>7. Distinct(Y) /\ Distinct(B) /\ Apart(Y, B) /\ Apart(B, Y)
  BY <1>1, <1>3, <1>5, DistinctJoined
<1>8. Apart(Y, R) /\ Apart(B, R) /\ Apart(R, Y) /\ Apart(R, B)
  BY <1>1, <1>3, <1>5, ApartJoined
<1>9. prev[First(B, tail)] = Last(Y) /\ First(B, tail) \in Nodes
  <2>1. PICK D \in Seq(Elems) : D = A \o Y
    BY <1>3
  <2>2. Row(l, D \o B)
    <3>1. (A \o Y) \o B = A \o (Y \o B)
      BY Grouped
    <3> QED
      BY <2>1, <3>1, Zenon
  <2>3. prev[First(B, TailOf(l))] = Last(<<HeadOf(l)>> \o D) /\ First(B, TailOf(l)) \in Nodes
    BY <2>2, RowCut, Zenon
  <2>4. <<HeadOf(l)>> \o D = R \o Y
    BY <1>2, <1>3, <2>1, Grouped, SMTT(40)
  <2>5. Last(R \o Y) = Last(Y)
    <3>1. Last(R \o Y) = IF Len(Y) = 0 THEN Last(R) ELSE Last(Y)
      BY <1>3, <1>5, EndsJoined
    <3> QED
      BY <3>1
  <2> QED
    BY <1>2, <2>3, <2>4, <2>5
<1>10. <<HeadOf(l)>> \o (A \o C) = R \o C
  BY <1>2, <1>3, Grouped
<1>11. next[Last(Y)] = First(B, tail)
  <2>1. Len(Y) \in DOMAIN Y
    OBVIOUS
  <2> QED
    BY <1>6, <2>1 DEF Path, Last
<1>12. Y[1] # First(B, tail)
  <2>1. 1 \in DOMAIN Y /\ (Len(B) # 0 => 1 \in DOMAIN B)
    OBVIOUS
  <2> QED
    BY <1>2, <1>4, <1>7, <2>1, NodeFacts DEF First, Apart
<1> QED
  BY <1>1, <1>2, <1>3, <1>4, <1>5, <1>6, <1>7, <1>8, <1>9, <1>10, <1>11, <1>12 DEF RowParts

LEMMA LastApart ==
  ASSUME NEW s \in Seq(Nodes), NEW t \in Seq(Nodes), Len(t) # 0, Apart(s, t)
  PROVE  /\ \A i \in DOMAIN s : s[i] # Last(t)
         /\ Len(s) # 0 => Last(s) # Last(t)
<1>1. Len(t) \in DOMAIN t /\ (Len(s) # 0 => Len(s) \in DOMAIN s)
  OBVIOUS
<1> QED
  BY <1>1 DEF Last, Apart

LEMMA RowFrom ==
  ASSUME NEW l \in Lists, NEW s \in Seq(Elems), NEW t \in Seq(Elems)
  PROVE  (<<HeadOf(l)>> \o s) \o t = <<HeadOf(l)>> \o (s \o t)
<1>1. <<HeadOf(l)>> \in Seq(Nodes) /\ s \in Seq(Nodes) /\ t \in Seq(Nodes)
  BY NodeFacts
<1> QED
  BY <1>1, Grouped

LEMMA ListKept ==
  ASSUME IInv, IInv', pc # "reverse", pc' # "reverse", NEW l \in Lists,
         NEW D, \A n \in Nodes \ D : next'[n] = next[n],
         \A i \in DOMAIN (<<HeadOf(l)>> \o Interior(l)) : (<<HeadOf(l)>> \o Interior(l))[i] \notin D
  PROVE  Interior(l)' = Interior(l)
<1>1. PICK s \in Seq(Elems) : s = Interior(l)
  BY RowsHold DEF Rows, Row
<1>2. PICK K : K = <<HeadOf(l)>> \o s
  OBVIOUS
<1>3. /\ K \in Seq(Nodes) /\ DOMAIN K = 1 .. Len(s) + 1
      /\ \A i \in 1 .. Len(s) + 1 : K[i] = IF i = 1 THEN HeadOf(l) ELSE s[i - 1]
  BY <1>1, <1>2, WithEnds
<1>4. \A i \in 1 .. Len(s) + 1 : K[i] \in Nodes /\ K[i] \notin D
  BY <1>1, <1>2, <1>3
<1>5. \A i \in 1 .. Len(s) + 1 : next'[K[i]] = next[K[i]]
  BY <1>4
<1>6. Len(s) \in Nat /\ DOMAIN s = 1 .. Len(s) /\ 1 \in 1 .. Len(s) + 1
  BY <1>1
<1>7. \A i \in 1 .. Len(s) : i + 1 \in 1 .. Len(s) + 1 /\ i + 1 # 1 /\ (i + 1) - 1 = i
  BY <1>6
<1>8. next'[HeadOf(l)] = next[HeadOf(l)]
  BY <1>3, <1>5, <1>6
<1>9. ASSUME NEW i \in 1 .. Len(s)
      PROVE  next'[s[i]] = next[s[i]]
  <2>1. next'[K[i + 1]] = next[K[i + 1]]
    BY <1>5, <1>7
  <2>2. K[i + 1] = s[i]
    BY <1>3, <1>7
  <2> QED
    BY <2>1, <2>2
<1> QED
  BY <1>1, <1>6, <1>8, <1>9, RowStays

(* Between two lists.                                                       *)
MovesBetween(m, l, X, Y, Z, U, V) ==
  /\ Interior(m)' = X \o Z /\ Interior(l)' = U \o (Y \o V)
  /\ \A k \in Lists \ {l, m} : Interior(k)' = Interior(k)

LEMMA SpliceOther ==
  ASSUME IInv, IInv', pc # "reverse", pc' # "reverse", NEW m \in Lists, NEW l \in Lists, l # m,
         NEW X \in Seq(Elems), NEW Y \in Seq(Elems), NEW Z \in Seq(Elems),
         NEW U \in Seq(Elems), NEW V \in Seq(Elems), Len(Y) # 0,
         Interior(m) = X \o (Y \o Z), Interior(l) = U \o V,
         list_splice(First(V, TailOf(l)), Y[1], First(Z, TailOf(m)))
  PROVE  MovesBetween(m, l, X, Y, Z, U, V)
<1>1. Rows /\ Row(m, Interior(m)) /\ Row(l, Interior(l))
  BY RowsHold DEF Rows
<1>2. RowParts(m, X, Y, Z)
  BY <1>1, RowCutTwice
<1>3. PICK R, S, tm, tl : /\ R = <<HeadOf(m)>> \o X /\ S = <<HeadOf(l)>> \o U
                          /\ tm = TailOf(m) /\ tl = TailOf(l)
  OBVIOUS
<1>4. /\ S \in Seq(Nodes) /\ V \in Seq(Nodes) /\ Len(S) # 0
      /\ Path(next, S, First(V, tl)) /\ Path(next, V, tl)
      /\ Distinct(S) /\ Distinct(V) /\ Apart(S, V) /\ Apart(V, S)
      /\ prev[First(V, tl)] = Last(S) /\ First(V, tl) \in Nodes /\ Last(S) \in Nodes
  BY <1>1, <1>3, RowCut
<1>5. /\ R \in Seq(Nodes) /\ Len(R) # 0 /\ Y \in Seq(Nodes) /\ Len(Y) # 0 /\ Z \in Seq(Nodes)
      /\ Y \o Z \in Seq(Nodes) /\ <<HeadOf(m)>> \o (X \o (Y \o Z)) = R \o (Y \o Z)
      /\ Path(next, R, Y[1]) /\ Path(next, Y, First(Z, tm)) /\ Path(next, Z, tm)
      /\ Distinct(R) /\ Distinct(Y) /\ Distinct(Z)
      /\ Apart(R, Y) /\ Apart(R, Z) /\ Apart(Y, Z) /\ Apart(Y, R) /\ Apart(Z, R) /\ Apart(Z, Y)
      /\ prev[Y[1]] = Last(R) /\ prev[First(Z, tm)] = Last(Y)
      /\ Y[1] \in Elems /\ Last(Y) \in Elems /\ First(Z, tm) \in Nodes /\ Last(R) \in Nodes
      /\ next[Last(Y)] = First(Z, tm) /\ Y[1] # First(Z, tm)
  BY <1>2, <1>3 DEF RowParts
<1>6. <<HeadOf(l)>> \o (U \o V) = S \o V
  BY <1>3, RowFrom
<1>7. Apart(R \o (Y \o Z), S \o V)
  BY <1>1, <1>5, <1>6, ListsApart
<1>8. /\ Apart(R, S) /\ Apart(R, V) /\ Apart(Y, S) /\ Apart(Y, V) /\ Apart(Z, S) /\ Apart(Z, V)
      /\ Apart(S, R) /\ Apart(V, R) /\ Apart(S, Y) /\ Apart(V, Y) /\ Apart(S, Z) /\ Apart(V, Z)
  <2>1. Apart(S \o V, R) /\ Apart(S \o V, Y \o Z)
    BY <1>5, <1>7, ApartJoined
  <2>2. Apart(Y \o Z, S) /\ Apart(Y \o Z, V) /\ Apart(R, S) /\ Apart(R, V) /\ Apart(S, R) /\ Apart(V, R)
    BY <1>4, <2>1, ApartJoined
  <2> QED
    BY <1>5, <2>2, ApartJoined
<1>9. First(V, tl) # First(Z, tm)
  <2>1. (Len(V) # 0 => 1 \in DOMAIN V /\ V[1] \in Elems) /\ (Len(Z) # 0 => 1 \in DOMAIN Z /\ Z[1] \in Elems)
    OBVIOUS
  <2>2. tl \notin Elems /\ tm \notin Elems /\ tl # tm
    BY <1>3, NodeFacts
  <2> QED
    BY <1>8, <2>1, <2>2 DEF First, Apart
<1>10. next \in Links /\ prev \in Links /\ Elems \subseteq Nodes
  BY NodeFacts DEF IInv, Typed, Links
<1>11. \A n \in Nodes : next'[n] = IF n = Last(S) THEN Y[1] ELSE IF n = Last(Y) THEN First(V, tl)
                                   ELSE IF n = Last(R) THEN First(Z, tm) ELSE next[n]
  <2>1. list_splice(First(V, tl), Y[1], First(Z, tm))
    BY <1>3
  <2>2. PICK before \in Nodes, first \in Nodes, last \in Nodes, b \in Nodes :
           before = First(V, tl) /\ first = Y[1] /\ last = First(Z, tm) /\ b = Last(S)
    BY <1>4, <1>5, <1>10
  <2>3. /\ first # last /\ next[prev[last]] = last
        /\ b = IF before = last THEN prev[first] ELSE prev[before]
        /\ list_splice(before, first, last)
    BY <1>4, <1>5, <1>9, <2>1, <2>2, Zenon
  <2>4. Rewired(before, first, last, b)
    BY <1>10, <2>3, SpliceNext, Zenon
  <2> QED
    BY <1>5, <2>2, <2>4, Zenon DEF Rewired
<1>12. PICK D : D = {Last(R), Last(Y), Last(S)}
  OBVIOUS
<1>13. \A n \in Nodes \ D : next'[n] = next[n]
  BY <1>11, <1>12
<1>14. /\ next'[Last(S)] = Y[1] /\ next'[Last(Y)] = First(V, tl) /\ next'[Last(R)] = First(Z, tm)
  <2>1. Last(Y) # Last(S) /\ Last(R) # Last(S) /\ Last(R) # Last(Y)
    BY <1>4, <1>5, <1>8, LastApart
  <2> QED
    BY <1>4, <1>5, <1>10, <1>11, <2>1
<1>15. Path(next', R, First(Z, tm))
  <2>1. \A i \in DOMAIN R : R[i] # Last(Y) /\ R[i] # Last(S)
    BY <1>4, <1>5, <1>8, LastApart
  <2>2. \A i \in DOMAIN R : R[i] \in D => R[i] = Last(R)
    BY <1>12, <2>1
  <2> QED
    BY <1>5, <1>13, <1>14, <2>2, PieceMoved
<1>16. Path(next', Y, First(V, tl))
  <2>1. \A i \in DOMAIN Y : Y[i] # Last(R) /\ Y[i] # Last(S)
    BY <1>4, <1>5, <1>8, LastApart
  <2>2. \A i \in DOMAIN Y : Y[i] \in D => Y[i] = Last(Y)
    BY <1>12, <2>1
  <2> QED
    BY <1>5, <1>13, <1>14, <2>2, PieceMoved
<1>17. Path(next', S, Y[1])
  <2>1. \A i \in DOMAIN S : S[i] # Last(R) /\ S[i] # Last(Y)
    BY <1>4, <1>5, <1>8, LastApart
  <2>2. \A i \in DOMAIN S : S[i] \in D => S[i] = Last(S)
    BY <1>12, <2>1
  <2>3. Path(next, S, First(V, tl)) /\ Distinct(S) /\ Len(S) # 0 /\ next'[Last(S)] = Y[1]
    BY <1>4, <1>14
  <2> QED
    BY <1>13, <2>2, <2>3, PieceMoved
<1>18. Path(next', Z, tm)
  <2>1. \A i \in DOMAIN Z : Z[i] # Last(R) /\ Z[i] # Last(Y) /\ Z[i] # Last(S)
    BY <1>4, <1>5, <1>8, LastApart
  <2>2. \A i \in DOMAIN Z : Z[i] \notin D
    BY <1>12, <2>1
  <2> QED
    BY <1>5, <1>13, <2>2, PieceKept
<1>19. Path(next', V, tl)
  <2>1. \A i \in DOMAIN V : V[i] # Last(R) /\ V[i] # Last(Y) /\ V[i] # Last(S)
    BY <1>4, <1>5, <1>8, LastApart
  <2>2. \A i \in DOMAIN V : V[i] \notin D
    BY <1>12, <2>1
  <2> QED
    BY <1>4, <1>13, <2>2, PieceKept
<1>20. Interior(m)' = X \o Z
  <2>1. Path(next', R \o Z, tm)
    BY <1>5, <1>15, <1>18, PathJoined
  <2>2. X \o Z \in Seq(Elems)
    BY Joined
  <2>3. R \o Z = <<HeadOf(m)>> \o (X \o Z)
    BY <1>3, RowFrom
  <2> QED
    BY <1>3, <2>1, <2>2, <2>3, RowIs
<1>21. Interior(l)' = U \o (Y \o V)
  <2>1. Path(next', Y \o V, tl) /\ Y \o V \in Seq(Nodes)
    BY <1>4, <1>5, <1>16, <1>19, PathJoined, Joined
  <2>2. First(Y \o V, tl) = Y[1]
    <3>1. Len(Y) # 0 => First(Y \o V, tl) = First(Y, tl) /\ First(Y, tl) = Y[1]
      BY <1>4, <1>5, EndsJoined
    <3> QED
      BY <3>1
  <2>3. Path(next', S \o (Y \o V), tl)
    BY <1>4, <1>17, <2>1, <2>2, PathJoined
  <2>4. Y \o V \in Seq(Elems) /\ U \o (Y \o V) \in Seq(Elems)
    BY Joined
  <2>5. S \o (Y \o V) = <<HeadOf(l)>> \o (U \o (Y \o V))
    BY <1>3, <2>4, RowFrom
  <2> QED
    BY <1>3, <2>3, <2>4, <2>5, RowIs
<1>22. ASSUME NEW k \in Lists \ {l, m}
       PROVE  Interior(k)' = Interior(k)
  <2>1. Interior(k) \in Seq(Elems)
    BY <1>1 DEF Rows, Row
  <2>2. PICK K : K = <<HeadOf(k)>> \o Interior(k)
    OBVIOUS
  <2>3. /\ K \in Seq(Nodes) /\ DOMAIN K = 1 .. Len(Interior(k)) + 1
        /\ \A i \in 1 .. Len(Interior(k)) + 1 : K[i] = IF i = 1 THEN HeadOf(k) ELSE Interior(k)[i - 1]
    BY <2>1, <2>2, WithEnds
  <2>4. Apart(K, R \o (Y \o Z)) /\ Apart(K, S \o V)
    BY <1>1, <1>5, <1>6, <2>2, ListsApart
  <2>5. Apart(R \o (Y \o Z), K) /\ Apart(S \o V, K)
    BY <2>4 DEF Apart
  <2>6. Apart(K, R) /\ Apart(Y \o Z, K) /\ Apart(K, S)
    BY <1>4, <1>5, <2>5, ApartJoined
  <2>7. Apart(K, Y)
    BY <1>5, <2>6, ApartJoined
  <2>8. \A i \in DOMAIN K : K[i] \in Nodes /\ K[i] \notin D
    BY <1>4, <1>5, <1>12, <2>3, <2>6, <2>7, LastApart
  <2> QED
    BY <1>13, <2>2, <2>8, ListKept
<1> QED
  BY <1>20, <1>21, <1>22, Zenon DEF MovesBetween

(* A list cut in four.                                                      *)
RowQuarters(l, A, P, Q, B) ==
  /\ <<HeadOf(l)>> \o A \in Seq(Nodes) /\ Len(<<HeadOf(l)>> \o A) # 0
  /\ P \in Seq(Nodes) /\ Len(P) # 0 /\ Q \in Seq(Nodes) /\ Len(Q) # 0 /\ B \in Seq(Nodes)
  /\ Path(next, <<HeadOf(l)>> \o A, P[1]) /\ Path(next, P, Q[1])
  /\ Path(next, Q, First(B, TailOf(l))) /\ Path(next, B, TailOf(l))
  /\ Distinct(<<HeadOf(l)>> \o A) /\ Distinct(P) /\ Distinct(Q)
  /\ Apart(<<HeadOf(l)>> \o A, P) /\ Apart(<<HeadOf(l)>> \o A, Q)
  /\ Apart(P, <<HeadOf(l)>> \o A) /\ Apart(P, Q)
  /\ Apart(Q, <<HeadOf(l)>> \o A) /\ Apart(Q, P)
  /\ Apart(B, <<HeadOf(l)>> \o A) /\ Apart(B, P) /\ Apart(B, Q)
  /\ prev[P[1]] = Last(<<HeadOf(l)>> \o A) /\ prev[Q[1]] = Last(P) /\ prev[First(B, TailOf(l))] = Last(Q)
  /\ P[1] \in Elems /\ Last(P) \in Elems /\ Q[1] \in Elems /\ Last(Q) \in Elems
  /\ First(B, TailOf(l)) \in Nodes /\ Last(<<HeadOf(l)>> \o A) \in Nodes
  /\ next[Last(P)] = Q[1] /\ next[Last(Q)] = First(B, TailOf(l))
  /\ P[1] # Q[1] /\ P[1] # First(B, TailOf(l)) /\ Q[1] # First(B, TailOf(l))

LEMMA RowCutThrice ==
  ASSUME NEW l \in Lists, NEW A \in Seq(Elems), NEW P \in Seq(Elems), NEW Q \in Seq(Elems), NEW B \in Seq(Elems),
         Len(P) # 0, Len(Q) # 0, Row(l, A \o (P \o (Q \o B)))
  PROVE  RowQuarters(l, A, P, Q, B)
<1>1. PICK R, tail : R = <<HeadOf(l)>> \o A /\ tail = TailOf(l)
  OBVIOUS
<1>2. PICK C \in Seq(Elems), D \in Seq(Elems) : C = Q \o B /\ D = A \o P
  BY Joined
<1>3. First(C, tail) = Q[1] /\ Q[1] \in Elems
  <2>1. PICK S : S = Elems
    OBVIOUS
  <2>2. Q \in Seq(S) /\ B \in Seq(S)
    BY <2>1
  <2>3. Len(Q) # 0 => First(Q \o B, tail) = First(Q, tail) /\ First(Q, tail) = Q[1] /\ First(Q, tail) \in S
    BY <2>2, EndsJoined
  <2> QED
    BY <1>2, <2>1, <2>3
<1>4. /\ R \in Seq(Nodes) /\ Len(R) # 0 /\ P \in Seq(Nodes) /\ C \in Seq(Nodes)
      /\ Path(next, R, P[1]) /\ Path(next, P, Q[1]) /\ Distinct(R) /\ Distinct(P)
      /\ Apart(R, P) /\ Apart(P, R) /\ Apart(C, R) /\ Apart(C, P)
      /\ prev[P[1]] = Last(R) /\ prev[Q[1]] = Last(P) /\ P[1] \in Elems /\ Last(P) \in Elems /\ Last(R) \in Nodes
      /\ next[Last(P)] = Q[1] /\ P[1] # Q[1]
  <2>1. Row(l, A \o (P \o C))
    BY <1>2
  <2>2. RowParts(l, A, P, C)
    BY <2>1, RowCutTwice
  <2> QED
    BY <1>1, <1>3, <2>2 DEF RowParts
<1>5. /\ Q \in Seq(Nodes) /\ B \in Seq(Nodes) /\ Path(next, Q, First(B, tail)) /\ Path(next, B, tail)
      /\ Distinct(Q) /\ Apart(B, Q) /\ prev[First(B, tail)] = Last(Q) /\ Last(Q) \in Elems
      /\ First(B, tail) \in Nodes /\ next[Last(Q)] = First(B, tail) /\ Q[1] # First(B, tail)
  <2>1. Row(l, D \o C)
    <3>1. (A \o P) \o C = A \o (P \o C)
      BY Grouped, SMTT(60)
    <3>2. Row(l, A \o (P \o C))
      BY <1>2
    <3>3. Row(l, (A \o P) \o C)
      BY <3>1, <3>2, Zenon
    <3> QED
      BY <1>2, <3>3, Zenon
  <2>2. Row(l, D \o (Q \o B))
    BY <1>2, <2>1, Zenon
  <2>3. RowParts(l, D, Q, B)
    BY <2>2, RowCutTwice
  <2> QED
    BY <1>1, <2>3 DEF RowParts
<1>6. Apart(R, Q) /\ Apart(Q, R) /\ Apart(B, R) /\ Apart(Q, P) /\ Apart(B, P) /\ Apart(P, Q) /\ Apart(P, B)
  BY <1>2, <1>4, <1>5, ApartJoined
<1>7. P[1] # First(B, tail)
  <2>1. 1 \in DOMAIN P /\ (Len(B) # 0 => 1 \in DOMAIN B)
    OBVIOUS
  <2> QED
    BY <1>1, <1>4, <1>6, <2>1, NodeFacts DEF First, Apart
<1> QED
  BY <1>1, <1>3, <1>4, <1>5, <1>6, <1>7 DEF RowQuarters

(* Only what is in l changes.                                               *)
Rearranged(l, t) ==
  Interior(l)' = t /\ \A k \in Lists \ {l} : Interior(k)' = Interior(k)

(* Two pieces of a list that change places.                                 *)
Swap(l, A, P, Q, B) ==
  \A n \in Nodes : next'[n] = IF n = Last(<<HeadOf(l)>> \o A) THEN Q[1]
                              ELSE IF n = Last(Q) THEN P[1]
                              ELSE IF n = Last(P) THEN First(B, TailOf(l)) ELSE next[n]

LEMMA PiecesSwap ==
  ASSUME IInv, IInv', pc # "reverse", pc' # "reverse", NEW l \in Lists,
         NEW A \in Seq(Elems), NEW P \in Seq(Elems), NEW Q \in Seq(Elems), NEW B \in Seq(Elems),
         Len(P) # 0, Len(Q) # 0, Interior(l) = A \o (P \o (Q \o B)),
         Swap(l, A, P, Q, B)
  PROVE  Rearranged(l, A \o (Q \o (P \o B)))
<1>1. Rows /\ Row(l, Interior(l))
  BY RowsHold DEF Rows
<1>2. PICK R, tail : R = <<HeadOf(l)>> \o A /\ tail = TailOf(l)
  OBVIOUS
<1>3. /\ R \in Seq(Nodes) /\ Len(R) # 0
      /\ P \in Seq(Nodes) /\ Q \in Seq(Nodes) /\ B \in Seq(Nodes)
      /\ Path(next, R, P[1]) /\ Path(next, P, Q[1]) /\ Path(next, Q, First(B, tail)) /\ Path(next, B, tail)
      /\ Distinct(R) /\ Distinct(P) /\ Distinct(Q)
      /\ Apart(R, P) /\ Apart(R, Q) /\ Apart(P, R) /\ Apart(P, Q) /\ Apart(Q, R) /\ Apart(Q, P)
      /\ Apart(B, R) /\ Apart(B, P) /\ Apart(B, Q)
      /\ Last(P) \in Nodes /\ Last(Q) \in Nodes /\ Last(R) \in Nodes /\ P[1] \in Elems /\ Q[1] \in Elems
  <2>1. RowQuarters(l, A, P, Q, B)
    BY <1>1, RowCutThrice
  <2> QED
    BY <1>2, <2>1, NodeFacts DEF RowQuarters
<1>4. PICK D : D = {Last(R), Last(P), Last(Q)}
  OBVIOUS
<1>13. \A n \in Nodes : next'[n] = IF n = Last(R) THEN Q[1] ELSE IF n = Last(Q) THEN P[1]
                                   ELSE IF n = Last(P) THEN First(B, tail) ELSE next[n]
  BY <1>2, Zenon DEF Swap
<1>5. \A n \in Nodes \ D : next'[n] = next[n]
  BY <1>4, <1>13
<1>6. next'[Last(R)] = Q[1] /\ next'[Last(Q)] = P[1] /\ next'[Last(P)] = First(B, tail)
  <2>1. Last(Q) # Last(R) /\ Last(P) # Last(R) /\ Last(P) # Last(Q)
    BY <1>3, LastApart
  <2> QED
    BY <1>3, <1>13, <2>1
<1>7. Path(next', R, Q[1])
  <2>1. \A i \in DOMAIN R : R[i] # Last(P) /\ R[i] # Last(Q)
    BY <1>3, LastApart
  <2>2. \A i \in DOMAIN R : R[i] \in D => R[i] = Last(R)
    BY <1>4, <2>1
  <2>3. Path(next, R, P[1]) /\ Distinct(R) /\ Len(R) # 0 /\ next'[Last(R)] = Q[1]
    BY <1>3, <1>6
  <2> QED
    BY <1>5, <2>2, <2>3, PieceMoved
<1>8. Path(next', Q, P[1])
  <2>1. \A i \in DOMAIN Q : Q[i] # Last(P) /\ Q[i] # Last(R)
    BY <1>3, LastApart
  <2>2. \A i \in DOMAIN Q : Q[i] \in D => Q[i] = Last(Q)
    BY <1>4, <2>1
  <2>3. Path(next, Q, First(B, tail)) /\ Distinct(Q) /\ Len(Q) # 0 /\ next'[Last(Q)] = P[1]
    BY <1>3, <1>6
  <2> QED
    BY <1>5, <2>2, <2>3, PieceMoved
<1>9. Path(next', P, First(B, tail))
  <2>1. \A i \in DOMAIN P : P[i] # Last(Q) /\ P[i] # Last(R)
    BY <1>3, LastApart
  <2>2. \A i \in DOMAIN P : P[i] \in D => P[i] = Last(P)
    BY <1>4, <2>1
  <2>3. Path(next, P, Q[1]) /\ Distinct(P) /\ Len(P) # 0 /\ next'[Last(P)] = First(B, tail)
    BY <1>3, <1>6
  <2> QED
    BY <1>5, <2>2, <2>3, PieceMoved
<1>10. Path(next', B, tail)
  <2>1. \A i \in DOMAIN B : B[i] # Last(P) /\ B[i] # Last(Q) /\ B[i] # Last(R)
    BY <1>3, LastApart
  <2>2. \A i \in DOMAIN B : B[i] \notin D
    BY <1>4, <2>1
  <2> QED
    BY <1>3, <1>5, <2>2, PieceKept
<1>11. Interior(l)' = A \o (Q \o (P \o B))
  <2>1. PICK E \in Seq(Elems), F \in Seq(Elems) : E = P \o B /\ F = Q \o E
    BY Joined
  <2>2. E \in Seq(Nodes) /\ F \in Seq(Nodes)
    BY <2>1, NodeFacts
  <2>3. Path(next', E, tail)
    BY <1>3, <1>9, <1>10, <2>1, PathJoined
  <2>4. First(E, tail) = P[1]
    <3>1. Len(P) # 0 => First(P \o B, tail) = First(P, tail) /\ First(P, tail) = P[1]
      BY <1>3, EndsJoined
    <3> QED
      BY <2>1, <3>1
  <2>5. Path(next', F, tail)
    <3>1. Path(next', Q, First(E, tail))
      BY <1>8, <2>4, Zenon
    <3>2. Path(next', Q \o E, tail)
      BY <1>3, <2>2, <2>3, <3>1, PathJoined
    <3> QED
      BY <2>1, <3>2, Zenon
  <2>6. First(F, tail) = Q[1]
    <3>1. Len(Q) # 0 => First(Q \o E, tail) = First(Q, tail) /\ First(Q, tail) = Q[1]
      BY <1>3, <2>2, EndsJoined
    <3> QED
      BY <2>1, <3>1
  <2>7. Path(next', R \o F, tail)
    BY <1>3, <1>7, <2>2, <2>5, <2>6, PathJoined
  <2>8. R \o F = <<HeadOf(l)>> \o (A \o F) /\ A \o F \in Seq(Elems)
    BY <1>2, RowFrom, Joined
  <2>9. Interior(l)' = A \o F
    BY <1>2, <2>7, <2>8, RowIs
  <2> QED
    BY <2>1, <2>9, Zenon
<1>12. ASSUME NEW k \in Lists \ {l}
       PROVE  Interior(k)' = Interior(k)
  <2>1. PICK K : K = <<HeadOf(k)>> \o Interior(k)
    OBVIOUS
  <2>2. K \in Seq(Nodes)
    BY <1>1, <2>1, WithEnds DEF Rows, Row
  <2>3. PICK C \in Seq(Elems), E \in Seq(Elems) : E = Q \o B /\ C = P \o E
    BY Joined
  <2>4. C \in Seq(Nodes) /\ E \in Seq(Nodes)
    BY <2>3, NodeFacts
  <2>5. <<HeadOf(l)>> \o (A \o C) = R \o C
    BY <1>2, RowFrom
  <2>6. Apart(R \o C, K)
    BY <1>1, <2>1, <2>3, <2>5, ListsApart
  <2>7. Apart(K, R) /\ Apart(P \o E, K)
    BY <1>3, <2>3, <2>4, <2>6, ApartJoined
  <2>8. Apart(K, P) /\ Apart(Q \o B, K)
    BY <1>3, <2>3, <2>4, <2>7, ApartJoined
  <2>9. Apart(K, Q)
    BY <1>3, <2>8, ApartJoined
  <2>10. \A i \in DOMAIN K : K[i] \in Nodes /\ K[i] \notin D
    BY <1>3, <1>4, <2>2, <2>7, <2>8, <2>9, LastApart
  <2> QED
    BY <1>5, <2>1, <2>10, ListKept
<1> QED
  BY <1>11, <1>12, Zenon DEF Rearranged

(* Within a list, towards its front.                                        *)
LEMMA SpliceFront ==
  ASSUME IInv, IInv', pc # "reverse", pc' # "reverse", NEW l \in Lists,
         NEW A \in Seq(Elems), NEW V \in Seq(Elems), NEW Y \in Seq(Elems), NEW B \in Seq(Elems),
         Len(V) # 0, Len(Y) # 0, Interior(l) = A \o (V \o (Y \o B)),
         list_splice(V[1], Y[1], First(B, TailOf(l)))
  PROVE  Rearranged(l, A \o (Y \o (V \o B)))
<1>1. RowQuarters(l, A, V, Y, B)
  BY RowsHold, RowCutThrice DEF Rows
<1>2. next \in Links /\ prev \in Links /\ Elems \subseteq Nodes
  BY NodeFacts DEF IInv, Typed, Links
<1>3. PICK before \in Nodes, first \in Nodes, last \in Nodes, b \in Nodes :
         /\ before = V[1] /\ first = Y[1] /\ last = First(B, TailOf(l)) /\ b = Last(<<HeadOf(l)>> \o A)
  BY <1>1, <1>2 DEF RowQuarters
<1>4. /\ first # last /\ next[prev[last]] = last /\ before # last /\ b = prev[before]
      /\ prev[last] = Last(Y) /\ prev[first] = Last(V)
  BY <1>1, <1>3 DEF RowQuarters
<1>5. /\ first # last /\ next[prev[last]] = last
      /\ b = IF before = last THEN prev[first] ELSE prev[before]
      /\ list_splice(before, first, last)
  BY <1>3, <1>4
<1>6. Rewired(before, first, last, b)
  BY <1>2, <1>5, SpliceNext, Zenon
<1>7. Swap(l, A, V, Y, B)
  BY <1>3, <1>4, <1>6, Zenon DEF Swap, Rewired
<1> QED
  BY <1>7, PiecesSwap

(* Within a list, towards its end, or not at all.                           *)
LEMMA SpliceBack ==
  ASSUME IInv, IInv', pc # "reverse", pc' # "reverse", NEW l \in Lists,
         NEW A \in Seq(Elems), NEW Y \in Seq(Elems), NEW V \in Seq(Elems), NEW B \in Seq(Elems),
         Len(Y) # 0, Len(V) # 0, Interior(l) = A \o (Y \o (V \o B)),
         list_splice(First(B, TailOf(l)), Y[1], V[1])
  PROVE  Rearranged(l, A \o (V \o (Y \o B)))
<1>1. RowQuarters(l, A, Y, V, B)
  BY RowsHold, RowCutThrice DEF Rows
<1>2. next \in Links /\ prev \in Links /\ Elems \subseteq Nodes
  BY NodeFacts DEF IInv, Typed, Links
<1>3. PICK before \in Nodes, first \in Nodes, last \in Nodes, b \in Nodes :
         /\ before = First(B, TailOf(l)) /\ first = Y[1] /\ last = V[1] /\ b = Last(V)
  BY <1>1, <1>2 DEF RowQuarters
<1>4. /\ first # last /\ next[prev[last]] = last /\ before # last /\ b = prev[before]
      /\ prev[last] = Last(Y) /\ prev[first] = Last(<<HeadOf(l)>> \o A)
  BY <1>1, <1>3 DEF RowQuarters
<1>5. /\ first # last /\ next[prev[last]] = last
      /\ b = IF before = last THEN prev[first] ELSE prev[before]
      /\ list_splice(before, first, last)
  BY <1>3, <1>4
<1>6. Rewired(before, first, last, b)
  BY <1>2, <1>5, SpliceNext, Zenon
<1>7. Last(V) # Last(Y) /\ Last(V) # Last(<<HeadOf(l)>> \o A) /\ Last(Y) # Last(<<HeadOf(l)>> \o A)
  BY <1>1, LastApart DEF RowQuarters
<1>8. Swap(l, A, Y, V, B)
  BY <1>3, <1>4, <1>6, <1>7 DEF Swap, Rewired
<1> QED
  BY <1>8, PiecesSwap

(* In front of the one behind the last that moves: nothing changes.         *)
LEMMA SpliceNowhere ==
  ASSUME IInv, IInv', pc # "reverse", pc' # "reverse", NEW l \in Lists,
         NEW A \in Seq(Elems), NEW Y \in Seq(Elems), NEW B \in Seq(Elems),
         Len(Y) # 0, Interior(l) = A \o (Y \o B),
         list_splice(First(B, TailOf(l)), Y[1], First(B, TailOf(l)))
  PROVE  \A k \in Lists : Interior(k)' = Interior(k)
<1>1. RowParts(l, A, Y, B)
  BY RowsHold, RowCutTwice DEF Rows
<1>2. next \in Links /\ prev \in Links /\ Elems \subseteq Nodes
  BY NodeFacts DEF IInv, Typed, Links
<1>3. PICK before \in Nodes, first \in Nodes, b \in Nodes :
         before = First(B, TailOf(l)) /\ first = Y[1] /\ b = Last(<<HeadOf(l)>> \o A)
  BY <1>1, <1>2 DEF RowParts
<1>4. /\ first # before /\ next[prev[before]] = before /\ b = prev[first]
      /\ next[b] = first /\ prev[before] = Last(Y)
  <2>1. /\ <<HeadOf(l)>> \o A \in Seq(Nodes) /\ Len(<<HeadOf(l)>> \o A) # 0
        /\ Path(next, <<HeadOf(l)>> \o A, first)
    BY <1>1, <1>3 DEF RowParts
  <2>2. Len(<<HeadOf(l)>> \o A) \in DOMAIN (<<HeadOf(l)>> \o A)
    BY <2>1
  <2>3. next[b] = first
    BY <1>3, <2>1, <2>2 DEF Path, Last
  <2> QED
    BY <1>1, <1>3, <2>3 DEF RowParts
<1>5. b = (IF before = before THEN prev[first] ELSE prev[before]) /\ list_splice(before, first, before)
  BY <1>3, <1>4
<1>6. Rewired(before, first, before, b)
  BY <1>2, <1>4, <1>5, SpliceNext
<1>7. \A n \in Nodes \ {} : next'[n] = next[n]
  BY <1>4, <1>6 DEF Rewired
<1>8. PICK D : D = {}
  OBVIOUS
<1> SUFFICES ASSUME NEW k \in Lists PROVE Interior(k)' = Interior(k)
  OBVIOUS
<1>9. \A i \in DOMAIN (<<HeadOf(k)>> \o Interior(k)) : (<<HeadOf(k)>> \o Interior(k))[i] \notin D
  BY <1>8
<1>10. \A n \in Nodes \ D : next'[n] = next[n]
  BY <1>7, <1>8
<1> QED
  BY <1>9, <1>10, ListKept

----------------------------------------------------------------------------
(* Positions and pieces                                                     *)

LEMMA PieceFacts ==
  ASSUME NEW S, NEW s \in Seq(S), NEW i \in 1 .. Len(s) + 1, NEW j \in i .. Len(s) + 1, NEW b
  PROVE  /\ SubSeq(s, i, j - 1) \in Seq(S) /\ Len(SubSeq(s, i, j - 1)) = j - i
         /\ i # j => SubSeq(s, i, j - 1)[1] = s[i] /\ s[i] \in S /\ Append(s, b)[i] = s[i]
         /\ SubSeq(s, j, Len(s)) \in Seq(S) /\ Len(SubSeq(s, j, Len(s))) = Len(s) - j + 1
         /\ First(SubSeq(s, j, Len(s)), b) = Append(s, b)[j]
<1>1. PICK n \in Nat : n = Len(s) /\ DOMAIN s = 1 .. n /\ i \in 1 .. n + 1 /\ j \in i .. n + 1 /\ j \in 1 .. n + 1
  OBVIOUS
<1>2. /\ SubSeq(s, i, j - 1) \in Seq(S) /\ Len(SubSeq(s, i, j - 1)) = (j - 1) - i + 1
      /\ \A k \in 1 .. (j - 1) - i + 1 : SubSeq(s, i, j - 1)[k] = s[i + k - 1]
  <2>1. j - 1 \in i - 1 .. Len(s)
    BY <1>1
  <2> QED
    BY <2>1, Cut
<1>3. /\ SubSeq(s, j, Len(s)) \in Seq(S) /\ Len(SubSeq(s, j, Len(s))) = Len(s) - j + 1
      /\ \A k \in 1 .. Len(s) - j + 1 : SubSeq(s, j, Len(s))[k] = s[j + k - 1]
  <2>1. Len(s) \in j - 1 .. Len(s) /\ j \in 1 .. Len(s) + 1
    BY <1>1
  <2> QED
    BY <2>1, Cut
<1>4. (j - 1) - i + 1 = j - i
  BY <1>1
<1>5. ASSUME i # j
      PROVE  SubSeq(s, i, j - 1)[1] = s[i] /\ s[i] \in S /\ Append(s, b)[i] = s[i]
  <2>1. 1 \in 1 .. (j - 1) - i + 1 /\ i + 1 - 1 = i /\ i \in 1 .. n
    BY <1>1, <1>5
  <2> QED
    BY <1>1, <1>2, <2>1
<1>6. First(SubSeq(s, j, Len(s)), b) = Append(s, b)[j]
  <2>1. CASE j = n + 1
    <3>1. Len(s) - j + 1 = 0 /\ Append(s, b)[j] = b
      BY <1>1, <2>1
    <3> QED
      BY <1>3, <3>1 DEF First
  <2>2. CASE j # n + 1
    <3>1. 1 \in 1 .. Len(s) - j + 1 /\ Len(s) - j + 1 # 0 /\ j + 1 - 1 = j /\ j \in 1 .. n
      BY <1>1, <2>2
    <3>2. Append(s, b)[j] = s[j]
      BY <1>1, <3>1
    <3> QED
      BY <1>3, <3>1, <3>2 DEF First
  <2> QED
    BY <2>1, <2>2
<1> QED
  BY <1>2, <1>3, <1>4, <1>5, <1>6

LEMMA OnePiece ==
  ASSUME NEW S, NEW s \in Seq(S), Len(s) = 1, NEW e, s[1] = e
  PROVE  s = <<e>>
<1>1. DOMAIN s = 1 .. 1 /\ e \in S
  OBVIOUS
<1>2. <<e>> \in Seq(S) /\ Len(<<e>>) = 1 /\ <<e>>[1] = e /\ DOMAIN <<e>> = 1 .. 1
  BY <1>1
<1>3. \A i \in 1 .. Len(s) : s[i] = <<e>>[i]
  BY <1>1, <1>2
<1>4. Len(s) = Len(<<e>>)
  BY <1>2
<1> QED
  BY <1>2, <1>3, <1>4, SeqEqual

LEMMA ThreePieces ==
  ASSUME NEW S, NEW s \in Seq(S), NEW i \in 1 .. Len(s) + 1, NEW j \in i .. Len(s) + 1
  PROVE  s = SubSeq(s, 1, i - 1) \o (SubSeq(s, i, j - 1) \o SubSeq(s, j, Len(s)))
<1>1. Len(s) \in Nat
  OBVIOUS
<1>2. s = SubSeq(s, 1, i - 1) \o SubSeq(s, i, Len(s))
  <2>1. i - 1 \in 0 .. Len(s) /\ (i - 1) + 1 = i
    BY <1>1
  <2>2. s = SubSeq(s, 1, i - 1) \o SubSeq(s, (i - 1) + 1, Len(s))
    BY <2>1, CutHere
  <2> QED
    BY <2>1, <2>2
<1>3. SubSeq(s, i, j - 1) \o SubSeq(s, j, Len(s)) = SubSeq(s, i, Len(s))
  <2>1. i \in 1 .. Len(s) + 1 /\ j - 1 \in i - 1 .. Len(s) /\ Len(s) \in j - 1 .. Len(s) /\ (j - 1) + 1 = j
    BY <1>1
  <2>2. SubSeq(s, i, j - 1) \o SubSeq(s, (j - 1) + 1, Len(s)) = SubSeq(s, i, Len(s))
    BY <2>1, ConcatAdjacentSubSeq, Zenon
  <2> QED
    BY <2>1, <2>2
<1> QED
  BY <1>2, <1>3

LEMMA FourPieces ==
  ASSUME NEW S, NEW s \in Seq(S), NEW i \in 1 .. Len(s) + 1, NEW j \in i .. Len(s) + 1, NEW k \in j .. Len(s) + 1
  PROVE  s = SubSeq(s, 1, i - 1) \o (SubSeq(s, i, j - 1) \o (SubSeq(s, j, k - 1) \o SubSeq(s, k, Len(s))))
<1>1. Len(s) \in Nat /\ j \in 1 .. Len(s) + 1
  OBVIOUS
<1>2. SubSeq(s, j, k - 1) \o SubSeq(s, k, Len(s)) = SubSeq(s, j, Len(s))
  <2>1. j \in 1 .. Len(s) + 1 /\ k - 1 \in j - 1 .. Len(s) /\ Len(s) \in k - 1 .. Len(s) /\ (k - 1) + 1 = k
    BY <1>1
  <2>2. SubSeq(s, j, k - 1) \o SubSeq(s, (k - 1) + 1, Len(s)) = SubSeq(s, j, Len(s))
    BY <2>1, ConcatAdjacentSubSeq, Zenon
  <2> QED
    BY <2>1, <2>2
<1>3. s = SubSeq(s, 1, i - 1) \o (SubSeq(s, i, j - 1) \o SubSeq(s, j, Len(s)))
  BY ThreePieces
<1> QED
  BY <1>2, <1>3

Regroup(s, t, u) == (s \o t) \o u = s \o (t \o u)

LEMMA Regrouped ==
  ASSUME NEW S, NEW s \in Seq(S), NEW t \in Seq(S), NEW u \in Seq(S)
  PROVE  Regroup(s, t, u)
BY Grouped, SMTT(60) DEF Regroup

Regroup4(s, t, u, v) == s \o (t \o (u \o v)) = s \o t \o u \o v

LEMMA Grouped4 ==
  ASSUME NEW S, NEW s \in Seq(S), NEW t \in Seq(S), NEW u \in Seq(S), NEW v \in Seq(S)
  PROVE  Regroup4(s, t, u, v)
<1>1. PICK x \in Seq(S), y \in Seq(S), z \in Seq(S) : x = s \o t /\ y = u \o v /\ z = x \o u
  BY Joined
<1>2. (s \o t) \o y = s \o (t \o y)
  <2>1. Regroup(s, t, y)
    BY Regrouped, Zenon
  <2> QED
    BY <2>1 DEF Regroup
<1>3. (x \o u) \o v = x \o (u \o v)
  <2>1. Regroup(x, u, v)
    BY Regrouped, Zenon
  <2> QED
    BY <2>1 DEF Regroup
<1> QED
  BY <1>1, <1>2, <1>3 DEF Regroup4

----------------------------------------------------------------------------
(* What callers see                                                         *)

(* The other lists are what callers see.                                    *)
Others(S) == \A l \in Lists \ S : content[l] = Interior(l)

LEMMA IdleRow ==
  ASSUME IInv, pc # "reverse", NEW l \in Lists
  PROVE  /\ Interior(l) \in Seq(Elems) /\ Distinct(Interior(l)) /\ Len(Interior(l)) \in Nat
         /\ DOMAIN Interior(l) = 1 .. Len(Interior(l))
         /\ \A i \in 1 .. Len(Interior(l)) : Interior(l)[i] \in Elems
         /\ list_begin(l) = First(Interior(l), TailOf(l)) /\ list_end(l) = TailOf(l)
         /\ prev[TailOf(l)] = Last(<<HeadOf(l)>> \o Interior(l))
         /\ \A m \in Lists \ {l} : Apart(Interior(l), Interior(m))
<1>1. Rows /\ Row(l, Interior(l))
  BY RowsHold DEF Rows
<1>2. PICK s \in Seq(Elems) : s = Interior(l) /\ Row(l, s)
  <2>1. Interior(l) \in Seq(Elems)
    BY <1>1, Zenon DEF Row
  <2> QED
    BY <1>1, <2>1
<1>3. PICK none \in Seq(Elems) : none = <<>>
  <2>1. <<>> \in Seq(Elems)
    OBVIOUS
  <2> QED
    BY <2>1, Zenon
<1>4. s \o none = s /\ none \o s = s /\ <<HeadOf(l)>> \o none = <<HeadOf(l)>>
  <2>1. HeadOf(l) \in Nodes
    BY NodeFacts
  <2> QED
    BY <1>3, <2>1
<1>5. prev[TailOf(l)] = Last(<<HeadOf(l)>> \o s)
  <2>1. Row(l, s \o none)
    BY <1>2, <1>4
  <2>2. prev[First(none, TailOf(l))] = Last(<<HeadOf(l)>> \o s)
    BY <2>1, RowCut
  <2>3. First(none, TailOf(l)) = TailOf(l)
    BY <1>3 DEF First
  <2> QED
    BY <2>2, <2>3
<1>6. list_begin(l) = First(s, TailOf(l))
  <2>1. Row(l, none \o s)
    BY <1>2, <1>4
  <2>2. Path(next, <<HeadOf(l)>> \o none, First(s, TailOf(l)))
    BY <2>1, RowCut
  <2>3. Path(next, <<HeadOf(l)>>, First(s, TailOf(l)))
    BY <1>4, <2>2
  <2> QED
    BY <2>3 DEF Path, list_begin
<1> QED
  BY <1>1, <1>2, <1>5, <1>6 DEF Rows, Row, list_end

LEMMA Becomes ==
  ASSUME content \in [Lists -> Seq(Elems)], content' = Contents', NEW l \in Lists, NEW t,
         Interior(l)' = t, \A m \in Lists \ {l} : Interior(m)' = content[m]
  PROVE  content' = [content EXCEPT ![l] = t]
<1>1. content' = [m \in Lists |-> Interior(m)']
  BY DEF Contents
<1> QED
  BY <1>1

LEMMA OutsideIs ==
  ASSUME Others({})
  PROVE  Outside = Abstract!Outside
<1>1. ASSUME NEW e \in Elems
      PROVE  (\A l \in Lists : ~ In(e, l)) <=> e \notin UNION { Abstract!ToSet(content[l]) : l \in Lists }
  <2>1. \A l \in Lists : In(e, l) <=> e \in Abstract!ToSet(content[l])
    BY DEF In, Others, Abstract!ToSet
  <2> QED
    BY <2>1
<1> QED
  BY <1>1 DEF Outside, Abstract!Outside

----------------------------------------------------------------------------
(* The calls without a loop                                                 *)

(* An insertion between calls, in front of position i.                      *)
LEMMA InsertIs ==
  ASSUME IInv, IInv', pc = "idle", pc' = "idle", content \in [Lists -> Seq(Elems)], Others({}),
         content' = Contents', NEW l \in Lists, NEW e \in Outside, NEW i \in 1 .. Len(Interior(l)) + 1,
         list_insert(Append(Interior(l), TailOf(l))[i], e)
  PROVE  Abstract!Next
<1>1. e \in Elems /\ e \in Abstract!Outside /\ content[l] = Interior(l) /\ i \in 1 .. Len(content[l]) + 1
  BY OutsideIs DEF Others, Outside
<1>2. \A m \in Lists : \A k \in DOMAIN Interior(m) : Interior(m)[k] # e
  BY DEF Outside, In
<1>3. /\ Interior(l)' = Abstract!InsertAt(content[l], i, e)
      /\ \A m \in Lists \ {l} : Interior(m)' = content[m]
  <2>1. /\ Interior(l)' = Abstract!InsertAt(Interior(l), i, e)
        /\ \A m \in Lists \ {l} : Interior(m)' = Interior(m)
    BY <1>1, <1>2, InsertRow
  <2> QED
    BY <1>1, <2>1 DEF Others
<1>4. content' = [content EXCEPT ![l] = Abstract!InsertAt(content[l], i, e)]
  BY <1>3, Becomes
<1>5. Abstract!Insert(l, i, e)
  BY <1>1, <1>4, Zenon DEF Abstract!Insert
<1> QED
  BY <1>1, <1>5, Zenon DEF Abstract!Next

LEMMA InsertsAre ==
  ASSUME IInv, IInv', content \in [Lists -> Seq(Elems)], pc = "idle" => Others({}), content' = Contents',
         Insert \/ PushFront \/ PushBack
  PROVE  Abstract!Next
<1>1. pc = "idle" /\ pc' = "idle" /\ Others({})
  BY DEF Insert, PushFront, PushBack, Idle
<1>2. PICK l \in Lists, e \in Outside : \E before :
         /\ list_insert(before, e)
         /\ before \in {list_begin(l), list_end(l)} \/ In(before, l)
  BY DEF Insert, PushFront, PushBack
<1>3. PICK before : list_insert(before, e) /\ (before \in {list_begin(l), list_end(l)} \/ In(before, l))
  BY <1>2, Zenon
<1>4. PICK s \in Seq(Elems) : s = Interior(l)
  BY <1>1, IdleRow
<1>5. PICK n \in Nat : n = Len(s) /\ DOMAIN s = 1 .. n
  OBVIOUS
<1>6. \A i \in 1 .. n + 1 : Append(s, TailOf(l))[i] = IF i = n + 1 THEN TailOf(l) ELSE s[i]
  BY <1>5, WithEnds
<1>7. \E i \in 1 .. n + 1 : before = Append(s, TailOf(l))[i]
  <2>1. CASE before = list_end(l)
    BY <1>5, <1>6, <2>1 DEF list_end
  <2>2. CASE before = list_begin(l)
    <3>1. before = First(s, TailOf(l))
      BY <1>1, <1>4, <2>2, IdleRow
    <3>2. 1 \in 1 .. n + 1
      BY <1>5
    <3> QED
      BY <1>5, <1>6, <3>1, <3>2 DEF First
  <2>3. CASE In(before, l)
    <3>1. PICK i \in 1 .. n : s[i] = before
      BY <1>4, <1>5, <2>3 DEF In
    <3>2. i \in 1 .. n + 1 /\ i # n + 1
      BY <1>5
    <3> QED
      BY <1>6, <3>1, <3>2
  <2> QED
    BY <1>3, <2>1, <2>2, <2>3
<1>8. PICK i \in 1 .. n + 1 : list_insert(Append(s, TailOf(l))[i], e)
  BY <1>3, <1>7
<1>9. i \in 1 .. Len(Interior(l)) + 1 /\ list_insert(Append(Interior(l), TailOf(l))[i], e)
  BY <1>4, <1>5, <1>8
<1> QED
  BY <1>1, <1>9, InsertIs

LEMMA RemovesAre ==
  ASSUME IInv, IInv', content \in [Lists -> Seq(Elems)], pc = "idle" => Others({}), content' = Contents',
         Remove \/ PopFront \/ PopBack
  PROVE  Abstract!Next
<1>1. pc = "idle" /\ pc' = "idle" /\ Others({})
  BY DEF Remove, PopFront, PopBack, Idle
<1>2. PICK l \in Lists : \E e :
         /\ list_remove(e)
         /\ \/ In(e, l)
            \/ ~ list_empty(l) /\ (e = next[HeadOf(l)] \/ e = prev[TailOf(l)])
  BY DEF Remove, PopFront, PopBack
<1>3. PICK e : list_remove(e) /\ (In(e, l) \/ (~ list_empty(l) /\ (e = next[HeadOf(l)] \/ e = prev[TailOf(l)])))
  BY <1>2
<1>4. PICK s \in Seq(Elems) : s = Interior(l)
  BY <1>1, IdleRow
<1>5. PICK n \in Nat : n = Len(s) /\ DOMAIN s = 1 .. n
  OBVIOUS
<1>6. \E i \in 1 .. n : e = s[i]
  <2>1. CASE In(e, l)
    BY <1>4, <1>5, <2>1 DEF In
  <2>2. CASE ~ list_empty(l) /\ (e = next[HeadOf(l)] \/ e = prev[TailOf(l)])
    <3>1. list_begin(l) = First(s, TailOf(l)) /\ prev[TailOf(l)] = Last(<<HeadOf(l)>> \o s)
      BY <1>1, <1>4, IdleRow
    <3>2. n # 0
      BY <1>5, <2>2, <3>1 DEF list_empty, list_end, First
    <3>3. list_begin(l) = s[1]
      BY <1>5, <3>1, <3>2 DEF First
    <3>4. prev[TailOf(l)] = s[n]
      <4>1. <<HeadOf(l)>> \in Seq(Nodes) /\ s \in Seq(Nodes)
        BY NodeFacts
      <4>2. Last(<<HeadOf(l)>> \o s) = IF Len(s) = 0 THEN Last(<<HeadOf(l)>>) ELSE Last(s)
        BY <4>1, EndsJoined
      <4> QED
        BY <1>5, <3>1, <3>2, <4>2 DEF Last
    <3>5. 1 \in 1 .. n /\ n \in 1 .. n
      BY <3>2
    <3> QED
      BY <2>2, <3>3, <3>4, <3>5 DEF list_begin
  <2> QED
    BY <1>3, <2>1, <2>2
<1>7. PICK i \in 1 .. n : e = s[i]
  BY <1>6
<1>8. PICK A \in Seq(Elems), B \in Seq(Elems) :
         A = SubSeq(s, 1, i - 1) /\ B = SubSeq(s, i + 1, n) /\ s = A \o (<<e>> \o B)
  <2>1. i \in 1 .. Len(s) + 1 /\ i + 1 \in i .. Len(s) + 1 /\ i # i + 1 /\ i + 1 - 1 = i /\ 1 \in 1 .. Len(s) + 1
        /\ i \in 1 .. Len(s) + 1 /\ i + 1 - i = 1
    BY <1>5
  <2>2. s = SubSeq(s, 1, i - 1) \o (SubSeq(s, i, i) \o SubSeq(s, i + 1, Len(s)))
    <3>1. PICK j : j = i + 1 /\ j - 1 = i
      BY <2>1
    <3>2. s = SubSeq(s, 1, i - 1) \o (SubSeq(s, i, j - 1) \o SubSeq(s, j, Len(s)))
      BY <2>1, <3>1, ThreePieces
    <3> QED
      BY <3>1, <3>2, Zenon
  <2>3. /\ SubSeq(s, i, i) \in Seq(Elems) /\ Len(SubSeq(s, i, i)) = 1 /\ SubSeq(s, i, i)[1] = s[i]
        /\ SubSeq(s, i + 1, Len(s)) \in Seq(Elems)
    BY <2>1, PieceFacts
  <2>4. SubSeq(s, i, i) = <<e>>
    BY <1>7, <2>3, OnePiece
  <2>5. SubSeq(s, 1, i - 1) \in Seq(Elems)
    <3>1. i \in 1 .. Len(s) + 1
      BY <2>1
    <3> QED
      BY <2>1, <3>1, PieceFacts
  <2> QED
    BY <1>5, <2>2, <2>3, <2>4, <2>5
<1>9. e \in Elems /\ content[l] = s
  BY <1>1, <1>4, <1>5, <1>7 DEF Others
<1>10. Interior(l)' = A \o B /\ \A m \in Lists \ {l} : Interior(m)' = Interior(m)
  <2>1. Interior(l) = A \o (<<e>> \o B)
    BY <1>4, <1>8
  <2>2. pc # "reverse" /\ pc' # "reverse" /\ list_remove(e)
    BY <1>1, <1>3
  <2> QED
    BY <1>9, <2>1, <2>2, RemoveRow
<1>11. A \o B = Abstract!RemoveAt(content[l], i)
  BY <1>5, <1>8, <1>9 DEF Abstract!RemoveAt
<1>12. content' = [content EXCEPT ![l] = Abstract!RemoveAt(content[l], i)]
  <2>1. \A m \in Lists \ {l} : Interior(m)' = content[m]
    BY <1>1, <1>10 DEF Others
  <2>2. Interior(l)' = Abstract!RemoveAt(content[l], i)
    BY <1>10, <1>11, Zenon
  <2> QED
    BY <2>1, <2>2, Becomes
<1>13. Abstract!Delete(l, i) /\ i \in DOMAIN content[l]
  BY <1>5, <1>9, <1>12, Zenon DEF Abstract!Delete
<1> QED
  BY <1>13, Zenon DEF Abstract!Next

(* Splice: positions i to j - 1 of one list.                                *)
LEMMA SplicesOther ==
  ASSUME IInv, IInv', content \in [Lists -> Seq(Elems)], pc = "idle", pc' = "idle", Others({}), content' = Contents',
         NEW m \in Lists, NEW l \in Lists, l # m,
         NEW i \in 1 .. Len(content[m]) + 1, NEW j \in 1 .. Len(content[m]) + 1,
         NEW k \in 1 .. Len(content[l]) + 1, i < j,
         list_splice(Append(content[l], TailOf(l))[k], Append(content[m], TailOf(m))[i], Append(content[m], TailOf(m))[j])
  PROVE  Abstract!Next
<1>1. PICK s \in Seq(Elems), t \in Seq(Elems) : s = content[m] /\ t = content[l]
  OBVIOUS
<1>2. /\ s = Interior(m) /\ t = Interior(l) /\ Len(s) \in Nat /\ Len(t) \in Nat /\ DOMAIN s = 1 .. Len(s)
      /\ i \in 1 .. Len(s) + 1 /\ j \in i .. Len(s) + 1 /\ i # j /\ k \in 1 .. Len(t) + 1 /\ j \in 1 .. Len(s) + 1
  BY <1>1 DEF Others
<1>3. PICK X, Y, Z, U, V :
         /\ X = SubSeq(s, 1, i - 1) /\ Y = SubSeq(s, i, j - 1) /\ Z = SubSeq(s, j, Len(s))
         /\ U = SubSeq(t, 1, k - 1) /\ V = SubSeq(t, k, Len(t))
  OBVIOUS
<1>4. X \in Seq(Elems)
  <2>1. 1 \in 1 .. Len(s) + 1 /\ i \in 1 .. Len(s) + 1
    BY <1>2
  <2> QED
    BY <1>3, <2>1, PieceFacts
<1>5. U \in Seq(Elems)
  <2>1. 1 \in 1 .. Len(t) + 1 /\ k \in 1 .. Len(t) + 1
    BY <1>2
  <2> QED
    BY <1>3, <2>1, PieceFacts
<1>6. /\ Y \in Seq(Elems) /\ Z \in Seq(Elems) /\ Len(Y) # 0
      /\ Y[1] = Append(s, TailOf(m))[i] /\ First(Z, TailOf(m)) = Append(s, TailOf(m))[j]
  <2>1. /\ SubSeq(s, i, j - 1) \in Seq(Elems) /\ Len(SubSeq(s, i, j - 1)) = j - i
        /\ i # j => SubSeq(s, i, j - 1)[1] = s[i] /\ s[i] \in Elems /\ Append(s, TailOf(m))[i] = s[i]
        /\ SubSeq(s, j, Len(s)) \in Seq(Elems)
        /\ First(SubSeq(s, j, Len(s)), TailOf(m)) = Append(s, TailOf(m))[j]
    BY <1>2, PieceFacts
  <2>2. j - i # 0
    BY <1>2
  <2> QED
    BY <1>2, <1>3, <2>1, <2>2
<1>7. V \in Seq(Elems) /\ First(V, TailOf(l)) = Append(t, TailOf(l))[k]
  <2>1. k \in 1 .. Len(t) + 1 /\ k \in k .. Len(t) + 1
    BY <1>2
  <2>2. /\ SubSeq(t, k, Len(t)) \in Seq(Elems)
        /\ First(SubSeq(t, k, Len(t)), TailOf(l)) = Append(t, TailOf(l))[k]
    BY <2>1, PieceFacts
  <2> QED
    BY <1>3, <2>2
<1>8. s = X \o (Y \o Z)
  BY <1>2, <1>3, ThreePieces
<1>9. t = U \o V
  <2>1. k - 1 \in 0 .. Len(t) /\ (k - 1) + 1 = k
    BY <1>2
  <2>2. t = SubSeq(t, 1, k - 1) \o SubSeq(t, (k - 1) + 1, Len(t))
    BY <2>1, CutHere
  <2> QED
    BY <1>3, <2>1, <2>2, Zenon
<1>10. /\ Interior(m)' = X \o Z /\ Interior(l)' = U \o (Y \o V)
       /\ \A x \in Lists \ {l, m} : Interior(x)' = Interior(x)
  <2>1. pc # "reverse" /\ pc' # "reverse" /\ Interior(m) = X \o (Y \o Z) /\ Interior(l) = U \o V
    BY <1>2, <1>8, <1>9
  <2>2. list_splice(First(V, TailOf(l)), Y[1], First(Z, TailOf(m)))
    BY <1>1, <1>6, <1>7
  <2>3. X \in Seq(Elems) /\ Y \in Seq(Elems) /\ Z \in Seq(Elems) /\ U \in Seq(Elems) /\ V \in Seq(Elems) /\ Len(Y) # 0
    BY <1>4, <1>5, <1>6, <1>7
  <2>4. MovesBetween(m, l, X, Y, Z, U, V)
    BY <2>1, <2>2, <2>3, SpliceOther, Zenon
  <2> QED
    BY <2>4, Zenon DEF MovesBetween
<1>11. U \o (Y \o V) = U \o Y \o V
  <2>1. (U \o Y) \o V = U \o (Y \o V)
    <3>1. Regroup(U, Y, V)
      BY <1>5, <1>6, <1>7, Regrouped, Zenon
    <3> QED
      BY <3>1 DEF Regroup
  <2> QED
    BY <2>1
<1>12. content' = [content EXCEPT ![m] = X \o Z, ![l] = U \o Y \o V]
  <2>1. content' = [x \in Lists |-> Interior(x)']
    BY DEF Contents
  <2>2. \A x \in Lists \ {l, m} : Interior(x)' = content[x]
    BY <1>10 DEF Others
  <2>3. Interior(l)' = U \o Y \o V /\ Interior(m)' = X \o Z
    BY <1>10, <1>11
  <2> HIDE <1>1
  <2> QED
    BY <2>1, <2>2, <2>3
<1>13. Abstract!Splice(m, i, j - 1, l, k)
  <2>1. i <= j - 1 /\ (j - 1) + 1 = j
    BY <1>2
  <2>2. X \o Z = SubSeq(content[m], 1, i - 1) \o SubSeq(content[m], (j - 1) + 1, Len(content[m]))
    BY <1>1, <1>3, <2>1
  <2>3. U \o Y \o V = SubSeq(content[l], 1, k - 1) \o SubSeq(content[m], i, j - 1) \o SubSeq(content[l], k, Len(content[l]))
    BY <1>1, <1>3
  <2>4. content' = [content EXCEPT
       ![m] = SubSeq(content[m], 1, i - 1) \o SubSeq(content[m], (j - 1) + 1, Len(content[m])),
       ![l] = SubSeq(content[l], 1, k - 1) \o SubSeq(content[m], i, j - 1) \o SubSeq(content[l], k, Len(content[l]))]
    BY <1>12, <2>2, <2>3, Zenon
  <2> QED
    BY <2>1, <2>4 DEF Abstract!Splice
<1>14. i \in DOMAIN content[m] /\ j - 1 \in DOMAIN content[m] /\ k \in 1 .. Len(content[l]) + 1
  BY <1>1, <1>2
<1> QED
  BY <1>13, <1>14, Zenon DEF Abstract!Next

Within(l, i, j, k, s) ==
  IF k < i
  THEN SubSeq(s, 1, k - 1) \o SubSeq(s, i, j - 1) \o SubSeq(s, k, i - 1) \o SubSeq(s, j, Len(s))
  ELSE SubSeq(s, 1, i - 1) \o SubSeq(s, j, k - 1) \o SubSeq(s, i, j - 1) \o SubSeq(s, k, Len(s))

LEMMA SplicesFront ==
  ASSUME IInv, IInv', pc # "reverse", pc' # "reverse", NEW l \in Lists, NEW s \in Seq(Elems), s = Interior(l),
         NEW i \in 1 .. Len(s) + 1, NEW j \in 1 .. Len(s) + 1, NEW k \in 1 .. Len(s) + 1, i < j, k < i,
         list_splice(Append(s, TailOf(l))[k], Append(s, TailOf(l))[i], Append(s, TailOf(l))[j])
  PROVE  Rearranged(l, SubSeq(s, 1, k - 1) \o SubSeq(s, i, j - 1) \o SubSeq(s, k, i - 1) \o SubSeq(s, j, Len(s)))
<1>1. /\ Len(s) \in Nat /\ k \in 1 .. Len(s) + 1 /\ i \in k .. Len(s) + 1 /\ j \in i .. Len(s) + 1
      /\ i # j /\ i # k /\ j - i # 0 /\ i - k # 0 /\ 1 \in 1 .. Len(s) + 1
  OBVIOUS
<1>2. PICK A, V, Y, B :
         /\ A = SubSeq(s, 1, k - 1) /\ V = SubSeq(s, k, i - 1)
         /\ Y = SubSeq(s, i, j - 1) /\ B = SubSeq(s, j, Len(s))
  OBVIOUS
<1>3. A \in Seq(Elems)
  <2>1. k \in 1 .. Len(s) + 1
    OBVIOUS
  <2> QED
    BY <1>1, <1>2, <2>1, PieceFacts
<1>4. V \in Seq(Elems) /\ Len(V) # 0 /\ V[1] = Append(s, TailOf(l))[k]
  <2>1. /\ SubSeq(s, k, i - 1) \in Seq(Elems) /\ Len(SubSeq(s, k, i - 1)) = i - k
        /\ k # i => SubSeq(s, k, i - 1)[1] = s[k] /\ s[k] \in Elems /\ Append(s, TailOf(l))[k] = s[k]
    BY <1>1, PieceFacts
  <2> QED
    BY <1>1, <1>2, <2>1
<1>5. /\ Y \in Seq(Elems) /\ Len(Y) # 0 /\ Y[1] = Append(s, TailOf(l))[i]
      /\ B \in Seq(Elems) /\ First(B, TailOf(l)) = Append(s, TailOf(l))[j]
  <2>1. /\ SubSeq(s, i, j - 1) \in Seq(Elems) /\ Len(SubSeq(s, i, j - 1)) = j - i
        /\ i # j => SubSeq(s, i, j - 1)[1] = s[i] /\ s[i] \in Elems /\ Append(s, TailOf(l))[i] = s[i]
        /\ SubSeq(s, j, Len(s)) \in Seq(Elems)
        /\ First(SubSeq(s, j, Len(s)), TailOf(l)) = Append(s, TailOf(l))[j]
    BY <1>1, PieceFacts
  <2> QED
    BY <1>1, <1>2, <2>1
<1>6. s = A \o (V \o (Y \o B))
  BY <1>1, <1>2, FourPieces
<1>7. Rearranged(l, A \o (Y \o (V \o B)))
  <2>1. list_splice(V[1], Y[1], First(B, TailOf(l))) /\ Interior(l) = A \o (V \o (Y \o B))
    BY <1>4, <1>5, <1>6
  <2>2. /\ A \in Seq(Elems) /\ V \in Seq(Elems) /\ Y \in Seq(Elems) /\ B \in Seq(Elems)
        /\ Len(V) # 0 /\ Len(Y) # 0
    BY <1>3, <1>4, <1>5
  <2> QED
    BY <2>1, <2>2, SpliceFront, Zenon
<1>8. A \o (Y \o (V \o B)) = A \o Y \o V \o B
  <2>1. A \in Seq(Elems) /\ V \in Seq(Elems) /\ Y \in Seq(Elems) /\ B \in Seq(Elems)
    BY <1>3, <1>4, <1>5
  <2>2. Regroup4(A, Y, V, B)
    BY <2>1, Grouped4, Zenon
  <2> QED
    BY <2>2 DEF Regroup4
<1> QED
  BY <1>2, <1>7, <1>8, Zenon

LEMMA SplicesBack ==
  ASSUME IInv, IInv', pc # "reverse", pc' # "reverse", NEW l \in Lists, NEW s \in Seq(Elems), s = Interior(l),
         NEW i \in 1 .. Len(s) + 1, NEW j \in 1 .. Len(s) + 1, NEW k \in 1 .. Len(s) + 1, i < j, j < k,
         list_splice(Append(s, TailOf(l))[k], Append(s, TailOf(l))[i], Append(s, TailOf(l))[j])
  PROVE  Rearranged(l, SubSeq(s, 1, i - 1) \o SubSeq(s, j, k - 1) \o SubSeq(s, i, j - 1) \o SubSeq(s, k, Len(s)))
<1>1. /\ Len(s) \in Nat /\ i \in 1 .. Len(s) + 1 /\ j \in i .. Len(s) + 1 /\ k \in j .. Len(s) + 1
      /\ i # j /\ j # k /\ j - i # 0 /\ k - j # 0 /\ 1 \in 1 .. Len(s) + 1
  OBVIOUS
<1>2. PICK A, Y, V, B :
         /\ A = SubSeq(s, 1, i - 1) /\ Y = SubSeq(s, i, j - 1)
         /\ V = SubSeq(s, j, k - 1) /\ B = SubSeq(s, k, Len(s))
  OBVIOUS
<1>3. A \in Seq(Elems)
  <2>1. i \in 1 .. Len(s) + 1
    OBVIOUS
  <2> QED
    BY <1>1, <1>2, <2>1, PieceFacts
<1>4. Y \in Seq(Elems) /\ Len(Y) # 0 /\ Y[1] = Append(s, TailOf(l))[i]
  <2>1. /\ SubSeq(s, i, j - 1) \in Seq(Elems) /\ Len(SubSeq(s, i, j - 1)) = j - i
        /\ i # j => SubSeq(s, i, j - 1)[1] = s[i] /\ s[i] \in Elems /\ Append(s, TailOf(l))[i] = s[i]
    BY <1>1, PieceFacts
  <2> QED
    BY <1>1, <1>2, <2>1
<1>5. /\ V \in Seq(Elems) /\ Len(V) # 0 /\ V[1] = Append(s, TailOf(l))[j]
      /\ B \in Seq(Elems) /\ First(B, TailOf(l)) = Append(s, TailOf(l))[k]
  <2>1. /\ SubSeq(s, j, k - 1) \in Seq(Elems) /\ Len(SubSeq(s, j, k - 1)) = k - j
        /\ j # k => SubSeq(s, j, k - 1)[1] = s[j] /\ s[j] \in Elems /\ Append(s, TailOf(l))[j] = s[j]
        /\ SubSeq(s, k, Len(s)) \in Seq(Elems)
        /\ First(SubSeq(s, k, Len(s)), TailOf(l)) = Append(s, TailOf(l))[k]
    BY <1>1, PieceFacts
  <2> QED
    BY <1>1, <1>2, <2>1
<1>6. s = A \o (Y \o (V \o B))
  BY <1>1, <1>2, FourPieces
<1>7. Rearranged(l, A \o (V \o (Y \o B)))
  <2>1. list_splice(First(B, TailOf(l)), Y[1], V[1]) /\ Interior(l) = A \o (Y \o (V \o B))
    BY <1>4, <1>5, <1>6
  <2>2. /\ A \in Seq(Elems) /\ V \in Seq(Elems) /\ Y \in Seq(Elems) /\ B \in Seq(Elems)
        /\ Len(V) # 0 /\ Len(Y) # 0
    BY <1>3, <1>4, <1>5
  <2> QED
    BY <2>1, <2>2, SpliceBack, Zenon
<1>8. A \o (V \o (Y \o B)) = A \o V \o Y \o B
  <2>1. A \in Seq(Elems) /\ V \in Seq(Elems) /\ Y \in Seq(Elems) /\ B \in Seq(Elems)
    BY <1>3, <1>4, <1>5
  <2>2. Regroup4(A, V, Y, B)
    BY <2>1, Grouped4, Zenon
  <2> QED
    BY <2>2 DEF Regroup4
<1> QED
  BY <1>2, <1>7, <1>8, Zenon

LEMMA SplicesNowhere ==
  ASSUME IInv, IInv', pc # "reverse", pc' # "reverse", NEW l \in Lists, NEW s \in Seq(Elems), s = Interior(l),
         NEW i \in 1 .. Len(s) + 1, NEW j \in 1 .. Len(s) + 1, i < j,
         list_splice(Append(s, TailOf(l))[j], Append(s, TailOf(l))[i], Append(s, TailOf(l))[j])
  PROVE  \A k \in Lists : Interior(k)' = Interior(k)
<1>1. /\ Len(s) \in Nat /\ i \in 1 .. Len(s) + 1 /\ j \in i .. Len(s) + 1
      /\ i # j /\ j - i # 0 /\ 1 \in 1 .. Len(s) + 1
  OBVIOUS
<1>2. PICK A, Y, B : A = SubSeq(s, 1, i - 1) /\ Y = SubSeq(s, i, j - 1) /\ B = SubSeq(s, j, Len(s))
  OBVIOUS
<1>3. A \in Seq(Elems)
  <2>1. i \in 1 .. Len(s) + 1
    OBVIOUS
  <2> QED
    BY <1>1, <1>2, <2>1, PieceFacts
<1>4. /\ Y \in Seq(Elems) /\ Len(Y) # 0 /\ Y[1] = Append(s, TailOf(l))[i]
      /\ B \in Seq(Elems) /\ First(B, TailOf(l)) = Append(s, TailOf(l))[j]
  <2>1. /\ SubSeq(s, i, j - 1) \in Seq(Elems) /\ Len(SubSeq(s, i, j - 1)) = j - i
        /\ i # j => SubSeq(s, i, j - 1)[1] = s[i] /\ s[i] \in Elems /\ Append(s, TailOf(l))[i] = s[i]
        /\ SubSeq(s, j, Len(s)) \in Seq(Elems)
        /\ First(SubSeq(s, j, Len(s)), TailOf(l)) = Append(s, TailOf(l))[j]
    BY <1>1, PieceFacts
  <2> QED
    BY <1>1, <1>2, <2>1
<1>5. s = A \o (Y \o B)
  BY <1>1, <1>2, ThreePieces
<1>6. list_splice(First(B, TailOf(l)), Y[1], First(B, TailOf(l))) /\ Interior(l) = A \o (Y \o B)
  BY <1>4, <1>5
<1> QED
  BY <1>3, <1>4, <1>6, SpliceNowhere, Zenon

LEMMA SplicesAre ==
  ASSUME IInv, IInv', content \in [Lists -> Seq(Elems)], pc = "idle" => Others({}), content' = Contents', Splice
  PROVE  Abstract!Next \/ content' = content
<1>1. pc = "idle" /\ pc' = "idle" /\ Others({}) /\ \A x \in Lists : Interior(x) = content[x]
  BY DEF Splice, Idle, Others
<1>9. PICK m \in Lists, l \in Lists :
        \E i, j \in DOMAIN Append(Interior(m), list_end(m)), k \in DOMAIN Append(Interior(l), list_end(l)) :
          /\ i < j
          /\ m = l => k \notin i .. j - 1
          /\ list_splice(Append(Interior(l), list_end(l))[k], Append(Interior(m), list_end(m))[i],
                         Append(Interior(m), list_end(m))[j])
  BY Zenon DEF Splice
<1>2. PICK i \in DOMAIN Append(Interior(m), list_end(m)), j \in DOMAIN Append(Interior(m), list_end(m)),
           k \in DOMAIN Append(Interior(l), list_end(l)) :
        /\ i < j
        /\ m = l => k \notin i .. j - 1
        /\ list_splice(Append(Interior(l), list_end(l))[k], Append(Interior(m), list_end(m))[i],
                       Append(Interior(m), list_end(m))[j])
  BY <1>9, Zenon
<1>3. PICK s \in Seq(Elems), t \in Seq(Elems) : s = content[m] /\ t = content[l]
  OBVIOUS
<1>4. s = Interior(m) /\ t = Interior(l) /\ list_end(l) = TailOf(l) /\ list_end(m) = TailOf(m)
  BY <1>1, <1>3 DEF list_end
<1>5. i \in 1 .. Len(s) + 1 /\ j \in 1 .. Len(s) + 1 /\ k \in 1 .. Len(t) + 1 /\ Len(s) \in Nat
  <2>1. DOMAIN Append(s, TailOf(m)) = 1 .. Len(s) + 1 /\ DOMAIN Append(t, TailOf(l)) = 1 .. Len(t) + 1
    BY WithEnds
  <2> QED
    BY <1>2, <1>4, <2>1
<1>6. list_splice(Append(t, TailOf(l))[k], Append(s, TailOf(m))[i], Append(s, TailOf(m))[j])
  BY <1>2, <1>4, Zenon
<1>7. CASE l # m
  <2>1. /\ i \in 1 .. Len(content[m]) + 1 /\ j \in 1 .. Len(content[m]) + 1 /\ k \in 1 .. Len(content[l]) + 1
        /\ list_splice(Append(content[l], TailOf(l))[k], Append(content[m], TailOf(m))[i], Append(content[m], TailOf(m))[j])
    BY <1>3, <1>5, <1>6
  <2> QED
    BY <1>1, <1>2, <1>7, <2>1, SplicesOther
<1>8. CASE l = m
  <2>1. /\ s = t /\ k \in 1 .. Len(s) + 1 /\ k \notin i .. j - 1
        /\ list_splice(Append(s, TailOf(l))[k], Append(s, TailOf(l))[i], Append(s, TailOf(l))[j])
    BY <1>2, <1>3, <1>5, <1>6, <1>8
  <2>2. CASE k = j
    <3>1. \A x \in Lists : Interior(x)' = Interior(x)
      BY <1>1, <1>2, <1>4, <1>5, <1>8, <2>1, <2>2, SplicesNowhere
    <3>2. content' = [x \in Lists |-> content[x]]
      BY <1>1, <3>1 DEF Contents
    <3> QED
      BY <3>2
  <2>3. CASE k # j
    <3>1. k < i \/ j < k
      BY <1>5, <2>1, <2>3
    <3>2. Rearranged(l, Within(l, i, j, k, s))
      <4>1. CASE k < i
        <5>1. Rearranged(l, SubSeq(s, 1, k - 1) \o SubSeq(s, i, j - 1) \o SubSeq(s, k, i - 1) \o SubSeq(s, j, Len(s)))
          BY <1>1, <1>2, <1>4, <1>5, <1>8, <2>1, <4>1, SplicesFront
        <5> QED
          BY <4>1, <5>1, Zenon DEF Within
      <4>2. CASE j < k
        <5>1. Rearranged(l, SubSeq(s, 1, i - 1) \o SubSeq(s, j, k - 1) \o SubSeq(s, i, j - 1) \o SubSeq(s, k, Len(s)))
          BY <1>1, <1>2, <1>4, <1>5, <1>8, <2>1, <4>2, SplicesBack
        <5>2. ~ (k < i)
          BY <1>2, <1>5, <2>1, <4>2
        <5> QED
          BY <5>1, <5>2, Zenon DEF Within
      <4> QED
        BY <3>1, <4>1, <4>2
    <3>3. content' = [content EXCEPT ![l] = Within(l, i, j, k, s)]
      <4>1. Interior(l)' = Within(l, i, j, k, s) /\ \A x \in Lists \ {l} : Interior(x)' = content[x]
        BY <1>1, <3>2 DEF Rearranged
      <4> QED
        BY <4>1, Becomes
    <3>4. Abstract!SpliceWithin(l, i, j - 1, k)
      <4>1. i <= j - 1 /\ (j - 1) + 1 = j /\ k \notin i .. j - 1
        BY <1>2, <1>5, <2>1
      <4>2. s = content[l]
        BY <1>3, <2>1
      <4> QED
        BY <3>3, <4>1, <4>2 DEF Abstract!SpliceWithin, Within
    <3>5. i \in DOMAIN content[l] /\ j - 1 \in DOMAIN content[l] /\ k \in 1 .. Len(content[l]) + 1
      BY <1>2, <1>3, <1>5, <2>1
    <3> QED
      BY <3>4, <3>5, Zenon DEF Abstract!Next
  <2> QED
    BY <2>2, <2>3
<1> QED
  BY <1>7, <1>8

----------------------------------------------------------------------------
(* list_reverse                                                             *)

(* Of the elements s of l, those in front of position q have their links    *)
(* swapped.                                                                 *)
Turning(l, s, q) ==
  /\ \A i \in 1 .. Len(s) :
       /\ next[s[i]] = IF i < q THEN (<<HeadOf(l)>> \o s)[i] ELSE Append(s, TailOf(l))[i + 1]
       /\ prev[s[i]] = IF i < q THEN Append(s, TailOf(l))[i + 1] ELSE (<<HeadOf(l)>> \o s)[i]
  /\ next[HeadOf(l)] = Append(s, TailOf(l))[1]
  /\ prev[TailOf(l)] = (<<HeadOf(l)>> \o s)[Len(s) + 1]

ReversedSoFar(l, s) ==
  /\ s \in Seq(Elems) /\ Len(s) # 0 /\ Distinct(s) /\ Others({l})
  /\ \A m \in Lists \ {l} : Apart(s, content[m])
  /\ \E q \in 1 .. Len(s) + 1 : at.e = Append(s, TailOf(l))[q] /\ Turning(l, s, q)

LEMMA ReverseBegins ==
  ASSUME IInv, IInv', content' = content, NEW l \in Lists, Others({}), list_reverse(l)
  PROVE  ReversedSoFar(l, content[l])'
<1>1. pc = "idle" /\ at'.e = list_begin(l) /\ UNCHANGED <<prev, next>> /\ ~ list_empty(l)
  BY DEF list_reverse, Enter, NoLocals
<1>2. PICK s : s = Interior(l) /\ Row(l, s)
  BY <1>1, RowsHold DEF Rows
<1>3. PICK P, T : P = <<HeadOf(l)>> \o s /\ T = Append(s, TailOf(l))
  OBVIOUS
<1>4. /\ s \in Seq(Elems) /\ Distinct(s) /\ Len(s) \in Nat /\ DOMAIN s = 1 .. Len(s)
      /\ Path(next, P, TailOf(l)) /\ \A i \in 1 .. Len(s) + 1 : prev[T[i]] = P[i]
  BY <1>2, <1>3 DEF Row
<1>5. /\ Len(P) = Len(s) + 1 /\ DOMAIN P = 1 .. Len(s) + 1
      /\ \A i \in 1 .. Len(s) + 1 : P[i] = IF i = 1 THEN HeadOf(l) ELSE s[i - 1]
      /\ \A i \in 1 .. Len(s) + 1 : T[i] = IF i = Len(s) + 1 THEN TailOf(l) ELSE s[i]
  BY <1>3, <1>4, WithEnds
<1>6. \A i \in 1 .. Len(s) + 1 : next[P[i]] = T[i] /\ prev[T[i]] = P[i]
  <2> SUFFICES ASSUME NEW i \in 1 .. Len(s) + 1 PROVE next[P[i]] = T[i]
    BY <1>4
  <2>1. next[P[i]] = IF i = Len(s) + 1 THEN TailOf(l) ELSE P[i + 1]
    BY <1>4, <1>5 DEF Path
  <2>2. i # Len(s) + 1 => i + 1 \in 1 .. Len(s) + 1 /\ i + 1 # 1 /\ (i + 1) - 1 = i
    BY <1>4
  <2> QED
    BY <1>5, <2>1, <2>2
<1>7. Turning(l, s, 1)
  <2>1. 1 \in 1 .. Len(s) + 1 /\ Len(s) + 1 \in 1 .. Len(s) + 1
    BY <1>4
  <2>2. next[HeadOf(l)] = T[1] /\ prev[TailOf(l)] = P[Len(s) + 1]
    BY <1>5, <1>6, <2>1
  <2>3. ASSUME NEW i \in 1 .. Len(s)
        PROVE  next[s[i]] = T[i + 1] /\ prev[s[i]] = P[i] /\ ~ (i < 1)
    <3>1. /\ i \in 1 .. Len(s) + 1 /\ i # Len(s) + 1
          /\ i + 1 \in 1 .. Len(s) + 1 /\ i + 1 # 1 /\ (i + 1) - 1 = i /\ ~ (i < 1)
      BY <1>4
    <3>2. P[i + 1] = s[i] /\ T[i] = s[i]
      BY <1>5, <3>1
    <3> QED
      BY <1>6, <3>1, <3>2
  <2> QED
    BY <1>3, <2>2, <2>3 DEF Turning
<1>8. Turning(l, s, 1)'
  BY <1>1, <1>7 DEF Turning
<1>9. Len(s) # 0 /\ 1 \in 1 .. Len(s) + 1 /\ at'.e = T[1]
  <2>1. 1 \in 1 .. Len(s) + 1
    BY <1>4
  <2>2. list_begin(l) = T[1]
    BY <1>5, <1>6, <2>1 DEF list_begin
  <2> QED
    BY <1>1, <1>4, <1>5, <2>1, <2>2 DEF list_empty, list_end
<1>10. ASSUME NEW m \in Lists \ {l}
       PROVE  Interior(m)' = content[m] /\ Apart(s, content[m])
  <2>1. content[m] = Interior(m) /\ Apart(s, Interior(m))
    BY <1>1, <1>2, IdleRow DEF Others
  <2>2. pc' = "reverse" /\ at'.list = l
    BY DEF list_reverse, Enter, NoLocals
  <2>3. Interior(m)' = Interior(m)
    BY <1>1, <2>2, RowStays
  <2> QED
    BY <2>1, <2>3
<1>11. s = content[l] /\ (s = content[l])'
  BY <1>1, <1>2 DEF Others
<1>12. Others({l})'
  BY <1>10 DEF Others
<1>13. ReversedSoFar(l, s)'
  <2>1. \A m \in Lists \ {l} : Apart(s, content'[m])
    BY <1>10
  <2>2. at'.e = Append(s, TailOf(l))[1] /\ Turning(l, s, 1)' /\ 1 \in 1 .. Len(s) + 1
    BY <1>3, <1>8, <1>9
  <2> QED
    BY <1>4, <1>9, <1>12, <2>1, <2>2 DEF ReversedSoFar
<1> QED
  BY <1>11, <1>13

Facing(l, s, P, T) ==
  /\ Len(s) \in Nat /\ DOMAIN s = 1 .. Len(s) /\ \A i \in 1 .. Len(s) : s[i] \in Elems
  /\ \A i \in 1 .. Len(s) + 1 : P[i] = IF i = 1 THEN HeadOf(l) ELSE s[i - 1]
  /\ \A i \in 1 .. Len(s) + 1 : T[i] = IF i = Len(s) + 1 THEN TailOf(l) ELSE s[i]
  /\ Elems \subseteq Nodes /\ HeadOf(l) \in Nodes /\ TailOf(l) \in Nodes
  /\ HeadOf(l) \notin Elems /\ TailOf(l) \notin Elems /\ HeadOf(l) # TailOf(l)

LEMMA FacingFacts ==
  ASSUME NEW l \in Lists, NEW s \in Seq(Elems), NEW P, NEW T, P = <<HeadOf(l)>> \o s, T = Append(s, TailOf(l))
  PROVE  Facing(l, s, P, T)
<1>1. /\ Len(s) \in Nat /\ DOMAIN s = 1 .. Len(s)
      /\ \A i \in 1 .. Len(s) + 1 : P[i] = IF i = 1 THEN HeadOf(l) ELSE s[i - 1]
      /\ \A i \in 1 .. Len(s) + 1 : T[i] = IF i = Len(s) + 1 THEN TailOf(l) ELSE s[i]
  BY WithEnds
<1>2. \A i \in 1 .. Len(s) : s[i] \in Elems
  BY <1>1
<1> QED
  BY <1>1, <1>2, NodeFacts DEF Facing

(* A list keeps its elements when only other nodes get other links.         *)
LEMMA ElsewhereStays ==
  ASSUME IInv, IInv', NEW l \in Lists, at.list = l, pc = "reverse", pc' = "reverse" => at'.list = l,
         Others({l}), NEW D,
         \A n \in Nodes \ D : next'[n] = next[n],
         \A m \in Lists \ {l} : HeadOf(m) \notin D /\ \A i \in DOMAIN content[m] : content[m][i] \notin D
  PROVE  \A m \in Lists \ {l} : Interior(m)' = content[m]
<1> SUFFICES ASSUME NEW m \in Lists \ {l} PROVE Interior(m)' = content[m]
  OBVIOUS
<1>1. content[m] = Interior(m) /\ Row(m, Interior(m))
  BY RowsHold DEF Rows, Others
<1>2. PICK t \in Seq(Elems) : t = Interior(m) /\ t = content[m]
  BY <1>1 DEF Row
<1>3. HeadOf(m) \in Nodes /\ \A i \in DOMAIN t : t[i] \in Nodes
  BY NodeFacts
<1>4. next'[HeadOf(m)] = next[HeadOf(m)] /\ \A i \in DOMAIN t : next'[t[i]] = next[t[i]]
  BY <1>2, <1>3
<1>5. /\ next'[HeadOf(m)] = next[HeadOf(m)]
      /\ \A i \in DOMAIN Interior(m) : next'[Interior(m)[i]] = next[Interior(m)[i]]
      /\ ~ (pc = "reverse" /\ at.list = m) /\ ~ (pc' = "reverse" /\ at'.list = m)
  BY <1>2, <1>4
<1>6. Interior(m)' = Interior(m)
  BY <1>5, RowStays
<1> QED
  BY <1>1, <1>6

LEMMA ReverseGoesOn ==
  ASSUME IInv, IInv', content' = content, NEW l \in Lists, at.list = l, NEW s, s = content[l],
         ReversedSoFar(l, s), ReverseStep
  PROVE  ReversedSoFar(l, s)'
<1>1. /\ pc = "reverse" /\ pc' = "reverse" /\ at.e # end /\ at' = [at EXCEPT !.e = next[at.e]]
      /\ next' = [next EXCEPT ![at.e] = prev[at.e]] /\ prev' = [prev EXCEPT ![at.e] = next[at.e]]
      /\ at \in LocalsType /\ next \in Links /\ prev \in Links
  BY DEF ReverseStep, Stay, IInv, Typed, Links
<1>2. at'.list = l /\ at'.e = next[at.e]
  BY <1>1 DEF LocalsType
<1>3. PICK P, T : P = <<HeadOf(l)>> \o s /\ T = Append(s, TailOf(l))
  OBVIOUS
<1>4. s \in Seq(Elems) /\ Len(s) # 0 /\ Distinct(s) /\ Others({l}) /\ \A m \in Lists \ {l} : Apart(s, content[m])
  BY DEF ReversedSoFar
<1>5. PICK q \in 1 .. Len(s) + 1 : at.e = T[q] /\ Turning(l, s, q)
  BY <1>3 DEF ReversedSoFar
<1>6. /\ Len(s) \in Nat /\ DOMAIN s = 1 .. Len(s) /\ \A i \in 1 .. Len(s) : s[i] \in Elems
      /\ \A i \in 1 .. Len(s) + 1 : P[i] = IF i = 1 THEN HeadOf(l) ELSE s[i - 1]
      /\ \A i \in 1 .. Len(s) + 1 : T[i] = IF i = Len(s) + 1 THEN TailOf(l) ELSE s[i]
      /\ Elems \subseteq Nodes /\ HeadOf(l) \in Nodes /\ TailOf(l) \in Nodes
      /\ HeadOf(l) \notin Elems /\ TailOf(l) \notin Elems
  <2>1. Facing(l, s, P, T)
    BY <1>3, <1>4, FacingFacts, Zenon
  <2> QED
    BY <2>1 DEF Facing
<1>7. /\ \A i \in 1 .. Len(s) : /\ next[s[i]] = IF i < q THEN P[i] ELSE T[i + 1]
                                /\ prev[s[i]] = IF i < q THEN T[i + 1] ELSE P[i]
      /\ next[HeadOf(l)] = T[1] /\ prev[TailOf(l)] = P[Len(s) + 1]
  BY <1>3, <1>5 DEF Turning
<1>8. q \in 1 .. Len(s) /\ at.e = s[q] /\ q + 1 \in 1 .. Len(s) + 1
  BY <1>1, <1>5, <1>6 DEF end, list_end
<1>9. s[q] \in Elems /\ next[s[q]] = T[q + 1] /\ prev[s[q]] = P[q] /\ at'.e = T[q + 1]
  BY <1>2, <1>6, <1>7, <1>8
<1>10. \A i \in 1 .. Len(s) : s[i] = s[q] => i = q
  BY <1>4, <1>6, <1>8 DEF Distinct
<1>11. \A n \in Nodes : /\ next'[n] = IF n = s[q] THEN P[q] ELSE next[n]
                        /\ prev'[n] = IF n = s[q] THEN T[q + 1] ELSE prev[n]
  BY <1>1, <1>8, <1>9 DEF Links
<1>12. ASSUME NEW i \in 1 .. Len(s)
       PROVE  /\ next'[s[i]] = IF i < q + 1 THEN P[i] ELSE T[i + 1]
              /\ prev'[s[i]] = IF i < q + 1 THEN T[i + 1] ELSE P[i]
  <2>1. s[i] \in Nodes
    BY <1>6
  <2>2. CASE i = q
    BY <1>11, <2>1, <2>2
  <2>3. CASE i # q
    <3>0. i < q + 1 <=> i < q
      BY <1>6, <1>8, <2>3
    <3>1. (i < q + 1 <=> i < q) /\ s[i] # s[q]
      BY <1>10, <2>3, <3>0
    <3> QED
      BY <1>7, <1>11, <2>1, <3>1
  <2> QED
    BY <2>2, <2>3
<1>13. next'[HeadOf(l)] = T[1] /\ prev'[TailOf(l)] = P[Len(s) + 1]
  BY <1>6, <1>7, <1>9, <1>11
<1>14. Turning(l, s, q + 1)'
  BY <1>3, <1>12, <1>13 DEF Turning
<1>15. PICK D : D = {s[q]}
  OBVIOUS
<1>16. \A m \in Lists \ {l} : Interior(m)' = content[m]
  <2>1. \A n \in Nodes \ D : next'[n] = next[n]
    BY <1>11, <1>15
  <2>2. ASSUME NEW m \in Lists \ {l}
        PROVE  HeadOf(m) \notin D /\ \A i \in DOMAIN content[m] : content[m][i] \notin D
    <3>1. HeadOf(m) \notin Elems
      BY NodeFacts
    <3>2. \A i \in DOMAIN content[m] : content[m][i] # s[q]
      <4>1. Apart(s, content[m])
        BY <1>4, Zenon
      <4>2. q \in DOMAIN s
        BY <1>6, <1>8, SMTT(40)
      <4> QED
        BY <4>1, <4>2, Zenon DEF Apart
    <3> QED
      BY <1>9, <1>15, <3>1, <3>2
  <2> QED
    BY <1>1, <1>2, <1>4, <2>1, <2>2, ElsewhereStays
<1>17. Others({l})' /\ \A m \in Lists \ {l} : Apart(s, content'[m])
  BY <1>4, <1>16 DEF Others
<1>18. at'.e = Append(s, TailOf(l))[q + 1] /\ q + 1 \in 1 .. Len(s) + 1
  BY <1>3, <1>8, <1>9
<1>19. s' = s
  OBVIOUS
<1> QED
  BY <1>4, <1>14, <1>17, <1>18, <1>19 DEF ReversedSoFar

LEMMA ReverseReturns ==
  ASSUME IInv, IInv', content' = Contents', content \in [Lists -> Seq(Elems)], NEW l \in Lists, at.list = l,
         ReversedSoFar(l, content[l]), ReverseEnd
  PROVE  Abstract!ReverseList(l)
<1>1. /\ pc = "reverse" /\ pc' = "idle" /\ at.e = TailOf(l) /\ next \in Links /\ prev \in Links
      /\ next' = [next EXCEPT ![HeadOf(l)] = prev[TailOf(l)], ![next[HeadOf(l)]] = prev[prev[TailOf(l)]]]
  BY DEF ReverseEnd, Return, end, list_end, IInv, Typed, Links
<1>2. PICK s : s = content[l]
  OBVIOUS
<1>3. PICK P, T : P = <<HeadOf(l)>> \o s /\ T = Append(s, TailOf(l))
  OBVIOUS
<1>4. s \in Seq(Elems) /\ Len(s) # 0 /\ Distinct(s) /\ Others({l}) /\ \A m \in Lists \ {l} : Apart(s, content[m])
  BY <1>2 DEF ReversedSoFar
<1>5. PICK q \in 1 .. Len(s) + 1 : at.e = T[q] /\ Turning(l, s, q)
  BY <1>2, <1>3 DEF ReversedSoFar
<1>6. /\ Len(s) \in Nat /\ DOMAIN s = 1 .. Len(s) /\ \A i \in 1 .. Len(s) : s[i] \in Elems
      /\ \A i \in 1 .. Len(s) + 1 : P[i] = IF i = 1 THEN HeadOf(l) ELSE s[i - 1]
      /\ \A i \in 1 .. Len(s) + 1 : T[i] = IF i = Len(s) + 1 THEN TailOf(l) ELSE s[i]
      /\ Elems \subseteq Nodes /\ HeadOf(l) \in Nodes /\ TailOf(l) \in Nodes
      /\ HeadOf(l) \notin Elems /\ TailOf(l) \notin Elems /\ HeadOf(l) # TailOf(l)
  <2>1. Facing(l, s, P, T)
    BY <1>3, <1>4, FacingFacts, Zenon
  <2> QED
    BY <2>1 DEF Facing
<1>7. q = Len(s) + 1
  BY <1>1, <1>5, <1>6
<1>8. PICK n \in Nat : n = Len(s) /\ n # 0 /\ 1 \in 1 .. n /\ n \in 1 .. n
  <2>1. Len(s) \in Nat /\ Len(s) # 0
    BY <1>4, <1>6
  <2>2. 1 \in 1 .. Len(s) /\ Len(s) \in 1 .. Len(s)
    BY <2>1
  <2> QED
    BY <2>1, <2>2
<1>9. /\ \A i \in 1 .. n : i < q /\ next[s[i]] = P[i] /\ prev[s[i]] = T[i + 1]
      /\ next[HeadOf(l)] = s[1] /\ prev[TailOf(l)] = s[n] /\ prev[s[n]] = TailOf(l)
  <2>1. \A i \in 1 .. n : i < q
    BY <1>7, <1>8
  <2>2. /\ \A i \in 1 .. n : next[s[i]] = P[i] /\ prev[s[i]] = T[i + 1]
        /\ next[HeadOf(l)] = T[1] /\ prev[TailOf(l)] = P[n + 1]
    BY <1>3, <1>5, <1>8, <2>1 DEF Turning
  <2>3. 1 # n + 1 /\ 1 \in 1 .. n + 1 /\ n + 1 \in 1 .. n + 1 /\ n + 1 # 1 /\ (n + 1) - 1 = n
    BY <1>8
  <2>4. T[1] = s[1] /\ P[n + 1] = s[n] /\ T[n + 1] = TailOf(l)
    BY <1>6, <1>8, <2>3
  <2> QED
    BY <1>8, <2>1, <2>2, <2>4
<1>10. \A x \in Nodes : next'[x] = IF x = s[1] THEN TailOf(l) ELSE IF x = HeadOf(l) THEN s[n] ELSE next[x]
  BY <1>1, <1>6, <1>8, <1>9 DEF Links
<1>11. PICK t : t = Abstract!Reverse(s) /\ t = [i \in 1 .. n |-> s[n - i + 1]]
  BY <1>8 DEF Abstract!Reverse
<1>12. t \in Seq(Elems) /\ Len(t) = n /\ DOMAIN t = 1 .. n /\ \A i \in 1 .. n : n - i + 1 \in 1 .. n /\ t[i] = s[n - i + 1]
  <2>1. \A i \in 1 .. n : n - i + 1 \in 1 .. n
    BY <1>8
  <2>2. t \in [1 .. n -> Elems]
    BY <1>6, <1>8, <1>11, <2>1
  <2> QED
    BY <1>8, <1>11, <2>1, <2>2
<1>13. PICK R : R = <<HeadOf(l)>> \o t
  OBVIOUS
<1>14. /\ R \in Seq(Nodes) /\ Len(R) = n + 1 /\ DOMAIN R = 1 .. n + 1
       /\ \A i \in 1 .. n + 1 : R[i] = IF i = 1 THEN HeadOf(l) ELSE t[i - 1]
  BY <1>12, <1>13, WithEnds
<1>15. ASSUME NEW i \in 1 .. n + 1
       PROVE  next'[R[i]] = IF i = n + 1 THEN TailOf(l) ELSE R[i + 1]
  <2>1. CASE i = 1
    <3>1. next'[R[1]] = s[n]
      BY <1>6, <1>8, <1>10, <1>14, <2>1
    <3>2. i # n + 1 /\ i + 1 \in 1 .. n + 1 /\ i + 1 # 1 /\ (i + 1) - 1 = 1 /\ 1 \in 1 .. n /\ n - 1 + 1 = n
      BY <1>8, <2>1
    <3>3. R[i + 1] = s[n]
      BY <1>12, <1>14, <3>2
    <3> QED
      BY <2>1, <3>1, <3>2, <3>3
  <2>2. CASE i # 1
    <3>1. PICK k \in 1 .. n : k = n - (i - 1) + 1 /\ R[i] = s[k] /\ i - 1 \in 1 .. n
      <4>1. i - 1 \in 1 .. n
        BY <1>8, <2>2
      <4> QED
        BY <1>12, <1>14, <2>2, <4>1
    <3>2. s[k] \in Nodes /\ s[k] # HeadOf(l) /\ (s[k] = s[1] <=> k = 1)
      BY <1>4, <1>6, <1>8, SMTT(40) DEF Distinct
    <3>3. CASE k = 1
      <4>1. i = n + 1
        BY <1>8, <3>1, <3>3
      <4> QED
        BY <1>10, <3>1, <3>2, <3>3, <4>1
    <3>4. CASE k # 1
      <4>1. /\ i # n + 1 /\ i + 1 \in 1 .. n + 1 /\ i + 1 # 1 /\ (i + 1) - 1 = i /\ i \in 1 .. n
            /\ n - i + 1 = k - 1 /\ k \in 1 .. n + 1
        BY <1>8, <3>1, <3>4
      <4>2. R[i + 1] = s[k - 1]
        BY <1>12, <1>14, <4>1
      <4>3. next'[s[k]] = P[k]
        BY <1>9, <1>10, <3>2, <3>4
      <4>4. P[k] = s[k - 1]
        BY <1>6, <1>8, <3>4, <4>1
      <4> QED
        BY <3>1, <4>1, <4>2, <4>3, <4>4
    <3> QED
      BY <3>3, <3>4
  <2> QED
    BY <2>1, <2>2
<1>16. Path(next', R, TailOf(l))
  BY <1>14, <1>15 DEF Path
<1>17. Interior(l)' = t
  BY <1>1, <1>12, <1>13, <1>16, RowIs
<1>18. PICK D : D = {HeadOf(l), s[1]}
  OBVIOUS
<1>19. \A m \in Lists \ {l} : Interior(m)' = content[m]
  <2>1. \A x \in Nodes \ D : next'[x] = next[x]
    BY <1>10, <1>18
  <2>2. ASSUME NEW m \in Lists \ {l}
        PROVE  HeadOf(m) \notin D /\ \A i \in DOMAIN content[m] : content[m][i] \notin D
    <3>1. HeadOf(m) # HeadOf(l) /\ HeadOf(m) \notin Elems
      BY NodeFacts
    <3>3. \A i \in DOMAIN content[m] : content[m][i] \in Elems
      <4>1. content[m] \in Seq(Elems)
        OBVIOUS
      <4> QED
        BY <4>1
    <3>4. s[1] \in Elems
      <4>1. 1 \in 1 .. Len(s) /\ \A i \in 1 .. Len(s) : s[i] \in Elems
        BY <1>6, <1>8, Zenon
      <4> QED
        BY <4>1, SMT
    <3>2. s[1] \in Elems /\ \A i \in DOMAIN content[m] : content[m][i] # s[1]
      <4>1. Apart(s, content[m])
        BY <1>4
      <4>2. 1 \in DOMAIN s
        BY <1>6, <1>8, Zenon
      <4> QED
        BY <3>4, <4>1, <4>2 DEF Apart
    <3> QED
      BY <1>6, <1>18, <3>1, <3>2, <3>3
  <2> QED
    BY <1>1, <1>4, <2>1, <2>2, ElsewhereStays
<1>20. content' = [content EXCEPT ![l] = t]
  BY <1>17, <1>19, Becomes
<1> QED
  BY <1>2, <1>11, <1>20 DEF Abstract!ReverseList

----------------------------------------------------------------------------
(* The order of the elements of a sequence                                  *)

Has(s, x) == \E i \in DOMAIN s : s[i] = x

(* What is in s \o t, and in which order.                                   *)
Holds(s, t, u) ==
  /\ \A x : Has(u, x) <=> Has(s, x) \/ Has(t, x)
  /\ \A x, y : Abstract!Before(u, x, y) <=>
       Abstract!Before(s, x, y) \/ Abstract!Before(t, x, y) \/ (Has(s, x) /\ Has(t, y))

LEMMA HoldsJoined ==
  ASSUME NEW S, NEW s \in Seq(S), NEW t \in Seq(S)
  PROVE  Holds(s, t, s \o t)
<1> DEFINE Parts(u, n, k) ==
        /\ u = s \o t /\ DOMAIN u = 1 .. n + k /\ DOMAIN s = 1 .. n /\ DOMAIN t = 1 .. k
        /\ \A i \in 1 .. n : u[i] = s[i]
        /\ \A i \in 1 .. k : u[n + i] = t[i]
<1>0. Parts(s \o t, Len(s), Len(t)) /\ Len(s) \in Nat /\ Len(t) \in Nat
  BY Joined
<1>7. \E n \in Nat : \E k \in Nat : \E u : Parts(u, n, k)
  <2> HIDE DEF Parts
  <2> QED
    BY <1>0, Zenon
<1>8. PICK n \in Nat : \E k \in Nat : \E u : Parts(u, n, k)
  BY <1>7, Zenon
<1>9. PICK k \in Nat : \E u : Parts(u, n, k)
  BY <1>8, Zenon
<1>1. PICK u : Parts(u, n, k)
  BY <1>9, Zenon
<1>2. \A i \in 1 .. n + k : i \in 1 .. n \/ (i - n \in 1 .. k /\ n + (i - n) = i)
  OBVIOUS
<1>3. \A i \in 1 .. n : i \in 1 .. n + k
  OBVIOUS
<1>4. \A i \in 1 .. k : n + i \in 1 .. n + k
  OBVIOUS
<1>5. ASSUME NEW x
      PROVE  Has(u, x) <=> Has(s, x) \/ Has(t, x)
  <2>1. Has(u, x) => Has(s, x) \/ Has(t, x)
    BY <1>1, <1>2 DEF Has
  <2>2. Has(s, x) => Has(u, x)
    BY <1>1, <1>3 DEF Has
  <2>3. Has(t, x) => Has(u, x)
    BY <1>1, <1>4 DEF Has
  <2> QED
    BY <2>1, <2>2, <2>3
<1>6. ASSUME NEW x, NEW y
      PROVE  Abstract!Before(u, x, y) <=>
               Abstract!Before(s, x, y) \/ Abstract!Before(t, x, y) \/ (Has(s, x) /\ Has(t, y))
  <2>1. ASSUME Abstract!Before(u, x, y)
        PROVE  Abstract!Before(s, x, y) \/ Abstract!Before(t, x, y) \/ (Has(s, x) /\ Has(t, y))
    <3>1. PICK i \in 1 .. n + k, j \in 1 .. n + k : i < j /\ u[i] = x /\ u[j] = y
      BY <1>1, <2>1 DEF Abstract!Before
    <3>2. CASE j \in 1 .. n
      <4>1. i \in 1 .. n
        BY <3>1, <3>2
      <4> QED
        BY <1>1, <3>1, <3>2, <4>1 DEF Abstract!Before
    <3>3. CASE i \in 1 .. n /\ j \notin 1 .. n
      <4>1. j - n \in 1 .. k /\ n + (j - n) = j
        BY <1>2, <3>3
      <4>2. s[i] = x /\ t[j - n] = y
        BY <1>1, <3>1, <3>3, <4>1
      <4> QED
        BY <1>1, <3>3, <4>1, <4>2 DEF Has
    <3>4. CASE i \notin 1 .. n
      <4>1. i - n \in 1 .. k /\ n + (i - n) = i /\ j - n \in 1 .. k /\ n + (j - n) = j /\ i - n < j - n
        BY <3>1, <3>4
      <4>2. t[i - n] = x /\ t[j - n] = y
        BY <1>1, <3>1, <4>1
      <4> QED
        BY <1>1, <4>1, <4>2 DEF Abstract!Before
    <3> QED
      BY <3>2, <3>3, <3>4
  <2>2. ASSUME Abstract!Before(s, x, y)
        PROVE  Abstract!Before(u, x, y)
    BY <1>1, <1>3, <2>2 DEF Abstract!Before
  <2>3. ASSUME Abstract!Before(t, x, y)
        PROVE  Abstract!Before(u, x, y)
    <3>1. PICK i \in 1 .. k, j \in 1 .. k : i < j /\ t[i] = x /\ t[j] = y
      BY <1>1, <2>3 DEF Abstract!Before
    <3>2. n + i \in 1 .. n + k /\ n + j \in 1 .. n + k /\ n + i < n + j
      BY <3>1
    <3> QED
      BY <1>1, <3>1, <3>2 DEF Abstract!Before
  <2>4. ASSUME Has(s, x), Has(t, y)
        PROVE  Abstract!Before(u, x, y)
    <3>1. PICK i \in 1 .. n, j \in 1 .. k : s[i] = x /\ t[j] = y
      BY <1>1, <2>4 DEF Has
    <3>2. i \in 1 .. n + k /\ n + j \in 1 .. n + k /\ i < n + j
      BY <3>1
    <3> QED
      BY <1>1, <3>1, <3>2 DEF Abstract!Before
  <2> QED
    BY <2>1, <2>2, <2>3, <2>4
<1> QED
  BY <1>1, <1>5, <1>6 DEF Holds

LEMMA HoldsOne ==
  ASSUME NEW e
  PROVE  /\ \A x : Has(<<e>>, x) <=> x = e
         /\ \A x, y : ~ Abstract!Before(<<e>>, x, y)
<1>1. DOMAIN <<e>> = {1} /\ <<e>>[1] = e
  OBVIOUS
<1>2. PICK s : s = <<e>>
  OBVIOUS
<1>3. \A i, j \in {1} : ~ (i < j)
  OBVIOUS
<1> QED
  BY <1>1, <1>2, <1>3 DEF Has, Abstract!Before

LEMMA HoldsNone ==
  /\ \A x : ~ Has(<<>>, x)
  /\ \A x, y : ~ Abstract!Before(<<>>, x, y)
BY DEF Has, Abstract!Before

(* Of two elements of a sequence one is in front.                           *)
LEMMA BeforeHas ==
  ASSUME NEW S, NEW s \in Seq(S), NEW x, NEW y
  PROVE  /\ Abstract!Before(s, x, y) => Has(s, x) /\ Has(s, y) /\ x \in S /\ y \in S
         /\ Has(s, x) => x \in S
<1>1. \A i \in DOMAIN s : s[i] \in S
  OBVIOUS
<1> QED
  BY <1>1 DEF Has, Abstract!Before

(* A sequence without repetitions is one that SetToSeqs returns.            *)
LEMMA SeqOfSet ==
  ASSUME NEW t \in Seq(Elems), Distinct(t), NEW S, \A x : x \in S <=> Has(t, x)
  PROVE  t \in Abstract!SetToSeqs(S)
<1>1. PICK n \in Nat : n = Len(t) /\ DOMAIN t = 1 .. n
  OBVIOUS
<1>2. t \in [1 .. n -> S]
  BY <1>1 DEF Has
<1>3. \A i, j \in 1 .. n : i # j => t[i] # t[j]
  BY <1>1 DEF Distinct
<1>4. t \in Bijection(1 .. n, S)
  <2>1. \A x \in S : \E i \in 1 .. n : t[i] = x
    BY <1>1 DEF Has
  <2> QED
    BY <1>2, <1>3, <2>1 DEF Bijection, Injection, Surjection, IsInjective
<1>5. Cardinality(S) = n
  <2>1. IsFiniteSet(1 .. n) /\ Cardinality(1 .. n) = n
    BY FS_Interval
  <2>2. ExistsBijection(1 .. n, S)
    BY <1>4 DEF ExistsBijection
  <2> QED
    BY <2>1, <2>2, FS_Bijection
<1>7. Abstract!Cardinality(S) = Cardinality(S)
  BY Zenon DEF Abstract!Cardinality, Cardinality
<1>6. Abstract!SetToSeqs(S)
      = { f \in [1 .. Cardinality(S) -> S] :
            \A i, j \in 1 .. Cardinality(S) : i # j => f[i] # f[j] }
  BY <1>7, Zenon DEF Abstract!SetToSeqs
<1> QED
  BY <1>2, <1>3, <1>5, <1>6, Zenon
----------------------------------------------------------------------------
(* What is_sorted tells                                                     *)

(* No element has a smaller key than one in front of it.                    *)
Ascending(s) == \A x, y : Abstract!Before(s, x, y) => Key[x] <= Key[y]

LEMMA DistinctLen ==
  ASSUME NEW s \in Seq(Elems), Distinct(s)
  PROVE  Len(s) <= Cardinality(Elems)
<1>1. PICK n \in Nat : n = Len(s) /\ DOMAIN s = 1 .. n
  OBVIOUS
<1>2. s \in [1 .. n -> Elems]
  BY <1>1
<1>3. s \in Injection(1 .. n, Elems)
  BY <1>1, <1>2 DEF Distinct, Injection, IsInjective
<1>4. Cardinality(1 .. n) <= Cardinality(Elems)
  BY <1>3, ListAssumption, FS_Injection
<1>5. Cardinality(1 .. n) = n
  BY FS_Interval
<1> QED
  BY <1>1, <1>4, <1>5

(* Neighbours in order are enough.                                          *)
LEMMA AscendingSteps ==
  ASSUME NEW s \in Seq(Elems), \A i \in 1 .. Len(s) - 1 : Key[s[i]] <= Key[s[i + 1]]
  PROVE  Ascending(s)
<1>1. PICK n \in Nat : n = Len(s) /\ DOMAIN s = 1 .. n
  OBVIOUS
<1>2. \A i \in 1 .. n : Key[s[i]] \in Nat
  BY <1>1, ListAssumption
<1>3. ASSUME NEW i \in 1 .. n, NEW j \in 1 .. n, i < j
      PROVE  Key[s[i]] <= Key[s[j]]
  <2>1. PICK S : S = { d \in 0 .. n - i : Key[s[i]] <= Key[s[i + d]] }
    OBVIOUS
  <2>2. 0 \in S
    <3>1. i + 0 = i /\ 0 \in 0 .. n - i
      OBVIOUS
    <3> QED
      BY <1>2, <2>1, <3>1
  <2>3. ASSUME NEW d \in 0 .. (n - i) - 1, d \in S
        PROVE  d + 1 \in S
    <3>1. i + d \in 1 .. n - 1 /\ i + d \in 1 .. n /\ i + (d + 1) = (i + d) + 1 /\ (i + d) + 1 \in 1 .. n
          /\ d + 1 \in 0 .. n - i
      OBVIOUS
    <3>2. Key[s[i + d]] <= Key[s[(i + d) + 1]] /\ Key[s[i]] <= Key[s[i + d]]
      BY <1>1, <2>1, <2>3, <3>1
    <3>3. Key[s[i]] <= Key[s[(i + d) + 1]]
      <4>1. Key[s[i]] \in Nat /\ Key[s[i + d]] \in Nat /\ Key[s[(i + d) + 1]] \in Nat
        BY <1>2, <3>1, Zenon
      <4>2. PICK a \in Nat, b \in Nat, c \in Nat : a = Key[s[i]] /\ b = Key[s[i + d]] /\ c = Key[s[(i + d) + 1]]
        BY <4>1, Zenon
      <4>3. a <= b /\ b <= c
        BY <3>2, <4>2, Zenon
      <4>4. a <= c
        BY <4>3
      <4> QED
        BY <4>2, <4>4, Zenon
    <3> QED
      BY <2>1, <3>1, <3>3
  <2>4. n - i \in Nat /\ j - i \in 0 .. n - i /\ i + (j - i) = j
    BY <1>3
  <2>5. 0 .. n - i \subseteq S
    BY <2>2, <2>3, <2>4, UpTo
  <2> QED
    BY <2>1, <2>4, <2>5
<1> QED
  BY <1>1, <1>3 DEF Ascending, Abstract!Before

LEMMA SortedIs ==
  ASSUME NEW a, NEW s, NEW b, Passes(a, s, b), \A i \in 2 .. Len(s) : prev[s[i]] = s[i - 1],
         is_sorted(a, b)
  PROVE  Ascending(s)
<1>1. PICK C \in Nat : C = Cardinality(Elems)
  BY ListAssumption, FS_CardinalityType
<1>2. PICK n \in Nat : n = Len(s) /\ DOMAIN s = 1 .. n /\ n <= C
  BY <1>1 DEF Passes
<1>3. s \in Seq(Elems) /\ \A i \in 1 .. n : s[i] # b
  BY <1>2 DEF Passes
<1>4. PICK e : e = Visits(a, b) /\ DOMAIN e = 0 .. C /\ Visited(e, C, s, b)
  BY <1>1, VisitsAre, Zenon
<1>5. \A k \in DOMAIN e \ {0} : e[k] # b => ~ Less(e[k], prev[e[k]])
  BY <1>4, Zenon DEF is_sorted
<1>6. ASSUME NEW i \in 1 .. n - 1
      PROVE  Key[s[i]] <= Key[s[i + 1]]
  <2>1. i \in 0 .. C /\ i # 0 /\ i < n /\ i + 1 \in 1 .. n /\ i + 1 \in 2 .. n /\ (i + 1) - 1 = i
    BY <1>2
  <2>2. e[i] = s[i + 1]
    BY <1>2, <1>4, <2>1, Zenon DEF Visited
  <2>3. prev[s[i + 1]] = s[i]
    BY <1>2, <2>1, Zenon
  <2>4. ~ (Key[s[i + 1]] < Key[s[i]])
    BY <1>3, <1>4, <1>5, <2>1, <2>2, <2>3 DEF Less
  <2>5. Key[s[i]] \in Nat /\ Key[s[i + 1]] \in Nat
    BY <1>2, <1>3, <2>1, ListAssumption
  <2> QED
    BY <2>4, <2>5
<1> QED
  BY <1>2, <1>3, <1>6, AscendingSteps

(* A piece of a list as a loop goes along it.                               *)
LEMMA PiecePasses ==
  ASSUME IInv, pc # "reverse", NEW l \in Lists,
         NEW A \in Seq(Elems), NEW Y \in Seq(Elems), NEW B \in Seq(Elems),
         Interior(l) = A \o (Y \o B), Len(Y) # 0
  PROVE  /\ Passes(Y[1], Y, First(B, TailOf(l)))
         /\ \A i \in 2 .. Len(Y) : prev[Y[i]] = Y[i - 1]
<1>1. Row(l, A \o (Y \o B))
  BY RowsHold DEF Rows
<1>2. RowParts(l, A, Y, B)
  BY <1>1, RowCutTwice, Zenon
<1>3. PICK b : b = First(B, TailOf(l))
  OBVIOUS
<1>4. PICK n \in Nat : n = Len(Y) /\ DOMAIN Y = 1 .. n
  OBVIOUS
<1>5. Len(Y) <= Cardinality(Elems)
  BY <1>2, DistinctLen DEF RowParts
<1>6. \A i \in 1 .. n : Y[i] # b
  <2>1. CASE Len(B) = 0
    <3>1. b = TailOf(l)
      BY <1>3, <2>1 DEF First
    <3> QED
      BY <1>4, <3>1, NodeFacts
  <2>2. CASE Len(B) # 0
    <3>1. b = B[1] /\ 1 \in DOMAIN B
      BY <1>3, <2>2 DEF First
    <3>2. Apart(Y, B)
      BY <1>2 DEF RowParts
    <3> QED
      BY <1>4, <3>1, <3>2 DEF Apart
  <2> QED
    BY <2>1, <2>2
<1>7. Passes(Y[1], Y, b)
  <2>1. Path(next, Y, b) /\ b \in Nodes
    BY <1>2, <1>3 DEF RowParts
  <2> QED
    BY <1>4, <1>5, <1>6, <2>1 DEF Passes, Path
<1>8. \A i \in 2 .. Len(Y) : prev[Y[i]] = Y[i - 1]
  <2>1. PICK Z \in Seq(Elems) : Z = Y \o B
    <3>1. Y \o B \in Seq(Elems)
      BY Joined, Zenon
    <3> QED
      BY <3>1, Zenon
  <2>2. PICK s \in Seq(Elems) : s = A \o Z
    <3>1. A \o Z \in Seq(Elems)
      BY Joined, Zenon
    <3> QED
      BY <3>1, Zenon
  <2>3. PICK k \in Nat : k = Len(A)
    OBVIOUS
  <2>4. PICK m \in Nat : m = Len(B)
    OBVIOUS
  <2>5. Len(Z) = n + m /\ \A i \in 1 .. n : Z[i] = Y[i]
    BY <1>4, <2>1, <2>4, Joined
  <2>6. Len(s) = k + (n + m) /\ \A i \in 1 .. n + m : s[k + i] = Z[i]
    <3>1. Len(A \o Z) = Len(A) + Len(Z) /\ \A i \in 1 .. Len(Z) : (A \o Z)[Len(A) + i] = Z[i]
      BY Joined
    <3> QED
      BY <2>2, <2>3, <2>5, <3>1
  <2>7. \A i \in 1 .. n : s[k + i] = Y[i]
    <3>1. \A i \in 1 .. n : i \in 1 .. n + m
      OBVIOUS
    <3> QED
      BY <2>5, <2>6, <3>1
  <2>8. \A i \in 1 .. Len(s) + 1 : prev[Append(s, TailOf(l))[i]] = (<<HeadOf(l)>> \o s)[i]
    BY <1>1, <2>1, <2>2 DEF Row
  <2>9. ASSUME NEW i \in 2 .. n
        PROVE  prev[Y[i]] = Y[i - 1]
    <3>1. /\ k + i \in 1 .. Len(s) + 1 /\ k + i # Len(s) + 1 /\ k + i # 1
          /\ k + (i - 1) = (k + i) - 1 /\ i \in 1 .. n /\ i - 1 \in 1 .. n
      BY <2>6
    <3>2. Append(s, TailOf(l))[k + i] = s[k + i] /\ (<<HeadOf(l)>> \o s)[k + i] = s[(k + i) - 1]
      BY <3>1, WithEnds
    <3>3. prev[s[k + i]] = s[k + (i - 1)]
      BY <2>8, <3>1, <3>2
    <3> QED
      BY <2>7, <3>1, <3>3
  <2> QED
    BY <1>4, <2>9
<1> QED
  BY <1>3, <1>7, <1>8

(* is_sorted of a piece of a list says that it is in order.                 *)
LEMMA PieceSorted ==
  ASSUME IInv, pc # "reverse", NEW l \in Lists,
         NEW A \in Seq(Elems), NEW Y \in Seq(Elems), NEW B \in Seq(Elems),
         Interior(l) = A \o (Y \o B),
         is_sorted(First(Y, First(B, TailOf(l))), First(B, TailOf(l)))
  PROVE  Ascending(Y)
<1>1. CASE Len(Y) = 0
  <2>1. Y = <<>>
    BY <1>1
  <2> QED
    BY <2>1, HoldsNone DEF Ascending
<1>2. CASE Len(Y) # 0
  <2>1. PICK b : b = First(B, TailOf(l))
    OBVIOUS
  <2>2. Passes(Y[1], Y, b) /\ \A i \in 2 .. Len(Y) : prev[Y[i]] = Y[i - 1]
    BY <1>2, <2>1, PiecePasses, Zenon
  <2>3. First(Y, b) = Y[1]
    BY <1>2 DEF First
  <2>4. is_sorted(Y[1], b)
    BY <2>1, <2>3, Zenon
  <2> QED
    BY <2>2, <2>4, SortedIs
<1> QED
  BY <1>1, <1>2

----------------------------------------------------------------------------
(* list_insert_ordered                                                      *)

(* Between two pieces of a list.                                            *)
LEMMA InsertPiece ==
  ASSUME IInv, IInv', pc # "reverse", pc' # "reverse", NEW l \in Lists, NEW e \in Elems,
         \A m \in Lists : ~ Has(Interior(m), e),
         NEW U \in Seq(Elems), NEW V \in Seq(Elems), Interior(l) = U \o V,
         list_insert(First(V, TailOf(l)), e)
  PROVE  Rearranged(l, U \o (<<e>> \o V))
<1>1. PICK s \in Seq(Elems) : s = U \o V
  <2>1. U \o V \in Seq(Elems)
    BY Joined, Zenon
  <2> QED
    BY <2>1, Zenon
<1>2. PICK n \in Nat : n = Len(U)
  OBVIOUS
<1>3. PICK k \in Nat : k = Len(V) /\ DOMAIN V = 1 .. k
  OBVIOUS
<1>4. Len(s) = n + k /\ \A i \in 1 .. k : s[n + i] = V[i]
  <2>1. Len(U \o V) = Len(U) + Len(V) /\ \A i \in 1 .. Len(V) : (U \o V)[Len(U) + i] = V[i]
    BY Joined
  <2> QED
    BY <1>1, <1>2, <1>3, <2>1
<1>5. PICK p \in Nat : p = n + 1 /\ p \in 1 .. Len(s) + 1 /\ p - 1 = n
  <2>1. n + 1 \in Nat /\ n + 1 \in 1 .. (n + k) + 1 /\ (n + 1) - 1 = n
    OBVIOUS
  <2> QED
    BY <1>4, <2>1, Zenon
<1>6. Append(s, TailOf(l))[p] = First(V, TailOf(l))
  <2>1. Append(s, TailOf(l))[p] = IF p = Len(s) + 1 THEN TailOf(l) ELSE s[p]
    BY <1>5, WithEnds
  <2>2. CASE k = 0
    <3>1. p = Len(s) + 1
      BY <1>4, <1>5, <2>2
    <3> QED
      BY <1>3, <2>1, <2>2, <3>1, Zenon DEF First
  <2>3. CASE k # 0
    <3>1. p # Len(s) + 1 /\ 1 \in 1 .. k
      BY <1>4, <1>5, <2>3
    <3>2. s[p] = V[1]
      BY <1>4, <1>5, <3>1, Zenon
    <3> QED
      BY <1>3, <2>1, <2>3, <3>1, <3>2, Zenon DEF First
  <2> QED
    BY <2>2, <2>3
<1>7. SubSeq(s, 1, n) = U /\ SubSeq(s, p, Len(s)) = V
  <2>1. SubSeq(U \o V, 1, Len(U)) = U
    <3>1. SubSeq(U \o V, 1, Len(U)) = SubSeq(U, 1, Len(U))
      BY SubSeqOfConcat1
    <3>2. SubSeq(U, 1, Len(U)) = U
      BY SubSeqFull
    <3> QED
      BY <3>1, <3>2
  <2>2. SubSeq(U \o V, Len(U) + 1, Len(U) + Len(V)) = V
    <3>1. SubSeq(U \o V, Len(U) + 1, Len(U) + Len(V)) = SubSeq(V, 1, Len(V))
      BY <1>2, <1>3, SubSeqOfConcat2
    <3>2. SubSeq(V, 1, Len(V)) = V
      BY SubSeqFull
    <3> QED
      BY <3>1, <3>2
  <2> QED
    BY <1>1, <1>2, <1>3, <1>4, <1>5, <2>1, <2>2, Zenon
<1>8. s = Interior(l) /\ \A m \in Lists : \A i \in DOMAIN Interior(m) : Interior(m)[i] # e
  BY <1>1, Zenon DEF Has
<1>9. /\ Interior(l)' = Abstract!InsertAt(s, p, e)
      /\ \A m \in Lists \ {l} : Interior(m)' = Interior(m)
  <2>1. list_insert(Append(Interior(l), TailOf(l))[p], e) /\ p \in 1 .. Len(Interior(l)) + 1
    BY <1>5, <1>6, <1>8, Zenon
  <2>2. /\ Interior(l)' = Abstract!InsertAt(Interior(l), p, e)
        /\ \A m \in Lists \ {l} : Interior(m)' = Interior(m)
    BY <1>8, <2>1, InsertRow
  <2> QED
    BY <1>8, <2>2, Zenon
<1>10. Abstract!InsertAt(s, p, e) = U \o (<<e>> \o V)
  <2>1. Abstract!InsertAt(s, p, e) = SubSeq(s, 1, p - 1) \o <<e>> \o SubSeq(s, p, Len(s))
    BY Zenon DEF Abstract!InsertAt
  <2>2. <<e>> \in Seq(Elems)
    OBVIOUS
  <2>3. (U \o <<e>>) \o V = U \o (<<e>> \o V)
    BY <2>2, Grouped
  <2> QED
    BY <1>5, <1>7, <2>1, <2>3, Zenon
<1> QED
  BY <1>9, <1>10, Zenon DEF Rearranged

(* What a loop holds and is in no list.                                     *)
LEMMA ElemNowhere ==
  ASSUME IInv, pc \in {"ordered", "duplicate"}
  PROVE  at.elem \in Elems /\ \A m \in Lists : ~ Has(Interior(m), at.elem)
<1>1. pc # "reverse"
  OBVIOUS
<1>2. PICK owner \in [Nodes -> Lists \cup {NULL}], rank \in [Nodes -> Int] :
        Ordered(owner, rank) /\ Locals(owner, rank)
  BY <1>1, PlainOrder
<1>3. at.elem \in Elems /\ owner[at.elem] = NULL /\ NULL \notin Lists /\ Typed
  BY <1>2, NodeFacts DEF Locals, IInv
<1>4. ASSUME NEW m \in Lists
      PROVE  ~ Has(Interior(m), at.elem)
  <2>1. ~ In(at.elem, m)
    BY <1>1, <1>2, <1>3, InIsOwner
  <2> QED
    BY <2>1 DEF In, Has
<1> QED
  BY <1>3, <1>4

(* The whole list in one piece, or with a first element.                    *)
LEMMA FromFront ==
  ASSUME NEW S, NEW s \in Seq(S)
  PROVE  /\ <<>> \in Seq(S) /\ <<>> \o s = s /\ s \o <<>> = s
         /\ Len(s) # 0 => \E t \in Seq(S) : s = <<s[1]>> \o t /\ s[1] \in S
<1>1. <<>> \in Seq(S) /\ <<>> \o s = s /\ s \o <<>> = s
  OBVIOUS
<1>2. ASSUME Len(s) # 0
      PROVE  \E t \in Seq(S) : s = <<s[1]>> \o t /\ s[1] \in S
  <2>1. PICK n \in Nat : n = Len(s) /\ DOMAIN s = 1 .. n /\ n # 0
    BY <1>2
  <2>2. PICK t \in Seq(S) : t = Tail(s)
    <3>1. Tail(s) \in Seq(S)
      BY <2>1
    <3> QED
      BY <3>1, Zenon
  <2>3. s[1] \in S /\ <<s[1]>> \in Seq(S)
    BY <2>1
  <2>4. s = <<s[1]>> \o Tail(s)
    BY <2>1
  <2> QED
    BY <2>2, <2>3, <2>4
<1> QED
  BY <1>1, <1>2
(* What lies behind an element of a list.                                   *)
Stands(l, A, e, B) == Interior(l) = A \o (<<e>> \o B)

LEMMA NextOf ==
  ASSUME IInv, pc # "reverse", NEW l \in Lists, NEW A \in Seq(Elems), NEW e \in Elems, NEW B \in Seq(Elems),
         Stands(l, A, e, B)
  PROVE  next[e] = First(B, TailOf(l))
<1>1. PICK Y \in Seq(Elems) : Y = <<e>> /\ Len(Y) # 0 /\ Last(Y) = e
  <2>1. <<e>> \in Seq(Elems) /\ Len(<<e>>) # 0 /\ Last(<<e>>) = e
    BY DEF Last
  <2> QED
    BY <2>1
<1>2. Row(l, A \o (Y \o B))
  <2>1. Row(l, Interior(l))
    BY RowsHold DEF Rows
  <2> QED
    BY <1>1, <2>1, Zenon DEF Stands
<1>3. RowParts(l, A, Y, B)
  BY <1>1, <1>2, RowCutTwice, Zenon
<1> QED
  BY <1>1, <1>3, Zenon DEF RowParts

(* A step that leaves the links alone.                                      *)
LEMMA LinksStay ==
  ASSUME IInv, IInv', pc # "reverse", pc' # "reverse", UNCHANGED <<prev, next>>
  PROVE  \A l \in Lists : Interior(l)' = Interior(l)
BY RowStays

(* The cursor is behind U, where no key is larger than the new one.         *)
OrderedSoFar(l) ==
  /\ Others({}) /\ Ascending(content[l])
  /\ \E U \in Seq(Elems), V \in Seq(Elems) :
       /\ Interior(l) = U \o V /\ at.e = First(V, TailOf(l))
       /\ \A x : Has(U, x) => Key[x] <= Key[at.elem]

LEMMA OrderedBegins ==
  ASSUME IInv, IInv', content' = content, NEW l \in Lists, NEW e, Others({}), list_insert_ordered(l, e)
  PROVE  OrderedSoFar(l)'
<1>1. pc = "idle" /\ pc' = "ordered" /\ at'.e = list_begin(l) /\ UNCHANGED <<prev, next>>
      /\ is_sorted(list_begin(l), list_end(l))
  BY DEF list_insert_ordered, Enter, NoLocals
<1>2. PICK s \in Seq(Elems) : s = Interior(l) /\ list_begin(l) = First(s, TailOf(l))
  <2>1. Interior(l) \in Seq(Elems) /\ list_begin(l) = First(Interior(l), TailOf(l))
    BY <1>1, IdleRow
  <2> QED
    BY <2>1
<1>3. PICK none \in Seq(Elems) : none = <<>> /\ none \o s = s /\ s \o none = s
  <2>1. <<>> \in Seq(Elems) /\ <<>> \o s = s /\ s \o <<>> = s
    BY FromFront
  <2> QED
    BY <2>1, Zenon
<1>4. Ascending(s)
  <2>1. First(none, TailOf(l)) = TailOf(l)
    BY <1>3 DEF First
  <2>2. is_sorted(First(s, First(none, TailOf(l))), First(none, TailOf(l)))
    BY <1>1, <1>2, <2>1, Zenon DEF list_end
  <2>3. Interior(l) = none \o (s \o none)
    BY <1>2, <1>3, Zenon
  <2> QED
    BY <1>1, <2>2, <2>3, PieceSorted
<1>5. \A m \in Lists : Interior(m)' = Interior(m)
  BY <1>1, LinksStay
<1>6. Others({})'
  BY <1>5 DEF Others
<1>7. \A x : Has(none, x) => Key[x] <= Key[at'.elem]
  BY <1>3, HoldsNone
<1>8. Interior(l)' = none \o s /\ at'.e = First(s, TailOf(l)) /\ content'[l] = s
  BY <1>1, <1>2, <1>3, <1>5, Zenon DEF Others
<1> QED
  BY <1>4, <1>6, <1>7, <1>8 DEF OrderedSoFar

(* A piece is empty just where the end is reached.                          *)
LEMMA FirstIs ==
  ASSUME NEW l \in Lists, NEW V \in Seq(Elems)
  PROVE  /\ Len(V) = 0 => First(V, TailOf(l)) = TailOf(l) /\ V = <<>>
         /\ Len(V) # 0 => /\ First(V, TailOf(l)) # TailOf(l) /\ First(V, TailOf(l)) \in Elems
                          /\ \E W \in Seq(Elems) : V = <<First(V, TailOf(l))>> \o W
<1>1. CASE Len(V) = 0
  BY <1>1 DEF First
<1>2. CASE Len(V) # 0
  <2>1. First(V, TailOf(l)) = V[1]
    BY <1>2, Zenon DEF First
  <2>2. V[1] \in Elems /\ \E W \in Seq(Elems) : V = <<V[1]>> \o W
    BY <1>2, FromFront
  <2>3. V[1] # TailOf(l)
    BY <2>2, NodeFacts
  <2> QED
    BY <1>2, <2>1, <2>2, <2>3, Zenon
<1> QED
  BY <1>1, <1>2

LEMMA OrderedGoesOn ==
  ASSUME IInv, IInv', content' = content, NEW l \in Lists, at.list = l, OrderedSoFar(l), OrderedStep
  PROVE  OrderedSoFar(l)'
<1>1. PICK U \in Seq(Elems), V \in Seq(Elems) :
        /\ Interior(l) = U \o V /\ at.e = First(V, TailOf(l))
        /\ \A x : Has(U, x) => Key[x] <= Key[at.elem]
  BY DEF OrderedSoFar
<1>2. pc = "ordered" /\ pc' = "ordered" /\ UNCHANGED <<prev, next>> /\ at.e # TailOf(l)
      /\ ~ (Key[at.elem] < Key[at.e])
  BY DEF OrderedStep, Stay, end, list_end, Less
<1>3. at'.e = next[at.e] /\ at'.elem = at.elem
  BY DEF OrderedStep, Stay, IInv, Typed, LocalsType
<1>4. PICK e \in Elems : e = at.e /\ \E W \in Seq(Elems) : V = <<e>> \o W
  <2>1. at.e \in Elems /\ \E W \in Seq(Elems) : V = <<at.e>> \o W
    BY <1>1, <1>2, FirstIs
  <2> QED
    BY <2>1, Zenon
<1>5. PICK W \in Seq(Elems) : V = <<e>> \o W
  BY <1>4
<1>6. PICK one \in Seq(Elems) : one = <<e>>
  <2>1. <<e>> \in Seq(Elems)
    OBVIOUS
  <2> QED
    BY <2>1
<1>7. next[e] = First(W, TailOf(l))
  <2>1. Stands(l, U, e, W)
    BY <1>1, <1>5, Zenon DEF Stands
  <2>2. pc # "reverse"
    BY <1>2
  <2> QED
    BY <2>1, <2>2, NextOf, Zenon
<1>8. PICK U2 \in Seq(Elems) : U2 = U \o one
  <2>1. U \o one \in Seq(Elems)
    BY Joined
  <2> QED
    BY <2>1, Zenon
<1>9. U2 \o W = U \o V
  BY <1>5, <1>6, <1>8, Grouped
<1>10. ASSUME NEW x, Has(U2, x)
       PROVE  Key[x] <= Key[at.elem]
  <2>1. Has(U, x) \/ x = e
    <3>1. Holds(U, one, U2)
      BY <1>8, HoldsJoined
    <3> QED
      BY <1>6, <1>10, <3>1, HoldsOne DEF Holds
  <2>2. Key[e] <= Key[at.elem]
    <3>1. Key[e] \in Nat /\ Key[at.elem] \in Nat
      BY <1>2, ElemNowhere, ListAssumption
    <3> QED
      BY <1>2, <1>4, <3>1
  <2> QED
    BY <1>1, <2>1, <2>2
<1>11. \A m \in Lists : Interior(m)' = Interior(m)
  BY <1>2, LinksStay
<1>12. Others({})' /\ Ascending(content'[l])
  BY <1>11 DEF Others, OrderedSoFar
<1>13. Interior(l)' = U2 \o W /\ at'.e = First(W, TailOf(l))
  BY <1>1, <1>3, <1>4, <1>7, <1>9, <1>11, Zenon
<1>14. \A x : Has(U2, x) => Key[x] <= Key[at'.elem]
  BY <1>3, <1>10
<1> QED
  BY <1>12, <1>13, <1>14 DEF OrderedSoFar
(* After a step, too, no element is twice in a list.                        *)
LEMMA DistinctNext ==
  ASSUME IInv', pc' # "reverse", NEW l \in Lists, NEW t, Interior(l)' = t
  PROVE  t \in Seq(Elems) /\ Distinct(t)
<1>1. Row(l, Interior(l))'
  BY RowsHoldNext DEF Rows
<1> QED
  BY <1>1 DEF Row

LEMMA InSet ==
  ASSUME NEW s, NEW x
  PROVE  x \in Abstract!ToSet(s) <=> Has(s, x)
BY DEF Has, Abstract!ToSet

(* A list in order, as the specification says it.                           *)
LEMMA SortedOnce ==
  ASSUME NEW s \in Seq(Elems), Ascending(s)
  PROVE  Abstract!Sorted(s, s)
<1>1. ASSUME NEW x, NEW y, Abstract!Before(s, x, y)
      PROVE  Key[x] < Key[y] \/ Key[x] = Key[y]
  <2>1. Key[x] \in Nat /\ Key[y] \in Nat
    BY <1>1, BeforeHas, ListAssumption
  <2>2. Key[x] <= Key[y]
    BY <1>1 DEF Ascending
  <2> QED
    BY <2>1, <2>2
<1> QED
  BY <1>1 DEF Abstract!Sorted

LEMMA OrderedReturns ==
  ASSUME IInv, IInv', content' = Contents', content \in [Lists -> Seq(Elems)], NEW l \in Lists, at.list = l,
         OrderedSoFar(l), OrderedEnd
  PROVE  Abstract!InsertOrdered(l, at.elem)
<1>1. PICK U \in Seq(Elems), V \in Seq(Elems) :
        /\ Interior(l) = U \o V /\ at.e = First(V, TailOf(l))
        /\ \A x : Has(U, x) => Key[x] <= Key[at.elem]
  BY DEF OrderedSoFar
<1>2. pc = "ordered" /\ pc' = "idle" /\ pc # "reverse" /\ pc' # "reverse" /\ list_insert(at.e, at.elem)
      /\ (at.e # TailOf(l) => Key[at.elem] < Key[at.e])
  BY DEF OrderedEnd, Return, end, list_end, Less
<1>3. PICK e \in Elems : e = at.elem /\ \A m \in Lists : ~ Has(Interior(m), e)
  <2>1. at.elem \in Elems /\ \A m \in Lists : ~ Has(Interior(m), at.elem)
    BY <1>2, ElemNowhere
  <2> QED
    BY <2>1
<1>4. PICK one \in Seq(Elems) : one = <<e>>
  <2>1. <<e>> \in Seq(Elems)
    OBVIOUS
  <2> QED
    BY <2>1
<1>5. PICK s \in Seq(Elems) : s = content[l]
  OBVIOUS
<1>6. s = U \o V /\ s = Interior(l) /\ Others({}) /\ Ascending(s)
  BY <1>1, <1>5, Zenon DEF OrderedSoFar, Others
<1>7. PICK F \in Seq(Elems) : F = one \o V
  <2>1. one \o V \in Seq(Elems)
    BY Joined
  <2> QED
    BY <2>1, Zenon
<1>8. PICK t : t = U \o F
  OBVIOUS
<1>9. Rearranged(l, t)
  <2>1. list_insert(First(V, TailOf(l)), e)
    BY <1>1, <1>2, <1>3, Zenon
  <2>2. Rearranged(l, U \o (<<e>> \o V))
    BY <1>1, <1>2, <1>3, <2>1, InsertPiece, Zenon
  <2> QED
    BY <1>4, <1>7, <1>8, <2>2, Zenon
<1>10. content' = [content EXCEPT ![l] = t]
  <2>1. Interior(l)' = t /\ \A m \in Lists \ {l} : Interior(m)' = content[m]
    BY <1>6, <1>9 DEF Rearranged, Others
  <2> QED
    BY <2>1, Becomes
<1>11. t \in Seq(Elems) /\ Distinct(t)
  BY <1>2, <1>9, DistinctNext DEF Rearranged
<1>12. ASSUME NEW y, Has(V, y)
       PROVE  Key[e] < Key[y]
  <2>1. Len(V) # 0
    BY <1>12, FirstIs, HoldsNone
  <2>2. PICK v \in Elems, W \in Seq(Elems) : v = at.e /\ V = <<v>> \o W /\ v # TailOf(l)
    BY <1>1, <2>1, FirstIs
  <2>3. PICK first \in Seq(Elems) : first = <<v>>
    <3>1. <<v>> \in Seq(Elems)
      OBVIOUS
    <3> QED
      BY <3>1
  <2>4. Key[e] < Key[v]
    BY <1>2, <1>3, <2>2
  <2>5. Holds(first, W, V) /\ Holds(U, V, s)
    BY <1>6, <2>2, <2>3, HoldsJoined, Zenon
  <2>6. y = v \/ Has(W, y)
    BY <1>12, <2>3, <2>5, HoldsOne DEF Holds
  <2>7. CASE y = v
    BY <2>4, <2>7
  <2>8. CASE Has(W, y)
    <3>1. Abstract!Before(s, v, y)
      BY <2>3, <2>5, <2>8, HoldsOne DEF Holds
    <3>2. Key[v] <= Key[y]
      BY <1>6, <3>1 DEF Ascending
    <3>3. Key[e] \in Nat /\ Key[v] \in Nat /\ Key[y] \in Nat
      BY <2>8, BeforeHas, ListAssumption
    <3> QED
      BY <2>4, <3>2, <3>3
  <2> QED
    BY <2>6, <2>7, <2>8
<1>13. PICK z : z = Append(s, e) /\ Holds(s, one, z)
  <2>1. Append(s, e) = s \o one
    BY <1>4
  <2> QED
    BY <2>1, HoldsJoined
<1>14. Holds(U, F, t) /\ Holds(one, V, F) /\ Holds(U, V, s)
  BY <1>6, <1>7, <1>8, HoldsJoined, Zenon
<1>15. ASSUME NEW x, NEW y, Abstract!Before(t, x, y)
       PROVE  Key[x] < Key[y] \/ (Key[x] = Key[y] /\ Abstract!Before(z, x, y))
  <2>1. Key[x] \in Nat /\ Key[y] \in Nat
    BY <1>11, <1>15, BeforeHas, ListAssumption
  <2>2. \/ Abstract!Before(s, x, y) \/ (x = e /\ Has(V, y)) \/ (Has(U, x) /\ y = e)
    BY <1>4, <1>14, <1>15, HoldsOne DEF Holds
  <2>3. CASE Abstract!Before(s, x, y)
    <3>1. Key[x] <= Key[y] /\ Abstract!Before(z, x, y)
      BY <1>6, <1>13, <2>3 DEF Ascending, Holds
    <3> QED
      BY <2>1, <3>1
  <2>4. CASE x = e /\ Has(V, y)
    BY <1>12, <2>4
  <2>5. CASE Has(U, x) /\ y = e
    <3>1. Key[x] <= Key[y]
      BY <1>1, <1>3, <2>5
    <3>2. Abstract!Before(z, x, y)
      BY <1>4, <1>13, <1>14, <2>5, HoldsOne DEF Holds
    <3> QED
      BY <2>1, <3>1, <3>2
  <2> QED
    BY <2>2, <2>3, <2>4, <2>5
<1>16. Abstract!Sorted(t, z)
  BY <1>15 DEF Abstract!Sorted
<1>17. t \in Abstract!SetToSeqs(Abstract!ToSet(s) \cup {e})
  <2>1. ASSUME NEW x
        PROVE  x \in Abstract!ToSet(s) \cup {e} <=> Has(t, x)
    <3>1. Has(t, x) <=> Has(U, x) \/ x = e \/ Has(V, x)
      BY <1>4, <1>14, HoldsOne DEF Holds
    <3>2. Has(s, x) <=> Has(U, x) \/ Has(V, x)
      BY <1>14 DEF Holds
    <3> QED
      BY <3>1, <3>2, InSet
  <2> QED
    BY <1>11, <2>1, SeqOfSet
<1>18. e \in Abstract!Outside
  <2>1. e \in Outside
    BY <1>3 DEF Outside, In, Has
  <2> QED
    BY <1>6, <2>1, OutsideIs
<1>19. Abstract!Sorted(s, s)
  BY <1>6, SortedOnce
<1> QED
  BY <1>3, <1>5, <1>10, <1>13, <1>16, <1>17, <1>18, <1>19, Zenon DEF Abstract!InsertOrdered
----------------------------------------------------------------------------
(* list_sort                                                                *)

(* The same elements, those with equal keys in the same order.              *)
Resorted(c, s) ==
  /\ \A x : Has(c, x) <=> Has(s, x)
  /\ \A x, y : Abstract!Before(c, x, y) /\ Key[x] = Key[y] => Abstract!Before(s, x, y)

(* What is left of the first run begins at a0, of the second one at a1b0.   *)
Runs(l, X, Y, Z) ==
  /\ Interior(l) = X \o (Y \o Z)
  /\ at.a0 = First(Y, First(Z, TailOf(l))) /\ at.a1b0 = First(Z, TailOf(l))

Merging(l) ==
  \E X \in Seq(Elems), Y \in Seq(Elems), Z \in Seq(Elems) : Runs(l, X, Y, Z) /\ Ascending(Y)

SortSoFar(l) ==
  /\ Others({l}) /\ Resorted(Interior(l), content[l])
  /\ pc = "merge" => Merging(l)

LEMMA SortBegins ==
  ASSUME IInv, IInv', content' = content, NEW l \in Lists, Others({}), list_sort(l)
  PROVE  SortSoFar(l)'
<1>1. pc = "idle" /\ pc' = "pass" /\ UNCHANGED <<prev, next>>
  BY DEF list_sort, Enter
<1>2. \A m \in Lists : Interior(m)' = Interior(m)
  BY <1>1, LinksStay
<1>3. \A m \in Lists : content'[m] = Interior(m)'
  BY <1>2 DEF Others
<1>4. PICK s : s = Interior(l)' /\ s = content'[l]
  BY <1>3
<1>5. Resorted(s, s)
  BY DEF Resorted
<1> QED
  BY <1>1, <1>3, <1>4, <1>5 DEF SortSoFar, Others

(* The steps that only walk.                                                *)
LEMMA SortWalks ==
  ASSUME IInv, IInv', content' = content, NEW l \in Lists, at.list = l, SortSoFar(l),
         BeginRun \/ FirstRun \/ BeginSecondRun \/ SecondRun \/ EndMerge \/ NextPass
  PROVE  SortSoFar(l)'
<1>1. UNCHANGED <<prev, next>> /\ pc \in SortLabels /\ pc' \in {"pass", "first_run", "second_run"}
  BY DEF BeginRun, FirstRun, BeginSecondRun, SecondRun, EndMerge, NextPass, PassIsOver, SortLabels, Stay
<1>2. \A m \in Lists : Interior(m)' = Interior(m)
  BY <1>1, LinksStay DEF SortLabels
<1> QED
  BY <1>1, <1>2 DEF SortSoFar, Others

(* The two runs that were found.                                            *)
LEMMA RunsFound ==
  ASSUME IInv, pc = "second_run", NEW l \in Lists, at.list = l
  PROVE  \E X \in Seq(Elems), Y \in Seq(Elems), Z \in Seq(Elems) : Runs(l, X, Y, Z)
<1>1. pc # "reverse"
  OBVIOUS
<1>2. PICK owner \in [Nodes -> Lists \cup {NULL}], rank \in [Nodes -> Int] :
        Ordered(owner, rank) /\ Placed(owner, rank) /\ Locals(owner, rank)
  BY <1>1, PlainOrder
<1>3. Typed
  BY DEF IInv
<1>4. PICK s \in Seq(Elems) :
        /\ s = Interior(l)
        /\ \A x \in Elems : owner[x] = l => \E i \in DOMAIN s : s[i] = x
  BY <1>1, <1>2, <1>3, InteriorOrder
<1>5. PICK T : T = Append(s, TailOf(l))
  OBVIOUS
<1>6. PICK n \in Nat : n = Len(s) /\ DOMAIN s = 1 .. n
  OBVIOUS
<1>7. DOMAIN T = 1 .. n + 1 /\ \A i \in 1 .. n + 1 : T[i] = IF i = n + 1 THEN TailOf(l) ELSE s[i]
  BY <1>5, <1>6, WithEnds
<1>8. \A i, j \in 1 .. n + 1 : i < j => rank[T[i]] < rank[T[j]]
  <2>1. PICK t : /\ t = Append(Interior(l), list_end(l))
                 /\ \A i, j \in DOMAIN t : i < j => rank[t[i]] < rank[t[j]]
    BY <1>1, <1>2, <1>3, PlacesOrder
  <2>2. t = T
    BY <1>4, <1>5, <2>1 DEF list_end
  <2> QED
    BY <1>7, <2>1, <2>2
<1>9. ASSUME NEW x, Behind(owner, l, x)
      PROVE  \E i \in 1 .. n + 1 : T[i] = x
  <2>1. x \in Nodes /\ owner[x] = l /\ x # HeadOf(l) /\ owner[x] # NULL
    BY <1>9, NodeFacts DEF Behind
  <2>2. x \in Elems \/ x = TailOf(l)
    BY <1>2, <2>1, ListNodes
  <2>3. CASE x = TailOf(l)
    <3>1. n + 1 \in 1 .. n + 1
      OBVIOUS
    <3> QED
      BY <1>7, <2>3, <3>1
  <2>4. CASE x \in Elems
    <3>1. PICK i \in 1 .. n : s[i] = x
      BY <1>4, <1>6, <2>1, <2>4
    <3>2. i \in 1 .. n + 1 /\ i # n + 1
      OBVIOUS
    <3> QED
      BY <1>7, <3>1, <3>2
  <2> QED
    BY <2>2, <2>3, <2>4
<1>10. Behind(owner, l, at.a0) /\ Behind(owner, l, at.a1b0) /\ rank[at.a0] < rank[at.a1b0]
  BY <1>2 DEF Locals, SortLabels
<1>11. PICK p \in 1 .. n + 1 : T[p] = at.a0
  BY <1>9, <1>10
<1>12. PICK q \in 1 .. n + 1 : T[q] = at.a1b0
  BY <1>9, <1>10
<1>13. p < q /\ q \in p .. n + 1 /\ p # q
  <2>1. rank[at.a0] \in Int /\ rank[at.a1b0] \in Int
    BY <1>10 DEF Behind
  <2>2. ~ (rank[at.a1b0] < rank[at.a0]) /\ at.a0 # at.a1b0
    BY <1>10, <2>1
  <2>3. p # q /\ ~ (q < p)
    BY <1>8, <1>11, <1>12, <2>2
  <2> QED
    BY <2>3
<1>14. PICK X, Y, Z : X = SubSeq(s, 1, p - 1) /\ Y = SubSeq(s, p, q - 1) /\ Z = SubSeq(s, q, Len(s))
  OBVIOUS
<1>15. s = X \o (Y \o Z)
  BY <1>6, <1>13, <1>14, ThreePieces
<1>16. /\ Y \in Seq(Elems) /\ Len(Y) = q - p /\ Y[1] = s[p] /\ T[p] = s[p]
       /\ Z \in Seq(Elems) /\ First(Z, TailOf(l)) = T[q]
  BY <1>5, <1>6, <1>13, <1>14, PieceFacts
<1>17. X \in Seq(Elems)
  <2>1. 1 \in 1 .. n + 1 /\ p \in 1 .. n + 1
    OBVIOUS
  <2> QED
    BY <1>6, <1>14, <2>1, PieceFacts
<1>18. First(Y, First(Z, TailOf(l))) = T[p]
  <2>1. Len(Y) # 0
    BY <1>13, <1>16
  <2> QED
    BY <1>16, <2>1 DEF First
<1>19. Runs(l, X, Y, Z)
  BY <1>4, <1>11, <1>12, <1>15, <1>16, <1>18, Zenon DEF Runs
<1> QED
  BY <1>16, <1>17, <1>19

LEMMA MergeBegins ==
  ASSUME IInv, IInv', content' = content, NEW l \in Lists, at.list = l, SortSoFar(l), BeginMerge
  PROVE  SortSoFar(l)'
<1>1. pc = "second_run" /\ pc' = "merge" /\ UNCHANGED <<prev, next, at>> /\ is_sorted(at.a0, at.a1b0)
  BY DEF BeginMerge
<1>2. \A m \in Lists : Interior(m)' = Interior(m)
  BY <1>1, LinksStay
<1>3. PICK X \in Seq(Elems), Y \in Seq(Elems), Z \in Seq(Elems) : Runs(l, X, Y, Z)
  BY <1>1, RunsFound
<1>4. Ascending(Y)
  <2>1. is_sorted(First(Y, First(Z, TailOf(l))), First(Z, TailOf(l))) /\ Interior(l) = X \o (Y \o Z)
    BY <1>1, <1>3, Zenon DEF Runs
  <2> QED
    BY <1>1, <2>1, PieceSorted
<1>5. Runs(l, X, Y, Z)'
  BY <1>1, <1>2, <1>3 DEF Runs
<1>6. Merging(l)'
  BY <1>4, <1>5 DEF Merging
<1> QED
  BY <1>1, <1>2, <1>6 DEF SortSoFar, Others
(* What is left of the first run, unless that is nothing.                   *)
LEMMA FirstRunLeft ==
  ASSUME NEW l \in Lists, NEW X \in Seq(Elems), NEW Y \in Seq(Elems), NEW Z \in Seq(Elems),
         Runs(l, X, Y, Z), at.a0 # at.a1b0
  PROVE  Len(Y) # 0 /\ at.a0 = Y[1] /\ at.a0 \in Elems /\ \E W \in Seq(Elems) : Y = <<at.a0>> \o W
<1>1. Len(Y) # 0 /\ at.a0 = Y[1]
  BY Zenon DEF Runs, First
<1>2. Y[1] \in Elems /\ \E W \in Seq(Elems) : Y = <<Y[1]>> \o W
  BY <1>1, FromFront
<1> QED
  BY <1>1, <1>2, Zenon

LEMMA MergeGoesOn ==
  ASSUME IInv, IInv', content' = content, NEW l \in Lists, at.list = l, SortSoFar(l), MergeKeeps
  PROVE  SortSoFar(l)'
<1>1. pc = "merge" /\ pc' = "merge" /\ pc # "reverse" /\ pc' # "reverse" /\ UNCHANGED <<prev, next>> /\ at.a0 # at.a1b0
  BY DEF MergeKeeps, Stay
<1>2. at'.a0 = next[at.a0] /\ at'.a1b0 = at.a1b0
  BY DEF MergeKeeps, Stay, IInv, Typed, LocalsType
<1>3. \A m \in Lists : Interior(m)' = Interior(m)
  BY <1>1, LinksStay
<1>4. PICK X \in Seq(Elems), Y \in Seq(Elems), Z \in Seq(Elems) : Runs(l, X, Y, Z) /\ Ascending(Y)
  BY <1>1 DEF SortSoFar, Merging
<1>5. PICK y \in Elems : y = at.a0 /\ \E W \in Seq(Elems) : Y = <<y>> \o W
  <2>1. at.a0 \in Elems /\ \E W \in Seq(Elems) : Y = <<at.a0>> \o W
    BY <1>1, <1>4, FirstRunLeft
  <2> QED
    BY <2>1
<1>6. PICK W \in Seq(Elems) : Y = <<y>> \o W
  BY <1>5
<1>7. PICK one \in Seq(Elems) : one = <<y>>
  <2>1. <<y>> \in Seq(Elems)
    OBVIOUS
  <2> QED
    BY <2>1
<1>8. PICK WZ \in Seq(Elems) : WZ = W \o Z
  <2>1. W \o Z \in Seq(Elems)
    BY Joined
  <2> QED
    BY <2>1, Zenon
<1>9. PICK X2 \in Seq(Elems) : X2 = X \o one
  <2>1. X \o one \in Seq(Elems)
    BY Joined
  <2> QED
    BY <2>1, Zenon
<1>10. Y \o Z = one \o WZ
  BY <1>6, <1>7, <1>8, Grouped
<1>11. X \o (Y \o Z) = X2 \o WZ
  <2>1. (X \o one) \o WZ = X \o (one \o WZ)
    <3>1. Regroup(X, one, WZ)
      BY Regrouped, Zenon
    <3> QED
      BY <3>1, Zenon DEF Regroup
  <2> QED
    BY <1>9, <1>10, <2>1, Zenon
<1>12. next[y] = First(W, First(Z, TailOf(l)))
  <2>1. Stands(l, X, y, WZ)
    BY <1>4, <1>7, <1>10, Zenon DEF Runs, Stands
  <2>2. next[y] = First(WZ, TailOf(l))
    <3>1. pc # "reverse"
      BY <1>1
    <3> QED
      BY <2>1, <3>1, NextOf, Zenon
  <2>3. First(W \o Z, TailOf(l)) = First(W, First(Z, TailOf(l)))
    BY EndsJoined
  <2> QED
    BY <1>8, <2>2, <2>3, Zenon
<1>13. Ascending(W)
  <2>1. Holds(one, W, Y)
    BY <1>6, <1>7, HoldsJoined
  <2> QED
    BY <1>4, <2>1 DEF Ascending, Holds
<1>14. Runs(l, X2, W, Z)'
  BY <1>2, <1>3, <1>4, <1>5, <1>8, <1>11, <1>12, Zenon DEF Runs
<1>15. Merging(l)'
  BY <1>13, <1>14 DEF Merging
<1> QED
  BY <1>3, <1>15 DEF SortSoFar, Others

(* Of nodes with a next one the tail is none.                               *)
LEMMA TailIsLast ==
  ASSUME IInv, pc # "reverse", NEW l \in Lists
  PROVE  ~ has_next(TailOf(l))
<1>1. PICK owner \in [Nodes -> Lists \cup {NULL}], rank \in [Nodes -> Int] : Linked(owner, rank, next, prev)
  BY PlainOrder
<1> QED
  BY <1>1 DEF Linked, has_next

(* An element moves in front of a piece without one of the same key.        *)
LEMMA ResortedMove ==
  ASSUME NEW X \in Seq(Elems), NEW Y \in Seq(Elems), NEW e \in Elems, NEW B \in Seq(Elems), NEW s,
         Resorted(X \o (Y \o (<<e>> \o B)), s), \A y : Has(Y, y) => Key[y] # Key[e]
  PROVE  Resorted(X \o (<<e>> \o (Y \o B)), s)
<1>1. PICK one \in Seq(Elems) : one = <<e>>
  <2>1. <<e>> \in Seq(Elems)
    OBVIOUS
  <2> QED
    BY <2>1
<1>2. PICK P \in Seq(Elems) : P = one \o B
  <2>1. one \o B \in Seq(Elems)
    BY Joined
  <2> QED
    BY <2>1, Zenon
<1>3. PICK Q \in Seq(Elems) : Q = Y \o P
  <2>1. Y \o P \in Seq(Elems)
    BY Joined
  <2> QED
    BY <2>1, Zenon
<1>4. PICK R \in Seq(Elems) : R = Y \o B
  <2>1. Y \o B \in Seq(Elems)
    BY Joined
  <2> QED
    BY <2>1, Zenon
<1>5. PICK T \in Seq(Elems) : T = one \o R
  <2>1. one \o R \in Seq(Elems)
    BY Joined
  <2> QED
    BY <2>1, Zenon
<1>6. PICK c, d : c = X \o Q /\ d = X \o T
  OBVIOUS
<1>7. Holds(one, B, P) /\ Holds(Y, P, Q) /\ Holds(Y, B, R) /\ Holds(one, R, T)
      /\ Holds(X, Q, c) /\ Holds(X, T, d)
  BY <1>2, <1>3, <1>4, <1>5, <1>6, HoldsJoined, Zenon
<1>8. Resorted(c, s)
  BY <1>1, <1>2, <1>3, <1>6, Zenon
<1>9. ASSUME NEW x
      PROVE  Has(d, x) <=> Has(c, x)
  BY <1>7 DEF Holds
<1>10. ASSUME NEW x, NEW y, Abstract!Before(d, x, y)
       PROVE  Abstract!Before(c, x, y) \/ (x = e /\ Has(Y, y))
  BY <1>1, <1>7, <1>10, HoldsOne DEF Holds
<1>11. Resorted(d, s)
  BY <1>8, <1>9, <1>10 DEF Resorted
<1> QED
  BY <1>1, <1>4, <1>5, <1>6, <1>11, Zenon

LEMMA MergeMovesOn ==
  ASSUME IInv, IInv', content' = content, NEW l \in Lists, at.list = l, SortSoFar(l), MergeMoves
  PROVE  SortSoFar(l)'
<1>1. pc = "merge" /\ pc' = "merge" /\ pc # "reverse" /\ pc' # "reverse" /\ at.a0 # at.a1b0
      /\ has_next(at.a1b0) /\ Key[at.a1b0] < Key[at.a0] /\ list_splice(at.a0, at.a1b0, next[at.a1b0])
  BY DEF MergeMoves, Stay, Less
<1>2. at'.a0 = at.a0 /\ at'.a1b0 = next[at.a1b0]
  BY DEF MergeMoves, Stay, IInv, Typed, LocalsType
<1>3. PICK X \in Seq(Elems), Y \in Seq(Elems), Z \in Seq(Elems) : Runs(l, X, Y, Z) /\ Ascending(Y)
  BY <1>1 DEF SortSoFar, Merging
<1>4. Len(Y) # 0 /\ at.a0 = Y[1] /\ at.a0 \in Elems /\ \E W \in Seq(Elems) : Y = <<at.a0>> \o W
  BY <1>1, <1>3, FirstRunLeft
<1>5. at.a1b0 = First(Z, TailOf(l)) /\ at.a1b0 # TailOf(l)
  BY <1>1, <1>3, TailIsLast DEF Runs
<1>6. PICK e \in Elems : e = at.a1b0 /\ \E B \in Seq(Elems) : Z = <<e>> \o B
  <2>1. at.a1b0 \in Elems /\ \E B \in Seq(Elems) : Z = <<at.a1b0>> \o B
    BY <1>5, FirstIs
  <2> QED
    BY <2>1
<1>7. PICK B \in Seq(Elems) : Z = <<e>> \o B
  BY <1>6
<1>8. PICK one \in Seq(Elems) : one = <<e>> /\ Len(one) # 0 /\ one[1] = e
  <2>1. <<e>> \in Seq(Elems) /\ Len(<<e>>) # 0 /\ <<e>>[1] = e
    OBVIOUS
  <2> QED
    BY <2>1
<1>9. PICK XY \in Seq(Elems) : XY = X \o Y
  <2>1. X \o Y \in Seq(Elems)
    BY Joined
  <2> QED
    BY <2>1, Zenon
<1>10. PICK YB \in Seq(Elems) : YB = Y \o B
  <2>1. Y \o B \in Seq(Elems)
    BY Joined
  <2> QED
    BY <2>1, Zenon
<1>11. PICK X2 \in Seq(Elems) : X2 = X \o one
  <2>1. X \o one \in Seq(Elems)
    BY Joined
  <2> QED
    BY <2>1, Zenon
<1>12. Interior(l) = X \o (Y \o (one \o B))
  BY <1>3, <1>7, <1>8, Zenon DEF Runs
<1>13. next[e] = First(B, TailOf(l))
  <2>1. XY \o (one \o B) = X \o (Y \o (one \o B))
    <3>1. one \o B \in Seq(Elems)
      BY Joined
    <3>2. (X \o Y) \o (one \o B) = X \o (Y \o (one \o B))
      <4>1. Regroup(X, Y, one \o B)
        BY <3>1, Regrouped, Zenon
      <4> QED
        BY <4>1, Zenon DEF Regroup
    <3> QED
      BY <1>9, <3>2, Zenon
  <2>2. Stands(l, XY, e, B)
    BY <1>8, <1>12, <2>1, Zenon DEF Stands
  <2> QED
    <3>1. pc # "reverse"
      BY <1>1
    <3> QED
      BY <2>2, <3>1, NextOf, Zenon
<1>14. Rearranged(l, X \o (one \o YB))
  <2>1. list_splice(Y[1], one[1], First(B, TailOf(l)))
    BY <1>1, <1>4, <1>6, <1>8, <1>13, Zenon
  <2>2. Rearranged(l, X \o (one \o (Y \o B)))
    BY <1>1, <1>4, <1>8, <1>12, <2>1, SpliceFront, Zenon
  <2> QED
    BY <1>10, <2>2, Zenon
<1>15. ASSUME NEW y, Has(Y, y)
       PROVE  Key[y] # Key[e]
  <2>1. PICK v \in Elems, W \in Seq(Elems) : v = at.a0 /\ Y = <<v>> \o W
    BY <1>4
  <2>2. PICK first \in Seq(Elems) : first = <<v>>
    <3>1. <<v>> \in Seq(Elems)
      OBVIOUS
    <3> QED
      BY <3>1
  <2>3. Holds(first, W, Y)
    BY <2>1, <2>2, HoldsJoined, Zenon
  <2>4. y = v \/ Has(W, y)
    BY <1>15, <2>2, <2>3, HoldsOne DEF Holds
  <2>5. Key[e] < Key[v] /\ Key[e] \in Nat /\ Key[v] \in Nat /\ Key[y] \in Nat
    BY <1>1, <1>6, <1>15, <2>1, BeforeHas, ListAssumption
  <2>6. CASE y = v
    BY <2>5, <2>6
  <2>7. CASE Has(W, y)
    <3>1. Abstract!Before(Y, v, y)
      BY <2>2, <2>3, <2>7, HoldsOne DEF Holds
    <3>2. Key[v] <= Key[y]
      BY <1>3, <3>1 DEF Ascending
    <3> QED
      BY <2>5, <3>2
  <2> QED
    BY <2>4, <2>6, <2>7
<1>16. Resorted(X \o (one \o YB), content[l])
  <2>1. Resorted(X \o (Y \o (<<e>> \o B)), content[l])
    BY <1>8, <1>12, Zenon DEF SortSoFar
  <2>2. Resorted(X \o (<<e>> \o (Y \o B)), content[l])
    BY <1>15, <2>1, ResortedMove, Zenon
  <2> QED
    BY <1>8, <1>10, <2>2, Zenon
<1>17. X \o (one \o YB) = X2 \o YB
  <2>1. (X \o one) \o YB = X \o (one \o YB)
    <3>1. Regroup(X, one, YB)
      BY Regrouped, Zenon
    <3> QED
      BY <3>1, Zenon DEF Regroup
  <2> QED
    BY <1>11, <2>1, Zenon
<1>18. First(Y, First(B, TailOf(l))) = at.a0
  BY <1>4, Zenon DEF First
<1>19. Interior(l)' = X \o (one \o YB) /\ \A m \in Lists \ {l} : Interior(m)' = Interior(m)
  BY <1>14, Zenon DEF Rearranged
<1>20. Runs(l, X2, Y, B)'
  BY <1>2, <1>6, <1>10, <1>13, <1>17, <1>18, <1>19, Zenon DEF Runs
<1>21. Merging(l)'
  BY <1>3, <1>20 DEF Merging
<1>22. Others({l})'
  BY <1>19 DEF SortSoFar, Others
<1>23. Resorted(Interior(l), content[l])'
  BY <1>16, <1>19
<1> QED
  BY <1>21, <1>22, <1>23 DEF SortSoFar

LEMMA SortReturns ==
  ASSUME IInv, IInv', content' = Contents', content \in [Lists -> Seq(Elems)], NEW l \in Lists, at.list = l,
         SortSoFar(l), SortEnd
  PROVE  Abstract!Sort(l)
<1>1. pc # "reverse" /\ pc' # "reverse" /\ UNCHANGED <<prev, next>> /\ is_sorted(list_begin(l), TailOf(l))
  BY DEF SortEnd, PassIsOver, Return, end, list_end
<1>2. \A m \in Lists : Interior(m)' = Interior(m)
  BY <1>1, LinksStay
<1>3. PICK t \in Seq(Elems) : t = Interior(l) /\ list_begin(l) = First(t, TailOf(l)) /\ Distinct(t)
  <2>1. Interior(l) \in Seq(Elems) /\ list_begin(l) = First(Interior(l), TailOf(l)) /\ Distinct(Interior(l))
    BY <1>1, IdleRow
  <2> QED
    BY <2>1
<1>4. PICK none \in Seq(Elems) : none = <<>> /\ none \o t = t /\ t \o none = t
  <2>1. <<>> \in Seq(Elems) /\ <<>> \o t = t /\ t \o <<>> = t
    BY FromFront
  <2> QED
    BY <2>1, Zenon
<1>5. Ascending(t)
  <2>1. First(none, TailOf(l)) = TailOf(l)
    BY <1>4 DEF First
  <2>2. is_sorted(First(t, First(none, TailOf(l))), First(none, TailOf(l)))
    BY <1>1, <1>3, <2>1, Zenon
  <2>3. Interior(l) = none \o (t \o none)
    BY <1>3, <1>4, Zenon
  <2> QED
    BY <1>1, <2>2, <2>3, PieceSorted
<1>6. PICK s \in Seq(Elems) : s = content[l]
  OBVIOUS
<1>7. Resorted(t, s)
  BY <1>3, <1>6 DEF SortSoFar
<1>8. t \in Abstract!SetToSeqs(Abstract!ToSet(s))
  <2>1. \A x : x \in Abstract!ToSet(s) <=> Has(t, x)
    BY <1>7, InSet DEF Resorted
  <2> QED
    BY <1>3, <2>1, SeqOfSet
<1>9. Abstract!Sorted(t, s)
  <2>1. ASSUME NEW x, NEW y, Abstract!Before(t, x, y)
        PROVE  Key[x] < Key[y] \/ (Key[x] = Key[y] /\ Abstract!Before(s, x, y))
    <3>1. Key[x] \in Nat /\ Key[y] \in Nat
      BY <2>1, BeforeHas, ListAssumption
    <3>2. Key[x] <= Key[y]
      BY <1>5, <2>1 DEF Ascending
    <3>3. CASE Key[x] = Key[y]
      BY <1>7, <2>1, <3>3 DEF Resorted
    <3> QED
      BY <3>1, <3>2, <3>3
  <2> QED
    BY <2>1 DEF Abstract!Sorted
<1>10. content' = [content EXCEPT ![l] = t]
  <2>1. Interior(l)' = t /\ \A m \in Lists \ {l} : Interior(m)' = content[m]
    BY <1>2, <1>3 DEF SortSoFar, Others
  <2> QED
    BY <2>1, Becomes
<1> QED
  BY <1>6, <1>8, <1>9, <1>10, Zenon DEF Abstract!Sort
----------------------------------------------------------------------------
(* list_unique                                                              *)

(* What is in front of an element.                                          *)
LEMMA RepeatsAre ==
  ASSUME NEW s \in Seq(Elems), Distinct(s), NEW P \in Seq(Elems), NEW r \in Elems, NEW R \in Seq(Elems),
         s = P \o (<<r>> \o R)
  PROVE  r \in Abstract!Repeats(s) <=> Len(P) # 0 /\ Key[r] = Key[Last(P)]
<1>1. PICK one \in Seq(Elems) : one = <<r>> /\ Len(one) = 1 /\ one[1] = r
  <2>1. <<r>> \in Seq(Elems) /\ Len(<<r>>) = 1 /\ <<r>>[1] = r
    OBVIOUS
  <2> QED
    BY <2>1
<1>2. PICK k \in Nat : k = Len(P) /\ DOMAIN P = 1 .. k
  OBVIOUS
<1>3. PICK n \in Nat : n = Len(s) /\ DOMAIN s = 1 .. n
  OBVIOUS
<1>4. PICK j \in Nat : j = k + 1
  OBVIOUS
<1>5. j \in 1 .. n /\ s[j] = r /\ \A i \in 1 .. k : s[i] = P[i]
  <2>1. PICK F \in Seq(Elems) : F = one \o R
    <3>1. one \o R \in Seq(Elems)
      BY Joined
    <3> QED
      BY <3>1, Zenon
  <2>2. PICK m \in Nat : m = Len(F)
    OBVIOUS
  <2>3. m >= 1 /\ F[1] = r
    <3>1. Len(one \o R) = Len(one) + Len(R) /\ \A i \in 1 .. Len(one) : (one \o R)[i] = one[i]
      BY Joined
    <3>2. 1 \in 1 .. Len(one) /\ Len(R) \in Nat
      BY <1>1
    <3> QED
      BY <1>1, <2>1, <2>2, <3>1, <3>2
  <2>4. /\ Len(P \o F) = Len(P) + Len(F) /\ \A i \in 1 .. Len(P) : (P \o F)[i] = P[i]
        /\ \A i \in 1 .. Len(F) : (P \o F)[Len(P) + i] = F[i]
    BY Joined
  <2>5. s = P \o F
    BY <1>1, <2>1, Zenon
  <2>6. n = k + m
    BY <1>2, <1>3, <2>2, <2>4, <2>5
  <2>7. 1 \in 1 .. m
    BY <2>3
  <2>8. s[k + 1] = F[1]
    BY <1>2, <2>2, <2>4, <2>5, <2>7, Zenon
  <2> QED
    BY <1>2, <1>4, <2>3, <2>4, <2>5, <2>6, <2>8
<1>6. r \in Abstract!Repeats(s) <=> j \in 2 .. n /\ Key[s[j]] = Key[s[j - 1]]
  <2>1. r \in Abstract!Repeats(s) <=> \E i \in 2 .. n : Key[s[i]] = Key[s[i - 1]] /\ s[i] = r
    <3>1. Abstract!Repeats(s) = { s[i] : i \in { k1 \in 2 .. n : Key[s[k1]] = Key[s[k1 - 1]] } }
      BY <1>3, Zenon DEF Abstract!Repeats
    <3> QED
      BY <3>1
  <2>2. \A i \in 2 .. n : s[i] = r => i = j
    <3>1. \A i \in 2 .. n : i \in 1 .. n
      OBVIOUS
    <3> QED
      BY <1>3, <1>5, <3>1, Zenon DEF Distinct
  <2> QED
    BY <1>5, <2>1, <2>2
<1>7. j \in 2 .. n <=> k # 0
  <2>1. j \in 1 .. n
    BY <1>5, Zenon
  <2> QED
    BY <1>4, <2>1
<1>8. k # 0 => j - 1 = k /\ s[k] = P[k]
  <2>1. j - 1 = k /\ (k # 0 => k \in 1 .. k)
    BY <1>4
  <2> QED
    BY <1>5, <2>1, Zenon
<1> QED
  BY <1>2, <1>5, <1>6, <1>7, <1>8 DEF Last

(* Behind the first piece of a list.                                        *)
LEMMA NextOfLast ==
  ASSUME IInv, pc # "reverse", NEW l \in Lists, NEW A \in Seq(Elems), NEW B \in Seq(Elems),
         Len(A) # 0, Interior(l) = A \o B
  PROVE  next[Last(A)] = First(B, TailOf(l))
<1>1. Row(l, A \o B)
  BY RowsHold DEF Rows
<1>2. PICK H : H = <<HeadOf(l)>> \o A
  OBVIOUS
<1>3. Path(next, H, First(B, TailOf(l))) /\ Len(H) # 0 /\ H \in Seq(Nodes)
  BY <1>1, <1>2, RowCut
<1>4. Last(H) = Last(A)
  <2>1. <<HeadOf(l)>> \in Seq(Nodes) /\ A \in Seq(Nodes)
    BY WithEnds
  <2>2. Last(<<HeadOf(l)>> \o A) = IF Len(A) = 0 THEN Last(<<HeadOf(l)>>) ELSE Last(A)
    BY <2>1, EndsJoined
  <2> QED
    BY <1>2, <2>2
<1>5. next[H[Len(H)]] = First(B, TailOf(l))
  BY <1>3 DEF Path
<1> QED
  BY <1>4, <1>5 DEF Last

(* Of the front piece P of s, kept are those that stay and gone the others. *)
Split(s, P, kept, gone) ==
  /\ \A x : Has(kept, x) <=> Has(P, x) /\ x \notin Abstract!Repeats(s)
  /\ \A x : Has(gone, x) <=> Has(P, x) /\ x \in Abstract!Repeats(s)
  /\ \A x, y : Abstract!Before(kept, x, y) \/ Abstract!Before(gone, x, y) => Abstract!Before(s, x, y)

LEMMA SplitKeeps ==
  ASSUME NEW s, NEW P \in Seq(Elems), NEW kept \in Seq(Elems), NEW gone \in Seq(Elems),
         NEW r \in Elems, NEW one \in Seq(Elems), one = <<r>>, NEW R \in Seq(Elems),
         NEW F \in Seq(Elems), F = one \o R, s = P \o F,
         Split(s, P, kept, gone), r \notin Abstract!Repeats(s)
  PROVE  Split(s, P \o one, kept \o one, gone)
<1>1. PICK P2, kept2 : P2 = P \o one /\ kept2 = kept \o one
  OBVIOUS
<1>2. Holds(P, one, P2) /\ Holds(kept, one, kept2) /\ Holds(P, F, s) /\ Holds(one, R, F)
  BY <1>1, HoldsJoined, Zenon
<1>3. /\ \A x : Has(P2, x) <=> Has(P, x) \/ x = r
      /\ \A x : Has(kept2, x) <=> Has(kept, x) \/ x = r
      /\ \A x, y : Abstract!Before(kept2, x, y) => Abstract!Before(kept, x, y) \/ (Has(kept, x) /\ y = r)
      /\ \A x : Has(P, x) => Abstract!Before(s, x, r)
  BY <1>2, HoldsOne DEF Holds
<1>4. \A x : Has(kept2, x) <=> Has(P2, x) /\ x \notin Abstract!Repeats(s)
  BY <1>3, Zenon DEF Split
<1>5. \A x : Has(gone, x) <=> Has(P2, x) /\ x \in Abstract!Repeats(s)
  BY <1>3, Zenon DEF Split
<1>6. \A x, y : Abstract!Before(kept2, x, y) => Abstract!Before(s, x, y)
  BY <1>3, Zenon DEF Split
<1>7. Split(s, P2, kept2, gone)
  BY <1>4, <1>5, <1>6, Zenon DEF Split
<1> QED
  BY <1>1, <1>7, Zenon

LEMMA SplitRemoves ==
  ASSUME NEW s, NEW P \in Seq(Elems), NEW kept \in Seq(Elems), NEW gone \in Seq(Elems),
         NEW r \in Elems, NEW one \in Seq(Elems), one = <<r>>, NEW R \in Seq(Elems),
         NEW F \in Seq(Elems), F = one \o R, s = P \o F,
         Split(s, P, kept, gone), r \in Abstract!Repeats(s)
  PROVE  Split(s, P \o one, kept, gone \o one)
<1>1. PICK P2, gone2 : P2 = P \o one /\ gone2 = gone \o one
  OBVIOUS
<1>2. Holds(P, one, P2) /\ Holds(gone, one, gone2) /\ Holds(P, F, s) /\ Holds(one, R, F)
  BY <1>1, HoldsJoined, Zenon
<1>3. /\ \A x : Has(P2, x) <=> Has(P, x) \/ x = r
      /\ \A x : Has(gone2, x) <=> Has(gone, x) \/ x = r
      /\ \A x, y : Abstract!Before(gone2, x, y) => Abstract!Before(gone, x, y) \/ (Has(gone, x) /\ y = r)
      /\ \A x : Has(P, x) => Abstract!Before(s, x, r)
  <2>1. /\ \A x : Has(P2, x) <=> Has(P, x) \/ x = r
        /\ \A x : Has(gone2, x) <=> Has(gone, x) \/ x = r
    BY <1>2, HoldsOne DEF Holds
  <2>2. \A x, y : Abstract!Before(gone2, x, y) => Abstract!Before(gone, x, y) \/ (Has(gone, x) /\ y = r)
    BY <1>2, HoldsOne DEF Holds
  <2>3. \A x : Has(P, x) => Abstract!Before(s, x, r)
    BY <1>2, HoldsOne DEF Holds
  <2> QED
    BY <2>1, <2>2, <2>3
<1>4. \A x : Has(kept, x) <=> Has(P2, x) /\ x \notin Abstract!Repeats(s)
  BY <1>3, Zenon DEF Split
<1>5. \A x : Has(gone2, x) <=> Has(P2, x) /\ x \in Abstract!Repeats(s)
  BY <1>3, Zenon DEF Split
<1>6. ASSUME NEW x, NEW y, Abstract!Before(gone2, x, y)
      PROVE  Abstract!Before(s, x, y)
  <2>1. CASE Abstract!Before(gone, x, y)
    BY <2>1 DEF Split
  <2>2. CASE Has(gone, x) /\ y = r
    <3>1. Has(P, x)
      BY <2>2 DEF Split
    <3> QED
      BY <1>3, <2>2, <3>1
  <2> QED
    BY <1>3, <1>6, <2>1, <2>2
<1>7. Split(s, P2, kept, gone2)
  BY <1>4, <1>5, <1>6, Zenon DEF Split
<1> QED
  BY <1>1, <1>7, Zenon

(* Parts of one order do not repeat an element either.                      *)
LEMMA DistinctParts ==
  ASSUME NEW s \in Seq(Elems), Distinct(s), NEW t \in Seq(Elems),
         \A x, y : Abstract!Before(t, x, y) => Abstract!Before(s, x, y)
  PROVE  Distinct(t)
<1>1. \A x : ~ Abstract!Before(s, x, x)
  <2>1. \A i, j \in DOMAIN s : i < j => s[i] # s[j]
    BY DEF Distinct
  <2> QED
    BY <2>1 DEF Abstract!Before
<1>2. ASSUME NEW i \in DOMAIN t, NEW j \in DOMAIN t, i < j
      PROVE  t[i] # t[j]
  <2>1. Abstract!Before(t, t[i], t[j])
    BY <1>2 DEF Abstract!Before
  <2> QED
    BY <1>1, <2>1
<1>3. \A i, j \in DOMAIN t : i < j \/ i = j \/ j < i
  OBVIOUS
<1> QED
  BY <1>2, <1>3 DEF Distinct
(* What went to the other list so far, or is about to.                      *)
Moved(D, gone) ==
  D # NULL =>
    content[D] \o gone = IF pc = "duplicate" THEN Interior(D) \o <<at.elem>> ELSE Interior(D)

(* The cursor is on the last of those that stay, R is not looked at yet.    *)
UniqueAt(l, D, P, R, kept, gone) ==
  /\ content[l] = P \o R /\ Interior(l) = kept \o R
  /\ Len(P) # 0 /\ Len(kept) # 0 /\ Last(kept) = at.e /\ Key[Last(P)] = Key[at.e]
  /\ Split(content[l], P, kept, gone) /\ Moved(D, gone)

UniqueSoFar(l, D) ==
  /\ Others({l, D}) /\ Distinct(content[l])
  /\ \E P \in Seq(Elems), R \in Seq(Elems), kept \in Seq(Elems), gone \in Seq(Elems) :
       UniqueAt(l, D, P, R, kept, gone)

LEMMA UniqueBegins ==
  ASSUME IInv, IInv', content' = content, content \in [Lists -> Seq(Elems)], NEW l \in Lists,
         NEW D \in Lists \cup {NULL}, Others({}), list_unique(l, D)
  PROVE  UniqueSoFar(l, D)'
<1>1. pc = "idle" /\ pc' = "unique" /\ UNCHANGED <<prev, next>> /\ ~ list_empty(l)
      /\ at'.e = list_begin(l) /\ at'.duplicates = D
  BY DEF list_unique, Enter, NoLocals
<1>2. \A m \in Lists : Interior(m)' = Interior(m) /\ content'[m] = Interior(m)
  BY <1>1, LinksStay DEF Others
<1>3. PICK s \in Seq(Elems) : s = Interior(l) /\ list_begin(l) = First(s, TailOf(l)) /\ Distinct(s)
  <2>1. Interior(l) \in Seq(Elems) /\ list_begin(l) = First(Interior(l), TailOf(l)) /\ Distinct(Interior(l))
    BY <1>1, IdleRow
  <2> QED
    BY <2>1
<1>4. Len(s) # 0
  <2>1. First(s, TailOf(l)) # TailOf(l)
    BY <1>1, <1>3, Zenon DEF list_empty, list_end
  <2> QED
    BY <2>1, Zenon DEF First
<1>5. PICK e \in Elems : e = First(s, TailOf(l)) /\ \E R \in Seq(Elems) : s = <<e>> \o R
  <2>1. First(s, TailOf(l)) \in Elems /\ \E R \in Seq(Elems) : s = <<First(s, TailOf(l))>> \o R
    BY <1>4, FirstIs
  <2> QED
    BY <2>1, Zenon
<1>6. PICK R \in Seq(Elems) : s = <<e>> \o R
  BY <1>5
<1>7. PICK one \in Seq(Elems) : one = <<e>> /\ Len(one) # 0 /\ Last(one) = e
  <2>1. <<e>> \in Seq(Elems) /\ Len(<<e>>) # 0 /\ Last(<<e>>) = e
    BY DEF Last
  <2> QED
    BY <2>1
<1>8. PICK none \in Seq(Elems) : none = <<>> /\ none \o s = s /\ Len(none) = 0
  <2>1. <<>> \in Seq(Elems) /\ <<>> \o s = s /\ Len(<<>>) = 0
    BY FromFront
  <2> QED
    BY <2>1, Zenon
<1>9. e \notin Abstract!Repeats(s)
  <2>1. s = none \o (<<e>> \o R)
    BY <1>6, <1>8, Zenon
  <2> QED
    BY <1>3, <1>8, <2>1, RepeatsAre
<1>10. Split(s, one, one, none)
  BY <1>7, <1>8, <1>9, HoldsOne, HoldsNone DEF Split
<1>11. Moved(D, none)'
  <2>1. ASSUME D # NULL
        PROVE  content'[D] \o none = Interior(D)'
    <3>1. D \in Lists
      BY <2>1
    <3>2. content'[D] = Interior(D)' /\ Interior(D) \in Seq(Elems) /\ Interior(D)' = Interior(D)
      BY <1>1, <1>2, <3>1, IdleRow
    <3>3. Interior(D) \o none = Interior(D)
      BY <1>8, <3>2, FromFront, Zenon
    <3> QED
      BY <3>2, <3>3, Zenon
  <2>2. pc' # "duplicate"
    BY <1>1
  <2> QED
    BY <2>1, <2>2, Zenon DEF Moved
<1>12. UniqueAt(l, D, one, R, one, none)'
  BY <1>1, <1>2, <1>3, <1>5, <1>6, <1>7, <1>10, <1>11, Zenon DEF UniqueAt
<1>13. Others({l, D})' /\ Distinct(content'[l])
  BY <1>2, <1>3 DEF Others
<1> QED
  BY <1>12, <1>13, Zenon DEF UniqueSoFar

(* The next element, when there is one.                                     *)
LEMMA UniqueNext ==
  ASSUME IInv, content \in [Lists -> Seq(Elems)], NEW l \in Lists, at.list = l, HasNeighbour,
         NEW D, NEW P \in Seq(Elems), NEW R \in Seq(Elems), NEW kept \in Seq(Elems), NEW gone \in Seq(Elems),
         UniqueAt(l, D, P, R, kept, gone), Distinct(content[l])
  PROVE  /\ next[at.e] \in Elems /\ \E R2 \in Seq(Elems) : R = <<next[at.e]>> \o R2
         /\ next[at.e] \in Abstract!Repeats(content[l]) <=> SameKey(at.e, next[at.e])
         /\ at.e \in Elems
<1>1. pc = "unique" /\ pc # "reverse" /\ next[at.e] # TailOf(l)
  BY DEF HasNeighbour, end, list_end
<1>2. next[at.e] = First(R, TailOf(l))
  <2>1. Interior(l) = kept \o R /\ Len(kept) # 0 /\ Last(kept) = at.e
    BY Zenon DEF UniqueAt
  <2>2. next[Last(kept)] = First(R, TailOf(l))
    BY <1>1, <2>1, NextOfLast
  <2> QED
    BY <2>1, <2>2, Zenon
<1>3. Len(R) # 0
  BY <1>1, <1>2, FirstIs
<1>4. next[at.e] \in Elems /\ \E R2 \in Seq(Elems) : R = <<next[at.e]>> \o R2
  BY <1>2, <1>3, FirstIs
<1>5. PICK r \in Elems, R2 \in Seq(Elems) : r = next[at.e] /\ R = <<r>> \o R2
  BY <1>4, Zenon
<1>6. PICK s \in Seq(Elems) : s = content[l]
  OBVIOUS
<1>7. r \in Abstract!Repeats(s) <=> Len(P) # 0 /\ Key[r] = Key[Last(P)]
  <2>1. s = P \o (<<r>> \o R2)
    BY <1>5, <1>6, Zenon DEF UniqueAt
  <2> QED
    BY <1>6, <2>1, RepeatsAre
<1>8. Len(P) # 0 /\ Key[Last(P)] = Key[at.e]
  BY Zenon DEF UniqueAt
<1>9. at.e \in Elems
  <2>1. PICK owner \in [Nodes -> Lists \cup {NULL}], rank \in [Nodes -> Int] : Locals(owner, rank)
    BY <1>1, PlainOrder
  <2> QED
    BY <1>1, <2>1 DEF Locals, UniqueLabels
<1>10. SameKey(at.e, r) <=> Key[r] = Key[at.e]
  <2>1. Key[r] \in Nat /\ Key[at.e] \in Nat
    BY <1>9, ListAssumption
  <2> QED
    BY <2>1 DEF SameKey, Less
<1> QED
  BY <1>4, <1>5, <1>6, <1>7, <1>8, <1>9, <1>10, Zenon

(* The first elements of a list, one of them more.                          *)
Longer(P, one, R, r) ==
  /\ P \o one \in Seq(Elems) /\ (P \o one) \o R = P \o (one \o R)
  /\ Len(P \o one) # 0 /\ Last(P \o one) = r

LEMMA OneMore ==
  ASSUME NEW P \in Seq(Elems), NEW r \in Elems, NEW one \in Seq(Elems), one = <<r>>, NEW R \in Seq(Elems)
  PROVE  Longer(P, one, R, r)
<1>1. Len(one) = 1 /\ Last(one) = r
  <2>1. Len(<<r>>) = 1 /\ Last(<<r>>) = r
    BY DEF Last
  <2> QED
    BY <2>1
<1>2. P \o one \in Seq(Elems) /\ one \o R \in Seq(Elems) /\ Len(P \o one) = Len(P) + Len(one) /\ Len(P) \in Nat
  BY Joined
<1>3. (P \o one) \o R = P \o (one \o R)
  <2>1. Regroup(P, one, R)
    BY Regrouped, Zenon
  <2> QED
    BY <2>1, Zenon DEF Regroup
<1>4. Last(P \o one) = r
  <2>1. \A i \in 1 .. Len(one) : (P \o one)[Len(P) + i] = one[i]
    BY Joined
  <2>2. 1 \in 1 .. Len(one) /\ one[Len(one)] = r
    BY <1>1 DEF Last
  <2>3. (P \o one)[Len(P) + 1] = r /\ Len(P \o one) = Len(P) + 1
    BY <1>1, <1>2, <2>1, <2>2
  <2> QED
    BY <2>3, Zenon DEF Last
<1>5. Len(P \o one) # 0
  BY <1>1, <1>2
<1> QED
  BY <1>2, <1>3, <1>4, <1>5, Zenon DEF Longer
LEMMA UniqueKeepsOn ==
  ASSUME IInv, IInv', content' = content, content \in [Lists -> Seq(Elems)], NEW l \in Lists, at.list = l,
         NEW D, at.duplicates = D, UniqueSoFar(l, D), UniqueKeeps
  PROVE  UniqueSoFar(l, D)'
<1>1. pc = "unique" /\ pc' = "unique" /\ pc # "reverse" /\ pc' # "reverse" /\ pc # "duplicate" /\ pc' # "duplicate"
      /\ UNCHANGED <<prev, next>> /\ HasNeighbour /\ ~ SameKey(at.e, next[at.e])
  BY DEF UniqueKeeps, HasNeighbour, Stay
<1>2. at'.e = next[at.e]
  BY DEF UniqueKeeps, Stay, IInv, Typed, LocalsType
<1>3. \A m \in Lists : Interior(m)' = Interior(m)
  BY <1>1, LinksStay
<1>4. PICK P \in Seq(Elems), R \in Seq(Elems), kept \in Seq(Elems), gone \in Seq(Elems) :
        UniqueAt(l, D, P, R, kept, gone)
  BY Zenon DEF UniqueSoFar
<1>5. /\ next[at.e] \in Elems /\ \E R2 \in Seq(Elems) : R = <<next[at.e]>> \o R2
      /\ next[at.e] \in Abstract!Repeats(content[l]) <=> SameKey(at.e, next[at.e])
  BY <1>1, <1>4, UniqueNext, Zenon DEF UniqueSoFar
<1>6. PICK r \in Elems, R2 \in Seq(Elems) : r = next[at.e] /\ R = <<r>> \o R2
  BY <1>5, Zenon
<1>7. PICK one \in Seq(Elems) : one = <<r>>
  <2>1. <<r>> \in Seq(Elems)
    OBVIOUS
  <2> QED
    BY <2>1
<1>8. r \notin Abstract!Repeats(content[l])
  BY <1>1, <1>5, <1>6, Zenon
<1>9. PICK P2 \in Seq(Elems) : P2 = P \o one /\ P2 \o R2 = P \o R /\ Len(P2) # 0 /\ Last(P2) = r
  <2>1. Longer(P, one, R2, r)
    BY <1>7, OneMore, Zenon
  <2> QED
    BY <1>6, <1>7, <2>1, Zenon DEF Longer
<1>10. PICK kept2 \in Seq(Elems) :
         kept2 = kept \o one /\ kept2 \o R2 = kept \o R /\ Len(kept2) # 0 /\ Last(kept2) = r
  <2>1. Longer(kept, one, R2, r)
    BY <1>7, OneMore, Zenon
  <2> QED
    BY <1>6, <1>7, <2>1, Zenon DEF Longer
<1>11. Split(content[l], P2, kept2, gone)
  <2>1. R = one \o R2 /\ content[l] = P \o R /\ Split(content[l], P, kept, gone)
    BY <1>4, <1>6, <1>7, Zenon DEF UniqueAt
  <2>2. Split(content[l], P \o one, kept \o one, gone)
    BY <1>7, <1>8, <2>1, SplitKeeps, Zenon
  <2> QED
    BY <1>9, <1>10, <2>2, Zenon
<1>12. Moved(D, gone)'
  <2>1. ASSUME D # NULL
        PROVE  content'[D] \o gone = Interior(D)'
    <3>1. D \in Lists
      BY <2>1 DEF IInv, Typed, LocalsType
    <3>2. content[D] \o gone = Interior(D)
      BY <1>1, <1>4, <2>1, Zenon DEF UniqueAt, Moved
    <3> QED
      BY <1>3, <3>1, <3>2, Zenon
  <2> QED
    BY <1>1, <2>1, Zenon DEF Moved
<1>13. content[l] = P \o R /\ Interior(l) = kept \o R
  BY <1>4, Zenon DEF UniqueAt
<1>14. UniqueAt(l, D, P2, R2, kept2, gone)'
  BY <1>2, <1>3, <1>6, <1>9, <1>10, <1>11, <1>12, <1>13, Zenon DEF UniqueAt
<1>15. Others({l, D})' /\ Distinct(content'[l])
  BY <1>3 DEF Others, UniqueSoFar
<1> QED
  BY <1>14, <1>15, Zenon DEF UniqueSoFar

LEMMA UniqueRemovesOn ==
  ASSUME IInv, IInv', content' = content, content \in [Lists -> Seq(Elems)], NEW l \in Lists, at.list = l,
         NEW D, at.duplicates = D, D # l, UniqueSoFar(l, D), UniqueRemoves
  PROVE  UniqueSoFar(l, D)'
<1>1. pc = "unique" /\ pc # "reverse" /\ pc' # "reverse" /\ pc # "duplicate"
      /\ pc' = (IF D = NULL THEN "unique" ELSE "duplicate")
      /\ HasNeighbour /\ SameKey(at.e, next[at.e]) /\ list_remove(next[at.e])
  BY DEF UniqueRemoves, HasNeighbour
<1>2. at'.e = at.e /\ at'.elem = next[at.e]
  BY DEF UniqueRemoves, IInv, Typed, LocalsType
<1>4. PICK P \in Seq(Elems), R \in Seq(Elems), kept \in Seq(Elems), gone \in Seq(Elems) :
        UniqueAt(l, D, P, R, kept, gone)
  BY Zenon DEF UniqueSoFar
<1>5. /\ next[at.e] \in Elems /\ \E R2 \in Seq(Elems) : R = <<next[at.e]>> \o R2
      /\ next[at.e] \in Abstract!Repeats(content[l]) <=> SameKey(at.e, next[at.e])
      /\ at.e \in Elems
  BY <1>1, <1>4, UniqueNext, Zenon DEF UniqueSoFar
<1>6. PICK r \in Elems, R2 \in Seq(Elems) : r = next[at.e] /\ R = <<r>> \o R2
  BY <1>5, Zenon
<1>7. PICK one \in Seq(Elems) : one = <<r>>
  <2>1. <<r>> \in Seq(Elems)
    OBVIOUS
  <2> QED
    BY <2>1
<1>8. r \in Abstract!Repeats(content[l])
  BY <1>1, <1>5, <1>6, Zenon
<1>9. PICK P2 \in Seq(Elems) : P2 = P \o one /\ P2 \o R2 = P \o R /\ Len(P2) # 0 /\ Last(P2) = r
  <2>1. Longer(P, one, R2, r)
    BY <1>7, OneMore, Zenon
  <2> QED
    BY <1>6, <1>7, <2>1, Zenon DEF Longer
<1>10. PICK gone2 \in Seq(Elems) : gone2 = gone \o one
  <2>1. gone \o one \in Seq(Elems)
    BY Joined
  <2> QED
    BY <2>1, Zenon
<1>11. Split(content[l], P2, kept, gone2)
  <2>1. R = one \o R2 /\ content[l] = P \o R /\ Split(content[l], P, kept, gone)
    BY <1>4, <1>6, <1>7, Zenon DEF UniqueAt
  <2>2. Split(content[l], P \o one, kept, gone \o one)
    BY <1>7, <1>8, <2>1, SplitRemoves, Zenon
  <2> QED
    BY <1>9, <1>10, <2>2, Zenon
<1>12. Interior(l)' = kept \o R2 /\ \A m \in Lists \ {l} : Interior(m)' = Interior(m)
  <2>1. Interior(l) = kept \o (<<r>> \o R2) /\ list_remove(r)
    BY <1>1, <1>4, <1>6, Zenon DEF UniqueAt
  <2> QED
    BY <1>1, <2>1, RemoveRow
<1>13. Moved(D, gone2)'
  <2>1. ASSUME D # NULL
        PROVE  content'[D] \o gone2 = Interior(D)' \o <<at'.elem>>
    <3>1. D \in Lists /\ D \in Lists \ {l}
      BY <2>1 DEF IInv, Typed, LocalsType
    <3>2. content[D] \o gone = Interior(D)
      BY <1>1, <1>4, <2>1, Zenon DEF UniqueAt, Moved
    <3>3. (content[D] \o gone) \o one = content[D] \o (gone \o one)
      <4>1. content[D] \in Seq(Elems)
        BY <3>1
      <4>2. Regroup(content[D], gone, one)
        BY <4>1, Regrouped, Zenon
      <4> QED
        BY <4>2, Zenon DEF Regroup
    <3> QED
      BY <1>2, <1>6, <1>7, <1>10, <1>12, <3>1, <3>2, <3>3, Zenon
  <2> QED
    BY <1>1, <2>1, Zenon DEF Moved
<1>14. Key[r] = Key[at.e]
  <2>1. Key[r] \in Nat /\ Key[at.e] \in Nat
    BY <1>5, ListAssumption
  <2> QED
    BY <1>1, <1>6, <2>1 DEF SameKey, Less
<1>15. content[l] = P \o R /\ Len(kept) # 0 /\ Last(kept) = at.e
  BY <1>4, Zenon DEF UniqueAt
<1>16. UniqueAt(l, D, P2, R2, kept, gone2)'
  BY <1>2, <1>9, <1>11, <1>12, <1>13, <1>14, <1>15, Zenon DEF UniqueAt
<1>17. Others({l, D})' /\ Distinct(content'[l])
  BY <1>12 DEF Others, UniqueSoFar
<1> QED
  BY <1>16, <1>17, Zenon DEF UniqueSoFar

LEMMA UniqueAppends ==
  ASSUME IInv, IInv', content' = content, content \in [Lists -> Seq(Elems)], NEW l \in Lists, at.list = l,
         NEW D \in Lists, at.duplicates = D, D # l, UniqueSoFar(l, D), AppendDuplicate
  PROVE  UniqueSoFar(l, D)'
<1>1. pc = "duplicate" /\ pc' = "unique" /\ pc # "reverse" /\ pc' # "reverse" /\ pc' # "duplicate"
      /\ at' = at /\ list_insert(TailOf(D), at.elem)
  BY DEF AppendDuplicate, list_end
<1>2. PICK P \in Seq(Elems), R \in Seq(Elems), kept \in Seq(Elems), gone \in Seq(Elems) :
        UniqueAt(l, D, P, R, kept, gone)
  BY Zenon DEF UniqueSoFar
<1>3. PICK e \in Elems : e = at.elem /\ \A m \in Lists : ~ Has(Interior(m), e)
  <2>1. at.elem \in Elems /\ \A m \in Lists : ~ Has(Interior(m), at.elem)
    BY <1>1, ElemNowhere
  <2> QED
    BY <2>1
<1>4. PICK one \in Seq(Elems) : one = <<e>>
  <2>1. <<e>> \in Seq(Elems)
    OBVIOUS
  <2> QED
    BY <2>1
<1>5. PICK d \in Seq(Elems) : d = Interior(D)
  <2>1. Interior(D) \in Seq(Elems)
    BY <1>1, IdleRow
  <2> QED
    BY <2>1
<1>6. PICK none \in Seq(Elems) : none = <<>> /\ d \o none = d /\ one \o none = one /\ First(none, TailOf(D)) = TailOf(D)
  <2>1. <<>> \in Seq(Elems) /\ d \o <<>> = d /\ one \o <<>> = one
    BY FromFront
  <2>2. First(<<>>, TailOf(D)) = TailOf(D)
    BY DEF First
  <2> QED
    BY <2>1, <2>2, Zenon
<1>7. Rearranged(D, d \o one)
  <2>1. Interior(D) = d \o none /\ list_insert(First(none, TailOf(D)), e)
    BY <1>1, <1>3, <1>5, <1>6, Zenon
  <2>2. Rearranged(D, d \o (<<e>> \o none))
    BY <1>1, <1>3, <2>1, InsertPiece, Zenon
  <2> QED
    BY <1>4, <1>6, <2>2, Zenon
<1>8. Interior(D)' = d \o one /\ \A m \in Lists \ {D} : Interior(m)' = Interior(m)
  BY <1>7, Zenon DEF Rearranged
<1>9. Moved(D, gone)'
  <2>1. D # NULL
    BY NodeFacts
  <2>2. content[D] \o gone = Interior(D) \o <<at.elem>>
    BY <1>1, <1>2, <2>1, Zenon DEF UniqueAt, Moved
  <2>3. content'[D] \o gone = Interior(D)'
    BY <1>3, <1>4, <1>5, <1>8, <2>2, Zenon
  <2> QED
    BY <1>1, <2>3, Zenon DEF Moved
<1>10. Interior(l)' = Interior(l)
  BY <1>8
<1>11. UniqueAt(l, D, P, R, kept, gone)'
  BY <1>1, <1>2, <1>9, <1>10, Zenon DEF UniqueAt
<1>12. Others({l, D})' /\ Distinct(content'[l])
  BY <1>8 DEF Others, UniqueSoFar
<1> QED
  BY <1>11, <1>12, Zenon DEF UniqueSoFar

LEMMA UniqueReturns ==
  ASSUME IInv, IInv', content' = Contents', content \in [Lists -> Seq(Elems)], NEW l \in Lists, at.list = l,
         NEW D \in Lists \cup {NULL}, at.duplicates = D, D # l, UniqueSoFar(l, D), UniqueEnd
  PROVE  Abstract!Unique(l, D)
<1>1. pc = "unique" /\ pc # "reverse" /\ pc' # "reverse" /\ pc # "duplicate" /\ UNCHANGED <<prev, next>>
      /\ next[at.e] = TailOf(l)
  BY DEF UniqueEnd, Return, end, list_end
<1>2. \A m \in Lists : Interior(m)' = Interior(m)
  BY <1>1, LinksStay
<1>3. PICK P \in Seq(Elems), R \in Seq(Elems), kept \in Seq(Elems), gone \in Seq(Elems) :
        UniqueAt(l, D, P, R, kept, gone)
  BY Zenon DEF UniqueSoFar
<1>4. PICK s \in Seq(Elems) : s = content[l] /\ Distinct(s)
  BY DEF UniqueSoFar
<1>5. /\ s = P \o R /\ Interior(l) = kept \o R /\ Len(kept) # 0 /\ Last(kept) = at.e
      /\ Split(s, P, kept, gone) /\ Moved(D, gone)
  BY <1>3, <1>4, Zenon DEF UniqueAt
<1>6. R = <<>>
  <2>1. next[Last(kept)] = First(R, TailOf(l))
    BY <1>1, <1>5, NextOfLast
  <2>2. First(R, TailOf(l)) = TailOf(l)
    BY <1>1, <1>5, <2>1, Zenon
  <2> QED
    BY <2>2, FirstIs
<1>7. s = P /\ Interior(l) = kept
  <2>1. P \o <<>> = P /\ kept \o <<>> = kept
    BY FromFront
  <2> QED
    BY <1>5, <1>6, <2>1, Zenon
<1>8. kept \in Abstract!SetToSeqs(Abstract!ToSet(s) \ Abstract!Repeats(s)) /\ Abstract!InOrder(kept, s)
  <2>1. \A x, y : Abstract!Before(kept, x, y) => Abstract!Before(s, x, y)
    BY <1>5, Zenon DEF Split
  <2>2. Distinct(kept)
    BY <1>4, <2>1, DistinctParts
  <2>3. \A x : x \in Abstract!ToSet(s) \ Abstract!Repeats(s) <=> Has(kept, x)
    BY <1>5, <1>7, InSet DEF Split
  <2>4. kept \in Abstract!SetToSeqs(Abstract!ToSet(s) \ Abstract!Repeats(s))
    BY <2>2, <2>3, SeqOfSet
  <2> QED
    BY <2>1, <2>4 DEF Abstract!InOrder
<1>9. gone \in Abstract!SetToSeqs(Abstract!Repeats(s)) /\ Abstract!InOrder(gone, s)
  <2>1. \A x, y : Abstract!Before(gone, x, y) => Abstract!Before(s, x, y)
    BY <1>5, Zenon DEF Split
  <2>2. Distinct(gone)
    BY <1>4, <2>1, DistinctParts
  <2>3. \A x \in Abstract!Repeats(s) : Has(s, x)
    BY DEF Abstract!Repeats, Has
  <2>4. \A x : x \in Abstract!Repeats(s) <=> Has(gone, x)
    BY <1>5, <1>7, <2>3 DEF Split
  <2>5. gone \in Abstract!SetToSeqs(Abstract!Repeats(s))
    BY <2>2, <2>4, SeqOfSet
  <2> QED
    BY <2>1, <2>5 DEF Abstract!InOrder
<1>10. content' = [m \in Lists |->
         IF m = l THEN kept ELSE IF m = D THEN content[m] \o gone ELSE content[m]]
  <2>1. ASSUME NEW m \in Lists
        PROVE  Interior(m)' = IF m = l THEN kept ELSE IF m = D THEN content[m] \o gone ELSE content[m]
    <3>1. CASE m = l
      BY <1>2, <1>7, <3>1, Zenon
    <3>2. CASE m # l /\ m = D
      <4>1. D # NULL
        BY <3>2, NodeFacts
      <4>2. content[D] \o gone = Interior(D)
        BY <1>1, <1>5, <4>1, Zenon DEF Moved
      <4> QED
        BY <1>2, <3>2, <4>2, Zenon
    <3>3. CASE m # l /\ m # D
      <4>1. Interior(m) = content[m]
        BY <3>3 DEF UniqueSoFar, Others
      <4> QED
        BY <1>2, <3>3, <4>1, Zenon
    <3> QED
      BY <3>1, <3>2, <3>3, Zenon
  <2>2. content' = [m \in Lists |-> Interior(m)']
    BY DEF Contents
  <2> QED
    BY <2>1, <2>2, Zenon
<1> QED
  BY <1>4, <1>8, <1>9, <1>10, Zenon DEF Abstract!Unique
----------------------------------------------------------------------------
(* Every step                                                               *)

(* How far the call on l has come.                                          *)
SoFar(l) ==
  /\ pc = "ordered" => OrderedSoFar(l)
  /\ pc = "reverse" => ReversedSoFar(l, content[l])
  /\ pc \in SortLabels => SortSoFar(l)
  /\ pc \in UniqueLabels => \A D \in Lists \cup {NULL} : at.duplicates = D => UniqueSoFar(l, D)

HistoryInv ==
  /\ IInv /\ content \in [Lists -> Seq(Elems)]
  /\ pc = "idle" => Others({})
  /\ \A l \in Lists : at.list = l => SoFar(l)

(* What a call that returns has done.                                       *)
Done(loop, l, D, e) ==
  CASE loop = "ordered" -> Abstract!InsertOrdered(l, e)
    [] loop = "reverse" -> Abstract!ReverseList(l)
    [] loop = "unique" -> Abstract!Unique(l, D)
    [] OTHER -> Abstract!Sort(l)

(* What a step must keep and do.                                            *)
Right ==
  /\ HistoryInv'
  /\ Abstract!Next \/ content' = content
  /\ pc' = "idle" /\ pc # "idle" => Done(pc, at.list, at.duplicates, at.elem)

(* Steps to the place between calls, and steps of a loop.                   *)
LEMMA ToBetween ==
  ASSUME IInv', pc' = "idle", content' = Contents'
  PROVE  HistoryInv'
<1>1. ASSUME NEW m \in Lists
      PROVE  Interior(m)' \in Seq(Elems)
  <2>1. Row(m, Interior(m))'
    BY RowsHoldNext DEF Rows
  <2> QED
    BY <2>1 DEF Row
<1>2. content' = [m \in Lists |-> Interior(m)']
  BY DEF Contents
<1>3. content' \in [Lists -> Seq(Elems)]
  BY <1>1, <1>2
<1>4. Others({})'
  BY <1>2 DEF Others
<1>5. ASSUME NEW l \in Lists
      PROVE  SoFar(l)'
  BY DEF SoFar, SortLabels, UniqueLabels
<1> QED
  BY <1>3, <1>4, <1>5 DEF HistoryInv

LEMMA ToLoop ==
  ASSUME IInv', pc' # "idle", content' = content, content \in [Lists -> Seq(Elems)],
         NEW l \in Lists, at'.list = l, SoFar(l)'
  PROVE  HistoryInv'
BY DEF HistoryInv

(* Where a loop runs.                                                       *)
LEMMA LoopList ==
  ASSUME IInv, pc # "idle"
  PROVE  /\ at.list \in Lists /\ at.duplicates \in Lists \cup {NULL} /\ NULL \notin Lists
         /\ pc \in UniqueLabels => at.duplicates # at.list
         /\ pc = "duplicate" => at.duplicates \in Lists
         /\ at \in LocalsType
         /\ pc = "ordered" => at.elem \in Elems
<1>1. PICK owner \in [Nodes -> Lists \cup {NULL}], rank \in [Nodes -> Int] : Locals(owner, rank)
  BY DEF IInv, Ordered
<1>2. at \in LocalsType /\ NULL \notin Lists
  BY NodeFacts DEF IInv, Typed
<1> QED
  BY <1>1, <1>2 DEF Locals, LocalsType

LEMMA CallsRight ==
  ASSUME HistoryInv, IInv', content' = (IF pc' = "idle" THEN Contents' ELSE content),
         Insert \/ PushFront \/ PushBack \/ Remove \/ PopFront \/ PopBack \/ Splice
  PROVE  Right
<1>1. pc = "idle" /\ pc' = "idle"
  BY DEF Insert, PushFront, PushBack, Remove, PopFront, PopBack, Splice, Idle
<1>2. content' = Contents'
  BY <1>1
<1>3. Abstract!Next \/ content' = content
  BY <1>2, InsertsAre, RemovesAre, SplicesAre DEF HistoryInv
<1>4. HistoryInv'
  BY <1>1, <1>2, ToBetween
<1> QED
  BY <1>1, <1>3, <1>4 DEF Right

LEMMA EntersRight ==
  ASSUME HistoryInv, IInv', content' = (IF pc' = "idle" THEN Contents' ELSE content), Call
  PROVE  Right
<1>1. PICK l \in Lists :
        \/ list_reverse(l) \/ list_sort(l)
        \/ \E e \in Outside : list_insert_ordered(l, e)
        \/ \E D \in Lists \cup {NULL} : list_unique(l, D)
  BY DEF Call
<1>2. pc = "idle" /\ pc' \in {"reverse", "pass", "ordered", "unique"} /\ at'.list = l
  BY <1>1 DEF list_reverse, list_sort, list_insert_ordered, list_unique, Enter, NoLocals, NewPass
<1>3. content' = content /\ pc' # "idle"
  BY <1>2
<1>4. IInv /\ Others({}) /\ content \in [Lists -> Seq(Elems)]
  BY <1>2 DEF HistoryInv
<1>5. CASE list_reverse(l)
  <2>1. ReversedSoFar(l, content[l])'
    BY <1>3, <1>4, <1>5, ReverseBegins
  <2>2. pc' = "reverse"
    BY <1>5 DEF list_reverse, Enter
  <2>3. SoFar(l)'
    BY <2>1, <2>2 DEF SoFar, SortLabels, UniqueLabels
  <2> QED
    BY <1>2, <1>3, <1>4, <2>3, ToLoop DEF Right
<1>6. CASE list_sort(l)
  <2>1. SortSoFar(l)'
    BY <1>3, <1>4, <1>6, SortBegins
  <2>2. pc' = "pass"
    BY <1>6 DEF list_sort, Enter
  <2>3. SoFar(l)'
    BY <2>1, <2>2 DEF SoFar, SortLabels, UniqueLabels
  <2> QED
    BY <1>2, <1>3, <1>4, <2>3, ToLoop DEF Right
<1>7. ASSUME NEW e \in Outside, list_insert_ordered(l, e)
      PROVE  Right
  <2>1. OrderedSoFar(l)'
    BY <1>3, <1>4, <1>7, OrderedBegins
  <2>2. pc' = "ordered"
    BY <1>7 DEF list_insert_ordered, Enter
  <2>3. SoFar(l)'
    BY <2>1, <2>2 DEF SoFar, SortLabels, UniqueLabels
  <2> QED
    BY <1>2, <1>3, <1>4, <2>3, ToLoop DEF Right
<1>8. ASSUME NEW D \in Lists \cup {NULL}, list_unique(l, D)
      PROVE  Right
  <2>1. UniqueSoFar(l, D)'
    BY <1>3, <1>4, <1>8, UniqueBegins
  <2>2. pc' = "unique" /\ at'.duplicates = D
    BY <1>8 DEF list_unique, Enter, NoLocals
  <2>3. SoFar(l)'
    BY <2>1, <2>2 DEF SoFar, SortLabels, UniqueLabels
  <2> QED
    BY <1>2, <1>3, <1>4, <2>3, ToLoop DEF Right
<1> QED
  BY <1>1, <1>5, <1>6, <1>7, <1>8

LEMMA LoopsRight ==
  ASSUME HistoryInv, IInv', content' = (IF pc' = "idle" THEN Contents' ELSE content),
         OrderedStep \/ ReverseStep \/ UniqueRemoves \/ UniqueKeeps \/ AppendDuplicate
         \/ BeginRun \/ FirstRun \/ BeginSecondRun \/ SecondRun
         \/ BeginMerge \/ MergeKeeps \/ MergeMoves \/ EndMerge \/ NextPass
  PROVE  Right
<1>1. pc # "idle" /\ pc' # "idle" /\ IInv /\ content \in [Lists -> Seq(Elems)]
  BY DEF OrderedStep, ReverseStep, UniqueRemoves, UniqueKeeps, AppendDuplicate, HasNeighbour, Stay,
         BeginRun, FirstRun, BeginSecondRun, SecondRun, BeginMerge, MergeKeeps, MergeMoves, EndMerge,
         NextPass, PassIsOver, HistoryInv
<1>2. content' = content
  BY <1>1
<1>3. PICK l \in Lists : l = at.list
  BY <1>1, LoopList
<1>4. at'.list = l /\ (at'.duplicates = at.duplicates \/ pc' \notin UniqueLabels)
  <2>1. at \in LocalsType
    BY <1>1, LoopList
  <2>2. CASE NextPass
    BY <1>3, <2>2 DEF NextPass, NewPass, NoLocals, UniqueLabels
  <2>3. CASE OrderedStep \/ ReverseStep \/ UniqueRemoves \/ UniqueKeeps \/ AppendDuplicate
    BY <1>3, <2>1, <2>3 DEF OrderedStep, ReverseStep, UniqueRemoves, UniqueKeeps, AppendDuplicate, Stay, LocalsType
  <2>4. CASE \/ BeginRun \/ FirstRun \/ BeginSecondRun \/ SecondRun
             \/ BeginMerge \/ MergeKeeps \/ MergeMoves \/ EndMerge
    BY <1>3, <2>1, <2>4 DEF BeginRun, FirstRun, BeginSecondRun, SecondRun, BeginMerge, MergeKeeps,
         MergeMoves, EndMerge, Stay, LocalsType
  <2> QED
    BY <2>2, <2>3, <2>4
<1>5. SoFar(l)
  BY <1>3 DEF HistoryInv
<1>6. ASSUME OrderedStep
      PROVE  SoFar(l)'
  <2>1. pc = "ordered" /\ pc' = "ordered"
    BY <1>6 DEF OrderedStep, Stay
  <2>2. OrderedSoFar(l)'
    BY <1>1, <1>2, <1>3, <1>5, <1>6, <2>1, OrderedGoesOn DEF SoFar
  <2> QED
    BY <2>1, <2>2 DEF SoFar, SortLabels, UniqueLabels
<1>7. ASSUME ReverseStep
      PROVE  SoFar(l)'
  <2>1. pc = "reverse" /\ pc' = "reverse"
    BY <1>7 DEF ReverseStep, Stay
  <2>2. PICK s : s = content[l] /\ ReversedSoFar(l, s)
    BY <1>5, <2>1 DEF SoFar
  <2>3. ReversedSoFar(l, s)'
    BY <1>1, <1>2, <1>3, <1>7, <2>2, ReverseGoesOn
  <2>4. ReversedSoFar(l, content[l])'
    BY <1>2, <2>2, <2>3, Zenon
  <2> QED
    BY <2>1, <2>4 DEF SoFar, SortLabels, UniqueLabels
<1>8. ASSUME UniqueRemoves \/ UniqueKeeps \/ AppendDuplicate
      PROVE  SoFar(l)'
  <2>1. pc \in UniqueLabels /\ pc' \in UniqueLabels
    BY <1>8 DEF UniqueRemoves, UniqueKeeps, AppendDuplicate, HasNeighbour, Stay, UniqueLabels
  <2>2. PICK D \in Lists \cup {NULL} : D = at.duplicates
    BY <1>1, LoopList
  <2>3. UniqueSoFar(l, D) /\ D # l
    BY <1>1, <1>3, <1>5, <2>1, <2>2, LoopList DEF SoFar
  <2>4. CASE UniqueRemoves
    <3>1. UniqueSoFar(l, D)'
      BY <1>1, <1>2, <1>3, <2>2, <2>3, <2>4, UniqueRemovesOn
    <3> QED
      BY <1>4, <2>1, <2>2, <3>1 DEF SoFar, SortLabels, UniqueLabels
  <2>5. CASE UniqueKeeps
    <3>1. UniqueSoFar(l, D)'
      BY <1>1, <1>2, <1>3, <2>2, <2>3, <2>5, UniqueKeepsOn
    <3> QED
      BY <1>4, <2>1, <2>2, <3>1 DEF SoFar, SortLabels, UniqueLabels
  <2>6. CASE AppendDuplicate
    <3>1. D \in Lists
      BY <1>1, <2>2, <2>6, LoopList DEF AppendDuplicate
    <3>2. UniqueSoFar(l, D)'
      BY <1>1, <1>2, <1>3, <2>2, <2>3, <2>6, <3>1, UniqueAppends
    <3> QED
      BY <1>4, <2>1, <2>2, <3>2 DEF SoFar, SortLabels, UniqueLabels
  <2> QED
    BY <1>8, <2>4, <2>5, <2>6
<1>9. ASSUME \/ BeginRun \/ FirstRun \/ BeginSecondRun \/ SecondRun
             \/ BeginMerge \/ MergeKeeps \/ MergeMoves \/ EndMerge \/ NextPass
      PROVE  SoFar(l)'
  <2>1. pc \in SortLabels /\ pc' \in SortLabels
    BY <1>9 DEF BeginRun, FirstRun, BeginSecondRun, SecondRun, BeginMerge, MergeKeeps, MergeMoves,
         EndMerge, NextPass, PassIsOver, Stay, SortLabels
  <2>2. SortSoFar(l)
    BY <1>5, <2>1 DEF SoFar
  <2>3. SortSoFar(l)'
    BY <1>1, <1>2, <1>3, <1>9, <2>2, SortWalks, MergeBegins, MergeGoesOn, MergeMovesOn
  <2> QED
    BY <2>1, <2>3 DEF SoFar, SortLabels, UniqueLabels
<1>10. SoFar(l)'
  BY <1>6, <1>7, <1>8, <1>9
<1>11. HistoryInv'
  BY <1>1, <1>2, <1>4, <1>10, ToLoop
<1> QED
  BY <1>1, <1>2, <1>11 DEF Right

LEMMA ReturnsRight ==
  ASSUME HistoryInv, IInv', content' = (IF pc' = "idle" THEN Contents' ELSE content),
         OrderedEnd \/ ReverseEnd \/ UniqueEnd \/ SortEnd
  PROVE  Right
<1>1. pc # "idle" /\ pc' = "idle" /\ IInv /\ content \in [Lists -> Seq(Elems)]
  BY DEF OrderedEnd, ReverseEnd, UniqueEnd, SortEnd, PassIsOver, Return, HistoryInv
<1>2. content' = Contents'
  BY <1>1
<1>3. HistoryInv'
  BY <1>1, <1>2, ToBetween
<1>4. PICK l \in Lists : l = at.list /\ SoFar(l)
  BY <1>1, LoopList DEF HistoryInv
<1>5. CASE OrderedEnd
  <2>1. pc = "ordered"
    BY <1>5 DEF OrderedEnd
  <2>2. Abstract!InsertOrdered(l, at.elem)
    BY <1>1, <1>2, <1>4, <1>5, <2>1, OrderedReturns DEF SoFar
  <2>3. Abstract!Next
    BY <2>2, Zenon DEF Abstract!Next, Abstract!InsertOrdered
  <2>4. Done(pc, at.list, at.duplicates, at.elem)
    BY <1>4, <2>1, <2>2 DEF Done
  <2> QED
    BY <1>3, <2>3, <2>4 DEF Right
<1>6. CASE ReverseEnd
  <2>1. pc = "reverse"
    BY <1>6 DEF ReverseEnd
  <2>2. Abstract!ReverseList(l)
    BY <1>1, <1>2, <1>4, <1>6, <2>1, ReverseReturns DEF SoFar
  <2>3. Abstract!Next
    BY <2>2, Zenon DEF Abstract!Next
  <2>4. Done(pc, at.list, at.duplicates, at.elem)
    BY <1>4, <2>1, <2>2 DEF Done
  <2> QED
    BY <1>3, <2>3, <2>4 DEF Right
<1>7. CASE UniqueEnd
  <2>1. pc = "unique" /\ pc \in UniqueLabels
    BY <1>7 DEF UniqueEnd, UniqueLabels
  <2>2. PICK D \in Lists \cup {NULL} : D = at.duplicates /\ D # l
    BY <1>1, <1>4, <2>1, LoopList
  <2>3. Abstract!Unique(l, D)
    BY <1>1, <1>2, <1>4, <1>7, <2>1, <2>2, UniqueReturns DEF SoFar
  <2>4. Abstract!Next
    BY <2>3, Zenon DEF Abstract!Next
  <2>5. Done(pc, at.list, at.duplicates, at.elem)
    BY <1>4, <2>1, <2>2, <2>3 DEF Done
  <2> QED
    BY <1>3, <2>4, <2>5 DEF Right
<1>8. CASE SortEnd
  <2>1. pc \in {"pass", "first_run"} /\ pc \in SortLabels
    BY <1>8 DEF SortEnd, PassIsOver, SortLabels
  <2>2. Abstract!Sort(l)
    BY <1>1, <1>2, <1>4, <1>8, <2>1, SortReturns DEF SoFar
  <2>3. Abstract!Next
    BY <2>2, Zenon DEF Abstract!Next
  <2>4. Done(pc, at.list, at.duplicates, at.elem)
    BY <1>4, <2>1, <2>2 DEF Done
  <2> QED
    BY <1>3, <2>3, <2>4 DEF Right
<1> QED
  BY <1>5, <1>6, <1>7, <1>8

(* A step that leaves everything alone leaves what the calls have done.     *)
LEMMA HistoryStutters ==
  ASSUME HistoryInv, prev' = prev, next' = next, pc' = pc, at' = at, content' = content
  PROVE  HistoryInv'
<1>1. IInv'
  BY StutterInv DEF HistoryInv, vars
<1>2. ASSUME NEW l \in Lists
      PROVE  Interior(l)' = Interior(l)
  BY DEF Interior, list_begin
<1>3. ASSUME NEW X, Others(X)
      PROVE  Others(X)'
  BY <1>2, <1>3 DEF Others
<1>4. ASSUME NEW l \in Lists, SoFar(l)
      PROVE  SoFar(l)'
  <2>1. ASSUME pc = "ordered"
        PROVE  OrderedSoFar(l)'
    <3>1. OrderedSoFar(l)
      BY <1>4, <2>1 DEF SoFar
    <3> QED
      BY <1>2, <1>3, <3>1 DEF OrderedSoFar
  <2>2. ASSUME pc = "reverse"
        PROVE  ReversedSoFar(l, content[l])'
    <3>1. ReversedSoFar(l, content[l])
      BY <1>4, <2>2 DEF SoFar
    <3> QED
      BY <1>3, <3>1 DEF ReversedSoFar, Turning
  <2>3. ASSUME pc \in SortLabels
        PROVE  SortSoFar(l)'
    <3>1. SortSoFar(l)
      BY <1>4, <2>3 DEF SoFar
    <3> QED
      BY <1>2, <1>3, <3>1 DEF SortSoFar, Merging, Runs
  <2>4. ASSUME NEW D \in Lists \cup {NULL}, pc \in UniqueLabels, at.duplicates = D
        PROVE  UniqueSoFar(l, D)'
    <3>1. UniqueSoFar(l, D)
      BY <1>4, <2>4 DEF SoFar
    <3>2. PICK P \in Seq(Elems), R \in Seq(Elems), kept \in Seq(Elems), gone \in Seq(Elems) :
            UniqueAt(l, D, P, R, kept, gone)
      BY <3>1 DEF UniqueSoFar
    <3>3. Moved(D, gone)'
      BY <1>2, <3>2, NodeFacts DEF UniqueAt, Moved
    <3>4. UniqueAt(l, D, P, R, kept, gone)'
      BY <1>2, <3>2, <3>3 DEF UniqueAt
    <3> QED
      BY <1>3, <3>1, <3>4 DEF UniqueSoFar
  <2> QED
    BY <2>1, <2>2, <2>3, <2>4 DEF SoFar
<1>5. pc = "idle" => Others({})'
  BY <1>3 DEF HistoryInv
<1> QED
  BY <1>1, <1>4, <1>5 DEF HistoryInv

(* Every step of the pointers is one on sequences, or none.                 *)
LEMMA HistorySteps ==
  ASSUME HistoryInv, [HistoryNext]_refinementVars
  PROVE  Right
<1>1. CASE HistoryNext
  <2>1. Next /\ content' = (IF pc' = "idle" THEN Contents' ELSE content)
    BY <1>1 DEF HistoryNext
  <2>2. IInv /\ [Next]_vars
    BY <2>1 DEF HistoryInv
  <2>3. IInv'
    BY <2>2, InsertInv, RemoveInv, SpliceInv, EnterInv, OrderedInv, ReverseStepInv, ReverseEndInv,
       UniqueInv, SortWalksInv, MergeMovesInv, StutterInv DEF Next, Loop
  <2> QED
    BY <2>1, <2>3, CallsRight, EntersRight, LoopsRight, ReturnsRight DEF Next, Loop
<1>2. CASE UNCHANGED refinementVars
  <2>1. prev' = prev /\ next' = next /\ pc' = pc /\ at' = at /\ content' = content
    BY <1>2 DEF refinementVars
  <2>2. HistoryInv'
    BY <2>1, HistoryStutters
  <2> QED
    BY <2>1, <2>2 DEF Right
<1> QED
  BY <1>1, <1>2

LEMMA HistoryBegins == HistoryInit => HistoryInv /\ Abstract!Init
<1> SUFFICES ASSUME HistoryInit PROVE HistoryInv /\ Abstract!Init
  OBVIOUS
<1>1. IInv /\ pc = "idle" /\ content = Contents
  BY InitOrder DEF HistoryInit, Init
<1>2. ASSUME NEW l \in Lists
      PROVE  Interior(l) = <<>>
  <2>1. HeadOf(l) \in Nodes /\ HeadOf(l) = <<l, "head">> /\ HeadOf(l)[1] = l /\ TailOf(l) \notin Elems
    BY <1>1, NodeFacts DEF HeadOf
  <2>2. next[HeadOf(l)] = TailOf(l)
    BY <2>1 DEF HistoryInit, Init
  <2>3. PICK s \in Seq(Elems) : s = Interior(l) /\ list_begin(l) = First(s, TailOf(l))
    BY <1>1, IdleRow
  <2>4. First(s, TailOf(l)) = TailOf(l)
    BY <2>2, <2>3 DEF list_begin
  <2>5. s = <<>>
    BY <2>4, <2>1, FirstIs
  <2> QED
    BY <2>3, <2>5
<1>3. content = [l \in Lists |-> Interior(l)]
  BY <1>1 DEF Contents
<1>4. content = [l \in Lists |-> <<>>]
  BY <1>2, <1>3
<1>5. content \in [Lists -> Seq(Elems)]
  <2>1. <<>> \in Seq(Elems)
    BY FromFront
  <2> QED
    BY <1>4, <2>1
<1>6. Others({})
  BY <1>3 DEF Others
<1>7. \A l \in Lists : SoFar(l)
  BY <1>1 DEF SoFar, SortLabels, UniqueLabels
<1> QED
  BY <1>1, <1>4, <1>5, <1>6, <1>7 DEF HistoryInv, Abstract!Init

(* The invariant with the sequences: how far each loop has come.            *)
THEOREM HistoryHolds == HistorySpec => []HistoryInv
<1>1. HistoryInit => HistoryInv
  BY HistoryBegins
<1>2. HistoryInv /\ [HistoryNext]_refinementVars => HistoryInv'
  BY HistorySteps DEF Right
<1> QED
  BY <1>1, <1>2, PTL DEF HistorySpec

(* ImplementsListSpec: whatever the calls do to the links, one at a time or *)
(* over the many steps of a loop, their callers see finite sequences that   *)
(* change by one operation of ListSpec at a time: the links of list_insert, *)
(* list_remove and list_splice, and the loops of list_insert_ordered,       *)
(* list_reverse, list_sort and list_unique, lose and invent no element.     *)
THEOREM ListsAreSequences == HistorySpec => ImplementsListSpec
<1>1. HistoryInit => Abstract!Init
  BY HistoryBegins
<1>2. HistoryInv /\ [HistoryNext]_refinementVars => [Abstract!Next]_content
  BY HistorySteps DEF Right
<1> QED
  BY <1>1, <1>2, HistoryHolds, PTL DEF HistorySpec, ImplementsListSpec, Abstract!Spec

(* LoopsDoTheirJob: the merge sort of list.c loses nothing and is stable,   *)
(* and is in order when the is_sorted it asserts at its end lets it return; *)
(* ordered insertion goes behind the equal elements, list_reverse turns the *)
(* whole sequence, list_unique moves the repeats, in order, to the other    *)
(* list.                                                                    *)
THEOREM LoopsReturnRight == HistorySpec => LoopsDoTheirJob
<1>1. HistoryInv /\ [HistoryNext]_refinementVars =>
        [pc' = "idle" /\ pc # "idle" =>
           CASE pc = "ordered" -> Abstract!InsertOrdered(at.list, at.elem)
             [] pc = "reverse" -> Abstract!ReverseList(at.list)
             [] pc = "unique" -> Abstract!Unique(at.list, at.duplicates)
             [] OTHER -> Abstract!Sort(at.list)]_refinementVars
  BY HistorySteps, Zenon DEF Right, Done
<1> QED
  BY <1>1, HistoryHolds, PTL DEF HistorySpec, LoopsDoTheirJob

----------------------------------------------------------------------------
(* The assertions of list_sort                                              *)

(* No key of s is larger than one of t.                                     *)
Under(s, t) == \A x, y : Has(s, x) /\ Has(t, y) => Key[x] <= Key[y]

LEMMA AscendingJoined ==
  ASSUME NEW s \in Seq(Elems), NEW t \in Seq(Elems)
  PROVE  Ascending(s \o t) <=> Ascending(s) /\ Ascending(t) /\ Under(s, t)
<1>1. PICK u : u = s \o t
  OBVIOUS
<1>2. Holds(s, t, u)
  BY <1>1, HoldsJoined, Zenon
<1>3. Ascending(u) <=> Ascending(s) /\ Ascending(t) /\ Under(s, t)
  BY <1>2 DEF Holds, Ascending, Under
<1> QED
  BY <1>1, <1>3, Zenon

LEMMA AscendingOne ==
  ASSUME NEW e
  PROVE  Ascending(<<e>>) /\ Ascending(<<>>)
BY HoldsOne, HoldsNone, Zenon DEF Ascending

LEMMA UnderNone ==
  ASSUME NEW s
  PROVE  Under(<<>>, s) /\ Under(s, <<>>)
BY HoldsNone, Zenon DEF Under

LEMMA UnderJoined ==
  ASSUME NEW s \in Seq(Elems), NEW t \in Seq(Elems), NEW u
  PROVE  /\ Under(s \o t, u) <=> Under(s, u) /\ Under(t, u)
         /\ Under(u, s \o t) <=> Under(u, s) /\ Under(u, t)
<1>1. PICK v : v = s \o t
  OBVIOUS
<1>2. Holds(s, t, v)
  BY <1>1, HoldsJoined, Zenon
<1>3. Under(v, u) <=> Under(s, u) /\ Under(t, u)
  BY <1>2, Zenon DEF Holds, Under
<1>4. Under(u, v) <=> Under(u, s) /\ Under(u, t)
  BY <1>2, Zenon DEF Holds, Under
<1> QED
  BY <1>1, <1>3, <1>4, Zenon

(* is_sorted says so of a piece that is in order.                           *)
LEMMA SortedSays ==
  ASSUME NEW a, NEW s, NEW b, Passes(a, s, b), \A i \in 2 .. Len(s) : prev[s[i]] = s[i - 1],
         Ascending(s)
  PROVE  is_sorted(a, b)
<1>1. PICK C \in Nat : C = Cardinality(Elems)
  BY ListAssumption, FS_CardinalityType
<1>2. PICK n \in Nat : n = Len(s) /\ DOMAIN s = 1 .. n /\ n <= C
  BY <1>1 DEF Passes
<1>3. s \in Seq(Elems)
  BY DEF Passes
<1>4. PICK e : e = Visits(a, b) /\ DOMAIN e = 0 .. C /\ Visited(e, C, s, b)
  BY <1>1, VisitsAre, Zenon
<1>5. ASSUME NEW k \in 0 .. C, k # 0, e[k] # b
      PROVE  ~ Less(e[k], prev[e[k]])
  <2>1. k < n /\ e[k] = s[k + 1]
    BY <1>2, <1>4, <1>5, Zenon DEF Visited
  <2>2. k \in 1 .. n /\ k + 1 \in 1 .. n /\ k + 1 \in 2 .. n /\ (k + 1) - 1 = k /\ k < k + 1
    BY <1>5, <2>1
  <2>3. prev[s[k + 1]] = s[k]
    BY <1>2, <2>2, Zenon
  <2>4. Key[s[k]] <= Key[s[k + 1]]
    BY <1>2, <2>2, Zenon DEF Ascending, Abstract!Before
  <2>5. Key[s[k]] \in Nat /\ Key[s[k + 1]] \in Nat
    BY <1>2, <1>3, <2>2, ListAssumption
  <2>6. ~ (Key[s[k + 1]] < Key[s[k]])
    BY <2>4, <2>5
  <2> QED
    BY <2>1, <2>3, <2>6, Zenon DEF Less
<1> QED
  BY <1>4, <1>5, Zenon DEF is_sorted

LEMMA PieceInOrder ==
  ASSUME IInv, pc # "reverse", NEW l \in Lists,
         NEW A \in Seq(Elems), NEW Y \in Seq(Elems), NEW B \in Seq(Elems),
         Interior(l) = A \o (Y \o B), Ascending(Y)
  PROVE  is_sorted(First(Y, First(B, TailOf(l))), First(B, TailOf(l)))
<1>1. CASE Len(Y) = 0
  <2>1. PICK b \in Nodes : b = First(B, TailOf(l))
    BY FirstIs, NodeFacts
  <2>2. Y = <<>> /\ First(Y, b) = b
    BY <1>1, Zenon, FirstIs DEF First
  <2>3. Passes(b, Y, b) /\ \A i \in 2 .. Len(Y) : prev[Y[i]] = Y[i - 1]
    <3>1. 0 <= Cardinality(Elems)
      <4>1. Cardinality(Elems) \in Nat
        BY ListAssumption, FS_CardinalityType
      <4> QED
        BY <4>1
    <3> QED
      BY <1>1, <2>2, <3>1 DEF Passes
  <2>4. is_sorted(b, b)
    BY <2>3, SortedSays
  <2> QED
    BY <2>1, <2>2, <2>4, Zenon
<1>2. CASE Len(Y) # 0
  <2>1. PICK b : b = First(B, TailOf(l))
    OBVIOUS
  <2>2. Passes(Y[1], Y, b) /\ \A i \in 2 .. Len(Y) : prev[Y[i]] = Y[i - 1]
    BY <1>2, <2>1, PiecePasses, Zenon
  <2>3. is_sorted(Y[1], b)
    BY <2>2, SortedSays, Zenon
  <2> QED
    BY <1>2, <2>1, <2>3, Zenon DEF First
<1> QED
  BY <1>1, <1>2

LEMMA NotLarger ==
  \A a, b, c \in Nat : b <= c /\ (a < b \/ ~ (b < a)) => a <= c
OBVIOUS

(* The first of what is left goes to the end of m: it is not larger than
   the rest.                                                                *)
Taken(m, one, w, u) ==
  Ascending(m \o one) /\ Ascending(w) /\ Under(m \o one, w) /\ Under(m \o one, u)

LEMMA Takes ==
  ASSUME NEW m \in Seq(Elems), NEW one \in Seq(Elems), NEW w \in Seq(Elems), NEW u \in Seq(Elems),
         Ascending(m), Ascending(one), Ascending(one \o w),
         Under(m, one \o w), Under(m, u), Under(one, u)
  PROVE  Taken(m, one, w, u)
<1>1. Ascending(w) /\ Under(one, w) /\ Under(m, one) /\ Under(m, w)
  BY AscendingJoined, UnderJoined
<1>2. Ascending(m \o one)
  BY <1>1, AscendingJoined
<1>3. Under(m \o one, w) /\ Under(m \o one, u)
  BY <1>1, UnderJoined
<1> QED
  BY <1>1, <1>2, <1>3, Zenon DEF Taken

(* The first element of a piece in order is its least one.                  *)
LEMMA LeastIsFirst ==
  ASSUME NEW v \in Seq(Elems), Len(v) # 0, Ascending(v), NEW x, Has(v, x)
  PROVE  Key[v[1]] <= Key[x] /\ Key[v[1]] \in Nat /\ Key[x] \in Nat /\ v[1] \in Elems
<1>1. PICK n \in Nat : n = Len(v) /\ DOMAIN v = 1 .. n /\ 1 \in 1 .. n
  OBVIOUS
<1>2. PICK i \in 1 .. n : v[i] = x
  BY <1>1 DEF Has
<1>3. v[1] \in Elems /\ x \in Elems
  BY <1>1, <1>2
<1>4. Key[v[1]] \in Nat /\ Key[x] \in Nat
  BY <1>3, ListAssumption
<1>5. CASE i = 1
  BY <1>2, <1>3, <1>4, <1>5
<1>6. CASE i # 1
  <2>1. 1 < i
    BY <1>6
  <2>2. Abstract!Before(v, v[1], x)
    BY <1>1, <1>2, <2>1, Zenon DEF Abstract!Before
  <2> QED
    BY <1>3, <1>4, <2>2 DEF Ascending
<1> QED
  BY <1>5, <1>6

(* And the last one its largest.                                            *)
LEMMA LargestIsLast ==
  ASSUME NEW v \in Seq(Elems), Len(v) # 0, Ascending(v), NEW x, Has(v, x)
  PROVE  Key[x] <= Key[Last(v)] /\ Key[Last(v)] \in Nat /\ Key[x] \in Nat
<1>1. PICK n \in Nat : n = Len(v) /\ DOMAIN v = 1 .. n /\ n \in 1 .. n
  OBVIOUS
<1>2. PICK i \in 1 .. n : v[i] = x
  BY <1>1 DEF Has
<1>3. v[n] \in Elems /\ x \in Elems /\ Last(v) = v[n]
  BY <1>1, <1>2 DEF Last
<1>4. Key[v[n]] \in Nat /\ Key[x] \in Nat
  BY <1>3, ListAssumption
<1>5. CASE i = n
  BY <1>2, <1>3, <1>4, <1>5
<1>6. CASE i # n
  <2>1. i < n
    BY <1>6
  <2>2. Abstract!Before(v, x, v[n])
    BY <1>1, <1>2, <2>1, Zenon DEF Abstract!Before
  <2> QED
    BY <1>3, <1>4, <2>2 DEF Ascending
<1> QED
  BY <1>5, <1>6

(* A run grows by the element behind it, unless that is smaller.            *)
Grown(l, A, Y, x, Y2, Z2) ==
  /\ Interior(l) = A \o (Y2 \o Z2) /\ Len(Y2) # 0 /\ Y2[1] = Y[1] /\ Ascending(Y2)
  /\ next[x] = First(Z2, TailOf(l))

LEMMA RunGrows ==
  ASSUME IInv, pc # "reverse", NEW l \in Lists,
         NEW A \in Seq(Elems), NEW Y \in Seq(Elems), NEW Z \in Seq(Elems),
         Interior(l) = A \o (Y \o Z), Len(Y) # 0, Ascending(Y),
         NEW x, x = First(Z, TailOf(l)), x # TailOf(l), ~ Less(x, prev[x])
  PROVE  \E Y2 \in Seq(Elems), Z2 \in Seq(Elems) : Grown(l, A, Y, x, Y2, Z2)
<1>1. x \in Elems /\ \E Z2 \in Seq(Elems) : Z = <<x>> \o Z2
  BY FirstIs, Zenon
<1>2. PICK Z2 \in Seq(Elems) : Z = <<x>> \o Z2
  BY <1>1
<1>3. PICK one \in Seq(Elems) : one = <<x>>
  <2>1. <<x>> \in Seq(Elems)
    BY <1>1
  <2> QED
    BY <2>1
<1>4. PICK Y2 \in Seq(Elems) : Y2 = Y \o one
  <2>1. Y \o one \in Seq(Elems)
    BY Joined
  <2> QED
    BY <2>1, Zenon
<1>5. Y \o Z = Y2 \o Z2
  <2>1. Regroup(Y, one, Z2)
    BY Regrouped, Zenon
  <2> QED
    BY <1>2, <1>3, <1>4, <2>1, Zenon DEF Regroup
<1>6. Len(Y2) # 0 /\ Y2[1] = Y[1]
  <2>1. Len(Y \o one) = Len(Y) + Len(one) /\ Len(Y) \in Nat /\ Len(one) \in Nat
        /\ \A i \in 1 .. Len(Y) : (Y \o one)[i] = Y[i]
    BY Joined
  <2>2. 1 \in 1 .. Len(Y) /\ Len(Y) + Len(one) # 0
    BY <2>1
  <2> QED
    BY <1>4, <2>1, <2>2, Zenon
<1>7. prev[x] = Last(Y)
  <2>1. Row(l, A \o (Y \o Z))
    BY RowsHold DEF Rows
  <2>2. RowParts(l, A, Y, Z)
    BY <2>1, RowCutTwice, Zenon
  <2> QED
    BY <2>2, Zenon DEF RowParts
<1>8. Under(Y, one)
  <2>1. ASSUME NEW y, Has(Y, y)
        PROVE  Key[y] <= Key[x]
    <3>1. Key[y] <= Key[Last(Y)] /\ Key[Last(Y)] \in Nat /\ Key[y] \in Nat
      BY <2>1, LargestIsLast
    <3>2. Key[x] \in Nat /\ ~ (Key[x] < Key[Last(Y)])
      BY <1>1, <1>7, ListAssumption DEF Less
    <3> QED
      BY <3>1, <3>2
  <2> QED
    BY <1>3, <2>1, HoldsOne DEF Under
<1>9. Ascending(Y2)
  <2>1. Ascending(one)
    BY <1>3, AscendingOne
  <2> QED
    BY <1>4, <1>8, <2>1, AscendingJoined
<1>10. next[x] = First(Z2, TailOf(l))
  <2>1. PICK AY \in Seq(Elems) : AY = A \o Y
    <3>1. A \o Y \in Seq(Elems)
      BY Joined
    <3> QED
      BY <3>1, Zenon
  <2>2. Regroup(A, Y, Z)
    BY Regrouped, Zenon
  <2>3. Stands(l, AY, x, Z2)
    BY <1>2, <2>1, <2>2, Zenon DEF Regroup, Stands
  <2> QED
    BY <1>1, <2>3, NextOf, Zenon
<1>11. Grown(l, A, Y, x, Y2, Z2)
  BY <1>5, <1>6, <1>9, <1>10, Zenon DEF Grown
<1> QED
  BY <1>11

(* Nothing is left of a piece that begins where the next one does.          *)
LEMMA NoneLeft ==
  ASSUME IInv, pc # "reverse", NEW l \in Lists,
         NEW A \in Seq(Elems), NEW Y \in Seq(Elems), NEW B \in Seq(Elems),
         Interior(l) = A \o (Y \o B), First(Y, First(B, TailOf(l))) = First(B, TailOf(l))
  PROVE  Y = <<>>
<1>1. CASE Len(Y) = 0
  BY <1>1, FirstIs
<1>2. CASE Len(Y) # 0
  <2>1. Row(l, A \o (Y \o B))
    BY RowsHold DEF Rows
  <2>2. RowParts(l, A, Y, B)
    BY <1>2, <2>1, RowCutTwice, Zenon
  <2> QED
    BY <1>2, <2>2, Zenon DEF RowParts, First
<1> QED
  BY <1>1, <1>2

(* P is the output of the pass: nothing before the first run, in order      *)
(* after it. The pass goes on with Q, or with the runs Y and Z.             *)
Counted(P) == at.runs # 0 /\ (at.runs = 1 => P = <<>>)

PassAt(l, P, Q) ==
  /\ Interior(l) = P \o Q /\ at.a0 = First(Q, TailOf(l))
  /\ at.runs = 0 => P = <<>>
  /\ at.runs = 1 => Ascending(P)

FirstAt(l, P, Y, Z) ==
  /\ Interior(l) = P \o (Y \o Z) /\ Len(Y) # 0 /\ Ascending(Y) /\ Counted(P)
  /\ at.a0 = Y[1] /\ at.a1b0 = First(Z, TailOf(l))

SecondAt(l, P, Y, Z, W) ==
  /\ Interior(l) = P \o (Y \o (Z \o W)) /\ Len(Y) # 0 /\ Len(Z) # 0
  /\ Ascending(Y) /\ Ascending(Z) /\ Counted(P)
  /\ at.a0 = Y[1] /\ at.a1b0 = Z[1] /\ at.b1 = First(W, TailOf(l))

(* M is merged; of the runs, Y and Z are left.                              *)
MergeAt(l, P, M, Y, Z, W) ==
  /\ Interior(l) = P \o (M \o (Y \o (Z \o W))) /\ Counted(P)
  /\ Ascending(M) /\ Ascending(Y) /\ Ascending(Z) /\ Under(M, Y) /\ Under(M, Z)
  /\ at.a0 = First(Y, First(Z, First(W, TailOf(l))))
  /\ at.a1b0 = First(Z, First(W, TailOf(l))) /\ at.b1 = First(W, TailOf(l))

PassSoFar(l) ==
  /\ pc = "pass" => \E P, Q \in Seq(Elems) : PassAt(l, P, Q)
  /\ pc = "first_run" => \E P, Y, Z \in Seq(Elems) : FirstAt(l, P, Y, Z)
  /\ pc = "second_run" => \E P, Y, Z, W \in Seq(Elems) : SecondAt(l, P, Y, Z, W)
  /\ pc = "merge" => \E P, M, Y, Z, W \in Seq(Elems) : MergeAt(l, P, M, Y, Z, W)

LEMMA PassBegins ==
  ASSUME IInv, IInv', NEW l \in Lists, pc # "reverse", pc' = "pass", UNCHANGED <<prev, next>>, at' = NewPass(l)
  PROVE  PassSoFar(l)'
<1>1. \A m \in Lists : Interior(m)' = Interior(m)
  BY LinksStay
<1>2. PICK s \in Seq(Elems) : s = Interior(l) /\ list_begin(l) = First(s, TailOf(l))
  <2>1. Interior(l) \in Seq(Elems) /\ list_begin(l) = First(Interior(l), TailOf(l))
    BY IdleRow
  <2> QED
    BY <2>1
<1>3. PICK none \in Seq(Elems) : none = <<>> /\ none \o s = s
  <2>1. <<>> \in Seq(Elems) /\ <<>> \o s = s
    BY FromFront
  <2> QED
    BY <2>1
<1>4. at'.a0 = list_begin(l) /\ at'.runs = 0
  BY DEF NewPass, NoLocals
<1>5. PassAt(l, none, s)'
  BY <1>1, <1>2, <1>3, <1>4 DEF PassAt
<1> QED
  BY <1>5 DEF PassSoFar

LEMMA RunBegins ==
  ASSUME IInv, IInv', NEW l \in Lists, at.list = l, PassSoFar(l), BeginRun
  PROVE  PassSoFar(l)'
<1>1. pc = "pass" /\ pc # "reverse" /\ pc' = "first_run" /\ pc' # "reverse" /\ UNCHANGED <<prev, next>>
      /\ at.a0 # TailOf(l)
  BY DEF BeginRun, end, list_end
<1>2. at'.a0 = at.a0 /\ at'.a1b0 = next[at.a0] /\ at'.runs = at.runs + 1 /\ at.runs \in Nat
  BY DEF BeginRun, IInv, Typed, LocalsType
<1>3. \A m \in Lists : Interior(m)' = Interior(m)
  BY <1>1, LinksStay
<1>4. PICK P \in Seq(Elems), Q \in Seq(Elems) : PassAt(l, P, Q)
  BY <1>1 DEF PassSoFar
<1>5. at.a0 \in Elems /\ \E Z \in Seq(Elems) : Q = <<at.a0>> \o Z
  <2>1. at.a0 = First(Q, TailOf(l))
    BY <1>4, Zenon DEF PassAt
  <2> QED
    BY <1>1, <2>1, FirstIs, Zenon
<1>6. PICK x \in Elems : x = at.a0
  BY <1>5
<1>7. PICK Z \in Seq(Elems) : Q = <<x>> \o Z
  BY <1>5, <1>6
<1>8. PICK Y \in Seq(Elems) : Y = <<x>> /\ Len(Y) # 0 /\ Y[1] = x
  <2>1. <<x>> \in Seq(Elems) /\ Len(<<x>>) # 0 /\ <<x>>[1] = x
    OBVIOUS
  <2> QED
    BY <2>1
<1>9. next[x] = First(Z, TailOf(l))
  <2>1. Stands(l, P, x, Z)
    BY <1>4, <1>7, Zenon DEF PassAt, Stands
  <2> QED
    BY <1>1, <2>1, NextOf, Zenon
<1>10. Counted(P)'
  <2>1. at'.runs # 0 /\ (at'.runs = 1 => at.runs = 0)
    BY <1>2
  <2> QED
    BY <1>4, <2>1, Zenon DEF PassAt, Counted
<1>11. Ascending(Y)
  BY <1>8, AscendingOne
<1>12. FirstAt(l, P, Y, Z)'
  BY <1>2, <1>3, <1>4, <1>6, <1>7, <1>8, <1>9, <1>10, <1>11, Zenon DEF FirstAt, PassAt
<1> QED
  BY <1>1, <1>12 DEF PassSoFar

LEMMA FirstRunGrows ==
  ASSUME IInv, IInv', NEW l \in Lists, at.list = l, PassSoFar(l), FirstRun
  PROVE  PassSoFar(l)'
<1>1. /\ pc = "first_run" /\ pc # "reverse" /\ pc' = "first_run" /\ pc' # "reverse" /\ UNCHANGED <<prev, next>>
      /\ at.a1b0 # TailOf(l) /\ ~ Less(at.a1b0, prev[at.a1b0])
  BY DEF FirstRun, Stay, EndsRun, end, list_end
<1>2. at'.a0 = at.a0 /\ at'.a1b0 = next[at.a1b0] /\ at'.runs = at.runs
  BY DEF FirstRun, Stay, IInv, Typed, LocalsType
<1>3. \A m \in Lists : Interior(m)' = Interior(m)
  BY <1>1, LinksStay
<1>4. PICK P \in Seq(Elems), Y \in Seq(Elems), Z \in Seq(Elems) : FirstAt(l, P, Y, Z)
  BY <1>1 DEF PassSoFar
<1>5. PICK Y2 \in Seq(Elems), Z2 \in Seq(Elems) : Grown(l, P, Y, at.a1b0, Y2, Z2)
  <2>1. /\ Interior(l) = P \o (Y \o Z) /\ Len(Y) # 0 /\ Ascending(Y)
        /\ at.a1b0 = First(Z, TailOf(l))
    BY <1>4, Zenon DEF FirstAt
  <2> QED
    BY <1>1, <2>1, RunGrows, Zenon
<1>6. Counted(P)'
  BY <1>2, <1>4, Zenon DEF FirstAt, Counted
<1>7. FirstAt(l, P, Y2, Z2)'
  BY <1>2, <1>3, <1>4, <1>5, <1>6, Zenon DEF FirstAt, Grown
<1> QED
  BY <1>1, <1>7 DEF PassSoFar

LEMMA SecondRunBegins ==
  ASSUME IInv, IInv', NEW l \in Lists, at.list = l, PassSoFar(l), BeginSecondRun
  PROVE  PassSoFar(l)'
<1>1. /\ pc = "first_run" /\ pc # "reverse" /\ pc' = "second_run" /\ pc' # "reverse" /\ UNCHANGED <<prev, next>>
      /\ at.a1b0 # TailOf(l)
  BY DEF BeginSecondRun, end, list_end
<1>2. at'.a0 = at.a0 /\ at'.a1b0 = at.a1b0 /\ at'.b1 = next[at.a1b0] /\ at'.runs = at.runs
  BY DEF BeginSecondRun, IInv, Typed, LocalsType
<1>3. \A m \in Lists : Interior(m)' = Interior(m)
  BY <1>1, LinksStay
<1>4. PICK P \in Seq(Elems), Y \in Seq(Elems), Q \in Seq(Elems) : FirstAt(l, P, Y, Q)
  BY <1>1 DEF PassSoFar
<1>5. at.a1b0 \in Elems /\ \E W \in Seq(Elems) : Q = <<at.a1b0>> \o W
  <2>1. at.a1b0 = First(Q, TailOf(l))
    BY <1>4, Zenon DEF FirstAt
  <2> QED
    BY <1>1, <2>1, FirstIs, Zenon
<1>6. PICK x \in Elems : x = at.a1b0
  BY <1>5
<1>7. PICK W \in Seq(Elems) : Q = <<x>> \o W
  BY <1>5, <1>6
<1>8. PICK Z \in Seq(Elems) : Z = <<x>> /\ Len(Z) # 0 /\ Z[1] = x
  <2>1. <<x>> \in Seq(Elems) /\ Len(<<x>>) # 0 /\ <<x>>[1] = x
    OBVIOUS
  <2> QED
    BY <2>1
<1>9. next[x] = First(W, TailOf(l))
  <2>1. PICK PY \in Seq(Elems) : PY = P \o Y
    <3>1. P \o Y \in Seq(Elems)
      BY Joined
    <3> QED
      BY <3>1, Zenon
  <2>2. Regroup(P, Y, Q)
    BY Regrouped, Zenon
  <2>3. Stands(l, PY, x, W)
    BY <1>4, <1>7, <2>1, <2>2, Zenon DEF FirstAt, Regroup, Stands
  <2> QED
    BY <1>1, <2>3, NextOf, Zenon
<1>10. Counted(P)'
  BY <1>2, <1>4, Zenon DEF FirstAt, Counted
<1>11. Ascending(Z)
  BY <1>8, AscendingOne
<1>12. SecondAt(l, P, Y, Z, W)'
  BY <1>2, <1>3, <1>4, <1>6, <1>7, <1>8, <1>9, <1>10, <1>11, Zenon DEF FirstAt, SecondAt
<1> QED
  BY <1>1, <1>12 DEF PassSoFar

LEMMA SecondRunGrows ==
  ASSUME IInv, IInv', NEW l \in Lists, at.list = l, PassSoFar(l), SecondRun
  PROVE  PassSoFar(l)'
<1>1. /\ pc = "second_run" /\ pc # "reverse" /\ pc' = "second_run" /\ pc' # "reverse" /\ UNCHANGED <<prev, next>>
      /\ at.b1 # TailOf(l) /\ ~ Less(at.b1, prev[at.b1])
  BY DEF SecondRun, Stay, EndsRun, end, list_end
<1>2. at'.a0 = at.a0 /\ at'.a1b0 = at.a1b0 /\ at'.b1 = next[at.b1] /\ at'.runs = at.runs
  BY DEF SecondRun, Stay, IInv, Typed, LocalsType
<1>3. \A m \in Lists : Interior(m)' = Interior(m)
  BY <1>1, LinksStay
<1>4. PICK P \in Seq(Elems), Y \in Seq(Elems), Z \in Seq(Elems), W \in Seq(Elems) : SecondAt(l, P, Y, Z, W)
  BY <1>1 DEF PassSoFar
<1>5. PICK PY \in Seq(Elems) : PY = P \o Y
  <2>1. P \o Y \in Seq(Elems)
    BY Joined
  <2> QED
    BY <2>1, Zenon
<1>6. PICK Z2 \in Seq(Elems), W2 \in Seq(Elems) : Grown(l, PY, Z, at.b1, Z2, W2)
  <2>1. PICK ZW \in Seq(Elems) : ZW = Z \o W
    <3>1. Z \o W \in Seq(Elems)
      BY Joined
    <3> QED
      BY <3>1, Zenon
  <2>2. Regroup(P, Y, ZW)
    BY Regrouped, Zenon
  <2>3. /\ Interior(l) = PY \o (Z \o W) /\ Len(Z) # 0 /\ Ascending(Z)
        /\ at.b1 = First(W, TailOf(l))
    BY <1>4, <1>5, <2>1, <2>2, Zenon DEF SecondAt, Regroup
  <2> QED
    BY <1>1, <2>3, RunGrows, Zenon
<1>7. Interior(l) = P \o (Y \o (Z2 \o W2))
  <2>1. PICK ZW \in Seq(Elems) : ZW = Z2 \o W2
    <3>1. Z2 \o W2 \in Seq(Elems)
      BY Joined
    <3> QED
      BY <3>1, Zenon
  <2>2. Regroup(P, Y, ZW)
    BY Regrouped, Zenon
  <2> QED
    BY <1>5, <1>6, <2>1, <2>2, Zenon DEF Grown, Regroup
<1>8. Counted(P)'
  BY <1>2, <1>4, Zenon DEF SecondAt, Counted
<1>9. SecondAt(l, P, Y, Z2, W2)'
  BY <1>2, <1>3, <1>4, <1>6, <1>7, <1>8, Zenon DEF SecondAt, Grown
<1> QED
  BY <1>1, <1>9 DEF PassSoFar

LEMMA RunsMeet ==
  ASSUME IInv, IInv', NEW l \in Lists, at.list = l, PassSoFar(l), BeginMerge
  PROVE  PassSoFar(l)'
<1>1. pc = "second_run" /\ pc # "reverse" /\ pc' = "merge" /\ pc' # "reverse" /\ UNCHANGED <<prev, next, at>>
  BY DEF BeginMerge
<1>2. \A m \in Lists : Interior(m)' = Interior(m)
  BY <1>1, LinksStay
<1>3. PICK P \in Seq(Elems), Y \in Seq(Elems), Z \in Seq(Elems), W \in Seq(Elems) : SecondAt(l, P, Y, Z, W)
  BY <1>1 DEF PassSoFar
<1>4. PICK YR \in Seq(Elems) : YR = Y \o (Z \o W)
  <2>1. Z \o W \in Seq(Elems)
    BY Joined
  <2>2. Y \o (Z \o W) \in Seq(Elems)
    BY <2>1, Joined, Zenon
  <2> QED
    BY <2>2, Zenon
<1>5. PICK none \in Seq(Elems) : none = <<>> /\ none \o YR = YR
  <2>1. <<>> \in Seq(Elems) /\ <<>> \o YR = YR
    BY FromFront
  <2> QED
    BY <2>1
<1>6. Ascending(none) /\ Under(none, Y) /\ Under(none, Z)
  BY <1>5, AscendingOne, UnderNone
<1>7. First(Y, First(Z, First(W, TailOf(l)))) = Y[1] /\ First(Z, First(W, TailOf(l))) = Z[1]
  BY <1>3, Zenon DEF SecondAt, First
<1>8. MergeAt(l, P, none, Y, Z, W)
  BY <1>3, <1>4, <1>5, <1>6, <1>7, Zenon DEF SecondAt, MergeAt
<1>9. MergeAt(l, P, none, Y, Z, W)'
  BY <1>1, <1>2, <1>8, Zenon DEF MergeAt, Counted
<1> QED
  BY <1>1, <1>9 DEF PassSoFar

LEMMA MergeTakesFirst ==
  ASSUME IInv, IInv', NEW l \in Lists, at.list = l, PassSoFar(l), MergeKeeps
  PROVE  PassSoFar(l)'
<1>1. /\ pc = "merge" /\ pc # "reverse" /\ pc' = "merge" /\ pc' # "reverse" /\ UNCHANGED <<prev, next>>
      /\ at.a0 # at.a1b0 /\ at.a1b0 # at.b1 /\ ~ (Key[at.a1b0] < Key[at.a0])
  BY DEF MergeKeeps, Stay, Less
<1>2. at'.a0 = next[at.a0] /\ at'.a1b0 = at.a1b0 /\ at'.b1 = at.b1 /\ at'.runs = at.runs
  BY DEF MergeKeeps, Stay, IInv, Typed, LocalsType
<1>3. \A m \in Lists : Interior(m)' = Interior(m)
  BY <1>1, LinksStay
<1>4. PICK P \in Seq(Elems), M \in Seq(Elems), Y \in Seq(Elems), Z \in Seq(Elems), W \in Seq(Elems) :
        MergeAt(l, P, M, Y, Z, W)
  BY <1>1 DEF PassSoFar
<1>5. Len(Y) # 0 /\ at.a0 = Y[1] /\ Len(Z) # 0 /\ at.a1b0 = Z[1]
  BY <1>1, <1>4, Zenon DEF MergeAt, First
<1>6. Y[1] \in Elems /\ \E Y2 \in Seq(Elems) : Y = <<Y[1]>> \o Y2
  BY <1>5, FromFront
<1>7. PICK y \in Elems : y = at.a0
  BY <1>5, <1>6
<1>8. PICK Y2 \in Seq(Elems) : Y = <<y>> \o Y2
  BY <1>5, <1>6, <1>7
<1>9. PICK one \in Seq(Elems) : one = <<y>>
  <2>1. <<y>> \in Seq(Elems)
    OBVIOUS
  <2> QED
    BY <2>1
<1>10. PICK R \in Seq(Elems) : R = Z \o W
  <2>1. Z \o W \in Seq(Elems)
    BY Joined
  <2> QED
    BY <2>1, Zenon
<1>11. PICK YR \in Seq(Elems) : YR = Y2 \o R
  <2>1. Y2 \o R \in Seq(Elems)
    BY Joined
  <2> QED
    BY <2>1, Zenon
<1>12. PICK M2 \in Seq(Elems) : M2 = M \o one
  <2>1. M \o one \in Seq(Elems)
    BY Joined
  <2> QED
    BY <2>1, Zenon
<1>13. PICK PM \in Seq(Elems) : PM = P \o M
  <2>1. P \o M \in Seq(Elems)
    BY Joined
  <2> QED
    BY <2>1, Zenon
<1>14. PICK oneYR \in Seq(Elems) : oneYR = one \o YR /\ oneYR = Y \o R
  <2>1. one \o YR \in Seq(Elems)
    BY Joined
  <2>2. Regroup(one, Y2, R)
    BY Regrouped, Zenon
  <2> QED
    BY <1>8, <1>9, <1>11, <2>1, <2>2, Zenon DEF Regroup
<1>15. Interior(l) = P \o (M \o oneYR)
  BY <1>4, <1>10, <1>14, Zenon DEF MergeAt
<1>16. Interior(l) = P \o (M2 \o YR)
  <2>1. Regroup(M, one, YR)
    BY Regrouped, Zenon
  <2> QED
    BY <1>12, <1>14, <1>15, <2>1, Zenon DEF Regroup
<1>17. next[y] = First(Y2, First(R, TailOf(l)))
  <2>1. Regroup(P, M, oneYR)
    BY Regrouped, Zenon
  <2>2. Stands(l, PM, y, YR)
    BY <1>9, <1>13, <1>14, <1>15, <2>1, Zenon DEF Regroup, Stands
  <2>3. next[y] = First(YR, TailOf(l))
    BY <1>1, <2>2, NextOf, Zenon
  <2>4. First(Y2 \o R, TailOf(l)) = First(Y2, First(R, TailOf(l)))
    BY EndsJoined
  <2> QED
    BY <1>11, <2>3, <2>4, Zenon
<1>18. First(R, TailOf(l)) = First(Z, First(W, TailOf(l)))
  BY <1>10, EndsJoined
<1>19. ASSUME NEW x, Has(Z, x)
       PROVE  Key[y] <= Key[x]
  <2>1. Ascending(Z)
    BY <1>4, Zenon DEF MergeAt
  <2>2. Key[Z[1]] <= Key[x] /\ Key[Z[1]] \in Nat /\ Key[x] \in Nat
    BY <1>5, <1>19, <2>1, LeastIsFirst
  <2>3. Key[y] \in Nat /\ ~ (Key[Z[1]] < Key[y])
    BY <1>1, <1>5, <1>7, ListAssumption
  <2> QED
    BY <2>2, <2>3, NotLarger, Zenon
<1>20. Ascending(M2) /\ Ascending(Y2) /\ Under(M2, Y2) /\ Under(M2, Z)
  <2>1. Ascending(M) /\ Ascending(Y) /\ Under(M, Y) /\ Under(M, Z) /\ Y = one \o Y2
    BY <1>4, <1>8, <1>9, Zenon DEF MergeAt
  <2>2. Under(one, Z)
    BY <1>9, <1>19, HoldsOne DEF Under
  <2>3. Ascending(one)
    BY <1>9, AscendingOne, Zenon
  <2>4. Taken(M, one, Y2, Z)
    BY <2>1, <2>2, <2>3, Takes, Zenon
  <2> QED
    BY <1>12, <2>4, Zenon DEF Taken
<1>21. Counted(P)'
  BY <1>2, <1>4, Zenon DEF MergeAt, Counted
<1>22. Interior(l) = P \o (M2 \o (Y2 \o (Z \o W)))
  BY <1>10, <1>11, <1>16, Zenon
<1>23. MergeAt(l, P, M2, Y2, Z, W)'
  BY <1>2, <1>3, <1>4, <1>7, <1>17, <1>18, <1>20, <1>21, <1>22, Zenon DEF MergeAt
<1> QED
  BY <1>1, <1>23 DEF PassSoFar

LEMMA MergeTakesSecond ==
  ASSUME IInv, IInv', NEW l \in Lists, at.list = l, PassSoFar(l), MergeMoves
  PROVE  PassSoFar(l)'
<1>1. /\ pc = "merge" /\ pc # "reverse" /\ pc' = "merge" /\ pc' # "reverse"
      /\ at.a0 # at.a1b0 /\ at.a1b0 # at.b1 /\ Key[at.a1b0] < Key[at.a0]
      /\ list_splice(at.a0, at.a1b0, next[at.a1b0])
  BY DEF MergeMoves, Stay, Less
<1>2. at'.a0 = at.a0 /\ at'.a1b0 = next[at.a1b0] /\ at'.b1 = at.b1 /\ at'.runs = at.runs
  BY DEF MergeMoves, Stay, IInv, Typed, LocalsType
<1>3. PICK P \in Seq(Elems), M \in Seq(Elems), Y \in Seq(Elems), Z \in Seq(Elems), W \in Seq(Elems) :
        MergeAt(l, P, M, Y, Z, W)
  BY <1>1 DEF PassSoFar
<1>4. Len(Y) # 0 /\ at.a0 = Y[1] /\ Len(Z) # 0 /\ at.a1b0 = Z[1]
  BY <1>1, <1>3, Zenon DEF MergeAt, First
<1>5. Z[1] \in Elems /\ \E Z2 \in Seq(Elems) : Z = <<Z[1]>> \o Z2
  BY <1>4, FromFront
<1>6. PICK z \in Elems : z = at.a1b0
  BY <1>4, <1>5
<1>7. PICK Z2 \in Seq(Elems) : Z = <<z>> \o Z2
  BY <1>4, <1>5, <1>6
<1>8. PICK one \in Seq(Elems) : one = <<z>> /\ Len(one) # 0 /\ one[1] = z
  <2>1. <<z>> \in Seq(Elems) /\ Len(<<z>>) # 0 /\ <<z>>[1] = z
    OBVIOUS
  <2> QED
    BY <2>1
<1>9. PICK R \in Seq(Elems) : R = Z2 \o W
  <2>1. Z2 \o W \in Seq(Elems)
    BY Joined
  <2> QED
    BY <2>1, Zenon
<1>10. PICK oneR \in Seq(Elems) : oneR = one \o R /\ oneR = Z \o W
  <2>1. one \o R \in Seq(Elems)
    BY Joined
  <2>2. Regroup(one, Z2, W)
    BY Regrouped, Zenon
  <2> QED
    BY <1>7, <1>8, <1>9, <2>1, <2>2, Zenon DEF Regroup
<1>11. PICK YoneR \in Seq(Elems) : YoneR = Y \o oneR
  <2>1. Y \o oneR \in Seq(Elems)
    BY Joined
  <2> QED
    BY <2>1, Zenon
<1>12. PICK PM \in Seq(Elems) : PM = P \o M
  <2>1. P \o M \in Seq(Elems)
    BY Joined
  <2> QED
    BY <2>1, Zenon
<1>13. PICK PMY \in Seq(Elems) : PMY = PM \o Y
  <2>1. PM \o Y \in Seq(Elems)
    BY Joined
  <2> QED
    BY <2>1, Zenon
<1>14. PICK YR \in Seq(Elems) : YR = Y \o R
  <2>1. Y \o R \in Seq(Elems)
    BY Joined
  <2> QED
    BY <2>1, Zenon
<1>15. PICK oneYR \in Seq(Elems) : oneYR = one \o YR
  <2>1. one \o YR \in Seq(Elems)
    BY Joined
  <2> QED
    BY <2>1, Zenon
<1>16. PICK M2 \in Seq(Elems) : M2 = M \o one
  <2>1. M \o one \in Seq(Elems)
    BY Joined
  <2> QED
    BY <2>1, Zenon
<1>17. Interior(l) = PM \o (Y \o (one \o R))
  <2>1. Interior(l) = P \o (M \o YoneR)
    BY <1>3, <1>10, <1>11, Zenon DEF MergeAt
  <2>2. Regroup(P, M, YoneR)
    BY Regrouped, Zenon
  <2> QED
    BY <1>10, <1>11, <1>12, <2>1, <2>2, Zenon DEF Regroup
<1>18. next[z] = First(R, TailOf(l))
  <2>1. Regroup(PM, Y, oneR)
    BY Regrouped, Zenon
  <2>2. Stands(l, PMY, z, R)
    BY <1>8, <1>10, <1>13, <1>17, <2>1, Zenon DEF Regroup, Stands
  <2> QED
    BY <1>1, <2>2, NextOf, Zenon
<1>19. Rearranged(l, PM \o (one \o (Y \o R)))
  <2>1. list_splice(Y[1], one[1], First(R, TailOf(l)))
    BY <1>1, <1>4, <1>6, <1>8, <1>18, Zenon
  <2> QED
    BY <1>1, <1>4, <1>8, <1>17, <2>1, SpliceFront, Zenon
<1>20. PM \o (one \o (Y \o R)) = P \o (M2 \o YR)
  <2>1. Regroup(P, M, oneYR) /\ Regroup(M, one, YR)
    BY Regrouped, Zenon
  <2> QED
    BY <1>12, <1>14, <1>15, <1>16, <2>1, Zenon DEF Regroup
<1>21. Interior(l)' = P \o (M2 \o (Y \o (Z2 \o W)))
  BY <1>9, <1>14, <1>19, <1>20, Zenon DEF Rearranged
<1>22. ASSUME NEW x, Has(Y, x)
       PROVE  Key[z] <= Key[x]
  <2>1. Ascending(Y)
    BY <1>3, Zenon DEF MergeAt
  <2>2. Key[Y[1]] <= Key[x] /\ Key[Y[1]] \in Nat /\ Key[x] \in Nat
    BY <1>4, <1>22, <2>1, LeastIsFirst
  <2>3. Key[z] \in Nat /\ Key[z] < Key[Y[1]]
    BY <1>1, <1>4, <1>6, ListAssumption
  <2> QED
    BY <2>2, <2>3, NotLarger, Zenon
<1>23. Ascending(M2) /\ Ascending(Z2) /\ Under(M2, Z2) /\ Under(M2, Y)
  <2>1. Ascending(M) /\ Ascending(Z) /\ Under(M, Y) /\ Under(M, Z) /\ Z = one \o Z2
    BY <1>3, <1>7, <1>8, Zenon DEF MergeAt
  <2>2. Under(one, Y)
    BY <1>8, <1>22, HoldsOne DEF Under
  <2>3. Ascending(one)
    BY <1>8, AscendingOne, Zenon
  <2>4. Taken(M, one, Z2, Y)
    BY <2>1, <2>2, <2>3, Takes, Zenon
  <2> QED
    BY <1>16, <2>4, Zenon DEF Taken
<1>24. Counted(P)' /\ Ascending(Y)
  BY <1>2, <1>3, Zenon DEF MergeAt, Counted
<1>25. First(R, TailOf(l)) = First(Z2, First(W, TailOf(l)))
  BY <1>9, EndsJoined
<1>26. First(Y, First(Z2, First(W, TailOf(l)))) = at.a0
  BY <1>4, Zenon DEF First
<1>27. at'.a1b0 = First(Z2, First(W, TailOf(l))) /\ at'.b1 = First(W, TailOf(l)) /\ at'.a0 = at.a0
  BY <1>2, <1>3, <1>6, <1>18, <1>25, Zenon DEF MergeAt
<1>28. MergeAt(l, P, M2, Y, Z2, W)'
  BY <1>21, <1>23, <1>24, <1>26, <1>27, Zenon DEF MergeAt
<1> QED
  BY <1>1, <1>28 DEF PassSoFar

LEMMA MergeIsOver ==
  ASSUME IInv, IInv', NEW l \in Lists, at.list = l, PassSoFar(l), EndMerge
  PROVE  PassSoFar(l)'
<1>1. /\ pc = "merge" /\ pc # "reverse" /\ pc' = "pass" /\ pc' # "reverse" /\ UNCHANGED <<prev, next>>
      /\ at.a0 = at.a1b0 \/ at.a1b0 = at.b1
  BY DEF EndMerge
<1>2. at'.a0 = at.b1 /\ at'.runs = at.runs
  BY DEF EndMerge, IInv, Typed, LocalsType
<1>3. \A m \in Lists : Interior(m)' = Interior(m)
  BY <1>1, LinksStay
<1>4. PICK P \in Seq(Elems), M \in Seq(Elems), Y \in Seq(Elems), Z \in Seq(Elems), W \in Seq(Elems) :
        MergeAt(l, P, M, Y, Z, W)
  BY <1>1 DEF PassSoFar
<1>5. PICK R \in Seq(Elems) : R = Z \o W
  <2>1. Z \o W \in Seq(Elems)
    BY Joined
  <2> QED
    BY <2>1, Zenon
<1>6. PICK PM \in Seq(Elems), YZ \in Seq(Elems) : PM = P \o M /\ YZ = Y \o Z
  <2>1. P \o M \in Seq(Elems) /\ Y \o Z \in Seq(Elems)
    BY Joined
  <2> QED
    BY <2>1, Zenon
<1>7. PICK YR \in Seq(Elems), PMY \in Seq(Elems), E \in Seq(Elems) :
        YR = Y \o R /\ PMY = PM \o Y /\ E = M \o YZ
  <2>1. Y \o R \in Seq(Elems) /\ PM \o Y \in Seq(Elems) /\ M \o YZ \in Seq(Elems)
    BY Joined
  <2> QED
    BY <2>1, Zenon
<1>8. PICK P2 \in Seq(Elems), YZW \in Seq(Elems) : P2 = P \o E /\ YZW = YZ \o W
  <2>1. P \o E \in Seq(Elems) /\ YZ \o W \in Seq(Elems)
    BY Joined
  <2> QED
    BY <2>1, Zenon
<1>9. Interior(l) = P \o (M \o YR)
  BY <1>4, <1>5, <1>7, Zenon DEF MergeAt
<1>10. YR = YZW
  <2>1. Regroup(Y, Z, W)
    BY Regrouped, Zenon
  <2> QED
    BY <1>5, <1>6, <1>7, <1>8, <2>1, Zenon DEF Regroup
<1>11. Interior(l) = P2 \o W
  <2>1. PICK EW \in Seq(Elems) : EW = E \o W
    <3>1. E \o W \in Seq(Elems)
      BY Joined
    <3> QED
      BY <3>1, Zenon
  <2>2. Regroup(M, YZ, W) /\ Regroup(P, E, W)
    BY Regrouped, Zenon
  <2> QED
    BY <1>7, <1>8, <1>9, <1>10, <2>1, <2>2, Zenon DEF Regroup
<1>12. Y = <<>> \/ Z = <<>>
  <2>1. Interior(l) = PM \o (Y \o R) /\ Interior(l) = PMY \o (Z \o W)
    <3>1. Regroup(P, M, YR) /\ Regroup(PM, Y, R)
      BY Regrouped, Zenon
    <3> QED
      BY <1>5, <1>6, <1>7, <1>9, <3>1, Zenon DEF Regroup
  <2>2. First(R, TailOf(l)) = First(Z, First(W, TailOf(l)))
    BY <1>5, EndsJoined
  <2>3. CASE at.a0 = at.a1b0
    <3>1. First(Y, First(R, TailOf(l))) = First(R, TailOf(l))
      BY <1>4, <2>2, <2>3, Zenon DEF MergeAt
    <3> QED
      BY <1>1, <2>1, <3>1, NoneLeft, Zenon
  <2>4. CASE at.a1b0 = at.b1
    <3>1. First(Z, First(W, TailOf(l))) = First(W, TailOf(l))
      BY <1>4, <2>4, Zenon DEF MergeAt
    <3> QED
      BY <1>1, <2>1, <3>1, NoneLeft, Zenon
  <2> QED
    BY <1>1, <2>3, <2>4
<1>13. Ascending(E)
  <2>1. Ascending(M) /\ Ascending(Y) /\ Ascending(Z) /\ Under(M, Y) /\ Under(M, Z)
    BY <1>4, Zenon DEF MergeAt
  <2>2. Under(Y, Z)
    BY <1>12, UnderNone, Zenon
  <2>3. Ascending(YZ)
    BY <1>6, <2>1, <2>2, AscendingJoined, Zenon
  <2>4. Under(M, YZ)
    BY <1>6, <2>1, UnderJoined, Zenon
  <2> QED
    BY <1>7, <2>1, <2>3, <2>4, AscendingJoined, Zenon
<1>14. at.runs # 0 /\ (at.runs = 1 => Ascending(P2))
  <2>1. Counted(P)
    BY <1>4, Zenon DEF MergeAt
  <2>2. <<>> \o E = E
    BY FromFront
  <2> QED
    BY <1>8, <1>13, <2>1, <2>2, Zenon DEF Counted
<1>15. PassAt(l, P2, W)'
  BY <1>2, <1>3, <1>4, <1>11, <1>14, Zenon DEF PassAt, MergeAt
<1> QED
  BY <1>1, <1>15 DEF PassSoFar

(* What the assertions of list_sort and of inplace_merge say.               *)
SortAsserts ==
  /\ pc = "second_run" /\ EndsRun(at.b1) => is_sorted(at.a0, at.a1b0) /\ is_sorted(at.a1b0, at.b1)
  /\ PassIsOver /\ at.runs <= 1 => is_sorted(list_begin(at.list), end)

SortInv == IInv /\ \A l \in Lists : at.list = l => PassSoFar(l)

LEMMA AssertsHold == SortInv => SortAsserts
<1> SUFFICES ASSUME SortInv PROVE SortAsserts
  OBVIOUS
<1>1. IInv
  BY DEF SortInv
<1>2. ASSUME pc = "second_run"
      PROVE  is_sorted(at.a0, at.a1b0) /\ is_sorted(at.a1b0, at.b1)
  <2>1. pc # "reverse"
    BY <1>2
  <2>2. PICK l \in Lists : l = at.list /\ PassSoFar(l)
    BY <1>1, <1>2, LoopList DEF SortInv
  <2>3. PICK P \in Seq(Elems), Y \in Seq(Elems), Z \in Seq(Elems), W \in Seq(Elems) : SecondAt(l, P, Y, Z, W)
    BY <1>2, <2>2 DEF PassSoFar
  <2>4. PICK R \in Seq(Elems), PY \in Seq(Elems) : R = Z \o W /\ PY = P \o Y
    <3>1. Z \o W \in Seq(Elems) /\ P \o Y \in Seq(Elems)
      BY Joined
    <3> QED
      BY <3>1, Zenon
  <2>5. Interior(l) = P \o (Y \o R) /\ Interior(l) = PY \o (Z \o W)
    <3>1. Regroup(P, Y, R)
      BY Regrouped, Zenon
    <3> QED
      BY <2>3, <2>4, <3>1, Zenon DEF SecondAt, Regroup
  <2>6. First(R, TailOf(l)) = First(Z, First(W, TailOf(l)))
    BY <2>4, EndsJoined
  <2>7. First(Y, First(R, TailOf(l))) = at.a0 /\ First(R, TailOf(l)) = at.a1b0 /\ First(W, TailOf(l)) = at.b1
        /\ Ascending(Y) /\ Ascending(Z)
    BY <2>3, <2>6, Zenon DEF SecondAt, First
  <2>8. is_sorted(First(Y, First(R, TailOf(l))), First(R, TailOf(l)))
    BY <1>1, <2>1, <2>5, <2>7, PieceInOrder, Zenon
  <2>9. is_sorted(First(Z, First(W, TailOf(l))), First(W, TailOf(l)))
    BY <1>1, <2>1, <2>5, <2>7, PieceInOrder, Zenon
  <2> QED
    BY <2>6, <2>7, <2>8, <2>9, Zenon
<1>3. ASSUME PassIsOver, at.runs <= 1
      PROVE  is_sorted(list_begin(at.list), end)
  <2>1. pc \in {"pass", "first_run"} /\ pc # "reverse" /\ pc # "idle"
    BY <1>3 DEF PassIsOver
  <2>2. PICK l \in Lists : l = at.list /\ PassSoFar(l)
    BY <1>1, <2>1, LoopList DEF SortInv
  <2>3. at.runs = 0 \/ at.runs = 1
    BY <1>1, <1>3 DEF IInv, Typed, LocalsType
  <2>4. PICK s \in Seq(Elems) : s = Interior(l) /\ list_begin(l) = First(s, TailOf(l))
    <3>1. Interior(l) \in Seq(Elems) /\ list_begin(l) = First(Interior(l), TailOf(l))
      BY <1>1, <2>1, IdleRow
    <3> QED
      BY <3>1
  <2>5. PICK none \in Seq(Elems) : none = <<>> /\ none \o s = s /\ s \o none = s
    <3>1. <<>> \in Seq(Elems) /\ <<>> \o s = s /\ s \o <<>> = s
      BY FromFront
    <3> QED
      BY <3>1
  <2>6. CASE pc = "pass"
    <3>1. PICK P \in Seq(Elems), Q \in Seq(Elems) : PassAt(l, P, Q)
      BY <2>2, <2>6 DEF PassSoFar
    <3>2. First(Q, TailOf(l)) = TailOf(l)
      BY <1>3, <2>2, <2>6, <3>1 DEF PassIsOver, PassAt, end, list_end
    <3>3. Q = <<>>
      BY <3>2, FirstIs
    <3>4. s = P
      <4>1. P \o <<>> = P
        BY FromFront
      <4> QED
        BY <2>4, <3>1, <3>3, <4>1, Zenon DEF PassAt
    <3> QED
      <4>1. Ascending(<<>>)
        BY AscendingOne
      <4>2. Ascending(s)
        BY <2>3, <3>1, <3>4, <4>1, Zenon DEF PassAt
      <4>3. First(none, TailOf(l)) = TailOf(l)
        BY <2>5 DEF First
      <4>4. Interior(l) = none \o (s \o none)
        BY <2>4, <2>5, Zenon
      <4>5. is_sorted(First(s, First(none, TailOf(l))), First(none, TailOf(l)))
        BY <1>1, <2>1, <4>2, <4>4, PieceInOrder, Zenon
      <4> QED
        BY <2>2, <2>4, <4>3, <4>5, Zenon DEF end, list_end
  <2>7. CASE pc = "first_run"
    <3>1. PICK P \in Seq(Elems), Y \in Seq(Elems), Z \in Seq(Elems) : FirstAt(l, P, Y, Z)
      BY <2>2, <2>7 DEF PassSoFar
    <3>2. First(Z, TailOf(l)) = TailOf(l)
      BY <1>3, <2>2, <2>7, <3>1 DEF PassIsOver, FirstAt, end, list_end
    <3>3. Z = <<>> /\ P = <<>>
      BY <2>3, <3>1, <3>2, FirstIs DEF FirstAt, Counted
    <3>4. s = Y
      <4>1. Y \o <<>> = Y /\ <<>> \o Y = Y
        BY FromFront
      <4> QED
        BY <2>4, <3>1, <3>3, <4>1, Zenon DEF FirstAt
    <3> QED
      <4>1. Ascending(s)
        BY <3>1, <3>4, Zenon DEF FirstAt
      <4>2. First(none, TailOf(l)) = TailOf(l)
        BY <2>5 DEF First
      <4>3. Interior(l) = none \o (s \o none)
        BY <2>4, <2>5, Zenon
      <4>4. is_sorted(First(s, First(none, TailOf(l))), First(none, TailOf(l)))
        BY <1>1, <2>1, <4>1, <4>3, PieceInOrder, Zenon
      <4> QED
        BY <2>2, <2>4, <4>2, <4>4, Zenon DEF end, list_end
  <2> QED
    BY <2>1, <2>6, <2>7
<1> QED
  BY <1>2, <1>3 DEF SortAsserts
(* Where list_sort does not go on, there is no pass to speak of.            *)
LEMMA NoPass ==
  ASSUME NEW l \in Lists, pc' \notin SortLabels
  PROVE  PassSoFar(l)'
BY DEF PassSoFar, SortLabels

LEMMA PassStutters ==
  ASSUME UNCHANGED vars, NEW l \in Lists, PassSoFar(l)
  PROVE  PassSoFar(l)'
<1>1. prev' = prev /\ next' = next /\ pc' = pc /\ at' = at
  BY DEF vars
<1>2. Interior(l)' = Interior(l)
  BY <1>1 DEF Interior, list_begin
<1>3. ASSUME NEW P \in Seq(Elems), Counted(P)
      PROVE  Counted(P)'
  BY <1>1, <1>3 DEF Counted
<1>4. ASSUME NEW P \in Seq(Elems), NEW Q \in Seq(Elems), PassAt(l, P, Q)
      PROVE  PassAt(l, P, Q)'
  BY <1>1, <1>2, <1>4, Zenon DEF PassAt
<1>5. ASSUME NEW P \in Seq(Elems), NEW Y \in Seq(Elems), NEW Z \in Seq(Elems), FirstAt(l, P, Y, Z)
      PROVE  FirstAt(l, P, Y, Z)'
  BY <1>1, <1>2, <1>3, <1>5, Zenon DEF FirstAt
<1>6. ASSUME NEW P \in Seq(Elems), NEW Y \in Seq(Elems), NEW Z \in Seq(Elems), NEW W \in Seq(Elems),
             SecondAt(l, P, Y, Z, W)
      PROVE  SecondAt(l, P, Y, Z, W)'
  BY <1>1, <1>2, <1>3, <1>6, Zenon DEF SecondAt
<1>7. ASSUME NEW P \in Seq(Elems), NEW M \in Seq(Elems), NEW Y \in Seq(Elems), NEW Z \in Seq(Elems),
             NEW W \in Seq(Elems), MergeAt(l, P, M, Y, Z, W)
      PROVE  MergeAt(l, P, M, Y, Z, W)'
  BY <1>1, <1>2, <1>3, <1>7, Zenon DEF MergeAt
<1>8. pc' = "pass" => \E P, Q \in Seq(Elems) : PassAt(l, P, Q)'
  BY <1>1, <1>4 DEF PassSoFar
<1>9. pc' = "first_run" => \E P, Y, Z \in Seq(Elems) : FirstAt(l, P, Y, Z)'
  BY <1>1, <1>5 DEF PassSoFar
<1>10. pc' = "second_run" => \E P, Y, Z, W \in Seq(Elems) : SecondAt(l, P, Y, Z, W)'
  BY <1>1, <1>6 DEF PassSoFar
<1>11. pc' = "merge" => \E P, M, Y, Z, W \in Seq(Elems) : MergeAt(l, P, M, Y, Z, W)'
  BY <1>1, <1>7 DEF PassSoFar
<1> QED
  BY <1>8, <1>9, <1>10, <1>11 DEF PassSoFar

LEMMA SortSteps == SortInv /\ [Next]_vars => SortInv'
<1> SUFFICES ASSUME SortInv, [Next]_vars PROVE SortInv'
  OBVIOUS
<1>1. IInv /\ IInv'
  BY InsertInv, RemoveInv, SpliceInv, EnterInv, OrderedInv, ReverseStepInv, ReverseEndInv,
     UniqueInv, SortWalksInv, MergeMovesInv, StutterInv DEF SortInv, Next, Loop
<1> SUFFICES ASSUME NEW l \in Lists, at'.list = l PROVE PassSoFar(l)'
  BY <1>1 DEF SortInv
<1>2. CASE UNCHANGED vars
  <2>1. at.list = l
    BY <1>2 DEF vars
  <2> QED
    BY <1>2, <2>1, PassStutters DEF SortInv
<1>3. CASE Insert \/ PushFront \/ PushBack \/ Remove \/ PopFront \/ PopBack \/ Splice
  <2>1. pc' = "idle"
    BY <1>3 DEF Insert, PushFront, PushBack, Remove, PopFront, PopBack, Splice, Idle
  <2> QED
    BY <2>1, NoPass DEF SortLabels
<1>4. CASE Call
  <2>1. PICK m \in Lists :
          \/ list_reverse(m) \/ list_sort(m)
          \/ \E e \in Outside : list_insert_ordered(m, e)
          \/ \E duplicates \in Lists \cup {NULL} : list_unique(m, duplicates)
    BY <1>4 DEF Call
  <2>2. CASE list_sort(m)
    <3>1. pc # "reverse" /\ pc' = "pass" /\ UNCHANGED <<prev, next>> /\ at' = NewPass(m)
      BY <2>2 DEF list_sort, Enter
    <3>2. m = l
      BY <3>1 DEF NewPass, NoLocals
    <3> QED
      BY <1>1, <3>1, <3>2, PassBegins
  <2>3. CASE ~ list_sort(m)
    <3>1. pc' \notin SortLabels
      BY <2>1, <2>3 DEF list_reverse, list_insert_ordered, list_unique, Enter, SortLabels
    <3> QED
      BY <3>1, NoPass
  <2> QED
    BY <2>2, <2>3
<1>5. CASE OrderedStep \/ OrderedEnd \/ ReverseStep \/ ReverseEnd \/ UniqueRemoves \/ UniqueKeeps
           \/ AppendDuplicate \/ UniqueEnd \/ SortEnd
  <2>1. pc' \notin SortLabels
    BY <1>5 DEF OrderedStep, OrderedEnd, ReverseStep, ReverseEnd, UniqueRemoves, UniqueKeeps,
       AppendDuplicate, UniqueEnd, SortEnd, Return, Stay, HasNeighbour, SortLabels
  <2> QED
    BY <2>1, NoPass
<1>6. CASE NextPass
  <2>1. pc # "reverse" /\ pc' = "pass" /\ UNCHANGED <<prev, next>> /\ at' = NewPass(at.list)
    BY <1>6 DEF NextPass, PassIsOver
  <2>2. at.list = l
    BY <2>1 DEF NewPass, NoLocals
  <2> QED
    BY <1>1, <2>1, <2>2, PassBegins
<1>7. CASE BeginRun \/ FirstRun \/ BeginSecondRun \/ SecondRun \/ BeginMerge
           \/ MergeKeeps \/ MergeMoves \/ EndMerge
  <2>1. at'.list = at.list
    BY <1>1, <1>7 DEF BeginRun, FirstRun, BeginSecondRun, SecondRun, BeginMerge, MergeKeeps,
       MergeMoves, EndMerge, Stay, IInv, Typed, LocalsType
  <2>2. at.list = l /\ PassSoFar(l)
    BY <2>1 DEF SortInv
  <2> QED
    BY <1>1, <1>7, <2>2, RunBegins, FirstRunGrows, SecondRunBegins, SecondRunGrows, RunsMeet,
       MergeTakesFirst, MergeTakesSecond, MergeIsOver
<1> QED
  BY <1>2, <1>3, <1>4, <1>5, <1>6, <1>7 DEF Next, Loop

(* What list_sort and inplace_merge assert always holds: the two runs they  *)
(* are about to merge are each in order, and a pass that found at most one  *)
(* run leaves the list in order. So neither assertion stops the program,    *)
(* and list_sort returns a sorted list because of its passes, not because   *)
(* of the check behind them.                                                *)
THEOREM SortAssertionsHold == Spec => []SortAsserts
<1>1. Init => SortInv
  BY InitOrder DEF Init, SortInv, PassSoFar
<1>2. SortInv /\ [Next]_vars => SortInv'
  BY SortSteps
<1>3. SortInv => SortAsserts
  BY AssertsHold
<1> QED
  BY <1>1, <1>2, <1>3, PTL DEF Spec

=============================================================================
