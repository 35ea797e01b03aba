------------------------------ MODULE ListSpec ------------------------------
(***************************************************************************)
(* What lib/list.h promises its callers: lists are finite sequences, every  *)
(* element is in at most one of them, and each call changes the sequences   *)
(* in one step. The pointers are in module List.                            *)
(***************************************************************************)
EXTENDS Naturals, SequencesExt

CONSTANTS
  Lists, Elems,
  Key,     \* what the callers' list_less_func compares
  NULL     \* list_unique without a list for the duplicates

VARIABLE content

Outside == Elems \ UNION { ToSet(content[l]) : l \in Lists }

Init == content = [l \in Lists |-> <<>>]

(* Also push_front and push_back; the tail is the position after the last.  *)
Insert(l, i, e) ==
  /\ e \in Outside
  /\ i \in 1 .. Len(content[l]) + 1
  /\ content' = [content EXCEPT ![l] = InsertAt(@, i, e)]

(* Also pop_front and pop_back.                                             *)
Delete(l, i) ==
  /\ i \in DOMAIN content[l]
  /\ content' = [content EXCEPT ![l] = RemoveAt(@, i)]

(* Positions i to j of one list move in front of position k of another ...  *)
Splice(m, i, j, l, k) ==
  /\ l # m /\ i <= j
  /\ content' = [content EXCEPT
       ![m] = SubSeq(@, 1, i - 1) \o SubSeq(@, j + 1, Len(@)),
       ![l] = SubSeq(@, 1, k - 1) \o SubSeq(content[m], i, j) \o SubSeq(@, k, Len(@))]

(* ... or of the same one, which must not lie among them.                   *)
SpliceWithin(l, i, j, k) ==
  /\ i <= j /\ k \notin i .. j
  /\ content' = [content EXCEPT ![l] =
       IF k < i
       THEN SubSeq(@, 1, k - 1) \o SubSeq(@, i, j) \o SubSeq(@, k, i - 1) \o SubSeq(@, j + 1, Len(@))
       ELSE SubSeq(@, 1, i - 1) \o SubSeq(@, j + 1, k - 1) \o SubSeq(@, i, j) \o SubSeq(@, k, Len(@))]

ReverseList(l) == content' = [content EXCEPT ![l] = Reverse(@)]

Before(s, x, y) == \E i, j \in DOMAIN s : i < j /\ s[i] = x /\ s[j] = y

(* The elements of t are in the order that they have in s, ...              *)
InOrder(t, s) == \A x, y \in ToSet(t) : Before(t, x, y) => Before(s, x, y)

(* ... or in that of their keys, and those with equal keys as in s.         *)
Sorted(t, s) ==
  \A x, y \in ToSet(t) : Before(t, x, y) =>
    Key[x] < Key[y] \/ (Key[x] = Key[y] /\ Before(s, x, y))

Sort(l) ==
  \E t \in SetToSeqs(ToSet(content[l])) :
    /\ Sorted(t, content[l])
    /\ content' = [content EXCEPT ![l] = t]

(* Behind all elements that are not greater.                                *)
InsertOrdered(l, e) ==
  /\ e \in Outside
  /\ Sorted(content[l], content[l])
  /\ \E t \in SetToSeqs(ToSet(content[l]) \cup {e}) :
       /\ Sorted(t, Append(content[l], e))
       /\ content' = [content EXCEPT ![l] = t]

(* The first of each group of neighbours with the same key stays; the rest  *)
(* go to the end of the other list, in their order.                         *)
Repeats(s) == { s[i] : i \in { j \in 2 .. Len(s) : Key[s[j]] = Key[s[j - 1]] } }

Unique(l, duplicates) ==
  LET s == content[l] IN
  /\ duplicates # l
  /\ \E kept \in SetToSeqs(ToSet(s) \ Repeats(s)), gone \in SetToSeqs(Repeats(s)) :
       /\ InOrder(kept, s) /\ InOrder(gone, s)
       /\ content' = [m \in Lists |->
            IF m = l THEN kept ELSE IF m = duplicates THEN content[m] \o gone ELSE content[m]]

Next ==
  \/ \E l \in Lists :
       \/ \E i \in 1 .. Len(content[l]) + 1, e \in Outside : Insert(l, i, e)
       \/ \E i \in DOMAIN content[l] : Delete(l, i)
       \/ ReverseList(l) \/ Sort(l)
       \/ \E e \in Outside : InsertOrdered(l, e)
       \/ \E duplicates \in Lists \cup {NULL} : Unique(l, duplicates)
       \/ \E i, j \in DOMAIN content[l], k \in 1 .. Len(content[l]) + 1 : SpliceWithin(l, i, j, k)
  \/ \E m, l \in Lists :
       \E i, j \in DOMAIN content[m], k \in 1 .. Len(content[l]) + 1 : Splice(m, i, j, l, k)

Spec == Init /\ [][Next]_content

=============================================================================
