-------------------------------- MODULE List --------------------------------
(***************************************************************************)
(* The doubly linked list of lib/list.c, pointer by pointer.                *)
(*                                                                          *)
(* A call without a loop is one action. reverse, sort and unique change     *)
(* links as they go; one action is one iteration, `at' holds the locals.    *)
(* Callers respect what the comments in list.c ask of them. An ASSERT is a  *)
(* guard: where one fails there is no step, and CallsReturn is violated.    *)
(***************************************************************************)
EXTENDS Naturals, Sequences, FiniteSets

CONSTANTS
  Lists, Elems,
  Key,         \* Key[e]: what the callers' list_less_func compares
  MaxRemoved,  \* bound: elements that were removed and not put back
  NULL

HeadOf(l) == <<l, "head">>
TailOf(l) == <<l, "tail">>
Nodes == Elems \cup { HeadOf(l) : l \in Lists } \cup { TailOf(l) : l \in Lists }

ASSUME ListAssumption ==
  /\ IsFiniteSet(Elems) /\ Key \in [Elems -> Nat]
  /\ MaxRemoved \in Nat
  /\ NULL \notin Nodes /\ NULL \notin Lists
  /\ \A l \in Lists : HeadOf(l) \notin Elems /\ TailOf(l) \notin Elems

VARIABLES
  prev, next,   \* the links of every node
  pc,           \* which loop runs
  at            \* its locals

vars == <<prev, next, pc, at>>

NoLocals == [list |-> NULL, duplicates |-> NULL, e |-> NULL, elem |-> NULL,
             a0 |-> NULL, a1b0 |-> NULL, b1 |-> NULL, runs |-> 0]

(* is_head or is_interior, which list_next asserts; is_interior or is_tail, *)
(* which list_prev asserts.                                                 *)
has_next(n) == n \in Nodes /\ next[n] # NULL
has_prev(n) == n \in Nodes /\ prev[n] # NULL
is_interior(n) == has_prev(n) /\ has_next(n)

Less(a, b) == Key[a] < Key[b]

list_begin(l) == next[HeadOf(l)]
list_end(l) == TailOf(l)
list_empty(l) == list_begin(l) = list_end(l)

(* list_init of every list. Elements lie in their owners' memory.           *)
Init ==
  /\ next = [n \in Nodes |-> IF \E l \in Lists : n = HeadOf(l) THEN TailOf(n[1]) ELSE NULL]
  /\ prev = [n \in Nodes |-> IF \E l \in Lists : n = TailOf(l) THEN HeadOf(n[1]) ELSE NULL]
  /\ pc = "idle"
  /\ at = NoLocals

----------------------------------------------------------------------------
(* Links                                                                    *)

list_insert(before, elem) ==
  /\ has_prev(before)
  /\ next' = [next EXCEPT ![elem] = before, ![prev[before]] = elem]
  /\ prev' = [prev EXCEPT ![elem] = prev[before], ![before] = elem]

(* Repairs one direction only.                                              *)
list_remove_forward(elem) ==
  /\ is_interior(elem)
  /\ next' = [next EXCEPT ![prev[elem]] = next[elem]]
  /\ UNCHANGED prev

list_remove(elem) ==
  /\ is_interior(elem)
  /\ next' = [next EXCEPT ![prev[elem]] = next[elem]]
  /\ prev' = [prev EXCEPT ![next[elem]] = prev[elem]]

(* Reads before's prev link too early.                                      *)
list_splice_early(before, first, last) ==
  LET back == prev[last] IN
  IF first = last THEN UNCHANGED <<prev, next>>
  ELSE
    /\ has_prev(before) /\ has_prev(last)
    /\ is_interior(first) /\ is_interior(back)
    /\ next' = [next EXCEPT ![prev[first]] = next[back], ![back] = before,
                            ![prev[before]] = first]
    /\ prev' = [prev EXCEPT ![next[back]] = prev[first], ![first] = prev[before],
                            ![before] = back]

(* last is the one behind the last that moves. before may be that one: its  *)
(* prev link has been written when it is read.                              *)
list_splice(before, first, last) ==
  LET back == prev[last]
      unlinked_next == [next EXCEPT ![prev[first]] = next[back]]
      unlinked_prev == [prev EXCEPT ![next[back]] = prev[first]]
  IN
  IF first = last THEN UNCHANGED <<prev, next>>
  ELSE
    /\ has_prev(before)
    /\ has_prev(last)
    /\ is_interior(first) /\ is_interior(back)
    /\ next' = [unlinked_next EXCEPT ![back] = before, ![unlinked_prev[before]] = first]
    /\ prev' = [unlinked_prev EXCEPT ![first] = unlinked_prev[before], ![before] = back]

----------------------------------------------------------------------------
(* What callers know: which elements are in a list, and in which order.     *)

(* The elements of l from front to back; a walk that does not end is cut.   *)
Interior(l) ==
  LET node[k \in 0 .. Cardinality(Elems)] ==
        IF k = 0 THEN list_begin(l)
        ELSE LET n == node[k - 1] IN IF n \in Elems THEN next[n] ELSE n
      length == Cardinality({ k \in 0 .. Cardinality(Elems) - 1 : node[k] \in Elems })
  IN  [i \in 1 .. length |-> node[i - 1]]

Contents == [l \in Lists |-> Interior(l)]
In(e, l) == \E i \in DOMAIN Interior(l) : Interior(l)[i] = e
Outside == { e \in Elems : \A l \in Lists : ~ In(e, l) }

(* list_remove leaves the links of what it removes as they were.            *)
MayRemove == Cardinality({ e \in Outside : prev[e] # NULL }) < MaxRemoved

(* Calls that only read. Their loops follow next from a on, up to b: where  *)
(* they are after k iterations. One that does not end is cut.               *)
Visits(a, b) ==
  LET e[k \in 0 .. Cardinality(Elems)] ==
        IF k = 0 THEN a
        ELSE IF e[k - 1] # b /\ has_next(e[k - 1]) THEN next[e[k - 1]] ELSE e[k - 1]
  IN  e

(* Whether the elements from a on, up to but without b, are in order.       *)
is_sorted(a, b) ==
  LET e == Visits(a, b) IN
  \A k \in DOMAIN e \ {0} : e[k] # b => ~ Less(e[k], prev[e[k]])

list_size(l) ==
  LET e == Visits(list_begin(l), list_end(l)) IN
  Cardinality({ k \in DOMAIN e : e[k] # list_end(l) })

(* Takes the last of several maxima.                                        *)
list_max_last(l) ==
  LET e == Visits(list_begin(l), list_end(l))
      max[k \in 0 .. Cardinality(Elems)] ==
        IF k = 0 THEN e[0]
        ELSE IF e[k] # list_end(l) /\ ~ Less(e[k], max[k - 1]) THEN e[k] ELSE max[k - 1]
  IN  max[Cardinality(Elems)]

list_max(l) ==
  LET e == Visits(list_begin(l), list_end(l))
      max[k \in 0 .. Cardinality(Elems)] ==
        IF k = 0 THEN e[0]
        ELSE IF e[k] # list_end(l) /\ Less(max[k - 1], e[k]) THEN e[k] ELSE max[k - 1]
  IN  max[Cardinality(Elems)]

list_min(l) ==
  LET e == Visits(list_begin(l), list_end(l))
      min[k \in 0 .. Cardinality(Elems)] ==
        IF k = 0 THEN e[0]
        ELSE IF e[k] # list_end(l) /\ Less(e[k], min[k - 1]) THEN e[k] ELSE min[k - 1]
  IN  min[Cardinality(Elems)]

----------------------------------------------------------------------------
(* Calls without a loop that writes                                         *)

Idle == pc = "idle" /\ UNCHANGED <<pc, at>>

Insert ==
  /\ Idle
  /\ \E l \in Lists, e \in Outside :
       \E before \in Elems \cup {list_end(l)} :
         /\ before = list_end(l) \/ In(before, l)
         /\ list_insert(before, e)

PushFront == Idle /\ \E l \in Lists, e \in Outside : list_insert(list_begin(l), e)
PushBack == Idle /\ \E l \in Lists, e \in Outside : list_insert(list_end(l), e)

Remove == Idle /\ MayRemove /\ \E l \in Lists, e \in Elems : In(e, l) /\ list_remove(e)

PopFront == Idle /\ MayRemove /\ \E l \in Lists : ~ list_empty(l) /\ list_remove(next[HeadOf(l)])
PopBack == Idle /\ MayRemove /\ \E l \in Lists : ~ list_empty(l) /\ list_remove(prev[TailOf(l)])

(* The elements from position i on, up to but without position j.           *)
Splice ==
  /\ Idle
  /\ \E m, l \in Lists :
       LET from == Append(Interior(m), list_end(m))
           to == Append(Interior(l), list_end(l))
       IN \E i, j \in DOMAIN from, k \in DOMAIN to :
            /\ i < j
            /\ m = l => k \notin i .. j - 1
            /\ list_splice(to[k], from[i], from[j])

----------------------------------------------------------------------------
(* Loops                                                                    *)

Enter(loop, locals) == pc = "idle" /\ pc' = loop /\ at' = locals
Return == pc' = "idle" /\ at' = NoLocals
Stay(locals) == UNCHANGED pc /\ at' = locals

end == list_end(at.list)

list_insert_ordered(l, e) ==
  /\ Enter("ordered", [NoLocals EXCEPT !.list = l, !.elem = e, !.e = list_begin(l)])
  /\ is_sorted(list_begin(l), list_end(l))
  /\ UNCHANGED <<prev, next>>

OrderedStep ==
  /\ pc = "ordered"
  /\ at.e # end
  /\ ~ Less(at.elem, at.e)
  /\ has_next(at.e)
  /\ Stay([at EXCEPT !.e = next[at.e]])
  /\ UNCHANGED <<prev, next>>

OrderedEnd ==
  /\ pc = "ordered"
  /\ at.e # end => Less(at.elem, at.e)
  /\ list_insert(at.e, at.elem)
  /\ Return

list_reverse(l) ==
  /\ ~ list_empty(l)
  /\ Enter("reverse", [NoLocals EXCEPT !.list = l, !.e = list_begin(l)])
  /\ UNCHANGED <<prev, next>>

(* Swaps the links of one element and goes on by what is now prev.          *)
ReverseStep ==
  /\ pc = "reverse"
  /\ at.e # end
  /\ next' = [next EXCEPT ![at.e] = prev[at.e]]
  /\ prev' = [prev EXCEPT ![at.e] = next[at.e]]
  /\ Stay([at EXCEPT !.e = next[at.e]])

(* Swaps the inner links of head and tail, then the outer ones of the first *)
(* and the last element.                                                    *)
ReverseEnd ==
  /\ pc = "reverse"
  /\ at.e = end
  /\ LET head == HeadOf(at.list)
         front == prev[end]
         back == next[head]
     IN /\ next' = [next EXCEPT ![head] = front, ![back] = prev[front]]
        /\ prev' = [prev EXCEPT ![end] = back, ![front] = next[back]]
  /\ Return

list_unique(l, duplicates) ==
  /\ l # duplicates
  /\ duplicates = NULL => MayRemove
  /\ ~ list_empty(l)
  /\ Enter("unique", [NoLocals EXCEPT !.list = l, !.duplicates = duplicates,
                                      !.e = list_begin(l)])
  /\ UNCHANGED <<prev, next>>

SameKey(a, b) == ~ Less(a, b) /\ ~ Less(b, a)

HasNeighbour == pc = "unique" /\ has_next(at.e) /\ next[at.e] # end

(* Keeps the last of a group.                                               *)
UniqueRemoves_keeps_last ==
  /\ HasNeighbour /\ SameKey(at.e, next[at.e])
  /\ list_remove(at.e)
  /\ pc' = IF at.duplicates = NULL THEN "unique" ELSE "duplicate"
  /\ at' = [at EXCEPT !.elem = at.e, !.e = next[at.e]]

UniqueRemoves ==
  /\ HasNeighbour /\ SameKey(at.e, next[at.e])
  /\ list_remove(next[at.e])
  /\ pc' = IF at.duplicates = NULL THEN "unique" ELSE "duplicate"
  /\ at' = [at EXCEPT !.elem = next[at.e]]

UniqueKeeps ==
  /\ HasNeighbour /\ ~ SameKey(at.e, next[at.e])
  /\ Stay([at EXCEPT !.e = next[at.e]])
  /\ UNCHANGED <<prev, next>>

(* Its list_push_back, before anything else happens.                        *)
AppendDuplicate ==
  /\ pc = "duplicate"
  /\ list_insert(list_end(at.duplicates), at.elem)
  /\ pc' = "unique"
  /\ UNCHANGED at

UniqueEnd ==
  /\ pc = "unique"
  /\ next[at.e] = end
  /\ Return
  /\ UNCHANGED <<prev, next>>

----------------------------------------------------------------------------
(* list_sort: passes that merge neighbouring runs two by two                *)

NewPass(l) == [NoLocals EXCEPT !.list = l, !.a0 = list_begin(l)]

list_sort(l) ==
  /\ Enter("pass", NewPass(l))
  /\ UNCHANGED <<prev, next>>

(* find_end_of_run, one iteration of its loop: it stops at the end and in   *)
(* front of an element that is less than the one before it.                 *)
EndsRun(n) == n # end => Less(n, prev[n])

(* One more run in the output, which begins at a0.                          *)
BeginRun ==
  /\ pc = "pass"
  /\ at.a0 # end
  /\ has_next(at.a0)
  /\ at' = [at EXCEPT !.runs = @ + 1, !.a1b0 = next[at.a0]]
  /\ pc' = "first_run"
  /\ UNCHANGED <<prev, next>>

FirstRun ==
  /\ pc = "first_run"
  /\ ~ EndsRun(at.a1b0)
  /\ has_next(at.a1b0)
  /\ Stay([at EXCEPT !.a1b0 = next[at.a1b0]])
  /\ UNCHANGED <<prev, next>>

BeginSecondRun ==
  /\ pc = "first_run"
  /\ at.a1b0 # end
  /\ EndsRun(at.a1b0)
  /\ has_next(at.a1b0)
  /\ at' = [at EXCEPT !.b1 = next[at.a1b0]]
  /\ pc' = "second_run"
  /\ UNCHANGED <<prev, next>>

SecondRun ==
  /\ pc = "second_run"
  /\ ~ EndsRun(at.b1)
  /\ has_next(at.b1)
  /\ Stay([at EXCEPT !.b1 = next[at.b1]])
  /\ UNCHANGED <<prev, next>>

(* inplace_merge                                                            *)
BeginMerge ==
  /\ pc = "second_run"
  /\ EndsRun(at.b1)
  /\ is_sorted(at.a0, at.a1b0)
  /\ is_sorted(at.a1b0, at.b1)
  /\ pc' = "merge"
  /\ UNCHANGED <<prev, next, at>>

MergeKeeps ==
  /\ pc = "merge"
  /\ at.a0 # at.a1b0 /\ at.a1b0 # at.b1
  /\ ~ Less(at.a1b0, at.a0)
  /\ has_next(at.a0)
  /\ Stay([at EXCEPT !.a0 = next[at.a0]])
  /\ UNCHANGED <<prev, next>>

(* The first element of the second run moves in front of a0.                *)
MergeMoves ==
  /\ pc = "merge"
  /\ at.a0 # at.a1b0 /\ at.a1b0 # at.b1
  /\ Less(at.a1b0, at.a0)
  /\ has_next(at.a1b0)
  /\ list_splice(at.a0, at.a1b0, next[at.a1b0])
  /\ Stay([at EXCEPT !.a1b0 = next[at.a1b0]])

EndMerge ==
  /\ pc = "merge"
  /\ at.a0 = at.a1b0 \/ at.a1b0 = at.b1
  /\ at' = [at EXCEPT !.a0 = at.b1, !.a1b0 = NULL, !.b1 = NULL]
  /\ pc' = "pass"
  /\ UNCHANGED <<prev, next>>

(* After the last pair of runs, or a last run without a partner.            *)
PassIsOver ==
  \/ pc = "pass" /\ at.a0 = end
  \/ pc = "first_run" /\ at.a1b0 = end

(* Goes on while there is a run.                                            *)
NextPass_again ==
  /\ PassIsOver
  /\ at.runs > 0
  /\ at' = NewPass(at.list)
  /\ pc' = "pass"
  /\ UNCHANGED <<prev, next>>

NextPass ==
  /\ PassIsOver
  /\ at.runs > 1
  /\ at' = NewPass(at.list)
  /\ pc' = "pass"
  /\ UNCHANGED <<prev, next>>

SortEnd ==
  /\ PassIsOver
  /\ at.runs <= 1
  /\ is_sorted(list_begin(at.list), end)
  /\ Return
  /\ UNCHANGED <<prev, next>>

----------------------------------------------------------------------------
Call ==
  \E l \in Lists :
    \/ list_reverse(l) \/ list_sort(l)
    \/ \E e \in Outside : list_insert_ordered(l, e)
    \/ \E duplicates \in Lists \cup {NULL} : list_unique(l, duplicates)

Loop ==
  \/ OrderedStep \/ OrderedEnd
  \/ ReverseStep \/ ReverseEnd
  \/ UniqueRemoves \/ UniqueKeeps \/ AppendDuplicate \/ UniqueEnd
  \/ BeginRun \/ FirstRun \/ BeginSecondRun \/ SecondRun
  \/ BeginMerge \/ MergeKeeps \/ MergeMoves \/ EndMerge \/ NextPass \/ SortEnd

Next ==
  \/ Insert \/ PushFront \/ PushBack \/ Remove \/ PopFront \/ PopBack \/ Splice
  \/ Call \/ Loop

Spec == Init /\ [][Next]_vars

(* A call that has begun goes on.                                           *)
FairSpec == Spec /\ WF_vars(Loop)

----------------------------------------------------------------------------
(* The nodes of l in the order s agree with the links, in both directions.  *)
Chain(l, s) ==
  LET path == <<HeadOf(l)>> \o s \o <<TailOf(l)>> IN
  /\ prev[HeadOf(l)] = NULL /\ next[TailOf(l)] = NULL
  /\ \A i \in 1 .. Len(s) + 1 : next[path[i]] = path[i + 1] /\ prev[path[i + 1]] = path[i]

(* Whatever calls came before, a walk along next and one along prev meet    *)
(* the same elements, ending at the list's own head and tail, and no        *)
(* element is met twice or in two lists. While reverse swaps links, that    *)
(* holds of the other lists.                                                *)
WellLinked ==
  \A l \in Lists : ~ (pc = "reverse" /\ at.list = l) =>
    /\ Chain(l, Interior(l))
    /\ \A i, j \in DOMAIN Interior(l) : i # j => Interior(l)[i] # Interior(l)[j]
    /\ \A m \in Lists \ {l} : \A e \in Elems : ~ (In(e, l) /\ In(e, m))

(* Of several elements with the largest or the smallest key the front one   *)
(* is found, whatever the order of the list, and an empty list's own tail.  *)
QueriesAreExact ==
  pc = "idle" =>
    \A l \in Lists :
      LET s == Interior(l)
      IN  /\ list_size(l) = Len(s)
          /\ s = <<>> => list_max(l) = list_end(l) /\ list_min(l) = list_end(l)
          /\ s # <<>> =>
               /\ \E i \in DOMAIN s :
                    /\ list_max(l) = s[i]
                    /\ \A j \in DOMAIN s : Key[s[j]] < Key[s[i]] \/ (Key[s[j]] = Key[s[i]] /\ i <= j)
               /\ \E i \in DOMAIN s :
                    /\ list_min(l) = s[i]
                    /\ \A j \in DOMAIN s : Key[s[i]] < Key[s[j]] \/ (Key[s[i]] = Key[s[j]] /\ i <= j)

(* Reverse, sort, unique and the ordered insertion end, with every          *)
(* assertion on their way true; among them that a sorted list is sorted.    *)
CallsReturn == (pc # "idle") ~> (pc = "idle")

=============================================================================
