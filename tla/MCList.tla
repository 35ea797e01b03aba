------------------------------- MODULE MCList -------------------------------
(* Two lists and four elements, two of them with the same key.              *)
EXTENDS ListRefinement

CONSTANTS l1, l2, e1, e2, e3, e4

MCLists == {l1, l2}
MCElems == {e1, e2, e3, e4}
MCKey == [e \in MCElems |-> CASE e = e1 -> 3 [] e = e2 -> 2 [] e = e3 -> 2 [] e = e4 -> 1]

=============================================================================
