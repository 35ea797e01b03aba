--------------------------- MODULE ListRefinement ---------------------------
(* The pointers of List implement the sequences of ListSpec. A loop changes *)
(* the links in many steps; its callers see one, when it returns, so the    *)
(* sequences as they were before the call are kept until then.              *)
EXTENDS List

VARIABLE content    \* what callers see (history)

refinementVars == <<prev, next, pc, at, content>>

HistoryInit == Init /\ content = Contents

HistoryNext ==
  /\ Next
  /\ content' = IF pc' = "idle" THEN Contents' ELSE content

HistorySpec ==
  HistoryInit /\ [][HistoryNext]_refinementVars /\ WF_refinementVars(Loop /\ HistoryNext)

Abstract == INSTANCE ListSpec

(* Every call, with its loop or without, changes the lists as one operation *)
(* on sequences does, and nothing but calls changes them.                   *)
ImplementsListSpec == Abstract!Spec

(* And a loop that returns has done the operation it was called for: the    *)
(* sort is stable, the duplicates keep their order.                         *)
LoopsDoTheirJob ==
  [][pc' = "idle" /\ pc # "idle" =>
       CASE pc = "ordered" -> Abstract!InsertOrdered(at.list, at.elem)
         [] pc = "reverse" -> Abstract!ReverseList(at.list)
         [] pc = "unique" -> Abstract!Unique(at.list, at.duplicates)
         [] OTHER -> Abstract!Sort(at.list)]_refinementVars

=============================================================================
