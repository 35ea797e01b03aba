--------------------------- MODULE PFARefinement ---------------------------
(* The allocator of pmap_pfa.c against what its callers and its lock are    *)
(* promised.                                                                *)
EXTENDS PFA

(* The pages a free call of core c is giving back, until it returns.        *)
ReturnedBy(c) ==
  IF frame[c].op = "free" THEN Pages(frame[c].base, frame[c].count) ELSE {}

Returning == UNION { ReturnedBy(c) : c \in Cores }

(* Splitting, merging and the page-by-page loop of a free stay invisible:   *)
(* to its callers the buddy allocator is the plain frame allocator.         *)
Allocator == INSTANCE FrameAllocator WITH
  Frames <- Managed, Types <- PageTypes, returning <- Returning
ImplementsFrameAllocator == Allocator!Spec

(* The allocator uses its lock as a semaphore of one permit must be used:   *)
(* a core takes it when it has not got it and gives it back only if it has. *)
Lock == INSTANCE Semaphore WITH
  Threads <- Cores, Permits <- 1, value <- lock,
  inside <- { c \in Cores : pc[c] \in Holding }
UsesLockCorrectly == Lock!Spec

=============================================================================
