--------------------------- MODULE FrameAllocator ---------------------------
(* What kernel/machine/pmap/pmap_pfa.h promises to callers, without lists,  *)
(* levels or bitmaps: an allocation hands out a range of frames nobody has, *)
(* all of it at once; frames that are given back are on the way until the   *)
(* call returns, and free from then on, as if calls ran one after another.  *)
EXTENDS Integers

CONSTANTS Frames, Reserved, Types, NotHeld

VARIABLES
  held,        \* frame -> the type its holder asked for, or NotHeld
  returning    \* frames a call in progress is giving back

Free == { f \in Frames : held[f] = NotHeld /\ f \notin returning \cup Reserved }

Init ==
  /\ held = [f \in Frames |-> NotHeld]
  /\ returning = {}

Alloc ==
  \E base \in Frames, limit \in Frames, type \in Types :
    /\ base <= limit
    /\ base .. limit \subseteq Free
    /\ held' = [f \in Frames |-> IF f \in base .. limit THEN type ELSE held[f]]
    /\ UNCHANGED returning

(* The caller must hold what it gives back.                                 *)
Return ==
  \E base \in Frames, limit \in Frames :
    /\ base <= limit
    /\ \A f \in base .. limit : f \in Frames /\ held[f] # NotHeld
    /\ held' = [f \in Frames |-> IF f \in base .. limit THEN NotHeld ELSE held[f]]
    /\ returning' = returning \cup base .. limit

Reclaim ==
  \E base \in Frames, limit \in Frames :
    /\ base <= limit
    /\ base .. limit \subseteq returning
    /\ returning' = returning \ (base .. limit)
    /\ UNCHANGED held

Next == Alloc \/ Return \/ Reclaim

Spec == Init /\ [][Next]_<<held, returning>>

=============================================================================
