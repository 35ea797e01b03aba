---------------------------- MODULE AddressSpace ----------------------------
(* What pmap_vm_init owes the kernel, without tables: an address space is   *)
(* filled page by page, a page that is mapped is never mapped again and     *)
(* keeps its frame and attributes, and then the space is put to use.        *)
CONSTANTS Pages, Frames, Templates, Unmapped

VARIABLES
  translation,   \* page -> [frame, template], or Unmapped
  active         \* the MMU translates with it

Init ==
  /\ translation = [v \in Pages |-> Unmapped]
  /\ active = FALSE

Map ==
  /\ ~ active
  /\ \E v \in Pages :
       /\ translation[v] = Unmapped
       /\ translation'[v] \in [frame : Frames, template : Templates]
       /\ translation' = [translation EXCEPT ![v] = translation'[v]]
  /\ UNCHANGED active

Activate ==
  /\ ~ active
  /\ active' = TRUE
  /\ UNCHANGED translation

Next == Map \/ Activate

Spec == Init /\ [][Next]_<<translation, active>>

=============================================================================
