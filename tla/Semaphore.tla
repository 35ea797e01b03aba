----------------------------- MODULE Semaphore -----------------------------
(* What users of kernel/machine/synchronization are promised: down and up   *)
(* of a semaphore are atomic, at most Permits callers are past down and not *)
(* yet at up, and a lock is a semaphore of one permit. synchs.c implements  *)
(* it (module Synchs); pmap_pfa.c relies on it (module PFA).                *)
EXTENDS Integers, FiniteSets

CONSTANTS Threads, Permits

VARIABLES value, inside

Init == value = Permits /\ inside = {}

Down(t) ==
  /\ value > 0
  /\ t \notin inside
  /\ value' = value - 1
  /\ inside' = inside \cup {t}

Up(t) ==
  /\ t \in inside
  /\ value' = value + 1
  /\ inside' = inside \ {t}

Next == \E t \in Threads : Down(t) \/ Up(t)

Spec == Init /\ [][Next]_<<value, inside>>

=============================================================================
