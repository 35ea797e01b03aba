------------------------------- MODULE Synchs -------------------------------
(***************************************************************************)
(* The spinning semaphore of kernel/machine/synchronization/synchs.c, one   *)
(* atomic access to memory per action: the load and the compare-and-        *)
(* exchange of synchs_semaphore_down, and the add of synchs_semaphore_up.   *)
(*                                                                          *)
(* What one core wrote becomes visible to another through the semaphore. A  *)
(* write made between down and up gets a number; visible[t] are the writes  *)
(* thread t is sure to see, published those that come with the semaphore's  *)
(* value. A release store publishes what its thread sees, on top of what it *)
(* overwrites in one atomic step; an acquire load takes over what is        *)
(* published. A load reads the newest value: older ones are left out.       *)
(***************************************************************************)
EXTENDS Integers, FiniteSets

CONSTANTS
  Threads,
  Permits,       \* the value the semaphore is initialised with
  MaxSpurious,   \* bound: weak exchanges that fail for no reason, per down
  MaxWrites      \* bound: downs of the whole run, each followed by one write

ASSUME SynchsAssumption ==
  Permits \in Nat \ {0} /\ MaxSpurious \in Nat /\ MaxWrites \in Nat

VARIABLES value, loaded, spurious, pc, written, visible, published

vars == <<value, loaded, spurious, pc, written, visible, published>>

Writes == 1 .. MaxWrites

Init ==
  /\ value = Permits
  /\ loaded = [t \in Threads |-> 0]
  /\ spurious = [t \in Threads |-> 0]
  /\ pc = [t \in Threads |-> "outside"]
  /\ written = {}
  /\ visible = [t \in Threads |-> {}]
  /\ published = {}

Goto(t, label) == pc' = [pc EXCEPT ![t] = label]

Call(t) ==
  /\ pc[t] = "outside"
  /\ Cardinality(written) + Cardinality({u \in Threads : pc[u] # "outside"}) < MaxWrites
  /\ Goto(t, "load")
  /\ UNCHANGED <<value, loaded, spurious, written, visible, published>>

(* __atomic_load_n(&value, __ATOMIC_ACQUIRE); zero is loaded again.         *)
Load(t) ==
  /\ pc[t] = "load"
  /\ loaded' = [loaded EXCEPT ![t] = value]
  /\ visible' = [visible EXCEPT ![t] = @ \cup published]
  /\ Goto(t, IF value = 0 THEN "load" ELSE "exchange")
  /\ UNCHANGED <<value, spurious, written, published>>

(* Stores without comparing.                                                *)
ExchangeSucceeds_blindly(t) ==
  /\ pc[t] = "exchange"
  /\ value' = loaded[t] - 1
  /\ published' = published \cup visible[t]
  /\ spurious' = [spurious EXCEPT ![t] = 0]
  /\ Goto(t, "inside")
  /\ UNCHANGED <<loaded, written, visible>>

(* Success order __ATOMIC_RELEASE: what is published is not acquired.       *)
ExchangeSucceeds(t) ==
  /\ pc[t] = "exchange"
  /\ value = loaded[t]
  /\ value' = loaded[t] - 1
  /\ published' = published \cup visible[t]
  /\ spurious' = [spurious EXCEPT ![t] = 0]
  /\ Goto(t, "inside")
  /\ UNCHANGED <<loaded, written, visible>>

(* Returns when the exchange fails, as if it were a strong one.             *)
ExchangeFails_gives_up(t) ==
  /\ pc[t] = "exchange"
  /\ spurious[t] < MaxSpurious
  /\ spurious' = [spurious EXCEPT ![t] = @ + 1]
  /\ Goto(t, "outside")
  /\ UNCHANGED <<value, loaded, written, visible, published>>

(* Failure order __ATOMIC_ACQUIRE. Another value, or a spurious failure.    *)
ExchangeFails(t) ==
  /\ pc[t] = "exchange"
  /\ \/ value # loaded[t] /\ UNCHANGED spurious
     \/ /\ value = loaded[t]
        /\ spurious[t] < MaxSpurious
        /\ spurious' = [spurious EXCEPT ![t] = @ + 1]
  /\ visible' = [visible EXCEPT ![t] = @ \cup published]
  /\ Goto(t, "load")
  /\ UNCHANGED <<value, loaded, written, published>>

(* The caller's work under the semaphore: it writes.                        *)
Write(t) ==
  LET w == Cardinality(written) + 1
  IN  /\ pc[t] = "inside"
      /\ written' = written \cup {w}
      /\ visible' = [visible EXCEPT ![t] = @ \cup {w}]
      /\ Goto(t, "up")
      /\ UNCHANGED <<value, loaded, spurious, published>>

(* Adds with relaxed order.                                                 *)
Up_relaxed(t) ==
  /\ pc[t] = "up"
  /\ value' = value + 1
  /\ loaded' = [loaded EXCEPT ![t] = 0]
  /\ Goto(t, "outside")
  /\ UNCHANGED <<spurious, written, visible, published>>

(* __atomic_add_fetch(&value, 1, __ATOMIC_RELEASE)                          *)
Up(t) ==
  /\ pc[t] = "up"
  /\ value' = value + 1
  /\ published' = published \cup visible[t]
  /\ loaded' = [loaded EXCEPT ![t] = 0]
  /\ Goto(t, "outside")
  /\ UNCHANGED <<spurious, written, visible>>

Run(t) ==
  Load(t) \/ ExchangeSucceeds(t) \/ ExchangeFails(t) \/ Write(t) \/ Up(t)

Next == \E t \in Threads : Call(t) \/ Run(t)

Spec == Init /\ [][Next]_vars

(* A core that spins or is past down keeps executing.                       *)
FairSpec == Spec /\ \A t \in Threads : WF_vars(Run(t))

----------------------------------------------------------------------------
Inside == {t \in Threads : pc[t] \in {"inside", "up"}}

(* The load/exchange loop of synchs_semaphore_down and the add of           *)
(* synchs_semaphore_up act as one atomic down and up, although other cores  *)
(* run between load and exchange: at most Permits threads are inside.       *)
Sem == INSTANCE Semaphore WITH inside <- Inside
ImplementsSemaphore == Sem!Spec

(* A thread that waits while a permit is free does not wait in vain: some   *)
(* waiting thread gets inside (which one is not promised).                  *)
SomeoneGetsIn ==
  (value > 0 /\ \E t \in Threads : pc[t] \in {"load", "exchange"})
    ~> (\E t \in Threads : pc[t] = "inside")

(* A writer publishes before it lets anybody in: what was written and is    *)
(* not published was written by a thread that is still inside.              *)
UnpublishedWriterIsInside ==
  written \ published \subseteq UNION {visible[t] : t \in Inside}

(* synchs.c:28 calls the exchange "acquire-release": a thread that got the  *)
(* lock sees everything written under it before. The success order passed   *)
(* is __ATOMIC_RELEASE alone.                                               *)
LockOrdersWrites ==
  Permits = 1 => \A t \in Inside : written \subseteq visible[t]

=============================================================================
