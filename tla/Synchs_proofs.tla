--------------------------- MODULE Synchs_proofs ---------------------------
(* Proofs about Synchs, for any number of threads and permits: down and up  *)
(* are atomic, permits are neither made nor lost, and what was written is   *)
(* published before anyone else gets in.                                    *)
EXTENDS Synchs, FiniteSetTheorems, TLAPS

(* The exchange is only tried with a value that had a permit in it.         *)
CallsTyped ==
  /\ value \in Int
  /\ loaded \in [Threads -> Int]
  /\ pc \in [Threads -> {"outside", "load", "exchange", "inside", "up"}]
  /\ visible = [t \in Threads |-> visible[t]]

LoadedIsFree == \A t \in Threads : pc[t] = "exchange" => loaded[t] > 0

LoadedIsPossible == \A t \in Threads : loaded[t] >= 0

(* Every permit is with the semaphore or with a thread inside.              *)
PermitsConserved == value >= 0 /\ value + Cardinality(Inside) = Permits

DownInv == CallsTyped /\ LoadedIsFree /\ LoadedIsPossible /\ value >= 0

(* The types that the steps of down need: initially, and after a step.      *)
LEMMA DownInvInit == Init => DownInv
  BY SynchsAssumption DEF Init, DownInv, CallsTyped, LoadedIsFree, LoadedIsPossible

LEMMA DownInvStep == DownInv /\ [Next]_vars => DownInv'
<1> SUFFICES ASSUME DownInv, [Next]_vars PROVE DownInv'
  OBVIOUS
<1> USE DEF DownInv, CallsTyped, LoadedIsFree, LoadedIsPossible
<1>1. ASSUME NEW t \in Threads, Call(t) PROVE DownInv'
  BY <1>1 DEF Call, Goto
<1>2. ASSUME NEW t \in Threads, Load(t) PROVE DownInv'
  <2>1. CASE value = 0
    BY <1>2, <2>1 DEF Load, Goto
  <2>2. CASE value > 0
    BY <1>2, <2>2 DEF Load, Goto
  <2>. QED
    BY <2>1, <2>2
<1>3. ASSUME NEW t \in Threads, ExchangeSucceeds(t) PROVE DownInv'
  BY <1>3 DEF ExchangeSucceeds, Goto
<1>4. ASSUME NEW t \in Threads, ExchangeFails(t) PROVE DownInv'
  BY <1>4 DEF ExchangeFails, Goto
<1>5. ASSUME NEW t \in Threads, Write(t) PROVE DownInv'
  BY <1>5 DEF Write, Goto
<1>6. ASSUME NEW t \in Threads, Up(t) PROVE DownInv'
  BY <1>6 DEF Up, Goto
<1>7. CASE UNCHANGED vars
  BY <1>7 DEF vars
<1>. QED
  BY <1>1, <1>2, <1>3, <1>4, <1>5, <1>6, <1>7 DEF Next, Run

(* synchs_semaphore_down and synchs_semaphore_up are atomic: every step of  *)
(* a thread is a down, an up or invisible to the users of the semaphore.    *)
LEMMA StepsAreAtomic ==
  DownInv /\ [Next]_vars => [Sem!Next]_<<value, Inside>>
<1> SUFFICES ASSUME DownInv, [Next]_vars PROVE [Sem!Next]_<<value, Inside>>
  OBVIOUS
<1> USE DEF DownInv, CallsTyped
<1>1. ASSUME NEW t \in Threads, Call(t) PROVE UNCHANGED <<value, Inside>>
  BY <1>1 DEF Call, Goto, Inside
<1>2. ASSUME NEW t \in Threads, Load(t) PROVE UNCHANGED <<value, Inside>>
  <2>1. CASE value = 0
    BY <1>2, <2>1 DEF Load, Goto, Inside
  <2>2. CASE value # 0
    BY <1>2, <2>2 DEF Load, Goto, Inside
  <2>. QED
    BY <2>1, <2>2
<1>3. ASSUME NEW t \in Threads, ExchangeSucceeds(t) PROVE Sem!Down(t)
  <2>1. value > 0 /\ value' = value - 1
    BY <1>3 DEF ExchangeSucceeds, LoadedIsFree
  <2>2. t \notin Inside /\ Inside' = Inside \cup {t}
    BY <1>3 DEF ExchangeSucceeds, Goto, Inside
  <2>. QED
    BY <2>1, <2>2 DEF Sem!Down
<1>4. ASSUME NEW t \in Threads, ExchangeFails(t) PROVE UNCHANGED <<value, Inside>>
  BY <1>4 DEF ExchangeFails, Goto, Inside
<1>5. ASSUME NEW t \in Threads, Write(t) PROVE UNCHANGED <<value, Inside>>
  BY <1>5 DEF Write, Goto, Inside
<1>6. ASSUME NEW t \in Threads, Up(t) PROVE Sem!Up(t)
  <2>1. t \in Inside /\ Inside' = Inside \ {t}
    BY <1>6 DEF Up, Goto, Inside
  <2>. QED
    BY <1>6, <2>1 DEF Up, Sem!Up
<1>7. CASE UNCHANGED vars
  BY <1>7 DEF vars, Inside
<1>. QED
  BY <1>1, <1>2, <1>3, <1>4, <1>5, <1>6, <1>7 DEF Next, Run, Sem!Next

(* For every number of threads and permits and whatever fails spuriously,   *)
(* synchs.c implements the semaphore.                                       *)
THEOREM DownAndUpAreAtomic == Spec => ImplementsSemaphore
<1>1. Init => Sem!Init
  BY DEF Init, Sem!Init, Inside
<1>. QED
  BY <1>1, DownInvInit, DownInvStep, StepsAreAtomic, PTL DEF Spec, ImplementsSemaphore, Sem!Spec

----------------------------------------------------------------------------
(* Permits are neither made nor lost, whatever downs and ups overlap.       *)
LEMMA SemaphoreConserves ==
  ASSUME IsFiniteSet(Threads), PermitsConserved, Inside \subseteq Threads, value \in Int,
         [Sem!Next]_<<value, Inside>>, Inside' \subseteq Threads
  PROVE  PermitsConserved' /\ value' \in Int
<1>1. IsFiniteSet(Inside) /\ Cardinality(Inside) \in Nat
  BY FS_Subset, FS_CardinalityType
<1>2. ASSUME NEW t \in Threads, Sem!Down(t) PROVE PermitsConserved' /\ value' \in Int
  <2>1. Cardinality(Inside \cup {t}) = Cardinality(Inside) + 1
    BY <1>1, <1>2, FS_AddElement DEF Sem!Down
  <2>. QED
    BY <1>1, <1>2, <2>1, SynchsAssumption DEF Sem!Down, PermitsConserved
<1>3. ASSUME NEW t \in Threads, Sem!Up(t) PROVE PermitsConserved' /\ value' \in Int
  <2>1. Cardinality(Inside \ {t}) = Cardinality(Inside) - 1
    BY <1>1, <1>3, FS_RemoveElement DEF Sem!Up
  <2>. QED
    BY <1>1, <1>3, <2>1, SynchsAssumption DEF Sem!Up, PermitsConserved
<1>4. CASE UNCHANGED <<value, Inside>>
  BY <1>4 DEF PermitsConserved
<1>. QED
  BY <1>2, <1>3, <1>4 DEF Sem!Next

(* With finitely many threads, the semaphore's value and the threads inside *)
(* always account for every permit: no more than Permits are inside, and a  *)
(* lock excludes.                                                           *)
THEOREM PermitsAreConserved ==
  ASSUME IsFiniteSet(Threads)
  PROVE  Spec => [](PermitsConserved /\ Cardinality(Inside) <= Permits)
<1> DEFINE I == PermitsConserved /\ value \in Int
<1>1. Init => I
  <2>1. Init => Inside = {}
    BY DEF Init, Inside
  <2>. QED
    BY <2>1, FS_EmptySet, SynchsAssumption DEF Init, PermitsConserved
<1>2. I /\ DownInv /\ [Next]_vars => I'
  BY StepsAreAtomic, SemaphoreConserves DEF Inside
<1>3. I => PermitsConserved /\ Cardinality(Inside) <= Permits
  BY FS_Subset, FS_CardinalityType, SynchsAssumption DEF PermitsConserved, Inside
<1>. QED
  BY <1>1, <1>2, <1>3, DownInvInit, DownInvStep, PTL DEF Spec

----------------------------------------------------------------------------
(* A step keeps unpublished writes with writers that are inside.            *)
LEMMA WritersStep ==
  ASSUME DownInv, UnpublishedWriterIsInside, [Next]_vars
  PROVE  UnpublishedWriterIsInside'
<1> USE DEF DownInv, CallsTyped, UnpublishedWriterIsInside
<1> SUFFICES ASSUME NEW w \in written' \ published'
             PROVE  \E t \in Inside' : w \in visible'[t]
  BY DEF Inside
<1>1. ASSUME NEW t \in Threads, Call(t) \/ Load(t) \/ ExchangeSucceeds(t) \/ ExchangeFails(t)
      PROVE  \E u \in Inside' : w \in visible'[u]
  <2>1. PICK u \in Inside : w \in visible[u]
    BY <1>1 DEF Call, Load, ExchangeSucceeds, ExchangeFails
  <2>2. u \in Inside' /\ w \in visible'[u]
    <3>1. CASE Call(t)
      BY <2>1, <3>1 DEF Call, Goto, Inside
    <3>2. CASE Load(t)
      BY <2>1, <3>2 DEF Load, Goto, Inside
    <3>3. CASE ExchangeSucceeds(t)
      BY <2>1, <3>3 DEF ExchangeSucceeds, Goto, Inside
    <3>4. CASE ExchangeFails(t)
      BY <2>1, <3>4 DEF ExchangeFails, Goto, Inside
    <3>. QED
      BY <1>1, <3>1, <3>2, <3>3, <3>4
  <2>. QED
    BY <2>2
<1>2. ASSUME NEW t \in Threads, Write(t) PROVE \E u \in Inside' : w \in visible'[u]
  <2>1. t \in Inside' /\ Inside \subseteq Inside'
    BY <1>2 DEF Write, Goto, Inside
  <2>2. \A u \in Threads : visible[u] \subseteq visible'[u]
    BY <1>2 DEF Write
  <2>3. w \in visible'[t] \/ w \in written \ published
    BY <1>2 DEF Write
  <2>. QED
    BY <2>1, <2>2, <2>3 DEF Inside
<1>3. ASSUME NEW t \in Threads, Up(t) PROVE \E u \in Inside' : w \in visible'[u]
  <2>1. PICK u \in Inside : w \in visible[u]
    BY <1>3 DEF Up
  <2>2. u # t
    BY <1>3, <2>1 DEF Up
  <2>. QED
    BY <1>3, <2>1, <2>2 DEF Up, Goto, Inside
<1>4. CASE UNCHANGED vars
  BY <1>4 DEF vars, Inside
<1>. QED
  BY <1>1, <1>2, <1>3, <1>4 DEF Next, Run

(* Whatever threads do, a write that is not yet published was made by one   *)
(* that has not let anybody else in.                                        *)
THEOREM WritersPublishFirst == Spec => []UnpublishedWriterIsInside
<1>1. Init => UnpublishedWriterIsInside
  BY DEF Init, UnpublishedWriterIsInside
<1>. QED
  BY <1>1, DownInvInit, DownInvStep, WritersStep, PTL DEF Spec

=============================================================================
