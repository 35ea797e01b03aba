-------------------------- MODULE PFAPromises_proofs --------------------------
(* More theorems about PFA, on top of the inductive invariant of            *)
(* PFA_proofs. First that it implements what its callers and its lock are   *)
(* promised. Then that what it says is exact: a refusal means that no block *)
(* is large enough, the metadata of a held page is the type its holder      *)
(* asked for, a read returns that type, and the free lists are the          *)
(* canonical decomposition of the free pages. Each is proved from           *)
(* Mutex /\ IInv and from invariants of its own, stated where it begins.    *)
EXTENDS PFARefinement, PFA_proofs

----------------------------------------------------------------------------
(* The lock                                                                 *)

Holders == { c \in Cores : pc[c] \in Holding }

(* A step of a core that is inside before and after it or neither.          *)
LEMMA SameHolders ==
  ASSUME Mutex, NEW c \in Cores, NEW label,
         pc' = [pc EXCEPT ![c] = label],
         pc[c] \in Holding <=> label \in Holding
  PROVE  Holders' = Holders
<1>1. \A d \in Cores : pc'[d] = IF d = c THEN label ELSE pc[d]
  BY DEF Mutex
<1>. QED
  BY <1>1 DEF Holders

(* A step of the allocator is a down or an up of its lock's semaphore by a  *)
(* core that may do it, or leaves the lock alone.                           *)
LEMMA LockStep ==
  ASSUME Mutex, [Next]_vars
  PROVE  [Lock!Next]_<<lock, Holders>>
<1>1. ASSUME NEW c \in Cores, Calls(c)
      PROVE  UNCHANGED <<lock, Holders>>
  <2>1. UNCHANGED lock /\ pc[c] = "idle"
        /\ \E label \in {"lock", "panic"} : pc' = [pc EXCEPT ![c] = label]
    BY <1>1 DEF Calls, AllocCall, FreeCall, GetCall, RequireCall, RequireOutOfBounds,
                Call, Goto
  <2>. QED
    BY <2>1, SameHolders DEF Holding
<1>2. ASSUME NEW c \in Cores, LockAcquire(c)
      PROVE  Lock!Down(c)
  <2>1. PICK label \in Holding : pc' = [pc EXCEPT ![c] = label]
    BY <1>2 DEF LockAcquire, Goto, Holding
  <2>2. pc[c] \notin Holding /\ lock > 0 /\ lock' = lock - 1
    BY <1>2 DEF LockAcquire, Holding
  <2>3. Holders' = Holders \cup {c}
    BY <2>1 DEF Holders, Mutex
  <2>. QED
    BY <2>2, <2>3 DEF Lock!Down, Holders
<1>3. ASSUME NEW c \in Cores, Unlock(c)
      PROVE  Lock!Up(c)
  <2>1. pc[c] = "unlock" /\ pc' = [pc EXCEPT ![c] = "idle"] /\ lock' = lock + 1
    BY <1>3 DEF Unlock, Goto
  <2>2. pc[c] \in Holding /\ "idle" \notin Holding
    BY <2>1 DEF Holding
  <2>3. Holders' = Holders \ {c}
    BY <2>1, <2>2 DEF Holders, Mutex
  <2>. QED
    BY <2>1, <2>2, <2>3 DEF Lock!Up, Holders
<1>4. ASSUME NEW c \in Cores, Run(c), ~ Unlock(c)
      PROVE  UNCHANGED <<lock, Holders>>
  <2>1. CASE InsertRange(c) \/ MergeUp(c)
    BY <2>1 DEF InsertRange, MergeUp, Holders
  <2>2. CASE OutOfMemory(c) \/ TakeBlock(c) \/ InsertDone(c) \/ ApplyMetadata(c)
             \/ BootApply(c) \/ FreePage(c)
             \/ GetMetadata(c) \/ RequireRangeType(c) \/ RequirePanic(c)
    <3>1. UNCHANGED lock /\ \E label : /\ pc' = [pc EXCEPT ![c] = label]
                                       /\ pc[c] \in Holding <=> label \in Holding
      BY <2>2 DEF OutOfMemory, TakeBlock, InsertDone, ApplyMetadata, BootApply, FreePage,
                  GetMetadata, RequireRangeType, RequirePanic, Goto, Holding
    <3>. QED
      BY <3>1, SameHolders
  <2>. QED
    BY <1>4, <2>1, <2>2 DEF Run
<1>5. CASE UNCHANGED vars
  BY <1>5 DEF vars, Holders
<1>. QED
  BY <1>1, <1>2, <1>3, <1>4, <1>5 DEF Next, Lock!Next

(* PFA_LOCK is only taken by a core that has not got it, and PFA_UNLOCK     *)
(* only called by the one that has, on every path through the allocator.    *)
THEOREM LockIsUsedAsALock == Spec => UsesLockCorrectly
<1>1. Init => Mutex
  BY DEF Init, Mutex, MutualExclusion, Labels, Holding
<1>2. Init => Lock!Init
  BY DEF Init, Lock!Init, Holding
<1>3. Mutex /\ [Next]_vars => [Lock!Next]_<<lock, { c \in Cores : pc[c] \in Holding }>>
  BY LockStep DEF Holders
<1>. QED
  BY <1>1, <1>2, <1>3, MutexStep, PTL DEF Spec, UsesLockCorrectly, Lock!Spec

----------------------------------------------------------------------------
(* Pages on their way back                                                  *)

(* A free call is between its entry and its return; nobody holds the pages  *)
(* it gives back, and no two calls give back the same page.                 *)
ReturnState(c) ==
  frame[c].op = "free" =>
    /\ pc[c] \in {"lock", "merge", "unlock"}
    /\ frame[c].base \in Managed
    /\ ReturnedBy(c) \subseteq Managed
    /\ \A p \in ReturnedBy(c) : held[p] = NotHeld

ReturnInv ==
  /\ \A c \in Cores : ReturnState(c)
  /\ \A c, d \in Cores : ReturnedBy(c) \cap ReturnedBy(d) # {} => c = d

(* Frames as a caller sees them stay as they are.                           *)
SameFrames == held' = held /\ \A c \in Cores : ReturnedBy(c)' = ReturnedBy(c)

(* A step of core c that keeps what its call is about.                      *)
LEMMA QuietKeepsReturns ==
  ASSUME ReturnInv, NEW c \in Cores, held' = held,
         \A d \in Cores \ {c} : pc'[d] = pc[d] /\ frame'[d] = frame[d],
         \/ frame[c].op # "free" /\ frame'[c].op # "free"
         \/ /\ frame'[c].op = frame[c].op
            /\ frame'[c].base = frame[c].base
            /\ frame'[c].count = frame[c].count
            /\ pc'[c] \in {"lock", "merge", "unlock"}
  PROVE  ReturnInv' /\ SameFrames
<1>1. \A d \in Cores : ReturnedBy(d)' = ReturnedBy(d)
  BY DEF ReturnedBy
<1>2. \A d \in Cores : ReturnState(d)'
  BY <1>1 DEF ReturnInv, ReturnState
<1>. QED
  BY <1>1, <1>2 DEF ReturnInv, SameFrames

(* Nobody holds, and no free call gives back, what an allocation has taken. *)
LEMMA TakenIsFree ==
  ASSUME ram_base = 0, Mutex, IInv, ReturnInv, NEW c \in Cores,
         pc[c] = "unlock", GotPages(c)
  PROVE  /\ Pages(frame[c].base, frame[c].count) \subseteq Allocator!Free
         /\ \A d \in Cores : ReturnedBy(d) \cap Pages(frame[c].base, frame[c].count) = {}
<1> DEFINE P == Pages(frame[c].base, frame[c].count)
<1>1. P = InFlight(c)
  BY DEF InFlight, Result, Growing, Remaining, GotPages
<1>2. ASSUME NEW d \in Cores PROVE ReturnedBy(d) \cap P = {}
  <2>1. CASE frame[d].op = "free"
    <3>1. d # c
      BY <2>1 DEF GotPages
    <3>2. pc[d] = "lock"
      BY <2>1, <3>1 DEF ReturnInv, ReturnState, Mutex, MutualExclusion, Holding
    <3>3. ReturnedBy(d) \subseteq InFlight(d)
      BY <2>1, <3>2 DEF ReturnedBy, InFlight, Result
    <3>. QED
      BY <1>1, <3>1, <3>3 DEF IInv, Partition
  <2>2. CASE frame[d].op # "free"
    BY <2>2 DEF ReturnedBy
  <2>. QED
    BY <2>1, <2>2
<1>3. \A p \in P : p \in Managed /\ held[p] = NotHeld /\ p \notin Reserved
  BY <1>1 DEF IInv, Partition, IsInFlight, IsHeld
<1>. QED
  BY <1>2, <1>3 DEF Allocator!Free, Returning

(* What a step does for the callers, and that it keeps ReturnInv.           *)
FrameStep == ReturnInv' /\ [Allocator!Next]_<<held, Returning>>

(* A step that callers do not see.                                          *)
LEMMA SameFramesStutters == SameFrames => UNCHANGED <<held, Returning>>
  BY DEF SameFrames, Returning

(* Calls that give nothing back.                                            *)
LEMMA OtherCallIsUnseen ==
  ASSUME IInv, ReturnInv, NEW c \in Cores,
         AllocCall(c) \/ GetCall(c) \/ RequireCall(c) \/ RequireOutOfBounds(c)
  PROVE  FrameStep
<1>1. /\ pc[c] = "idle" /\ held' = held
      /\ \E label : pc' = [pc EXCEPT ![c] = label]
      /\ \E f : frame' = [frame EXCEPT ![c] = f] /\ f.op # "free"
  <2>0. \A op, size, type, base, count : Frame(op, size, type, base, count).op = op
    BY DEF Frame
  <2>1. CASE AllocCall(c)
    <3>1. PICK size \in Sizes, type \in RequestTypes :
            frame' = [frame EXCEPT ![c] = Frame("alloc", size, type, 0, 0)]
      BY <2>1 DEF AllocCall, Call
    <3>2. held' = held /\ pc[c] = "idle" /\ pc' = [pc EXCEPT ![c] = "lock"]
      BY <2>1 DEF AllocCall, Call, Goto
    <3>. QED
      BY <2>0, <3>1, <3>2
  <2>2. CASE GetCall(c)
    <3>1. PICK page \in Managed :
            frame' = [frame EXCEPT ![c] = Frame("get", 0, {}, page, 0)]
      BY <2>2 DEF GetCall, Call
    <3>2. held' = held /\ pc[c] = "idle" /\ pc' = [pc EXCEPT ![c] = "lock"]
      BY <2>2 DEF GetCall, Call, Goto
    <3>. QED
      BY <2>0, <3>1, <3>2
  <2>3. CASE RequireCall(c)
    <3>1. PICK page \in Managed, count \in CheckCounts, type \in PageTypes :
            frame' = [frame EXCEPT ![c] = Frame("require", 0, type, page, count)]
      BY <2>3 DEF RequireCall, Call
    <3>2. held' = held /\ pc[c] = "idle" /\ pc' = [pc EXCEPT ![c] = "lock"]
      BY <2>3 DEF RequireCall, Call, Goto
    <3>. QED
      BY <2>0, <3>1, <3>2
  <2>4. CASE RequireOutOfBounds(c)
    <3>1. PICK page \in Managed, count \in CheckCounts :
            frame' = [frame EXCEPT ![c] = Frame("require", 0, {}, page, count)]
      BY <2>4 DEF RequireOutOfBounds
    <3>2. held' = held /\ pc[c] = "idle" /\ pc' = [pc EXCEPT ![c] = "panic"]
      BY <2>4 DEF RequireOutOfBounds, Goto
    <3>. QED
      BY <2>0, <3>1, <3>2
  <2>. QED
    BY <2>1, <2>2, <2>3, <2>4
<1>2. frame'[c].op # "free" /\ frame[c].op # "free"
  BY <1>1 DEF IInv, CallsTyped, ReturnInv, ReturnState
<1>3. \A d \in Cores \ {c} : pc'[d] = pc[d] /\ frame'[d] = frame[d]
  BY <1>1 DEF IInv, CallsTyped
<1>. QED
  BY <1>1, <1>2, <1>3, QuietKeepsReturns, SameFramesStutters DEF FrameStep

(* A free call takes its pages from the callers at once.                    *)
LEMMA FreeCallReturns ==
  ASSUME ram_base = 0, IInv, ReturnInv, NEW c \in Cores, FreeCall(c)
  PROVE  FrameStep
<1>1. PICK base \in Managed, size \in Sizes :
        LET count == size_to_page_count(size)
        IN  /\ Pages(base, count) \subseteq Managed
            /\ \A p \in Pages(base, count) : held[p] # NotHeld
            /\ Call(c, Frame("free", size, {}, base, count))
            /\ held' = [ p \in Managed |->
                           IF p \in Pages(base, count) THEN NotHeld ELSE held[p] ]
  BY DEF FreeCall
<1> DEFINE count == size_to_page_count(size)
           f == Frame("free", size, {}, base, count)
           P == Pages(base, count)
<1>2. count \in Nat /\ base \in Nat
  BY RoundUpIsNatural, ManagedPages, ConstantsAssumption
<1>3. f.op = "free" /\ f.base = base /\ f.count = count
  <2> HIDE DEF count
  <2>. QED
    BY DEF Frame
<1>4. /\ pc[c] = "idle" /\ pc' = [pc EXCEPT ![c] = "lock"]
      /\ frame' = [frame EXCEPT ![c] = f]
      /\ P \subseteq Managed
      /\ \A p \in P : held[p] # NotHeld
      /\ held' = [ p \in Managed |-> IF p \in P THEN NotHeld ELSE held[p] ]
  BY <1>1 DEF Call, Goto
<1>5. P = base .. base + count - 1
  BY DEF Pages
<1> HIDE DEF f, count
<1>6. /\ pc'[c] = "lock" /\ frame'[c] = f
      /\ \A d \in Cores \ {c} : pc'[d] = pc[d] /\ frame'[d] = frame[d]
  BY <1>4 DEF IInv, CallsTyped
<1>7. ReturnedBy(c) = {} /\ ReturnedBy(c)' = P
  BY <1>3, <1>4, <1>6 DEF ReturnInv, ReturnState, ReturnedBy
<1> HIDE DEF P
<1>8. \A d \in Cores \ {c} : ReturnedBy(d)' = ReturnedBy(d)
  BY <1>6 DEF ReturnedBy
<1>9. \A d \in Cores : ReturnedBy(d) \cap P = {}
  BY <1>4 DEF ReturnInv, ReturnState, ReturnedBy
<1>10. ReturnInv'
  <2>1. ReturnState(c)'
    BY <1>3, <1>4, <1>6, <1>7 DEF ReturnState
  <2>2. \A d \in Cores \ {c} : ReturnState(d)'
    BY <1>4, <1>6, <1>8 DEF ReturnInv, ReturnState
  <2>3. \A d, e \in Cores : ReturnedBy(d)' \cap ReturnedBy(e)' # {} => d = e
    BY <1>7, <1>8, <1>9 DEF ReturnInv
  <2>. QED
    BY <2>1, <2>2, <2>3 DEF ReturnInv
<1>11. Returning' = Returning \cup P
  BY <1>7, <1>8 DEF Returning
<1>12. CASE count = 0
  <2>1. P = {}
    BY <1>2, <1>5, <1>12
  <2>2. held' = held /\ Returning' = Returning
    BY <1>4, <1>11, <2>1 DEF IInv, CallsTyped
  <2>. QED
    BY <1>10, <2>2 DEF FrameStep
<1>13. CASE count > 0
  <2>1. PICK limit \in Int : limit = base + count - 1
    BY <1>2
  <2>2. base <= limit /\ limit \in P /\ P = base .. limit
    BY <1>2, <1>5, <1>13, <2>1
  <2>3. Allocator!Return
    BY <1>4, <1>11, <2>2 DEF Allocator!Return
  <2>. QED
    BY <1>10, <2>3 DEF FrameStep, Allocator!Next
<1>. QED
  BY <1>2, <1>12, <1>13

(* A call's return: an allocation's pages become its caller's, and a free's *)
(* pages free.                                                              *)
LEMMA UnlockGivesOrReclaims ==
  ASSUME ram_base = 0, Mutex, IInv, ReturnInv, NEW c \in Cores, Unlock(c)
  PROVE  FrameStep
<1> DEFINE f == frame[c]
           P == Pages(f.base, f.count)
<1>1. /\ pc[c] = "unlock" /\ pc' = [pc EXCEPT ![c] = "idle"]
      /\ frame' = [frame EXCEPT ![c] = NoFrame]
  BY DEF Unlock, Goto
<1>2. /\ frame'[c].op = "none"
      /\ \A d \in Cores \ {c} : pc'[d] = pc[d] /\ frame'[d] = frame[d]
  BY <1>1 DEF IInv, CallsTyped, NoFrame, Frame
<1>3. ReturnedBy(c)' = {} /\ \A d \in Cores \ {c} : ReturnedBy(d)' = ReturnedBy(d)
  BY <1>2 DEF ReturnedBy
<1>4. f.base \in Int /\ f.count \in Nat /\ P = f.base .. f.base + f.count - 1
  BY DEF IInv, CallsTyped, FrameType, Pages
<1>5. \A d, e \in Cores : ReturnedBy(d)' \cap ReturnedBy(e)' # {} => d = e
  BY <1>3 DEF ReturnInv
<1>6. ReturnState(c)'
  BY <1>2 DEF ReturnState
<1> HIDE DEF P
<1>7. PICK limit \in Int : limit = f.base + f.count - 1
  BY <1>4
<1>8. /\ P = f.base .. limit
      /\ P # {} => f.base <= limit /\ f.base \in P /\ limit \in P
  BY <1>4, <1>7
<1>9. CASE GotPages(c)
  <2>1. /\ P \subseteq Allocator!Free
        /\ \A d \in Cores : ReturnedBy(d) \cap P = {}
    BY <1>1, <1>9, TakenIsFree DEF P
  <2>2. /\ f.page_type \in PageTypes
        /\ held' = [ p \in Managed |-> IF p \in P THEN f.page_type ELSE held[p] ]
    BY <1>9 DEF Unlock, GotPages, IInv, CallState, P
  <2>3. ReturnedBy(c) = {} /\ Returning' = Returning
    BY <1>3, <1>9 DEF GotPages, ReturnedBy, Returning
  <2>4. \A d \in Cores \ {c} : ReturnState(d)'
    BY <1>2, <1>3, <2>1, <2>2 DEF ReturnInv, ReturnState
  <2>5. P \subseteq Managed
    BY <2>1 DEF Allocator!Free
  <2>6. [Allocator!Next]_<<held, Returning>>
    <3>1. CASE P = {}
      BY <2>2, <2>3, <3>1 DEF IInv, CallsTyped
    <3>2. CASE P # {}
      <4>1. /\ f.base \in Managed /\ limit \in Managed /\ f.base <= limit
            /\ f.base .. limit \subseteq Allocator!Free
            /\ held' = [ p \in Managed |-> IF p \in f.base .. limit
                                           THEN f.page_type ELSE held[p] ]
        BY <1>8, <2>1, <2>2, <2>5, <3>2
      <4>2. Allocator!Alloc
        BY <2>2, <2>3, <4>1 DEF Allocator!Alloc
      <4>. QED
        BY <4>2 DEF Allocator!Next
    <3>. QED
      BY <3>1, <3>2
  <2>. QED
    BY <1>5, <1>6, <2>4, <2>6 DEF FrameStep, ReturnInv
<1>10. CASE ~ GotPages(c)
  <2>1. held' = held
    BY <1>10 DEF Unlock, GotPages
  <2>2. \A d \in Cores \ {c} : ReturnState(d)'
    BY <1>2, <1>3, <2>1 DEF ReturnInv, ReturnState
  <2>3. Returning' = Returning \ ReturnedBy(c)
    BY <1>3 DEF Returning, ReturnInv
  <2>4. [Allocator!Next]_<<held, Returning>>
    <3>1. CASE ReturnedBy(c) = {}
      BY <2>1, <2>3, <3>1
    <3>2. CASE ReturnedBy(c) # {}
      <4>1. ReturnedBy(c) = P /\ P \subseteq Managed
        BY <3>2 DEF ReturnedBy, ReturnInv, ReturnState, P
      <4>2. /\ f.base \in Managed /\ limit \in Managed /\ f.base <= limit
            /\ f.base .. limit \subseteq Returning
            /\ Returning' = Returning \ (f.base .. limit)
        BY <1>8, <2>3, <3>2, <4>1 DEF Returning
      <4>3. Allocator!Reclaim
        BY <2>1, <4>2 DEF Allocator!Reclaim
      <4>. QED
        BY <4>3 DEF Allocator!Next
    <3>. QED
      BY <3>1, <3>2
  <2>. QED
    BY <1>5, <1>6, <2>2, <2>4 DEF FrameStep, ReturnInv
<1>. QED
  BY <1>9, <1>10

(* Searching, splitting, inserting, merging and the metadata are unseen.    *)
LEMMA InsideIsUnseen ==
  ASSUME ram_base = 0, IInv, ReturnInv, NEW c \in Cores,
         LockAcquire(c) \/ (Run(c) /\ ~ Unlock(c))
  PROVE  FrameStep
<1> DEFINE Quiet(label, f) ==
             /\ held' = held
             /\ pc' = [pc EXCEPT ![c] = label]
             /\ frame' = [frame EXCEPT ![c] = f]
             /\ \/ frame[c].op # "free" /\ f.op # "free"
                \/ /\ f.op = frame[c].op /\ f.base = frame[c].base /\ f.count = frame[c].count
                   /\ label \in {"lock", "merge", "unlock"}
<1>0. /\ pc \in [Cores -> Labels] /\ frame \in [Cores -> FrameType]
      /\ CallState(c) /\ ReturnState(c)
  BY DEF IInv, CallsTyped, ReturnInv
<1>1. ASSUME NEW label, NEW f, Quiet(label, f)
      PROVE  FrameStep
  BY <1>0, <1>1, QuietKeepsReturns, SameFramesStutters DEF FrameStep
<1>2. CASE LockAcquire(c)
  <2>1. PICK label : pc' = [pc EXCEPT ![c] = label]
                     /\ (frame[c].op = "free" => label \in {"merge", "unlock"})
    BY <1>2 DEF LockAcquire, Goto
  <2>2. frame' = [frame EXCEPT ![c] = frame[c]] /\ held' = held
    BY <1>0, <1>2 DEF LockAcquire
  <2>. QED
    BY <1>1, <2>1, <2>2
<1>3. CASE OutOfMemory(c) \/ TakeBlock(c) \/ GetMetadata(c)
  <2>1. frame[c].op \in {"alloc", "get"}
    BY <1>0, <1>3 DEF OutOfMemory, TakeBlock, GetMetadata, CallState
  <2>2. /\ held' = held
        /\ \E label : pc' = [pc EXCEPT ![c] = label]
        /\ \E f : frame' = [frame EXCEPT ![c] = f] /\ f.op = frame[c].op
    <3>1. CASE OutOfMemory(c)
      <4> DEFINE f == [frame[c] EXCEPT !.base = PHYS_ADDR_INVALID]
      <4>1. f.op = frame[c].op
        BY <1>0 DEF FrameType
      <4>2. /\ held' = held /\ pc' = [pc EXCEPT ![c] = "unlock"]
            /\ frame' = [frame EXCEPT ![c] = f]
        BY <3>1 DEF OutOfMemory, Goto
      <4> HIDE DEF f
      <4>. QED
        BY <4>1, <4>2
    <3>2. CASE TakeBlock(c)
      <4>1. PICK page, count, free_i, limit :
              frame' = [frame EXCEPT ![c] = [frame[c] EXCEPT
                          !.base = page, !.count = count, !.free_i = free_i,
                          !.limit = limit]]
        BY <3>2 DEF TakeBlock
      <4> DEFINE f == [frame[c] EXCEPT !.base = page, !.count = count,
                                       !.free_i = free_i, !.limit = limit]
      <4>2. f.op = frame[c].op
        BY <1>0 DEF FrameType
      <4>3. frame' = [frame EXCEPT ![c] = f]
        BY <4>1
      <4>4. held' = held /\ pc' = [pc EXCEPT ![c] = "insert"]
        BY <3>2 DEF TakeBlock, Goto
      <4> HIDE DEF f
      <4>. QED
        BY <4>2, <4>3, <4>4
    <3>3. CASE GetMetadata(c)
      <4>1. PICK type : frame' = [frame EXCEPT ![c] = [frame[c] EXCEPT !.page_type = type]]
        BY <3>3 DEF GetMetadata
      <4> DEFINE f == [frame[c] EXCEPT !.page_type = type]
      <4>2. f.op = frame[c].op
        BY <1>0 DEF FrameType
      <4>3. held' = held /\ pc' = [pc EXCEPT ![c] = "unlock"]
        BY <3>3 DEF GetMetadata, Goto
      <4>4. frame' = [frame EXCEPT ![c] = f]
        BY <4>1
      <4> HIDE DEF f
      <4>. QED
        BY <4>2, <4>3, <4>4
    <3>. QED
      BY <1>3, <3>1, <3>2, <3>3
  <2>. QED
    BY <1>1, <2>1, <2>2
<1>4. CASE InsertRange(c)
  <2>1. PICK i : frame' = [frame EXCEPT ![c] = [frame[c] EXCEPT !.free_i = i]]
    BY <1>0, <1>4 DEF InsertRange
  <2> DEFINE f == [frame[c] EXCEPT !.free_i = i]
  <2>2. f.op = frame[c].op
    BY <1>0 DEF FrameType
  <2>3. frame' = [frame EXCEPT ![c] = f]
    BY <2>1
  <2>4. held' = held /\ pc' = [pc EXCEPT ![c] = pc[c]] /\ frame[c].op # "free"
    BY <1>0, <1>4 DEF InsertRange, ReturnState
  <2> HIDE DEF f
  <2>. QED
    BY <1>1, <2>2, <2>3, <2>4
<1>5. CASE InsertDone(c) \/ ApplyMetadata(c) \/ RequireRangeType(c) \/ RequirePanic(c)
  <2>1. /\ held' = held /\ \E label : pc' = [pc EXCEPT ![c] = label]
        /\ pc[c] \in {"boot_insert", "insert", "apply", "require"}
        /\ frame' = frame
    BY <1>5 DEF InsertDone, ApplyMetadata, RequireRangeType, RequirePanic, Goto
  <2>2. frame[c].op # "free" /\ frame' = [frame EXCEPT ![c] = frame[c]]
    BY <1>0, <2>1 DEF ReturnState
  <2>. QED
    BY <1>1, <2>1, <2>2
<1>6. CASE BootApply(c)
  <2>1. /\ held' = held /\ pc' = [pc EXCEPT ![c] = "idle"]
        /\ frame' = [frame EXCEPT ![c] = NoFrame]
    BY <1>6 DEF BootApply, Goto
  <2>2. frame[c].op # "free" /\ NoFrame.op # "free"
    BY <1>0, <1>6 DEF BootApply, ReturnState, NoFrame, Frame
  <2>. QED
    BY <1>1, <2>1, <2>2
<1>7. CASE MergeUp(c) \/ FreePage(c)
  <2>1. /\ held' = held
        /\ \E label \in {"merge", "unlock"} : pc' = [pc EXCEPT ![c] = label]
    BY <1>0, <1>7 DEF MergeUp, FreePage, Goto
  <2>2. \E f : /\ frame' = [frame EXCEPT ![c] = f]
               /\ f.op = frame[c].op /\ f.base = frame[c].base /\ f.count = frame[c].count
    <3>1. CASE MergeUp(c)
      <4>1. PICK page, level : frame' = [frame EXCEPT ![c] =
                                  [frame[c] EXCEPT !.page_i = page, !.level_i = level]]
        BY <3>1 DEF MergeUp
      <4> DEFINE f == [frame[c] EXCEPT !.page_i = page, !.level_i = level]
      <4>2. f.op = frame[c].op /\ f.base = frame[c].base /\ f.count = frame[c].count
        BY <1>0 DEF FrameType
      <4>3. frame' = [frame EXCEPT ![c] = f]
        BY <4>1
      <4> HIDE DEF f
      <4>. QED
        BY <4>2, <4>3
    <3>2. CASE FreePage(c)
      <4>1. PICK i, page, level : frame' = [frame EXCEPT ![c] = [frame[c] EXCEPT
                                     !.free_i = i, !.page_i = page, !.level_i = level]]
        BY <3>2 DEF FreePage
      <4> DEFINE f == [frame[c] EXCEPT !.free_i = i, !.page_i = page, !.level_i = level]
      <4>2. f.op = frame[c].op /\ f.base = frame[c].base /\ f.count = frame[c].count
        BY <1>0 DEF FrameType
      <4>3. frame' = [frame EXCEPT ![c] = f]
        BY <4>1
      <4> HIDE DEF f
      <4>. QED
        BY <4>2, <4>3
    <3>. QED
      BY <1>7, <3>1, <3>2
  <2>. QED
    BY <1>1, <2>1, <2>2
<1>. QED
  BY <1>2, <1>3, <1>4, <1>5, <1>6, <1>7 DEF Run

(* To callers every step hands out free frames, takes frames back, makes    *)
(* frames free that were on their way, or does nothing.                     *)
LEMMA FramesStep ==
  ASSUME ram_base = 0, Mutex, IInv, ReturnInv, [Next]_vars
  PROVE  FrameStep
<1>1. ASSUME NEW c \in Cores, Calls(c)
      PROVE  FrameStep
  BY <1>1, OtherCallIsUnseen, FreeCallReturns DEF Calls
<1>2. ASSUME NEW c \in Cores, LockAcquire(c) \/ Run(c)
      PROVE  FrameStep
  BY <1>2, InsideIsUnseen, UnlockGivesOrReclaims
<1>3. CASE UNCHANGED vars
  <2>1. UNCHANGED <<held, pc, frame>>
    BY <1>3 DEF vars
  <2>2. \A c \in Cores : ReturnedBy(c)' = ReturnedBy(c)
    BY <2>1 DEF ReturnedBy
  <2>. QED
    BY <2>1, <2>2 DEF FrameStep, ReturnInv, ReturnState, Returning
<1>. QED
  BY <1>1, <1>2, <1>3 DEF Next

(* To its callers the buddy allocator is the plain frame allocator: for all *)
(* numbers of cores, pages and levels, whatever is allocated and freed.     *)
THEOREM BuddyAllocatorIsFrameAllocator ==
  ASSUME ram_base = 0
  PROVE  Spec => ImplementsFrameAllocator
<1>1. Init => Mutex
  BY DEF Init, Mutex, MutualExclusion, Labels, Holding
<1>2. Init => ReturnInv /\ Allocator!Init
  <2> SUFFICES ASSUME Init PROVE ReturnInv /\ Allocator!Init
    OBVIOUS
  <2>1. \A c \in Cores : frame[c].op # "free"
    BY DEF Init, NoFrame, Frame
  <2>2. \A c \in Cores : ReturnedBy(c) = {}
    BY <2>1 DEF ReturnedBy
  <2>3. Returning = {}
    BY <2>2 DEF Returning
  <2>. QED
    BY <2>1, <2>2, <2>3 DEF Init, ReturnInv, ReturnState, Allocator!Init
<1>3. Mutex /\ IInv /\ ReturnInv /\ [Next]_vars
        => ReturnInv' /\ [Allocator!Next]_<<held, Returning>>
  BY FramesStep DEF FrameStep
<1>. QED
  BY <1>1, <1>2, <1>3, InductiveInvariant, PTL
     DEF Spec, ImplementsFrameAllocator, Allocator!Spec


----------------------------------------------------------------------------
(* One core at a time works on the store                                    *)

BootLabels == {"boot_insert", "boot_apply"}
Active == Holding \cup BootLabels

(* The boot core initialises the allocator alone, before anybody holds a    *)
(* page, and nobody runs that code again.                                   *)
BootAlone ==
  /\ Booted => \A c \in Cores : pc[c] \notin BootLabels
  /\ ~ Booted => /\ pc[BootCore] \in BootLabels
                 /\ \A c \in Cores \ {BootCore} : pc[c] = "idle"
                 /\ \A p \in Managed : ~ IsHeld(p)

Base == Mutex /\ IInv /\ BootAlone

Step(c) == Calls(c) \/ LockAcquire(c) \/ Run(c)

(* A step of a core changes its own place and locals only; what a call      *)
(* starts with is not the boot core's.                                      *)
LEMMA StepFrame ==
  ASSUME IInv, NEW c \in Cores, Step(c)
  PROVE  /\ \A d \in Cores \ {c} : pc'[d] = pc[d] /\ frame'[d] = frame[d]
         /\ \E l : pc' = [pc EXCEPT ![c] = l]
<1>0. pc \in [Cores -> Labels] /\ frame \in [Cores -> FrameType]
  BY DEF IInv, CallsTyped
<1>1. \E l, f : pc' = [pc EXCEPT ![c] = l] /\ frame' = [frame EXCEPT ![c] = f]
  <2>1. CASE Calls(c)
    BY <2>1 DEF Calls, AllocCall, FreeCall, GetCall, RequireCall, RequireOutOfBounds,
                Call, Goto
  <2>2. CASE LockAcquire(c) \/ InsertDone(c) \/ ApplyMetadata(c)
               \/ RequireRangeType(c) \/ RequirePanic(c)
    <3>1. frame' = [frame EXCEPT ![c] = frame[c]]
      BY <1>0, <2>2 DEF LockAcquire, InsertDone, ApplyMetadata, RequireRangeType, RequirePanic
    <3> QED
      BY <2>2, <3>1, Zenon
         DEF LockAcquire, InsertDone, ApplyMetadata, RequireRangeType, RequirePanic, Goto
  <2>3. CASE Unlock(c) \/ OutOfMemory(c) \/ TakeBlock(c) \/ BootApply(c)
               \/ FreePage(c) \/ GetMetadata(c)
    BY <2>3, Zenon DEF Unlock, OutOfMemory, TakeBlock, BootApply, FreePage, GetMetadata, Goto
  <2>4. CASE InsertRange(c) \/ MergeUp(c)
    <3>1. pc' = [pc EXCEPT ![c] = pc[c]]
      BY <1>0, <2>4 DEF InsertRange, MergeUp
    <3> QED
      BY <2>4, <3>1, Zenon DEF InsertRange, MergeUp
  <2> QED
    BY <2>1, <2>2, <2>3, <2>4 DEF Step, Run
<1> QED
  BY <1>0, <1>1

(* Nobody else works on the store while one core does.                      *)
LEMMA OthersAreOutside ==
  ASSUME Base, NEW c \in Cores, pc[c] \in Active, NEW d \in Cores \ {c}
  PROVE  pc[d] \notin Active
<1>1. CASE Booted
  BY <1>1 DEF Base, BootAlone, Mutex, MutualExclusion, Active
<1>2. CASE ~ Booted
  <2>1. c = BootCore
    <3>1. c # BootCore => pc[c] = "idle"
      BY <1>2 DEF Base, BootAlone
    <3> QED
      BY <3>1 DEF Active, Holding, BootLabels
  <2>2. pc[d] = "idle"
    BY <1>2, <2>1 DEF Base, BootAlone
  <2> QED
    BY <2>2 DEF Active, Holding, BootLabels
<1> QED
  BY <1>1, <1>2

(* Who works on no store leaves it alone, and takes no page.                *)
LEMMA OutsideStep ==
  ASSUME NEW c \in Cores, Step(c), pc[c] \notin Active
  PROVE  Calls(c) \/ LockAcquire(c)
  BY DEF Step, Run, Active, Holding, BootLabels, Unlock, OutOfMemory, TakeBlock, InsertRange,
         InsertDone, ApplyMetadata, BootApply, MergeUp, FreePage, GetMetadata,
         RequireRangeType, RequirePanic

(* A call that begins, or gets the lock, works on no store yet, and at most *)
(* gives pages back.                                                        *)
LEMMA CallsKeepStore ==
  ASSUME IInv, NEW c \in Cores, Calls(c) \/ LockAcquire(c)
  PROVE  /\ UNCHANGED <<buddy_lists, buddy_bitmaps, metadata>>
         /\ pc[c] \in {"idle", "lock"} /\ pc'[c] \notin BootLabels
         /\ Calls(c) => Booted /\ frame'[c].op # "boot" /\ pc'[c] \in {"lock", "panic"}
         /\ LockAcquire(c) => UNCHANGED <<held, frame>> /\ pc[c] = "lock"
         /\ \A p \in Managed : IsHeld(p)' => held'[p] = held[p]
<1>0. pc \in [Cores -> Labels] /\ frame \in [Cores -> FrameType]
  BY DEF IInv, CallsTyped
<1>1. CASE LockAcquire(c)
  <2>1. \E l \in {"search", "get", "require", "merge", "unlock"} :
          pc' = [pc EXCEPT ![c] = l]
    BY <1>1 DEF LockAcquire, Goto
  <2>2. pc'[c] \notin BootLabels
    BY <1>0, <2>1 DEF BootLabels
  <2> QED
    BY <1>1, <2>2 DEF LockAcquire, Calls, AllocCall, FreeCall, GetCall, RequireCall,
                      RequireOutOfBounds, Call
<1>2. CASE Calls(c)
  <2>1. /\ Booted /\ pc[c] = "idle"
        /\ UNCHANGED <<buddy_lists, buddy_bitmaps, metadata>>
        /\ \E l \in {"lock", "panic"} : pc' = [pc EXCEPT ![c] = l]
    <3>1. CASE RequireOutOfBounds(c)
      BY <3>1, Zenon DEF RequireOutOfBounds, Goto
    <3>2. CASE AllocCall(c) \/ GetCall(c) \/ RequireCall(c)
      BY <3>2, Zenon DEF AllocCall, GetCall, RequireCall, Call, Goto
    <3>3. CASE FreeCall(c)
      BY <3>3, Zenon DEF FreeCall, Call, Goto
    <3> QED
      BY <1>2, <3>1, <3>2, <3>3 DEF Calls
  <2>2. pc'[c] \in {"lock", "panic"}
    BY <1>0, <2>1
  <2>3. frame'[c].op # "boot"
    <3>1. PICK op \in Ops \ {"boot"} : \E size, type, base, count :
            frame' = [frame EXCEPT ![c] = Frame(op, size, type, base, count)]
      <4>1. /\ "alloc" \in Ops \ {"boot"} /\ "free" \in Ops \ {"boot"}
            /\ "get" \in Ops \ {"boot"} /\ "require" \in Ops \ {"boot"}
        BY DEF Ops
      <4>2. CASE FreeCall(c)
        BY <4>1, <4>2, Zenon DEF FreeCall, Call
      <4>3. CASE AllocCall(c)
        BY <4>1, <4>3, Zenon DEF AllocCall, Call
      <4>4. CASE GetCall(c)
        BY <4>1, <4>4, Zenon DEF GetCall, Call
      <4>5. CASE RequireCall(c) \/ RequireOutOfBounds(c)
        BY <4>1, <4>5, Zenon DEF RequireCall, RequireOutOfBounds, Call
      <4> QED
        BY <1>2, <4>2, <4>3, <4>4, <4>5 DEF Calls
    <3> QED
      BY <1>0, <3>1 DEF Frame
  <2>4. \A p \in Managed : IsHeld(p)' => held'[p] = held[p]
    <3>1. CASE FreeCall(c)
      <4>1. PICK S : held' = [ p \in Managed |-> IF p \in S THEN NotHeld ELSE held[p] ]
        BY <3>1, Zenon DEF FreeCall
      <4> QED
        BY <4>1 DEF IsHeld
    <3>2. CASE ~ FreeCall(c)
      BY <1>2, <3>2 DEF Calls, AllocCall, GetCall, RequireCall, RequireOutOfBounds
    <3> QED
      BY <3>1, <3>2
  <2> QED
    BY <2>1, <2>2, <2>3, <2>4 DEF BootLabels, LockAcquire
<1> QED
  BY <1>1, <1>2

(* Only the call that returns them gives pages to a caller.                 *)
LEMMA UnlockGives ==
  ASSUME NEW c \in Cores, Run(c)
  PROVE  /\ ~ (Unlock(c) /\ GotPages(c)) => UNCHANGED held
         /\ Unlock(c) /\ GotPages(c) =>
              held' = [ p \in Managed |->
                          IF p \in Pages(frame[c].base, frame[c].count)
                          THEN frame[c].page_type ELSE held[p] ]
  BY DEF Run, Unlock, GotPages, OutOfMemory, TakeBlock, InsertRange,
         InsertDone, ApplyMetadata, BootApply, MergeUp, FreePage, GetMetadata,
         RequireRangeType, RequirePanic

(* The end of a call leaves the boot core as little as any other in it.     *)
LEMMA BootAloneStep ==
  ASSUME ram_base = 0, Base, [Next]_vars
  PROVE  BootAlone'
<1>0. /\ pc \in [Cores -> Labels] /\ frame \in [Cores -> FrameType] /\ IInv
      /\ BootCore \in Cores
  BY ConstantsAssumption DEF Base, IInv, CallsTyped
<1>1. CASE UNCHANGED vars
  BY <1>1, Zenon DEF vars, Base, BootAlone, Booted, IsHeld
<1>2. ASSUME NEW c \in Cores, Calls(c) \/ LockAcquire(c)
      PROVE  BootAlone'
  <2>1. /\ \A d \in Cores \ {c} : pc'[d] = pc[d] /\ frame'[d] = frame[d]
        /\ pc'[c] \notin BootLabels
        /\ Calls(c) => Booted /\ frame'[c].op # "boot"
        /\ LockAcquire(c) => UNCHANGED <<held, frame>> /\ pc[c] = "lock"
    BY <1>0, <1>2, StepFrame, CallsKeepStore DEF Step
  <2>2. Booted
    <3>1. CASE LockAcquire(c)
      <4>1. pc[c] = "lock"
        BY <2>1, <3>1
      <4> QED
        BY <4>1 DEF Base, BootAlone, BootLabels
    <3> QED
      BY <1>2, <2>1, <3>1
  <2>3. Booted'
    BY <1>0, <1>2, <2>1, <2>2 DEF Booted
  <2>4. \A d \in Cores : pc'[d] \notin BootLabels
    BY <2>1, <2>2 DEF Base, BootAlone
  <2> QED
    BY <2>3, <2>4 DEF BootAlone
<1>3. ASSUME NEW c \in Cores, Run(c)
      PROVE  BootAlone'
  <2>0. \A d \in Cores \ {c} : pc'[d] = pc[d] /\ frame'[d] = frame[d]
    BY <1>0, <1>3, StepFrame DEF Step
  <2>1. CASE ~ Booted
    <3>1. c = BootCore
      <4>1. pc[BootCore] \in Active /\ \A d \in Cores \ {BootCore} : pc[d] = "idle"
        BY <2>1 DEF Base, BootAlone, Active
      <4> QED
        BY <1>3, <4>1 DEF Run, Unlock, OutOfMemory, TakeBlock, InsertRange, InsertDone,
           ApplyMetadata, BootApply, MergeUp, FreePage, GetMetadata, RequireRangeType,
           RequirePanic
    <3>2. pc[c] \in BootLabels
      BY <2>1, <3>1 DEF Base, BootAlone
    <3>3. InsertRange(c) \/ InsertDone(c) \/ BootApply(c)
      BY <1>3, <3>2 DEF BootLabels, Run, Unlock, OutOfMemory, TakeBlock,
         ApplyMetadata, MergeUp, FreePage, GetMetadata, RequireRangeType, RequirePanic
    <3>4. UNCHANGED held
      BY <3>3 DEF InsertRange, InsertDone, BootApply
    <3>5. CASE BootApply(c)
      <4>1. pc'[c] = "idle" /\ frame'[c].op = "none"
        BY <1>0, <3>5 DEF BootApply, Goto, NoFrame, Frame
      <4>2. Booted'
        BY <3>1, <4>1 DEF Booted
      <4>3. \A d \in Cores : pc'[d] \notin BootLabels
        BY <2>0, <2>1, <3>1, <4>1 DEF Base, BootAlone, BootLabels
      <4> QED
        BY <4>2, <4>3 DEF BootAlone
    <3>6. CASE InsertRange(c) \/ InsertDone(c)
      <4>1. pc'[c] \in BootLabels /\ frame'[c].op = frame[c].op
        <5>1. CASE InsertRange(c)
          BY <1>0, <3>2, <5>1 DEF InsertRange, FrameType
        <5>2. CASE InsertDone(c)
          BY <1>0, <3>2, <5>2 DEF InsertDone, Goto, BootLabels
        <5> QED
          BY <3>6, <5>1, <5>2
      <4>2. ~ Booted'
        BY <2>1, <3>1, <4>1 DEF Booted
      <4> QED
        BY <2>0, <2>1, <3>1, <3>4, <4>1, <4>2 DEF Base, BootAlone, IsHeld
    <3> QED
      BY <3>3, <3>5, <3>6
  <2>2. CASE Booted
    <3>1. pc[c] \notin BootLabels
      BY <2>2 DEF Base, BootAlone
    <3>2. pc'[c] \notin BootLabels /\ (frame'[c].op # "boot" \/ frame'[c].op = frame[c].op)
      <4>1. CASE Unlock(c) \/ OutOfMemory(c) \/ TakeBlock(c)
        <5>1. pc'[c] \notin BootLabels
          BY <1>0, <4>1 DEF Unlock, OutOfMemory, TakeBlock, Goto, BootLabels
        <5>2. CASE Unlock(c)
          BY <1>0, <5>1, <5>2 DEF Unlock, NoFrame, Frame
        <5>3. CASE OutOfMemory(c)
          BY <1>0, <5>1, <5>3 DEF OutOfMemory, FrameType
        <5>4. CASE TakeBlock(c)
          <6>1. \E p, n, i, m : frame' = [frame EXCEPT ![c] = [frame[c] EXCEPT
                                       !.base = p, !.count = n, !.free_i = i, !.limit = m]]
            BY <5>4, Zenon DEF TakeBlock
          <6> QED
            BY <1>0, <5>1, <6>1 DEF FrameType
        <5> QED
          BY <4>1, <5>2, <5>3, <5>4
      <4>2. CASE InsertRange(c) \/ InsertDone(c) \/ ApplyMetadata(c) \/ BootApply(c)
        BY <1>0, <3>1, <4>2 DEF InsertRange, InsertDone, ApplyMetadata, BootApply, Goto,
                                BootLabels, FrameType
      <4>3. CASE MergeUp(c) \/ FreePage(c)
        <5>1. pc'[c] \notin BootLabels
          BY <1>0, <3>1, <4>3 DEF MergeUp, FreePage, Goto, BootLabels
        <5>2. CASE MergeUp(c)
          <6>1. \E p, l : frame' = [frame EXCEPT ![c] = [frame[c] EXCEPT
                                       !.page_i = p, !.level_i = l]]
            BY <5>2, Zenon DEF MergeUp
          <6> QED
            BY <1>0, <5>1, <6>1 DEF FrameType
        <5>3. CASE FreePage(c)
          <6>1. \E i, p, l : frame' = [frame EXCEPT ![c] = [frame[c] EXCEPT
                                       !.free_i = i, !.page_i = p, !.level_i = l]]
            BY <5>3, Zenon DEF FreePage
          <6> QED
            BY <1>0, <5>1, <6>1 DEF FrameType
        <5> QED
          BY <4>3, <5>2, <5>3
      <4>4. CASE GetMetadata(c) \/ RequireRangeType(c) \/ RequirePanic(c)
        BY <1>0, <4>4 DEF GetMetadata, RequireRangeType, RequirePanic, Goto, BootLabels,
                          FrameType
      <4> QED
        BY <1>3, <4>1, <4>2, <4>3, <4>4 DEF Run
    <3>3. Booted'
      BY <1>0, <2>0, <2>2, <3>2 DEF Booted
    <3> QED
      BY <2>0, <2>2, <3>2, <3>3 DEF Base, BootAlone
  <2> QED
    BY <2>1, <2>2
<1> QED
  BY <1>1, <1>2, <1>3 DEF Next

(* At power on only the boot core runs.                                     *)
LEMMA InitBase ==
  ASSUME ram_base = 0, Init
  PROVE  Base
<1>1. Mutex
  BY DEF Init, Mutex, MutualExclusion, Labels, Holding
<1>2. IInv
  BY InitIInv
<1>3. BootCore \in Cores
  BY ConstantsAssumption
<1>4. /\ \A c \in Cores : pc[c] = IF c = BootCore THEN "boot_insert" ELSE "idle"
      /\ frame[BootCore].op = "boot"
      /\ \A p \in Managed : held[p] = NotHeld
  BY <1>3 DEF Init, Frame
<1>5. BootAlone
  BY <1>3, <1>4 DEF BootAlone, Booted, IsHeld, BootLabels
<1> QED
  BY <1>1, <1>2, <1>5 DEF Base

(* Every step keeps it so.                                                  *)
LEMMA BaseStep ==
  ASSUME ram_base = 0, Base, [Next]_vars
  PROVE  Base'
<1>1. Mutex' /\ IInv'
  BY MutexStep, IInvStep DEF Base
<1> QED
  BY <1>1, BootAloneStep DEF Base

----------------------------------------------------------------------------
(* Refusals                                                                 *)

(* A call that is about to refuse found every list it may take from empty,  *)
(* and nobody has put a block on one since.                                 *)
RefusalsExact ==
  \A c \in Cores : FailedAlloc(c) => Candidates(frame[c].size) = {}

(* An allocation comes to its PFA_UNLOCK from the search that failed or     *)
(* from the marking of its pages.                                           *)
LEMMA AllocationReturns ==
  ASSUME IInv, NEW c \in Cores, Step(c), pc'[c] = "unlock", frame'[c].op = "alloc"
  PROVE  OutOfMemory(c) \/ ApplyMetadata(c)
<1>0. /\ pc \in [Cores -> Labels] /\ frame \in [Cores -> FrameType] /\ CallState(c)
  BY DEF IInv, CallsTyped
<1>1. pc'[c] = "unlock" /\ frame'[c].op = "alloc"
  OBVIOUS
<1>2. CASE Calls(c)
  <2>1. pc'[c] # "unlock"
    BY <1>0, <1>2, CallsKeepStore
  <2> QED
    BY <1>1, <2>1
<1>3. CASE LockAcquire(c)
  <2>1. frame[c].op = "alloc" /\ frame' = frame
    BY <1>1, <1>3 DEF LockAcquire
  <2>2. pc'[c] = "search"
    BY <1>0, <1>3, <2>1 DEF LockAcquire, Goto
  <2> QED
    BY <1>1, <2>2
<1>4. CASE Unlock(c) \/ TakeBlock(c) \/ InsertRange(c) \/ InsertDone(c) \/ BootApply(c)
             \/ MergeUp(c) \/ RequirePanic(c)
  <2>1. pc'[c] # "unlock"
    BY <1>0, <1>4 DEF Unlock, TakeBlock, InsertRange, InsertDone, BootApply, MergeUp,
                      RequirePanic, Goto
  <2> QED
    BY <1>1, <2>1
<1>5. CASE FreePage(c) \/ GetMetadata(c) \/ RequireRangeType(c)
  <2>1. frame[c].op \in {"free", "get", "require"}
    BY <1>0, <1>5 DEF FreePage, GetMetadata, RequireRangeType, CallState
  <2>2. frame'[c].op = frame[c].op
    <3>1. CASE FreePage(c)
      <4>1. \E i, p, l : frame' = [frame EXCEPT ![c] = [frame[c] EXCEPT
                                     !.free_i = i, !.page_i = p, !.level_i = l]]
        BY <3>1, Zenon DEF FreePage
      <4> QED
        BY <1>0, <4>1 DEF FrameType
    <3>2. CASE GetMetadata(c) \/ RequireRangeType(c)
      BY <1>0, <3>2 DEF GetMetadata, RequireRangeType, FrameType
    <3> QED
      BY <1>5, <3>1, <3>2
  <2> QED
    BY <1>1, <2>1, <2>2
<1> QED
  BY <1>2, <1>3, <1>4, <1>5 DEF Step, Run

(* Every step keeps it so: only OutOfMemory reaches the refusal.            *)
LEMMA RefusalsStep ==
  ASSUME ram_base = 0, Base, RefusalsExact, [Next]_vars
  PROVE  RefusalsExact'
<1> SUFFICES ASSUME NEW d \in Cores, FailedAlloc(d)'
             PROVE  (Candidates(frame[d].size) = {})'
  BY DEF RefusalsExact
<1>0. /\ pc \in [Cores -> Labels] /\ frame \in [Cores -> FrameType] /\ IInv
      /\ CallState(d)
  BY DEF Base, IInv, CallsTyped
<1>1. CASE UNCHANGED vars
  BY <1>1 DEF vars, RefusalsExact, FailedAlloc, Candidates
<1>2. ASSUME NEW c \in Cores, Step(c)
      PROVE  (Candidates(frame[d].size) = {})'
  <2>1. CASE d # c
    <3>1. pc'[d] = pc[d] /\ frame'[d] = frame[d]
      BY <1>0, <1>2, <2>1, StepFrame
    <3>2. FailedAlloc(d) /\ pc[d] \in Active
      BY <3>1 DEF FailedAlloc, Active, Holding
    <3>3. pc[c] \notin Active
      BY <2>1, <3>2, OthersAreOutside
    <3>4. UNCHANGED buddy_lists
      BY <1>0, <1>2, <3>3, OutsideStep, CallsKeepStore
    <3> QED
      BY <3>1, <3>2, <3>4 DEF RefusalsExact, Candidates
  <2>2. CASE d = c
    <3>1. pc'[c] = "unlock" /\ frame'[c].op = "alloc" /\ frame'[c].base = PHYS_ADDR_INVALID
      BY <2>2 DEF FailedAlloc
    <3>2. CASE OutOfMemory(c)
      <4>1. frame'[c].size = frame[c].size
        BY <1>0, <3>2 DEF OutOfMemory, FrameType
      <4> QED
        BY <2>2, <3>2, <4>1 DEF OutOfMemory, Candidates
    <3>3. CASE ApplyMetadata(c)
      <4>1. frame[c].base \in Managed /\ frame' = frame
        BY <1>0, <2>2, <3>3 DEF ApplyMetadata, CallState
      <4> QED
        BY <3>1, <4>1, ManagedPages DEF PHYS_ADDR_INVALID
    <3> QED
      BY <1>0, <1>2, <2>2, <3>1, <3>2, <3>3, AllocationReturns
  <2> QED
    BY <2>1, <2>2
<1> QED
  BY <1>1, <1>2 DEF Next, Step

(* A request that would fit a level below the one its search starts at is   *)
(* one of a power of two of pages, of more than one page.                   *)
LEMMA FitsBelowSearch ==
  ASSUME NEW size \in Nat, NEW l \in Levels, FitsLevel(size, l),
         ~ (min_buddy_level_for_size(size) <= l)
  PROVE  l \notin {0, TOP} /\ size_to_page_count(size) = buddy_level_page_count(l)
<1> DEFINE m == min_buddy_level_for_size(size)
           count == size_to_page_count(size)
           S == {TOP} \cup { k \in Levels : count < buddy_level_page_count(k) }
<1>1. count \in Nat /\ m \in Levels /\ buddy_level_page_count(l) \in Nat
  BY RoundUpIsNatural, SearchLevelIsLevel, PageCountType
<1>2. ~ (size <= PAGE_SIZE)
  <2>1. size <= PAGE_SIZE => m = 0
    BY DEF min_buddy_level_for_size
  <2> QED
    BY <2>1, LevelFacts
<1>3. m = Min(S)
  BY <1>2 DEF min_buddy_level_for_size
<1>4. S \in SUBSET Nat /\ S # {}
  BY LevelFacts
<1>5. \A k \in S : m <= k
  <2> HIDE DEF S, m
  <2> QED
    BY <1>3, <1>4, MinIsLeast
<1>6. l \notin S
  BY <1>5
<1>7. l # TOP /\ count = buddy_level_page_count(l)
  BY <1>1, <1>6 DEF FitsLevel
<1>8. 2 <= count
  <2>1. PICK x \in Nat : x = size + PAGE_SIZE - 1
    BY ConstantsAssumption
  <2>2. PICK q \in Nat, r \in 0 .. PAGE_SIZE - 1 : x = PAGE_SIZE * q + r /\ q = x \div PAGE_SIZE
    BY <2>1, ConstantsAssumption, Division
  <2>3. PAGE_SIZE * q + PAGE_SIZE > 2 * PAGE_SIZE
    BY <1>2, <2>1, <2>2, ConstantsAssumption
  <2>4. q # 0 /\ q # 1
    BY <2>3, ConstantsAssumption
  <2>5. count = q
    BY <2>1, <2>2 DEF size_to_page_count
  <2> QED
    BY <2>2, <2>4, <2>5
<1>9. l # 0
  BY <1>7, <1>8, PageCountAssumption
<1> QED
  BY <1>7, <1>9

(* pmap_pfa_alloc_contig refuses a request only when no free block is large *)
(* enough, but for the requests whose search starts one level too high.     *)
THEOREM RefusalsAreReal ==
  ASSUME ram_base = 0
  PROVE  Spec => []OutOfMemoryIsReal
<1>1. Init => Base /\ RefusalsExact
  BY InitBase DEF Init, RefusalsExact, FailedAlloc
<1>2. Base /\ RefusalsExact /\ [Next]_vars => (Base /\ RefusalsExact)'
  BY BaseStep, RefusalsStep
<1>3. Base /\ RefusalsExact => OutOfMemoryIsReal
  <2> SUFFICES ASSUME Base, RefusalsExact, NEW c \in Cores, FailedAlloc(c),
                      NEW l \in Levels, FitsLevel(frame[c].size, l)
               PROVE  \/ FreeBlocks(l) = {}
                      \/ /\ l \notin {0, TOP}
                         /\ size_to_page_count(frame[c].size) = buddy_level_page_count(l)
    BY DEF OutOfMemoryIsReal
  <2>1. frame[c].size \in Nat
    BY DEF Base, IInv, CallsTyped, FrameType
  <2>2. Candidates(frame[c].size) = {}
    BY DEF RefusalsExact
  <2>3. CASE min_buddy_level_for_size(frame[c].size) <= l
    <3>1. l \in min_buddy_level_for_size(frame[c].size) .. TOP
      BY <2>1, <2>3, SearchLevelIsLevel, LevelFacts
    <3>2. buddy_lists[l] = << >>
      BY <2>2, <3>1 DEF Candidates
    <3> QED
      BY <3>2 DEF FreeBlocks, ToSet
  <2>4. CASE ~ (min_buddy_level_for_size(frame[c].size) <= l)
    BY <2>1, <2>4, FitsBelowSearch
  <2> QED
    BY <2>3, <2>4
<1> QED
  BY <1>1, <1>2, <1>3, PTL DEF Spec

----------------------------------------------------------------------------
(* Metadata                                                                 *)

(* The metadata byte of a page that is not shared with the bitmap says type.*)
MarkedAs(p, type) ==
  p - page_base \notin SharedBytes => page_type(metadata[p - page_base]) = type

(* The pages a call is about to return carry the type it was asked for.     *)
GrantsMarked ==
  \A c \in Cores : pc[c] = "unlock" /\ GotPages(c) =>
    \A p \in Pages(frame[c].base, frame[c].count) : MarkedAs(p, frame[c].page_type)

MetadataInv == MetadataTracksType /\ GrantsMarked

(* No bit of the bitmaps is in a metadata byte but the shared ones.         *)
LEMMA SetBitKeepsMetadata ==
  ASSUME ram_base = 0, StoreTyped, NEW l \in Levels, NEW p \in Managed,
         NEW v \in BOOLEAN, buddy_bitmap_set_bit_locked(p, l, v)
  PROVE  \A i \in (0 .. page_count - 1) \ SharedBytes : metadata'[i] = metadata[i]
<1>1. CASE l = TOP /\ InMds(buddy_bitmap_slot(p, l))
  <2>1. metadata' = [metadata EXCEPT ![MdsByteOf(buddy_bitmap_slot(p, TOP))] =
                       WithBit(@, buddy_bitmap_slot(p, TOP) % 8, v)]
    BY <1>1 DEF buddy_bitmap_set_bit_locked
  <2>2. MdsByteOf(buddy_bitmap_slot(p, TOP)) \in SharedBytes
    BY DEF SharedBytes
  <2> QED
    BY <2>1, <2>2 DEF StoreTyped
<1>2. CASE ~ (l = TOP /\ InMds(buddy_bitmap_slot(p, l)))
  BY <1>2 DEF buddy_bitmap_set_bit_locked
<1> QED
  BY <1>1, <1>2

(* The block an allocation takes, and the locals it goes on with.           *)
LEMMA TakenBlock ==
  ASSUME ram_base = 0, IInv, NEW c \in Cores, TakeBlock(c)
  PROVE  \E level \in Levels : \E page \in FreeBlocks(level) : \E count \in Nat :
           /\ page \in Managed /\ Aligned(page, level)
           /\ count <= buddy_level_page_count(level)
           /\ list_remove(level, page)
           /\ buddy_bitmap_set_bit_locked(page, level, BUDDY_BIT_ALLCOATED)
           /\ pc'[c] = "insert"
           /\ frame'[c].base = page /\ frame'[c].count = count
           /\ frame'[c].free_i = page + count
           /\ frame'[c].limit = page + buddy_level_page_count(level)
<1> DEFINE level == Min(Candidates(frame[c].size))
           page  == Head(buddy_lists[level])
           count == size_to_page_count(frame[c].size)
           f == [frame[c] EXCEPT !.base = page, !.count = count, !.free_i = page + count,
                                 !.limit = page + buddy_level_page_count(level)]
<1>0. /\ frame[c] \in FrameType /\ CallState(c)
      /\ pc \in [Cores -> Labels] /\ frame \in [Cores -> FrameType]
  BY DEF IInv, CallsTyped
<1>1. /\ pc[c] = "search" /\ pc' = [pc EXCEPT ![c] = "insert"]
      /\ frame' = [frame EXCEPT ![c] = f]
      /\ list_remove(level, page)
      /\ buddy_bitmap_set_bit_locked(page, level, BUDDY_BIT_ALLCOATED)
      /\ Candidates(frame[c].size) # {}
  BY DEF TakeBlock, Goto
<1>2. /\ frame[c].op = "alloc" /\ frame[c].size \in Nat /\ frame[c].size <= MaxRequest
  BY <1>0, <1>1 DEF CallState, FrameType
<1>3. /\ level \in Levels /\ buddy_lists[level] # << >>
      /\ min_buddy_level_for_size(frame[c].size) <= level
  <2>1. min_buddy_level_for_size(frame[c].size) \in Nat
    BY <1>2, SearchLevelIsLevel, LevelFacts
  <2>2. /\ Candidates(frame[c].size) \in SUBSET Levels
        /\ \A l \in Candidates(frame[c].size) :
             min_buddy_level_for_size(frame[c].size) <= l /\ buddy_lists[l] # << >>
    BY <2>1, LevelFacts DEF Candidates
  <2>3. level \in Candidates(frame[c].size)
    BY <1>1, <2>2, MinIsLeast, LevelFacts
  <2> QED
    BY <2>2, <2>3
<1>4. page \in FreeBlocks(level) /\ page \in Managed /\ page \in Nat
  <2>1. buddy_lists[level] \in Seq(Managed)
    BY <1>3 DEF IInv, StoreTyped
  <2>2. page \in Managed /\ page \in ToSet(buddy_lists[level])
    BY <1>3, <2>1, HeadIsIn
  <2> QED
    BY <2>2, ManagedPages DEF FreeBlocks
<1>5. count \in Nat /\ count <= buddy_level_page_count(level)
  BY <1>2, <1>3, SearchLevelHolds
<1>6. Aligned(page, level)
  BY <1>3, <1>4 DEF IInv, StoreInv
<1> HIDE DEF level, page, count
<1>7. pc'[c] = "insert" /\ frame'[c] = f
  BY <1>0, <1>1
<1>8. /\ f.base = page /\ f.count = count /\ f.free_i = page + count
      /\ f.limit = page + buddy_level_page_count(level)
  BY <1>0 DEF FrameType
<1> HIDE DEF f
<1> QED
  BY <1>1, <1>3, <1>4, <1>5, <1>6, <1>7, <1>8

(* The block an insertion puts on a list, and the locals it goes on with.   *)
LEMMA InsertedBlock ==
  ASSUME ram_base = 0, IInv, NEW c \in Cores, InsertRange(c)
  PROVE  LET level == InsertLevel(frame[c])
             page  == frame[c].free_i
         IN  /\ level \in Levels /\ page \in Managed /\ page \in Nat
             /\ Aligned(page, level)
             /\ page < frame[c].limit
             /\ buddy_level_page_count(level) <= frame[c].limit - page
             /\ pc[c] \in {"boot_insert", "insert"} /\ pc'[c] = pc[c]
             /\ list_push_front(level, page)
             /\ buddy_bitmap_set_bit_locked(page, level, BUDDY_BIT_FREE)
             /\ frame'[c] = [frame[c] EXCEPT !.free_i = page + buddy_level_page_count(level)]
<1> DEFINE level == InsertLevel(frame[c])
           page == frame[c].free_i
<1>0. /\ frame[c] \in FrameType /\ frame \in [Cores -> FrameType]
      /\ page \in Nat /\ frame[c].limit \in Nat
  BY DEF IInv, CallsTyped, FrameType
<1>1. /\ pc[c] \in {"boot_insert", "insert"} /\ pc' = pc
      /\ page < frame[c].limit
      /\ list_push_front(level, page)
      /\ buddy_bitmap_set_bit_locked(page, level, BUDDY_BIT_FREE)
      /\ frame'[c] = [frame[c] EXCEPT !.free_i = page + buddy_level_page_count(level)]
  BY <1>0 DEF InsertRange
<1>2. /\ level \in Levels /\ Aligned(page, level)
      /\ buddy_level_page_count(level) <= frame[c].limit - page
  BY <1>0, <1>1, InsertLevelFits
<1>3. page \in Managed
  <2>1. page \in Remaining(c)
    <3>1. Remaining(c) = page .. frame[c].limit - 1
      BY <1>1 DEF Remaining
    <3> HIDE DEF page
    <3> QED
      BY <1>0, <1>1, <3>1
  <2> QED
    BY <2>1 DEF IInv, Partition, InFlight
<1> HIDE DEF level
<1> QED
  BY <1>0, <1>1, <1>2, <1>3 DEF level

(* A step writes no metadata byte that counts but where a call or the boot  *)
(* core marks pages.                                                        *)
LEMMA OnlyApplyMarks ==
  ASSUME ram_base = 0, Base, NEW c \in Cores, Step(c),
         ~ ApplyMetadata(c), ~ BootApply(c),
         NEW p \in Managed, NEW type
  PROVE  MarkedAs(p, type)' <=> MarkedAs(p, type)
<1>0. /\ StoreTyped /\ IInv /\ p - page_base \in 0 .. page_count - 1
      /\ frame[c] \in FrameType /\ CallState(c)
  BY ManagedPages DEF Base, IInv, CallsTyped
<1> SUFFICES p - page_base \notin SharedBytes =>
               metadata'[p - page_base] = metadata[p - page_base]
  BY DEF MarkedAs, SharedBytes, MdsByteOf, buddy_bitmap_slot
<1>1. CASE Calls(c) \/ LockAcquire(c)
  BY <1>0, <1>1, CallsKeepStore
<1>2. CASE TakeBlock(c)
  <2>1. PICK level \in Levels, page \in Managed :
          buddy_bitmap_set_bit_locked(page, level, BUDDY_BIT_ALLCOATED)
    BY <1>0, <1>2, TakenBlock
  <2> QED
    BY <1>0, <2>1, SetBitKeepsMetadata DEF BUDDY_BIT_ALLCOATED
<1>3. CASE InsertRange(c)
  <2>1. PICK level \in Levels, page \in Managed :
          buddy_bitmap_set_bit_locked(page, level, BUDDY_BIT_FREE)
    BY <1>0, <1>3, InsertedBlock
  <2> QED
    BY <1>0, <2>1, SetBitKeepsMetadata DEF BUDDY_BIT_FREE
<1>4. CASE MergeUp(c)
  <2>1. /\ buddy_bitmap_set_bit_locked(BuddyOf(c), frame[c].level_i, BUDDY_BIT_ALLCOATED)
        /\ pc[c] = "merge" /\ CanMerge(c)
    BY <1>4 DEF MergeUp
  <2>2. BuddyOf(c) \in Managed /\ frame[c].level_i \in Levels
    BY <1>0, <2>1, FreeBuddy
  <2> QED
    BY <1>0, <2>1, <2>2, SetBitKeepsMetadata DEF BUDDY_BIT_ALLCOATED
<1>5. CASE FreePage(c)
  <2>1. /\ buddy_bitmap_set_bit_locked(frame[c].page_i, frame[c].level_i, BUDDY_BIT_FREE)
        /\ IsManaged(frame[c].page_i)
    BY <1>5 DEF FreePage
  <2>2. frame[c].page_i \in Managed /\ frame[c].level_i \in Levels
    BY <1>0, <2>1, ManagedPages DEF FrameType
  <2> QED
    BY <1>0, <2>1, <2>2, SetBitKeepsMetadata DEF BUDDY_BIT_FREE
<1>6. CASE Unlock(c) \/ OutOfMemory(c) \/ InsertDone(c) \/ GetMetadata(c)
             \/ RequireRangeType(c) \/ RequirePanic(c)
  BY <1>6 DEF Unlock, OutOfMemory, InsertDone, GetMetadata, RequireRangeType, RequirePanic
<1> QED
  BY <1>1, <1>2, <1>3, <1>4, <1>5, <1>6 DEF Step, Run

(* Kernel text is in the reserved pages.                                    *)
LEMMA KernelTextIsReserved ==
  ASSUME ram_base = 0
  PROVE  KernelText \subseteq Reserved
<1> DEFINE b == pa_to_page_id(kernel_text_base)
           n == size_to_page_count(kernel_text_size)
<1>1. b \in Nat /\ n \in Nat /\ b + n <= FirstFree
  BY ImageIsReserved, KernelImageAssumption
<1>2. KernelText = b .. b + n - 1
  BY DEF KernelText, Pages
<1> HIDE DEF b, n
<1> QED
  BY <1>1, <1>2, ManagedPages, AllUnreserved DEF Reserved

(* The first call of any core comes after the boot core's last step.        *)
LEMMA OnlyBootApplyBoots ==
  ASSUME ram_base = 0, Base, NEW c \in Cores, Step(c), ~ BootApply(c), Booted'
  PROVE  Booted
<1> SUFFICES ASSUME ~ Booted PROVE FALSE
  OBVIOUS
<1>0. /\ pc \in [Cores -> Labels] /\ IInv /\ BootCore \in Cores
      /\ pc[BootCore] \in BootLabels /\ \A d \in Cores \ {BootCore} : pc[d] = "idle"
  BY ConstantsAssumption DEF Base, BootAlone, IInv, CallsTyped
<1>1. BootAlone'
  BY BootAloneStep DEF Next, Step
<1>2. pc'[BootCore] \notin BootLabels
  BY <1>0, <1>1 DEF BootAlone
<1>3. c = BootCore
  BY <1>0, <1>2, StepFrame
<1>4. ~ (Calls(c) \/ LockAcquire(c))
  BY <1>0, <1>3, CallsKeepStore DEF BootLabels
<1>5. InsertRange(c) \/ InsertDone(c)
  BY <1>0, <1>3, <1>4 DEF BootLabels, Step, Run, Unlock, OutOfMemory, TakeBlock,
         ApplyMetadata, MergeUp, FreePage, GetMetadata, RequireRangeType, RequirePanic
<1>6. pc'[c] \in BootLabels
  BY <1>0, <1>3, <1>5 DEF InsertRange, InsertDone, Goto, BootLabels
<1> QED
  BY <1>2, <1>3, <1>6

(* What the metadata says of held pages, of kernel text and of the pages of *)
(* a call that returns stays right in every step.                           *)
LEMMA MetadataStep ==
  ASSUME ram_base = 0, Base, MetadataInv, [Next]_vars
  PROVE  MetadataInv'
<1>0. /\ pc \in [Cores -> Labels] /\ frame \in [Cores -> FrameType] /\ IInv
      /\ metadata \in [0 .. page_count - 1 -> Bytes]
      /\ page_base = 0 /\ page_count \in Nat /\ Managed = 0 .. page_count - 1
      /\ \A p \in KernelText : p \in Managed /\ ~ IsInFlight(p)
  <2>1. \A p \in KernelText : p \in Reserved
    BY KernelTextIsReserved
  <2>2. \A p \in Reserved : p \in Managed /\ ~ IsInFlight(p)
    BY DEF Base, IInv, Partition, Reserved
  <2> QED
    BY <2>1, <2>2, ManagedPages DEF Base, IInv, CallsTyped, StoreTyped
<1>1. CASE UNCHANGED vars
  <2>1. UNCHANGED <<metadata, held, pc, frame>>
    BY <1>1 DEF vars
  <2> QED
    BY <2>1 DEF MetadataInv, MetadataTracksType, GrantsMarked, MarkedAs, GotPages, IsHeld,
                Booted, SharedBytes, MdsByteOf, buddy_bitmap_slot
<1>2. ASSUME NEW c \in Cores, Step(c), ~ ApplyMetadata(c), ~ BootApply(c)
      PROVE  MetadataInv'
  <2>1. \A p \in Managed : \A type : MarkedAs(p, type) => MarkedAs(p, type)'
    BY <1>2, OnlyApplyMarks
  <2>2. ASSUME Booted', NEW p \in Managed, p - page_base \notin SharedBytes
        PROVE  /\ IsHeld(p)' => page_type(metadata'[p - page_base]) = held'[p]
               /\ p \in KernelText =>
                    page_type(metadata'[p - page_base]) = PMAP_PAGE_TYPE_KERNEL_TEXT
    <3>1. Booted
      BY <1>2, <2>2, OnlyBootApplyBoots
    <3>2. p \in KernelText => MarkedAs(p, PMAP_PAGE_TYPE_KERNEL_TEXT)
      BY <2>2, <3>1 DEF MetadataInv, MetadataTracksType, MarkedAs
    <3>3. PICK type : type = held'[p]
      OBVIOUS
    <3>4. IsHeld(p)' => MarkedAs(p, type)
      <4>1. CASE held'[p] = held[p]
        BY <2>2, <3>1, <3>3, <4>1 DEF MetadataInv, MetadataTracksType, MarkedAs, IsHeld
      <4>2. CASE held'[p] # held[p] /\ IsHeld(p)'
        <5>1. Run(c)
          BY <1>0, <1>2, <2>2, <4>2, CallsKeepStore DEF Step
        <5>2. Unlock(c) /\ GotPages(c)
          BY <4>2, <5>1, UnlockGives
        <5>3. p \in Pages(frame[c].base, frame[c].count) /\ type = frame[c].page_type
          BY <3>3, <4>2, <5>1, <5>2, UnlockGives
        <5> QED
          BY <5>2, <5>3 DEF Unlock, MetadataInv, GrantsMarked
      <4> QED
        BY <4>1, <4>2
    <3>5. /\ p \in KernelText => MarkedAs(p, PMAP_PAGE_TYPE_KERNEL_TEXT)'
          /\ IsHeld(p)' => MarkedAs(p, type)'
      BY <2>1, <3>2, <3>4
    <3> QED
      BY <2>2, <3>3, <3>5 DEF MarkedAs
  <2>3. ASSUME NEW d \in Cores, pc'[d] = "unlock", GotPages(d)',
               NEW p \in Pages(frame'[d].base, frame'[d].count)
        PROVE  MarkedAs(p, frame[d].page_type)'
    <3>1. d # c
      <4>1. d = c => OutOfMemory(c)
        BY <1>0, <1>2, <2>3, AllocationReturns DEF GotPages
      <4>2. OutOfMemory(c) => frame'[c].base = PHYS_ADDR_INVALID
        BY <1>0 DEF OutOfMemory, FrameType
      <4> QED
        BY <2>3, <4>1, <4>2 DEF GotPages
    <3>2. pc'[d] = pc[d] /\ frame'[d] = frame[d]
      BY <1>0, <1>2, <3>1, StepFrame
    <3>3. pc[d] = "unlock" /\ GotPages(d) /\ p \in Pages(frame[d].base, frame[d].count)
      BY <2>3, <3>2 DEF GotPages
    <3>4. MarkedAs(p, frame[d].page_type)
      BY <3>3 DEF MetadataInv, GrantsMarked
    <3>5. p \in Managed
      BY <1>0, <3>3 DEF IInv, Partition, InFlight, Result
    <3>6. MarkedAs(p, frame[d].page_type)'
      <4>1. PICK type : type = frame[d].page_type /\ type = frame'[d].page_type
        BY <3>2
      <4>2. MarkedAs(p, type)'
        BY <2>1, <3>4, <3>5, <4>1
      <4> QED
        BY <4>1, <4>2 DEF MarkedAs
    <3> QED
      BY <3>6
  <2>4. MetadataTracksType'
    BY <2>2 DEF MetadataTracksType
  <2>5. GrantsMarked'
    BY <2>3 DEF GrantsMarked
  <2> QED
    BY <2>4, <2>5 DEF MetadataInv
<1>3. ASSUME NEW c \in Cores, ApplyMetadata(c)
      PROVE  MetadataInv'
  <2> DEFINE base == frame[c].base
             count == frame[c].count
             type == frame[c].page_type
  <2>1. /\ pc[c] = "apply" /\ pc' = [pc EXCEPT ![c] = "unlock"]
        /\ UNCHANGED <<buddy_lists, buddy_bitmaps, held, frame>>
        /\ metadata' = ApplyRange(metadata, base, count, type)
    BY <1>3 DEF ApplyMetadata, Goto
  <2>2. Booted /\ Booted'
    BY <1>0, <2>1 DEF Base, BootAlone, Booted, BootLabels
  <2>3. type \in PageTypes /\ base \in Managed /\ count \in Nat
    BY <1>0, <2>1 DEF IInv, CallState, CallsTyped, FrameType
  <2>4. page_type(type) = type
    BY <2>3 DEF PageTypes, page_type, PMAP_PAGE_TYPE_KERNEL_DATA, PMAP_PAGE_TYPE_KERNEL_TEXT,
                PMAP_PAGE_TYPE_PAGE_TABLE
  <2>5. \A p \in Pages(base, count) : p \in Managed /\ IsInFlight(p)
    BY <1>0, <2>1 DEF IInv, Partition, IsInFlight, InFlight, Result
  <2>6. \A p \in Managed : metadata'[p - page_base] =
          IF p \in Pages(base, count) THEN type ELSE metadata[p - page_base]
    <3> HIDE DEF base, count, type
    <3>1. base - page_base = base /\ \A p \in Managed : p - page_base = p
      BY <1>0, <2>3
    <3> QED
      BY <1>0, <2>1, <2>3, <3>1 DEF ApplyRange
  <2>7. \A p \in Managed : IsHeld(p) \/ p \in KernelText =>
          metadata'[p - page_base] = metadata[p - page_base]
    BY <1>0, <2>5, <2>6 DEF IInv, Partition
  <2>8. MetadataTracksType'
    BY <2>1, <2>2, <2>7 DEF MetadataInv, MetadataTracksType, IsHeld, SharedBytes, MdsByteOf,
                            buddy_bitmap_slot
  <2>9. GrantsMarked'
    <3> SUFFICES ASSUME NEW d \in Cores, pc'[d] = "unlock", GotPages(d)',
                        NEW p \in Pages(frame'[d].base, frame'[d].count)
                 PROVE  MarkedAs(p, frame[d].page_type)'
      BY DEF GrantsMarked
    <3>1. d = c
      <4>1. d # c => pc[d] = "unlock"
        BY <1>0, <2>1
      <4>2. d # c => pc[d] \notin Active
        BY <2>1, OthersAreOutside DEF Active, Holding
      <4> QED
        BY <4>1, <4>2 DEF Active, Holding
    <3>2. p \in Pages(base, count) /\ frame'[d].page_type = type
      BY <2>1, <3>1
    <3>3. p \in Managed /\ metadata'[p - page_base] = type
      BY <2>5, <2>6, <3>2
    <3> QED
      BY <2>4, <3>2, <3>3 DEF MarkedAs
  <2> QED
    BY <2>8, <2>9 DEF MetadataInv
<1>4. ASSUME NEW c \in Cores, BootApply(c)
      PROVE  MetadataInv'
  <2>1. /\ pc[c] = "boot_apply" /\ pc' = [pc EXCEPT ![c] = "idle"]
        /\ UNCHANGED <<buddy_lists, buddy_bitmaps, held>>
    BY <1>4 DEF BootApply, Goto
  <2>2. ~ Booted /\ c = BootCore
    BY <1>0, <2>1 DEF Base, BootAlone, BootLabels
  <2>3. \A p \in Managed : ~ IsHeld(p)'
    BY <2>1, <2>2 DEF Base, BootAlone, IsHeld
  <2>4. \A d \in Cores : pc'[d] = "idle"
    BY <1>0, <2>1, <2>2 DEF Base, BootAlone
  <2>5. ASSUME NEW p \in KernelText
        PROVE  metadata'[p - page_base] = PMAP_PAGE_TYPE_KERNEL_TEXT
    <3> DEFINE After(mds, i) == ApplyRange(mds, BootRanges[i].base, BootRanges[i].count,
                                           BootRanges[i].type)
               text == BootRanges[3]
    <3>1. metadata' = After(After(After(metadata, 1), 2), 3)
      BY <1>4 DEF BootApply
    <3>2. /\ text.base = pa_to_page_id(kernel_text_base)
          /\ text.count = size_to_page_count(kernel_text_size)
          /\ text.type = PMAP_PAGE_TYPE_KERNEL_TEXT
      BY DEF BootRanges
    <3>3. p \in Pages(text.base, text.count)
      BY <3>2 DEF KernelText
    <3>4. text.base - page_base = text.base /\ p - page_base = p
      <4>1. text.base \in Nat /\ p \in Nat
        BY <1>0, <3>2, ImageIsReserved, KernelImageAssumption
      <4> HIDE DEF text
      <4> QED
        BY <1>0, <4>1
    <3>5. PICK mds : mds = After(After(metadata, 1), 2)
      OBVIOUS
    <3>6. p \in DOMAIN mds
      BY <1>0, <3>5 DEF ApplyRange
    <3>7. metadata' = ApplyRange(mds, text.base, text.count, text.type)
      BY <3>1, <3>5
    <3> HIDE DEF text, After
    <3> QED
      BY <3>2, <3>3, <3>4, <3>6, <3>7 DEF ApplyRange
  <2>6. page_type(PMAP_PAGE_TYPE_KERNEL_TEXT) = PMAP_PAGE_TYPE_KERNEL_TEXT
    BY DEF page_type, PMAP_PAGE_TYPE_KERNEL_TEXT
  <2>7. MetadataTracksType'
    BY <2>3, <2>5, <2>6 DEF MetadataTracksType
  <2>8. GrantsMarked'
    BY <2>4 DEF GrantsMarked
  <2> QED
    BY <2>7, <2>8 DEF MetadataInv
<1> QED
  BY <1>1, <1>2, <1>3, <1>4 DEF Next, Step

(* The metadata of a held page is what its holder asked for, and that of a  *)
(* kernel text page says text, whatever other pages are allocated, split,   *)
(* merged and marked; only bytes the bitmap shares are excepted.            *)
THEOREM MetadataIsTrue ==
  ASSUME ram_base = 0
  PROVE  Spec => []MetadataTracksType
<1>1. Init => Base /\ MetadataInv
  <2> SUFFICES ASSUME Init PROVE Base /\ MetadataInv
    OBVIOUS
  <2>1. Base
    BY InitBase
  <2>2. ~ Booted /\ \A c \in Cores : pc[c] # "unlock"
    BY ConstantsAssumption DEF Init, Booted, Frame
  <2> QED
    BY <2>1, <2>2 DEF MetadataInv, MetadataTracksType, GrantsMarked
<1>2. Base /\ MetadataInv /\ [Next]_vars => (Base /\ MetadataInv)'
  BY BaseStep, MetadataStep
<1>3. Base /\ MetadataInv => MetadataTracksType
  BY DEF MetadataInv
<1> QED
  BY <1>1, <1>2, <1>3, PTL DEF Spec

(* Reads ask for managed pages.                                             *)
ReadsAreManaged ==
  \A c \in Cores : frame[c].op \in {"get", "require"} => frame[c].base \in Managed

ReadsInv == ReadsAreManaged /\ ReadsAreExact

(* A read comes to its end from the reading of the metadata.                *)
LEMMA ReadReturns ==
  ASSUME IInv, NEW c \in Cores, Step(c), pc'[c] \in {"unlock", "panic_locked"},
         frame'[c].op \in {"get", "require"}
  PROVE  GetMetadata(c) \/ RequireRangeType(c) \/ RequirePanic(c)
<1>0. /\ pc \in [Cores -> Labels] /\ frame \in [Cores -> FrameType] /\ CallState(c)
  BY DEF IInv, CallsTyped
<1>1. CASE Calls(c)
  BY <1>1, CallsKeepStore
<1>2. CASE LockAcquire(c)
  <2>1. frame[c].op \in {"get", "require"}
    BY <1>2 DEF LockAcquire
  <2>2. pc'[c] \in {"get", "require"}
    BY <1>0, <1>2, <2>1 DEF LockAcquire, Goto
  <2> QED
    BY <2>2
<1>3. CASE Unlock(c) \/ TakeBlock(c) \/ InsertRange(c) \/ InsertDone(c) \/ BootApply(c)
             \/ MergeUp(c)
  <2>1. pc'[c] \notin {"unlock", "panic_locked"}
    BY <1>0, <1>3 DEF Unlock, TakeBlock, InsertRange, InsertDone, BootApply, MergeUp, Goto
  <2> QED
    BY <2>1
<1>4. CASE OutOfMemory(c) \/ ApplyMetadata(c)
  <2>1. frame'[c].op = frame[c].op /\ frame[c].op = "alloc"
    BY <1>0, <1>4 DEF OutOfMemory, ApplyMetadata, CallState, FrameType
  <2> QED
    BY <2>1
<1>5. CASE FreePage(c)
  <2>1. frame[c].op = "free"
    BY <1>0, <1>5 DEF FreePage, CallState
  <2>2. \E i, p, l : frame' = [frame EXCEPT ![c] = [frame[c] EXCEPT
                                 !.free_i = i, !.page_i = p, !.level_i = l]]
    BY <1>5, Zenon DEF FreePage
  <2>3. frame'[c].op = frame[c].op
    BY <1>0, <2>2 DEF FrameType
  <2> QED
    BY <2>1, <2>3
<1> QED
  BY <1>1, <1>2, <1>3, <1>4, <1>5 DEF Step, Run

(* The locals that say what a read asks for stay as the call set them.      *)
LEMMA ReadsManagedStep ==
  ASSUME ram_base = 0, Base, ReadsAreManaged, NEW c \in Cores, Step(c)
  PROVE  ReadsAreManaged'
<1>0. /\ pc \in [Cores -> Labels] /\ frame \in [Cores -> FrameType] /\ IInv /\ CallState(c)
  BY DEF Base, IInv, CallsTyped
<1>1. frame'[c].op \in {"get", "require"} => frame'[c].base \in Managed
  <2>1. CASE GetCall(c)
    <3>1. PICK page \in Managed : frame' = [frame EXCEPT ![c] = Frame("get", 0, {}, page, 0)]
      BY <2>1, Zenon DEF GetCall, Call
    <3> QED
      BY <1>0, <3>1 DEF Frame
  <2>2. CASE RequireCall(c) \/ RequireOutOfBounds(c)
    <3>1. PICK page \in Managed : \E count, type :
            frame' = [frame EXCEPT ![c] = Frame("require", 0, type, page, count)]
      BY <2>2, Zenon DEF RequireCall, RequireOutOfBounds, Call
    <3> QED
      BY <1>0, <3>1 DEF Frame
  <2>3. CASE AllocCall(c) \/ FreeCall(c)
    <3>1. PICK op \in {"alloc", "free"} : \E size, type, base, count :
            frame' = [frame EXCEPT ![c] = Frame(op, size, type, base, count)]
      <4>1. "alloc" \in {"alloc", "free"} /\ "free" \in {"alloc", "free"}
        OBVIOUS
      <4>2. CASE AllocCall(c)
        BY <4>1, <4>2, Zenon DEF AllocCall, Call
      <4>3. CASE FreeCall(c)
        BY <4>1, <4>3, Zenon DEF FreeCall, Call
      <4> QED
        BY <2>3, <4>2, <4>3
    <3> QED
      BY <1>0, <3>1 DEF Frame
  <2>4. CASE LockAcquire(c) \/ InsertDone(c) \/ ApplyMetadata(c) \/ RequireRangeType(c)
               \/ RequirePanic(c)
    BY <2>4 DEF LockAcquire, InsertDone, ApplyMetadata, RequireRangeType, RequirePanic,
                ReadsAreManaged
  <2>5. CASE Unlock(c) \/ BootApply(c)
    BY <1>0, <2>5 DEF Unlock, BootApply, NoFrame, Frame
  <2>6. CASE OutOfMemory(c)
    <3>1. frame'[c].op = "alloc"
      BY <1>0, <2>6 DEF OutOfMemory, CallState, FrameType
    <3> QED
      BY <3>1
  <2>7. CASE TakeBlock(c)
    <3>1. \E p, n, i, m : frame' = [frame EXCEPT ![c] = [frame[c] EXCEPT
                            !.base = p, !.count = n, !.free_i = i, !.limit = m]]
      BY <2>7, Zenon DEF TakeBlock
    <3>2. frame'[c].op = "alloc"
      BY <1>0, <2>7, <3>1 DEF TakeBlock, CallState, FrameType
    <3> QED
      BY <3>2
  <2>8. CASE InsertRange(c) \/ GetMetadata(c)
    <3>1. frame'[c].op = frame[c].op /\ frame'[c].base = frame[c].base
      BY <1>0, <2>8 DEF InsertRange, GetMetadata, FrameType
    <3> QED
      BY <3>1 DEF ReadsAreManaged
  <2>9. CASE MergeUp(c) \/ FreePage(c)
    <3>1. frame[c].op = "free"
      BY <1>0, <2>9 DEF MergeUp, FreePage, CallState
    <3>2. CASE MergeUp(c)
      <4>1. \E p, l : frame' = [frame EXCEPT ![c] = [frame[c] EXCEPT
                                  !.page_i = p, !.level_i = l]]
        BY <3>2, Zenon DEF MergeUp
      <4> QED
        BY <1>0, <3>1, <4>1 DEF FrameType
    <3>3. CASE FreePage(c)
      <4>1. \E i, p, l : frame' = [frame EXCEPT ![c] = [frame[c] EXCEPT
                                     !.free_i = i, !.page_i = p, !.level_i = l]]
        BY <3>3, Zenon DEF FreePage
      <4> QED
        BY <1>0, <3>1, <4>1 DEF FrameType
    <3> QED
      BY <2>9, <3>2, <3>3
  <2> QED
    BY <2>1, <2>2, <2>3, <2>4, <2>5, <2>6, <2>7, <2>8, <2>9 DEF Step, Run, Calls
<1>2. \A d \in Cores \ {c} : frame'[d] = frame[d]
  BY <1>0, StepFrame
<1> QED
  BY <1>1, <1>2 DEF ReadsAreManaged

(* What a read has found stays true until its call returns.                 *)
LEMMA ReadsStep ==
  ASSUME ram_base = 0, Base, MetadataInv, ReadsInv, [Next]_vars
  PROVE  ReadsInv'
<1>0. /\ pc \in [Cores -> Labels] /\ frame \in [Cores -> FrameType] /\ IInv
  BY DEF Base, IInv, CallsTyped
<1>1. CASE UNCHANGED vars
  <2>1. UNCHANGED <<held, pc, frame>>
    BY <1>1 DEF vars
  <2> QED
    BY <2>1 DEF ReadsInv, ReadsAreManaged, ReadsAreExact, IsHeld, SharedBytes, MdsByteOf,
                buddy_bitmap_slot
<1>2. ASSUME NEW c \in Cores, Step(c), NEW d \in Cores,
             frame'[d].op \in {"get", "require"},
             frame'[d].op = "require" => frame'[d].count <= 1,
             held'[frame'[d].base] # NotHeld,
             frame'[d].base - page_base \notin SharedBytes
      PROVE  /\ pc'[d] = "unlock" /\ (frame'[d].op = "get" \/ frame'[d].count > 0)
                  => frame'[d].page_type = held'[frame'[d].base]
             /\ pc'[d] = "panic_locked" => frame'[d].page_type # held'[frame'[d].base]
  <2>1. CASE d # c
    <3>1. pc'[d] = pc[d] /\ frame'[d] = frame[d]
      BY <1>0, <1>2, <2>1, StepFrame
    <3>2. CASE pc[d] \in {"unlock", "panic_locked"}
      <4>1. pc[c] \notin Active
        <5>1. pc[d] \in Active
          BY <3>2 DEF Active, Holding
        <5> QED
          BY <2>1, <5>1, OthersAreOutside
      <4>2. frame[d].base \in Managed
        BY <1>2, <3>1 DEF ReadsInv, ReadsAreManaged
      <4>3. held'[frame[d].base] = held[frame[d].base]
        BY <1>0, <1>2, <3>1, <4>1, <4>2, OutsideStep, CallsKeepStore DEF IsHeld
      <4> QED
        BY <1>2, <3>1, <4>3 DEF ReadsInv, ReadsAreExact, IsHeld
    <3> QED
      BY <3>1, <3>2
  <2>2. CASE d = c /\ pc'[c] \in {"unlock", "panic_locked"}
    <3>1. GetMetadata(c) \/ RequireRangeType(c) \/ RequirePanic(c)
      BY <1>0, <1>2, <2>2, ReadReturns
    <3>2. /\ pc[c] \in {"get", "require"} /\ UNCHANGED held
          /\ frame'[c].base = frame[c].base /\ frame'[c].count = frame[c].count
          /\ frame'[c].op = frame[c].op
      BY <1>0, <3>1 DEF GetMetadata, RequireRangeType, RequirePanic, FrameType
    <3>3. Booted
      BY <1>0, <3>2 DEF Base, BootAlone, BootLabels
    <3>4. frame[c].base \in Managed /\ frame[c].count \in Nat
      BY <1>0, <1>2, <2>2, <3>2 DEF ReadsInv, ReadsAreManaged, FrameType
    <3>5. page_type(metadata[frame[c].base]) = held[frame[c].base]
      <4>1. frame[c].base - page_base = frame[c].base
        BY <3>4, ManagedPages
      <4> QED
        BY <1>2, <2>2, <3>2, <3>3, <3>4, <4>1 DEF MetadataInv, MetadataTracksType, IsHeld
    <3>6. CASE GetMetadata(c)
      BY <1>0, <2>2, <3>2, <3>5, <3>6 DEF GetMetadata, mds_get_metadata_locked, Goto, FrameType
    <3>7. CASE RequireRangeType(c)
      <4>1. frame[c].count > 0 => page_type(metadata[frame[c].base]) = frame[c].page_type
        <5>1. frame[c].count > 0 => 0 \in 0 .. frame[c].count - 1
          BY <3>4
        <5> QED
          BY <3>7, <5>1 DEF RequireRangeType, RequireHolds, mds_get_metadata_locked
      <4>2. frame[c].op = "require" /\ frame' = frame /\ pc'[c] = "unlock"
        BY <1>0, <3>7 DEF RequireRangeType, Goto, IInv, CallState
      <4> QED
        BY <2>2, <3>2, <3>5, <4>1, <4>2
    <3>8. CASE RequirePanic(c)
      <4>1. page_type(metadata[frame[c].base]) # frame[c].page_type
        BY <3>8 DEF RequirePanic, RequireHolds, mds_get_metadata_locked
      <4>2. frame' = frame /\ pc'[c] = "panic_locked"
        BY <1>0, <3>8 DEF RequirePanic, Goto
      <4> QED
        BY <2>2, <3>2, <3>5, <4>1, <4>2
    <3> QED
      BY <3>1, <3>6, <3>7, <3>8
  <2> QED
    BY <2>1, <2>2
<1>3. ASSUME NEW c \in Cores, Step(c)
      PROVE  ReadsInv'
  <2>1. ReadsAreExact'
    BY <1>2, <1>3 DEF ReadsAreExact, IsHeld, SharedBytes, MdsByteOf, buddy_bitmap_slot
  <2>2. ReadsAreManaged'
    BY <1>3, ReadsManagedStep DEF ReadsInv
  <2> QED
    BY <2>1, <2>2 DEF ReadsInv
<1> QED
  BY <1>1, <1>3 DEF Next, Step

(* pmap_pfa_mds_get_metadata returns the type a held page was allocated     *)
(* with, although the metadata may be about to change when it returns, and  *)
(* pmap_pfa_mds_require_range_type on one page panics on another type only. *)
THEOREM ReadsTellTheTruth ==
  ASSUME ram_base = 0
  PROVE  Spec => []ReadsAreExact
<1>1. Init => Base /\ MetadataInv /\ ReadsInv
  <2> SUFFICES ASSUME Init PROVE Base /\ MetadataInv /\ ReadsInv
    OBVIOUS
  <2>1. Base
    BY InitBase
  <2>2. /\ ~ Booted /\ \A c \in Cores : pc[c] # "unlock"
        /\ \A c \in Cores : frame[c].op \notin {"get", "require"}
    BY ConstantsAssumption DEF Init, Booted, Frame, NoFrame
  <2> QED
    BY <2>1, <2>2 DEF MetadataInv, MetadataTracksType, GrantsMarked, ReadsInv,
                      ReadsAreManaged, ReadsAreExact
<1>2. Base /\ MetadataInv /\ ReadsInv /\ [Next]_vars => (Base /\ MetadataInv /\ ReadsInv)'
  BY BaseStep, MetadataStep, ReadsStep
<1>3. Base /\ MetadataInv /\ ReadsInv => ReadsAreExact
  BY DEF ReadsInv
<1> QED
  BY <1>1, <1>2, <1>3, PTL DEF Spec

----------------------------------------------------------------------------
(* The free lists are canonical                                             *)

(* No two free blocks could be merged.                                      *)
NoFreeBuddies ==
  \A l \in Levels \ {TOP} : \A b \in FreeBlocks(l) :
    get_buddy_page_id_for_page(b, l) \notin FreeBlocks(l)

(* The block that goes on a list next does not have its buddy on it.        *)
NextIsApart(c) ==
  LET f == frame[c]
  IN  f.free_i < f.limit /\ InsertLevel(f) # TOP =>
        get_buddy_page_id_for_page(f.free_i, InsertLevel(f)) \notin FreeBlocks(InsertLevel(f))

(* The range a call or the boot core inserts: all of memory from free_i on, *)
(* or what is left of one block.                                            *)
SplitState(c) ==
  /\ pc[c] = "boot_insert" => frame[c].limit = page_count
  /\ pc[c] = "insert" =>
       \E k \in Levels : /\ Aligned(frame[c].base, k)
                         /\ frame[c].limit = frame[c].base + buddy_level_page_count(k)
  /\ pc[c] \in {"boot_insert", "insert"} => NextIsApart(c)

CanonicalInv == NoFreeBuddies /\ \A c \in Cores : SplitState(c)

(* What a push does to the free blocks.                                     *)
LEMMA PushedBlocks ==
  ASSUME StoreTyped, NEW l \in Levels, NEW b \in Managed, list_push_front(l, b)
  PROVE  \A k \in Levels : FreeBlocks(k)' =
           IF k = l THEN FreeBlocks(l) \cup {b} ELSE FreeBlocks(k)
<1>1. buddy_lists[l] \in Seq(Managed)
  BY DEF StoreTyped
<1>2. ToSet(<<b>> \o buddy_lists[l]) = ToSet(buddy_lists[l]) \cup {b}
  BY <1>1, PushFront
<1>3. \A k \in Levels : buddy_lists'[k] =
        IF k = l THEN <<b>> \o buddy_lists[l] ELSE buddy_lists[k]
  BY DEF list_push_front, StoreTyped
<1> QED
  BY <1>2, <1>3 DEF FreeBlocks

(* What an unlinking does to them.                                          *)
LEMMA RemovedBlocks ==
  ASSUME StoreTyped, StoreInv, NEW l \in Levels, NEW b \in FreeBlocks(l), list_remove(l, b)
  PROVE  \A k \in Levels : FreeBlocks(k)' =
           IF k = l THEN FreeBlocks(l) \ {b} ELSE FreeBlocks(k)
<1> DEFINE t == RemoveAt(buddy_lists[l],
                         CHOOSE i \in DOMAIN buddy_lists[l] : buddy_lists[l][i] = b)
<1>1. buddy_lists[l] \in Seq(Managed) /\ IsInjective(buddy_lists[l])
  BY DEF StoreTyped, StoreInv
<1>2. ToSet(t) = ToSet(buddy_lists[l]) \ {b}
  BY <1>1, RemoveOne DEF FreeBlocks
<1>3. buddy_lists' = [buddy_lists EXCEPT ![l] = t]
  BY DEF list_remove
<1> HIDE DEF t
<1>4. \A k \in Levels : buddy_lists'[k] = IF k = l THEN t ELSE buddy_lists[k]
  BY <1>3 DEF StoreTyped
<1> QED
  BY <1>2, <1>4 DEF FreeBlocks

(* The roots on the lists are natural numbers that can be roots.            *)
LEMMA FreeBlockFacts ==
  ASSUME ram_base = 0, StoreTyped, StoreInv, NEW l \in Levels, NEW b \in FreeBlocks(l)
  PROVE  b \in Managed /\ b \in Nat /\ Aligned(b, l) /\ Block(b, l) \subseteq Managed
  BY ManagedPages DEF StoreTyped, StoreInv, FreeBlocks, ToSet

(* A block whose buddy is not free can go on its list.                      *)
LEMMA PushKeepsNoFreeBuddies ==
  ASSUME ram_base = 0, StoreTyped, StoreInv, NoFreeBuddies,
         NEW l \in Levels, NEW b \in Managed, Aligned(b, l), list_push_front(l, b),
         l # TOP => get_buddy_page_id_for_page(b, l) \notin FreeBlocks(l)
  PROVE  NoFreeBuddies'
<1> SUFFICES ASSUME NEW k \in Levels \ {TOP}, NEW d \in FreeBlocks(k)'
             PROVE  get_buddy_page_id_for_page(d, k) \notin FreeBlocks(k)'
  BY DEF NoFreeBuddies, get_buddy_page_id_for_page
<1>1. FreeBlocks(k)' = IF k = l THEN FreeBlocks(l) \cup {b} ELSE FreeBlocks(k)
  BY PushedBlocks
<1>2. b \in Nat
  BY ManagedPages
<1>3. /\ get_buddy_page_id_for_page(b, l) # b
      /\ get_buddy_page_id_for_page(get_buddy_page_id_for_page(b, l), l) = b
  BY <1>2, BuddyTwice
<1>4. CASE k # l \/ d # b
  <2>1. d \in FreeBlocks(k)
    BY <1>1, <1>4
  <2>2. get_buddy_page_id_for_page(d, k) \notin FreeBlocks(k)
    BY <2>1 DEF NoFreeBuddies
  <2>3. k = l => get_buddy_page_id_for_page(d, k) # b
    <3>1. d \in Nat /\ Aligned(d, k)
      BY <2>1, FreeBlockFacts
    <3>2. get_buddy_page_id_for_page(get_buddy_page_id_for_page(d, k), k) = d
      BY <3>1, BuddyTwice
    <3> QED
      BY <2>1, <3>2
  <2> QED
    BY <1>1, <2>2, <2>3
<1>5. CASE k = l /\ d = b
  BY <1>1, <1>3, <1>5
<1> QED
  BY <1>4, <1>5

(* Fewer free blocks hold fewer buddies.                                    *)
LEMMA FewerBuddies ==
  ASSUME NoFreeBuddies, \A k \in Levels : FreeBlocks(k)' \subseteq FreeBlocks(k)
  PROVE  NoFreeBuddies'
<1> SUFFICES ASSUME NEW k \in Levels \ {TOP}, NEW d \in FreeBlocks(k)'
             PROVE  get_buddy_page_id_for_page(d, k) \notin FreeBlocks(k)'
  BY DEF NoFreeBuddies, get_buddy_page_id_for_page
<1> QED
  BY DEF NoFreeBuddies

(* Where the rest of a range starts, the buddy of the block that goes next  *)
(* holds the page before it or the page after the range.                    *)
LEMMA NextBuddy ==
  ASSUME NEW f, f.free_i \in Nat, f.limit \in Nat, f.free_i < f.limit, InsertLevel(f) # TOP
  PROVE  LET l == InsertLevel(f)
             g == f.free_i
             n == buddy_level_page_count(l)
             buddy == get_buddy_page_id_for_page(g, l)
         IN  /\ buddy \in Nat /\ Aligned(buddy, l)
             /\ \/ ~ Aligned(g, l + 1) /\ buddy = g - n /\ g - 1 \in Block(buddy, l)
                \/ /\ Aligned(g, l + 1) /\ buddy = g + n /\ f.limit \in Block(buddy, l)
                   /\ f.limit < g + buddy_level_page_count(l + 1)
<1> DEFINE l == InsertLevel(f)
           g == f.free_i
           n == buddy_level_page_count(l)
           buddy == get_buddy_page_id_for_page(g, l)
<1>1. l \in Levels /\ Aligned(g, l) /\ n <= f.limit - g
  BY InsertLevelFits
<1>2. l + 1 \in Levels /\ l \in Nat
  BY <1>1, LevelFacts
<1>3. n \in Nat \ {0} /\ buddy_level_page_count(l + 1) = 2 * n
  BY <1>1, PageCountType
<1>4. buddy \in Nat /\ Aligned(buddy, l)
  BY <1>1, BuddyTwice
<1>5. Block(buddy, l) = buddy .. buddy + n - 1
  BY DEF Block, Pages
<1>6. CASE ~ Aligned(g, l + 1)
  <2>1. buddy = g - n
    BY <1>1, <1>6, LowerHalf
  <2>2. g - 1 \in buddy .. buddy + n - 1
    <3> HIDE DEF buddy, n, l
    <3> QED
      BY <1>3, <2>1
  <2> QED
    BY <1>4, <1>5, <1>6, <2>1, <2>2
<1>7. CASE Aligned(g, l + 1)
  <2>1. buddy = g + n
    BY <1>1, <1>7, LowerHalf
  <2>2. ~ (2 * n <= f.limit - g)
    <3>1. ~ (l + 1 <= l)
      BY <1>2
    <3> QED
      BY <1>2, <1>3, <1>7, <3>1, InsertLevelIsLargest
  <2>3. f.limit \in buddy .. buddy + n - 1 /\ f.limit < g + 2 * n
    <3> HIDE DEF buddy, n, l
    <3> QED
      BY <1>1, <1>3, <2>1, <2>2
  <2> QED
    BY <1>3, <1>4, <1>5, <1>7, <2>1, <2>3
<1> QED
  BY <1>6, <1>7

(* A step that keeps the lists or takes blocks off them, and after which    *)
(* its core inserts nothing.                                                *)
LEMMA NoInsertionStep ==
  ASSUME IInv, CanonicalInv, NEW c \in Cores, Step(c), Base,
         NoFreeBuddies',
         pc'[c] \notin {"boot_insert", "insert"},
         pc[c] \notin Active => UNCHANGED buddy_lists
  PROVE  CanonicalInv'
<1>1. ASSUME NEW d \in Cores \ {c}
      PROVE  SplitState(d)'
  <2>1. pc'[d] = pc[d] /\ frame'[d] = frame[d]
    BY StepFrame
  <2>2. CASE pc[d] \in {"boot_insert", "insert"}
    <3>1. pc[d] \in Active
      BY <2>2 DEF Active, Holding, BootLabels
    <3>2. UNCHANGED buddy_lists
      BY <3>1, OthersAreOutside
    <3> QED
      BY <2>1, <3>2 DEF CanonicalInv, SplitState, NextIsApart, FreeBlocks
  <2>3. CASE pc[d] \notin {"boot_insert", "insert"}
    BY <2>1, <2>3 DEF SplitState
  <2> QED
    BY <2>2, <2>3
<1>2. SplitState(c)'
  BY DEF SplitState
<1> QED
  BY <1>1, <1>2 DEF CanonicalInv

(* The same of an insertion, from what it leaves its own core to do.        *)
LEMMA InsertionStep ==
  ASSUME IInv, CanonicalInv, NEW c \in Cores, Step(c), Base, pc[c] \in Active,
         NoFreeBuddies', SplitState(c)'
  PROVE  CanonicalInv'
<1>1. ASSUME NEW d \in Cores \ {c}
      PROVE  SplitState(d)'
  <2>1. pc'[d] = pc[d] /\ frame'[d] = frame[d]
    BY StepFrame
  <2>2. pc[d] \notin {"boot_insert", "insert"}
    <3>1. pc[d] \notin Active
      BY OthersAreOutside
    <3> QED
      BY <3>1 DEF Active, Holding, BootLabels
  <2> QED
    BY <2>1, <2>2 DEF SplitState
<1> QED
  BY <1>1 DEF CanonicalInv

(* An allocation that takes a block: the rest of it starts inside the       *)
(* block, next to a page of the request, or is the whole block.             *)
LEMMA TakeBlockCanonical ==
  ASSUME ram_base = 0, Base, CanonicalInv, NEW c \in Cores, TakeBlock(c)
  PROVE  CanonicalInv'
<1>0. IInv /\ StoreTyped /\ StoreInv /\ NoFreeBuddies /\ pc[c] = "search" /\ Step(c)
  BY DEF Base, IInv, CanonicalInv, TakeBlock, Step, Run
<1>1. PICK k \in Levels, base \in Managed, count \in Nat :
           /\ base \in FreeBlocks(k) /\ Aligned(base, k)
           /\ count <= buddy_level_page_count(k)
           /\ list_remove(k, base)
           /\ pc'[c] = "insert"
           /\ frame'[c].base = base /\ frame'[c].count = count
           /\ frame'[c].free_i = base + count
           /\ frame'[c].limit = base + buddy_level_page_count(k)
  BY <1>0, TakenBlock
<1>2. IInv'
  BY <1>0, IInvStep DEF Next, Step
<1>3. \A l \in Levels : FreeBlocks(l)' \subseteq FreeBlocks(l)
  BY <1>0, <1>1, RemovedBlocks
<1>4. NoFreeBuddies'
  BY <1>0, <1>3, FewerBuddies
<1>5. base \in Nat /\ buddy_level_page_count(k) \in Nat \ {0}
  BY <1>1, ManagedPages, PageCountType
<1>6. PICK f : f = frame'[c]
  OBVIOUS
<1> DEFINE l == InsertLevel(f)
           g == f.free_i
           n == buddy_level_page_count(l)
           buddy == get_buddy_page_id_for_page(g, l)
<1>7. ASSUME g < f.limit, l # TOP, buddy \in FreeBlocks(l)'
      PROVE  FALSE
  <2>0. /\ g \in Nat /\ f.limit \in Nat /\ g = base + count
        /\ f.limit = base + buddy_level_page_count(k)
    BY <1>1, <1>5, <1>6
  <2>1. l \in Levels /\ Aligned(g, l) /\ n <= f.limit - g /\ n \in Nat \ {0}
    BY <1>7, <2>0, InsertLevelFits, PageCountType
  <2>2. /\ buddy \in FreeBlocks(l)
        /\ \A p \in Block(buddy, l) : p \in Managed /\ IsFree(p)'
    <3>1. \A p \in Block(buddy, l) : p \in Managed
      BY <1>0, <1>3, <1>7, <2>1 DEF StoreInv
    <3>2. \A p \in Block(buddy, l) : IsFree(p)'
      BY <1>7, <2>1 DEF IsFree, Block, Pages
    <3> QED
      BY <1>3, <1>7, <2>1, <3>1, <3>2
  <2>3. CASE count = 0
    <3>1. g = base
      BY <1>5, <2>0, <2>3
    <3>2. k <= l
      BY <1>1, <1>5, <1>7, <2>0, <3>1, InsertLevelIsLargest
    <3>3. l <= k
      <4>1. l \in Nat /\ k \in Nat /\ l <= TOP /\ TOP \in Nat
        BY <1>1, <2>1, LevelFacts
      <4>2. ASSUME k + 1 <= l PROVE FALSE
        <5>1. k + 1 \in Levels
          <6> HIDE DEF l
          <6> QED
            BY <4>1, <4>2, LevelFacts
        <5>2. buddy_level_page_count(k + 1) <= n
          BY <2>1, <4>2, <5>1, PageCountMonotonic
        <5>3. buddy_level_page_count(k + 1) = 2 * buddy_level_page_count(k)
          BY <1>1, PageCountType
        <5> HIDE DEF l, g, n
        <5> QED
          BY <1>5, <2>0, <2>1, <3>1, <5>2, <5>3
      <4> HIDE DEF l
      <4> QED
        BY <4>1, <4>2
    <3>4. l = k
      <4>1. l \in Nat /\ k \in Nat
        BY <1>1, <2>1, LevelFacts
      <4> HIDE DEF l
      <4> QED
        BY <3>2, <3>3, <4>1
    <3>5. get_buddy_page_id_for_page(base, k) \notin FreeBlocks(k)
      BY <1>0, <1>1, <1>7, <3>4 DEF NoFreeBuddies
    <3> HIDE DEF l, g
    <3> QED
      BY <2>2, <3>1, <3>4, <3>5
  <2>4. CASE count # 0
    <3>1. base < g /\ g - 1 \in Pages(base, count)
      BY <1>5, <2>0, <2>4 DEF Pages
    <3>2. IsInFlight(g - 1)'
      <4>1. Result(c)' = Pages(base, count)
        BY <1>1 DEF Result
      <4> QED
        BY <3>1, <4>1 DEF IsInFlight, InFlight
    <3>3. g - 1 \notin Block(buddy, l)
      BY <1>2, <2>2, <3>2 DEF IInv, Partition
    <3>4. Aligned(g, l + 1) /\ f.limit < g + buddy_level_page_count(l + 1)
      BY <1>7, <2>0, <3>3, NextBuddy
    <3>5. g + n <= base + buddy_level_page_count(k)
      <4> HIDE DEF n, l, g
      <4> QED
        BY <1>5, <2>0, <2>1
    <3>6. g + buddy_level_page_count(l + 1) <= f.limit
      BY <1>1, <1>5, <1>7, <2>0, <2>1, <3>1, <3>4, <3>5, RangeEnd
    <3>7. buddy_level_page_count(l + 1) \in Nat
      BY <2>1, PageCountType
    <3> QED
      BY <2>0, <3>4, <3>6, <3>7
  <2> QED
    BY <2>3, <2>4
<1>8. SplitState(c)'
  <2>1. NextIsApart(c)'
    BY <1>6, <1>7 DEF NextIsApart, FreeBlocks, InsertLevel, get_buddy_page_id_for_page,
       max_buddy_level_for_page_alignment, min_buddy_level_for_size_no_overflow
  <2>2. \E j \in Levels : /\ Aligned(frame'[c].base, j)
                          /\ frame'[c].limit = frame'[c].base + buddy_level_page_count(j)
    BY <1>1
  <2>3. (\E j \in Levels : /\ Aligned(frame[c].base, j)
                           /\ frame[c].limit = frame[c].base + buddy_level_page_count(j))'
    BY <2>2 DEF Aligned
  <2> QED
    BY <1>1, <2>1, <2>3 DEF SplitState
<1>9. pc[c] \in Active
  BY <1>0 DEF Active, Holding
<1> QED
  BY <1>0, <1>4, <1>8, <1>9, InsertionStep

(* One iteration of buddy_insert_range_freed_locked: the block it inserts   *)
(* is the largest that starts there and fits, so the next one starts past   *)
(* its end as another block's upper half, or is smaller.                    *)
LEMMA InsertRangeCanonical ==
  ASSUME ram_base = 0, Base, CanonicalInv, NEW c \in Cores, InsertRange(c)
  PROVE  CanonicalInv'
<1>0. /\ IInv /\ StoreTyped /\ StoreInv /\ NoFreeBuddies /\ Step(c) /\ SplitState(c)
      /\ frame[c] \in FrameType /\ CallState(c)
  BY DEF Base, IInv, CanonicalInv, CallsTyped, Step, Run
<1>page. PICK page : page = frame[c].free_i
  OBVIOUS
<1>level. PICK L : L = InsertLevel(frame[c])
  OBVIOUS
<1> DEFINE m == buddy_level_page_count(L)
<1>1. /\ L \in Levels /\ page \in Managed /\ page \in Nat
      /\ Aligned(page, L)
      /\ page < frame[c].limit
      /\ m <= frame[c].limit - page /\ m \in Nat \ {0}
      /\ pc[c] \in {"boot_insert", "insert"} /\ pc'[c] = pc[c]
      /\ list_push_front(L, page)
      /\ frame'[c] = [frame[c] EXCEPT !.free_i = page + m]
  BY <1>0, <1>page, <1>level, InsertedBlock, PageCountType
<1>2. L # TOP => get_buddy_page_id_for_page(page, L) \notin FreeBlocks(L)
  BY <1>0, <1>1, <1>page, <1>level DEF SplitState, NextIsApart
<1>3. NoFreeBuddies'
  BY <1>0, <1>1, <1>2, PushKeepsNoFreeBuddies
<1>4. IInv' /\ StoreInv'
  <2>1. IInv'
    BY <1>0, IInvStep DEF Next, Step
  <2> QED
    BY <2>1 DEF IInv
<1>5. PICK f : f = frame'[c]
  OBVIOUS
<1>6. /\ f.free_i = page + m /\ f.limit = frame[c].limit /\ f.base = frame[c].base
      /\ frame[c].limit \in Nat /\ frame[c].base \in Int /\ frame[c].count \in Nat
  BY <1>0, <1>1, <1>5 DEF FrameType
<1> DEFINE l == InsertLevel(f)
           g == f.free_i
           n == buddy_level_page_count(l)
           buddy == get_buddy_page_id_for_page(g, l)
<1>7. ASSUME g < f.limit, l # TOP, buddy \in FreeBlocks(l)'
      PROVE  FALSE
  <2>0. /\ g \in Nat /\ f.limit \in Nat /\ g = page + m
    BY <1>1, <1>6
  <2>1. l \in Levels /\ Aligned(g, l) /\ n <= f.limit - g /\ n \in Nat \ {0}
    BY <1>7, <2>0, InsertLevelFits, PageCountType
  <2>2. page \in FreeBlocks(L)'
    BY <1>0, <1>1, PushedBlocks
  <2>3. CASE g - 1 \in Block(buddy, l) /\ ~ Aligned(g, l + 1)
    <3>1. g - 1 \in Block(page, L)
      <4> HIDE DEF m, g
      <4>1. g - 1 \in page .. page + m - 1
        BY <1>1, <2>0
      <4> QED
        BY <4>1 DEF Block, Pages, m
    <3>2. l = L /\ buddy = page
      <4> HIDE DEF l, buddy
      <4>1. Block(page, L) \cap Block(buddy, l) # {}
        BY <2>3, <3>1
      <4>2. \A j, k \in Levels : \A b \in FreeBlocks(j)', d \in FreeBlocks(k)' :
               Block(b, j) \cap Block(d, k) # {} => j = k /\ b = d
        BY <1>4 DEF StoreInv, Block, Pages
      <4> QED
        BY <1>1, <1>7, <2>1, <2>2, <4>1, <4>2
    <3>3. L # TOP /\ L + 1 \in Levels /\ L \in Nat
      BY <1>1, <1>7, <3>2, LevelFacts
    <3>4. get_buddy_page_id_for_page(page, L) = g
      BY <2>0, <2>1, <3>2, BuddyTwice
    <3>5. Aligned(page, L + 1)
      <4>1. ~ Aligned(page, L + 1) => g = page - m
        BY <1>1, <3>4, LowerHalf
      <4> HIDE DEF g, m
      <4> QED
        BY <1>1, <2>0, <4>1
    <3>6. buddy_level_page_count(L + 1) <= frame[c].limit - page
      <4>1. buddy_level_page_count(L + 1) = 2 * m /\ n = m
        BY <1>1, <3>2, PageCountType
      <4>2. n <= frame[c].limit - (page + m)
        BY <1>6, <2>1
      <4> HIDE DEF n, m
      <4> QED
        BY <1>1, <1>6, <4>1, <4>2
    <3>7. L + 1 <= L
      BY <1>1, <1>6, <1>page, <1>level, <3>3, <3>5, <3>6, InsertLevelIsLargest
    <3> QED
      BY <3>3, <3>7
  <2>4. CASE /\ f.limit \in Block(buddy, l) /\ Aligned(g, l + 1)
             /\ f.limit < g + buddy_level_page_count(l + 1)
    <3>1. CASE pc[c] = "boot_insert"
      <4>1. f.limit = page_count
        BY <1>0, <1>6, <3>1 DEF SplitState
      <4>2. Block(buddy, l) \subseteq Managed
        <5>1. \A k \in Levels : \A b \in FreeBlocks(k)' : Block(b, k) \subseteq Managed
          BY <1>4 DEF StoreInv, Block, Pages
        <5> QED
          BY <1>7, <2>1, <5>1
      <4>3. page_count \in Managed
        BY <2>4, <4>1, <4>2
      <4> QED
        BY <4>3, ManagedPages
    <3>2. CASE pc[c] = "insert"
      <4>1. PICK k \in Levels : /\ Aligned(f.base, k)
                                /\ f.limit = f.base + buddy_level_page_count(k)
        BY <1>0, <1>6, <3>2 DEF SplitState
      <4>2. f.base \in Nat /\ f.base <= page
        <5>1. frame[c].base \in Managed /\ frame[c].base + frame[c].count <= page
          BY <1>0, <1>page, <3>2 DEF CallState
        <5>2. frame[c].base \in Nat
          BY <5>1, ManagedPages
        <5> QED
          BY <1>1, <1>6, <5>1, <5>2
      <4>3. f.base < g
        <5> HIDE DEF m, g
        <5> QED
          BY <1>1, <2>0, <4>2
      <4>4. g + n <= f.base + buddy_level_page_count(k)
        <5> HIDE DEF n, g
        <5> QED
          BY <2>0, <2>1, <4>1
      <4>5. g + buddy_level_page_count(l + 1) <= f.limit
        BY <1>7, <2>0, <2>1, <2>4, <4>1, <4>2, <4>3, <4>4, RangeEnd
      <4>6. buddy_level_page_count(l + 1) \in Nat
        BY <2>1, PageCountType
      <4> HIDE DEF g, l
      <4> QED
        BY <2>0, <2>4, <4>5, <4>6
    <3> QED
      BY <1>1, <3>1, <3>2
  <2> QED
    BY <1>7, <2>0, <2>3, <2>4, NextBuddy
<1>8. SplitState(c)'
  <2>1. NextIsApart(c)'
    BY <1>5, <1>7 DEF NextIsApart, FreeBlocks, InsertLevel, get_buddy_page_id_for_page,
       max_buddy_level_for_page_alignment, min_buddy_level_for_size_no_overflow
  <2>2. /\ frame'[c].limit = frame[c].limit /\ frame'[c].base = frame[c].base
        /\ pc'[c] = pc[c]
    BY <1>1, <1>5, <1>6
  <2> QED
    BY <1>0, <2>1, <2>2 DEF SplitState, Aligned
<1>9. pc[c] \in Active
  BY <1>1 DEF Active, Holding, BootLabels
<1> QED
  BY <1>0, <1>3, <1>8, <1>9, InsertionStep

(* A freed page that grows takes its buddy off the list.                    *)
LEMMA MergeUpCanonical ==
  ASSUME ram_base = 0, Base, CanonicalInv, NEW c \in Cores, MergeUp(c)
  PROVE  CanonicalInv'
<1>0. /\ IInv /\ StoreTyped /\ StoreInv /\ NoFreeBuddies /\ Step(c)
      /\ pc[c] = "merge" /\ pc'[c] = "merge" /\ CanMerge(c)
      /\ list_remove(frame[c].level_i, BuddyOf(c))
  BY DEF Base, IInv, CanonicalInv, Step, Run, MergeUp
<1>1. frame[c].level_i \in Levels /\ BuddyOf(c) \in FreeBlocks(frame[c].level_i)
  BY <1>0, FreeBuddy
<1>2. \A k \in Levels : FreeBlocks(k)' \subseteq FreeBlocks(k)
  BY <1>0, <1>1, RemovedBlocks
<1>3. NoFreeBuddies'
  BY <1>0, <1>2, FewerBuddies
<1> QED
  BY <1>0, <1>3, NoInsertionStep DEF Active, Holding

(* A freed page that cannot grow any more goes on its list without its      *)
(* buddy, which the bitmap says is not free.                                *)
LEMMA FreePageCanonical ==
  ASSUME ram_base = 0, Base, CanonicalInv, NEW c \in Cores, FreePage(c)
  PROVE  CanonicalInv'
<1> DEFINE l == frame[c].level_i
           page == frame[c].page_i
<1>0. /\ IInv /\ StoreTyped /\ StoreInv /\ NoFreeBuddies /\ Step(c)
      /\ frame[c] \in FrameType /\ CallState(c) /\ pc \in [Cores -> Labels]
      /\ pc[c] = "merge" /\ ~ CanMerge(c)
      /\ list_push_front(l, page) /\ IsManaged(page)
      /\ \E label \in {"merge", "unlock"} : pc' = [pc EXCEPT ![c] = label]
  BY DEF Base, IInv, CanonicalInv, CallsTyped, Step, Run, FreePage, Goto
<1>1. l \in Levels /\ page \in Nat /\ page \in Managed /\ Aligned(page, l)
  BY <1>0, ManagedPages DEF FrameType, CallState
<1>2. l # TOP => get_buddy_page_id_for_page(page, l) \notin FreeBlocks(l)
  <2> SUFFICES ASSUME l # TOP, get_buddy_page_id_for_page(page, l) \in FreeBlocks(l)
               PROVE  FALSE
    OBVIOUS
  <2>1. buddy_bitmap_get_bit_locked(BuddyOf(c), l)
    BY <1>0, <1>1 DEF StoreInv, BitmapMatchesLists, buddy_bitmap_get_bit_locked, BuddyOf
  <2>2. l < TOP
    BY <1>1, LevelFacts
  <2> QED
    BY <1>0, <2>1, <2>2, Zenon DEF CanMerge
<1>3. NoFreeBuddies'
  BY <1>0, <1>1, <1>2, PushKeepsNoFreeBuddies
<1>4. pc'[c] \notin {"boot_insert", "insert"}
  BY <1>0
<1> QED
  BY <1>0, <1>3, <1>4, NoInsertionStep DEF Active, Holding

(* Every step keeps the lists canonical.                                    *)
LEMMA CanonicalStep ==
  ASSUME ram_base = 0, Base, CanonicalInv, [Next]_vars
  PROVE  CanonicalInv'
<1>0. IInv /\ NoFreeBuddies /\ pc \in [Cores -> Labels]
  BY DEF Base, IInv, CanonicalInv, CallsTyped
<1>1. CASE UNCHANGED vars
  <2>1. NoFreeBuddies'
    BY <1>0, <1>1 DEF vars, NoFreeBuddies, FreeBlocks
  <2>2. \A c \in Cores : SplitState(c)'
    BY <1>1 DEF vars, CanonicalInv, SplitState, NextIsApart, FreeBlocks
  <2> QED
    BY <2>1, <2>2 DEF CanonicalInv
<1>2. ASSUME NEW c \in Cores, Step(c), UNCHANGED buddy_lists,
             pc'[c] \notin {"boot_insert", "insert"}
      PROVE  CanonicalInv'
  <2>1. NoFreeBuddies'
    BY <1>0, <1>2 DEF NoFreeBuddies, FreeBlocks
  <2> QED
    BY <1>0, <1>2, <2>1, NoInsertionStep
<1>3. ASSUME NEW c \in Cores, Calls(c) \/ LockAcquire(c)
      PROVE  CanonicalInv'
  <2>1. UNCHANGED buddy_lists
    BY <1>0, <1>3, CallsKeepStore
  <2>2. pc'[c] \notin {"boot_insert", "insert"}
    <3>1. CASE Calls(c)
      <4>1. pc'[c] \in {"lock", "panic"}
        BY <1>0, <3>1, CallsKeepStore
      <4> QED
        BY <4>1
    <3>2. CASE LockAcquire(c)
      BY <1>0, <3>2 DEF LockAcquire, Goto
    <3> QED
      BY <1>3, <3>1, <3>2
  <2> QED
    BY <1>2, <1>3, <2>1, <2>2 DEF Step
<1>4. ASSUME NEW c \in Cores, Run(c)
      PROVE  CanonicalInv'
  <2>1. CASE Unlock(c) \/ OutOfMemory(c)
    BY <1>0, <1>2, <1>4, <2>1 DEF Step, Unlock, OutOfMemory, Goto
  <2>2. CASE InsertDone(c) \/ ApplyMetadata(c) \/ BootApply(c)
    BY <1>0, <1>2, <1>4, <2>2 DEF Step, InsertDone, ApplyMetadata, BootApply, Goto
  <2>3. CASE GetMetadata(c) \/ RequireRangeType(c) \/ RequirePanic(c)
    BY <1>0, <1>2, <1>4, <2>3 DEF Step, GetMetadata, RequireRangeType, RequirePanic, Goto
  <2> QED
    BY <1>4, <2>1, <2>2, <2>3, TakeBlockCanonical, InsertRangeCanonical, MergeUpCanonical,
       FreePageCanonical DEF Run
<1> QED
  BY <1>1, <1>3, <1>4 DEF Next

(* At power on the lists are empty and all unreserved memory is to come.    *)
LEMMA InitCanonical ==
  ASSUME ram_base = 0, Init
  PROVE  CanonicalInv
<1>0. BootCore \in Cores
  BY ConstantsAssumption
<1>1. \A l \in Levels : FreeBlocks(l) = {}
  BY DEF Init, FreeBlocks, ToSet
<1>2. NoFreeBuddies
  BY <1>1 DEF NoFreeBuddies
<1>3. ASSUME NEW c \in Cores
      PROVE  SplitState(c)
  <2>1. CASE c = BootCore
    <3>1. /\ pc[c] = "boot_insert"
          /\ frame[c].limit = FirstFree + (FreeLimit - FirstFree)
          /\ frame[c].free_i = FirstFree
      BY <1>0, <2>1 DEF Init, Frame
    <3>2. frame[c].limit = page_count /\ frame[c].free_i \in Nat /\ frame[c].limit \in Nat
      BY <3>1, AllUnreserved, ManagedPages
    <3>3. NextIsApart(c)
      BY <1>1, <3>2, InsertLevelFits DEF NextIsApart
    <3> QED
      BY <3>1, <3>2, <3>3 DEF SplitState
  <2>2. CASE c # BootCore
    BY <2>2 DEF Init, SplitState
  <2> QED
    BY <2>1, <2>2
<1> QED
  BY <1>2, <1>3 DEF CanonicalInv

(* Where no two free blocks are buddies, an aligned block of free pages     *)
(* lies inside one free block. The proof looks at a smallest block that     *)
(* does not: its halves lie in free blocks, which can only be the halves    *)
(* themselves, and those are buddies.                                       *)
InOneFreeBlock(b, l) ==
  \E k \in Levels : \E d \in FreeBlocks(k) : l <= k /\ Block(b, l) \subseteq Block(d, k)

AllFree(b, l) == \A p \in Block(b, l) : IsFree(p)

LEMMA FreeBlocksCover ==
  ASSUME ram_base = 0, StoreTyped, StoreInv, NoFreeBuddies,
         NEW l \in Levels, NEW b \in Nat, Aligned(b, l), AllFree(b, l)
  PROVE  InOneFreeBlock(b, l)
<1> DEFINE S == { m \in Levels : \E p \in Nat : Aligned(p, m) /\ AllFree(p, m)
                                                /\ ~ InOneFreeBlock(p, m) }
<1>1. SUFFICES ASSUME S # {} PROVE FALSE
  OBVIOUS
<1>2. PICK m \in S : \A j \in S : m <= j
  <2>1. S \in SUBSET Nat
    BY LevelFacts
  <2> HIDE DEF S
  <2> QED
    BY <1>1, <2>1, LeastExists
<1>3. m \in Levels /\ m \in Nat
  BY LevelFacts
<1>4. PICK p \in Nat : Aligned(p, m) /\ AllFree(p, m) /\ ~ InOneFreeBlock(p, m)
  OBVIOUS
<1>5. p \in Block(p, m)
  BY <1>3, PageInItsBlock
<1>6. ASSUME NEW k \in Levels, NEW d \in FreeBlocks(k), NEW q \in Block(p, m),
             q \in Block(d, k), m <= k
      PROVE  FALSE
  <2>1. d \in Nat /\ Aligned(d, k)
    BY FreeBlockFacts
  <2>2. Block(p, m) \subseteq Block(d, k)
    BY <1>3, <1>4, <1>6, <2>1, NestedBlocks
  <2> QED
    BY <1>4, <1>6, <2>2 DEF InOneFreeBlock
<1>7. CASE m = 0
  <2>1. PICK k \in Levels : \E d \in FreeBlocks(k) : p \in Block(d, k)
    BY <1>4, <1>5 DEF AllFree, IsFree
  <2>2. PICK d \in FreeBlocks(k) : p \in Block(d, k)
    BY <2>1
  <2>3. 0 <= k
    BY LevelFacts
  <2> QED
    BY <1>5, <1>6, <1>7, <2>2, <2>3
<1>8. CASE m # 0
  <2>1. PICK j \in Nat : m = j + 1
    BY <1>3, <1>8
  <2>2. j \in Levels /\ j # TOP /\ j <= m /\ j < m
    <3>1. m <= TOP /\ TOP \in Nat
      BY <1>3, LevelFacts
    <3> QED
      BY <2>1, <3>1, LevelFacts
  <2>3. PICK h \in Nat \ {0} : h = buddy_level_page_count(j)
    BY <2>2, PageCountType
  <2>4. buddy_level_page_count(m) = 2 * h
    BY <2>1, <2>2, <2>3, PageCountType
  <2>5. Aligned(p, j)
    BY <1>3, <1>4, <2>2, AlignedBelow
  <2>6. get_buddy_page_id_for_page(p, j) = p + h /\ Aligned(p + h, j)
    <3>1. get_buddy_page_id_for_page(p, j) = p + h
      BY <1>4, <2>1, <2>2, <2>3, <2>5, LowerHalf
    <3> QED
      BY <2>2, <2>5, <3>1, BuddyTwice
  <2>7. /\ p + h \in Nat
        /\ Block(p, j) \subseteq Block(p, m) /\ Block(p + h, j) \subseteq Block(p, m)
    BY <2>3, <2>4 DEF Block, Pages
  <2>8. InOneFreeBlock(p, j) /\ InOneFreeBlock(p + h, j)
    <3>1. AllFree(p, j) /\ AllFree(p + h, j)
      BY <1>4, <2>7 DEF AllFree
    <3>2. j \notin S
      <4> HIDE DEF S
      <4> QED
        BY <1>2, <1>3, <2>1, <2>2
    <3> QED
      BY <2>2, <2>5, <2>6, <2>7, <3>1, <3>2
  <2>9. ASSUME NEW q \in Nat, Aligned(q, j), Block(q, j) \subseteq Block(p, m),
               InOneFreeBlock(q, j)
        PROVE  q \in FreeBlocks(j)
    <3>1. PICK k \in Levels : \E d \in FreeBlocks(k) : j <= k /\ Block(q, j) \subseteq Block(d, k)
      BY <2>9 DEF InOneFreeBlock
    <3>2. PICK d \in FreeBlocks(k) : j <= k /\ Block(q, j) \subseteq Block(d, k)
      BY <3>1
    <3>3. q \in Block(q, j) /\ q \in Block(p, m) /\ q \in Block(d, k)
      BY <2>2, <2>9, <3>2, PageInItsBlock
    <3>4. k = j
      <4>1. ~ (m <= k)
        BY <1>6, <3>3
      <4>2. k \in Nat
        BY LevelFacts
      <4> QED
        BY <1>3, <2>1, <3>2, <4>1, <4>2
    <3>5. d \in Nat /\ Aligned(d, j)
      BY <3>2, <3>4, FreeBlockFacts
    <3>6. q = d
      BY <2>2, <2>9, <3>3, <3>4, <3>5, SameBlock
    <3> QED
      BY <3>4, <3>6
  <2>10. p \in FreeBlocks(j) /\ p + h \in FreeBlocks(j)
    BY <2>5, <2>6, <2>7, <2>8, <2>9
  <2> QED
    BY <2>2, <2>6, <2>10 DEF NoFreeBuddies
<1> QED
  BY <1>7, <1>8

(* So the lists hold just the maximal aligned blocks of free pages.         *)
LEMMA ListsAreCanonical ==
  ASSUME ram_base = 0, StoreTyped, StoreInv, NoFreeBuddies, NEW l \in Levels, NEW b \in Managed
  PROVE  b \in FreeBlocks(l) <=>
           /\ Aligned(b, l) /\ AllFree(b, l)
           /\ l = TOP \/ ~ AllFree(get_root_buddy_page_id_for_page(b, l), l + 1)
<1> DEFINE root == get_root_buddy_page_id_for_page(b, l)
<1>0. b \in Nat /\ l \in Nat /\ b \in Block(b, l)
  BY ManagedPages, LevelFacts, PageInItsBlock
<1>1. ASSUME l # TOP, Aligned(b, l)
      PROVE  /\ l + 1 \in Levels /\ root \in Nat /\ Aligned(root, l + 1)
             /\ Block(b, l) \subseteq Block(root, l + 1)
             /\ b \in Block(root, l + 1)
  BY <1>0, <1>1, BuddyAndRoot, LevelFacts
<1>2. ASSUME b \in FreeBlocks(l)
      PROVE  /\ Aligned(b, l) /\ AllFree(b, l)
             /\ l = TOP \/ ~ AllFree(root, l + 1)
  <2>1. Aligned(b, l) /\ AllFree(b, l)
    BY <1>2, FreeBlockFacts DEF AllFree, IsFree
  <2>2. ASSUME l # TOP, AllFree(root, l + 1)
        PROVE  FALSE
    <3>1. InOneFreeBlock(root, l + 1)
      <4> HIDE DEF root
      <4> QED
        BY <1>1, <2>1, <2>2, FreeBlocksCover
    <3>2. PICK k \in Levels : \E d \in FreeBlocks(k) :
            l + 1 <= k /\ Block(root, l + 1) \subseteq Block(d, k)
      BY <3>1 DEF InOneFreeBlock
    <3>3. PICK d \in FreeBlocks(k) : l + 1 <= k /\ b \in Block(d, k)
      BY <1>1, <2>1, <2>2, <3>2
    <3>4. l = k
      BY <1>0, <1>2, <3>3 DEF StoreInv
    <3> QED
      BY <1>0, <3>3, <3>4
  <2> QED
    BY <2>1, <2>2
<1>3. ASSUME Aligned(b, l), AllFree(b, l), b \notin FreeBlocks(l)
      PROVE  l # TOP /\ AllFree(root, l + 1)
  <2>1. InOneFreeBlock(b, l)
    BY <1>0, <1>3, FreeBlocksCover
  <2>2. PICK k \in Levels : \E d \in FreeBlocks(k) :
          l <= k /\ Block(b, l) \subseteq Block(d, k)
    BY <2>1 DEF InOneFreeBlock
  <2>3. PICK d \in FreeBlocks(k) : l <= k /\ Block(b, l) \subseteq Block(d, k)
    BY <2>2
  <2>4. d \in Nat /\ Aligned(d, k) /\ k \in Nat /\ k <= TOP /\ TOP \in Nat
    BY <2>3, FreeBlockFacts, LevelFacts
  <2>5. l # k
    BY <1>0, <1>3, <2>3, <2>4, SameBlock
  <2>6. l + 1 <= k /\ l # TOP
    BY <1>0, <2>3, <2>4, <2>5
  <2>7. b \in Block(d, k)
    BY <1>0, <2>3
  <2>8. Block(root, l + 1) \subseteq Block(d, k)
    <3> HIDE DEF root
    <3> QED
      BY <1>1, <1>3, <2>4, <2>6, <2>7, NestedBlocks
  <2> QED
    BY <2>3, <2>6, <2>8 DEF AllFree, IsFree
<1> QED
  BY <1>2, <1>3

(* What is free decides what is on the lists: whatever order pages were     *)
(* taken and given back in, each level's list holds the maximal aligned     *)
(* blocks of free pages of its size, so once all is freed the counts are    *)
(* those after init (the sweeps of test_pmap_pfa.c compare them).           *)
THEOREM HistoryLeavesNoTrace ==
  ASSUME ram_base = 0
  PROVE  Spec => []CountsDependOnlyOnFreePages
<1>1. Init => Base /\ CanonicalInv
  BY InitBase, InitCanonical
<1>2. Base /\ CanonicalInv /\ [Next]_vars => (Base /\ CanonicalInv)'
  BY BaseStep, CanonicalStep
<1>3. Base /\ CanonicalInv => CountsDependOnlyOnFreePages
  <2> SUFFICES ASSUME Base, CanonicalInv, NEW l \in Levels
               PROVE  LET free == { p \in Managed : IsFree(p) }
                          root(b) == get_root_buddy_page_id_for_page(b, l)
                      IN  FreeBlocks(l) = { b \in free :
                            /\ b % buddy_level_page_count(l) = 0
                            /\ Block(b, l) \subseteq free
                            /\ l = TOP \/ ~ (Block(root(b), l + 1) \subseteq free) }
    BY Zenon DEF CountsDependOnlyOnFreePages
  <2> DEFINE free == { p \in Managed : IsFree(p) }
             root(b) == get_root_buddy_page_id_for_page(b, l)
  <2>1. StoreTyped /\ StoreInv /\ NoFreeBuddies
    BY DEF Base, IInv, CanonicalInv
  <2>2. \A p : IsFree(p) => p \in Managed
    BY <2>1 DEF IsFree, StoreInv
  <2>3. \A b : \A k : AllFree(b, k) <=> Block(b, k) \subseteq free
    BY <2>2 DEF AllFree
  <2>4. \A b \in Managed : b \in FreeBlocks(l) <=>
           /\ b % buddy_level_page_count(l) = 0
           /\ Block(b, l) \subseteq free
           /\ l = TOP \/ ~ (Block(root(b), l + 1) \subseteq free)
    <3> HIDE DEF free
    <3> QED
      BY <2>1, <2>3, ListsAreCanonical DEF Aligned
  <2>5. FreeBlocks(l) \subseteq free
    <3>1. \A b \in FreeBlocks(l) : b \in Managed /\ b \in Block(b, l)
      BY <2>1, FreeBlockFacts, PageInItsBlock
    <3> QED
      BY <3>1 DEF IsFree
  <2>6. FreeBlocks(l) = { b \in free :
          /\ b % buddy_level_page_count(l) = 0
          /\ Block(b, l) \subseteq free
          /\ l = TOP \/ ~ (Block(root(b), l + 1) \subseteq free) }
    <3>1. free \subseteq Managed
      OBVIOUS
    <3> HIDE DEF free, root
    <3> QED
      BY <2>4, <2>5, <3>1
  <2> QED
    BY <2>6, Zenon
<1> QED
  BY <1>1, <1>2, <1>3, PTL DEF Spec


==============================================================================
