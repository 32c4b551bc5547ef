------------------------------ MODULE QueueProofs ------------------------------
(* Proofs about Queue for every element set and every buffer length.            *)
EXTENDS Queue, SequenceTheorems, TLAPS

(* Index arithmetic of queue.c never needs more than one subtraction of the    *)
(* capacity, so a wrapped index is an ordinary case split. Wrap stays opaque   *)
(* everywhere else: the provers then have linear arithmetic only.              *)
LEMMA WrapOnce ==
    ASSUME NEW c \in Nat \ {0}, NEW x \in Nat, x < c + c
    PROVE  Wrap(x, c) = IF x < c THEN x ELSE x - c
<1>1. CASE x < c
  BY <1>1 DEF Wrap
<1>2. CASE x >= c
  BY <1>2 DEF Wrap
<1> QED BY <1>1, <1>2

(* One more element at the rear of the ring.                                   *)
LEMMA WrapSucc ==
    ASSUME NEW c \in Nat \ {0}, NEW n \in Nat, n + 1 < c + c
    PROVE  Wrap(Wrap(n, c) + 1, c) = Wrap(n + 1, c)
<1>1. Wrap(n, c) = (IF n < c THEN n ELSE n - c) /\ Wrap(n, c) \in 0..(c - 1)
  BY WrapOnce
<1>2. Wrap(Wrap(n, c) + 1, c) = IF Wrap(n, c) + 1 < c THEN Wrap(n, c) + 1 ELSE Wrap(n, c) + 1 - c
  BY <1>1, WrapOnce
<1>3. Wrap(n + 1, c) = IF n + 1 < c THEN n + 1 ELSE n + 1 - c
  BY WrapOnce
<1> QED BY <1>1, <1>2, <1>3

(* One element less at the front of the ring.                                  *)
LEMMA WrapShift ==
    ASSUME NEW c \in Nat \ {0}, NEW f \in 0..(c - 1), NEW s \in 1..c
    PROVE  Wrap(Wrap(f + 1, c) + (s - 1), c) = Wrap(f + s, c)
<1>1. CASE f + 1 < c
  <2>1. Wrap(f + 1, c) = f + 1
    BY <1>1, WrapOnce
  <2>2. (f + 1) + (s - 1) = f + s
    OBVIOUS
  <2> QED BY <2>1, <2>2
<1>2. CASE f + 1 = c
  <2>1. Wrap(f + 1, c) = 0
    BY <1>2, WrapOnce
  <2>2. Wrap(s - 1, c) = s - 1 /\ Wrap(f + s, c) = s - 1
    BY <1>2, WrapOnce
  <2>3. 0 + (s - 1) = s - 1
    OBVIOUS
  <2> QED BY <2>1, <2>2, <2>3
<1> QED BY <1>1, <1>2

(* The inductive invariant: neither conjunct is preserved without the other.   *)
IInv == TypeOK /\ RingShape

LEMMA InitIInv == Init => IInv
<1> SUFFICES ASSUME Init PROVE IInv
  OBVIOUS
<1>1. TypeOK
  BY QueueAssumption DEF Init, TypeOK
<1>2. Wrap(rear + 1, capacity) = 0 /\ Wrap(front + size, capacity) = 0
  BY WrapOnce, QueueAssumption DEF Init
<1> QED BY <1>1, <1>2 DEF IInv, RingShape

LEMMA StepIInv == IInv /\ [Next]_vars => IInv'
<1> SUFFICES ASSUME IInv, [Next]_vars PROVE IInv'
  OBVIOUS
<1> USE QueueAssumption DEF IInv, TypeOK, RingShape
<1> DEFINE Unchanged == UNCHANGED <<capacity, front, rear, size, buffer, out>>
<1>1. ASSUME Unchanged, status' \in BOOLEAN PROVE IInv'
  BY <1>1
<1>2. ASSUME NEW c \in 0..MaxCapacity, NEW zero \in BOOLEAN, NEW b \in {"buffer", NULL},
             QueueInit(c, zero, b)
      PROVE  IInv'
  <2>1. CASE c # 0 /\ UNCHANGED <<buffer, out>> /\ status' = TRUE
             /\ capacity' = c /\ front' = 0 /\ size' = 0 /\ rear' = c - 1
    <3>1. Wrap(rear' + 1, c) = 0 /\ Wrap(front' + size', c) = 0
      BY <2>1, WrapOnce
    <3> QED BY <2>1, <3>1
  <2> QED BY <1>1, <1>2, <2>1 DEF QueueInit, Fail
<1>3. ASSUME NEW q \in {"queue", NULL}, NEW e \in Element \cup {NULL}, Enqueue(q, e)
      PROVE  IInv'
  <2>1. CASE /\ e # NULL /\ ~Full
             /\ buffer' = [buffer EXCEPT ![Wrap(rear + 1, capacity)] = e]
             /\ rear' = Wrap(rear + 1, capacity)
             /\ size' = size + 1
             /\ status' = TRUE
             /\ UNCHANGED <<capacity, front, out>>
    <3>1. size + 1 \in 0..capacity /\ front + size + 1 < capacity + capacity
      BY <2>1 DEF Full
    <3>2. rear' \in 0..(capacity - 1)
      BY <2>1, WrapOnce
    <3>3. Wrap(rear' + 1, capacity) = Wrap(front + size + 1, capacity)
      BY <2>1, <3>1, WrapSucc
    <3>4. buffer' \in [Slots -> Element]
      BY <2>1
    <3>5. front + (size + 1) = front + size + 1
      BY <3>1
    <3> QED BY <2>1, <3>1, <3>2, <3>3, <3>4, <3>5
  <2> QED BY <1>1, <1>3, <2>1 DEF Enqueue, Fail
<1>4. ASSUME NEW q \in {"queue", NULL}, NEW d \in {"element", NULL}, Dequeue({q, d})
      PROVE  IInv'
  <2>1. CASE /\ ~Empty
             /\ out' = buffer[front]
             /\ front' = Wrap(front + 1, capacity)
             /\ size' = size - 1
             /\ status' = TRUE
             /\ UNCHANGED <<capacity, rear, buffer>>
    <3>1. size - 1 \in 0..capacity
      BY <2>1 DEF Empty
    <3>2. front' \in 0..(capacity - 1)
      BY <2>1, WrapOnce
    <3>3. Wrap(front' + (size - 1), capacity) = Wrap(front + size, capacity)
      BY <2>1, WrapShift DEF Empty
    <3>4. buffer[front] \in Element
      BY DEF Slots
    <3> QED BY <2>1, <3>1, <3>2, <3>3, <3>4
  <2> QED BY <1>1, <1>4, <2>1 DEF Dequeue, Fail
<1>5. ASSUME NEW ptrs, NEW i \in {front, rear}, Peek(ptrs, i) PROVE IInv'
  <2>1. buffer[i] \in Element
    BY DEF Slots
  <2> QED BY <1>5, <1>1, <2>1 DEF Peek, Fail
<1>6. CASE UNCHANGED vars
  BY <1>6, <1>1 DEF vars
<1> QED BY <1>2, <1>3, <1>4, <1>5, <1>6 DEF Next, Front, Rear

(* Every index queue.c computes stays inside the capacity it was given.        *)
THEOREM TypeCorrect == Spec => []TypeOK
<1>1. IInv => TypeOK
  BY DEF IInv
<1> QED BY InitIInv, StepIInv, <1>1, PTL DEF Spec

(* front, rear and size never drift apart, whatever the sequence of calls.     *)
THEOREM RingShapeHolds == Spec => []RingShape
<1>1. IInv => RingShape
  BY DEF IInv
<1> QED BY InitIInv, StepIInv, <1>1, PTL DEF Spec

------------------------------------------------------------------------------
(* Distinct positions in the queue sit in distinct slots.                      *)
LEMMA SlotsDistinct ==
    ASSUME TypeOK, NEW j \in 1..capacity, NEW k \in 1..capacity
    PROVE  SlotOf(k) \in 0..(capacity - 1) /\ (SlotOf(j) = SlotOf(k) => j = k)
<1>1. \A i \in 1..capacity : SlotOf(i) = IF front + i - 1 < capacity THEN front + i - 1
                                                                  ELSE front + i - 1 - capacity
  BY WrapOnce DEF TypeOK, SlotOf
<1> QED BY <1>1 DEF TypeOK

(* The newest element sits at rear, the oldest at front, the next one after    *)
(* rear.                                                                       *)
LEMMA Ends ==
    ASSUME IInv
    PROVE  /\ SlotOf(1) = front
           /\ size > 0 => SlotOf(size) = rear
           /\ size < capacity => SlotOf(size + 1) = Wrap(rear + 1, capacity)
<1> USE DEF IInv, TypeOK, RingShape, SlotOf
<1>1. SlotOf(1) = front
  BY WrapOnce
<1>2. ASSUME size > 0 PROVE SlotOf(size) = rear
  <2>1. SlotOf(size) \in 0..(capacity - 1) /\ Wrap(front + size - 1 + 1, capacity) = Wrap(SlotOf(size) + 1, capacity)
    BY <1>2, WrapSucc, WrapOnce
  <2>2. front + size - 1 + 1 = front + size
    OBVIOUS
  <2>3. Wrap(SlotOf(size) + 1, capacity) = Wrap(rear + 1, capacity)
    BY <2>1, <2>2
  <2>4. \A i \in 0..(capacity - 1) : Wrap(i + 1, capacity) = IF i + 1 < capacity THEN i + 1 ELSE i + 1 - capacity
    BY WrapOnce
  <2> HIDE DEF SlotOf
  <2> QED BY <2>1, <2>3, <2>4
<1>3. front + (size + 1) - 1 = front + size
  OBVIOUS
<1> QED BY <1>1, <1>2, <1>3

------------------------------------------------------------------------------
(* An enqueue writes one slot, and it holds no stored element.                 *)
LEMMA StepKeepsLiveSlots == IInv /\ [Next]_vars => [KeepsLiveSlots]_vars
<1> SUFFICES ASSUME IInv, Next PROVE KeepsLiveSlots
  OBVIOUS
<1>1. CASE buffer' = buffer
  BY <1>1 DEF KeepsLiveSlots
<1>2. ASSUME NEW e, ~Full, buffer' = [buffer EXCEPT ![Wrap(rear + 1, capacity)] = e]
      PROVE  KeepsLiveSlots
  <2>1. size \in 0..(capacity - 1) /\ capacity \in Nat
    BY <1>2 DEF Full, IInv, TypeOK
  <2>2. SlotOf(size + 1) = Wrap(rear + 1, capacity)
    BY <2>1, Ends
  <2>3. \A k \in 1..size : SlotOf(k) # SlotOf(size + 1) /\ SlotOf(k) \in 0..(capacity - 1)
    BY <2>1, SlotsDistinct DEF IInv
  <2>4. \A k \in 1..size : buffer'[SlotOf(k)] = buffer[SlotOf(k)]
    BY <1>2, <2>2, <2>3 DEF IInv, TypeOK, Slots
  <2> QED BY <2>4 DEF KeepsLiveSlots
<1> QED BY <1>1, <1>2 DEF Next, QueueInit, Enqueue, Dequeue, Front, Rear, Peek, Fail

(* No call ever overwrites an element that stays in the queue.                 *)
THEOREM LiveSlotsAreKept == Spec => LiveSlotsKept
<1> QED BY InitIInv, StepIInv, StepKeepsLiveSlots, PTL DEF Spec, LiveSlotsKept

------------------------------------------------------------------------------
(* The refinement: what the ring holds, read from front, is the abstract FIFO. *)
Ring(mem, f, s, c) == [k \in 1..s |-> mem[Wrap(f + k - 1, c)]]

LEMMA RingSeq ==
    ASSUME NEW c \in 1..MaxCapacity, NEW f \in 0..(c - 1), NEW s \in 0..c,
           NEW mem \in [Slots -> Element]
    PROVE  /\ Ring(mem, f, s, c) \in Seq(Element)
           /\ Len(Ring(mem, f, s, c)) = s
           /\ Ring(mem, f, s, c) = <<>> <=> s = 0
<1>1. c \in Nat \ {0} /\ c <= MaxCapacity /\ MaxCapacity \in Nat /\ s \in Nat
  BY QueueAssumption
<1>2. ASSUME NEW k \in 1..s PROVE mem[Wrap(f + k - 1, c)] \in Element
  <2>1. f + k - 1 \in Nat /\ f + k - 1 < c + c
    BY <1>1
  <2>2. Wrap(f + k - 1, c) \in 0..(c - 1)
    BY <1>1, <2>1, WrapOnce
  <2> QED BY <1>1, <2>2 DEF Slots
<1>3. Ring(mem, f, s, c) \in Seq(Element) /\ Len(Ring(mem, f, s, c)) = s
  BY <1>1, <1>2 DEF Ring
<1> QED BY <1>1, <1>3, EmptySeq

LEMMA ContentsType ==
    ASSUME IInv
    PROVE  /\ Contents \in Seq(Element)
           /\ Len(Contents) = size
           /\ \A k \in 1..size : Contents[k] = buffer[SlotOf(k)]
           /\ Contents = <<>> <=> size = 0
<1>1. \A k \in 1..size : Contents[k] = buffer[SlotOf(k)]
  BY DEF Contents
<1>2. Contents = Ring(buffer, front, size, capacity)
  BY DEF Contents, SlotOf, Ring
<1>3. capacity \in 1..MaxCapacity /\ front \in 0..(capacity - 1) /\ size \in 0..capacity
      /\ buffer \in [Slots -> Element]
  BY DEF IInv, TypeOK
<1>4. Contents \in Seq(Element) /\ Len(Contents) = size /\ (Contents = <<>> <=> size = 0)
  BY <1>2, <1>3, RingSeq
<1> QED BY <1>1, <1>4

(* The same of the state a step leads to.                                      *)
LEMMA ContentsTypeNext ==
    ASSUME IInv'
    PROVE  /\ Contents' \in Seq(Element)
           /\ Len(Contents') = size'
           /\ Contents' = <<>> <=> size' = 0
<1>1. Contents' = Ring(buffer', front', size', capacity')
  BY DEF Contents, SlotOf, Ring
<1>2. capacity' \in 1..MaxCapacity /\ front' \in 0..(capacity' - 1) /\ size' \in 0..capacity'
      /\ buffer' \in [Slots -> Element]
  BY DEF IInv, TypeOK
<1>3. Contents' \in Seq(Element) /\ Len(Contents') = size' /\ (Contents' = <<>> <=> size' = 0)
  BY <1>1, <1>2, RingSeq
<1> QED BY <1>3

LEMMA InitRefines == Init => Fifo!Init
<1> SUFFICES ASSUME Init PROVE Fifo!Init
  OBVIOUS
<1>1. IInv
  BY InitIInv
<1> QED BY <1>1, ContentsType DEF Init, Fifo!Init

LEMMA EnqueueRefines ==
    ASSUME IInv, IInv', ~Full, NEW e \in Element,
           buffer' = [buffer EXCEPT ![Wrap(rear + 1, capacity)] = e],
           rear' = Wrap(rear + 1, capacity), size' = size + 1, status' = TRUE,
           UNCHANGED <<capacity, front, out>>
    PROVE  Fifo!Put(e)
<1>1. size \in Nat /\ size < capacity /\ capacity \in Nat
  BY DEF Full, IInv, TypeOK
<1>2. \A k \in 1..(size + 1) : SlotOf(k)' = SlotOf(k)
  BY DEF SlotOf
<1>3. SlotOf(size + 1) = Wrap(rear + 1, capacity)
  BY <1>1, Ends
<1>4. \A k \in 1..(size + 1) : SlotOf(k) \in Slots /\ (SlotOf(k) = SlotOf(size + 1) => k = size + 1)
  BY <1>1, SlotsDistinct, QueueAssumption DEF IInv, TypeOK, Slots
<1>5. \A k \in 1..(size + 1) : buffer'[SlotOf(k)] = IF k = size + 1 THEN e ELSE buffer[SlotOf(k)]
  BY <1>3, <1>4 DEF IInv, TypeOK
<1>6. Contents' \in Seq(Element) /\ Len(Contents') = size + 1
      /\ \A k \in 1..(size + 1) : Contents'[k] = IF k = size + 1 THEN e ELSE buffer[SlotOf(k)]
  BY <1>1, <1>2, <1>5, ContentsType, ContentsTypeNext DEF Contents
<1>7. Contents' = Append(Contents, e)
  <2>1. Append(Contents, e) \in Seq(Element) /\ Len(Append(Contents, e)) = size + 1
        /\ \A k \in 1..size : Append(Contents, e)[k] = buffer[SlotOf(k)]
        /\ Append(Contents, e)[size + 1] = e
    BY ContentsType, AppendProperties
  <2> QED BY <1>1, <1>6, <2>1, SeqEqual
<1> QED BY <1>1, <1>7, ContentsType DEF Fifo!Put

LEMMA DequeueRefines ==
    ASSUME IInv, IInv', ~Empty,
           out' = buffer[front], front' = Wrap(front + 1, capacity), size' = size - 1,
           status' = TRUE, UNCHANGED <<capacity, rear, buffer>>
    PROVE  Fifo!Take
<1>1. size \in Nat \ {0} /\ size <= capacity /\ capacity \in Nat \ {0} /\ front \in 0..(capacity - 1)
  BY DEF Empty, IInv, TypeOK
<1>2. ASSUME NEW k \in 1..(size - 1) PROVE SlotOf(k)' = SlotOf(k + 1)
  <2>1. SlotOf(k)' = Wrap(Wrap(front + 1, capacity) + (k + 1 - 1) - 1, capacity)
    BY <1>1 DEF SlotOf
  <2>2. \A i \in 0..(capacity + capacity - 1) : Wrap(i, capacity) = IF i < capacity THEN i ELSE i - capacity
    BY <1>1, WrapOnce
  <2> QED BY <1>1, <2>2 DEF SlotOf
<1>3. \A k \in 1..(size - 1) : Contents'[k] = Contents[k + 1]
  BY <1>1, <1>2, ContentsType DEF Contents
<1>4. Contents' = Tail(Contents)
  <2>1. Contents \in Seq(Element) /\ Contents # <<>> /\ Len(Contents) = size
    BY <1>1, ContentsType
  <2>2. Tail(Contents) \in Seq(Element) /\ Len(Tail(Contents)) = size - 1
        /\ \A k \in 1..(size - 1) : Tail(Contents)[k] = Contents[k + 1]
    BY <2>1, HeadTailProperties
  <2>3. Contents' \in Seq(Element) /\ Len(Contents') = size - 1
    BY ContentsTypeNext
  <2> QED BY <1>1, <1>3, <2>2, <2>3, SeqEqual
<1>5. Head(Contents) = buffer[front]
  BY <1>1, ContentsType, Ends
<1> QED BY <1>1, <1>4, <1>5, ContentsType DEF Fifo!Take

(* A call that leaves the members alone leaves the contents alone.             *)
LEMMA SameContents ==
    ASSUME UNCHANGED <<capacity, front, size, buffer>> PROVE Contents' = Contents
<1> QED BY DEF Contents, SlotOf

LEMMA FailRefuses == Fail => Fifo!Refuse
<1> QED BY SameContents DEF Fail, Fifo!Refuse

(* A call with valid arguments takes the step of its own name.                 *)
LEMMA StepAsPromised == IInv /\ IInv' => AsPromised
<1> SUFFICES ASSUME IInv, IInv' PROVE AsPromised
  OBVIOUS
<1> USE QueueAssumption DEF Pointers
<1>1. ASSUME NEW c \in 1..MaxCapacity, QueueInit(c, FALSE, "buffer") PROVE Fifo!Reset(c)
  <2>1. capacity' = c /\ size' = 0 /\ status' = TRUE /\ UNCHANGED out
    BY <1>1 DEF QueueInit
  <2>2. Contents' = <<>>
    BY <2>1, ContentsTypeNext
  <2> QED BY <2>1, <2>2 DEF Fifo!Reset
<1>2. ASSUME NEW e \in Element, Enqueue("queue", e) PROVE Fifo!Put(e) \/ Fifo!RefuseFull
  <2>1. CASE Full
    <3>1. Fail
      BY <1>2, <2>1 DEF Enqueue
    <3> QED BY <2>1, <3>1, FailRefuses, ContentsType DEF Full, Fifo!RefuseFull
  <2>2. CASE ~Full
    BY <1>2, <2>2, EnqueueRefines DEF Enqueue
  <2> QED BY <2>1, <2>2
<1>3. ASSUME Empty, Fail PROVE Fifo!RefuseEmpty
  BY <1>3, FailRefuses, ContentsType DEF Empty, Fifo!RefuseEmpty
<1>4. Dequeue(Pointers) => Fifo!Take \/ Fifo!RefuseEmpty
  BY <1>3, DequeueRefines DEF Dequeue
<1>5. ASSUME ~Empty
      PROVE  /\ Contents # <<>>
             /\ Head(Contents) = buffer[front]
             /\ Contents[Len(Contents)] = buffer[rear]
  <2>1. size \in Nat \ {0}
    BY <1>5 DEF Empty, IInv, TypeOK
  <2> QED BY <2>1, ContentsType, Ends
<1>6. ASSUME NEW i, Peek(Pointers, i), ~Empty
      PROVE  Contents' = Contents /\ out' = buffer[i] /\ status' = TRUE /\ UNCHANGED capacity
  BY <1>6, SameContents DEF Peek
<1>7. Front(Pointers) => Fifo!PeekOldest \/ Fifo!RefuseEmpty
  <2>1. CASE Empty
    BY <1>3, <2>1 DEF Front, Peek
  <2>2. CASE ~Empty
    BY <1>5, <1>6, <2>2 DEF Front, Fifo!PeekOldest
  <2> QED BY <2>1, <2>2
<1>8. Rear(Pointers) => Fifo!PeekNewest \/ Fifo!RefuseEmpty
  <2>1. CASE Empty
    BY <1>3, <2>1 DEF Rear, Peek
  <2>2. CASE ~Empty
    BY <1>5, <1>6, <2>2 DEF Rear, Fifo!PeekNewest
  <2> QED BY <2>1, <2>2
<1> QED BY <1>1, <1>2, <1>4, <1>7, <1>8 DEF AsPromised

(* Any other call is refused.                                                  *)
LEMMA StepRefines == IInv /\ IInv' /\ [Next]_vars => [Fifo!Next]_Fifo!vars
<1> SUFFICES ASSUME IInv, IInv', [Next]_vars PROVE [Fifo!Next]_Fifo!vars
  OBVIOUS
<1> USE QueueAssumption
<1>1. Fail => Fifo!Next
  BY FailRefuses DEF Fifo!Next
<1>2. AsPromised
  BY StepAsPromised
<1>3. ASSUME NEW c \in 0..MaxCapacity, NEW zero \in BOOLEAN, NEW b \in {"buffer", NULL},
             QueueInit(c, zero, b)
      PROVE  Fifo!Next
  <2>1. CASE c # 0 /\ ~zero /\ b # NULL
    <3>1. c \in 1..MaxCapacity
      BY <2>1
    <3>2. zero = FALSE /\ b = "buffer"
      BY <2>1
    <3>3. QueueInit(c, FALSE, "buffer")
      BY <1>3, <3>2
    <3> QED BY <1>2, <3>1, <3>3 DEF AsPromised, Fifo!Next
  <2>2. CASE c = 0 \/ zero \/ b = NULL
    BY <1>1, <1>3, <2>2 DEF QueueInit
  <2> QED BY <2>1, <2>2
<1>4. ASSUME NEW q \in {"queue", NULL}, NEW e \in Element \cup {NULL}, Enqueue(q, e)
      PROVE  Fifo!Next
  <2>1. CASE q = NULL \/ e = NULL
    BY <1>1, <1>4, <2>1 DEF Enqueue
  <2>2. CASE q = "queue" /\ e \in Element
    BY <1>2, <1>4, <2>2 DEF AsPromised, Fifo!Next, Fifo!RefuseFull
  <2> QED BY <2>1, <2>2
<1>5. ASSUME NEW q \in {"queue", NULL}, NEW d \in {"element", NULL},
             Dequeue({q, d}) \/ Front({q, d}) \/ Rear({q, d})
      PROVE  Fifo!Next
  <2>1. CASE NULL \in {q, d}
    BY <1>1, <1>5, <2>1 DEF Dequeue, Front, Rear, Peek
  <2>2. CASE NULL \notin {q, d}
    <3>1. {q, d} = Pointers
      BY <2>2 DEF Pointers
    <3> QED BY <1>2, <1>5, <3>1 DEF AsPromised, Fifo!Next, Fifo!RefuseEmpty
  <2> QED BY <2>1, <2>2
<1>6. CASE UNCHANGED vars
  BY <1>6, SameContents DEF vars, Fifo!vars
<1> QED BY <1>3, <1>4, <1>5, <1>6 DEF Next

(* queue.c implements a bounded FIFO, for every element set and buffer length. *)
THEOREM QueueIsFifo == Spec => FifoSpec
<1>1. IInv /\ IInv' /\ [Next]_vars => [AsPromised]_vars
  BY StepAsPromised
<1>2. Spec => Fifo!Spec
  BY InitIInv, StepIInv, InitRefines, StepRefines, PTL DEF Spec, Fifo!Spec
<1>3. Spec => [][AsPromised]_vars
  BY InitIInv, StepIInv, <1>1, PTL DEF Spec
<1> QED BY <1>2, <1>3 DEF FifoSpec
==============================================================================
