--------------------------------- MODULE Queue ---------------------------------
(* The ring-buffer queue of src/Src/queue.c. The caller owns the buffer and     *)
(* may call Queue_init again at any time, with another capacity, on the same    *)
(* memory: stale elements stay behind in the slots and must never be returned.  *)
EXTENDS Integers, Sequences

CONSTANTS Element,      \* element values: what element_size bytes can hold
          NULL,         \* the null pointer
          MaxCapacity   \* slots in the buffer the caller owns

ASSUME QueueAssumption == /\ Element # {}
                          /\ NULL \notin Element \cup {"queue", "element", "buffer"}
                          /\ MaxCapacity \in Nat \ {0}

VARIABLES capacity, front, rear, size,  \* members of Queue_t
          buffer,                       \* the slots of queue->buffer
          out,                          \* what the caller's element points to
          status                        \* value returned by the last call

vars == <<capacity, front, rear, size, buffer, out, status>>

Slots == 0..(MaxCapacity - 1)

\* The index i brought back into a ring of n slots.
Wrap(i, n) == i % n

\* Queue_full and Queue_empty: pure, and called without a NULL check.
Full  == size = capacity
Empty == size = 0

(* The memory a caller hands over holds anything. *)
Init == /\ capacity \in 1..MaxCapacity
        /\ front = 0 /\ size = 0 /\ rear = capacity - 1
        /\ buffer \in [Slots -> Element]
        /\ out \in Element
        /\ status = TRUE

(* An early return: status stays false and nothing is written. *)
Fail == status' = FALSE /\ UNCHANGED <<capacity, front, rear, size, buffer, out>>

(* Wrong on purpose: the rear index is not reset with the other members.       *)
InitKeepsRear(newCapacity, elementSizeZero, bufferPtr) ==
    /\ newCapacity # 0 /\ ~elementSizeZero /\ bufferPtr # NULL
    /\ capacity' = newCapacity
    /\ front' = 0 /\ size' = 0 /\ rear' = Wrap(rear, newCapacity)
    /\ status' = TRUE
    /\ UNCHANGED <<buffer, out>>

(* Queue_init on a queue in use; element_size = 0 and a NULL buffer are the    *)
(* other arguments it refuses.                                                 *)
QueueInit(newCapacity, elementSizeZero, bufferPtr) ==
    \/ /\ newCapacity # 0 /\ ~elementSizeZero /\ bufferPtr # NULL
       /\ capacity' = newCapacity
       /\ front' = 0 /\ size' = 0 /\ rear' = newCapacity - 1
       /\ status' = TRUE
       /\ UNCHANGED <<buffer, out>>
    \/ /\ newCapacity = 0 \/ elementSizeZero \/ bufferPtr = NULL
       /\ Fail

(* Wrong on purpose: the test for a full queue comes one element too late.     *)
EnqueueWhenFull(queuePtr, element) ==
    /\ queuePtr # NULL /\ element # NULL /\ size <= capacity
    /\ buffer' = [buffer EXCEPT ![Wrap(rear + 1, capacity)] = element]
    /\ rear' = Wrap(rear + 1, capacity)
    /\ size' = size + 1
    /\ status' = TRUE
    /\ UNCHANGED <<capacity, front, out>>

(* Queue_enqueue: element may be NULL, and so may the queue pointer.           *)
Enqueue(queuePtr, element) ==
    \/ /\ queuePtr # NULL /\ element # NULL /\ ~Full
       /\ buffer' = [buffer EXCEPT ![Wrap(rear + 1, capacity)] = element]
       /\ rear' = Wrap(rear + 1, capacity)
       /\ size' = size + 1
       /\ status' = TRUE
       /\ UNCHANGED <<capacity, front, out>>
    \/ /\ queuePtr = NULL \/ element = NULL \/ Full
       /\ Fail

(* Wrong on purpose: the front index is not wrapped at the end of the buffer.  *)
DequeueUnwrapped(ptrs) ==
    /\ NULL \notin ptrs /\ ~Empty
    /\ out' = buffer[front]
    /\ front' = front + 1
    /\ size' = size - 1
    /\ status' = TRUE
    /\ UNCHANGED <<capacity, rear, buffer>>

(* Wrong on purpose: a queue with one element left is taken for an empty one   *)
(* and its element is dropped without being copied out.                        *)
DequeueWithoutCopy(ptrs) ==
    /\ NULL \notin ptrs /\ ~Empty
    /\ out' = IF size = 1 THEN out ELSE buffer[front]
    /\ front' = Wrap(front + 1, capacity)
    /\ size' = size - 1
    /\ status' = TRUE
    /\ UNCHANGED <<capacity, rear, buffer>>

(* Queue_dequeue: ptrs are the two pointer arguments.                          *)
Dequeue(ptrs) ==
    \/ /\ NULL \notin ptrs /\ ~Empty
       /\ out' = buffer[front]
       /\ front' = Wrap(front + 1, capacity)
       /\ size' = size - 1
       /\ status' = TRUE
       /\ UNCHANGED <<capacity, rear, buffer>>
    \/ /\ NULL \in ptrs \/ Empty
       /\ Fail

Peek(ptrs, index) ==
    \/ /\ NULL \notin ptrs /\ ~Empty
       /\ out' = buffer[index]
       /\ status' = TRUE
       /\ UNCHANGED <<capacity, front, rear, size, buffer>>
    \/ /\ NULL \in ptrs \/ Empty
       /\ Fail

Front(ptrs) == Peek(ptrs, front)
Rear(ptrs)  == Peek(ptrs, rear)

Next == \/ \E c \in 0..MaxCapacity, zero \in BOOLEAN, b \in {"buffer", NULL} : QueueInit(c, zero, b)
        \/ \E q \in {"queue", NULL}, e \in Element \cup {NULL} : Enqueue(q, e)
        \/ \E q \in {"queue", NULL}, d \in {"element", NULL} :
              Dequeue({q, d}) \/ Front({q, d}) \/ Rear({q, d})

Spec == Init /\ [][Next]_vars

------------------------------------------------------------------------------
(* TypeOK: every index stays inside the capacity given to Queue_init, so every *)
(* memcpy of the five operations stays inside the caller's buffer.             *)
TypeOK == /\ capacity \in 1..MaxCapacity
          /\ front \in 0..(capacity - 1)
          /\ rear \in 0..(capacity - 1)
          /\ size \in 0..capacity
          /\ buffer \in [Slots -> Element]
          /\ out \in Element
          /\ status \in BOOLEAN

(* RingShape: the three redundant members front, rear and size always agree:   *)
(* the slot after rear is the one size steps after front. Queue_rear and       *)
(* Queue_enqueue use rear, Queue_dequeue and Queue_front use front, and only   *)
(* size says whether the queue is empty or full.                               *)
RingShape == Wrap(rear + 1, capacity) = Wrap(front + size, capacity)

(* The slot of the k-th oldest element, k counted from 1.                      *)
SlotOf(k) == Wrap(front + k - 1, capacity)

Contents == [k \in 1..size |-> buffer[SlotOf(k)]]

(* LiveSlotsKept: a call never writes over an element that is stored before    *)
(* and after it, whatever slot it sits in; only Queue_init may drop elements.  *)
KeepsLiveSlots ==
    \A k \in 1..size :
        buffer'[SlotOf(k)] # buffer[SlotOf(k)] => \A j \in 1..size' : SlotOf(j)' # SlotOf(k)
LiveSlotsKept == [][KeepsLiveSlots]_vars

(* FifoSpec: the queue of queue.c, through Contents, is a bounded first-in     *)
(* first-out sequence across every wrap-around of the indices and every         *)
(* reinitialisation over stale memory, and each call takes the step its caller  *)
(* asked for: an enqueue stores its own argument and may be refused only by a   *)
(* full queue, dequeue and front return the oldest and rear the newest element, *)
(* refused only by an empty queue, and no call passes for another, as a dequeue *)
(* that emptied the queue without copying the element out would for a reset.    *)
(* (queue.h says that elements are removed "from the end of the queue", where   *)
(* they are inserted too. Taken as it stands that is another order; the tests    *)
(* and the code agree on this one.)                                             *)
Fifo == INSTANCE BoundedFifo WITH items <- Contents, limit <- capacity
Pointers == {"queue", "element"}
AsPromised ==
    /\ \A c \in 1..MaxCapacity : QueueInit(c, FALSE, "buffer") => Fifo!Reset(c)
    /\ \A e \in Element : Enqueue("queue", e) => Fifo!Put(e) \/ Fifo!RefuseFull
    /\ Dequeue(Pointers) => Fifo!Take \/ Fifo!RefuseEmpty
    /\ Front(Pointers) => Fifo!PeekOldest \/ Fifo!RefuseEmpty
    /\ Rear(Pointers) => Fifo!PeekNewest \/ Fifo!RefuseEmpty
FifoSpec == Fifo!Spec /\ [][AsPromised]_vars
==============================================================================
