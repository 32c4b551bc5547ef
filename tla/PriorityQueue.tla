------------------------------ MODULE PriorityQueue ------------------------------
(* src/Src/priority_queue.c. Two parallel arrays hold priorities and elements   *)
(* in the order of arrival. A call that searches or shifts the arrays is modelled *)
(* one loop iteration at a time, with the locals of the C functions as state.   *)
EXTENDS Integers, SequencesExt

CONSTANTS Element,      \* what element_size bytes can hold
          Priority,     \* the uint32_t priorities callers use
          NULL,
          MaxCapacity   \* entries of the arrays the caller owns

ASSUME PriorityQueueAssumption ==
    /\ Element # {}
    /\ Priority # {} /\ Priority \subseteq Nat
    /\ NULL \notin Element \cup [priority : Priority, element : Element]
    /\ MaxCapacity \in Nat \ {0}

VARIABLES capacity, size, priority_array, buffer,   \* members of PriorityQueue_t
          pc,           \* "ready" between calls, or the loop that is running
          call,         \* item to be enqueued by the running call; NULL in a dequeue
          index, best,  \* index, and highest_priority or lowest_priority
          i,            \* the loop counter
          out, status,  \* the caller's element, and the value last returned
          before        \* what the caller could see when the running call began;
                        \* NULL between calls

queue == <<capacity, size, priority_array, buffer>>
loop  == <<call, index, best, i>>
vars  == <<queue, pc, loop, out, status, before>>

Slots == 0..(MaxCapacity - 1)
Item  == [priority : Priority, element : Element]
Cell(k) == [priority |-> priority_array[k], element |-> buffer[k]]
Contents == [k \in 1..size |-> Cell(k - 1)]

Full  == size = capacity
Empty == size = 0

(* Caller-owned arrays start with anything in them; the locals of the loops     *)
(* mean nothing while no call runs.                                             *)
Init == /\ capacity \in 1..MaxCapacity /\ size = 0
        /\ priority_array \in [Slots -> Priority]
        /\ buffer \in [Slots -> Element]
        /\ pc = "ready" /\ call = NULL /\ index = 0 /\ best = 0 /\ i = 0
        /\ out \in Element /\ status = TRUE
        /\ before = NULL

(* A finished call leaves no locals behind.                                     *)
Return(result) ==
    /\ pc' = "ready" /\ call' = NULL /\ index' = 0 /\ best' = 0 /\ i' = 0
    /\ before' = NULL
    /\ status' = result

Enter(loopName, item) ==
    /\ pc' = loopName /\ call' = item
    /\ index' = 0 /\ best' = priority_array[0] /\ i' = 0
    /\ before' = [stored |-> Contents, out |-> out, status |-> status]
    /\ UNCHANGED <<queue, out, status>>

(* PriorityQueue_init, at any time between two calls.                           *)
QueueInit(newCapacity, elementSizeZero, ptrs) ==
    /\ pc = "ready"
    /\ \/ /\ NULL \notin ptrs /\ newCapacity # 0 /\ ~elementSizeZero
          /\ capacity' = newCapacity /\ size' = 0
          /\ Return(TRUE)
          /\ UNCHANGED <<priority_array, buffer, out>>
       \/ /\ NULL \in ptrs \/ newCapacity = 0 \/ elementSizeZero
          /\ Return(FALSE)
          /\ UNCHANGED <<queue, out>>

StoreAtEnd(item) ==
    /\ buffer' = [buffer EXCEPT ![size] = item.element]
    /\ priority_array' = [priority_array EXCEPT ![size] = item.priority]
    /\ size' = size + 1
    /\ UNCHANGED capacity

(* Wrong on purpose: an item is appended to a full queue.                       *)
EnqueueUnchecked(item) ==
    pc = "ready" /\ StoreAtEnd(item) /\ Return(TRUE) /\ UNCHANGED out

(* PriorityQueue_enqueue: room is left, or GetLowestPriorityIndex starts.       *)
Enqueue(item) ==
    /\ pc = "ready"
    /\ \/ ~Full /\ StoreAtEnd(item) /\ Return(TRUE) /\ UNCHANGED out
       \/ Full /\ Enter("lowest", item)

(* The loop of GetLowestPriorityIndex.                                          *)
ScanLowest ==
    /\ pc = "lowest" /\ i < size
    /\ IF best > priority_array[i] THEN best' = priority_array[i] /\ index' = i
                                   ELSE UNCHANGED <<best, index>>
    /\ i' = i + 1
    /\ UNCHANGED <<queue, pc, call, out, status, before>>

(* Back in PriorityQueue_enqueue with the index: refuse, or start removing.     *)
Evict ==
    /\ pc = "lowest" /\ i = size
    /\ \/ /\ priority_array[index] < call.priority
          /\ pc' = "shift" /\ i' = index /\ size' = size - 1 /\ status' = TRUE
          /\ UNCHANGED <<capacity, priority_array, buffer, call, index, best, out, before>>
       \/ /\ priority_array[index] >= call.priority
          /\ Return(FALSE)
          /\ UNCHANGED <<queue, out>>

(* PriorityQueue_dequeue: nothing to give, or GetHighestPriorityIndex starts.   *)
Dequeue ==
    /\ pc = "ready"
    /\ \/ Empty /\ Return(FALSE) /\ UNCHANGED <<queue, out>>
       \/ ~Empty /\ Enter("highest", NULL)

(* Wrong on purpose: <= hands out the newest of the best entries.               *)
ScanHighestNewest ==
    /\ pc = "highest" /\ i < size
    /\ IF best <= priority_array[i] THEN best' = priority_array[i] /\ index' = i
                                    ELSE UNCHANGED <<best, index>>
    /\ i' = i + 1
    /\ UNCHANGED <<queue, pc, call, out, status, before>>

(* The loop of GetHighestPriorityIndex.                                         *)
ScanHighest ==
    /\ pc = "highest" /\ i < size
    /\ IF best < priority_array[i] THEN best' = priority_array[i] /\ index' = i
                                   ELSE UNCHANGED <<best, index>>
    /\ i' = i + 1
    /\ UNCHANGED <<queue, pc, call, out, status, before>>

(* Back in PriorityQueue_dequeue: the element is copied out, then removed.      *)
CopyOut ==
    /\ pc = "highest" /\ i = size
    /\ out' = buffer[index]
    /\ pc' = "shift" /\ i' = index /\ size' = size - 1 /\ status' = TRUE
    /\ UNCHANGED <<capacity, priority_array, buffer, call, index, best, before>>

(* Wrong on purpose: the elements move, their priorities stay.                  *)
ShiftElementsOnly ==
    /\ pc = "shift" /\ i < size
    /\ buffer' = [buffer EXCEPT ![i] = buffer[i + 1]]
    /\ i' = i + 1
    /\ UNCHANGED <<capacity, size, priority_array, pc, call, index, best, out, status, before>>

(* Wrong on purpose: the loop counter is not advanced.                          *)
ShiftForever ==
    /\ pc = "shift" /\ i < size
    /\ buffer' = [buffer EXCEPT ![i] = buffer[i + 1]]
    /\ priority_array' = [priority_array EXCEPT ![i] = priority_array[i + 1]]
    /\ UNCHANGED <<capacity, size, i, pc, call, index, best, out, status, before>>

(* One iteration of the loop that closes the gap, the same in both functions.   *)
Shift ==
    /\ pc = "shift" /\ i < size
    /\ buffer' = [buffer EXCEPT ![i] = buffer[i + 1]]
    /\ priority_array' = [priority_array EXCEPT ![i] = priority_array[i + 1]]
    /\ i' = i + 1
    /\ UNCHANGED <<capacity, size, pc, call, index, best, out, status, before>>

(* The gap is closed: an enqueue still has its item to store.                   *)
Finish ==
    /\ pc = "shift" /\ i = size
    /\ IF call = NULL THEN UNCHANGED queue ELSE StoreAtEnd(call)
    /\ Return(TRUE)
    /\ UNCHANGED out

Step == ScanLowest \/ Evict \/ ScanHighest \/ CopyOut \/ Shift \/ Finish

Next == \/ \E c \in 0..MaxCapacity, zero \in BOOLEAN, b \in {"items", NULL} :
              QueueInit(c, zero, {"queue", b})
        \/ \E item \in Item : Enqueue(item)
        \/ Dequeue
        \/ Step

(* A call that has begun keeps running: it is straight-line C code.             *)
Spec == Init /\ [][Next]_vars /\ WF_vars(Step)

------------------------------------------------------------------------------
(* TypeOK: the counters and the arrays of a call in progress stay in bounds; in *)
(* the shift loop index i + 1 is still inside the arrays the caller owns.       *)
TypeOK == /\ capacity \in 1..MaxCapacity
          /\ size \in 0..capacity
          /\ priority_array \in [Slots -> Priority]
          /\ buffer \in [Slots -> Element]
          /\ pc \in {"ready", "lowest", "highest", "shift"}
          /\ call \in Item \cup {NULL}
          /\ index \in 0..(capacity - 1)
          /\ best \in Priority \cup {0}
          /\ i \in 0..capacity
          /\ out \in Element /\ status \in BOOLEAN
          /\ IF pc = "ready" THEN before = NULL
             ELSE before \in [stored : Seq(Item), out : Element, status : BOOLEAN]

(* ScanInv: while a search loop runs, the queue is as it was when the call       *)
(* began, and index is the oldest best (or worst) entry among those seen.       *)
ScanInv ==
    /\ pc \in {"lowest", "highest"} =>
          /\ size > 0 /\ i <= size /\ index <= i /\ index < size
          /\ best = priority_array[index]
          /\ before = [stored |-> Contents, out |-> out, status |-> status]
    /\ pc = "lowest" =>
          /\ size = capacity /\ call # NULL
          /\ \A j \in 0..(i - 1) : priority_array[j] >= best /\ (j < index => priority_array[j] > best)
    /\ pc = "highest" =>
          /\ call = NULL
          /\ \A j \in 0..(i - 1) : priority_array[j] <= best /\ (j < index => priority_array[j] < best)

(* ShiftInv: while the gap is being closed, no entry is lost or duplicated and  *)
(* every priority stays with its element: the slots below i already hold what   *)
(* the finished call will leave there, the others what was there before.        *)
ShiftInv ==
    pc = "shift" =>
      /\ Len(before.stored) = size + 1
      /\ size < capacity /\ index <= i /\ i <= size
      /\ call # NULL => size + 1 = capacity /\ before.out = out
      /\ status = TRUE
      /\ \A j \in 0..size :
            Cell(j) = IF j < index \/ i <= j THEN before.stored[j + 1] ELSE before.stored[j + 2]

(* CallInv: every call that runs, at every iteration of its loops.                *)
CallInv == ScanInv /\ ShiftInv

(* Between calls the caller sees the arrays; during a call it can see nothing.  *)
Visible == IF pc = "ready" THEN [stored |-> Contents, out |-> out, status |-> status] ELSE before

(* StoreSpec: each call of priority_queue.c, loops and all, has exactly the      *)
(* effect of one step of PriorityStore, the one its caller asked for: an        *)
(* enqueue stores its own item, if need be in the place of the oldest worst     *)
(* entry, and is refused only by a full queue without a worse one; a dequeue     *)
(* hands out the oldest of the best entries, refused only by an empty queue; a  *)
(* refused call leaves no trace.                                                 *)
Abstract == INSTANCE PriorityStore
    WITH stored <- Visible.stored, limit <- capacity, out <- Visible.out, status <- Visible.status
AsPromised ==
    /\ pc = "ready" /\ pc' = "ready" =>
          /\ \A item \in Item : Enqueue(item) => Abstract!Insert(item)
          /\ Dequeue => Abstract!RefuseEmpty
    /\ pc # "ready" /\ pc' = "ready" =>
          IF call = NULL THEN Abstract!TakeBest
                         ELSE Abstract!Replace(call) \/ Abstract!RefuseNotBetter(call)
StoreSpec == Abstract!Spec /\ [][AsPromised]_vars

(* CallsReturn: every call that starts a loop returns to its caller.            *)
CallsReturn == pc # "ready" ~> pc = "ready"
=============================================================================
