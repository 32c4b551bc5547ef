--------------------------- MODULE PriorityQueueProofs ---------------------------
(* Proofs about PriorityQueue for every capacity, and any elements and priorities. *)
(*                                                                                 *)
(* The inductive invariant is TypeOK /\ CallInv: a search knows the oldest best or *)
(* worst entry of those it has seen, and a shift how much of the gap is closed.    *)
(* For the refinement the shift must also remember why its entry was chosen        *)
(* (ShiftAim); then every loop step is invisible to the caller, and the one that    *)
(* returns is the step PriorityStore promises.                                     *)
EXTENDS PriorityQueue, SequenceTheorems, TLAPS

(* The entry that is being removed is the one the finished call has to remove.     *)
ShiftAim ==
    pc = "shift" =>
        IF call = NULL
        THEN Abstract!IsOldestBest(before.stored, index + 1)
             /\ out = before.stored[index + 1].element
        ELSE Abstract!IsOldestWorst(before.stored, index + 1)
             /\ before.stored[index + 1].priority < call.priority

IInv == TypeOK /\ CallInv /\ ShiftAim

(* The entries that two arrays hold in their first s slots.                        *)
Entries(priorities, elements, s) ==
    [k \in 1..s |-> [priority |-> priorities[k - 1], element |-> elements[k - 1]]]

LEMMA EntriesType ==
    ASSUME NEW priorities \in [Slots -> Priority], NEW elements \in [Slots -> Element],
           NEW s \in 0..MaxCapacity
    PROVE  LET c == Entries(priorities, elements, s)
           IN  /\ c \in Seq(Item) /\ Len(c) = s
               /\ \A k \in 1..s : /\ c[k] = [priority |-> priorities[k - 1], element |-> elements[k - 1]]
                                  /\ c[k] \in Item
                                  /\ c[k].priority = priorities[k - 1] /\ c[k].priority \in Nat
                                  /\ c[k].element = elements[k - 1]
  <1> DEFINE c == Entries(priorities, elements, s)
  <1>1. s \in Nat /\ \A k \in 1..s : k - 1 \in Slots
    BY PriorityQueueAssumption DEF Slots
  <1>2. \A k \in 1..s : priorities[k - 1] \in Priority /\ elements[k - 1] \in Element
    BY <1>1
  <1>3. \A k \in 1..s : /\ c[k] = [priority |-> priorities[k - 1], element |-> elements[k - 1]]
                        /\ c[k] \in Item
    BY <1>2 DEF Entries, Item
  <1>4. c \in [1..s -> Item]
    BY <1>2 DEF Entries, Item
  <1>5. c \in Seq(Item) /\ Len(c) = s
    <2> HIDE DEF c
    <2> QED
      BY <1>1, <1>4
  <1>6. \A k \in 1..s : priorities[k - 1] \in Nat
    BY <1>2, PriorityQueueAssumption
  <1>7. ASSUME NEW k \in 1..s
        PROVE  c[k].priority = priorities[k - 1] /\ c[k].element = elements[k - 1]
    <2>1. c[k] = [priority |-> priorities[k - 1], element |-> elements[k - 1]]
      BY <1>3
    <2> HIDE DEF c
    <2> QED
      BY <2>1
  <1> QED
    BY <1>3, <1>5, <1>6, <1>7

LEMMA EntriesOfArrays ==
    \A priorities \in [Slots -> Priority], elements \in [Slots -> Element], s \in 0..MaxCapacity :
        /\ Entries(priorities, elements, s) \in Seq(Item)
        /\ Len(Entries(priorities, elements, s)) = s
        /\ \A k \in 1..s : Entries(priorities, elements, s)[k]
                            = [priority |-> priorities[k - 1], element |-> elements[k - 1]]
  BY EntriesType

(* What is stored, before and after a step.                                        *)
LEMMA ContentsAreEntries ==
    /\ Contents = Entries(priority_array, buffer, size)
    /\ Contents' = Entries(priority_array', buffer', size')
  BY DEF Contents, Entries, Cell

LEMMA ContentsType ==
    ASSUME TypeOK
    PROVE  /\ Contents \in Seq(Item) /\ Len(Contents) = size
           /\ \A k \in 1..size : /\ Contents[k] = Cell(k - 1) /\ Contents[k] \in Item
                                 /\ Contents[k].priority = priority_array[k - 1]
                                 /\ Contents[k].priority \in Nat
                                 /\ Contents[k].element = buffer[k - 1]
  <1>1. size \in 0..MaxCapacity /\ priority_array \in [Slots -> Priority] /\ buffer \in [Slots -> Element]
    BY PriorityQueueAssumption DEF TypeOK
  <1> QED
    BY <1>1, ContentsAreEntries, EntriesType DEF Cell

-------------------------------------------------------------------------------
LEMMA InitIInv == Init => IInv
  <1> SUFFICES ASSUME Init PROVE IInv
    OBVIOUS
  <1>1. TypeOK
    BY PriorityQueueAssumption DEF Init, TypeOK
  <1>2. CallInv /\ ShiftAim
    BY DEF Init, CallInv, ScanInv, ShiftInv, ShiftAim
  <1> QED
    BY <1>1, <1>2 DEF IInv

(* A call that has returned has nothing left to keep.                              *)
LEMMA ReturnKeeps ==
    ASSUME NEW result \in BOOLEAN, Return(result), capacity' \in 1..MaxCapacity, size' \in 0..capacity',
           priority_array' \in [Slots -> Priority], buffer' \in [Slots -> Element], out' \in Element
    PROVE  IInv'
  <1>1. TypeOK'
    BY PriorityQueueAssumption DEF Return, TypeOK
  <1>2. (CallInv /\ ShiftAim)'
    BY DEF Return, CallInv, ScanInv, ShiftInv, ShiftAim
  <1> QED
    BY <1>1, <1>2 DEF IInv

(* Appending writes the slot behind the last one.                                  *)
LEMMA StoreAtEndKeeps ==
    ASSUME TypeOK, size < capacity, NEW item \in Item, StoreAtEnd(item)
    PROVE  /\ size \in Slots
           /\ priority_array' = [priority_array EXCEPT ![size] = item.priority]
           /\ buffer' = [buffer EXCEPT ![size] = item.element]
           /\ priority_array' \in [Slots -> Priority] /\ buffer' \in [Slots -> Element]
           /\ size' = size + 1 /\ size' \in 0..capacity /\ capacity' = capacity
  <1>1. size \in Slots
    BY PriorityQueueAssumption DEF TypeOK, Slots
  <1>2. item.priority \in Priority /\ item.element \in Element
    BY DEF Item
  <1>3. size + 1 \in 0..capacity
    BY PriorityQueueAssumption DEF TypeOK
  <1> QED
    BY <1>1, <1>2, <1>3 DEF TypeOK, StoreAtEnd

(* A search begins at the first entry of a queue that has one.                      *)
LEMMA EnterKeeps ==
    ASSUME TypeOK, pc = "ready", size > 0,
           NEW loopName, NEW item, Enter(loopName, item),
           \/ loopName = "lowest" /\ item \in Item /\ size = capacity
           \/ loopName = "highest" /\ item = NULL
    PROVE  IInv'
  <1>1. Contents \in Seq(Item) /\ 0 \in Slots
    BY ContentsType, PriorityQueueAssumption DEF Slots
  <1>2. item = NULL <=> loopName = "highest"
    BY PriorityQueueAssumption DEF Item
  <1>3. TypeOK'
    BY <1>1, PriorityQueueAssumption DEF TypeOK, Enter, queue
  <1>4. /\ size \in Nat /\ size' = size /\ index' = 0 /\ i' = 0 /\ call' = item /\ pc' = loopName
        /\ capacity' = capacity /\ priority_array' = priority_array /\ best' = priority_array[0]
        /\ before' = [stored |-> Contents, out |-> out, status |-> status]
        /\ Contents' = Contents /\ out' = out /\ status' = status
    BY PriorityQueueAssumption DEF TypeOK, Enter, queue, Contents, Cell
  <1>5. ScanInv'
    BY <1>2, <1>4 DEF ScanInv
  <1>6. ShiftInv' /\ ShiftAim'
    BY <1>4 DEF ShiftInv, ShiftAim
  <1> QED
    BY <1>3, <1>5, <1>6 DEF IInv, CallInv

LEMMA ScanLowestKeeps ==
    ASSUME IInv, ScanLowest
    PROVE  IInv'
  <1>1. /\ pc = "lowest" /\ i < size /\ i \in Nat /\ size \in Nat /\ index \in Nat
        /\ capacity \in Nat /\ size <= capacity /\ i \in Slots
        /\ capacity <= MaxCapacity /\ MaxCapacity \in Nat
        /\ priority_array[i] \in Priority
    BY PriorityQueueAssumption DEF IInv, TypeOK, ScanLowest, Slots
  <1>2. \A k \in Slots : priority_array[k] \in Nat
    BY PriorityQueueAssumption DEF IInv, TypeOK
  <1>3. TypeOK'
    BY <1>1 DEF IInv, TypeOK, ScanLowest, queue
  <1>4. /\ \A k \in 0..(i - 1) : priority_array[k] >= best /\ (k < index => priority_array[k] > best)
        /\ index < size /\ index <= i /\ best = priority_array[index] /\ index \in Slots
    BY <1>1, PriorityQueueAssumption DEF IInv, TypeOK, CallInv, ScanInv, Slots
  <1>5. \A k \in 0..i : priority_array[k] >= best' /\ (k < index' => priority_array[k] > best')
    <2> SUFFICES ASSUME NEW k \in 0..i
                 PROVE  priority_array[k] >= best' /\ (k < index' => priority_array[k] > best')
      OBVIOUS
    <2>1. k \in 0..(i - 1) \/ k = i
      BY <1>1
    <2>2. k \in Slots
      BY <1>1 DEF Slots
    <2>3. priority_array[k] \in Nat /\ priority_array[i] \in Nat /\ best \in Nat
      BY <1>1, <1>2, <1>4, <2>2
    <2>4. CASE best > priority_array[i]
      BY <1>1, <1>4, <2>1, <2>3, <2>4 DEF ScanLowest
    <2>5. CASE ~(best > priority_array[i])
      BY <1>1, <1>4, <2>1, <2>3, <2>5 DEF ScanLowest
    <2> QED
      BY <2>4, <2>5
  <1>6. 0..i = 0..(i' - 1) /\ index' <= i' /\ index' < size /\ best' = priority_array[index'] /\ i' <= size
    BY <1>1, <1>4 DEF ScanLowest
  <1>7. CallInv'
    BY <1>1, <1>5, <1>6 DEF IInv, CallInv, ScanInv, ShiftInv, ScanLowest, queue, Contents, Cell
  <1>8. ShiftAim'
    BY <1>1 DEF ShiftAim, ScanLowest
  <1> QED
    BY <1>3, <1>7, <1>8 DEF IInv

LEMMA ScanHighestKeeps ==
    ASSUME IInv, ScanHighest
    PROVE  IInv'
  <1>1. /\ pc = "highest" /\ i < size /\ i \in Nat /\ size \in Nat /\ index \in Nat
        /\ capacity \in Nat /\ size <= capacity /\ i \in Slots
        /\ capacity <= MaxCapacity /\ MaxCapacity \in Nat
        /\ priority_array[i] \in Priority
    BY PriorityQueueAssumption DEF IInv, TypeOK, ScanHighest, Slots
  <1>2. \A k \in Slots : priority_array[k] \in Nat
    BY PriorityQueueAssumption DEF IInv, TypeOK
  <1>3. TypeOK'
    BY <1>1 DEF IInv, TypeOK, ScanHighest, queue
  <1>4. /\ \A k \in 0..(i - 1) : priority_array[k] <= best /\ (k < index => priority_array[k] < best)
        /\ index < size /\ index <= i /\ best = priority_array[index] /\ index \in Slots
    BY <1>1, PriorityQueueAssumption DEF IInv, TypeOK, CallInv, ScanInv, Slots
  <1>5. \A k \in 0..i : priority_array[k] <= best' /\ (k < index' => priority_array[k] < best')
    <2> SUFFICES ASSUME NEW k \in 0..i
                 PROVE  priority_array[k] <= best' /\ (k < index' => priority_array[k] < best')
      OBVIOUS
    <2>1. k \in 0..(i - 1) \/ k = i
      BY <1>1
    <2>2. k \in Slots
      BY <1>1 DEF Slots
    <2>3. priority_array[k] \in Nat /\ priority_array[i] \in Nat /\ best \in Nat
      BY <1>1, <1>2, <1>4, <2>2
    <2>4. CASE best < priority_array[i]
      BY <1>1, <1>4, <2>1, <2>3, <2>4 DEF ScanHighest
    <2>5. CASE ~(best < priority_array[i])
      BY <1>1, <1>4, <2>1, <2>3, <2>5 DEF ScanHighest
    <2> QED
      BY <2>4, <2>5
  <1>6. 0..i = 0..(i' - 1) /\ index' <= i' /\ index' < size /\ best' = priority_array[index'] /\ i' <= size
    BY <1>1, <1>4 DEF ScanHighest
  <1>7. CallInv'
    BY <1>1, <1>5, <1>6 DEF IInv, CallInv, ScanInv, ShiftInv, ScanHighest, queue, Contents, Cell
  <1>8. ShiftAim'
    BY <1>1 DEF ShiftAim, ScanHighest
  <1> QED
    BY <1>3, <1>7, <1>8 DEF IInv

(* The search has ended: its entry is the oldest best or worst of all, and the      *)
(* arrays are still as they were.                                                  *)
LEMMA Found ==
    ASSUME IInv, pc \in {"lowest", "highest"}, i = size
    PROVE  /\ before = [stored |-> Contents, out |-> out, status |-> status]
           /\ size > 0 /\ index \in 0..(size - 1) /\ size \in Nat
           /\ Contents[index + 1].priority = priority_array[index]
           /\ Contents[index + 1].priority \in Nat
           /\ Contents[index + 1].element = buffer[index]
           /\ pc = "lowest" => Abstract!IsOldestWorst(Contents, index + 1)
           /\ pc = "highest" => Abstract!IsOldestBest(Contents, index + 1)
  <1>1. /\ before = [stored |-> Contents, out |-> out, status |-> status]
        /\ size > 0 /\ index \in 0..(size - 1) /\ size \in Nat
        /\ best = priority_array[index]
    BY PriorityQueueAssumption DEF IInv, TypeOK, CallInv, ScanInv
  <1>2. index + 1 \in 1..size /\ (index + 1) - 1 = index
    BY <1>1
  <1>3. /\ Len(Contents) = size
        /\ \A k \in 1..size : /\ Contents[k].priority = priority_array[k - 1]
                              /\ Contents[k].priority \in Nat
                              /\ Contents[k].element = buffer[k - 1]
    BY ContentsType DEF IInv
  <1>4. /\ Contents[index + 1].priority = priority_array[index]
        /\ Contents[index + 1].priority \in Nat
        /\ Contents[index + 1].element = buffer[index]
    BY <1>2, <1>3
  <1>5. \A k \in 1..size : k - 1 \in 0..(i - 1) /\ (k \in 1..((index + 1) - 1) => k - 1 < index)
    BY <1>1
  <1>6. ASSUME pc = "lowest" PROVE Abstract!IsOldestWorst(Contents, index + 1)
    <2>1. \A k \in 0..(i - 1) : priority_array[k] >= best /\ (k < index => priority_array[k] > best)
      BY <1>6 DEF IInv, CallInv, ScanInv
    <2>2. 1..((index + 1) - 1) \subseteq 1..size
      BY <1>1
    <2> QED
      BY <1>1, <1>3, <1>4, <1>5, <2>1, <2>2 DEF Abstract!IsOldestWorst
  <1>7. ASSUME pc = "highest" PROVE Abstract!IsOldestBest(Contents, index + 1)
    <2>1. \A k \in 0..(i - 1) : priority_array[k] <= best /\ (k < index => priority_array[k] < best)
      BY <1>7 DEF IInv, CallInv, ScanInv
    <2>2. 1..((index + 1) - 1) \subseteq 1..size
      BY <1>1
    <2> QED
      BY <1>1, <1>3, <1>4, <1>5, <2>1, <2>2 DEF Abstract!IsOldestBest
  <1> QED
    BY <1>1, <1>4, <1>6, <1>7

(* From the search to the shift, in either function.                               *)
LEMMA ShiftBegins ==
    ASSUME IInv, pc \in {"lowest", "highest"}, i = size,
           pc' = "shift", i' = index, size' = size - 1, status' = TRUE, out' \in Element,
           UNCHANGED <<capacity, priority_array, buffer, call, index, best, before>>,
           IF pc = "highest" THEN out' = buffer[index]
           ELSE out' = out /\ priority_array[index] < call.priority
    PROVE  IInv'
  <1>1. /\ before = [stored |-> Contents, out |-> out, status |-> status]
        /\ size > 0 /\ index \in 0..(size - 1) /\ size \in Nat
        /\ capacity \in Nat /\ size <= capacity
    BY Found, PriorityQueueAssumption DEF IInv, TypeOK
  <1>2. TypeOK'
    BY <1>1 DEF IInv, TypeOK
  <1>3. Len(Contents) = size /\ \A k \in 1..size : Contents[k] = Cell(k - 1)
    BY ContentsType DEF IInv
  <1>4. pc = "highest" <=> call = NULL
    BY DEF IInv, CallInv, ScanInv
  <1>5. pc = "lowest" => size = capacity
    BY DEF IInv, CallInv, ScanInv
  <1>6. before'.stored = Contents /\ before'.out = out
    BY <1>1
  <1>7. \A k \in 0..size' : Cell(k)' = before'.stored[k + 1]
    <2> SUFFICES ASSUME NEW k \in 0..size' PROVE Cell(k)' = Contents[k + 1]
      BY <1>6
    <2>1. k + 1 \in 1..size /\ (k + 1) - 1 = k
      BY <1>1
    <2> QED
      BY <1>3, <2>1 DEF Cell
  <1>8. ShiftInv'
    <2>1. \A k \in 0..size' : k < index' \/ i' <= k
      BY <1>1
    <2>2. Len(before'.stored) = size' + 1 /\ size' < capacity' /\ index' <= i' /\ i' <= size'
      BY <1>1, <1>3, <1>6
    <2>3. call' # NULL => size' + 1 = capacity' /\ before'.out = out'
      BY <1>1, <1>4, <1>5, <1>6
    <2> QED
      BY <1>7, <2>1, <2>2, <2>3 DEF ShiftInv
  <1>9. CallInv'
    BY <1>8 DEF CallInv, ScanInv
  <1>10. ShiftAim'
    BY <1>4, <1>6, Found DEF ShiftAim, Abstract!IsOldestBest, Abstract!IsOldestWorst
  <1> QED
    BY <1>2, <1>9, <1>10 DEF IInv

LEMMA ShiftKeeps ==
    ASSUME IInv, Shift
    PROVE  IInv'
  <1>1. /\ pc = "shift" /\ i < size /\ i \in Nat /\ size \in Nat /\ index \in Nat
        /\ size < capacity /\ capacity <= MaxCapacity /\ MaxCapacity \in Nat /\ capacity \in Nat
        /\ index <= i
    BY PriorityQueueAssumption DEF IInv, TypeOK, CallInv, ShiftInv, Shift
  <1>2. i \in Slots /\ i + 1 \in Slots /\ \A k \in 0..size : k \in Slots
    BY <1>1 DEF Slots
  <1>3. priority_array[i + 1] \in Priority /\ buffer[i + 1] \in Element
    BY <1>2 DEF IInv, TypeOK
  <1>4. TypeOK'
    <2>1. priority_array' \in [Slots -> Priority] /\ buffer' \in [Slots -> Element]
      BY <1>2, <1>3 DEF IInv, TypeOK, Shift
    <2>2. i' \in 0..capacity
      BY <1>1 DEF Shift
    <2> QED
      BY <2>1, <2>2 DEF IInv, TypeOK, Shift
  <1>5. \A k \in 0..size : Cell(k)' = IF k = i THEN Cell(i + 1) ELSE Cell(k)
    BY <1>2 DEF IInv, TypeOK, Shift, Cell
  <1>6. \A k \in 0..size :
            Cell(k) = IF k < index \/ i <= k THEN before.stored[k + 1] ELSE before.stored[k + 2]
    BY <1>1 DEF IInv, CallInv, ShiftInv
  <1>7. \A k \in 0..size :
            Cell(k)' = IF k < index \/ i + 1 <= k THEN before.stored[k + 1] ELSE before.stored[k + 2]
    <2> SUFFICES ASSUME NEW k \in 0..size
                 PROVE  Cell(k)' = IF k < index \/ i + 1 <= k THEN before.stored[k + 1]
                                                              ELSE before.stored[k + 2]
      OBVIOUS
    <2>1. CASE k = i
      <3>1. i + 1 \in 0..size /\ (i + 1) + 1 = k + 2
        BY <1>1, <2>1
      <3>2. Cell(i + 1) = before.stored[k + 2]
        BY <1>1, <1>6, <3>1
      <3> QED
        BY <1>1, <1>5, <2>1, <3>2
    <2>2. CASE k # i
      <3>1. Cell(k)' = Cell(k) /\ (i <= k <=> i + 1 <= k)
        BY <1>1, <1>5, <2>2
      <3> QED
        BY <1>6, <3>1
    <2> QED
      BY <2>1, <2>2
  <1>8. CallInv'
    BY <1>1, <1>7 DEF IInv, CallInv, ScanInv, ShiftInv, Shift
  <1>9. ShiftAim'
    BY DEF IInv, ShiftAim, Shift, Abstract!IsOldestBest, Abstract!IsOldestWorst
  <1> QED
    BY <1>4, <1>8, <1>9 DEF IInv

LEMMA FinishKeeps ==
    ASSUME IInv, Finish
    PROVE  IInv'
  <1>1. pc = "shift" /\ size < capacity /\ (call # NULL => call \in Item)
    BY DEF IInv, TypeOK, CallInv, ShiftInv, Finish
  <1>2. CASE call = NULL
    BY <1>2, ReturnKeeps DEF IInv, TypeOK, Finish, queue
  <1>3. CASE call # NULL
    <2>1. StoreAtEnd(call)
      BY <1>3 DEF Finish
    <2>2. /\ priority_array' \in [Slots -> Priority] /\ buffer' \in [Slots -> Element]
          /\ size' \in 0..capacity /\ capacity' = capacity
      BY <1>1, <1>3, <2>1, StoreAtEndKeeps DEF IInv
    <2> QED
      BY <2>2, ReturnKeeps DEF IInv, TypeOK, Finish
  <1> QED
    BY <1>2, <1>3

(* The calls between which nothing runs.                                           *)
LEMMA InitCallKeeps ==
    ASSUME IInv, NEW c \in 0..MaxCapacity, NEW zero \in BOOLEAN, NEW ptrs, QueueInit(c, zero, ptrs)
    PROVE  IInv'
  <1>1. CASE /\ c # 0 /\ capacity' = c /\ size' = 0 /\ Return(TRUE)
             /\ UNCHANGED <<priority_array, buffer, out>>
    <2>1. c \in 1..MaxCapacity /\ size' \in 0..capacity'
      BY <1>1, PriorityQueueAssumption
    <2> QED
      BY <1>1, <2>1, ReturnKeeps DEF IInv, TypeOK
  <1>2. CASE Return(FALSE) /\ UNCHANGED <<queue, out>>
    BY <1>2, ReturnKeeps DEF IInv, TypeOK, queue
  <1> QED
    BY <1>1, <1>2 DEF QueueInit

LEMMA EnqueueKeeps ==
    ASSUME IInv, NEW item \in Item, Enqueue(item)
    PROVE  IInv'
  <1>1. CASE ~Full /\ StoreAtEnd(item) /\ Return(TRUE) /\ UNCHANGED out
    <2>1. size < capacity
      BY <1>1, PriorityQueueAssumption DEF IInv, TypeOK, Full
    <2>2. /\ priority_array' \in [Slots -> Priority] /\ buffer' \in [Slots -> Element]
          /\ size' \in 0..capacity /\ capacity' = capacity
      BY <1>1, <2>1, StoreAtEndKeeps DEF IInv
    <2> QED
      BY <1>1, <2>2, ReturnKeeps DEF IInv, TypeOK
  <1>2. CASE Full /\ Enter("lowest", item)
    <2>1. size > 0 /\ size = capacity /\ pc = "ready"
      BY <1>2, PriorityQueueAssumption DEF IInv, TypeOK, Full, Enqueue
    <2> QED
      BY <1>2, <2>1, EnterKeeps DEF IInv
  <1> QED
    BY <1>1, <1>2 DEF Enqueue

LEMMA DequeueKeeps ==
    ASSUME IInv, Dequeue
    PROVE  IInv'
  <1>1. CASE Return(FALSE) /\ UNCHANGED <<queue, out>>
    BY <1>1, ReturnKeeps DEF IInv, TypeOK, queue
  <1>2. CASE ~Empty /\ Enter("highest", NULL)
    <2>1. size > 0 /\ pc = "ready"
      BY <1>2, PriorityQueueAssumption DEF IInv, TypeOK, Empty, Dequeue
    <2> QED
      BY <1>2, <2>1, EnterKeeps DEF IInv
  <1> QED
    BY <1>1, <1>2 DEF Dequeue

LEMMA EvictKeeps ==
    ASSUME IInv, Evict
    PROVE  IInv'
  <1>1. CASE priority_array[index] < call.priority /\ pc' = "shift"
    BY <1>1, ShiftBegins DEF Evict, IInv, TypeOK, Return
  <1>2. CASE Return(FALSE) /\ UNCHANGED <<queue, out>>
    BY <1>2, ReturnKeeps DEF IInv, TypeOK, queue
  <1> QED
    BY <1>1, <1>2 DEF Evict

LEMMA CopyOutKeeps ==
    ASSUME IInv, CopyOut
    PROVE  IInv'
  <1>1. index \in Slots
    BY PriorityQueueAssumption DEF IInv, TypeOK, Slots
  <1>2. out' \in Element
    BY <1>1 DEF IInv, TypeOK, CopyOut
  <1> QED
    BY <1>2, ShiftBegins DEF CopyOut

LEMMA StepIInv == IInv /\ [Next]_vars => IInv'
  <1> SUFFICES ASSUME IInv, [Next]_vars PROVE IInv'
    OBVIOUS
  <1>1. CASE UNCHANGED vars
    BY <1>1 DEF vars, queue, loop, IInv, TypeOK, CallInv, ScanInv, ShiftInv, ShiftAim,
                Contents, Cell, Abstract!IsOldestBest, Abstract!IsOldestWorst
  <1>2. CASE Step
    BY <1>2, ScanLowestKeeps, EvictKeeps, ScanHighestKeeps, CopyOutKeeps, ShiftKeeps, FinishKeeps DEF Step
  <1>3. ASSUME NEW c \in 0..MaxCapacity, NEW zero \in BOOLEAN, NEW b, QueueInit(c, zero, {"queue", b})
        PROVE  IInv'
    BY <1>3, InitCallKeeps
  <1> QED
    BY <1>1, <1>2, <1>3, EnqueueKeeps, DequeueKeeps DEF Next

(* The counters and arrays of priority_queue.c stay in bounds, for every capacity.  *)
THEOREM TypeCorrect == Spec => []TypeOK
  <1>1. IInv => TypeOK
    BY DEF IInv
  <1> QED
    BY InitIInv, StepIInv, <1>1, PTL DEF Spec

(* At every iteration of every loop, the search has found the oldest best or worst  *)
(* entry so far, and the shift has lost and doubled none.                           *)
THEOREM CallsKeepTheEntries == Spec => []CallInv
  <1>1. IInv => CallInv
    BY DEF IInv
  <1> QED
    BY InitIInv, StepIInv, <1>1, PTL DEF Spec

-------------------------------------------------------------------------------
(* The refinement.                                                                 *)

(* A sequence without its entry number k.                                          *)
LEMMA RemoveAtEntry ==
    ASSUME NEW s \in Seq(Item), NEW k \in 1..Len(s)
    PROVE  /\ RemoveAt(s, k) \in Seq(Item)
           /\ Len(RemoveAt(s, k)) = Len(s) - 1
           /\ \A m \in 1..(Len(s) - 1) : RemoveAt(s, k)[m] = IF m < k THEN s[m] ELSE s[m + 1]
  <1> DEFINE left  == SubSeq(s, 1, k - 1)
             right == SubSeq(s, k + 1, Len(s))
  <1>1. Len(s) \in Nat /\ \A m \in 1..Len(s) : s[m] \in Item
    OBVIOUS
  <1>2. /\ left \in Seq(Item) /\ Len(left) = k - 1
        /\ \A m \in 1..(k - 1) : left[m] = s[m]
    <2>1. \A m \in 1..(k - 1) : s[m] \in Item
      BY <1>1
    <2>2. /\ left \in Seq(Item) /\ Len(left) = IF 1 <= k - 1 THEN (k - 1) - 1 + 1 ELSE 0
          /\ \A m \in 1..((k - 1) - 1 + 1) : left[m] = s[1 + m - 1]
      BY <2>1, SubSeqProperties
    <2> HIDE DEF left
    <2>3. Len(left) = k - 1
      BY <2>2
    <2>4. ASSUME NEW m \in 1..(k - 1) PROVE left[m] = s[m]
      <3>1. m \in 1..((k - 1) - 1 + 1) /\ 1 + m - 1 = m
        OBVIOUS
      <3> QED
        BY <2>2, <3>1
    <2> QED
      BY <2>2, <2>3, <2>4
  <1>3. /\ right \in Seq(Item) /\ Len(right) = Len(s) - k
        /\ \A m \in 1..(Len(s) - k) : right[m] = s[k + m]
    <2>1. \A m \in (k + 1)..Len(s) : s[m] \in Item
      BY <1>1
    <2>2. /\ right \in Seq(Item) /\ Len(right) = IF k + 1 <= Len(s) THEN Len(s) - (k + 1) + 1 ELSE 0
          /\ \A m \in 1..(Len(s) - (k + 1) + 1) : right[m] = s[(k + 1) + m - 1]
      BY <2>1, <1>1, SubSeqProperties
    <2> HIDE DEF right
    <2>3. Len(right) = Len(s) - k
      BY <1>1, <2>2
    <2>4. ASSUME NEW m \in 1..(Len(s) - k) PROVE right[m] = s[k + m]
      <3>1. m \in 1..(Len(s) - (k + 1) + 1) /\ (k + 1) + m - 1 = k + m
        BY <1>1
      <3> QED
        BY <2>2, <3>1
    <2> QED
      BY <2>2, <2>3, <2>4
  <1> HIDE DEF left, right
  <1>4. /\ left \o right \in Seq(Item)
        /\ Len(left \o right) = Len(left) + Len(right)
        /\ \A m \in 1..(Len(left) + Len(right)) :
               (left \o right)[m] = IF m <= Len(left) THEN left[m] ELSE right[m - Len(left)]
    BY <1>2, <1>3, ConcatProperties
  <1>5. RemoveAt(s, k) = left \o right
    BY DEF RemoveAt, left, right
  <1>6. Len(left \o right) = Len(s) - 1
    BY <1>1, <1>2, <1>3, <1>4
  <1>7. ASSUME NEW m \in 1..(Len(s) - 1)
        PROVE  (left \o right)[m] = IF m < k THEN s[m] ELSE s[m + 1]
    <2>1. (left \o right)[m] = IF m <= k - 1 THEN left[m] ELSE right[m - (k - 1)]
      BY <1>1, <1>2, <1>3, <1>4
    <2>2. CASE m < k
      <3>1. m \in 1..(k - 1)
        BY <2>2
      <3> QED
        BY <1>2, <2>1, <2>2, <3>1
    <2>3. CASE ~(m < k)
      <3>1. m - (k - 1) \in 1..(Len(s) - k) /\ k + (m - (k - 1)) = m + 1
        BY <1>1, <2>3
      <3> QED
        BY <1>3, <2>1, <2>3, <3>1
    <2> QED
      BY <2>2, <2>3
  <1> QED
    BY <1>4, <1>5, <1>6, <1>7

(* One entry more.                                                                 *)
LEMMA AppendEntry ==
    ASSUME NEW s \in Seq(Item), NEW item \in Item
    PROVE  /\ Append(s, item) \in Seq(Item)
           /\ Len(Append(s, item)) = Len(s) + 1
           /\ \A m \in 1..(Len(s) + 1) : Append(s, item)[m] = IF m <= Len(s) THEN s[m] ELSE item
  OBVIOUS

(* Two sequences of entries that agree everywhere.                                 *)
LEMMA SameEntries ==
    ASSUME NEW s \in Seq(Item), NEW t \in Seq(Item), Len(s) = Len(t),
           \A m \in 1..Len(s) : s[m] = t[m]
    PROVE  s = t
  BY SeqEqual

(* Storing an item behind the last entry appends it.                                *)
LEMMA StoreAppends ==
    ASSUME TypeOK, size < capacity, NEW item \in Item, StoreAtEnd(item)
    PROVE  Contents' = Append(Contents, item)
  <1> DEFINE new == Entries(priority_array', buffer', size')
  <1>1. /\ size \in Slots
        /\ priority_array' = [priority_array EXCEPT ![size] = item.priority]
        /\ buffer' = [buffer EXCEPT ![size] = item.element]
        /\ priority_array' \in [Slots -> Priority] /\ buffer' \in [Slots -> Element]
        /\ size' = size + 1 /\ size' \in 0..capacity
    BY StoreAtEndKeeps
  <1>2. size \in Nat /\ capacity <= MaxCapacity /\ capacity \in Nat /\ MaxCapacity \in Nat
    BY PriorityQueueAssumption DEF TypeOK
  <1>3. /\ new \in Seq(Item) /\ Len(new) = size + 1
        /\ \A k \in 1..(size + 1) :
               new[k] = [priority |-> priority_array'[k - 1], element |-> buffer'[k - 1]]
    <2>1. size' \in 0..MaxCapacity
      BY <1>1, <1>2
    <2>2. /\ new \in Seq(Item) /\ Len(new) = size'
          /\ \A k \in 1..size' :
                 new[k] = [priority |-> priority_array'[k - 1], element |-> buffer'[k - 1]]
      <3>1. priority_array' \in [Slots -> Priority] /\ buffer' \in [Slots -> Element]
        BY <1>1
      <3> QED
        BY <2>1, <3>1, EntriesOfArrays, Zenon
    <2> HIDE DEF new
    <2> QED
      BY <1>1, <2>2
  <1>4. /\ Contents \in Seq(Item) /\ Len(Contents) = size
        /\ \A k \in 1..size : Contents[k] = Cell(k - 1)
    BY ContentsType
  <1>5. /\ Append(Contents, item) \in Seq(Item)
        /\ Len(Append(Contents, item)) = size + 1
        /\ \A k \in 1..(size + 1) : Append(Contents, item)[k] = IF k <= size THEN Contents[k] ELSE item
    BY <1>4, AppendEntry
  <1>6. ASSUME NEW k \in 1..(size + 1) PROVE new[k] = Append(Contents, item)[k]
    <2>1. k - 1 \in Slots
      BY <1>1, <1>2 DEF Slots
    <2>2. CASE k <= size
      <3>1. priority_array'[k - 1] = priority_array[k - 1] /\ buffer'[k - 1] = buffer[k - 1]
        BY <1>1, <1>2, <2>1, <2>2 DEF TypeOK
      <3>2. new[k] = Cell(k - 1)
        BY <1>3, <3>1 DEF Cell
      <3> QED
        BY <1>2, <1>4, <1>5, <2>2, <3>2
    <2>3. CASE k = size + 1
      <3>1. priority_array'[k - 1] = item.priority /\ buffer'[k - 1] = item.element
        BY <1>1, <1>2, <2>3 DEF TypeOK
      <3>2. item = [priority |-> item.priority, element |-> item.element]
        BY DEF Item
      <3>3. new[k] = item
        BY <1>3, <3>1, <3>2
      <3> QED
        BY <1>2, <1>5, <2>3, <3>3
    <2>4. k <= size \/ k = size + 1
      BY <1>2
    <2> QED
      BY <2>2, <2>3, <2>4
  <1>7. new = Append(Contents, item)
    <2> HIDE DEF new
    <2> QED
      BY <1>3, <1>5, <1>6, SameEntries
  <1> QED
    BY <1>7, ContentsAreEntries

(* When the gap is closed, one entry of the queue is gone.                          *)
LEMMA GapClosed ==
    ASSUME IInv, pc = "shift", i = size
    PROVE  /\ before.stored \in Seq(Item) /\ Len(before.stored) = size + 1
           /\ index + 1 \in 1..Len(before.stored)
           /\ Contents = RemoveAt(before.stored, index + 1)
  <1>1. /\ Len(before.stored) = size + 1 /\ index <= size
        /\ size \in Nat /\ index \in Nat
        /\ before.stored \in Seq(Item)
        /\ \A k \in 0..size :
               Cell(k) = IF k < index \/ i <= k THEN before.stored[k + 1] ELSE before.stored[k + 2]
    BY PriorityQueueAssumption DEF IInv, TypeOK, CallInv, ShiftInv
  <1>2. index + 1 \in 1..Len(before.stored)
    BY <1>1
  <1>3. /\ Contents \in Seq(Item) /\ Len(Contents) = size
        /\ \A k \in 1..size : Contents[k] = Cell(k - 1)
    BY ContentsType DEF IInv
  <1> DEFINE rest == RemoveAt(before.stored, index + 1)
  <1>4. /\ rest \in Seq(Item) /\ Len(rest) = size
        /\ \A m \in 1..size :
               rest[m] = IF m < index + 1 THEN before.stored[m] ELSE before.stored[m + 1]
    <2>1. /\ rest \in Seq(Item) /\ Len(rest) = Len(before.stored) - 1
          /\ \A m \in 1..(Len(before.stored) - 1) :
                 rest[m] = IF m < index + 1 THEN before.stored[m] ELSE before.stored[m + 1]
      BY <1>1, <1>2, RemoveAtEntry
    <2>2. Len(before.stored) - 1 = size
      BY <1>1
    <2> QED
      BY <2>1, <2>2
  <1>5. ASSUME NEW m \in 1..size PROVE Contents[m] = rest[m]
    <2>1. m - 1 \in 0..size /\ ~(size <= m - 1) /\ (m - 1) + 1 = m /\ (m - 1) + 2 = m + 1
          /\ (m - 1 < index <=> m < index + 1)
      BY <1>1
    <2>2. Cell(m - 1) = IF m < index + 1 THEN before.stored[m] ELSE before.stored[m + 1]
      BY <1>1, <2>1
    <2> HIDE DEF rest
    <2> QED
      BY <1>3, <1>4, <2>2
  <1>6. Contents = rest
    <2> HIDE DEF rest
    <2> QED
      BY <1>3, <1>4, <1>5, SameEntries
  <1> QED
    BY <1>1, <1>2, <1>6

(* What the caller sees before and after a step.                                   *)
LEMMA VisibleIs ==
    /\ pc = "ready" => /\ Visible.stored = Contents /\ Visible.out = out /\ Visible.status = status
    /\ pc # "ready" => Visible = before
    /\ pc' = "ready" => /\ Visible'.stored = Contents' /\ Visible'.out = out'
                        /\ Visible'.status = status'
    /\ pc' # "ready" => Visible' = before'
  BY DEF Visible

LEMMA InitRefines == Init => Abstract!Init
  <1> SUFFICES ASSUME Init PROVE Abstract!Init
    OBVIOUS
  <1>1. pc = "ready" /\ size = 0
    BY DEF Init
  <1>2. Contents = <<>>
    BY <1>1 DEF Contents
  <1> QED
    BY <1>1, <1>2, VisibleIs DEF Init, Abstract!Init

(* The step of PriorityStore for a call that returns: it is the one its caller asked *)
(* for.                                                                            *)
LEMMA InitCallRefines ==
    ASSUME IInv, NEW c \in 0..MaxCapacity, NEW zero, NEW ptrs, QueueInit(c, zero, ptrs)
    PROVE  Abstract!Refuse \/ \E k \in 1..MaxCapacity : Abstract!Reset(k)
  <1>1. pc = "ready" /\ pc' = "ready"
    BY DEF QueueInit, Return
  <1>2. CASE c # 0 /\ capacity' = c /\ size' = 0 /\ Return(TRUE) /\ UNCHANGED <<priority_array, buffer, out>>
    <2>1. c \in 1..MaxCapacity
      BY <1>2, PriorityQueueAssumption
    <2>2. Contents' = <<>>
      BY <1>2 DEF Contents
    <2>3. Abstract!Reset(c)
      BY <1>1, <1>2, <2>2, VisibleIs DEF Abstract!Reset, Return
    <2> QED
      BY <2>1, <2>3
  <1>3. CASE Return(FALSE) /\ UNCHANGED <<queue, out>>
    <2>1. Contents' = Contents
      BY <1>3 DEF queue, Contents, Cell
    <2>2. Abstract!Refuse
      BY <1>1, <1>3, <2>1, VisibleIs DEF Abstract!Refuse, Return, queue
    <2> QED
      BY <2>2
  <1> QED
    BY <1>2, <1>3 DEF QueueInit

LEMMA EnqueueRefines ==
    ASSUME IInv, NEW item \in Item, Enqueue(item), pc' = "ready"
    PROVE  Abstract!Insert(item)
  <1>1. pc = "ready" /\ size # capacity /\ StoreAtEnd(item) /\ Return(TRUE) /\ UNCHANGED out
    BY DEF Enqueue, Enter, Full
  <1>2. size < capacity
    BY <1>1, PriorityQueueAssumption DEF IInv, TypeOK
  <1>3. Contents' = Append(Contents, item) /\ Len(Contents) = size
    BY <1>1, <1>2, StoreAppends, ContentsType DEF IInv
  <1> QED
    BY <1>1, <1>2, <1>3, VisibleIs DEF Abstract!Insert, Return, StoreAtEnd

LEMMA DequeueRefines ==
    ASSUME IInv, Dequeue, pc' = "ready"
    PROVE  Abstract!RefuseEmpty
  <1>1. pc = "ready" /\ size = 0 /\ Return(FALSE) /\ UNCHANGED <<queue, out>>
    BY DEF Dequeue, Enter, Empty
  <1>2. Contents = <<>> /\ Contents' = <<>>
    BY <1>1 DEF Contents, queue
  <1> QED
    BY <1>1, <1>2, VisibleIs DEF Abstract!RefuseEmpty, Abstract!Refuse, Return, queue

LEMMA EvictRefines ==
    ASSUME IInv, Evict, pc' = "ready"
    PROVE  call # NULL /\ Abstract!RefuseNotBetter(call)
  <1>1. /\ pc = "lowest" /\ i = size /\ priority_array[index] >= call.priority
        /\ Return(FALSE) /\ UNCHANGED <<queue, out>>
    BY DEF Evict, Return
  <1>2. /\ before = [stored |-> Contents, out |-> out, status |-> status]
        /\ index \in 0..(size - 1) /\ size \in Nat
        /\ Contents[index + 1].priority = priority_array[index]
        /\ Abstract!IsOldestWorst(Contents, index + 1)
    BY <1>1, Found
  <1>3. call \in Item /\ call # NULL /\ size = capacity
    BY <1>1 DEF IInv, TypeOK, CallInv, ScanInv
  <1>4. Len(Contents) = size /\ \A k \in 1..size : Contents[k].priority \in Nat
    BY ContentsType DEF IInv
  <1>5. call.priority \in Nat
    BY <1>3, PriorityQueueAssumption DEF Item
  <1>6. \A k \in 1..size : Contents[k].priority >= call.priority
    <2>1. \A k \in 1..size : Contents[k].priority >= Contents[index + 1].priority
      BY <1>2, <1>4 DEF Abstract!IsOldestWorst
    <2>2. index + 1 \in 1..size
      BY <1>2
    <2> QED
      BY <1>1, <1>2, <1>4, <1>5, <2>1, <2>2
  <1>7. Visible = before /\ Contents' = Contents
    BY <1>1, VisibleIs DEF queue, Contents, Cell
  <1>8. Abstract!Refuse
    BY <1>1, <1>2, <1>7, VisibleIs DEF Abstract!Refuse, Return, queue
  <1>9. Visible.stored = Contents
    BY <1>2, <1>7
  <1> QED
    BY <1>3, <1>4, <1>6, <1>8, <1>9 DEF Abstract!RefuseNotBetter

LEMMA FinishRefines ==
    ASSUME IInv, Finish
    PROVE  IF call = NULL THEN Abstract!TakeBest ELSE call \in Item /\ Abstract!Replace(call)
  <1>1. /\ pc = "shift" /\ i = size /\ pc' = "ready" /\ status' = TRUE /\ out' = out
    BY DEF Finish, Return
  <1>2. /\ before.stored \in Seq(Item) /\ Len(before.stored) = size + 1
        /\ index + 1 \in 1..Len(before.stored)
        /\ Contents = RemoveAt(before.stored, index + 1)
    BY <1>1, GapClosed
  <1>3. Visible = before /\ Visible'.stored = Contents' /\ Visible'.out = out /\ Visible'.status = TRUE
    BY <1>1, VisibleIs
  <1>4. CASE call = NULL
    <2>1. UNCHANGED queue
      BY <1>4 DEF Finish
    <2>2. Contents' = Contents /\ capacity' = capacity
      BY <2>1 DEF queue, Contents, Cell
    <2>3. /\ Abstract!IsOldestBest(before.stored, index + 1)
          /\ out = before.stored[index + 1].element
      BY <1>1, <1>4 DEF IInv, ShiftAim
    <2>4. /\ Abstract!IsOldestBest(Visible.stored, index + 1)
          /\ Visible'.out = Visible.stored[index + 1].element
          /\ Visible'.stored = RemoveAt(Visible.stored, index + 1)
          /\ index + 1 \in 1..Len(Visible.stored)
      BY <1>2, <1>3, <2>2, <2>3
    <2> QED
      BY <1>3, <1>4, <2>2, <2>4 DEF Abstract!TakeBest, RemoveAt, Abstract!RemoveAt
  <1>5. CASE call # NULL
    <2>1. call \in Item /\ size < capacity /\ size + 1 = capacity /\ before.out = out
      BY <1>1, <1>5 DEF IInv, TypeOK, CallInv, ShiftInv
    <2>2. StoreAtEnd(call)
      BY <1>5 DEF Finish
    <2>3. Contents' = Append(Contents, call) /\ capacity' = capacity
      BY <2>1, <2>2, StoreAppends DEF IInv, StoreAtEnd
    <2>4. /\ Abstract!IsOldestWorst(before.stored, index + 1)
          /\ before.stored[index + 1].priority < call.priority
      BY <1>1, <1>5 DEF IInv, ShiftAim
    <2>5. /\ Abstract!IsOldestWorst(Visible.stored, index + 1)
          /\ Visible.stored[index + 1].priority < call.priority
          /\ Visible'.stored = Append(RemoveAt(Visible.stored, index + 1), call)
          /\ index + 1 \in 1..Len(Visible.stored)
          /\ Len(Visible.stored) = capacity /\ Visible'.out = Visible.out
      BY <1>2, <1>3, <2>1, <2>3, <2>4
    <2> QED
      BY <1>3, <1>5, <2>1, <2>3, <2>5
           DEF Abstract!Replace, RemoveAt, Abstract!RemoveAt
  <1> QED
    BY <1>4, <1>5

(* Inside a call the caller sees nothing move, and a call that starts a loop has not *)
(* done anything yet.                                                              *)
LEMMA EnterIsInvisible ==
    ASSUME pc = "ready", NEW loopName, loopName # "ready", NEW item, Enter(loopName, item)
    PROVE  UNCHANGED Abstract!vars
  <1>1. pc' # "ready" /\ capacity' = capacity
        /\ before' = [stored |-> Contents, out |-> out, status |-> status]
    BY DEF Enter, queue
  <1>2. Visible' = before'
    BY <1>1, VisibleIs
  <1>3. Visible'.stored = Visible.stored /\ Visible'.out = Visible.out /\ Visible'.status = Visible.status
    BY <1>1, <1>2, VisibleIs
  <1> QED
    BY <1>1, <1>3 DEF Abstract!vars

LEMMA LoopIsInvisible ==
    ASSUME pc # "ready", pc' # "ready", before' = before, capacity' = capacity
    PROVE  UNCHANGED Abstract!vars
  BY VisibleIs DEF Abstract!vars

(* The loop steps: one returns, or none shows.                                     *)
LEMMA StepRefines ==
    ASSUME IInv, Step
    PROVE  \/ UNCHANGED Abstract!vars
           \/ Abstract!TakeBest \/ Abstract!Refuse
           \/ \E item \in Item : Abstract!Replace(item)
  <1>1. CASE ScanLowest \/ ScanHighest \/ CopyOut \/ Shift
    BY <1>1, LoopIsInvisible DEF ScanLowest, ScanHighest, CopyOut, Shift, queue
  <1>2. CASE Evict /\ pc' # "ready"
    BY <1>2, LoopIsInvisible DEF Evict, Return
  <1>3. CASE Evict /\ pc' = "ready"
    BY <1>3, EvictRefines DEF Abstract!RefuseNotBetter
  <1>4. CASE Finish
    BY <1>4, FinishRefines
  <1> QED
    BY <1>1, <1>2, <1>3, <1>4 DEF Step

LEMMA NextRefines == IInv /\ [Next]_vars => [Abstract!Next]_Abstract!vars
  <1> SUFFICES ASSUME IInv, [Next]_vars PROVE [Abstract!Next]_Abstract!vars
    OBVIOUS
  <1>1. CASE UNCHANGED vars
    BY <1>1 DEF vars, queue, loop, Abstract!vars, Visible, Contents, Cell
  <1>2. CASE Step
    BY <1>2, StepRefines DEF Abstract!Next, Item, Abstract!Item
  <1>3. ASSUME NEW c \in 0..MaxCapacity, NEW zero \in BOOLEAN, NEW b, QueueInit(c, zero, {"queue", b})
        PROVE  Abstract!Next
    BY <1>3, InitCallRefines DEF Abstract!Next
  <1>4. ASSUME NEW item \in Item, Enqueue(item) PROVE [Abstract!Next]_Abstract!vars
    <2>1. CASE pc' = "ready"
      BY <1>4, <2>1, EnqueueRefines DEF Abstract!Next, Item, Abstract!Item
    <2>2. CASE pc' # "ready"
      <3>1. pc = "ready" /\ Enter("lowest", item)
        BY <1>4, <2>2 DEF Enqueue, Return
      <3> QED
        BY <3>1, EnterIsInvisible
    <2> QED
      BY <2>1, <2>2
  <1>5. CASE Dequeue
    <2>1. CASE pc' = "ready"
      BY <1>5, <2>1, DequeueRefines DEF Abstract!Next, Abstract!RefuseEmpty
    <2>2. CASE pc' # "ready"
      <3>1. pc = "ready" /\ Enter("highest", NULL)
        BY <1>5, <2>2 DEF Dequeue, Return
      <3> QED
        BY <3>1, EnterIsInvisible
    <2> QED
      BY <2>1, <2>2
  <1> QED
    BY <1>1, <1>2, <1>3, <1>4, <1>5 DEF Next

LEMMA StepAsPromised == IInv /\ [Next]_vars => [AsPromised]_vars
  <1> SUFFICES ASSUME IInv, Next PROVE AsPromised
    OBVIOUS
  <1>1. ASSUME pc = "ready", pc' = "ready"
        PROVE  /\ \A item \in Item : Enqueue(item) => Abstract!Insert(item)
               /\ Dequeue => Abstract!RefuseEmpty
    BY <1>1, EnqueueRefines, DequeueRefines
  <1>2. ASSUME pc # "ready", pc' = "ready"
        PROVE  IF call = NULL THEN Abstract!TakeBest
                              ELSE Abstract!Replace(call) \/ Abstract!RefuseNotBetter(call)
    <2>1. Step
      BY <1>2 DEF Next, QueueInit, Enqueue, Dequeue
    <2>2. Evict \/ Finish
      BY <1>2, <2>1 DEF Step, ScanLowest, ScanHighest, CopyOut, Shift
    <2> QED
      BY <1>2, <2>2, EvictRefines, FinishRefines
  <1> QED
    BY <1>1, <1>2 DEF AsPromised

(* The queue over two parallel arrays is the priority store, call by call: its loops *)
(* never show, and every call that returns has taken the step it was asked for.     *)
THEOREM QueueIsPriorityStore == Spec => StoreSpec
  <1>1. Spec => Abstract!Spec
    BY InitIInv, StepIInv, InitRefines, NextRefines, PTL DEF Spec, Abstract!Spec
  <1>2. Spec => [][AsPromised]_vars
    BY InitIInv, StepIInv, StepAsPromised, PTL DEF Spec
  <1> QED
    BY <1>1, <1>2 DEF StoreSpec

------------------------------------------------------------------------------
(* How many steps a call still has before it: a search looks at every entry, a shift    *)
(* moves those behind the gap, and each has one step more at its end.                  *)
CallStepsLeft ==
    CASE pc = "ready" -> 0
      [] pc \in {"lowest", "highest"} -> (size - i) + size + 2
      [] pc = "shift" -> size - i + 1

LEMMA CallCount ==
    ASSUME IInv
    PROVE  /\ size \in Nat /\ capacity \in Nat /\ size <= capacity /\ i \in Nat
           /\ pc # "ready" => i <= size
           /\ CallStepsLeft \in 0..(2 * capacity + 2)
  <1>1. size \in Nat /\ capacity \in Nat /\ size <= capacity /\ i \in Nat
    BY PriorityQueueAssumption DEF IInv, TypeOK
  <1>2. pc \in {"ready", "lowest", "highest", "shift"}
    BY DEF IInv, TypeOK
  <1>3. pc # "ready" => i <= size
    BY <1>2 DEF IInv, CallInv, ScanInv, ShiftInv
  <1>4. CASE pc = "ready"
    BY <1>1, <1>4 DEF CallStepsLeft
  <1>5. CASE pc \in {"lowest", "highest"}
    BY <1>1, <1>3, <1>5 DEF CallStepsLeft
  <1>6. CASE pc = "shift"
    BY <1>1, <1>3, <1>6 DEF CallStepsLeft
  <1> QED
    BY <1>1, <1>2, <1>3, <1>4, <1>5, <1>6

LEMMA CallCountsDown ==
    ASSUME IInv, Next, pc # "ready"
    PROVE  CallStepsLeft' < CallStepsLeft
  <1>1. size \in Nat /\ i \in Nat /\ i <= size
    BY CallCount
  <1>2. Step
    BY DEF Next, QueueInit, Enqueue, Dequeue
  <1>3. CASE ScanLowest \/ ScanHighest
    <2>1. pc \in {"lowest", "highest"} /\ pc' = pc /\ size' = size /\ i' = i + 1
      BY <1>3 DEF ScanLowest, ScanHighest, queue
    <2> QED
      BY <1>1, <2>1 DEF CallStepsLeft
  <1>4. CASE Shift
    <2>1. pc = "shift" /\ pc' = "shift" /\ size' = size /\ i' = i + 1
      BY <1>4 DEF Shift
    <2> QED
      BY <1>1, <2>1 DEF CallStepsLeft
  <1>5. CASE Finish \/ (Evict /\ pc' = "ready")
    <2>1. pc' = "ready" /\ pc \in {"shift", "lowest"}
      BY <1>5 DEF Finish, Evict, Return
    <2>2. CallStepsLeft' = 0
      BY <2>1 DEF CallStepsLeft
    <2>3. CallStepsLeft > 0
      BY <1>1, <2>1 DEF CallStepsLeft
    <2> QED
      BY <2>2, <2>3
  <1>6. CASE CopyOut \/ (Evict /\ pc' # "ready")
    <2>1. /\ pc \in {"lowest", "highest"} /\ pc' = "shift" /\ i = size
          /\ i' = index /\ size' = size - 1
      BY <1>6 DEF CopyOut, Evict, Return
    <2>2. index \in Nat
      BY PriorityQueueAssumption DEF IInv, TypeOK
    <2> QED
      BY <1>1, <2>1, <2>2 DEF CallStepsLeft
  <1> QED
    BY <1>2, <1>3, <1>4, <1>5, <1>6 DEF Step

(* Every call returns after at most two rounds over the entries, 2 * capacity + 2       *)
(* steps, and nothing else happens to the queue until it does.                         *)
THEOREM CallsAreShort ==
    Spec => /\ [](CallStepsLeft \in 0..(2 * capacity + 2))
            /\ [][pc # "ready" => CallStepsLeft' < CallStepsLeft]_vars
  <1>1. IInv => CallStepsLeft \in 0..(2 * capacity + 2)
    BY CallCount
  <1>2. IInv /\ [Next]_vars => [pc # "ready" => CallStepsLeft' < CallStepsLeft]_vars
    BY CallCountsDown
  <1> QED
    BY <1>1, <1>2, InitIInv, StepIInv, PTL DEF Spec

=============================================================================
