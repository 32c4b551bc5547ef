-------------------------------- MODULE SortProofs --------------------------------
(* Proofs about the three sorts for every number of elements and every compareFun,   *)
(* the ones that break their contract included. The three modules share the state    *)
(* of SortArray, so that what they promise, SortedWhenDone, is one definition.        *)
(*                                                                                   *)
(* Selection sort: when the inner loop ends, min_index is least among all that is     *)
(* left, so the swap puts behind the first i elements nothing that is less than one   *)
(* of them. The order is a strict weak one: when the scan finds a lesser element,     *)
(* those that were not less than the old minimum are not less than the new one.       *)
(*                                                                                   *)
(* Bubble sort: OnlyForCause is inductive because only neighbours are swapped; the    *)
(* loop invariant says how far a pass has come.                                       *)
(*                                                                                   *)
(* Heap sort: two steps need an argument. When an element sinks by one level, its     *)
(* largest child comes to stand above the other one and above the element, and below  *)
(* the element's parent because HeapInv keeps the children of the sinking element no  *)
(* greater than its parent. When the root is taken out it must be the greatest of the *)
(* heap: a least place whose element is greater than the root's cannot be, since its  *)
(* parent, which is not greater than the root, comes before it.                       *)
(*                                                                                   *)
(* Two parts stand behind the three sorts. A permutation is determined by which       *)
(* element comes before which, so there is one sorted array for a total order and one *)
(* stable sorted array for a weak one. And for each sort a number that every step     *)
(* decreases says how long it takes, the comparator being what it may.                *)
EXTENDS Sorts, Recursion, FiniteSetTheorems, TLAPS

(* A swap moves two elements and no other, and loses none.                         *)
LEMMA SwapAt ==
    ASSUME NEW m \in Nat, NEW a, IsPermutation(a, m), NEW p \in Positions(m),
           NEW q \in Positions(m)
    PROVE  /\ \A k \in Positions(m) :
                 Swap(a, p, q)[k] = IF k = q THEN a[p] ELSE IF k = p THEN a[q] ELSE a[k]
           /\ IsPermutation(Swap(a, p, q), m)
  <1> DEFINE b == Swap(a, p, q)
  <1>1. a \in [Positions(m) -> Positions(m)]
    BY DEF IsPermutation
  <1>2. b \in [Positions(m) -> Positions(m)]
    BY <1>1 DEF Swap
  <1>3. \A k \in Positions(m) : b[k] = IF k = q THEN a[p] ELSE IF k = p THEN a[q] ELSE a[k]
    BY <1>1 DEF Swap
  <1>4. \A k, l \in Positions(m) : b[k] = b[l] => k = l
    BY <1>3 DEF IsPermutation
  <1> QED
    BY <1>2, <1>3, <1>4 DEF IsPermutation

----------------------------------------------------------------------------------
(* What the loops count up to.                                                     *)
LEMMA Bounds ==
    ASSUME SelectionTypeOK
    PROVE  /\ number_of_elements \in Nat /\ OuterBound \in Nat
           /\ number_of_elements # 0 => OuterBound = number_of_elements - 1
  <1>1. Word - 1 \in Nat
    BY SortAssumption, WordAssumption
  <1> QED
    BY <1>1 DEF SelectionTypeOK, OuterBound

-------------------------------------------------------------------------------
LEMMA SelectionInitKeeps == SelectionInit => SelectionTypeOK /\ SelectionLoopInv
  <1> SUFFICES ASSUME SelectionInit PROVE SelectionTypeOK /\ SelectionLoopInv
    OBVIOUS
  <1>1. number_of_elements \in Nat /\ pc = "outer" /\ i = 0 /\ j = 0 /\ min_index = 0
          /\ elements = Unsorted(number_of_elements)
    BY SortAssumption, WordAssumption DEF SelectionInit, Called
  <1>2. IsPermutation(elements, number_of_elements)
    BY <1>1 DEF IsPermutation, Unsorted
  <1>3. OuterBound \in Nat
    BY <1>1, SortAssumption, WordAssumption DEF OuterBound
  <1>4. SelectionTypeOK
    BY <1>1, <1>2, <1>3 DEF SelectionTypeOK
  <1>5. SelectionLoopInv
    <2>1. \A p \in Positions(number_of_elements) : ~(p < i)
      BY <1>1 DEF Positions
    <2> QED
      BY <1>1, <2>1 DEF SelectionLoopInv
  <1> QED
    BY <1>4, <1>5

LEMMA StartScanKeeps ==
    ASSUME SelectionTypeOK, SelectionLoopInv, StartScan
    PROVE  (SelectionTypeOK /\ SelectionLoopInv)'
  <1>1. number_of_elements \in Nat /\ i \in Nat /\ i < OuterBound /\ (number_of_elements # 0 =>
          OuterBound = number_of_elements - 1)
    BY Bounds DEF SelectionTypeOK, StartScan
  <1>2. OuterBound' = OuterBound
    BY DEF StartScan, OuterBound
  <1>3. SelectionTypeOK'
    BY <1>1, <1>2 DEF SelectionTypeOK, StartScan
  <1>4. ASSUME IsStrictWeakOrder(greater, number_of_elements), number_of_elements # 0
        PROVE  \A q \in i'..(j' - 1) : <<elements'[min_index'], elements'[q]>> \notin greater
    <2>1. i \in Positions(number_of_elements) /\ elements[i] \in Positions(number_of_elements)
      BY <1>1, <1>4 DEF Positions, SelectionTypeOK, IsPermutation
    <2>2. <<elements[i], elements[i]>> \notin greater
      BY <1>4, <2>1 DEF IsStrictWeakOrder
    <2>3. \A q \in i'..(j' - 1) : q = i
      BY <1>1 DEF StartScan
    <2> QED
      BY <2>2, <2>3 DEF StartScan
  <1>5. SelectionLoopInv'
    BY <1>4 DEF SelectionLoopInv, StartScan
  <1> QED
    BY <1>3, <1>5

LEMMA ScanKeeps ==
    ASSUME SelectionTypeOK, SelectionLoopInv, Scan
    PROVE  (SelectionTypeOK /\ SelectionLoopInv)'
  <1>1. /\ number_of_elements \in Nat /\ i \in Nat /\ j \in Nat /\ min_index \in Nat
        /\ pc = "inner" /\ j < number_of_elements /\ number_of_elements # 0 /\ i < j
                /\ i <= min_index /\ min_index < j
        /\ min_index' \in {j, min_index} /\ j' = j + 1
    BY DEF SelectionTypeOK, Scan
  <1>2. OuterBound' = OuterBound
    BY DEF Scan, OuterBound
  <1>3. SelectionTypeOK'
    BY <1>1, <1>2 DEF SelectionTypeOK, Scan
  <1>4. \A q \in Positions(number_of_elements) : elements[q] \in Positions(number_of_elements)
    BY DEF SelectionTypeOK, IsPermutation
  <1>5. ASSUME IsStrictWeakOrder(greater, number_of_elements), NEW q \in i..j
        PROVE  <<elements[min_index'], elements[q]>> \notin greater
    <2>1. q \in Positions(number_of_elements) /\ j \in Positions(number_of_elements)
            /\ min_index \in Positions(number_of_elements)
      BY <1>1 DEF Positions
    <2>2. \A k \in i..(j - 1) : <<elements[min_index], elements[k]>> \notin greater
      BY <1>1, <1>5 DEF SelectionLoopInv
    <2>3. CASE <<elements[min_index], elements[j]>> \in greater
      <3>1. min_index' = j
        BY <2>3 DEF Scan
      <3>2. <<elements[j], elements[min_index]>> \notin greater
        BY <1>4, <1>5, <2>1, <2>3 DEF IsStrictWeakOrder
      <3>3. CASE q = j
        BY <1>4, <1>5, <2>1, <3>1, <3>3 DEF IsStrictWeakOrder
      <3>4. CASE q # j
        <4>1. <<elements[min_index], elements[q]>> \notin greater
          BY <1>1, <2>2, <3>4
        <4> QED
          BY <1>4, <1>5, <2>1, <3>1, <3>2, <4>1 DEF IsStrictWeakOrder
      <3> QED
        BY <3>3, <3>4
    <2>4. CASE <<elements[min_index], elements[j]>> \notin greater
      <3>1. min_index' = min_index
        BY <2>4 DEF Scan
      <3>2. q = j \/ q \in i..(j - 1)
        BY <1>1
      <3> QED
        BY <2>2, <2>4, <3>1, <3>2
    <2> QED
      BY <2>3, <2>4
  <1>6. SelectionLoopInv'
    <2>1. i..j = i'..(j' - 1)
      BY <1>1 DEF Scan
    <2> QED
      BY <1>5, <2>1 DEF SelectionLoopInv, Scan
  <1> QED
    BY <1>3, <1>6

(* Without elements the loops change nothing but i.                                *)
LEMMA EndScanKeeps ==
    ASSUME SelectionTypeOK, SelectionLoopInv, EndScan
    PROVE  (SelectionTypeOK /\ SelectionLoopInv)'
  <1>1. /\ number_of_elements \in Nat /\ i \in Nat /\ j \in Nat /\ min_index \in Nat
          /\ IsPermutation(elements, number_of_elements)
        /\ pc = "inner" /\ j >= number_of_elements /\ i < OuterBound /\ i < j /\ i <= min_index
        /\ i' = i + 1 /\ pc' = "outer"
        /\ UNCHANGED <<number_of_elements, greater, j, min_index>>
    BY DEF SelectionTypeOK, EndScan
  <1>2. OuterBound' = OuterBound /\ OuterBound \in Nat
    BY Bounds DEF EndScan, OuterBound
  <1>3. CASE number_of_elements = 0
    <2>1. elements' = elements
      BY <1>3 DEF SelectionTypeOK, EndScan
    <2>2. SelectionTypeOK'
      BY <1>1, <1>2, <2>1 DEF SelectionTypeOK
    <2>3. SelectionLoopInv'
      BY <1>1, <1>3 DEF SelectionLoopInv, Positions
    <2> QED
      BY <2>2, <2>3
  <1>4. CASE number_of_elements # 0
    <2>1. j = number_of_elements /\ min_index < number_of_elements /\ i < number_of_elements - 1
      BY <1>1, <1>4, Bounds DEF SelectionTypeOK
    <2>2. i \in Positions(number_of_elements) /\ min_index \in Positions(number_of_elements)
      BY <1>1, <2>1 DEF Positions
    <2>3. /\ \A k \in Positions(number_of_elements) :
                 elements'[k] = IF k = i THEN elements[min_index]
                                ELSE IF k = min_index THEN elements[i] ELSE elements[k]
          /\ IsPermutation(elements', number_of_elements)
      <3>1. CASE min_index # i
        BY <1>1, <2>2, <3>1, SwapAt DEF EndScan
      <3>2. CASE min_index = i
        BY <1>1, <2>2, <3>2 DEF EndScan
      <3> QED
        BY <3>1, <3>2
    <2>4. SelectionTypeOK'
      BY <1>1, <1>2, <2>3 DEF SelectionTypeOK
    <2>5. ASSUME IsStrictWeakOrder(greater, number_of_elements),
                 NEW p \in Positions(number_of_elements), NEW q \in Positions(number_of_elements),
                 p < i + 1, p < q
          PROVE  <<elements'[p], elements'[q]>> \notin greater
      <3>1. /\ \A a, b \in Positions(number_of_elements) : a < i /\ a < b =>
              <<elements[a], elements[b]>> \notin greater
            /\ \A k \in i..(number_of_elements - 1) : <<elements[min_index], elements[k]>> \notin greater
        BY <1>1, <1>4, <2>1, <2>5 DEF SelectionLoopInv
      <3>2. p \in Int /\ q \in Int /\ q < number_of_elements
        BY <1>1 DEF Positions
      <3>3. CASE p < i
        <4>1. elements'[p] = elements[p]
          BY <1>1, <2>3, <3>2, <3>3
        <4>2. PICK k \in Positions(number_of_elements) : p < k /\ elements'[q] = elements[k]
          BY <1>1, <2>2, <2>3, <2>5, <3>2, <3>3
        <4> QED
          BY <3>1, <3>3, <4>1, <4>2
      <3>4. CASE p = i
        <4>1. elements'[p] = elements[min_index]
          BY <2>3, <3>4
        <4>2. PICK k \in i..(number_of_elements - 1) : elements'[q] = elements[k]
          BY <1>1, <2>1, <2>3, <2>5, <3>2, <3>4
        <4> QED
          BY <3>1, <4>1, <4>2
      <3> QED
        BY <1>1, <2>5, <3>2, <3>3, <3>4
    <2>6. SelectionLoopInv'
      BY <1>1, <2>5 DEF SelectionLoopInv
    <2> QED
      BY <2>4, <2>6
  <1> QED
    BY <1>3, <1>4

LEMMA SelectionReturnKeeps ==
    ASSUME SelectionTypeOK, SelectionLoopInv, SelectionReturn
    PROVE  (SelectionTypeOK /\ SelectionLoopInv)'
  <1>1. OuterBound' = OuterBound
    BY DEF SelectionReturn, OuterBound
  <1> QED
    BY <1>1 DEF SelectionTypeOK, SelectionLoopInv, SelectionReturn

LEMMA SelectionStep == SelectionTypeOK /\ SelectionLoopInv /\ [SelectionNext]_svars =>
        (SelectionTypeOK /\ SelectionLoopInv)'
  <1> SUFFICES ASSUME SelectionTypeOK, SelectionLoopInv, [SelectionNext]_svars
               PROVE (SelectionTypeOK /\ SelectionLoopInv)'
    OBVIOUS
  <1>1. CASE UNCHANGED svars
    BY <1>1 DEF svars, SelectionTypeOK, SelectionLoopInv, OuterBound
  <1> QED
    BY <1>1, StartScanKeeps, ScanKeeps, EndScanKeeps, SelectionReturnKeeps DEF SelectionNext

(* When the outer loop has ended, all elements but the last are in order. *)
LEMMA SelectionReturnSorts ==
    ASSUME SelectionTypeOK, SelectionLoopInv, SelectionReturn
    PROVE  SortedWhenDone'
  <1> SUFFICES ASSUME IsStrictWeakOrder(greater, number_of_elements),
                      NEW p \in Positions(number_of_elements),
                      NEW q \in Positions(number_of_elements),
                      p < q
               PROVE  <<elements[p], elements[q]>> \notin greater
    BY DEF SortedWhenDone, IsSorted, SelectionReturn
  <1>1. number_of_elements \in Nat /\ number_of_elements # 0 /\ i \in Nat
          /\ i >= number_of_elements - 1
    BY Bounds DEF SelectionTypeOK, SelectionReturn, Positions
  <1>2. p < i
    BY <1>1 DEF Positions
  <1> QED
    BY <1>2 DEF SelectionLoopInv

LEMMA SelectionSortedKeeps == SelectionTypeOK /\ SelectionLoopInv /\ SortedWhenDone
        /\ [SelectionNext]_svars => SortedWhenDone'
  <1> SUFFICES ASSUME SelectionTypeOK, SelectionLoopInv, SortedWhenDone, [SelectionNext]_svars
               PROVE  SortedWhenDone'
    OBVIOUS
  <1>1. CASE UNCHANGED svars
    BY <1>1 DEF svars, SortedWhenDone
  <1>2. CASE StartScan \/ Scan \/ EndScan
    BY <1>2 DEF StartScan, Scan, EndScan, SortedWhenDone
  <1> QED
    BY <1>1, <1>2, SelectionReturnSorts DEF SelectionNext

LEMMA SelectionInvariance == SelectionSpec =>
        [](SelectionTypeOK /\ SelectionLoopInv /\ SortedWhenDone)
  <1>1. SelectionInit => SortedWhenDone
    BY DEF SelectionInit, SortedWhenDone
  <1> QED
    BY <1>1, SelectionInitKeeps, SelectionStep, SelectionSortedKeeps, PTL DEF SelectionSpec

(* Selection sort loses no element and swaps only elements of the array, with any   *)
(* compareFun and any number of elements below the largest word.                    *)
THEOREM SelectionTypeCorrect == SelectionSpec => []SelectionTypeOK
  BY SelectionInvariance, PTL

(* With a strict weak order, what is left of i is in order with all that follows,   *)
(* and min_index is the least element scanned.                                      *)
THEOREM SelectionLoopInvariant == SelectionSpec => []SelectionLoopInv
  BY SelectionInvariance, PTL

(* With a strict weak order, the array is sorted when SelectionSort_sort returns.   *)
THEOREM SelectionSortedness == SelectionSpec => []SortedWhenDone
  BY SelectionInvariance, PTL

----------------------------------------------------------------------------------
(* All that is proved of bubble sort, as one inductive invariant.                    *)
BubbleInv == BubbleTypeOK /\ OnlyForCause /\ BubbleLoopInv /\ SortedWhenDone

LEMMA BubbleInitKeeps == BubbleInit => BubbleInv
<1> SUFFICES ASSUME BubbleInit PROVE BubbleInv
  OBVIOUS
<1> USE SortAssumption DEF BubbleInit, Called, Positions, Unsorted
<1>1. BubbleTypeOK
  <2>1. number_of_elements \in Nat
    OBVIOUS
  <2>2. IsPermutation(elements, number_of_elements)
    BY <2>1 DEF IsPermutation
  <2> QED BY <2>1, <2>2 DEF BubbleTypeOK
<1>2. OnlyForCause
  BY DEF OnlyForCause
<1>3. BubbleLoopInv
  BY DEF BubbleLoopInv
<1> QED BY <1>1, <1>2, <1>3 DEF BubbleInv, SortedWhenDone

(* While a comparison is made, both its elements are in the array.               *)
LEMMA BubbleCompareInBounds ==
    ASSUME BubbleTypeOK, pc = "pass", j < number_of_elements - i - 1
    PROVE  j \in Positions(number_of_elements) /\ j + 1 \in Positions(number_of_elements)
            /\ number_of_elements \in Nat /\ i \in Nat
           /\ j + 1 < number_of_elements - i
<1> QED BY DEF BubbleTypeOK, Positions

LEMMA BubbleSwapStep ==
    ASSUME BubbleInv, pc = "pass", j < number_of_elements - i - 1,
           <<elements[j], elements[j + 1]>> \in greater,
           elements' = Swap(elements, j, j + 1), swapped' = TRUE, j' = j + 1,
           UNCHANGED <<number_of_elements, greater, pc, i>>
    PROVE  BubbleInv'
<1>1. j \in Positions(number_of_elements) /\ j + 1 \in Positions(number_of_elements)
        /\ number_of_elements \in Nat /\ i \in Nat /\ j + 1 < number_of_elements - i
      /\ j \in Nat
  BY BubbleCompareInBounds DEF BubbleInv, BubbleTypeOK
<1>2. \A k \in Positions(number_of_elements) :
          elements'[k] = IF k = j + 1 THEN elements[j] ELSE IF k = j THEN elements[j + 1] ELSE elements[k]
  BY <1>1, SwapAt DEF BubbleInv, BubbleTypeOK
<1>3. BubbleTypeOK'
  BY <1>1, SwapAt DEF BubbleInv, BubbleTypeOK
<1>4. OnlyForCause'
  <2>1. \A p \in Positions(number_of_elements) : elements[p] \in Int
    BY DEF BubbleInv, BubbleTypeOK, IsPermutation, Positions
  <2> QED BY <1>1, <1>2, <2>1 DEF BubbleInv, OnlyForCause, Positions
<1>5. ASSUME IsStrictWeakOrder(greater, number_of_elements)
      PROVE  /\ \A p, q \in Positions(number_of_elements) : p < q
              /\ number_of_elements - i <= q => <<elements'[p], elements'[q]>> \notin greater
             /\ \A p \in 0..(j' - 1) : <<elements'[p], elements'[j']>> \notin greater
  <2>1. \A p, q \in Positions(number_of_elements) : p < q /\ number_of_elements - i <= q =>
          <<elements[p], elements[q]>> \notin greater
    BY <1>5 DEF BubbleInv, BubbleLoopInv
  <2>2. ASSUME NEW p \in Positions(number_of_elements),
               NEW q \in Positions(number_of_elements), p < q, number_of_elements - i <= q
        PROVE  <<elements'[p], elements'[q]>> \notin greater
    <3>1. elements'[q] = elements[q] /\ j < q /\ j + 1 < q
      BY <1>1, <1>2, <2>2 DEF Positions
    <3> QED BY <1>1, <1>2, <2>1, <2>2, <3>1
  <2>3. ASSUME NEW p \in 0..j PROVE <<elements'[p], elements'[j + 1]>> \notin greater
    <3>1. elements'[j + 1] = elements[j] /\ p \in Positions(number_of_elements)
      BY <1>1, <1>2 DEF Positions
    <3>2. CASE p = j
      <4>1. elements[j] \in Positions(number_of_elements)
              /\ elements[j + 1] \in Positions(number_of_elements)
        BY <1>1 DEF BubbleInv, BubbleTypeOK, IsPermutation
      <4>2. elements'[p] = elements[j + 1]
        BY <1>1, <1>2, <3>2
      <4> QED BY <1>5, <3>1, <4>1, <4>2 DEF IsStrictWeakOrder
    <3>3. CASE p # j
      <4>1. p \in 0..(j - 1) /\ elements'[p] = elements[p]
        BY <1>1, <1>2, <3>1, <3>3
      <4> QED BY <1>1, <1>5, <3>1, <4>1 DEF BubbleInv, BubbleLoopInv, Positions
    <3> QED BY <3>2, <3>3
  <2>4. j' - 1 = j /\ j' = j + 1
    BY <1>1
  <2> QED BY <2>2, <2>3, <2>4
<1>6. BubbleLoopInv'
  BY <1>5 DEF BubbleLoopInv
<1> QED BY <1>3, <1>4, <1>6 DEF BubbleInv, SortedWhenDone

LEMMA BubbleKeepStep ==
    ASSUME BubbleInv, pc = "pass", j < number_of_elements - i - 1,
           <<elements[j], elements[j + 1]>> \notin greater,
           j' = j + 1, UNCHANGED <<elements, swapped, number_of_elements, greater, pc, i>>
    PROVE  BubbleInv'
<1>1. j \in Positions(number_of_elements) /\ j + 1 \in Positions(number_of_elements)
        /\ number_of_elements \in Nat /\ i \in Nat /\ j + 1 < number_of_elements - i
      /\ j \in Nat
  BY BubbleCompareInBounds DEF BubbleInv, BubbleTypeOK
<1>2. BubbleTypeOK' /\ OnlyForCause'
  BY <1>1 DEF BubbleInv, BubbleTypeOK, OnlyForCause
<1>3. ASSUME IsStrictWeakOrder(greater, number_of_elements), NEW p \in 0..j
      PROVE  <<elements[p], elements[j + 1]>> \notin greater
  <2>1. CASE p = j
    BY <2>1
  <2>2. CASE p # j
    <3>1. p \in 0..(j - 1) /\ p \in Positions(number_of_elements) /\ j < number_of_elements
      BY <1>1, <2>2 DEF Positions
    <3>2. <<elements[p], elements[j]>> \notin greater
      BY <1>3, <3>1 DEF BubbleInv, BubbleLoopInv
    <3>3. elements[p] \in Positions(number_of_elements)
            /\ elements[j] \in Positions(number_of_elements)
            /\ elements[j + 1] \in Positions(number_of_elements)
      BY <1>1, <3>1 DEF BubbleInv, BubbleTypeOK, IsPermutation
    <3> QED BY <1>3, <3>2, <3>3 DEF IsStrictWeakOrder
  <2> QED BY <2>1, <2>2
<1>4. ASSUME IsStrictWeakOrder(greater, number_of_elements), ~swapped,
             NEW p \in Positions(number_of_elements),
             NEW q \in Positions(number_of_elements), p < q, q <= j + 1
      PROVE  <<elements[p], elements[q]>> \notin greater
  <2>1. CASE q = j + 1
    BY <1>1, <1>3, <1>4, <2>1 DEF Positions
  <2>2. CASE q # j + 1
    <3>1. q <= j
      BY <1>1, <1>4, <2>2 DEF Positions
    <3> QED BY <1>4, <3>1 DEF BubbleInv, BubbleLoopInv
  <2> QED BY <2>1, <2>2
<1>5. j' - 1 = j
  BY <1>1
<1>6. BubbleLoopInv'
  BY <1>3, <1>4, <1>5 DEF BubbleInv, BubbleLoopInv
<1> QED BY <1>2, <1>6 DEF BubbleInv, SortedWhenDone

(* At the end of a pass one more element is in its place.                        *)
LEMMA BubbleEndPassStep == BubbleInv /\ EndPass => BubbleInv'
<1> SUFFICES ASSUME BubbleInv, EndPass PROVE BubbleInv'
  OBVIOUS
<1>1. number_of_elements \in Nat /\ i \in Nat /\ j \in Nat
        /\ (j = 0 \/ j <= number_of_elements - i - 1) /\ j >= number_of_elements - i - 1
  BY DEF BubbleInv, BubbleTypeOK, EndPass
<1>2. BubbleTypeOK' /\ OnlyForCause'
  <2>1. UNCHANGED <<number_of_elements, greater, elements>> /\ i' \in Nat /\ j' \in Nat
          /\ swapped' \in BOOLEAN
        /\ (pc' = "done" \/ (pc' = "pass" /\ j' = 0))
    <3>1. i' \in Nat /\ UNCHANGED <<number_of_elements, greater, elements>> /\ j \in Nat
            /\ swapped \in BOOLEAN
      BY <1>1 DEF EndPass, BubbleInv, BubbleTypeOK
    <3>2. CASE swapped
      <4>1. pc' = "pass" /\ j' = 0 /\ swapped' = FALSE
        BY <3>2 DEF EndPass
      <4> QED BY <3>1, <4>1
    <3>3. CASE ~swapped
      BY <3>1, <3>3 DEF EndPass
    <3> QED BY <3>1, <3>2, <3>3
  <2>2. BubbleTypeOK'
    BY <2>1 DEF BubbleInv, BubbleTypeOK
  <2> QED BY <2>1, <2>2 DEF BubbleInv, OnlyForCause
<1>3. ASSUME IsStrictWeakOrder(greater, number_of_elements),
             NEW p \in Positions(number_of_elements),
             NEW q \in Positions(number_of_elements), p < q, number_of_elements - (i + 1) <= q
      PROVE  <<elements[p], elements[q]>> \notin greater
  <2>1. CASE number_of_elements - i <= q
    BY <1>3, <2>1 DEF BubbleInv, BubbleLoopInv, EndPass
  <2>2. CASE q < number_of_elements - i
    <3>1. q = j /\ p \in 0..(j - 1) /\ j < number_of_elements
      BY <1>1, <1>3, <2>2 DEF Positions
    <3> QED BY <1>3, <3>1 DEF BubbleInv, BubbleLoopInv, EndPass
  <2> QED BY <1>1, <2>1, <2>2 DEF Positions
<1>4. CASE swapped
  <2>1. j' = 0 /\ swapped' = FALSE /\ pc' = "pass" /\ i' = i + 1
          /\ UNCHANGED <<number_of_elements, greater, elements>>
    BY <1>4 DEF EndPass
  <2>2. 0..(j' - 1) = {}
    BY <2>1
  <2>3. \A p, q \in Positions(number_of_elements) : ~(p < q /\ q <= 0)
    BY DEF Positions
  <2>4. BubbleLoopInv'
    BY <1>3, <2>1, <2>2, <2>3 DEF BubbleLoopInv
  <2> QED BY <1>2, <2>1, <2>4 DEF BubbleInv, SortedWhenDone
<1>5. CASE ~swapped
  <2>1. pc' = "done" /\ UNCHANGED <<number_of_elements, greater, elements>>
    BY <1>5 DEF EndPass
  <2>2. ASSUME IsStrictWeakOrder(greater, number_of_elements),
               NEW p \in Positions(number_of_elements),
               NEW q \in Positions(number_of_elements), p < q
        PROVE  <<elements[p], elements[q]>> \notin greater
    <3>1. CASE number_of_elements - (i + 1) <= q
      BY <1>3, <2>2, <3>1
    <3>2. CASE q < number_of_elements - (i + 1)
      <4>1. q <= j
        BY <1>1, <3>2 DEF Positions
      <4> QED BY <1>5, <2>2, <4>1 DEF BubbleInv, BubbleLoopInv, EndPass
    <3> QED BY <1>1, <3>1, <3>2 DEF Positions
  <2>3. BubbleLoopInv' /\ SortedWhenDone'
    BY <2>1, <2>2 DEF BubbleLoopInv, SortedWhenDone, IsSorted
  <2> QED BY <1>2, <2>3 DEF BubbleInv
<1> QED BY <1>4, <1>5

LEMMA BubbleStep == BubbleInv /\ [BubbleNext]_bvars => BubbleInv'
<1> SUFFICES ASSUME BubbleInv, [BubbleNext]_bvars PROVE BubbleInv'
  OBVIOUS
<1>1. CASE Compare
  BY <1>1, BubbleSwapStep, BubbleKeepStep DEF Compare
<1>2. CASE EndPass
  BY <1>2, BubbleEndPassStep
<1>3. CASE UNCHANGED bvars
  BY <1>3 DEF bvars, BubbleInv, BubbleTypeOK, OnlyForCause, BubbleLoopInv, SortedWhenDone
<1> QED BY <1>1, <1>2, <1>3 DEF BubbleNext

(* No access outside the array and no element lost, whatever compareFun says.    *)
THEOREM BubbleTypeCorrect == BubbleSpec => []BubbleTypeOK
<1>1. BubbleInv => BubbleTypeOK
  BY DEF BubbleInv
<1> QED BY BubbleInitKeeps, BubbleStep, <1>1, PTL DEF BubbleSpec

(* The sort is stable, at every moment and whatever compareFun says.             *)
THEOREM BubbleStability == BubbleSpec => []OnlyForCause
<1>1. BubbleInv => OnlyForCause
  BY DEF BubbleInv
<1> QED BY BubbleInitKeeps, BubbleStep, <1>1, PTL DEF BubbleSpec

(* The loop invariant the sortedness of the result rests on.                     *)
THEOREM BubbleLoopInvariant == BubbleSpec => []BubbleLoopInv
<1>1. BubbleInv => BubbleLoopInv
  BY DEF BubbleInv
<1> QED BY BubbleInitKeeps, BubbleStep, <1>1, PTL DEF BubbleSpec

(* The early exit of BubbleSort_sort never leaves an array unsorted.             *)
THEOREM BubbleSortedness == BubbleSpec => []SortedWhenDone
<1>1. BubbleInv => SortedWhenDone
  BY DEF BubbleInv
<1> QED BY BubbleInitKeeps, BubbleStep, <1>1, PTL DEF BubbleSpec

----------------------------------------------------------------------------------
(* The tree in the array: every place but the root has a parent before it, of      *)
(* which it is one of the two children.                                            *)
LEMMA ParentOf ==
    ASSUME NEW k \in Nat, k # 0
    PROVE  /\ Parent(k) \in Nat /\ Parent(k) < k
           /\ k = 2 * Parent(k) + 1 \/ k = 2 * Parent(k) + 2
  BY DEF Parent

LEMMA ChildrenOf ==
    ASSUME NEW p \in Nat
    PROVE  Parent(2 * p + 1) = p /\ Parent(2 * p + 2) = p
  BY DEF Parent

(* In a heap without a sinking element nothing is greater than the root.           *)
LEMMA RootIsGreatest ==
    ASSUME HeapTypeOK, HeapInv, IsStrictWeakOrder(greater, number_of_elements),
           ~sifting, HeapFrom = 0, HeapSize <= number_of_elements,
           NEW k \in 0..(HeapSize - 1)
    PROVE  ~Greater(k, 0)
  <1> DEFINE T == {x \in 0..(HeapSize - 1) : Greater(x, 0)}
  <1>1. number_of_elements \in Nat /\ HeapSize \in Int
    BY DEF HeapTypeOK, HeapSize
  <1>2. \A x \in 0..(HeapSize - 1) : x \in Positions(number_of_elements)
          /\ elements[x] \in Positions(number_of_elements)
    BY <1>1 DEF HeapTypeOK, IsPermutation, Positions
  <1>3. ASSUME NEW x \in T, \A y \in T : ~(y < x) PROVE FALSE
    <2>1. x \in Nat /\ x < HeapSize /\ 0 \in 0..(HeapSize - 1)
      BY <1>1
    <2>2. x # 0
      BY <1>2, <2>1 DEF IsStrictWeakOrder, Greater
    <2>3. Parent(x) \in Nat /\ Parent(x) < x
      BY <2>1, <2>2, ParentOf
    <2>4. Parent(x) \in 0..(HeapSize - 1) /\ x \in 1..(HeapSize - 1)
      BY <1>1, <2>1, <2>2, <2>3
    <2>5. ~Greater(Parent(x), 0)
      BY <1>3, <2>3, <2>4
    <2>6. ~Greater(x, Parent(x))
      BY <2>3, <2>4 DEF HeapInv
    <2> QED
      BY <1>2, <2>1, <2>4, <2>5, <2>6 DEF Greater, IsStrictWeakOrder
  <1>4. T \subseteq Nat
    OBVIOUS
  <1> QED
    BY <1>3, <1>4, LeastNatural

-------------------------------------------------------------------------------
(* At the start no place from the counter on has a child.                          *)
LEMMA HeapInitKeeps == HeapInit => HeapTypeOK /\ HeapInv /\ SortedWhenDone
  <1> SUFFICES ASSUME HeapInit PROVE HeapTypeOK /\ HeapInv /\ SortedWhenDone
    OBVIOUS
  <1>1. /\ number_of_elements \in Nat /\ pc = "build" /\ ~sifting /\ sifting = FALSE
        /\ n = 0 /\ index = 0
        /\ i = number_of_elements \div 2 - 1 /\ elements = Unsorted(number_of_elements)
    BY SortAssumption DEF HeapInit, Called
  <1>2. IsPermutation(elements, number_of_elements)
    BY <1>1 DEF IsPermutation, Unsorted
  <1>3. i \in -1..(number_of_elements - 1)
    BY <1>1
  <1>4. HeapTypeOK
    <2>1. n \in 0..number_of_elements /\ index \in Nat
      BY <1>1
    <2> QED
      BY <1>1, <1>2, <1>3, <2>1 DEF HeapTypeOK
  <1>5. \A k \in 1..(number_of_elements - 1) : ~(Parent(k) >= i + 1)
    BY <1>1 DEF Parent
  <1>6. HeapInv
    BY <1>1, <1>5 DEF HeapInv, HeapFrom, HeapSize
  <1> QED
    BY <1>1, <1>4, <1>6 DEF SortedWhenDone

(* The place the counter reaches is the one whose element sinks first.              *)
LEMMA BuildKeeps ==
    ASSUME HeapTypeOK, HeapInv, Build
    PROVE  (HeapTypeOK /\ HeapInv)'
  <1>1. /\ pc = "build" /\ pc' = "build" /\ ~sifting /\ sifting' = TRUE /\ i >= 0
        /\ n' = number_of_elements /\ index' = i
        /\ UNCHANGED <<number_of_elements, greater, elements, i>>
    BY DEF Build
  <1>2. number_of_elements \in Nat /\ i \in Nat /\ i < number_of_elements
    BY <1>1 DEF HeapTypeOK
  <1>3. HeapTypeOK'
    BY <1>1, <1>2 DEF HeapTypeOK
  <1>4. HeapFrom = i + 1 /\ HeapFrom' = i /\ HeapSize' = HeapSize /\ HeapSize = number_of_elements
    BY <1>1 DEF HeapFrom, HeapSize
  <1>5. ASSUME NEW k \in 1..(number_of_elements - 1), Parent(k) >= i, Parent(k) # i
        PROVE  Parent(k) >= i + 1
    BY <1>2, <1>5, ParentOf
  <1>6. index' > 0 => ~(Parent(index') >= i)
    BY <1>1, <1>2, ParentOf
  <1>7. \A p, q : Greater(p, q)' = Greater(p, q)
    BY <1>1 DEF Greater
  <1>8. HeapInv'
    BY <1>1, <1>2, <1>4, <1>5, <1>6, <1>7 DEF HeapInv
  <1> QED
    BY <1>3, <1>8

(* With the counter at the start the whole array is a heap.                         *)
LEMMA BuiltKeeps ==
    ASSUME HeapTypeOK, HeapInv, Built
    PROVE  (HeapTypeOK /\ HeapInv)'
  <1>1. /\ pc = "build" /\ pc' = "extract" /\ ~sifting /\ i < 0
        /\ i' = number_of_elements - 1
        /\ UNCHANGED <<number_of_elements, greater, elements, sifting, n, index>>
    BY DEF Built
  <1>2. number_of_elements \in Nat /\ i = -1
    BY <1>1 DEF HeapTypeOK
  <1>3. HeapTypeOK'
    BY <1>1, <1>2 DEF HeapTypeOK
  <1>4. HeapFrom = 0 /\ HeapFrom' = 0 /\ HeapSize' = number_of_elements
          /\ HeapSize = number_of_elements
    BY <1>1, <1>2 DEF HeapFrom, HeapSize
  <1>5. \A q \in Positions(number_of_elements) : ~(number_of_elements <= q)
    BY <1>2 DEF Positions
  <1>7. \A p, q : Greater(p, q)' = Greater(p, q)
    BY <1>1 DEF Greater
  <1>8. HeapInv'
    BY <1>1, <1>2, <1>4, <1>5, <1>7 DEF HeapInv
  <1> QED
    BY <1>3, <1>8

(* The root is greatest, so it belongs behind all that stays in the heap.          *)
LEMMA ExtractKeeps ==
    ASSUME HeapTypeOK, HeapInv, Extract
    PROVE  (HeapTypeOK /\ HeapInv)'
  <1>1. /\ pc = "extract" /\ pc' = "extract" /\ ~sifting /\ sifting' = TRUE /\ i >= 0
        /\ n' = i /\ index' = 0 /\ elements' = Swap(elements, 0, i)
        /\ UNCHANGED <<number_of_elements, greater, i>>
    BY DEF Extract
  <1>2. number_of_elements \in Nat /\ i \in Nat /\ i < number_of_elements
    BY <1>1 DEF HeapTypeOK
  <1>3. 0 \in Positions(number_of_elements) /\ i \in Positions(number_of_elements)
    BY <1>2 DEF Positions
  <1>4. /\ \A k \in Positions(number_of_elements) :
              elements'[k] = IF k = i THEN elements[0] ELSE IF k = 0 THEN elements[i] ELSE elements[k]
        /\ IsPermutation(elements', number_of_elements)
    BY <1>1, <1>2, <1>3, SwapAt DEF HeapTypeOK
  <1>5. HeapTypeOK'
    BY <1>1, <1>2, <1>4 DEF HeapTypeOK
  <1>6. HeapFrom = 0 /\ HeapFrom' = 0 /\ HeapSize' = i /\ HeapSize = i + 1
    BY <1>1 DEF HeapFrom, HeapSize
  <1>7. ASSUME IsStrictWeakOrder(greater, number_of_elements) PROVE HeapInv'
    <2>1. ASSUME NEW k \in 1..(i - 1), Parent(k) # 0 PROVE ~Greater(k, Parent(k))'
      <3>1. Parent(k) \in Nat /\ Parent(k) < k
        BY <1>2, ParentOf
      <3>2. elements'[k] = elements[k] /\ elements'[Parent(k)] = elements[Parent(k)]
        BY <1>2, <1>4, <2>1, <3>1 DEF Positions
      <3>3. ~Greater(k, Parent(k))
        BY <1>1, <1>2, <1>6, <1>7, <3>1 DEF HeapInv
      <3> QED
        BY <1>1, <3>2, <3>3 DEF Greater
    <2>2. ASSUME NEW p \in Positions(number_of_elements), NEW q \in Positions(number_of_elements),
                 i <= q, p < q
          PROVE  ~Greater(p, q)'
      <3>1. p \in Nat /\ q \in Nat /\ q < number_of_elements
        BY <1>2 DEF Positions
      <3>2. CASE q = i
        <4>1. elements'[q] = elements[0]
          BY <1>4, <3>2
        <4>2. PICK k \in 0..i : elements'[p] = elements[k]
          BY <1>2, <1>4, <2>2, <3>1, <3>2
        <4>3. ~Greater(k, 0)
          BY <1>1, <1>2, <1>6, <1>7, RootIsGreatest
        <4> QED
          BY <1>1, <4>1, <4>2, <4>3 DEF Greater
      <3>3. CASE q # i
        <4>1. elements'[q] = elements[q] /\ i + 1 <= q
          BY <1>2, <1>4, <2>2, <3>1, <3>3
        <4>2. PICK k \in Positions(number_of_elements) : k < q /\ elements'[p] = elements[k]
          BY <1>2, <1>3, <1>4, <2>2, <3>1, <3>3
        <4>3. ~Greater(k, q)
          BY <1>1, <1>6, <1>7, <4>1, <4>2 DEF HeapInv
        <4> QED
          BY <1>1, <4>1, <4>2, <4>3 DEF Greater
      <3> QED
        BY <3>2, <3>3
    <2> QED
      BY <1>1, <1>2, <1>6, <2>1, <2>2 DEF HeapInv
  <1>8. HeapInv'
    BY <1>1, <1>7 DEF HeapInv
  <1> QED
    BY <1>5, <1>8

(* With nothing left in the heap all that is behind it is the whole array.           *)
LEMMA HeapReturnKeeps ==
    ASSUME HeapTypeOK, HeapInv, HeapReturn
    PROVE  (HeapTypeOK /\ HeapInv /\ SortedWhenDone)'
  <1>1. /\ pc = "extract" /\ pc' = "done" /\ ~sifting /\ i < 0
        /\ UNCHANGED <<number_of_elements, greater, elements, i, sifting, n, index>>
    BY DEF HeapReturn
  <1>2. HeapTypeOK'
    BY <1>1 DEF HeapTypeOK
  <1>3. HeapFrom' = HeapFrom /\ HeapSize' = HeapSize /\ HeapSize = 0
    BY <1>1 DEF HeapTypeOK, HeapFrom, HeapSize
  <1>4. \A p, q : Greater(p, q)' = Greater(p, q)
    BY <1>1 DEF Greater
  <1>5. HeapInv'
    BY <1>1, <1>3, <1>4 DEF HeapInv
  <1>6. ASSUME IsStrictWeakOrder(greater, number_of_elements),
               NEW p \in Positions(number_of_elements),
               NEW q \in Positions(number_of_elements), p < q
        PROVE  <<elements[p], elements[q]>> \notin greater
    <2>1. 0 <= q
      BY DEF Positions
    <2> QED
      BY <1>1, <1>3, <1>6, <2>1 DEF HeapInv, Greater
  <1>7. SortedWhenDone'
    BY <1>1, <1>6 DEF SortedWhenDone, IsSorted
  <1> QED
    BY <1>2, <1>5, <1>7

-------------------------------------------------------------------------------
(* What Heapify finds: the largest of a place and its children, given a proper     *)
(* order; in any case one of them.                                                 *)
LEMMA LargestIs ==
    ASSUME HeapTypeOK, sifting
    PROVE  /\ Largest = index \/ (Largest \in {Left, Right} /\ Largest < n)
           /\ IsStrictWeakOrder(greater, number_of_elements) =>
                /\ Largest # index => Greater(Largest, index)
                /\ \A k \in {Left, Right} : k < n => ~Greater(k, Largest)
  <1>1. /\ index \in Nat /\ n \in Nat /\ number_of_elements \in Nat
        /\ n <= number_of_elements /\ index < number_of_elements
    BY DEF HeapTypeOK
  <1>2. Left \in Nat /\ Right \in Nat /\ Left # index /\ Right # index /\ Left # Right
    BY <1>1 DEF Left, Right
  <1>3. Largest = index \/ (Largest \in {Left, Right} /\ Largest < n)
    BY DEF Largest, LargerOfLeft
  <1>4. ASSUME IsStrictWeakOrder(greater, number_of_elements)
        PROVE  /\ Largest # index => Greater(Largest, index)
               /\ \A k \in {Left, Right} : k < n => ~Greater(k, Largest)
    <2>1. \A k \in Nat : k < number_of_elements => elements[k] \in Positions(number_of_elements)
      BY DEF HeapTypeOK, IsPermutation, Positions
    <2>2. elements[index] \in Positions(number_of_elements)
      BY <1>1, <2>1
    <2>3. \A k \in {Left, Right} : k < n => elements[k] \in Positions(number_of_elements)
      <3>1. \A k \in {Left, Right} : k \in Nat
        BY <1>2
      <3>2. \A k \in Nat : k < n => k < number_of_elements
        BY <1>1
      <3> QED
        BY <2>1, <3>1, <3>2
    <2>4. CASE LargerOfLeft = index
      <3>1. Left < n => ~Greater(Left, index)
        BY <1>2, <2>4 DEF LargerOfLeft
      <3> QED
        BY <1>2, <1>4, <2>2, <2>3, <2>4, <3>1 DEF Largest, Greater, IsStrictWeakOrder
    <2>5. CASE LargerOfLeft # index
      <3>1. LargerOfLeft = Left /\ Left < n /\ Greater(Left, index)
        BY <2>5 DEF LargerOfLeft
      <3> QED
        BY <1>2, <1>4, <2>2, <2>3, <3>1 DEF Largest, Greater, IsStrictWeakOrder
    <2> QED
      BY <2>4, <2>5
  <1> QED
    BY <1>3, <1>4

(* Heapify returns: the sinking element is in its place.                           *)
LEMMA SiftEndKeeps ==
    ASSUME HeapTypeOK, HeapInv, SiftDown, Largest = index
    PROVE  (HeapTypeOK /\ HeapInv)'
  <1>1. /\ sifting /\ sifting' = FALSE /\ i' = i - 1
        /\ UNCHANGED <<number_of_elements, greater, elements, pc, n, index>>
    BY DEF SiftDown
  <1>2. /\ number_of_elements \in Nat /\ i \in Nat /\ i < number_of_elements /\ index \in Nat
        /\ n = HeapSize /\ n \in Nat
    BY <1>1 DEF HeapTypeOK, HeapSize
  <1>3. HeapTypeOK'
    <2>1. i' \in -1..(number_of_elements - 1)
      BY <1>1, <1>2
    <2> QED
      BY <1>1, <1>2, <2>1 DEF HeapTypeOK
  <1>4. HeapFrom' = HeapFrom /\ HeapSize' = HeapSize
    BY <1>1, <1>2 DEF HeapFrom, HeapSize
  <1>5. \A p, q : Greater(p, q)' = Greater(p, q)
    BY <1>1 DEF Greater
  <1>6. ASSUME IsStrictWeakOrder(greater, number_of_elements),
               NEW k \in 1..(HeapSize - 1), Parent(k) = index
        PROVE  ~Greater(k, index)
    <2>1. k \in {Left, Right} /\ k < n
      BY <1>2, <1>6, ParentOf DEF Left, Right
    <2> QED
      BY <1>1, <1>6, <2>1, LargestIs
  <1>7. HeapInv'
    BY <1>1, <1>4, <1>5, <1>6 DEF HeapInv
  <1> QED
    BY <1>3, <1>7

(* One level down: the largest child takes the place of the sinking element.       *)
LEMMA SiftKeeps ==
    ASSUME HeapTypeOK, HeapInv, SiftDown, Largest # index
    PROVE  (HeapTypeOK /\ HeapInv)'
  <1> DEFINE N == number_of_elements
             large == Largest
  <1>1. /\ sifting /\ sifting' = sifting /\ elements' = Swap(elements, index, large)
          /\ index' = large
        /\ UNCHANGED <<number_of_elements, greater, pc, n, i>>
    BY DEF SiftDown
  <1>2. /\ N \in Nat /\ i \in Nat /\ i < N /\ index \in Nat /\ index < N
        /\ n = HeapSize /\ n \in Nat /\ n <= N
    BY <1>1 DEF HeapTypeOK, HeapSize
  <1>3. large \in {2 * index + 1, 2 * index + 2} /\ large < n
    BY <1>1, LargestIs DEF Left, Right
  <1>4. large \in Nat /\ index < large /\ Parent(large) = index /\ index < n
    BY <1>2, <1>3, ChildrenOf
  <1>5. index \in Positions(N) /\ large \in Positions(N)
    BY <1>2, <1>3, <1>4 DEF Positions
  <1>6. /\ \A k \in Positions(N) :
              elements'[k] = IF k = large THEN elements[index]
                             ELSE IF k = index THEN elements[large] ELSE elements[k]
        /\ IsPermutation(elements', N)
    BY <1>1, <1>2, <1>5, SwapAt DEF HeapTypeOK
  <1>7. HeapTypeOK'
    BY <1>1, <1>2, <1>3, <1>4, <1>6 DEF HeapTypeOK
  <1>8. HeapFrom' = HeapFrom /\ HeapSize' = HeapSize /\ HeapFrom \in Nat
    BY <1>1, <1>2 DEF HeapFrom, HeapSize
  <1>9. ASSUME IsStrictWeakOrder(greater, N) PROVE HeapInv'
    <2>1. /\ Greater(large, index)
          /\ \A k \in {2 * index + 1, 2 * index + 2} : k < n => ~Greater(k, large)
      BY <1>1, <1>9, LargestIs DEF Left, Right
    <2>2. ~Greater(index, large)
      BY <1>5, <1>9, <2>1 DEF HeapTypeOK, IsPermutation, IsStrictWeakOrder, Greater
    <2>3. \A p, q \in Positions(N) :
             Greater(p, q)' <=>
                Greater(IF p = large THEN index ELSE IF p = index THEN large ELSE p,
                        IF q = large THEN index ELSE IF q = index THEN large ELSE q)
      BY <1>1, <1>6 DEF Greater
    <2>4. ASSUME NEW k \in 1..(HeapSize - 1)
          PROVE  /\ Parent(k) \in Nat /\ Parent(k) < k
                 /\ k = 2 * Parent(k) + 1 \/ k = 2 * Parent(k) + 2
                 /\ k \in Nat /\ k < n /\ k \in Positions(N) /\ Parent(k) \in Positions(N)
      BY <1>2, ParentOf DEF Positions
    <2>5. ASSUME NEW k \in 1..(HeapSize - 1), Parent(k) >= HeapFrom, Parent(k) # large
          PROVE  ~Greater(k, Parent(k))'
      <3>1. CASE Parent(k) = index
        <4>1. CASE k = large
          BY <1>4, <1>5, <2>2, <2>3, <3>1, <4>1
        <4>2. CASE k # large
          <5>1. ~Greater(k, large)
            BY <2>1, <2>4, <3>1
          <5>2. k # index
            BY <2>4, <3>1, <1>2
          <5> QED
            BY <1>4, <1>5, <2>3, <2>4, <3>1, <4>2, <5>1, <5>2
        <4> QED
          BY <4>1, <4>2
      <3>2. CASE Parent(k) # index /\ k = index
        <4>1. ~Greater(large, Parent(index))
          BY <1>1, <1>2, <1>3, <1>4, <1>9, <2>5, <3>2 DEF HeapInv
        <4> QED
          BY <1>4, <1>5, <2>3, <2>4, <2>5, <3>2, <4>1
      <3>3. CASE Parent(k) # index /\ k # index
        <4>1. ~Greater(k, Parent(k))
          BY <1>1, <1>9, <2>5, <3>3 DEF HeapInv
        <4>2. k # large
          BY <1>4, <3>3
        <4> QED
          BY <2>3, <2>4, <2>5, <3>3, <4>1, <4>2
      <3> QED
        BY <3>1, <3>2, <3>3
    <2>6. ASSUME NEW k \in 1..(HeapSize - 1), Parent(k) = large, index >= HeapFrom
          PROVE  <<elements'[k], elements'[index]>> \notin greater
      <3>1. ~Greater(k, large)
        <4>1. Parent(k) >= HeapFrom /\ Parent(k) # index
          BY <1>2, <1>4, <1>8, <2>6
        <4> QED
          BY <1>9, <2>6, <4>1 DEF HeapInv
      <3>2. k # large /\ k # index
        BY <1>2, <1>4, <2>4, <2>6
      <3> QED
        BY <1>2, <1>4, <1>5, <1>6, <2>4, <3>1, <3>2 DEF Greater
    <2>7. ASSUME pc # "build", NEW p \in Positions(N),
                 NEW q \in Positions(N), HeapSize <= q, p < q
          PROVE  ~Greater(p, q)'
      <3> DEFINE r == IF p = large THEN index ELSE IF p = index THEN large ELSE p
      <3>1. q # large /\ q # index /\ r \in Positions(N) /\ r < q
        BY <1>2, <1>3, <1>4, <1>5, <2>7 DEF Positions
      <3>2. ~Greater(r, q)
        BY <1>9, <2>7, <3>1 DEF HeapInv
      <3> QED
        BY <2>3, <3>1, <3>2
    <2>8. /\ HeapSize' = HeapSize /\ HeapFrom' = HeapFrom /\ index' = large
            /\ Parent(large) = index
          /\ sifting /\ sifting' /\ pc' = pc /\ number_of_elements' = N
      BY <1>1, <1>4, <1>8
    <2>9. ASSUME NEW k \in 1..(HeapSize' - 1)
          PROVE  /\ Parent(k) >= HeapFrom' /\ Parent(k) # index' =>
                      <<elements'[k], elements'[Parent(k)]>> \notin greater'
                 /\ Parent(k) = index' /\ Parent(index') >= HeapFrom' =>
                      <<elements'[k], elements'[Parent(index')]>> \notin greater'
      <3>1. k \in 1..(HeapSize - 1) /\ greater' = greater
        BY <1>1, <2>8
      <3> HIDE DEF large, N
      <3>2. ASSUME Parent(k) >= HeapFrom', Parent(k) # index'
            PROVE  <<elements'[k], elements'[Parent(k)]>> \notin greater'
        BY <2>5, <2>8, <3>1, <3>2 DEF Greater
      <3>3. ASSUME Parent(k) = index', Parent(index') >= HeapFrom'
            PROVE  <<elements'[k], elements'[Parent(index')]>> \notin greater'
        BY <2>6, <2>8, <3>1, <3>3
      <3> QED
        BY <3>2, <3>3
    <2>10. ASSUME pc' # "build", NEW p \in Positions(number_of_elements'),
                  NEW q \in Positions(number_of_elements'), HeapSize' <= q, p < q
           PROVE  <<elements'[p], elements'[q]>> \notin greater'
      BY <2>7, <2>8, <2>10 DEF Greater
    <2> HIDE DEF large, N
    <2> QED
      BY <2>8, <2>9, <2>10 DEF HeapInv, Greater
  <1>10. HeapInv'
    BY <1>1, <1>9 DEF HeapInv
  <1> QED
    BY <1>7, <1>10

(* The three are inductive together.                                               *)
LEMMA HeapStep ==
    HeapTypeOK /\ HeapInv /\ SortedWhenDone /\ [HeapNext]_hvars =>
            (HeapTypeOK /\ HeapInv /\ SortedWhenDone)'
  <1> SUFFICES ASSUME HeapTypeOK, HeapInv, SortedWhenDone, [HeapNext]_hvars
               PROVE  (HeapTypeOK /\ HeapInv /\ SortedWhenDone)'
    OBVIOUS
  <1>1. CASE UNCHANGED hvars
    BY <1>1 DEF hvars, HeapTypeOK, HeapInv, SortedWhenDone, HeapFrom, HeapSize, Greater
  <1>2. CASE Build \/ Built \/ Extract
    <2>1. pc' # "done"
      BY <1>2 DEF Build, Built, Extract
    <2> QED
      BY <1>2, <2>1, BuildKeeps, BuiltKeeps, ExtractKeeps DEF SortedWhenDone
  <1>3. CASE HeapReturn
    BY <1>3, HeapReturnKeeps
  <1>4. CASE SiftDown
    <2>1. (HeapTypeOK /\ HeapInv)'
      BY <1>4, SiftEndKeeps, SiftKeeps
    <2>2. pc' # "done"
      BY <1>4 DEF SiftDown, HeapTypeOK
    <2> QED
      BY <2>1, <2>2 DEF SortedWhenDone
  <1> QED
    BY <1>1, <1>2, <1>3, <1>4 DEF HeapNext

(* So they hold always.                                                            *)
LEMMA HeapInvariance == HeapSpec => [](HeapTypeOK /\ HeapInv /\ SortedWhenDone)
  BY HeapInitKeeps, HeapStep, PTL DEF HeapSpec

(* Heap sort swaps only elements of the array and loses none, with any compareFun   *)
(* and any number of elements.                                                     *)
THEOREM HeapTypeCorrect == HeapSpec => []HeapTypeOK
  BY HeapInvariance, PTL

(* With a strict weak order, the places from the build counter on are a heap but   *)
(* for the sinking element, and what is behind the heap is in its final place.     *)
THEOREM HeapInvariant == HeapSpec => []HeapInv
  BY HeapInvariance, PTL

(* With a strict weak order, the array is sorted when HeapSort_sort returns.       *)
THEOREM HeapSortedness == HeapSpec => []SortedWhenDone
  BY HeapInvariance, PTL

----------------------------------------------------------------------------------
(* The three side by side: each keeps its invariant when it is the one called.        *)
SortsInv ==
    /\ sort = "bubble" => BubbleInv
    /\ sort = "selection" => SelectionTypeOK /\ SelectionLoopInv /\ SortedWhenDone
    /\ sort = "heap" => HeapTypeOK /\ HeapInv /\ SortedWhenDone

LEMMA SortsInvariance == Spec => []SortsInv
<1>1. Init => SortsInv
  <2>1. SelectionInit => SortedWhenDone
    BY DEF SelectionInit, SortedWhenDone
  <2> QED BY <2>1, BubbleInitKeeps, SelectionInitKeeps, HeapInitKeeps DEF Init, SortsInv
<1>2. SortsInv /\ [Next]_vars => SortsInv'
  <2> SUFFICES ASSUME SortsInv, [Next]_vars PROVE SortsInv'
    OBVIOUS
  <2>1. sort' = sort
    BY DEF Next, vars
  <2>2. CASE sort = "bubble"
    <3>1. [BubbleNext]_bvars
      BY <2>2 DEF Next, vars, bvars
    <3> QED BY <2>1, <2>2, <3>1, BubbleStep DEF SortsInv
  <2>3. CASE sort = "selection"
    <3>1. [SelectionNext]_svars
      BY <2>3 DEF Next, vars, svars
    <3> QED BY <2>1, <2>3, <3>1, SelectionStep, SelectionSortedKeeps DEF SortsInv
  <2>4. CASE sort = "heap"
    <3>1. [HeapNext]_hvars
      BY <2>4 DEF Next, vars, hvars
    <3> QED BY <2>1, <2>4, <3>1, HeapStep DEF SortsInv
  <2> QED BY <2>1, <2>2, <2>3, <2>4 DEF SortsInv
<1> QED BY <1>1, <1>2, PTL DEF Spec

(* BubbleSort_sort compares and swaps elements of the array only, and loses none.   *)
THEOREM BubbleElementsStay == Spec => []BubbleElements
<1>1. SortsInv => BubbleElements
  BY DEF SortsInv, BubbleInv, BubbleElements
<1> QED BY <1>1, SortsInvariance, PTL

(* BubbleSort_sort is stable at every moment.                                       *)
THEOREM BubbleStabilityHolds == Spec => []BubbleStable
<1>1. SortsInv => BubbleStable
  BY DEF SortsInv, BubbleInv, BubbleStable
<1> QED BY <1>1, SortsInvariance, PTL

(* What a pass of BubbleSort_sort has put in order.                                 *)
THEOREM BubblePassHolds == Spec => []BubblePass
<1>1. SortsInv => BubblePass
  BY DEF SortsInv, BubbleInv, BubblePass
<1> QED BY <1>1, SortsInvariance, PTL

(* With a strict weak order BubbleSort_sort sorts.                                  *)
THEOREM BubbleSortingHolds == Spec => []BubbleSorts
<1>1. SortsInv => BubbleSorts
  BY DEF SortsInv, BubbleInv, BubbleSorts
<1> QED BY <1>1, SortsInvariance, PTL

(* SelectionSort_sort swaps elements of the array only, and loses none.             *)
THEOREM SelectionElementsStay == Spec => []SelectionElements
<1>1. SortsInv => SelectionElements
  BY DEF SortsInv, SelectionElements
<1> QED BY <1>1, SortsInvariance, PTL

(* What the two loops of SelectionSort_sort have reached.                           *)
THEOREM SelectionLoopsHold == Spec => []SelectionLoops
<1>1. SortsInv => SelectionLoops
  BY DEF SortsInv, SelectionLoops
<1> QED BY <1>1, SortsInvariance, PTL

(* With a strict weak order SelectionSort_sort sorts.                               *)
THEOREM SelectionSortingHolds == Spec => []SelectionSorts
<1>1. SortsInv => SelectionSorts
  BY DEF SortsInv, SelectionSorts
<1> QED BY <1>1, SortsInvariance, PTL

(* HeapSort_sort swaps elements of the array only, and loses none.                  *)
THEOREM HeapElementsStay == Spec => []HeapElements
<1>1. SortsInv => HeapElements
  BY DEF SortsInv, HeapElements
<1> QED BY <1>1, SortsInvariance, PTL

(* HeapSort_sort keeps its heap, but for the element that is sinking.               *)
THEOREM HeapIsKept == Spec => []HeapKept
<1>1. SortsInv => HeapKept
  BY DEF SortsInv, HeapKept
<1> QED BY <1>1, SortsInvariance, PTL

(* With a strict weak order HeapSort_sort sorts.                                    *)
THEOREM HeapSortingHolds == Spec => []HeapSorts
<1>1. SortsInv => HeapSorts
  BY DEF SortsInv, HeapSorts
<1> QED BY <1>1, SortsInvariance, PTL

----------------------------------------------------------------------------------
(* What a sort does depends on nothing but compareFun, as soon as that leaves no      *)
(* choice: the result is the only sorted arrangement there is.                        *)
IsTotal(gt, m) == \A x, y \in Positions(m) : x # y => <<x, y>> \in gt \/ <<y, x>> \in gt

SortedArray(gt, m) ==
    CHOOSE a \in [Positions(m) -> Positions(m)] : IsPermutation(a, m) /\ IsSorted(a, m, gt)

(* compareFun, with elements it calls equal kept in the order they came in.           *)
Stably(gt, m) ==
    gt \cup {pair \in Positions(m) \X Positions(m) :
                /\ pair \notin gt /\ <<pair[2], pair[1]>> \notin gt
                /\ pair[1] > pair[2]}

(* An array of n places into which n elements go once has all of them.                *)
LEMMA PermutationIsOnto ==
    ASSUME NEW m \in Nat, NEW a, IsPermutation(a, m), NEW x \in Positions(m)
    PROVE  \E p \in Positions(m) : a[p] = x
  <1> SUFFICES ASSUME \A p \in Positions(m) : a[p] # x PROVE FALSE
    OBVIOUS
  <1> DEFINE P == 0..(m - 1)
             T == P \ {x}
  <1>1. Positions(m) = P /\ x \in P /\ m - 1 \in Int
    BY DEF Positions
  <1>2. IsFiniteSet(P) /\ Cardinality(P) = m
    <2>1. IsFiniteSet(P) /\ Cardinality(P) = IF 0 > m - 1 THEN 0 ELSE (m - 1) - 0 + 1
      BY FS_Interval
    <2> QED
      BY <2>1
  <1>3. IsFiniteSet(T) /\ Cardinality(T) = Cardinality(P) - 1
    BY <1>1, <1>2, FS_RemoveElement
  <1>4. a \in [P -> T]
    BY <1>1 DEF IsPermutation
  <1>5. Cardinality(T) < Cardinality(P)
    BY <1>2, <1>3
  <1> HIDE DEF P, T
  <1>6. \E p, q \in P : p # q /\ a[p] = a[q]
    BY <1>2, <1>3, <1>4, <1>5, FS_PigeonHole
  <1> QED
    BY <1>1, <1>6 DEF IsPermutation

(* At the least place where two sorted arrangements differ, each has the element of   *)
(* the other behind it.                                                               *)
LEMMA SortedIsUnique ==
    ASSUME NEW m \in Nat, NEW gt, IsTotal(gt, m),
           NEW a, IsPermutation(a, m), IsSorted(a, m, gt),
           NEW b, IsPermutation(b, m), IsSorted(b, m, gt)
    PROVE  a = b
  <1> DEFINE D == {p \in Positions(m) : a[p] # b[p]}
  <1>1. SUFFICES D = {}
    <2>1. a \in [Positions(m) -> Positions(m)] /\ b \in [Positions(m) -> Positions(m)]
      BY DEF IsPermutation
    <2> QED
      BY <2>1
  <1>2. SUFFICES ASSUME D # {} PROVE FALSE
    OBVIOUS
  <1>3. PICK p \in D : \A q \in D : ~(q < p)
    <2>1. D \subseteq Nat
      BY DEF Positions
    <2> HIDE DEF D
    <2> QED
      BY <1>2, <2>1, LeastNatural
  <1>4. p \in Positions(m) /\ a[p] # b[p] /\ a[p] \in Positions(m) /\ b[p] \in Positions(m)
    BY DEF IsPermutation
  <1>5. \A q \in Positions(m) : q < p => a[q] = b[q]
    BY <1>3
  <1>6. \A q \in Positions(m) : q < p \/ q = p \/ p < q
    BY <1>4 DEF Positions
  <1>7. <<a[p], b[p]>> \notin gt
    <2>1. PICK q \in Positions(m) : a[q] = b[p]
      BY <1>4, PermutationIsOnto
    <2>2. p < q
      BY <1>4, <1>5, <1>6, <2>1 DEF IsPermutation
    <2> QED
      BY <1>4, <2>1, <2>2 DEF IsSorted
  <1>8. <<b[p], a[p]>> \notin gt
    <2>1. PICK q \in Positions(m) : b[q] = a[p]
      BY <1>4, PermutationIsOnto
    <2>2. p < q
      BY <1>4, <1>5, <1>6, <2>1 DEF IsPermutation
    <2> QED
      BY <1>4, <2>1, <2>2 DEF IsSorted
  <1> QED
    BY <1>4, <1>7, <1>8 DEF IsTotal

LEMMA SortedIsTheArray ==
    ASSUME NEW m \in Nat, NEW gt, IsTotal(gt, m),
           NEW a, IsPermutation(a, m), IsSorted(a, m, gt)
    PROVE  a = SortedArray(gt, m)
  <1> DEFINE s == SortedArray(gt, m)
  <1>1. IsPermutation(s, m) /\ IsSorted(s, m, gt)
    <2>1. a \in [Positions(m) -> Positions(m)]
      BY DEF IsPermutation
    <2> QED
      BY <2>1 DEF SortedArray
  <1> HIDE DEF s
  <1>2. a = s
    BY <1>1, SortedIsUnique
  <1> QED
    BY <1>2 DEF s

(* BubbleSort_sort is the stable sort: of elements compareFun calls equal, the one    *)
(* that came first stays first. There is only one such arrangement.                   *)
BubbleSortsStably ==
    pc = "done" /\ IsStrictWeakOrder(greater, number_of_elements) =>
        elements = SortedArray(Stably(greater, number_of_elements), number_of_elements)

(* With a strict weak order BubbleSort_sort leaves nothing open: for every length the  *)
(* result is the one arrangement that is sorted and stable.                           *)
THEOREM BubbleResult == BubbleSpec => []BubbleSortsStably
  <1>1. BubbleTypeOK /\ OnlyForCause /\ SortedWhenDone => BubbleSortsStably
    <2> SUFFICES ASSUME BubbleTypeOK, OnlyForCause, SortedWhenDone, pc = "done",
                        IsStrictWeakOrder(greater, number_of_elements)
                 PROVE  elements = SortedArray(Stably(greater, number_of_elements), number_of_elements)
      BY DEF BubbleSortsStably
    <2> DEFINE m == number_of_elements
               gt == Stably(greater, m)
    <2>1. m \in Nat /\ IsPermutation(elements, m) /\ IsSorted(elements, m, greater)
      BY DEF BubbleTypeOK, SortedWhenDone
    <2>2. \A p \in Positions(m) : elements[p] \in Positions(m) /\ elements[p] \in Nat
      BY <2>1 DEF IsPermutation, Positions
    <2>3. IsTotal(gt, m)
      <3> SUFFICES ASSUME NEW x \in Positions(m), NEW y \in Positions(m), x # y
                   PROVE  <<x, y>> \in gt \/ <<y, x>> \in gt
        BY DEF IsTotal
      <3>1. x > y \/ y > x
        BY DEF Positions
      <3> QED
        BY <3>1 DEF Stably
    <2>4. IsSorted(elements, m, gt)
      <3> SUFFICES ASSUME NEW p \in Positions(m), NEW q \in Positions(m), p < q,
                          <<elements[p], elements[q]>> \in gt
                   PROVE  FALSE
        BY DEF IsSorted
      <3>1. <<elements[p], elements[q]>> \notin greater
        BY <2>1 DEF IsSorted
      <3>2. <<elements[q], elements[p]>> \notin greater /\ elements[p] > elements[q]
        BY <3>1 DEF Stably
      <3> QED
        BY <3>2 DEF OnlyForCause
    <2> HIDE DEF m, gt
    <2>5. elements = SortedArray(gt, m)
      BY <2>1, <2>3, <2>4, SortedIsTheArray
    <2> QED
      BY <2>5 DEF m, gt
  <1> QED
    BY <1>1, BubbleTypeCorrect, BubbleStability, BubbleSortedness, PTL

(* SelectionSort_sort and HeapSort_sort move equal elements past each other; where    *)
(* there are none they give the same array.                                           *)
SortsTotally ==
    pc = "done" /\ IsStrictWeakOrder(greater, number_of_elements)
                /\ IsTotal(greater, number_of_elements)
        => elements = SortedArray(greater, number_of_elements)

LEMMA SortedIsTotallySorted ==
    ASSUME number_of_elements \in Nat, IsPermutation(elements, number_of_elements), SortedWhenDone
    PROVE  SortsTotally
  <1> SUFFICES ASSUME pc = "done", IsStrictWeakOrder(greater, number_of_elements),
                      IsTotal(greater, number_of_elements)
               PROVE  elements = SortedArray(greater, number_of_elements)
    BY DEF SortsTotally
  <1>1. IsSorted(elements, number_of_elements, greater)
    BY DEF SortedWhenDone
  <1> QED
    BY <1>1, SortedIsTheArray

(* So SelectionSort_sort has one possible result when no two elements are equal,       *)
THEOREM SelectionResult == SelectionSpec => []SortsTotally
  <1>1. SelectionTypeOK /\ SortedWhenDone => SortsTotally
    BY SortedIsTotallySorted DEF SelectionTypeOK
  <1> QED
    BY <1>1, SelectionTypeCorrect, SelectionSortedness, PTL

(* and HeapSort_sort has the same one, although both are not stable.                   *)
THEOREM HeapResult == HeapSpec => []SortsTotally
  <1>1. HeapTypeOK /\ SortedWhenDone => SortsTotally
    BY SortedIsTotallySorted DEF HeapTypeOK
  <1> QED
    BY <1>1, HeapTypeCorrect, HeapSortedness, PTL

----------------------------------------------------------------------------------
(* How long the sorts run, with whatever compareFun. Each count of steps left is a     *)
(* natural number that every step makes smaller: there is no behaviour with more       *)
(* steps than the count says at the start.                                             *)

(* Sums 1 + ... + a.                                                                    *)
LEMMA Triangle ==
    ASSUME NEW a \in Nat
    PROVE  /\ (a * (a + 1)) \div 2 \in Nat
           /\ ((a + 1) * ((a + 1) + 1)) \div 2 = (a * (a + 1)) \div 2 + (a + 1)
  <1> DEFINE x == a * (a + 1)
  <1>1. x \in Nat
    OBVIOUS
  <1>2. (a + 1) * ((a + 1) + 1) = x + 2 * (a + 1)
    OBVIOUS
  <1> HIDE DEF x
  <1>3. x \div 2 \in Nat /\ (x + 2 * (a + 1)) \div 2 = x \div 2 + (a + 1)
    BY <1>1
  <1> QED
    BY <1>2, <1>3 DEF x

(* Bubble sort: at most 1 + ... + n comparisons and ends of passes.                      *)
BubbleStepsLeft ==
    LET a == number_of_elements - i
    IN  IF pc = "done" THEN 0 ELSE (a * (a + 1)) \div 2 + 1 - j

(* There is no further pass without a swap, and none with too few elements for one.      *)
BubbleProgress ==
    pc = "pass" => /\ i <= number_of_elements
                   /\ swapped => j # 0

LEMMA BubbleProgressStep == BubbleTypeOK /\ BubbleProgress /\ [BubbleNext]_bvars => BubbleProgress'
  <1> SUFFICES ASSUME BubbleTypeOK, BubbleProgress, [BubbleNext]_bvars PROVE BubbleProgress'
    OBVIOUS
  <1>1. number_of_elements \in Nat /\ i \in Nat /\ j \in Nat
    BY DEF BubbleTypeOK
  <1>2. CASE Compare
    BY <1>1, <1>2 DEF BubbleProgress, Compare
  <1>3. CASE EndPass
    <2>1. CASE swapped
      <3>1. j # 0 /\ j <= number_of_elements - i - 1
        BY <1>3, <2>1 DEF BubbleProgress, EndPass, BubbleTypeOK
      <3> QED
        BY <1>1, <1>3, <2>1, <3>1 DEF BubbleProgress, EndPass
    <2>2. CASE ~swapped
      BY <1>3, <2>2 DEF BubbleProgress, EndPass
    <2> QED
      BY <2>1, <2>2
  <1>4. CASE UNCHANGED bvars
    BY <1>4 DEF BubbleProgress, bvars
  <1> QED
    BY <1>2, <1>3, <1>4 DEF BubbleNext

LEMMA BubbleCount ==
    ASSUME BubbleTypeOK, BubbleProgress
    PROVE  BubbleStepsLeft \in Nat
  <1> DEFINE a == number_of_elements - i
  <1>1. CASE pc = "done"
    BY <1>1 DEF BubbleStepsLeft
  <1>2. CASE pc = "pass"
    <2>1. a \in Nat /\ j \in Nat /\ (j = 0 \/ j <= a - 1)
      BY <1>2 DEF BubbleTypeOK, BubbleProgress
    <2> HIDE DEF a
    <2>2. CASE a = 0
      <3>1. (a * (a + 1)) \div 2 \in Nat /\ j = 0
        BY <2>1, <2>2, Triangle
      <3>2. (a * (a + 1)) \div 2 + 1 - j \in Nat
        BY <3>1
      <3> QED
        BY <1>2, <3>2 DEF BubbleStepsLeft, a
    <2>3. CASE a # 0
      <3>1. a - 1 \in Nat /\ (a - 1) + 1 = a
        BY <2>1, <2>3
      <3>2. /\ ((a - 1) * a) \div 2 \in Nat
            /\ (a * (a + 1)) \div 2 = ((a - 1) * a) \div 2 + a
        BY <3>1, Triangle
      <3>3. (a * (a + 1)) \div 2 + 1 - j \in Nat
        BY <2>1, <3>2
      <3> QED
        BY <1>2, <3>3 DEF BubbleStepsLeft, a
    <2> QED
      BY <2>2, <2>3
  <1> QED
    BY <1>1, <1>2 DEF BubbleTypeOK

LEMMA BubbleCountsDown ==
    ASSUME BubbleTypeOK, BubbleProgress, BubbleNext
    PROVE  BubbleStepsLeft' < BubbleStepsLeft
  <1> DEFINE a == number_of_elements - i
  <1>1. number_of_elements \in Nat /\ i \in Nat /\ j \in Nat /\ pc = "pass" /\ a \in Nat
    BY DEF BubbleTypeOK, BubbleProgress, BubbleNext, Compare, EndPass
  <1>2. (a * (a + 1)) \div 2 \in Nat
    BY <1>1, Triangle
  <1>3. CASE Compare
    <2>1. BubbleStepsLeft = (a * (a + 1)) \div 2 + 1 - j
      BY <1>1 DEF BubbleStepsLeft
    <2>2. BubbleStepsLeft' = (a * (a + 1)) \div 2 + 1 - (j + 1)
      BY <1>1, <1>3 DEF BubbleStepsLeft, Compare
    <2> HIDE DEF a
    <2> QED
      BY <1>1, <1>2, <2>1, <2>2
  <1>4. CASE EndPass /\ swapped
    <2>1. j # 0 /\ j <= a - 1
      BY <1>1, <1>4 DEF BubbleProgress, BubbleTypeOK
    <2>2. a - 1 \in Nat /\ (a - 1) + 1 = a /\ number_of_elements - (i + 1) = a - 1
      BY <1>1, <2>1
    <2>3. BubbleStepsLeft = (a * (a + 1)) \div 2 + 1 - j
      BY <1>1 DEF BubbleStepsLeft
    <2>4. BubbleStepsLeft' = ((a - 1) * ((a - 1) + 1)) \div 2 + 1 - 0
      BY <1>1, <1>4, <2>2 DEF BubbleStepsLeft, EndPass
    <2> HIDE DEF a
    <2>5. /\ ((a - 1) * ((a - 1) + 1)) \div 2 \in Nat
          /\ (a * (a + 1)) \div 2 = ((a - 1) * ((a - 1) + 1)) \div 2 + a
      BY <2>2, Triangle
    <2> QED
      BY <1>1, <2>1, <2>3, <2>4, <2>5
  <1>5. CASE EndPass /\ ~swapped
    <2>1. BubbleStepsLeft' = 0
      BY <1>5 DEF BubbleStepsLeft, EndPass
    <2>2. BubbleStepsLeft = (a * (a + 1)) \div 2 + 1 - j
      BY <1>1 DEF BubbleStepsLeft
    <2>3. j = 0 \/ j <= a - 1
      BY <1>1 DEF BubbleTypeOK
    <2>4. a # 0 => j < (a * (a + 1)) \div 2 + 1
      <3> SUFFICES ASSUME a # 0 PROVE j < (a * (a + 1)) \div 2 + 1
        OBVIOUS
      <3>1. a - 1 \in Nat /\ (a - 1) + 1 = a
        BY <1>1
      <3> HIDE DEF a
      <3>2. /\ ((a - 1) * a) \div 2 \in Nat
            /\ (a * (a + 1)) \div 2 = ((a - 1) * a) \div 2 + a
        BY <3>1, Triangle
      <3> QED
        BY <1>1, <2>3, <3>2
    <2> HIDE DEF a
    <2> QED
      BY <1>1, <1>2, <2>1, <2>2, <2>3, <2>4
  <1> QED
    BY <1>3, <1>4, <1>5 DEF BubbleNext

(* BubbleSort_sort ends after n * (n + 1) / 2 + 1 steps at the latest, even with a    *)
(* compareFun that makes every comparison a swap.                                     *)
THEOREM BubbleEnds ==
    BubbleSpec => [](BubbleStepsLeft \in Nat) /\ [][BubbleStepsLeft' < BubbleStepsLeft]_bvars
  <1>1. BubbleInit => BubbleProgress
    BY SortAssumption DEF BubbleInit, Called, BubbleProgress
  <1>2. BubbleSpec => []BubbleTypeOK
    BY BubbleTypeCorrect
  <1>3. BubbleTypeOK /\ BubbleProgress => BubbleStepsLeft \in Nat
    BY BubbleCount
  <1>4. BubbleTypeOK /\ BubbleProgress /\ [BubbleNext]_bvars => [BubbleStepsLeft' < BubbleStepsLeft]_bvars
    BY BubbleCountsDown
  <1> QED
    BY <1>1, <1>2, <1>3, <1>4, BubbleProgressStep, PTL DEF BubbleSpec

----------------------------------------------------------------------------------
(* Selection sort: each round of the outer loop starts a scan, looks at what is left   *)
(* and ends it. Without elements there is nothing to look at, but OuterBound rounds.   *)
RoundsLeft(a) == (a * (a + 3)) \div 2 - 1

SelectionStepsLeft ==
    CASE pc = "done" -> 0
      [] pc = "outer" /\ number_of_elements = 0 -> 2 * (OuterBound - i) + 1
      [] pc = "inner" /\ number_of_elements = 0 -> 2 * (OuterBound - i)
      [] pc = "outer" /\ number_of_elements # 0 -> RoundsLeft(number_of_elements - i)
      [] pc = "inner" /\ number_of_elements # 0 ->
            RoundsLeft(number_of_elements - i - 1) + number_of_elements - j + 1

LEMMA Rounds ==
    ASSUME NEW a \in Nat
    PROVE  /\ RoundsLeft(a + 1) \in Nat /\ RoundsLeft(1) = 1
           /\ RoundsLeft(a + 1) = RoundsLeft(a) + a + 2
           /\ RoundsLeft(a) \in Int
  <1> DEFINE x == a * (a + 3)
  <1>1. x \in Nat
    OBVIOUS
  <1>2. (a + 1) * ((a + 1) + 3) = x + 2 * (a + 2)
    OBVIOUS
  <1> HIDE DEF x
  <1>3. x \div 2 \in Nat /\ (x + 2 * (a + 2)) \div 2 = x \div 2 + (a + 2)
    BY <1>1
  <1>4. RoundsLeft(a) = x \div 2 - 1
    BY DEF RoundsLeft, x
  <1>5. RoundsLeft(a + 1) = (x \div 2 + (a + 2)) - 1
    BY <1>2, <1>3 DEF RoundsLeft
  <1>6. RoundsLeft(1) = 1
    BY DEF RoundsLeft
  <1> QED
    BY <1>3, <1>4, <1>5, <1>6

(* What the count is in each loop, with a elements not yet in their places.            *)
LEMMA SelectionCount ==
    ASSUME SelectionTypeOK
    PROVE  SelectionStepsLeft \in Nat
  <1>1. /\ number_of_elements \in Nat /\ OuterBound \in Nat /\ i \in Nat /\ j \in Nat /\ i <= OuterBound
        /\ number_of_elements # 0 => OuterBound = number_of_elements - 1
        /\ pc = "inner" => i < OuterBound
        /\ pc = "inner" /\ number_of_elements # 0 => j <= number_of_elements
        /\ pc \in {"outer", "inner", "done"}
    BY Bounds DEF SelectionTypeOK
  <1>2. CASE pc = "done"
    BY <1>2 DEF SelectionStepsLeft
  <1>3. CASE pc # "done" /\ number_of_elements = 0
    BY <1>1, <1>3 DEF SelectionStepsLeft
  <1>4. CASE pc = "outer" /\ number_of_elements # 0
    <2>1. number_of_elements - i - 1 \in Nat /\ number_of_elements - i = (number_of_elements - i - 1) + 1
      BY <1>1, <1>4
    <2>2. RoundsLeft(number_of_elements - i) \in Nat
      BY <2>1, Rounds
    <2> QED
      BY <1>4, <2>2 DEF SelectionStepsLeft
  <1>5. CASE pc = "inner" /\ number_of_elements # 0
    <2>1. number_of_elements - i - 2 \in Nat
          /\ number_of_elements - i - 1 = (number_of_elements - i - 2) + 1
      BY <1>1, <1>5
    <2>2. RoundsLeft(number_of_elements - i - 1) \in Nat
      BY <2>1, Rounds
    <2>3. RoundsLeft(number_of_elements - i - 1) + number_of_elements - j + 1 \in Nat
      BY <1>1, <1>5, <2>2
    <2> QED
      BY <1>5, <2>3 DEF SelectionStepsLeft
  <1> QED
    BY <1>1, <1>2, <1>3, <1>4, <1>5

LEMMA SelectionCountsDown ==
    ASSUME SelectionTypeOK, SelectionNext
    PROVE  SelectionStepsLeft' = SelectionStepsLeft - 1
  <1> DEFINE m == number_of_elements
  <1>1. /\ m \in Nat /\ OuterBound \in Nat /\ i \in Nat /\ j \in Nat /\ i <= OuterBound
        /\ m # 0 => OuterBound = m - 1
        /\ pc = "inner" => i < OuterBound
        /\ pc = "inner" /\ m # 0 => j <= m
    BY Bounds DEF SelectionTypeOK
  <1>2. OuterBound' = OuterBound /\ m' = m
    BY DEF SelectionNext, StartScan, Scan, EndScan, SelectionReturn, OuterBound
  <1>3. CASE StartScan
    <2>1. pc = "outer" /\ pc' = "inner" /\ i' = i /\ j' = i + 1 /\ i < OuterBound
      BY <1>3 DEF StartScan
    <2>2. CASE m = 0
      BY <1>1, <1>2, <2>1, <2>2 DEF SelectionStepsLeft
    <2>3. CASE m # 0
      <3>1. m - i - 1 \in Nat /\ m - i = (m - i - 1) + 1
        BY <1>1, <2>1, <2>3
      <3>2. RoundsLeft(m - i) = RoundsLeft(m - i - 1) + (m - i - 1) + 2 /\ RoundsLeft(m - i - 1) \in Int
        BY <3>1, Rounds
      <3>3. SelectionStepsLeft = RoundsLeft(m - i)
            /\ SelectionStepsLeft' = RoundsLeft(m - i - 1) + m - (i + 1) + 1
        BY <1>2, <2>1, <2>3 DEF SelectionStepsLeft
      <3> QED
        BY <1>1, <3>2, <3>3
    <2> QED
      BY <2>2, <2>3
  <1>4. CASE Scan
    <2>1. pc = "inner" /\ pc' = "inner" /\ i' = i /\ j' = j + 1 /\ j < m /\ m # 0
      BY <1>1, <1>4 DEF Scan
    <2>2. m - i - 2 \in Nat /\ m - i - 1 = (m - i - 2) + 1
      BY <1>1, <2>1
    <2>3. RoundsLeft(m - i - 1) \in Nat
      BY <2>2, Rounds
    <2>4. SelectionStepsLeft = RoundsLeft(m - i - 1) + m - j + 1
          /\ SelectionStepsLeft' = RoundsLeft(m - i - 1) + m - (j + 1) + 1
      BY <1>2, <2>1 DEF SelectionStepsLeft
    <2> QED
      BY <1>1, <2>3, <2>4
  <1>5. CASE EndScan
    <2>1. pc = "inner" /\ pc' = "outer" /\ i' = i + 1 /\ j >= m
      BY <1>5 DEF EndScan
    <2>2. CASE m = 0
      BY <1>1, <1>2, <2>1, <2>2 DEF SelectionStepsLeft
    <2>3. CASE m # 0
      <3>1. m - i - 2 \in Nat /\ m - i - 1 = (m - i - 2) + 1 /\ m - (i + 1) = m - i - 1 /\ j = m
        BY <1>1, <2>1, <2>3
      <3>2. RoundsLeft(m - i - 1) \in Nat
        BY <3>1, Rounds
      <3>3. SelectionStepsLeft = RoundsLeft(m - i - 1) + m - j + 1
            /\ SelectionStepsLeft' = RoundsLeft(m - i - 1)
        BY <1>2, <2>1, <2>3, <3>1 DEF SelectionStepsLeft
      <3> QED
        BY <1>1, <3>1, <3>2, <3>3
    <2> QED
      BY <2>2, <2>3
  <1>6. CASE SelectionReturn
    <2>1. pc = "outer" /\ pc' = "done" /\ i = OuterBound
      BY <1>1, <1>6 DEF SelectionReturn
    <2>2. CASE m = 0
      BY <1>1, <1>2, <2>1, <2>2 DEF SelectionStepsLeft
    <2>3. CASE m # 0
      <3>1. m - i = 1
        BY <1>1, <2>1, <2>3
      <3>2. RoundsLeft(1) = 1
        BY Rounds
      <3> QED
        BY <1>2, <2>1, <2>3, <3>1, <3>2 DEF SelectionStepsLeft
    <2> QED
      BY <2>2, <2>3
  <1> QED
    BY <1>3, <1>4, <1>5, <1>6 DEF SelectionNext

(* SelectionSort_sort takes the same number of steps for every order of its n elements *)
(* and every compareFun: n * (n + 3) / 2 - 1; without elements, two for each number     *)
(* below the largest word and one more.                                                *)
THEOREM SelectionEnds ==
    SelectionSpec => [](SelectionStepsLeft \in Nat)
                     /\ [][SelectionStepsLeft' = SelectionStepsLeft - 1]_svars
  <1>1. SelectionSpec => []SelectionTypeOK
    BY SelectionTypeCorrect
  <1>2. SelectionTypeOK => SelectionStepsLeft \in Nat
    BY SelectionCount
  <1>3. SelectionTypeOK /\ [SelectionNext]_svars => [SelectionStepsLeft' = SelectionStepsLeft - 1]_svars
    BY SelectionCountsDown
  <1> QED
    BY <1>1, <1>2, <1>3, PTL DEF SelectionSpec

----------------------------------------------------------------------------------
(* Heap sort: below place k of the tree there are no more levels than                   *)
(* number_of_elements \div (k + 1) can be halved; Heapify goes down one of them per     *)
(* step and then returns.                                                              *)
SiftStepsLeft(k) == Halvings(number_of_elements)[number_of_elements \div (k + 1)] + 1

(* One round of either loop: the call of Heapify, and its steps from the root.          *)
RoundSteps == SiftStepsLeft(0) + 1

HeapStepsLeft ==
    IF pc = "done" THEN 0
    ELSE (IF sifting THEN i * RoundSteps + SiftStepsLeft(index) ELSE (i + 1) * RoundSteps)
         + (IF pc = "build" THEN number_of_elements * RoundSteps + 2 ELSE 1)

(* Heapify needs fewer steps from every place it may go down to.                       *)
LEMMA SiftSteps ==
    ASSUME HeapTypeOK
    PROVE  /\ \A k \in Nat : SiftStepsLeft(k) \in Nat \ {0} /\ SiftStepsLeft(k) < RoundSteps
           /\ RoundSteps \in Nat
           /\ \A k, l \in Nat : 2 * k + 1 <= l /\ l < number_of_elements => SiftStepsLeft(l) < SiftStepsLeft(k)
  <1> DEFINE m == number_of_elements
             h == Halvings(m)
  <1>1. m \in Nat
    BY DEF HeapTypeOK
  <1>2. /\ h \in [0..m -> Nat]
        /\ \A q \in 0..m : h[q] = IF q <= 1 THEN 0 ELSE 1 + h[q \div 2]
        /\ \A a, b \in 0..m : a <= b => h[a] <= h[b]
    BY <1>1, HalvingsAre, HalvingsGrow
  <1>3. \A k \in Nat : SiftStepsLeft(k) = h[m \div (k + 1)] + 1
    BY DEF SiftStepsLeft
  <1> HIDE DEF m, h
  <1>4. \A k \in Nat : m \div (k + 1) \in 0..m
    <2> SUFFICES ASSUME NEW k \in Nat PROVE m \div (k + 1) \in 0..m
      OBVIOUS
    <2>1. k + 1 \in Nat /\ k + 1 > 0
      OBVIOUS
    <2> DEFINE d == k + 1
               q == m \div d
    <2>2. d * q <= m /\ q \in Nat
      BY <1>1, <2>1
    <2>3. q <= d * q
      BY <2>1, <2>2
    <2> QED
      BY <1>1, <2>2, <2>3
  <1>5. m \in 0..m /\ m \div (0 + 1) = m
    BY <1>1
  <1>6. SiftStepsLeft(0) = h[m] + 1 /\ h[m] \in Nat /\ RoundSteps = (h[m] + 1) + 1
    BY <1>2, <1>3, <1>5 DEF RoundSteps
  <1>7. ASSUME NEW k \in Nat PROVE SiftStepsLeft(k) \in Nat \ {0} /\ SiftStepsLeft(k) < RoundSteps
    <2>1. m \div (k + 1) \in 0..m /\ m \div (k + 1) <= m
      BY <1>4
    <2>2. h[m \div (k + 1)] \in Nat /\ h[m \div (k + 1)] <= h[m]
      BY <1>2, <1>5, <2>1
    <2>3. SiftStepsLeft(k) = h[m \div (k + 1)] + 1
      BY <1>3
    <2> QED
      BY <1>6, <2>2, <2>3
  <1>8. ASSUME NEW k \in Nat, NEW l \in Nat, 2 * k + 1 <= l, l < m
        PROVE  SiftStepsLeft(l) < SiftStepsLeft(k)
    <2> DEFINE a == m \div (l + 1)
               b == m \div (k + 1)
    <2>1. a \in 0..m /\ b \in 0..m
      BY <1>4
    <2>2. /\ (l + 1) * a <= m
          /\ m < (k + 1) * b + (k + 1)
      <3>1. l + 1 \in Nat /\ l + 1 > 0 /\ k + 1 \in Nat /\ k + 1 > 0
        OBVIOUS
      <3>2. \A d \in Nat : d > 0 => d * (m \div d) <= m /\ m < d * (m \div d) + d
        BY <1>1
      <3> QED
        BY <3>1, <3>2
    <2>3. b >= 2
      <3>1. 2 * (k + 1) <= m
        BY <1>1, <1>8
      <3> HIDE DEF a, b
      <3>2. SUFFICES ASSUME b <= 1 PROVE FALSE
        BY <2>1
      <3>3. (k + 1) * b <= k + 1
        BY <2>1, <3>2
      <3> QED
        BY <1>1, <2>1, <2>2, <3>1, <3>3
    <2>4. a <= b \div 2
      <3> HIDE DEF a, b
      <3>1. a \in Nat /\ b \in Nat
        BY <2>1
      <3>2. SUFFICES ASSUME b \div 2 < a PROVE FALSE
        BY <3>1
      <3>3. b + 1 <= 2 * a
        BY <3>1, <3>2
      <3>4. (k + 1) * (b + 1) <= (k + 1) * (2 * a)
        BY <3>1, <3>3
      <3>5. (2 * (k + 1)) * a <= (l + 1) * a
        BY <1>8, <3>1
      <3>6. (k + 1) * (b + 1) = (k + 1) * b + (k + 1) /\ (k + 1) * (2 * a) = (2 * (k + 1)) * a
        BY <3>1
      <3>7. /\ (k + 1) * b \in Nat /\ (l + 1) * a \in Nat /\ (2 * (k + 1)) * a \in Nat
        BY <3>1
      <3> QED
        BY <1>1, <2>2, <3>4, <3>5, <3>6, <3>7
    <2>5. SiftStepsLeft(l) = h[a] + 1 /\ SiftStepsLeft(k) = h[b] + 1
      BY <1>3
    <2> HIDE DEF a, b
    <2>6. b \div 2 \in 0..m /\ ~(b <= 1)
      BY <1>1, <2>1, <2>3
    <2>7. h[b] = 1 + h[b \div 2]
      BY <1>2, <2>1, <2>6, Zenon
    <2>8. h[a] <= h[b \div 2] /\ h[a] \in Nat /\ h[b \div 2] \in Nat
      BY <1>2, <2>1, <2>4, <2>6
    <2> QED
      BY <2>5, <2>7, <2>8
  <1> QED
    BY <1>6, <1>7, <1>8 DEF m

(* Products with one factor one more.                                                  *)
LEMMA OneMore ==
    ASSUME NEW a \in Int, NEW c \in Nat
    PROVE  (a + 1) * c = a * c + c /\ a * c \in Int /\ (a >= 0 => a * c \in Nat)
  OBVIOUS

LEMMA HeapCount ==
    ASSUME HeapTypeOK
    PROVE  HeapStepsLeft \in Nat
  <1> DEFINE m == number_of_elements
             c == RoundSteps
  <1>1. /\ m \in Nat /\ i \in -1..(m - 1) /\ sifting \in BOOLEAN /\ index \in Nat
        /\ sifting => i >= 0
    BY DEF HeapTypeOK
  <1>2. c \in Nat /\ SiftStepsLeft(index) \in Nat
    BY <1>1, SiftSteps
  <1>3. HeapStepsLeft =
            IF pc = "done" THEN 0
            ELSE (IF sifting THEN i * c + SiftStepsLeft(index) ELSE (i + 1) * c)
                 + (IF pc = "build" THEN m * c + 2 ELSE 1)
    BY DEF HeapStepsLeft
  <1> HIDE DEF c
  <1>4. m * c \in Nat
    BY <1>1, <1>2
  <1>5. sifting => i * c \in Nat
    BY <1>1, <1>2, OneMore
  <1>6. (i + 1) * c \in Nat
    <2>1. i + 1 \in Nat
      BY <1>1
    <2> QED
      BY <1>2, <2>1, OneMore
  <1> HIDE DEF m
  <1> QED
    BY <1>1, <1>2, <1>3, <1>4, <1>5, <1>6

LEMMA HeapCountsDown ==
    ASSUME HeapTypeOK, HeapNext
    PROVE  HeapStepsLeft' < HeapStepsLeft
  <1> DEFINE m == number_of_elements
             c == RoundSteps
             S(k) == SiftStepsLeft(k)
  <1>1. /\ m \in Nat /\ i \in -1..(m - 1) /\ i \in Int /\ sifting \in BOOLEAN /\ index \in Nat /\ n \in 0..m
        /\ sifting => pc # "done" /\ i >= 0
        /\ c \in Nat /\ \A k \in Nat : S(k) \in Nat \ {0} /\ S(k) < c
        /\ \A k, l \in Nat : 2 * k + 1 <= l /\ l < m => S(l) < S(k)
    BY SiftSteps DEF HeapTypeOK
  <1>2. number_of_elements' = number_of_elements
    BY DEF HeapNext, Build, Built, Extract, HeapReturn, SiftDown
  <1>3. RoundSteps' = RoundSteps /\ SiftStepsLeft(index)' = SiftStepsLeft(index')
    BY <1>2 DEF RoundSteps, SiftStepsLeft
  <1>4. /\ HeapStepsLeft =
            IF pc = "done" THEN 0
            ELSE (IF sifting THEN i * c + S(index) ELSE (i + 1) * c)
                 + (IF pc = "build" THEN m * c + 2 ELSE 1)
        /\ HeapStepsLeft' =
            IF pc' = "done" THEN 0
            ELSE (IF sifting' THEN i' * c + S(index') ELSE (i' + 1) * c)
                 + (IF pc' = "build" THEN m * c + 2 ELSE 1)
    BY <1>2, <1>3 DEF HeapStepsLeft
  <1> DEFINE ic == i * c
             mc == m * c
  <1>5. mc \in Nat /\ ic \in Int /\ (i + 1) * c = ic + c /\ (i >= 0 => ic \in Nat)
    BY <1>1, OneMore
  <1>6. CASE Build \/ Extract
    <2>1. ~sifting /\ sifting' /\ i' = i /\ pc' = pc /\ pc # "done" /\ index' \in Nat
      BY <1>1, <1>6 DEF Build, Extract
    <2>2. S(index') < c /\ S(index') \in Nat
      BY <1>1, <2>1
    <2> HIDE DEF c, S, m, ic, mc
    <2>3. HeapStepsLeft = (ic + c) + (IF pc = "build" THEN mc + 2 ELSE 1)
          /\ HeapStepsLeft' = (ic + S(index')) + (IF pc = "build" THEN mc + 2 ELSE 1)
      BY <1>4, <1>5, <2>1 DEF ic, mc
    <2> QED
      BY <1>1, <1>5, <2>2, <2>3
  <1>7. CASE Built
    <2>1. ~sifting /\ ~sifting' /\ i = -1 /\ i' = m - 1 /\ pc = "build" /\ pc' = "extract"
      BY <1>1, <1>7 DEF Built
    <2>2. i + 1 = 0 /\ i' + 1 = m
      BY <1>1, <2>1
    <2> HIDE DEF c, S, m, ic
    <2>3. HeapStepsLeft = 0 * c + (mc + 2) /\ HeapStepsLeft' = mc + 1
      BY <1>4, <2>1, <2>2
    <2>4. 0 * c = 0
      BY <1>1
    <2> HIDE DEF mc
    <2> QED
      BY <1>5, <2>3, <2>4
  <1>8. CASE HeapReturn
    <2>1. ~sifting /\ i = -1 /\ pc = "extract" /\ pc' = "done"
      BY <1>1, <1>8 DEF HeapReturn
    <2>2. i + 1 = 0
      BY <2>1
    <2> HIDE DEF c, S, m, ic, mc
    <2>3. HeapStepsLeft = 0 * c + 1 /\ HeapStepsLeft' = 0
      BY <1>4, <2>1, <2>2
    <2>4. 0 * c = 0
      BY <1>1
    <2> QED
      BY <2>3, <2>4
  <1>9. CASE SiftDown /\ Largest # index
    <2>1. sifting /\ sifting' /\ i' = i /\ pc' = pc /\ index' = Largest
      BY <1>1, <1>9 DEF SiftDown
    <2>2. Largest \in Nat /\ 2 * index + 1 <= Largest /\ Largest < n
      BY <1>1, <1>9 DEF Largest, LargerOfLeft, Left, Right
    <2>3. S(index') < S(index) /\ S(index') \in Nat /\ S(index) \in Nat
      BY <1>1, <2>1, <2>2
    <2> HIDE DEF c, S, m, ic, mc
    <2>4. HeapStepsLeft = (ic + S(index)) + (IF pc = "build" THEN mc + 2 ELSE 1)
          /\ HeapStepsLeft' = (ic + S(index')) + (IF pc = "build" THEN mc + 2 ELSE 1)
      BY <1>1, <1>4, <2>1 DEF ic, mc
    <2> QED
      BY <1>5, <2>3, <2>4
  <1>10. CASE SiftDown /\ Largest = index
    <2>1. sifting /\ ~sifting' /\ i' = i - 1 /\ i' + 1 = i /\ pc' = pc
      BY <1>1, <1>10 DEF SiftDown
    <2>2. S(index) \in Nat \ {0}
      BY <1>1
    <2> HIDE DEF c, S, m, ic, mc
    <2>3. HeapStepsLeft = (ic + S(index)) + (IF pc = "build" THEN mc + 2 ELSE 1)
          /\ HeapStepsLeft' = ic + (IF pc = "build" THEN mc + 2 ELSE 1)
      BY <1>1, <1>4, <2>1 DEF ic, mc
    <2> QED
      BY <1>5, <2>2, <2>3
  <1> QED
    BY <1>6, <1>7, <1>8, <1>9, <1>10 DEF HeapNext

(* HeapSort_sort ends with whatever compareFun, at the latest after                     *)
(* (n / 2 + n) * (log n + 2) + 2 steps.                                                 *)
THEOREM HeapEnds ==
    HeapSpec =>
      /\ HeapStepsLeft = (number_of_elements \div 2) * RoundSteps + number_of_elements * RoundSteps + 2
      /\ [](HeapStepsLeft \in Nat) /\ [][HeapStepsLeft' < HeapStepsLeft]_hvars
  <1>1. HeapSpec => []HeapTypeOK
    BY HeapTypeCorrect
  <1>2. HeapTypeOK => HeapStepsLeft \in Nat
    BY HeapCount
  <1>3. HeapTypeOK /\ [HeapNext]_hvars => [HeapStepsLeft' < HeapStepsLeft]_hvars
    BY HeapCountsDown
  <1>4. HeapInit =>
            HeapStepsLeft = (number_of_elements \div 2) * RoundSteps + number_of_elements * RoundSteps + 2
    <2> SUFFICES ASSUME HeapInit
                 PROVE  HeapStepsLeft =
                            (number_of_elements \div 2) * RoundSteps + number_of_elements * RoundSteps + 2
      OBVIOUS
    <2>1. number_of_elements \in Nat /\ RoundSteps \in Nat /\ pc = "build" /\ ~sifting
          /\ i + 1 = number_of_elements \div 2 /\ number_of_elements \div 2 \in Nat
      BY HeapInitKeeps, SiftSteps DEF HeapInit, HeapTypeOK
    <2> DEFINE a == (number_of_elements \div 2) * RoundSteps
               b == number_of_elements * RoundSteps
    <2>2. a \in Nat /\ b \in Nat
      BY <2>1
    <2>3. HeapStepsLeft = a + (b + 2)
      BY <2>1 DEF HeapStepsLeft
    <2> HIDE DEF a, b
    <2>4. HeapStepsLeft = a + b + 2
      BY <2>2, <2>3
    <2> QED
      BY <2>4 DEF a, b
  <1> QED
    BY <1>1, <1>2, <1>3, <1>4, PTL DEF HeapSpec

----------------------------------------------------------------------------------
(* The calls of compareFun that ComparesInBounds objects to reach no further than the  *)
(* children of the last element: 2 * number_of_elements is the greatest index.          *)
ComparesReach == compared \subseteq 0..(2 * number_of_elements)

(* They do not reach further, for every length and every compareFun: what HeapSort_sort *)
(* hands to compareFun from behind the array lies within as many elements again, and    *)
(* one more.                                                                          *)
THEOREM HeapReach == HeapSpec => []ComparesReach
  <1>1. HeapInit => ComparesReach
    BY DEF HeapInit, ComparesReach
  <1>2. HeapTypeOK /\ ComparesReach /\ [HeapNext]_hvars => ComparesReach'
    <2> SUFFICES ASSUME HeapTypeOK, ComparesReach, [HeapNext]_hvars PROVE ComparesReach'
      OBVIOUS
    <2>1. CASE SiftDown
      <3>1. /\ number_of_elements \in Nat /\ index \in Nat /\ n \in 0..number_of_elements
            /\ index < number_of_elements
        BY <2>1 DEF HeapTypeOK, SiftDown
      <3>2. {Left, Right, index, LargerOfLeft} \subseteq 0..(2 * number_of_elements)
        BY <3>1 DEF Left, Right, LargerOfLeft
      <3> QED
        BY <2>1, <3>2 DEF SiftDown, ComparesReach
    <2>2. CASE ~SiftDown
      BY <2>2 DEF HeapNext, Build, Built, Extract, HeapReturn, hvars, ComparesReach
    <2> QED
      BY <2>1, <2>2
  <1> QED
    BY <1>1, <1>2, HeapTypeCorrect, PTL DEF HeapSpec

==================================================================================
