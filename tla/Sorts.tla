---------------------------------- MODULE Sorts ----------------------------------
(* The three sorts side by side. They do not call each other: sort says which one has  *)
(* been called; the variables that only another one has keep their first values.       *)
EXTENDS BubbleSort, SelectionSort, HeapSort

VARIABLE sort

vars == <<sort, number_of_elements, greater, elements, pc, i, j,
          swapped, min_index, sifting, n, index, compared>>

Init ==
    \/ /\ sort = "bubble" /\ BubbleInit
       /\ min_index = 0 /\ sifting = FALSE /\ n = 0 /\ index = 0 /\ compared = {}
    \/ /\ sort = "selection" /\ SelectionInit
       /\ swapped = FALSE /\ sifting = FALSE /\ n = 0 /\ index = 0 /\ compared = {}
    \/ /\ sort = "heap" /\ HeapInit
       /\ j = 0 /\ swapped = FALSE /\ min_index = 0

Next ==
    \/ /\ sort = "bubble" /\ BubbleNext
       /\ UNCHANGED <<sort, min_index, sifting, n, index, compared>>
    \/ /\ sort = "selection" /\ SelectionNext
       /\ UNCHANGED <<sort, swapped, sifting, n, index, compared>>
    \/ /\ sort = "heap" /\ HeapNext
       /\ UNCHANGED <<sort, j, swapped, min_index>>

Spec == Init /\ [][Next]_vars /\ WF_vars(Next)

-----------------------------------------------------------------------------------
(* What each of them promises, said in its own module: SortArray, BubbleSort,          *)
(* SelectionSort or HeapSort.                                                          *)

(* BubbleElements: BubbleSort_sort compares and swaps elements of the array only, and  *)
(* loses none.                                                                         *)
BubbleElements == sort = "bubble" => BubbleTypeOK

(* BubbleStable: with whatever compareFun, it changes the order of two elements only   *)
(* if compareFun called the first one greater.                                         *)
BubbleStable == sort = "bubble" => OnlyForCause

(* BubblePass: what has been put in order when a pass has come to j.                   *)
BubblePass == sort = "bubble" => BubbleLoopInv

(* BubbleSorts: given a proper order the result is sorted, early exit included.        *)
BubbleSorts == sort = "bubble" => SortedWhenDone

(* BubbleTerminates: it returns, even if compareFun always says true.                  *)
BubbleTerminates == sort = "bubble" => Terminates

(* SelectionElements: SelectionSort_sort swaps elements of the array only and loses    *)
(* none; without elements it reaches for none.                                         *)
SelectionElements == sort = "selection" => SelectionTypeOK

(* SelectionLoops: the first i elements are final, min_index is least of those scanned. *)
SelectionLoops == sort = "selection" => SelectionLoopInv

(* SelectionSorts: given a proper order the result is sorted.                          *)
SelectionSorts == sort = "selection" => SortedWhenDone

(* SelectionTerminates: it returns, without elements after 2^32 - 1 idle rounds.       *)
SelectionTerminates == sort = "selection" => Terminates

(* HeapElements: HeapSort_sort swaps elements of the array only and loses none.        *)
HeapElements == sort = "heap" => HeapTypeOK

(* HeapKept: what has been built or not yet extracted is a heap, but for the element   *)
(* that is sinking; what has been extracted is in its final place.                     *)
HeapKept == sort = "heap" => HeapInv

(* HeapSorts: given a proper order the result is sorted.                               *)
HeapSorts == sort = "heap" => SortedWhenDone

(* HeapTerminates: it returns, whatever compareFun says while an element sinks.        *)
HeapTerminates == sort = "heap" => Terminates
===================================================================================
