------------------------------- MODULE NestedLoops -------------------------------
(* BubbleSort_sort and SelectionSort_sort run a second loop inside the first.     *)
EXTENDS SortArray

VARIABLE j      \* the counter of the inner loop
=============================================================================
