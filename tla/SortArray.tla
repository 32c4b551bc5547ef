-------------------------------- MODULE SortArray --------------------------------
(* What the three sorts of src/Src/sort share: their arguments, the counter of    *)
(* their loops, and what is asked of them. An element is named by the index       *)
(* it had when the sort was called, so an array of n elements is a permutation    *)
(* of 0..n-1, at first the identity. All a sort can learn about the elements is   *)
(* what the caller's compareFun says: <<x, y>> \in greater when it returns true   *)
(* for x as first and y as second argument. It may be any relation at all.        *)
EXTENDS Integers

CONSTANTS MaxElements,      \* bound on number_of_elements
          Comparators(_)    \* the compareFun relations tried on n elements

ASSUME SortAssumption == MaxElements \in Nat

VARIABLES number_of_elements,
          greater,          \* what compareFun answers
          elements,         \* the caller's buffer
          pc,               \* the loop that runs, then "done"
          i                 \* its counter

Positions(n) == 0..(n - 1)

Unsorted(n) == [p \in Positions(n) |-> p]

(* Wrong on purpose: the first of the two elements is overwritten.                *)
SwapLosesOne(a, p, q) == [a EXCEPT ![p] = a[q]]

(* Utils_swapElements, byte by byte in the code: also right for p = q.            *)
Swap(a, p, q) == [a EXCEPT ![p] = a[q], ![q] = a[p]]

(* The call.                                                                      *)
Called ==
    /\ number_of_elements \in 0..MaxElements
    /\ greater \in Comparators(number_of_elements)
    /\ elements = Unsorted(number_of_elements)

------------------------------------------------------------------------------
(* No element is lost: in an array of n elements that is to say none is there     *)
(* twice.                                                                         *)
IsPermutation(a, n) ==
    /\ a \in [Positions(n) -> Positions(n)]
    /\ \A p, q \in Positions(n) : a[p] = a[q] => p = q

IsSorted(a, n, gt) == \A p, q \in Positions(n) : p < q => <<a[p], a[q]>> \notin gt

(* compareFun as its documentation wants it: greater in some ranking.             *)
IsStrictWeakOrder(gt, n) ==
    /\ \A x, y \in Positions(n) : <<x, y>> \in gt => <<y, x>> \notin gt
    /\ \A x, y, z \in Positions(n) :
          <<x, y>> \notin gt /\ <<y, z>> \notin gt => <<x, z>> \notin gt

(* SortedWhenDone: given a proper order, the result is sorted, in particular when *)
(* bubble sort stops early after a pass without a swap.                           *)
SortedWhenDone ==
    pc = "done" /\ IsStrictWeakOrder(greater, number_of_elements)
        => IsSorted(elements, number_of_elements, greater)

(* Terminates: with whatever compareFun, even one that always returns true; and   *)
(* without elements too, in selection sort if only after the largest word's       *)
(* number of rounds.                                                              *)
Terminates == <>(pc = "done")
=============================================================================
