-------------------------------- MODULE HeapSort --------------------------------
(* HeapSort_sort and Heapify of src/Src/sort/heap_sort.c, one level of the heap   *)
(* per step of Heapify.                                                          *)
EXTENDS SortArray

VARIABLES sifting,          \* whether Heapify has been called and has not returned
          n, index,         \* Heapify's n and index
          compared          \* history: the indices compareFun was given so far

hvars == <<number_of_elements, greater, elements, pc, i, sifting, n, index, compared>>

(* "build" and "extract" are the two loops of HeapSort_sort.                      *)
HeapInit ==
    /\ Called
    /\ pc = "build" /\ i = number_of_elements \div 2 - 1
    /\ sifting = FALSE /\ n = 0 /\ index = 0
    /\ compared = {}

Greater(p, q) == <<elements[p], elements[q]>> \in greater

(* The iterations of the two loops, each of which calls Heapify.                 *)
Build ==
    /\ pc = "build" /\ ~sifting /\ i >= 0
    /\ sifting' = TRUE /\ n' = number_of_elements /\ index' = i
    /\ UNCHANGED <<number_of_elements, greater, elements, pc, i, compared>>

Built ==
    /\ pc = "build" /\ ~sifting /\ i < 0
    /\ pc' = "extract" /\ i' = number_of_elements - 1
    /\ UNCHANGED <<number_of_elements, greater, elements, sifting, n, index, compared>>

(* Wrong on purpose: the element just put in its place sinks with the others.    *)
ExtractKeepsSize ==
    /\ pc = "extract" /\ ~sifting /\ i >= 0
    /\ elements' = Swap(elements, 0, i)
    /\ sifting' = TRUE /\ n' = i + 1 /\ index' = 0
    /\ UNCHANGED <<number_of_elements, greater, pc, i, compared>>

Extract ==
    /\ pc = "extract" /\ ~sifting /\ i >= 0
    /\ elements' = Swap(elements, 0, i)
    /\ sifting' = TRUE /\ n' = i /\ index' = 0
    /\ UNCHANGED <<number_of_elements, greater, pc, i, compared>>

HeapReturn ==
    /\ pc = "extract" /\ ~sifting /\ i < 0
    /\ pc' = "done"
    /\ UNCHANGED <<number_of_elements, greater, elements, i, sifting, n, index, compared>>

(* One iteration of Heapify's loop. compareFun is called for both children        *)
(* before it is known whether they are there; its answer for one that is not is  *)
(* discarded.                                                                    *)
Left  == 2 * index + 1
Right == 2 * index + 2
LargerOfLeft == IF Left < n /\ Greater(Left, index) THEN Left ELSE index
(* Wrong on purpose: the right child is compared with the parent only.           *)
LargestOfTwo == IF Right < n /\ Greater(Right, index) THEN Right ELSE LargerOfLeft

Largest == IF Right < n /\ Greater(Right, LargerOfLeft) THEN Right ELSE LargerOfLeft

(* Wrong on purpose: the loop looks at the same place again after a swap.        *)
SiftInPlace ==
    /\ sifting
    /\ compared' = compared \cup {Left, Right, index, LargerOfLeft}
    /\ IF Largest # index
         THEN elements' = Swap(elements, index, Largest) /\ UNCHANGED <<index, sifting, i>>
         ELSE sifting' = FALSE /\ i' = i - 1 /\ UNCHANGED <<elements, index>>
    /\ UNCHANGED <<number_of_elements, greater, pc, n>>

SiftDown ==
    /\ sifting
    /\ compared' = compared \cup {Left, Right, index, LargerOfLeft}
    /\ IF Largest # index
         THEN /\ elements' = Swap(elements, index, Largest)
              /\ index' = Largest
              /\ UNCHANGED <<sifting, i>>
         ELSE /\ sifting' = FALSE /\ i' = i - 1
              /\ UNCHANGED <<elements, index>>
    /\ UNCHANGED <<number_of_elements, greater, pc, n>>

HeapNext == Build \/ Built \/ Extract \/ HeapReturn \/ SiftDown

HeapSpec == HeapInit /\ [][HeapNext]_hvars /\ WF_hvars(HeapNext)

------------------------------------------------------------------------------
(* HeapTypeOK: every swap is inside the buffer, and no element is lost or doubled.    *)
HeapTypeOK ==
    /\ number_of_elements \in Nat
    /\ IsPermutation(elements, number_of_elements)
    /\ pc \in {"build", "extract", "done"}
    /\ i \in -1..(number_of_elements - 1)
    /\ sifting \in BOOLEAN
    /\ n \in 0..number_of_elements /\ index \in Nat
    /\ sifting => /\ pc # "done" /\ i >= 0 /\ index < number_of_elements
                  /\ n = (IF pc = "build" THEN number_of_elements ELSE i)
                  /\ index < n \/ (n = 0 /\ index = 0)

(* HeapInv: given a proper order, the part of the array from the build counter    *)
(* on is a heap, but for the one element that is sinking, whose children are no  *)
(* greater than its parent; behind the heap everything is in its final place.    *)
Parent(k) == (k - 1) \div 2
HeapFrom  == IF pc = "build" THEN (IF sifting THEN i ELSE i + 1) ELSE 0
HeapSize  == IF pc = "build" THEN number_of_elements ELSE IF sifting THEN i ELSE i + 1
HeapInv ==
    IsStrictWeakOrder(greater, number_of_elements) =>
      /\ \A k \in 1..(HeapSize - 1) :
            /\ Parent(k) >= HeapFrom /\ ~(sifting /\ Parent(k) = index) => ~Greater(k, Parent(k))
            /\ sifting /\ Parent(k) = index /\ index > 0 /\ Parent(index) >= HeapFrom =>
                  ~Greater(k, Parent(index))
      /\ pc # "build" =>
            \A p, q \in Positions(number_of_elements) : HeapSize <= q /\ p < q => ~Greater(p, q)

(* ComparesInBounds: "Guards are implemented and used in production code to avoid  *)
(* possible out-of-bounds pointer access": compareFun is given elements only.    *)
ComparesInBounds == compared \subseteq Positions(number_of_elements)
=============================================================================
