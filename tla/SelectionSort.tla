------------------------------ MODULE SelectionSort ------------------------------
(* SelectionSort_sort of src/Src/sort/selection_sort.c, one comparison per step. *)
(* number_of_elements is a uint32_t, and so is number_of_elements - 1U.          *)
EXTENDS NestedLoops

CONSTANT Word       \* 2^32 in the code

ASSUME WordAssumption == Word \in Nat /\ MaxElements < Word

VARIABLE min_index

svars == <<number_of_elements, greater, elements, pc, i, j, min_index>>

SelectionInit == Called /\ pc = "outer" /\ i = 0 /\ j = 0 /\ min_index = 0

(* Wrong on purpose: the last two elements are never compared.                   *)
OuterBoundShort == IF number_of_elements < 2 THEN 0 ELSE number_of_elements - 2

(* The condition of the outer loop; no elements make a very large bound.         *)
OuterBound == IF number_of_elements = 0 THEN Word - 1 ELSE number_of_elements - 1

StartScan ==
    /\ pc = "outer" /\ i < OuterBound
    /\ pc' = "inner" /\ min_index' = i /\ j' = i + 1
    /\ UNCHANGED <<number_of_elements, greater, elements, i>>

(* Wrong on purpose: every element is compared with the one at i.                *)
ScanAgainstFirst ==
    /\ pc = "inner" /\ j < number_of_elements
    /\ min_index' = IF <<elements[i], elements[j]>> \in greater THEN j ELSE min_index
    /\ j' = j + 1
    /\ UNCHANGED <<number_of_elements, greater, elements, pc, i>>

Scan ==
    /\ pc = "inner" /\ j < number_of_elements
    /\ min_index' = IF <<elements[min_index], elements[j]>> \in greater THEN j ELSE min_index
    /\ j' = j + 1
    /\ UNCHANGED <<number_of_elements, greater, elements, pc, i>>

(* Wrong on purpose: the outer counter moves on only after a swap.               *)
EndScanStuck ==
    /\ pc = "inner" /\ j >= number_of_elements
    /\ elements' = IF min_index # i THEN Swap(elements, min_index, i) ELSE elements
    /\ i' = IF min_index # i THEN i + 1 ELSE i
    /\ pc' = "outer"
    /\ UNCHANGED <<number_of_elements, greater, j, min_index>>

EndScan ==
    /\ pc = "inner" /\ j >= number_of_elements
    /\ elements' = IF min_index # i THEN Swap(elements, min_index, i) ELSE elements
    /\ i' = i + 1 /\ pc' = "outer"
    /\ UNCHANGED <<number_of_elements, greater, j, min_index>>

SelectionReturn ==
    /\ pc = "outer" /\ i >= OuterBound
    /\ pc' = "done"
    /\ UNCHANGED <<number_of_elements, greater, elements, i, j, min_index>>

SelectionNext == StartScan \/ Scan \/ EndScan \/ SelectionReturn

SelectionSpec == SelectionInit /\ [][SelectionNext]_svars /\ WF_svars(SelectionNext)

------------------------------------------------------------------------------
(* SelectionTypeOK: min_index and i, the two indices of the swap, are in the buffer *)
(* whenever it is reached, and no element is ever lost or doubled.                *)
SelectionTypeOK ==
    /\ number_of_elements \in Nat
    /\ IsPermutation(elements, number_of_elements)
    /\ pc \in {"outer", "inner", "done"}
    /\ i \in Nat /\ j \in Nat /\ min_index \in Nat
    /\ i <= OuterBound
    /\ pc = "inner" => i < OuterBound /\ i < j /\ i <= min_index
    /\ pc = "inner" /\ number_of_elements # 0 => j <= number_of_elements /\ min_index < j
    /\ pc = "inner" /\ number_of_elements = 0 => min_index = i

(* SelectionLoopInv: given a proper order, no element behind the first i is less   *)
(* than one of them, and min_index is least among the elements scanned so far.    *)
SelectionLoopInv ==
    IsStrictWeakOrder(greater, number_of_elements) =>
      /\ \A p, q \in Positions(number_of_elements) :
            p < i /\ p < q => <<elements[p], elements[q]>> \notin greater
      /\ pc = "inner" /\ number_of_elements # 0 =>
            \A q \in i..(j - 1) : <<elements[min_index], elements[q]>> \notin greater
=============================================================================
