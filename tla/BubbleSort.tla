------------------------------- MODULE BubbleSort -------------------------------
(* BubbleSort_sort of src/Src/sort/bubble_sort.c, one comparison per step.      *)
EXTENDS NestedLoops

VARIABLE swapped

bvars == <<number_of_elements, greater, elements, pc, i, j, swapped>>

BubbleInit == Called /\ pc = "pass" /\ i = 0 /\ j = 0 /\ swapped = FALSE

(* Wrong on purpose: equal neighbours are swapped too.                           *)
CompareOrEqual ==
    /\ pc = "pass" /\ j < number_of_elements - i - 1
    /\ IF <<elements[j + 1], elements[j]>> \notin greater
         THEN elements' = Swap(elements, j, j + 1) /\ swapped' = TRUE
         ELSE UNCHANGED <<elements, swapped>>
    /\ j' = j + 1
    /\ UNCHANGED <<number_of_elements, greater, pc, i>>

(* Wrong on purpose: only the last comparison of a pass counts as a swap.        *)
CompareForgetful ==
    /\ pc = "pass" /\ j < number_of_elements - i - 1
    /\ swapped' = (<<elements[j], elements[j + 1]>> \in greater)
    /\ elements' = IF swapped' THEN Swap(elements, j, j + 1) ELSE elements
    /\ j' = j + 1
    /\ UNCHANGED <<number_of_elements, greater, pc, i>>

(* The body of the for loop: two neighbours are compared and perhaps swapped.   *)
Compare ==
    /\ pc = "pass" /\ j < number_of_elements - i - 1
    /\ IF <<elements[j], elements[j + 1]>> \in greater
         THEN elements' = Swap(elements, j, j + 1) /\ swapped' = TRUE
         ELSE UNCHANGED <<elements, swapped>>
    /\ j' = j + 1
    /\ UNCHANGED <<number_of_elements, greater, pc, i>>

(* Wrong on purpose: the next pass leaves out one element too many.              *)
EndPassEarly ==
    /\ pc = "pass" /\ j >= number_of_elements - i - 1
    /\ i' = i + 2
    /\ IF swapped THEN j' = 0 /\ swapped' = FALSE /\ UNCHANGED pc
                  ELSE pc' = "done" /\ UNCHANGED <<j, swapped>>
    /\ UNCHANGED <<number_of_elements, greater, elements>>

(* Wrong on purpose: every pass walks over the whole array.                      *)
EndPassKeepsLength ==
    /\ pc = "pass" /\ j >= number_of_elements - i - 1
    /\ IF swapped THEN j' = 0 /\ swapped' = FALSE /\ UNCHANGED pc
                  ELSE pc' = "done" /\ UNCHANGED <<j, swapped>>
    /\ UNCHANGED <<number_of_elements, greater, elements, i>>

(* The for loop is over: ++i, and another pass if anything was swapped.         *)
EndPass ==
    /\ pc = "pass" /\ j >= number_of_elements - i - 1
    /\ i' = i + 1
    /\ IF swapped THEN j' = 0 /\ swapped' = FALSE /\ UNCHANGED pc
                  ELSE pc' = "done" /\ UNCHANGED <<j, swapped>>
    /\ UNCHANGED <<number_of_elements, greater, elements>>

BubbleNext == Compare \/ EndPass

BubbleSpec == BubbleInit /\ [][BubbleNext]_bvars /\ WF_bvars(BubbleNext)

------------------------------------------------------------------------------
(* BubbleTypeOK: both elements given to compareFun and to the swap are in the    *)
(* caller's buffer, and none is ever lost or doubled.                           *)
BubbleTypeOK ==
    /\ number_of_elements \in Nat
    /\ IsPermutation(elements, number_of_elements)
    /\ pc \in {"pass", "done"}
    /\ i \in Nat /\ j \in Nat /\ swapped \in BOOLEAN
    /\ pc = "pass" => j = 0 \/ j <= number_of_elements - i - 1

(* OnlyForCause: with whatever compareFun, two elements change sides only if it  *)
(* called the one that was first the greater: the sort is stable.               *)
OnlyForCause ==
    \A p, q \in Positions(number_of_elements) :
        p < q /\ elements[p] > elements[q] => <<elements[q], elements[p]>> \in greater

(* BubbleLoopInv: given a proper order, the last i elements are in their place, the    *)
(* element at j is the greatest seen in this pass, and as long as nothing was   *)
(* swapped in this pass all elements seen are sorted.                           *)
BubbleLoopInv ==
    IsStrictWeakOrder(greater, number_of_elements) /\ pc = "pass" =>
      /\ \A p, q \in Positions(number_of_elements) :
            p < q /\ number_of_elements - i <= q => <<elements[p], elements[q]>> \notin greater
      /\ \A p \in 0..(j - 1) :
            j < number_of_elements => <<elements[p], elements[j]>> \notin greater
      /\ ~swapped => \A p, q \in Positions(number_of_elements) :
                        p < q /\ q <= j => <<elements[p], elements[q]>> \notin greater
=============================================================================
