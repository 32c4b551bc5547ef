------------------------------ MODULE PriorityStore ------------------------------
(* What a priority queue promises its caller: a bounded collection kept in the  *)
(* order of arrival. A full collection makes room for a better item by giving   *)
(* up the oldest of its worst ones; the item handed out is the oldest of the    *)
(* best ones. Every call happens at once; module PriorityQueue implements it.   *)
EXTENDS Integers, SequencesExt

CONSTANTS Element, Priority, MaxCapacity

VARIABLES stored,   \* records [priority, element], oldest first
          limit,    \* how many fit
          out,      \* the caller's destination for dequeue
          status    \* what the last call returned

vars == <<stored, limit, out, status>>

Item == [priority : Priority, element : Element]

IsOldestBest(s, k) ==
    /\ \A j \in 1..Len(s) : s[j].priority <= s[k].priority
    /\ \A j \in 1..(k - 1) : s[j].priority < s[k].priority

IsOldestWorst(s, k) ==
    /\ \A j \in 1..Len(s) : s[j].priority >= s[k].priority
    /\ \A j \in 1..(k - 1) : s[j].priority > s[k].priority

Init == /\ stored = <<>>
        /\ limit \in 1..MaxCapacity
        /\ out \in Element
        /\ status = TRUE

(* With valid arguments an item is refused only by a full collection without a  *)
(* worse one, a request for the best only by an empty collection.               *)
Refuse == status' = FALSE /\ UNCHANGED <<stored, limit, out>>
RefuseNotBetter(item) ==
    /\ Len(stored) = limit
    /\ \A k \in 1..limit : stored[k].priority >= item.priority
    /\ Refuse
RefuseEmpty == stored = <<>> /\ Refuse

Reset(c) == /\ stored' = <<>> /\ limit' = c
            /\ status' = TRUE
            /\ UNCHANGED out

Insert(item) ==
            /\ Len(stored) < limit
            /\ stored' = Append(stored, item)
            /\ status' = TRUE
            /\ UNCHANGED <<limit, out>>

Replace(item) == \E k \in 1..Len(stored) :
            /\ Len(stored) = limit
            /\ IsOldestWorst(stored, k)
            /\ stored[k].priority < item.priority
            /\ stored' = Append(RemoveAt(stored, k), item)
            /\ status' = TRUE
            /\ UNCHANGED <<limit, out>>

TakeBest == \E k \in 1..Len(stored) :
            /\ IsOldestBest(stored, k)
            /\ out' = stored[k].element
            /\ stored' = RemoveAt(stored, k)
            /\ status' = TRUE
            /\ UNCHANGED limit

Next == \/ Refuse \/ TakeBest
        \/ \E c \in 1..MaxCapacity : Reset(c)
        \/ \E item \in Item : Insert(item) \/ Replace(item)

Spec == Init /\ [][Next]_vars
=============================================================================
