------------------------------- MODULE BoundedFifo -------------------------------
(* What a queue promises its caller: a bounded first-in first-out sequence.     *)
(* Nothing here knows of a buffer or of indices; module Queue implements it.    *)
EXTENDS Naturals, Sequences

CONSTANTS Element,      \* values a caller may store
          MaxCapacity   \* the largest capacity a caller asks for

VARIABLES items,    \* the stored elements, oldest first
          limit,    \* how many elements fit
          out,      \* the caller's destination for front, rear and dequeue
          status    \* what the last call returned

vars == <<items, limit, out, status>>

Init == /\ items = <<>>
        /\ limit \in 1..MaxCapacity
        /\ out \in Element
        /\ status = TRUE

(* A call that is refused changes nothing but the returned status; one with     *)
(* valid arguments is refused only for a full or an empty queue.                *)
Refuse == status' = FALSE /\ UNCHANGED <<items, limit, out>>
RefuseFull == Len(items) = limit /\ Refuse
RefuseEmpty == items = <<>> /\ Refuse

Reset(c) == /\ items' = <<>> /\ limit' = c
            /\ status' = TRUE
            /\ UNCHANGED out

Put(e) == /\ Len(items) < limit
          /\ items' = Append(items, e)
          /\ status' = TRUE
          /\ UNCHANGED <<limit, out>>

Take == /\ items # <<>>
        /\ out' = Head(items)
        /\ items' = Tail(items)
        /\ status' = TRUE
        /\ UNCHANGED limit

PeekOldest == /\ items # <<>>
              /\ out' = Head(items)
              /\ status' = TRUE
              /\ UNCHANGED <<items, limit>>

PeekNewest == /\ items # <<>>
              /\ out' = items[Len(items)]
              /\ status' = TRUE
              /\ UNCHANGED <<items, limit>>

Next == \/ \E c \in 1..MaxCapacity : Reset(c)
        \/ \E e \in Element : Put(e)
        \/ Refuse \/ Take \/ PeekOldest \/ PeekNewest

Spec == Init /\ [][Next]_vars
=============================================================================
