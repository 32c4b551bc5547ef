---------------------------- MODULE BoundedDictionary ----------------------------
(* What a map promises its caller: a partial function that holds at most limit  *)
(* keys. A known key can always be given a new value; a new key needs room.     *)
EXTENDS Integers, FiniteSets

CONSTANTS Key, Value, MaxMapSize

VARIABLES entry,    \* the function from the keys present to their values
          limit,    \* how many keys fit
          out,      \* the caller's destination for getValue
          status    \* what the last call returned

vars == <<entry, limit, out, status>>

Known == DOMAIN entry

Init == /\ entry = [k \in {} |-> 0]
        /\ limit \in 1..MaxMapSize
        /\ out \in Value
        /\ status = TRUE

(* A new key is turned away only by a full map, and a lookup only for an        *)
(* unknown key, so a refusal tells the caller something.                        *)
Refuse == status' = FALSE /\ UNCHANGED <<entry, limit, out>>
RefuseNew(k) == k \notin Known /\ Cardinality(Known) = limit /\ Refuse
RefuseUnknown(k) == k \notin Known /\ Refuse

Reset(n) == /\ entry' = [k \in {} |-> 0] /\ limit' = n
            /\ status' = TRUE /\ UNCHANGED out

Update(k, v) ==
            /\ k \in Known
            /\ entry' = [entry EXCEPT ![k] = v]
            /\ status' = TRUE /\ UNCHANGED <<limit, out>>

Add(k, v) ==
            /\ k \notin Known
            /\ Cardinality(Known) < limit
            /\ entry' = [x \in Known \cup {k} |-> IF x = k THEN v ELSE entry[x]]
            /\ status' = TRUE /\ UNCHANGED <<limit, out>>

Lookup(k) == /\ k \in Known
             /\ out' = entry[k]
             /\ status' = TRUE /\ UNCHANGED <<entry, limit>>

Next == \/ Refuse
        \/ \E n \in 1..MaxMapSize : Reset(n)
        \/ \E k \in Key : Lookup(k) \/ \E v \in Value : Update(k, v) \/ Add(k, v)

Spec == Init /\ [][Next]_vars
=============================================================================
