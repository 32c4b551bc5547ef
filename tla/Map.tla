----------------------------------- MODULE Map -----------------------------------
(* src/Src/map.c: an associative array in two caller-owned arrays, keys and     *)
(* values, filled from the front and searched from the front. Entries are never *)
(* removed; Map_init on a map in use forgets them all and leaves the arrays as  *)
(* they are.                                                                    *)
EXTENDS Integers, FiniteSets

CONSTANTS Key,         \* what key_size bytes can hold
          Value,       \* what value_size bytes can hold
          NULL,
          MaxMapSize   \* entries of the arrays the caller owns

ASSUME MapAssumption == /\ Key # {} /\ Value # {}
                        /\ NULL \notin {"map", "keys", "values"}
                        /\ MaxMapSize \in Nat \ {0}

INDEX_NOT_FOUND == -1

VARIABLES max_map_size, current_size, keys, values,   \* members of Map_t
          out,      \* what the caller's value points to
          status    \* value returned by the last call

vars == <<max_map_size, current_size, keys, values, out, status>>

Slots == 0..(MaxMapSize - 1)

(* Wrong on purpose: the search also looks at the stale entry behind the last. *)
IsFirstIndexOrStale(key, i) ==
    /\ i \in 0..current_size
    /\ keys[i] = key
    /\ \A j \in 0..(i - 1) : keys[j] # key

(* Wrong on purpose: the search stops before the last entry.                    *)
IsFirstIndexButLast(key, i) ==
    /\ i \in 0..(current_size - 2)
    /\ keys[i] = key
    /\ \A j \in 0..(i - 1) : keys[j] # key

(* GetIndex: the first of the entries in use whose key bytes are equal.         *)
IsFirstIndexOf(key, i) ==
    /\ i \in 0..(current_size - 1)
    /\ keys[i] = key
    /\ \A j \in 0..(i - 1) : keys[j] # key

GetIndex(key) ==
    IF \E i \in Slots : IsFirstIndexOf(key, i)
      THEN CHOOSE i \in Slots : IsFirstIndexOf(key, i)
      ELSE INDEX_NOT_FOUND

Init == /\ max_map_size \in 1..MaxMapSize /\ current_size = 0
        /\ keys \in [Slots -> Key] /\ values \in [Slots -> Value]
        /\ out \in Value
        /\ status = TRUE

Fail == status' = FALSE /\ UNCHANGED <<max_map_size, current_size, keys, values, out>>

(* Map_init: sizes of zero and NULL arrays are refused.                         *)
MapInit(maxSize, elementSizes, ptrs) ==
    \/ /\ 0 \notin elementSizes /\ maxSize # 0 /\ NULL \notin ptrs
       /\ max_map_size' = maxSize /\ current_size' = 0
       /\ status' = TRUE
       /\ UNCHANGED <<keys, values, out>>
    \/ /\ 0 \in elementSizes \/ maxSize = 0 \/ NULL \in ptrs
       /\ Fail

(* Wrong on purpose: a full map is not noticed.                                 *)
InsertUnchecked(mapPtr, key, value) ==
    /\ mapPtr # NULL /\ GetIndex(key) = INDEX_NOT_FOUND
    /\ keys' = [keys EXCEPT ![current_size] = key]
    /\ values' = [values EXCEPT ![current_size] = value]
    /\ current_size' = current_size + 1
    /\ status' = TRUE
    /\ UNCHANGED <<max_map_size, out>>

(* Map_insert: overwrite, append, or refuse.                                    *)
Insert(mapPtr, key, value) ==
    LET index == GetIndex(key) IN
    \/ /\ mapPtr # NULL /\ index # INDEX_NOT_FOUND
       /\ values' = [values EXCEPT ![index] = value]
       /\ status' = TRUE
       /\ UNCHANGED <<max_map_size, current_size, keys, out>>
    \/ /\ mapPtr # NULL /\ index = INDEX_NOT_FOUND /\ current_size # max_map_size
       /\ keys' = [keys EXCEPT ![current_size] = key]
       /\ values' = [values EXCEPT ![current_size] = value]
       /\ current_size' = current_size + 1
       /\ status' = TRUE
       /\ UNCHANGED <<max_map_size, out>>
    \/ /\ mapPtr = NULL \/ (index = INDEX_NOT_FOUND /\ current_size = max_map_size)
       /\ Fail

(* Map_getValue                                                                 *)
GetValue(mapPtr, key) ==
    LET index == GetIndex(key) IN
    \/ /\ mapPtr # NULL /\ index # INDEX_NOT_FOUND
       /\ out' = values[index]
       /\ status' = TRUE
       /\ UNCHANGED <<max_map_size, current_size, keys, values>>
    \/ /\ mapPtr = NULL \/ index = INDEX_NOT_FOUND
       /\ Fail

Next == \/ \E n \in 0..MaxMapSize, sizes \in {{1}, {0, 1}}, p \in {"keys", NULL} :
              MapInit(n, sizes, {p, "values"})
        \/ \E m \in {"map", NULL}, k \in Key :
              \/ \E v \in Value : Insert(m, k, v)
              \/ GetValue(m, k)

Spec == Init /\ [][Next]_vars

------------------------------------------------------------------------------
(* TypeOK: every entry read or written lies in the arrays the caller owns.      *)
TypeOK == /\ max_map_size \in 1..MaxMapSize
          /\ current_size \in 0..max_map_size
          /\ keys \in [Slots -> Key] /\ values \in [Slots -> Value]
          /\ out \in Value /\ status \in BOOLEAN

(* KeysUnique: no key is ever stored twice, so the value an insert overwrites    *)
(* is the one a later lookup finds.                                             *)
InUse == 0..(current_size - 1)
KeysUnique == \A i, j \in InUse : keys[i] = keys[j] => i = j

(* Dictionary: the entries in use, read as a function from keys to values.      *)
Present == {keys[i] : i \in InUse}
ValueOf(key) == values[CHOOSE i \in InUse : keys[i] = key]
Entries == [k \in Present |-> ValueOf(k)]

(* DictionarySpec: map.c is a bounded partial function: nothing in the stale      *)
(* part of the arrays is ever found, and each call takes the step its caller    *)
(* asked for: insert gives its own key, new or old, its own value and may be    *)
(* refused only by a map full of other keys; getValue returns what the last     *)
(* successful insert of its key stored, refused only if there was none.         *)
Dictionary == INSTANCE BoundedDictionary WITH entry <- Entries, limit <- max_map_size
AsPromised ==
    /\ \A n \in 1..MaxMapSize : MapInit(n, {1}, {"keys", "values"}) => Dictionary!Reset(n)
    /\ \A k \in Key :
          /\ \A v \in Value : Insert("map", k, v) =>
                Dictionary!Update(k, v) \/ Dictionary!Add(k, v) \/ Dictionary!RefuseNew(k)
          /\ GetValue("map", k) => Dictionary!Lookup(k) \/ Dictionary!RefuseUnknown(k)
DictionarySpec == Dictionary!Spec /\ [][AsPromised]_vars
=============================================================================
