------------------------------- MODULE MapProofs -------------------------------
(* Proofs about Map for every set of keys and values and every array length.    *)
EXTENDS Map, FiniteSetTheorems, FunctionTheorems, TLAPS

(* What the search relies on: without KeysUnique it would still find an entry,   *)
(* but an insert could append a key that is already there behind it.            *)
IInv == TypeOK /\ KeysUnique

(* GetIndex finds the one entry of a key that is present, and nothing else.      *)
LEMMA GetIndexFinds ==
    ASSUME IInv, NEW key
    PROVE  /\ key \in Present => GetIndex(key) \in InUse /\ keys[GetIndex(key)] = key
           /\ key \notin Present => GetIndex(key) = INDEX_NOT_FOUND
<1> USE MapAssumption DEF IInv, TypeOK, InUse, IsFirstIndexOf
<1>1. ASSUME key \in Present
      PROVE  GetIndex(key) \in InUse /\ keys[GetIndex(key)] = key
  <2>1. PICK i \in InUse : keys[i] = key
    BY <1>1 DEF Present
  <2>2. i \in Slots /\ IsFirstIndexOf(key, i)
    BY <2>1 DEF KeysUnique, Slots
  <2>3. IsFirstIndexOf(key, GetIndex(key))
    BY <2>2 DEF GetIndex
  <2> QED BY <2>3
<1>2. ASSUME key \notin Present PROVE GetIndex(key) = INDEX_NOT_FOUND
  <2>1. ~ \E i \in Slots : IsFirstIndexOf(key, i)
    BY <1>2 DEF Present
  <2> QED BY <2>1 DEF GetIndex
<1> QED BY <1>1, <1>2

LEMMA InitIInv == Init => IInv
<1> QED BY MapAssumption DEF Init, IInv, TypeOK, KeysUnique, InUse

LEMMA StepIInv == IInv /\ [Next]_vars => IInv'
<1> SUFFICES ASSUME IInv, [Next]_vars PROVE IInv'
  OBVIOUS
<1> USE MapAssumption DEF IInv, TypeOK, KeysUnique, InUse
<1>1. ASSUME UNCHANGED <<max_map_size, current_size, keys, values>>,
             out' \in Value, status' \in BOOLEAN
      PROVE  IInv'
  BY <1>1
<1>2. ASSUME NEW n \in 0..MaxMapSize, NEW sizes, NEW ptrs, MapInit(n, sizes, ptrs)
      PROVE  IInv'
  <2>1. CASE n # 0 /\ max_map_size' = n /\ current_size' = 0 /\ status' = TRUE
             /\ UNCHANGED <<keys, values, out>>
    <3>1. 0..(current_size' - 1) = {}
      BY <2>1
    <3> QED BY <2>1, <3>1
  <2> QED BY <1>1, <1>2, <2>1 DEF MapInit, Fail
<1>3. ASSUME NEW m, NEW k \in Key, NEW v \in Value, Insert(m, k, v)
      PROVE  IInv'
  <2>1. CASE Fail
    BY <1>1, <2>1 DEF Fail
  <2>2. CASE /\ GetIndex(k) # INDEX_NOT_FOUND
             /\ values' = [values EXCEPT ![GetIndex(k)] = v]
             /\ status' = TRUE
             /\ UNCHANGED <<max_map_size, current_size, keys, out>>
    BY <2>2
  <2>3. CASE /\ GetIndex(k) = INDEX_NOT_FOUND /\ current_size # max_map_size
             /\ keys' = [keys EXCEPT ![current_size] = k]
             /\ values' = [values EXCEPT ![current_size] = v]
             /\ current_size' = current_size + 1
             /\ status' = TRUE
             /\ UNCHANGED <<max_map_size, out>>
    <3>1. k \notin Present
      BY <2>3, GetIndexFinds DEF INDEX_NOT_FOUND
    <3>2. \A i \in 0..(current_size - 1) : keys[i] # k
      BY <3>1 DEF Present
    <3>3. current_size \in Slots /\ current_size + 1 \in 0..max_map_size
      BY <2>3 DEF Slots
    <3>4. TypeOK'
      BY <2>3, <3>3
    <3>5. \A i \in 0..current_size : keys'[i] = IF i = current_size THEN k ELSE keys[i]
      BY <2>3, <3>3 DEF Slots
    <3>6. current_size' - 1 = current_size
      BY <2>3
    <3>7. KeysUnique'
      BY <3>2, <3>5, <3>6
    <3> QED BY <3>4, <3>7
  <2> QED BY <1>3, <2>1, <2>2, <2>3 DEF Insert
<1>4. ASSUME NEW m, NEW k \in Key, GetValue(m, k) PROVE IInv'
  <2>1. GetIndex(k) # INDEX_NOT_FOUND => values[GetIndex(k)] \in Value
    BY GetIndexFinds DEF Slots
  <2> QED BY <1>1, <1>4, <2>1 DEF GetValue, Fail
<1>5. CASE UNCHANGED vars
  BY <1>1, <1>5 DEF vars
<1> QED BY <1>2, <1>3, <1>4, <1>5 DEF Next

(* Every access of map.c lies in the arrays the caller owns.                    *)
THEOREM TypeCorrect == Spec => []TypeOK
<1>1. IInv => TypeOK
  BY DEF IInv
<1> QED BY InitIInv, StepIInv, <1>1, PTL DEF Spec

(* No sequence of calls stores a key twice.                                     *)
THEOREM KeysStayUnique == Spec => []KeysUnique
<1>1. IInv => KeysUnique
  BY DEF IInv
<1> QED BY InitIInv, StepIInv, <1>1, PTL DEF Spec

------------------------------------------------------------------------------
(* As many keys are present as there are entries in use.                        *)
LEMMA PresentCount == IInv => Cardinality(Present) = current_size
<1> SUFFICES ASSUME IInv PROVE Cardinality(Present) = current_size
  OBVIOUS
<1> DEFINE f == [i \in InUse |-> keys[i]]
<1>1. IsFiniteSet(InUse) /\ Cardinality(InUse) = current_size
  <2>1. current_size \in Nat
    BY MapAssumption DEF IInv, TypeOK
  <2>2. Cardinality(0..(current_size - 1)) = IF 0 > current_size - 1 THEN 0 ELSE (current_size - 1) - 0 + 1
    BY <2>1, FS_Interval
  <2> QED BY <2>1, <2>2, FS_Interval DEF InUse
<1>2. f \in [InUse -> Present] /\ \A k \in Present : \E i \in InUse : f[i] = k
  BY DEF Present
<1>3. f \in Surjection(InUse, Present)
  BY <1>2, Fun_IsSurj
<1>4. f \in Injection(InUse, Present)
  <2>1. \A a, b \in InUse : f[a] = f[b] => a = b
    BY DEF IInv, KeysUnique
  <2> QED BY <1>2, <2>1, Fun_IsInj
<1> QED BY <1>1, <1>3, <1>4, FS_Surjection

(* The value a key has is the one at its entry.                                 *)
LEMMA EntryAt ==
    ASSUME IInv, NEW i \in InUse
    PROVE  keys[i] \in Present /\ Entries[keys[i]] = values[i]
<1>1. \A j \in InUse : keys[j] = keys[i] => j = i
  BY DEF IInv, KeysUnique
<1> QED BY <1>1 DEF Present, Entries, ValueOf

------------------------------------------------------------------------------
(* The refinement: the entries in use are a partial function from keys to       *)
(* values, and each call changes it as BoundedDictionary says.                  *)
LEMMA InitRefines == Init => Dictionary!Init
<1> SUFFICES ASSUME Init PROVE Dictionary!Init
  OBVIOUS
<1>1. Present = {}
  BY DEF Init, Present, InUse
<1>2. Entries = [k \in {} |-> 0]
  BY <1>1 DEF Entries
<1> QED BY <1>2 DEF Init, Dictionary!Init

(* Two functions on the keys of the entries in use are equal when they agree at *)
(* every entry.                                                                 *)
LEMMA OverwriteRefines ==
    ASSUME IInv, IInv', NEW k \in Key, NEW v \in Value, NEW x \in InUse, keys[x] = k,
           values' = [values EXCEPT ![x] = v], status' = TRUE,
           UNCHANGED <<max_map_size, current_size, keys, out>>
    PROVE  Dictionary!Update(k, v)
<1>1. InUse' = InUse /\ Present' = Present
  BY DEF InUse, Present
<1>2. x \in Slots
  BY MapAssumption DEF IInv, TypeOK, InUse, Slots
<1>3. ASSUME NEW y \in Present PROVE ValueOf(y)' = IF y = k THEN v ELSE Entries[y]
  <2>1. PICK i \in InUse : keys[i] = y
    BY DEF Present
  <2>2. \A j \in InUse : keys[j] = y => j = i
    BY <2>1 DEF IInv, KeysUnique
  <2>3. ValueOf(y) = values[i] /\ ValueOf(y)' = values'[i]
    BY <1>1, <2>1, <2>2 DEF ValueOf
  <2>4. y = k <=> i = x
    BY <2>1, <2>2
  <2>5. values'[i] = IF i = x THEN v ELSE values[i]
    BY <1>2, <2>1, MapAssumption DEF IInv, TypeOK, InUse, Slots
  <2>6. Entries[y] = values[i]
    BY <2>3 DEF Entries
  <2> QED BY <2>3, <2>4, <2>5, <2>6
<1>4. k \in Present
  BY DEF Present
<1>5. Entries' = [Entries EXCEPT ![k] = v]
  <2>1. Entries' = [y \in Present |-> ValueOf(y)']
    BY <1>1 DEF Entries
  <2>2. DOMAIN Entries = Present
    BY DEF Entries
  <2>3. [Entries EXCEPT ![k] = v] = [y \in Present |-> IF y = k THEN v ELSE Entries[y]]
    BY <2>2
  <2> QED BY <1>3, <2>1, <2>3
<1>6. k \in DOMAIN Entries
  BY <1>4 DEF Entries
<1> QED BY <1>5, <1>6 DEF Dictionary!Update, Dictionary!Known

LEMMA AppendRefines ==
    ASSUME IInv, IInv', NEW k \in Key, NEW v \in Value,
           k \notin Present, current_size # max_map_size,
           keys' = [keys EXCEPT ![current_size] = k],
           values' = [values EXCEPT ![current_size] = v],
           current_size' = current_size + 1, status' = TRUE,
           UNCHANGED <<max_map_size, out>>
    PROVE  Dictionary!Add(k, v)
<1>1. current_size \in Slots /\ current_size \in Nat /\ max_map_size \in Nat
      /\ current_size < max_map_size
  BY MapAssumption DEF IInv, TypeOK, Slots
<1>2. InUse' = InUse \cup {current_size} /\ current_size \notin InUse /\ InUse \subseteq Slots
  BY <1>1, MapAssumption DEF InUse, IInv, TypeOK, Slots
<1>3. \A i \in InUse' : /\ keys'[i] = (IF i = current_size THEN k ELSE keys[i])
                        /\ values'[i] = (IF i = current_size THEN v ELSE values[i])
  BY <1>1, <1>2 DEF IInv, TypeOK
<1>4. Present' = Present \cup {k}
  BY <1>2, <1>3 DEF Present
<1>5. ASSUME NEW y \in Present \cup {k} PROVE ValueOf(y)' = IF y = k THEN v ELSE Entries[y]
  <2>1. CASE y = k
    <3>1. \A j \in InUse' : keys'[j] = y => j = current_size
      BY <1>2, <1>3, <2>1 DEF Present
    <3>2. current_size \in InUse' /\ keys'[current_size] = y
      BY <1>2, <1>3, <2>1
    <3>3. ValueOf(y)' = values'[current_size]
      BY <3>1, <3>2 DEF ValueOf
    <3> QED BY <1>3, <2>1, <3>2, <3>3
  <2>2. CASE y # k
    <3>1. PICK i \in InUse : keys[i] = y
      BY <2>2 DEF Present
    <3>2. \A j \in InUse : keys[j] = y => j = i
      BY <3>1 DEF IInv, KeysUnique
    <3>3. \A j \in InUse' : keys'[j] = y => j = i
      BY <1>2, <1>3, <2>2, <3>2
    <3>4. i \in InUse' /\ keys'[i] = y /\ values'[i] = values[i]
      BY <1>2, <1>3, <3>1
    <3>5. ValueOf(y)' = values[i]
      BY <3>3, <3>4 DEF ValueOf
    <3>6. Entries[y] = values[i]
      BY <3>1, EntryAt
    <3> QED BY <2>2, <3>5, <3>6
  <2> QED BY <2>1, <2>2
<1>6. Entries' = [y \in Present \cup {k} |-> IF y = k THEN v ELSE Entries[y]]
  <2>1. Entries' = [y \in Present \cup {k} |-> ValueOf(y)']
    BY <1>4 DEF Entries
  <2> QED BY <1>5, <2>1
<1>7. DOMAIN Entries = Present /\ Cardinality(Present) < max_map_size
  BY <1>1, PresentCount DEF Entries
<1>8. Entries' = [x \in (DOMAIN Entries) \cup {k} |-> IF x = k THEN v ELSE Entries[x]]
  BY <1>6, <1>7
<1>9. k \notin DOMAIN Entries /\ Cardinality(DOMAIN Entries) < max_map_size
  BY <1>7
<1>10. Dictionary!Cardinality(DOMAIN Entries) = Cardinality(DOMAIN Entries)
  BY DEF Cardinality, Dictionary!Cardinality
<1> QED BY <1>8, <1>9, <1>10 DEF Dictionary!Add, Dictionary!Known

LEMMA SameEntries == ASSUME UNCHANGED <<current_size, keys, values>> PROVE Entries' = Entries
<1> QED BY DEF Entries, Present, ValueOf, InUse

LEMMA FailRefuses == Fail => Dictionary!Refuse
<1> QED BY SameEntries DEF Fail, Dictionary!Refuse

(* A call with valid arguments takes the step of its own name.                  *)
LEMMA StepAsPromised == IInv /\ IInv' => AsPromised
<1> SUFFICES ASSUME IInv, IInv' PROVE AsPromised
  OBVIOUS
<1> USE MapAssumption
<1>1. ASSUME NEW n \in 1..MaxMapSize, MapInit(n, {1}, {"keys", "values"}) PROVE Dictionary!Reset(n)
  <2>1. max_map_size' = n /\ current_size' = 0 /\ status' = TRUE /\ UNCHANGED out
    BY <1>1 DEF MapInit
  <2>2. Present' = {}
    BY <2>1 DEF Present, InUse
  <2>3. Entries' = [k \in {} |-> 0]
    BY <2>2 DEF Entries
  <2> QED BY <2>1, <2>3 DEF Dictionary!Reset
<1>2. ASSUME NEW k \in Key
      PROVE  /\ k \in Present => GetIndex(k) \in InUse /\ keys[GetIndex(k)] = k
                                  /\ GetIndex(k) # INDEX_NOT_FOUND
             /\ k \notin Present => GetIndex(k) = INDEX_NOT_FOUND
             /\ DOMAIN Entries = Present
  BY GetIndexFinds DEF INDEX_NOT_FOUND, InUse, IInv, TypeOK, Entries
<1>3. ASSUME NEW k \in Key, NEW v \in Value, Insert("map", k, v)
      PROVE  Dictionary!Update(k, v) \/ Dictionary!Add(k, v) \/ Dictionary!RefuseNew(k)
  <2>1. CASE k \in Present
    BY <1>2, <1>3, <2>1, OverwriteRefines DEF Insert
  <2>2. CASE k \notin Present /\ current_size # max_map_size
    BY <1>2, <1>3, <2>2, AppendRefines DEF Insert
  <2>3. CASE k \notin Present /\ current_size = max_map_size
    <3>1. Dictionary!Refuse
      BY <1>2, <1>3, <2>3, FailRefuses DEF Insert
    <3>2. Cardinality(DOMAIN Entries) = max_map_size
      BY <1>2, <2>3, PresentCount
    <3>3. Dictionary!Cardinality(DOMAIN Entries) = Cardinality(DOMAIN Entries)
      BY DEF Cardinality, Dictionary!Cardinality
    <3> QED BY <1>2, <2>3, <3>1, <3>2, <3>3 DEF Dictionary!RefuseNew, Dictionary!Known
  <2> QED BY <2>1, <2>2, <2>3
<1>4. ASSUME NEW k \in Key, GetValue("map", k)
      PROVE  Dictionary!Lookup(k) \/ Dictionary!RefuseUnknown(k)
  <2>1. CASE k \in Present
    <3>1. out' = values[GetIndex(k)] /\ status' = TRUE
          /\ UNCHANGED <<max_map_size, current_size, keys, values>>
      BY <1>2, <1>4, <2>1 DEF GetValue
    <3>2. Entries[k] = values[GetIndex(k)]
      BY <1>2, <2>1, EntryAt
    <3> QED BY <1>2, <2>1, <3>1, <3>2, SameEntries DEF Dictionary!Lookup, Dictionary!Known
  <2>2. CASE k \notin Present
    BY <1>2, <1>4, <2>2, FailRefuses DEF GetValue, Dictionary!RefuseUnknown, Dictionary!Known
  <2> QED BY <2>1, <2>2
<1> QED BY <1>1, <1>3, <1>4 DEF AsPromised

(* Any other call is refused.                                                   *)
LEMMA StepRefines == IInv /\ IInv' /\ [Next]_vars => [Dictionary!Next]_Dictionary!vars
<1> SUFFICES ASSUME IInv, IInv', [Next]_vars PROVE [Dictionary!Next]_Dictionary!vars
  OBVIOUS
<1> USE MapAssumption
<1>1. Fail => Dictionary!Next
  BY FailRefuses DEF Dictionary!Next
<1>2. AsPromised
  BY StepAsPromised
<1>3. ASSUME NEW n \in 0..MaxMapSize, NEW sizes \in {{1}, {0, 1}}, NEW p \in {"keys", NULL},
             MapInit(n, sizes, {p, "values"})
      PROVE  Dictionary!Next
  <2>1. CASE 0 \in sizes \/ n = 0 \/ p = NULL
    BY <1>1, <1>3, <2>1 DEF MapInit
  <2>2. CASE 0 \notin sizes /\ n # 0 /\ p # NULL
    <3>1. n \in 1..MaxMapSize /\ sizes = {1} /\ p = "keys"
      BY <2>2
    <3>2. MapInit(n, {1}, {"keys", "values"})
      BY <1>3, <3>1
    <3> QED BY <1>2, <3>1, <3>2 DEF AsPromised, Dictionary!Next
  <2> QED BY <2>1, <2>2
<1>4. ASSUME NEW m \in {"map", NULL}, NEW k \in Key, NEW v \in Value, Insert(m, k, v)
      PROVE  Dictionary!Next
  <2>1. CASE m = NULL
    BY <1>1, <1>4, <2>1 DEF Insert
  <2>2. CASE m = "map"
    BY <1>2, <1>4, <2>2 DEF AsPromised, Dictionary!Next, Dictionary!RefuseNew
  <2> QED BY <2>1, <2>2
<1>5. ASSUME NEW m \in {"map", NULL}, NEW k \in Key, GetValue(m, k) PROVE Dictionary!Next
  <2>1. CASE m = NULL
    BY <1>1, <1>5, <2>1 DEF GetValue
  <2>2. CASE m = "map"
    BY <1>2, <1>5, <2>2 DEF AsPromised, Dictionary!Next, Dictionary!RefuseUnknown
  <2> QED BY <2>1, <2>2
<1>6. CASE UNCHANGED vars
  BY <1>6, SameEntries DEF vars, Dictionary!vars
<1> QED BY <1>3, <1>4, <1>5, <1>6 DEF Next

(* map.c implements a bounded partial function from keys to values.             *)
THEOREM MapIsDictionary == Spec => DictionarySpec
<1>1. IInv /\ IInv' /\ [Next]_vars => [AsPromised]_vars
  BY StepAsPromised
<1>2. Spec => Dictionary!Spec
  BY InitIInv, StepIInv, InitRefines, StepRefines, PTL DEF Spec, Dictionary!Spec
<1>3. Spec => [][AsPromised]_vars
  BY InitIInv, StepIInv, <1>1, PTL DEF Spec
<1> QED BY <1>2, <1>3 DEF DictionarySpec
==============================================================================
