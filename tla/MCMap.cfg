\* Four keys and three entries: a full map that still lacks a key.
CONSTANTS
    Key = {k1, k2, k3, k4}
    Value = {v, w}
    NULL = NULL
    MaxMapSize = 3
SPECIFICATION Spec
INVARIANTS TypeOK KeysUnique
PROPERTIES DictionarySpec
