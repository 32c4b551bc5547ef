----------------------------------- MODULE Wire -----------------------------------
(* The serialisation functions of src/Src/utils.c and the bit functions of           *)
(* src/Src/bit_manipulation.c, as a caller uses them who lays out words and blobs in  *)
(* a buffer and changes single bits of the words in place. A byte or a word is the    *)
(* set of its one bits. Utils_SerializeN and Utils_DeserializeN, for N = 8, 16, 24    *)
(* and 32, are one operator with the number of bytes n = N / 8.                       *)
EXTENDS Integers, SequencesExt

CONSTANTS WireWord,     \* the uint32_t values callers write
          Blob,         \* and the byte sequences
          StaleByte,    \* what the buffer may hold at the start
          BufferBytes,  \* length of the buffer
          BitNumber,    \* the bit numbers callers give, 32 and above among them
          MaxWrites     \* bound: writes of one run

WireByte == SUBSET (0..7)
MAX_BIT_SHIFT == 31

ASSUME WireAssumption ==
    /\ WireWord \subseteq SUBSET (0..31)
    /\ Blob \subseteq Seq(WireByte) \ {<<>>} /\ StaleByte \subseteq WireByte
    /\ BufferBytes \in Nat /\ BitNumber \subseteq 0..255 /\ MaxWrites \in Nat

VARIABLES buf,      \* the caller's buffer
          fields,   \* history: what has been written and not overwritten since
          writes    \* history: how many writes there were

wvars == <<buf, fields, writes>>

Order == {"BE", "LE"}
Field == [kind : {"word"}, order : Order, at : Nat, n : 1..4, word : SUBSET (0..31)]
         \cup [kind : {"blob"}, order : Order, at : Nat, n : Nat, bytes : Seq(WireByte)]

(* (uint8_t)(value >> (8 * k)) & 0xFF                                                 *)
ByteOf(value, k) == {b \in 0..7 : b + 8 * k \in value}

(* Utils_Serialize8 and Utils_Serialize{16,24,32}BE: the bytes that are written.      *)
SerializeBE(value, n) == [k \in 1..n |-> ByteOf(value, n - k)]

(* Wrong on purpose: the second and the third byte of four are swapped.               *)
SerializeLEMiddleSwapped(value, n) ==
    [k \in 1..n |-> ByteOf(value, IF n = 4 /\ k \in {2, 3} THEN 4 - k ELSE k - 1)]

(* Utils_Serialize8 and Utils_Serialize{16,24,32}LE                                   *)
SerializeLE(value, n) == [k \in 1..n |-> ByteOf(value, k - 1)]

(* Utils_Deserialize8 and Utils_Deserialize{16,24,32}BE, {16,24,32}LE of these bytes  *)
DeserializeBE(bytes) == UNION {{b + 8 * (Len(bytes) - k) : b \in bytes[k]} : k \in 1..Len(bytes)}
DeserializeLE(bytes) == UNION {{b + 8 * (k - 1) : b \in bytes[k]} : k \in 1..Len(bytes)}

(* What the functions on blobs write for these bytes: LE turns them round.            *)
SerializedBlob(order, src) == IF order = "BE" THEN src ELSE Reverse(src)
DeserializedBlob(order, bytes) == IF order = "BE" THEN bytes ELSE Reverse(bytes)

Serialize(order, value, n) == IF order = "BE" THEN SerializeBE(value, n) ELSE SerializeLE(value, n)
Deserialize(order, bytes) == IF order = "BE" THEN DeserializeBE(bytes) ELSE DeserializeLE(bytes)

Slice(at, n) == [k \in 1..n |-> buf[at + k - 1]]

WireInit ==
    /\ \E b \in StaleByte : buf = [k \in 0..(BufferBytes - 1) |-> b]
    /\ fields = {} /\ writes = 0

(* The bytes are stored from buf[at]; whatever was written over counts no longer.     *)
Put(at, bytes, field) ==
    LET written == at..(at + Len(bytes) - 1)
    IN  /\ writes < MaxWrites /\ writes' = writes + 1
        /\ buf' = [k \in DOMAIN buf |-> IF k \in written THEN bytes[k - at + 1] ELSE buf[k]]
        /\ fields' = {f \in fields : f.at..(f.at + f.n - 1) \cap written = {}} \cup field

SerializeWord(order, n, at, value) ==
    Put(at, Serialize(order, value, n),
        {[kind |-> "word", order |-> order, at |-> at, n |-> n, word |-> value]})

SerializeBlob(order, at, src) ==
    Put(at, SerializedBlob(order, src),
        {[kind |-> "blob", order |-> order, at |-> at, n |-> Len(src), bytes |-> src]})

(* BitManipulation_bitSet, _setBit, _clearBit and _toggleBit, for n <= MAX_BIT_SHIFT. *)
BitSet(data, n) == n \in data
Changed(op, data, n) ==
    CASE op = "set"    -> data \cup {n}
      [] op = "clear"  -> data \ {n}
      [] op = "toggle" -> (data \ {n}) \cup ({n} \ data)

(* A caller changes one bit of a 32-bit word in the buffer: deserialise, the bit      *)
(* function, serialise. A bit function that refuses the bit leaves its output alone,  *)
(* and nothing is written.                                                            *)
UpdateBit(order, at, op, n) ==
    LET word == Deserialize(order, Slice(at, 4))
        same == {f \in fields : f.kind = "word" /\ f.order = order /\ f.at = at /\ f.n = 4}
    IN  \/ /\ n <= MAX_BIT_SHIFT
           /\ Put(at, Serialize(order, Changed(op, word, n), 4),
                  {[f EXCEPT !.word = Changed(op, @, n)] : f \in same})
        \/ n > MAX_BIT_SHIFT /\ UNCHANGED wvars

WireNext ==
    \E order \in Order, at \in 0..(BufferBytes - 1) :
        \/ \E n \in 1..4, value \in WireWord :
               at + n <= BufferBytes /\ SerializeWord(order, n, at, value)
        \/ \E src \in Blob : at + Len(src) <= BufferBytes /\ SerializeBlob(order, at, src)
        \/ \E op \in {"set", "clear", "toggle"}, n \in BitNumber :
               at + 4 <= BufferBytes /\ UpdateBit(order, at, op, n)

WireSpec == WireInit /\ [][WireNext]_wvars

-------------------------------------------------------------------------------
(* WireTypeOK: bytes stay bytes, and fields lie in the buffer.                        *)
WireTypeOK ==
    /\ buf \in [0..(BufferBytes - 1) -> WireByte]
    /\ fields \subseteq Field
    /\ \A f \in fields : f.at + f.n <= BufferBytes
    /\ writes \in 0..MaxWrites

(* FieldsReadBack: what has been written, and changed bit by bit since, is read back  *)
(* by the function of the same name, cut to its number of bytes, until it is          *)
(* overwritten: whatever was written next to it, in whichever order of bytes.         *)
FieldsReadBack ==
    \A f \in fields :
        IF f.kind = "word"
        THEN \A n \in 0..MAX_BIT_SHIFT :
                 BitSet(Deserialize(f.order, Slice(f.at, f.n)), n) <=> n < 8 * f.n /\ n \in f.word
        ELSE DeserializedBlob(f.order, Slice(f.at, f.n)) = f.bytes

=============================================================================
