-------------------------------- MODULE TextProofs --------------------------------
(* Proofs about TextFunctions for every size of the buffers, every set of keys,       *)
(* values, characters, bytes, words and blobs, and any number of calls: the          *)
(* inductive invariant of each of the four parts, and what follows for them together. *)
(*                                                                                    *)
(* Wire: what a reader gets from the bytes of a field is what Reads says. Bytes just  *)
(* serialised are read back (SerializedReads), a write leaves the bytes of the fields *)
(* it does not touch alone (PutKeeps), and since four bytes hold exactly a word, a    *)
(* bit changed in the word that is read is changed in the field (UpdateKeeps).        *)
(*                                                                                    *)
(* StringToUint32: after i digits the integer is the number they spell, times the     *)
(* power of ten that the digits to come leave room for (ConvInv).                     *)
(*                                                                                    *)
(* Base64: bytes and six-bit numbers are two ways to cut the same row of bits, which   *)
(* both loops keep to, group by group (Base64Inv); what they read stays in their      *)
(* input, up to the one character that is looked at behind some texts (ReadInv).       *)
(*                                                                                    *)
(* Json: the text is put together from the contributions of the calls; one more call  *)
(* appends its own and, if it asks for a pair behind a pair, a comma to the one       *)
(* before (SaidAppend, SaidAppendBehindPair). The code sees that from the last        *)
(* character, which is a quote exactly behind a pair (SaidEnds). An empty text has    *)
(* none, and may get a comma nobody asked for; a text that Json_startString began is   *)
(* never empty (BegunInv).                                                             *)
(* For the search: the strings of the calls stand in the text between quotes, in     *)
(* their order, and no letter or quote stands elsewhere (CallsLaid). So where the     *)
(* key's letters occur in the text, they are in one string (OccursInString), and the  *)
(* first quote behind the end of a string opens the next (NextString).                *)
EXTENDS TextFunctions, Recursion, SequenceTheorems, TLAPS

---------------------------------------------------------------------------------------
(* Wire                                                                               *)

(* The n bytes of b from `at`, and what FieldsReadBack says of one field in them.     *)
SliceOf(b, at, n) == [k \in 1..n |-> b[at + k - 1]]

Reads(bytes, f) ==
    IF f.kind = "word"
    THEN \A n \in 0..MAX_BIT_SHIFT :
             BitSet(Deserialize(f.order, bytes), n) <=> n < 8 * f.n /\ n \in f.word
    ELSE DeserializedBlob(f.order, bytes) = f.bytes

(* A function on 1..n is a sequence of length n.                                      *)
LEMMA AsSequence ==
    ASSUME NEW n \in Nat, NEW s \in [1..n -> WireByte]
    PROVE  s \in Seq(WireByte) /\ Len(s) = n
  OBVIOUS

(* The bytes that are written are bytes.                                              *)
LEMMA SerializeType ==
    ASSUME NEW number \in SUBSET (0..31), NEW n \in 1..4, NEW order \in Order
    PROVE  /\ Serialize(order, number, n) \in Seq(WireByte)
           /\ Len(Serialize(order, number, n)) = n
  <1>1. \A k \in Int : ByteOf(number, k) \in WireByte
    BY DEF ByteOf, WireByte
  <1>2. /\ SerializeBE(number, n) \in [1..n -> WireByte]
        /\ SerializeLE(number, n) \in [1..n -> WireByte]
    BY <1>1 DEF SerializeBE, SerializeLE
  <1>3. Serialize(order, number, n) \in [1..n -> WireByte]
    BY <1>2 DEF Serialize
  <1> QED
    BY <1>3

(* What a deserialised word contains.                                                 *)
LEMMA DeserializeMember ==
    ASSUME NEW bytes \in Seq(WireByte), NEW x
    PROVE  /\ x \in DeserializeBE(bytes) <=>
                  \E k \in 1..Len(bytes) : \E b \in bytes[k] : x = b + 8 * (Len(bytes) - k)
           /\ x \in DeserializeLE(bytes) <=>
                  \E k \in 1..Len(bytes) : \E b \in bytes[k] : x = b + 8 * (k - 1)
  BY SMTT(60) DEF DeserializeBE, DeserializeLE

(* A bit is in one byte of its word, at one place.                                    *)
LEMMA BitHasAPlace ==
    ASSUME NEW x \in 0..31
    PROVE  \E k \in 0..3 : \E b \in 0..7 : x = b + 8 * k
  <1>1. CASE x < 8
    BY <1>1
  <1>2. CASE 8 <= x /\ x < 16
    <2>1. x - 8 \in 0..7 /\ x = (x - 8) + 8 * 1
      BY <1>2
    <2> QED  BY <2>1
  <1>3. CASE 16 <= x /\ x < 24
    <2>1. x - 16 \in 0..7 /\ x = (x - 16) + 8 * 2
      BY <1>3
    <2> QED  BY <2>1
  <1>4. CASE 24 <= x
    <2>1. x - 24 \in 0..7 /\ x = (x - 24) + 8 * 3
      BY <1>4
    <2> QED  BY <2>1
  <1> QED  BY <1>1, <1>2, <1>3, <1>4

(* Deserialising what was serialised gives the low 8 * n bits of the word.            *)
LEMMA SerializedReads ==
    ASSUME NEW number \in SUBSET (0..31), NEW n \in 1..4, NEW order \in Order,
           NEW x \in 0..31
    PROVE  x \in Deserialize(order, Serialize(order, number, n)) <=> x < 8 * n /\ x \in number
  <1> DEFINE be == SerializeBE(number, n)
             le == SerializeLE(number, n)
  <1>1. /\ be \in Seq(WireByte) /\ Len(be) = n
        /\ le \in Seq(WireByte) /\ Len(le) = n
    BY SerializeType DEF Serialize, Order
  <1>2. PICK j \in 0..3, c \in 0..7 : x = c + 8 * j
    BY BitHasAPlace
  <1>3. \A k \in Int : \A b \in ByteOf(number, k) : b \in 0..7 /\ b + 8 * k \in number
    BY DEF ByteOf
  <1>4. x \in number => c \in ByteOf(number, j)
    BY <1>2 DEF ByteOf
  <1>5. x \in DeserializeBE(be) <=> x < 8 * n /\ x \in number
    <2>1. ASSUME x \in DeserializeBE(be) PROVE x < 8 * n /\ x \in number
      <3>1. PICK k \in 1..n : \E b \in be[k] : x = b + 8 * (n - k)
        BY <1>1, <2>1, DeserializeMember
      <3>2. PICK b \in be[k] : x = b + 8 * (n - k)
        BY <3>1
      <3>3. b \in ByteOf(number, n - k)
        BY DEF SerializeBE
      <3> QED
        BY <1>3, <3>2, <3>3
    <2>2. ASSUME x < 8 * n, x \in number PROVE x \in DeserializeBE(be)
      <3>1. n - j \in 1..n /\ n - (n - j) = j
        BY <1>2, <2>2
      <3>2. be[n - j] = ByteOf(number, j)
        BY <3>1 DEF SerializeBE
      <3> QED
        BY <1>1, <1>2, <1>4, <2>2, <3>1, <3>2, DeserializeMember
    <2> QED
      BY <2>1, <2>2
  <1>6. x \in DeserializeLE(le) <=> x < 8 * n /\ x \in number
    <2>1. ASSUME x \in DeserializeLE(le) PROVE x < 8 * n /\ x \in number
      <3>1. PICK k \in 1..n : \E b \in le[k] : x = b + 8 * (k - 1)
        BY <1>1, <2>1, DeserializeMember
      <3>2. PICK b \in le[k] : x = b + 8 * (k - 1)
        BY <3>1
      <3>3. b \in ByteOf(number, k - 1)
        BY DEF SerializeLE
      <3> QED
        BY <1>3, <3>2, <3>3
    <2>2. ASSUME x < 8 * n, x \in number PROVE x \in DeserializeLE(le)
      <3>1. j + 1 \in 1..n /\ (j + 1) - 1 = j
        BY <1>2, <2>2
      <3>2. le[j + 1] = ByteOf(number, j)
        BY <3>1 DEF SerializeLE
      <3> QED
        BY <1>1, <1>2, <1>4, <2>2, <3>1, <3>2, DeserializeMember
    <2> QED
      BY <2>1, <2>2
  <1> QED
    BY <1>5, <1>6 DEF Serialize, Deserialize

(* Four bytes hold a word, and nothing beyond it.                                     *)
LEMMA DeserializeType ==
    ASSUME NEW bytes \in Seq(WireByte), Len(bytes) = 4, NEW order \in Order
    PROVE  Deserialize(order, bytes) \in SUBSET (0..31)
  <1>1. \A k \in 1..4 : bytes[k] \in WireByte
    BY ElementOfSeq
  <1>2. \A k \in 1..4 : \A b \in bytes[k] : b \in 0..7
    BY <1>1 DEF WireByte
  <1>3. ASSUME NEW x \in DeserializeBE(bytes) PROVE x \in 0..31
    <2>0. \E k \in 1..Len(bytes) : \E b \in bytes[k] : x = b + 8 * (Len(bytes) - k)
      BY <1>3 DEF DeserializeBE
    <2>1. PICK k \in 1..4 : \E b \in bytes[k] : x = b + 8 * (4 - k)
      BY <2>0
    <2>2. PICK b \in bytes[k] : x = b + 8 * (4 - k)
      BY <2>1
    <2>3. b \in 0..7
      BY <1>2
    <2> QED
      BY <2>2, <2>3
  <1>4. ASSUME NEW x \in DeserializeLE(bytes) PROVE x \in 0..31
    <2>1. PICK k \in 1..4 : \E b \in bytes[k] : x = b + 8 * (k - 1)
      BY <1>4, DeserializeMember
    <2>2. PICK b \in bytes[k] : x = b + 8 * (k - 1)
      BY <2>1
    <2>3. b \in 0..7
      BY <1>2
    <2> QED
      BY <2>2, <2>3
  <1>5. DeserializeBE(bytes) \subseteq 0..31 /\ DeserializeLE(bytes) \subseteq 0..31
    BY <1>3, <1>4
  <1> QED
    BY <1>5 DEF Deserialize

(* Reversing bytes twice changes nothing.                                             *)
LEMMA ReverseTwice ==
    ASSUME NEW bytes \in Seq(WireByte)
    PROVE  /\ Reverse(bytes) \in Seq(WireByte)
           /\ Len(Reverse(bytes)) = Len(bytes)
           /\ Reverse(Reverse(bytes)) = bytes
  <1> DEFINE r == Reverse(bytes)
  <1>1. r = [k \in 1..Len(bytes) |-> bytes[(Len(bytes) - k) + 1]]
    BY DEF Reverse
  <1>2. Len(bytes) \in Nat /\ \A k \in 1..Len(bytes) : (Len(bytes) - k) + 1 \in 1..Len(bytes)
    OBVIOUS
  <1>3. r \in [1..Len(bytes) -> WireByte]
    BY <1>1, <1>2
  <1>4. r \in Seq(WireByte) /\ Len(r) = Len(bytes)
    BY <1>3
  <1>5. Reverse(r) = [k \in 1..Len(bytes) |-> r[(Len(bytes) - k) + 1]]
    BY <1>4 DEF Reverse
  <1>6. \A k \in 1..Len(bytes) : r[(Len(bytes) - k) + 1] = bytes[k]
    BY <1>1, <1>2
  <1>7. bytes = [k \in 1..Len(bytes) |-> bytes[k]]
    OBVIOUS
  <1> QED
    BY <1>4, <1>5, <1>6, <1>7

(* FieldsReadBack, field by field.                                                    *)
LEMMA FieldByField == FieldsReadBack <=> \A f \in fields : Reads(SliceOf(buf, f.at, f.n), f)
  BY DEF FieldsReadBack, Reads, SliceOf, Slice

(* What Put does to the memory: its bytes are there, all others where they were.      *)
LEMMA PutWrites ==
    ASSUME WireTypeOK, NEW at \in Nat, NEW bytes \in Seq(WireByte), NEW field,
           at + Len(bytes) <= BufferBytes, BufferBytes \in Nat,
           Put(at, bytes, field)
    PROVE  /\ buf' \in [0..(BufferBytes - 1) -> WireByte]
           /\ SliceOf(buf', at, Len(bytes)) = bytes
           /\ \A f \in fields : f.at..(f.at + f.n - 1) \cap at..(at + Len(bytes) - 1) = {}
                  => SliceOf(buf', f.at, f.n) = SliceOf(buf, f.at, f.n)
  <1> DEFINE written == at..(at + Len(bytes) - 1)
  <1>1. /\ buf \in [0..(BufferBytes - 1) -> WireByte]
        /\ fields \subseteq Field
        /\ \A f \in fields : f.at + f.n <= BufferBytes
    BY DEF WireTypeOK
  <1>2. buf' = [k \in 0..(BufferBytes - 1) |-> IF k \in written THEN bytes[k - at + 1] ELSE buf[k]]
    BY <1>1 DEF Put
  <1>3. \A k \in written : bytes[k - at + 1] \in WireByte
    OBVIOUS
  <1>4. buf' \in [0..(BufferBytes - 1) -> WireByte]
    BY <1>1, <1>2, <1>3
  <1>5. \A k \in 1..Len(bytes) : buf'[at + k - 1] = bytes[k]
    <2> SUFFICES ASSUME NEW k \in 1..Len(bytes) PROVE buf'[at + k - 1] = bytes[k]
      OBVIOUS
    <2>1. at + k - 1 \in written /\ at + k - 1 \in 0..(BufferBytes - 1) /\ (at + k - 1) - at + 1 = k
      OBVIOUS
    <2> QED
      BY <1>2, <2>1
  <1>6. SliceOf(buf', at, Len(bytes)) = bytes
    <2>1. bytes = [k \in 1..Len(bytes) |-> bytes[k]]
      OBVIOUS
    <2> QED
      BY <1>5, <2>1 DEF SliceOf
  <1>7. ASSUME NEW f \in fields, f.at..(f.at + f.n - 1) \cap written = {}
        PROVE  SliceOf(buf', f.at, f.n) = SliceOf(buf, f.at, f.n)
    <2>1. f.at \in Nat /\ f.n \in Nat /\ f.at + f.n <= BufferBytes
      BY <1>1 DEF Field
    <2>2. ASSUME NEW k \in 1..f.n PROVE buf'[f.at + k - 1] = buf[f.at + k - 1]
      <3>1. f.at + k - 1 \in f.at..(f.at + f.n - 1) /\ f.at + k - 1 \in 0..(BufferBytes - 1)
        BY <2>1, SMTT(60)
      <3>2. f.at + k - 1 \notin written
        BY <1>7, <3>1
      <3> QED
        BY <1>2, <3>1, <3>2
    <2> QED
      BY <2>2 DEF SliceOf
  <1> QED
    BY <1>4, <1>6, <1>7

(* A write that can be read back leaves everything readable.                          *)
LEMMA PutKeeps ==
    ASSUME WireTypeOK, FieldsReadBack, NEW at \in Nat, NEW bytes \in Seq(WireByte), NEW field,
           at + Len(bytes) <= BufferBytes, BufferBytes \in Nat, MaxWrites \in Nat,
           \A f \in field : /\ f \in Field /\ f.at = at /\ f.n = Len(bytes)
                            /\ Reads(bytes, f),
           Put(at, bytes, field)
    PROVE  (WireTypeOK /\ FieldsReadBack)'
  <1>1. fields' = {f \in fields : f.at..(f.at + f.n - 1) \cap at..(at + Len(bytes) - 1) = {}}
                  \cup field
    BY DEF Put
  <1>2. /\ buf' \in [0..(BufferBytes - 1) -> WireByte]
        /\ SliceOf(buf', at, Len(bytes)) = bytes
        /\ \A f \in fields : f.at..(f.at + f.n - 1) \cap at..(at + Len(bytes) - 1) = {}
               => SliceOf(buf', f.at, f.n) = SliceOf(buf, f.at, f.n)
    BY PutWrites
  <1>3. WireTypeOK'
    <2>1. writes' \in 0..MaxWrites
      BY DEF WireTypeOK, Put
    <2>2. fields' \subseteq Field
      BY <1>1 DEF WireTypeOK
    <2>3. \A f \in fields' : f.at + f.n <= BufferBytes
      BY <1>1 DEF WireTypeOK
    <2> QED
      BY <1>2, <2>1, <2>2, <2>3 DEF WireTypeOK
  <1>4. FieldsReadBack'
    <2>1. \A f \in fields : Reads(SliceOf(buf, f.at, f.n), f)
      BY FieldByField
    <2>2. ASSUME NEW f \in fields' PROVE Reads(SliceOf(buf', f.at, f.n), f)
      <3>1. CASE f \in field
        BY <1>2, <3>1
      <3>2. CASE f \notin field
        <4>1. f \in fields /\ SliceOf(buf', f.at, f.n) = SliceOf(buf, f.at, f.n)
          BY <1>1, <1>2, <3>2
        <4> QED
          BY <2>1, <4>1
      <3> QED
        BY <3>1, <3>2
    <2> QED
      BY <2>2 DEF FieldsReadBack, Reads, SliceOf, Slice
  <1> QED
    BY <1>3, <1>4

(* A word that is written keeps all fields readable,                                  *)
LEMMA WordKeeps ==
    ASSUME WireTypeOK, FieldsReadBack, NEW order \in Order, NEW at \in 0..(BufferBytes - 1),
           NEW n \in 1..4, NEW number \in WireWord, at + n <= BufferBytes,
           SerializeWord(order, n, at, number)
    PROVE  (WireTypeOK /\ FieldsReadBack)'
  <1> DEFINE bytes == Serialize(order, number, n)
             f == [kind |-> "word", order |-> order, at |-> at, n |-> n, word |-> number]
  <1>1. number \in SUBSET (0..31) /\ BufferBytes \in Nat /\ MaxWrites \in Nat
    BY WireAssumption
  <1>2. bytes \in Seq(WireByte) /\ Len(bytes) = n
    BY <1>1, SerializeType
  <1>3. f \in Field
    BY <1>1 DEF Field
  <1>4. Reads(bytes, f)
    BY <1>1, SerializedReads DEF Reads, BitSet, MAX_BIT_SHIFT
  <1>5. \A g \in {f} : g \in Field /\ g.at = at /\ g.n = Len(bytes) /\ Reads(bytes, g)
    BY <1>2, <1>3, <1>4
  <1>6. Put(at, bytes, {f})
    BY DEF SerializeWord
  <1> HIDE DEF bytes, f
  <1> QED
    BY <1>1, <1>2, <1>5, <1>6, PutKeeps

(* a sequence of bytes does,                                                          *)
LEMMA BlobKeeps ==
    ASSUME WireTypeOK, FieldsReadBack, NEW order \in Order, NEW at \in 0..(BufferBytes - 1),
           NEW src \in Blob, at + Len(src) <= BufferBytes, SerializeBlob(order, at, src)
    PROVE  (WireTypeOK /\ FieldsReadBack)'
  <1> DEFINE bytes == SerializedBlob(order, src)
             f == [kind |-> "blob", order |-> order, at |-> at, n |-> Len(src), bytes |-> src]
  <1>1. src \in Seq(WireByte) /\ BufferBytes \in Nat /\ MaxWrites \in Nat
    BY WireAssumption
  <1>2. bytes \in Seq(WireByte) /\ Len(bytes) = Len(src)
    BY <1>1, ReverseTwice DEF SerializedBlob
  <1>3. f \in Field
    BY <1>1 DEF Field
  <1>4. DeserializedBlob(order, bytes) = src
    BY <1>1, ReverseTwice DEF SerializedBlob, DeserializedBlob
  <1>5. Reads(bytes, f)
    BY <1>4 DEF Reads
  <1>6. \A g \in {f} : g \in Field /\ g.at = at /\ g.n = Len(bytes) /\ Reads(bytes, g)
    BY <1>2, <1>3, <1>5
  <1>7. Put(at, bytes, {f})
    BY DEF SerializeBlob
  <1> HIDE DEF bytes, f
  <1> QED
    BY <1>1, <1>2, <1>6, <1>7, PutKeeps

(* A changed bit of a word is a bit of a word.                                        *)
LEMMA ChangedType ==
    ASSUME NEW word \in SUBSET (0..31), NEW n \in 0..31, NEW op \in {"set", "clear", "toggle"}
    PROVE  Changed(op, word, n) \in SUBSET (0..31)
  BY DEF Changed

(* Changing a bit of the word that is read changes it in every field it is read from. *)
LEMMA UpdateKeeps ==
    ASSUME WireTypeOK, FieldsReadBack, NEW order \in Order, NEW at \in 0..(BufferBytes - 1),
           NEW op \in {"set", "clear", "toggle"}, NEW n \in BitNumber, at + 4 <= BufferBytes,
           UpdateBit(order, at, op, n)
    PROVE  (WireTypeOK /\ FieldsReadBack)'
  <1> DEFINE four == Slice(at, 4)
             word == Deserialize(order, four)
             same == {f \in fields : f.kind = "word" /\ f.order = order /\ f.at = at /\ f.n = 4}
             new  == Changed(op, word, n)
             bytes == Serialize(order, new, 4)
             field == {[f EXCEPT !.word = Changed(op, @, n)] : f \in same}
  <1>0. BufferBytes \in Nat /\ MaxWrites \in Nat /\ n \in 0..255
    BY WireAssumption
  <1>1. CASE n > MAX_BIT_SHIFT
    <2>1. UNCHANGED wvars
      BY <1>0, <1>1 DEF UpdateBit, MAX_BIT_SHIFT
    <2> QED
      BY <2>1 DEF wvars, WireTypeOK, FieldsReadBack, Slice
  <1>2. CASE n <= MAX_BIT_SHIFT
    <2>1. n \in 0..31 /\ Put(at, bytes, field)
      BY <1>0, <1>2 DEF UpdateBit, MAX_BIT_SHIFT
    <2>2. four \in [1..4 -> WireByte]
      BY <1>0 DEF Slice, WireTypeOK
    <2>3. four \in Seq(WireByte) /\ Len(four) = 4
      <3> HIDE DEF four
      <3> QED
        BY <2>2, AsSequence
    <2>4. word \in SUBSET (0..31)
      BY <2>3, DeserializeType
    <2>5. new \in SUBSET (0..31)
      BY <2>1, <2>4, ChangedType
    <2>6. bytes \in Seq(WireByte) /\ Len(bytes) = 4
      <3> HIDE DEF new
      <3> QED
        BY <2>5, SerializeType
    <2>7. ASSUME NEW f \in same
          PROVE  LET g == [f EXCEPT !.word = Changed(op, @, n)]
                 IN  g \in Field /\ g.at = at /\ g.n = Len(bytes) /\ Reads(bytes, g)
      <3> DEFINE g == [f EXCEPT !.word = Changed(op, @, n)]
      <3>1. /\ f \in fields /\ f.kind = "word" /\ f.order = order /\ f.at = at /\ f.n = 4
            /\ f \in [kind : {"word"}, order : Order, at : Nat, n : 1..4, word : SUBSET (0..31)]
        BY DEF WireTypeOK, Field
      <3>2. \A x \in 0..31 : x \in word <=> x < 32 /\ x \in f.word
        BY <3>1 DEF FieldsReadBack, BitSet, MAX_BIT_SHIFT
      <3>3. f.word = word
        <4>1. f.word \in SUBSET (0..31)
          BY <3>1
        <4>2. \A x \in 0..31 : x \in word <=> x \in f.word
          BY <3>2
        <4> HIDE DEF word
        <4> QED
          BY <2>4, <4>1, <4>2
      <3>4. g = [kind |-> "word", order |-> order, at |-> at, n |-> 4, word |-> new]
        <4>1. g = [f EXCEPT !.word = new]
          BY <3>1, <3>3
        <4> HIDE DEF new
        <4> QED
          BY <3>1, <4>1
      <3>5. g \in Field
        <4> HIDE DEF new, g
        <4> QED
          BY <2>5, <3>4 DEF Field
      <3>6. Reads(bytes, g)
        <4>1. g.kind = "word" /\ g.order = order /\ g.n = 4 /\ g.word = new
          BY <3>4
        <4>2. \A x \in 0..31 : x \in Deserialize(order, bytes) <=> x < 8 * 4 /\ x \in new
          <5> HIDE DEF new
          <5> QED
            BY <2>5, SerializedReads
        <4> HIDE DEF new, g, bytes
        <4> QED
          BY <4>1, <4>2 DEF Reads, BitSet, MAX_BIT_SHIFT
      <3> HIDE DEF bytes
      <3> QED
        BY <2>6, <3>1, <3>4, <3>5, <3>6
    <2>8. \A g \in field : g \in Field /\ g.at = at /\ g.n = Len(bytes) /\ Reads(bytes, g)
      BY <2>7
    <2> HIDE DEF four, word, same, new, bytes, field
    <2>9. at \in Nat /\ at + Len(bytes) <= BufferBytes
      BY <1>0, <2>6
    <2> QED
      BY <1>0, <2>1, <2>6, <2>8, <2>9, PutKeeps
  <1> QED
    BY <1>0, <1>1, <1>2 DEF MAX_BIT_SHIFT

(* Nothing has been written at the start.                                             *)
LEMMA InitReads == WireInit => WireTypeOK /\ FieldsReadBack
  BY WireAssumption DEF WireInit, WireTypeOK, FieldsReadBack, WireByte

(* Every step keeps the memory in shape and the fields readable.                      *)
LEMMA StepReads == WireTypeOK /\ FieldsReadBack /\ [WireNext]_wvars => (WireTypeOK /\ FieldsReadBack)'
  <1> SUFFICES ASSUME WireTypeOK, FieldsReadBack, [WireNext]_wvars
               PROVE  (WireTypeOK /\ FieldsReadBack)'
    OBVIOUS
  <1>1. CASE UNCHANGED wvars
    BY <1>1 DEF wvars, WireTypeOK, FieldsReadBack, Slice
  <1>2. ASSUME NEW order \in Order, NEW at \in 0..(BufferBytes - 1), NEW n \in 1..4,
               NEW number \in WireWord, at + n <= BufferBytes, SerializeWord(order, n, at, number)
        PROVE  (WireTypeOK /\ FieldsReadBack)'
    BY <1>2, WordKeeps
  <1>3. ASSUME NEW order \in Order, NEW at \in 0..(BufferBytes - 1), NEW src \in Blob,
               at + Len(src) <= BufferBytes, SerializeBlob(order, at, src)
        PROVE  (WireTypeOK /\ FieldsReadBack)'
    BY <1>3, BlobKeeps
  <1>4. ASSUME NEW order \in Order, NEW at \in 0..(BufferBytes - 1),
               NEW op \in {"set", "clear", "toggle"}, NEW n \in BitNumber,
               at + 4 <= BufferBytes, UpdateBit(order, at, op, n)
        PROVE  (WireTypeOK /\ FieldsReadBack)'
    BY <1>4, UpdateKeeps
  <1> QED
    BY <1>1, <1>2, <1>3, <1>4 DEF WireNext

(* Both always hold.                                                                  *)
LEMMA WireInvariance == WireSpec => [](WireTypeOK /\ FieldsReadBack)
  BY InitReads, StepReads, PTL DEF WireSpec

---------------------------------------------------------------------------------------
(* StringToUint32                                                                     *)

(* The powers of ten of the table.                                                    *)
LEMMA PowersOfTen ==
    /\ pow10 \in [0..(MAX_UINT32_POW_10_EXPONENT - 1) -> Nat]
    /\ pow10[0] = 1
    /\ \A k \in 1..(MAX_UINT32_POW_10_EXPONENT - 1) : pow10[k] = 10 * pow10[k - 1]
  <1> DEFINE N == MAX_UINT32_POW_10_EXPONENT - 1
             step == [k \in 1..N |-> [p \in Nat |-> 10 * p]]
             Equation(g) == g = [k \in 0..N |-> IF k = 0 THEN 1 ELSE 10 * g[k - 1]]
  <1>1. N \in Nat
    BY StringToUint32Assumption
  <1>2. step \in [1..N -> [Nat -> Nat]] /\ \A k \in 1..N, p \in Nat : step[k][p] = 10 * p
    OBVIOUS
  <1>3. pow10 = CHOOSE g : Equation(g)
    BY DEF pow10
  <1> HIDE DEF N, step
  <1>4. PICK h : Steps(N, Nat, 1, step, h)
    BY <1>1, <1>2, RecursionExists
  <1>5. Equation(h)
    <2>1. h \in [0..N -> Nat] /\ h[0] = 1 /\ \A k \in 1..N : h[k] = step[k][h[k - 1]]
      BY <1>4 DEF Steps
    <2>2. ASSUME NEW k \in 1..N PROVE h[k] = 10 * h[k - 1]
      <3>1. k - 1 \in 0..N
        BY <1>1
      <3>2. h[k - 1] \in Nat
        BY <2>1, <3>1
      <3> QED
        BY <1>2, <2>1, <3>2
    <2>3. \A k \in 0..N : h[k] = IF k = 0 THEN 1 ELSE 10 * h[k - 1]
      <3>1. \A k \in 0..N : k = 0 \/ k \in 1..N
        BY <1>1
      <3>2. \A k \in 1..N : k # 0
        BY <1>1
      <3> QED
        BY <2>1, <2>2, <3>1, <3>2
    <2>4. h = [k \in 0..N |-> h[k]]
      BY <2>1
    <2> QED
      BY <2>3, <2>4
  <1>6. Equation(pow10)
    <2> HIDE DEF Equation
    <2> QED
      BY <1>3, <1>5
  <1>7. /\ DOMAIN pow10 = 0..N /\ pow10 = [k \in 0..N |-> pow10[k]]
        /\ pow10[0] = 1 /\ \A k \in 1..N : pow10[k] = 10 * pow10[k - 1]
    <2> DEFINE body == [k \in 0..N |-> IF k = 0 THEN 1 ELSE 10 * pow10[k - 1]]
    <2>1. pow10 = body
      BY <1>6
    <2>2. /\ DOMAIN body = 0..N /\ body = [k \in 0..N |-> body[k]]
          /\ body[0] = 1 /\ \A k \in 1..N : body[k] = 10 * pow10[k - 1]
      BY <1>1
    <2> HIDE DEF body
    <2> QED
      BY <2>1, <2>2
  <1>8. pow10[0] \in Nat /\ \A k \in 1..N : pow10[k - 1] \in Nat => pow10[k] \in Nat
    <2>1. ASSUME NEW k \in 1..N, pow10[k - 1] \in Nat PROVE pow10[k] \in Nat
      <3>1. pow10[k] = 10 * pow10[k - 1]
        BY <1>7
      <3> QED
        BY <2>1, <3>1
    <2>2. pow10[0] \in Nat
      <3>1. pow10[0] = 1
        BY <1>7
      <3> QED
        BY <3>1
    <2> QED
      BY <2>1, <2>2
  <1>9. \A k \in 0..N : pow10[k] \in Nat
    BY <1>1, <1>8, StaysIn
  <1> QED
    BY <1>7, <1>9 DEF N

(* u has the numbers of the first digits of s, up to n of them.                       *)
Counts(s, n, u) ==
    /\ u \in [0..Len(s) -> Nat] /\ u[0] = 0
    /\ \A k \in 1..n : u[k] = 10 * u[k - 1] + s[k]

(* The number of a string of digits is where counting its digits arrives.             *)
LEMMA NumeralOf ==
    ASSUME NEW s \in Seq(Digits)
    PROVE  \E u : Counts(s, Len(s), u) /\ Numeral(s) = u[Len(s)]
  <1> DEFINE N == Len(s)
             step == [k \in 1..N |-> [p \in Nat |-> 10 * p + s[k]]]
             Equation(g) == g = [k \in 0..N |-> IF k = 0 THEN 0 ELSE 10 * g[k - 1] + s[k]]
             upTo == CHOOSE g : Equation(g)
  <1>1. N \in Nat /\ \A k \in 1..N : s[k] \in Nat
    BY DEF Digits
  <1>2. step \in [1..N -> [Nat -> Nat]] /\ \A k \in 1..N, p \in Nat : step[k][p] = 10 * p + s[k]
    BY <1>1
  <1>3. Numeral(s) = upTo[N]
    BY DEF Numeral
  <1> HIDE DEF N, step
  <1>4. PICK h : Steps(N, Nat, 0, step, h)
    BY <1>1, <1>2, RecursionExists
  <1>5. Equation(h)
    <2>1. h \in [0..N -> Nat] /\ h[0] = 0 /\ \A k \in 1..N : h[k] = step[k][h[k - 1]]
      BY <1>4 DEF Steps
    <2>2. ASSUME NEW k \in 1..N PROVE h[k] = 10 * h[k - 1] + s[k]
      <3>1. k - 1 \in 0..N
        BY <1>1
      <3>2. h[k - 1] \in Nat
        BY <2>1, <3>1
      <3> QED
        BY <1>2, <2>1, <3>2
    <2>3. \A k \in 0..N : h[k] = IF k = 0 THEN 0 ELSE 10 * h[k - 1] + s[k]
      <3>1. \A k \in 0..N : k = 0 \/ k \in 1..N
        BY <1>1
      <3>2. \A k \in 1..N : k # 0
        BY <1>1
      <3> QED
        BY <2>1, <2>2, <3>1, <3>2
    <2>4. h = [k \in 0..N |-> h[k]]
      BY <2>1
    <2> QED
      BY <2>3, <2>4
  <1>6. Equation(upTo)
    <2> HIDE DEF Equation
    <2> QED
      BY <1>5
  <1> HIDE DEF upTo
  <1>7. /\ upTo = [k \in 0..N |-> upTo[k]]
        /\ upTo[0] = 0 /\ \A k \in 1..N : upTo[k] = 10 * upTo[k - 1] + s[k]
    <2> DEFINE body == [k \in 0..N |-> IF k = 0 THEN 0 ELSE 10 * upTo[k - 1] + s[k]]
    <2>1. upTo = body
      BY <1>6
    <2>2. /\ body = [k \in 0..N |-> body[k]]
          /\ body[0] = 0 /\ \A k \in 1..N : body[k] = 10 * upTo[k - 1] + s[k]
      BY <1>1
    <2> HIDE DEF body
    <2> QED
      BY <2>1, <2>2
  <1>8. upTo[0] \in Nat
    <2>1. upTo[0] = 0
      BY <1>7
    <2> QED
      BY <2>1
  <1>9. ASSUME NEW k \in 1..N, upTo[k - 1] \in Nat PROVE upTo[k] \in Nat
    <2>1. upTo[k] = 10 * upTo[k - 1] + s[k]
      BY <1>7
    <2> QED
      BY <1>1, <1>9, <2>1
  <1>10. \A k \in 0..N : upTo[k] \in Nat
    BY <1>1, <1>8, <1>9, StaysIn
  <1>11. Counts(s, N, upTo)
    <2>1. upTo \in [0..N -> Nat]
      BY <1>7, <1>10
    <2> QED
      BY <1>7, <2>1 DEF Counts, N
  <1> QED
    BY <1>3, <1>11 DEF N

(* A larger power of ten is not smaller.                                              *)
LEMMA PowersGrow ==
    ASSUME NEW k \in 0..(MAX_UINT32_POW_10_EXPONENT - 1), NEW j \in 0..k
    PROVE  pow10[j] <= pow10[k]
  <1> DEFINE N == MAX_UINT32_POW_10_EXPONENT - 1
             T == {n \in 0..N : \A m \in 0..n : pow10[m] <= pow10[n]}
  <1>1. N \in Nat /\ \A n \in 0..N : pow10[n] \in Nat
    BY PowersOfTen, StringToUint32Assumption
  <1>2. 0 \in T
    BY <1>1
  <1>3. ASSUME NEW n \in 0..(N - 1), n \in T PROVE n + 1 \in T
    <2>1. n + 1 \in 0..N /\ n + 1 \in 1..N /\ (n + 1) - 1 = n /\ n \in 0..N
      BY <1>1
    <2>2. pow10[n + 1] = 10 * pow10[n]
      BY <2>1, PowersOfTen
    <2>3. pow10[n] \in Nat /\ pow10[n + 1] \in Nat
      BY <1>1, <2>1
    <2>4. pow10[n] <= pow10[n + 1]
      BY <2>2, <2>3
    <2>5. ASSUME NEW m \in 0..(n + 1) PROVE pow10[m] <= pow10[n + 1]
      <3>1. CASE m = n + 1
        BY <2>3, <3>1
      <3>2. CASE m # n + 1
        <4>1. m \in 0..n /\ m \in 0..N
          <5>1. n \in Nat /\ n < N
            BY <1>1
          <5> QED
            BY <1>1, <3>2, <5>1
        <4>2. pow10[m] <= pow10[n] /\ pow10[m] \in Nat
          BY <1>1, <1>3, <4>1
        <4> QED
          BY <2>3, <2>4, <4>2
      <3> QED
        BY <3>1, <3>2
    <2> QED
      BY <2>1, <2>5
  <1>4. \A n \in 0..N : n \in T
    <2> HIDE DEF T
    <2> QED
      BY <1>1, <1>2, <1>3, InductionUpTo
  <1> QED
    BY <1>4

-----------------------------------------------------------------------------
(* The conversion, while it has not failed: what is read are digits, what they stand  *)
(* for is in the number at its power of ten, and the number leaves room for the rest. *)
Converted ==
    /\ \A k \in 1..i : str[k] \in Digits
    /\ i > 0 => length < MAX_UINT32_POW_10_EXPONENT
    /\ i = 0 => integer = 0
    /\ length < MAX_UINT32_POW_10_EXPONENT =>
           /\ integer <= pow10[length] - pow10[length - i]
           /\ \A u : Counts(str, i, u) => integer = u[i] * pow10[length - i]

(* Once it has failed, the string is no numeral or a too long one.                    *)
NoNumeral ==
    \/ \E k \in 1..Len(str) : str[k] \notin Digits
    \/ Len(str) > MAX_UINT32_POW_10_EXPONENT

ConvInv ==
    /\ ConvTypeOK
    /\ conv = "reading" =>
           /\ check_overflow <=> Len(str) = MAX_UINT32_POW_10_EXPONENT
           /\ length = IF check_overflow THEN Len(str) - 1 ELSE Len(str)
           /\ IF success THEN Converted ELSE NoNumeral
    /\ ReadsNumeral

(* The invariant of the conversion holds at the start,                                *)
LEMMA ConvInvInit == ConvInit => ConvInv
  <1> SUFFICES ASSUME ConvInit PROVE ConvInv
    OBVIOUS
  <1>1. UINT32_MAX \in Nat
    <2>1. MAX_UINT32_POW_10_EXPONENT - 1 \in 0..(MAX_UINT32_POW_10_EXPONENT - 1)
      BY StringToUint32Assumption
    <2>2. pow10[MAX_UINT32_POW_10_EXPONENT - 1] \in Nat
      BY <2>1, PowersOfTen
    <2> QED
      BY <2>2, StringToUint32Assumption
  <1>2. str = <<>> /\ Len(str) = 0 /\ str \in Seq(Characters)
    BY DEF ConvInit
  <1>3. ConvTypeOK
    <2>1. length = 0 /\ i = 0 /\ integer = 0 /\ conv = "ready"
          /\ check_overflow = FALSE /\ success = TRUE
      BY DEF ConvInit
    <2>2. length \in 0..Len(str) /\ i \in 0..length /\ integer \in 0..UINT32_MAX
      BY <1>1, <1>2, <2>1
    <2> QED
      BY <1>2, <2>1, <2>2 DEF ConvTypeOK
  <1> QED
    BY <1>3 DEF ConvInit, ConvInv, ReadsNumeral

(* The largest word, and what one more digit does to a number.                        *)
LEMMA Widths ==
    /\ UINT32_MAX \in Nat /\ MAX_UINT32_POW_10_EXPONENT \in Nat \ {0}
    /\ pow10[MAX_UINT32_POW_10_EXPONENT - 1] \in Nat
    /\ pow10[MAX_UINT32_POW_10_EXPONENT - 1] <= UINT32_MAX
    /\ \A n \in Int : Word32(n) \in 0..UINT32_MAX
    /\ \A n \in 0..UINT32_MAX : Word32(n) = n
    /\ \A n \in Nat, digit \in Digits : Overflows(n, digit) <=> 10 * n + digit > UINT32_MAX
  <1>1. MAX_UINT32_POW_10_EXPONENT - 1 \in 0..(MAX_UINT32_POW_10_EXPONENT - 1)
    BY StringToUint32Assumption
  <1>2. pow10[MAX_UINT32_POW_10_EXPONENT - 1] \in Nat
    BY <1>1, PowersOfTen
  <1>3. UINT32_MAX \in Nat /\ pow10[MAX_UINT32_POW_10_EXPONENT - 1] <= UINT32_MAX
    BY <1>2, StringToUint32Assumption
  <1>4. \A n \in Int : Word32(n) \in 0..UINT32_MAX
    BY <1>3 DEF Word32
  <1>5. \A n \in 0..UINT32_MAX : Word32(n) = n
    BY <1>3 DEF Word32
  <1>6. \A n \in Nat, digit \in Digits : Overflows(n, digit) <=> 10 * n + digit > UINT32_MAX
    BY <1>3 DEF Overflows, Digits
  <1> QED
    BY <1>2, <1>3, <1>4, <1>5, <1>6, StringToUint32Assumption

(* One more digit at its power of ten.                                                *)
LEMMA DigitFits ==
    ASSUME NEW n \in 0..(MAX_UINT32_POW_10_EXPONENT - 1), NEW m \in 0..(n - 1),
           NEW number \in Nat, number <= pow10[n] - pow10[n - m], NEW digit \in Digits
    PROVE  LET sum == number + digit * pow10[n - (m + 1)]
           IN  sum \in 0..UINT32_MAX /\ sum <= pow10[n] - pow10[n - (m + 1)]
  <1> DEFINE p == pow10[n - (m + 1)]
  <1>1. /\ n - m \in 1..(MAX_UINT32_POW_10_EXPONENT - 1)
        /\ n - (m + 1) \in 0..(MAX_UINT32_POW_10_EXPONENT - 1) /\ (n - m) - 1 = n - (m + 1)
    BY Widths
  <1>2. p \in Nat /\ pow10[n] \in Nat /\ pow10[n - m] = 10 * p
    BY <1>1, PowersOfTen
  <1>3. pow10[n] <= UINT32_MAX
    <2>1. MAX_UINT32_POW_10_EXPONENT - 1 \in 0..(MAX_UINT32_POW_10_EXPONENT - 1)
          /\ n \in 0..(MAX_UINT32_POW_10_EXPONENT - 1)
      BY Widths
    <2>2. pow10[n] <= pow10[MAX_UINT32_POW_10_EXPONENT - 1]
      BY <2>1, PowersGrow
    <2> QED
      BY <1>2, <2>2, Widths
  <1>4. digit * p \in Nat /\ digit * p <= 9 * p
    <2> HIDE DEF p
    <2>1. \A d \in 0..9, q \in Nat : d * q \in Nat /\ d * q <= 9 * q
      OBVIOUS
    <2> QED
      BY <1>2, <2>1 DEF Digits
  <1> HIDE DEF p
  <1> QED
    BY <1>2, <1>3, <1>4, Widths DEF p

(* every step keeps it,                                                               *)
LEMMA ConvInvNext == ConvInv /\ [ConvNext]_cvars => ConvInv'
  <1> SUFFICES ASSUME ConvInv, [ConvNext]_cvars PROVE ConvInv'
    OBVIOUS
  <1> DEFINE D == MAX_UINT32_POW_10_EXPONENT
  <1>t. /\ str \in Seq(Characters) /\ conv \in {"ready", "reading", "returned"}
        /\ length \in 0..Len(str) /\ i \in 0..length
        /\ check_overflow \in BOOLEAN /\ success \in BOOLEAN
        /\ integer \in 0..UINT32_MAX /\ Len(str) \in Nat
        /\ UINT32_MAX \in Nat /\ D \in Nat \ {0}
    BY Widths DEF ConvInv, ConvTypeOK
  <1>1. ASSUME NEW n \in 0..MaxLength, NEW s \in [1..n -> Characters],
               conv = "ready", StartConversion(s)
        PROVE  ConvInv'
    <2>1. s \in Seq(Characters) /\ Len(s) \in Nat
      BY StringToUint32Assumption
    <2>2. /\ conv' = "reading" /\ str' = s /\ i' = 0 /\ integer' = 0 /\ success' = TRUE
          /\ check_overflow' = (Len(s) = D)
          /\ length' = IF check_overflow' THEN Len(s) - 1 ELSE Len(s)
      BY <1>1 DEF StartConversion
    <2>3. length' \in 0..Len(s)
      <3>1. CASE Len(s) = D
        <4>1. length' = Len(s) - 1
          BY <2>2, <3>1
        <4> QED
          BY <1>t, <2>1, <3>1, <4>1
      <3>2. CASE Len(s) # D
        <4>1. length' = Len(s)
          BY <2>2, <3>2
        <4> QED
          BY <2>1, <4>1
      <3> QED
        BY <3>1, <3>2
    <2>4. ConvTypeOK'
      BY <1>t, <2>1, <2>2, <2>3 DEF ConvTypeOK
    <2>5. Converted'
      <3>1. \A k \in 1..i' : str'[k] \in Digits
        BY <2>2
      <3>2. ASSUME length' < D
            PROVE  /\ integer' <= pow10[length'] - pow10[length' - i']
                   /\ \A u : Counts(str', i', u) => integer' = u[i'] * pow10[length' - i']
        <4>1. length' - i' = length' /\ pow10[length'] \in Nat
          BY <1>t, <2>2, <2>3, <3>2, PowersOfTen
        <4>2. 0 <= pow10[length'] - pow10[length'] /\ 0 = 0 * pow10[length']
          BY <4>1
        <4> QED
          BY <2>2, <4>1, <4>2 DEF Counts
      <3> QED
        BY <2>2, <3>1, <3>2 DEF Converted
    <2> QED
      BY <2>2, <2>4, <2>5 DEF ConvInv, ReadsNumeral
  <1>2. CASE ReadDigit
    <2>1. /\ conv = "reading" /\ success /\ i < length
          /\ UNCHANGED <<str, conv, length, check_overflow>>
          /\ check_overflow <=> Len(str) = D
          /\ length = IF check_overflow THEN Len(str) - 1 ELSE Len(str)
          /\ Converted
      BY <1>2 DEF ReadDigit, ConvInv
    <2>2. ReadsNumeral'
      BY <2>1 DEF ReadsNumeral
    <2>3. i + 1 \in 1..Len(str) /\ i + 1 \in 0..length /\ Power(i) = length - (i + 1)
          /\ Power(i) \in Nat
      BY <1>t, <2>1 DEF Power
    <2>4. CASE str[i + 1] \notin Digits
      <3>1. success' = FALSE /\ UNCHANGED <<integer, i>>
        BY <1>2, <2>4 DEF ReadDigit
      <3>2. NoNumeral'
        BY <2>1, <2>3, <2>4 DEF NoNumeral
      <3>3. ConvTypeOK'
        BY <1>t, <2>1, <3>1 DEF ConvTypeOK
      <3> QED
        BY <2>1, <2>2, <3>1, <3>2, <3>3 DEF ConvInv
    <2>5. CASE str[i + 1] \in Digits /\ ~HasPower(Power(i))
      <3>1. success' = FALSE /\ integer' = integer /\ i' = i + 1
        BY <1>2, <2>5 DEF ReadDigit
      <3>2. Len(str) > D
        BY <1>t, <2>1, <2>3, <2>5 DEF HasPower
      <3>3. NoNumeral'
        BY <2>1, <3>2 DEF NoNumeral
      <3>4. ConvTypeOK'
        BY <1>t, <2>1, <2>3, <3>1 DEF ConvTypeOK
      <3> QED
        BY <2>1, <2>2, <3>1, <3>3, <3>4 DEF ConvInv
    <2>6. CASE str[i + 1] \in Digits /\ HasPower(Power(i))
      <3> DEFINE digit == str[i + 1]
                 p == pow10[length - (i + 1)]
                 sum == integer + digit * p
      <3>1. success' = TRUE /\ i' = i + 1 /\ integer' = Word32(sum)
        BY <1>2, <2>3, <2>6 DEF ReadDigit
      <3>2. length < D
        <4>1. CASE i = 0
          BY <1>t, <2>1, <2>3, <2>6, <4>1 DEF HasPower
        <4>2. CASE i > 0
          BY <2>1, <4>2 DEF Converted
        <4> QED
          BY <1>t, <4>1, <4>2
      <3>3. /\ integer <= pow10[length] - pow10[length - i]
            /\ \A u : Counts(str, i, u) => integer = u[i] * pow10[length - i]
        BY <2>1, <3>2 DEF Converted
      <3>4. sum \in 0..UINT32_MAX /\ sum <= pow10[length] - pow10[length - (i + 1)]
        <4>1. length \in 0..(D - 1) /\ i \in 0..(length - 1) /\ integer \in Nat
          BY <1>t, <2>1, <3>2
        <4> QED
          BY <2>6, <3>3, <4>1, DigitFits
      <3>5. integer' = sum
        BY <3>1, <3>4, Widths
      <3>6. ASSUME NEW u, Counts(str, i + 1, u) PROVE sum = u[i + 1] * p
        <4>1. Counts(str, i, u)
          <5>1. \A k \in 1..i : k \in 1..(i + 1)
            BY <1>t
          <5> QED
            BY <3>6, <5>1 DEF Counts
        <4>2. integer = u[i] * pow10[length - i]
          BY <3>3, <4>1
        <4>3. u[i] \in Nat /\ u[i + 1] = 10 * u[i] + digit
          <5>1. i + 1 \in 1..(i + 1) /\ (i + 1) - 1 = i /\ i \in 0..Len(str)
            BY <1>t
          <5>2. u \in [0..Len(str) -> Nat]
            BY <3>6 DEF Counts
          <5>3. u[i + 1] = 10 * u[(i + 1) - 1] + str[i + 1]
            BY <3>6, <5>1 DEF Counts
          <5> QED
            BY <5>1, <5>2, <5>3
        <4>4. pow10[length - i] = 10 * p /\ p \in Nat
          <5>1. length - i \in 1..(D - 1) /\ (length - i) - 1 = length - (i + 1)
                /\ length - (i + 1) \in 0..(D - 1)
            BY <1>t, <2>1, <3>2
          <5> QED
            BY <5>1, PowersOfTen
        <4>5. digit \in Nat
          BY <2>6 DEF Digits
        <4>6. \A a, b, c \in Nat : a * (10 * b) + c * b = (10 * a + c) * b
          OBVIOUS
        <4> HIDE DEF digit, p
        <4>7. sum = u[i] * (10 * p) + digit * p
          BY <4>2, <4>4
        <4> QED
          BY <4>3, <4>4, <4>5, <4>6, <4>7
      <3>7. Converted'
        <4>1. \A k \in 1..(i + 1) : str[k] \in Digits
          <5>1. \A k \in 1..(i + 1) : k \in 1..i \/ k = i + 1
            BY <1>t
          <5> QED
            BY <2>1, <2>6, <5>1 DEF Converted
        <4> HIDE DEF sum
        <4>2. /\ integer' <= pow10[length'] - pow10[length' - i']
              /\ \A u : Counts(str', i', u) => integer' = u[i'] * pow10[length' - i']
          BY <2>1, <3>1, <3>4, <3>5, <3>6
        <4>3. i' > 0
          BY <1>t, <3>1
        <4> QED
          BY <1>t, <2>1, <3>1, <3>2, <4>1, <4>2, <4>3 DEF Converted
      <3>8. ConvTypeOK'
        BY <1>t, <2>1, <2>3, <3>1, <3>4, <3>5 DEF ConvTypeOK
      <3> QED
        BY <2>1, <2>2, <3>1, <3>7, <3>8 DEF ConvInv
    <2> QED
      BY <2>4, <2>5, <2>6
  <1>3. CASE ReadLastDigit
    <2> DEFINE last == str[D]
               fits == last \in Digits /\ ~Overflows(integer, last)
    <2>1. /\ conv = "reading" /\ success /\ i = length /\ check_overflow
          /\ success' = fits
          /\ integer' = IF fits THEN Word32(Word32(integer * 10) + last) ELSE integer
          /\ conv' = "returned" /\ UNCHANGED <<str, length, check_overflow, i>>
      BY <1>3 DEF ReadLastDigit
    <2>2. /\ Len(str) = D /\ length = D - 1 /\ i = D - 1 /\ Converted
      BY <2>1 DEF ConvInv
    <2>3. ASSUME last \in Digits
          PROVE  /\ str \in Seq(Digits) /\ Numeral(str) = 10 * integer + last
                 /\ success' <=> Numeral(str) <= UINT32_MAX
                 /\ success' => integer' = Numeral(str)
      <3>1. \A k \in 1..D : k \in 1..i \/ k = D
        BY <1>t, <2>2
      <3>2. str \in Seq(Digits)
        <4>1. \A k \in 1..Len(str) : str[k] \in Digits
          BY <2>2, <2>3, <3>1 DEF Converted
        <4> QED
          BY <1>t, <4>1
      <3>3. PICK u : Counts(str, D, u) /\ Numeral(str) = u[D]
        BY <2>2, <3>2, NumeralOf
      <3>4. Counts(str, i, u)
        <4>1. \A k \in 1..i : k \in 1..D
          BY <1>t, <2>2
        <4> QED
          BY <3>3, <4>1 DEF Counts
      <3>5. integer = u[i] * pow10[length - i]
        BY <1>t, <2>2, <3>4 DEF Converted
      <3>6. length - i = 0 /\ pow10[0] = 1 /\ i \in 0..Len(str) /\ u[i] \in Nat
        BY <1>t, <2>2, <3>3, PowersOfTen DEF Counts
      <3>7. integer = u[i]
        BY <3>5, <3>6
      <3>8. u[D] = 10 * u[i] + last
        <4>1. D \in 1..D /\ D - 1 = i
          BY <1>t, <2>2
        <4> QED
          BY <3>3, <4>1 DEF Counts
      <3>9. Numeral(str) = 10 * integer + last
        BY <3>3, <3>7, <3>8
      <3>10. Overflows(integer, last) <=> Numeral(str) > UINT32_MAX
        <4>1. integer \in Nat /\ last \in Digits
          BY <1>t, <2>3
        <4>2. Overflows(integer, last) <=> 10 * integer + last > UINT32_MAX
          BY <4>1, Widths
        <4> QED
          BY <3>9, <4>2
      <3>11. last \in Nat /\ Numeral(str) \in Nat
        BY <1>t, <2>3, <3>9 DEF Digits
      <3>12. success' <=> Numeral(str) <= UINT32_MAX
        <4>1. success' <=> ~Overflows(integer, last)
          BY <2>1, <2>3
        <4> QED
          BY <1>t, <3>10, <3>11, <4>1
      <3>13. ASSUME success' PROVE integer' = Numeral(str)
        <4>1. fits /\ Numeral(str) <= UINT32_MAX
          BY <2>1, <3>12, <3>13
        <4>2. integer * 10 \in 0..UINT32_MAX /\ integer * 10 = 10 * integer
          BY <1>t, <3>9, <3>11, <4>1
        <4>3. Word32(integer * 10) = 10 * integer
          BY <4>2, Widths
        <4>4. 10 * integer + last \in 0..UINT32_MAX
          BY <3>9, <3>11, <4>1
        <4>5. Word32(10 * integer + last) = 10 * integer + last
          BY <4>4, Widths
        <4> QED
          BY <2>1, <3>9, <4>1, <4>3, <4>5
      <3> QED
        BY <3>2, <3>9, <3>12, <3>13
    <2>4. ReadsNumeral'
      <3>1. CASE last \notin Digits
        <4>1. success' = FALSE
          BY <2>1, <3>1
        <4>2. D \in 1..Len(str)
          BY <1>t, <2>2
        <4> QED
          BY <2>1, <3>1, <4>1, <4>2 DEF ReadsNumeral
      <3>2. CASE last \in Digits
        <4>1. \A k \in 1..Len(str) : str[k] \in Digits
          BY <2>3, <3>2
        <4> QED
          BY <1>t, <2>1, <2>2, <2>3, <3>2, <4>1 DEF ReadsNumeral
      <3> QED
        BY <3>1, <3>2
    <2>5. integer' \in 0..UINT32_MAX
      <3>1. CASE ~fits
        BY <1>t, <2>1, <3>1
      <3>2. CASE fits
        <4>1. Word32(integer * 10) \in Int
          BY <1>t, Widths
        <4>2. Word32(integer * 10) + last \in Int
          BY <3>2, <4>1 DEF Digits
        <4> QED
          BY <2>1, <3>2, <4>2, Widths
      <3> QED
        BY <3>1, <3>2
    <2>6. ConvTypeOK'
      BY <1>t, <2>1, <2>5 DEF ConvTypeOK
    <2> QED
      BY <2>1, <2>4, <2>6 DEF ConvInv
  <1>4. CASE ConversionReturns
    <2>1. /\ conv = "reading"
          /\ success => i = length /\ ~check_overflow
          /\ conv' = "returned"
          /\ UNCHANGED <<str, length, check_overflow, i, integer, success>>
          /\ check_overflow <=> Len(str) = D
          /\ length = IF check_overflow THEN Len(str) - 1 ELSE Len(str)
          /\ IF success THEN Converted ELSE NoNumeral
      BY <1>4 DEF ConversionReturns, ConvInv
    <2>2. CASE success
      <3>0. i = length /\ check_overflow = FALSE
        BY <1>t, <2>1, <2>2
      <3>1. /\ i = length /\ length = Len(str) /\ Converted
        BY <2>1, <2>2, <3>0
      <3>2. length < D
        <4>1. CASE i = 0
          BY <1>t, <3>1, <4>1
        <4>2. CASE i > 0
          BY <3>1, <4>2 DEF Converted
        <4> QED
          BY <1>t, <4>1, <4>2
      <3>3. \A k \in 1..Len(str) : str[k] \in Digits
        BY <3>1 DEF Converted
      <3>4. str \in Seq(Digits)
        BY <1>t, <3>3
      <3>5. PICK u : Counts(str, Len(str), u) /\ Numeral(str) = u[Len(str)]
        BY <3>4, NumeralOf
      <3>6. integer = u[i] * pow10[length - i]
        BY <3>1, <3>2, <3>5 DEF Converted
      <3>7. length - i = 0 /\ pow10[0] = 1 /\ u[i] \in Nat
        <4>1. u \in [0..Len(str) -> Nat] /\ i \in 0..Len(str)
          BY <1>t, <3>1, <3>5 DEF Counts
        <4>2. pow10[0] = 1
          BY PowersOfTen
        <4>3. length - i = 0
          BY <1>t, <3>1
        <4>4. u[i] \in Nat
          BY <4>1
        <4> QED
          BY <4>2, <4>3, <4>4
      <3>8. integer = Numeral(str)
        BY <3>1, <3>5, <3>6, <3>7
      <3> QED
        BY <1>t, <2>1, <2>2, <3>1, <3>2, <3>3, <3>8 DEF ConvInv, ConvTypeOK, ReadsNumeral
    <2>3. CASE ~success
      BY <1>t, <2>1, <2>3 DEF ConvInv, ConvTypeOK, ReadsNumeral, NoNumeral
    <2> QED
      BY <1>t, <2>2, <2>3
  <1>5. CASE NumberTaken
    <2>1. str' = <<>> /\ Len(str') = 0 /\ str' \in Seq(Characters)
      BY <1>5 DEF NumberTaken
    <2>2. length' = 0 /\ i' = 0 /\ integer' = 0 /\ conv' = "ready"
          /\ check_overflow' = FALSE /\ success' = TRUE
      BY <1>5 DEF NumberTaken
    <2>3. length' \in 0..Len(str') /\ i' \in 0..length' /\ integer' \in 0..UINT32_MAX
      BY <1>t, <2>1, <2>2
    <2>4. ConvTypeOK'
      BY <2>1, <2>2, <2>3 DEF ConvTypeOK
    <2> QED
      BY <2>2, <2>4 DEF ConvInv, ReadsNumeral
  <1>6. CASE UNCHANGED cvars
    BY <1>6 DEF cvars, ConvInv, ConvTypeOK, ReadsNumeral, Converted, NoNumeral
  <1> QED
    BY <1>1, <1>2, <1>3, <1>4, <1>5, <1>6 DEF ConvNext

(* and so it always holds.                                                            *)
LEMMA ConvInvHolds == ConvSpec => []ConvInv
  BY ConvInvInit, ConvInvNext, PTL DEF ConvSpec

---------------------------------------------------------------------------------------
(* Base64                                                                             *)

(* A piece is made bit by bit.                                                        *)
HasBits(words, width) == \A j \in Nat : Bit(words, width, j) \in 0..1

MadeOfBits(words, width, n, k, u) ==
    /\ u \in [0..n -> Nat] /\ u[0] = 0
    /\ \A j \in 1..n : u[j] = 2 * u[j - 1] + Bit(words, width, (k - 1) * n + j - 1)
    /\ Piece(words, width, n, k) = u[n]

(* A piece of n bits is made bit by bit.                                              *)
LEMMA PieceSteps ==
    ASSUME NEW words, NEW width, NEW n \in Nat, NEW k \in Nat \ {0}, HasBits(words, width)
    PROVE  \E u : MadeOfBits(words, width, n, k, u)
  <1> DEFINE B(j) == Bit(words, width, (k - 1) * n + j - 1)
             step == [j \in 1..n |-> [p \in Nat |-> 2 * p + B(j)]]
             Equation(g) == g = [j \in 0..n |-> IF j = 0 THEN 0 ELSE 2 * g[j - 1] + B(j)]
             upTo == CHOOSE g : Equation(g)
  <1>1. Piece(words, width, n, k) = upTo[n]
    BY DEF Piece
  <1>2. \A j \in 1..n : B(j) \in Nat
    <2> SUFFICES ASSUME NEW j \in 1..n PROVE B(j) \in Nat
      OBVIOUS
    <2>1. (k - 1) * n + j - 1 \in Nat
      OBVIOUS
    <2> QED
      BY <2>1 DEF HasBits
  <1> HIDE DEF B
  <1>3. step \in [1..n -> [Nat -> Nat]] /\ \A j \in 1..n, p \in Nat : step[j][p] = 2 * p + B(j)
    BY <1>2
  <1> HIDE DEF step
  <1>4. PICK h : Steps(n, Nat, 0, step, h)
    BY <1>3, RecursionExists
  <1>5. Equation(h)
    <2>1. h \in [0..n -> Nat] /\ h[0] = 0 /\ \A j \in 1..n : h[j] = step[j][h[j - 1]]
      BY <1>4 DEF Steps
    <2>2. ASSUME NEW j \in 1..n PROVE h[j] = 2 * h[j - 1] + B(j)
      <3>1. j - 1 \in 0..n
        OBVIOUS
      <3>2. h[j - 1] \in Nat
        BY <2>1, <3>1
      <3> QED
        BY <1>3, <2>1, <3>2
    <2>3. \A j \in 0..n : h[j] = IF j = 0 THEN 0 ELSE 2 * h[j - 1] + B(j)
      <3>1. \A j \in 0..n : j = 0 \/ j \in 1..n
        OBVIOUS
      <3>2. \A j \in 1..n : j # 0
        OBVIOUS
      <3> QED
        BY <2>1, <2>2, <3>1, <3>2
    <2>4. h = [j \in 0..n |-> h[j]]
      BY <2>1
    <2> QED
      BY <2>3, <2>4
  <1>6. Equation(upTo)
    <2> HIDE DEF Equation
    <2> QED
      BY <1>5
  <1> HIDE DEF upTo
  <1>7. /\ upTo = [j \in 0..n |-> upTo[j]]
        /\ upTo[0] = 0 /\ \A j \in 1..n : upTo[j] = 2 * upTo[j - 1] + B(j)
    <2> DEFINE body == [j \in 0..n |-> IF j = 0 THEN 0 ELSE 2 * upTo[j - 1] + B(j)]
    <2>1. upTo = body
      BY <1>6
    <2>2. /\ body = [j \in 0..n |-> body[j]]
          /\ body[0] = 0 /\ \A j \in 1..n : body[j] = 2 * upTo[j - 1] + B(j)
      OBVIOUS
    <2> HIDE DEF body
    <2> QED
      BY <2>1, <2>2
  <1>8. upTo[0] \in Nat
    <2>1. upTo[0] = 0
      BY <1>7
    <2> QED
      BY <2>1
  <1>9. ASSUME NEW j \in 1..n, upTo[j - 1] \in Nat PROVE upTo[j] \in Nat
    <2>1. upTo[j] = 2 * upTo[j - 1] + B(j)
      BY <1>7
    <2> QED
      BY <1>2, <1>9, <2>1
  <1>10. \A j \in 0..n : upTo[j] \in Nat
    BY <1>8, <1>9, StaysIn
  <1>11. upTo \in [0..n -> Nat]
    BY <1>7, <1>10
  <1>12. upTo[0] = 0 /\ \A j \in 1..n : upTo[j] = 2 * upTo[j - 1] + Bit(words, width, (k - 1) * n + j - 1)
    BY <1>7 DEF B
  <1> QED
    BY <1>1, <1>11, <1>12 DEF MadeOfBits

(* Pieces of six and of eight bits.                                                   *)
LEMMA PieceOfSix ==
    ASSUME NEW words, NEW width, NEW k \in Nat \ {0}, HasBits(words, width)
    PROVE  LET B(j) == Bit(words, width, 6 * (k - 1) + j)
           IN  Piece(words, width, 6, k) =
                   32 * B(0) + 16 * B(1) + 8 * B(2) + 4 * B(3) + 2 * B(4) + B(5)
  <1> DEFINE B(j) == Bit(words, width, 6 * (k - 1) + j)
  <1>1. PICK u : MadeOfBits(words, width, 6, k, u)
    BY PieceSteps
  <1>2. ASSUME NEW j \in 1..6 PROVE u[j] = 2 * u[j - 1] + B(j - 1) /\ B(j - 1) \in 0..1
    <2>1. (k - 1) * 6 + j - 1 = 6 * (k - 1) + (j - 1) /\ 6 * (k - 1) + (j - 1) \in Nat
      OBVIOUS
    <2> QED
      BY <1>1, <2>1 DEF MadeOfBits, HasBits
  <1> HIDE DEF B
  <1>0. u[0] = 0
    BY <1>1 DEF MadeOfBits
  <1>3. /\ u[1] = B(0)
        /\ u[2] = 2 * u[1] + B(1)
        /\ u[3] = 2 * u[2] + B(2)
        /\ u[4] = 2 * u[3] + B(3)
        /\ u[5] = 2 * u[4] + B(4)
        /\ u[6] = 2 * u[5] + B(5)
    BY <1>0, <1>2
  <1>4. /\ B(0) \in 0..1 /\ B(1) \in 0..1 /\ B(2) \in 0..1
        /\ B(3) \in 0..1 /\ B(4) \in 0..1 /\ B(5) \in 0..1
    BY <1>2
  <1>5. Piece(words, width, 6, k) =
            32 * B(0) + 16 * B(1) + 8 * B(2) + 4 * B(3) + 2 * B(4) + B(5)
    BY <1>1, <1>3, <1>4 DEF MadeOfBits
  <1> QED
    BY <1>5 DEF B

(* A piece of eight bits, as the sum of its bits.                                     *)
LEMMA PieceOfEight ==
    ASSUME NEW words, NEW width, NEW k \in Nat \ {0}, HasBits(words, width)
    PROVE  LET B(j) == Bit(words, width, 8 * (k - 1) + j)
           IN  Piece(words, width, 8, k) =
                   128 * B(0) + 64 * B(1) + 32 * B(2) + 16 * B(3)
                   + 8 * B(4) + 4 * B(5) + 2 * B(6) + B(7)
  <1> DEFINE B(j) == Bit(words, width, 8 * (k - 1) + j)
  <1>1. PICK u : MadeOfBits(words, width, 8, k, u)
    BY PieceSteps
  <1>2. ASSUME NEW j \in 1..8 PROVE u[j] = 2 * u[j - 1] + B(j - 1) /\ B(j - 1) \in 0..1
    <2>1. (k - 1) * 8 + j - 1 = 8 * (k - 1) + (j - 1) /\ 8 * (k - 1) + (j - 1) \in Nat
      OBVIOUS
    <2> QED
      BY <1>1, <2>1 DEF MadeOfBits, HasBits
  <1> HIDE DEF B
  <1>0. u[0] = 0
    BY <1>1 DEF MadeOfBits
  <1>3. /\ u[1] = B(0)
        /\ u[2] = 2 * u[1] + B(1)
        /\ u[3] = 2 * u[2] + B(2)
        /\ u[4] = 2 * u[3] + B(3)
        /\ u[5] = 2 * u[4] + B(4)
        /\ u[6] = 2 * u[5] + B(5)
        /\ u[7] = 2 * u[6] + B(6)
        /\ u[8] = 2 * u[7] + B(7)
    BY <1>0, <1>2
  <1>4. /\ B(0) \in 0..1 /\ B(1) \in 0..1 /\ B(2) \in 0..1 /\ B(3) \in 0..1
        /\ B(4) \in 0..1 /\ B(5) \in 0..1 /\ B(6) \in 0..1 /\ B(7) \in 0..1
    BY <1>2
  <1>5. Piece(words, width, 8, k) =
            128 * B(0) + 64 * B(1) + 32 * B(2) + 16 * B(3)
            + 8 * B(4) + 4 * B(5) + 2 * B(6) + B(7)
    <2>1. u[4] = 8 * B(0) + 4 * B(1) + 2 * B(2) + B(3)
      BY <1>3, <1>4
    <2>2. u[8] = 16 * u[4] + 8 * B(4) + 4 * B(5) + 2 * B(6) + B(7)
      <3>1. u[4] \in Nat
        BY <1>1 DEF MadeOfBits
      <3> QED
        BY <1>3, <1>4, <3>1
    <2>3. Piece(words, width, 8, k) = u[8]
      BY <1>1 DEF MadeOfBits
    <2> QED
      BY <1>4, <2>1, <2>2, <2>3
  <1> QED
    BY <1>5 DEF B

(* An element of a sequence.                                                          *)
LEMMA ElementType ==
    ASSUME NEW S, NEW s \in Seq(S), NEW n \in 1..Len(s)
    PROVE  s[n] \in S
  OBVIOUS

(* A word of a stream, or 0 behind its end.                                           *)
WordAt(words, n) == IF n \in 1..Len(words) THEN words[n] ELSE 0

(* Behind the end of a stream, all bits are 0.                                        *)
LEMMA ZeroBits == \A n \in 0..7 : (0 \div 2^n) % 2 = 0
  <1>1. /\ 2^0 = 1 /\ 2^1 = 2 /\ 2^2 = 4 /\ 2^3 = 8
        /\ 2^4 = 16 /\ 2^5 = 32 /\ 2^6 = 64 /\ 2^7 = 128
    OBVIOUS
  <1>2. \A n \in 0..7 : n = 0 \/ n = 1 \/ n = 2 \/ n = 3 \/ n = 4 \/ n = 5 \/ n = 6 \/ n = 7
    OBVIOUS
  <1>3. \A n \in 0..7 : 2^n \in {1, 2, 4, 8, 16, 32, 64, 128}
    BY <1>1, <1>2, ZenonT(60)
  <1>4. \A p \in {1, 2, 4, 8, 16, 32, 64, 128} : (0 \div p) % 2 = 0
    OBVIOUS
  <1> QED
    BY <1>3, <1>4

(* The bits of a byte in a stream of bytes, and of a character in a text.             *)
LEMMA BitsOfByte ==
    ASSUME NEW words \in Seq(0..255), NEW m \in Nat
    PROVE  LET a == WordAt(words, m + 1)
           IN  /\ a \in 0..255
               /\ Bit(words, 8, 8 * m + 0) = (a \div 128) % 2
               /\ Bit(words, 8, 8 * m + 1) = (a \div 64) % 2
               /\ Bit(words, 8, 8 * m + 2) = (a \div 32) % 2
               /\ Bit(words, 8, 8 * m + 3) = (a \div 16) % 2
               /\ Bit(words, 8, 8 * m + 4) = (a \div 8) % 2
               /\ Bit(words, 8, 8 * m + 5) = (a \div 4) % 2
               /\ Bit(words, 8, 8 * m + 6) = (a \div 2) % 2
               /\ Bit(words, 8, 8 * m + 7) = a % 2
  <1> DEFINE a == WordAt(words, m + 1)
  <1>1. a \in 0..255
    <2>1. \A n \in 1..Len(words) : words[n] \in 0..255
      BY ElementType
    <2> QED
      BY <2>1 DEF WordAt
  <1>2. ASSUME NEW t \in 0..7
        PROVE  Bit(words, 8, 8 * m + t) = (a \div 2^(7 - t)) % 2
    <2>1. (8 * m + t) \div 8 = m /\ (8 * m + t) % 8 = t /\ 8 - 1 - t = 7 - t
      OBVIOUS
    <2>2. CASE m < Len(words)
      <3>1. a = words[m + 1]
        BY <2>2 DEF WordAt
      <3> QED
        BY <2>1, <2>2, <3>1 DEF Bit
    <2>3. CASE ~(m < Len(words))
      <3>1. a = 0
        BY <2>3 DEF WordAt
      <3>2. 7 - t \in 0..7
        OBVIOUS
      <3> QED
        BY <2>1, <2>3, <3>1, <3>2, ZeroBits DEF Bit
    <2> QED
      BY <2>2, <2>3
  <1> HIDE DEF a
  <1>3. /\ 2^(7 - 0) = 128 /\ 2^(7 - 1) = 64 /\ 2^(7 - 2) = 32 /\ 2^(7 - 3) = 16
        /\ 2^(7 - 4) = 8 /\ 2^(7 - 5) = 4 /\ 2^(7 - 6) = 2 /\ 2^(7 - 7) = 1
    OBVIOUS
  <1>4. a \div 1 = a
    BY <1>1
  <1>5. /\ Bit(words, 8, 8 * m + 0) = (a \div 128) % 2
        /\ Bit(words, 8, 8 * m + 1) = (a \div 64) % 2
        /\ Bit(words, 8, 8 * m + 2) = (a \div 32) % 2
        /\ Bit(words, 8, 8 * m + 3) = (a \div 16) % 2
        /\ Bit(words, 8, 8 * m + 4) = (a \div 8) % 2
        /\ Bit(words, 8, 8 * m + 5) = (a \div 4) % 2
        /\ Bit(words, 8, 8 * m + 6) = (a \div 2) % 2
        /\ Bit(words, 8, 8 * m + 7) = a % 2
    BY <1>2, <1>3, <1>4
  <1> QED
    BY <1>1, <1>5 DEF a

(* The bits of one of the six-bit numbers.                                            *)
LEMMA BitsOfNumber ==
    ASSUME NEW words \in Seq(0..63), NEW m \in Nat
    PROVE  LET a == WordAt(words, m + 1)
           IN  /\ a \in 0..63
               /\ Bit(words, 6, 6 * m + 0) = (a \div 32) % 2
               /\ Bit(words, 6, 6 * m + 1) = (a \div 16) % 2
               /\ Bit(words, 6, 6 * m + 2) = (a \div 8) % 2
               /\ Bit(words, 6, 6 * m + 3) = (a \div 4) % 2
               /\ Bit(words, 6, 6 * m + 4) = (a \div 2) % 2
               /\ Bit(words, 6, 6 * m + 5) = a % 2
  <1> DEFINE a == WordAt(words, m + 1)
  <1>1. a \in 0..63
    <2>1. \A n \in 1..Len(words) : words[n] \in 0..63
      BY ElementType
    <2> QED
      BY <2>1 DEF WordAt
  <1>2. ASSUME NEW t \in 0..5
        PROVE  Bit(words, 6, 6 * m + t) = (a \div 2^(5 - t)) % 2
    <2>1. (6 * m + t) \div 6 = m /\ (6 * m + t) % 6 = t /\ 6 - 1 - t = 5 - t
      OBVIOUS
    <2>2. CASE m < Len(words)
      <3>1. a = words[m + 1]
        BY <2>2 DEF WordAt
      <3> QED
        BY <2>1, <2>2, <3>1 DEF Bit
    <2>3. CASE ~(m < Len(words))
      <3>1. a = 0
        BY <2>3 DEF WordAt
      <3>2. 5 - t \in 0..7
        OBVIOUS
      <3> QED
        BY <2>1, <2>3, <3>1, <3>2, ZeroBits DEF Bit
    <2> QED
      BY <2>2, <2>3
  <1> HIDE DEF a
  <1>3. /\ 2^(5 - 0) = 32 /\ 2^(5 - 1) = 16 /\ 2^(5 - 2) = 8 /\ 2^(5 - 3) = 4
        /\ 2^(5 - 4) = 2 /\ 2^(5 - 5) = 1
    OBVIOUS
  <1>4. a \div 1 = a
    BY <1>1
  <1>5. /\ Bit(words, 6, 6 * m + 0) = (a \div 32) % 2
        /\ Bit(words, 6, 6 * m + 1) = (a \div 16) % 2
        /\ Bit(words, 6, 6 * m + 2) = (a \div 8) % 2
        /\ Bit(words, 6, 6 * m + 3) = (a \div 4) % 2
        /\ Bit(words, 6, 6 * m + 4) = (a \div 2) % 2
        /\ Bit(words, 6, 6 * m + 5) = a % 2
    BY <1>2, <1>3, <1>4
  <1> QED
    BY <1>1, <1>5 DEF a

(* The bits of bytes,                                                                 *)
LEMMA BytesHaveBits ==
    ASSUME NEW words \in Seq(0..255)
    PROVE  HasBits(words, 8)
  <1> SUFFICES ASSUME NEW j \in Nat PROVE Bit(words, 8, j) \in 0..1
    BY DEF HasBits
  <1> DEFINE m == j \div 8
             t == j % 8
             a == WordAt(words, m + 1)
  <1>1. m \in Nat /\ t \in 0..7 /\ j = 8 * m + t
    OBVIOUS
  <1> HIDE DEF m, t
  <1>2. /\ a \in 0..255
        /\ Bit(words, 8, 8 * m + 0) = (a \div 128) % 2
        /\ Bit(words, 8, 8 * m + 1) = (a \div 64) % 2
        /\ Bit(words, 8, 8 * m + 2) = (a \div 32) % 2
        /\ Bit(words, 8, 8 * m + 3) = (a \div 16) % 2
        /\ Bit(words, 8, 8 * m + 4) = (a \div 8) % 2
        /\ Bit(words, 8, 8 * m + 5) = (a \div 4) % 2
        /\ Bit(words, 8, 8 * m + 6) = (a \div 2) % 2
        /\ Bit(words, 8, 8 * m + 7) = a % 2
    BY <1>1, BitsOfByte
  <1> HIDE DEF a
  <1>3. \A n \in Nat : n % 2 \in 0..1
    OBVIOUS
  <1>4. /\ a \div 128 \in Nat /\ a \div 64 \in Nat /\ a \div 32 \in Nat /\ a \div 16 \in Nat
        /\ a \div 8 \in Nat /\ a \div 4 \in Nat /\ a \div 2 \in Nat /\ a \in Nat
    BY <1>2
  <1>5. t = 0 \/ t = 1 \/ t = 2 \/ t = 3 \/ t = 4 \/ t = 5 \/ t = 6 \/ t = 7
    BY <1>1
  <1>6. Bit(words, 8, 8 * m + t) \in 0..1
    BY <1>2, <1>3, <1>4, <1>5, SMTT(60)
  <1> QED
    BY <1>1, <1>6

(* and those of six-bit numbers, are 0 or 1.                                          *)
LEMMA NumbersHaveBits ==
    ASSUME NEW words \in Seq(0..63)
    PROVE  HasBits(words, 6)
  <1> SUFFICES ASSUME NEW j \in Nat PROVE Bit(words, 6, j) \in 0..1
    BY DEF HasBits
  <1> DEFINE m == j \div 6
             t == j % 6
             a == WordAt(words, m + 1)
  <1>1. m \in Nat /\ t \in 0..5 /\ j = 6 * m + t
    OBVIOUS
  <1> HIDE DEF m, t
  <1>2. /\ a \in 0..63
        /\ Bit(words, 6, 6 * m + 0) = (a \div 32) % 2
        /\ Bit(words, 6, 6 * m + 1) = (a \div 16) % 2
        /\ Bit(words, 6, 6 * m + 2) = (a \div 8) % 2
        /\ Bit(words, 6, 6 * m + 3) = (a \div 4) % 2
        /\ Bit(words, 6, 6 * m + 4) = (a \div 2) % 2
        /\ Bit(words, 6, 6 * m + 5) = a % 2
    BY <1>1, BitsOfNumber
  <1> HIDE DEF a
  <1>3. \A n \in Nat : n % 2 \in 0..1
    OBVIOUS
  <1>4. /\ a \div 32 \in Nat /\ a \div 16 \in Nat
        /\ a \div 8 \in Nat /\ a \div 4 \in Nat /\ a \div 2 \in Nat /\ a \in Nat
    BY <1>2
  <1>5. t = 0 \/ t = 1 \/ t = 2 \/ t = 3 \/ t = 4 \/ t = 5
    BY <1>1
  <1>6. Bit(words, 6, 6 * m + t) \in 0..1
    BY <1>2, <1>3, <1>4, <1>5
  <1> QED
    BY <1>1, <1>6

(* The six-bit numbers in three bytes, by the shifts of the code and bit by bit.      *)
LEMMA SixBits ==
    /\ \A a \in 0..255 :
           32 * ((a \div 128) % 2) + 16 * ((a \div 64) % 2) + 8 * ((a \div 32) % 2)
           + 4 * ((a \div 16) % 2) + 2 * ((a \div 8) % 2) + ((a \div 4) % 2) = a \div 4
    /\ \A a, b \in 0..255 :
           32 * ((a \div 2) % 2) + 16 * (a % 2) + 8 * ((b \div 128) % 2)
           + 4 * ((b \div 64) % 2) + 2 * ((b \div 32) % 2) + ((b \div 16) % 2)
               = (a % 4) * 16 + b \div 16
    /\ \A b, c \in 0..255 :
           32 * ((b \div 8) % 2) + 16 * ((b \div 4) % 2) + 8 * ((b \div 2) % 2)
           + 4 * (b % 2) + 2 * ((c \div 128) % 2) + ((c \div 64) % 2)
               = (b % 16) * 4 + c \div 64
    /\ \A c \in 0..255 :
           32 * ((c \div 32) % 2) + 16 * ((c \div 16) % 2) + 8 * ((c \div 8) % 2)
           + 4 * ((c \div 4) % 2) + 2 * ((c \div 2) % 2) + (c % 2) = c % 64
  <1>1. ASSUME NEW w \in 0..255
        PROVE  /\ 32 * ((w \div 128) % 2) + 16 * ((w \div 64) % 2) + 8 * ((w \div 32) % 2)
                  + 4 * ((w \div 16) % 2) + 2 * ((w \div 8) % 2) + ((w \div 4) % 2) = w \div 4
               /\ 32 * ((w \div 2) % 2) + 16 * (w % 2) = (w % 4) * 16
               /\ 8 * ((w \div 128) % 2) + 4 * ((w \div 64) % 2) + 2 * ((w \div 32) % 2)
                  + ((w \div 16) % 2) = w \div 16
               /\ 32 * ((w \div 8) % 2) + 16 * ((w \div 4) % 2) + 8 * ((w \div 2) % 2)
                  + 4 * (w % 2) = (w % 16) * 4
               /\ 2 * ((w \div 128) % 2) + ((w \div 64) % 2) = w \div 64
               /\ 32 * ((w \div 32) % 2) + 16 * ((w \div 16) % 2) + 8 * ((w \div 8) % 2)
                  + 4 * ((w \div 4) % 2) + 2 * ((w \div 2) % 2) + (w % 2) = w % 64
    <2>1. w = 2 * (w \div 2) + (w % 2) /\ w \div 2 \in Nat
      OBVIOUS
    <2>2. w \div 2 = 2 * (w \div 4) + ((w \div 2) % 2) /\ w \div 4 \in Nat
      OBVIOUS
    <2>3. w \div 4 = 2 * (w \div 8) + ((w \div 4) % 2) /\ w \div 8 \in Nat
      OBVIOUS
    <2>4. w \div 8 = 2 * (w \div 16) + ((w \div 8) % 2) /\ w \div 16 \in Nat
      OBVIOUS
    <2>5. w \div 16 = 2 * (w \div 32) + ((w \div 16) % 2) /\ w \div 32 \in Nat
      OBVIOUS
    <2>6. w \div 32 = 2 * (w \div 64) + ((w \div 32) % 2) /\ w \div 64 \in Nat
      OBVIOUS
    <2>7. w \div 64 = 2 * (w \div 128) + ((w \div 64) % 2) /\ w \div 128 \in Nat
      OBVIOUS
    <2>8. w \div 128 = (w \div 128) % 2
      OBVIOUS
    <2>9. w = 4 * (w \div 4) + (w % 4) /\ w = 16 * (w \div 16) + (w % 16)
          /\ w = 64 * (w \div 64) + (w % 64) /\ w % 4 \in Nat /\ w % 16 \in Nat /\ w % 64 \in Nat
      OBVIOUS
    <2> QED
      BY <2>1, <2>2, <2>3, <2>4, <2>5, <2>6, <2>7, <2>8, <2>9
  <1>2. ASSUME NEW a \in 0..255, NEW b \in 0..255
        PROVE  32 * ((a \div 2) % 2) + 16 * (a % 2) + 8 * ((b \div 128) % 2)
               + 4 * ((b \div 64) % 2) + 2 * ((b \div 32) % 2) + ((b \div 16) % 2)
                   = (a % 4) * 16 + b \div 16
    BY <1>1
  <1>3. ASSUME NEW b \in 0..255, NEW c \in 0..255
        PROVE  32 * ((b \div 8) % 2) + 16 * ((b \div 4) % 2) + 8 * ((b \div 2) % 2)
               + 4 * (b % 2) + 2 * ((c \div 128) % 2) + ((c \div 64) % 2)
                   = (b % 16) * 4 + c \div 64
    BY <1>1, SMTT(60)
  <1> QED
    BY <1>1, <1>2, <1>3, ZenonT(60)

(* Three bytes are four pieces of six bits.                                           *)
LEMMA PiecesOfBytes ==
    ASSUME NEW words \in Seq(0..255), NEW m \in Nat
    PROVE  LET a == WordAt(words, 3 * m + 1)
               b == WordAt(words, 3 * m + 2)
               c == WordAt(words, 3 * m + 3)
           IN  /\ a \in 0..255 /\ b \in 0..255 /\ c \in 0..255
               /\ Piece(words, 8, 6, 4 * m + 1) = a \div 4
               /\ Piece(words, 8, 6, 4 * m + 2) = (a % 4) * 16 + b \div 16
               /\ Piece(words, 8, 6, 4 * m + 3) = (b % 16) * 4 + c \div 64
               /\ Piece(words, 8, 6, 4 * m + 4) = c % 64
  <1> DEFINE a == WordAt(words, 3 * m + 1)
             b == WordAt(words, 3 * m + 2)
             c == WordAt(words, 3 * m + 3)
             B(j) == Bit(words, 8, 24 * m + j)
  <1>1. /\ a \in 0..255 /\ b \in 0..255 /\ c \in 0..255
        /\ B(0) = (a \div 128) % 2 /\ B(1) = (a \div 64) % 2 /\ B(2) = (a \div 32) % 2
        /\ B(3) = (a \div 16) % 2 /\ B(4) = (a \div 8) % 2 /\ B(5) = (a \div 4) % 2
        /\ B(6) = (a \div 2) % 2 /\ B(7) = a % 2
        /\ B(8) = (b \div 128) % 2 /\ B(9) = (b \div 64) % 2 /\ B(10) = (b \div 32) % 2
        /\ B(11) = (b \div 16) % 2 /\ B(12) = (b \div 8) % 2 /\ B(13) = (b \div 4) % 2
        /\ B(14) = (b \div 2) % 2 /\ B(15) = b % 2
        /\ B(16) = (c \div 128) % 2 /\ B(17) = (c \div 64) % 2 /\ B(18) = (c \div 32) % 2
        /\ B(19) = (c \div 16) % 2 /\ B(20) = (c \div 8) % 2 /\ B(21) = (c \div 4) % 2
        /\ B(22) = (c \div 2) % 2 /\ B(23) = c % 2
    <2>1. ASSUME NEW n \in 0..2
          PROVE  LET w == WordAt(words, 3 * m + n + 1)
                 IN  /\ w \in 0..255
                     /\ B(8 * n + 0) = (w \div 128) % 2 /\ B(8 * n + 1) = (w \div 64) % 2
                     /\ B(8 * n + 2) = (w \div 32) % 2 /\ B(8 * n + 3) = (w \div 16) % 2
                     /\ B(8 * n + 4) = (w \div 8) % 2 /\ B(8 * n + 5) = (w \div 4) % 2
                     /\ B(8 * n + 6) = (w \div 2) % 2 /\ B(8 * n + 7) = w % 2
      <3>1. /\ 3 * m + n \in Nat /\ 3 * m + n + 1 = (3 * m + n) + 1
            /\ \A t \in 0..7 : 24 * m + (8 * n + t) = 8 * (3 * m + n) + t
        OBVIOUS
      <3>2. 0 \in 0..7 /\ 1 \in 0..7 /\ 2 \in 0..7 /\ 3 \in 0..7
            /\ 4 \in 0..7 /\ 5 \in 0..7 /\ 6 \in 0..7 /\ 7 \in 0..7
        OBVIOUS
      <3>3. LET w == WordAt(words, (3 * m + n) + 1)
            IN  /\ w \in 0..255
                /\ Bit(words, 8, 8 * (3 * m + n) + 0) = (w \div 128) % 2
                /\ Bit(words, 8, 8 * (3 * m + n) + 1) = (w \div 64) % 2
                /\ Bit(words, 8, 8 * (3 * m + n) + 2) = (w \div 32) % 2
                /\ Bit(words, 8, 8 * (3 * m + n) + 3) = (w \div 16) % 2
                /\ Bit(words, 8, 8 * (3 * m + n) + 4) = (w \div 8) % 2
                /\ Bit(words, 8, 8 * (3 * m + n) + 5) = (w \div 4) % 2
                /\ Bit(words, 8, 8 * (3 * m + n) + 6) = (w \div 2) % 2
                /\ Bit(words, 8, 8 * (3 * m + n) + 7) = w % 2
        BY <3>1, BitsOfByte, ZenonT(60)
      <3> QED
        BY <3>1, <3>2, <3>3
    <2> HIDE DEF B
    <2>2. 0 \in 0..2 /\ 1 \in 0..2 /\ 2 \in 0..2
      OBVIOUS
    <2> QED
      BY <2>1, <2>2
  <1>2. ASSUME NEW n \in 0..3
        PROVE  Piece(words, 8, 6, 4 * m + n + 1) =
                   32 * B(6 * n + 0) + 16 * B(6 * n + 1) + 8 * B(6 * n + 2)
                   + 4 * B(6 * n + 3) + 2 * B(6 * n + 4) + B(6 * n + 5)
    <2>1. /\ 4 * m + n + 1 \in Nat \ {0}
          /\ \A t \in 0..5 : 24 * m + (6 * n + t) = 6 * ((4 * m + n + 1) - 1) + t
      OBVIOUS
    <2>2. 0 \in 0..5 /\ 1 \in 0..5 /\ 2 \in 0..5 /\ 3 \in 0..5 /\ 4 \in 0..5 /\ 5 \in 0..5
      OBVIOUS
    <2> QED
      BY <2>1, <2>2, PieceOfSix, BytesHaveBits
  <1> HIDE DEF B, a, b, c
  <1>3. /\ Piece(words, 8, 6, 4 * m + 1) =
               32 * B(0) + 16 * B(1) + 8 * B(2) + 4 * B(3) + 2 * B(4) + B(5)
        /\ Piece(words, 8, 6, 4 * m + 2) =
               32 * B(6) + 16 * B(7) + 8 * B(8) + 4 * B(9) + 2 * B(10) + B(11)
        /\ Piece(words, 8, 6, 4 * m + 3) =
               32 * B(12) + 16 * B(13) + 8 * B(14) + 4 * B(15) + 2 * B(16) + B(17)
        /\ Piece(words, 8, 6, 4 * m + 4) =
               32 * B(18) + 16 * B(19) + 8 * B(20) + 4 * B(21) + 2 * B(22) + B(23)
    BY <1>2
  <1>4. a \in 0..255 /\ b \in 0..255 /\ c \in 0..255
    BY <1>1
  <1>5. /\ Piece(words, 8, 6, 4 * m + 1) = a \div 4
        /\ Piece(words, 8, 6, 4 * m + 2) = (a % 4) * 16 + b \div 16
        /\ Piece(words, 8, 6, 4 * m + 3) = (b % 16) * 4 + c \div 64
        /\ Piece(words, 8, 6, 4 * m + 4) = c % 64
    <2>1. Piece(words, 8, 6, 4 * m + 1) = a \div 4
      BY <1>1, <1>3, SixBits, ZenonT(60)
    <2>2. Piece(words, 8, 6, 4 * m + 2) = (a % 4) * 16 + b \div 16
      <3>1. 32 * B(6) + 16 * B(7) + 8 * B(8)
              + 4 * B(9) + 2 * B(10) + B(11) =
              32 * ((a \div 2) % 2) + 16 * (a % 2) + 8 * ((b \div 128) % 2)
              + 4 * ((b \div 64) % 2) + 2 * ((b \div 32) % 2) + ((b \div 16) % 2)
        BY <1>1, Zenon
      <3>2. 32 * ((a \div 2) % 2) + 16 * (a % 2) + 8 * ((b \div 128) % 2)
              + 4 * ((b \div 64) % 2) + 2 * ((b \div 32) % 2) + ((b \div 16) % 2)
              = (a % 4) * 16 + b \div 16
        BY <1>4, SixBits, ZenonT(60)
      <3> QED
        BY <1>3, <3>1, <3>2, Zenon
    <2>3. Piece(words, 8, 6, 4 * m + 3) = (b % 16) * 4 + c \div 64
      <3>1. 32 * B(12) + 16 * B(13) + 8 * B(14)
              + 4 * B(15) + 2 * B(16) + B(17) =
              32 * ((b \div 8) % 2) + 16 * ((b \div 4) % 2) + 8 * ((b \div 2) % 2)
              + 4 * (b % 2) + 2 * ((c \div 128) % 2) + ((c \div 64) % 2)
        BY <1>1, Zenon
      <3>2. 32 * ((b \div 8) % 2) + 16 * ((b \div 4) % 2) + 8 * ((b \div 2) % 2)
              + 4 * (b % 2) + 2 * ((c \div 128) % 2) + ((c \div 64) % 2)
              = (b % 16) * 4 + c \div 64
        BY <1>4, SixBits, ZenonT(60)
      <3> QED
        BY <1>3, <3>1, <3>2, Zenon
    <2>4. Piece(words, 8, 6, 4 * m + 4) = c % 64
      <3>1. 32 * B(18) + 16 * B(19) + 8 * B(20)
              + 4 * B(21) + 2 * B(22) + B(23) =
              32 * ((c \div 32) % 2) + 16 * ((c \div 16) % 2) + 8 * ((c \div 8) % 2)
              + 4 * ((c \div 4) % 2) + 2 * ((c \div 2) % 2) + (c % 2)
        BY <1>1, Zenon
      <3>2. 32 * ((c \div 32) % 2) + 16 * ((c \div 16) % 2) + 8 * ((c \div 8) % 2)
              + 4 * ((c \div 4) % 2) + 2 * ((c \div 2) % 2) + (c % 2)
              = c % 64
        BY <1>4, SixBits, Zenon
      <3> QED
        BY <1>3, <3>1, <3>2, Zenon
    <2> QED
      BY <2>1, <2>2, <2>3, <2>4
  <1> QED
    BY <1>1, <1>5 DEF a, b, c

(* Four characters' numbers are three pieces of eight bits.                           *)
LEMMA EightBits ==
    /\ \A a, b \in 0..63 :
           128 * ((a \div 32) % 2) + 64 * ((a \div 16) % 2) + 32 * ((a \div 8) % 2)
           + 16 * ((a \div 4) % 2) + 8 * ((a \div 2) % 2) + 4 * (a % 2)
           + 2 * ((b \div 32) % 2) + ((b \div 16) % 2) = a * 4 + b \div 16
    /\ \A b, c \in 0..63 :
           128 * ((b \div 8) % 2) + 64 * ((b \div 4) % 2) + 32 * ((b \div 2) % 2)
           + 16 * (b % 2) + 8 * ((c \div 32) % 2) + 4 * ((c \div 16) % 2)
           + 2 * ((c \div 8) % 2) + ((c \div 4) % 2) = (b % 16) * 16 + c \div 4
    /\ \A c, d \in 0..63 :
           128 * ((c \div 2) % 2) + 64 * (c % 2) + 32 * ((d \div 32) % 2)
           + 16 * ((d \div 16) % 2) + 8 * ((d \div 8) % 2) + 4 * ((d \div 4) % 2)
           + 2 * ((d \div 2) % 2) + (d % 2) = (c % 4) * 64 + d
  <1>1. ASSUME NEW w \in 0..63
        PROVE  /\ 128 * ((w \div 32) % 2) + 64 * ((w \div 16) % 2) + 32 * ((w \div 8) % 2)
                  + 16 * ((w \div 4) % 2) + 8 * ((w \div 2) % 2) + 4 * (w % 2) = w * 4
               /\ 2 * ((w \div 32) % 2) + ((w \div 16) % 2) = w \div 16
               /\ 128 * ((w \div 8) % 2) + 64 * ((w \div 4) % 2) + 32 * ((w \div 2) % 2)
                  + 16 * (w % 2) = (w % 16) * 16
               /\ 8 * ((w \div 32) % 2) + 4 * ((w \div 16) % 2)
                  + 2 * ((w \div 8) % 2) + ((w \div 4) % 2) = w \div 4
               /\ 128 * ((w \div 2) % 2) + 64 * (w % 2) = (w % 4) * 64
               /\ 32 * ((w \div 32) % 2) + 16 * ((w \div 16) % 2) + 8 * ((w \div 8) % 2)
                  + 4 * ((w \div 4) % 2) + 2 * ((w \div 2) % 2) + (w % 2) = w
    <2>1. w = 2 * (w \div 2) + (w % 2) /\ w \div 2 \in Nat
      OBVIOUS
    <2>2. w \div 2 = 2 * (w \div 4) + ((w \div 2) % 2) /\ w \div 4 \in Nat
      OBVIOUS
    <2>3. w \div 4 = 2 * (w \div 8) + ((w \div 4) % 2) /\ w \div 8 \in Nat
      OBVIOUS
    <2>4. w \div 8 = 2 * (w \div 16) + ((w \div 8) % 2) /\ w \div 16 \in Nat
      OBVIOUS
    <2>5. w \div 16 = 2 * (w \div 32) + ((w \div 16) % 2) /\ w \div 32 \in Nat
      OBVIOUS
    <2>6. w \div 32 = (w \div 32) % 2
      OBVIOUS
    <2>7. w = 4 * (w \div 4) + (w % 4) /\ w = 16 * (w \div 16) + (w % 16)
          /\ w % 4 \in Nat /\ w % 16 \in Nat
      OBVIOUS
    <2> QED
      BY <2>1, <2>2, <2>3, <2>4, <2>5, <2>6, <2>7
  <1>2. ASSUME NEW a \in 0..63, NEW b \in 0..63
        PROVE  128 * ((a \div 32) % 2) + 64 * ((a \div 16) % 2) + 32 * ((a \div 8) % 2)
               + 16 * ((a \div 4) % 2) + 8 * ((a \div 2) % 2) + 4 * (a % 2)
               + 2 * ((b \div 32) % 2) + ((b \div 16) % 2) = a * 4 + b \div 16
    BY <1>1, SMTT(60)
  <1>3. ASSUME NEW b \in 0..63, NEW c \in 0..63
        PROVE  128 * ((b \div 8) % 2) + 64 * ((b \div 4) % 2) + 32 * ((b \div 2) % 2)
               + 16 * (b % 2) + 8 * ((c \div 32) % 2) + 4 * ((c \div 16) % 2)
               + 2 * ((c \div 8) % 2) + ((c \div 4) % 2) = (b % 16) * 16 + c \div 4
    <2>1. 128 * ((b \div 8) % 2) + 64 * ((b \div 4) % 2) + 32 * ((b \div 2) % 2)
               + 16 * (b % 2) = (b % 16) * 16
      BY <1>1
    <2>2. 8 * ((c \div 32) % 2) + 4 * ((c \div 16) % 2)
               + 2 * ((c \div 8) % 2) + ((c \div 4) % 2) = c \div 4
      BY <1>1
    <2> QED
      BY <2>1, <2>2
  <1>4. ASSUME NEW c \in 0..63, NEW d \in 0..63
        PROVE  128 * ((c \div 2) % 2) + 64 * (c % 2) + 32 * ((d \div 32) % 2)
               + 16 * ((d \div 16) % 2) + 8 * ((d \div 8) % 2) + 4 * ((d \div 4) % 2)
               + 2 * ((d \div 2) % 2) + (d % 2) = (c % 4) * 64 + d
    <2>1. 128 * ((c \div 2) % 2) + 64 * (c % 2) = (c % 4) * 64
      BY <1>1
    <2>2. 32 * ((d \div 32) % 2) + 16 * ((d \div 16) % 2) + 8 * ((d \div 8) % 2)
               + 4 * ((d \div 4) % 2) + 2 * ((d \div 2) % 2) + (d % 2) = d
      BY <1>1
    <2> QED
      BY <2>1, <2>2
  <1> QED
    BY <1>2, <1>3, <1>4

(* Four six-bit numbers make three bytes.                                             *)
LEMMA PiecesOfNumbers ==
    ASSUME NEW words \in Seq(0..63), NEW m \in Nat
    PROVE  LET a == WordAt(words, 4 * m + 1)
               b == WordAt(words, 4 * m + 2)
               c == WordAt(words, 4 * m + 3)
               d == WordAt(words, 4 * m + 4)
           IN  /\ a \in 0..63 /\ b \in 0..63 /\ c \in 0..63 /\ d \in 0..63
               /\ Piece(words, 6, 8, 3 * m + 1) = a * 4 + b \div 16
               /\ Piece(words, 6, 8, 3 * m + 2) = (b % 16) * 16 + c \div 4
               /\ Piece(words, 6, 8, 3 * m + 3) = (c % 4) * 64 + d
  <1> DEFINE a == WordAt(words, 4 * m + 1)
             b == WordAt(words, 4 * m + 2)
             c == WordAt(words, 4 * m + 3)
             d == WordAt(words, 4 * m + 4)
             B(j) == Bit(words, 6, 24 * m + j)
  <1>1. /\ a \in 0..63 /\ b \in 0..63 /\ c \in 0..63 /\ d \in 0..63
        /\ B(0) = (a \div 32) % 2 /\ B(1) = (a \div 16) % 2 /\ B(2) = (a \div 8) % 2
        /\ B(3) = (a \div 4) % 2 /\ B(4) = (a \div 2) % 2 /\ B(5) = a % 2
        /\ B(6) = (b \div 32) % 2 /\ B(7) = (b \div 16) % 2 /\ B(8) = (b \div 8) % 2
        /\ B(9) = (b \div 4) % 2 /\ B(10) = (b \div 2) % 2 /\ B(11) = b % 2
        /\ B(12) = (c \div 32) % 2 /\ B(13) = (c \div 16) % 2 /\ B(14) = (c \div 8) % 2
        /\ B(15) = (c \div 4) % 2 /\ B(16) = (c \div 2) % 2 /\ B(17) = c % 2
        /\ B(18) = (d \div 32) % 2 /\ B(19) = (d \div 16) % 2 /\ B(20) = (d \div 8) % 2
        /\ B(21) = (d \div 4) % 2 /\ B(22) = (d \div 2) % 2 /\ B(23) = d % 2
    <2>1. ASSUME NEW n \in 0..3
          PROVE  LET w == WordAt(words, 4 * m + n + 1)
                 IN  /\ w \in 0..63
                     /\ B(6 * n + 0) = (w \div 32) % 2 /\ B(6 * n + 1) = (w \div 16) % 2
                     /\ B(6 * n + 2) = (w \div 8) % 2 /\ B(6 * n + 3) = (w \div 4) % 2
                     /\ B(6 * n + 4) = (w \div 2) % 2 /\ B(6 * n + 5) = w % 2
      <3>1. /\ 4 * m + n \in Nat /\ 4 * m + n + 1 = (4 * m + n) + 1
            /\ \A t \in 0..5 : 24 * m + (6 * n + t) = 6 * (4 * m + n) + t
        OBVIOUS
      <3>2. 0 \in 0..5 /\ 1 \in 0..5 /\ 2 \in 0..5 /\ 3 \in 0..5 /\ 4 \in 0..5 /\ 5 \in 0..5
        OBVIOUS
      <3>3. LET w == WordAt(words, (4 * m + n) + 1)
            IN  /\ w \in 0..63
                /\ Bit(words, 6, 6 * (4 * m + n) + 0) = (w \div 32) % 2
                /\ Bit(words, 6, 6 * (4 * m + n) + 1) = (w \div 16) % 2
                /\ Bit(words, 6, 6 * (4 * m + n) + 2) = (w \div 8) % 2
                /\ Bit(words, 6, 6 * (4 * m + n) + 3) = (w \div 4) % 2
                /\ Bit(words, 6, 6 * (4 * m + n) + 4) = (w \div 2) % 2
                /\ Bit(words, 6, 6 * (4 * m + n) + 5) = w % 2
        BY <3>1, BitsOfNumber
      <3> QED
        BY <3>1, <3>2, <3>3
    <2> HIDE DEF B
    <2>2. 0 \in 0..3 /\ 1 \in 0..3 /\ 2 \in 0..3 /\ 3 \in 0..3
      OBVIOUS
    <2> QED
      BY <2>1, <2>2
  <1>2. ASSUME NEW n \in 0..2
        PROVE  Piece(words, 6, 8, 3 * m + n + 1) =
                   128 * B(8 * n + 0) + 64 * B(8 * n + 1) + 32 * B(8 * n + 2)
                   + 16 * B(8 * n + 3) + 8 * B(8 * n + 4) + 4 * B(8 * n + 5)
                   + 2 * B(8 * n + 6) + B(8 * n + 7)
    <2>1. /\ 3 * m + n + 1 \in Nat \ {0}
          /\ \A t \in 0..7 : 24 * m + (8 * n + t) = 8 * ((3 * m + n + 1) - 1) + t
      OBVIOUS
    <2>2. 0 \in 0..7 /\ 1 \in 0..7 /\ 2 \in 0..7 /\ 3 \in 0..7
          /\ 4 \in 0..7 /\ 5 \in 0..7 /\ 6 \in 0..7 /\ 7 \in 0..7
      OBVIOUS
    <2> QED
      BY <2>1, <2>2, PieceOfEight, NumbersHaveBits
  <1> HIDE DEF B, a, b, c, d
  <1>3. /\ Piece(words, 6, 8, 3 * m + 1) =
               128 * B(0) + 64 * B(1) + 32 * B(2) + 16 * B(3)
               + 8 * B(4) + 4 * B(5) + 2 * B(6) + B(7)
        /\ Piece(words, 6, 8, 3 * m + 2) =
               128 * B(8) + 64 * B(9) + 32 * B(10) + 16 * B(11)
               + 8 * B(12) + 4 * B(13) + 2 * B(14) + B(15)
        /\ Piece(words, 6, 8, 3 * m + 3) =
               128 * B(16) + 64 * B(17) + 32 * B(18) + 16 * B(19)
               + 8 * B(20) + 4 * B(21) + 2 * B(22) + B(23)
    BY <1>2
  <1>4. Piece(words, 6, 8, 3 * m + 1) = a * 4 + b \div 16
    <2>1. 128 * B(0) + 64 * B(1) + 32 * B(2) + 16 * B(3)
               + 8 * B(4) + 4 * B(5) + 2 * B(6) + B(7) =
           128 * ((a \div 32) % 2) + 64 * ((a \div 16) % 2) + 32 * ((a \div 8) % 2)
           + 16 * ((a \div 4) % 2) + 8 * ((a \div 2) % 2) + 4 * (a % 2)
           + 2 * ((b \div 32) % 2) + ((b \div 16) % 2)
      BY <1>1, Zenon
    <2>2. 128 * ((a \div 32) % 2) + 64 * ((a \div 16) % 2) + 32 * ((a \div 8) % 2)
           + 16 * ((a \div 4) % 2) + 8 * ((a \div 2) % 2) + 4 * (a % 2)
           + 2 * ((b \div 32) % 2) + ((b \div 16) % 2) = a * 4 + b \div 16
      BY <1>1, EightBits, ZenonT(60)
    <2> QED
      BY <1>3, <2>1, <2>2, Zenon
  <1>5. Piece(words, 6, 8, 3 * m + 2) = (b % 16) * 16 + c \div 4
    <2>1. 128 * B(8) + 64 * B(9) + 32 * B(10) + 16 * B(11)
            + 8 * B(12) + 4 * B(13) + 2 * B(14) + B(15) =
            128 * ((b \div 8) % 2) + 64 * ((b \div 4) % 2) + 32 * ((b \div 2) % 2) + 16 * (b % 2)
            + 8 * ((c \div 32) % 2) + 4 * ((c \div 16) % 2) + 2 * ((c \div 8) % 2) + ((c \div 4) % 2)
      BY <1>1, Zenon
    <2>2. 128 * ((b \div 8) % 2) + 64 * ((b \div 4) % 2) + 32 * ((b \div 2) % 2) + 16 * (b % 2)
            + 8 * ((c \div 32) % 2) + 4 * ((c \div 16) % 2) + 2 * ((c \div 8) % 2) + ((c \div 4) % 2)
            = (b % 16) * 16 + c \div 4
      BY <1>1, EightBits, ZenonT(60)
    <2> QED
      BY <1>3, <2>1, <2>2, Zenon
  <1>6. Piece(words, 6, 8, 3 * m + 3) = (c % 4) * 64 + d
    <2>1. 128 * B(16) + 64 * B(17) + 32 * B(18) + 16 * B(19)
            + 8 * B(20) + 4 * B(21) + 2 * B(22) + B(23) =
            128 * ((c \div 2) % 2) + 64 * (c % 2) + 32 * ((d \div 32) % 2) + 16 * ((d \div 16) % 2)
            + 8 * ((d \div 8) % 2) + 4 * ((d \div 4) % 2) + 2 * ((d \div 2) % 2) + (d % 2)
      BY <1>1, Zenon
    <2>2. 128 * ((c \div 2) % 2) + 64 * (c % 2) + 32 * ((d \div 32) % 2) + 16 * ((d \div 16) % 2)
            + 8 * ((d \div 8) % 2) + 4 * ((d \div 4) % 2) + 2 * ((d \div 2) % 2) + (d % 2)
            = (c % 4) * 64 + d
      BY <1>1, EightBits, ZenonT(60)
    <2> QED
      BY <1>3, <2>1, <2>2, Zenon
  <1> QED
    BY <1>1, <1>4, <1>5, <1>6 DEF a, b, c, d

(* The two tables, where the encoder uses them, undo each other.                      *)
LEMMA Tables ==
    /\ \A n \in 0..63 : /\ base64_table[n] \in 1..255 /\ base64_table[n] # PAD
                        /\ base64_index[base64_table[n]] = n
    /\ \A c \in 0..255 : base64_index[c] \in 0..63
    /\ base64_index[65] = 0
  <1>1. ASSUME NEW n \in 0..63
        PROVE  /\ base64_table[n] \in 1..255 /\ base64_table[n] # PAD
               /\ base64_index[base64_table[n]] = n
    <2>1. CASE n < 26
      <3>1. base64_table[n] = n + 65
        BY <2>1 DEF base64_table
      <3>2. n + 65 \in 65..90 /\ n + 65 \in 0..255
        BY <2>1
      <3>3. base64_index[n + 65] = (n + 65) - 65
        BY <3>2 DEF base64_index
      <3> QED
        BY <3>1, <3>2, <3>3 DEF PAD
    <2>2. CASE n \in 26..51
      <3>1. base64_table[n] = n + 71
        BY <2>2 DEF base64_table
      <3>2. n + 71 \in 97..122 /\ n + 71 \in 0..255
        BY <2>2
      <3>3. base64_index[n + 71] = (n + 71) - 71
        BY <3>2 DEF base64_index
      <3> QED
        BY <3>1, <3>2, <3>3 DEF PAD
    <2>3. CASE n \in 52..61
      <3>1. base64_table[n] = n - 4
        BY <2>3 DEF base64_table
      <3>2. n - 4 \in 48..57 /\ n - 4 \in 0..255
        BY <2>3
      <3>3. base64_index[n - 4] = (n - 4) + 4
        BY <3>2 DEF base64_index
      <3> QED
        BY <3>1, <3>2, <3>3 DEF PAD
    <2>4. CASE n = 62
      <3>1. base64_table[n] = 43
        BY <2>4 DEF base64_table
      <3>2. base64_index[43] = 62
        BY DEF base64_index
      <3> QED
        BY <2>4, <3>1, <3>2 DEF PAD
    <2>5. CASE n = 63
      <3>1. base64_table[n] = 47
        BY <2>5 DEF base64_table
      <3>2. base64_index[47] = 63
        BY DEF base64_index
      <3> QED
        BY <2>5, <3>1, <3>2 DEF PAD
    <2> QED
      BY <2>1, <2>2, <2>3, <2>4, <2>5
  <1>2. ASSUME NEW c \in 0..255 PROVE base64_index[c] \in 0..63
    <2>1. base64_index[c] = CASE c \in 65..90 -> c - 65
                              [] c \in 97..122 -> c - 71
                              [] c \in 48..57 -> c + 4
                              [] c \in {43, 45, 46} -> 62
                              [] c \in {44, 47, 95} -> 63
                              [] OTHER -> 0
      BY DEF base64_index
    <2> QED
      BY <2>1
  <1>3. base64_index[65] = 0
    BY DEF base64_index
  <1> QED
    BY <1>1, <1>2, <1>3

(* The bytes of four numbers, as the decoder takes them out of the sum.               *)
BytesOf(x, y, z, w) ==
    LET sum == x * 2^18 + y * 2^12 + z * 2^6 + w
    IN  /\ sum \div 2^16 = x * 4 + y \div 16
        /\ (sum \div 2^8) % 256 = (y % 16) * 16 + z \div 4
        /\ sum % 256 = (z % 4) * 64 + w
        /\ x * 4 + y \div 16 \in 0..255
        /\ (y % 16) * 16 + z \div 4 \in 0..255
        /\ (z % 4) * 64 + w \in 0..255

(* So do they in the word of 24 bits that the decoder makes of them.                  *)
LEMMA BytesOfSum ==
    ASSUME NEW x \in 0..63, NEW y \in 0..63, NEW z \in 0..63, NEW w \in 0..63
    PROVE  BytesOf(x, y, z, w)
  <1> DEFINE sum == x * 2^18 + y * 2^12 + z * 2^6 + w
  <1>1. /\ 2^18 = 262144 /\ 2^12 = 4096 /\ 2^6 = 64 /\ 2^16 = 65536 /\ 2^8 = 256
    OBVIOUS
  <1>2. sum = x * 262144 + y * 4096 + z * 64 + w
    BY <1>1
  <1> HIDE DEF sum
  <1>3. /\ y = 16 * (y \div 16) + (y % 16) /\ y \div 16 \in 0..3 /\ y % 16 \in 0..15
        /\ z = 4 * (z \div 4) + (z % 4) /\ z \div 4 \in 0..15 /\ z % 4 \in 0..3
    OBVIOUS
  <1>4. /\ sum \div 65536 = x * 4 + y \div 16
        /\ sum \div 256 = (x * 4 + y \div 16) * 256 + ((y % 16) * 16 + z \div 4)
        /\ sum % 256 = (z % 4) * 64 + w
    BY <1>2, <1>3
  <1>5. /\ x * 4 + y \div 16 \in 0..255
        /\ (y % 16) * 16 + z \div 4 \in 0..255
        /\ (z % 4) * 64 + w \in 0..255
    BY <1>3
  <1>6. (sum \div 256) % 256 = (y % 16) * 16 + z \div 4
    BY <1>4, <1>5
  <1> QED
    BY <1>1, <1>4, <1>5, <1>6 DEF sum, BytesOf

(* The bytes of data from which a character is made, as the loop computes it.         *)
LEMMA EncodingOf ==
    ASSUME data \in Seq(0..255), NEW m \in Nat, 3 * m < Len(data)
    PROVE  LET a == WordAt(data, 3 * m + 1)
               b == WordAt(data, 3 * m + 2)
               c == WordAt(data, 3 * m + 3)
           IN  /\ a \in 0..255 /\ b \in 0..255 /\ c \in 0..255
               /\ 4 * m + 4 <= Len(Encoding)
               /\ Encoding[4 * m + 1] = base64_table[a \div 4]
               /\ Encoding[4 * m + 2] = base64_table[(a % 4) * 16 + b \div 16]
               /\ Encoding[4 * m + 3] = IF 3 * m + 2 <= Len(data)
                                        THEN base64_table[(b % 16) * 4 + c \div 64] ELSE PAD
               /\ Encoding[4 * m + 4] = IF 3 * m + 3 <= Len(data)
                                        THEN base64_table[c % 64] ELSE PAD
  <1> DEFINE a == WordAt(data, 3 * m + 1)
             b == WordAt(data, 3 * m + 2)
             c == WordAt(data, 3 * m + 3)
             T == 4 * ((Len(data) + 2) \div 3)
             E(k) == IF 6 * (k - 1) < 8 * Len(data) THEN base64_table[Piece(data, 8, 6, k)] ELSE PAD
  <1>1. /\ a \in 0..255 /\ b \in 0..255 /\ c \in 0..255
        /\ Piece(data, 8, 6, 4 * m + 1) = a \div 4
        /\ Piece(data, 8, 6, 4 * m + 2) = (a % 4) * 16 + b \div 16
        /\ Piece(data, 8, 6, 4 * m + 3) = (b % 16) * 4 + c \div 64
        /\ Piece(data, 8, 6, 4 * m + 4) = c % 64
    BY PiecesOfBytes
  <1> HIDE DEF a, b, c
  <1>2. Len(data) \in Nat
    OBVIOUS
  <1>3. /\ T \in Nat /\ 4 * m + 4 <= T
        /\ 4 * m + 1 \in 1..T /\ 4 * m + 2 \in 1..T /\ 4 * m + 3 \in 1..T /\ 4 * m + 4 \in 1..T
    BY <1>2
  <1>4. /\ 6 * (4 * m + 1 - 1) < 8 * Len(data)
        /\ 6 * (4 * m + 2 - 1) < 8 * Len(data)
        /\ 6 * (4 * m + 3 - 1) < 8 * Len(data) <=> 3 * m + 2 <= Len(data)
        /\ 6 * (4 * m + 4 - 1) < 8 * Len(data) <=> 3 * m + 3 <= Len(data)
    BY <1>2
  <1>5. Encoding = [k \in 1..T |-> E(k)]
    BY DEF Encoding
  <1>6. Len(Encoding) = T /\ \A k \in 1..T : Encoding[k] = E(k)
    BY <1>3, <1>5
  <1>7. Encoding[4 * m + 1] = base64_table[a \div 4]
    BY <1>1, <1>3, <1>4, <1>6, SMTT(60)
  <1>8. Encoding[4 * m + 2] = base64_table[(a % 4) * 16 + b \div 16]
    BY <1>1, <1>3, <1>4, <1>6, SMTT(60)
  <1>9. Encoding[4 * m + 3] = IF 3 * m + 2 <= Len(data)
                              THEN base64_table[(b % 16) * 4 + c \div 64] ELSE PAD
    BY <1>1, <1>3, <1>4, <1>6, SMTT(60)
  <1>10. Encoding[4 * m + 4] = IF 3 * m + 3 <= Len(data) THEN base64_table[c % 64] ELSE PAD
    BY <1>1, <1>3, <1>4, <1>6, SMTT(60)
  <1> QED
    BY <1>1, <1>3, <1>6, <1>7, <1>8, <1>9, <1>10 DEF a, b, c

(* Indices into the table.                                                            *)
LEMMA TableIndices ==
    /\ \A x \in 0..255 : /\ x \div 4 \in 0..63 /\ x % 64 \in 0..63
                         /\ (x % 4) * 16 \in 0..63 /\ (x % 16) * 4 \in 0..63
    /\ \A x, y \in 0..255 : (x % 4) * 16 + y \div 16 \in 0..63
    /\ \A x, y \in 0..255 : (x % 16) * 4 + y \div 64 \in 0..63
  <1>1. ASSUME NEW x \in 0..255
        PROVE  /\ x \div 4 \in 0..63 /\ x % 64 \in 0..63
               /\ (x % 4) * 16 \in 0..63 /\ (x % 16) * 4 \in 0..63
    OBVIOUS
  <1>2. ASSUME NEW x \in 0..255, NEW y \in 0..255
        PROVE  (x % 4) * 16 + y \div 16 \in 0..63 /\ (x % 16) * 4 + y \div 64 \in 0..63
    <2>1. /\ x % 4 \in 0..3 /\ y \div 16 \in 0..15
          /\ x % 16 \in 0..15 /\ y \div 64 \in 0..3
      OBVIOUS
    <2> QED
      BY <2>1
  <1> QED
    BY <1>1, <1>2

(* The group of a character.                                                          *)
LEMMA GroupOf ==
    \A n \in Nat : \A k \in 1..(4 * ((n + 2) \div 3)) :
        \E m \in Nat, r \in 0..3 : k = 4 * m + (r + 1) /\ 3 * m < n
  <1> SUFFICES ASSUME NEW n \in Nat, NEW k \in 1..(4 * ((n + 2) \div 3))
               PROVE  \E m \in Nat, r \in 0..3 : k = 4 * m + (r + 1) /\ 3 * m < n
    OBVIOUS
  <1>1. /\ (k - 1) \div 4 \in Nat /\ (k - 1) % 4 \in 0..3
        /\ k = 4 * ((k - 1) \div 4) + (((k - 1) % 4) + 1)
    OBVIOUS
  <1>2. 3 * ((k - 1) \div 4) < n
    OBVIOUS
  <1> QED
    BY <1>1, <1>2

(* A text has four characters for every three bytes, none of them NUL.                *)
LEMMA EncodingType ==
    ASSUME data \in Seq(0..255)
    PROVE  /\ Encoding \in Seq(1..255)
           /\ Len(Encoding) = 4 * ((Len(data) + 2) \div 3)
  <1> DEFINE T == 4 * ((Len(data) + 2) \div 3)
             E(k) == IF 6 * (k - 1) < 8 * Len(data) THEN base64_table[Piece(data, 8, 6, k)] ELSE PAD
  <1>1. Len(data) \in Nat /\ T \in Nat
    OBVIOUS
  <1>2. Encoding = [k \in 1..T |-> E(k)]
    BY DEF Encoding
  <1>3. Len(Encoding) = T /\ DOMAIN Encoding = 1..T
    BY <1>1, <1>2
  <1> HIDE DEF E
  <1>4. ASSUME NEW k \in 1..T PROVE Encoding[k] \in 1..255
    <2>1. PICK m \in Nat, r \in 0..3 : k = 4 * m + (r + 1) /\ 3 * m < Len(data)
      BY <1>1, GroupOf
    <2> HIDE DEF T
    <2> DEFINE a == WordAt(data, 3 * m + 1)
               b == WordAt(data, 3 * m + 2)
               c == WordAt(data, 3 * m + 3)
    <2>2. /\ a \in 0..255 /\ b \in 0..255 /\ c \in 0..255
          /\ Encoding[4 * m + 1] = base64_table[a \div 4]
          /\ Encoding[4 * m + 2] = base64_table[(a % 4) * 16 + b \div 16]
          /\ Encoding[4 * m + 3] = IF 3 * m + 2 <= Len(data)
                                   THEN base64_table[(b % 16) * 4 + c \div 64] ELSE PAD
          /\ Encoding[4 * m + 4] = IF 3 * m + 3 <= Len(data)
                                   THEN base64_table[c % 64] ELSE PAD
      BY <2>1, EncodingOf
    <2> HIDE DEF a, b, c
    <2>3. /\ a \div 4 \in 0..63 /\ (a % 4) * 16 + b \div 16 \in 0..63
          /\ (b % 16) * 4 + c \div 64 \in 0..63 /\ c % 64 \in 0..63
      <3>1. a \in 0..255 /\ b \in 0..255 /\ c \in 0..255
        BY <2>2
      <3>2. a \div 4 \in 0..63
        BY <3>1, TableIndices
      <3>3. (a % 4) * 16 + b \div 16 \in 0..63
        BY <3>1, TableIndices
      <3>4. (b % 16) * 4 + c \div 64 \in 0..63
        BY <3>1, TableIndices
      <3>5. c % 64 \in 0..63
        BY <3>1, TableIndices
      <3> QED
        BY <3>2, <3>3, <3>4, <3>5
    <2>4. /\ PAD \in 1..255
          /\ \A n \in 0..63 : base64_table[n] \in 1..255
      <3>1. PAD \in 1..255
        BY DEF PAD
      <3> QED
        BY <3>1, Tables, ZenonT(60)
    <2>5. /\ Encoding[4 * m + 1] \in 1..255 /\ Encoding[4 * m + 2] \in 1..255
          /\ Encoding[4 * m + 3] \in 1..255 /\ Encoding[4 * m + 4] \in 1..255
      BY <2>2, <2>3, <2>4, ZenonT(60)
    <2>6. /\ r = 0 \/ r = 1 \/ r = 2 \/ r = 3
          /\ 0 + 1 = 1 /\ 1 + 1 = 2 /\ 2 + 1 = 3 /\ 3 + 1 = 4
      BY <2>1
    <2> QED
      BY <2>1, <2>5, <2>6, ZenonT(60)
  <1>5. Encoding = [k \in 1..T |-> Encoding[k]]
    BY <1>2
  <1>6. Encoding \in [1..T -> 1..255]
    <2> HIDE DEF T
    <2> QED
      BY <1>4, <1>5
  <1> HIDE DEF T
  <1>7. Encoding \in Seq(1..255)
    BY <1>1, <1>6
  <1> QED
    BY <1>3, <1>7 DEF T

(* The encoder's loop has written the characters of m groups of three bytes.          *)
EncodedGroups(m) ==
    /\ position = 3 * m /\ 3 * m <= Len(data)
    /\ Len(result) = 4 * m /\ 4 * m <= limit
    /\ \A k \in 1..(4 * m) : result[k] = Encoding[k]

Numbers(t) == [k \in DOMAIN t |-> base64_index[t[k]]]

(* The decoder's loop has written the bytes of q groups of four characters.           *)
DecodedGroups(q) ==
    /\ position = 4 * q /\ 4 * q <= WholeLength(text)
    /\ Len(result) = 3 * q
    /\ \A k \in 1..(3 * q) : result[k] = Piece(Numbers(text), 6, 8, k)

(* What the loops keep to themselves: where they are, and that the decoder keeps to    *)
(* its limit. (ReadInv below has what is read and what the encoder writes.)            *)
Base64Types ==
    /\ b64 \in {"ready", "encoding", "encoded", "decoding", "decoded"}
    /\ data \in Seq(DataByte) /\ text \in Seq(1..255)
    /\ limit \in 0..MaxLimit /\ claimed \in 0..(SIZE - 1)
    /\ position \in 0..Len(IF b64 \in {"encoding", "encoded"} THEN data ELSE text)
    /\ result \in Seq(0..255) /\ failed \in BOOLEAN
    /\ b64 \in {"decoding", "decoded"} => Len(result) <= limit

(* What the encoder has written, to the last character; its terminator goes behind the *)
(* limit if the limit is used up.                                                      *)
EncodesExactly ==
    b64 = "encoded" =>
        IF claimed # Len(data) THEN failed /\ result = <<>>
        ELSE /\ failed <=> Len(Encoding) > limit
             /\ result = SubSeq(Encoding, 1, IF failed THEN 4 * (limit \div 4) ELSE Len(Encoding))
                         \o <<0>>

(* What the decoder has written, and what it does with the texts of one or two bytes:  *)
(* it refuses them.                                                                    *)
DecodesExactly ==
    b64 = "decoded" =>
        /\ LET numbers == [k \in DOMAIN text |-> base64_index[text[k]]]
           IN  \A k \in DOMAIN result :
                   8 * k <= 6 * Len(text) => result[k] = Piece(numbers, 6, 8, k)
        /\ data # <<>> => /\ failed <=> limit < Len(data) \/ Len(data) < 3
                          /\ ~failed => result = data

Base64Inv ==
    /\ Base64Types
    /\ b64 = "ready" => data = <<>> /\ text = <<>> /\ position = 0 /\ result = <<>> /\ ~failed
    /\ b64 = "encoding" => /\ ~failed /\ claimed = Len(data)
                           /\ EncodedGroups(position \div 3)
    /\ b64 = "decoding" => /\ ~failed /\ OutLength(text) <= limit /\ WholeLength(text) # 0
                           /\ data # <<>> => text = Encoding
                           /\ DecodedGroups(position \div 4)
    /\ EncodesExactly /\ DecodesExactly

(* size_t's arithmetic.                                                               *)
LEMMA SmallRemainder ==
    ASSUME NEW s \in Nat \ {0}, NEW n \in Nat
    PROVE  /\ n < s => n % s = n
           /\ s <= n /\ n < 2 * s => n % s = n - s
  <1>1. n < s => n % s = n
    OBVIOUS
  <1>2. ASSUME s <= n, n < 2 * s PROVE n % s = n - s
    BY <1>2
  <1> QED
    BY <1>1, <1>2

(* The length of the encoding, in size_t, does not wrap around for the data there     *)
(* is.                                                                                *)
LEMMA LengthFits ==
    ASSUME NEW n \in 0..MaxData
    PROVE  EncodedLength(n) = 4 * ((n + 2) \div 3) /\ ~(EncodedLength(n) < n)
  <1> DEFINE q == (n + 2) \div 3
  <1>0. SIZE \in Nat /\ MaxData \in Nat /\ 4 * MaxData + 8 < SIZE
    BY Base64Assumption
  <1>1. SIZE \in Nat \ {0} /\ n \in Nat /\ n + 2 < SIZE /\ n + 2 \in Nat
    BY <1>0
  <1>2. q \in Nat /\ 4 * q < SIZE /\ 4 * q \in Nat /\ n <= 4 * q
    BY <1>0, <1>1
  <1>3. (n + 2) % SIZE = n + 2 /\ (4 * q) % SIZE = 4 * q
    <2> HIDE DEF q
    <2> QED
      BY <1>1, <1>2, SmallRemainder
  <1>4. EncodedLength(n) = 4 * q
    BY <1>3 DEF EncodedLength
  <1> HIDE DEF q
  <1>5. ~(EncodedLength(n) < n)
    BY <1>1, <1>2, <1>4
  <1> QED
    BY <1>4, <1>5 DEF q

(* A length that does not fit is noticed by the wrapped product.                      *)
LEMMA TooLongIsNoticed ==
    ASSUME NEW n \in TooLong
    PROVE  EncodedLength(n) < n /\ n # 0 /\ n \in 0..(SIZE - 1)
  <1>0. SIZE \in Nat /\ 8 < SIZE
    BY Base64Assumption
  <1>1. n \in 0..(SIZE - 1) /\ SIZE <= 4 * ((n + 2) \div 3)
    BY <1>0 DEF TooLong
  <1>2. n # 0
    BY <1>0, <1>1
  <1>3. CASE n + 2 < SIZE
    <2> DEFINE q == (n + 2) \div 3
    <2>1. n \in Nat /\ q \in Nat /\ 3 * q <= n + 2 /\ SIZE <= 4 * q
      BY <1>0, <1>1
    <2> HIDE DEF q
    <2>2. 4 * q < 2 * SIZE /\ 4 * q - SIZE < n /\ 4 * q \in Nat /\ n + 2 \in Nat
      BY <1>0, <1>3, <2>1
    <2>3. SIZE \in Nat \ {0}
      BY <1>0
    <2>4. (n + 2) % SIZE = n + 2 /\ (4 * q) % SIZE = 4 * q - SIZE
      BY <1>3, <2>1, <2>2, <2>3, SmallRemainder
    <2>5. EncodedLength(n) = 4 * q - SIZE
      BY <2>4 DEF EncodedLength, q
    <2> QED
      BY <1>1, <1>2, <2>2, <2>5
  <1>4. CASE SIZE <= n + 2
    <2>1. n + 2 \in Nat /\ n + 2 < 2 * SIZE /\ SIZE \in Nat \ {0}
      BY <1>0, <1>1
    <2>2. (n + 2) % SIZE = (n + 2) - SIZE
      BY <1>4, <2>1, SmallRemainder
    <2> DEFINE p == (n + 2) - SIZE
    <2>3. p \in 0..1 /\ p \div 3 = 0
      BY <1>0, <1>1, <1>4
    <2>4. EncodedLength(n) = (4 * (p \div 3)) % SIZE
      BY <2>2 DEF EncodedLength
    <2> HIDE DEF p
    <2>5. EncodedLength(n) = 0 % SIZE
      BY <2>3, <2>4
    <2>6. 0 % SIZE = 0
      BY <2>1, SmallRemainder
    <2> QED
      BY <1>1, <1>2, <2>5, <2>6
  <1> QED
    BY <1>0, <1>1, <1>3, <1>4

(* An array of bytes, or of characters, of bounded length is a sequence.              *)
LEMMA BoundedString ==
    ASSUME NEW S, NEW max \in Nat, NEW t \in Strings64(S, max)
    PROVE  t \in Seq(S) /\ Len(t) \in 0..max
  <1>1. PICK n \in 0..max : t \in [1..n -> S]
    BY DEF Strings64
  <1>2. n \in Nat /\ DOMAIN t = 1..n
    BY <1>1
  <1> QED
    BY <1>1, <1>2

(* What a group, and the rest, of data becomes.                                       *)
FourOf(e, m) == <<e[4 * m + 1], e[4 * m + 2], e[4 * m + 3], e[4 * m + 4]>>

(* The four characters of a whole group are the encoding of its three bytes,          *)
LEMMA GroupIsEncoded ==
    ASSUME data \in Seq(0..255), NEW m \in Nat, 3 * m + 3 <= Len(data)
    PROVE  Group(3 * m) = FourOf(Encoding, m) /\ 4 * m + 4 <= Len(Encoding)
  <1>1. Len(data) \in Nat /\ 3 * m < Len(data) /\ 3 * m + 2 <= Len(data)
    OBVIOUS
  <1>2. /\ WordAt(data, 3 * m + 1) = data[3 * m + 1]
        /\ WordAt(data, 3 * m + 2) = data[3 * m + 2]
        /\ WordAt(data, 3 * m + 3) = data[3 * m + 3]
    BY <1>1 DEF WordAt
  <1>3. /\ 4 * m + 4 <= Len(Encoding)
        /\ Encoding[4 * m + 1] = base64_table[data[3 * m + 1] \div 4]
        /\ Encoding[4 * m + 2] = base64_table[(data[3 * m + 1] % 4) * 16 + data[3 * m + 2] \div 16]
        /\ Encoding[4 * m + 3] = base64_table[(data[3 * m + 2] % 16) * 4 + data[3 * m + 3] \div 64]
        /\ Encoding[4 * m + 4] = base64_table[data[3 * m + 3] % 64]
    BY <1>1, <1>2, EncodingOf
  <1> QED
    BY <1>3 DEF Group, FourOf

(* and those of the last one or two bytes, with their padding, are theirs.            *)
LEMMA RestIsEncoded ==
    ASSUME data \in Seq(0..255), NEW m \in Nat, 3 * m < Len(data), Len(data) - 3 * m < 3
    PROVE  Rest(3 * m) = FourOf(Encoding, m) /\ Len(Encoding) = 4 * m + 4
  <1>1. Len(data) \in Nat /\ (Len(data) = 3 * m + 1 \/ Len(data) = 3 * m + 2)
    OBVIOUS
  <1>2. WordAt(data, 3 * m + 1) = data[3 * m + 1] /\ WordAt(data, 3 * m + 3) = 0
    BY <1>1 DEF WordAt
  <1>3. Len(Encoding) = 4 * m + 4
    <2>1. 4 * ((Len(data) + 2) \div 3) = 4 * m + 4
      BY <1>1
    <2> QED
      BY <2>1, EncodingType
  <1>4. LET a == WordAt(data, 3 * m + 1)
            b == WordAt(data, 3 * m + 2)
            c == WordAt(data, 3 * m + 3)
        IN  /\ a \in 0..255 /\ b \in 0..255 /\ c \in 0..255
            /\ Encoding[4 * m + 1] = base64_table[a \div 4]
            /\ Encoding[4 * m + 2] = base64_table[(a % 4) * 16 + b \div 16]
            /\ Encoding[4 * m + 3] = IF 3 * m + 2 <= Len(data)
                                     THEN base64_table[(b % 16) * 4 + c \div 64] ELSE PAD
            /\ Encoding[4 * m + 4] = IF 3 * m + 3 <= Len(data)
                                     THEN base64_table[c % 64] ELSE PAD
    BY EncodingOf
  <1>5. CASE Len(data) = 3 * m + 1
    <2>1. WordAt(data, 3 * m + 2) = 0
      BY <1>5 DEF WordAt
    <2>2. /\ Len(data) - 3 * m = 1 /\ ~(3 * m + 2 <= Len(data)) /\ ~(3 * m + 3 <= Len(data))
          /\ \A x \in 0..255 : (x % 4) * 16 + 0 \div 16 = (x % 4) * 16
      BY <1>5
    <2> DEFINE a == data[3 * m + 1]
    <2>3. /\ Encoding[4 * m + 1] = base64_table[a \div 4]
          /\ Encoding[4 * m + 2] = base64_table[(a % 4) * 16]
          /\ Encoding[4 * m + 3] = PAD /\ Encoding[4 * m + 4] = PAD
      BY <1>2, <1>4, <2>1, <2>2
    <2> QED
      BY <1>3, <2>2, <2>3 DEF Rest, FourOf
  <1>6. CASE Len(data) = 3 * m + 2
    <2>1. WordAt(data, 3 * m + 2) = data[3 * m + 2]
      BY <1>6 DEF WordAt
    <2>2. /\ Len(data) - 3 * m # 1 /\ 3 * m + 2 <= Len(data) /\ ~(3 * m + 3 <= Len(data))
          /\ \A x \in 0..255 : (x % 16) * 4 + 0 \div 64 = (x % 16) * 4
      BY <1>6
    <2> DEFINE a == data[3 * m + 1]
               b == data[3 * m + 2]
    <2>3. /\ Encoding[4 * m + 1] = base64_table[a \div 4]
          /\ Encoding[4 * m + 2] = base64_table[(a % 4) * 16 + b \div 16]
          /\ Encoding[4 * m + 3] = base64_table[(b % 16) * 4] /\ Encoding[4 * m + 4] = PAD
      BY <1>2, <1>4, <2>1, <2>2
    <2> QED
      BY <1>3, <2>2, <2>3 DEF Rest, FourOf
  <1> QED
    BY <1>1, <1>5, <1>6

(* What agrees with the beginning of a sequence is the beginning.                       *)
LEMMA SamePrefix ==
    ASSUME NEW S, NEW s \in Seq(S), NEW e \in Seq(S), NEW n \in Nat,
           Len(s) = n, n <= Len(e), \A k \in 1..n : s[k] = e[k]
    PROVE  s = SubSeq(e, 1, n)
  <1> DEFINE t == SubSeq(e, 1, n)
  <1>1. t \in Seq(S) /\ Len(t) = n /\ \A k \in 1..n : t[k] = e[k]
    OBVIOUS
  <1> HIDE DEF t
  <1> QED
    BY <1>1, SeqEqual

(* A group is added to what has been written.                                         *)
LEMMA FourMore ==
    ASSUME NEW S, NEW s \in Seq(S), NEW e \in Seq(S), NEW m \in Nat,
           Len(s) = 4 * m, 4 * m + 4 <= Len(e), \A k \in 1..(4 * m) : s[k] = e[k]
    PROVE  LET t == s \o FourOf(e, m)
           IN  /\ t \in Seq(S) /\ Len(t) = 4 * (m + 1)
               /\ \A k \in 1..(4 * (m + 1)) : t[k] = e[k]
               /\ t = SubSeq(e, 1, 4 * (m + 1))
  <1> DEFINE f == FourOf(e, m)
             t == s \o f
  <1>1. /\ 4 * m + 1 \in 1..Len(e) /\ 4 * m + 2 \in 1..Len(e)
        /\ 4 * m + 3 \in 1..Len(e) /\ 4 * m + 4 \in 1..Len(e)
    OBVIOUS
  <1>2. f \in Seq(S) /\ Len(f) = 4
    BY <1>1 DEF FourOf
  <1>3. f[1] = e[4 * m + 1] /\ f[2] = e[4 * m + 2] /\ f[3] = e[4 * m + 3] /\ f[4] = e[4 * m + 4]
    BY DEF FourOf
  <1> HIDE DEF f
  <1>4. t \in Seq(S) /\ Len(t) = 4 * (m + 1)
    <2>1. s \o f \in Seq(S) /\ Len(s \o f) = Len(s) + Len(f)
      BY <1>2, ConcatProperties
    <2>2. 4 * m + 4 = 4 * (m + 1)
      OBVIOUS
    <2> QED
      BY <1>2, <2>1, <2>2
  <1>5. ASSUME NEW k \in 1..(4 * (m + 1)) PROVE t[k] = e[k]
    <2>1. CASE k <= 4 * m
      <3>1. k \in 1..(4 * m) /\ t[k] = s[k]
        BY <1>2, <2>1
      <3> QED
        BY <3>1
    <2>2. CASE ~(k <= 4 * m)
      <3>1. k - 4 * m \in 1..4 /\ k = 4 * m + (k - 4 * m)
        BY <2>2
      <3>2. t[k] = f[k - Len(s)]
        <4>1. k \in 1..(Len(s) + Len(f)) /\ ~(k <= Len(s))
          BY <1>2, <2>2
        <4> QED
          BY <1>2, <4>1, ConcatProperties
      <3>3. k - 4 * m = 1 \/ k - 4 * m = 2 \/ k - 4 * m = 3 \/ k - 4 * m = 4
        BY <3>1
      <3> QED
        BY <1>3, <3>1, <3>2, <3>3
    <2> QED
      BY <2>1, <2>2
  <1> HIDE DEF t
  <1>6. t = SubSeq(e, 1, 4 * (m + 1))
    BY <1>4, <1>5
  <1> QED
    BY <1>4, <1>5, <1>6 DEF t, f

(* What the assumption says of the bytes and the bounds.                              *)
LEMMA Bytes == DataByte \subseteq 0..255 /\ Character \subseteq 1..255
               /\ MaxData \in Nat /\ MaxText \in Nat /\ MaxLimit \in Nat /\ SIZE \in Nat
               /\ 4 * MaxData + 8 < SIZE
  BY Base64Assumption

(* Sequences of a part of a set are sequences of the set.                             *)
LEMMA SeqSubset ==
    ASSUME NEW S, NEW T, S \subseteq T, NEW s \in Seq(S)
    PROVE  s \in Seq(T)
  OBVIOUS

(* The data are bytes.                                                                *)
LEMMA DataIsBytes == ASSUME Base64Types PROVE data \in Seq(0..255)
  <1>1. data \in Seq(DataByte) /\ DataByte \subseteq 0..255
    BY Bytes DEF Base64Types
  <1> QED
    BY <1>1, SeqSubset, ZenonT(60)

(* The encoding changes with the data only.                                           *)
LEMMA SameEncoding == data' = data => Encoding' = Encoding
  BY DEF Encoding

(* The call that starts the encoder, or refuses, keeps the invariant,                 *)
LEMMA EncodeKeeps ==
    ASSUME Base64Inv, b64 = "ready", NEW max \in 0..MaxLimit,
           \/ \E bytes \in Strings64(DataByte, MaxData) : Encode(bytes, Len(bytes), max)
           \/ \E n \in TooLong : Encode(<<>>, n, max)
    PROVE  Base64Inv'
  <1>1. text = <<>> /\ position = 0 /\ result = <<>>
    BY DEF Base64Inv
  <1>2. ASSUME NEW bytes \in Strings64(DataByte, MaxData), Encode(bytes, Len(bytes), max)
        PROVE  Base64Inv'
    <2>1. bytes \in Seq(DataByte) /\ Len(bytes) \in 0..MaxData
      BY Bytes, BoundedString
    <2>2. ~(EncodedLength(Len(bytes)) < Len(bytes))
      BY <2>1, LengthFits
    <2>0. failed' = FALSE
      <3>1. failed' = (EncodedLength(Len(bytes)) < Len(bytes))
        BY <1>2 DEF Encode
      <3>2. (EncodedLength(Len(bytes)) < Len(bytes)) = FALSE
        BY <2>2
      <3> QED
        BY <3>1, <3>2
    <2>3. /\ b64' = "encoding" /\ data' = bytes /\ claimed' = Len(bytes) /\ limit' = max
          /\ failed' = FALSE /\ text' = <<>> /\ position' = 0 /\ result' = <<>>
      BY <1>1, <1>2, <2>0 DEF Encode
    <2>4. Base64Types'
      <3>1. Len(bytes) \in 0..(SIZE - 1)
        BY <2>1, Bytes
      <3>2. position' \in 0..Len(IF b64' \in {"encoding", "encoded"} THEN data' ELSE text')
        BY <2>1, <2>3
      <3>3. text' \in Seq(1..255) /\ result' \in Seq(0..255) /\ b64' # "decoding" /\ b64' # "decoded"
        BY <2>3
      <3>4. b64' \in {"ready", "encoding", "encoded", "decoding", "decoded"} /\ failed' \in BOOLEAN
        BY <2>3
      <3> QED
        BY <2>1, <2>3, <3>1, <3>2, <3>3, <3>4 DEF Base64Types
    <2>5. EncodedGroups(position \div 3)'
      <3>1. position' \div 3 = 0
        BY <2>3
      <3>2. EncodedGroups(0)'
        BY <2>1, <2>3 DEF EncodedGroups
      <3> QED
        BY <3>1, <3>2 DEF EncodedGroups
    <2> QED
      BY <2>3, <2>4, <2>5 DEF Base64Inv, EncodesExactly, DecodesExactly
  <1>3. ASSUME NEW n \in TooLong, Encode(<<>>, n, max)
        PROVE  Base64Inv'
    <2>1. EncodedLength(n) < n /\ n # 0 /\ n \in 0..(SIZE - 1)
      BY TooLongIsNoticed
    <2>2. /\ b64' = "encoded" /\ data' = <<>> /\ claimed' = n /\ limit' = max
          /\ failed' = TRUE /\ text' = <<>> /\ position' = 0 /\ result' = <<>>
      BY <1>1, <1>3, <2>1 DEF Encode
    <2>3. Base64Types'
      BY <2>1, <2>2 DEF Base64Types
    <2>4. EncodesExactly'
      BY <2>1, <2>2 DEF EncodesExactly
    <2> QED
      BY <2>2, <2>3, <2>4 DEF Base64Inv, DecodesExactly
  <1> QED
    BY <1>2, <1>3

(* What is known of the encoder's loop.                                               *)
LEMMA EncoderState ==
    ASSUME Base64Inv, b64 = "encoding"
    PROVE  /\ \E m \in Nat : EncodedGroups(m)
           /\ data \in Seq(0..255) /\ Len(data) \in Nat /\ limit \in 0..MaxLimit
           /\ result \in Seq(0..255) /\ Encoding \in Seq(0..255) /\ Encoding \in Seq(1..255)
           /\ Len(Encoding) = 4 * ((Len(data) + 2) \div 3)
           /\ claimed = Len(data) /\ failed = FALSE
  <1>1. Base64Types /\ EncodedGroups(position \div 3) /\ claimed = Len(data) /\ ~failed
    BY DEF Base64Inv
  <1>2. position \div 3 \in Nat
    BY <1>1 DEF Base64Types
  <1>3. data \in Seq(0..255)
    BY <1>1, DataIsBytes
  <1>4. Encoding \in Seq(1..255) /\ Len(Encoding) = 4 * ((Len(data) + 2) \div 3)
    BY <1>3, EncodingType
  <1>5. Encoding \in Seq(0..255)
    <2>1. 1..255 \subseteq 0..255
      OBVIOUS
    <2> QED
      BY <1>4, <2>1, SeqSubset
  <1> QED
    BY <1>1, <1>2, <1>3, <1>4, <1>5 DEF Base64Types

(* The encoder returns with the text, or with the groups that fitted.                 *)
LEMMA EncoderReturns ==
    ASSUME Base64Inv, b64 = "encoding", NEW written, NEW fail \in BOOLEAN,
           EncodeReturns(written, fail),
           fail <=> Len(Encoding) > limit,
           result \o written \in Seq(0..255),
           result \o written = SubSeq(Encoding, 1, IF fail THEN 4 * (limit \div 4) ELSE Len(Encoding))
    PROVE  Base64Inv'
  <1>1. /\ b64' = "encoded" /\ failed' = fail /\ result' = result \o written \o <<0>>
        /\ data' = data /\ text' = text /\ limit' = limit /\ claimed' = claimed
        /\ position' = position
    BY DEF EncodeReturns
  <1>2. claimed = Len(data) /\ Base64Types
    BY DEF Base64Inv
  <1>3. result' \in Seq(0..255)
    <2> DEFINE all == result \o written
    <2>1. all \in Seq(0..255) /\ result' = all \o <<0>>
      BY <1>1
    <2>2. <<0>> \in Seq(0..255)
      OBVIOUS
    <2> HIDE DEF all
    <2> QED
      BY <2>1, <2>2, ConcatProperties
  <1>4. Base64Types'
    BY <1>1, <1>2, <1>3 DEF Base64Types
  <1>5. EncodesExactly'
    <2>1. Encoding' = Encoding
      BY <1>1, SameEncoding
    <2> QED
      BY <1>1, <1>2, <2>1 DEF EncodesExactly
  <1> QED
    BY <1>1, <1>4, <1>5 DEF Base64Inv, DecodesExactly

(* a turn of its loop does,                                                           *)
LEMMA EncodeGroupKeeps ==
    ASSUME Base64Inv, EncodeGroup
    PROVE  Base64Inv'
  <1>0. b64 = "encoding" /\ Len(data) - position >= 3
    BY DEF EncodeGroup
  <1>1. PICK m \in Nat : EncodedGroups(m)
    BY <1>0, EncoderState
  <1>2. /\ data \in Seq(0..255) /\ Len(data) \in Nat /\ limit \in 0..MaxLimit
        /\ result \in Seq(0..255) /\ Encoding \in Seq(0..255)
        /\ Len(Encoding) = 4 * ((Len(data) + 2) \div 3)
        /\ claimed = Len(data) /\ failed = FALSE /\ limit \in Nat
    BY <1>0, EncoderState, Bytes
  <1>3. /\ position = 3 * m /\ 3 * m + 3 <= Len(data)
        /\ Len(result) = 4 * m /\ 4 * m <= limit
    BY <1>0, <1>1, <1>2 DEF EncodedGroups
  <1>7. \A k \in 1..(4 * m) : result[k] = Encoding[k]
    BY <1>1 DEF EncodedGroups
  <1>4. Group(position) = FourOf(Encoding, m) /\ 4 * m + 4 <= Len(Encoding)
    BY <1>2, <1>3, GroupIsEncoded
  <1>5. CASE Len(result) + 4 <= limit
    <2>1. /\ result' = result \o FourOf(Encoding, m) /\ position' = 3 * m + 3
          /\ b64' = "encoding" /\ data' = data /\ text' = text /\ limit' = limit
          /\ claimed' = claimed /\ failed' = failed
      <3>1. ~(Len(result) + 4 > limit)
        BY <1>2, <1>3, <1>5
      <3>2. /\ result' = result \o Group(position) /\ position' = position + 3
            /\ UNCHANGED <<b64, data, text, limit, claimed, failed>>
        BY <3>1 DEF EncodeGroup
      <3> QED
        BY <1>0, <1>3, <1>4, <3>2
    <2>2. /\ result' \in Seq(0..255) /\ Len(result') = 4 * (m + 1)
          /\ \A k \in 1..(4 * (m + 1)) : result'[k] = Encoding[k]
      <3>1. LET t == result \o FourOf(Encoding, m)
            IN  /\ t \in Seq(0..255) /\ Len(t) = 4 * (m + 1)
                /\ \A k \in 1..(4 * (m + 1)) : t[k] = Encoding[k]
                /\ t = SubSeq(Encoding, 1, 4 * (m + 1))
        <4>1. /\ result \in Seq(0..255) /\ Encoding \in Seq(0..255) /\ m \in Nat
              /\ Len(result) = 4 * m /\ 4 * m + 4 <= Len(Encoding)
          BY <1>2, <1>3, <1>4
        <4> QED
          BY <1>7, <4>1, FourMore
      <3> QED
        BY <2>1, <3>1
    <2>3. Encoding' = Encoding
      BY <2>1, SameEncoding
    <2>4. position' = 3 * (m + 1) /\ position' \div 3 = m + 1 /\ 3 * (m + 1) <= Len(data)
          /\ 4 * (m + 1) <= limit
      BY <1>2, <1>3, <1>5, <2>1
    <2>5. EncodedGroups(m + 1)'
      BY <2>1, <2>2, <2>3, <2>4 DEF EncodedGroups
    <2>6. EncodedGroups(position \div 3)'
      BY <2>4, <2>5 DEF EncodedGroups
    <2>7. Base64Types /\ position' \in 0..Len(data)
      BY <1>2, <2>4 DEF Base64Inv
    <2>8. Base64Types'
      BY <1>0, <2>1, <2>2, <2>7 DEF Base64Types
    <2> QED
      BY <1>2, <2>1, <2>6, <2>8 DEF Base64Inv, EncodesExactly, DecodesExactly
  <1>6. CASE Len(result) + 4 > limit
    <2>1. EncodeReturns(<<>>, TRUE)
      <3>1. ~(Len(result) + 4 <= limit)
        BY <1>2, <1>3, <1>6
      <3> QED
        BY <3>1 DEF EncodeGroup
    <2>2. result \o <<>> = result
      BY <1>2
    <2>3. Len(Encoding) > limit /\ limit \div 4 = m
      BY <1>2, <1>3, <1>4, <1>6
    <2>4. result = SubSeq(Encoding, 1, 4 * m)
      <3>1. /\ result \in Seq(0..255) /\ Encoding \in Seq(0..255) /\ 4 * m \in Nat
            /\ Len(result) = 4 * m /\ 4 * m <= Len(Encoding)
        BY <1>2, <1>3, <1>4
      <3> QED
        BY <1>7, <3>1, SamePrefix
    <2> QED
      BY <1>0, <1>2, <2>1, <2>2, <2>3, <2>4, EncoderReturns
  <1> QED
    BY <1>2, <1>3, <1>5, <1>6

(* and the end does, behind the loop.                                                 *)
LEMMA EncodeRestKeeps ==
    ASSUME Base64Inv, EncodeRest
    PROVE  Base64Inv'
  <1>0. b64 = "encoding" /\ Len(data) - position < 3
    BY DEF EncodeRest
  <1>1. PICK m \in Nat : EncodedGroups(m)
    BY <1>0, EncoderState
  <1>2. /\ data \in Seq(0..255) /\ Len(data) \in Nat /\ limit \in 0..MaxLimit
        /\ result \in Seq(0..255) /\ Encoding \in Seq(0..255)
        /\ Len(Encoding) = 4 * ((Len(data) + 2) \div 3)
        /\ claimed = Len(data) /\ failed = FALSE /\ limit \in Nat
    BY <1>0, EncoderState, Bytes
  <1>3. /\ position = 3 * m /\ 3 * m <= Len(data) /\ Len(data) - 3 * m < 3
        /\ Len(result) = 4 * m /\ 4 * m <= limit
    BY <1>0, <1>1, <1>2 DEF EncodedGroups
  <1>7. \A k \in 1..(4 * m) : result[k] = Encoding[k]
    BY <1>1 DEF EncodedGroups
  <1>4. result \o <<>> = result
    BY <1>2
  <1>5. CASE Len(data) = position
    <2>1. Len(Encoding) = 4 * m
      BY <1>2, <1>3, <1>5
    <2>2. result = SubSeq(Encoding, 1, Len(Encoding))
      <3>1. /\ result \in Seq(0..255) /\ Encoding \in Seq(0..255) /\ 4 * m \in Nat
            /\ Len(result) = 4 * m /\ 4 * m <= Len(Encoding)
        BY <1>2, <1>3, <2>1
      <3>2. result = SubSeq(Encoding, 1, 4 * m)
        BY <1>7, <3>1, SamePrefix
      <3> QED
        BY <2>1, <3>2
    <2>4. ~(Len(Encoding) > limit)
      BY <1>2, <1>3, <2>1
    <2>3. EncodeReturns(<<>>, FALSE)
      <3>1. ~(Len(data) > position)
        BY <1>2, <1>3, <1>5
      <3> QED
        BY <3>1 DEF EncodeRest
    <2> QED
      BY <1>0, <1>2, <1>4, <2>2, <2>3, <2>4, EncoderReturns
  <1>6. CASE Len(data) # position
    <2>1. 3 * m < Len(data)
      BY <1>2, <1>3, <1>6
    <2>2. Rest(position) = FourOf(Encoding, m) /\ Len(Encoding) = 4 * m + 4
      BY <1>2, <1>3, <2>1, RestIsEncoded
    <2>3. CASE Len(result) + 4 <= limit
      <3>1. EncodeReturns(FourOf(Encoding, m), FALSE)
        <4>1. ~(Len(result) + 4 > limit)
          BY <1>2, <1>3, <2>3
        <4>2. EncodeReturns(Rest(position), FALSE)
          BY <1>6, <4>1 DEF EncodeRest
        <4> QED
          BY <2>2, <4>2
      <3>2. LET t == result \o FourOf(Encoding, m)
            IN  t \in Seq(0..255) /\ t = SubSeq(Encoding, 1, 4 * (m + 1))
        <4>1. /\ result \in Seq(0..255) /\ Encoding \in Seq(0..255) /\ m \in Nat
              /\ Len(result) = 4 * m /\ 4 * m + 4 <= Len(Encoding)
          BY <1>2, <1>3, <2>2
        <4> QED
          BY <1>7, <4>1, FourMore, ZenonT(60)
      <3>3. ~(Len(Encoding) > limit) /\ 4 * (m + 1) = Len(Encoding)
        <4> DEFINE l == Len(result)
                   n == Len(Encoding)
        <4>1. l = 4 * m /\ n = 4 * m + 4 /\ l + 4 <= limit /\ limit \in Nat
          BY <1>2, <1>3, <2>2, <2>3
        <4> HIDE DEF l, n
        <4>2. ~(n > limit) /\ 4 * (m + 1) = n
          BY <4>1
        <4> QED
          BY <4>2 DEF n
      <3> QED
        BY <1>0, <3>1, <3>2, <3>3, EncoderReturns
    <2>4. CASE Len(result) + 4 > limit
      <3>1. EncodeReturns(<<>>, TRUE)
        <4>1. ~(Len(result) + 4 <= limit)
          BY <1>2, <1>3, <2>4
        <4> QED
          BY <1>6, <4>1 DEF EncodeRest
      <3>2. Len(Encoding) > limit /\ limit \div 4 = m
        BY <1>2, <1>3, <2>2, <2>4
      <3>3. result = SubSeq(Encoding, 1, 4 * m)
        <4>1. /\ result \in Seq(0..255) /\ Encoding \in Seq(0..255) /\ 4 * m \in Nat
              /\ Len(result) = 4 * m /\ 4 * m <= Len(Encoding)
          BY <1>2, <1>3, <2>2
        <4> QED
          BY <1>7, <4>1, SamePrefix
      <3> QED
        BY <1>0, <1>2, <1>4, <3>1, <3>2, <3>3, EncoderReturns
    <2> QED
      BY <1>2, <1>3, <2>3, <2>4
  <1> QED
    BY <1>5, <1>6

(* The lengths the decoder works with.                                                *)
LEMMA Lengths ==
    ASSUME NEW t \in Seq(1..255)
    PROVE  \E q \in Nat :
               /\ WholeLength(t) = 4 * q /\ 4 * q <= Len(t)
               /\ OutLength(t) = 3 * q + IF Padded(t) THEN 1 ELSE 0
               /\ Padded(t) => 4 * q + 1 <= Len(t) /\ Len(t) <= 4 * q + 4
               /\ ~Padded(t) => Len(t) = 4 * q
  <1> DEFINE p == IF Padded(t) THEN 1 ELSE 0
             q == (Len(t) + 3) \div 4 - p
  <1>0. Len(t) \in Nat
    OBVIOUS
  <1>1. /\ Padded(t) => Len(t) > 0 /\ p = 1
        /\ ~Padded(t) => Len(t) % 4 = 0 /\ p = 0
    BY <1>0 DEF Padded
  <1> HIDE DEF p
  <1>2. /\ q \in Nat /\ 4 * q <= Len(t)
        /\ Padded(t) => 4 * q + 1 <= Len(t) /\ Len(t) <= 4 * q + 4
        /\ ~Padded(t) => Len(t) = 4 * q
    <2>1. CASE Padded(t)
      BY <1>0, <1>1, <2>1
    <2>2. CASE ~Padded(t)
      BY <1>0, <1>1, <2>2
    <2> QED
      BY <2>1, <2>2
  <1>3. WholeLength(t) = 4 * q
    BY DEF WholeLength, p
  <1> HIDE DEF q
  <1>4. (4 * q) \div 4 = q
    BY <1>2
  <1>5. OutLength(t) = 3 * q + p
    BY <1>3, <1>4 DEF OutLength, p
  <1> QED
    BY <1>2, <1>3, <1>5 DEF p

(* The numbers of the characters of a text.                                           *)
LEMMA NumbersOfText ==
    ASSUME NEW t \in Seq(1..255)
    PROVE  /\ Numbers(t) \in Seq(0..63)
           /\ \A n \in 1..Len(t) : /\ t[n] \in 0..255
                                   /\ WordAt(Numbers(t), n) = base64_index[t[n]]
  <1>1. /\ Len(t) \in Nat /\ DOMAIN t = 1..Len(t)
    OBVIOUS
  <1>2. \A n \in 1..Len(t) : t[n] \in 0..255
    <2>1. 1..255 \subseteq 0..255
      OBVIOUS
    <2>2. t \in Seq(0..255)
      BY <2>1, SeqSubset
    <2> QED
      BY <2>2, ElementType
  <1>3. \A n \in 1..Len(t) : base64_index[t[n]] \in 0..63
    BY <1>2, Tables, ZenonT(60)
  <1>4. Numbers(t) = [n \in 1..Len(t) |-> base64_index[t[n]]]
    BY <1>1 DEF Numbers
  <1>5. Numbers(t) \in [1..Len(t) -> 0..63]
    BY <1>3, <1>4
  <1>6. Numbers(t) \in Seq(0..63) /\ Len(Numbers(t)) = Len(t)
    <2> DEFINE l == Len(t)
    <2>1. l \in Nat /\ Numbers(t) \in [1..l -> 0..63]
      BY <1>1, <1>5
    <2> HIDE DEF l
    <2>2. Numbers(t) \in Seq(0..63) /\ Len(Numbers(t)) = l
      BY <2>1
    <2> QED
      BY <2>2 DEF l
  <1> QED
    BY <1>2, <1>4, <1>6 DEF WordAt

(* What the numbers of the characters are made of becomes the bytes again.            *)
LEMMA BackAgain ==
    ASSUME NEW p \in 0..255, NEW r \in 0..255, NEW s \in 0..255
    PROVE  /\ (p \div 4) * 4 + ((p % 4) * 16 + r \div 16) \div 16 = p
           /\ (((p % 4) * 16 + r \div 16) % 16) * 16 + ((r % 16) * 4 + s \div 64) \div 4 = r
           /\ (((r % 16) * 4 + s \div 64) % 4) * 64 + (s % 64) = s
  <1>1. /\ p \div 4 \in Nat /\ p % 4 \in 0..3 /\ r \div 16 \in 0..15
        /\ r % 16 \in 0..15 /\ s \div 64 \in 0..3 /\ s % 64 \in 0..63
        /\ p = 4 * (p \div 4) + (p % 4)
        /\ r = 16 * (r \div 16) + (r % 16)
        /\ s = 64 * (s \div 64) + (s % 64)
    OBVIOUS
  <1>2. /\ ((p % 4) * 16 + r \div 16) \div 16 = p % 4
        /\ ((p % 4) * 16 + r \div 16) % 16 = r \div 16
        /\ ((r % 16) * 4 + s \div 64) \div 4 = r % 16
        /\ ((r % 16) * 4 + s \div 64) % 4 = s \div 64
    BY <1>1
  <1> QED
    BY <1>1, <1>2

(* The digits of what two bytes contribute to a number.                               *)
LEMMA LowDigits ==
    /\ \A p, r \in 0..255 : ((p % 4) * 16 + r \div 16) % 16 = r \div 16
    /\ \A p, r \in 0..255 : ((p % 16) * 4 + r \div 64) \div 4 = p % 16
  <1>1. ASSUME NEW p \in 0..255, NEW r \in 0..255
        PROVE  /\ ((p % 4) * 16 + r \div 16) % 16 = r \div 16
               /\ ((p % 16) * 4 + r \div 64) \div 4 = p % 16
    <2>1. p % 4 \in 0..3 /\ r \div 16 \in 0..15 /\ p % 16 \in 0..15 /\ r \div 64 \in 0..3
      OBVIOUS
    <2> QED
      BY <2>1
  <1> QED
    BY <1>1

(* What is decoded from the encoding of bytes are these bytes.                        *)
LEMMA BytesAgain ==
    ASSUME data \in Seq(0..255), NEW m \in Nat, 3 * m < Len(data)
    PROVE  LET P(k) == Piece(Numbers(Encoding), 6, 8, k)
           IN  /\ P(3 * m + 1) = data[3 * m + 1]
               /\ 3 * m + 2 <= Len(data) => P(3 * m + 2) = data[3 * m + 2]
               /\ 3 * m + 3 <= Len(data) => P(3 * m + 3) = data[3 * m + 3]
  <1> DEFINE P(k) == Piece(Numbers(Encoding), 6, 8, k)
             a == WordAt(data, 3 * m + 1)
             b == WordAt(data, 3 * m + 2)
             c == WordAt(data, 3 * m + 3)
             x == WordAt(Numbers(Encoding), 4 * m + 1)
             y == WordAt(Numbers(Encoding), 4 * m + 2)
             z == WordAt(Numbers(Encoding), 4 * m + 3)
             w == WordAt(Numbers(Encoding), 4 * m + 4)
  <1>0. Encoding \in Seq(1..255) /\ Len(data) \in Nat
    BY EncodingType
  <1>1. /\ a \in 0..255 /\ b \in 0..255 /\ c \in 0..255
        /\ 4 * m + 4 <= Len(Encoding)
        /\ Encoding[4 * m + 1] = base64_table[a \div 4]
        /\ Encoding[4 * m + 2] = base64_table[(a % 4) * 16 + b \div 16]
        /\ Encoding[4 * m + 3] = IF 3 * m + 2 <= Len(data)
                                 THEN base64_table[(b % 16) * 4 + c \div 64] ELSE PAD
        /\ Encoding[4 * m + 4] = IF 3 * m + 3 <= Len(data)
                                 THEN base64_table[c % 64] ELSE PAD
    BY EncodingOf
  <1>2. /\ x = base64_index[Encoding[4 * m + 1]]
        /\ y = base64_index[Encoding[4 * m + 2]]
        /\ z = base64_index[Encoding[4 * m + 3]]
        /\ w = base64_index[Encoding[4 * m + 4]]
    <2>1. Len(Encoding) \in Nat /\ 4 * m + 4 <= Len(Encoding)
      BY <1>0, <1>1
    <2>2. /\ 4 * m + 1 \in 1..Len(Encoding) /\ 4 * m + 2 \in 1..Len(Encoding)
          /\ 4 * m + 3 \in 1..Len(Encoding) /\ 4 * m + 4 \in 1..Len(Encoding)
      BY <2>1
    <2> QED
      BY <1>0, <2>2, NumbersOfText
  <1>3. /\ P(3 * m + 1) = x * 4 + y \div 16
        /\ P(3 * m + 2) = (y % 16) * 16 + z \div 4
        /\ P(3 * m + 3) = (z % 4) * 64 + w
    <2>1. Numbers(Encoding) \in Seq(0..63)
      BY <1>0, NumbersOfText
    <2> QED
      BY <2>1, PiecesOfNumbers
  <1>4. /\ a = data[3 * m + 1]
        /\ 3 * m + 2 <= Len(data) => b = data[3 * m + 2]
        /\ 3 * m + 3 <= Len(data) => c = data[3 * m + 3]
    BY <1>0 DEF WordAt
  <1> HIDE DEF P, a, b, c, x, y, z, w
  <1>5. a \in 0..255 /\ b \in 0..255 /\ c \in 0..255
    BY <1>1
  <1>6. /\ a \div 4 \in 0..63 /\ (a % 4) * 16 + b \div 16 \in 0..63
        /\ (b % 16) * 4 + c \div 64 \in 0..63 /\ c % 64 \in 0..63
    BY <1>5, TableIndices, ZenonT(60)
  <1>7. /\ x = a \div 4
        /\ y = (a % 4) * 16 + b \div 16
        /\ 3 * m + 2 <= Len(data) => z = (b % 16) * 4 + c \div 64
        /\ 3 * m + 3 <= Len(data) => w = c % 64
    BY <1>1, <1>2, <1>6, Tables, ZenonT(60)
  <1>8. P(3 * m + 1) = a
    <2>1. P(3 * m + 1) = (a \div 4) * 4 + ((a % 4) * 16 + b \div 16) \div 16
      BY <1>3, <1>7, Zenon
    <2> QED
      BY <1>5, <2>1, BackAgain, ZenonT(60)
  <1>9. ASSUME 3 * m + 2 <= Len(data) PROVE P(3 * m + 2) = b
    <2>1. P(3 * m + 2)
              = (((a % 4) * 16 + b \div 16) % 16) * 16 + ((b % 16) * 4 + c \div 64) \div 4
      BY <1>3, <1>7, <1>9, Zenon
    <2>2. (((a % 4) * 16 + b \div 16) % 16) * 16 + ((b % 16) * 4 + c \div 64) \div 4 = b
      <3>1. ((a % 4) * 16 + b \div 16) % 16 = b \div 16 /\ ((b % 16) * 4 + c \div 64) \div 4 = b % 16
        <4>1. ((a % 4) * 16 + b \div 16) % 16 = b \div 16
          BY <1>5, LowDigits, Zenon
        <4>2. ((b % 16) * 4 + c \div 64) \div 4 = b % 16
          BY <1>5, LowDigits, Zenon
        <4> QED
          BY <4>1, <4>2
      <3>2. (b \div 16) * 16 + (b % 16) = b
        BY <1>5
      <3> QED
        BY <3>1, <3>2, Zenon
    <2> QED
      BY <2>1, <2>2, Zenon
  <1>10. ASSUME 3 * m + 3 <= Len(data) PROVE P(3 * m + 3) = c
    <2>1. 3 * m + 2 <= Len(data)
      BY <1>0, <1>10
    <2>2. P(3 * m + 3) = (((b % 16) * 4 + c \div 64) % 4) * 64 + (c % 64)
      BY <1>3, <1>7, <1>10, <2>1, Zenon
    <2> QED
      BY <1>5, <2>2, BackAgain, ZenonT(60)
  <1> QED
    BY <1>4, <1>8, <1>9, <1>10 DEF P

(* The pieces of a text's numbers are the bytes it was made from.                     *)
LEMMA AllBytesAgain ==
    ASSUME data \in Seq(0..255), NEW k \in 1..Len(data)
    PROVE  Piece(Numbers(Encoding), 6, 8, k) = data[k]
  <1> DEFINE P(n) == Piece(Numbers(Encoding), 6, 8, n)
  <1>0. k \in Nat /\ 1 <= k /\ k <= Len(data) /\ Len(data) \in Nat
    OBVIOUS
  <1>1. PICK m \in Nat, r \in 1..3 : k = 3 * m + r
    <2>1. k \in Nat \ {0}
      BY <1>0
    <2>2. \A n \in Nat \ {0} : \E m \in Nat, r \in 1..3 : n = 3 * m + r
      <3> SUFFICES ASSUME NEW n \in Nat \ {0} PROVE \E m \in Nat, r \in 1..3 : n = 3 * m + r
        OBVIOUS
      <3>1. /\ (n - 1) \div 3 \in Nat /\ ((n - 1) % 3) + 1 \in 1..3
            /\ n = 3 * ((n - 1) \div 3) + (((n - 1) % 3) + 1)
        OBVIOUS
      <3> QED
        BY <3>1
    <2> QED
      BY <2>1, <2>2
  <1>2. 3 * m < Len(data)
    BY <1>0, <1>1
  <1>3. /\ P(3 * m + 1) = data[3 * m + 1]
        /\ 3 * m + 2 <= Len(data) => P(3 * m + 2) = data[3 * m + 2]
        /\ 3 * m + 3 <= Len(data) => P(3 * m + 3) = data[3 * m + 3]
    BY <1>2, BytesAgain
  <1> HIDE DEF P
  <1>4. P(k) = data[k]
    BY <1>0, <1>1, <1>3
  <1> QED
    BY <1>4 DEF P

(* The lengths of a text the encoder has made.                                        *)
LEMMA LengthsOfEncoding ==
    ASSUME data \in Seq(0..255), data # <<>>
    PROVE  \E q \in Nat :
               /\ WholeLength(Encoding) = 4 * q
               /\ OutLength(Encoding) = 3 * q + IF Padded(Encoding) THEN 1 ELSE 0
               /\ Len(data) \in (3 * q)..(3 * q + 2)
               /\ Padded(Encoding) <=> Len(data) # 3 * q
               /\ Padded(Encoding) => /\ Len(Encoding) = 4 * q + 4
                                      /\ HasThird(Encoding) <=> Len(data) = 3 * q + 2
  <1>0. Encoding \in Seq(1..255) /\ Len(data) \in Nat \ {0}
        /\ Len(Encoding) = 4 * ((Len(data) + 2) \div 3)
    BY EncodingType
  <1>1. PICK m \in Nat, r \in 1..3 : Len(data) = 3 * m + r
    <2>1. \A n \in Nat \ {0} : \E m \in Nat, r \in 1..3 : n = 3 * m + r
      <3> SUFFICES ASSUME NEW n \in Nat \ {0} PROVE \E m \in Nat, r \in 1..3 : n = 3 * m + r
        OBVIOUS
      <3>1. /\ (n - 1) \div 3 \in Nat /\ ((n - 1) % 3) + 1 \in 1..3
            /\ n = 3 * ((n - 1) \div 3) + (((n - 1) % 3) + 1)
        OBVIOUS
      <3> QED
        BY <3>1
    <2> QED
      BY <1>0, <2>1
  <1> DEFINE b == WordAt(data, 3 * m + 2)
             c == WordAt(data, 3 * m + 3)
  <1>2. /\ b \in 0..255 /\ c \in 0..255
        /\ Encoding[4 * m + 3] = IF 3 * m + 2 <= Len(data)
                                 THEN base64_table[(b % 16) * 4 + c \div 64] ELSE PAD
        /\ Encoding[4 * m + 4] = IF 3 * m + 3 <= Len(data)
                                 THEN base64_table[c % 64] ELSE PAD
    <2>1. 3 * m < Len(data)
      BY <1>0, <1>1
    <2> QED
      BY <2>1, EncodingOf
  <1> HIDE DEF b, c
  <1>3. (b % 16) * 4 + c \div 64 \in 0..63 /\ c % 64 \in 0..63
    BY <1>2, TableIndices
  <1>4. /\ r \in 2..3 <=> Encoding[4 * m + 3] # PAD
        /\ r = 3 <=> Encoding[4 * m + 4] # PAD
    <2>1. /\ 3 * m + 2 <= Len(data) <=> r \in 2..3
          /\ 3 * m + 3 <= Len(data) <=> r = 3
      BY <1>1
    <2>2. base64_table[(b % 16) * 4 + c \div 64] # PAD /\ base64_table[c % 64] # PAD
      BY <1>3, Tables
    <2> QED
      BY <1>2, <2>1, <2>2
  <1>5. Len(Encoding) = 4 * m + 4 /\ Len(Encoding) % 4 = 0 /\ Len(Encoding) > 0
    <2> DEFINE l == Len(Encoding)
    <2>1. l = 4 * ((3 * m + r + 2) \div 3)
      BY <1>0, <1>1
    <2> HIDE DEF l
    <2>2. l = 4 * m + 4 /\ l % 4 = 0 /\ l > 0
      BY <2>1
    <2> QED
      BY <2>2 DEF l
  <1>6. Padded(Encoding) <=> r # 3
    BY <1>4, <1>5 DEF Padded
  <1>7. PICK q \in Nat :
            /\ WholeLength(Encoding) = 4 * q /\ 4 * q <= Len(Encoding)
            /\ OutLength(Encoding) = 3 * q + IF Padded(Encoding) THEN 1 ELSE 0
            /\ Padded(Encoding) => 4 * q + 1 <= Len(Encoding) /\ Len(Encoding) <= 4 * q + 4
            /\ ~Padded(Encoding) => Len(Encoding) = 4 * q
    BY <1>0, Lengths
  <1>8. CASE r = 3
    <2>1. ~Padded(Encoding)
      BY <1>6, <1>8
    <2>2. 4 * q = 4 * m + 4
      BY <1>5, <1>7, <2>1
    <2>3. q = m + 1 /\ Len(data) = 3 * q /\ 3 * q \in (3 * q)..(3 * q + 2)
      BY <1>1, <1>8, <2>2
    <2> QED
      BY <1>7, <2>1, <2>3
  <1>9. CASE r # 3
    <2>1. Padded(Encoding)
      BY <1>6, <1>9
    <2>2. 4 * q + 1 <= 4 * m + 4 /\ 4 * m + 4 <= 4 * q + 4
      BY <1>5, <1>7, <2>1
    <2>3. q = m
      BY <2>2
    <2>4. /\ Len(data) \in (3 * q)..(3 * q + 2) /\ Len(data) # 3 * q
          /\ Len(data) = 3 * q + 2 <=> r \in 2..3
      BY <1>1, <1>9, <2>3
    <2>5. HasThird(Encoding) <=> Encoding[4 * m + 3] # PAD
      <3>1. WholeLength(Encoding) + 3 = 4 * m + 3 /\ Len(Encoding) > WholeLength(Encoding) + 2
        BY <1>5, <1>7, <2>3
      <3> QED
        BY <3>1 DEF HasThird
    <2> QED
      BY <1>4, <1>5, <1>7, <2>1, <2>3, <2>4, <2>5
  <1> QED
    BY <1>8, <1>9

(* Three bytes are added to what has been written.                                    *)
LEMMA ThreeMore ==
    ASSUME NEW S, NEW s \in Seq(S), NEW m \in Nat, Len(s) = 3 * m,
           NEW x \in S, NEW y \in S, NEW z \in S
    PROVE  LET t == s \o <<x, y, z>>
           IN  /\ t \in Seq(S) /\ Len(t) = 3 * (m + 1)
               /\ \A k \in 1..(3 * m) : t[k] = s[k]
               /\ t[3 * m + 1] = x /\ t[3 * m + 2] = y /\ t[3 * m + 3] = z
  <1> DEFINE f == <<x, y, z>>
             t == s \o f
  <1>1. f \in Seq(S) /\ Len(f) = 3 /\ f[1] = x /\ f[2] = y /\ f[3] = z
    OBVIOUS
  <1> HIDE DEF f
  <1>2. /\ t \in Seq(S) /\ Len(t) = Len(s) + Len(f)
        /\ \A k \in 1..(Len(s) + Len(f)) : t[k] = IF k <= Len(s) THEN s[k] ELSE f[k - Len(s)]
    BY <1>1, ConcatProperties
  <1> HIDE DEF t
  <1>3. Len(t) = 3 * (m + 1)
    BY <1>1, <1>2
  <1>4. \A k \in 1..(3 * m) : t[k] = s[k]
    BY <1>1, <1>2
  <1>5. /\ 3 * m + 1 \in 1..(Len(s) + Len(f)) /\ ~(3 * m + 1 <= Len(s)) /\ 3 * m + 1 - Len(s) = 1
        /\ 3 * m + 2 \in 1..(Len(s) + Len(f)) /\ ~(3 * m + 2 <= Len(s)) /\ 3 * m + 2 - Len(s) = 2
        /\ 3 * m + 3 \in 1..(Len(s) + Len(f)) /\ ~(3 * m + 3 <= Len(s)) /\ 3 * m + 3 - Len(s) = 3
    BY <1>1
  <1>6. t[3 * m + 1] = x /\ t[3 * m + 2] = y /\ t[3 * m + 3] = z
    BY <1>1, <1>2, <1>5
  <1> QED
    BY <1>2, <1>3, <1>4, <1>6 DEF t, f

(* The call that starts the decoder, or refuses, keeps the invariant,                 *)
LEMMA DecodingStarts ==
    ASSUME Base64Types, NEW t \in Seq(1..255), NEW max \in 0..MaxLimit,
           StartDecoding(t, max), data' = data, data # <<>> => t = Encoding
    PROVE  Base64Inv'
  <1>1. /\ text' = t /\ limit' = max /\ position' = 0 /\ result' = <<>>
        /\ data' = data /\ claimed' = claimed
    BY DEF StartDecoding
  <1>2. failed' = (OutLength(t) > max \/ WholeLength(t) = 0)
    BY DEF StartDecoding
  <1>3. b64' = IF failed' THEN "decoded" ELSE "decoding"
    BY DEF StartDecoding
  <1>4. Encoding' = Encoding
    BY <1>1, SameEncoding
  <1>5. data \in Seq(0..255) /\ max \in Nat
    BY DataIsBytes, Bytes
  <1>6. PICK q \in Nat :
            /\ WholeLength(t) = 4 * q /\ 4 * q <= Len(t)
            /\ OutLength(t) = 3 * q + IF Padded(t) THEN 1 ELSE 0
    BY Lengths
  <1>7. Base64Types'
    <2>1. b64' \in {"decoded", "decoding"} /\ failed' \in BOOLEAN
      BY <1>2, <1>3
    <2>2. position' \in 0..Len(t) /\ Len(result') <= max /\ result' \in Seq(0..255)
      BY <1>1, <1>5
    <2> QED
      BY <1>1, <2>1, <2>2 DEF Base64Types
  <1>8. CASE OutLength(t) > max \/ WholeLength(t) = 0
    <2>1. failed' = TRUE
      BY <1>2, <1>8
    <2>2. b64' = "decoded"
      BY <1>3, <2>1
    <2>3. ASSUME data # <<>> PROVE max < Len(data) \/ Len(data) < 3
      <3>1. PICK p \in Nat :
               /\ WholeLength(Encoding) = 4 * p
               /\ OutLength(Encoding) = 3 * p + IF Padded(Encoding) THEN 1 ELSE 0
               /\ Len(data) \in (3 * p)..(3 * p + 2)
               /\ Padded(Encoding) <=> Len(data) # 3 * p
        BY <1>5, <2>3, LengthsOfEncoding
      <3>2. t = Encoding /\ Len(data) \in Nat
        BY <1>5, <2>3
      <3>3. OutLength(Encoding) <= Len(data)
        <4>1. CASE Padded(Encoding)
          BY <3>1, <3>2, <4>1
        <4>2. CASE ~Padded(Encoding)
          BY <3>1, <3>2, <4>2
        <4> QED
          BY <4>1, <4>2
      <3>4. OutLength(Encoding) \in Nat
        BY <3>1
      <3>5. CASE OutLength(t) > max
        BY <1>5, <3>2, <3>3, <3>4, <3>5
      <3>6. CASE WholeLength(t) = 0
        BY <3>1, <3>2, <3>6
      <3> QED
        BY <1>8, <3>5, <3>6
    <2>4. DecodesExactly'
      <3>1. DOMAIN result' = {}
        BY <1>1
      <3>2. data' # <<>> => (failed' <=> limit' < Len(data') \/ Len(data') < 3)
        BY <1>1, <2>1, <2>3
      <3> QED
        BY <2>1, <3>1, <3>2 DEF DecodesExactly
    <2> QED
      BY <1>7, <2>2, <2>4 DEF Base64Inv, EncodesExactly
  <1>9. CASE ~(OutLength(t) > max) /\ WholeLength(t) # 0
    <2>1. failed' = FALSE
      BY <1>2, <1>9
    <2>2. b64' = "decoding"
      BY <1>3, <2>1
    <2>3. OutLength(t) <= max
      <3>1. OutLength(t) \in Nat
        BY <1>6
      <3> QED
        BY <1>5, <1>9, <3>1
    <2>4. DecodedGroups(position \div 4)'
      <3>1. position' \div 4 = 0 /\ 4 * 0 = 0 /\ 3 * 0 = 0
        BY <1>1
      <3>2. 0 <= WholeLength(text')
        BY <1>1, <1>6
      <3>3. Len(result') = 0 /\ \A k \in 1..0 : FALSE
        BY <1>1
      <3>4. DecodedGroups(0)'
        BY <1>1, <3>1, <3>2, <3>3 DEF DecodedGroups
      <3> QED
        BY <3>1, <3>4 DEF DecodedGroups
    <2>5. OutLength(text') <= limit' /\ WholeLength(text') # 0
      BY <1>1, <1>9, <2>3
    <2> QED
      BY <1>1, <1>4, <1>7, <2>1, <2>2, <2>4, <2>5 DEF Base64Inv, EncodesExactly, DecodesExactly
  <1> QED
    BY <1>8, <1>9

(* with a foreign text,                                                               *)
LEMMA DecodeForeignKeeps ==
    ASSUME Base64Inv, b64 = "ready", NEW max \in 0..MaxLimit,
           NEW t \in Strings64(Character, MaxText), DecodeForeign(t, max)
    PROVE  Base64Inv'
  <1>1. Base64Types /\ data = <<>>
    BY DEF Base64Inv
  <1>2. t \in Seq(1..255)
    <2>1. t \in Seq(Character) /\ Character \subseteq 1..255
      BY Bytes, BoundedString
    <2> QED
      BY <2>1, SeqSubset, ZenonT(60)
  <1>3. StartDecoding(t, max) /\ data' = data
    BY DEF DecodeForeign
  <1> QED
    BY <1>1, <1>2, <1>3, DecodingStarts

(* and with one that was encoded.                                                     *)
LEMMA DecodeEncodedKeeps ==
    ASSUME Base64Inv, NEW max \in 0..MaxLimit, DecodeEncoded(max)
    PROVE  Base64Inv'
  <1>1. b64 = "encoded" /\ ~failed /\ data' = data
        /\ StartDecoding(SubSeq(result, 1, Len(result) - 1), max)
    BY DEF DecodeEncoded
  <1>2. Base64Types /\ data \in Seq(0..255) /\ EncodesExactly
    BY DataIsBytes DEF Base64Inv
  <1>3. Encoding \in Seq(1..255) /\ Len(Encoding) \in Nat
    BY <1>2, EncodingType
  <1>4. result = SubSeq(Encoding, 1, Len(Encoding)) \o <<0>>
    BY <1>1, <1>2 DEF EncodesExactly
  <1>5. SubSeq(result, 1, Len(result) - 1) = Encoding
    <2>1. SubSeq(Encoding, 1, Len(Encoding)) = Encoding
      BY <1>3
    <2>2. Encoding \in Seq(Int) /\ <<0>> \in Seq(Int)
      BY <1>3, SeqSubset
    <2>3. /\ result = Encoding \o <<0>>
          /\ Len(result) = Len(Encoding) + 1
          /\ \A k \in 1..Len(Encoding) : result[k] = Encoding[k]
      <3>1. result = Encoding \o <<0>> /\ Len(<<0>>) = 1
        BY <1>4, <2>1
      <3>2. /\ Len(Encoding \o <<0>>) = Len(Encoding) + Len(<<0>>)
            /\ \A k \in 1..(Len(Encoding) + Len(<<0>>)) :
                   (Encoding \o <<0>>)[k] =
                       IF k <= Len(Encoding) THEN Encoding[k] ELSE <<0>>[k - Len(Encoding)]
        BY <2>2, ConcatProperties
      <3> QED
        BY <1>3, <3>1, <3>2
    <2>4. result \in Seq(Int)
      BY <2>2, <2>3, ConcatProperties
    <2> QED
      BY <1>3, <2>3, <2>4
  <1> QED
    BY <1>1, <1>2, <1>3, <1>5, DecodingStarts

(* What is known of the decoder's loop.                                               *)
LEMMA DecoderState ==
    ASSUME Base64Inv, b64 = "decoding"
    PROVE  /\ \E m \in Nat : DecodedGroups(m)
           /\ text \in Seq(1..255) /\ data \in Seq(0..255) /\ result \in Seq(0..255)
           /\ limit \in Nat /\ failed = FALSE
           /\ OutLength(text) <= limit /\ WholeLength(text) # 0
           /\ data # <<>> => text = Encoding
           /\ Base64Types
  <1>1. /\ Base64Types /\ DecodedGroups(position \div 4) /\ ~failed
        /\ OutLength(text) <= limit /\ WholeLength(text) # 0
        /\ data # <<>> => text = Encoding
    BY DEF Base64Inv
  <1>2. position \div 4 \in Nat
    BY <1>1 DEF Base64Types
  <1>3. data \in Seq(0..255)
    BY <1>1, DataIsBytes
  <1>4. text \in Seq(1..255) /\ result \in Seq(0..255) /\ limit \in Nat /\ failed = FALSE
    BY <1>1, Bytes DEF Base64Types
  <1> QED
    BY <1>1, <1>2, <1>3, <1>4

(* The pieces of a group, as the loop computes them.                                  *)
LEMMA GroupIsDecoded ==
    ASSUME NEW t \in Seq(1..255), NEW m \in Nat, 4 * m + 4 <= Len(t)
    PROVE  LET n == Joined(t[4 * m + 1], t[4 * m + 2], t[4 * m + 3], t[4 * m + 4])
               P(k) == Piece(Numbers(t), 6, 8, k)
           IN  /\ n \div 2^16 = P(3 * m + 1)
               /\ (n \div 2^8) % 256 = P(3 * m + 2)
               /\ n % 256 = P(3 * m + 3)
               /\ P(3 * m + 1) \in 0..255 /\ P(3 * m + 2) \in 0..255 /\ P(3 * m + 3) \in 0..255
  <1> DEFINE P(k) == Piece(Numbers(t), 6, 8, k)
             a == WordAt(Numbers(t), 4 * m + 1)
             b == WordAt(Numbers(t), 4 * m + 2)
             c == WordAt(Numbers(t), 4 * m + 3)
             d == WordAt(Numbers(t), 4 * m + 4)
             n == Joined(t[4 * m + 1], t[4 * m + 2], t[4 * m + 3], t[4 * m + 4])
  <1>1. /\ a = base64_index[t[4 * m + 1]] /\ b = base64_index[t[4 * m + 2]]
        /\ c = base64_index[t[4 * m + 3]] /\ d = base64_index[t[4 * m + 4]]
    <2>1. /\ 4 * m + 1 \in 1..Len(t) /\ 4 * m + 2 \in 1..Len(t)
          /\ 4 * m + 3 \in 1..Len(t) /\ 4 * m + 4 \in 1..Len(t)
      OBVIOUS
    <2> QED
      BY <2>1, NumbersOfText
  <1>2. /\ a \in 0..63 /\ b \in 0..63 /\ c \in 0..63 /\ d \in 0..63
        /\ P(3 * m + 1) = a * 4 + b \div 16
        /\ P(3 * m + 2) = (b % 16) * 16 + c \div 4
        /\ P(3 * m + 3) = (c % 4) * 64 + d
    <2>1. Numbers(t) \in Seq(0..63)
      BY NumbersOfText
    <2> QED
      BY <2>1, PiecesOfNumbers
  <1>3. n = a * 2^18 + b * 2^12 + c * 2^6 + d
    BY <1>1 DEF Joined
  <1> HIDE DEF a, b, c, d, P, n
  <1>4. a \in 0..63 /\ b \in 0..63 /\ c \in 0..63 /\ d \in 0..63
    BY <1>2
  <1>5. LET s == a * 2^18 + b * 2^12 + c * 2^6 + d
        IN  /\ s \div 2^16 = a * 4 + b \div 16
            /\ (s \div 2^8) % 256 = (b % 16) * 16 + c \div 4
            /\ s % 256 = (c % 4) * 64 + d
            /\ a * 4 + b \div 16 \in 0..255
            /\ (b % 16) * 16 + c \div 4 \in 0..255
            /\ (c % 4) * 64 + d \in 0..255
    <2>1. BytesOf(a, b, c, d)
      BY <1>4, BytesOfSum
    <2> QED
      BY <2>1, Zenon DEF BytesOf
  <1>6. /\ n \div 2^16 = P(3 * m + 1)
        /\ (n \div 2^8) % 256 = P(3 * m + 2)
        /\ n % 256 = P(3 * m + 3)
        /\ P(3 * m + 1) \in 0..255 /\ P(3 * m + 2) \in 0..255 /\ P(3 * m + 3) \in 0..255
    BY <1>2, <1>3, <1>5, Zenon
  <1> QED
    BY <1>6 DEF P, n

(* A turn of the loop of the decoder keeps it.                                        *)
LEMMA DecodeGroupKeeps ==
    ASSUME Base64Inv, DecodeGroup
    PROVE  Base64Inv'
  <1> DEFINE P(k) == Piece(Numbers(text), 6, 8, k)
  <1>0. b64 = "decoding" /\ position < WholeLength(text)
    BY DEF DecodeGroup
  <1>1. PICK m \in Nat : DecodedGroups(m)
    BY <1>0, DecoderState
  <1>2. /\ text \in Seq(1..255) /\ result \in Seq(0..255) /\ limit \in Nat
        /\ failed = FALSE /\ Base64Types
    BY <1>0, DecoderState
  <1>9. /\ OutLength(text) <= limit /\ WholeLength(text) # 0
        /\ data # <<>> => text = Encoding
    BY <1>0, DecoderState
  <1>3. position = 4 * m /\ 4 * m <= WholeLength(text) /\ Len(result) = 3 * m
    BY <1>1 DEF DecodedGroups
  <1>4. \A k \in 1..(3 * m) : result[k] = P(k)
    BY <1>1 DEF DecodedGroups
  <1>5. PICK q \in Nat :
            /\ WholeLength(text) = 4 * q /\ 4 * q <= Len(text)
            /\ OutLength(text) = 3 * q + IF Padded(text) THEN 1 ELSE 0
    BY <1>2, Lengths
  <1>6. m + 1 <= q /\ 4 * m + 4 <= Len(text) /\ Len(text) \in Nat
    BY <1>0, <1>2, <1>3, <1>5
  <1>7. LET n == Joined(text[4 * m + 1], text[4 * m + 2], text[4 * m + 3], text[4 * m + 4])
        IN  /\ n \div 2^16 = P(3 * m + 1)
            /\ (n \div 2^8) % 256 = P(3 * m + 2)
            /\ n % 256 = P(3 * m + 3)
            /\ P(3 * m + 1) \in 0..255 /\ P(3 * m + 2) \in 0..255 /\ P(3 * m + 3) \in 0..255
    BY <1>2, <1>6, GroupIsDecoded
  <1>8. /\ result' = result \o <<P(3 * m + 1), P(3 * m + 2), P(3 * m + 3)>>
        /\ position' = 4 * m + 4
        /\ b64' = "decoding" /\ data' = data /\ text' = text /\ limit' = limit
        /\ claimed' = claimed /\ failed' = failed
    <2>1. /\ result' = LET n == Joined(text[position + 1], text[position + 2],
                                       text[position + 3], text[position + 4])
                       IN  result \o <<n \div 2^16, (n \div 2^8) % 256, n % 256>>
          /\ position' = position + 4
          /\ UNCHANGED <<b64, data, text, limit, claimed, failed>>
      BY DEF DecodeGroup
    <2> HIDE DEF P
    <2> QED
      BY <1>0, <1>3, <1>7, <2>1
  <1> HIDE DEF P
  <1>10. /\ result' \in Seq(0..255) /\ Len(result') = 3 * (m + 1)
         /\ \A k \in 1..(3 * m) : result'[k] = result[k]
         /\ result'[3 * m + 1] = P(3 * m + 1) /\ result'[3 * m + 2] = P(3 * m + 2)
         /\ result'[3 * m + 3] = P(3 * m + 3)
    <2>1. P(3 * m + 1) \in 0..255 /\ P(3 * m + 2) \in 0..255 /\ P(3 * m + 3) \in 0..255
      BY <1>7
    <2> DEFINE x == P(3 * m + 1)
               y == P(3 * m + 2)
               z == P(3 * m + 3)
    <2> HIDE DEF x, y, z
    <2>3. x \in 0..255 /\ y \in 0..255 /\ z \in 0..255
      BY <2>1 DEF x, y, z
    <2>4. result \in Seq(0..255) /\ Len(result) = 3 * m
      BY <1>2, <1>3
    <2>5. LET t == result \o <<x, y, z>>
          IN  /\ t \in Seq(0..255) /\ Len(t) = 3 * (m + 1)
              /\ \A k \in 1..(3 * m) : t[k] = result[k]
              /\ t[3 * m + 1] = x /\ t[3 * m + 2] = y /\ t[3 * m + 3] = z
      BY <2>3, <2>4, ThreeMore, SMTT(60)
    <2>2. LET t == result \o <<P(3 * m + 1), P(3 * m + 2), P(3 * m + 3)>>
          IN  /\ t \in Seq(0..255) /\ Len(t) = 3 * (m + 1)
              /\ \A k \in 1..(3 * m) : t[k] = result[k]
              /\ t[3 * m + 1] = P(3 * m + 1) /\ t[3 * m + 2] = P(3 * m + 2)
              /\ t[3 * m + 3] = P(3 * m + 3)
      BY <2>5 DEF x, y, z
    <2> QED
      BY <1>8, <2>2
  <1>11. \A k \in 1..(3 * (m + 1)) : result'[k] = P(k)
    <2> SUFFICES ASSUME NEW k \in 1..(3 * (m + 1)) PROVE result'[k] = P(k)
      OBVIOUS
    <2>1. k \in 1..(3 * m) \/ k = 3 * m + 1 \/ k = 3 * m + 2 \/ k = 3 * m + 3
      OBVIOUS
    <2> QED
      BY <1>4, <1>10, <2>1
  <1>12. /\ position' = 4 * (m + 1) /\ 4 * (m + 1) <= WholeLength(text)
         /\ position' \div 4 = m + 1 /\ position' \in 0..Len(text)
         /\ 3 * (m + 1) <= limit
    <2>1. /\ position' = 4 * (m + 1) /\ 4 * (m + 1) <= WholeLength(text)
          /\ position' \div 4 = m + 1 /\ position' \in 0..Len(text)
      BY <1>5, <1>6, <1>8
    <2>2. 3 * q <= OutLength(text) /\ OutLength(text) \in Nat
      <3>1. CASE Padded(text)
        BY <1>5, <3>1
      <3>2. CASE ~Padded(text)
        BY <1>5, <3>2
      <3> QED
        BY <3>1, <3>2
    <2>3. 3 * (m + 1) <= limit
      BY <1>2, <1>6, <1>9, <2>2
    <2> QED
      BY <2>1, <2>3
  <1>13. DecodedGroups(m + 1)'
    BY <1>8, <1>10, <1>11, <1>12 DEF DecodedGroups, P
  <1>14. DecodedGroups(position \div 4)'
    BY <1>12, <1>13 DEF DecodedGroups
  <1>15. Base64Types'
    BY <1>2, <1>8, <1>10, <1>12 DEF Base64Types
  <1>16. Encoding' = Encoding
    BY <1>8, SameEncoding
  <1> QED
    BY <1>2, <1>8, <1>9, <1>14, <1>15, <1>16 DEF Base64Inv, EncodesExactly, DecodesExactly

(* The decoder returns: what it has written must be the bytes of the text.            *)
LEMMA DecoderReturns ==
    ASSUME Base64Inv, b64 = "decoding", b64' = "decoded",
           UNCHANGED <<data, text, limit, claimed, position>>,
           result' \in Seq(0..255), Len(result') <= limit, failed' \in BOOLEAN,
           \A k \in 1..Len(result') :
               8 * k <= 6 * Len(text) => result'[k] = Piece(Numbers(text), 6, 8, k),
           data # <<>> => /\ failed' <=> limit < Len(data) \/ Len(data) < 3
                          /\ ~failed' => Len(result') = Len(data)
    PROVE  Base64Inv'
  <1> DEFINE P(k) == Piece(Numbers(text), 6, 8, k)
  <1>1. /\ text \in Seq(1..255) /\ data \in Seq(0..255) /\ limit \in Nat /\ Base64Types
        /\ data # <<>> => text = Encoding
    BY DecoderState
  <1>2. Base64Types'
    BY <1>1 DEF Base64Types
  <1>3. \A k \in DOMAIN result' : 8 * k <= 6 * Len(text) => result'[k] = P(k)
    <2>1. DOMAIN result' = 1..Len(result')
      OBVIOUS
    <2> QED
      BY <2>1
  <1>4. ASSUME data # <<>>, ~failed' PROVE result' = data
    <2>1. Len(result') = Len(data) /\ text = Encoding /\ Len(data) \in Nat
      BY <1>1, <1>4
    <2>2. ASSUME NEW k \in 1..Len(data) PROVE result'[k] = data[k]
      <3>1. Len(text) = 4 * ((Len(data) + 2) \div 3)
        BY <1>1, <2>1, EncodingType
      <3> DEFINE l == Len(data)
                 e == Len(text)
      <3>2. l \in Nat /\ e = 4 * ((l + 2) \div 3) /\ k \in 1..l
        BY <2>1, <3>1
      <3> HIDE DEF l, e
      <3>3. 8 * k <= 6 * e
        BY <3>2
      <3>4. k \in 1..Len(result')
        BY <2>1
      <3>5. result'[k] = P(k)
        BY <3>3, <3>4 DEF e
      <3>6. P(k) = data[k]
        BY <1>1, <2>1, AllBytesAgain
      <3> QED
        BY <3>5, <3>6
    <2> QED
      BY <1>1, <2>1, <2>2
  <1>5. DecodesExactly'
    BY <1>3, <1>4 DEF DecodesExactly, Numbers
  <1> QED
    BY <1>2, <1>5 DEF Base64Inv, EncodesExactly

(* The padded group, whose missing characters count as an 'A', that is, as 0.         *)
LEMMA PaddedGroup ==
    ASSUME NEW t \in Seq(1..255), NEW m \in Nat, 4 * m + 1 <= Len(t), NEW second \in 0..255,
           Len(t) # 4 * m + 1 => second = t[4 * m + 2]
    PROVE  LET n == Joined(t[4 * m + 1], second, 65, 65)
               third == base64_index[t[4 * m + 3]] * 2^6
               P(k) == Piece(Numbers(t), 6, 8, k)
           IN  /\ n \div 2^16 \in 0..255
               /\ Len(t) # 4 * m + 1 => n \div 2^16 = P(3 * m + 1)
               /\ Len(t) > 4 * m + 2 => /\ ((n + third) \div 2^8) % 256 = P(3 * m + 2)
                                        /\ P(3 * m + 2) \in 0..255
  <1> DEFINE P(k) == Piece(Numbers(t), 6, 8, k)
             a == base64_index[t[4 * m + 1]]
             b == base64_index[second]
             c == base64_index[t[4 * m + 3]]
             n == Joined(t[4 * m + 1], second, 65, 65)
             third == c * 2^6
  <1>0. Len(t) \in Nat
    OBVIOUS
  <1>1. 4 * m + 1 \in 1..Len(t)
    BY <1>0
  <1>13. \A x \in 0..255 : base64_index[x] \in 0..63
    BY Tables, Zenon
  <1>2. a \in 0..63 /\ b \in 0..63 /\ 0 \in 0..63
    <2>1. t[4 * m + 1] \in 0..255
      BY <1>1, NumbersOfText
    <2>2. 0 \in 0..63
      OBVIOUS
    <2>3. a \in 0..63
      BY <1>13, <2>1, ZenonT(60)
    <2>4. b \in 0..63
      BY <1>13
    <2> QED
      BY <2>2, <2>3, <2>4
  <1>3. n = a * 2^18 + b * 2^12 + 0 * 2^6 + 0
    BY Tables DEF Joined
  <1>4. /\ P(3 * m + 1) = WordAt(Numbers(t), 4 * m + 1) * 4 + WordAt(Numbers(t), 4 * m + 2) \div 16
        /\ P(3 * m + 2) = (WordAt(Numbers(t), 4 * m + 2) % 16) * 16
                              + WordAt(Numbers(t), 4 * m + 3) \div 4
    <2>1. Numbers(t) \in Seq(0..63)
      BY NumbersOfText
    <2> QED
      BY <2>1, PiecesOfNumbers
  <1>5. WordAt(Numbers(t), 4 * m + 1) = a
    BY <1>1, NumbersOfText
  <1>6. ASSUME Len(t) # 4 * m + 1 PROVE WordAt(Numbers(t), 4 * m + 2) = b
    <2>1. 4 * m + 2 \in 1..Len(t)
      BY <1>0, <1>6
    <2> QED
      BY <1>6, <2>1, NumbersOfText
  <1>7. ASSUME Len(t) > 4 * m + 2
        PROVE  WordAt(Numbers(t), 4 * m + 3) = c /\ c \in 0..63 /\ Len(t) # 4 * m + 1
    <2>1. 4 * m + 3 \in 1..Len(t) /\ Len(t) # 4 * m + 1
      BY <1>0, <1>7
    <2>2. t[4 * m + 3] \in 0..255 /\ WordAt(Numbers(t), 4 * m + 3) = c
      BY <2>1, NumbersOfText
    <2> QED
      BY <1>13, <2>1, <2>2, ZenonT(60)
  <1> HIDE DEF P, a, b, c, n, third
  <1>8. n \div 2^16 = a * 4 + b \div 16 /\ a * 4 + b \div 16 \in 0..255
    <2>1. BytesOf(a, b, 0, 0)
      BY <1>2, BytesOfSum
    <2> QED
      BY <1>3, <2>1, Zenon DEF BytesOf
  <1>9. ASSUME Len(t) > 4 * m + 2
        PROVE  ((n + third) \div 2^8) % 256 = (b % 16) * 16 + c \div 4
               /\ (b % 16) * 16 + c \div 4 \in 0..255
    <2>1. c \in 0..63
      BY <1>7, <1>9
    <2>2. BytesOf(a, b, c, 0)
      BY <1>2, <2>1, BytesOfSum
    <2>3. n + third = a * 2^18 + b * 2^12 + c * 2^6 + 0
      BY <1>2, <1>3, <2>1 DEF third
    <2> QED
      BY <2>2, <2>3, Zenon DEF BytesOf
  <1>10. ASSUME Len(t) # 4 * m + 1 PROVE n \div 2^16 = P(3 * m + 1)
    BY <1>4, <1>5, <1>6, <1>8, <1>10, Zenon
  <1>11. ASSUME Len(t) > 4 * m + 2
         PROVE  ((n + third) \div 2^8) % 256 = P(3 * m + 2) /\ P(3 * m + 2) \in 0..255
    BY <1>4, <1>6, <1>7, <1>9, <1>11, ZenonT(60)
  <1>12. n \div 2^16 \in 0..255
    BY <1>8
  <1> QED
    BY <1>10, <1>11, <1>12 DEF P, n, third, c

(* So it is, with the characters the padding leaves.                                  *)
LEMMA DecodePaddingKeeps ==
    ASSUME Base64Inv, DecodePadding
    PROVE  Base64Inv'
  <1> DEFINE P(k) == Piece(Numbers(text), 6, 8, k)
  <1>0. /\ b64 = "decoding" /\ position = WholeLength(text) /\ b64' = "decoded"
        /\ UNCHANGED <<data, text, limit, claimed, position>>
    BY DEF DecodePadding
  <1>1. PICK m \in Nat : DecodedGroups(m)
    BY <1>0, DecoderState
  <1>2. /\ text \in Seq(1..255) /\ data \in Seq(0..255) /\ result \in Seq(0..255)
        /\ limit \in Nat /\ failed = FALSE /\ Base64Types
    BY <1>0, DecoderState
  <1>3. /\ OutLength(text) <= limit /\ WholeLength(text) # 0
        /\ data # <<>> => text = Encoding
    BY <1>0, DecoderState
  <1>4. position = 4 * m /\ Len(result) = 3 * m
    BY <1>1 DEF DecodedGroups
  <1>5. \A k \in 1..(3 * m) : result[k] = P(k)
    BY <1>1 DEF DecodedGroups
  <1>6. /\ OutLength(text) = 3 * m + IF Padded(text) THEN 1 ELSE 0
        /\ Padded(text) => 4 * m + 1 <= Len(text) /\ Len(text) <= 4 * m + 4
        /\ ~Padded(text) => Len(text) = 4 * m
        /\ m # 0 /\ WholeLength(text) = 4 * m
    <2>1. PICK q \in Nat :
              /\ WholeLength(text) = 4 * q /\ 4 * q <= Len(text)
              /\ OutLength(text) = 3 * q + IF Padded(text) THEN 1 ELSE 0
              /\ Padded(text) => 4 * q + 1 <= Len(text) /\ Len(text) <= 4 * q + 4
              /\ ~Padded(text) => Len(text) = 4 * q
      BY <1>2, Lengths
    <2>2. q = m
      <3>1. 4 * q = 4 * m
        BY <1>0, <1>4, <2>1
      <3> QED
        BY <3>1
    <2>3. m # 0
      BY <1>3, <2>1, <2>2
    <2> QED
      BY <2>1, <2>2, <2>3
  <1>7. ASSUME data # <<>>
        PROVE  /\ Len(data) \in (3 * m)..(3 * m + 2)
               /\ Padded(text) <=> Len(data) # 3 * m
               /\ Padded(text) => (HasThird(text) <=> Len(data) = 3 * m + 2)
    <2>1. PICK q \in Nat :
               /\ WholeLength(Encoding) = 4 * q
               /\ OutLength(Encoding) = 3 * q + IF Padded(Encoding) THEN 1 ELSE 0
               /\ Len(data) \in (3 * q)..(3 * q + 2)
               /\ Padded(Encoding) <=> Len(data) # 3 * q
               /\ Padded(Encoding) => /\ Len(Encoding) = 4 * q + 4
                                      /\ HasThird(Encoding) <=> Len(data) = 3 * q + 2
      BY <1>2, <1>7, LengthsOfEncoding
    <2>2. text = Encoding /\ q = m
      BY <1>3, <1>6, <1>7, <2>1
    <2> QED
      BY <2>1, <2>2
  <1>8. PICK behind \in IF Len(text) = position + 1 THEN Character \cup {0} ELSE {0} :
            LET second == IF Len(text) = position + 1 THEN behind ELSE text[position + 2]
                n      == Joined(text[position + 1], second, 65, 65)
                third  == base64_index[text[position + 3]] * 2^6
                room   == HasRoom(text, limit)
            IN  IF ~Padded(text) THEN UNCHANGED <<result, failed, read>>
                ELSE /\ result' = result \o <<n \div 2^16>> \o
                            IF HasThird(text) /\ room
                            THEN <<((n + third) \div 2^8) % 256>> ELSE <<>>
                     /\ failed' = (HasThird(text) /\ ~room)
    BY DEF DecodePadding
  <1>9. CASE ~Padded(text)
    <2>1. result' = result /\ failed' = FALSE
      BY <1>2, <1>8, <1>9
    <2>2. Len(result) <= limit
      BY <1>2, <1>3, <1>4, <1>6, <1>9
    <2>3. \A k \in 1..Len(result') : 8 * k <= 6 * Len(text) => result'[k] = P(k)
      BY <1>4, <1>5, <2>1
    <2>4. ASSUME data # <<>>
          PROVE  /\ failed' <=> limit < Len(data) \/ Len(data) < 3
                 /\ ~failed' => Len(result') = Len(data)
      <3>1. Len(data) = 3 * m /\ 3 * m <= limit /\ ~(3 * m < 3)
        BY <1>2, <1>3, <1>6, <1>7, <1>9, <2>4
      <3> QED
        BY <1>2, <1>4, <2>1, <3>1
    <2> QED
      BY <1>0, <1>2, <2>1, <2>2, <2>3, <2>4, DecoderReturns
  <1>10. CASE Padded(text)
    <2> DEFINE second == IF Len(text) = position + 1 THEN behind ELSE text[position + 2]
               n      == Joined(text[4 * m + 1], second, 65, 65)
               third  == base64_index[text[4 * m + 3]] * 2^6
               x      == n \div 2^16
               y      == ((n + third) \div 2^8) % 256
               more   == HasThird(text) /\ HasRoom(text, limit)
    <2>1. /\ result' = result \o <<x>> \o (IF more THEN <<y>> ELSE <<>>)
          /\ failed' = (HasThird(text) /\ ~HasRoom(text, limit))
      BY <1>4, <1>8, <1>10
    <2>2. /\ Len(text) \in Nat /\ 4 * m + 1 <= Len(text) /\ Len(text) <= 4 * m + 4
          /\ OutLength(text) = 3 * m + 1 /\ 3 * m + 1 <= limit
      BY <1>2, <1>3, <1>6, <1>10
    <2>3. /\ second \in 0..255
          /\ Len(text) # 4 * m + 1 => second = text[4 * m + 2]
      <3>1. CASE Len(text) = 4 * m + 1
        <4>1. behind \in Character \cup {0} /\ second = behind
          BY <1>4, <3>1
        <4> QED
          BY <3>1, <4>1, Bytes
      <3>2. CASE Len(text) # 4 * m + 1
        <4>1. second = text[4 * m + 2] /\ 4 * m + 2 \in 1..Len(text)
          BY <1>4, <2>2, <3>2
        <4> QED
          BY <1>2, <4>1, NumbersOfText, SMTT(60)
      <3> QED
        BY <3>1, <3>2
    <2> HIDE DEF second
    <2>4. /\ x \in 0..255
          /\ Len(text) # 4 * m + 1 => x = P(3 * m + 1)
          /\ Len(text) > 4 * m + 2 => y = P(3 * m + 2) /\ P(3 * m + 2) \in 0..255
      BY <1>2, <2>2, <2>3, PaddedGroup, ZenonT(60)
    <2>5. more => Len(text) > 4 * m + 2
      BY <1>6 DEF HasThird
    <2>6. HasRoom(text, limit) <=> 3 * m + 2 <= limit
      BY <1>2, <2>2 DEF HasRoom
    <2> HIDE DEF n, third, x, y, P
    <2> DEFINE rest == IF more THEN <<y>> ELSE <<>>
    <2>7. /\ result' \in Seq(0..255) /\ Len(result') = 3 * m + (IF more THEN 2 ELSE 1)
          /\ \A k \in 1..(3 * m) : result'[k] = result[k]
          /\ result'[3 * m + 1] = x
          /\ more => result'[3 * m + 2] = y
      <3>1. /\ <<x>> \in Seq(0..255) /\ Len(<<x>>) = 1 /\ <<x>>[1] = x
            /\ more => y \in 0..255
        BY <2>4, <2>5
      <3> DEFINE s == <<x>>
                 t == result \o s
      <3>2. s \in Seq(0..255) /\ Len(s) = 1 /\ s[1] = x
        BY <3>1
      <3> HIDE DEF s
      <3>3. /\ t \in Seq(0..255) /\ Len(t) = Len(result) + Len(s)
            /\ \A k \in 1..(Len(result) + Len(s)) :
                   t[k] = IF k <= Len(result) THEN result[k] ELSE s[k - Len(result)]
        <4>1. result \in Seq(0..255) /\ s \in Seq(0..255)
          BY <1>2, <3>2
        <4> QED
          BY <4>1, ConcatProperties
      <3> HIDE DEF t
      <3>4. /\ Len(t) = 3 * m + 1 /\ t[3 * m + 1] = x
            /\ \A k \in 1..(3 * m) : t[k] = result[k]
        <4>1. /\ 3 * m + 1 \in 1..(Len(result) + Len(s)) /\ ~(3 * m + 1 <= Len(result))
              /\ 3 * m + 1 - Len(result) = 1 /\ Len(result) = 3 * m
          BY <1>4, <3>2
        <4>2. \A k \in 1..(3 * m) : k \in 1..(Len(result) + Len(s)) /\ k <= Len(result)
          BY <1>4, <3>2
        <4> QED
          BY <3>2, <3>3, <4>1, <4>2
      <3>5. result' = t \o rest
        BY <2>1 DEF t, s
      <3>6. CASE more
        <4> DEFINE e == <<y>>
        <4>1. e \in Seq(0..255) /\ Len(e) = 1 /\ e[1] = y
          BY <3>1, <3>6
        <4>2. result' = t \o e
          BY <3>5, <3>6
        <4> HIDE DEF e
        <4>3. /\ result' \in Seq(0..255) /\ Len(result') = Len(t) + Len(e)
              /\ \A k \in 1..(Len(t) + Len(e)) :
                   result'[k] = IF k <= Len(t) THEN t[k] ELSE e[k - Len(t)]
          <5>1. t \in Seq(0..255)
            BY <3>3
          <5>2. LET u == t \o e
                IN  /\ u \in Seq(0..255) /\ Len(u) = Len(t) + Len(e)
                    /\ \A k \in 1..(Len(t) + Len(e)) :
                           u[k] = IF k <= Len(t) THEN t[k] ELSE e[k - Len(t)]
            BY <4>1, <5>1, ConcatProperties, ZenonT(60)
          <5> QED
            BY <4>2, <5>2
        <4>4. Len(result') = 3 * m + 2
          BY <3>4, <4>1, <4>3
        <4>5. \A k \in 1..(3 * m + 1) : result'[k] = t[k]
          BY <3>4, <4>1, <4>3
        <4>6. result'[3 * m + 2] = y
          <5>1. /\ 3 * m + 2 \in 1..(Len(t) + Len(e)) /\ ~(3 * m + 2 <= Len(t))
                /\ 3 * m + 2 - Len(t) = 1
            BY <3>4, <4>1
          <5> QED
            BY <4>1, <4>3, <5>1
        <4>7. \A k \in 1..(3 * m) : k \in 1..(3 * m + 1)
          OBVIOUS
        <4>8. 3 * m + 1 \in 1..(3 * m + 1)
          OBVIOUS
        <4> QED
          BY <3>4, <3>6, <4>3, <4>4, <4>5, <4>6, <4>7, <4>8
      <3>7. CASE ~more
        <4>1. result' = t
          BY <3>3, <3>5, <3>7
        <4> QED
          BY <3>3, <3>4, <3>7, <4>1
      <3> QED
        BY <3>6, <3>7
    <2> HIDE DEF rest
    <2>8. Len(result') <= limit
      <3>1. CASE more
        BY <1>2, <2>6, <2>7, <3>1
      <3>2. CASE ~more
        BY <1>2, <2>2, <2>7, <3>2
      <3> QED
        BY <3>1, <3>2
    <2>9. ASSUME NEW k \in 1..Len(result'), 8 * k <= 6 * Len(text) PROVE result'[k] = P(k)
      <3>1. k \in 1..(3 * m) \/ k = 3 * m + 1 \/ (more /\ k = 3 * m + 2)
        BY <2>7
      <3>2. CASE k \in 1..(3 * m)
        BY <1>5, <2>7, <3>2 DEF P
      <3>3. CASE k = 3 * m + 1
        <4>1. Len(text) # 4 * m + 1
          BY <2>2, <2>9, <3>3
        <4> QED
          BY <2>4, <2>7, <3>3, <4>1
      <3>4. CASE more /\ k = 3 * m + 2
        BY <2>4, <2>5, <2>7, <3>4
      <3> QED
        BY <3>1, <3>2, <3>3, <3>4
    <2>10. failed' \in BOOLEAN
      BY <2>1
    <2>11. ASSUME data # <<>>
           PROVE  /\ failed' <=> limit < Len(data) \/ Len(data) < 3
                  /\ ~failed' => Len(result') = Len(data)
      <3>0. Len(data) \in (3 * m)..(3 * m + 2) /\ Len(data) # 3 * m
        BY <1>7, <1>10, <2>11
      <3>1. Len(data) = 3 * m + 1 \/ Len(data) = 3 * m + 2
        BY <3>0
      <3>5. HasThird(text) <=> Len(data) = 3 * m + 2
        BY <1>7, <1>10, <2>11
      <3>2. ~(Len(data) < 3) /\ Len(data) \in Nat
        <4>1. m \in Nat \ {0}
          BY <1>6
        <4> QED
          BY <3>1, <4>1
      <3>3. CASE Len(data) = 3 * m + 1
        <4>1. ~HasThird(text) /\ ~(limit < Len(data))
          BY <1>2, <2>2, <3>3, <3>5
        <4>2. ~more /\ ~failed'
          BY <2>1, <4>1
        <4> QED
          BY <2>7, <3>2, <3>3, <4>1, <4>2
      <3>4. CASE Len(data) = 3 * m + 2
        <4>1. HasThird(text) /\ (HasRoom(text, limit) <=> ~(limit < Len(data)))
          BY <1>2, <2>6, <3>4, <3>5
        <4>2. failed' <=> ~HasRoom(text, limit)
          BY <2>1, <4>1
        <4>3. ~failed' => more
          BY <4>1, <4>2
        <4> QED
          BY <2>7, <3>2, <3>4, <4>1, <4>2, <4>3
      <3> QED
        BY <3>1, <3>3, <3>4
    <2> QED
      BY <1>0, <2>7, <2>8, <2>9, <2>10, <2>11, DecoderReturns DEF P
  <1> QED
    BY <1>9, <1>10

(* Every step keeps the invariant,                                                    *)
LEMMA Base64InvNext == Base64Inv /\ [Base64Next]_bvars => Base64Inv'
  <1> SUFFICES ASSUME Base64Inv, [Base64Next]_bvars PROVE Base64Inv'
    OBVIOUS
  <1>1. ASSUME b64 = "ready", NEW max \in 0..MaxLimit,
               \/ \E bytes \in Strings64(DataByte, MaxData) : Encode(bytes, Len(bytes), max)
               \/ \E n \in TooLong : Encode(<<>>, n, max)
        PROVE  Base64Inv'
    BY <1>1, EncodeKeeps
  <1>2. ASSUME b64 = "ready", NEW max \in 0..MaxLimit,
               NEW t \in Strings64(Character, MaxText), DecodeForeign(t, max)
        PROVE  Base64Inv'
    BY <1>2, DecodeForeignKeeps
  <1>3. ASSUME NEW max \in 0..MaxLimit, DecodeEncoded(max) PROVE Base64Inv'
    BY <1>3, DecodeEncodedKeeps
  <1>4. CASE EncodeGroup
    BY <1>4, EncodeGroupKeeps
  <1>5. CASE EncodeRest
    BY <1>5, EncodeRestKeeps
  <1>6. CASE DecodeGroup
    BY <1>6, DecodeGroupKeeps
  <1>7. CASE DecodePadding
    BY <1>7, DecodePaddingKeeps
  <1>8. CASE ResultTaken
    <2>1. /\ b64' = "ready" /\ data' = <<>> /\ text' = <<>> /\ limit' = 0 /\ claimed' = 0
          /\ position' = 0 /\ result' = <<>> /\ failed' = FALSE
      BY <1>8 DEF ResultTaken
    <2>2. Base64Types'
      <3>1. 0 \in 0..MaxLimit /\ 0 \in 0..(SIZE - 1)
        BY Bytes
      <3>2. position' \in 0..Len(text') /\ b64' = "ready"
        BY <2>1
      <3>3. data' \in Seq(DataByte) /\ text' \in Seq(1..255) /\ result' \in Seq(0..255)
        BY <2>1
      <3> QED
        BY <2>1, <3>1, <3>2, <3>3 DEF Base64Types
    <2> QED
      BY <2>1, <2>2 DEF Base64Inv, EncodesExactly, DecodesExactly
  <1>9. CASE UNCHANGED bvars
    <2>1. UNCHANGED <<b64, data, text, limit, claimed, position, result, failed>>
      BY <1>9 DEF bvars
    <2>2. Encoding' = Encoding
      BY <2>1, SameEncoding
    <2>3. EncodedGroups(position \div 3)' = EncodedGroups(position \div 3)
      BY <2>1, <2>2 DEF EncodedGroups
    <2>4. DecodedGroups(position \div 4)' = DecodedGroups(position \div 4)
      BY <2>1 DEF DecodedGroups
    <2> QED
      BY <2>1, <2>2, <2>3, <2>4 DEF Base64Inv, Base64Types, EncodesExactly, DecodesExactly
  <1> QED
    BY <1>1, <1>2, <1>3, <1>4, <1>5, <1>6, <1>7, <1>8, <1>9 DEF Base64Next

(* and so it always holds.                                                            *)
LEMMA Base64InvHolds == Base64Spec => []Base64Inv
  <1>1. Base64Init => Base64Inv
    <2> SUFFICES ASSUME Base64Init PROVE Base64Inv
      OBVIOUS
    <2>1. /\ b64 = "ready" /\ data = <<>> /\ text = <<>> /\ limit = 0 /\ claimed = 0
          /\ position = 0 /\ result = <<>> /\ failed = FALSE
      BY DEF Base64Init
    <2>2. Base64Types
      <3>1. 0 \in 0..MaxLimit /\ 0 \in 0..(SIZE - 1)
        BY Bytes
      <3>2. position \in 0..Len(text) /\ b64 = "ready"
        BY <2>1
      <3>3. data \in Seq(DataByte) /\ text \in Seq(1..255) /\ result \in Seq(0..255)
        BY <2>1
      <3> QED
        BY <2>1, <3>1, <3>2, <3>3 DEF Base64Types
    <2> QED
      BY <2>1, <2>2 DEF Base64Inv, EncodesExactly, DecodesExactly
  <1> QED
    BY <1>1, Base64InvNext, PTL DEF Base64Spec

(* How far the calls have read: never behind the data, and behind a text only by one  *)
(* character, when the text is one character longer than whole groups.                *)
ReadInv ==
    /\ b64 = "ready" => read = 0
    /\ b64 \in {"encoding", "encoded"} => read \in 0..Len(data)
    /\ b64 = "decoding" => read \in 0..Len(text)
    /\ b64 = "decoded" => read \in 0..(Len(text) + IF Len(text) % 4 = 1 THEN 1 ELSE 0)

(* The encoder reads whole groups while there are some, and then the rest,            *)
LEMMA EncoderReads ==
    ASSUME Base64Inv, ReadInv, EncodeGroup \/ EncodeRest
    PROVE  ReadInv'
  <1>1. b64 = "encoding" /\ read \in 0..Len(data) /\ Len(data) \in Nat /\ position \in Nat
    <2>1. b64 = "encoding"
      BY DEF EncodeGroup, EncodeRest
    <2>2. Base64Types /\ data \in Seq(0..255)
      BY DataIsBytes DEF Base64Inv
    <2> QED
      BY <2>1, <2>2 DEF Base64Types, ReadInv
  <1>2. b64' \in {"encoding", "encoded"} /\ data' = data
    BY <1>1 DEF EncodeGroup, EncodeRest, EncodeReturns
  <1>3. CASE EncodeGroup
    <2>1. Len(data) - position >= 3 /\ (ReadUpTo(position + 3) \/ UNCHANGED read)
      BY <1>3 DEF EncodeGroup
    <2>2. read' \in 0..Len(data)
      BY <1>1, <2>1 DEF ReadUpTo
    <2> QED
      BY <1>2, <2>2 DEF ReadInv
  <1>4. CASE EncodeRest
    <2>1. ReadUpTo(Len(data)) \/ UNCHANGED read
      BY <1>4 DEF EncodeRest
    <2>2. read' \in 0..Len(data)
      BY <1>1, <2>1 DEF ReadUpTo
    <2> QED
      BY <1>2, <2>2 DEF ReadInv
  <1> QED
    BY <1>3, <1>4

(* the decoder at first the last character of a text of whole groups,                 *)
LEMMA StartReads ==
    ASSUME NEW t, Len(t) \in Nat, NEW max, StartDecoding(t, max)
    PROVE  ReadInv'
  <1>1. text' = t /\ read' = (IF Len(t) % 4 = 0 THEN Len(t) ELSE 0)
    BY DEF StartDecoding
  <1>2. b64' \in {"decoding", "decoded"}
    BY DEF StartDecoding
  <1>3. read' \in 0..Len(text')
    BY <1>1
  <1>4. read' \in 0..(Len(text') + IF Len(text') % 4 = 1 THEN 1 ELSE 0)
    BY <1>1
  <1> QED
    BY <1>2, <1>3, <1>4 DEF ReadInv

(* then the groups, and of the padded group one character at least.                   *)
LEMMA DecoderReads ==
    ASSUME Base64Inv, ReadInv, DecodeGroup \/ DecodePadding
    PROVE  ReadInv'
  <1>1. b64 = "decoding" /\ read \in 0..Len(text)
    <2>1. b64 = "decoding"
      BY DEF DecodeGroup, DecodePadding
    <2> QED
      BY <2>1 DEF ReadInv
  <1>2. PICK m \in Nat : DecodedGroups(m)
    BY <1>1, DecoderState
  <1>3. text \in Seq(1..255) /\ position = 4 * m /\ Len(text) \in Nat
    BY <1>1, <1>2, DecoderState DEF DecodedGroups
  <1>4. PICK q \in Nat :
            /\ WholeLength(text) = 4 * q /\ 4 * q <= Len(text)
            /\ OutLength(text) = 3 * q + IF Padded(text) THEN 1 ELSE 0
            /\ Padded(text) => 4 * q + 1 <= Len(text) /\ Len(text) <= 4 * q + 4
            /\ ~Padded(text) => Len(text) = 4 * q
    BY <1>3, Lengths
  <1>5. CASE DecodeGroup
    <2>1. /\ b64' = "decoding" /\ text' = text /\ ReadUpTo(position + 4)
          /\ position < WholeLength(text)
      BY <1>1, <1>5 DEF DecodeGroup
    <2>2. 4 * m + 4 <= Len(text)
      BY <1>3, <1>4, <2>1
    <2>3. read' \in 0..Len(text)
      BY <1>1, <1>3, <2>1, <2>2 DEF ReadUpTo
    <2> QED
      BY <2>1, <2>3 DEF ReadInv
  <1>6. CASE DecodePadding
    <2>1. b64' = "decoded" /\ text' = text /\ position = WholeLength(text)
      BY <1>6 DEF DecodePadding
    <2>2. \/ ~Padded(text) /\ read' = read
          \/ Padded(text) /\ ReadUpTo(position + IF Len(text) > position + 2 THEN 3 ELSE 2)
      BY <1>6 DEF DecodePadding
    <2>3. read' \in 0..(Len(text) + IF Len(text) % 4 = 1 THEN 1 ELSE 0)
      <3>1. CASE ~Padded(text)
        BY <1>1, <1>3, <2>2, <3>1
      <3>2. CASE Padded(text)
        <4>1. /\ 4 * q + 1 <= Len(text) /\ Len(text) <= 4 * q + 4 /\ position = 4 * q
          BY <1>4, <2>1, <3>2
        <4>2. read' = read \/ read' = position + IF Len(text) > position + 2 THEN 3 ELSE 2
          BY <2>2, <3>2 DEF ReadUpTo
        <4>3. CASE Len(text) = 4 * q + 1
          BY <1>1, <1>3, <4>1, <4>2, <4>3
        <4>4. CASE Len(text) # 4 * q + 1
          BY <1>1, <1>3, <4>1, <4>2, <4>4
        <4> QED
          BY <4>3, <4>4
      <3> QED
        BY <3>1, <3>2
    <2> QED
      BY <2>1, <2>3 DEF ReadInv
  <1> QED
    BY <1>5, <1>6

(* So every step keeps to that,                                                       *)
LEMMA ReadInvNext == Base64Inv /\ ReadInv /\ [Base64Next]_bvars => ReadInv'
  <1> SUFFICES ASSUME Base64Inv, ReadInv, [Base64Next]_bvars PROVE ReadInv'
    OBVIOUS
  <1>1. ASSUME b64 = "ready", NEW bytes, Len(bytes) \in Nat, NEW n, NEW max, Encode(bytes, n, max)
        PROVE  ReadInv'
    <2>1. read = 0 /\ read' = read /\ data' = bytes
      BY <1>1 DEF Encode, ReadInv
    <2>2. b64' \in {"encoding", "encoded"}
      BY <1>1 DEF Encode
    <2>3. read' \in 0..Len(data')
      BY <1>1, <2>1
    <2> QED
      BY <2>2, <2>3 DEF ReadInv
  <1>2. ASSUME b64 = "ready", NEW max \in 0..MaxLimit,
               NEW bytes \in Strings64(DataByte, MaxData), Encode(bytes, Len(bytes), max)
        PROVE  ReadInv'
    <2>1. Len(bytes) \in Nat
      BY <1>2, Bytes, BoundedString
    <2> QED
      BY <1>1, <1>2, <2>1
  <1>3. ASSUME b64 = "ready", NEW max \in 0..MaxLimit, NEW n \in TooLong, Encode(<<>>, n, max)
        PROVE  ReadInv'
    BY <1>1, <1>3
  <1>4. ASSUME NEW max \in 0..MaxLimit, NEW t \in Strings64(Character, MaxText),
               DecodeForeign(t, max)
        PROVE  ReadInv'
    <2>1. Len(t) \in Nat
      BY Bytes, BoundedString
    <2> QED
      BY <1>4, <2>1, StartReads DEF DecodeForeign
  <1>5. ASSUME NEW max \in 0..MaxLimit, DecodeEncoded(max) PROVE ReadInv'
    <2>1. result \in Seq(0..255)
      BY DEF Base64Inv, Base64Types
    <2>2. Len(result) - 1 \in Int /\ \A k \in 1..(Len(result) - 1) : result[k] \in 0..255
      <3>1. Len(result) \in Nat /\ \A k \in 1..Len(result) : result[k] \in 0..255
        BY <2>1, ElementType
      <3>2. Len(result) - 1 \in Int /\ \A k \in 1..(Len(result) - 1) : k \in 1..Len(result)
        BY <3>1
      <3> QED
        BY <3>1, <3>2
    <2>3. Len(SubSeq(result, 1, Len(result) - 1)) \in Nat
      <3> DEFINE end == Len(result) - 1
      <3>1. end \in Int /\ \A k \in 1..end : result[k] \in 0..255
        BY <2>2
      <3> HIDE DEF end
      <3>2. SubSeq(result, 1, end) \in Seq(0..255)
        BY <3>1, SubSeqProperties
      <3>3. Len(SubSeq(result, 1, end)) \in Nat
        BY <3>2
      <3> QED
        BY <3>3 DEF end
    <2> QED
      BY <1>5, <2>3, StartReads DEF DecodeEncoded
  <1>6. CASE EncodeGroup \/ EncodeRest
    BY <1>6, EncoderReads
  <1>7. CASE DecodeGroup \/ DecodePadding
    BY <1>7, DecoderReads
  <1>8. CASE ResultTaken
    BY <1>8 DEF ResultTaken, ReadInv
  <1>9. CASE UNCHANGED bvars
    BY <1>9 DEF bvars, ReadInv
  <1> QED
    BY <1>2, <1>3, <1>4, <1>5, <1>6, <1>7, <1>8, <1>9 DEF Base64Next

(* and so it always holds.                                                            *)
LEMMA ReadInvHolds == Base64Spec => [](Base64Inv /\ ReadInv)
  <1>1. Base64Init => ReadInv
    BY DEF Base64Init, ReadInv
  <1> QED
    BY <1>1, Base64InvHolds, ReadInvNext, PTL DEF Base64Spec

(* What has been written when the encoder returns.                                    *)
LEMMA EncoderWrote ==
    ASSUME Base64Inv, b64 = "encoded", claimed = Len(data)
    PROVE  LET fits    == IF failed THEN 4 * (limit \div 4) ELSE Len(Encoding)
               written == SubSeq(Encoding, 1, fits)
           IN  /\ failed <=> Len(Encoding) > limit
               /\ fits \in 0..limit /\ written \in Seq(0..255) /\ Len(written) = fits
               /\ result = Append(written, 0) /\ Len(result) = fits + 1
               /\ SubSeq(result, 1, fits) = written /\ result[fits + 1] = 0
  <1> DEFINE fits    == IF failed THEN 4 * (limit \div 4) ELSE Len(Encoding)
             written == SubSeq(Encoding, 1, fits)
  <1>1. Base64Types /\ EncodesExactly /\ data \in Seq(0..255) /\ limit \in Nat /\ failed \in BOOLEAN
    BY DataIsBytes, Bytes DEF Base64Inv, Base64Types
  <1>2. (failed <=> Len(Encoding) > limit) /\ result = written \o <<0>>
    BY <1>1 DEF EncodesExactly
  <1>3. Encoding \in Seq(0..255) /\ Len(Encoding) \in Nat
    <2>1. Encoding \in Seq(1..255) /\ 1..255 \subseteq 0..255
      BY <1>1, EncodingType
    <2> QED
      BY <2>1, SeqSubset
  <1>4. fits \in 0..limit /\ fits <= Len(Encoding)
    <2>1. CASE failed
      BY <1>1, <1>2, <1>3, <2>1
    <2>2. CASE ~failed
      BY <1>1, <1>2, <1>3, <2>2
    <2> QED
      BY <2>1, <2>2
  <1> HIDE DEF fits
  <1>5. written \in Seq(0..255) /\ Len(written) = fits
    <2>1. fits \in Int /\ \A k \in 1..fits : Encoding[k] \in 0..255
      <3>1. \A k \in 1..Len(Encoding) : Encoding[k] \in 0..255
        BY <1>3, ElementType
      <3>2. fits \in Int /\ \A k \in 1..fits : k \in 1..Len(Encoding)
        BY <1>1, <1>3, <1>4
      <3> QED
        BY <3>1, <3>2
    <2>2. written \in Seq(0..255) /\ Len(written) = IF 1 <= fits THEN fits - 1 + 1 ELSE 0
      BY <2>1, SubSeqProperties
    <2> QED
      BY <1>1, <1>4, <2>2
  <1> HIDE DEF written
  <1>6. result = Append(written, 0)
    BY <1>2, <1>5
  <1>7. Len(result) = fits + 1 /\ result[fits + 1] = 0 /\ \A k \in 1..fits : result[k] = written[k]
    BY <1>4, <1>5, <1>6
  <1>8. SubSeq(result, 1, fits) = written
    <2>1. result \in Seq(0..255)
      BY <1>5, <1>6
    <2>2. SubSeq(result, 1, fits) = [k \in 1..fits |-> result[k]]
      BY <1>4, <1>7, <2>1
    <2>3. written = [k \in 1..fits |-> written[k]]
      BY <1>4, <1>5
    <2> QED
      BY <1>7, <2>2, <2>3
  <1> QED
    BY <1>2, <1>4, <1>5, <1>6, <1>7, <1>8 DEF fits, written

(* What the invariants say of the types and of the results.                           *)
LEMMA Base64TypesFollow ==
    ASSUME Base64Inv, ReadInv
    PROVE  Base64TypeOK
  <1>1. Base64Types /\ limit \in Nat
    BY Bytes DEF Base64Inv, Base64Types
  <1>2. b64 \in {"ready", "encoding", "encoded", "decoding", "decoded"}
    BY <1>1 DEF Base64Types
  <1>3. LET input  == IF b64 \in {"encoding", "encoded"} THEN data ELSE text
            behind == IF b64 = "decoded" /\ Len(text) % 4 = 1 THEN 1 ELSE 0
        IN  position \in 0..Len(input) /\ read \in 0..(Len(input) + behind)
    <2>1. Len(text) \in Nat /\ Len(data) \in Nat
      BY <1>1 DEF Base64Types
    <2>2. CASE b64 = "ready"
      BY <1>1, <2>1, <2>2 DEF Base64Types, ReadInv
    <2>3. CASE b64 \in {"encoding", "encoded"}
      BY <1>1, <2>1, <2>3 DEF Base64Types, ReadInv
    <2>4. CASE b64 = "decoding"
      BY <1>1, <2>1, <2>4 DEF Base64Types, ReadInv
    <2>5. CASE b64 = "decoded"
      BY <1>1, <2>1, <2>5 DEF Base64Types, ReadInv
    <2> QED
      BY <1>2, <2>2, <2>3, <2>4, <2>5
  <1>4. /\ Len(result) <= limit + IF b64 = "encoded" THEN 1 ELSE 0
        /\ b64 = "encoded" /\ Len(result) = limit + 1 => result[limit + 1] = 0
    <2>1. CASE b64 = "ready"
      BY <1>1, <2>1 DEF Base64Inv
    <2>2. CASE b64 = "encoding"
      BY <1>1, <2>2 DEF Base64Inv, EncodedGroups
    <2>3. CASE b64 = "encoded"
      <3>1. CASE claimed # Len(data)
        BY <1>1, <2>3, <3>1 DEF Base64Inv, EncodesExactly
      <3>2. CASE claimed = Len(data)
        BY <1>1, <2>3, <3>2, EncoderWrote
      <3> QED
        BY <3>1, <3>2
    <2>4. CASE b64 \in {"decoding", "decoded"}
      <3>1. Len(result) <= limit /\ b64 # "encoded"
        BY <1>1, <2>4 DEF Base64Types
      <3>2. Len(result) \in Nat
        BY <1>1 DEF Base64Types
      <3> QED
        BY <1>1, <3>1, <3>2
    <2> QED
      BY <1>2, <2>1, <2>2, <2>3, <2>4
  <1> QED
    BY <1>1, <1>3, <1>4 DEF Base64Types, Base64TypeOK

(* The properties, which say less of the terminator and of short data, follow.        *)
LEMMA BitsFollow == Base64Inv => EncodesBits /\ DecodesBits
  <1> SUFFICES ASSUME Base64Inv PROVE EncodesBits /\ DecodesBits
    OBVIOUS
  <1>1. EncodesExactly /\ DecodesExactly /\ limit \in Nat /\ Len(data) \in Nat
    BY Bytes DEF Base64Inv, Base64Types
  <1>2. EncodesBits
    <2> SUFFICES ASSUME b64 = "encoded" PROVE EncodesBits
      BY DEF EncodesBits
    <2>1. CASE claimed # Len(data)
      BY <1>1, <2>1 DEF EncodesBits, EncodesExactly
    <2>2. CASE claimed = Len(data)
      BY <2>2, EncoderWrote DEF EncodesBits
    <2> QED
      BY <2>1, <2>2
  <1>3. DecodesBits
    <2> SUFFICES ASSUME b64 = "decoded" PROVE DecodesBits
      BY DEF DecodesBits
    <2>1. LET numbers == [k \in DOMAIN text |-> base64_index[text[k]]]
          IN  \A k \in DOMAIN result :
                  8 * k <= 6 * Len(text) => result[k] = Piece(numbers, 6, 8, k)
      BY <1>1 DEF DecodesExactly
    <2>2. data # <<>> => /\ failed <=> limit < Len(data) \/ Len(data) < 3
                         /\ ~failed => result = data
      BY <1>1 DEF DecodesExactly
    <2>3. Len(data) >= 3 => data # <<>> /\ ~(Len(data) < 3)
      BY <1>1
    <2> QED
      BY <2>1, <2>2, <2>3 DEF DecodesBits
  <1> QED
    BY <1>2, <1>3

---------------------------------------------------------------------------------------
(* Json                                                                               *)

(* The memory m holds a string of n characters; its length, and what it is.           *)
IsLength(m, n) == n \in DOMAIN m /\ m[n] = NUL /\ \A k \in 0..(n - 1) : m[k] # NUL
LengthOf(m) == CHOOSE n \in DOMAIN m : m[n] = NUL /\ \A k \in 0..(n - 1) : m[k] # NUL
TextOf(m) == [k \in 1..LengthOf(m) |-> m[k - 1]]
Visible == Char \ {NUL}

(* The length and the text of the module are those of mem.                            *)
LEMMA LengthAndText == Length = LengthOf(mem) /\ Text = TextOf(mem)
  BY DEF Length, LengthOf, Text, TextOf

(* The length is the place of the first terminator, which there is only once.         *)
LEMMA LengthUnique ==
    ASSUME NEW size \in Nat, NEW m \in [0..size -> Char], NEW n, IsLength(m, n)
    PROVE  LengthOf(m) = n
  <1> DEFINE P(l) == m[l] = NUL /\ \A k \in 0..(l - 1) : m[k] # NUL
  <1>1. n \in 0..size /\ DOMAIN m = 0..size /\ P(n)
    BY DEF IsLength
  <1>2. LengthOf(m) = CHOOSE l \in 0..size : P(l)
    BY <1>1 DEF LengthOf
  <1>3. \A l \in 0..size : P(l) => l = n
    <2>1. SUFFICES ASSUME NEW l \in 0..size, P(l) PROVE l = n
      OBVIOUS
    <2>2. CASE l < n
      <3>1. l \in 0..(n - 1)
        BY <1>1, <2>2
      <3> QED
        BY <1>1, <2>1, <3>1
    <2>3. CASE n < l
      <3>1. n \in 0..(l - 1)
        BY <1>1, <2>3
      <3> QED
        BY <1>1, <2>1, <3>1
    <2> QED
      BY <1>1, <2>2, <2>3
  <1> HIDE DEF P
  <1> QED
    BY <1>1, <1>2, <1>3

(* If there is a terminator, there is a first one.                                    *)
LEMMA LengthExists ==
    ASSUME NEW size \in Nat, NEW m \in [0..size -> Char], \E n \in 0..size : m[n] = NUL
    PROVE  IsLength(m, LengthOf(m)) /\ LengthOf(m) \in 0..size
  <1> DEFINE T == {n \in 0..size : m[n] = NUL}
  <1>1. T \subseteq Nat /\ T # {}
    OBVIOUS
  <1>2. PICK n \in T : \A l \in T : ~(l < n)
    <2> HIDE DEF T
    <2> QED
      BY <1>1, LeastNatural
  <1>3. n \in 0..size /\ m[n] = NUL /\ DOMAIN m = 0..size
    OBVIOUS
  <1>4. ASSUME NEW k \in 0..(n - 1) PROVE m[k] # NUL
    <2>1. k \in 0..size /\ k < n
      BY <1>3
    <2> QED
      BY <1>2, <2>1
  <1>5. IsLength(m, n)
    BY <1>3, <1>4 DEF IsLength
  <1> HIDE DEF T
  <1> QED
    BY <1>3, <1>5, LengthUnique

(* The text has no terminator in it.                                                  *)
LEMMA TextOfType ==
    ASSUME NEW size \in Nat, NEW m \in [0..size -> Char], NEW n, IsLength(m, n)
    PROVE  /\ LengthOf(m) = n /\ n \in 0..size
           /\ TextOf(m) \in Seq(Visible) /\ Len(TextOf(m)) = n
           /\ \A k \in 1..n : TextOf(m)[k] = m[k - 1]
  <1>1. LengthOf(m) = n /\ n \in 0..size
    BY LengthUnique DEF IsLength
  <1>2. ASSUME NEW k \in 1..n PROVE m[k - 1] \in Visible
    <2>1. k - 1 \in 0..(n - 1) /\ k - 1 \in 0..size
      BY <1>1
    <2> QED
      BY <2>1 DEF IsLength, Visible
  <1>3. TextOf(m) = [k \in 1..n |-> m[k - 1]]
    BY <1>1 DEF TextOf
  <1>4. TextOf(m) \in [1..n -> Visible]
    BY <1>2, <1>3
  <1> QED
    BY <1>1, <1>3, <1>4

(* What strcpy leaves in the memory.                                                  *)
LEMMA CopiedType ==
    ASSUME NEW size \in Nat, NEW m \in [0..size -> Char],
           NEW at \in Nat, NEW s \in Seq(Visible)
    PROVE  /\ Copied(m, at, s) \in [0..size -> Char]
           /\ \A k \in 0..size : k < at => Copied(m, at, s)[k] = m[k]
           /\ \A k \in 0..size : k \in at..(at + Len(s) - 1) => Copied(m, at, s)[k] = s[k - at + 1]
           /\ at + Len(s) \in 0..size => Copied(m, at, s)[at + Len(s)] = NUL
  <1> DEFINE c(k) == CASE k \in at..(at + Len(s) - 1) -> s[k - at + 1]
                       [] k = at + Len(s) -> NUL
                       [] OTHER -> m[k]
  <1>1. Len(s) \in Nat
    OBVIOUS
  <1>2. Copied(m, at, s) = [k \in 0..size |-> c(k)]
    BY DEF Copied
  <1>3. ASSUME NEW k \in 0..size, k \in at..(at + Len(s) - 1)
        PROVE  c(k) = s[k - at + 1] /\ c(k) \in Char
    <2>1. k # at + Len(s) /\ k - at + 1 \in 1..Len(s)
      BY <1>1, <1>3
    <2>2. s[k - at + 1] \in Visible
      BY <2>1
    <2>3. c(k) = s[k - at + 1]
      BY <1>3, <2>1
    <2> QED
      BY <2>2, <2>3 DEF Visible
  <1>4. ASSUME NEW k \in 0..size, k = at + Len(s) PROVE c(k) = NUL /\ c(k) \in Char
    <2>1. k \notin at..(at + Len(s) - 1)
      BY <1>1, <1>4
    <2> QED
      BY <1>4, <2>1 DEF Char
  <1>5. ASSUME NEW k \in 0..size, k \notin at..(at + Len(s) - 1), k # at + Len(s)
        PROVE  c(k) = m[k] /\ c(k) \in Char
    BY <1>5
  <1>6. \A k \in 0..size : c(k) \in Char
    BY <1>3, <1>4, <1>5
  <1>7. \A k \in 0..size : k < at => c(k) = m[k]
    BY <1>1, <1>5
  <1> HIDE DEF c
  <1> QED
    BY <1>2, <1>3, <1>4, <1>6, <1>7

(* A string copied over the end of a text, or behind it, ends the text anew.          *)
LEMMA CopiedText ==
    ASSUME NEW size \in Nat, NEW m \in [0..size -> Char], NEW l, IsLength(m, l),
           NEW at \in 0..l, NEW s \in Seq(Visible), at + Len(s) <= size
    PROVE  /\ IsLength(Copied(m, at, s), at + Len(s))
           /\ LengthOf(Copied(m, at, s)) = at + Len(s)
           /\ TextOf(Copied(m, at, s)) \in Seq(Visible)
           /\ at = 0 => TextOf(Copied(m, at, s)) = s
           /\ at = l => TextOf(Copied(m, at, s)) = TextOf(m) \o s
  <1> DEFINE d == Copied(m, at, s)
             n == Len(s)
  <1>1. n \in Nat /\ l \in 0..size /\ at \in Nat /\ at + n \in 0..size
    BY DEF IsLength
  <1>2. /\ d \in [0..size -> Char]
        /\ \A k \in 0..size : k < at => d[k] = m[k]
        /\ \A k \in 0..size : k \in at..(at + n - 1) => d[k] = s[k - at + 1]
        /\ d[at + n] = NUL
    BY <1>1, CopiedType
  <1>3. \A j \in 1..n : s[j] \in Visible
    OBVIOUS
  <1>4. \A k \in 0..(l - 1) : m[k] # NUL
    BY DEF IsLength
  <1>10. TextOf(m) \in Seq(Visible) /\ Len(TextOf(m)) = l /\ \A k \in 1..l : TextOf(m)[k] = m[k - 1]
    BY TextOfType
  <1>20. \A k \in 1..(l + n) : at = l => (TextOf(m) \o s)[k] = IF k <= l THEN m[k - 1] ELSE s[k - l]
    <2> DEFINE t == TextOf(m)
    <2>1. t \in Seq(Visible) /\ Len(t) = l /\ \A k \in 1..l : t[k] = m[k - 1]
      BY <1>10
    <2> HIDE DEF t
    <2>2. \A k \in 1..(l + n) : (t \o s)[k] = IF k <= l THEN t[k] ELSE s[k - l]
      BY <2>1, ConcatProperties
    <2>3. \A k \in 1..(l + n) : k <= l => k \in 1..l
      BY <1>1
    <2>4. \A k \in 1..(l + n) : (t \o s)[k] = IF k <= l THEN m[k - 1] ELSE s[k - l]
      BY <2>1, <2>2, <2>3
    <2> QED
      BY <2>4 DEF t
  <1>21. TextOf(m) \o s \in Seq(Visible) /\ Len(TextOf(m) \o s) = l + n
    BY <1>10, ConcatProperties
  <1> HIDE DEF d
  <1>5. ASSUME NEW k \in 0..(at + n - 1) PROVE d[k] # NUL
    <2>1. CASE k < at
      <3>1. k \in 0..size /\ k \in 0..(l - 1)
        BY <1>1, <2>1
      <3> QED
        BY <1>2, <1>4, <2>1, <3>1
    <2>2. CASE ~(k < at)
      <3>1. k \in 0..size /\ k \in at..(at + n - 1) /\ k - at + 1 \in 1..n
        BY <1>1, <2>2
      <3> QED
        BY <1>2, <1>3, <3>1 DEF Visible
    <2> QED
      BY <2>1, <2>2
  <1>6. IsLength(d, at + n)
    BY <1>1, <1>2, <1>5 DEF IsLength
  <1>7. /\ LengthOf(d) = at + n /\ TextOf(d) \in Seq(Visible)
        /\ Len(TextOf(d)) = at + n /\ \A k \in 1..(at + n) : TextOf(d)[k] = d[k - 1]
    BY <1>2, <1>6, TextOfType
  <1>8. ASSUME at = 0 PROVE TextOf(d) = s
    <2>1. ASSUME NEW k \in 1..n PROVE TextOf(d)[k] = s[k]
      <3>1. k \in 1..(at + n) /\ k - 1 \in 0..size /\ k - 1 \in at..(at + n - 1) /\ (k - 1) - at + 1 = k
        BY <1>1, <1>8
      <3> QED
        BY <1>2, <1>7, <3>1
    <2>2. Len(TextOf(d)) = n
      BY <1>1, <1>7, <1>8
    <2> HIDE DEF n
    <2> QED
      BY <1>7, <2>1, <2>2 DEF n
  <1>9. ASSUME at = l PROVE TextOf(d) = TextOf(m) \o s
    <2>1. ASSUME NEW k \in 1..(l + n) PROVE TextOf(d)[k] = (TextOf(m) \o s)[k]
      <3>1. CASE k <= l
        <4>1. k \in 1..(at + n) /\ k - 1 \in 0..size /\ k - 1 < at
          BY <1>1, <1>9, <3>1
        <4> QED
          BY <1>2, <1>7, <1>9, <1>20, <3>1, <4>1
      <3>2. CASE ~(k <= l)
        <4>1. k \in 1..(at + n) /\ k - 1 \in 0..size /\ k - 1 \in at..(at + n - 1) /\ (k - 1) - at + 1 = k - l
          BY <1>1, <1>9, <3>2
        <4> QED
          BY <1>2, <1>7, <1>9, <1>20, <3>2, <4>1
      <3> QED
        BY <3>1, <3>2
    <2> QED
      BY <1>7, <1>9, <1>21, <2>1
  <1> QED
    BY <1>6, <1>7, <1>8, <1>9 DEF d, n

(* The pieces of s, put together one by one.                                          *)
PutTogether(S, s, f) ==
    /\ f \in [0..Len(s) -> Seq(S)] /\ f[0] = <<>>
    /\ \A k \in 1..Len(s) : f[k] = f[k - 1] \o s[k]

(* Pieces can be put together.                                                        *)
LEMMA PutTogetherExists ==
    ASSUME NEW S, NEW s \in Seq(Seq(S))
    PROVE  \E f : PutTogether(S, s, f)
  <1> DEFINE N == Len(s)
             step == [k \in 1..N |-> [t \in Seq(S) |-> t \o s[k]]]
  <1>1. N \in Nat /\ \A k \in 1..N : s[k] \in Seq(S)
    OBVIOUS
  <1>2. \A k \in 1..N, t \in Seq(S) : t \o s[k] \in Seq(S)
    BY <1>1, ConcatProperties
  <1>3. step \in [1..N -> [Seq(S) -> Seq(S)]] /\ \A k \in 1..N, t \in Seq(S) : step[k][t] = t \o s[k]
    BY <1>2
  <1>4. <<>> \in Seq(S)
    OBVIOUS
  <1> HIDE DEF step
  <1>5. PICK f : Steps(N, Seq(S), <<>>, step, f)
    <2> HIDE DEF N
    <2> QED
      BY <1>1, <1>3, <1>4, RecursionExists
  <1>6. f \in [0..N -> Seq(S)] /\ f[0] = <<>> /\ \A k \in 1..N : f[k] = step[k][f[k - 1]]
    BY <1>5 DEF Steps
  <1>7. ASSUME NEW k \in 1..N PROVE f[k] = f[k - 1] \o s[k]
    <2>1. k - 1 \in 0..N
      BY <1>1
    <2>2. f[k - 1] \in Seq(S)
      BY <1>6, <2>1
    <2> QED
      BY <1>3, <1>6, <2>2
  <1> QED
    BY <1>6, <1>7 DEF PutTogether

(* That is what FlattenSeq gives.                                                     *)
LEMMA FlattenPutsTogether ==
    ASSUME NEW S, NEW s \in Seq(Seq(S)), NEW f, PutTogether(S, s, f)
    PROVE  FlattenSeq(s) = f[Len(s)]
  <1> DEFINE N == Len(s)
             Equation(g) == g = [i_1 \in 1..N |-> IF i_1 = 1 THEN s[i_1] ELSE g[i_1 - 1] \o s[i_1]]
             flat == CHOOSE g : Equation(g)
  <1>1. N \in Nat /\ \A k \in 1..N : s[k] \in Seq(S)
    OBVIOUS
  <1>2. f[0] = <<>> /\ \A k \in 1..N : f[k] = f[k - 1] \o s[k]
    BY DEF PutTogether
  <1>3. CASE N = 0
    <2>1. s = <<>>
      BY <1>3
    <2> QED
      BY <1>2, <1>3, <2>1 DEF FlattenSeq
  <1>4. CASE N # 0
    <2>1. FlattenSeq(s) = flat[N]
      BY <1>4 DEF FlattenSeq
    <2>2. Equation([k \in 1..N |-> f[k]])
      <3> DEFINE h == [k \in 1..N |-> f[k]]
      <3>1. ASSUME NEW k \in 1..N PROVE h[k] = IF k = 1 THEN s[k] ELSE h[k - 1] \o s[k]
        <4>1. CASE k = 1
          <5>1. <<>> \o s[1] = s[1]
            BY <1>1, <1>4, ConcatEmptySeq
          <5>2. 1 \in 1..N /\ 1 - 1 = 0
            BY <1>1, <1>4
          <5>3. f[1] = f[0] \o s[1]
            BY <1>2, <5>2
          <5>4. h[1] = s[1]
            BY <1>2, <5>1, <5>2, <5>3
          <5> QED
            BY <4>1, <5>4
        <4>2. CASE k # 1
          <5>1. k - 1 \in 1..N
            BY <1>1, <4>2
          <5> QED
            BY <1>2, <4>2, <5>1
        <4> QED
          BY <4>1, <4>2
      <3> QED
        BY <3>1
    <2>3. Equation(flat)
      <3> HIDE DEF Equation
      <3> QED
        BY <2>2
    <2>4. /\ flat[1] = s[1]
          /\ \A k \in 1..N : k # 1 => flat[k] = flat[k - 1] \o s[k]
      <3> HIDE DEF flat
      <3> DEFINE body == [i_1 \in 1..N |-> IF i_1 = 1 THEN s[i_1] ELSE flat[i_1 - 1] \o s[i_1]]
      <3>1. flat = body
        BY <2>3
      <3>2. 1 \in 1..N
        BY <1>1, <1>4
      <3>3. body[1] = s[1] /\ \A k \in 1..N : k # 1 => body[k] = flat[k - 1] \o s[k]
        BY <3>2
      <3> HIDE DEF body
      <3> QED
        BY <3>1, <3>3
    <2> HIDE DEF flat, Equation
    <2> DEFINE T == {k \in 0..N : k = 0 \/ flat[k] = f[k]}
    <2>5. 0 \in T
      BY <1>1
    <2>6. ASSUME NEW k \in 0..(N - 1), k \in T PROVE k + 1 \in T
      <3>1. k + 1 \in 1..N /\ k + 1 \in 0..N /\ (k + 1) - 1 = k /\ (k # 0 => k + 1 # 1)
        BY <1>1
      <3>2. f[k + 1] = f[k] \o s[k + 1]
        BY <1>2, <3>1
      <3>3. CASE k = 0
        <4>1. <<>> \o s[1] = s[1]
          BY <1>1, <1>4, ConcatEmptySeq
        <4>2. k + 1 = 1 /\ 1 \in 0..N
          BY <3>1, <3>3
        <4>3. f[1] = f[0] \o s[1]
          BY <3>2, <3>3, <4>2
        <4>4. flat[1] = f[1]
          BY <1>2, <2>4, <4>1, <4>3
        <4> QED
          BY <4>2, <4>4
      <3>4. CASE k # 0
        BY <2>4, <2>6, <3>1, <3>2, <3>4
      <3> QED
        BY <3>3, <3>4
    <2>7. \A k \in 0..N : k \in T
      <3> HIDE DEF T, N
      <3> QED
        BY <1>1, <2>5, <2>6, InductionUpTo
    <2>8. N \in 0..N
      BY <1>1
    <2> QED
      BY <1>4, <2>1, <2>7, <2>8
  <1> QED
    BY <1>3, <1>4

(* No pieces make nothing,                                                            *)
LEMMA FlattenEmpty == FlattenSeq(<<>>) = <<>>
  BY DEF FlattenSeq

(* and one more piece comes behind the others.                                        *)
LEMMA FlattenAppend ==
    ASSUME NEW S, NEW s \in Seq(Seq(S)), NEW x \in Seq(S)
    PROVE  /\ FlattenSeq(s) \in Seq(S)
           /\ FlattenSeq(Append(s, x)) = FlattenSeq(s) \o x
           /\ FlattenSeq(Append(s, x)) \in Seq(S)
  <1> DEFINE N == Len(s)
  <1>1. PICK f : PutTogether(S, s, f)
    BY PutTogetherExists
  <1>2. f \in [0..N -> Seq(S)] /\ f[0] = <<>> /\ \A k \in 1..N : f[k] = f[k - 1] \o s[k]
    BY <1>1, Zenon DEF PutTogether
  <1>10. N \in Nat /\ N \in 0..N
    OBVIOUS
  <1>3. FlattenSeq(s) = f[N] /\ f[N] \in Seq(S)
    BY <1>1, <1>2, <1>10, FlattenPutsTogether
  <1>4. f[N] \o x \in Seq(S)
    BY <1>3, ConcatProperties
  <1> DEFINE a == Append(s, x)
             g == [k \in 0..(N + 1) |-> IF k = N + 1 THEN f[N] \o x ELSE f[k]]
  <1>5. /\ a \in Seq(Seq(S)) /\ Len(a) = N + 1 /\ a[N + 1] = x
        /\ \A k \in 1..N : a[k] = s[k]
    BY AppendProperties
  <1>6. g \in [0..(N + 1) -> Seq(S)] /\ g[0] = <<>> /\ g[N + 1] = f[N] \o x /\ \A k \in 0..N : g[k] = f[k]
    <2> HIDE DEF N
    <2> QED
      BY <1>2, <1>4, <1>10
  <1> HIDE DEF a, g
  <1>7. ASSUME NEW k \in 1..(N + 1) PROVE g[k] = g[k - 1] \o a[k]
    <2>1. CASE k = N + 1
      <3>1. k - 1 = N /\ N \in 0..N
        BY <1>2, <1>10, <2>1
      <3> QED
        BY <1>5, <1>6, <2>1, <3>1
    <2>2. CASE k # N + 1
      <3>1. k \in 1..N /\ k \in 0..N /\ k - 1 \in 0..N
        BY <1>2, <1>10, <2>2
      <3> QED
        BY <1>2, <1>5, <1>6, <3>1
    <2> QED
      BY <2>1, <2>2
  <1>8. PutTogether(S, a, g)
    BY <1>5, <1>6, <1>7 DEF PutTogether
  <1>9. FlattenSeq(a) = g[N + 1]
    BY <1>5, <1>8, FlattenPutsTogether
  <1> QED
    BY <1>3, <1>4, <1>6, <1>9 DEF a

(* What a call adds to the text, if no pair is asked for behind it.                   *)
Alone(x) ==
    CASE x.kind = "open" -> <<"{">>
      [] x.kind = "close" -> <<"}">>
      [] x.kind = "stray" -> <<",">>
      [] x.kind = "refused" -> <<>>
      [] x.kind = "pair" -> Pair(x.key, x.value)

(* Contribution, with the comma that stands in the text for a stray one, and what is   *)
(* in the text after any calls.                                                        *)
ContributionIn(c, n) ==
    CASE c[n].kind = "open" -> <<"{">>
      [] c[n].kind = "close" -> <<"}">>
      [] c[n].kind = "stray" -> <<",">>
      [] c[n].kind = "refused" -> <<>>
      [] c[n].kind = "pair" ->
            Pair(c[n].key, c[n].value)
            \o IF n < Len(c) /\ c[n + 1].kind \in {"pair", "refused"} THEN <<",">> ELSE <<>>
Said(c) == FlattenSeq([n \in DOMAIN c |-> ContributionIn(c, n)])

(* What a pair looks like.                                                            *)
LEMMA PairType ==
    ASSUME NEW key \in Key, NEW val \in Value
    PROVE  /\ Pair(key, val) \in Seq(Visible)
           /\ Len(Pair(key, val)) = 5 + Len(key) + Len(val)
           /\ Pair(key, val)[Len(Pair(key, val))] = QUOTE
           /\ Len(key) \in Nat \ {0} /\ Len(val) \in Nat
  <1>1. Letter \subseteq Visible /\ {QUOTE, ":"} \subseteq Visible
    BY JsonAssumption DEF Visible, Char, QUOTE, NUL, FOREIGN
  <1> DEFINE q == <<QUOTE>>
             m == <<QUOTE, ":", QUOTE>>
             a == q \o key
             b == a \o m
             c == b \o val
  <1>2. key \in Seq(Visible) /\ val \in Seq(Visible) /\ Len(key) \in Nat \ {0} /\ Len(val) \in Nat
    <2>1. key \in Seq(Letter) /\ val \in Seq(Letter) /\ key # <<>>
      BY JsonAssumption
    <2>2. Len(key) \in Nat \ {0} /\ Len(val) \in Nat
      BY <2>1, EmptySeq
    <2> QED
      BY <1>1, <2>1, <2>2
  <1>3. q \in Seq(Visible) /\ Len(q) = 1 /\ m \in Seq(Visible) /\ Len(m) = 3
    BY <1>1
  <1>4. a \in Seq(Visible) /\ Len(a) = 1 + Len(key)
    BY <1>2, <1>3, ConcatProperties
  <1>5. b \in Seq(Visible) /\ Len(b) = Len(a) + 3
    <2>1. a \in Seq(Visible) /\ m \in Seq(Visible) /\ Len(m) = 3
      BY <1>3, <1>4
    <2>2. a \o m \in Seq(Visible) /\ Len(a \o m) = Len(a) + Len(m)
      <3> HIDE DEF a, m
      <3> QED
        BY <2>1, ConcatProperties
    <2> HIDE DEF a, m
    <2> QED
      BY <2>1, <2>2
  <1>6. c \in Seq(Visible) /\ Len(c) = Len(b) + Len(val)
    <2> HIDE DEF b
    <2> QED
      BY <1>2, <1>5, ConcatProperties
  <1>7. Pair(key, val) = Append(c, QUOTE)
    <2>1. Pair(key, val) = c \o q
      BY DEF Pair
    <2>2. Append(c, QUOTE) = c \o q
      <3> HIDE DEF c
      <3> QED
        BY <1>1, <1>6, AppendIsConcat
    <2> QED
      BY <2>1, <2>2
  <1>8. /\ Append(c, QUOTE) \in Seq(Visible) /\ Len(Append(c, QUOTE)) = Len(c) + 1
        /\ Append(c, QUOTE)[Len(c) + 1] = QUOTE
    <2> HIDE DEF c
    <2> QED
      BY <1>1, <1>6, AppendProperties
  <1>9. Len(c) + 1 = 5 + Len(key) + Len(val)
    <2> HIDE DEF a, b, c
    <2> QED
      BY <1>2, <1>4, <1>5, <1>6
  <1> HIDE DEF c
  <1> QED
    BY <1>2, <1>7, <1>8, <1>9

(* What single calls add.                                                             *)
LEMMA AloneType ==
    ASSUME NEW x \in Call
    PROVE  /\ Alone(x) \in Seq(Visible)
           /\ x.kind \in {"open", "close", "refused", "stray", "pair"}
           /\ x.kind = "pair" => x.key \in Key /\ x.value \in Value /\ Alone(x) = Pair(x.key, x.value)
           /\ x.kind = "refused" => Alone(x) = <<>>
           /\ x.kind = "stray" => Alone(x) = <<",">>
           /\ x.kind = "open" => Alone(x) = <<"{">>
           /\ x.kind = "close" => Alone(x) = <<"}">>
  <1>1. {"{", "}", ","} \subseteq Visible
    BY DEF Visible, Char, NUL
  <1>2. CASE x \in [kind : {"pair"}, key : Key, value : Value]
    <2>1. x.kind = "pair" /\ x.key \in Key /\ x.value \in Value
      BY <1>2
    <2>2. Alone(x) = Pair(x.key, x.value)
      BY <2>1 DEF Alone
    <2> QED
      BY <2>1, <2>2, PairType
  <1>3. CASE x \in [kind : {"open", "close", "refused", "stray"}]
    <2>1. x.kind \in {"open", "close", "refused", "stray"}
      BY <1>3
    <2>7. \A v \in Visible : <<v>> \in Seq(Visible)
      OBVIOUS
    <2>8. "{" \in Visible /\ "}" \in Visible /\ "," \in Visible
      BY <1>1
    <2>2. <<"{">> \in Seq(Visible) /\ <<"}">> \in Seq(Visible) /\ <<",">> \in Seq(Visible) /\ <<>> \in Seq(Visible)
      BY <2>7, <2>8, EmptySeq
    <2>3. CASE x.kind = "open"
      <3>1. Alone(x) = <<"{">>
        BY <2>3 DEF Alone
      <3> QED
        BY <2>2, <2>3, <3>1
    <2>4. CASE x.kind = "close"
      <3>1. Alone(x) = <<"}">>
        BY <2>4 DEF Alone
      <3> QED
        BY <2>2, <2>4, <3>1
    <2>5. CASE x.kind = "stray"
      <3>1. Alone(x) = <<",">>
        BY <2>5 DEF Alone
      <3> QED
        BY <2>2, <2>5, <3>1
    <2>6. CASE x.kind = "refused"
      <3>1. Alone(x) = <<>>
        BY <2>6 DEF Alone
      <3> QED
        BY <2>2, <2>6, <3>1
    <2> QED
      BY <2>1, <2>3, <2>4, <2>5, <2>6
  <1> QED
    BY <1>2, <1>3 DEF Call

(* A contribution is what the call adds alone, with a comma if one is due.            *)
LEMMA ContributionIs ==
    ASSUME NEW c \in Seq(Call), NEW n \in 1..Len(c)
    PROVE  /\ ContributionIn(c, n) \in Seq(Visible)
           /\ c[n].kind = "pair" /\ n < Len(c) /\ c[n + 1].kind \in {"pair", "refused"}
              => ContributionIn(c, n) = Alone(c[n]) \o <<",">>
           /\ ~(c[n].kind = "pair" /\ n < Len(c) /\ c[n + 1].kind \in {"pair", "refused"})
              => ContributionIn(c, n) = Alone(c[n])
  <1>1. c[n] \in Call
    OBVIOUS
  <1>2. Alone(c[n]) \in Seq(Visible)
    BY <1>1, AloneType
  <1>3. "," \in Visible /\ <<",">> \in Seq(Visible)
    BY DEF Visible, Char, NUL
  <1>4. Alone(c[n]) \o <<",">> \in Seq(Visible) /\ Alone(c[n]) \o <<>> = Alone(c[n])
    BY <1>2, <1>3, ConcatProperties, ConcatEmptySeq
  <1>5. CASE c[n].kind = "pair"
    <2>1. Alone(c[n]) = Pair(c[n].key, c[n].value)
      BY <1>1, <1>5, AloneType
    <2>2. ContributionIn(c, n) = Alone(c[n])
              \o IF n < Len(c) /\ c[n + 1].kind \in {"pair", "refused"} THEN <<",">> ELSE <<>>
      BY <1>5, <2>1 DEF ContributionIn
    <2> QED
      BY <1>2, <1>4, <1>5, <2>2
  <1>6. CASE c[n].kind # "pair"
    <2>1. c[n].kind \in {"open", "close", "refused", "stray"}
      BY <1>1, <1>6, AloneType
    <2>2. ContributionIn(c, n) = Alone(c[n])
      BY <1>6, <2>1 DEF ContributionIn, Alone
    <2> QED
      BY <1>2, <1>6, <2>2
  <1> QED
    BY <1>5, <1>6

(* Only a pair that is asked for puts a comma behind the pair before it.              *)
AsksForPair(x) == x.kind \in {"pair", "refused"}
EndsInPair(c) == c # <<>> /\ c[Len(c)].kind = "pair"
Contributions(c) == [n \in 1..Len(c) |-> ContributionIn(c, n)]

(* What is said is put together from the contributions.                               *)
LEMMA SaidContributions ==
    ASSUME NEW c \in Seq(Call)
    PROVE  /\ Said(c) = FlattenSeq(Contributions(c))
           /\ Contributions(c) \in Seq(Seq(Visible)) /\ Len(Contributions(c)) = Len(c)
           /\ \A n \in 1..Len(c) : Contributions(c)[n] = ContributionIn(c, n)
  <1>1. Said(c) = FlattenSeq(Contributions(c))
    <2>1. DOMAIN c = 1..Len(c)
      OBVIOUS
    <2> QED
      BY <2>1 DEF Said, Contributions
  <1>2. \A n \in 1..Len(c) : ContributionIn(c, n) \in Seq(Visible)
    BY ContributionIs
  <1> DEFINE N == Len(c)
             d == [n \in 1..N |-> ContributionIn(c, n)]
  <1>3. N \in Nat /\ d \in [1..N -> Seq(Visible)]
    BY <1>2
  <1>4. d \in Seq(Seq(Visible)) /\ Len(d) = N
    <2> HIDE DEF N, d
    <2> QED
      BY <1>3
  <1> QED
    BY <1>1, <1>4 DEF Contributions

(* A call that changes nothing in what the calls before it have contributed.          *)
LEMMA SaidAppend ==
    ASSUME NEW c \in Seq(Call), NEW x \in Call, ~(EndsInPair(c) /\ AsksForPair(x))
    PROVE  Said(c) \in Seq(Visible) /\ Said(Append(c, x)) = Said(c) \o Alone(x)
  <1> DEFINE a == Append(c, x)
             N == Len(c)
  <1>1. N \in Nat /\ a \in Seq(Call) /\ Len(a) = N + 1 /\ a[N + 1] = x /\ \A n \in 1..N : a[n] = c[n]
    BY AppendProperties
  <1>2. ASSUME NEW n \in 1..N PROVE ContributionIn(a, n) = ContributionIn(c, n)
    <2>1. n \in 1..Len(a) /\ n + 1 \in 1..(N + 1) /\ n < Len(a)
      BY <1>1
    <2>2. a[n] = c[n]
      BY <1>1
    <2>3. CASE n < N
      <3>1. n + 1 \in 1..N
        BY <1>1, <2>3
      <3>2. a[n + 1] = c[n + 1]
        BY <1>1, <3>1
      <3> QED
        BY <1>1, <2>1, <2>2, <2>3, <3>2 DEF ContributionIn
    <2>4. CASE n = N
      <3>1. n + 1 = N + 1 /\ N # 0
        BY <1>1, <2>4
      <3>2. c # <<>>
        BY <1>1, <3>1
      <3>3. ~(c[n].kind = "pair" /\ x.kind \in {"pair", "refused"})
        BY <2>4, <3>2 DEF EndsInPair, AsksForPair
      <3>4. a[n + 1] = x /\ ~(n < N)
        BY <1>1, <2>4, <3>1
      <3>5. ContributionIn(a, n) = Alone(a[n])
        <4> HIDE DEF a
        <4> QED
          BY <1>1, <2>1, <2>2, <3>3, <3>4, ContributionIs
      <3>6. ContributionIn(c, n) = Alone(c[n])
        BY <3>4, ContributionIs
      <3> QED
        BY <2>2, <3>5, <3>6
    <2> QED
      BY <1>1, <2>3, <2>4
  <1>3. ContributionIn(a, N + 1) = Alone(x)
    <2>1. N + 1 \in 1..Len(a) /\ ~(N + 1 < Len(a)) /\ a[N + 1] = x
      BY <1>1
    <2> HIDE DEF a, N
    <2> QED
      BY <1>1, <2>1, ContributionIs
  <1>4. Alone(x) \in Seq(Visible)
    BY AloneType
  <1>5. /\ Contributions(c) \in Seq(Seq(Visible)) /\ Len(Contributions(c)) = N
        /\ \A n \in 1..N : Contributions(c)[n] = ContributionIn(c, n)
        /\ Said(c) = FlattenSeq(Contributions(c))
    BY SaidContributions
  <1>6. /\ Contributions(a) \in Seq(Seq(Visible)) /\ Len(Contributions(a)) = N + 1
        /\ \A n \in 1..(N + 1) : Contributions(a)[n] = ContributionIn(a, n)
        /\ Said(a) = FlattenSeq(Contributions(a))
    <2> HIDE DEF a
    <2> QED
      BY <1>1, SaidContributions
  <1> HIDE DEF N
  <1>7. Contributions(a) = Append(Contributions(c), Alone(x))
    <2> DEFINE u == Contributions(a)
               v == Contributions(c)
               w == Append(v, Alone(x))
    <2>1. w \in Seq(Seq(Visible)) /\ Len(w) = N + 1 /\ w[N + 1] = Alone(x) /\ \A n \in 1..N : w[n] = v[n]
      <3> HIDE DEF v
      <3> QED
        BY <1>4, <1>5, AppendProperties DEF v
    <2>2. ASSUME NEW n \in 1..(N + 1) PROVE u[n] = w[n]
      <3>1. CASE n = N + 1
        BY <1>3, <1>6, <2>1, <3>1
      <3>2. CASE n # N + 1
        <4>1. n \in 1..N
          BY <1>1, <3>2
        <4>2. u[n] = ContributionIn(a, n)
          BY <1>6
        <4>3. v[n] = ContributionIn(c, n)
          BY <1>5, <4>1
        <4>4. ContributionIn(a, n) = ContributionIn(c, n)
          BY <1>2, <4>1
        <4>5. w[n] = v[n]
          BY <2>1, <4>1
        <4> QED
          BY <4>2, <4>3, <4>4, <4>5
      <3> QED
        BY <3>1, <3>2
    <2>3. u \in Seq(Seq(Visible)) /\ Len(u) = N + 1
      BY <1>6
    <2> HIDE DEF u, w
    <2>4. u = w
      BY <2>1, <2>2, <2>3, SeqEqual
    <2> QED
      BY <2>4 DEF u, w
  <1> QED
    BY <1>4, <1>5, <1>6, <1>7, FlattenAppend

(* The contributions of the calls but the last.                                       *)
LEMMA SaidByTheLast ==
    ASSUME NEW c \in Seq(Call), c # <<>>
    PROVE  \E F \in Seq(Seq(Visible)) :
              /\ Len(F) = Len(c) - 1
              /\ \A n \in 1..(Len(c) - 1) : F[n] = ContributionIn(c, n)
              /\ Said(c) = FlattenSeq(F) \o Alone(c[Len(c)])
              /\ FlattenSeq(F) \in Seq(Visible)
  <1> DEFINE N == Len(c)
             M == N - 1
             F == [n \in 1..M |-> ContributionIn(c, n)]
             w == Append(F, Alone(c[N]))
  <1>1. N \in Nat \ {0} /\ M \in Nat /\ M + 1 = N /\ N \in 1..N
    BY EmptySeq
  <1>2. \A n \in 1..N : c[n] \in Call
    OBVIOUS
  <1>3. Alone(c[N]) \in Seq(Visible)
    BY <1>1, <1>2, AloneType
  <1>4. \A n \in 1..M : ContributionIn(c, n) \in Seq(Visible)
    <2>1. \A n \in 1..M : n \in 1..N
      BY <1>1
    <2> QED
      BY <2>1, ContributionIs
  <1>5. F \in Seq(Seq(Visible)) /\ Len(F) = M /\ \A n \in 1..M : F[n] = ContributionIn(c, n)
    <2>1. F \in [1..M -> Seq(Visible)]
      BY <1>4
    <2>2. \A n \in 1..M : F[n] = ContributionIn(c, n)
      OBVIOUS
    <2> HIDE DEF F, M
    <2> QED
      BY <1>1, <2>1, <2>2
  <1>6. /\ Contributions(c) \in Seq(Seq(Visible)) /\ Len(Contributions(c)) = N
        /\ \A n \in 1..N : Contributions(c)[n] = ContributionIn(c, n)
        /\ Said(c) = FlattenSeq(Contributions(c))
    BY SaidContributions
  <1>7. ContributionIn(c, N) = Alone(c[N])
    <2>1. ~(N < N)
      BY <1>1
    <2> QED
      BY <1>1, <2>1, ContributionIs
  <1> HIDE DEF F
  <1>8. w \in Seq(Seq(Visible)) /\ Len(w) = M + 1 /\ w[M + 1] = Alone(c[N]) /\ \A n \in 1..M : w[n] = F[n]
    <2> HIDE DEF M, N
    <2> QED
      BY <1>3, <1>5, AppendProperties
  <1>9. ASSUME NEW n \in 1..N PROVE Contributions(c)[n] = w[n]
    <2>1. CASE n = N
      BY <1>1, <1>6, <1>7, <1>8, <2>1
    <2>2. CASE n # N
      <3>1. n \in 1..M
        <4> HIDE DEF N, M
        <4> QED
          BY <1>1, <2>2
      <3>2. w[n] = ContributionIn(c, n)
        BY <1>5, <1>8, <3>1
      <3> QED
        BY <1>6, <3>2
    <2> QED
      BY <2>1, <2>2
  <1>10. Contributions(c) = w
    <2> HIDE DEF w, N, M
    <2> QED
      BY <1>1, <1>6, <1>8, <1>9, SeqEqual DEF N
  <1>11. FlattenSeq(F) \in Seq(Visible) /\ FlattenSeq(w) = FlattenSeq(F) \o Alone(c[N])
    <2> HIDE DEF N
    <2> QED
      BY <1>3, <1>5, FlattenAppend
  <1> QED
    BY <1>5, <1>6, <1>10, <1>11

(* A pair behind a pair: the comma comes between them.                                *)
LEMMA SaidAppendBehindPair ==
    ASSUME NEW c \in Seq(Call), NEW x \in Call, EndsInPair(c), AsksForPair(x)
    PROVE  Said(Append(c, x)) = (Said(c) \o <<",">>) \o Alone(x)
  <1> DEFINE a == Append(c, x)
             N == Len(c)
             M == N - 1
             comma == <<",">>
  <1>1. N \in Nat \ {0} /\ M \in Nat /\ M + 1 = N /\ N \in 1..N /\ c # <<>>
    BY EmptySeq DEF EndsInPair
  <1>2. a \in Seq(Call) /\ a # <<>> /\ Len(a) = N + 1 /\ a[N + 1] = x /\ \A n \in 1..N : a[n] = c[n]
    BY AppendProperties
  <1>3. PICK F \in Seq(Seq(Visible)) :
              /\ Len(F) = M /\ \A n \in 1..M : F[n] = ContributionIn(c, n)
              /\ Said(c) = FlattenSeq(F) \o Alone(c[N])
              /\ FlattenSeq(F) \in Seq(Visible)
    BY <1>1, SaidByTheLast
  <1>4. PICK G \in Seq(Seq(Visible)) :
              /\ Len(G) = N /\ \A n \in 1..N : G[n] = ContributionIn(a, n)
              /\ Said(a) = FlattenSeq(G) \o Alone(x)
              /\ FlattenSeq(G) \in Seq(Visible)
    <2>1. (N + 1) - 1 = N
      BY <1>1
    <2>2. \E G \in Seq(Seq(Visible)) :
              /\ Len(G) = Len(a) - 1 /\ \A n \in 1..(Len(a) - 1) : G[n] = ContributionIn(a, n)
              /\ Said(a) = FlattenSeq(G) \o Alone(a[Len(a)])
              /\ FlattenSeq(G) \in Seq(Visible)
      <3> HIDE DEF a
      <3> QED
        BY <1>2, SaidByTheLast
    <2> HIDE DEF a, N
    <2> QED
      BY <1>2, <2>1, <2>2
  <1>5. comma \in Seq(Visible)
    <2>1. "," \in Visible
      BY DEF Visible, Char, NUL
    <2>2. \A v \in Visible : <<v>> \in Seq(Visible)
      OBVIOUS
    <2> QED
      BY <2>1, <2>2
  <1>6. c[N] \in Call /\ Alone(c[N]) \in Seq(Visible)
    <2>1. c[N] \in Call
      BY <1>1
    <2> QED
      BY <2>1, AloneType
  <1>7. Alone(c[N]) \o comma \in Seq(Visible)
    <2> HIDE DEF comma, N
    <2> QED
      BY <1>5, <1>6, ConcatProperties
  <1> DEFINE last == Alone(c[N]) \o comma
             w == Append(F, last)
  <1>8. G[N] = last
    <2>1. N \in 1..Len(a) /\ N < Len(a) /\ a[N] = c[N] /\ a[N + 1] = x
      BY <1>1, <1>2
    <2>2. a[N].kind = "pair" /\ a[N + 1].kind \in {"pair", "refused"}
      BY <2>1 DEF EndsInPair, AsksForPair
    <2>3. ContributionIn(a, N) = Alone(a[N]) \o <<",">>
      <3> HIDE DEF a, N
      <3> QED
        BY <1>2, <2>1, <2>2, ContributionIs
    <2> QED
      BY <1>1, <1>4, <2>1, <2>3
  <1>9. ASSUME NEW n \in 1..M PROVE G[n] = F[n]
    <2>1. n \in 1..N /\ n + 1 \in 1..N /\ n < N /\ n < N + 1
      BY <1>1
    <2>2. a[n] = c[n] /\ a[n + 1] = c[n + 1]
      BY <1>2, <2>1
    <2>3. ContributionIn(a, n) = ContributionIn(c, n)
      BY <1>2, <2>1, <2>2 DEF ContributionIn
    <2>4. G[n] = ContributionIn(a, n) /\ F[n] = ContributionIn(c, n)
      BY <1>3, <1>4, <2>1
    <2> QED
      BY <2>3, <2>4
  <1> HIDE DEF last
  <1>10. w \in Seq(Seq(Visible)) /\ Len(w) = M + 1 /\ w[M + 1] = last /\ \A n \in 1..M : w[n] = F[n]
    <2>1. last \in Seq(Visible)
      BY <1>7 DEF last
    <2> HIDE DEF M
    <2> QED
      BY <1>3, <2>1, AppendProperties
  <1>11. ASSUME NEW n \in 1..N PROVE G[n] = w[n]
    <2>1. CASE n = N
      BY <1>1, <1>8, <1>10, <2>1
    <2>2. CASE n # N
      <3>1. n \in 1..M
        <4> HIDE DEF N, M
        <4> QED
          BY <1>1, <2>2
      <3> QED
        BY <1>9, <1>10, <3>1
    <2> QED
      BY <2>1, <2>2
  <1>12. G = w
    <2>1. G \in Seq(Seq(Visible)) /\ Len(G) = N /\ Len(w) = N
      BY <1>1, <1>4, <1>10
    <2> HIDE DEF w, N, M
    <2> QED
      BY <1>10, <1>11, <2>1, SeqEqual
  <1>13. FlattenSeq(w) = FlattenSeq(F) \o last
    <2>1. last \in Seq(Visible)
      BY <1>7 DEF last
    <2> QED
      BY <1>3, <2>1, FlattenAppend
  <1>14. FlattenSeq(F) \o last = Said(c) \o comma
    <2> DEFINE u == FlattenSeq(F)
               v == Alone(c[N])
    <2>1. u \in Seq(Visible) /\ v \in Seq(Visible) /\ comma \in Seq(Visible)
      BY <1>3, <1>5, <1>6
    <2>2. (u \o v) \o comma = u \o (v \o comma)
      <3>1. \A s1, s2, s3 \in Seq(Visible) : (s1 \o s2) \o s3 = s1 \o (s2 \o s3)
        BY ConcatAssociative, SMTT(60)
      <3> HIDE DEF u, v, comma
      <3> QED
        BY <2>1, <3>1
    <2> QED
      BY <1>3, <2>2 DEF last
  <1> QED
    BY <1>4, <1>12, <1>13, <1>14

(* A row of refusals is one refusal.                                                  *)
NoRowOfRefusals(c) == \A n \in 2..Len(c) : c[n].kind = "refused" => c[n - 1].kind # "refused"

(* The end of two strings is that of the second.                                      *)
LEMMA ConcatEnd ==
    ASSUME NEW S, NEW u \in Seq(S), NEW v \in Seq(S), v # <<>>
    PROVE  u \o v # <<>> /\ (u \o v)[Len(u \o v)] = v[Len(v)]
  <1> DEFINE m == Len(u)
             n == Len(v)
             w == u \o v
  <1>1. m \in Nat /\ n \in Nat \ {0}
    BY EmptySeq
  <1>2. Len(w) = m + n /\ \A k \in 1..(m + n) : w[k] = IF k <= m THEN u[k] ELSE v[k - m]
    BY ConcatProperties
  <1>3. w # <<>>
    <2>1. Len(w) # 0
      <3> HIDE DEF w, m, n
      <3> QED
        BY <1>1, <1>2
    <2> QED
      BY <2>1, EmptySeq
  <1> HIDE DEF w, m, n
  <1>4. m + n \in 1..(m + n) /\ ~(m + n <= m) /\ (m + n) - m = n
    BY <1>1
  <1>5. w[m + n] = v[n]
    BY <1>2, <1>4
  <1> QED
    BY <1>2, <1>3, <1>5 DEF w, n

(* No character but the quote is a quote.                                             *)
LEMMA OneCharacter ==
    ASSUME NEW s \in {<<"{">>, <<"}">>, <<",">>}
    PROVE  s # <<>> /\ s[Len(s)] # QUOTE
  <1>1. \A ch : <<ch>> # <<>> /\ Len(<<ch>>) = 1 /\ <<ch>>[1] = ch
    OBVIOUS
  <1>2. PICK ch \in {"{", "}", ","} : s = <<ch>>
    OBVIOUS
  <1>3. ch # QUOTE
    BY DEF QUOTE
  <1> QED
    BY <1>1, <1>2, <1>3

(* The text ends in a quote if, and only if, the last call is a pair.                 *)
LEMMA SaidEnds ==
    ASSUME NEW c \in Seq(Call), NoRowOfRefusals(c)
    PROVE  /\ Said(c) \in Seq(Visible)
           /\ EndsInPair(c) => Said(c) # <<>> /\ Said(c)[Len(Said(c))] = QUOTE
           /\ ~EndsInPair(c) => Said(c) = <<>> \/ Said(c)[Len(Said(c))] # QUOTE
  <1> DEFINE N == Len(c)
             M == N - 1
             comma == <<",">>
  <1>1. CASE c = <<>>
    <2>1. Contributions(c) = <<>>
      BY <1>1 DEF Contributions
    <2>2. Said(c) = <<>>
      BY <2>1, FlattenEmpty, SaidContributions
    <2> QED
      BY <1>1, <2>2, EmptySeq DEF EndsInPair
  <1>2. CASE c # <<>>
    <2>1. N \in Nat \ {0} /\ M \in Nat /\ M + 1 = N /\ N \in 1..N
      BY <1>2, EmptySeq
    <2>2. PICK F \in Seq(Seq(Visible)) :
              /\ Len(F) = M /\ \A n \in 1..M : F[n] = ContributionIn(c, n)
              /\ Said(c) = FlattenSeq(F) \o Alone(c[N])
              /\ FlattenSeq(F) \in Seq(Visible)
      BY <1>2, SaidByTheLast
    <2>3. c[N] \in Call
      BY <2>1
    <2>4. Alone(c[N]) \in Seq(Visible)
      BY <2>3, AloneType
    <2>5. Said(c) \in Seq(Visible)
      <3> HIDE DEF N
      <3> QED
        BY <2>2, <2>4, ConcatProperties
    <2>6. Alone(c[N]) # <<>> => Said(c) # <<>> /\ Said(c)[Len(Said(c))] = Alone(c[N])[Len(Alone(c[N]))]
      <3> DEFINE u == FlattenSeq(F)
                 v == Alone(c[N])
      <3>1. u \in Seq(Visible) /\ v \in Seq(Visible) /\ Said(c) = u \o v
        BY <2>2, <2>4
      <3>2. v # <<>> => u \o v # <<>> /\ (u \o v)[Len(u \o v)] = v[Len(v)]
        <4> HIDE DEF u, v
        <4> QED
          BY <3>1, ConcatEnd
      <3> QED
        BY <3>1, <3>2
    <2>7. CASE c[N].kind = "pair"
      <3>1. c[N].key \in Key /\ c[N].value \in Value /\ Alone(c[N]) = Pair(c[N].key, c[N].value)
        BY <2>3, <2>7, AloneType
      <3>2. Alone(c[N])[Len(Alone(c[N]))] = QUOTE
        BY <3>1, PairType
      <3>3. Alone(c[N]) # <<>>
        <4> DEFINE k == c[N].key
                   val == c[N].value
        <4>1. Len(Pair(k, val)) = 5 + Len(k) + Len(val) /\ Len(k) \in Nat \ {0} /\ Len(val) \in Nat
          BY <3>1, PairType
        <4>2. Len(Pair(k, val)) # 0
          <5> DEFINE a == Len(Pair(k, val))
                     b == Len(k)
                     d == Len(val)
          <5>1. a = 5 + b + d /\ b \in Nat /\ d \in Nat
            BY <4>1
          <5> HIDE DEF a, b, d
          <5>2. a # 0
            BY <5>1
          <5> QED
            BY <5>2 DEF a
        <4> QED
          BY <3>1, <4>2, EmptySeq
      <3>4. EndsInPair(c)
        BY <1>2, <2>7 DEF EndsInPair
      <3> QED
        BY <2>5, <2>6, <3>2, <3>3, <3>4
    <2>8. CASE c[N].kind \in {"open", "close", "stray"}
      <3>1. Alone(c[N]) \in {<<"{">>, <<"}">>, <<",">>}
        BY <2>3, <2>8, AloneType
      <3>2. Alone(c[N]) # <<>> /\ Alone(c[N])[Len(Alone(c[N]))] # QUOTE
        BY <3>1, OneCharacter
      <3>3. ~EndsInPair(c)
        BY <2>8 DEF EndsInPair
      <3> QED
        BY <2>5, <2>6, <3>2, <3>3
    <2>9. CASE c[N].kind = "refused"
      <3>1. Alone(c[N]) = <<>> /\ ~EndsInPair(c)
        BY <2>3, <2>9, AloneType DEF EndsInPair
      <3>2. Said(c) = FlattenSeq(F)
        <4>1. \A s \in Seq(Visible) : s \o <<>> = s
          BY ConcatEmptySeq
        <4> QED
          BY <2>2, <3>1, <4>1
      <3>3. CASE M = 0
        <4>1. F = <<>>
          BY <2>2, <3>3, EmptySeq
        <4> QED
          BY <2>5, <3>1, <3>2, <4>1, FlattenEmpty
      <3>4. CASE M # 0
        <4>1. F # <<>>
          BY <2>2, <3>4
        <4>2. PICK G \in Seq(Seq(Visible)), e \in Seq(Visible) : F = Append(G, e)
          BY <4>1, SequenceEmptyOrAppend
        <4>3. e = ContributionIn(c, M)
          <5>1. Len(F) = Len(G) + 1 /\ F[Len(G) + 1] = e
            BY <4>2, AppendProperties
          <5>2. F[M] = e /\ M \in 1..M
            BY <2>1, <2>2, <3>4, <5>1
          <5> QED
            BY <2>2, <5>2
        <4>4. FlattenSeq(F) = FlattenSeq(G) \o e /\ FlattenSeq(G) \in Seq(Visible)
          BY <4>2, FlattenAppend
        <4>5. M \in 1..N /\ N \in 2..N /\ N - 1 = M /\ M < N /\ M + 1 = N
          BY <2>1, <3>4
        <4>6. c[M] \in Call /\ c[M].kind # "refused"
          BY <2>9, <4>5 DEF NoRowOfRefusals
        <4>7. e # <<>> /\ e[Len(e)] # QUOTE
          <5>1. CASE c[M].kind = "pair"
            <6>1. e = Alone(c[M]) \o comma
              BY <2>9, <4>3, <4>5, <5>1, ContributionIs
            <6>2. Alone(c[M]) \in Seq(Visible) /\ comma \in Seq(Visible)
              <7>1. "," \in Visible
                BY DEF Visible, Char, NUL
              <7>2. \A v \in Visible : <<v>> \in Seq(Visible)
                OBVIOUS
              <7> QED
                BY <4>6, <7>1, <7>2, AloneType
            <6>3. comma # <<>> /\ comma[Len(comma)] = ","
              OBVIOUS
            <6>4. e # <<>> /\ e[Len(e)] = ","
              <7> DEFINE u == Alone(c[M])
              <7>1. u \in Seq(Visible) /\ e = u \o comma
                BY <6>1, <6>2
              <7> HIDE DEF u, comma
              <7> QED
                BY <6>2, <6>3, <7>1, ConcatEnd
            <6> QED
              BY <6>4 DEF QUOTE
          <5>2. CASE c[M].kind # "pair"
            <6>1. e = Alone(c[M])
              BY <4>3, <4>5, <5>2, ContributionIs
            <6>2. Alone(c[M]) \in {<<"{">>, <<"}">>, <<",">>}
              BY <4>6, <5>2, AloneType
            <6>3. Alone(c[M]) # <<>> /\ Alone(c[M])[Len(Alone(c[M]))] # QUOTE
              BY <6>2, OneCharacter
            <6> QED
              BY <6>1, <6>3
          <5> QED
            BY <5>1, <5>2
        <4>8. (FlattenSeq(G) \o e)[Len(FlattenSeq(G) \o e)] = e[Len(e)]
          <5> DEFINE u == FlattenSeq(G)
          <5>1. u \in Seq(Visible)
            BY <4>4
          <5> HIDE DEF u
          <5>2. (u \o e)[Len(u \o e)] = e[Len(e)]
            BY <4>2, <4>7, <5>1, ConcatEnd
          <5> QED
            BY <5>2 DEF u
        <4> QED
          BY <2>5, <3>1, <3>2, <4>4, <4>7, <4>8
      <3> QED
        BY <3>3, <3>4
    <2> QED
      BY <2>3, <2>7, <2>8, <2>9, AloneType
  <1> QED
    BY <1>1, <1>2

(* A string copied behind the text is appended to it,                                 *)
LEMMA CopiedBehind ==
    ASSUME NEW size \in Nat, NEW m \in [0..size -> Char], NEW l, IsLength(m, l),
           NEW s \in Seq(Visible), l + Len(s) <= size
    PROVE  /\ IsLength(Copied(m, l, s), l + Len(s))
           /\ LengthOf(Copied(m, l, s)) = l + Len(s)
           /\ TextOf(Copied(m, l, s)) = TextOf(m) \o s
  <1>1. l \in 0..l
    <2>1. l \in 0..size
      BY DEF IsLength
    <2> QED
      BY <2>1
  <1>2. \A at \in 0..l : at + Len(s) <= size
              => /\ IsLength(Copied(m, at, s), at + Len(s))
                 /\ LengthOf(Copied(m, at, s)) = at + Len(s)
                 /\ TextOf(Copied(m, at, s)) \in Seq(Visible)
                 /\ at = l => TextOf(Copied(m, at, s)) = TextOf(m) \o s
    <2> SUFFICES ASSUME NEW at \in 0..l, at + Len(s) <= size
              PROVE  /\ IsLength(Copied(m, at, s), at + Len(s))
                     /\ LengthOf(Copied(m, at, s)) = at + Len(s)
                     /\ TextOf(Copied(m, at, s)) \in Seq(Visible)
                     /\ at = l => TextOf(Copied(m, at, s)) = TextOf(m) \o s
      OBVIOUS
    <2> QED
      BY CopiedText
  <1> QED
    BY <1>1, <1>2

(* and one copied to the start of the buffer replaces it.                             *)
LEMMA CopiedFront ==
    ASSUME NEW size \in Nat, NEW m \in [0..size -> Char], NEW l, IsLength(m, l),
           NEW s \in Seq(Visible), Len(s) <= size
    PROVE  /\ IsLength(Copied(m, 0, s), Len(s))
           /\ LengthOf(Copied(m, 0, s)) = Len(s)
           /\ TextOf(Copied(m, 0, s)) = s
  <1>1. 0 \in 0..l
    <2>1. l \in 0..size
      BY DEF IsLength
    <2> QED
      BY <2>1
  <1>2. \A at \in 0..l : at + Len(s) <= size
              => /\ IsLength(Copied(m, at, s), at + Len(s))
                 /\ LengthOf(Copied(m, at, s)) = at + Len(s)
                 /\ at = 0 => TextOf(Copied(m, at, s)) = s
    <2> SUFFICES ASSUME NEW at \in 0..l, at + Len(s) <= size
              PROVE  /\ IsLength(Copied(m, at, s), at + Len(s))
                     /\ LengthOf(Copied(m, at, s)) = at + Len(s)
                     /\ at = 0 => TextOf(Copied(m, at, s)) = s
      OBVIOUS
    <2> QED
      BY CopiedText
  <1>3. Len(s) \in Nat
    OBVIOUS
  <1>4. 0 + Len(s) = Len(s)
    BY <1>3
  <1> QED
    BY <1>1, <1>2, <1>4

(* What JsonTypeOK and AllIsSaid say of the memory m, in a buffer of that size, and    *)
(* the calls c.                                                                       *)
Holds(m, size, c) ==
    /\ size \in Nat \ {0} /\ m \in [0..size -> Char] /\ c \in Seq(Call)
    /\ IsLength(m, LengthOf(m))
    /\ LengthOf(m) = size => m[size - 1] = ","
    /\ TextOf(m) = Said(c) /\ NoRowOfRefusals(c)

(* The text ends in a quote just if a pair was the last call, and then there is       *)
(* room for a comma.                                                                  *)
LEMMA HoldsFacts ==
    ASSUME NEW m, NEW size, NEW c, Holds(m, size, c)
    PROVE  /\ size \in Nat \ {0} /\ m \in [0..size -> Char] /\ c \in Seq(Call)
           /\ IsLength(m, LengthOf(m)) /\ LengthOf(m) \in 0..size /\ LengthOf(m) \in Nat
           /\ TextOf(m) = Said(c) /\ Said(c) \in Seq(Visible)
           /\ LengthOf(m) = 0 => ~EndsInPair(c)
           /\ LengthOf(m) # 0 => (EndsInPair(c) <=> m[LengthOf(m) - 1] = QUOTE)
           /\ EndsInPair(c) => LengthOf(m) < size
  <1> DEFINE l == LengthOf(m)
  <1>1. /\ size \in Nat \ {0} /\ m \in [0..size -> Char] /\ c \in Seq(Call)
        /\ IsLength(m, l) /\ TextOf(m) = Said(c) /\ NoRowOfRefusals(c)
        /\ l = size => m[size - 1] = ","
    BY DEF Holds
  <1>2. /\ l \in 0..size /\ TextOf(m) \in Seq(Visible) /\ Len(TextOf(m)) = l
        /\ \A k \in 1..l : TextOf(m)[k] = m[k - 1]
    BY <1>1, TextOfType
  <1>3. /\ EndsInPair(c) => Said(c) # <<>> /\ Said(c)[Len(Said(c))] = QUOTE
        /\ ~EndsInPair(c) => Said(c) = <<>> \/ Said(c)[Len(Said(c))] # QUOTE
    BY <1>1, SaidEnds
  <1>4. l = 0 => ~EndsInPair(c)
    BY <1>1, <1>2, <1>3, EmptySeq
  <1>5. ASSUME l # 0 PROVE Said(c) # <<>> /\ Said(c)[Len(Said(c))] = m[l - 1]
    <2>1. l \in 1..l
      BY <1>2, <1>5
    <2> QED
      BY <1>1, <1>2, <1>5, <2>1, EmptySeq
  <1>6. l # 0 => (EndsInPair(c) <=> m[l - 1] = QUOTE)
    BY <1>3, <1>5
  <1>7. EndsInPair(c) => l < size
    <2>1. EndsInPair(c) /\ l = size => FALSE
      BY <1>1, <1>4, <1>6 DEF QUOTE
    <2>2. l \in 0..size /\ size \in Nat
      BY <1>1, <1>2
    <2> HIDE DEF l
    <2>3. l = size \/ l < size
      BY <2>2
    <2> QED
      BY <2>1, <2>3
  <1> HIDE DEF l
  <1>8. l \in Nat
    <2>1. size \in Nat /\ l \in 0..size
      BY <1>1, <1>2
    <2> QED
      BY <2>1
  <1> QED
    BY <1>1, <1>2, <1>4, <1>6, <1>7, <1>8 DEF l

(* One call more.                                                                     *)
LEMMA AppendCall ==
    ASSUME NEW c \in Seq(Call), NEW x \in Call, NoRowOfRefusals(c),
           x.kind = "refused" /\ c # <<>> => c[Len(c)].kind # "refused"
    PROVE  /\ Append(c, x) \in Seq(Call) /\ NoRowOfRefusals(Append(c, x))
           /\ Append(c, x) # <<>> /\ Append(c, x)[Len(Append(c, x))] = x
           /\ EndsInPair(Append(c, x)) <=> x.kind = "pair"
  <1> DEFINE a == Append(c, x)
             N == Len(c)
  <1>1. N \in Nat /\ a \in Seq(Call) /\ a # <<>> /\ Len(a) = N + 1 /\ a[N + 1] = x
        /\ \A n \in 1..N : a[n] = c[n]
    BY AppendProperties
  <1>2. c = <<>> => N = 0
    OBVIOUS
  <1>5. c # <<>> => N # 0
    BY EmptySeq
  <1>3. \A n \in 2..N : c[n].kind = "refused" => c[n - 1].kind # "refused"
    BY DEF NoRowOfRefusals
  <1>4. ASSUME NEW n \in 2..(N + 1), a[n].kind = "refused" PROVE a[n - 1].kind # "refused"
    <2>1. n - 1 \in 1..N
      <3> HIDE DEF N
      <3> QED
        BY <1>1
    <2>2. a[n - 1] = c[n - 1]
      BY <1>1, <2>1
    <2>3. CASE n = N + 1
      <3>1. n - 1 = N /\ N # 0
        <4> HIDE DEF N
        <4> QED
          BY <1>1, <2>1, <2>3
      <3> QED
        BY <1>1, <1>2, <1>4, <2>2, <2>3, <3>1
    <2>4. CASE n # N + 1
      <3>1. n \in 2..N /\ n \in 1..N
        <4> HIDE DEF N
        <4> QED
          BY <1>1, <2>4
      <3> QED
        BY <1>1, <1>3, <1>4, <2>2, <3>1
    <2> QED
      BY <2>3, <2>4
  <1> HIDE DEF a
  <1> QED
    BY <1>1, <1>4 DEF NoRowOfRefusals, EndsInPair, a

(* The last byte of a text that fills the buffer.                                     *)
LEMMA PlacesBehind ==
    ASSUME NEW size \in Nat, NEW l \in Nat, NEW n \in Nat \ {0}, l + n <= size
    PROVE  /\ l \in 0..l
           /\ l + n = size => /\ size - 1 \in 0..size /\ size - 1 \in l..(l + n - 1)
                             /\ (size - 1) - l + 1 = n
  OBVIOUS

(* strcpy behind the text, and a call that says just that.                            *)
LEMMA HoldsCopied ==
    ASSUME NEW m, NEW size, NEW c, Holds(m, size, c), NEW s \in Seq(Visible), s # <<>>,
           NEW d \in Seq(Call), NoRowOfRefusals(d), Said(d) = Said(c) \o s,
           LengthOf(m) + Len(s) <= size,
           LengthOf(m) + Len(s) = size => s[Len(s)] = ","
    PROVE  /\ Holds(Copied(m, LengthOf(m), s), size, d)
           /\ LengthOf(Copied(m, LengthOf(m), s)) = LengthOf(m) + Len(s)
  <1> DEFINE l == LengthOf(m)
             n == Len(s)
             e == Copied(m, l, s)
  <1>1. /\ size \in Nat \ {0} /\ m \in [0..size -> Char]
        /\ IsLength(m, l) /\ l \in 0..size /\ l \in Nat /\ TextOf(m) = Said(c)
    BY HoldsFacts
  <1>2. n \in Nat \ {0} /\ l + n <= size /\ (l + n = size => s[n] = ",")
    BY EmptySeq
  <1>8. size \in Nat /\ l \in Nat /\ n \in Nat \ {0}
    BY <1>1, <1>2
  <1>3. l \in 0..l /\ l + n <= size
    <2> HIDE DEF l, n
    <2> QED
      BY <1>2, <1>8, PlacesBehind
  <1>4. IsLength(e, l + n) /\ LengthOf(e) = l + n /\ TextOf(e) = TextOf(m) \o s
    <2>1. m \in [0..size -> Char] /\ IsLength(m, l)
      BY <1>1
    <2>2. s \in Seq(Visible)
      OBVIOUS
    <2>3. l + Len(s) <= size /\ l \in 0..l /\ size \in Nat
      BY <1>3, <1>8
    <2>4. /\ IsLength(Copied(m, l, s), l + Len(s)) /\ LengthOf(Copied(m, l, s)) = l + Len(s)
          /\ TextOf(Copied(m, l, s)) = TextOf(m) \o s
      <3> HIDE DEF l
      <3> QED
        BY <2>1, <2>2, <2>3, CopiedBehind, ZenonT(60)
    <2> QED
      BY <2>4
  <1>5. /\ e \in [0..size -> Char]
        /\ \A k \in 0..size : k \in l..(l + n - 1) => e[k] = s[k - l + 1]
    <2>1. m \in [0..size -> Char]
      BY <1>1
    <2>2. size \in Nat /\ l \in Nat
      BY <1>8
    <2>3. /\ Copied(m, l, s) \in [0..size -> Char]
          /\ \A k \in 0..size : k \in l..(l + Len(s) - 1) => Copied(m, l, s)[k] = s[k - l + 1]
      <3> HIDE DEF l
      <3> QED
        BY <2>1, <2>2, CopiedType, Zenon
    <2> QED
      BY <2>3
  <1> HIDE DEF l, n, e
  <1>6. ASSUME l + n = size PROVE e[size - 1] = ","
    <2>1. size - 1 \in 0..size /\ size - 1 \in l..(l + n - 1) /\ (size - 1) - l + 1 = n
      BY <1>8, <1>6, <1>3, PlacesBehind
    <2> QED
      BY <1>2, <1>5, <1>6, <2>1
  <1>7. Holds(e, size, d)
    BY <1>1, <1>4, <1>5, <1>6 DEF Holds
  <1> QED
    BY <1>4, <1>7 DEF e, l, n

Refused == [kind |-> "refused"]
PairCall(key, val) == [kind |-> "pair", key |-> key, value |-> val]

(* The calls.                                                                         *)
LEMMA CallTypes ==
    /\ \A k \in {"open", "close", "refused", "stray"} : [kind |-> k] \in Call
    /\ Refused \in Call /\ Refused.kind = "refused"
    /\ \A key \in Key, val \in Value :
          /\ PairCall(key, val) \in Call /\ PairCall(key, val).kind = "pair"
          /\ PairCall(key, val).key = key /\ PairCall(key, val).value = val
  BY DEF Call, Refused, PairCall

(* A string of one character,                                                         *)
LEMMA Singleton ==
    ASSUME NEW S, NEW v \in S
    PROVE  <<v>> \in Seq(S) /\ <<v>> # <<>> /\ Len(<<v>>) = 1 /\ <<v>>[1] = v
  OBVIOUS

(* which may be a comma or a brace.                                                   *)
LEMMA PunctuationType ==
    ASSUME NEW ch \in {"{", "}", ","}
    PROVE  <<ch>> \in Seq(Visible) /\ <<ch>> # <<>> /\ Len(<<ch>>) = 1 /\ <<ch>>[1] = ch
  <1>1. ch \in Visible
    BY DEF Visible, Char, NUL
  <1> QED
    BY <1>1, Singleton

(* A refusal that writes nothing.                                                     *)
LEMMA HoldsRefused ==
    ASSUME NEW m, NEW size, NEW c, Holds(m, size, c), ~EndsInPair(c),
           c = <<>> \/ c[Len(c)].kind # "refused"
    PROVE  Holds(m, size, Append(c, Refused))
  <1> DEFINE d == Append(c, Refused)
  <1>1. c \in Seq(Call) /\ NoRowOfRefusals(c) /\ Refused \in Call /\ Refused.kind = "refused"
    BY CallTypes DEF Holds
  <1>2. d \in Seq(Call) /\ NoRowOfRefusals(d)
    BY <1>1, AppendCall
  <1>3. Said(c) \in Seq(Visible) /\ Said(d) = Said(c) \o Alone(Refused)
    BY <1>1, SaidAppend
  <1>4. Alone(Refused) = <<>>
    BY <1>1, AloneType
  <1>5. Said(d) = Said(c)
    <2>1. \A s \in Seq(Visible) : s \o <<>> = s
      BY ConcatEmptySeq
    <2> QED
      BY <1>3, <1>4, <2>1
  <1> HIDE DEF d
  <1> QED
    BY <1>2, <1>5 DEF Holds, d

(* A pair for which there is room leaves a byte free.                                 *)
LEMMA PairSize ==
    ASSUME NEW key \in Key, NEW val \in Value, NEW l \in Nat, NEW size \in Nat,
           5 + Len(key) + Len(val) + 1 + l <= size
    PROVE  /\ Pair(key, val) \in Seq(Visible) /\ Pair(key, val) # <<>>
           /\ l + Len(Pair(key, val)) < size
  <1> DEFINE a == Len(key)
             b == Len(val)
             n == Len(Pair(key, val))
  <1>1. /\ Pair(key, val) \in Seq(Visible) /\ n = 5 + a + b
        /\ a \in Nat /\ b \in Nat
    BY PairType
  <1>2. 5 + a + b + 1 + l <= size
    OBVIOUS
  <1>3. Len(<<>>) = 0
    BY EmptySeq
  <1> HIDE DEF a, b, n
  <1>4. l + n < size /\ n # 0
    BY <1>1, <1>2
  <1>5. Pair(key, val) # <<>>
    BY <1>3, <1>4 DEF n
  <1> QED
    BY <1>1, <1>4, <1>5 DEF n

(* A pair where no comma is due.                                                      *)
LEMMA HoldsPair ==
    ASSUME NEW m, NEW size, NEW c, Holds(m, size, c), ~EndsInPair(c),
           NEW key \in Key, NEW val \in Value,
           5 + Len(key) + Len(val) + 1 + LengthOf(m) <= size
    PROVE  /\ Holds(Copied(m, LengthOf(m), Pair(key, val)), size, Append(c, PairCall(key, val)))
           /\ LengthOf(Copied(m, LengthOf(m), Pair(key, val))) < size
  <1> DEFINE x == PairCall(key, val)
             d == Append(c, x)
             l == LengthOf(m)
             s == Pair(key, val)
  <1>1. c \in Seq(Call) /\ NoRowOfRefusals(c) /\ size \in Nat /\ l \in Nat
    BY HoldsFacts DEF Holds
  <1>2. x \in Call /\ x.kind = "pair" /\ x.key = key /\ x.value = val
    BY CallTypes
  <1>3. d \in Seq(Call) /\ NoRowOfRefusals(d)
    <2> HIDE DEF x
    <2> QED
      BY <1>1, <1>2, AppendCall
  <1>4. Alone(x) = s
    <2> HIDE DEF x
    <2> QED
      BY <1>2, AloneType
  <1>5. Said(d) = Said(c) \o s
    <2> HIDE DEF x
    <2> QED
      BY <1>1, <1>2, <1>4, SaidAppend
  <1>6. s \in Seq(Visible) /\ s # <<>> /\ l + Len(s) < size
    BY <1>1, PairSize
  <1>7. l + Len(s) <= size /\ (l + Len(s) = size => s[Len(s)] = ",")
    <2> DEFINE n == l + Len(s)
    <2>1. n < size
      BY <1>6
    <2>2. n \in Nat
      <3>1. Len(s) \in Nat
        BY <1>6
      <3> HIDE DEF l, s
      <3> QED
        BY <1>1, <3>1
    <2> HIDE DEF n
    <2>3. n <= size /\ n # size
      BY <1>1, <2>1, <2>2
    <2> QED
      BY <2>3 DEF n
  <1> HIDE DEF s, d
  <1>8. Holds(Copied(m, l, s), size, d) /\ LengthOf(Copied(m, l, s)) = l + Len(s)
    BY <1>3, <1>5, <1>6, <1>7, HoldsCopied
  <1> QED
    BY <1>6, <1>8 DEF s, d

(* The comma behind a pair, when the next one is refused: the terminator may come     *)
(* to lie behind the buffer.                                                          *)
LEMMA HoldsComma ==
    ASSUME NEW m, NEW size, NEW c, Holds(m, size, c), EndsInPair(c)
    PROVE  /\ Holds(Copied(m, LengthOf(m), <<",">>), size, Append(c, Refused))
           /\ LengthOf(Copied(m, LengthOf(m), <<",">>)) = LengthOf(m) + 1
           /\ ~EndsInPair(Append(c, Refused))
           /\ Said(Append(c, Refused)) = Said(c) \o <<",">>
  <1> DEFINE d == Append(c, Refused)
             l == LengthOf(m)
             comma == <<",">>
  <1>1. /\ c \in Seq(Call) /\ NoRowOfRefusals(c) /\ size \in Nat /\ l \in Nat /\ l < size
        /\ Said(c) \in Seq(Visible)
    BY HoldsFacts DEF Holds
  <1>2. Refused \in Call /\ Refused.kind = "refused" /\ AsksForPair(Refused)
    BY CallTypes DEF AsksForPair
  <1>3. c # <<>> /\ c[Len(c)].kind # "refused"
    BY DEF EndsInPair
  <1>4. d \in Seq(Call) /\ NoRowOfRefusals(d) /\ ~EndsInPair(d)
    BY <1>1, <1>2, <1>3, AppendCall
  <1>5. comma \in Seq(Visible) /\ comma # <<>> /\ Len(comma) = 1 /\ comma[1] = ","
    BY PunctuationType
  <1>6. Said(d) = Said(c) \o comma
    <2>1. Said(d) = (Said(c) \o comma) \o Alone(Refused)
      BY <1>1, <1>2, SaidAppendBehindPair
    <2>2. Alone(Refused) = <<>>
      BY <1>2, AloneType
    <2>3. Said(c) \o comma \in Seq(Visible)
      <3> HIDE DEF comma
      <3> QED
        BY <1>1, <1>5, ConcatProperties
    <2>4. \A s \in Seq(Visible) : s \o <<>> = s
      BY ConcatEmptySeq
    <2> QED
      BY <2>1, <2>2, <2>3, <2>4
  <1>7. l + Len(comma) <= size /\ (l + Len(comma) = size => comma[Len(comma)] = ",")
    <2>1. size \in Nat /\ l \in Nat /\ l < size
      BY <1>1
    <2> HIDE DEF l, comma
    <2>2. l + 1 <= size
      BY <2>1
    <2> QED
      BY <1>5, <2>2
  <1> HIDE DEF comma, d
  <1>8. Holds(Copied(m, l, comma), size, d) /\ LengthOf(Copied(m, l, comma)) = l + Len(comma)
    BY <1>4, <1>5, <1>6, <1>7, HoldsCopied
  <1> QED
    BY <1>4, <1>5, <1>6, <1>8 DEF comma, d

(* The comma and the next pair.                                                       *)
LEMMA HoldsPairBehindPair ==
    ASSUME NEW m, NEW size, NEW c, Holds(m, size, c), EndsInPair(c),
           NEW key \in Key, NEW val \in Value,
           5 + Len(key) + Len(val) + 1 + (LengthOf(m) + 1) <= size
    PROVE  Holds(Copied(Copied(m, LengthOf(m), <<",">>), LengthOf(m) + 1, Pair(key, val)),
                 size, Append(c, PairCall(key, val)))
  <1> DEFINE x == PairCall(key, val)
             r == Append(c, Refused)
             d == Append(c, x)
             l == LengthOf(m)
             e == Copied(m, l, <<",">>)
             s == Pair(key, val)
  <1>1. c \in Seq(Call) /\ NoRowOfRefusals(c)
    BY DEF Holds
  <1>2. x \in Call /\ x.kind = "pair" /\ x.key = key /\ x.value = val /\ AsksForPair(x)
    BY CallTypes DEF AsksForPair
  <1>3. Holds(e, size, r) /\ LengthOf(e) = l + 1 /\ Said(r) = Said(c) \o <<",">>
    BY HoldsComma
  <1>4. d \in Seq(Call) /\ NoRowOfRefusals(d)
    <2> HIDE DEF x
    <2> QED
      BY <1>1, <1>2, AppendCall
  <1>5. Alone(x) = s
    <2> HIDE DEF x
    <2> QED
      BY <1>2, AloneType
  <1>6. Said(d) = Said(r) \o s
    <2> HIDE DEF x
    <2>1. Said(d) = (Said(c) \o <<",">>) \o Alone(x)
      BY <1>1, <1>2, SaidAppendBehindPair
    <2> QED
      BY <1>3, <1>5, <2>1
  <1>7. size \in Nat /\ LengthOf(e) \in Nat
    <2> HIDE DEF e, r
    <2> QED
      BY <1>3, HoldsFacts
  <1>8. 5 + Len(key) + Len(val) + 1 + LengthOf(e) <= size
    BY <1>3
  <1>9. s \in Seq(Visible) /\ s # <<>> /\ LengthOf(e) + Len(s) < size
    <2> HIDE DEF e
    <2> QED
      BY <1>7, <1>8, PairSize
  <1>10. LengthOf(e) + Len(s) <= size /\ (LengthOf(e) + Len(s) = size => s[Len(s)] = ",")
    <2> DEFINE n == LengthOf(e) + Len(s)
    <2>1. n < size
      BY <1>9
    <2>2. n \in Nat
      <3>1. Len(s) \in Nat
        BY <1>9, LenProperties
      <3> HIDE DEF e, s
      <3> QED
        BY <1>7, <3>1
    <2>4. size \in Nat
      BY <1>7
    <2> HIDE DEF n
    <2>3. n <= size /\ n # size
      BY <2>1, <2>2, <2>4
    <2> QED
      BY <2>3 DEF n
  <1>11. Holds(Copied(e, LengthOf(e), s), size, d)
    <2> HIDE DEF e, s, d, r
    <2> QED
      BY <1>3, <1>4, <1>6, <1>9, <1>10, HoldsCopied
  <1> QED
    BY <1>3, <1>11

(* The comma at the start of an empty text.                                           *)
LEMMA HoldsStray ==
    ASSUME NEW m, NEW size, NEW c, Holds(m, size, c), LengthOf(m) = 0
    PROVE  /\ Holds(Copied(m, LengthOf(m), <<",">>), size, Append(c, [kind |-> "stray"]))
           /\ LengthOf(Copied(m, LengthOf(m), <<",">>)) = 1
           /\ ~EndsInPair(Append(c, [kind |-> "stray"]))
           /\ Append(c, [kind |-> "stray"])[Len(Append(c, [kind |-> "stray"]))].kind = "stray"
  <1> DEFINE x == [kind |-> "stray"]
             d == Append(c, x)
             comma == <<",">>
             l == LengthOf(m)
  <1>1. c \in Seq(Call) /\ NoRowOfRefusals(c) /\ size \in Nat \ {0} /\ ~EndsInPair(c) /\ l = 0
    BY HoldsFacts DEF Holds
  <1>2. x \in Call /\ x.kind = "stray"
    BY CallTypes
  <1>3. d \in Seq(Call) /\ NoRowOfRefusals(d) /\ ~EndsInPair(d) /\ d[Len(d)] = x
    <2> HIDE DEF x
    <2> QED
      BY <1>1, <1>2, AppendCall
  <1>4. comma \in Seq(Visible) /\ comma # <<>> /\ Len(comma) = 1 /\ comma[1] = ","
    BY PunctuationType
  <1>5. Said(d) = Said(c) \o comma
    <2> HIDE DEF x
    <2> QED
      BY <1>1, <1>2, AloneType, SaidAppend
  <1>6. l + Len(comma) <= size /\ (l + Len(comma) = size => comma[Len(comma)] = ",")
    <2>1. size \in Nat \ {0} /\ l = 0
      BY <1>1
    <2> HIDE DEF l, comma
    <2>2. l + 1 <= size
      BY <2>1
    <2> QED
      BY <1>4, <2>2
  <1>7. l + Len(comma) = 1
    <2>1. l = 0 /\ Len(comma) = 1
      BY <1>1, <1>4
    <2>2. 0 + 1 = 1
      OBVIOUS
    <2> HIDE DEF l, comma
    <2> QED
      BY <2>1, <2>2
  <1> HIDE DEF comma, d, l
  <1>8. Holds(Copied(m, LengthOf(m), comma), size, d)
        /\ LengthOf(Copied(m, LengthOf(m), comma)) = LengthOf(m) + Len(comma)
    BY <1>3, <1>4, <1>5, <1>6, HoldsCopied DEF l
  <1> QED
    BY <1>2, <1>3, <1>7, <1>8 DEF comma, d, l

(* strcpy to the start of the buffer.                                                 *)
LEMMA HoldsOpen ==
    ASSUME NEW m, NEW size, NEW c, Holds(m, size, c), size >= 2
    PROVE  Holds(Copied(m, 0, <<"{">>), size, <<[kind |-> "open"]>>)
  <1> DEFINE x == [kind |-> "open"]
             d == <<x>>
             s == <<"{">>
             e == Copied(m, 0, s)
  <1>1. /\ size \in Nat \ {0} /\ size \in Nat /\ m \in [0..size -> Char] /\ IsLength(m, LengthOf(m))
        /\ c \in Seq(Call)
    BY HoldsFacts
  <1>2. s \in Seq(Visible) /\ Len(s) = 1
    BY PunctuationType
  <1>3. 1 <= size /\ 1 # size
    <2>1. size \in Nat
      BY <1>1
    <2> QED
      BY <2>1
  <1>4. IsLength(e, 1) /\ LengthOf(e) = 1 /\ TextOf(e) = s
    <2> HIDE DEF s
    <2> QED
      BY <1>1, <1>2, <1>3, CopiedFront
  <1>5. e \in [0..size -> Char]
    <2>1. 0 \in Nat
      OBVIOUS
    <2> HIDE DEF s
    <2> QED
      BY <1>1, <1>2, <2>1, CopiedType
  <1>6. x \in Call /\ x.kind = "open"
    BY CallTypes
  <1>7. d = Append(<<>>, x) /\ <<>> \in Seq(Call) /\ NoRowOfRefusals(<<>>) /\ ~EndsInPair(<<>>)
    <2>1. <<>> \in Seq(Call) /\ d = Append(<<>>, x) /\ Len(<<>>) = 0
      OBVIOUS
    <2> QED
      BY <2>1 DEF NoRowOfRefusals, EndsInPair
  <1> HIDE DEF x
  <1>8. d \in Seq(Call) /\ NoRowOfRefusals(d)
    BY <1>6, <1>7, AppendCall
  <1>9. Said(d) = s
    <2>1. Said(d) = Said(<<>>) \o Alone(x)
      BY <1>6, <1>7, SaidAppend
    <2>2. Said(<<>>) = <<>>
      <3>1. Contributions(<<>>) = <<>>
        BY DEF Contributions
      <3> QED
        BY <1>7, <3>1, FlattenEmpty, SaidContributions
    <2>3. Alone(x) = s
      BY <1>6, AloneType
    <2>4. \A t \in Seq(Visible) : <<>> \o t = t
      BY ConcatEmptySeq
    <2> QED
      BY <1>2, <2>1, <2>2, <2>3, <2>4
  <1> HIDE DEF e, d
  <1> QED
    BY <1>1, <1>3, <1>4, <1>5, <1>8, <1>9 DEF Holds, e, d, x

(* The closing brace.                                                                 *)
LEMMA HoldsEnd ==
    ASSUME NEW m, NEW size, NEW c, Holds(m, size, c), size >= 2 + LengthOf(m)
    PROVE  Holds(Copied(m, LengthOf(m), <<"}">>), size, Append(c, [kind |-> "close"]))
  <1> DEFINE x == [kind |-> "close"]
             d == Append(c, x)
             s == <<"}">>
             l == LengthOf(m)
  <1>1. c \in Seq(Call) /\ NoRowOfRefusals(c) /\ size \in Nat /\ l \in Nat
    BY HoldsFacts DEF Holds
  <1>2. x \in Call /\ x.kind = "close" /\ ~AsksForPair(x)
    BY CallTypes DEF AsksForPair
  <1>3. d \in Seq(Call) /\ NoRowOfRefusals(d)
    <2> HIDE DEF x
    <2> QED
      BY <1>1, <1>2, AppendCall
  <1>4. s \in Seq(Visible) /\ s # <<>> /\ Len(s) = 1
    BY PunctuationType
  <1>5. Said(d) = Said(c) \o s
    <2> HIDE DEF x
    <2> QED
      BY <1>1, <1>2, AloneType, SaidAppend
  <1>6. l + Len(s) <= size /\ (l + Len(s) = size => s[Len(s)] = ",")
    <2>1. size \in Nat /\ l \in Nat /\ size >= 2 + l
      BY <1>1
    <2> HIDE DEF l, s
    <2>2. l + 1 <= size /\ l + 1 # size
      BY <2>1
    <2> QED
      BY <1>4, <2>2
  <1> HIDE DEF s, d
  <1> QED
    BY <1>3, <1>4, <1>5, <1>6, HoldsCopied DEF s, d

(* The text is what the calls put there, the commas nobody asked for among it.        *)
AllIsSaid == TextOf(mem) = Said(calls)

(* The inductive invariant.                                                           *)
JsonInv == JsonTypeOK /\ AllIsSaid /\ NoRowOfRefusals(calls)

(* The same, said of the memory with Holds.                                           *)
JsonState ==
    /\ buffer_size \in BufferSize /\ buffer_size \in Nat
    /\ Holds(mem, buffer_size, calls)
    /\ status \in BOOLEAN /\ value \in Seq(Char)
    /\ asked.key \in Key \cup {<<>>} /\ asked.searched \in 0..buffer_size
    /\ texts \in 0..MaxTexts

(* The two forms of the invariant say the same.                                       *)
LEMMA JsonInvIs == JsonInv <=> JsonState
  <1> DEFINE l == LengthOf(mem)
             size == buffer_size
  <1>1. Length = l /\ Text = TextOf(mem)
    BY LengthAndText
  <1>2. AllIsSaid <=> TextOf(mem) = Said(calls)
    BY DEF AllIsSaid
  <1>3. ASSUME size \in BufferSize, mem \in [0..size -> Char], IsLength(mem, l)
        PROVE  /\ size \in Nat \ {0} /\ size \in Nat
               /\ l = size => (Last(Text) = "," <=> mem[size - 1] = ",")
    <2>1. size \in Nat \ {0} /\ size \in Nat
      BY <1>3, JsonAssumption
    <2>2. Len(TextOf(mem)) = l /\ \A k \in 1..l : TextOf(mem)[k] = mem[k - 1]
      BY <1>3, <2>1, TextOfType
    <2>3. ASSUME l = size PROVE Last(Text) = mem[size - 1]
      <3>1. size \in 1..size
        BY <2>1
      <3>2. Last(Text) = TextOf(mem)[Len(TextOf(mem))]
        BY <1>1 DEF Last
      <3> QED
        BY <2>2, <2>3, <3>1, <3>2
    <2> QED
      BY <2>1, <2>3
  <1>4. ASSUME JsonInv PROVE JsonState
    <2>1. size \in BufferSize /\ mem \in [0..size -> Char] /\ (\E n \in 0..size : mem[n] = NUL)
      BY <1>4 DEF JsonInv, JsonTypeOK
    <2>2. size \in Nat
      BY <2>1, JsonAssumption
    <2>3. IsLength(mem, l)
      BY <2>1, <2>2, LengthExists
    <2>4. Holds(mem, size, calls)
      BY <1>1, <1>2, <1>3, <1>4, <2>1, <2>3 DEF Holds, JsonInv, JsonTypeOK
    <2> QED
      BY <1>4, <2>1, <2>2, <2>4 DEF JsonState, JsonInv, JsonTypeOK
  <1>5. ASSUME JsonState PROVE JsonInv
    <2>1. /\ size \in BufferSize /\ mem \in [0..size -> Char] /\ IsLength(mem, l)
          /\ l = size => mem[size - 1] = ","
          /\ TextOf(mem) = Said(calls) /\ NoRowOfRefusals(calls) /\ calls \in Seq(Call)
      BY <1>5 DEF JsonState, Holds
    <2>2. \E n \in DOMAIN mem : mem[n] = NUL
      BY <2>1 DEF IsLength
    <2> QED
      BY <1>1, <1>2, <1>3, <1>5, <2>1, <2>2 DEF JsonState, JsonInv, JsonTypeOK
  <1> QED
    BY <1>4, <1>5

(* The invariant holds at the start.                                                  *)
LEMMA JsonInvInit == JsonInit => JsonInv
  <1> SUFFICES ASSUME JsonInit PROVE JsonState
    BY JsonInvIs
  <1>1. /\ buffer_size \in BufferSize /\ buffer_size \in Nat \ {0} /\ buffer_size \in Nat
        /\ mem = [k \in 0..buffer_size |-> IF k = buffer_size THEN FOREIGN ELSE NUL]
        /\ status = FALSE /\ value = <<>>
        /\ asked = NotAsked /\ calls = <<>> /\ texts = 0
    BY JsonAssumption DEF JsonInit
  <1>2. mem \in [0..buffer_size -> Char] /\ 0 \in DOMAIN mem /\ mem[0] = NUL
    <2>1. NUL \in Char /\ FOREIGN \in Char
      BY DEF Char
    <2>2. 0 \in 0..buffer_size /\ 0 # buffer_size
      <3>1. buffer_size \in Nat \ {0}
        BY <1>1
      <3> QED
        BY <3>1
    <2> QED
      BY <1>1, <2>1, <2>2
  <1>3. IsLength(mem, 0)
    BY <1>2 DEF IsLength
  <1>4. LengthOf(mem) = 0 /\ TextOf(mem) = <<>>
    <2>1. LengthOf(mem) = 0 /\ Len(TextOf(mem)) = 0 /\ TextOf(mem) \in Seq(Visible)
      BY <1>1, <1>2, <1>3, TextOfType
    <2> QED
      BY <2>1, EmptySeq
  <1>5. Said(<<>>) = <<>> /\ <<>> \in Seq(Call)
    <2>1. Contributions(<<>>) = <<>>
      BY DEF Contributions
    <2>2. <<>> \in Seq(Call)
      OBVIOUS
    <2> QED
      BY <2>1, <2>2, FlattenEmpty, SaidContributions
  <1>6. NoRowOfRefusals(<<>>)
    BY DEF NoRowOfRefusals
  <1>7. Holds(mem, buffer_size, calls)
    BY <1>1, <1>2, <1>3, <1>4, <1>5, <1>6 DEF Holds
  <1>8. value \in Seq(Char) /\ asked.key = <<>> /\ asked.searched = 0 /\ 0 \in 0..buffer_size /\ 0 \in 0..MaxTexts
    <2>1. MaxTexts \in Nat /\ buffer_size \in Nat
      BY <1>1, JsonAssumption
    <2>2. 0 \in 0..buffer_size /\ 0 \in 0..MaxTexts
      BY <2>1
    <2>3. value \in Seq(Char)
      BY <1>1
    <2> QED
      BY <1>1, <2>2, <2>3 DEF NotAsked
  <1> QED
    BY <1>1, <1>7, <1>8 DEF JsonState

(* A call that returns without a search.                                              *)
LEMMA ReturnsKeeps ==
    ASSUME JsonState, NEW r \in BOOLEAN, Returns(r), Holds(mem', buffer_size, calls'),
           texts' \in 0..MaxTexts
    PROVE  JsonState'
  <1>1. buffer_size' = buffer_size /\ status' = r /\ value' = <<>> /\ asked' = NotAsked
    BY DEF Returns
  <1>2. NotAsked.key = <<>> /\ NotAsked.searched = 0 /\ <<>> \in Seq(Char)
    BY DEF NotAsked
  <1>3. 0 \in 0..buffer_size
    BY DEF JsonState
  <1> QED
    BY <1>1, <1>2, <1>3 DEF JsonState

(* Json_startString keeps the invariant,                                              *)
LEMMA StartStringKeeps ==
    ASSUME JsonState, StartString
    PROVE  JsonState'
  <1>1. CASE /\ buffer_size >= 2
             /\ texts < MaxTexts /\ texts' = texts + 1
             /\ mem' = Copied(mem, 0, <<"{">>)
             /\ calls' = <<[kind |-> "open"]>>
             /\ Returns(TRUE)
    <2>1. Holds(mem', buffer_size, calls')
      BY <1>1, HoldsOpen DEF JsonState
    <2>2. texts' \in 0..MaxTexts
      <3>1. texts \in 0..MaxTexts /\ MaxTexts \in Nat /\ texts' = texts + 1 /\ texts < MaxTexts
        BY <1>1, JsonAssumption DEF JsonState
      <3> QED
        BY <3>1
    <2> QED
      BY <1>1, <2>1, <2>2, ReturnsKeeps
  <1>2. CASE Returns(FALSE) /\ UNCHANGED <<mem, calls, texts>>
    <2>1. Holds(mem', buffer_size, calls') /\ texts' \in 0..MaxTexts
      BY <1>2 DEF JsonState
    <2> QED
      BY <1>2, <2>1, ReturnsKeeps
  <1> QED
    BY <1>1, <1>2 DEF StartString

(* Json_endString does,                                                               *)
LEMMA EndStringKeeps ==
    ASSUME JsonState, EndString
    PROVE  JsonState'
  <1>1. CASE /\ buffer_size >= 2 + Length
             /\ mem' = Copied(mem, Length, <<"}">>)
             /\ calls' = Append(calls, [kind |-> "close"])
             /\ Returns(TRUE) /\ UNCHANGED texts
    <2>1. Holds(mem', buffer_size, calls')
      BY <1>1, LengthAndText, HoldsEnd DEF JsonState
    <2>2. texts' \in 0..MaxTexts
      BY <1>1 DEF JsonState
    <2> QED
      BY <1>1, <2>1, <2>2, ReturnsKeeps
  <1>2. CASE Returns(FALSE) /\ UNCHANGED <<mem, calls, texts>>
    <2>1. Holds(mem', buffer_size, calls') /\ texts' \in 0..MaxTexts
      BY <1>2 DEF JsonState
    <2> QED
      BY <1>2, <2>1, ReturnsKeeps
  <1> QED
    BY <1>1, <1>2 DEF EndString

(* What becomes of a pair that is asked for when no comma is needed.                  *)
LEMMA AskedWithoutComma ==
    ASSUME NEW m, NEW size, NEW c, Holds(m, size, c), ~EndsInPair(c), NEW l, l = LengthOf(m),
           NEW key \in Key, NEW val \in Value, NEW n, NEW d,
           \/ /\ 5 + Len(key) + Len(val) + 1 + l <= size
              /\ n = Copied(m, l, Pair(key, val)) /\ d = Append(c, PairCall(key, val))
           \/ /\ n = m
              /\ d = Append(c, Refused) /\ (c = <<>> \/ c[Len(c)].kind # "refused")
           \/ n = m /\ d = c
    PROVE  Holds(n, size, d)
  <1>1. CASE /\ 5 + Len(key) + Len(val) + 1 + l <= size
             /\ n = Copied(m, l, Pair(key, val)) /\ d = Append(c, PairCall(key, val))
    BY <1>1, HoldsPair
  <1>2. CASE /\ n = m
             /\ d = Append(c, Refused) /\ (c = <<>> \/ c[Len(c)].kind # "refused")
    BY <1>2, HoldsRefused
  <1>3. CASE n = m /\ d = c
    BY <1>3
  <1> QED
    BY <1>1, <1>2, <1>3

(* Json_addData does, whatever byte lies before the buffer,                           *)
LEMMA AddDataKeeps ==
    ASSUME JsonState, NEW key \in Key, NEW val \in Value, AddData(key, val)
    PROVE  JsonState'
  <1> DEFINE l == LengthOf(mem)
             size == buffer_size
             comma == Copied(mem, l, <<",">>)
             x == PairCall(key, val)
             strayCall == [kind |-> "stray"]
             strays == Append(calls, strayCall)
             wanted == 5 + Len(key) + Len(val) + 1
  <1>1. PICK separate \in Separate :
        LET index == IF separate THEN l + 1 ELSE l
            separated == IF separate THEN comma ELSE mem
            stray == IF separate /\ l = 0 THEN <<strayCall>> ELSE <<>>
        IN  \/ /\ wanted + index <= size
               /\ mem' = Copied(separated, index, Pair(key, val))
               /\ calls' = calls \o stray \o <<x>>
               /\ Returns(TRUE)
            \/ /\ wanted + index > size
               /\ mem' = separated
               /\ calls' = calls \o stray \o Refusal
               /\ Returns(FALSE)
    BY LengthAndText DEF AddData, PairCall
  <1>2. Holds(mem, size, calls) /\ calls \in Seq(Call)
    BY DEF JsonState, Holds
  <1>3. texts' \in 0..MaxTexts
    BY DEF JsonState, AddData
  <1>4. separate \in BOOLEAN /\ (separate => EndsInPair(calls) \/ l = 0) /\ (~separate => ~EndsInPair(calls))
    <2>1. CASE l = 0
      <3>1. Separate = BOOLEAN
        BY <2>1, LengthAndText DEF Separate
      <3> QED
        BY <1>2, <2>1, <3>1, HoldsFacts
    <2>2. CASE l # 0
      <3>1. Separate = {mem[l - 1] = QUOTE}
        BY <2>2, LengthAndText DEF Separate
      <3>2. EndsInPair(calls) <=> mem[l - 1] = QUOTE
        BY <1>2, <2>2, HoldsFacts
      <3>3. separate = (mem[l - 1] = QUOTE)
        BY <3>1
      <3> QED
        BY <3>2, <3>3
    <2> QED
      BY <2>1, <2>2
  <1>5. /\ x \in Call /\ strayCall \in Call /\ Refused \in Call
        /\ calls \o <<>> = calls /\ strays \in Seq(Call)
        /\ calls \o <<x>> = Append(calls, x) /\ calls \o <<strayCall>> = strays
    <2>1. x \in Call /\ strayCall \in Call /\ Refused \in Call
      BY CallTypes
    <2> HIDE DEF x, strayCall
    <2> QED
      BY <1>2, <2>1, AppendIsConcat, AppendProperties, ConcatEmptySeq
  <1>6. \/ Refusal = <<>> /\ calls # <<>> /\ calls[Len(calls)].kind = "refused"
        \/ Refusal = <<Refused>> /\ (calls = <<>> \/ calls[Len(calls)].kind # "refused")
    BY DEF Refusal, Refused, Last
  <1> HIDE DEF l, comma, x, strayCall, strays
  <1>7. Holds(mem', size, calls') /\ (Returns(TRUE) \/ Returns(FALSE))
    <2>1. CASE separate /\ EndsInPair(calls)
      <3>1. l # 0
        BY <1>2, <2>1, HoldsFacts DEF l
      <3>2. calls[Len(calls)].kind # "refused" /\ calls # <<>>
        BY <2>1 DEF EndsInPair
      <3>3. calls \o Refusal = Append(calls, Refused)
        BY <1>2, <1>5, <1>6, <3>2, AppendIsConcat
      <3>4. CASE /\ wanted + (l + 1) <= size /\ mem' = Copied(comma, l + 1, Pair(key, val))
                 /\ calls' = Append(calls, x) /\ Returns(TRUE)
        BY <1>2, <2>1, <3>4, HoldsPairBehindPair DEF l, comma, x
      <3>5. CASE mem' = comma /\ calls' = Append(calls, Refused) /\ Returns(FALSE)
        BY <1>2, <2>1, <3>5, HoldsComma DEF l, comma
      <3> QED
        BY <1>1, <1>5, <2>1, <3>1, <3>3, <3>4, <3>5
    <2>2. CASE separate /\ l = 0
      <3>1. Holds(comma, size, strays) /\ LengthOf(comma) = l + 1 /\ ~EndsInPair(strays)
            /\ strays[Len(strays)].kind = "stray"
        <4>1. l + 1 = 1
          BY <2>2
        <4> QED
          BY <1>2, <2>2, <4>1, HoldsStray DEF l, comma, strays, strayCall
      <3>2. strays \o <<x>> = Append(strays, x) /\ strays \o <<>> = strays
            /\ strays \o <<Refused>> = Append(strays, Refused)
        BY <1>5, AppendIsConcat, ConcatEmptySeq
      <3>3. CASE /\ wanted + (l + 1) <= size /\ mem' = Copied(comma, l + 1, Pair(key, val))
                 /\ calls' = Append(strays, x) /\ Returns(TRUE)
        BY <3>1, <3>3, AskedWithoutComma DEF x
      <3>4. CASE mem' = comma /\ calls' \in {strays, Append(strays, Refused)} /\ Returns(FALSE)
        BY <3>1, <3>4, AskedWithoutComma
      <3>5. strays \o Refusal \in {strays, Append(strays, Refused)}
        BY <1>6, <3>2
      <3> QED
        BY <1>1, <1>5, <2>2, <3>2, <3>3, <3>4, <3>5
    <2>3. CASE ~separate
      <3>1. ~EndsInPair(calls)
        BY <1>4, <2>3
      <3>2. CASE /\ wanted + l <= size /\ mem' = Copied(mem, l, Pair(key, val))
                 /\ calls' = Append(calls, x) /\ Returns(TRUE)
        BY <1>2, <3>1, <3>2, AskedWithoutComma DEF x, l
      <3>3. CASE mem' = mem /\ calls' = calls \o Refusal /\ Returns(FALSE)
        <4>1. \/ calls' = calls
              \/ calls' = Append(calls, Refused) /\ (calls = <<>> \/ calls[Len(calls)].kind # "refused")
          BY <1>2, <1>5, <1>6, <3>3, AppendIsConcat
        <4> QED
          BY <1>2, <3>1, <3>3, <4>1, AskedWithoutComma
      <3> QED
        BY <1>1, <1>5, <2>3, <3>2, <3>3
    <2> QED
      BY <1>4, <2>1, <2>2, <2>3
  <1> QED
    BY <1>3, <1>7, ReturnsKeeps

(* The least of some natural numbers.                                                 *)
LEMMA MinIsLeast ==
    ASSUME NEW T, T \subseteq Nat, T # {}
    PROVE  Min(T) \in T /\ \A k \in T : Min(T) <= k
  <1>1. PICK n \in T : \A k \in T : ~(k < n)
    BY LeastNatural
  <1>2. n \in Nat /\ \A k \in T : k \in Nat
    OBVIOUS
  <1>3. n \in T /\ \A k \in T : n <= k
    BY <1>1, <1>2
  <1> QED
    BY <1>3 DEF Min

(* Where the search for a quote ends.                                                 *)
LEMMA FirstQuoteIs ==
    ASSUME NEW from \in Nat, NEW n \in Nat
    PROVE  /\ FirstQuote(from, n) \in Nat /\ FirstQuote(from, n) <= n
           /\ from <= n => from <= FirstQuote(from, n)
           /\ FirstQuote(from, n) < n => mem[FirstQuote(from, n)] = QUOTE
           /\ \A k \in from..(n - 1) : k < FirstQuote(from, n) => mem[k] # QUOTE
  <1> DEFINE quotes == {k \in from..(n - 1) : mem[k] = QUOTE}
  <1>1. CASE quotes = {}
    <2>1. FirstQuote(from, n) = n
      BY <1>1 DEF FirstQuote
    <2> QED
      BY <1>1, <2>1
  <1>2. CASE quotes # {}
    <2>1. FirstQuote(from, n) = Min(quotes)
      BY <1>2 DEF FirstQuote
    <2>2. quotes \subseteq Nat
      OBVIOUS
    <2>3. Min(quotes) \in quotes /\ \A k \in quotes : Min(quotes) <= k
      <3> HIDE DEF quotes
      <3> QED
        BY <1>2, <2>2, MinIsLeast
    <2>4. Min(quotes) \in from..(n - 1) /\ mem[Min(quotes)] = QUOTE
      BY <2>3
    <2>5. ASSUME NEW k \in from..(n - 1), k < Min(quotes) PROVE mem[k] # QUOTE
      <3>1. k \notin quotes
        <4> HIDE DEF quotes
        <4>1. k \in Int /\ Min(quotes) \in Int
          BY <2>4
        <4> QED
          BY <2>3, <2>5, <4>1
      <3> QED
        BY <3>1
    <2> HIDE DEF quotes
    <2> QED
      BY <2>1, <2>4, <2>5
  <1> QED
    BY <1>1, <1>2

(* and Json_findByKey does, in the text and in the whole buffer.                      *)
LEMMA FindByKeyKeeps ==
    ASSUME JsonState, NEW key \in Key, NEW n \in {Length, buffer_size}, NEW max \in ValueSize,
           FindByKey(key, n, max)
    PROVE  JsonState'
  <1> DEFINE size == buffer_size
             occurrences == Occurrences(key, n)
             len == Len(key)
             behind  == Min(occurrences) + len
             isKey   == occurrences # {} /\ mem[behind] = QUOTE
             start   == FirstQuote(behind + 1, n) + 1
             end     == FirstQuote(start, n)
             copied  == Min({end - start, max})
             found   == start < n /\ end < n /\ Fits(end - start, max)
             chars   == [k \in 1..copied |-> mem[start + k - 1]]
  <1>1. /\ IF isKey
           THEN /\ status' = found
                /\ value' = IF start >= n THEN <<>>
                            ELSE IF found THEN Append(chars, NUL) ELSE chars
           ELSE status' = FALSE /\ value' = <<>>
        /\ asked' = [key |-> key, searched |-> n, max |-> max]
        /\ UNCHANGED <<mem, buffer_size, calls, texts>>
    BY DEF FindByKey
  <1>2. /\ size \in Nat /\ mem \in [0..size -> Char] /\ n \in 0..size /\ n \in Nat /\ n <= size
        /\ max \in Nat /\ len \in Nat \ {0}
    <2>1. Holds(mem, size, calls)
      BY DEF JsonState
    <2>2. size \in Nat \ {0} /\ mem \in [0..size -> Char] /\ LengthOf(mem) \in 0..size
      BY <2>1, HoldsFacts
    <2>3. size \in Nat
      BY <2>2
    <2>4. n \in 0..size
      <3>1. size \in 0..size
        BY <2>3
      <3> QED
        BY <2>2, <3>1, LengthAndText
    <2>5. n \in Nat /\ n <= size
      <3> HIDE DEF size
      <3> QED
        BY <2>3, <2>4
    <2>6. max \in Nat
      BY JsonAssumption
    <2>7. len \in Nat \ {0}
      BY JsonAssumption, EmptySeq
    <2> QED
      BY <2>2, <2>3, <2>4, <2>5, <2>6, <2>7
  <1>3. ASSUME isKey, ~(start >= n) PROVE found \in BOOLEAN /\ chars \in Seq(Char) /\ Append(chars, NUL) \in Seq(Char)
    <2>1. behind \in Nat /\ behind < n
      <3>1. occurrences \subseteq 0..(n - len - 1) /\ occurrences # {}
        BY <1>3 DEF Occurrences
      <3>2. 0..(n - len - 1) \subseteq Nat
        OBVIOUS
      <3>3. Min(occurrences) \in 0..(n - len - 1)
        <4>1. occurrences \subseteq Nat
          BY <3>1, <3>2
        <4> HIDE DEF occurrences
        <4> QED
          BY <3>1, <4>1, MinIsLeast
      <3>4. len \in Nat /\ n \in Nat
        BY <1>2
      <3> HIDE DEF occurrences, len
      <3> QED
        BY <3>3, <3>4
    <2>2. start \in Nat
      <3>1. behind + 1 \in Nat /\ n \in Nat
        BY <1>2, <2>1
      <3> HIDE DEF behind
      <3>2. FirstQuote(behind + 1, n) \in Nat
        BY <3>1, FirstQuoteIs
      <3> QED
        BY <3>2
    <2>3. start < n /\ n \in Nat /\ n <= size /\ size \in Nat /\ max \in Nat
      <3>1. n \in Nat /\ n <= size /\ size \in Nat /\ max \in Nat
        BY <1>2
      <3> HIDE DEF start
      <3> QED
        BY <1>3, <2>2, <3>1
    <2>4. end \in Nat /\ start <= end /\ end <= n
      <3>1. start \in Nat /\ n \in Nat /\ start < n
        BY <2>2, <2>3
      <3> HIDE DEF start
      <3>2. start <= n
        BY <3>1
      <3>3. end \in Nat /\ end <= n /\ (start <= n => start <= end)
        BY <3>1, FirstQuoteIs
      <3> QED
        BY <3>2, <3>3
    <2> HIDE DEF start, end, size
    <2>5. copied \in Nat /\ copied <= end - start
      <3> DEFINE T == {end - start, max}
      <3>1. end - start \in Nat
        BY <2>2, <2>4
      <3>2. T \subseteq Nat /\ T # {} /\ end - start \in T
        BY <2>3, <3>1
      <3> HIDE DEF T
      <3>3. Min(T) \in T /\ Min(T) <= end - start
        BY <3>2, MinIsLeast
      <3>4. Min(T) \in Nat
        BY <3>2, <3>3
      <3> QED
        BY <3>3, <3>4 DEF T
    <2> HIDE DEF copied
    <2>6. ASSUME NEW k \in 1..copied PROVE mem[start + k - 1] \in Char
      <3>1. start + k - 1 \in 0..size
        BY <2>2, <2>3, <2>4, <2>5
      <3> QED
        BY <1>2, <3>1
    <2>7. chars \in [1..copied -> Char]
      BY <2>6
    <2>8. chars \in Seq(Char)
      BY <2>5, <2>7
    <2>9. NUL \in Char
      BY DEF Char
    <2>10. Append(chars, NUL) \in Seq(Char)
      <3> HIDE DEF chars
      <3> QED
        BY <2>8, <2>9, AppendProperties
    <2> QED
      BY <2>8, <2>10
  <1>4. status' \in BOOLEAN /\ value' \in Seq(Char)
    <2>1. <<>> \in Seq(Char)
      OBVIOUS
    <2>2. CASE isKey /\ ~(start >= n)
      <3> HIDE DEF isKey, start, found, chars
      <3> QED
        BY <1>1, <1>3, <2>2
    <2>3. CASE isKey /\ start >= n
      <3>1. found \in BOOLEAN
        OBVIOUS
      <3> HIDE DEF isKey, start, found, chars
      <3> QED
        BY <1>1, <2>1, <2>3, <3>1
    <2>4. CASE ~isKey
      <3> HIDE DEF isKey, start, found, chars
      <3> QED
        BY <1>1, <2>1, <2>4
    <2> QED
      BY <2>2, <2>3, <2>4
  <1>5. asked'.key = key /\ asked'.searched = n
    BY <1>1
  <1> HIDE DEF isKey, start, found, chars
  <1> QED
    BY <1>1, <1>2, <1>4, <1>5 DEF JsonState

(* Every step keeps the invariant,                                                    *)
LEMMA JsonInvNext == JsonInv /\ [JsonNext]_jvars => JsonInv'
  <1>1. JsonInv <=> JsonState
    BY JsonInvIs
  <1>2. JsonInv' <=> JsonState'
    BY JsonInvIs, PTL
  <1> SUFFICES ASSUME JsonState, [JsonNext]_jvars PROVE JsonState'
    BY <1>1, <1>2
  <1>3. CASE UNCHANGED jvars
    BY <1>3 DEF JsonState, jvars
  <1>4. CASE StartString
    BY <1>4, StartStringKeeps
  <1>5. CASE EndString
    BY <1>5, EndStringKeeps
  <1>6. CASE \E key \in Key, val \in Value : AddData(key, val)
    BY <1>6, AddDataKeeps
  <1>7. CASE \E key \in Key, n \in {Length, buffer_size}, max \in ValueSize : FindByKey(key, n, max)
    BY <1>7, FindByKeyKeeps
  <1> QED
    BY <1>3, <1>4, <1>5, <1>6, <1>7 DEF JsonNext

(* and so it always holds.                                                            *)
LEMMA JsonInvHolds == JsonSpec => []JsonInv
  BY JsonInvInit, JsonInvNext, PTL DEF JsonSpec

(* There is one place in a string of one character.                                   *)
LEMMA JustOne == \A k \in 1..1 : k = 1
  OBVIOUS

(* A text that Json_startString began still begins with its brace; so the buffer was  *)
(* never empty since, and no comma came in that nobody asked for.                     *)
BegunInv == texts > 0 => mem[0] = "{" /\ \A n \in DOMAIN calls : calls[n].kind # "stray"

(* Writing behind the first character leaves it alone.                                *)
LEMMA FirstStays ==
    ASSUME NEW size \in Nat, NEW m \in [0..size -> Char], NEW at \in Nat, at # 0,
           NEW s \in Seq(Visible)
    PROVE  Copied(m, at, s)[0] = m[0] /\ Copied(m, at, s) \in [0..size -> Char]
  <1>1. 0 \in 0..size /\ 0 < at
    OBVIOUS
  <1> QED
    BY <1>1, CopiedType

(* A brace copied to the front is there.                                              *)
LEMMA FirstIsBrace ==
    ASSUME NEW size \in Nat, NEW m \in [0..size -> Char]
    PROVE  Copied(m, 0, <<"{">>)[0] = "{"
  <1> DEFINE s == <<"{">>
  <1>1. s \in Seq(Visible) /\ Len(s) = 1
    BY PunctuationType
  <1>1a. s[1] = "{"
    BY PunctuationType
  <1> HIDE DEF s
  <1>2. 0 \in 0..size /\ 0 \in 0..(0 + Len(s) - 1) /\ 0 - 0 + 1 = 1
    BY <1>1
  <1>3. Copied(m, 0, s)[0] = s[0 - 0 + 1]
    <2>1. 0 \in Nat
      OBVIOUS
    <2>2. \A k \in 0..size : k \in 0..(0 + Len(s) - 1) => Copied(m, 0, s)[k] = s[k - 0 + 1]
      BY <1>1, <2>1, CopiedType, ZenonT(30)
    <2> QED
      BY <1>2, <2>2, Zenon
  <1> QED
    BY <1>2, <1>3, <1>1a DEF s

(* No call but Json_startString writes to the front of a text that has been begun, and *)
(* Json_addData does not look before the buffer then.                                 *)
LEMMA BegunInvNext == JsonInv /\ BegunInv /\ [JsonNext]_jvars => BegunInv'
  <1>0. SUFFICES ASSUME JsonInv, BegunInv, [JsonNext]_jvars, texts' > 0
                 PROVE  mem'[0] = "{" /\ \A n \in DOMAIN calls' : calls'[n].kind # "stray"
    BY DEF BegunInv
  <1>1. /\ buffer_size \in Nat /\ mem \in [0..buffer_size -> Char] /\ calls \in Seq(Call)
        /\ Length \in Nat /\ mem[Length] = NUL
    <2>1. buffer_size \in Nat /\ Holds(mem, buffer_size, calls)
      BY <1>0, JsonInvIs DEF JsonState
    <2>2. mem \in [0..buffer_size -> Char] /\ IsLength(mem, LengthOf(mem)) /\ calls \in Seq(Call)
      BY <2>1 DEF Holds
    <2>3. LengthOf(mem) \in 0..buffer_size /\ mem[LengthOf(mem)] = NUL
      BY <2>2 DEF IsLength
    <2> QED
      BY <2>1, <2>2, <2>3, LengthAndText
  <1>1a. Length \in Nat
    BY <1>1
  <1>1b. buffer_size \in Nat
    BY <1>1
  <1>1c. mem \in [0..buffer_size -> Char]
    BY <1>1
  <1>2. ASSUME texts > 0
        PROVE  /\ mem[0] = "{" /\ \A n \in DOMAIN calls : calls[n].kind # "stray"
               /\ Length # 0
    <2>1. mem[0] = "{" /\ \A n \in DOMAIN calls : calls[n].kind # "stray"
      BY <1>0, <1>2 DEF BegunInv
    <2>2. "{" # NUL
      BY DEF NUL
    <2> QED
      BY <1>1, <2>1, <2>2
  <1>3. CASE UNCHANGED <<mem, calls, texts>>
    BY <1>0, <1>2, <1>3
  <1>4. CASE /\ mem' = Copied(mem, 0, <<"{">>)
             /\ calls' = <<[kind |-> "open"]>>
    <2>1. mem'[0] = "{"
      <3>1. Copied(mem, 0, <<"{">>)[0] = "{"
        BY <1>1b, <1>1c, FirstIsBrace, Zenon
      <3> QED
        BY <1>4, <3>1
    <2>2. \A n \in DOMAIN calls' : calls'[n].kind # "stray"
      <3> DEFINE x == [kind |-> "open"]
      <3>1. calls' = <<x>> /\ x.kind # "stray"
        BY <1>4
      <3> HIDE DEF x
      <3>2. DOMAIN calls' = 1..1 /\ calls'[1] = x
        BY <3>1
      <3> QED
        BY <3>1, <3>2, JustOne
    <2> QED
      BY <2>1, <2>2
  <1>5. ASSUME texts > 0, NEW x, x.kind # "stray", calls' = Append(calls, x)
        PROVE  \A n \in DOMAIN calls' : calls'[n].kind # "stray"
    <2>1. \A n \in DOMAIN calls : calls[n].kind # "stray"
      BY <1>2, <1>5
    <2>2. DOMAIN calls = 1..Len(calls) /\ Len(calls) \in Nat
      BY <1>1
    <2>3. DOMAIN calls' = 1..(Len(calls) + 1) /\ calls'[Len(calls) + 1] = x
          /\ \A n \in 1..Len(calls) : calls'[n] = calls[n]
      BY <1>1, <1>5
    <2> QED
      BY <1>5, <2>1, <2>2, <2>3
  <1>6. CASE EndString
    <2>1. \/ UNCHANGED <<mem, calls, texts>>
          \/ /\ mem' = Copied(mem, Length, <<"}">>) /\ calls' = Append(calls, [kind |-> "close"])
             /\ texts' = texts
      BY <1>6 DEF EndString
    <2>2. CASE /\ mem' = Copied(mem, Length, <<"}">>) /\ calls' = Append(calls, [kind |-> "close"])
               /\ texts' = texts
      <3>1. texts > 0 /\ [kind |-> "close"].kind # "stray"
        BY <1>0, <2>2
      <3> DEFINE s == <<"}">>
      <3>2. s \in Seq(Visible)
        BY PunctuationType
      <3>3. Length # 0
        BY <1>2, <3>1
      <3> HIDE DEF s
      <3>4. Copied(mem, Length, s)[0] = mem[0]
        BY <1>1a, <1>1b, <1>1c, <3>2, <3>3, FirstStays, SMTT(60)
      <3>5. mem'[0] = mem[0]
        BY <2>2, <3>4 DEF s
      <3> QED
        BY <1>2, <1>5, <2>2, <3>1, <3>5
    <2> QED
      BY <1>3, <2>1, <2>2
  <1>7. ASSUME NEW key \in Key, NEW val \in Value, AddData(key, val)
        PROVE  mem'[0] = "{" /\ \A n \in DOMAIN calls' : calls'[n].kind # "stray"
    <2> DEFINE comma == Copied(mem, Length, <<",">>)
               x == PairCall(key, val)
    <2>1. texts > 0
      BY <1>0, <1>7 DEF AddData
    <2>2. Length # 0 /\ mem[0] = "{"
      BY <1>2, <2>1
    <2>3. PICK separate \in Separate :
              LET index == IF separate THEN Length + 1 ELSE Length
                  separated == IF separate THEN comma ELSE mem
              IN  \/ mem' = Copied(separated, index, Pair(key, val)) /\ calls' = calls \o <<>> \o <<x>>
                  \/ mem' = separated /\ calls' = calls \o <<>> \o Refusal
      BY <1>7, <2>2 DEF AddData, PairCall
    <2>4. comma[0] = "{" /\ comma \in [0..buffer_size -> Char]
      <3> DEFINE s == <<",">>
      <3>1. s \in Seq(Visible)
        BY PunctuationType
      <3>2. Length # 0
        BY <2>2
      <3> HIDE DEF s
      <3>3. Copied(mem, Length, s)[0] = mem[0] /\ Copied(mem, Length, s) \in [0..buffer_size -> Char]
        BY <1>1a, <1>1b, <1>1c, <3>1, <3>2, FirstStays, SMTT(60)
      <3> QED
        BY <2>2, <3>3 DEF s
    <2> HIDE DEF comma
    <2>5. Pair(key, val) \in Seq(Visible)
      BY PairType
    <2>6. mem'[0] = "{"
      <3>1. ASSUME NEW at \in Nat, at # 0, NEW m \in [0..buffer_size -> Char], m[0] = "{"
            PROVE  Copied(m, at, Pair(key, val))[0] = "{"
        <4>1. at # 0
          BY <3>1
        <4>2. Copied(m, at, Pair(key, val))[0] = m[0]
          BY <1>1b, <2>5, <4>1, FirstStays, SMTT(60)
        <4> QED
          BY <3>1, <4>2
      <3>2. Length \in Nat /\ Length # 0 /\ Length + 1 \in Nat /\ Length + 1 # 0
        <4>1. Length # 0
          BY <2>2
        <4> QED
          BY <1>1a, <4>1
      <3>3. CASE separate
        <4>1. mem' = Copied(comma, Length + 1, Pair(key, val)) \/ mem' = comma
          BY <2>3, <3>3
        <4> QED
          BY <2>4, <3>1, <3>2, <4>1
      <3>4. CASE ~separate
        <4>1. mem' = Copied(mem, Length, Pair(key, val)) \/ mem' = mem
          BY <2>3, <3>4
        <4> QED
          BY <1>1, <2>2, <3>1, <3>2, <4>1
      <3> QED
        BY <3>3, <3>4
    <2>7. /\ calls \o <<>> = calls /\ calls \o <<x>> = Append(calls, x)
          /\ calls \o <<Refused>> = Append(calls, Refused)
      <3>1. x \in Call /\ Refused \in Call
        BY CallTypes
      <3> HIDE DEF x
      <3> QED
        BY <1>1, <3>1, AppendIsConcat, ConcatEmptySeq
    <2>8. x.kind # "stray" /\ Refused.kind # "stray"
      BY DEF PairCall, Refused
    <2>9. Refusal \in {<<>>, <<Refused>>}
      BY DEF Refusal, Refused
    <2> HIDE DEF x
    <2>10. calls' = calls \/ calls' = Append(calls, x) \/ calls' = Append(calls, Refused)
      BY <2>3, <2>7, <2>9
    <2> QED
      BY <1>2, <1>5, <2>1, <2>6, <2>8, <2>10
  <1>8. CASE StartString
    BY <1>3, <1>4, <1>8 DEF StartString
  <1>9. CASE \E key \in Key, n \in {Length, buffer_size}, max \in ValueSize : FindByKey(key, n, max)
    <2>1. UNCHANGED <<mem, calls, texts>>
      BY <1>9 DEF FindByKey
    <2> QED
      BY <1>3, <2>1
  <1>10. CASE UNCHANGED jvars
    BY <1>3, <1>10 DEF jvars
  <1> QED
    BY <1>0, <1>6, <1>7, <1>8, <1>9, <1>10 DEF JsonNext

(* and so it always holds.                                                            *)
LEMMA BegunInvHolds == JsonSpec => [](JsonInv /\ BegunInv)
  <1>1. JsonInit => BegunInv
    <2>1. ~(0 > 0)
      OBVIOUS
    <2>2. JsonInit => texts = 0
      BY DEF JsonInit
    <2> QED
      BY <2>1, <2>2, Zenon DEF BegunInv
  <1> QED
    BY <1>1, JsonInvHolds, BegunInvNext, PTL DEF JsonSpec

(* Without stray commas, what the calls put into the text is what they asked for.      *)
LEMMA JustWhatWasAdded == JsonInv /\ BegunInv => TextSaysWhatWasAdded
  <1> SUFFICES ASSUME JsonInv, BegunInv, texts > 0 PROVE Text = AskedFor
    BY DEF TextSaysWhatWasAdded
  <1>1. \A n \in DOMAIN calls : calls[n].kind # "stray"
    BY DEF BegunInv
  <1>2. \A n \in DOMAIN calls : Contribution(n) = ContributionIn(calls, n)
    BY <1>1 DEF Contribution, ContributionIn
  <1>3. [n \in DOMAIN calls |-> Contribution(n)] = [n \in DOMAIN calls |-> ContributionIn(calls, n)]
    BY <1>2
  <1>4. AskedFor = Said(calls)
    BY <1>3 DEF AskedFor, Said
  <1> QED
    BY <1>4, LengthAndText DEF JsonInv, AllIsSaid

(* The strings s stand in the text t between quotes, string h behind the quote at     *)
(* at[h], in their order; there are no other letters and no other quotes.             *)
StandsAt(t, s, at) ==
    /\ at \in [1..Len(s) -> Int]
    /\ \A h \in 1..Len(s) :
          /\ at[h] \in 1..Len(t) /\ at[h] + Len(s[h]) + 1 \in 1..Len(t)
          /\ t[at[h]] = QUOTE /\ t[at[h] + Len(s[h]) + 1] = QUOTE
          /\ \A j \in 1..Len(s[h]) : t[at[h] + j] = s[h][j]
    /\ \A h, g \in 1..Len(s) : h < g => at[h] + Len(s[h]) + 1 < at[g]
    /\ \A k \in 1..Len(t) :
          /\ t[k] \in Letter => \E h \in 1..Len(s) : at[h] < k /\ k <= at[h] + Len(s[h])
          /\ t[k] = QUOTE => \E h \in 1..Len(s) : k = at[h] \/ k = at[h] + Len(s[h]) + 1
Laid(t, s) == \E at : StandsAt(t, s, at)

(* The characters of two texts put together.                                          *)
LEMMA ConcatAt ==
    ASSUME NEW t \in Seq(Visible), NEW x \in Seq(Visible)
    PROVE  /\ t \o x \in Seq(Visible) /\ Len(t \o x) = Len(t) + Len(x)
           /\ \A k \in 1..Len(t) : (t \o x)[k] = t[k]
           /\ \A k \in 1..Len(x) : (t \o x)[Len(t) + k] = x[k]
           /\ \A k \in 1..(Len(t) + Len(x)) : k <= Len(t) \/ k - Len(t) \in 1..Len(x)
  <1>1. Len(t) \in Nat /\ Len(x) \in Nat
    OBVIOUS
  <1>2. /\ \A k \in 1..Len(t) : k \in 1..(Len(t) + Len(x)) /\ k <= Len(t)
        /\ \A k \in 1..Len(x) : /\ Len(t) + k \in 1..(Len(t) + Len(x)) /\ ~(Len(t) + k <= Len(t))
                                /\ (Len(t) + k) - Len(t) = k
        /\ \A k \in 1..(Len(t) + Len(x)) : k <= Len(t) \/ k - Len(t) \in 1..Len(x)
    BY <1>1
  <1>3. /\ t \o x \in Seq(Visible) /\ Len(t \o x) = Len(t) + Len(x)
        /\ \A k \in 1..(Len(t) + Len(x)) : (t \o x)[k] = IF k <= Len(t) THEN t[k] ELSE x[k - Len(t)]
    BY ConcatProperties
  <1> QED
    BY <1>2, <1>3, Zenon

(* What has neither letters nor quotes does not change where the strings stand,       *)
LEMMA LaidQuiet ==
    ASSUME NEW t \in Seq(Visible), NEW s, Len(s) \in Nat, Laid(t, s), NEW x \in Seq(Visible),
           \A k \in 1..Len(x) : x[k] \notin Letter /\ x[k] # QUOTE,
           \A h \in 1..Len(s) : Len(s[h]) \in Nat
    PROVE  Laid(t \o x, s)
  <1>1. PICK at : StandsAt(t, s, at)
    BY DEF Laid
  <1> DEFINE b == t \o x
             N == Len(t)
  <1>2. /\ Len(b) = N + Len(x) /\ N \in Nat /\ Len(x) \in Nat
        /\ \A k \in 1..N : b[k] = t[k]
        /\ \A k \in 1..Len(x) : b[N + k] = x[k]
    BY ConcatAt
  <1>3. /\ at \in [1..Len(s) -> Int]
        /\ \A h \in 1..Len(s) :
              /\ at[h] \in 1..N /\ at[h] + Len(s[h]) + 1 \in 1..N
              /\ t[at[h]] = QUOTE /\ t[at[h] + Len(s[h]) + 1] = QUOTE
              /\ \A j \in 1..Len(s[h]) : t[at[h] + j] = s[h][j]
        /\ \A h, g \in 1..Len(s) : h < g => at[h] + Len(s[h]) + 1 < at[g]
        /\ \A k \in 1..N :
              /\ t[k] \in Letter => \E h \in 1..Len(s) : at[h] < k /\ k <= at[h] + Len(s[h])
              /\ t[k] = QUOTE => \E h \in 1..Len(s) : k = at[h] \/ k = at[h] + Len(s[h]) + 1
    BY <1>1, Zenon DEF StandsAt
  <1> HIDE DEF b, N
  <1>4. ASSUME NEW h \in 1..Len(s)
        PROVE  /\ at[h] \in 1..Len(b) /\ at[h] + Len(s[h]) + 1 \in 1..Len(b)
               /\ b[at[h]] = QUOTE /\ b[at[h] + Len(s[h]) + 1] = QUOTE
               /\ \A j \in 1..Len(s[h]) : b[at[h] + j] = s[h][j]
    <2>1. at[h] \in 1..N /\ at[h] + Len(s[h]) + 1 \in 1..N /\ Len(s[h]) \in Nat /\ at[h] \in Int
      BY <1>3
    <2>2. at[h] \in 1..Len(b) /\ at[h] + Len(s[h]) + 1 \in 1..Len(b)
      BY <1>2, <2>1
    <2>3. \A j \in 1..Len(s[h]) : at[h] + j \in 1..N
      BY <1>2, <2>1, SMTT(60)
    <2> QED
      BY <1>2, <1>3, <2>1, <2>2, <2>3, Zenon
  <1>5. ASSUME NEW k \in 1..Len(b), b[k] \in Letter \/ b[k] = QUOTE PROVE k \in 1..N /\ b[k] = t[k]
    <2>1. CASE k <= N
      BY <1>2, <2>1
    <2>2. CASE ~(k <= N)
      <3>1. k - N \in 1..Len(x) /\ N + (k - N) = k
        BY <1>2, <2>2
      <3> QED
        BY <1>2, <1>5, <3>1
    <2> QED
      BY <2>1, <2>2
  <1>6. ASSUME NEW k \in 1..Len(b)
        PROVE  /\ b[k] \in Letter => \E h \in 1..Len(s) : at[h] < k /\ k <= at[h] + Len(s[h])
               /\ b[k] = QUOTE => \E h \in 1..Len(s) : k = at[h] \/ k = at[h] + Len(s[h]) + 1
    BY <1>3, <1>5, Zenon
  <1>7. StandsAt(b, s, at)
    <2>1. at \in [1..Len(s) -> Int] /\ \A h, g \in 1..Len(s) : h < g => at[h] + Len(s[h]) + 1 < at[g]
      BY <1>3
    <2> QED
      BY <1>4, <1>6, <2>1, Zenon DEF StandsAt
  <1> QED
    BY <1>7 DEF b, Laid

(* A string in quotes.                                                                *)
Quoted(v) == (<<QUOTE>> \o v) \o <<QUOTE>>

(* Its characters.                                                                    *)
LEMMA QuotedIs ==
    ASSUME NEW v \in Seq(Letter)
    PROVE  /\ Quoted(v) \in Seq(Visible) /\ Len(Quoted(v)) = Len(v) + 2 /\ Len(v) \in Nat
           /\ v \in Seq(Visible) /\ \A k \in 1..Len(v) : v[k] \in Letter
           /\ Quoted(v)[1] = QUOTE /\ Quoted(v)[Len(v) + 2] = QUOTE
           /\ \A k \in 1..Len(v) : Quoted(v)[k + 1] = v[k]
  <1> DEFINE q == <<QUOTE>>
             a == q \o v
  <1>1. Letter \subseteq Visible /\ QUOTE \in Visible
    BY JsonAssumption DEF Visible, Char, QUOTE, NUL, FOREIGN
  <1>2. q \in Seq(Visible) /\ Len(q) = 1 /\ q[1] = QUOTE
    BY <1>1, Singleton
  <1>3. v \in Seq(Visible) /\ Len(v) \in Nat /\ \A k \in 1..Len(v) : v[k] \in Letter
    <2>1. v \in Seq(Visible) /\ Len(v) \in Nat
      BY <1>1
    <2> QED
      BY <2>1, ElementOfSeq
  <1> HIDE DEF q
  <1>4. /\ a \in Seq(Visible) /\ Len(a) = Len(q) + Len(v)
        /\ \A k \in 1..Len(q) : a[k] = q[k]
        /\ \A k \in 1..Len(v) : a[Len(q) + k] = v[k]
    <2>1. q \in Seq(Visible) /\ v \in Seq(Visible)
      BY <1>2, <1>3
    <2> QED
      BY <2>1, ConcatAt, Zenon
  <1> HIDE DEF a
  <1>5. /\ a \o q \in Seq(Visible) /\ Len(a \o q) = Len(a) + Len(q)
        /\ \A k \in 1..Len(a) : (a \o q)[k] = a[k]
        /\ \A k \in 1..Len(q) : (a \o q)[Len(a) + k] = q[k]
    <2>1. a \in Seq(Visible) /\ q \in Seq(Visible)
      BY <1>2, <1>4
    <2> QED
      BY <2>1, ConcatAt, Zenon
  <1>6. Quoted(v) = a \o q
    BY DEF Quoted, a, q
  <1>7. /\ 1 \in 1..Len(q) /\ Len(a) = Len(v) + 1 /\ 1 \in 1..Len(a)
        /\ Len(a) + Len(q) = Len(v) + 2 /\ Len(a) + 1 = Len(v) + 2
    BY <1>2, <1>3, <1>4
  <1>8. \A k \in 1..Len(v) : Len(q) + k \in 1..Len(a) /\ Len(q) + k = k + 1
    BY <1>2, <1>3, <1>4
  <1>9. \A k \in 1..Len(v) : (a \o q)[k + 1] = v[k]
    BY <1>4, <1>5, <1>8, Zenon
  <1>10. (a \o q)[1] = QUOTE /\ (a \o q)[Len(v) + 2] = QUOTE
    <2>1. (a \o q)[1] = a[1] /\ a[1] = q[1]
      BY <1>4, <1>5, <1>7
    <2>2. (a \o q)[Len(a) + 1] = q[1]
      BY <1>5, <1>7
    <2> QED
      BY <1>2, <1>7, <2>1, <2>2
  <1> QED
    BY <1>3, <1>5, <1>6, <1>7, <1>9, <1>10, Zenon

(* and a string in quotes behind the text stands behind the others.                   *)
LEMMA LaidString ==
    ASSUME NEW t \in Seq(Visible), NEW s \in Seq(Seq(Letter)), Laid(t, s), NEW v \in Seq(Letter)
    PROVE  Laid(t \o Quoted(v), Append(s, v))
  <1>1. PICK at : StandsAt(t, s, at)
    BY DEF Laid
  <1> DEFINE b == t \o Quoted(v)
             r == Append(s, v)
             N == Len(t)
             M == Len(v)
             n == Len(s)
             to == [h \in 1..(n + 1) |-> IF h = n + 1 THEN N + 1 ELSE at[h]]
  <1>2. /\ Len(b) = N + (M + 2) /\ N \in Nat /\ M \in Nat
        /\ \A k \in 1..N : b[k] = t[k]
        /\ \A k \in 1..(M + 2) : b[N + k] = Quoted(v)[k]
    <2>1. Quoted(v) \in Seq(Visible) /\ Len(Quoted(v)) = M + 2 /\ M \in Nat /\ N \in Nat
      BY QuotedIs
    <2>2. /\ Len(b) = Len(t) + Len(Quoted(v))
          /\ \A k \in 1..Len(t) : b[k] = t[k]
          /\ \A k \in 1..Len(Quoted(v)) : b[Len(t) + k] = Quoted(v)[k]
      BY <2>1, ConcatAt, Zenon
    <2> QED
      BY <2>1, <2>2, Zenon
  <1>3. /\ Quoted(v)[1] = QUOTE /\ Quoted(v)[M + 2] = QUOTE
        /\ \A k \in 1..M : Quoted(v)[k + 1] = v[k]
        /\ \A k \in 1..M : v[k] \in Letter
    BY QuotedIs
  <1>4. Len(r) = n + 1 /\ n \in Nat /\ r[n + 1] = v /\ \A h \in 1..n : r[h] = s[h]
    BY AppendProperties
  <1>5. \A h \in 1..n : Len(s[h]) \in Nat
    <2>1. \A h \in 1..n : s[h] \in Seq(Letter)
      BY ElementOfSeq
    <2> QED
      BY <2>1
  <1>6. /\ at \in [1..n -> Int]
        /\ \A h \in 1..n :
              /\ at[h] \in 1..N /\ at[h] + Len(s[h]) + 1 \in 1..N
              /\ t[at[h]] = QUOTE /\ t[at[h] + Len(s[h]) + 1] = QUOTE
              /\ \A j \in 1..Len(s[h]) : t[at[h] + j] = s[h][j]
        /\ \A h, g \in 1..n : h < g => at[h] + Len(s[h]) + 1 < at[g]
        /\ \A k \in 1..N :
              /\ t[k] \in Letter => \E h \in 1..n : at[h] < k /\ k <= at[h] + Len(s[h])
              /\ t[k] = QUOTE => \E h \in 1..n : k = at[h] \/ k = at[h] + Len(s[h]) + 1
    BY <1>1, Zenon DEF StandsAt
  <1> HIDE DEF b, r, N, M, n
  <1>7. to \in [1..(n + 1) -> Int] /\ to[n + 1] = N + 1 /\ \A h \in 1..n : to[h] = at[h]
    BY <1>2, <1>4, <1>6
  <1> HIDE DEF to
  <1>8. /\ b[N + 1] = QUOTE /\ b[N + 1 + M + 1] = QUOTE
        /\ \A j \in 1..M : b[N + 1 + j] = v[j]
    <2>1. /\ 1 \in 1..(M + 2) /\ M + 2 \in 1..(M + 2) /\ N + (M + 2) = N + 1 + M + 1
          /\ \A j \in 1..M : j + 1 \in 1..(M + 2) /\ N + (j + 1) = N + 1 + j
      BY <1>2
    <2> QED
      BY <1>2, <1>3, <2>1, Zenon
  <1>9. ASSUME NEW h \in 1..(n + 1)
        PROVE  /\ to[h] \in 1..Len(b) /\ to[h] + Len(r[h]) + 1 \in 1..Len(b)
               /\ b[to[h]] = QUOTE /\ b[to[h] + Len(r[h]) + 1] = QUOTE
               /\ \A j \in 1..Len(r[h]) : b[to[h] + j] = r[h][j]
    <2>1. CASE h = n + 1
      <3>1. to[h] = N + 1 /\ r[h] = v /\ Len(r[h]) = M
        BY <1>4, <1>7, <2>1 DEF M
      <3>2. N + 1 \in 1..Len(b) /\ N + 1 + M + 1 \in 1..Len(b)
        BY <1>2
      <3> QED
        BY <1>8, <3>1, <3>2, Zenon
    <2>2. CASE h # n + 1
      <3>1. h \in 1..n
        BY <1>4, <2>2
      <3>2. to[h] = at[h] /\ r[h] = s[h]
        BY <1>4, <1>7, <3>1
      <3>3. at[h] \in 1..N /\ at[h] + Len(s[h]) + 1 \in 1..N /\ Len(s[h]) \in Nat /\ at[h] \in Int
        BY <1>5, <1>6, <3>1
      <3>4. at[h] \in 1..Len(b) /\ at[h] + Len(s[h]) + 1 \in 1..Len(b)
        BY <1>2, <3>3
      <3> DEFINE m == Len(s[h])
      <3>5. \A j \in 1..m : at[h] + j \in 1..N
        <4>1. at[h] \in Int /\ at[h] >= 1 /\ m \in Nat /\ N \in Nat /\ at[h] + m + 1 <= N
          BY <1>2, <3>3
        <4> HIDE DEF m
        <4> QED
          BY <4>1
      <3>6. /\ t[at[h]] = QUOTE /\ t[at[h] + Len(s[h]) + 1] = QUOTE
            /\ \A j \in 1..Len(s[h]) : t[at[h] + j] = s[h][j]
        BY <1>6, <3>1
      <3> QED
        BY <1>2, <3>2, <3>3, <3>4, <3>5, <3>6, ZenonT(60)
    <2> QED
      BY <2>1, <2>2
  <1>10. ASSUME NEW h \in 1..(n + 1), NEW g \in 1..(n + 1), h < g
         PROVE  to[h] + Len(r[h]) + 1 < to[g]
    <2>1. h \in 1..n
      BY <1>4, <1>10
    <2>2. to[h] = at[h] /\ r[h] = s[h]
      BY <1>4, <1>7, <2>1
    <2>3. CASE g = n + 1
      <3>1. at[h] + Len(s[h]) + 1 \in 1..N
        BY <1>6, <2>1
      <3>2. at[h] + Len(s[h]) + 1 < N + 1
        BY <1>2, <3>1
      <3> QED
        BY <1>7, <2>2, <2>3, <3>2
    <2>4. CASE g # n + 1
      <3>1. g \in 1..n
        BY <1>4, <2>4, SMTT(60)
      <3> QED
        BY <1>6, <1>7, <1>10, <2>1, <2>2, <3>1
    <2> QED
      BY <2>3, <2>4
  <1>11. ASSUME NEW k \in 1..Len(b)
         PROVE  /\ b[k] \in Letter => \E h \in 1..(n + 1) : to[h] < k /\ k <= to[h] + Len(r[h])
                /\ b[k] = QUOTE => \E h \in 1..(n + 1) : k = to[h] \/ k = to[h] + Len(r[h]) + 1
    <2>1. CASE k <= N
      <3>1. k \in 1..N
        BY <1>2, <2>1
      <3>2. b[k] = t[k]
        BY <1>2, <3>1
      <3>3. \A h \in 1..n : h \in 1..(n + 1) /\ to[h] = at[h] /\ r[h] = s[h]
        BY <1>4, <1>7
      <3>4. /\ t[k] \in Letter => \E h \in 1..n : at[h] < k /\ k <= at[h] + Len(s[h])
            /\ t[k] = QUOTE => \E h \in 1..n : k = at[h] \/ k = at[h] + Len(s[h]) + 1
        BY <1>6, <3>1
      <3> QED
        BY <3>2, <3>3, <3>4, Zenon
    <2>2. CASE k = N + 1 \/ k = N + 1 + M + 1
      <3>1. n + 1 \in 1..(n + 1) /\ to[n + 1] = N + 1 /\ Len(r[n + 1]) = M
        BY <1>4, <1>7 DEF M
      <3>2. QUOTE \notin Letter
        BY JsonAssumption
      <3>3. b[k] = QUOTE
        BY <1>8, <2>2
      <3> QED
        BY <2>2, <3>1, <3>2, <3>3, Zenon
    <2>3. CASE k > N + 1 /\ k < N + 1 + M + 1
      <3>1. n + 1 \in 1..(n + 1) /\ to[n + 1] = N + 1 /\ Len(r[n + 1]) = M
        BY <1>4, <1>7 DEF M
      <3>2. k - (N + 1) \in 1..M /\ N + 1 + (k - (N + 1)) = k /\ N + 1 < k /\ k <= N + 1 + M
        BY <1>2, <2>3
      <3>3. b[k] = v[k - (N + 1)] /\ v[k - (N + 1)] \in Letter
        BY <1>3, <1>8, <3>2, Zenon
      <3>4. b[k] # QUOTE
        BY <3>3, JsonAssumption
      <3> QED
        BY <3>1, <3>2, <3>3, <3>4, Zenon
    <2>4. k <= N \/ (k = N + 1 \/ k = N + 1 + M + 1) \/ (k > N + 1 /\ k < N + 1 + M + 1)
      BY <1>2
    <2> QED
      BY <2>1, <2>2, <2>3, <2>4
  <1>12. StandsAt(b, r, to)
    BY <1>4, <1>7, <1>9, <1>10, <1>11, Zenon DEF StandsAt
  <1> QED
    BY <1>12 DEF Laid, b, r

(* Strings, for any calls.                                                            *)
NamesOf(x) == IF x.kind = "pair" THEN <<x.key, x.value>> ELSE <<>>
Names(c) == FlattenSeq([n \in DOMAIN c |-> NamesOf(c[n])])

(* What one call has to say are strings of letters.                                   *)
LEMMA NamesOfType ==
    ASSUME NEW x \in Call
    PROVE  /\ NamesOf(x) \in Seq(Seq(Letter))
           /\ x.kind # "pair" => NamesOf(x) = <<>>
           /\ x.kind = "pair" => /\ NamesOf(x) = <<x.key, x.value>>
                                 /\ x.key \in Seq(Letter) /\ x.value \in Seq(Letter)
  <1>1. CASE x.kind = "pair"
    <2>1. x.key \in Key /\ x.value \in Value
      BY <1>1, AloneType
    <2>2. x.key \in Seq(Letter) /\ x.value \in Seq(Letter)
      BY <2>1, JsonAssumption
    <2>3. \A u, v \in Seq(Letter) : <<u, v>> \in Seq(Seq(Letter))
      <3> DEFINE T == Seq(Letter)
      <3> HIDE DEF T
      <3>1. \A u, v \in T : <<u, v>> \in Seq(T)
        OBVIOUS
      <3> QED
        BY <3>1 DEF T
    <2> QED
      BY <1>1, <2>2, <2>3 DEF NamesOf
  <1>2. CASE x.kind # "pair"
    <2>1. <<>> \in Seq(Seq(Letter))
      OBVIOUS
    <2> QED
      BY <1>2, <2>1 DEF NamesOf
  <1> QED
    BY <1>1, <1>2

(* The names of one call more come behind the others.                                 *)
LEMMA NamesAppend ==
    ASSUME NEW c \in Seq(Call), NEW x \in Call
    PROVE  /\ Names(c) \in Seq(Seq(Letter))
           /\ Names(Append(c, x)) = Names(c) \o NamesOf(x)
  <1> DEFINE T == Seq(Letter)
             N == Len(c)
             a == Append(c, x)
             u == [n \in 1..N |-> NamesOf(c[n])]
             w == [n \in 1..(N + 1) |-> NamesOf(a[n])]
  <1>1. N \in Nat /\ a \in Seq(Call) /\ Len(a) = N + 1 /\ a[N + 1] = x /\ \A n \in 1..N : a[n] = c[n]
    BY AppendProperties
  <1>2. DOMAIN c = 1..N /\ DOMAIN a = 1..(N + 1)
    <2> HIDE DEF a
    <2> QED
      BY <1>1
  <1>3. \A n \in 1..N : c[n] \in Call
    BY ElementOfSeq
  <1>4. \A n \in 1..N : NamesOf(c[n]) \in Seq(T)
    BY <1>3, NamesOfType
  <1>5. NamesOf(x) \in Seq(T)
    BY NamesOfType
  <1> HIDE DEF N, a, T
  <1>6. u \in [1..N -> Seq(T)]
    BY <1>4
  <1>7. u \in Seq(Seq(T)) /\ Len(u) = N /\ \A n \in 1..N : u[n] = NamesOf(c[n])
    <2>1. \A n \in 1..N : u[n] = NamesOf(c[n])
      OBVIOUS
    <2> HIDE DEF u
    <2> DEFINE W == Seq(T)
    <2>2. u \in Seq(W) /\ Len(u) = N
      <3>1. u \in [1..N -> W] /\ N \in Nat
        BY <1>1, <1>6
      <3> HIDE DEF W
      <3> QED
        BY <3>1
    <2> QED
      BY <2>1, <2>2
  <1>8. w = Append(u, NamesOf(x))
    <2> DEFINE v == Append(u, NamesOf(x))
    <2>1. v \in Seq(Seq(T)) /\ Len(v) = N + 1 /\ v[N + 1] = NamesOf(x) /\ \A n \in 1..N : v[n] = u[n]
      <3> HIDE DEF u
      <3> QED
        BY <1>5, <1>7, AppendProperties
    <2>2. ASSUME NEW n \in 1..(N + 1) PROVE w[n] = v[n] /\ w[n] \in Seq(T)
      <3>1. w[n] = NamesOf(a[n])
        OBVIOUS
      <3> HIDE DEF w, v, u
      <3>2. CASE n = N + 1
        BY <1>1, <1>5, <2>1, <3>1, <3>2
      <3>3. CASE n # N + 1
        <4>1. n \in 1..N
          BY <1>1, <3>3
        <4> QED
          BY <1>1, <1>4, <1>7, <2>1, <3>1, <4>1
      <3> QED
        BY <3>2, <3>3
    <2>3. w \in [1..(N + 1) -> Seq(T)]
      BY <2>2
    <2> HIDE DEF w, v
    <2>4. w \in Seq(Seq(T)) /\ Len(w) = N + 1
      BY <1>1, <2>3
    <2>5. w = v
      BY <2>1, <2>2, <2>4, SeqEqual
    <2> QED
      BY <2>5 DEF v
  <1>9. Names(c) = FlattenSeq(u) /\ Names(a) = FlattenSeq(w)
    BY <1>2 DEF Names
  <1> HIDE DEF u, w
  <1>10. FlattenSeq(u) \in Seq(T) /\ FlattenSeq(Append(u, NamesOf(x))) = FlattenSeq(u) \o NamesOf(x)
    BY <1>5, <1>7, FlattenAppend
  <1> QED
    BY <1>8, <1>9, <1>10 DEF a, T

(* Texts put together, three at a time.                                               *)
LEMMA Together ==
    ASSUME NEW u \in Seq(Visible), NEW v \in Seq(Visible), NEW w \in Seq(Visible)
    PROVE  (u \o v) \o w = u \o (v \o w) /\ u \o v \in Seq(Visible) /\ v \o w \in Seq(Visible)
  BY ConcatAssociative, ConcatProperties, SMTT(60)

(* A pair is two strings in quotes, with a colon in between.                          *)
LEMMA PairIsQuoted ==
    ASSUME NEW key \in Seq(Letter), NEW val \in Seq(Letter), NEW t \in Seq(Visible)
    PROVE  t \o Pair(key, val) = ((t \o Quoted(key)) \o <<":">>) \o Quoted(val)
  <1> DEFINE q == <<QUOTE>>
             d == <<":">>
             k == q \o key
             v == val \o q
  <1>1. q \in Seq(Visible) /\ d \in Seq(Visible) /\ key \in Seq(Visible) /\ val \in Seq(Visible)
    <2>1. QUOTE \in Visible /\ ":" \in Visible
      BY JsonAssumption DEF Visible, Char, QUOTE, NUL, FOREIGN
    <2> QED
      BY <2>1, Singleton, QuotedIs
  <1>2. <<QUOTE, ":", QUOTE>> = (q \o d) \o q
    BY SMTT(30)
  <1>3. Pair(key, val) = ((k \o ((q \o d) \o q)) \o val) \o q
    BY <1>2 DEF Pair
  <1>4. Quoted(key) = k \o q /\ Quoted(val) = (q \o val) \o q
    BY DEF Quoted
  <1> HIDE DEF q, d
  <1>5. k \in Seq(Visible) /\ v \in Seq(Visible) /\ Quoted(val) = q \o v
    BY <1>1, <1>4, Together, SMTT(60)
  <1> HIDE DEF k
  <1> DEFINE dq == d \o q
             kq == k \o q
             z == q \o v
  <1>6. (q \o d) \o q = q \o dq /\ dq \in Seq(Visible)
    BY <1>1, Together, SMTT(60)
  <1>7. kq \in Seq(Visible) /\ z \in Seq(Visible)
    BY <1>1, <1>5, Together
  <1>8. k \o (q \o dq) = kq \o dq /\ kq \o dq \in Seq(Visible)
    <2> HIDE DEF dq
    <2>1. (k \o q) \o dq = k \o (q \o dq)
      <3>1. k \in Seq(Visible) /\ q \in Seq(Visible) /\ dq \in Seq(Visible)
        BY <1>1, <1>5, <1>6
      <3> QED
        BY <3>1, Together, SMTT(60)
    <2>2. kq \o dq \in Seq(Visible)
      <3> HIDE DEF kq
      <3> QED
        BY <1>6, <1>7, Together
    <2> QED
      BY <2>1, <2>2
  <1>9. ((kq \o dq) \o val) \o q = (kq \o dq) \o v
    <2> DEFINE y == kq \o dq
    <2>1. y \in Seq(Visible)
      BY <1>8
    <2> HIDE DEF y
    <2>2. (y \o val) \o q = y \o (val \o q)
      BY <1>1, <2>1, Together, SMTT(60)
    <2> QED
      BY <2>2 DEF y
  <1> HIDE DEF v, kq
  <1>10. (kq \o dq) \o v = kq \o (dq \o v) /\ dq \o v = d \o z
    <2>1. (d \o q) \o v = d \o (q \o v)
      <3>1. d \in Seq(Visible) /\ q \in Seq(Visible) /\ v \in Seq(Visible)
        BY <1>1, <1>5
      <3> QED
        BY <3>1, Together, SMTT(60)
    <2> HIDE DEF dq
    <2>2. (kq \o dq) \o v = kq \o (dq \o v)
      <3>1. kq \in Seq(Visible) /\ dq \in Seq(Visible) /\ v \in Seq(Visible)
        BY <1>5, <1>6, <1>7
      <3> QED
        BY <3>1, Together, SMTT(60)
    <2> QED
      BY <2>1, <2>2 DEF dq
  <1> HIDE DEF dq, z
  <1>11. kq \o (d \o z) = (kq \o d) \o z /\ kq \o d \in Seq(Visible)
    <2>1. kq \in Seq(Visible) /\ d \in Seq(Visible) /\ z \in Seq(Visible)
      BY <1>1, <1>7
    <2>2. (kq \o d) \o z = kq \o (d \o z)
      BY <2>1, Together, SMTT(60)
    <2> QED
      BY <2>1, <2>2, Together
  <1>12. Pair(key, val) = (kq \o d) \o z
    BY <1>3, <1>6, <1>8, <1>9, <1>10, <1>11
  <1>13. t \o ((kq \o d) \o z) = (t \o (kq \o d)) \o z
    <2> DEFINE y == kq \o d
    <2>1. y \in Seq(Visible)
      BY <1>11
    <2> HIDE DEF y
    <2>2. (t \o y) \o z = t \o (y \o z)
      BY <1>7, <2>1, Together, SMTT(60)
    <2> QED
      BY <2>2 DEF y
  <1>14. t \o (kq \o d) = (t \o kq) \o d
    BY <1>1, <1>7, Together, ZenonT(60)
  <1> QED
    BY <1>4, <1>5, <1>12, <1>13, <1>14 DEF kq, z, d

(* One character that is neither letter nor quote.                                    *)
LEMMA QuietCharacter ==
    ASSUME NEW ch \in {"{", "}", ",", ":"}
    PROVE  <<ch>> \in Seq(Visible) /\ \A k \in 1..Len(<<ch>>) : <<ch>>[k] \notin Letter /\ <<ch>>[k] # QUOTE
  <1>1. ch \in Visible /\ ch \notin Letter /\ ch # QUOTE
    BY JsonAssumption DEF Visible, Char, QUOTE, NUL, FOREIGN
  <1>2. <<ch>> \in Seq(Visible) /\ Len(<<ch>>) = 1 /\ <<ch>>[1] = ch
    BY <1>1, Singleton
  <1> QED
    BY <1>1, <1>2, JustOne, Zenon

(* The lengths of strings.                                                            *)
LEMMA StringLengths ==
    ASSUME NEW s \in Seq(Seq(Letter))
    PROVE  Len(s) \in Nat /\ \A h \in 1..Len(s) : s[h] \in Seq(Letter) /\ Len(s[h]) \in Nat
  <1>1. \A h \in 1..Len(s) : s[h] \in Seq(Letter)
    BY ElementOfSeq
  <1>2. \A v \in Seq(Letter) : Len(v) \in Nat
    OBVIOUS
  <1>3. Len(s) \in Nat
    OBVIOUS
  <1> QED
    BY <1>1, <1>2, <1>3, Zenon

(* A pair more.                                                                       *)
LEMMA LaidPair ==
    ASSUME NEW t \in Seq(Visible), NEW s \in Seq(Seq(Letter)), Laid(t, s),
           NEW key \in Seq(Letter), NEW val \in Seq(Letter)
    PROVE  Laid(t \o Pair(key, val), Append(Append(s, key), val))
  <1> DEFINE u == t \o Quoted(key)
             r == Append(s, key)
             w == u \o <<":">>
  <1>1. Laid(u, r)
    BY LaidString
  <1>2. Quoted(key) \in Seq(Visible)
    BY QuotedIs
  <1>3. u \in Seq(Visible)
    BY <1>2, ConcatAt
  <1>4. r \in Seq(Seq(Letter))
    BY AppendProperties
  <1>5. t \o Pair(key, val) = w \o Quoted(val)
    BY PairIsQuoted
  <1>6. <<":">> \in Seq(Visible) /\ \A k \in 1..Len(<<":">>) : <<":">>[k] \notin Letter /\ <<":">>[k] # QUOTE
    BY QuietCharacter
  <1> HIDE DEF u, r
  <1>7. Len(r) \in Nat /\ \A h \in 1..Len(r) : Len(r[h]) \in Nat
    BY <1>4, StringLengths
  <1>8. Laid(w, r)
    BY <1>1, <1>3, <1>6, <1>7, LaidQuiet
  <1>9. w \in Seq(Visible)
    BY <1>3, <1>6, ConcatAt
  <1> HIDE DEF w
  <1>10. Laid(w \o Quoted(val), Append(r, val))
    BY <1>4, <1>8, <1>9, LaidString
  <1> QED
    BY <1>5, <1>10 DEF r

(* What is said has no terminator in it.                                              *)
LEMMA SaidIsVisible ==
    ASSUME NEW c \in Seq(Call)
    PROVE  Said(c) \in Seq(Visible)
  <1> DEFINE x == [kind |-> "open"]
  <1>1. x \in Call /\ ~AsksForPair(x)
    BY CallTypes DEF AsksForPair
  <1> HIDE DEF x
  <1> QED
    BY <1>1, SaidAppend

(* One call more keeps the strings where they stand, and puts its own behind them.    *)
LEMMA CallLaid ==
    ASSUME NEW c \in Seq(Call), NEW x \in Call, Laid(Said(c), Names(c))
    PROVE  Laid(Said(Append(c, x)), Names(Append(c, x)))
  <1> DEFINE t == Said(c)
             s == Names(c)
             a == Append(c, x)
  <1>1. t \in Seq(Visible)
    BY SaidIsVisible
  <1>2. s \in Seq(Seq(Letter)) /\ Names(a) = s \o NamesOf(x)
    BY NamesAppend
  <1>3. Len(s) \in Nat /\ \A h \in 1..Len(s) : Len(s[h]) \in Nat
    BY <1>2, StringLengths
  <1>4. PICK u : u \in Seq(Visible) /\ Laid(u, s) /\ Said(a) = u \o Alone(x)
    <2>1. CASE EndsInPair(c) /\ AsksForPair(x)
      <3> DEFINE u == t \o <<",">>
      <3>1. Said(a) = u \o Alone(x)
        BY <2>1, SaidAppendBehindPair
      <3>2. <<",">> \in Seq(Visible) /\ \A k \in 1..Len(<<",">>) : <<",">>[k] \notin Letter /\ <<",">>[k] # QUOTE
        BY QuietCharacter
      <3>3. u \in Seq(Visible)
        BY <1>1, <3>2, ConcatAt
      <3>4. Laid(u, s)
        <4> HIDE DEF t, s
        <4> QED
          BY <1>1, <1>3, <3>2, LaidQuiet DEF t, s
      <3> QED
        BY <3>1, <3>3, <3>4
    <2>2. CASE ~(EndsInPair(c) /\ AsksForPair(x))
      <3>1. Said(a) = t \o Alone(x)
        BY <2>2, SaidAppend
      <3> QED
        BY <1>1, <3>1
    <2> QED
      BY <2>1, <2>2
  <1> HIDE DEF t, s, a
  <1>5. CASE x.kind = "pair"
    <2>1. Alone(x) = Pair(x.key, x.value)
      BY <1>5, AloneType
    <2>2. NamesOf(x) = <<x.key, x.value>> /\ x.key \in Seq(Letter) /\ x.value \in Seq(Letter)
      BY <1>5, NamesOfType
    <2>3. Names(a) = Append(Append(s, x.key), x.value)
      <3> DEFINE T == Seq(Letter)
      <3>1. s \in Seq(T) /\ x.key \in T /\ x.value \in T
        BY <1>2, <2>2
      <3> HIDE DEF T
      <3>2. \A r \in Seq(T) : \A y, z \in T : r \o <<y, z>> = Append(Append(r, y), z)
        OBVIOUS
      <3>3. s \o <<x.key, x.value>> = Append(Append(s, x.key), x.value)
        BY <3>1, <3>2
      <3> QED
        BY <1>2, <2>2, <3>3
    <2>4. Laid(u \o Pair(x.key, x.value), Append(Append(s, x.key), x.value))
      BY <1>2, <1>4, <2>2, LaidPair
    <2> QED
      BY <1>4, <2>1, <2>3, <2>4 DEF a
  <1>6. CASE x.kind # "pair"
    <2>1. Names(a) = s
      <3>1. NamesOf(x) = <<>>
        BY <1>6, NamesOfType
      <3>2. s \o <<>> = s
        BY <1>2, ConcatEmptySeq
      <3> QED
        BY <1>2, <3>1, <3>2
    <2>2. /\ Alone(x) \in Seq(Visible)
          /\ \A k \in 1..Len(Alone(x)) : Alone(x)[k] \notin Letter /\ Alone(x)[k] # QUOTE
      <3>1. Alone(x) = <<>> \/ \E ch \in {"{", "}", ",", ":"} : Alone(x) = <<ch>>
        BY <1>6, AloneType
      <3>2. CASE Alone(x) = <<>>
        <4>1. <<>> \in Seq(Visible) /\ \A k \in 1..Len(<<>>) : FALSE
          OBVIOUS
        <4> QED
          BY <3>2, <4>1, Zenon
      <3>3. CASE \E ch \in {"{", "}", ",", ":"} : Alone(x) = <<ch>>
        <4>1. PICK ch \in {"{", "}", ",", ":"} : Alone(x) = <<ch>>
          BY <3>3
        <4> QED
          BY <4>1, QuietCharacter, Zenon
      <3> QED
        BY <3>1, <3>2, <3>3
    <2>3. Laid(u \o Alone(x), s)
      BY <1>3, <1>4, <2>2, LaidQuiet
    <2> QED
      BY <1>4, <2>1, <2>3 DEF a
  <1> QED
    BY <1>5, <1>6

(* What holds of no calls, and of one call more whenever it holds of the calls before *)
(* it, holds of all of them.                                                          *)
LEMMA CallByCall ==
    ASSUME NEW c \in Seq(Call), NEW T, <<>> \in T,
           \A d \in Seq(Call), x \in Call : d \in T => Append(d, x) \in T
    PROVE  c \in T
  <1> DEFINE N == Len(c)
             Opening(n) == [k \in 1..n |-> c[k]]
             P == {n \in 0..N : Opening(n) \in T}
  <1>1. N \in Nat /\ \A k \in 1..N : c[k] \in Call
    BY ElementOfSeq
  <1> HIDE DEF N
  <1>2. ASSUME NEW n \in 0..N
        PROVE  /\ Opening(n) \in Seq(Call) /\ Len(Opening(n)) = n
               /\ \A k \in 1..n : Opening(n)[k] = c[k]
    <2>1. n \in Nat /\ \A k \in 1..n : c[k] \in Call
      BY <1>1
    <2>2. Opening(n) \in [1..n -> Call]
      BY <2>1
    <2> QED
      BY <2>1, <2>2
  <1>3. 0 \in P
    <2>1. 0 \in 0..N
      BY <1>1
    <2>2. Opening(0) = <<>>
      OBVIOUS
    <2> HIDE DEF Opening
    <2> QED
      BY <2>1, <2>2
  <1>4. ASSUME NEW n \in 0..(N - 1), n \in P PROVE n + 1 \in P
    <2>1. n \in 0..N /\ n + 1 \in 0..N /\ n + 1 \in 1..N /\ n \in Nat
      BY <1>1
    <2> DEFINE d == Opening(n)
               e == Opening(n + 1)
               a == Append(d, c[n + 1])
    <2>2. d \in Seq(Call) /\ Len(d) = n /\ \A k \in 1..n : d[k] = c[k]
      BY <1>2, <2>1
    <2>3. e \in Seq(Call) /\ Len(e) = n + 1 /\ \A k \in 1..(n + 1) : e[k] = c[k]
      BY <1>2, <2>1
    <2>4. c[n + 1] \in Call
      BY <1>1, <2>1
    <2>5. d \in T
      BY <1>4
    <2> HIDE DEF d, e
    <2>6. a \in Seq(Call) /\ Len(a) = n + 1 /\ a[n + 1] = c[n + 1] /\ \A k \in 1..n : a[k] = d[k]
      BY <2>2, <2>4, AppendProperties
    <2>7. ASSUME NEW k \in 1..(n + 1) PROVE a[k] = e[k]
      <3>1. k = n + 1 \/ k \in 1..n
        BY <2>1
      <3> HIDE DEF a
      <3> QED
        BY <2>2, <2>3, <2>6, <3>1
    <2>8. a \in T
      BY <2>2, <2>4, <2>5
    <2> HIDE DEF a
    <2>9. a = e
      BY <2>3, <2>6, <2>7, SeqEqual
    <2> QED
      BY <2>1, <2>8, <2>9 DEF e
  <1>5. N \in P
    <2>1. N \in 0..N
      BY <1>1
    <2> HIDE DEF P
    <2> QED
      BY <1>1, <1>3, <1>4, <2>1, InductionUpTo
  <1>6. Opening(N) = c
    <2>1. N \in 0..N /\ Len(c) = N
      BY <1>1 DEF N
    <2>2. Opening(N) \in Seq(Call) /\ Len(Opening(N)) = N /\ \A k \in 1..N : Opening(N)[k] = c[k]
      BY <1>2, <2>1
    <2> DEFINE d == Opening(N)
    <2> HIDE DEF d
    <2>3. d = c
      BY <2>1, <2>2, SeqEqual DEF d
    <2> QED
      BY <2>3 DEF d
  <1> QED
    BY <1>5, <1>6

(* So the strings of the calls stand in what the calls say.                           *)
LEMMA CallsLaid ==
    ASSUME NEW c \in Seq(Call)
    PROVE  Laid(Said(c), Names(c))
  <1> DEFINE T == {d \in Seq(Call) : Laid(Said(d), Names(d))}
  <1>1. <<>> \in T
    <2>1. Said(<<>>) = <<>> /\ Names(<<>>) = <<>>
      BY FlattenEmpty DEF Said, Names
    <2>2. Laid(<<>>, <<>>)
      <3>1. Len(<<>>) = 0 /\ 1..0 = {}
        OBVIOUS
      <3>2. StandsAt(<<>>, <<>>, <<>>)
        <4>1. <<>> \in [1..0 -> Int]
          OBVIOUS
        <4> QED
          BY <3>1, <4>1 DEF StandsAt
      <3> QED
        BY <3>2 DEF Laid
    <2> QED
      BY <2>1, <2>2
  <1>2. ASSUME NEW d \in Seq(Call), NEW x \in Call, d \in T PROVE Append(d, x) \in T
    <2>1. Append(d, x) \in Seq(Call)
      BY AppendProperties
    <2> QED
      BY <1>2, <2>1, CallLaid
  <1> HIDE DEF T
  <1>3. c \in T
    BY <1>1, <1>2, CallByCall
  <1> QED
    BY <1>3 DEF T

(* The strings of the calls stand in the memory, string h from at[h] on, between       *)
(* quotes; there are no other letters and no other quotes in the text.                 *)
StandsInMemory(at) ==
    /\ at \in [1..Len(Strings) -> Int]
    /\ \A h \in 1..Len(Strings) :
          /\ at[h] \in Nat \ {0} /\ at[h] + Len(Strings[h]) < Length
          /\ mem[at[h] - 1] = QUOTE /\ mem[at[h] + Len(Strings[h])] = QUOTE
          /\ \A j \in 1..Len(Strings[h]) : mem[at[h] + j - 1] = Strings[h][j]
    /\ \A h, g \in 1..Len(Strings) : h < g => at[h] + Len(Strings[h]) + 1 < at[g]
    /\ \A k \in 0..(Length - 1) :
          /\ mem[k] \in Letter => \E h \in 1..Len(Strings) : at[h] <= k /\ k < at[h] + Len(Strings[h])
          /\ mem[k] = QUOTE => \E h \in 1..Len(Strings) : k = at[h] - 1 \/ k = at[h] + Len(Strings[h])

(* The strings of the text are those of its calls,                                    *)
LEMMA StringsAre ==
    ASSUME JsonState
    PROVE  /\ Strings = Names(calls) /\ Strings \in Seq(Seq(Letter)) /\ Len(Strings) \in Nat
           /\ \A h \in 1..Len(Strings) : Strings[h] \in Seq(Letter) /\ Len(Strings[h]) \in Nat
  <1>1. calls \in Seq(Call)
    BY HoldsFacts DEF JsonState
  <1>2. Strings = Names(calls)
    BY DEF Strings, Names, NamesOf
  <1>3. Names(calls) \in Seq(Seq(Letter))
    <2>1. [kind |-> "open"] \in Call
      BY CallTypes
    <2> QED
      BY <1>1, <2>1, NamesAppend
  <1> QED
    BY <1>2, <1>3, StringLengths

(* and stand in the memory.                                                           *)
LEMMA StringsStand ==
    ASSUME JsonState
    PROVE  \E at : StandsInMemory(at)
  <1> DEFINE t == Said(calls)
             s == Strings
             L == Length
  <1>1. /\ buffer_size \in Nat /\ mem \in [0..buffer_size -> Char] /\ calls \in Seq(Call)
        /\ IsLength(mem, LengthOf(mem)) /\ TextOf(mem) = t
    BY HoldsFacts DEF JsonState
  <1>2. L = LengthOf(mem)
    BY LengthAndText
  <1>3. L \in Nat /\ Len(t) = L /\ \A k \in 1..L : t[k] = mem[k - 1]
    <2>1. L \in 0..buffer_size /\ Len(t) = L /\ \A k \in 1..L : t[k] = mem[k - 1]
      BY <1>1, <1>2, TextOfType
    <2> QED
      BY <1>1, <2>1
  <1>4. Laid(t, s)
    BY <1>1, CallsLaid, StringsAre
  <1>5. Len(s) \in Nat /\ \A h \in 1..Len(s) : Len(s[h]) \in Nat
    BY StringsAre
  <1> HIDE DEF t, s, L
  <1>6. PICK at : StandsAt(t, s, at)
    BY <1>4 DEF Laid
  <1>7. /\ at \in [1..Len(s) -> Int]
        /\ \A h \in 1..Len(s) :
              /\ at[h] \in 1..L /\ at[h] + Len(s[h]) + 1 \in 1..L
              /\ t[at[h]] = QUOTE /\ t[at[h] + Len(s[h]) + 1] = QUOTE
              /\ \A j \in 1..Len(s[h]) : t[at[h] + j] = s[h][j]
        /\ \A h, g \in 1..Len(s) : h < g => at[h] + Len(s[h]) + 1 < at[g]
        /\ \A k \in 1..L :
              /\ t[k] \in Letter => \E h \in 1..Len(s) : at[h] < k /\ k <= at[h] + Len(s[h])
              /\ t[k] = QUOTE => \E h \in 1..Len(s) : k = at[h] \/ k = at[h] + Len(s[h]) + 1
    BY <1>3, <1>6, Zenon DEF StandsAt
  <1>8. ASSUME NEW h \in 1..Len(s)
        PROVE  /\ at[h] \in Nat \ {0} /\ at[h] + Len(s[h]) < L
               /\ mem[at[h] - 1] = QUOTE /\ mem[at[h] + Len(s[h])] = QUOTE
               /\ \A j \in 1..Len(s[h]) : mem[at[h] + j - 1] = s[h][j]
    <2> DEFINE m == Len(s[h])
               a == at[h]
    <2>1. /\ a \in 1..L /\ a + m + 1 \in 1..L /\ m \in Nat
          /\ t[a] = QUOTE /\ t[a + m + 1] = QUOTE
          /\ \A j \in 1..m : t[a + j] = s[h][j]
      BY <1>5, <1>7
    <2> HIDE DEF m, a
    <2>2. a \in Nat \ {0} /\ a + m < L /\ (a + m + 1) - 1 = a + m
      BY <1>3, <2>1
    <2>3. mem[a - 1] = QUOTE /\ mem[a + m] = QUOTE
      BY <1>3, <2>1, <2>2
    <2>4. \A j \in 1..m : a + j \in 1..L
      BY <1>3, <2>1, <2>2
    <2>5. ASSUME NEW j \in 1..m PROVE mem[a + j - 1] = s[h][j]
      <3> DEFINE k == a + j
      <3>1. k \in 1..L /\ t[k] = s[h][j] /\ k - 1 = a + j - 1
        BY <2>1, <2>2, <2>4
      <3> HIDE DEF k
      <3>2. mem[k - 1] = s[h][j]
        BY <1>3, <3>1
      <3> QED
        BY <3>1, <3>2
    <2> QED
      BY <2>2, <2>3, <2>5 DEF m, a
  <1>9. ASSUME NEW k \in 0..(L - 1)
        PROVE  /\ mem[k] \in Letter => \E h \in 1..Len(s) : at[h] <= k /\ k < at[h] + Len(s[h])
               /\ mem[k] = QUOTE => \E h \in 1..Len(s) : k = at[h] - 1 \/ k = at[h] + Len(s[h])
    <2>1. k + 1 \in 1..L /\ (k + 1) - 1 = k /\ k \in Int
      BY <1>3
    <2>2. t[k + 1] = mem[k]
      BY <1>3, <2>1
    <2>3. ASSUME NEW h \in 1..Len(s)
          PROVE  /\ at[h] < k + 1 /\ k + 1 <= at[h] + Len(s[h]) => at[h] <= k /\ k < at[h] + Len(s[h])
                 /\ k + 1 = at[h] => k = at[h] - 1
                 /\ k + 1 = at[h] + Len(s[h]) + 1 => k = at[h] + Len(s[h])
      <3> DEFINE m == Len(s[h])
                 a == at[h]
      <3>1. m \in Nat /\ a \in Int
        BY <1>5, <1>7
      <3> HIDE DEF m, a
      <3>2. /\ a < k + 1 /\ k + 1 <= a + m => a <= k /\ k < a + m
            /\ k + 1 = a => k = a - 1
            /\ k + 1 = a + m + 1 => k = a + m
        BY <2>1, <3>1
      <3> QED
        BY <3>2 DEF m, a
    <2>4. /\ mem[k] \in Letter => \E h \in 1..Len(s) : at[h] < k + 1 /\ k + 1 <= at[h] + Len(s[h])
          /\ mem[k] = QUOTE => \E h \in 1..Len(s) : k + 1 = at[h] \/ k + 1 = at[h] + Len(s[h]) + 1
      BY <1>7, <2>1, <2>2
    <2> QED
      BY <2>3, <2>4, Zenon
  <1>10. StandsInMemory(at)
    <2>1. at \in [1..Len(s) -> Int] /\ \A h, g \in 1..Len(s) : h < g => at[h] + Len(s[h]) + 1 < at[g]
      BY <1>7
    <2> QED
      BY <1>8, <1>9, <2>1, Zenon DEF StandsInMemory, s, L
  <1> QED
    BY <1>10

(* Where the text of a key is in a string.                                            *)
LEMMA PlacesAre ==
    ASSUME NEW key \in Seq(Letter), NEW s \in Seq(Letter), NEW p
    PROVE  p \in Places(key, s) <=> /\ p \in 1..(Len(s) - Len(key) + 1)
                                    /\ \A j \in 1..Len(key) : s[p + j - 1] = key[j]
  <1> SUFFICES ASSUME p \in 1..(Len(s) - Len(key) + 1)
               PROVE  SubSeq(s, p, p + Len(key) - 1) = key
                          <=> \A j \in 1..Len(key) : s[p + j - 1] = key[j]
    BY DEF Places
  <1> DEFINE K == Len(key)
             N == Len(s)
             b == SubSeq(s, p, p + K - 1)
  <1>1. K \in Nat /\ N \in Nat /\ p \in 1..(N - K + 1)
    OBVIOUS
  <1>2. /\ p \in 1..(N + 1) /\ p + K - 1 \in (p - 1)..N /\ (p + K - 1) - p + 1 = K
    <2> HIDE DEF K, N
    <2> QED
      BY <1>1
  <1>3. b \in Seq(Letter) /\ Len(b) = K /\ \A j \in 1..K : b[j] = s[p + j - 1]
    <2> DEFINE e == p + K - 1
    <2>1. e \in (p - 1)..N /\ p \in 1..(N + 1) /\ e - p + 1 = K /\ K \in Nat
      BY <1>1, <1>2
    <2>2. \A k \in p..e : s[k] \in Letter
      <3>1. \A k \in p..e : k \in 1..N
        <4> HIDE DEF K, N, e
        <4> QED
          BY <1>1, <2>1
      <3> QED
        BY <3>1, ElementOfSeq
    <2> HIDE DEF e
    <2>3. p \in Int /\ e \in Int
      <3> HIDE DEF K, N
      <3> QED
        BY <1>1, <2>1
    <2>4. /\ SubSeq(s, p, e) \in Seq(Letter)
          /\ Len(SubSeq(s, p, e)) = IF p <= e THEN e - p + 1 ELSE 0
          /\ \A j \in 1..(e - p + 1) : SubSeq(s, p, e)[j] = s[p + j - 1]
      BY <2>2, <2>3, SubSeqProperties
    <2>5. Len(SubSeq(s, p, e)) = K
      <3> HIDE DEF K, N
      <3> QED
        BY <1>1, <2>1, <2>3, <2>4
    <2> QED
      BY <2>1, <2>4, <2>5 DEF e
  <1> HIDE DEF b
  <1>4. b = key <=> \A j \in 1..K : b[j] = key[j]
    BY <1>3, SeqEqual
  <1> QED
    BY <1>3, <1>4 DEF b

(* What the search works on.                                                          *)
Searched(key, n) ==
    /\ key \in Seq(Letter) /\ Len(key) \in Nat \ {0}
    /\ Length \in Nat /\ n \in Nat /\ Length <= n /\ mem[Length] = NUL

(* The search works on such arguments.                                                *)
LEMMA SearchedIs ==
    ASSUME JsonState, NEW key \in Key, NEW n \in {Length, buffer_size}
    PROVE  Searched(key, n)
  <1>1. /\ buffer_size \in Nat \ {0} /\ mem \in [0..buffer_size -> Char]
        /\ IsLength(mem, LengthOf(mem)) /\ LengthOf(mem) \in 0..buffer_size
    BY HoldsFacts DEF JsonState
  <1>2. Length \in Nat /\ n \in Nat /\ Length <= n /\ mem[Length] = NUL
    <2>1. Length \in 0..buffer_size /\ mem[Length] = NUL
      BY <1>1, LengthAndText DEF IsLength
    <2> HIDE DEF Searched
    <2> QED
      BY <1>1, <2>1
  <1>3. key \in Seq(Letter) /\ Len(key) \in Nat \ {0}
    BY JsonAssumption, EmptySeq
  <1> QED
    BY <1>2, <1>3 DEF Searched

(* What is at a place of a string.                                                    *)
LEMMA InString ==
    ASSUME JsonState, NEW at, StandsInMemory(at), NEW h \in 1..Len(Strings)
    PROVE  /\ at[h] \in Nat \ {0} /\ Len(Strings[h]) \in Nat /\ at[h] + Len(Strings[h]) < Length
           /\ Strings[h] \in Seq(Letter)
           /\ mem[at[h] - 1] = QUOTE /\ mem[at[h] + Len(Strings[h])] = QUOTE
           /\ \A j \in 1..Len(Strings[h]) : mem[at[h] + j - 1] = Strings[h][j]
           /\ \A k \in at[h]..(at[h] + Len(Strings[h]) - 1) : mem[k] \in Letter /\ mem[k] # QUOTE
  <1> DEFINE a == at[h]
             s == Strings[h]
             m == Len(s)
  <1>1. /\ a \in Nat \ {0} /\ a + m < Length
        /\ mem[a - 1] = QUOTE /\ mem[a + m] = QUOTE
        /\ \A j \in 1..m : mem[a + j - 1] = s[j]
    BY Zenon DEF StandsInMemory
  <1>2. s \in Seq(Letter) /\ m \in Nat
    BY StringsAre
  <1>3. \A j \in 1..m : s[j] \in Letter
    BY <1>2, ElementOfSeq
  <1>4. QUOTE \notin Letter
    BY JsonAssumption
  <1>5. ASSUME NEW k \in a..(a + m - 1) PROVE mem[k] \in Letter
    <2> HIDE DEF a, m
    <2>1. k - a + 1 \in 1..m /\ a + (k - a + 1) - 1 = k
      BY <1>1, <1>2
    <2>2. mem[a + (k - a + 1) - 1] = s[k - a + 1]
      BY <1>1, <2>1, Zenon
    <2> QED
      BY <1>3, <2>1, <2>2
  <1> QED
    BY <1>1, <1>2, <1>4, <1>5, Zenon

(* Where a string has the text of the key, the search finds it,                       *)
LEMMA PlaceOccurs ==
    ASSUME JsonState, NEW at, StandsInMemory(at), NEW h \in 1..Len(Strings),
           NEW key, NEW n, Searched(key, n), NEW p \in Places(key, Strings[h])
    PROVE  /\ at[h] + p - 1 \in Occurrences(key, n)
           /\ at[h] + p - 1 \in Nat /\ p \in Nat /\ at[h] <= at[h] + p - 1
           /\ at[h] + p - 1 + Len(key) <= at[h] + Len(Strings[h])
  <1> DEFINE a == at[h]
             s == Strings[h]
             m == Len(s)
             K == Len(key)
             k == a + p - 1
  <1>1. /\ a \in Nat \ {0} /\ m \in Nat /\ a + m < Length /\ s \in Seq(Letter)
        /\ \A j \in 1..m : mem[a + j - 1] = s[j]
    BY InString
  <1>2. K \in Nat \ {0} /\ n \in Nat /\ Length \in Nat /\ Length <= n /\ key \in Seq(Letter)
    BY DEF Searched
  <1>3. p \in 1..(m - K + 1) /\ \A j \in 1..K : s[p + j - 1] = key[j]
    BY <1>1, <1>2, PlacesAre, SMTT(60)
  <1>4. Occurrences(key, n) = {x \in 0..(n - K - 1) : \A j \in 1..K : mem[x + j - 1] = key[j]}
    BY DEF Occurrences
  <1>5. k \in 0..(n - K - 1) /\ k \in Nat /\ p \in Nat /\ a <= k /\ k + K <= a + m
    <2>1. a \in Nat \ {0} /\ m \in Nat /\ K \in Nat \ {0} /\ a + m < Length /\ Length \in Nat /\ n \in Nat
          /\ Length <= n /\ p \in 1..(m - K + 1)
      BY <1>1, <1>2, <1>3
    <2> HIDE DEF a, m, K
    <2> QED
      BY <2>1
  <1>6. ASSUME NEW j \in 1..K PROVE mem[k + j - 1] = key[j]
    <2>1. p + j - 1 \in 1..m /\ a + (p + j - 1) - 1 = k + j - 1
      <3>1. a \in Nat \ {0} /\ m \in Nat /\ K \in Nat \ {0} /\ p \in 1..(m - K + 1) /\ j \in 1..K
        BY <1>1, <1>2, <1>3
      <3> HIDE DEF a, m, K
      <3> QED
        BY <3>1
    <2>2. mem[a + (p + j - 1) - 1] = s[p + j - 1]
      BY <1>1, <2>1, Zenon
    <2>3. s[p + j - 1] = key[j]
      BY <1>3
    <2> QED
      BY <2>1, <2>2, <2>3
  <1>7. k \in Occurrences(key, n)
    <2> HIDE DEF k, K
    <2> QED
      BY <1>4, <1>5, <1>6 DEF K
  <1> QED
    BY <1>5, <1>7

(* and what it finds in the text is such a place.                                     *)
LEMMA OccursInString ==
    ASSUME JsonState, NEW at, StandsInMemory(at), NEW key, NEW n, Searched(key, n),
           NEW k \in Occurrences(key, n), k < Length
    PROVE  \E h \in 1..Len(Strings) :
              k - at[h] + 1 \in Places(key, Strings[h]) /\ k - at[h] + 1 \in Nat
  <1> DEFINE K == Len(key)
  <1>1. K \in Nat \ {0} /\ n \in Nat /\ Length \in Nat /\ Length <= n /\ key \in Seq(Letter)
    BY DEF Searched
  <1>2. k \in 0..(n - K - 1) /\ \A j \in 1..K : mem[k + j - 1] = key[j]
    BY DEF Occurrences
  <1>3. \A j \in 1..K : key[j] \in Letter
    BY <1>1, ElementOfSeq
  <1> HIDE DEF K
  <1>4. \A j \in 1..K : mem[k + j - 1] \in Letter
    BY <1>2, <1>3
  <1>5. k \in Nat /\ k \in 0..(Length - 1)
    BY <1>1, <1>2
  <1>6. mem[k] \in Letter
    <2>1. 1 \in 1..K /\ k + 1 - 1 = k
      BY <1>1, <1>5
    <2>2. mem[k + 1 - 1] \in Letter
      BY <1>4, <2>1, Zenon
    <2> QED
      BY <2>1, <2>2
  <1>7. PICK h \in 1..Len(Strings) : at[h] <= k /\ k < at[h] + Len(Strings[h])
    <2>1. mem[k] \in Letter => \E h \in 1..Len(Strings) : at[h] <= k /\ k < at[h] + Len(Strings[h])
      BY <1>5, Zenon DEF StandsInMemory
    <2> QED
      BY <1>6, <2>1
  <1> DEFINE a == at[h]
             s == Strings[h]
             m == Len(s)
             p == k - a + 1
  <1>8. /\ a \in Nat \ {0} /\ m \in Nat /\ a + m < Length /\ s \in Seq(Letter)
        /\ mem[a + m] = QUOTE
        /\ \A j \in 1..m : mem[a + j - 1] = s[j]
    BY InString
  <1>9. a <= k /\ k < a + m
    BY <1>7
  <1>10. k + K <= a + m
    <2>1. SUFFICES ASSUME a + m < k + K PROVE FALSE
      <3> HIDE DEF a, m
      <3> QED
        BY <1>1, <1>5, <1>8
    <2>2. a + m - k + 1 \in 1..K /\ k + (a + m - k + 1) - 1 = a + m
      <3>1. a \in Nat \ {0} /\ m \in Nat /\ K \in Nat /\ k \in Nat /\ k < a + m
        BY <1>1, <1>5, <1>8, <1>9
      <3> HIDE DEF a, m
      <3> QED
        BY <2>1, <3>1
    <2>3. mem[k + (a + m - k + 1) - 1] \in Letter
      BY <1>4, <2>2, Zenon
    <2>4. mem[a + m] \in Letter
      BY <2>2, <2>3
    <2> QED
      BY <1>8, <2>4, JsonAssumption
  <1>11. p \in 1..(m - K + 1) /\ p \in Nat
    <2>1. a \in Nat \ {0} /\ m \in Nat /\ K \in Nat \ {0} /\ k \in Nat
      BY <1>1, <1>5, <1>8
    <2> HIDE DEF a, m
    <2> QED
      BY <1>9, <1>10, <2>1
  <1>12. ASSUME NEW j \in 1..K PROVE s[p + j - 1] = key[j]
    <2>1. p + j - 1 \in 1..m /\ a + (p + j - 1) - 1 = k + j - 1
      <3>1. a \in Nat \ {0} /\ m \in Nat /\ K \in Nat \ {0} /\ k \in Nat
        BY <1>1, <1>5, <1>8
      <3> HIDE DEF a, m
      <3> QED
        BY <1>9, <1>10, <3>1
    <2>2. mem[a + (p + j - 1) - 1] = s[p + j - 1]
      BY <1>8, <2>1, Zenon
    <2>3. mem[k + j - 1] = key[j]
      BY <1>2
    <2> QED
      BY <2>1, <2>2, <2>3
  <1>13. p \in Places(key, s)
    <2> HIDE DEF p, s
    <2> QED
      BY <1>1, <1>8, <1>11, <1>12, PlacesAre DEF K
  <1> QED
    BY <1>11, <1>13

(* A number of a set that none of its numbers is below is its minimum.                *)
LEMMA MinIs ==
    ASSUME NEW T, T \subseteq Nat, NEW x \in T, \A y \in T : x <= y
    PROVE  Min(T) = x
  <1>1. Min(T) \in T /\ \A k \in T : Min(T) <= k
    BY MinIsLeast
  <1>2. Min(T) \in Nat /\ x \in Nat /\ Min(T) <= x /\ x <= Min(T)
    BY <1>1
  <1> QED
    BY <1>2

(* The first quote, if it is known,                                                   *)
LEMMA FirstQuoteAt ==
    ASSUME NEW from \in Nat, NEW n \in Nat, NEW q \in from..(n - 1), mem[q] = QUOTE,
           \A k \in from..(q - 1) : mem[k] # QUOTE
    PROVE  FirstQuote(from, n) = q
  <1> DEFINE f == FirstQuote(from, n)
  <1>1. /\ f \in Nat /\ f <= n
        /\ from <= n => from <= f
        /\ f < n => mem[f] = QUOTE
        /\ \A k \in from..(n - 1) : k < f => mem[k] # QUOTE
    BY FirstQuoteIs
  <1> HIDE DEF f
  <1>2. q \in Nat /\ from <= q /\ q < n
    OBVIOUS
  <1>3. ~(q < f)
    BY <1>1
  <1>4. ~(f < q)
    <2>1. SUFFICES ASSUME f < q PROVE FALSE
      OBVIOUS
    <2>2. from <= n /\ f < n
      BY <1>1, <1>2, <2>1
    <2>3. from <= f /\ mem[f] = QUOTE
      BY <1>1, <2>2
    <2>4. f \in from..(q - 1)
      BY <1>1, <1>2, <2>1, <2>3
    <2> QED
      BY <2>3, <2>4
  <1>5. f = q
    BY <1>1, <1>2, <1>3, <1>4
  <1> QED
    BY <1>5 DEF f

(* and if there is none.                                                              *)
LEMMA NoQuote ==
    ASSUME NEW from \in Nat, NEW n \in Nat, \A k \in from..(n - 1) : mem[k] # QUOTE, from <= n
    PROVE  FirstQuote(from, n) = n
  <1> DEFINE f == FirstQuote(from, n)
  <1>1. /\ f \in Nat /\ f <= n /\ from <= f
        /\ f < n => mem[f] = QUOTE
    BY FirstQuoteIs
  <1> HIDE DEF f
  <1>2. ~(f < n)
    <2>1. ASSUME f < n PROVE f \in from..(n - 1)
      BY <1>1, <2>1
    <2> QED
      BY <1>1, <2>1
  <1> QED
    BY <1>1, <1>2 DEF f

(* A quote behind the end of a string begins or ends a later one.                     *)
LEMMA QuoteBehind ==
    ASSUME JsonState, NEW at, StandsInMemory(at), NEW h \in 1..Len(Strings),
           NEW k \in Nat, k < Length, mem[k] = QUOTE, at[h] + Len(Strings[h]) < k
    PROVE  h < Len(Strings) /\ at[h + 1] - 1 <= k
  <1>1. k \in 0..(Length - 1)
    <2>1. Length \in Nat
      BY LengthAndText, HoldsFacts DEF JsonState
    <2> QED
      BY <2>1
  <1>2. PICK g \in 1..Len(Strings) : k = at[g] - 1 \/ k = at[g] + Len(Strings[g])
    <2>1. mem[k] = QUOTE => \E g \in 1..Len(Strings) : k = at[g] - 1 \/ k = at[g] + Len(Strings[g])
      BY <1>1, Zenon DEF StandsInMemory
    <2> QED
      BY <2>1
  <1> DEFINE N == Len(Strings)
             L(d) == Len(Strings[d])
  <1>3. N \in Nat
    BY StringsAre
  <1>4. \A d \in 1..N : at[d] \in Nat \ {0} /\ L(d) \in Nat
    BY InString
  <1>5. \A d, e \in 1..N : d < e => at[d] + L(d) + 1 < at[e]
    BY Zenon DEF StandsInMemory
  <1>6. h \in 1..N /\ g \in 1..N /\ (k = at[g] - 1 \/ k = at[g] + L(g)) /\ at[h] + L(h) < k
    BY <1>2
  <1> HIDE DEF N, L
  <1>7. h < g
    <2>1. g # h
      BY <1>4, <1>6
    <2>2. ~(g < h)
      <3>1. SUFFICES ASSUME g < h PROVE FALSE
        OBVIOUS
      <3>2. at[g] + L(g) + 1 < at[h]
        BY <1>5, <1>6, <3>1
      <3> QED
        BY <1>4, <1>6, <3>2, SMTT(60)
    <2> QED
      BY <1>3, <1>6, <2>1, <2>2
  <1>8. h + 1 \in 1..N /\ h < N
    BY <1>3, <1>6, <1>7
  <1>9. at[h + 1] <= at[g]
    <2>1. CASE h + 1 = g
      BY <1>4, <1>8, <2>1
    <2>2. CASE h + 1 < g
      <3>1. at[h + 1] + L(h + 1) + 1 < at[g]
        BY <1>5, <1>6, <1>8, <2>2
      <3> QED
        BY <1>4, <1>6, <1>8, <3>1, SMTT(60)
    <2> QED
      BY <1>3, <1>6, <1>7, <1>8, <2>1, <2>2
  <1>10. at[h + 1] - 1 <= k
    BY <1>4, <1>6, <1>8, <1>9, SMTT(60)
  <1> QED
    BY <1>8, <1>10 DEF N

(* The search for a quote from the end of a string finds the next string,             *)
LEMMA NextString ==
    ASSUME JsonState, NEW at, StandsInMemory(at), NEW h \in 1..Len(Strings), h < Len(Strings),
           NEW n \in Nat, Length <= n
    PROVE  /\ FirstQuote(at[h] + Len(Strings[h]) + 1, n) + 1 = at[h + 1]
           /\ FirstQuote(at[h + 1], n) = at[h + 1] + Len(Strings[h + 1])
           /\ at[h + 1] \in Nat /\ at[h + 1] + Len(Strings[h + 1]) < n
  <1> DEFINE a == at[h]
             m == Len(Strings[h])
             b == at[h + 1]
             l == Len(Strings[h + 1])
  <1>1. Len(Strings) \in Nat /\ h + 1 \in 1..Len(Strings) /\ h \in Nat /\ h < h + 1
    BY StringsAre
  <1>2. a \in Nat \ {0} /\ m \in Nat
    BY InString
  <1>3. /\ b \in Nat \ {0} /\ l \in Nat /\ b + l < Length
        /\ mem[b - 1] = QUOTE /\ mem[b + l] = QUOTE
        /\ \A k \in b..(b + l - 1) : mem[k] # QUOTE
    BY <1>1, InString
  <1>4. a + m + 1 < b
    BY <1>1, Zenon DEF StandsInMemory
  <1>5. Length \in Nat
    BY LengthAndText, HoldsFacts DEF JsonState
  <1> HIDE DEF a, m, b, l
  <1>6. FirstQuote(a + m + 1, n) = b - 1
    <2>1. a + m + 1 \in Nat /\ b - 1 \in (a + m + 1)..(n - 1)
      BY <1>2, <1>3, <1>4, <1>5
    <2>2. ASSUME NEW k \in (a + m + 1)..((b - 1) - 1) PROVE mem[k] # QUOTE
      <3>1. k \in Nat /\ k < Length /\ a + m < k /\ ~(b - 1 <= k)
        BY <1>2, <1>3, <1>4, <1>5
      <3> QED
        BY <3>1, QuoteBehind DEF a, m, b
    <2> QED
      BY <1>3, <2>1, <2>2, FirstQuoteAt
  <1>7. FirstQuote(b, n) = b + l
    <2>1. b \in Nat /\ b + l \in b..(n - 1)
      BY <1>3, <1>5
    <2> QED
      BY <1>3, <2>1, FirstQuoteAt
  <1>8. (b - 1) + 1 = b /\ b \in Nat /\ b + l < n
    BY <1>3, <1>5
  <1> QED
    BY <1>6, <1>7, <1>8 DEF a, m, b, l

(* or, behind the last one, nothing in the text.                                      *)
LEMMA NoNextString ==
    ASSUME JsonState, NEW at, StandsInMemory(at), NEW h \in 1..Len(Strings), ~(h < Len(Strings))
    PROVE  FirstQuote(at[h] + Len(Strings[h]) + 1, Length) = Length
  <1> DEFINE a == at[h]
             m == Len(Strings[h])
  <1>1. a \in Nat \ {0} /\ m \in Nat /\ a + m < Length
    BY InString
  <1>2. Length \in Nat
    BY LengthAndText, HoldsFacts DEF JsonState
  <1> HIDE DEF a, m
  <1>3. a + m + 1 \in Nat /\ a + m + 1 <= Length
    BY <1>1, <1>2
  <1>4. ASSUME NEW k \in (a + m + 1)..(Length - 1) PROVE mem[k] # QUOTE
    <2>1. k \in Nat /\ k < Length /\ a + m < k
      BY <1>1, <1>2
    <2> QED
      BY <2>1, QuoteBehind DEF a, m
  <1>5. FirstQuote(a + m + 1, Length) = Length
    BY <1>2, <1>3, <1>4, NoQuote
  <1> QED
    BY <1>5 DEF a, m

(* The strings of s that have the text of key in them.                                *)
Holders(s, key) == {h \in DOMAIN s : Places(key, s[h]) # {}}

(* The first occurrence in the memory is the first one in the first string that has   *)
(* one.                                                                               *)
LEMMA FirstOccurrence ==
    ASSUME JsonState, NEW at, StandsInMemory(at), NEW key, NEW n, Searched(key, n),
           Holders(Strings, key) # {}
    PROVE  /\ Min(Holders(Strings, key)) \in 1..Len(Strings)
           /\ Min(Places(key, Strings[Min(Holders(Strings, key))])) \in Places(key, Strings[Min(Holders(Strings, key))])
           /\ Occurrences(key, n) # {}
           /\ Min(Occurrences(key, n))
                  = at[Min(Holders(Strings, key))] + Min(Places(key, Strings[Min(Holders(Strings, key))])) - 1
  <1> DEFINE N == Len(Strings)
             H == Holders(Strings, key)
             h == Min(H)
             P == Places(key, Strings[h])
             p == Min(P)
             O == Occurrences(key, n)
             x == at[h] + p - 1
  <1>1. N \in Nat /\ DOMAIN Strings = 1..N /\ \A g \in 1..N : Strings[g] \in Seq(Letter)
    BY StringsAre
  <1>2. H \subseteq 1..N /\ H \subseteq Nat /\ H # {} /\ \A g \in 1..N : Places(key, Strings[g]) # {} => g \in H
    <2>1. H \subseteq 1..N /\ \A g \in 1..N : Places(key, Strings[g]) # {} => g \in H
      BY <1>1 DEF Holders
    <2>2. 1..N \subseteq Nat
      BY <1>1
    <2> QED
      BY <2>1, <2>2
  <1>3. h \in H /\ \A g \in H : h <= g
    <2> HIDE DEF H
    <2> QED
      BY <1>2, MinIsLeast
  <1>4. h \in 1..N /\ P # {}
    <2>1. \A g \in H : Places(key, Strings[g]) # {}
      BY DEF Holders
    <2> HIDE DEF H
    <2> QED
      BY <1>2, <1>3, <2>1
  <1>5. \A g \in 1..N : Places(key, Strings[g]) \subseteq Nat
    BY DEF Places
  <1>6. p \in P /\ p \in Nat /\ \A r \in P : p <= r /\ r \in Nat
    <2>1. P \subseteq Nat
      BY <1>4, <1>5
    <2> HIDE DEF P
    <2>2. p \in P /\ \A r \in P : p <= r
      BY <1>4, <2>1, MinIsLeast
    <2> QED
      BY <2>1, <2>2
  <1> HIDE DEF H, h, P, p
  <1>7. /\ x \in O /\ x \in Nat
        /\ x + Len(key) <= at[h] + Len(Strings[h])
    BY <1>4, <1>6, PlaceOccurs DEF P
  <1>8. Len(key) \in Nat \ {0} /\ Length \in Nat
    BY DEF Searched
  <1>9. /\ at[h] \in Nat \ {0} /\ Len(Strings[h]) \in Nat /\ at[h] + Len(Strings[h]) < Length
    BY <1>4, InString
  <1>10. O \subseteq Nat
    BY DEF Occurrences
  <1> DEFINE a == at[h]
             m == Len(Strings[h])
             K == Len(key)
  <1> HIDE DEF O, x
  <1>11. ASSUME NEW y \in O PROVE x <= y
    <2>1. CASE y < Length
      <3>1. PICK g \in 1..N : y - at[g] + 1 \in Places(key, Strings[g]) /\ y - at[g] + 1 \in Nat
        BY <2>1, OccursInString DEF O
      <3>2. g \in H
        BY <1>2, <3>1
      <3>3. h <= g /\ g \in Nat /\ h \in Nat
        BY <1>1, <1>2, <1>3, <1>4, <3>1, <3>2
      <3> DEFINE b == at[g]
      <3>4. b \in Nat \ {0}
        BY <3>1, InString
      <3>5. CASE h = g
        <4>1. y - b + 1 \in P
          BY <3>1, <3>5 DEF P
        <4>2. p <= y - b + 1 /\ b = a
          BY <1>6, <3>5, <4>1
        <4>3. y \in Nat
          BY <1>10
        <4> HIDE DEF b, a
        <4>4. a + p - 1 <= y
          BY <1>6, <3>4, <4>2, <4>3
        <4> QED
          BY <4>4 DEF x, a
      <3>6. CASE h < g
        <4>1. a + m + 1 < b
          BY <1>4, <3>1, <3>6, Zenon DEF StandsInMemory
        <4>2. y \in Nat /\ b <= y + 1
          <5>1. y \in Nat /\ y - b + 1 \in Nat
            BY <1>10, <3>1
          <5> HIDE DEF b
          <5> QED
            BY <3>4, <5>1
        <4>3. x \in Nat /\ x + K <= a + m
          BY <1>7
        <4>4. a \in Nat /\ m \in Nat /\ K \in Nat \ {0}
          BY <1>8, <1>9
        <4> HIDE DEF a, b, m, K
        <4> QED
          BY <3>4, <4>1, <4>2, <4>3, <4>4
      <3> QED
        BY <3>3, <3>5, <3>6
    <2>2. CASE ~(y < Length)
      <3>1. y \in Nat
        BY <1>10
      <3>2. x \in Nat /\ x + K <= a + m /\ a + m < Length
        BY <1>7, <1>9
      <3>3. a \in Nat /\ m \in Nat /\ K \in Nat \ {0} /\ Length \in Nat
        BY <1>8, <1>9
      <3> HIDE DEF a, m, K
      <3> QED
        BY <2>2, <3>1, <3>2, <3>3
    <2> QED
      BY <2>1, <2>2
  <1>12. Min(O) = x /\ O # {}
    BY <1>7, <1>10, <1>11, MinIs
  <1> QED
    BY <1>4, <1>6, <1>12 DEF H, h, P, p, O, x

(* Without such a string there is no occurrence in the text.                          *)
LEMMA NoOccurrence ==
    ASSUME JsonState, NEW at, StandsInMemory(at), NEW key, Searched(key, Length),
           Holders(Strings, key) = {}
    PROVE  Occurrences(key, Length) = {}
  <1>1. SUFFICES ASSUME NEW k \in Occurrences(key, Length) PROVE FALSE
    OBVIOUS
  <1>2. k < Length
    <2> DEFINE K == Len(key)
    <2>1. K \in Nat \ {0} /\ Length \in Nat
      BY DEF Searched
    <2>2. k \in 0..(Length - K - 1)
      BY DEF Occurrences
    <2> HIDE DEF K
    <2> QED
      BY <2>1, <2>2
  <1>3. PICK h \in 1..Len(Strings) : k - at[h] + 1 \in Places(key, Strings[h])
    BY <1>2, OccursInString
  <1>4. h \in DOMAIN Strings
    BY StringsAre
  <1> QED
    BY <1>3, <1>4 DEF Holders

(* What a search answers, if the key's text ends a string with another one behind it. *)
LEMMA FindsTheNext ==
    ASSUME JsonState, NEW at, StandsInMemory(at), NEW key \in Key, NEW n \in {Length, buffer_size},
           NEW max \in ValueSize, FindByKey(key, n, max),
           NEW h \in 1..Len(Strings), h < Len(Strings),
           Occurrences(key, n) # {},
           Min(Occurrences(key, n)) + Len(key) = at[h] + Len(Strings[h])
    PROVE  IF Len(Strings[h + 1]) < max
           THEN status' = TRUE /\ value' = Append(Strings[h + 1], NUL)
           ELSE status' = FALSE
  <1> DEFINE behind  == Min(Occurrences(key, n)) + Len(key)
             isKey   == Occurrences(key, n) # {} /\ mem[behind] = QUOTE
             start   == FirstQuote(behind + 1, n) + 1
             end     == FirstQuote(start, n)
             copied  == Min({end - start, max})
             found   == start < n /\ end < n /\ Fits(end - start, max)
             chars   == [k \in 1..copied |-> mem[start + k - 1]]
             b == at[h + 1]
             s == Strings[h + 1]
             l == Len(s)
  <1>1. IF isKey
        THEN /\ status' = found
             /\ value' = IF start >= n THEN <<>>
                         ELSE IF found THEN Append(chars, NUL) ELSE chars
        ELSE status' = FALSE /\ value' = <<>>
    BY DEF FindByKey
  <1>2. Length \in Nat /\ n \in Nat /\ Length <= n
    BY SearchedIs DEF Searched
  <1>3. isKey
    <2>1. mem[at[h] + Len(Strings[h])] = QUOTE
      BY InString
    <2> QED
      BY <2>1
  <1>4. start = b /\ end = b + l /\ b \in Nat /\ b + l < n
    <2>1. /\ FirstQuote(at[h] + Len(Strings[h]) + 1, n) + 1 = b
          /\ FirstQuote(b, n) = b + l
          /\ b \in Nat /\ b + l < n
      BY <1>2, NextString
    <2>2. start = b
      BY <2>1
    <2> QED
      BY <2>1, <2>2
  <1>5. h + 1 \in 1..Len(Strings)
    BY StringsAre
  <1>6. l \in Nat /\ s \in Seq(Letter) /\ \A j \in 1..l : mem[b + j - 1] = s[j]
    BY <1>5, InString
  <1>7. max \in Nat
    BY JsonAssumption
  <1> HIDE DEF isKey, start, end, b, s, l
  <1>8. end - start = l /\ start < n /\ end < n /\ ~(start >= n)
    BY <1>2, <1>4, <1>6
  <1>9. found <=> l < max
    BY <1>8 DEF Fits
  <1>10. status' = found /\ (found => value' = Append(chars, NUL))
    <2> HIDE DEF found, chars
    <2> QED
      BY <1>1, <1>3, <1>8
  <1>11. ASSUME l < max PROVE chars = s
    <2>1. copied = l
      <3> DEFINE T == {end - start, max}
      <3>1. T \subseteq Nat /\ l \in T /\ \A y \in T : l <= y
        BY <1>6, <1>7, <1>8, <1>11
      <3> HIDE DEF T
      <3>2. Min(T) = l
        BY <3>1, MinIs
      <3> QED
        BY <3>2 DEF T
    <2>2. chars = [k \in 1..l |-> mem[b + k - 1]]
      BY <1>4, <2>1
    <2>3. chars = [k \in 1..l |-> s[k]]
      BY <1>6, <2>2
    <2>4. s = [k \in 1..l |-> s[k]]
      BY <1>6 DEF l
    <2> QED
      BY <2>3, <2>4
  <1> HIDE DEF found, chars
  <1>12. CASE l < max
    BY <1>9, <1>10, <1>11, <1>12 DEF l, s
  <1>13. CASE ~(l < max)
    BY <1>9, <1>10, <1>13 DEF l, s, found
  <1> QED
    BY <1>12, <1>13

(* FindsWhatWasAdded, for given strings, length, arguments and answers.               *)
Finds(s, length_of_text, key, n, max, st, val) ==
    LET holders == Holders(s, key)
        h       == Min(holders)
        atEnd   == Min(Places(key, s[h])) + Len(key) - 1 = Len(s[h])
    IN  IF holders # {} /\ (atEnd => h < Len(s))
        THEN IF atEnd /\ Len(s[h + 1]) < max
             THEN st /\ val = Append(s[h + 1], NUL)
             ELSE ~st
        ELSE n = length_of_text => ~st

(* The same, of the search that has just returned.                                    *)
Answered ==
    asked # NotAsked => Finds(Strings, Length, asked.key, asked.searched, asked.max, status, value)

(* These say the same.                                                                *)
LEMMA FindsIs == FindsWhatWasAdded <=> Answered
  BY DEF FindsWhatWasAdded, Answered, Finds, Holders

(* A search answers what it should.                                                   *)
LEMMA SearchAnswers ==
    ASSUME JsonState, NEW key \in Key, NEW n \in {Length, buffer_size}, NEW max \in ValueSize,
           FindByKey(key, n, max)
    PROVE  Finds(Strings, Length, key, n, max, status', value')
  <1>1. PICK at : StandsInMemory(at)
    BY StringsStand
  <1>2. Searched(key, n)
    BY SearchedIs
  <1> DEFINE H == Holders(Strings, key)
             h == Min(H)
             p == Min(Places(key, Strings[h]))
             O == Occurrences(key, n)
             behind == Min(O) + Len(key)
             K == Len(key)
             atEnd == p + K - 1 = Len(Strings[h])
  <1>3. /\ (O # {} /\ mem[behind] = QUOTE) \/ status' = FALSE
        /\ ~(FirstQuote(behind + 1, n) + 1 < n) => status' = FALSE
    <2> DEFINE isKey == O # {} /\ mem[behind] = QUOTE
               start == FirstQuote(behind + 1, n) + 1
               end == FirstQuote(start, n)
               found == start < n /\ end < n /\ Fits(end - start, max)
    <2>1. IF isKey THEN status' = found ELSE status' = FALSE
      BY DEF FindByKey
    <2>2. ~(start < n) => found = FALSE
      OBVIOUS
    <2> HIDE DEF found, start
    <2> QED
      BY <2>1, <2>2 DEF start
  <1>4. CASE H = {} /\ n = Length
    <2>1. O = {}
      BY <1>1, <1>2, <1>4, NoOccurrence
    <2>2. status' = FALSE
      BY <1>3, <2>1
    <2> QED
      BY <1>4, <2>2 DEF Finds
  <1>5. CASE H = {} /\ n # Length
    BY <1>5 DEF Finds
  <1>6. ASSUME H # {}
        PROVE  /\ h \in 1..Len(Strings) /\ p \in Places(key, Strings[h])
               /\ O # {} /\ Min(O) = at[h] + p - 1
    BY <1>1, <1>2, <1>6, FirstOccurrence
  <1>7. ASSUME H # {}
        PROVE  /\ at[h] \in Nat \ {0} /\ Len(Strings[h]) \in Nat /\ K \in Nat \ {0} /\ p \in Nat
               /\ at[h] + p - 1 + K <= at[h] + Len(Strings[h])
    <2>1. h \in 1..Len(Strings) /\ p \in Places(key, Strings[h])
      BY <1>6, <1>7
    <2>2. at[h] \in Nat \ {0} /\ Len(Strings[h]) \in Nat
      BY <1>1, <2>1, InString
    <2>3. K \in Nat \ {0}
      BY <1>2 DEF Searched
    <2>4. p \in Nat /\ at[h] + p - 1 + K <= at[h] + Len(Strings[h])
      <3> HIDE DEF p, h
      <3> QED
        BY <1>1, <1>2, <2>1, PlaceOccurs
    <2> QED
      BY <2>2, <2>3, <2>4
  <1>8. ASSUME H # {}, atEnd PROVE behind = at[h] + Len(Strings[h])
    <2> DEFINE a == at[h]
               m == Len(Strings[h])
    <2>1. a \in Nat /\ m \in Nat /\ K \in Nat /\ p \in Nat /\ p + K - 1 = m
      BY <1>7, <1>8
    <2>2. behind = (a + p - 1) + K
      BY <1>6, <1>8
    <2> HIDE DEF a, m, K, p, behind
    <2>3. behind = a + m
      BY <2>1, <2>2
    <2> QED
      BY <2>3 DEF a, m
  <1>9. CASE H # {} /\ atEnd /\ h < Len(Strings)
    <2>1. behind = at[h] + Len(Strings[h])
      BY <1>8, <1>9
    <2>2. h \in 1..Len(Strings) /\ h < Len(Strings) /\ O # {}
      BY <1>6, <1>9
    <2> HIDE DEF h
    <2>3. IF Len(Strings[h + 1]) < max
          THEN status' = TRUE /\ value' = Append(Strings[h + 1], NUL)
          ELSE status' = FALSE
      BY <1>1, <2>1, <2>2, FindsTheNext
    <2> QED
      BY <1>9, <2>3, Zenon DEF Finds, h
  <1>10. CASE H # {} /\ atEnd /\ ~(h < Len(Strings))
    <2>1. SUFFICES ASSUME n = Length PROVE status' = FALSE
      BY <1>10, Zenon DEF Finds
    <2>2. behind = at[h] + Len(Strings[h])
      BY <1>8, <1>10
    <2>3. h \in 1..Len(Strings)
      BY <1>6, <1>10
    <2>4. FirstQuote(at[h] + Len(Strings[h]) + 1, Length) = Length
      <3> HIDE DEF h
      <3> QED
        BY <1>1, <1>10, <2>3, NoNextString
    <2>5. FirstQuote(behind + 1, n) = n
      BY <2>1, <2>2, <2>4
    <2>6. n \in Nat
      BY <1>2 DEF Searched
    <2>7. ~(n + 1 < n)
      BY <2>6
    <2> HIDE DEF behind
    <2> QED
      BY <1>3, <2>5, <2>7
  <1>11. CASE H # {} /\ ~atEnd
    <2> DEFINE a == at[h]
               m == Len(Strings[h])
    <2>1. /\ a \in Nat \ {0} /\ m \in Nat /\ K \in Nat \ {0} /\ p \in Nat
          /\ a + p - 1 + K <= a + m /\ p + K - 1 # m
      BY <1>7, <1>11
    <2>2. behind = (a + p - 1) + K
      BY <1>6, <1>11
    <2>3. h \in 1..Len(Strings)
      BY <1>6, <1>11
    <2>4. \A k \in a..(a + m - 1) : mem[k] # QUOTE
      <3> HIDE DEF h
      <3> QED
        BY <1>1, <2>3, InString
    <2> HIDE DEF a, m, K, p, behind
    <2>5. behind \in a..(a + m - 1)
      BY <2>1, <2>2
    <2>6. status' = FALSE
      BY <1>3, <2>4, <2>5
    <2> QED
      BY <1>11, <2>6, Zenon DEF Finds, p, K
  <1> QED
    BY <1>4, <1>5, <1>9, <1>10, <1>11

(* A search speaks of the text there is; every other call forgets it.                 *)
LEMMA FindsNext == JsonInv /\ FindsWhatWasAdded /\ [JsonNext]_jvars => FindsWhatWasAdded'
  <1>1. (FindsWhatWasAdded <=> Answered) /\ (FindsWhatWasAdded' <=> Answered')
    BY FindsIs, PTL
  <1>2. Answered' <=> (asked' # NotAsked =>
            Finds(Strings', Length', asked'.key, asked'.searched, asked'.max, status', value'))
    BY DEF Answered
  <1> SUFFICES ASSUME JsonState, Answered, [JsonNext]_jvars, asked' # NotAsked
               PROVE  Finds(Strings', Length', asked'.key, asked'.searched, asked'.max, status', value')
    BY <1>1, <1>2, JsonInvIs
  <1>3. ASSUME UNCHANGED <<mem, calls>> PROVE Strings' = Strings /\ Length' = Length
    BY <1>3 DEF Strings, Length
  <1>4. CASE UNCHANGED jvars
    <2>1. UNCHANGED <<mem, calls, asked, status, value>>
      BY <1>4 DEF jvars
    <2> QED
      BY <1>3, <2>1 DEF Answered
  <1>5. CASE \E key \in Key, n \in {Length, buffer_size}, max \in ValueSize : FindByKey(key, n, max)
    <2>1. PICK key \in Key, n \in {Length, buffer_size}, max \in ValueSize : FindByKey(key, n, max)
      BY <1>5
    <2>2. Finds(Strings, Length, key, n, max, status', value')
      BY <2>1, SearchAnswers
    <2>3. UNCHANGED <<mem, calls>> /\ asked' = [key |-> key, searched |-> n, max |-> max]
      BY <2>1 DEF FindByKey
    <2>4. asked'.key = key /\ asked'.searched = n /\ asked'.max = max
      BY <2>3
    <2> QED
      BY <1>3, <2>2, <2>3, <2>4
  <1>6. CASE StartString \/ EndString \/ \E key \in Key, val \in Value : AddData(key, val)
    <2>1. asked' = NotAsked
      BY <1>6 DEF StartString, EndString, AddData, Returns
    <2> QED
      BY <2>1
  <1> QED
    BY <1>4, <1>5, <1>6 DEF JsonNext

(* and so the answers are always right.                                               *)
LEMMA FindsHolds == JsonSpec => []FindsWhatWasAdded
  <1>1. JsonInit => FindsWhatWasAdded
    BY DEF JsonInit, FindsWhatWasAdded
  <1> QED
    BY <1>1, JsonInvInit, JsonInvNext, FindsNext, PTL DEF JsonSpec

(* A string that call x has to say.                                                    *)
SaidBy(s, x) == x.kind = "pair" /\ s \in {x.key, x.value}

(* The strings s are those of the calls c, in their order, each value behind its key.  *)
InOrder(c, s) ==
    /\ \A g \in 1..Len(s) : \E m \in 1..Len(c) : SaidBy(s[g], c[m])
    /\ \A n \in 1..Len(c) :
          c[n].kind = "pair" =>
              \E h \in 1..Len(s) :
                  /\ h < Len(s) /\ s[h] = c[n].key /\ s[h + 1] = c[n].value
                  /\ \A g \in 1..(h - 1) : \E m \in 1..(n - 1) : SaidBy(s[g], c[m])

(* They are after one call more,                                                      *)
LEMMA OneMoreInOrder ==
    ASSUME NEW c \in Seq(Call), NEW x \in Call, InOrder(c, Names(c))
    PROVE  InOrder(Append(c, x), Names(Append(c, x)))
  <1> DEFINE N == Len(c)
             a == Append(c, x)
             s == Names(c)
             t == Names(a)
             L == Len(s)
  <1>1. N \in Nat /\ a \in Seq(Call) /\ Len(a) = N + 1 /\ a[N + 1] = x /\ \A m \in 1..N : a[m] = c[m]
    BY AppendProperties
  <1>2. /\ s \in Seq(Seq(Letter)) /\ t = s \o NamesOf(x) /\ L \in Nat
        /\ \A g \in 1..L : s[g] \in Seq(Letter)
    BY NamesAppend, StringLengths
  <1>3. /\ x.kind # "pair" => NamesOf(x) = <<>>
        /\ x.kind = "pair" => NamesOf(x) = <<x.key, x.value>> /\ x.key \in Seq(Letter) /\ x.value \in Seq(Letter)
    BY NamesOfType
  <1>4. /\ \A g \in 1..L : \E m \in 1..N : SaidBy(s[g], c[m])
        /\ \A n \in 1..N :
              c[n].kind = "pair" =>
                  \E h \in 1..L :
                      /\ h < L /\ s[h] = c[n].key /\ s[h + 1] = c[n].value
                      /\ \A g \in 1..(h - 1) : \E m \in 1..(n - 1) : SaidBy(s[g], c[m])
    BY DEF InOrder
  <1> HIDE DEF N, a, s, t, L
  <1>5. /\ \A g \in 1..L : t[g] = s[g]
        /\ x.kind # "pair" => Len(t) = L
        /\ x.kind = "pair" => Len(t) = L + 2 /\ t[L + 1] = x.key /\ t[L + 2] = x.value
    <2>1. CASE x.kind # "pair"
      <3>1. t = s /\ Len(t) = L
        BY <1>2, <1>3, <2>1 DEF L
      <3> QED
        BY <2>1, <3>1
    <2>2. CASE x.kind = "pair"
      <3> DEFINE W == Seq(Letter)
      <3>1. s \in Seq(W) /\ x.key \in W /\ x.value \in W /\ t = s \o <<x.key, x.value>> /\ L = Len(s) /\ L \in Nat
        BY <1>2, <1>3, <2>2 DEF L
      <3> HIDE DEF W
      <3> QED
        BY <2>2, <3>1
    <2> QED
      BY <2>1, <2>2
  <1>6. ASSUME NEW g \in 1..L PROVE \E m \in 1..N : SaidBy(t[g], a[m])
    <2>1. PICK m \in 1..N : SaidBy(s[g], c[m])
      BY <1>4
    <2> QED
      BY <1>1, <1>5, <2>1
  <1>7. ASSUME NEW g \in 1..Len(t) PROVE \E m \in 1..(N + 1) : SaidBy(t[g], a[m])
    <2>1. CASE g \in 1..L
      <3>1. PICK m \in 1..N : SaidBy(t[g], a[m])
        BY <1>6, <2>1
      <3> QED
        BY <1>1, <3>1
    <2>2. CASE g \notin 1..L
      <3>1. x.kind = "pair" /\ (g = L + 1 \/ g = L + 2)
        BY <1>2, <1>5, <2>2
      <3>2. SaidBy(t[g], x)
        BY <1>5, <3>1 DEF SaidBy
      <3>3. N + 1 \in 1..(N + 1)
        BY <1>1
      <3> QED
        BY <1>1, <3>2, <3>3
    <2> QED
      BY <2>1, <2>2
  <1>8. ASSUME NEW n \in 1..(N + 1), a[n].kind = "pair"
        PROVE  \E h \in 1..Len(t) :
                  /\ h < Len(t) /\ t[h] = a[n].key /\ t[h + 1] = a[n].value
                  /\ \A g \in 1..(h - 1) : \E m \in 1..(n - 1) : SaidBy(t[g], a[m])
    <2>1. CASE n \in 1..N
      <3>1. a[n] = c[n]
        BY <1>1, <2>1
      <3>2. PICK h \in 1..L :
                /\ h < L /\ s[h] = c[n].key /\ s[h + 1] = c[n].value
                /\ \A g \in 1..(h - 1) : \E m \in 1..(n - 1) : SaidBy(s[g], c[m])
        BY <1>4, <1>8, <2>1, <3>1
      <3>3. h \in 1..Len(t) /\ h < Len(t) /\ h + 1 \in 1..L
        BY <1>2, <1>5, <3>2
      <3>4. t[h] = a[n].key /\ t[h + 1] = a[n].value
        BY <1>5, <3>1, <3>2, <3>3
      <3>5. ASSUME NEW g \in 1..(h - 1) PROVE \E m \in 1..(n - 1) : SaidBy(t[g], a[m])
        <4>1. PICK m \in 1..(n - 1) : SaidBy(s[g], c[m])
          BY <3>2
        <4>2. g \in 1..L /\ m \in 1..N
          BY <1>1, <1>2, <2>1
        <4> QED
          BY <1>1, <1>5, <4>1, <4>2
      <3> QED
        BY <3>3, <3>4, <3>5
    <2>2. CASE n = N + 1
      <3>1. a[n] = x /\ x.kind = "pair"
        BY <1>1, <1>8, <2>2
      <3>2. L + 1 \in 1..Len(t) /\ L + 1 < Len(t) /\ (L + 1) + 1 = L + 2 /\ (L + 1) - 1 = L /\ n - 1 = N
        BY <1>1, <1>2, <1>5, <2>2, <3>1
      <3>3. t[L + 1] = a[n].key /\ t[(L + 1) + 1] = a[n].value
        BY <1>5, <3>1, <3>2
      <3> QED
        BY <1>6, <3>2, <3>3
    <2> QED
      BY <1>1, <2>1, <2>2
  <1>9. InOrder(a, t)
    BY <1>1, <1>7, <1>8 DEF InOrder
  <1> QED
    BY <1>9 DEF a, t

(* and so they always are.                                                            *)
LEMMA CallsInOrder ==
    ASSUME NEW c \in Seq(Call)
    PROVE  InOrder(c, Names(c))
  <1> DEFINE T == {d \in Seq(Call) : InOrder(d, Names(d))}
  <1>1. <<>> \in T
    <2>1. Names(<<>>) = <<>>
      BY FlattenEmpty DEF Names
    <2>2. InOrder(<<>>, <<>>)
      BY DEF InOrder
    <2> QED
      BY <2>1, <2>2
  <1>2. ASSUME NEW d \in Seq(Call), NEW x \in Call, d \in T PROVE Append(d, x) \in T
    <2>1. Append(d, x) \in Seq(Call)
      BY AppendProperties
    <2> QED
      BY <1>2, <2>1, OneMoreInOrder
  <1> HIDE DEF T
  <1>3. c \in T
    BY <1>1, <1>2, CallByCall
  <1> QED
    BY <1>3 DEF T

(* A key is found by what was added: if no string before the pair contains the key's  *)
(* text, the search has the value of the pair, or fails because it does not fit.      *)
FindsTheValue ==
    asked # NotAsked =>
        \A n \in DOMAIN calls :
            /\ calls[n].kind = "pair" /\ calls[n].key = asked.key
            /\ \A m \in 1..(n - 1) :
                  calls[m].kind = "pair" =>
                      Places(asked.key, calls[m].key) = {} /\ Places(asked.key, calls[m].value) = {}
            => IF Len(calls[n].value) < asked.max
               THEN status /\ value = Append(calls[n].value, NUL)
               ELSE ~status

(* A string contains itself once, from its beginning to its end.                      *)
LEMMA PlaceInItself ==
    ASSUME NEW s \in Seq(Letter)
    PROVE  Places(s, s) = {1}
  <1>1. Len(s) - Len(s) + 1 = 1 /\ 1 + Len(s) - 1 = Len(s) /\ 1..1 = {1}
    OBVIOUS
  <1>2. SubSeq(s, 1, Len(s)) = s
    BY SubSeqFull
  <1> QED
    BY <1>1, <1>2, Zenon DEF Places

(* What a search finds in the strings, it finds in the calls.                         *)
LEMMA FindsTheValueFollows == JsonInv /\ FindsWhatWasAdded => FindsTheValue
  <1> SUFFICES ASSUME JsonState, Answered, asked # NotAsked,
                      NEW n \in DOMAIN calls, calls[n].kind = "pair", calls[n].key = asked.key,
                      \A m \in 1..(n - 1) :
                          calls[m].kind = "pair" =>
                              Places(asked.key, calls[m].key) = {} /\ Places(asked.key, calls[m].value) = {}
               PROVE  IF Len(calls[n].value) < asked.max
                      THEN status /\ value = Append(calls[n].value, NUL)
                      ELSE ~status
    BY JsonInvIs, FindsIs DEF FindsTheValue
  <1> DEFINE key == asked.key
             H == Holders(Strings, key)
             N == Len(Strings)
  <1>1. calls \in Seq(Call) /\ DOMAIN calls = 1..Len(calls) /\ calls[n] \in Call
    BY HoldsFacts, ElementOfSeq DEF JsonState
  <1>2. Strings = Names(calls) /\ N \in Nat /\ DOMAIN Strings = 1..N
    BY StringsAre
  <1>3. key \in Seq(Letter)
    BY <1>1, NamesOfType
  <1>4. InOrder(calls, Strings)
    BY <1>1, <1>2, CallsInOrder
  <1>5. PICK h \in 1..N :
            /\ h < N /\ Strings[h] = key /\ Strings[h + 1] = calls[n].value
            /\ \A g \in 1..(h - 1) : \E m \in 1..(n - 1) : SaidBy(Strings[g], calls[m])
    BY <1>1, <1>4 DEF InOrder
  <1>6. Places(key, Strings[h]) = {1}
    BY <1>3, <1>5, PlaceInItself
  <1>7. h \in H
    BY <1>2, <1>5, <1>6 DEF Holders
  <1>8. ASSUME NEW g \in H PROVE h <= g
    <2>1. g \in 1..N /\ Places(key, Strings[g]) # {}
      BY <1>2 DEF Holders
    <2>2. ASSUME g < h PROVE FALSE
      <3>1. g \in 1..(h - 1)
        BY <2>1, <2>2
      <3>2. PICK m \in 1..(n - 1) : SaidBy(Strings[g], calls[m])
        BY <1>5, <3>1
      <3> QED
        BY <2>1, <3>2 DEF SaidBy
    <2> QED
      BY <1>2, <2>1, <2>2
  <1>9. Min(H) = h
    <2>1. H \subseteq Int /\ h \in Int
      BY <1>2 DEF Holders
    <2> QED
      BY <1>7, <1>8, <2>1 DEF Min
  <1>10. Min({1}) = 1
    BY DEF Min
  <1>11. Min(Places(key, Strings[h])) + Len(key) - 1 = Len(Strings[h])
    <2>1. 1 + Len(key) - 1 = Len(key)
      BY <1>3
    <2> QED
      BY <1>5, <1>6, <1>10, <2>1, Zenon
  <1> QED
    BY <1>5, <1>7, <1>9, <1>11, Zenon DEF Answered, Finds

---------------------------------------------------------------------------------------
(* The four together                                                                  *)

(* The four parts do not touch each other's variables.                                *)
LEMMA EachPart == Spec => JsonSpec /\ ConvSpec /\ Base64Spec /\ WireSpec
  <1>1. Init => JsonInit /\ ConvInit /\ Base64Init /\ WireInit
    BY DEF Init
  <1>2. [Next]_vars => [JsonNext]_jvars /\ [ConvNext]_cvars /\ [Base64Next]_bvars /\ [WireNext]_wvars
    BY DEF Next, vars
  <1> QED
    BY <1>1, <1>2, PTL DEF Spec, JsonSpec, ConvSpec, Base64Spec, WireSpec

(* Every variable of the four modules keeps its type. This says more than ranges, and  *)
(* no more than the code keeps: the JSON buffer holds a terminator, or, behind a comma *)
(* in its last place, the byte behind it does. Base64's loops read their data or text, *)
(* and one character behind a text that is one longer than whole groups; the           *)
(* characters written fit the limit, but the encoder's terminator may lie one behind.  *)
(* No field of the serialisation buffer reaches out of it.                             *)
THEOREM TypeCorrect == Spec => []TypeOK
  <1>1. JsonInv => JsonTypeOK
    BY DEF JsonInv
  <1>2. ConvInv => ConvTypeOK
    BY DEF ConvInv
  <1>3. Base64Inv /\ ReadInv => Base64TypeOK
    BY Base64TypesFollow
  <1> QED
    BY <1>1, <1>2, <1>3, EachPart, JsonInvHolds, ConvInvHolds, ReadInvHolds, WireInvariance,
       PTL DEF TypeOK

(* A JSON text begun with Json_startString is what the accepted calls since then asked *)
(* for, in their order, with one comma between pairs however many were refused in      *)
(* between, whatever the buffer held: for buffers of any size and any keys and values. *)
(* (Pairs added to an empty buffer are not covered: they may get a comma in front.)    *)
THEOREM TextIsWhatWasAdded == Spec => []TextSaysWhatWasAdded
  BY EachPart, BegunInvHolds, JustWhatWasAdded, PTL

(* Json_findByKey answers with the string behind the first key or value that ends in  *)
(* the key's text, if that is where the text occurs first, and fails otherwise: for   *)
(* any keys and values, any sizes, and any old text behind the one that is searched.  *)
THEOREM SearchFinds == Spec => []FindsWhatWasAdded
  BY EachPart, FindsHolds, PTL

(* Json_findByKey keeps the promise of json.h for every key whose text stands in no   *)
(* string before it: the value that was added with it is found and copied, for any     *)
(* other keys and values, any sizes, and whatever lies behind the text.                *)
THEOREM ValueIsFound == Spec => []FindsTheValue
  BY EachPart, JsonInvHolds, FindsHolds, FindsTheValueFollows, PTL

(* Utils_StringToUint32 succeeds for the numerals of words, with their value, and for *)
(* no other string: for words of any width and strings of any length.                 *)
THEOREM NumeralIsRead == Spec => []ReadsNumeral
  <1>1. ConvInv => ReadsNumeral
    BY DEF ConvInv
  <1> QED
    BY <1>1, EachPart, ConvInvHolds, PTL

(* Base64_encode fails exactly if the text does not fit; it writes the bits of the     *)
(* data, six by six, padded, as far as they fit, and a terminator if there is room for *)
(* one: for data of any length, those that size_t has no room for among them.          *)
THEOREM BitsAreEncoded == Spec => []EncodesBits
  <1>1. Base64Inv => EncodesBits
    BY BitsFollow
  <1> QED
    BY <1>1, EachPart, Base64InvHolds, PTL

(* Base64_decode writes the bytes whose bits the characters have, of any text, and     *)
(* turns what was encoded from three bytes or more into those bytes exactly if there   *)
(* is room. Nothing is said of shorter data, nor of a byte that is partly made from    *)
(* behind the text.                                                                    *)
THEOREM BitsAreDecoded == Spec => []DecodesBits
  <1>1. Base64Inv => DecodesBits
    BY BitsFollow
  <1> QED
    BY <1>1, EachPart, Base64InvHolds, PTL

(* What the serialisation functions have written, and bit functions have changed, is  *)
(* read back by their counterparts until it is overwritten: for any words, blobs and  *)
(* bit numbers, wherever they lie in the buffer.                                      *)
THEOREM WrittenIsReadBack == Spec => []FieldsReadBack
  BY EachPart, WireInvariance, PTL

=====================================================================================
