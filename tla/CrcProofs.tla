----------------------------- MODULE CrcProofs ------------------------------
(***************************************************************************)
(* Proofs about Crc for every set of CRC functions: any width of at least  *)
(* a byte, any polynomial, any bytes and any length of the message.        *)
(*                                                                         *)
(* The central fact is that a table of 256 entries is enough: the division *)
(* step is linear, so what eight of them do to a register is what they do  *)
(* to its top byte (the table entry) XOR what they do to the rest (a       *)
(* shift, because no one leaves the register within eight steps).          *)
(*                                                                         *)
(* On top of it, the functions called with a message in pieces implement   *)
(* CrcStream: the register is always the remainder of the bytes so far.    *)
(*                                                                         *)
(* And the remainder is worth having: division never makes a difference    *)
(* vanish that is no longer than the checksum, because the generators all  *)
(* have the term 1, so damage of that length is always noticed.            *)
(***************************************************************************)
EXTENDS Crc, Recursion, TLAPS

(* What a shift to the left contains. *)
LEMMA ShiftLeftMember ==
    ASSUME NEW width \in Nat, NEW w \in SUBSET Int, NEW n \in Int, NEW x \in Int
    PROVE  x \in ShiftLeft(w, n, width) <=> x - n \in w /\ x < width
  <1>1. ASSUME x \in ShiftLeft(w, n, width) PROVE x - n \in w /\ x < width
    BY <1>1 DEF ShiftLeft
  <1>2. ASSUME x - n \in w, x < width PROVE x \in ShiftLeft(w, n, width)
    <2>1. x - n \in {j \in w : j + n < width}
      BY <1>2
    <2>2. x = (x - n) + n
      OBVIOUS
    <2> QED
      BY <2>1, <2>2 DEF ShiftLeft
  <1> QED
    BY <1>1, <1>2

(* A shift to the left of a word is a word. *)
LEMMA ShiftLeftType ==
    ASSUME NEW width \in Nat, NEW n \in Nat, NEW w \in SUBSET Nat
    PROVE  ShiftLeft(w, n, width) \in Word(width)
  BY DEF ShiftLeft, Word

(* XOR stays within the word. *)
LEMMA XorType ==
    ASSUME NEW width \in Nat, NEW a \in Word(width), NEW b \in Word(width)
    PROVE  Xor(a, b) \in Word(width)
  BY DEF Xor, Word

(* Shifting distributes over XOR. *)
LEMMA ShiftLeftLinear ==
    ASSUME NEW width \in Nat, NEW n \in Nat,
           NEW a \in SUBSET Nat, NEW b \in SUBSET Nat
    PROVE  ShiftLeft(Xor(a, b), n, width) =
           Xor(ShiftLeft(a, n, width), ShiftLeft(b, n, width))
  <1> DEFINE left  == ShiftLeft(Xor(a, b), n, width)
             right == Xor(ShiftLeft(a, n, width), ShiftLeft(b, n, width))
  <1>1. Xor(a, b) \in SUBSET Nat
    BY DEF Xor
  <1>2. left \subseteq Int /\ right \subseteq Int
    BY <1>1, ShiftLeftType DEF Word, Xor
  <1>3. ASSUME NEW x \in Int PROVE x \in left <=> x \in right
    <2>1. x \in left <=> x - n \in Xor(a, b) /\ x < width
      BY <1>1, ShiftLeftMember
    <2>2. /\ x \in ShiftLeft(a, n, width) <=> x - n \in a /\ x < width
          /\ x \in ShiftLeft(b, n, width) <=> x - n \in b /\ x < width
      BY ShiftLeftMember
    <2> QED
      BY <2>1, <2>2 DEF Xor
  <1> QED
    BY <1>2, <1>3

(* The division step stays within the word. *)
LEMMA DivisionStepType ==
    ASSUME NEW v, v.width \in Nat \ {0}, v.polynomial \in Word(v.width),
           NEW r \in Word(v.width)
    PROVE  DivisionStep(r, v) \in Word(v.width)
  <1>1. ShiftLeft(r, 1, v.width) \in Word(v.width)
    BY ShiftLeftType DEF Word
  <1> QED
    BY <1>1, XorType DEF DivisionStep

(* The division step is linear. *)
LEMMA DivisionStepLinear ==
    ASSUME NEW v, v.width \in Nat \ {0}, v.polynomial \in Word(v.width),
           NEW a \in Word(v.width), NEW b \in Word(v.width)
    PROVE  DivisionStep(Xor(a, b), v) =
           Xor(DivisionStep(a, v), DivisionStep(b, v))
  <1> DEFINE top == v.width - 1
             A   == ShiftLeft(a, 1, v.width)
             B   == ShiftLeft(b, 1, v.width)
  <1>1. ShiftLeft(Xor(a, b), 1, v.width) = Xor(A, B)
    BY ShiftLeftLinear DEF Word
  <1>2. top \in Xor(a, b) <=> (top \in a /\ top \notin b) \/ (top \notin a /\ top \in b)
    BY DEF Xor
  <1>3. CASE top \in a /\ top \in b
    <2>1. DivisionStep(Xor(a, b), v) = Xor(A, B)
      BY <1>1, <1>2, <1>3 DEF DivisionStep
    <2>2. /\ DivisionStep(a, v) = Xor(A, v.polynomial)
          /\ DivisionStep(b, v) = Xor(B, v.polynomial)
      BY <1>3 DEF DivisionStep
    <2>3. Xor(Xor(A, v.polynomial), Xor(B, v.polynomial)) = Xor(A, B)
      BY DEF Xor
    <2> QED
      BY <2>1, <2>2, <2>3
  <1>4. CASE top \in a /\ top \notin b
    <2>1. DivisionStep(Xor(a, b), v) = Xor(Xor(A, B), v.polynomial)
      BY <1>1, <1>2, <1>4 DEF DivisionStep
    <2>2. /\ DivisionStep(a, v) = Xor(A, v.polynomial)
          /\ DivisionStep(b, v) = B
      BY <1>4 DEF DivisionStep
    <2>3. Xor(Xor(A, B), v.polynomial) = Xor(Xor(A, v.polynomial), B)
      BY DEF Xor
    <2> QED
      BY <2>1, <2>2, <2>3
  <1>5. CASE top \notin a /\ top \in b
    <2>1. DivisionStep(Xor(a, b), v) = Xor(Xor(A, B), v.polynomial)
      BY <1>1, <1>2, <1>5 DEF DivisionStep
    <2>2. /\ DivisionStep(a, v) = A
          /\ DivisionStep(b, v) = Xor(B, v.polynomial)
      BY <1>5 DEF DivisionStep
    <2>3. Xor(Xor(A, B), v.polynomial) = Xor(A, Xor(B, v.polynomial))
      BY DEF Xor
    <2> QED
      BY <2>1, <2>2, <2>3
  <1>6. CASE top \notin a /\ top \notin b
    BY <1>1, <1>2, <1>6 DEF DivisionStep
  <1> QED
    BY <1>3, <1>4, <1>5, <1>6

-----------------------------------------------------------------------------
(* Eight division steps. *)

LEMMA EightStepsUnfolded ==
    ASSUME NEW v, NEW r
    PROVE  EightSteps(r, v) =
           DivisionStep(DivisionStep(DivisionStep(DivisionStep(
           DivisionStep(DivisionStep(DivisionStep(DivisionStep(
               r, v), v), v), v), v), v), v), v)
  BY DEF EightSteps

LEMMA EightStepsType ==
    ASSUME NEW v, v.width \in Nat \ {0}, v.polynomial \in Word(v.width),
           NEW r \in Word(v.width)
    PROVE  EightSteps(r, v) \in Word(v.width)
  <1> DEFINE S(x) == DivisionStep(x, v)
  <1>1. \A x \in Word(v.width) : S(x) \in Word(v.width)
    BY DivisionStepType
  <1>2. EightSteps(r, v) = S(S(S(S(S(S(S(S(r))))))))
    BY EightStepsUnfolded
  <1> HIDE DEF S
  <1> QED
    BY <1>1, <1>2

(* Linear steps compose to a linear map. *)
LEMMA EightStepsLinear ==
    ASSUME NEW v, v.width \in Nat \ {0}, v.polynomial \in Word(v.width),
           NEW a \in Word(v.width), NEW b \in Word(v.width)
    PROVE  EightSteps(Xor(a, b), v) = Xor(EightSteps(a, v), EightSteps(b, v))
  <1> DEFINE S(x) == DivisionStep(x, v)
  <1>1. \A x \in Word(v.width) : S(x) \in Word(v.width)
    BY DivisionStepType
  <1>2. \A x, y \in Word(v.width) : S(Xor(x, y)) = Xor(S(x), S(y))
    BY DivisionStepLinear
  <1>3. \A x : EightSteps(x, v) = S(S(S(S(S(S(S(S(x))))))))
    BY EightStepsUnfolded
  <1> HIDE DEF S
  <1>4. S(S(Xor(a, b))) = Xor(S(S(a)), S(S(b)))
    BY <1>1, <1>2
  <1>5. S(S(S(S(Xor(a, b))))) = Xor(S(S(S(S(a)))), S(S(S(S(b)))))
    BY <1>1, <1>2, <1>4
  <1>6. S(S(S(S(S(S(Xor(a, b))))))) = Xor(S(S(S(S(S(S(a)))))), S(S(S(S(S(S(b)))))))
    BY <1>1, <1>2, <1>5
  <1>7. S(S(S(S(S(S(S(S(Xor(a, b))))))))) =
        Xor(S(S(S(S(S(S(S(S(a)))))))), S(S(S(S(S(S(S(S(b)))))))))
    BY <1>1, <1>2, <1>6
  <1> QED
    BY <1>3, <1>7

(* A word whose top byte is zero is only shifted: the ones that move up    *)
(* within eight steps do not reach the top.                                *)
LEMMA DivisionStepOfLow ==
    ASSUME NEW v, v.width \in Nat, v.width >= 8,
           NEW low \in SUBSET (0..v.width - 9), NEW k \in 0..7
    PROVE  DivisionStep(ShiftLeft(low, k, v.width), v) =
           ShiftLeft(low, k + 1, v.width)
  <1> DEFINE w     == v.width
             moved == ShiftLeft(low, k, w)
  <1>1. moved \in SUBSET Nat
    BY ShiftLeftType DEF Word
  <1>2. v.width - 1 \notin moved
    <2>1. v.width - 1 \in moved <=> v.width - 1 - k \in low /\ v.width - 1 < v.width
      BY ShiftLeftMember
    <2> QED
      BY <2>1
  <1>3. ASSUME NEW x \in Int
        PROVE  x \in ShiftLeft(moved, 1, w) <=> x \in ShiftLeft(low, k + 1, w)
    <2>1. x \in ShiftLeft(moved, 1, w) <=> x - 1 \in moved /\ x < w
      BY <1>1, ShiftLeftMember
    <2>2. x - 1 \in moved <=> x - 1 - k \in low /\ x - 1 < w
      BY ShiftLeftMember
    <2>3. x \in ShiftLeft(low, k + 1, w) <=> x - (k + 1) \in low /\ x < w
      BY ShiftLeftMember
    <2> QED
      BY <2>1, <2>2, <2>3
  <1>4. ShiftLeft(moved, 1, w) \subseteq Int /\ ShiftLeft(low, k + 1, w) \subseteq Int
    BY <1>1, ShiftLeftType DEF Word
  <1>5. ShiftLeft(moved, 1, w) = ShiftLeft(low, k + 1, w)
    BY <1>3, <1>4
  <1> QED
    BY <1>2, <1>5 DEF DivisionStep

LEMMA EightStepsOfLow ==
    ASSUME NEW v, v.width \in Nat, v.width >= 8,
           NEW low \in SUBSET (0..v.width - 9)
    PROVE  EightSteps(low, v) = ShiftLeft(low, 8, v.width)
  <1> DEFINE S(x) == DivisionStep(x, v)
             M(k) == ShiftLeft(low, k, v.width)
  <1>1. \A k \in 0..7 : S(M(k)) = M(k + 1)
    BY DivisionStepOfLow
  <1>2. EightSteps(low, v) = S(S(S(S(S(S(S(S(low))))))))
    BY EightStepsUnfolded
  <1>3. M(0) = low
    <2>1. \A x \in Int : x \in M(0) <=> x - 0 \in low /\ x < v.width
      BY ShiftLeftMember
    <2>2. M(0) \subseteq Int
      BY ShiftLeftType DEF Word
    <2>3. low \subseteq Int /\ \A x \in low : x < v.width
      OBVIOUS
    <2> HIDE DEF M
    <2>4. \A x \in Int : x \in M(0) <=> x \in low
      BY <2>1, <2>3
    <2> QED
      BY <2>2, <2>3, <2>4
  <1> HIDE DEF S, M
  <1>4. S(S(S(S(low)))) = M(4)
    BY <1>1, <1>3
  <1>5. S(S(S(S(M(4))))) = M(8)
    BY <1>1
  <1>6. EightSteps(low, v) = M(8)
    BY <1>2, <1>4, <1>5
  <1> QED
    BY <1>6 DEF M

-----------------------------------------------------------------------------
(* The loop body. *)

LEMMA ShiftRightMember ==
    ASSUME NEW w \in SUBSET Int, NEW n \in Nat, NEW x \in Int
    PROVE  x \in ShiftRight(w, n) <=> x >= 0 /\ x + n \in w
  <1>1. ASSUME x \in ShiftRight(w, n) PROVE x >= 0 /\ x + n \in w
    BY <1>1 DEF ShiftRight
  <1>2. ASSUME x >= 0, x + n \in w PROVE x \in ShiftRight(w, n)
    <2>1. x + n \in {j \in w : j >= n}
      BY <1>2
    <2>2. x = (x + n) - n
      OBVIOUS
    <2> QED
      BY <2>1, <2>2 DEF ShiftRight
  <1> QED
    BY <1>1, <1>2

LEMMA InputByteType ==
    ASSUME NEW v, NEW b \in Byte
    PROVE  InputByte(b, v) \in Byte
  BY DEF InputByte, Reflect, Byte

(* The top byte of the register, where the next byte of the message is     *)
(* XORed in, is an index of the table.                                     *)
LEMMA IndexType ==
    ASSUME NEW width \in Nat, width >= 8, NEW r \in Word(width), NEW b \in Byte
    PROVE  Xor(ShiftRight(r, width - 8), b) \in Byte
  <1>1. ShiftRight(r, width - 8) \in Byte
    BY DEF ShiftRight, Word, Byte
  <1> QED
    BY <1>1 DEF Xor, Byte

(* The register with a byte XORed into its top is the byte the code looks  *)
(* up, at the top, XOR the rest of the register.                           *)
LEMMA SplitAtTop ==
    ASSUME NEW width \in Nat, width >= 8, NEW r \in Word(width), NEW b \in Byte
    PROVE  Xor(r, ShiftLeft(b, width - 8, width)) =
           Xor(ShiftLeft(Xor(ShiftRight(r, width - 8), b), width - 8, width),
               r \cap (0..width - 9))
  <1> DEFINE index == Xor(ShiftRight(r, width - 8), b)
             left  == Xor(r, ShiftLeft(b, width - 8, width))
             right == Xor(ShiftLeft(index, width - 8, width), r \cap (0..width - 9))
  <1>1. index \in Byte
    BY IndexType
  <1>2. index \in SUBSET Int /\ b \in SUBSET Int /\ r \in SUBSET Int
    BY <1>1 DEF Byte, Word
  <1>3. ASSUME NEW x \in 0..width - 1 PROVE x \in left <=> x \in right
    <2>1. x \in ShiftLeft(b, width - 8, width) <=> x - (width - 8) \in b
      BY <1>2, ShiftLeftMember
    <2>2. x \in ShiftLeft(index, width - 8, width) <=> x - (width - 8) \in index
      BY <1>2, ShiftLeftMember
    <2>3. x - (width - 8) \in ShiftRight(r, width - 8) <=> x >= width - 8 /\ x \in r
      BY <1>2, ShiftRightMember
    <2>4. CASE x >= width - 8
      BY <2>1, <2>2, <2>3, <2>4 DEF Xor
    <2>5. CASE x < width - 8
      <3>1. x - (width - 8) \notin b /\ x - (width - 8) \notin index
        BY <1>1, <2>5 DEF Byte
      <3> QED
        BY <2>1, <2>2, <2>5, <3>1 DEF Xor
    <2> QED
      BY <2>4, <2>5
  <1>4. left \in Word(width) /\ right \in Word(width)
    <2>1. /\ ShiftLeft(b, width - 8, width) \in Word(width)
          /\ ShiftLeft(index, width - 8, width) \in Word(width)
      BY <1>1, ShiftLeftType DEF Byte
    <2>2. r \cap (0..width - 9) \in Word(width)
      BY DEF Word
    <2> QED
      BY <2>1, <2>2, XorType
  <1> QED
    BY <1>3, <1>4 DEF Word

(* The theorem behind the table: for every width and polynomial, the loop  *)
(* body of CrcNBase is eight steps of long division.                       *)
LEMMA NextCrcIsDivision ==
    ASSUME NEW v \in Variants, NEW r \in Word(v.width), NEW b \in Byte
    PROVE  NextCrc(r, b, v) =
           EightSteps(Xor(r, ShiftLeft(InputByte(b, v), v.width - 8, v.width)), v)
  <1> DEFINE w     == v.width
             input == InputByte(b, v)
             index == Xor(ShiftRight(r, w - 8), input)
             low   == r \cap (0..w - 9)
             high  == ShiftLeft(index, w - 8, w)
  <1>1. w \in Nat /\ w >= 8 /\ v.polynomial \in Word(w)
    BY VariantsAssumption
  <1>2. input \in Byte
    BY InputByteType
  <1>3. index \in Byte
    BY <1>1, <1>2, IndexType
  <1>4. high \in Word(w)
    BY <1>1, <1>3, ShiftLeftType DEF Byte
  <1>5. low \in Word(w) /\ low \in SUBSET (0..w - 9)
    BY <1>1 DEF Word
  <1>6. Xor(r, ShiftLeft(input, w - 8, w)) = Xor(high, low)
    BY <1>1, <1>2, SplitAtTop
  <1>7. EightSteps(Xor(high, low), v) = Xor(EightSteps(high, v), EightSteps(low, v))
    BY <1>1, <1>4, <1>5, EightStepsLinear
  <1>8. EightSteps(high, v) = Table[v][index]
    BY <1>3 DEF Table, TableEntry
  <1>9. EightSteps(low, v) = ShiftLeft(r, 8, w)
    <2>1. EightSteps(low, v) = ShiftLeft(low, 8, w)
      BY <1>1, <1>5, EightStepsOfLow
    <2>2. ASSUME NEW x \in Int
          PROVE  x \in ShiftLeft(low, 8, w) <=> x \in ShiftLeft(r, 8, w)
      <3>1. /\ x \in ShiftLeft(low, 8, w) <=> x - 8 \in low /\ x < w
            /\ x \in ShiftLeft(r, 8, w) <=> x - 8 \in r /\ x < w
        BY <1>1, ShiftLeftMember DEF Word
      <3>2. x < w /\ x - 8 \in r => x - 8 \in low
        BY <1>1 DEF Word
      <3> QED
        BY <3>1, <3>2
    <2>3. ShiftLeft(low, 8, w) \in Word(w) /\ ShiftLeft(r, 8, w) \in Word(w)
      BY <1>1, ShiftLeftType DEF Word
    <2>4. ShiftLeft(low, 8, w) \subseteq Int /\ ShiftLeft(r, 8, w) \subseteq Int
      <3>1. Word(w) \subseteq SUBSET Int
        BY <1>1 DEF Word
      <3> QED
        BY <2>3, <3>1
    <2>5. ShiftLeft(low, 8, w) = ShiftLeft(r, 8, w)
      BY <2>2, <2>4
    <2> QED
      BY <2>1, <2>5
  <1>10. NextCrc(r, b, v) = Xor(ShiftLeft(r, 8, w), Table[v][index])
    BY DEF NextCrc
  <1>11. Xor(Table[v][index], ShiftLeft(r, 8, w)) = Xor(ShiftLeft(r, 8, w), Table[v][index])
    BY DEF Xor
  <1> QED
    BY <1>6, <1>7, <1>8, <1>9, <1>10, <1>11

LEMMA NextCrcType ==
    ASSUME NEW v \in Variants, NEW r \in Word(v.width), NEW b \in Byte
    PROVE  NextCrc(r, b, v) \in Word(v.width)
  <1>1. v.width \in Nat /\ v.width >= 8 /\ v.polynomial \in Word(v.width)
    BY VariantsAssumption
  <1>2. ShiftLeft(InputByte(b, v), v.width - 8, v.width) \in Word(v.width)
    BY <1>1, InputByteType, ShiftLeftType DEF Byte
  <1> QED
    BY <1>1, <1>2, XorType, EightStepsType, NextCrcIsDivision

LEMMA FinishedType ==
    ASSUME NEW v \in Variants, NEW r \in Word(v.width)
    PROVE  Finished(r, v) \in Word(v.width)
  <1>1. v.width \in Nat /\ v.final_xor \in Word(v.width)
    BY VariantsAssumption
  <1>2. Reflect(r, v.width) \in Word(v.width)
    BY <1>1 DEF Reflect, Word
  <1> QED
    BY <1>1, <1>2, XorType DEF Finished

-----------------------------------------------------------------------------
(* The state of a call, without the derived last conjunct of TypeOK. *)
StateType ==
    /\ variant \in Variants
    /\ calling \in BOOLEAN
    /\ data \in Seq(Bytes)
    /\ crc \in Word(variant.width)
    /\ final \in BOOLEAN
    /\ result \in Word(variant.width)
    /\ message \in Seq(Bytes)

LEMMA StateTypeGivesTypeOK == StateType => TypeOK
  <1> SUFFICES ASSUME StateType, NEW b \in Bytes
               PROVE  Xor(ShiftRight(crc, variant.width - 8),
                          InputByte(b, variant)) \in Byte
    BY DEF StateType, TypeOK
  <1> QED
    BY VariantsAssumption, BytesAssumption, InputByteType, IndexType DEF StateType

LEMMA StateTypeInit == Init => StateType
  <1>1. \A v \in Variants : {} \in Word(v.width)
    BY DEF Word
  <1> SUFFICES ASSUME Init PROVE StateType
    OBVIOUS
  <1>2. variant \in Variants /\ crc = {} /\ result = {}
    BY DEF Init
  <1>3. crc \in Word(variant.width) /\ result \in Word(variant.width)
    BY <1>1, <1>2
  <1>4. data \in Seq(Bytes) /\ message \in Seq(Bytes)
    BY DEF Init
  <1>5. calling \in BOOLEAN /\ final \in BOOLEAN
    BY DEF Init
  <1> QED
    BY <1>2, <1>3, <1>4, <1>5 DEF StateType

(* Each step keeps every variable in its range; the register because the   *)
(* loop body and the finishing do.                                         *)
LEMMA StateTypeNext == StateType /\ [Next]_vars => StateType'
  <1> SUFFICES ASSUME StateType, [Next]_vars PROVE StateType'
    OBVIOUS
  <1> USE DEF StateType
  <1>1. ASSUME NEW n \in 0..MaxMessage, NEW chunk \in [1..n -> Bytes],
               NEW is_final \in BOOLEAN, CallFirst(chunk, is_final)
        PROVE  StateType'
    <2>1. chunk \in Seq(Bytes)
      BY MaxMessageAssumption
    <2>2. variant.initial \in Word(variant.width) /\ {} \in Word(variant.width)
      BY VariantsAssumption DEF Word
    <2> QED
      BY <1>1, <2>1, <2>2 DEF CallFirst
  <1>2. ASSUME NEW n \in 0..MaxMessage, NEW chunk \in [1..n -> Bytes],
               NEW is_final \in BOOLEAN, CallAgain(chunk, is_final)
        PROVE  StateType'
    <2>1. chunk \in Seq(Bytes)
      BY MaxMessageAssumption
    <2> QED
      BY <1>2, <2>1 DEF CallAgain
  <1>3. CASE ReadByte
    <2>1. Head(data) \in Bytes /\ Tail(data) \in Seq(Bytes)
      BY <1>3 DEF ReadByte
    <2>2. Append(message, Head(data)) \in Seq(Bytes)
      BY <2>1
    <2>3. NextCrc(crc, Head(data), variant) \in Word(variant.width)
      BY <2>1, NextCrcType, BytesAssumption
    <2> QED
      BY <1>3, <2>1, <2>2, <2>3 DEF ReadByte
  <1>4. CASE Return
    <2>1. Finished(crc, variant) \in Word(variant.width) /\ {} \in Word(variant.width)
      BY FinishedType DEF Word
    <2> QED
      BY <1>4, <2>1 DEF Return
  <1>5. CASE UNCHANGED vars
    BY <1>5 DEF vars
  <1> QED
    BY <1>1, <1>2, <1>3, <1>4, <1>5 DEF Next

LEMMA StateTypeHolds == Spec => []StateType
  BY StateTypeInit, StateTypeNext, PTL DEF Spec

(* In every call, the register and what is returned are words of the       *)
(* function's width and the table is indexed within its 256 entries.       *)
THEOREM TypeCorrect == Spec => []TypeOK
  BY StateTypeHolds, StateTypeGivesTypeOK, PTL

(* Reading a byte by table lookup is eight steps of long division, for     *)
(* every width, every polynomial and every byte.                           *)
THEOREM LookupDivides == Spec => LookupIsDivision
  <1>1. ASSUME StateType, ReadByte
        PROVE  crc' = EightSteps(
                   Xor(crc, ShiftLeft(InputByte(Head(data), variant),
                                      variant.width - 8, variant.width)),
                   variant)
    <2>1. Head(data) \in Byte
      BY <1>1, BytesAssumption DEF StateType, ReadByte
    <2>2. crc' = NextCrc(crc, Head(data), variant)
      BY <1>1 DEF ReadByte
    <2> QED
      BY <1>1, <2>1, <2>2, NextCrcIsDivision DEF StateType
  <1>2. StateType /\ [Next]_vars =>
            [ReadByte => crc' = EightSteps(
                   Xor(crc, ShiftLeft(InputByte(Head(data), variant),
                                      variant.width - 8, variant.width)),
                   variant)]_vars
    BY <1>1
  <1> QED
    BY <1>2, StateTypeHolds, PTL DEF Spec, LookupIsDivision

-----------------------------------------------------------------------------
(* The long division of CrcStream, for a message and for the message with  *)
(* one more byte. The step Top - k of the first and the step Top + 8 - k   *)
(* of the second subtract the same polynomial, moved up by a byte, so the  *)
(* divisions run side by side; the last eight steps of the second are what *)
(* the loop body of CrcNBase does to the remainder of the first.           *)

(* A polynomial times x^n.                                                 *)
Up(s, n) == {x + n : x \in s}

(* One step of the schoolbook division, for the exponent d.                *)
Reduced(r, d, v) ==
    IF d \in r THEN Xor(r, Up(v.polynomial \cup {v.width}, d - v.width)) ELSE r

(* A polynomial over the integers modulo 2, and a byte times x^width.      *)
Top(m, v) == v.width + 8 * Len(m)
Highest(b, v) == Up(InputByte(b, v), v.width)

(* All the steps of the division of a message.                             *)
Division(m, v, f) ==
    Steps(8 * Len(m), SUBSET Int, Stream!Polynomial(m, v),
          [k \in 1..8 * Len(m) |-> [r \in SUBSET Int |-> Reduced(r, Top(m, v) - k, v)]], f)

(* What a multiple by a power of x contains.                              *)
LEMMA UpMember ==
    ASSUME NEW s \in SUBSET Int, NEW n \in Int, NEW x \in Int
    PROVE  x \in Up(s, n) <=> x - n \in s
  <1>1. ASSUME x \in Up(s, n) PROVE x - n \in s
    <2>1. PICK y \in s : x = y + n
      BY <1>1 DEF Up
    <2> QED
      BY <2>1
  <1>2. ASSUME x - n \in s PROVE x \in Up(s, n)
    <2>1. x = (x - n) + n
      OBVIOUS
    <2> QED
      BY <1>2, <2>1 DEF Up
  <1> QED
    BY <1>1, <1>2

LEMMA UpType ==
    ASSUME NEW s \in SUBSET Int, NEW n \in Int
    PROVE  Up(s, n) \in SUBSET Int
  BY DEF Up

(* What a variant is, in the terms of the lemmas below.                    *)
LEMMA VariantType ==
    ASSUME NEW v \in Variants
    PROVE  /\ v.width \in Nat /\ v.width >= 8
           /\ v.polynomial \in SUBSET Int /\ v.initial \in SUBSET Int
           /\ v.polynomial \cup {v.width} \in SUBSET Int
           /\ \A e \in v.polynomial : e >= 0 /\ e < v.width
  BY VariantsAssumption DEF Word

(* A step of the division leaves a polynomial.                             *)
LEMMA ReducedType ==
    ASSUME NEW v \in Variants, NEW r \in SUBSET Int, NEW d \in Int
    PROVE  Reduced(r, d, v) \in SUBSET Int
  <1>1. Up(v.polynomial \cup {v.width}, d - v.width) \in SUBSET Int
    BY VariantType, UpType
  <1> QED
    BY <1>1 DEF Reduced, Xor

(* The exponents of a byte.                                                *)
LEMMA InputBits ==
    ASSUME NEW v, NEW b \in Byte
    PROVE  InputByte(b, v) \in SUBSET Int /\ \A j \in InputByte(b, v) : j >= 0 /\ j <= 7
  BY InputByteType DEF Byte

(* A bit of the message is in its polynomial at its place from the end.    *)
LEMMA PolynomialMember ==
    ASSUME NEW v \in Variants, NEW m \in Seq(Byte), NEW x \in Int
    PROVE  /\ Stream!Polynomial(m, v) \in SUBSET Int
           /\ x \in Stream!Polynomial(m, v) <=>
                 ~(x - 8 * Len(m) \in v.initial <=>
                   \E k \in 1..Len(m) : x - v.width - 8 * (Len(m) - k) \in InputByte(m[k], v))
  <1> DEFINE n == Len(m)
             Bit(k) == {j + v.width + 8 * (n - k) : j \in InputByte(m[k], v)}
             initial == {i + 8 * n : i \in v.initial}
             bits == UNION {Bit(k) : k \in 1..n}
  <1>1. n \in Nat /\ \A k \in 1..n : m[k] \in Byte
    OBVIOUS
  <1>2. v.width \in Nat /\ v.initial \in SUBSET Int
    BY VariantType
  <1>3. Stream!Polynomial(m, v) = Xor(initial, bits)
    BY DEF Stream!Polynomial, Stream!Xor, Xor, Stream!InputByte, InputByte, Stream!Reflect, Reflect
  <1>4. initial \in SUBSET Int
    BY <1>1, <1>2
  <1>5. \A k \in 1..n : Bit(k) \in SUBSET Int
    BY <1>1, <1>2, InputBits
  <1>6. bits \in SUBSET Int
    <2> HIDE DEF Bit
    <2> QED
      BY <1>5
  <1>7. ASSUME NEW y \in Int PROVE y \in initial <=> y - 8 * n \in v.initial
    <2>1. initial = Up(v.initial, 8 * n)
      BY DEF Up
    <2>2. 8 * n \in Int
      BY <1>1
    <2>3. y \in Up(v.initial, 8 * n) <=> y - 8 * n \in v.initial
      <3> HIDE DEF n
      <3> QED
        BY <1>2, <2>2, UpMember
    <2> QED
      BY <2>1, <2>3
  <1>8. ASSUME NEW y \in Int, NEW k \in 1..n
        PROVE  y \in Bit(k) <=> y - v.width - 8 * (n - k) \in InputByte(m[k], v)
    <2>1. InputByte(m[k], v) \in SUBSET Int
      BY <1>1, InputBits
    <2>2. \A j \in Int : y = j + v.width + 8 * (n - k) <=> j = y - v.width - 8 * (n - k)
      BY <1>1, <1>2
    <2>3. y - v.width - 8 * (n - k) \in Int
      BY <1>1, <1>2
    <2> QED
      BY <2>1, <2>2, <2>3
  <1>9. \A y : y \in bits <=> \E k \in 1..n : y \in Bit(k)
    <2> HIDE DEF Bit
    <2> QED
      OBVIOUS
  <1> HIDE DEF initial, bits, Bit
  <1>10. x \in bits <=> \E k \in 1..n : x - v.width - 8 * (n - k) \in InputByte(m[k], v)
    BY <1>8, <1>9
  <1> QED
    BY <1>3, <1>4, <1>6, <1>7, <1>10 DEF Xor

(* The remainder is where the division arrives.                            *)
LEMMA RemainderOf ==
    ASSUME NEW v \in Variants, NEW m \in Seq(Byte)
    PROVE  \E f : Division(m, v, f) /\ Stream!Remainder(m, v) = f[8 * Len(m)]
  <1> DEFINE N == 8 * Len(m)
             first == Stream!Polynomial(m, v)
             step == [k \in 1..N |-> [r \in SUBSET Int |-> Reduced(r, Top(m, v) - k, v)]]
             Less(r, d) == IF d \in r
                           THEN Stream!Xor(r, {e + d - v.width : e \in v.polynomial \cup {v.width}})
                           ELSE r
             Equation(g) == g = [k \in 0..N |->
                                    IF k = 0 THEN first ELSE Less(g[k - 1], Top(m, v) - k)]
             left == CHOOSE g : Equation(g)
  <1>1. N \in Nat /\ first \in SUBSET Int /\ \A k \in 1..N : Top(m, v) - k \in Int
    BY PolynomialMember, VariantType DEF Top
  <1>2. step \in [1..N -> [SUBSET Int -> SUBSET Int]]
    BY <1>1, ReducedType
  <1>3. \A k \in 1..N, r \in SUBSET Int : step[k][r] = Reduced(r, Top(m, v) - k, v)
    OBVIOUS
  <1>4. Stream!Remainder(m, v) = left[N]
    BY DEF Stream!Remainder, Top
  <1>a. ASSUME NEW r, NEW d \in Int
        PROVE  Less(r, d) = Reduced(r, d, v)
    <2>1. \A e \in v.polynomial \cup {v.width} : e + (d - v.width) = e + d - v.width
      BY VariantType
    <2>2. Up(v.polynomial \cup {v.width}, d - v.width) =
          {e + d - v.width : e \in v.polynomial \cup {v.width}}
      BY <2>1 DEF Up
    <2> QED
      BY <2>2 DEF Reduced, Stream!Xor, Xor
  <1> HIDE DEF Less
  <1> HIDE DEF step
  <1>5. PICK h : Steps(N, SUBSET Int, first, step, h)
    BY <1>1, <1>2, RecursionExists
  <1>6. Equation(h)
    <2>1. \A k \in 0..N :
              h[k] = IF k = 0 THEN first ELSE Reduced(h[k - 1], Top(m, v) - k, v)
      BY <1>1, <1>3, <1>5 DEF Steps
    <2>2. \A k \in 0..N :
              h[k] = IF k = 0 THEN first ELSE Less(h[k - 1], Top(m, v) - k)
      BY <1>1, <1>a, <2>1
    <2> QED
      BY <1>5, <2>2 DEF Steps
  <1>7. Equation(left)
    <2> HIDE DEF Equation
    <2> QED
      BY <1>6
  <1> HIDE DEF left
  <1>8. /\ DOMAIN left = 0..N /\ left = [k \in 0..N |-> left[k]]
        /\ left[0] = first
        /\ \A k \in 1..N : left[k] = Reduced(left[k - 1], Top(m, v) - k, v)
    <2> DEFINE body == [k \in 0..N |->
                           IF k = 0 THEN first ELSE Less(left[k - 1], Top(m, v) - k)]
    <2>1. left = body
      BY <1>7
    <2>2. /\ DOMAIN body = 0..N /\ body = [k \in 0..N |-> body[k]]
          /\ body[0] = first
          /\ \A k \in 1..N : body[k] = Reduced(left[k - 1], Top(m, v) - k, v)
      BY <1>1, <1>a
    <2> HIDE DEF body
    <2> QED
      BY <2>1, <2>2
  <1> DEFINE T == {k \in 0..N : left[k] \in SUBSET Int}
  <1>9. 0 \in T
    BY <1>1, <1>8
  <1>10. ASSUME NEW k \in 0..(N - 1), k \in T PROVE k + 1 \in T
    <2>1. k + 1 \in 1..N /\ (k + 1) - 1 = k /\ left[k] \in SUBSET Int /\ k + 1 \in 0..N
      BY <1>1, <1>10
    <2>2. left[k + 1] = Reduced(left[k], Top(m, v) - (k + 1), v)
      BY <1>8, <2>1
    <2>3. left[k + 1] \in SUBSET Int
      BY <1>1, <2>1, <2>2, ReducedType
    <2> QED
      BY <2>1, <2>3
  <1>11. \A k \in 0..N : k \in T
    <2> HIDE DEF T, N
    <2> QED
      BY <1>1, <1>9, <1>10, InductionUpTo
  <1>12. left \in [0..N -> SUBSET Int]
    BY <1>8, <1>11
  <1>13. \A k \in 1..N : left[k] = step[k][left[k - 1]]
    <2> SUFFICES ASSUME NEW k \in 1..N PROVE left[k] = step[k][left[k - 1]]
      OBVIOUS
    <2>1. k - 1 \in 0..N
      BY <1>1
    <2>2. left[k - 1] \in SUBSET Int
      BY <1>12, <2>1
    <2> QED
      BY <1>3, <1>8, <2>2
  <1>14. Division(m, v, left)
    BY <1>8, <1>12, <1>13 DEF Division, Steps, step
  <1> QED
    BY <1>4, <1>14

(* Before the last eight steps, one more byte only moves the division up.  *)
LEMMA ReducedAbove ==
    ASSUME NEW v \in Variants, NEW b \in Byte, NEW r \in SUBSET Int,
           NEW d \in Int, d >= v.width
    PROVE  Reduced(Xor(Up(r, 8), Highest(b, v)), d + 8, v) =
           Xor(Up(Reduced(r, d, v), 8), Highest(b, v))
  <1> DEFINE input == InputByte(b, v)
             H == Highest(b, v)
             G == v.polynomial \cup {v.width}
             w == v.width
             e == d - w
  <1>1. w \in Nat /\ G \in SUBSET Int /\ e \in Int
    BY VariantType
  <1>2. input \in SUBSET Int /\ \A j \in input : j >= 0 /\ j <= 7
    BY InputBits
  <1>3. /\ \A x \in Int : x \in Up(r, 8) <=> x - 8 \in r
        /\ \A x \in Int : x \in H <=> x - w \in input
        /\ \A x \in Int : x \in Up(G, e + 8) <=> x - (e + 8) \in G
        /\ \A x \in Int : x \in Up(G, e) <=> x - e \in G
    BY <1>1, <1>2, UpMember, SMTT(60) DEF Highest
  <1>4. Up(r, 8) \in SUBSET Int /\ H \in SUBSET Int
        /\ Up(G, e + 8) \in SUBSET Int /\ Up(G, e) \in SUBSET Int
    BY <1>1, <1>2, UpType DEF Highest
  <1>5. d + 8 \in Xor(Up(r, 8), H) <=> d \in r
    <2>1. d + 8 \in Up(r, 8) <=> d \in r
      BY <1>3
    <2>2. d + 8 \notin H
      BY <1>1, <1>2, <1>3
    <2> QED
      BY <2>1, <2>2 DEF Xor
  <1>6. CASE d \in r
    <2>1. Reduced(Xor(Up(r, 8), H), d + 8, v) = Xor(Xor(Up(r, 8), H), Up(G, e + 8))
      <3>1. (d + 8) - v.width = e + 8
        BY <1>1
      <3> QED
        BY <1>5, <1>6, <3>1 DEF Reduced
    <2>2. Reduced(r, d, v) = Xor(r, Up(G, e))
      BY <1>6 DEF Reduced
    <2>3. Xor(r, Up(G, e)) \in SUBSET Int
      BY <1>4 DEF Xor
    <2>4. \A x \in Int : x \in Up(Xor(r, Up(G, e)), 8) <=> x - 8 \in Xor(r, Up(G, e))
      BY <2>3, UpMember
    <2>5. Up(Xor(r, Up(G, e)), 8) \in SUBSET Int
      BY <2>3, UpType
    <2>6. ASSUME NEW x \in Int
          PROVE  x \in Xor(Xor(Up(r, 8), H), Up(G, e + 8)) <=>
                 x \in Xor(Up(Xor(r, Up(G, e)), 8), H)
      <3>1. x - (e + 8) = (x - 8) - e /\ x - 8 \in Int
        BY <1>1
      <3>2. x \in Up(G, e + 8) <=> x - 8 \in Up(G, e)
        BY <1>3, <3>1
      <3>3. x \in Up(r, 8) <=> x - 8 \in r
        BY <1>3
      <3> HIDE DEF H, G, e
      <3> QED
        BY <2>4, <3>2, <3>3 DEF Xor
    <2>7. Xor(Xor(Up(r, 8), H), Up(G, e + 8)) = Xor(Up(Xor(r, Up(G, e)), 8), H)
      <3>1. Xor(Xor(Up(r, 8), H), Up(G, e + 8)) \in SUBSET Int
            /\ Xor(Up(Xor(r, Up(G, e)), 8), H) \in SUBSET Int
        <4> HIDE DEF H, G, e
        <4> QED
          BY <1>4, <2>5 DEF Xor
      <3> HIDE DEF H, G, e
      <3> QED
        BY <2>6, <3>1
    <2> QED
      BY <2>1, <2>2, <2>7
  <1>7. CASE d \notin r
    BY <1>5, <1>7 DEF Reduced
  <1> QED
    BY <1>6, <1>7

(* The polynomial of a message with one more byte.                         *)
LEMMA PolynomialAppend ==
    ASSUME NEW v \in Variants, NEW m \in Seq(Byte), NEW b \in Byte
    PROVE  Stream!Polynomial(Append(m, b), v) =
           Xor(Up(Stream!Polynomial(m, v), 8), Highest(b, v))
  <1> DEFINE n == Len(m)
             w == v.width
             m2 == Append(m, b)
             P == Stream!Polynomial(m, v)
             P2 == Stream!Polynomial(m2, v)
             H == Highest(b, v)
  <1>1. /\ n \in Nat /\ m2 \in Seq(Byte) /\ Len(m2) = n + 1 /\ m2[n + 1] = b
        /\ \A k \in 1..n : m2[k] = m[k] /\ m[k] \in Byte
    OBVIOUS
  <1>2. w \in Nat
    BY VariantType
  <1>3. /\ InputByte(b, v) \in SUBSET Int
        /\ \A j \in InputByte(b, v) : j >= 0 /\ j <= 7
        /\ \A k \in 1..n : \A j \in InputByte(m[k], v) : j >= 0 /\ j <= 7
    BY <1>1, InputBits
  <1>4. P \in SUBSET Int /\ P2 \in SUBSET Int
    <2>1. \A c \in Seq(Byte) : Stream!Polynomial(c, v) \in SUBSET Int
      <3>1. 0 \in Int
        OBVIOUS
      <3> QED
        BY <3>1, PolynomialMember
    <2> QED
      BY <1>1, <2>1
  <1>5. Up(P, 8) \in SUBSET Int /\ H \in SUBSET Int
    BY <1>2, <1>3, <1>4, UpType DEF Highest
  <1>6. ASSUME NEW x \in Int
        PROVE  x \in P2 <=> x \in Xor(Up(P, 8), H)
    <2> DEFINE Old == \E k \in 1..n : (x - 8) - w - 8 * (n - k) \in InputByte(m[k], v)
               New == x - w \in InputByte(b, v)
               Initial == (x - 8) - 8 * n \in v.initial
    <2>1. x \in H <=> New
      <3>1. v.width \in Int
        BY <1>2
      <3>2. InputByte(b, v) \in SUBSET Int
        BY <1>3
      <3>3. x \in Up(InputByte(b, v), v.width) <=> x - v.width \in InputByte(b, v)
        BY <3>1, <3>2, UpMember
      <3> QED
        BY <3>3 DEF Highest
    <2>2. x \in Up(P, 8) <=> x - 8 \in P
      BY <1>4, UpMember
    <2>3. x - 8 \in P <=> ~(Initial <=> Old)
      BY PolynomialMember
    <2>4. x \in P2 <=> ~(x - 8 * (n + 1) \in v.initial <=>
                         \E k \in 1..(n + 1) :
                             x - w - 8 * ((n + 1) - k) \in InputByte(m2[k], v))
      BY <1>1, PolynomialMember
    <2>5. x - 8 * (n + 1) = (x - 8) - 8 * n
      BY <1>1
    <2>6. \A k \in 1..(n + 1) : x - w - 8 * ((n + 1) - k) = (x - 8) - w - 8 * (n - k)
      <3> HIDE DEF n, w
      <3> QED
        BY <1>1, <1>2
    <2>7. (\E k \in 1..(n + 1) : x - w - 8 * ((n + 1) - k) \in InputByte(m2[k], v))
          <=> Old \/ New
      <3>1. x - w - 8 * ((n + 1) - (n + 1)) = x - w
        BY <1>1, <1>2
      <3>2. \A k : k \in 1..(n + 1) <=> k \in 1..n \/ k = n + 1
        BY <1>1
      <3> QED
        BY <1>1, <2>6, <3>1, <3>2
    <2>8. ~(Old /\ New)
      <3> SUFFICES ASSUME Old, New PROVE FALSE
        OBVIOUS
      <3>1. PICK k \in 1..n : (x - 8) - w - 8 * (n - k) \in InputByte(m[k], v)
        OBVIOUS
      <3>2. (x - 8) - w - 8 * (n - k) >= 0 /\ x - w <= 7
        BY <1>3, <3>1
      <3> QED
        BY <1>1, <1>2, <3>2
    <2>9. x \in Xor(Up(P, 8), H) <=> ~(x \in Up(P, 8) <=> x \in H)
      BY DEF Xor
    <2> HIDE DEF Old, New, Initial, P, P2, H
    <2> QED
      BY <2>1, <2>2, <2>3, <2>4, <2>5, <2>7, <2>8, <2>9 DEF Initial
  <1>7. Xor(Up(P, 8), H) \in SUBSET Int
    <2> HIDE DEF P, H
    <2> QED
      BY <1>5 DEF Xor
  <1> HIDE DEF P, P2, H
  <1>8. P2 = Xor(Up(P, 8), H)
    BY <1>4, <1>6, <1>7
  <1> QED
    BY <1>8 DEF P, P2, H

(* The steps of a division.                                                *)
LEMMA DivisionSteps ==
    ASSUME NEW v \in Variants, NEW m \in Seq(Byte), NEW f, Division(m, v, f)
    PROVE  /\ f \in [0..(8 * Len(m)) -> SUBSET Int] /\ f[0] = Stream!Polynomial(m, v)
           /\ \A k \in 1..(8 * Len(m)) : f[k] = Reduced(f[k - 1], Top(m, v) - k, v)
  <1> DEFINE N == 8 * Len(m)
             step == [k \in 1..N |-> [r \in SUBSET Int |-> Reduced(r, Top(m, v) - k, v)]]
  <1>1. N \in Nat
    OBVIOUS
  <1>2. \A k \in 1..N, r \in SUBSET Int : step[k][r] = Reduced(r, Top(m, v) - k, v)
    OBVIOUS
  <1>3. /\ f \in [0..N -> SUBSET Int] /\ f[0] = Stream!Polynomial(m, v)
        /\ \A k \in 1..N : f[k] = step[k][f[k - 1]]
    BY DEF Division, Steps
  <1> HIDE DEF step, N
  <1>4. \A k \in 1..N : f[k - 1] \in SUBSET Int
    BY <1>1, <1>3
  <1>5. \A k \in 1..N : f[k] = Reduced(f[k - 1], Top(m, v) - k, v)
    BY <1>2, <1>3, <1>4
  <1> QED
    BY <1>3, <1>5 DEF N

(* All steps for a message but the last eight are those for the message    *)
(* without its last byte.                                                  *)
LEMMA DivisionAppend ==
    ASSUME NEW v \in Variants, NEW m \in Seq(Byte), NEW b \in Byte,
           NEW f, Division(m, v, f), NEW g, Division(Append(m, b), v, g)
    PROVE  g[8 * Len(m)] = Xor(Up(f[8 * Len(m)], 8), Highest(b, v))
  <1> DEFINE N == 8 * Len(m)
             T == {k \in 0..N : g[k] = Xor(Up(f[k], 8), Highest(b, v))}
  <1>1. /\ N \in Nat /\ v.width \in Nat /\ Append(m, b) \in Seq(Byte) /\ 8 * Len(Append(m, b)) = N + 8
        /\ Top(m, v) = v.width + N /\ Top(Append(m, b), v) = v.width + N + 8
    BY VariantType DEF Top
  <1>2. /\ f \in [0..N -> SUBSET Int] /\ f[0] = Stream!Polynomial(m, v)
        /\ \A k \in 1..N : f[k] = Reduced(f[k - 1], v.width + N - k, v)
    <2>1. /\ f \in [0..N -> SUBSET Int] /\ f[0] = Stream!Polynomial(m, v)
          /\ \A k \in 1..N : f[k] = Reduced(f[k - 1], Top(m, v) - k, v)
      BY DivisionSteps
    <2> HIDE DEF N
    <2>2. \A k \in 1..N : Top(m, v) - k = v.width + N - k
      BY <1>1
    <2> QED
      BY <2>1, <2>2
  <1>3. /\ g[0] = Stream!Polynomial(Append(m, b), v)
        /\ \A k \in 1..N : g[k] = Reduced(g[k - 1], v.width + N + 8 - k, v)
    <2>1. /\ g[0] = Stream!Polynomial(Append(m, b), v)
          /\ \A k \in 1..(N + 8) :
                 g[k] = Reduced(g[k - 1], Top(Append(m, b), v) - k, v)
      BY <1>1, DivisionSteps
    <2> HIDE DEF N
    <2>2. \A k \in 1..N :
              k \in 1..(N + 8) /\ Top(Append(m, b), v) - k = v.width + N + 8 - k
      BY <1>1
    <2> QED
      BY <2>1, <2>2
  <1>4. 0 \in T
    BY <1>1, <1>2, <1>3, PolynomialAppend
  <1>5. ASSUME NEW k \in 0..(N - 1), k \in T PROVE k + 1 \in T
    <2> DEFINE d == v.width + N - (k + 1)
    <2>1. k + 1 \in 1..N /\ k + 1 \in 0..N /\ (k + 1) - 1 = k /\ k \in 0..N
      BY <1>1
    <2>2. d \in Int /\ d >= v.width /\ d + 8 = v.width + N + 8 - (k + 1)
      BY <1>1, VariantType
    <2>3. f[k] \in SUBSET Int
      BY <1>2, <2>1
    <2>4. f[k + 1] = Reduced(f[k], d, v)
      BY <1>2, <2>1
    <2>5. g[k + 1] = Reduced(g[k], d + 8, v)
      BY <1>3, <2>1, <2>2
    <2>6. g[k] = Xor(Up(f[k], 8), Highest(b, v))
      BY <1>5
    <2> HIDE DEF d
    <2>7. g[k + 1] = Xor(Up(f[k + 1], 8), Highest(b, v))
      BY <2>2, <2>3, <2>4, <2>5, <2>6, ReducedAbove
    <2> QED
      BY <2>1, <2>7
  <1>6. \A k \in 0..N : k \in T
    <2> HIDE DEF T, N
    <2> QED
      BY <1>1, <1>4, <1>5, InductionUpTo
  <1> QED
    BY <1>1, <1>6

(* The last eight steps are those of the register.                         *)
LEMMA ReducedBelow ==
    ASSUME NEW v \in Variants, NEW r \in Word(v.width), NEW j \in 0..7
    PROVE  Reduced(Up(r, j + 1), v.width + j, v) = Up(DivisionStep(r, v), j)
  <1> DEFINE w == v.width
             G == v.polynomial \cup {w}
             S == ShiftLeft(r, 1, w)
             D == DivisionStep(r, v)
  <1>1. /\ w \in Nat /\ w >= 8 /\ v.polynomial \in Word(w) /\ v.polynomial \in SUBSET Int
        /\ G \in SUBSET Int /\ \A x \in v.polynomial : x >= 0 /\ x < w
    BY VariantType, VariantsAssumption
  <1>2. r \in SUBSET Int /\ r \in SUBSET Nat /\ \A x \in r : x >= 0 /\ x < w
    BY <1>1 DEF Word
  <1>3. S \in SUBSET Int /\ D \in SUBSET Int
    <2>1. S \in Word(w) /\ D \in Word(w)
      BY <1>1, <1>2, ShiftLeftType, DivisionStepType
    <2> QED
      BY <1>1, <2>1 DEF Word
  <1>4. ASSUME NEW x \in Int
        PROVE  /\ x \in S <=> x - 1 \in r /\ x < w
               /\ x \in Up(r, j + 1) <=> x - (j + 1) \in r
               /\ x \in Up(G, j) <=> x - j \in G
               /\ x \in Up(D, j) <=> x - j \in D
    <2>1. x \in S <=> x - 1 \in r /\ x < w
      BY <1>1, <1>2, ShiftLeftMember
    <2>2. x \in Up(r, j + 1) <=> x - (j + 1) \in r
      BY <1>2, UpMember
    <2> HIDE DEF G, D
    <2>3. x \in Up(G, j) <=> x - j \in G
      BY <1>1, UpMember
    <2>4. x \in Up(D, j) <=> x - j \in D
      BY <1>3, UpMember
    <2> QED
      BY <2>1, <2>2, <2>3, <2>4
  <1>5. Up(r, j + 1) \in SUBSET Int /\ Up(G, j) \in SUBSET Int /\ Up(D, j) \in SUBSET Int
    <2> HIDE DEF G, D
    <2> QED
      BY <1>1, <1>2, <1>3, UpType
  <1>6. w + j \in Up(r, j + 1) <=> w - 1 \in r
    <2>1. (w + j) - (j + 1) = w - 1 /\ w + j \in Int
      BY <1>1
    <2> QED
      BY <1>4, <2>1
  <1>7. Reduced(Up(r, j + 1), w + j, v) =
        IF w - 1 \in r THEN Xor(Up(r, j + 1), Up(G, j)) ELSE Up(r, j + 1)
    <2>1. (w + j) - v.width = j
      BY <1>1
    <2> QED
      BY <1>6, <2>1 DEF Reduced
  <1>8. D = IF w - 1 \in r THEN Xor(S, v.polynomial) ELSE S
    BY DEF DivisionStep
  <1> HIDE DEF S, D, w
  <1>9. CASE w - 1 \in r
    <2>1. ASSUME NEW x \in Int
          PROVE  x \in Xor(Up(r, j + 1), Up(G, j)) <=> x \in Up(D, j)
      <3> DEFINE z == x - j
      <3>1. z \in Int /\ x - (j + 1) = z - 1
        OBVIOUS
      <3>2. x \in Xor(Up(r, j + 1), Up(G, j)) <=> ~(z - 1 \in r <=> z \in G)
        BY <1>4, <3>1 DEF Xor
      <3>3. z \in D <=> ~(z \in S <=> z \in v.polynomial)
        BY <1>8, <1>9 DEF Xor
      <3>4. z \in S <=> z - 1 \in r /\ z < w
        BY <1>4, <3>1
      <3>5. z \in G <=> z \in v.polynomial \/ z = w
        BY DEF w
      <3>6. z > w => z - 1 \notin r /\ z \notin v.polynomial
        BY <1>1, <1>2, <3>1
      <3>7. z = w => z \notin v.polynomial
        BY <1>1, <3>1
      <3>8. x \in Up(D, j) <=> z \in D
        BY <1>4
      <3> HIDE DEF z, G
      <3>9. z < w \/ z = w \/ z > w
        BY <1>1, <3>1
      <3>10. z < w => ~(z = w)
        BY <1>1, <3>1
      <3>11. z > w => ~(z = w) /\ ~(z < w)
        BY <1>1, <3>1
      <3>12. z = w => ~(z < w) /\ z - 1 \in r
        BY <1>1, <1>9, <3>1
      <3> QED
        BY <3>2, <3>3, <3>4, <3>5, <3>6, <3>7, <3>8, <3>9, <3>10, <3>11, <3>12
    <2> HIDE DEF G
    <2>2. Xor(Up(r, j + 1), Up(G, j)) \in SUBSET Int
      BY <1>5 DEF Xor
    <2>3. Xor(Up(r, j + 1), Up(G, j)) = Up(D, j)
      BY <1>5, <2>1, <2>2
    <2> QED
      BY <1>7, <1>9, <2>3 DEF D, w
  <1>10. CASE w - 1 \notin r
    <2>1. ASSUME NEW x \in Int
          PROVE  x \in Up(r, j + 1) <=> x \in Up(D, j)
      <3> DEFINE z == x - j
      <3>1. z \in Int /\ x - (j + 1) = z - 1
        OBVIOUS
      <3>2. x \in Up(r, j + 1) <=> z - 1 \in r
        BY <1>4, <3>1
      <3>3. x \in Up(D, j) <=> z - 1 \in r /\ z < w
        BY <1>4, <1>8, <1>10, <3>1
      <3>4. z >= w => z - 1 \notin r
        BY <1>1, <1>2, <1>10, <3>1
      <3> QED
        BY <1>1, <3>1, <3>2, <3>3, <3>4
    <2>2. Up(r, j + 1) = Up(D, j)
      BY <1>5, <2>1
    <2> QED
      BY <1>7, <1>10, <2>2 DEF D, w
  <1> QED
    BY <1>9, <1>10

(* The remainder of a longer message is what the loop body of CrcNBase     *)
(* makes of the remainder so far.                                          *)
LEMMA RemainderAppend ==
    ASSUME NEW v \in Variants, NEW m \in Seq(Byte), NEW b \in Byte,
           Stream!Remainder(m, v) \in Word(v.width)
    PROVE  Stream!Remainder(Append(m, b), v) = NextCrc(Stream!Remainder(m, v), b, v)
  <1> DEFINE N == 8 * Len(m)
             w == v.width
             R == Stream!Remainder(m, v)
             input == InputByte(b, v)
             shifted == ShiftLeft(input, w - 8, w)
             x == Xor(R, shifted)
             S(r) == DivisionStep(r, v)
  <1>1. /\ N \in Nat /\ w \in Nat /\ w >= 8 /\ Append(m, b) \in Seq(Byte)
        /\ 8 * Len(Append(m, b)) = N + 8 /\ Top(Append(m, b), v) = w + N + 8
    BY VariantType DEF Top
  <1>2. PICK f : Division(m, v, f) /\ R = f[N]
    BY RemainderOf
  <1>3. PICK g : Division(Append(m, b), v, g) /\ Stream!Remainder(Append(m, b), v) = g[N + 8]
    <2>1. \E g : /\ Division(Append(m, b), v, g)
                 /\ Stream!Remainder(Append(m, b), v) = g[8 * Len(Append(m, b))]
      BY <1>1, RemainderOf
    <2> QED
      BY <1>1, <2>1
  <1>4. g[N] = Xor(Up(R, 8), Highest(b, v))
    BY <1>2, <1>3, DivisionAppend
  <1>5. input \in SUBSET Int /\ input \in SUBSET Nat /\ \A y \in input : y >= 0 /\ y <= 7
    BY InputBits, InputByteType DEF Byte
  <1>6. /\ shifted \in Word(w) /\ shifted \in SUBSET Int /\ R \in SUBSET Int
        /\ x \in Word(w) /\ x \in SUBSET Int
    <2>1. shifted \in Word(w)
      BY <1>1, <1>5, ShiftLeftType
    <2>2. x \in Word(w)
      BY <1>1, <2>1, XorType
    <2>3. Word(w) \subseteq SUBSET Int
      BY <1>1 DEF Word
    <2> QED
      BY <2>1, <2>2, <2>3
  <1> HIDE DEF R, shifted
  <1>7. Xor(Up(R, 8), Highest(b, v)) = Up(x, 8)
    <2>1. ASSUME NEW y \in Int PROVE y \in Xor(Up(R, 8), Highest(b, v)) <=> y \in Up(x, 8)
      <3>1. y \in Up(R, 8) <=> y - 8 \in R
        BY <1>6, UpMember
      <3>2. y \in Highest(b, v) <=> y - w \in input
        <4>1. v.width \in Int /\ InputByte(b, v) \in SUBSET Int
          BY <1>1, <1>5
        <4>2. y \in Up(InputByte(b, v), v.width) <=> y - v.width \in InputByte(b, v)
          BY <4>1, UpMember
        <4> QED
          BY <4>2 DEF Highest
      <3>3. y \in Up(x, 8) <=> y - 8 \in x
        BY <1>6, UpMember
      <3>4. y - 8 \in shifted <=> (y - 8) - (w - 8) \in input /\ y - 8 < w
        BY <1>1, <1>5, ShiftLeftMember DEF shifted
      <3>5. (y - 8) - (w - 8) = y - w
        BY <1>1, SMTT(60)
      <3>6. y - w \in input => y - 8 < w
        BY <1>1, <1>5
      <3> QED
        BY <3>1, <3>2, <3>3, <3>4, <3>5, <3>6 DEF Xor
    <2>2. Up(R, 8) \in SUBSET Int /\ Up(x, 8) \in SUBSET Int
      BY <1>6, UpType
    <2>3. Highest(b, v) \in SUBSET Int
      <3>1. v.width \in Int /\ InputByte(b, v) \in SUBSET Int
        BY <1>1, <1>5
      <3> QED
        BY <3>1, UpType DEF Highest
    <2>4. Xor(Up(R, 8), Highest(b, v)) \in SUBSET Int
      BY <2>2, <2>3 DEF Xor
    <2> QED
      BY <2>1, <2>2, <2>4
  <1>8. ASSUME NEW j \in 0..7, NEW r \in Word(w), g[N + (7 - j)] = Up(r, j + 1)
        PROVE  g[N + (8 - j)] = Up(S(r), j) /\ S(r) \in Word(w)
    <2>1. \A k \in 1..(N + 8) : g[k] = Reduced(g[k - 1], w + N + 8 - k, v)
      <3>1. \A k \in 1..(8 * Len(Append(m, b))) :
                g[k] = Reduced(g[k - 1], Top(Append(m, b), v) - k, v)
        BY <1>1, <1>3, DivisionSteps
      <3> HIDE DEF N
      <3>2. \A k \in 1..(N + 8) : Top(Append(m, b), v) - k = w + N + 8 - k
        BY <1>1, SMTT(60)
      <3> QED
        BY <1>1, <3>1, <3>2
    <2>2. /\ N + (8 - j) \in 1..(N + 8) /\ (N + (8 - j)) - 1 = N + (7 - j)
          /\ w + N + 8 - (N + (8 - j)) = w + j
      BY <1>1
    <2>3. g[N + (8 - j)] = Reduced(Up(r, j + 1), w + j, v)
      BY <1>8, <2>1, <2>2
    <2>4. S(r) \in Word(w)
      BY <1>1, DivisionStepType, VariantsAssumption
    <2> QED
      BY <2>3, <2>4, ReducedBelow
  <1> DEFINE At(k, r) == g[N + k] = Up(r, 8 - k) /\ r \in Word(w)
  <1>9. At(0, x)
    BY <1>1, <1>4, <1>6, <1>7
  <1>10. ASSUME NEW k \in 0..7, NEW r, At(k, r) PROVE At(k + 1, S(r))
    <2>1. 7 - k \in 0..7 /\ 7 - (7 - k) = k /\ 8 - (7 - k) = k + 1
          /\ (7 - k) + 1 = 8 - k /\ 7 - k = 8 - (k + 1)
      OBVIOUS
    <2> HIDE DEF S, x
    <2> QED
      BY <1>8, <1>10, <2>1
  <1>11. EightSteps(x, v) = S(S(S(S(S(S(S(S(x))))))))
    BY EightStepsUnfolded
  <1>12. At(8, EightSteps(x, v))
    <2> HIDE DEF At, S, x
    <2>1. At(1, S(x))
      BY <1>9, <1>10
    <2>2. At(2, S(S(x)))
      BY <1>10, <2>1
    <2>3. At(3, S(S(S(x))))
      BY <1>10, <2>2
    <2>4. At(4, S(S(S(S(x)))))
      BY <1>10, <2>3
    <2>5. At(5, S(S(S(S(S(x))))))
      BY <1>10, <2>4
    <2>6. At(6, S(S(S(S(S(S(x)))))))
      BY <1>10, <2>5
    <2>7. At(7, S(S(S(S(S(S(S(x))))))))
      BY <1>10, <2>6
    <2> QED
      BY <1>10, <1>11, <2>7
  <1>13. Stream!Remainder(Append(m, b), v) = EightSteps(x, v)
    <2>1. ASSUME NEW r \in SUBSET Int PROVE Up(r, 0) = r
      <3>1. \A y \in r : y + 0 = y
        OBVIOUS
      <3> QED
        BY <3>1 DEF Up
    <2>2. Word(w) \subseteq SUBSET Int
      BY <1>1 DEF Word
    <2> QED
      BY <1>3, <1>12, <2>1, <2>2
  <1>14. NextCrc(R, b, v) = EightSteps(x, v)
    BY NextCrcIsDivision DEF R, shifted
  <1> QED
    BY <1>13, <1>14 DEF R

(* Of no bytes, the remainder is the initial value.                        *)
LEMMA RemainderOfNothing ==
    ASSUME NEW v \in Variants
    PROVE  Stream!Remainder(<<>>, v) = v.initial
  <1>1. /\ <<>> \in Seq(Byte) /\ 8 * Len(<<>>) = 0 /\ Len(<<>>) = 0 /\ v.initial \in SUBSET Int
    BY VariantType
  <1>2. PICK f : Division(<<>>, v, f) /\ Stream!Remainder(<<>>, v) = f[8 * Len(<<>>)]
    BY <1>1, RemainderOf
  <1>3. f[0] = Stream!Polynomial(<<>>, v)
    BY <1>1, <1>2, DivisionSteps
  <1>4. ASSUME NEW x \in Int PROVE x \in Stream!Polynomial(<<>>, v) <=> x \in v.initial
    <2>1. x \in Stream!Polynomial(<<>>, v) <=>
              ~(x - 8 * Len(<<>>) \in v.initial <=>
                \E k \in 1..Len(<<>>) :
                    x - v.width - 8 * (Len(<<>>) - k) \in InputByte(<<>>[k], v))
      BY <1>1, PolynomialMember
    <2>2. x - 8 * Len(<<>>) = x /\ ~(\E k : k \in 1..Len(<<>>))
      BY <1>1
    <2> QED
      BY <2>1, <2>2
  <1>5. Stream!Polynomial(<<>>, v) \in SUBSET Int
    <2>1. 0 \in Int
      OBVIOUS
    <2> QED
      BY <1>1, <2>1, PolynomialMember
  <1>6. Stream!Polynomial(<<>>, v) = v.initial
    BY <1>1, <1>4, <1>5
  <1> QED
    BY <1>1, <1>2, <1>3, <1>6

-----------------------------------------------------------------------------
(* What the register and the last result have in common with the message   *)
(* so far, wherever the caller has cut it.                                 *)
RemainderSoFar ==
    /\ calling => crc = Stream!Remainder(message, variant)
    /\ calling /\ final => variant.takes_final
    /\ ~calling /\ ~final => result = Stream!Remainder(message, variant)

LEMMA RemainderSoFarInit == Init => RemainderSoFar
  BY DEF Init, RemainderSoFar

LEMMA RemainderSoFarNext == StateType /\ RemainderSoFar /\ [Next]_vars => RemainderSoFar'
  <1> SUFFICES ASSUME StateType, RemainderSoFar, [Next]_vars PROVE RemainderSoFar'
    OBVIOUS
  <1>1. ASSUME NEW n \in 0..MaxMessage, NEW chunk \in [1..n -> Bytes],
               NEW is_final \in BOOLEAN, CallFirst(chunk, is_final)
        PROVE  RemainderSoFar'
    BY <1>1, RemainderOfNothing DEF CallFirst, RemainderSoFar, StateType
  <1>2. ASSUME NEW n \in 0..MaxMessage, NEW chunk \in [1..n -> Bytes],
               NEW is_final \in BOOLEAN, CallAgain(chunk, is_final)
        PROVE  RemainderSoFar'
    BY <1>2 DEF CallAgain, RemainderSoFar, StateType
  <1>3. CASE ReadByte
    <2>1. Head(data) \in Byte /\ message \in Seq(Byte)
      BY <1>3, BytesAssumption DEF ReadByte, StateType
    <2>2. crc = Stream!Remainder(message, variant) /\ crc \in Word(variant.width)
      BY <1>3 DEF ReadByte, RemainderSoFar, StateType
    <2>3. Stream!Remainder(Append(message, Head(data)), variant) =
          NextCrc(crc, Head(data), variant)
      BY <2>1, <2>2, RemainderAppend DEF StateType
    <2> QED
      BY <1>3, <2>3 DEF ReadByte, RemainderSoFar, StateType
  <1>4. CASE Return
    BY <1>4 DEF Return, RemainderSoFar, StateType
  <1>5. CASE UNCHANGED vars
    BY <1>5 DEF vars, RemainderSoFar
  <1> QED
    BY <1>1, <1>2, <1>3, <1>4, <1>5 DEF Next

(* A step of a call is a step of the stream, or none.                      *)
LEMMA StepOfStream ==
    StateType /\ RemainderSoFar /\ [Next]_vars => [Stream!SNext]_(Stream!svars)
  <1> SUFFICES ASSUME StateType, RemainderSoFar, [Next]_vars
               PROVE  [Stream!SNext]_(Stream!svars)
    OBVIOUS
  <1>1. ASSUME NEW n \in 0..MaxMessage, NEW chunk \in [1..n -> Bytes],
               NEW is_final \in BOOLEAN, CallFirst(chunk, is_final)
        PROVE  Stream!StartMessage
    BY <1>1 DEF CallFirst, Stream!StartMessage
  <1>2. ASSUME NEW n \in 0..MaxMessage, NEW chunk \in [1..n -> Bytes],
               NEW is_final \in BOOLEAN, CallAgain(chunk, is_final)
        PROVE  UNCHANGED Stream!svars
    BY <1>2 DEF CallAgain, Stream!svars
  <1>3. CASE ReadByte
    <2>1. Head(data) \in Bytes
      BY <1>3 DEF ReadByte, StateType
    <2> QED
      BY <1>3, <2>1 DEF ReadByte, Stream!SNext, Stream!Absorb
  <1>4. CASE Return
    <2>1. CASE final
      <3>1. Stream!Finished(crc, variant) = Finished(crc, variant)
        BY DEF Stream!Finished, Finished, Stream!Xor, Xor, Stream!Reflect, Reflect
      <3> QED
        BY <1>4, <2>1, <3>1 DEF Return, RemainderSoFar, Stream!SNext, Stream!ReportFinal
    <2>2. CASE ~final
      BY <1>4, <2>2 DEF Return, RemainderSoFar, Stream!SNext, Stream!ReportSoFar
    <2> QED
      BY <2>1, <2>2
  <1>5. CASE UNCHANGED vars
    BY <1>5 DEF vars, Stream!svars
  <1> QED
    BY <1>1, <1>2, <1>3, <1>4, <1>5 DEF Next, Stream!SNext

(* However the message is cut into calls, what the functions return is the *)
(* remainder of dividing the whole message by the generator of the code,   *)
(* finished if the call was final.                                         *)
THEOREM ImplementsStream == Spec => ChecksumSpec
  <1>1. Init => Stream!SInit
    BY DEF Init, Stream!SInit
  <1> QED
    BY <1>1, RemainderSoFarInit, RemainderSoFarNext, StepOfStream, StateTypeHolds, PTL
    DEF Spec, ChecksumSpec, Stream!SSpec

-----------------------------------------------------------------------------
(* What a checksum is for.  Two messages of one length whose polynomials   *)
(* differ, but only within width neighbouring exponents: one has become    *)
(* the other by a burst of errors.                                         *)
Difference(m1, m2, v) == Xor(Stream!Polynomial(m1, v), Stream!Polynomial(m2, v))

DifferByABurst(m1, m2, v) ==
    /\ Len(m1) = Len(m2)
    /\ Difference(m1, m2, v) /= {}
    /\ \E low \in Int : Difference(m1, m2, v) \subseteq low..(low + v.width - 1)

(* What a call returns for a message.                                      *)
ChecksumOf(m, v, is_final) ==
    IF is_final THEN Finished(Stream!Remainder(m, v), v) ELSE Stream!Remainder(m, v)

(* A step of the division does to the difference of two polynomials what   *)
(* it does to each of them.                                                *)
LEMMA ReducedLinear ==
    ASSUME NEW v \in Variants, NEW r \in SUBSET Int, NEW s \in SUBSET Int, NEW d \in Int
    PROVE  Reduced(Xor(r, s), d, v) = Xor(Reduced(r, d, v), Reduced(s, d, v))
  <1> DEFINE G == Up(v.polynomial \cup {v.width}, d - v.width)
  <1>1. Reduced(Xor(r, s), d, v) = IF ~(d \in r <=> d \in s) THEN Xor(Xor(r, s), G) ELSE Xor(r, s)
    BY DEF Reduced, Xor
  <1>2. /\ Reduced(r, d, v) = IF d \in r THEN Xor(r, G) ELSE r
        /\ Reduced(s, d, v) = IF d \in s THEN Xor(s, G) ELSE s
    BY DEF Reduced
  <1> HIDE DEF G
  <1>3. Xor(Xor(r, G), Xor(s, G)) = Xor(r, s)
    BY DEF Xor
  <1>4. Xor(Xor(r, G), s) = Xor(Xor(r, s), G)
    BY DEF Xor
  <1>5. Xor(r, Xor(s, G)) = Xor(Xor(r, s), G)
    BY DEF Xor
  <1> QED
    BY <1>1, <1>2, <1>3, <1>4, <1>5

(* What is subtracted when the leading term is d: d itself, the term of    *)
(* the generator's 1, and nothing below that one or above d.               *)
LEMMA Subtracted ==
    ASSUME NEW v \in Variants, NEW d \in Int
    PROVE  LET G == Up(v.polynomial \cup {v.width}, d - v.width)
           IN  /\ G \in SUBSET Int /\ d \in G /\ d - v.width \in G
               /\ \A e \in G : d - v.width <= e /\ e <= d
  <1> DEFINE g == v.polynomial \cup {v.width}
             G == Up(g, d - v.width)
  <1>1. /\ v.width \in Nat /\ g \in SUBSET Int /\ d - v.width \in Int
        /\ \A e \in g : 0 <= e /\ e <= v.width
    BY VariantType
  <1>2. 0 \in g /\ v.width \in g
    BY GeneratorAssumption
  <1> HIDE DEF g
  <1>3. \A e \in Int : e \in G <=> e - (d - v.width) \in g
    BY <1>1, UpMember
  <1>4. d \in G /\ d - v.width \in G
    BY <1>1, <1>2, <1>3
  <1>5. G \in SUBSET Int
    BY <1>1, UpType
  <1> HIDE DEF G
  <1>6. ASSUME NEW e \in G PROVE d - v.width <= e /\ e <= d
    <2>1. e \in Int /\ e - (d - v.width) \in g
      BY <1>3, <1>5
    <2> QED
      BY <1>1, <2>1
  <1>7. /\ G \in SUBSET Int /\ d \in G /\ d - v.width \in G
        /\ \A e \in G : d - v.width <= e /\ e <= d
    BY <1>4, <1>5, <1>6
  <1> QED
    BY <1>7 DEF G, g

(* A step never divides the difference away: the term it adds below all    *)
(* others is new.                                                          *)
LEMMA BurstStays ==
    ASSUME NEW v \in Variants, NEW D \in SUBSET Int, D /= {},
           NEW low \in Int, D \subseteq low..(low + v.width - 1),
           NEW r \in SUBSET Int, NEW d \in Int,
           r /= {}, r = D \/ (\A e \in r : e >= d + 1 - v.width)
    PROVE  LET q == Reduced(r, d, v)
           IN  q /= {} /\ (q = D \/ (\A e \in q : e >= d - v.width))
  <1> DEFINE G == Up(v.polynomial \cup {v.width}, d - v.width)
             q == Reduced(r, d, v)
  <1>1. /\ v.width \in Nat /\ G \in SUBSET Int /\ d - v.width \in G
        /\ \A e \in G : d - v.width <= e
    BY Subtracted, VariantType
  <1>2. CASE d \notin r
    <2>1. q = r
      BY <1>2 DEF Reduced
    <2>2. ASSUME \A e \in r : e >= d + 1 - v.width PROVE \A e \in r : e >= d - v.width
      <3>1. \A e \in r : e \in Int /\ e >= d + 1 - v.width
        BY <2>2
      <3> QED
        BY <1>1, <3>1
    <2> HIDE DEF q
    <2>3. q /= {} /\ (q = D \/ (\A e \in q : e >= d - v.width))
      BY <2>1, <2>2
    <2> QED
      BY <2>3 DEF q
  <1>3. CASE d \in r
    <2>1. q = Xor(r, G)
      BY <1>3 DEF Reduced
    <2>2. \A e \in r : e \in Int /\ e > d - v.width
      <3>1. CASE r = D
        <4>1. d \in low..(low + v.width - 1)
          BY <1>3, <3>1
        <4>2. \A e \in r : e \in Int /\ e >= low
          BY <3>1
        <4> QED
          BY <1>1, <4>1, <4>2
      <3>2. CASE \A e \in r : e >= d + 1 - v.width
        <4>1. \A e \in r : e \in Int /\ e >= d + 1 - v.width
          BY <3>2
        <4> QED
          BY <1>1, <4>1
      <3> QED
        BY <3>1, <3>2
    <2>3. d - v.width \notin r
      BY <1>1, <2>2
    <2> HIDE DEF q, G
    <2>4. d - v.width \in q
      BY <1>1, <2>1, <2>3 DEF Xor
    <2>5. \A e \in q : e \in r \/ e \in G
      BY <2>1 DEF Xor
    <2>6. ASSUME NEW e \in q PROVE e >= d - v.width
      <3>1. CASE e \in r
        BY <1>1, <2>2, <3>1
      <3>2. CASE e \in G
        <4>1. e \in Int /\ d - v.width <= e
          BY <1>1, <3>2
        <4> QED
          BY <1>1, <4>1
      <3> QED
        BY <2>5, <3>1, <3>2
    <2>7. q /= {} /\ (q = D \/ (\A e \in q : e >= d - v.width))
      BY <2>4, <2>6
    <2> QED
      BY <2>7 DEF q
  <1> QED
    BY <1>2, <1>3

(* Two messages that differ by a burst have different remainders: no burst *)
(* is shorter than what the generator can divide away.                     *)
LEMMA BurstsLeaveARemainder ==
    ASSUME NEW v \in Variants, NEW m1 \in Seq(Byte), NEW m2 \in Seq(Byte),
           DifferByABurst(m1, m2, v)
    PROVE  Stream!Remainder(m1, v) /= Stream!Remainder(m2, v)
  <1> DEFINE N == 8 * Len(m1)
             W == v.width
             D == Difference(m1, m2, v)
  <1>1. PICK f : Division(m1, v, f) /\ Stream!Remainder(m1, v) = f[8 * Len(m1)]
    BY RemainderOf
  <1>2. PICK g : Division(m2, v, g) /\ Stream!Remainder(m2, v) = g[8 * Len(m2)]
    BY RemainderOf
  <1>3. /\ N \in Nat /\ W \in Nat /\ 8 * Len(m2) = N
        /\ Top(m1, v) = W + N /\ Top(m2, v) = W + N
    BY VariantType DEF Top, DifferByABurst
  <1>4. /\ f \in [0..N -> SUBSET Int] /\ f[0] = Stream!Polynomial(m1, v)
        /\ \A k \in 1..N : f[k] = Reduced(f[k - 1], Top(m1, v) - k, v)
    BY <1>1, DivisionSteps
  <1>5. /\ g \in [0..N -> SUBSET Int] /\ g[0] = Stream!Polynomial(m2, v)
        /\ \A k \in 1..N : g[k] = Reduced(g[k - 1], Top(m2, v) - k, v)
    <2>1. /\ g \in [0..(8 * Len(m2)) -> SUBSET Int] /\ g[0] = Stream!Polynomial(m2, v)
          /\ \A k \in 1..(8 * Len(m2)) : g[k] = Reduced(g[k - 1], Top(m2, v) - k, v)
      BY <1>2, DivisionSteps
    <2> HIDE DEF N
    <2> QED
      BY <1>3, <2>1
  <1>6. PICK low \in Int : D \subseteq low..(low + W - 1)
    BY DEF DifferByABurst
  <1>7. D /= {} /\ D = Xor(f[0], g[0])
    BY <1>4, <1>5 DEF DifferByABurst, Difference
  <1> HIDE DEF N, D
  <1>8. f[0] \in SUBSET Int /\ g[0] \in SUBSET Int /\ D \in SUBSET Int
    BY <1>3, <1>4, <1>5, <1>7 DEF Xor
  <1> DEFINE delta(k) == Xor(f[k], g[k])
             T == {k \in 0..N : /\ delta(k) /= {}
                                /\ delta(k) = D \/ (\A e \in delta(k) : e >= N - k)}
  <1>9. 0 \in T
    BY <1>3, <1>7
  <1>10. ASSUME NEW k \in 0..(N - 1), k \in T PROVE k + 1 \in T
    <2> DEFINE d == W + N - (k + 1)
    <2>1. k + 1 \in 1..N /\ k + 1 \in 0..N /\ (k + 1) - 1 = k /\ k \in 0..N
      BY <1>3
    <2>2. d \in Int /\ d + 1 - W = N - k /\ d - W = N - (k + 1)
      BY <1>3
    <2>3. f[k] \in SUBSET Int /\ g[k] \in SUBSET Int
      BY <1>4, <1>5, <2>1
    <2>4. f[k + 1] = Reduced(f[k], d, v) /\ g[k + 1] = Reduced(g[k], d, v)
      <3>1. Top(m1, v) - (k + 1) = d /\ Top(m2, v) - (k + 1) = d
        BY <1>3
      <3>2. /\ f[k + 1] = Reduced(f[(k + 1) - 1], Top(m1, v) - (k + 1), v)
            /\ g[k + 1] = Reduced(g[(k + 1) - 1], Top(m2, v) - (k + 1), v)
        BY <1>4, <1>5, <2>1, Zenon
      <3> QED
        BY <2>1, <3>1, <3>2, Zenon
    <2> HIDE DEF d
    <2>5. delta(k + 1) = Reduced(delta(k), d, v)
      BY <2>2, <2>3, <2>4, ReducedLinear
    <2>6. delta(k) \in SUBSET Int
      BY <2>3 DEF Xor
    <2>7. delta(k) /= {} /\ (delta(k) = D \/ (\A e \in delta(k) : e >= d + 1 - W))
      BY <1>10, <2>2
    <2> HIDE DEF delta
    <2>8. /\ delta(k + 1) /= {}
          /\ delta(k + 1) = D \/ (\A e \in delta(k + 1) : e >= d - W)
      BY <1>6, <1>7, <1>8, <2>2, <2>5, <2>6, <2>7, BurstStays
    <2> QED
      BY <2>1, <2>2, <2>8
  <1>11. \A k \in 0..N : k \in T
    <2> HIDE DEF T
    <2> QED
      BY <1>3, <1>9, <1>10, InductionUpTo
  <1>12. delta(N) /= {}
    BY <1>3, <1>11
  <1>13. f[N] /= g[N]
    BY <1>12 DEF Xor
  <1> QED
    BY <1>1, <1>2, <1>3, <1>13 DEF N

(* The remainder of any message fits into the register.                    *)
LEMMA RemainderType ==
    ASSUME NEW v \in Variants, NEW m \in Seq(Byte)
    PROVE  Stream!Remainder(m, v) \in Word(v.width)
  <1> DEFINE N == 8 * Len(m)
             W == v.width
             Below(r, d) == \A e \in r : 0 <= e /\ e < d
  <1>1. PICK f : Division(m, v, f) /\ Stream!Remainder(m, v) = f[8 * Len(m)]
    BY RemainderOf
  <1>2. /\ N \in Nat /\ W \in Nat /\ Top(m, v) = W + N /\ Len(m) \in Nat
        /\ \A k \in 1..Len(m) : m[k] \in Byte
    BY VariantType DEF Top
  <1>3. /\ f \in [0..N -> SUBSET Int] /\ f[0] = Stream!Polynomial(m, v)
        /\ \A k \in 1..N : f[k] = Reduced(f[k - 1], Top(m, v) - k, v)
    BY <1>1, DivisionSteps
  <1>4. ASSUME NEW x \in Stream!Polynomial(m, v) PROVE 0 <= x /\ x < W + N
    <2>1. x \in Int
      <3>1. 0 \in Int
        OBVIOUS
      <3> QED
        BY <3>1, PolynomialMember
    <2>2. \/ x - N \in v.initial
          \/ \E k \in 1..Len(m) : x - W - 8 * (Len(m) - k) \in InputByte(m[k], v)
      BY <2>1, PolynomialMember
    <2>3. CASE x - N \in v.initial
      <3>1. \A i \in v.initial : 0 <= i /\ i < W
        BY <1>2, VariantsAssumption DEF Word
      <3> HIDE DEF N, W
      <3>2. 0 <= x - N /\ x - N < W
        BY <2>3, <3>1
      <3> QED
        BY <1>2, <2>1, <3>2
    <2>4. ASSUME NEW k \in 1..Len(m), x - W - 8 * (Len(m) - k) \in InputByte(m[k], v)
          PROVE  0 <= x /\ x < W + N
      <3>1. \A j \in InputByte(m[k], v) : j >= 0 /\ j <= 7
        BY <1>2, InputBits
      <3>2. x - W - 8 * (Len(m) - k) >= 0 /\ x - W - 8 * (Len(m) - k) <= 7
        BY <2>4, <3>1
      <3> QED
        BY <1>2, <2>1, <3>2
    <2> QED
      BY <2>2, <2>3, <2>4
  <1> HIDE DEF N
  <1> DEFINE T == {k \in 0..N : Below(f[k], W + N - k)}
  <1>5. 0 \in T
    BY <1>2, <1>3, <1>4
  <1>6. ASSUME NEW k \in 0..(N - 1), k \in T PROVE k + 1 \in T
    <2> DEFINE d == W + N - (k + 1)
               G == Up(v.polynomial \cup {v.width}, d - v.width)
    <2>1. k + 1 \in 1..N /\ k + 1 \in 0..N /\ (k + 1) - 1 = k /\ k \in 0..N
      BY <1>2
    <2>2. d \in Int /\ d >= W /\ W + N - k = d + 1
      BY <1>2
    <2>3. f[k + 1] = Reduced(f[k], d, v)
      <3>1. f[k + 1] = Reduced(f[(k + 1) - 1], Top(m, v) - (k + 1), v)
        BY <1>3, <2>1, Zenon
      <3>2. Top(m, v) - (k + 1) = d
        BY <1>2
      <3> QED
        BY <2>1, <3>1, <3>2, Zenon
    <2>4. \A e \in f[k] : e \in Int /\ 0 <= e /\ e < d + 1
      BY <1>3, <1>6, <2>1, <2>2
    <2> HIDE DEF d
    <2>5. /\ G \in SUBSET Int /\ d \in G
          /\ \A e \in G : d - W <= e /\ e <= d
      BY <2>2, Subtracted
    <2>6. f[k + 1] = IF d \in f[k] THEN Xor(f[k], G) ELSE f[k]
      BY <2>3 DEF Reduced
    <2> HIDE DEF G
    <2>7. \A e \in f[k + 1] : e /= d /\ (e \in f[k] \/ e \in G)
      BY <2>5, <2>6 DEF Xor
    <2>8. ASSUME NEW e \in f[k + 1] PROVE 0 <= e /\ e < d
      <3>1. e /= d /\ (e \in f[k] \/ e \in G)
        BY <2>7
      <3>2. CASE e \in f[k]
        BY <2>2, <2>4, <3>1, <3>2
      <3>3. CASE e \in G
        <4>1. e \in Int /\ d - W <= e /\ e <= d
          BY <2>5, <3>3
        <4> QED
          BY <1>2, <2>2, <3>1, <4>1
      <3> QED
        BY <3>1, <3>2, <3>3
    <2>9. Below(f[k + 1], d)
      BY <2>8
    <2> QED
      BY <2>1, <2>9 DEF d
  <1>7. \A k \in 0..N : k \in T
    <2> HIDE DEF T
    <2> QED
      BY <1>2, <1>5, <1>6, InductionUpTo
  <1>8. Below(f[N], W) /\ f[N] \in SUBSET Int
    <2>1. N \in 0..N /\ W + N - N = W
      BY <1>2
    <2> QED
      BY <1>3, <1>7, <2>1
  <1>9. f[N] \in Word(W)
    BY <1>2, <1>8 DEF Word
  <1> QED
    BY <1>1, <1>9 DEF N

(* Turning a word around loses nothing of it, and neither does the last    *)
(* exclusive or.                                                           *)
LEMMA ReflectKeepsApart ==
    ASSUME NEW n \in Nat, NEW r \in Word(n), NEW s \in Word(n), Reflect(r, n) = Reflect(s, n)
    PROVE  r = s
  <1>1. ASSUME NEW w \in Word(n), NEW j \in 0..(n - 1)
        PROVE  n - 1 - j \in Reflect(w, n) <=> j \in w
    <2>1. ASSUME j \in w PROVE n - 1 - j \in Reflect(w, n)
      <3>1. j \in {i \in w : i < n}
        BY <2>1
      <3> QED
        BY <3>1 DEF Reflect
    <2>2. ASSUME n - 1 - j \in Reflect(w, n) PROVE j \in w
      <3>1. PICK i \in w : n - 1 - j = n - 1 - i
        BY <2>2 DEF Reflect
      <3>2. i \in Int
        BY DEF Word
      <3>3. i = j
        BY <3>1, <3>2
      <3> QED
        BY <3>3
    <2> QED
      BY <2>1, <2>2
  <1>2. \A j \in 0..(n - 1) : j \in r <=> j \in s
    BY <1>1
  <1> QED
    BY <1>2 DEF Word

LEMMA FinishedKeepsApart ==
    ASSUME NEW v \in Variants, NEW r \in Word(v.width), NEW s \in Word(v.width),
           Finished(r, v) = Finished(s, v)
    PROVE  r = s
  <1> DEFINE Turned(w) == IF v.reflected THEN Reflect(w, v.width) ELSE w
  <1>1. Xor(Turned(r), v.final_xor) = Xor(Turned(s), v.final_xor)
    BY DEF Finished
  <1>2. Turned(r) = Turned(s)
    <2> HIDE DEF Turned
    <2> QED
      BY <1>1 DEF Xor
  <1> QED
    BY <1>2, VariantType, ReflectKeepsApart

(* The bytes of a message do not overlap in its polynomial.                *)
LEMMA PlacesOfBits ==
    ASSUME NEW W \in Int, NEW n \in Int, NEW k \in Int, NEW l \in Int, NEW x \in Int,
           x - W - 8 * (n - k) \in 0..7, x - W - 8 * (n - l) \in 0..7
    PROVE  k = l
  OBVIOUS

(* Messages in which only bytes next to each other differ, no more of them *)
(* than the checksum has: the error a reader of a damaged line may meet.   *)
DifferInNeighbours(m1, m2, v) ==
    /\ Len(m1) = Len(m2) /\ m1 /= m2
    /\ \E first \in Int :
           \A k \in 1..Len(m1) :
               m1[k] /= m2[k] => first <= k /\ 8 * (k - first + 1) <= v.width

LEMMA NeighboursAreABurst ==
    ASSUME NEW v \in Variants, NEW m1 \in Seq(Byte), NEW m2 \in Seq(Byte),
           DifferInNeighbours(m1, m2, v)
    PROVE  DifferByABurst(m1, m2, v)
  <1> DEFINE n == Len(m1)
             W == v.width
             D == Difference(m1, m2, v)
             Place(x, k) == x - W - 8 * (n - k)
  <1>1. /\ n \in Nat /\ W \in Nat /\ Len(m2) = n /\ m1 /= m2
        /\ \A k \in 1..n : m1[k] \in Byte /\ m2[k] \in Byte
    BY VariantType DEF DifferInNeighbours
  <1>2. PICK first \in Int :
            \A k \in 1..n : m1[k] /= m2[k] => first <= k /\ 8 * (k - first + 1) <= W
    BY DEF DifferInNeighbours
  <1>3. PICK bad \in 1..n : m1[bad] /= m2[bad]
    <2>1. ASSUME \A k \in 1..n : m1[k] = m2[k] PROVE m1 = m2
      BY <1>1, <2>1
    <2> QED
      BY <1>1, <2>1
  <1>4. D \in SUBSET Int
    <2>1. 0 \in Int
      OBVIOUS
    <2> QED
      BY <2>1, PolynomialMember DEF Difference, Xor
  <1>5. ASSUME NEW m \in {m1, m2}, NEW k \in 1..n
        PROVE  /\ InputByte(m[k], v) \in SUBSET (0..7)
    BY <1>1, InputByteType DEF Byte
  <1>6. ASSUME NEW x \in Int, NEW k \in 1..n, Place(x, k) \in 0..7
        PROVE  x \in D <=> ~(Place(x, k) \in InputByte(m1[k], v) <=> Place(x, k) \in InputByte(m2[k], v))
    <2>1. ASSUME NEW m \in {m1, m2}, NEW l \in 1..n, Place(x, l) \in InputByte(m[l], v)
          PROVE  l = k
      <3>1. Place(x, l) \in 0..7
        BY <1>5, <2>1
      <3>2. /\ n \in Int /\ W \in Int /\ k \in Int /\ l \in Int
            /\ x - W - 8 * (n - l) \in 0..7 /\ x - W - 8 * (n - k) \in 0..7
        BY <1>1, <1>6, <3>1
      <3> HIDE DEF n, W, Place
      <3> QED
        BY <3>2, PlacesOfBits
    <2>2. ASSUME NEW m \in {m1, m2}
          PROVE  x \in Stream!Polynomial(m, v) <=>
                     ~(x - 8 * n \in v.initial <=> Place(x, k) \in InputByte(m[k], v))
      <3>1. Len(m) = n /\ m \in Seq(Byte)
        BY <1>1
      <3>2. x \in Stream!Polynomial(m, v) <=>
                ~(x - 8 * Len(m) \in v.initial <=>
                  \E l \in 1..Len(m) : x - v.width - 8 * (Len(m) - l) \in InputByte(m[l], v))
        BY <3>1, PolynomialMember
      <3>3. x \in Stream!Polynomial(m, v) <=>
                ~(x - 8 * n \in v.initial <=> \E l \in 1..n : Place(x, l) \in InputByte(m[l], v))
        BY <3>1, <3>2
      <3> HIDE DEF Place, n
      <3>4. (\E l \in 1..n : Place(x, l) \in InputByte(m[l], v))
                <=> Place(x, k) \in InputByte(m[k], v)
        BY <2>1
      <3> QED
        BY <3>3, <3>4
    <2> HIDE DEF Place
    <2> QED
      BY <2>2 DEF Difference, Xor
  <1>7. ASSUME NEW x \in D
        PROVE  \E k \in 1..n : Place(x, k) \in 0..7 /\ m1[k] /= m2[k]
    <2>1. x \in Int
      BY <1>4
    <2>2. CASE \E k \in 1..n : Place(x, k) \in 0..7
      <3>1. PICK k \in 1..n : Place(x, k) \in 0..7
        BY <2>2
      <3>2. ~(Place(x, k) \in InputByte(m1[k], v) <=> Place(x, k) \in InputByte(m2[k], v))
        BY <1>6, <1>7, <2>1, <3>1
      <3> QED
        BY <3>1, <3>2
    <2>3. CASE ~(\E k \in 1..n : Place(x, k) \in 0..7)
      <3>1. ASSUME NEW m \in {m1, m2}
            PROVE  x \in Stream!Polynomial(m, v) <=> x - 8 * n \in v.initial
        <4>1. Len(m) = n /\ m \in Seq(Byte)
          BY <1>1
        <4>2. x \in Stream!Polynomial(m, v) <=>
                  ~(x - 8 * n \in v.initial <=> \E l \in 1..n : Place(x, l) \in InputByte(m[l], v))
          BY <2>1, <4>1, PolynomialMember
        <4>3. ~(\E l \in 1..n : Place(x, l) \in InputByte(m[l], v))
          <5> HIDE DEF Place, n
          <5> QED
            BY <1>5, <2>3
        <4> QED
          BY <4>2, <4>3
      <3>2. x \notin D
        BY <3>1 DEF Difference, Xor
      <3> QED
        BY <1>7, <3>2
    <2> QED
      BY <2>2, <2>3
  <1>8. D /= {}
    <2>1. InputByte(m1[bad], v) /= InputByte(m2[bad], v)
      <3>1. m1[bad] \in Word(8) /\ m2[bad] \in Word(8) /\ 8 \in Nat
        BY <1>1 DEF Byte, Word
      <3> QED
        BY <1>3, <3>1, ReflectKeepsApart DEF InputByte
    <2>2. InputByte(m1[bad], v) \in SUBSET (0..7) /\ InputByte(m2[bad], v) \in SUBSET (0..7)
      BY <1>5
    <2>3. PICK j \in 0..7 : ~(j \in InputByte(m1[bad], v) <=> j \in InputByte(m2[bad], v))
      BY <2>1, <2>2
    <2> DEFINE x == j + W + 8 * (n - bad)
    <2>4. x \in Int /\ Place(x, bad) = j
      BY <1>1
    <2> HIDE DEF x, D
    <2>5. x \in D
      BY <1>6, <2>3, <2>4
    <2> QED
      BY <2>5
  <1>9. \E lowest \in Int : D \subseteq lowest..(lowest + W - 1)
    <2> DEFINE lowest == 8 * (n - first) + 8
    <2>1. lowest \in Int
      BY <1>1
    <2>2. ASSUME NEW x \in D PROVE x \in lowest..(lowest + W - 1)
      <3>1. x \in Int
        BY <1>4
      <3>2. PICK k \in 1..n : Place(x, k) \in 0..7 /\ m1[k] /= m2[k]
        BY <1>7
      <3>3. first <= k /\ 8 * (k - first + 1) <= W
        BY <1>2, <3>2
      <3>4. /\ n \in Int /\ W \in Int /\ k \in Int
            /\ 0 <= x - W - 8 * (n - k) /\ x - W - 8 * (n - k) <= 7
        <4>1. n \in Int /\ W \in Int /\ k \in Int
          BY <1>1
        <4>2. x - W - 8 * (n - k) \in 0..7
          BY <3>2
        <4> HIDE DEF n, W, D, Place
        <4> QED
          BY <3>1, <4>1, <4>2
      <3> HIDE DEF n, W, D, Place
      <3>5. lowest <= x /\ x <= lowest + W - 1
        BY <3>1, <3>3, <3>4
      <3> QED
        BY <3>1, <3>4, <2>1, <3>5
    <2> QED
      BY <2>1, <2>2
  <1> QED
    BY <1>1, <1>8, <1>9 DEF DifferByABurst

(* A message altered by a burst of errors no longer than the checksum      *)
(* never has the checksum of the message, however either was cut into      *)
(* calls: the value a call returns is none a call can return for a message *)
(* of the same length that differs from it by a burst of at most width     *)
(* bits, such as one in which at most width / 8 neighbouring bytes differ. *)
THEOREM BurstsAreDetected ==
    Spec => [][Return => \A other \in Seq(Byte) :
                  DifferByABurst(message, other, variant) \/ DifferInNeighbours(message, other, variant)
                      => result' /= ChecksumOf(other, variant, final)]_vars
  <1>1. StateType /\ RemainderSoFar /\ [Next]_vars =>
            [Return => \A other \in Seq(Byte) :
                 DifferByABurst(message, other, variant) \/ DifferInNeighbours(message, other, variant)
                     => result' /= ChecksumOf(other, variant, final)]_vars
    <2> SUFFICES ASSUME StateType, RemainderSoFar, Return, NEW other \in Seq(Byte),
                        \/ DifferByABurst(message, other, variant)
                        \/ DifferInNeighbours(message, other, variant)
                 PROVE  result' /= ChecksumOf(other, variant, final)
      OBVIOUS
    <2>1. variant \in Variants /\ message \in Seq(Byte) /\ other \in Seq(Byte) /\ final \in BOOLEAN
      BY BytesAssumption DEF StateType
    <2>2. DifferByABurst(message, other, variant)
      BY <2>1, NeighboursAreABurst
    <2>3. Stream!Remainder(message, variant) /= Stream!Remainder(other, variant)
      BY <2>1, <2>2, BurstsLeaveARemainder
    <2>4. /\ Stream!Remainder(message, variant) \in Word(variant.width)
          /\ Stream!Remainder(other, variant) \in Word(variant.width)
      BY <2>1, RemainderType
    <2>5. Finished(Stream!Remainder(message, variant), variant)
              /= Finished(Stream!Remainder(other, variant), variant)
      BY <2>1, <2>3, <2>4, FinishedKeepsApart
    <2>6. result' = ChecksumOf(message, variant, final)
      BY DEF Return, RemainderSoFar, ChecksumOf
    <2> QED
      BY <2>3, <2>5, <2>6 DEF ChecksumOf
  <1> QED
    BY <1>1, RemainderSoFarInit, RemainderSoFarNext, StateTypeHolds, StateTypeInit, StateTypeNext, PTL
    DEF Spec

=============================================================================
