------------------------------ MODULE CrcWords ------------------------------
(***************************************************************************)
(* Machine words and the two arithmetic pieces every CRC of the library is *)
(* built from: the lookup table (CrcNBase_tableCalculator) and the step    *)
(* that absorbs one byte (the loop body of CrcNBase).                      *)
(*                                                                         *)
(* A word is the set of its one bits: {0, 2} is 5, XOR is the symmetric    *)
(* difference, a shift moves every bit and drops those that leave the      *)
(* word.  The three copies of the code (8, 16 and 32 bits) differ only in  *)
(* the width, which is a field of the variant here.                        *)
(***************************************************************************)
EXTENDS Integers, Sequences

Byte == SUBSET (0..7)

Word(width) == SUBSET (0..width - 1)

(* The word whose value is n, n < 2^16 (TLC's integers have 31 bits). *)
Bits(n) == {i \in 0..15 : (n \div 2^i) % 2 = 1}

(* The 32-bit word with the given halves. *)
Bits32(high, low) == {i + 16 : i \in Bits(high)} \cup Bits(low)

Xor(a, b) == (a \ b) \cup (b \ a)

(* Wrong on purpose: the shift is computed in a wider type, never cut back. *)
ShiftLeftWide(w, n, width) == {i + n : i \in w}

(* (uintN_t)(w << n): the bits shifted out of the word are lost. *)
ShiftLeft(w, n, width) == {i + n : i \in {j \in w : j + n < width}}

ShiftRight(w, n) == {i - n : i \in {j \in w : j >= n}}

(* Wrong on purpose: the loop stops one bit early.                         *)
ReflectAllButOne(w, n) == {n - 1 - i : i \in {j \in w : j < n - 1}}

(* BitManipulation_reflect: the lowest n bits in the opposite order. *)
Reflect(w, n) == {n - 1 - i : i \in {j \in w : j < n}}

(* One step of the inner loop of tableCalculator: the residue moves up by  *)
(* one bit and the polynomial is subtracted when a one falls off the top.  *)
DivisionStep(residue, v) ==
    IF v.width - 1 \in residue
    THEN Xor(ShiftLeft(residue, 1, v.width), v.polynomial)
    ELSE ShiftLeft(residue, 1, v.width)

EightSteps(r, v) ==
    LET Two(x)  == DivisionStep(DivisionStep(x, v), v)
        Four(x) == Two(Two(x))
    IN  Four(Four(r))

(* crc_table[dividend] *)
TableEntry(dividend, v) ==
    EightSteps(ShiftLeft(dividend, v.width - 8, v.width), v)

(* The byte as the loop of CrcNBase uses it. *)
InputByte(b, v) == IF v.reflected THEN Reflect(b, 8) ELSE b

(* What reflected_output and final_xor do to the register at the end. *)
Finished(crc, v) ==
    Xor(IF v.reflected THEN Reflect(crc, v.width) ELSE crc, v.final_xor)

=============================================================================
