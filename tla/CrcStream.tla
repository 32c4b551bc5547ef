----------------------------- MODULE CrcStream ------------------------------
(***************************************************************************)
(* What a CRC function promises, whatever pieces its caller cuts the       *)
(* message into: what it reports is the remainder of dividing the message, *)
(* read as one polynomial over the integers modulo 2, by the generator     *)
(* polynomial; finished (reflected, XORed) if the caller asked for it.     *)
(* The generator is the one the code gives the function, not always the    *)
(* one its header names.  There are no tables, no registers and no chunks  *)
(* here.                                                                   *)
(***************************************************************************)
EXTENDS CrcWords

CONSTANTS Variants,    \* the CRC functions
          Bytes        \* the bytes messages are made of

VARIABLES variant,     \* the function the message is handed to
          message,     \* the bytes handed over since the message began
          result       \* the value last reported of this message

svars == <<variant, message, result>>

(* A polynomial is the set of its exponents.  A message of n bytes stands  *)
(* for the sum of its bits, the first bit of the first byte highest,       *)
(* moved up by the width to make room for the remainder, plus the initial  *)
(* value moved up over the whole message.                                  *)
Polynomial(m, v) ==
    LET n == Len(m)
        Bit(k) == {j + v.width + 8 * (n - k) : j \in InputByte(m[k], v)}
    IN  Xor({i + 8 * n : i \in v.initial}, UNION {Bit(k) : k \in 1..n})

(* Division by schoolbook: while the degree reaches the width, subtract    *)
(* the generator (its leading term x^width is implicit in the code).       *)
Remainder(m, v) ==
    LET generator == v.polynomial \cup {v.width}
        (* what is left once no exponent above Top - k is present *)
        Top == v.width + 8 * Len(m)
        left[k \in 0..8 * Len(m)] ==
            IF k = 0 THEN Polynomial(m, v)
            ELSE LET rest == left[k - 1]
                     d    == Top - k
                 IN  IF d \in rest
                     THEN Xor(rest, {e + d - v.width : e \in generator})
                     ELSE rest
    IN  left[8 * Len(m)]

SInit == variant \in Variants /\ message = <<>> /\ result = {}

(* The caller starts a new message. *)
StartMessage == message' = <<>> /\ result' = {} /\ UNCHANGED variant

(* One more byte of the message. *)
Absorb ==
    \E b \in Bytes :
        /\ message' = Append(message, b)
        /\ UNCHANGED <<variant, result>>

(* The caller is given the remainder so far, to continue from. *)
ReportSoFar ==
    /\ result' = Remainder(message, variant)
    /\ UNCHANGED <<variant, message>>

(* The caller is given the checksum of the message. *)
ReportFinal ==
    /\ variant.takes_final
    /\ result' = Finished(Remainder(message, variant), variant)
    /\ UNCHANGED <<variant, message>>

SNext == StartMessage \/ Absorb \/ ReportSoFar \/ ReportFinal

SSpec == SInit /\ [][SNext]_svars

=============================================================================
