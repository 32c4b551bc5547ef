-------------------------------- MODULE Crc ---------------------------------
(***************************************************************************)
(* A caller of one of the CRC functions (src/Src/crc/) that hands its      *)
(* message over in chunks: each call is given a chunk, whether it is the   *)
(* last one (final_crc), and either NULL_PTR or a pointer to the value the *)
(* previous call returned (last_crc_ptr).  The loop of CrcNBase takes one  *)
(* step per byte, with the table lookup of the code.                       *)
(*                                                                         *)
(* The caller follows the headers (Inc/crc/crc16_variants/crc16_dnp.h:     *)
(* "Set the flag to 'true' if it is the last or only operation"): it       *)
(* continues from the value of a call that was not final.                  *)
(***************************************************************************)
EXTENDS CrcWords, SequencesExt

CONSTANTS Variants,     \* the CRC functions, records as in CrcVariants
          Bytes,        \* the bytes messages are made of
          MaxMessage    \* bound: bytes of a message

ASSUME VariantsAssumption ==
    \A v \in Variants :
        /\ v.width \in Nat \ 0..7
        /\ v.polynomial \in Word(v.width)
        /\ v.initial \in Word(v.width)
        /\ v.final_xor \in Word(v.width)
        /\ v.reflected \in BOOLEAN
        /\ v.takes_final \in BOOLEAN

(* Every generator has the term 1: the lowest bit of its literal is set.   *)
ASSUME GeneratorAssumption == \A v \in Variants : 0 \in v.polynomial

ASSUME BytesAssumption == Bytes \subseteq Byte

ASSUME MaxMessageAssumption == MaxMessage \in Nat

VARIABLES
    variant,    \* the function the caller uses
    calling,    \* between the call and the return
    data,       \* the bytes of this call the loop has not read
    crc,        \* the local variable of CrcNBase, {} outside a call
    final,      \* the final_crc argument of the last call, TRUE before it
    result,     \* what the last call of the message returned, {} before
    message     \* the bytes read since the last call with NULL_PTR

vars == <<variant, calling, data, crc, final, result, message>>

(* crc_table of each function; the code stores it as a literal. *)
Table == [v \in Variants |-> [d \in Byte |-> TableEntry(d, v)]]

(* Wrong on purpose: the byte is combined with the low end of the register. *)
NextCrcFromBelow(r, b, v) ==
    LET index == Xor(r \cap (0..7), InputByte(b, v))
    IN  Xor(ShiftLeft(r, 8, v.width), Table[v][index])

(* The loop body of CrcNBase:                                              *)
(*   crc = (crc << 8) ^ crc_table[(uint8_t)((crc >> (N - 8)) ^ temp)]      *)
NextCrc(r, b, v) ==
    LET index == Xor(ShiftRight(r, v.width - 8), InputByte(b, v))
    IN  Xor(ShiftLeft(r, 8, v.width), Table[v][index])

-----------------------------------------------------------------------------
Init ==
    /\ variant \in Variants
    /\ calling = FALSE
    /\ data = <<>>
    /\ crc = {}
    /\ final = TRUE
    /\ result = {}
    /\ message = <<>>

(* A call with last_crc_ptr = NULL_PTR: a new message. *)
CallFirst(chunk, is_final) ==
    /\ ~calling
    /\ Len(chunk) <= MaxMessage
    /\ is_final => variant.takes_final
    /\ crc' = variant.initial
    /\ message' = <<>>
    /\ result' = {}
    /\ calling' = TRUE
    /\ data' = chunk
    /\ final' = is_final
    /\ UNCHANGED variant

(* Wrong on purpose: the value last_crc_ptr points to is not used.         *)
CallAgainFromInitial(chunk, is_final) ==
    /\ ~calling
    /\ ~final
    /\ Len(message) + Len(chunk) <= MaxMessage
    /\ is_final => variant.takes_final
    /\ crc' = variant.initial
    /\ calling' = TRUE
    /\ data' = chunk
    /\ final' = is_final
    /\ UNCHANGED <<variant, result, message>>

(* A call with last_crc_ptr = &result. *)
CallAgain(chunk, is_final) ==
    /\ ~calling
    /\ ~final
    /\ Len(message) + Len(chunk) <= MaxMessage
    /\ is_final => variant.takes_final
    /\ crc' = result
    /\ calling' = TRUE
    /\ data' = chunk
    /\ final' = is_final
    /\ UNCHANGED <<variant, result, message>>

(* One iteration of the loop. *)
ReadByte ==
    /\ calling
    /\ data /= <<>>
    /\ crc' = NextCrc(crc, Head(data), variant)
    /\ data' = Tail(data)
    /\ message' = Append(message, Head(data))
    /\ UNCHANGED <<variant, calling, final, result>>

(* The end of the loop, the final reflection and XOR, and the return. *)
Return ==
    /\ calling
    /\ data = <<>>
    /\ result' = IF final THEN Finished(crc, variant) ELSE crc
    /\ calling' = FALSE
    /\ crc' = {}
    /\ UNCHANGED <<variant, data, final, message>>

Next ==
    \/ \E n \in 0..MaxMessage : \E chunk \in [1..n -> Bytes] :
           \E is_final \in BOOLEAN :
               CallFirst(chunk, is_final) \/ CallAgain(chunk, is_final)
    \/ ReadByte
    \/ Return

Spec == Init /\ [][Next]_vars

-----------------------------------------------------------------------------
(* Every value a variable can have; in particular, the register and the    *)
(* index into the table (256 entries) never outgrow their widths.          *)
TypeOK ==
    /\ variant \in Variants
    /\ calling \in BOOLEAN
    /\ data \in Seq(Bytes)
    /\ crc \in Word(variant.width)
    /\ final \in BOOLEAN
    /\ result \in Word(variant.width)
    /\ message \in Seq(Bytes)
    /\ \A b \in Bytes :
           Xor(ShiftRight(crc, variant.width - 8), InputByte(b, variant)) \in Byte

Stream == INSTANCE CrcStream

(* Reading a byte by table lookup is what eight single-bit division steps  *)
(* on the register with the byte XORed into its top would do.              *)
LookupIsDivision ==
    [][ReadByte => crc' = EightSteps(
           Xor(crc, ShiftLeft(InputByte(Head(data), variant),
                              variant.width - 8, variant.width)),
           variant)]_vars

(* However the message is cut, and wherever an intermediate result is      *)
(* asked for, the values returned are those of the whole message, divided  *)
(* by the generator of the function's table. (The headers of crc32_d,      *)
(* crc32_posix, crc32_q and crc32_xfer name other ones.)                   *)
ChecksumSpec == Stream!SSpec

=============================================================================
