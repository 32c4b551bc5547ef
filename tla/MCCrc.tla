------------------------------- MODULE MCCrc --------------------------------
(***************************************************************************)
(* Crc for TLC: every message of up to SmallMessage bytes, and the message *)
(* for which the tests know the checksum of each function, all of them cut *)
(* into calls in every way (the tests cut message5 once, in pieces of 2, 5 *)
(* and 2 bytes).                                                           *)
(***************************************************************************)
EXTENDS Crc, CrcVariants

CONSTANT SmallMessage   \* bound: bytes of a message other than message5

(* Zero, the two ends of a byte, and one byte that is not its own          *)
(* reflection.                                                             *)
SmallBytes == {Bits(\h00), Bits(\h01), Bits(\h80), Bits(\hA7)}

(* The longest message of src/Tests/test_crc{8,16,32}.c.                  *)
message5 ==
    <<Bits(\h33), Bits(\h22), Bits(\h55), Bits(\hAA), Bits(\hBB),
      Bits(\hCC), Bits(\hDD), Bits(\hEE), Bits(\hFF)>>

MCBytes == SmallBytes \cup {message5[i] : i \in DOMAIN message5}

(* What the tests expect of each of the 45 functions.              *)
Expected ==
    {<<Crc8, Bits(\h59)>>,
     <<Crc8_8h2f, Bits(\h11)>>,
     <<Crc8_cdma2000, Bits(\h3C)>>,
     <<Crc8_darc, Bits(\h99)>>,
     <<Crc8_dvbS2, Bits(\h77)>>,
     <<Crc8_ebu, Bits(\h42)>>,
     <<Crc8_icode, Bits(\hFE)>>,
     <<Crc8_itu, Bits(\h0C)>>,
     <<Crc8_maxim, Bits(\hEB)>>,
     <<Crc8_rohc, Bits(\h1D)>>,
     <<Crc8_saeJ1850, Bits(\hCB)>>,
     <<Crc8_saeJ1850Zero, Bits(\hB7)>>,
     <<Crc8_wcdma, Bits(\hF9)>>,
     <<Crc16_a, Bits(\h6F1D)>>,
     <<Crc16_arc, Bits(\hAE98)>>,
     <<Crc16_augCcit, Bits(\h3942)>>,
     <<Crc16_buypass, Bits(\h4FD0)>>,
     <<Crc16_ccitFalse, Bits(\hF53F)>>,
     <<Crc16_ccitZero, Bits(\hED4D)>>,
     <<Crc16_cdma2000, Bits(\h2DCB)>>,
     <<Crc16_dds110, Bits(\h2FF7)>>,
     <<Crc16_dectR, Bits(\hEE45)>>,
     <<Crc16_dectX, Bits(\hEE44)>>,
     <<Crc16_dnp, Bits(\h9BE3)>>,
     <<Crc16_en13757, Bits(\h7A1F)>>,
     <<Crc16_genibus, Bits(\h0AC0)>>,
     <<Crc16_kermit, Bits(\hF191)>>,
     <<Crc16_maxim, Bits(\h5167)>>,
     <<Crc16_mcrf4xx, Bits(\hBF89)>>,
     <<Crc16_modbus, Bits(\h5E92)>>,
     <<Crc16_riello, Bits(\hB3C8)>>,
     <<Crc16_t10Dif, Bits(\hA725)>>,
     <<Crc16_teledisk, Bits(\hC07B)>>,
     <<Crc16_tms37157, Bits(\hF6A9)>>,
     <<Crc16_usb, Bits(\hA16D)>>,
     <<Crc16_x25, Bits(\h4076)>>,
     <<Crc32, Bits32(\hB0AE, \h863D)>>,
     <<Crc32_bzip2, Bits32(\hD603, \h9CBD)>>,
     <<Crc32_c, Bits32(\hB59C, \hA09B)>>,
     <<Crc32_d, Bits32(\hCF0E, \h6328)>>,
     <<Crc32_jamcrc, Bits32(\h4F51, \h79C2)>>,
     <<Crc32_mpeg2, Bits32(\h29FC, \h6342)>>,
     <<Crc32_posix, Bits32(\h5CD4, \hF325)>>,
     <<Crc32_q, Bits32(\h64E7, \hEA17)>>,
     <<Crc32_xfer, Bits32(\hD543, \hC03C)>>}

Chunks(max) == UNION {[1..n -> SmallBytes] : n \in 0..max}

MCNext ==
    \/ /\ ~calling
       /\ \E is_final \in BOOLEAN :
              \/ \E chunk \in Chunks(SmallMessage) : CallFirst(chunk, is_final)
              \/ /\ message \in Chunks(SmallMessage)
                 /\ \E chunk \in Chunks(SmallMessage - Len(message)) : CallAgain(chunk, is_final)
              \/ \E last \in 0..Len(message5) : CallFirst(SubSeq(message5, 1, last), is_final)
              \/ /\ IsPrefix(message, message5)
                 /\ \E last \in Len(message)..Len(message5) :
                        CallAgain(SubSeq(message5, Len(message) + 1, last), is_final)
    \/ ReadByte
    \/ Return

MCSpec == Init /\ [][MCNext]_vars

(* Whatever the calls were, once message5 has been handed over (and the    *)
(* last call was the final one, where the function has that parameter) the *)
(* value returned is the one the test suite expects.                       *)
AgreesWithTests ==
    ~calling /\ message = message5 /\ final = variant.takes_final =>
        <<variant, result>> \in Expected

=============================================================================
