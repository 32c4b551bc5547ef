---------------------------- MODULE CrcVariants ----------------------------
(***************************************************************************)
(* The 45 CRC functions of src/Src/crc/crc{8,16,32}_variants/.  All have   *)
(* one shape: start from INITIAL_CRCn_VALUE, or from *last_crc_ptr when    *)
(* it is not NULL_PTR, run CrcNBase over the bytes, and reflect and XOR    *)
(* the result when it is the last call.  What tells one from another is a  *)
(* record of constants.  Two abstractions:                                 *)
(*  - the literal table of each file is replaced by its polynomial, which  *)
(*    is entry 1 of the table: entry by entry the literals are what        *)
(*    CrcNBase_tableCalculator computes from it;                           *)
(*  - REFLECTED_INPUT and REFLECTED_OUTPUT are equal in all 45 files and   *)
(*    are one field.                                                       *)
(***************************************************************************)
EXTENDS CrcWords

(* A function without a final_crc parameter: nothing is reflected and      *)
(* FINAL_XOR is false, so every result can also be continued.              *)
Plain(width, polynomial, initial) ==
    [width |-> width, polynomial |-> polynomial, initial |-> initial,
     reflected |-> FALSE, final_xor |-> {}, takes_final |-> FALSE]

(* A function with a final_crc parameter; final_xor is FINAL_XOR_VALUE, or *)
(* {} (XOR with zero) where FINAL_XOR is false.                            *)
WithFinal(width, polynomial, initial, reflected, final_xor) ==
    [width |-> width, polynomial |-> polynomial, initial |-> initial,
     reflected |-> reflected, final_xor |-> final_xor, takes_final |-> TRUE]

-----------------------------------------------------------------------------
(* src/Src/crc/crc8_variants/ *)

Crc8 == Plain(8, Bits(\h07), Bits(\h00))
Crc8_8h2f == WithFinal(8, Bits(\h2F), Bits(\hFF), FALSE, Bits(\hFF))
Crc8_cdma2000 == Plain(8, Bits(\h9B), Bits(\hFF))
Crc8_darc == WithFinal(8, Bits(\h39), Bits(\h00), TRUE, {})
Crc8_dvbS2 == Plain(8, Bits(\hD5), Bits(\h00))
Crc8_ebu == WithFinal(8, Bits(\h1D), Bits(\hFF), TRUE, {})
Crc8_icode == Plain(8, Bits(\h1D), Bits(\hFD))
Crc8_itu == WithFinal(8, Bits(\h07), Bits(\h00), FALSE, Bits(\h55))
Crc8_maxim == WithFinal(8, Bits(\h31), Bits(\h00), TRUE, {})
Crc8_rohc == WithFinal(8, Bits(\h07), Bits(\hFF), TRUE, {})
Crc8_saeJ1850 == WithFinal(8, Bits(\h1D), Bits(\hFF), FALSE, Bits(\hFF))
Crc8_saeJ1850Zero == Plain(8, Bits(\h1D), Bits(\h00))
Crc8_wcdma == WithFinal(8, Bits(\h9B), Bits(\h00), TRUE, {})

Crc8Variants ==
    {Crc8, Crc8_8h2f, Crc8_cdma2000, Crc8_darc, Crc8_dvbS2, Crc8_ebu,
     Crc8_icode, Crc8_itu, Crc8_maxim, Crc8_rohc, Crc8_saeJ1850,
     Crc8_saeJ1850Zero, Crc8_wcdma}

-----------------------------------------------------------------------------
(* src/Src/crc/crc16_variants/ *)

Crc16_a == WithFinal(16, Bits(\h1021), Bits(\hC6C6), TRUE, {})
Crc16_arc == WithFinal(16, Bits(\h8005), Bits(\h0000), TRUE, {})
Crc16_augCcit == Plain(16, Bits(\h1021), Bits(\h1D0F))
Crc16_buypass == Plain(16, Bits(\h8005), Bits(\h0000))
Crc16_ccitFalse == Plain(16, Bits(\h1021), Bits(\hFFFF))
Crc16_ccitZero == Plain(16, Bits(\h1021), Bits(\h0000))
Crc16_cdma2000 == Plain(16, Bits(\hC867), Bits(\hFFFF))
Crc16_dds110 == Plain(16, Bits(\h8005), Bits(\h800D))
Crc16_dectR == WithFinal(16, Bits(\h0589), Bits(\h0000), FALSE, Bits(\h0001))
Crc16_dectX == Plain(16, Bits(\h0589), Bits(\h0000))
Crc16_dnp == WithFinal(16, Bits(\h3D65), Bits(\h0000), TRUE, Bits(\hFFFF))
Crc16_en13757 ==
    WithFinal(16, Bits(\h3D65), Bits(\h0000), FALSE, Bits(\hFFFF))
Crc16_genibus ==
    WithFinal(16, Bits(\h1021), Bits(\hFFFF), FALSE, Bits(\hFFFF))
Crc16_kermit == WithFinal(16, Bits(\h1021), Bits(\h0000), TRUE, {})
Crc16_maxim == WithFinal(16, Bits(\h8005), Bits(\h0000), TRUE, Bits(\hFFFF))
Crc16_mcrf4xx == WithFinal(16, Bits(\h1021), Bits(\hFFFF), TRUE, {})
Crc16_modbus == WithFinal(16, Bits(\h8005), Bits(\hFFFF), TRUE, {})
Crc16_riello == WithFinal(16, Bits(\h1021), Bits(\hB2AA), TRUE, {})
Crc16_t10Dif == Plain(16, Bits(\h8BB7), Bits(\h0000))
Crc16_teledisk == Plain(16, Bits(\hA097), Bits(\h0000))
Crc16_tms37157 == WithFinal(16, Bits(\h1021), Bits(\h89EC), TRUE, {})
Crc16_usb == WithFinal(16, Bits(\h8005), Bits(\hFFFF), TRUE, Bits(\hFFFF))
Crc16_x25 == WithFinal(16, Bits(\h1021), Bits(\hFFFF), TRUE, Bits(\hFFFF))

Crc16Variants ==
    {Crc16_a, Crc16_arc, Crc16_augCcit, Crc16_buypass, Crc16_ccitFalse,
     Crc16_ccitZero, Crc16_cdma2000, Crc16_dds110, Crc16_dectR, Crc16_dectX,
     Crc16_dnp, Crc16_en13757, Crc16_genibus, Crc16_kermit, Crc16_maxim,
     Crc16_mcrf4xx, Crc16_modbus, Crc16_riello, Crc16_t10Dif, Crc16_teledisk,
     Crc16_tms37157, Crc16_usb, Crc16_x25}

-----------------------------------------------------------------------------
(* src/Src/crc/crc32_variants/ *)

Crc32 ==
    WithFinal(32, Bits32(\h04C1, \h1DB7), Bits32(\hFFFF, \hFFFF),
              TRUE, Bits32(\hFFFF, \hFFFF))
Crc32_bzip2 ==
    WithFinal(32, Bits32(\h04C1, \h1DB7), Bits32(\hFFFF, \hFFFF),
              FALSE, Bits32(\hFFFF, \hFFFF))
Crc32_c ==
    WithFinal(32, Bits32(\h1EDC, \h6F41), Bits32(\hFFFF, \hFFFF),
              TRUE, Bits32(\hFFFF, \hFFFF))
Crc32_d ==
    WithFinal(32, Bits32(\hA833, \h982B), Bits32(\hFFFF, \hFFFF),
              TRUE, Bits32(\hFFFF, \hFFFF))
Crc32_jamcrc ==
    WithFinal(32, Bits32(\h04C1, \h1DB7), Bits32(\hFFFF, \hFFFF), TRUE, {})
Crc32_mpeg2 == Plain(32, Bits32(\h04C1, \h1DB7), Bits32(\hFFFF, \hFFFF))
Crc32_posix ==
    WithFinal(32, Bits32(\h04C1, \h1DB7), Bits32(\h0000, \h0000),
              FALSE, Bits32(\hFFFF, \hFFFF))
Crc32_q == Plain(32, Bits32(\h8141, \h41AB), Bits32(\h0000, \h0000))
Crc32_xfer == Plain(32, Bits32(\h0000, \h00AF), Bits32(\h0000, \h0000))

Crc32Variants ==
    {Crc32, Crc32_bzip2, Crc32_c, Crc32_d, Crc32_jamcrc, Crc32_mpeg2,
     Crc32_posix, Crc32_q, Crc32_xfer}

AllVariants == Crc8Variants \cup Crc16Variants \cup Crc32Variants

=============================================================================
