------------------------------ MODULE StringToUint32 ------------------------------
(* Utils_StringToUint32 of src/Src/utils.c, one character per step, on words of    *)
(* any width: UINT32_MAX is the largest word and has                               *)
(* MAX_UINT32_POW_10_EXPONENT digits. A string that long is read in two parts, so *)
(* that the overflow shows before it happens; a longer one fails for want of a     *)
(* power of ten.                                                                   *)
EXTENDS Integers, Sequences

CONSTANTS Characters,                   \* digits, as numbers, and other characters
          MaxLength,                    \* bound: characters of a string
          UINT32_MAX,
          MAX_UINT32_POW_10_EXPONENT

Digits == 0..9

(* The table of Utils_QuickUint32Pow10: its last entry is the largest power of ten *)
(* that is a word.                                                                *)
pow10[exponent \in 0..(MAX_UINT32_POW_10_EXPONENT - 1)] ==
    IF exponent = 0 THEN 1 ELSE 10 * pow10[exponent - 1]

ASSUME StringToUint32Assumption ==
    /\ MaxLength \in Nat
    /\ MAX_UINT32_POW_10_EXPONENT \in Nat \ {0}
    /\ LET last == pow10[MAX_UINT32_POW_10_EXPONENT - 1]
       IN  UINT32_MAX \in last..(10 * last - 1)

VARIABLES str,              \* the caller's string; its length is str_length
          conv,             \* "ready" for a call, "reading" or "returned"
          length, check_overflow, i,    \* locals
          integer, success  \* what the caller is given

cvars == <<str, conv, length, check_overflow, i, integer, success>>

Word32(n) == n % (UINT32_MAX + 1)

(* Utils_QuickUint32Pow10 fails for an exponent that is not in the table.         *)
HasPower(exponent) == exponent < MAX_UINT32_POW_10_EXPONENT

ConvInit ==
    /\ str = <<>> /\ conv = "ready"
    /\ length = 0 /\ check_overflow = FALSE /\ i = 0
    /\ integer = 0 /\ success = TRUE

(* The call, up to the loop.                                                      *)
StartConversion(s) ==
    /\ conv' = "reading" /\ str' = s /\ i' = 0 /\ integer' = 0 /\ success' = TRUE
    /\ check_overflow' = (Len(s) = MAX_UINT32_POW_10_EXPONENT)
    /\ length' = IF check_overflow' THEN Len(s) - 1 ELSE Len(s)

(* unsigned_power of the digit str[n]                                             *)
Power(n) == length - (n + 1)

(* One iteration of the loop: a digit with its power of ten, or the end of it.    *)
ReadDigit ==
    /\ conv = "reading" /\ success /\ i < length
    /\ \/ /\ str[i + 1] \in Digits
          /\ success' = HasPower(Power(i))
          /\ integer' = IF HasPower(Power(i)) THEN Word32(integer + str[i + 1] * pow10[Power(i)])
                                              ELSE integer
          /\ i' = i + 1
       \/ str[i + 1] \notin Digits /\ success' = FALSE /\ UNCHANGED <<integer, i>>
    /\ UNCHANGED <<str, conv, length, check_overflow>>

(* Wrong on purpose: the last digit is compared even if the rest is smaller.      *)
OverflowsByDigit(n, digit) == n > UINT32_MAX \div 10 \/ digit > UINT32_MAX % 10

Overflows(n, digit) ==
    \/ n > UINT32_MAX \div 10
    \/ n = UINT32_MAX \div 10 /\ digit > UINT32_MAX % 10

(* The last of MAX_UINT32_POW_10_EXPONENT digits, after the loop, and the return. *)
ReadLastDigit ==
    /\ conv = "reading" /\ success /\ i = length /\ check_overflow
    /\ LET last == str[MAX_UINT32_POW_10_EXPONENT]
           fits == last \in Digits /\ ~Overflows(integer, last)
       IN  /\ success' = fits
           /\ integer' = IF fits THEN Word32(Word32(integer * 10) + last) ELSE integer
    /\ conv' = "returned"
    /\ UNCHANGED <<str, length, check_overflow, i>>

ConversionReturns ==
    /\ conv = "reading"
    /\ success => i = length /\ ~check_overflow
    /\ conv' = "returned"
    /\ UNCHANGED <<str, length, check_overflow, i, integer, success>>

(* The caller takes the number; the next call does not depend on this one.        *)
NumberTaken ==
    /\ conv = "returned"
    /\ conv' = "ready" /\ str' = <<>>
    /\ length' = 0 /\ check_overflow' = FALSE /\ i' = 0
    /\ integer' = 0 /\ success' = TRUE

ConvNext ==
    \/ /\ conv = "ready"
       /\ \E n \in 0..MaxLength : \E s \in [1..n -> Characters] : StartConversion(s)
    \/ ReadDigit \/ ReadLastDigit \/ ConversionReturns \/ NumberTaken

ConvSpec == ConvInit /\ [][ConvNext]_cvars

------------------------------------------------------------------------------
(* ConvTypeOK: the index stays in the string, the number in its word.              *)
ConvTypeOK ==
    /\ str \in Seq(Characters) /\ conv \in {"ready", "reading", "returned"}
    /\ length \in 0..Len(str) /\ i \in 0..length
    /\ check_overflow \in BOOLEAN /\ success \in BOOLEAN
    /\ integer \in 0..UINT32_MAX

(* The number a string of digits stands for, read from the left.                  *)
Numeral(s) ==
    LET upTo[k \in 0..Len(s)] == IF k = 0 THEN 0 ELSE 10 * upTo[k - 1] + s[k]
    IN  upTo[Len(s)]

(* ReadsNumeral: a conversion succeeds exactly for the strings of at most as many *)
(* digits as the largest word has whose number is a word, the empty one included, *)
(* and then gives that number: whatever was added up on the way, no word wrapped. *)
ReadsNumeral ==
    conv = "returned" =>
        /\ success <=> /\ \A k \in 1..Len(str) : str[k] \in Digits
                       /\ Len(str) <= MAX_UINT32_POW_10_EXPONENT
                       /\ Numeral(str) <= UINT32_MAX
        /\ success => integer = Numeral(str)

=============================================================================
