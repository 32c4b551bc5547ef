---------------------------------- MODULE Base64 ----------------------------------
(* src/Src/base64.c: Base64_encode and Base64_decode, one group of the loop per     *)
(* step. Characters are their ASCII codes and bytes numbers, so that the shifts,    *)
(* masks and tables of the code can be followed. Output is the sequence of what has *)
(* been written from the start of the caller's buffer.                              *)
EXTENDS Integers, Sequences

CONSTANTS DataByte,         \* the bytes of data
          Character,        \* the characters of foreign texts
          MaxData, MaxText, \* bounds: lengths of data and of foreign texts
          MaxLimit,         \* bound: sizes given for the output
          SIZE              \* number of values of size_t

ASSUME Base64Assumption ==
    /\ DataByte \subseteq 0..255 /\ Character \subseteq 1..255
    /\ {MaxData, MaxText, MaxLimit} \subseteq Nat
    /\ SIZE \in Nat /\ SIZE % 4 = 0 /\ 4 * MaxData + 8 < SIZE

PAD == 61       \* '='

VARIABLES b64,          \* "ready", the loop that is running, or what has returned
          data,         \* the bytes to be encoded, or those a text was made from
          text,         \* the text to be decoded
          limit,        \* max_result_length or max_out_len
          claimed,      \* data_length: the length of data, or more than can be encoded
          position,     \* in_position, or the loop counter of the decoder
          result,       \* what the call has written
          failed,       \* the value returned is not 0
          read          \* history: how far into data or text the call has read

bvars == <<b64, data, text, limit, claimed, position, result, failed, read>>

base64_table ==
    [n \in 0..63 |-> CASE n < 26 -> n + 65              \* 'A'..'Z'
                       [] n \in 26..51 -> n + 71        \* 'a'..'z'
                       [] n \in 52..61 -> n - 4         \* '0'..'9'
                       [] n = 62 -> 43                  \* '+'
                       [] n = 63 -> 47]                 \* '/'

(* The decoder takes more characters than the encoder makes: ',' '-' '.' and '_'    *)
(* too, and any other one for an 'A'.                                               *)
base64_index ==
    [c \in 0..255 |-> CASE c \in 65..90 -> c - 65
                        [] c \in 97..122 -> c - 71
                        [] c \in 48..57 -> c + 4
                        [] c \in {43, 45, 46} -> 62
                        [] c \in {44, 47, 95} -> 63
                        [] OTHER -> 0]

Base64Init ==
    /\ b64 = "ready" /\ data = <<>> /\ text = <<>>
    /\ limit = 0 /\ claimed = 0 /\ position = 0
    /\ result = <<>> /\ failed = FALSE /\ read = 0

-----------------------------------------------------------------------------
ReadUpTo(n) == read' = IF n > read THEN n ELSE read

(* The length of the text, in the arithmetic of size_t.                            *)
EncodedLength(n) == (4 * (((n + 2) % SIZE) \div 3)) % SIZE

(* Base64_encode up to its loop. A length whose text would outgrow size_t is caught *)
(* by the result of the wrapped product; nothing of the data is read then.          *)
Encode(bytes, n, max) ==
    /\ data' = bytes /\ claimed' = n /\ limit' = max
    /\ failed' = (EncodedLength(n) < n)
    /\ b64' = IF failed' THEN "encoded" ELSE "encoding"
    /\ UNCHANGED <<text, position, result, read>>

(* The four characters of data[at + 1 .. at + 3], and those of a rest of one or two. *)
Group(at) ==
    LET a == data[at + 1]
        b == data[at + 2]
        c == data[at + 3]
    IN  <<base64_table[a \div 4], base64_table[(a % 4) * 16 + b \div 16],
          base64_table[(b % 16) * 4 + c \div 64], base64_table[c % 64]>>

(* Wrong on purpose: the low bits of a last byte are taken for the high ones.       *)
RestUnshifted(at) ==
    LET a == data[at + 1]
    IN  IF Len(data) - at = 1
        THEN <<base64_table[a \div 4], base64_table[a % 4], PAD, PAD>>
        ELSE LET b == data[at + 2]
             IN  <<base64_table[a \div 4], base64_table[(a % 4) * 16 + b \div 16],
                   base64_table[(b % 16) * 4], PAD>>

Rest(at) ==
    LET a == data[at + 1]
    IN  IF Len(data) - at = 1
        THEN <<base64_table[a \div 4], base64_table[(a % 4) * 16], PAD, PAD>>
        ELSE LET b == data[at + 2]
             IN  <<base64_table[a \div 4], base64_table[(a % 4) * 16 + b \div 16],
                   base64_table[(b % 16) * 4], PAD>>

(* Base64_encode returns; the terminator is not counted against the limit, and is   *)
(* written after a failure too.                                                     *)
EncodeReturns(written, fail) ==
    /\ result' = result \o written \o <<0>>
    /\ failed' = fail
    /\ b64' = "encoded"
    /\ UNCHANGED <<data, text, limit, claimed, position>>

EncodeGroup ==
    /\ b64 = "encoding" /\ Len(data) - position >= 3
    /\ \/ /\ Len(result) + 4 <= limit
          /\ result' = result \o Group(position)
          /\ position' = position + 3 /\ ReadUpTo(position + 3)
          /\ UNCHANGED <<b64, data, text, limit, claimed, failed>>
       \/ Len(result) + 4 > limit /\ EncodeReturns(<<>>, TRUE) /\ UNCHANGED read

EncodeRest ==
    /\ b64 = "encoding" /\ Len(data) - position < 3
    /\ \/ Len(data) = position /\ EncodeReturns(<<>>, FALSE) /\ UNCHANGED read
       \/ /\ Len(data) > position /\ Len(result) + 4 <= limit
          /\ EncodeReturns(Rest(position), FALSE) /\ ReadUpTo(Len(data))
       \/ /\ Len(data) > position /\ Len(result) + 4 > limit
          /\ EncodeReturns(<<>>, TRUE) /\ UNCHANGED read

-----------------------------------------------------------------------------
(* pad_bool, len and out_len of Base64_decode                                      *)
Padded(t) == Len(t) > 0 /\ (Len(t) % 4 # 0 \/ t[Len(t)] = PAD)
WholeLength(t) == 4 * ((Len(t) + 3) \div 4 - IF Padded(t) THEN 1 ELSE 0)
OutLength(t) == 3 * (WholeLength(t) \div 4) + IF Padded(t) THEN 1 ELSE 0

(* Base64_decode up to its loop; a text without a whole group is refused. The last  *)
(* character of a text of whole groups has been looked at then, for pad_bool.       *)
StartDecoding(t, max) ==
    /\ text' = t /\ limit' = max
    /\ position' = 0 /\ result' = <<>>
    /\ failed' = (OutLength(t) > max \/ WholeLength(t) = 0)
    /\ b64' = IF failed' THEN "decoded" ELSE "decoding"
    /\ read' = IF Len(t) % 4 = 0 THEN Len(t) ELSE 0
    /\ UNCHANGED claimed

(* The text comes from anywhere, or is what Base64_encode has just made.           *)
DecodeForeign(t, max) == StartDecoding(t, max) /\ UNCHANGED data
DecodeEncoded(max) ==
    /\ b64 = "encoded" /\ ~failed
    /\ StartDecoding(SubSeq(result, 1, Len(result) - 1), max)
    /\ UNCHANGED data

(* n of the loop body: the numbers of four characters, six bits each               *)
Joined(a, b, c, d) ==
    base64_index[a] * 2^18 + base64_index[b] * 2^12 + base64_index[c] * 2^6 + base64_index[d]

DecodeGroup ==
    /\ b64 = "decoding" /\ position < WholeLength(text)
    /\ LET n == Joined(text[position + 1], text[position + 2],
                       text[position + 3], text[position + 4])
       IN  result' = result \o <<n \div 2^16, (n \div 2^8) % 256, n % 256>>
    /\ position' = position + 4 /\ ReadUpTo(position + 4)
    /\ UNCHANGED <<b64, data, text, limit, claimed, failed>>

(* Wrong on purpose: the third character of the padded group is not looked at.      *)
HasThirdNever(t) == FALSE

HasThird(t) == Len(t) > WholeLength(t) + 2 /\ t[WholeLength(t) + 3] # PAD

(* Wrong on purpose: room for the second byte is taken for granted.                 *)
HasRoomAlways(t, max) == TRUE

(* There is room for a second byte of the padded group.                             *)
HasRoom(t, max) == OutLength(t) + 1 <= max

(* Behind the loop: the padded group gives one byte, or two if its third character  *)
(* is there and there is room. When the text is one character longer than whole     *)
(* groups, the second character is read from behind it.                             *)
DecodePadding ==
    /\ b64 = "decoding" /\ position = WholeLength(text)
    /\ \E behind \in IF Len(text) = position + 1 THEN Character \cup {0} ELSE {0} :
           LET second == IF Len(text) = position + 1 THEN behind ELSE text[position + 2]
               n      == Joined(text[position + 1], second, 65, 65)
               third  == base64_index[text[position + 3]] * 2^6
               room   == HasRoom(text, limit)
           IN  IF ~Padded(text) THEN UNCHANGED <<result, failed, read>>
               ELSE /\ ReadUpTo(position + IF Len(text) > position + 2 THEN 3 ELSE 2)
                    /\ result' = result \o <<n \div 2^16>> \o
                           IF HasThird(text) /\ room
                           THEN <<((n + third) \div 2^8) % 256>> ELSE <<>>
                    /\ failed' = (HasThird(text) /\ ~room)
    /\ b64' = "decoded"
    /\ UNCHANGED <<data, text, limit, claimed, position>>

(* The caller goes on; a call does not depend on the one before.                   *)
ResultTaken ==
    /\ b64 \in {"encoded", "decoded"}
    /\ b64' = "ready" /\ data' = <<>> /\ text' = <<>>
    /\ limit' = 0 /\ claimed' = 0 /\ position' = 0
    /\ result' = <<>> /\ failed' = FALSE /\ read' = 0

Strings64(set, max) == UNION {[1..n -> set] : n \in 0..max}
TooLong == {n \in 0..(SIZE - 1) : 4 * ((n + 2) \div 3) >= SIZE}

Base64Next ==
    \/ /\ b64 = "ready"
       /\ \E max \in 0..MaxLimit :
              \/ \E bytes \in Strings64(DataByte, MaxData) : Encode(bytes, Len(bytes), max)
              \/ \E n \in TooLong : Encode(<<>>, n, max)
              \/ \E t \in Strings64(Character, MaxText) : DecodeForeign(t, max)
    \/ \E max \in 0..MaxLimit : DecodeEncoded(max)
    \/ EncodeGroup \/ EncodeRest \/ DecodeGroup \/ DecodePadding \/ ResultTaken

Base64Spec == Base64Init /\ [][Base64Next]_bvars

-----------------------------------------------------------------------------
(* Base64TypeOK: in particular, no character is written behind the limit, only the  *)
(* terminator of the encoder may be, one behind it; and nothing is read behind the  *)
(* data or the text, but for one character behind a text that is one character      *)
(* longer than whole groups. (Neither should happen: Base64KeepsItsPromises of       *)
(* MCText, which fails.)                                                            *)
Base64TypeOK ==
    /\ b64 \in {"ready", "encoding", "encoded", "decoding", "decoded"}
    /\ data \in Seq(DataByte) /\ text \in Seq(1..255)
    /\ limit \in 0..MaxLimit /\ claimed \in 0..(SIZE - 1)
    /\ LET input  == IF b64 \in {"encoding", "encoded"} THEN data ELSE text
           behind == IF b64 = "decoded" /\ Len(text) % 4 = 1 THEN 1 ELSE 0
       IN  position \in 0..Len(input) /\ read \in 0..(Len(input) + behind)
    /\ result \in Seq(0..255) /\ failed \in BOOLEAN
    /\ Len(result) <= limit + IF b64 = "encoded" THEN 1 ELSE 0
    /\ b64 = "encoded" /\ Len(result) = limit + 1 => result[limit + 1] = 0

(* A stream of words of `width` bits each, first bit first: its bit number k, ...   *)
Bit(words, width, k) ==
    IF k \div width < Len(words)
    THEN (words[k \div width + 1] \div 2^(width - 1 - (k % width))) % 2 ELSE 0

(* ... and its piece number k, of n bits.                                          *)
Piece(words, width, n, k) ==
    LET upTo[j \in 0..n] ==
            IF j = 0 THEN 0 ELSE 2 * upTo[j - 1] + Bit(words, width, (k - 1) * n + j - 1)
    IN  upTo[n]

(* What RFC 4648 says the text of data is: the data as a stream of bits, cut in     *)
(* pieces of six, filled up to whole groups of four characters with '='.           *)
Encoding ==
    [k \in 1..(4 * ((Len(data) + 2) \div 3)) |->
        IF 6 * (k - 1) < 8 * Len(data) THEN base64_table[Piece(data, 8, 6, k)] ELSE PAD]

(* EncodesBits: the encoder fails exactly if the limit, or size_t, is too small for *)
(* the text, and then has written the groups that fit; otherwise it has written the *)
(* text. If that leaves room within the limit, a terminator follows. (If not, one   *)
(* follows as well, which is no promise but a fault: WithinTheResult.)              *)
EncodesBits ==
    b64 = "encoded" =>
        IF claimed # Len(data) THEN failed /\ result = <<>>
        ELSE LET fits    == IF failed THEN 4 * (limit \div 4) ELSE Len(Encoding)
                 written == SubSeq(Encoding, 1, fits)
             IN  /\ failed <=> Len(Encoding) > limit
                 /\ SubSeq(result, 1, fits) = written
                 /\ fits < limit => result = Append(written, 0)

(* DecodesBits: every byte the decoder writes, then also when it fails later, is    *)
(* the piece of eight bits at its place in the text, as far as the text has the     *)
(* bits: of the byte that is made with a character from behind the text nothing is  *)
(* said (ReadsOnlyTheText). The text that Base64_encode has made of three bytes or  *)
(* more becomes them again exactly if there is room. (The texts of one and of two   *)
(* bytes do not: DecodeInvertsEncode.)                                              *)
DecodesBits ==
    b64 = "decoded" =>
        /\ LET numbers == [k \in DOMAIN text |-> base64_index[text[k]]]
           IN  \A k \in DOMAIN result :
                   8 * k <= 6 * Len(text) => result[k] = Piece(numbers, 6, 8, k)
        /\ Len(data) >= 3 =>
               /\ failed <=> limit < Len(data)
               /\ ~failed => result = data

=============================================================================
