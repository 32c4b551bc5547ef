---------------------------------- MODULE MCText ----------------------------------
(* TextFunctions for TLC, and what the comments of the sources say of them.           *)
EXTENDS TextFunctions

(* A key that is the end of the other one, and a value that contains it.              *)
MCKey   == {<<"a">>, <<"b", "a">>}
MCValue == {<<>>, <<"a", "b">>}

(* Two words whose bytes all differ, a blob of three bytes and one of one.            *)
MCWord == {{0, 1, 9, 10, 20, 21, 30, 31}, {7, 8, 15, 16, 24}}
MCBlob == {<<{0}, {1}, {2, 7}>>, <<{5}>>}

(* NothingBehindTheBuffer: misra_c_2012_doc.h says that guards "avoid possible         *)
(* out-of-bounds pointer access": the byte behind the buffer keeps what it held.      *)
NothingBehindTheBuffer == mem[buffer_size] = FOREIGN

(* NothingButWhatWasAdded: test_json.c adds a pair to an empty buffer and expects       *)
(* exactly the pair in it: the text is what the accepted calls asked for, whether or   *)
(* not Json_startString began it.                                                      *)
NothingButWhatWasAdded == Text = AskedFor

(* KeyIsFound: json.h says that Json_findByKey returns true if the key "was found and  *)
(* the value was copied", and false if it "was not found or the output buffer was too *)
(* small": what is found is a value of that key.                                      *)
KeyIsFound ==
    asked # NotAsked /\ asked.searched = Length =>
        LET values == {calls[n].value : n \in {m \in DOMAIN calls :
                           calls[m].kind = "pair" /\ calls[m].key = asked.key}}
        IN  IF status THEN \E v \in values : value = Append(v, NUL)
                      ELSE \A v \in values : Len(v) >= asked.max

(* WithinTheResult: base64.h calls max_result_length the "Maximum result length", and  *)
(* the tests hand over the size of the array: all that Base64_encode writes, its       *)
(* terminator included, is within that. (Arrays without any room are left aside.)      *)
WithinTheResult == b64 = "encoded" /\ limit > 0 => Len(result) <= limit

(* DecodeInvertsEncode: base64.c is "Base64 encoding/decoding (RFC1341)", and base64.h *)
(* names no text that it cannot decode: what Base64_encode has made, the "amM=" of the *)
(* tests among it, Base64_decode turns into the data again if there is room.           *)
DecodeInvertsEncode ==
    b64 = "decoded" /\ data # <<>> /\ limit >= Len(data) => ~failed /\ result = data

(* ReadsOnlyTheText: the guards of misra_c_2012_doc.h, "to avoid possible              *)
(* out-of-bounds pointer access", keep Base64_decode from reading behind in_len        *)
(* characters.                                                                         *)
ReadsOnlyTheText == b64 \in {"decoding", "decoded"} => read <= Len(text)

(* Base64KeepsItsPromises: the three together; each of them fails.                     *)
Base64KeepsItsPromises == WithinTheResult /\ DecodeInvertsEncode /\ ReadsOnlyTheText

=============================================================================
