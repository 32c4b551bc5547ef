---------------------------------- MODULE Json -----------------------------------
(* src/Src/json.c: a JSON text that grows call by call in a buffer of the caller, *)
(* and the search for a key in it. The code knows no tokens: it looks at single   *)
(* characters of the memory, so the memory is modelled, with whatever earlier     *)
(* texts left behind the terminator and with the first byte behind the buffer.    *)
EXTENDS Integers, SequencesExt

CONSTANTS Letter,       \* the characters of keys and values
          Key, Value,   \* the strings callers add
          BufferSize,   \* the buffer sizes callers have
          ValueSize,    \* the sizes of the buffers values are copied to
          MaxCalls,     \* bound: calls that make one text
          MaxTexts      \* bound: texts begun in the same buffer

QUOTE == "\""
NUL   == "NUL"
FOREIGN == "foreign"    \* what is in memory that is not the caller's

ASSUME JsonAssumption ==
    /\ Letter \cap {QUOTE, NUL, FOREIGN, "{", "}", ",", ":"} = {}
    /\ Key \subseteq Seq(Letter) \ {<<>>} /\ Value \subseteq Seq(Letter)
    /\ BufferSize \subseteq Nat \ {0} /\ ValueSize \subseteq Nat
    /\ MaxCalls \in Nat /\ MaxTexts \in Nat

VARIABLES mem,          \* the buffer and, at buffer_size, the byte behind it
          buffer_size,
          status,       \* what the last call returned
          value,        \* what the search that has just returned wrote to its output
          asked,        \* history: its arguments
          calls,        \* history: the calls that made the text, and where a comma
                        \* nobody asked for ("stray") came in between
          texts         \* history: how many texts have been begun

jvars == <<mem, buffer_size, status, value, asked, calls, texts>>

Char == Letter \cup {QUOTE, NUL, FOREIGN, "{", "}", ",", ":"}
NotAsked == [key |-> <<>>, searched |-> 0, max |-> 0]
Call == [kind : {"open", "close", "refused", "stray"}]
        \cup [kind : {"pair"}, key : Key, value : Value]

(* strlen(buffer) *)
Length == CHOOSE n \in DOMAIN mem : mem[n] = NUL /\ \A k \in 0..(n - 1) : mem[k] # NUL
Text == [k \in 1..Length |-> mem[k - 1]]

(* strcpy(&buffer[at], text): the characters and the terminator.                *)
Copied(m, at, text) ==
    [k \in DOMAIN m |-> CASE k \in at..(at + Len(text) - 1) -> text[k - at + 1]
                          [] k = at + Len(text) -> NUL
                          [] OTHER -> m[k]]

Pair(key, val) == <<QUOTE>> \o key \o <<QUOTE, ":", QUOTE>> \o val \o <<QUOTE>>

(* The buffer of the tests: all zero, before the first call.                    *)
JsonInit ==
    /\ buffer_size \in BufferSize
    /\ mem = [k \in 0..buffer_size |-> IF k = buffer_size THEN FOREIGN ELSE NUL]
    /\ status = FALSE /\ value = <<>>
    /\ asked = NotAsked /\ calls = <<>> /\ texts = 0

Returns(result) ==
    /\ status' = result /\ value' = <<>> /\ asked' = NotAsked
    /\ UNCHANGED buffer_size

(* Json_startString *)
StartString ==
    \/ /\ buffer_size >= 2
       /\ texts < MaxTexts /\ texts' = texts + 1
       /\ mem' = Copied(mem, 0, <<"{">>)
       /\ calls' = <<[kind |-> "open"]>>
       /\ Returns(TRUE)
    \/ buffer_size < 2 /\ Returns(FALSE) /\ UNCHANGED <<mem, calls, texts>>

(* A row of refusals changes no more than the first of them.                    *)
Refusal == IF calls # <<>> /\ Last(calls).kind = "refused" THEN <<>> ELSE <<[kind |-> "refused"]>>

(* Wrong on purpose: the terminator is looked at, not the character before it.   *)
SeparateAtEnd == IF Length = 0 THEN BOOLEAN ELSE {mem[Length] = QUOTE}

(* Does the text end in a quote? In an empty text the byte looked at is the one  *)
(* before the buffer, which may be anything.                                    *)
Separate == IF Length = 0 THEN BOOLEAN ELSE {mem[Length - 1] = QUOTE}

(* Json_addData: the comma is written before the size of the pair is checked.   *)
AddData(key, val) ==
    /\ Len(calls) < MaxCalls
    /\ UNCHANGED texts
    /\ \E separate \in Separate :
        LET index == IF separate THEN Length + 1 ELSE Length
            separated == IF separate THEN Copied(mem, Length, <<",">>) ELSE mem
            stray == IF separate /\ Length = 0 THEN <<[kind |-> "stray"]>> ELSE <<>>
        IN  \/ /\ 5 + Len(key) + Len(val) + 1 + index <= buffer_size
               /\ mem' = Copied(separated, index, Pair(key, val))
               /\ calls' = calls \o stray \o <<[kind |-> "pair", key |-> key, value |-> val]>>
               /\ Returns(TRUE)
            \/ /\ 5 + Len(key) + Len(val) + 1 + index > buffer_size
               /\ mem' = separated
               /\ calls' = calls \o stray \o Refusal
               /\ Returns(FALSE)

(* Json_endString *)
EndString ==
    \/ /\ buffer_size >= 2 + Length
       /\ Len(calls) < MaxCalls
       /\ mem' = Copied(mem, Length, <<"}">>)
       /\ calls' = Append(calls, [kind |-> "close"])
       /\ Returns(TRUE) /\ UNCHANGED texts
    \/ buffer_size < 2 + Length /\ Returns(FALSE) /\ UNCHANGED <<mem, calls, texts>>

(* The first quote in mem[from .. n - 1], or n if there is none.                *)
FirstQuote(from, n) ==
    LET quotes == {k \in from..(n - 1) : mem[k] = QUOTE}
    IN  IF quotes = {} THEN n ELSE Min(quotes)

(* Where the loop of Json_findByKey finds the text of the key.                  *)
Occurrences(key, n) ==
    {k \in 0..(n - Len(key) - 1) : \A j \in 1..Len(key) : mem[k + j - 1] = key[j]}

(* Wrong on purpose: no byte is left for the terminator.                        *)
FitsWithoutNul(length, max) == length <= max

Fits(length, max) == length < max

(* Json_findByKey in the first n bytes: only the first occurrence of the key's   *)
(* text counts; behind the next pair of quotes, up to max characters are copied. *)
FindByKey(key, n, max) ==
    LET occurrences == Occurrences(key, n)
        behind  == Min(occurrences) + Len(key)
        isKey   == occurrences # {} /\ mem[behind] = QUOTE
        start   == FirstQuote(behind + 1, n) + 1
        end     == FirstQuote(start, n)
        copied  == Min({end - start, max})
        success == start < n /\ end < n /\ Fits(end - start, max)
        chars   == [k \in 1..copied |-> mem[start + k - 1]]
    IN  /\ IF isKey
           THEN /\ status' = success
                /\ value' = IF start >= n THEN <<>>
                            ELSE IF success THEN Append(chars, NUL) ELSE chars
           ELSE status' = FALSE /\ value' = <<>>
        /\ asked' = [key |-> key, searched |-> n, max |-> max]
        /\ UNCHANGED <<mem, buffer_size, calls, texts>>

JsonNext ==
    \/ StartString \/ EndString
    \/ \E key \in Key, val \in Value : AddData(key, val)
    \/ \E key \in Key, n \in {Length, buffer_size}, max \in ValueSize : FindByKey(key, n, max)

JsonSpec == JsonInit /\ [][JsonNext]_jvars

------------------------------------------------------------------------------
(* JsonTypeOK: the memory, and the text in it: it ends in the buffer, or, after a *)
(* comma took the place of its terminator, on the byte behind.                  *)
JsonTypeOK ==
    /\ buffer_size \in BufferSize
    /\ mem \in [0..buffer_size -> Char]
    /\ \E n \in DOMAIN mem : mem[n] = NUL
    /\ Length = buffer_size => Last(Text) = ","
    /\ status \in BOOLEAN
    /\ value \in Seq(Char)
    /\ asked.key \in Key \cup {<<>>} /\ asked.searched \in 0..buffer_size
    /\ calls \in Seq(Call) /\ texts \in 0..MaxTexts

(* What call n should have added to the text: behind a pair stands a comma, if     *)
(* another pair was added or refused right behind it.                           *)
Contribution(n) ==
    CASE calls[n].kind = "open" -> <<"{">>
      [] calls[n].kind = "close" -> <<"}">>
      [] calls[n].kind \in {"refused", "stray"} -> <<>>
      [] calls[n].kind = "pair" ->
            Pair(calls[n].key, calls[n].value)
            \o IF n < Len(calls) /\ calls[n + 1].kind \in {"pair", "refused"} THEN <<",">> ELSE <<>>

AskedFor == FlattenSeq([n \in DOMAIN calls |-> Contribution(n)])

(* TextSaysWhatWasAdded: a text begun with Json_startString is made of what the    *)
(* accepted calls since then asked for, in their order: nothing of older texts shows, *)
(* pairs are separated by one comma each however many were refused in between,  *)
(* and a refused pair leaves at most that comma. (A pair added to an empty buffer *)
(* may get a comma in front: NothingButWhatWasAdded of MCText, which fails.)     *)
TextSaysWhatWasAdded == texts > 0 => Text = AskedFor

(* The keys and values of the text, in the order in which they stand there.     *)
Strings ==
    LET OfCall(n) == IF calls[n].kind = "pair" THEN <<calls[n].key, calls[n].value>> ELSE <<>>
    IN  FlattenSeq([n \in DOMAIN calls |-> OfCall(n)])

(* Where the text of key begins in the string s.                                *)
Places(key, s) == {p \in 1..(Len(s) - Len(key) + 1) : SubSeq(s, p, p + Len(key) - 1) = key}

(* FindsWhatWasAdded: a search answers from the first key or value that contains *)
(* the key's text: if the text occurs first at its end, the answer is the        *)
(* string that stands behind it, provided it fits with its terminator; so for a  *)
(* key whose text is in no earlier string, its first value. Old text behind the  *)
(* terminator makes no difference when the answer stands before it, and is       *)
(* never seen when just the text is searched.                                   *)
FindsWhatWasAdded ==
    asked # NotAsked =>
        LET holders == {n \in DOMAIN Strings : Places(asked.key, Strings[n]) # {}}
            h       == Min(holders)
            atEnd   == Min(Places(asked.key, Strings[h])) + Len(asked.key) - 1 = Len(Strings[h])
        IN  IF holders # {} /\ (atEnd => h < Len(Strings))
            THEN IF atEnd /\ Len(Strings[h + 1]) < asked.max
                 THEN status /\ value = Append(Strings[h + 1], NUL)
                 ELSE ~status
            ELSE asked.searched = Length => ~status

=============================================================================
