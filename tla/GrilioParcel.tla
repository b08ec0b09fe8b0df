---------------------------- MODULE GrilioParcel ----------------------------
(***************************************************************************)
(* The data of a packet: grilio_encode.c, which a request object uses      *)
(* (grilio_request.c) to append values to its bytes, and grilio_parser.c,  *)
(* which reads values from the bytes of a packet.  Both ends agree on the  *)
(* order of the values and on nothing else: there are no tags.             *)
(*                                                                         *)
(* A request is filled, its packet arrives whole or cut short, and the     *)
(* parser's functions are called on it in any order.  Bytes have Base      *)
(* values, a word has four bytes, the first the lowest, and a UTF-16 unit  *)
(* has two.  A character is named by its first unit.                       *)
(***************************************************************************)
EXTENDS Integers, Sequences, SequencesExt

CONSTANTS
    Base,     \* values of a byte
    Letters,  \* UTF-16 units that are a character
    Highs,    \* UTF-16 units that begin a pair
    Low,      \* the UTF-16 unit that ends a pair
    Bad,      \* a byte that is not UTF-8
    NULL,     \* no string
    Skipped,  \* what is known of a string that was skipped
    Bytes,    \* byte strings that are appended
    Ints,     \* arrays of words that are appended
    Texts,    \* strings that are appended: characters and Bad
    MaxItems, \* bound: values in a packet
    MaxReads  \* bound: calls of the parser

Word == Base * Base * Base * Base
Unit == Base * Base

ASSUME BaseAssumption == Base \in Nat \ {0, 1} /\ MaxItems \in Nat /\ MaxReads \in Nat
ASSUME UnitAssumption ==
    /\ Letters \cup Highs \cup {Low} \subseteq 1 .. Unit - 1
    /\ Letters \cap Highs = {} /\ Low \notin Letters \cup Highs
ASSUME NullAssumption == NULL \notin Nat
ASSUME ItemAssumption ==
    /\ Bytes \subseteq Seq(0 .. Base - 1) \ {<<>>}
    /\ Ints \subseteq Seq(0 .. Word - 1) \ {<<>>}
    /\ Texts \subseteq Seq(Letters \cup Highs \cup {Bad})

VARIABLES
    \* the bytes of the request, and the end of the packet that the parser was given, or
    \* NULL while the request is filled
    bytes, end,
    \* the cursor of the parser: the number of bytes before it
    ptr,
    \* history: the values appended
    items,
    \* history: what the calls returned that asked for the values in their order, whether
    \* one of them reported failure, whether another call was made, and the calls made
    got, failed, strayed, reads

reader == <<end, ptr, got, failed, strayed, reads>>
vars == <<bytes, items, reader>>

-----------------------------------------------------------------------------
(* grilio_encode.c.                                                        *)

\* grilio_encode_int32: the bytes of a word.
EncodeInt32(v) ==
    LET low == v % Unit  high == v \div Unit
    IN  <<low % Base, low \div Base, high % Base, high \div Base>>
EncodeInt32Values(values) == FlattenSeq([i \in DOMAIN values |-> EncodeInt32(values[i])])

EncodeUnit(u) == <<u % Base, u \div Base>>

\* The UTF-16 units of a character.
Utf16(c) == IF c \in Highs THEN <<c, Low>> ELSE <<c>>

\* g_utf8_validate: the string up to what is not UTF-8.
Valid(text) == IF Bad \in Range(text) THEN SubSeq(text, 1, SelectInSeq(text, LAMBDA c : c = Bad) - 1)
               ELSE text

\* g_utf8_to_utf16.
Units(text) == FlattenSeq([i \in DOMAIN Valid(text) |-> Utf16(Valid(text)[i])])

\* Lengths that a packet can carry: the array's in a word, and the string's, in units with
\* the zero that ends it and the padding, in bytes.
ASSUME LengthAssumption ==
    /\ \A n \in Ints : Len(n) < Word
    /\ \A t \in Texts : 2 * (Len(Units(t)) + 1) <= Word - 4

Align4(n) == 4 * ((n + 3) \div 4)

\* Mutant of EncodeUtf8Chars: the length is that of the string, not of its UTF-16 form.
EncodeUtf8CharsUnpaired(text) ==
    LET units == Units(text)
    IN  IF text = NULL THEN EncodeInt32(Word - 1)
        ELSE EncodeInt32(Len(Valid(text))) \o FlattenSeq([i \in DOMAIN units |-> EncodeUnit(units[i])])
                \o [i \in 1 .. Align4((Len(units) + 1) * 2) - Len(units) * 2 |-> 0]

\* grilio_encode_utf8_chars: the length in units, the units, and zeros up to a multiple of
\* four bytes, at least one unit of them; an empty string is padded with ones.
EncodeUtf8Chars(text) ==
    LET units == Units(text)
        padding == Align4((Len(units) + 1) * 2) - Len(units) * 2
    IN  IF text = NULL THEN EncodeInt32(Word - 1)
        ELSE IF units = <<>> THEN EncodeInt32(0) \o EncodeUnit(0) \o EncodeUnit(Unit - 1)
        ELSE EncodeInt32(Len(units)) \o FlattenSeq([i \in DOMAIN units |-> EncodeUnit(units[i])])
                \o [i \in 1 .. padding |-> 0]

-----------------------------------------------------------------------------
(* grilio_request.c: a request is filled.                                  *)

Byte(b)  == [kind |-> "byte", value |-> b]
Data(b)  == [kind |-> "bytes", value |-> b]
Words(n) == [kind |-> "words", value |-> n]
Text(t)  == [kind |-> "text", value |-> t]

Encoding(item) ==
    CASE item.kind = "byte"  -> <<item.value>>
      [] item.kind = "bytes" -> item.value
      [] item.kind = "words" -> EncodeInt32Values(item.value)
      [] item.kind = "text"  -> EncodeUtf8Chars(item.value)

\* The grilio_request_append functions.
AppendItem(item) ==
    /\ end = NULL /\ Len(items) < MaxItems
    /\ bytes' = bytes \o Encoding(item)
    /\ items' = Append(items, item)
    /\ UNCHANGED reader

AppendByte(b) == AppendItem(Byte(b))
AppendBytes(b) == AppendItem(Data(b))
AppendInt32Array(n) == AppendItem(Words(n))
AppendUtf8(t) == AppendItem(Text(t))

\* grilio_request_array_utf8_new: the number of the strings and the strings.
ArrayUtf8New(texts) ==
    /\ end = NULL /\ items = <<>>
    /\ items' = <<Words(<<Len(texts)>>)>> \o [i \in DOMAIN texts |-> Text(texts[i])]
    /\ bytes' = FlattenSeq([i \in DOMAIN items' |-> Encoding(items'[i])])
    /\ UNCHANGED reader

\* grilio_request_array_int32_new.
ArrayInt32New(n) ==
    /\ end = NULL /\ items = <<>>
    /\ items' = <<Words(<<Len(n)>>), Words(n)>>
    /\ bytes' = FlattenSeq([i \in DOMAIN items' |-> Encoding(items'[i])])
    /\ UNCHANGED reader

\* The packet arrives, of which len bytes are left: grilio_parser_init.
ParserInit(len) ==
    /\ end = NULL /\ items # <<>>
    /\ end' = len /\ ptr' = 0
    /\ UNCHANGED <<bytes, items, got, failed, strayed, reads>>

-----------------------------------------------------------------------------
(* grilio_parser.c.                                                        *)

Left == end - ptr
Int32At(p) == bytes[p + 1] + Base * (bytes[p + 2] + Base * (bytes[p + 3] + Base * bytes[p + 4]))
UnitAt(p) == bytes[p + 1] + Base * bytes[p + 2]

\* The characters of units that pair, each by its first unit.
Characters(units) ==
    FlattenSeq([i \in DOMAIN units |-> IF units[i] = Low THEN <<>> ELSE <<units[i]>>])

\* g_utf16_to_utf8: the characters before the first zero, NULL if the units do not pair.
Utf8(units) ==
    LET ends == SelectInSeq(units, LAMBDA u : u = 0)
        text == IF ends = 0 THEN units ELSE SubSeq(units, 1, ends - 1)
        paired == /\ text = <<>> \/ text[1] # Low
                  /\ \A i \in DOMAIN text :
                        text[i] \in Highs <=> i < Len(text) /\ text[i + 1] = Low
    IN  IF paired THEN Characters(text) ELSE NULL

\* What is known of a call: the kind and the number of values it asked for, whether it
\* succeeded and what it returned.  The history is of calls that follow the values.
Called(kind, count, ok, value) ==
    LET item == items[Len(got) + 1]
        follows == /\ ~strayed /\ ~failed /\ Len(got) < Len(items)
                   /\ item.kind = kind
                   /\ kind \in {"words", "bytes"} => Len(item.value) = count
    IN  /\ end # NULL /\ reads < MaxReads
        /\ reads' = reads + 1
        /\ strayed' = ~follows
        /\ failed' = (follows /\ ~ok)
        /\ got' = IF ~follows THEN <<>> ELSE IF ok THEN Append(got, value) ELSE got
        /\ UNCHANGED <<bytes, items, end>>

\* grilio_parser_get_byte.
GetByte ==
    /\ Called("byte", 1, Left > 0, IF Left > 0 THEN bytes[ptr + 1] ELSE 0)
    /\ ptr' = IF Left > 0 THEN ptr + 1 ELSE ptr

\* grilio_parser_get_int32 and grilio_parser_get_int32_array: the words before the one
\* that is missing have been read.
GetInt32Array(count) ==
    LET there == IF Left \div 4 < count THEN Left \div 4 ELSE count
    IN  /\ Called("words", count, there = count, [i \in 1 .. there |-> Int32At(ptr + 4 * (i - 1))])
        /\ ptr' = ptr + 4 * there

\* The bytes of the string at the cursor, its length included, or NULL if there is none:
\* the length is negative, or longer than what is left.
StringSize ==
    LET len == Int32At(ptr)
        size == 4 + (Align4((len + 1) * 2) % Word)
    IN  IF Left < 4 THEN NULL
        ELSE IF len = Word - 1 THEN 4
        ELSE IF len < Word \div 2 /\ size <= Left THEN size
        ELSE NULL

\* What g_utf16_to_utf8 is given.  The sum in StringSize wraps around for the two largest
\* lengths; what follows the packet is not known then, NULL stands for it.
StringAt ==
    LET len == Int32At(ptr)
    IN  IF len = Word - 1 \/ 4 + 2 * len > Left THEN NULL
        ELSE Utf8([i \in 1 .. len |-> UnitAt(ptr + 2 + 2 * i)])

\* Mutant of GetNullableUtf8: a string is not padded.
GetUnpaddedUtf8 ==
    /\ Called("text", 1, StringSize # NULL, IF StringSize = NULL THEN NULL ELSE StringAt)
    /\ ptr' = CASE StringSize = NULL -> ptr
                [] Int32At(ptr) = Word - 1 -> ptr + 4
                [] OTHER -> ptr + 4 + 2 * Int32At(ptr)

\* grilio_parser_get_nullable_utf8, grilio_parser_get_utf8 and split_utf8.
GetNullableUtf8 ==
    /\ Called("text", 1, StringSize # NULL, IF StringSize = NULL THEN NULL ELSE StringAt)
    /\ ptr' = IF StringSize = NULL THEN ptr ELSE ptr + StringSize

\* grilio_parser_skip_string.
SkipString ==
    /\ Called("text", 1, StringSize # NULL, Skipped)
    /\ ptr' = IF StringSize = NULL THEN ptr ELSE ptr + StringSize

\* Mutant of GetData: the caller is trusted.
GetDataUnbounded(maxlen) ==
    /\ Called("bytes", maxlen, Left >= maxlen, SubSeq(bytes, ptr + 1, ptr + maxlen))
    /\ ptr' = ptr + maxlen

\* grilio_parser_get_data: a parser for the next bytes, maxlen of them if there are as
\* many.
GetData(maxlen) ==
    LET len == IF maxlen < Left THEN maxlen ELSE Left
    IN  /\ Called("bytes", maxlen, len = maxlen, SubSeq(bytes, ptr + 1, ptr + len))
        /\ ptr' = ptr + len

-----------------------------------------------------------------------------
Init ==
    /\ bytes = <<>> /\ items = <<>>
    /\ end = NULL /\ ptr = 0
    /\ got = <<>> /\ failed = FALSE /\ strayed = FALSE /\ reads = 0

Next ==
    \/ \E b \in 0 .. Base - 1 : AppendByte(b)
    \/ \E b \in Bytes : AppendBytes(b)
    \/ \E n \in Ints : AppendInt32Array(n) \/ ArrayInt32New(n)
    \/ \E t \in Texts \cup {NULL} : AppendUtf8(t)
    \/ \E t, u \in Texts \cup {NULL} : ArrayUtf8New(<<t, u>>)
    \/ \E len \in 0 .. Len(bytes) : ParserInit(len)
    \/ GetByte
    \/ \E n \in Ints : GetInt32Array(Len(n))
    \/ GetNullableUtf8
    \/ SkipString
    \/ \E b \in Bytes : GetData(Len(b))

Spec == Init /\ [][Next]_vars

-----------------------------------------------------------------------------
\* Whatever is called on whatever packet, the cursor stays within the packet.
CursorInPacket == end # NULL => ptr \in 0 .. end /\ end <= Len(bytes)

\* The value that was appended is the value that is read, a string up to its first byte
\* that is not UTF-8.
Meaning(item) ==
    IF item.kind = "text" /\ item.value # NULL THEN Valid(item.value) ELSE item.value
RoundTrip == \A i \in DOMAIN got : got[i] \in {Meaning(items[i]), Skipped}

\* The bytes of the first n values.
Offset(n) == Len(FlattenSeq([i \in 1 .. n |-> Encoding(items[i])]))

\* A reader that asks for the values in their order stays in step with the writer, also
\* past strings that it skips, and is told exactly where the packet was cut: a call fails
\* only if the value is not there to its end.
CutIsNoticed ==
    end # NULL /\ ~strayed =>
        IF failed THEN Offset(Len(got)) <= ptr /\ Offset(Len(got) + 1) > end
        ELSE ptr = Offset(Len(got))
=============================================================================
