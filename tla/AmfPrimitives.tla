--------------------------- MODULE AmfPrimitives ---------------------------
(***************************************************************************)
(* What AMF0 and AMF3 are built from: integers of variable length, strings *)
(* and the numbers that refer to strings sent before.  A message is a      *)
(* sequence of tokens: bytes, which hold markers, Booleans and the         *)
(* integers of AMF3, and the lengths, doubles and characters between them. *)
(* Amf is the codec of whole values.                                       *)
(***************************************************************************)
EXTENDS Integers, Sequences

AMF0_STRING_MAX == 65535
AMF3_INTEGER_MAX == 536870911

Byte(n) == <<"byte", n>>
Field(x) == <<"field", x>>  \* a length of 16 or 32 bits, or a double

Empty == ""
Long == "long"  \* a string with one character too many for AMF0
Size(s) == IF s = Empty THEN 0 ELSE IF s = Long THEN AMF0_STRING_MAX + 1 ELSE 1
Chars(s) == IF s = Empty THEN <<>> ELSE <<<<"chars", s>>>>

-----------------------------------------------------------------------------
(* The encoder: a record of what is written and of the tables of AMF3, which    *)
(* are in use for `use`.                                                        *)

NewEncoder(use) == [w |-> <<>>, use |-> use, strs |-> <<>>, traits |-> <<>>, objs |-> <<>>]

Put(e, tokens) == [e EXCEPT !.w = @ \o tokens]

\* EncodeAmf0String without its marker: the length is cut to 16 bits.
String0(s) == <<Field(Size(s) % (AMF0_STRING_MAX + 1))>> \o Chars(s)

\* encodeAmf3Uint29
Uint29(n) ==
    IF n <= 127 THEN <<Byte(n)>>
    ELSE IF n <= 16383 THEN <<Byte(128 + n \div 128), Byte(n % 128)>>
    ELSE IF n <= 2097151
      THEN <<Byte(128 + n \div 16384), Byte(128 + ((n \div 128) % 128)), Byte(n % 128)>>
    ELSE <<Byte(128 + n \div 4194304), Byte(128 + ((n \div 32768) % 128)),
           Byte(128 + ((n \div 256) % 128)), Byte(n % 256)>>

\* Where x is in a table of the encoder, if it may be referred to.
Known(e, kind, table, x) == IF kind \in e.use THEN {i \in DOMAIN table : table[i] = x} ELSE {}

\* encodeAmf3Utf8
Utf8(e, s) ==
    LET at == Known(e, "string", e.strs, s)
    IN  IF at # {}
          THEN Put(e, Uint29(2 * ((CHOOSE i \in at : TRUE) - 1)))
          ELSE [Put(e, Uint29(2 * Size(s) + 1) \o Chars(s)) EXCEPT
                  !.strs = IF s = Empty THEN @ ELSE Append(@, s)]

-----------------------------------------------------------------------------
(* The decoder: a record of what is left to read, whether there was an error,  *)
(* the last value, and the tables, which live as long as the connection.       *)

NewDecoder == [w |-> <<>>, ok |-> TRUE, val |-> <<"null">>, strs |-> <<>>, traits |-> <<>>,
               objs |-> <<>>]

Fail(d) == [d EXCEPT !.ok = FALSE]
Value(d, v) == [d EXCEPT !.val = v]
Leave(d, w) == [d EXCEPT !.w = w]

\* f is applied to what d has become, unless there was an error.
Then(d, f(_)) == IF d.ok THEN f(d) ELSE d

\* The next token, if it is one of this type.
Token(d, type) ==
    IF d.w # <<>> /\ Head(d.w)[1] = type
      THEN Value(Leave(d, Tail(d.w)), Head(d.w)[2])
      ELSE Fail(d)

\* n characters.  To read none of them at the end of a bytes.Reader is an io.EOF.  Fewer
\* than n are an error, as AMF0's ReadBytes has it; the decoders of AMF3 call r.Read and
\* fill the rest with NULs.  What the encoder writes is never cut short.
ReadBytes(d, n) ==
    IF n # 0 THEN Then(Token(d, "chars"), LAMBDA x : IF Size(x.val) = n THEN x ELSE Fail(d))
    ELSE IF d.w = <<>> THEN Fail(d)
    ELSE Value(d, Empty)

\* decodeU29: up to three bytes of seven bits, and one of eight.
DecodeU29(d) ==
    LET IsByte(i) == i \in DOMAIN d.w /\ d.w[i][1] = "byte"
        More(i) == IsByte(i) /\ d.w[i][2] >= 128
        n == IF ~More(1) THEN 1 ELSE IF ~More(2) THEN 2 ELSE IF ~More(3) THEN 3 ELSE 4
        low(i) == d.w[i][2] % 128
    IN  IF \E i \in 1..n : ~IsByte(i) THEN Fail(d)
        ELSE Value(Leave(d, SubSeq(d.w, n + 1, Len(d.w))),
               CASE n = 1 -> low(1)
                 [] n = 2 -> 128 * low(1) + low(2)
                 [] n = 3 -> 128 * (128 * low(1) + low(2)) + low(3)
                 [] n = 4 -> 256 * (128 * (128 * low(1) + low(2)) + low(3)) + d.w[4][2])

\* The entry i, from 0, of a table; one that is not there is a panic.
Entry(d, table, i) == IF i < Len(table) THEN Value(d, table[i + 1]) ELSE Fail(d)

\* decodeReferenceInt: whether a number is a reference, and its value.
Reference(d) ==
    Then(DecodeU29(d), LAMBDA x : Value(x, [isRef |-> x.val % 2 = 0, n |-> x.val \div 2]))

\* Faulty: the empty string has a number too.
DecodeString3_Empty(d) ==
    Then(Reference(d), LAMBDA x :
      IF x.val.isRef THEN Entry(x, x.strs, x.val.n)
      ELSE Then(ReadBytes(x, x.val.n), LAMBDA y : [y EXCEPT !.strs = Append(@, y.val)]))

\* DecodeAmf3String
DecodeString3(d) ==
    Then(Reference(d), LAMBDA x :
      IF x.val.isRef THEN Entry(x, x.strs, x.val.n)
      ELSE Then(ReadBytes(x, x.val.n), LAMBDA y :
             [y EXCEPT !.strs = IF y.val = Empty THEN @ ELSE Append(@, y.val)]))

\* DecodeAmf0String without its marker.
DecodeString0(d) == Then(Token(d, "field"), LAMBDA x : ReadBytes(x, x.val))
=============================================================================
