--------------------------------- MODULE Amf ---------------------------------
(***************************************************************************)
(* The AMF0 and AMF3 codec.  A value is a pair of its kind and its         *)
(* content; a message is a sequence of the tokens of AmfPrimitives.        *)
(*                                                                         *)
(* The encoder is livelib's or another program's.  Only the latter uses    *)
(* the reference tables of AMF3, which begin empty with each message, and  *)
(* the kinds "typed" in AMF0, "date0", "xml", "amf3", "dynamic" and        *)
(* "collection".  Encode chooses "undefined", "ecma" and "bytes" for no    *)
(* value: only a caller of the function of that type does.                 *)
(***************************************************************************)
EXTENDS AmfPrimitives, SequencesExt, TLC

CONSTANTS
    Samples,   \* the values in messages, by version
    RefKinds,  \* what another program refers to: "string", "trait", "object"
    MaxAmf     \* bound on the values of a behaviour

ASSUME AmfAssumption ==
    /\ RefKinds \subseteq {"string", "trait", "object"}
    /\ MaxAmf \in Nat

Collection == "flex.messaging.io.ArrayCollection"

\* The keys of an object, sorted.
SortedKeys(f) == SelectSeq(<<"", "a", "b", Long>>, LAMBDA k : k \in DOMAIN f)

-----------------------------------------------------------------------------
(* The encoder *)

RECURSIVE EncodeAmf3(_, _)

\* The trait of an object, or a reference to it.
Trait(e, trait) ==
    LET at == Known(e, "trait", e.traits, trait)
        flags == (IF trait.external THEN 4 ELSE 0) + (IF trait.dynamic THEN 8 ELSE 0)
        head == Put(e, Uint29(3 + flags + 16 * Len(trait.props)))
    IN  IF at # {}
          THEN Put(e, Uint29(4 * ((CHOOSE i \in at : TRUE) - 1) + 1))
          ELSE [FoldLeft(Utf8, Utf8(head, trait.type), trait.props) EXCEPT
                  !.traits = Append(@, trait)]

NewTrait(type, props, external, dynamic) ==
    [type |-> type, props |-> props, external |-> external, dynamic |-> dynamic]

\* EncodeAmf3Object: the properties are sealed, sorted, and encoded in this order.
EncodeObject(e, type, f) ==
    FoldLeft(LAMBDA x, k : EncodeAmf3(x, f[k]),
             Trait(e, NewTrait(type, SortedKeys(f), FALSE, FALSE)), SortedKeys(f))

\* Another program's object has no sealed properties.
EncodeDynamic(e, f) ==
    Utf8(FoldLeft(LAMBDA x, k : EncodeAmf3(Utf8(x, k), f[k]),
                  Trait(e, NewTrait("", <<>>, FALSE, TRUE)), SortedKeys(f)), "")

\* Arrays, dates and objects have a number in the table when they begin.
Complex(e, v, marker) == [Put(e, <<Byte(marker)>>) EXCEPT !.objs = Append(@, v)]

EncodeAmf3(e, v) ==
    LET at == Known(e, "object", e.objs, v)
        marker == CASE v[1] = "date" -> 8 [] v[1] = "array" -> 9 [] OTHER -> 10
    IN  CASE v[1] = "undefined" -> Put(e, <<Byte(0)>>)
          [] v[1] = "null" -> Put(e, <<Byte(1)>>)
          [] v[1] = "bool" -> Put(e, <<Byte(IF v[2] THEN 3 ELSE 2)>>)
          [] v[1] = "int" /\ v[2] \in 0..AMF3_INTEGER_MAX ->
               Put(e, <<Byte(4)>> \o Uint29(v[2]))
          [] v[1] = "num" \/ (v[1] = "int" /\ v[2] \notin 0..AMF3_INTEGER_MAX) ->
               Put(e, <<Byte(5), Field(v[2])>>)
          [] v[1] = "str" -> Utf8(Put(e, <<Byte(6)>>), v[2])
          [] v[1] = "bytes" -> Put(e, <<Byte(12)>> \o Uint29(2 * Size(v[2]) + 1) \o Chars(v[2]))
          [] OTHER ->
               IF at # {}
                 THEN Put(e, <<Byte(marker)>> \o Uint29(2 * ((CHOOSE i \in at : TRUE) - 1)))
                 ELSE CASE v[1] = "date" ->
                             Put(Complex(e, v, 8), <<Byte(1), Field(1000 * (v[2] \div 1000))>>)
                        [] v[1] = "array" ->
                             FoldLeft(EncodeAmf3,
                                      Utf8(Put(Complex(e, v, 9), Uint29(2 * Len(v[2]) + 1)), ""),
                                      v[2])
                        [] v[1] = "object" -> EncodeObject(Complex(e, v, 10), "", v[2])
                        [] v[1] = "typed" -> EncodeObject(Complex(e, v, 10), v[2], v[3])
                        [] v[1] = "dynamic" -> EncodeDynamic(Complex(e, v, 10), v[2])
                        [] v[1] = "collection" ->
                             EncodeAmf3(Trait(Complex(e, v, 10),
                                              NewTrait(Collection, <<>>, TRUE, FALSE)), v[2])

RECURSIVE EncodeAmf0(_, _)

\* EncodeAmf0Object without its marker: the order of a Go map is any order.
Object0(e, f) ==
    LET order == CHOOSE s \in SetToSeqs(DOMAIN f) : TRUE
    IN  Put(FoldLeft(LAMBDA x, k : EncodeAmf0(Put(x, String0(k)), f[k]), e, order),
            String0("") \o <<Byte(9)>>)

EncodeAmf0(e, v) ==
    CASE v[1] = "null" -> Put(e, <<Byte(5)>>)
      [] v[1] = "undefined" -> Put(e, <<Byte(6)>>)
      [] v[1] = "bool" -> Put(e, <<Byte(1), Byte(IF v[2] THEN 1 ELSE 0)>>)
      [] v[1] \in {"int", "num"} -> Put(e, <<Byte(0), Field(v[2])>>)
      [] v[1] = "str" ->
           Put(e, IF Size(v[2]) <= AMF0_STRING_MAX
                    THEN <<Byte(2)>> \o String0(v[2])
                    ELSE <<Byte(12), Field(Size(v[2]))>> \o Chars(v[2]))
      [] v[1] = "array" ->
           FoldLeft(EncodeAmf0, Put(e, <<Byte(10), Field(Len(v[2]))>>), v[2])
      [] v[1] = "object" -> Object0(Put(e, <<Byte(3)>>), v[2])
      [] v[1] = "ecma" -> Object0(Put(e, <<Byte(8), Field(Cardinality(DOMAIN v[2]))>>), v[2])
      [] v[1] = "typed" -> Object0(Put(e, <<Byte(16)>> \o String0(v[2])), v[3])
      [] v[1] = "date0" -> Put(e, <<Byte(11), Field(v[2]), Byte(0), Byte(0)>>)
      [] v[1] = "xml" -> Put(e, <<Byte(15), Field(Size(v[2]))>> \o Chars(v[2]))
      [] v[1] = "amf3" -> EncodeAmf3(Put(e, <<Byte(17)>>), v[2])

-----------------------------------------------------------------------------
(* The decoder *)

RECURSIVE DecodeAmf3(_), Elements(_, _, _), Strings(_, _), Sealed(_, _, _), Dynamic(_, _)

\* n values after the sequence s.
Elements(d, n, s) ==
    IF n = 0 THEN Value(d, <<"array", s>>)
    ELSE Then(DecodeAmf3(d), LAMBDA x : Elements(x, n - 1, Append(s, x.val)))

\* As many strings as d.val says, after s: the names of the properties.
Strings(d, s) ==
    IF d.val = 0 THEN Value(d, s)
    ELSE Then(DecodeString3(d), LAMBDA x :
           Strings(Value(x, d.val - 1), Append(s, x.val)))

\* The sealed properties.
Sealed(d, props, f) ==
    IF props = <<>> THEN Value(d, f)
    ELSE Then(DecodeAmf3(d), LAMBDA x :
           Sealed(x, Tail(props), (Head(props) :> x.val) @@ f))

\* The dynamic ones, up to an empty key.
Dynamic(d, f) ==
    Then(DecodeString3(d), LAMBDA k :
      IF k.val = "" THEN Value(k, f)
      ELSE Then(DecodeAmf3(k), LAMBDA x : Dynamic(x, (k.val :> x.val) @@ f)))

\* Arrays go into the table when they end.
DecodeArray3(d) ==
    Then(Reference(d), LAMBDA x :
      IF x.val.isRef
        THEN Then(Entry(x, x.objs, x.val.n \div 2), LAMBDA y :
               IF y.val[1] = "array" THEN y ELSE Fail(y))
        ELSE Then(DecodeString3(x), LAMBDA k :
               IF k.val # "" THEN Fail(k)
               ELSE Then(Elements(k, x.val.n, <<>>), LAMBDA y :
                      [y EXCEPT !.objs = Append(@, y.val)])))

\* The trait of an object: an entry of the table or a new one.
DecodeTrait(d, n) ==
    IF n % 2 = 0 THEN Entry(d, d.traits, n \div 2)
    ELSE Then(DecodeString3(d), LAMBDA t :
           Then(Strings(Value(t, n \div 8), <<>>), LAMBDA x :
             LET trait == NewTrait(t.val, x.val, (n \div 2) % 2 = 1, (n \div 4) % 2 = 1)
             IN  [Value(x, trait) EXCEPT !.traits = Append(@, trait)]))

\* DecodeAmf3Object: nil goes into the table, and the type is forgotten.
DecodeObject3(d) ==
    Then(Reference(d), LAMBDA x :
      IF x.val.isRef THEN Entry(x, x.objs, x.val.n \div 2)
      ELSE Then(DecodeTrait(x, x.val.n), LAMBDA t :
             LET y == [t EXCEPT !.objs = Append(@, <<"null">>)]
             IN  IF t.val.external
                   THEN IF t.val.type # Collection THEN Fail(y)
                        ELSE Then(DecodeAmf3(y), LAMBDA z :
                               [z EXCEPT !.objs = Append(@, z.val)])
                   ELSE Then(Sealed(y, t.val.props, <<>>), LAMBDA z :
                          Then(IF t.val.dynamic THEN Dynamic(z, z.val) ELSE z,
                               LAMBDA o : Value(o, <<"object", o.val>>)))))

\* DecodeAmf3Date, DecodeAmf3Xml and DecodeAmf3ByteArray.
DecodeDate3(d) ==
    Then(Reference(d), LAMBDA x :
      IF x.val.isRef
        THEN Then(Entry(x, x.objs, x.val.n), LAMBDA y :
               IF y.val[1] = "date" THEN y ELSE Fail(y))
        ELSE Then(Token(x, "field"), LAMBDA y :
               LET v == <<"date", 1000 * (y.val \div 1000)>>
               IN  [Value(y, v) EXCEPT !.objs = Append(@, v)]))

DecodeBlob3(d, kind) ==
    Then(Reference(d), LAMBDA x :
      IF x.val.isRef
        THEN Then(Entry(x, x.objs, x.val.n), LAMBDA y :
               IF y.val[1] = kind THEN y ELSE Fail(y))
        ELSE Then(ReadBytes(x, x.val.n), LAMBDA y :
               LET v == <<kind, y.val>>
               IN  [Value(y, v) EXCEPT
                      !.objs = IF kind = "str" /\ x.val.n = 0 THEN @ ELSE Append(@, v)]))

DecodeAmf3(d) ==
    Then(Token(d, "byte"), LAMBDA x :
      CASE x.val \in {0, 1} -> Value(x, <<"null">>)
        [] x.val \in {2, 3} -> Value(x, <<"bool", x.val = 3>>)
        [] x.val = 4 -> Then(DecodeU29(x), LAMBDA y :
             Value(y, <<"int", IF y.val > 268435455 THEN y.val - 536870912 ELSE y.val>>))
        [] x.val = 5 -> Then(Token(x, "field"), LAMBDA y : Value(y, <<"num", y.val>>))
        [] x.val = 6 -> Then(DecodeString3(x), LAMBDA y : Value(y, <<"str", y.val>>))
        [] x.val \in {7, 11} -> DecodeBlob3(x, "str")
        [] x.val = 8 -> DecodeDate3(x)
        [] x.val = 9 -> DecodeArray3(x)
        [] x.val = 10 -> DecodeObject3(x)
        [] x.val = 12 -> DecodeBlob3(x, "bytes")
        [] OTHER -> Fail(x))

RECURSIVE DecodeAmf0(_), Elements0(_, _, _), Members0(_, _)

Elements0(d, n, s) ==
    IF n = 0 THEN Value(d, <<"array", s>>)
    ELSE Then(DecodeAmf0(d), LAMBDA x : Elements0(x, n - 1, Append(s, x.val)))

\* DecodeAmf0Object: an empty key is the end.
Members0(d, f) ==
    Then(DecodeString0(d), LAMBDA k :
      IF k.val # ""
        THEN Then(DecodeAmf0(k), LAMBDA x : Members0(x, (k.val :> x.val) @@ f))
        ELSE Then(Token(k, "byte"), LAMBDA x :
               IF x.val = 9 THEN Value(x, <<"object", f>>) ELSE Fail(x)))

DecodeAmf0(d) ==
    Then(Token(d, "byte"), LAMBDA x :
      CASE x.val = 0 -> Then(Token(x, "field"), LAMBDA y : Value(y, <<"num", y.val>>))
        [] x.val = 1 -> Then(Token(x, "byte"), LAMBDA y :
             IF y.val \in {0, 1} THEN Value(y, <<"bool", y.val = 1>>) ELSE Fail(y))
        [] x.val \in {2, 12, 15} ->
             Then(DecodeString0(x), LAMBDA y : Value(y, <<"str", y.val>>))
        [] x.val = 3 -> Members0(x, <<>>)
        [] x.val \in {5, 6, 13} -> Value(x, <<"null">>)
        [] x.val = 8 -> Then(Token(x, "field"), LAMBDA y : Members0(y, <<>>))
        [] x.val = 10 -> Then(Token(x, "field"), LAMBDA y : Elements0(y, y.val, <<>>))
        [] x.val = 11 -> Then(Token(x, "field"), LAMBDA y :
             Then(Token(y, "byte"), LAMBDA z :
               Then(Token(z, "byte"), LAMBDA o : Value(o, <<"num", y.val>>))))
        [] x.val = 16 -> Then(DecodeString0(x), LAMBDA t :
             Then(Members0(t, <<>>), LAMBDA y : Value(y, <<"typed", t.val, y.val[2]>>)))
        [] x.val = 17 -> DecodeAmf3(x)
        [] OTHER -> Fail(x))

-----------------------------------------------------------------------------
VARIABLES
    amf,      \* version, encoder, and values of the message that is written or read
    decoder,  \* the Decoder of the connection
    decoded,  \* the values read from the message
    values    \* values encoded

amfVars == <<amf, decoder, decoded, values>>

NewMessage(n) == [no |-> n, ver |-> "AMF0", use |-> {}, vals |-> <<>>, state |-> "new"]

AmfInit ==
    /\ amf = NewMessage(1)
    /\ decoder = NewDecoder
    /\ decoded = <<>>
    /\ values = 0

Encode(ver, e, v) == IF ver = "AMF0" THEN EncodeAmf0(e, v) ELSE EncodeAmf3(e, v)

Decode(ver, d) == IF ver = "AMF0" THEN DecodeAmf0(d) ELSE DecodeAmf3(d)

\* One more value of EncodeBatch; the first chooses the version and the encoder.
EncodeValue ==
    /\ amf.state = "new"
    /\ values < MaxAmf
    /\ values' = values + 1
    /\ \E ver \in {"AMF0", "AMF3"}, use \in {{}, RefKinds} :
         /\ amf.vals # <<>> => ver = amf.ver /\ use = amf.use
         /\ \E v \in Samples[ver] :
              amf' = [amf EXCEPT !.ver = ver, !.use = use, !.vals = Append(@, v)]
    /\ UNCHANGED <<decoder, decoded>>

\* The message is sent, and read with the decoder of the connection.
SendBatch ==
    /\ amf.state = "new"
    /\ amf.vals # <<>>
    /\ amf' = [amf EXCEPT !.state = "sent"]
    /\ decoder' = [decoder EXCEPT
                     !.w = FoldLeft(LAMBDA e, v : Encode(amf.ver, e, v),
                                    NewEncoder(amf.use), amf.vals).w,
                     !.ok = TRUE]
    /\ decoded' = <<>>
    /\ UNCHANGED values

\* One turn of DecodeBatch, which ends with an error.
DecodeValue ==
    /\ amf.state = "sent"
    /\ LET d == Decode(amf.ver, decoder)
       IN  /\ decoder' = [d EXCEPT !.val = <<"null">>]
           /\ decoded' = IF d.ok THEN Append(decoded, d.val) ELSE decoded
           /\ amf' = IF d.ok THEN amf ELSE [amf EXCEPT !.state = "read"]
    /\ UNCHANGED values

\* The next message of the connection.
NextMessage ==
    /\ amf.state = "read"
    /\ amf' = NewMessage(amf.no + 1)
    /\ UNCHANGED <<decoder, decoded, values>>

AmfNext == EncodeValue \/ SendBatch \/ DecodeValue \/ NextMessage

-----------------------------------------------------------------------------
(* Properties *)

RECURSIVE Meant(_, _), Lossless(_, _), EndsEmpty(_, _)

\* What a value is when it is read: numbers of AMF0 are doubles, and so are integers
\* AMF3 has no room for; a date has whole seconds; an object of AMF3 loses its type.
Meant(ver, v) ==
    CASE v[1] = "undefined" -> <<"null">>
      [] v[1] = "int" -> <<IF ver = "AMF3" /\ v[2] \in 0..AMF3_INTEGER_MAX THEN "int" ELSE "num",
                           v[2]>>
      [] v[1] = "array" -> <<"array", [i \in DOMAIN v[2] |-> Meant(ver, v[2][i])]>>
      [] v[1] \in {"object", "ecma", "dynamic"} ->
           <<"object", [k \in DOMAIN v[2] |-> Meant(ver, v[2][k])]>>
      [] v[1] = "typed" ->
           LET f == [k \in DOMAIN v[3] |-> Meant(ver, v[3][k])]
           IN  IF ver = "AMF0" THEN <<"typed", v[2], f>> ELSE <<"object", f>>
      [] v[1] = "date" -> <<"date", 1000 * (v[2] \div 1000)>>
      [] v[1] = "date0" -> <<"num", v[2]>>
      [] v[1] = "xml" -> <<"str", v[2]>>
      [] v[1] = "amf3" -> Meant("AMF3", v[2])
      [] v[1] = "collection" -> Meant(ver, v[2])
      [] OTHER -> v

\* Values that the two sides do not take for others: integers below 2^28, and keys
\* that are not empty and, in AMF0, not longer than its strings.
Lossless(ver, v) ==
    CASE v[1] = "int" -> ver = "AMF0" \/ v[2] \notin 268435456..AMF3_INTEGER_MAX
      [] v[1] = "array" -> \A i \in DOMAIN v[2] : Lossless(ver, v[2][i])
      [] v[1] \in {"object", "ecma", "dynamic"} ->
           \A k \in DOMAIN v[2] :
             /\ Lossless(ver, v[2][k])
             /\ ver = "AMF0" \/ v[1] = "dynamic" => k # "" /\ (ver = "AMF0" => k # Long)
      [] v[1] = "amf3" -> Lossless("AMF3", v[2])
      [] OTHER -> TRUE

\* A message that ends with an empty string, or with something that does, loses the
\* value it ends with.
EndsEmpty(ver, v) ==
    CASE v[1] \in {"str", "xml", "bytes"} -> v[2] = ""
      [] v[1] = "array" ->
           IF v[2] = <<>> THEN ver = "AMF3" ELSE EndsEmpty(ver, v[2][Len(v[2])])
      [] v[1] = "object" /\ ver = "AMF3" ->
           LET keys == SortedKeys(v[2])
           IN  keys = <<>> \/ EndsEmpty(ver, v[2][keys[Len(keys)]])
      [] v[1] = "dynamic" -> TRUE
      [] v[1] = "amf3" -> EndsEmpty("AMF3", v[2])
      [] v[1] = "collection" -> EndsEmpty(ver, v[2])
      [] OTHER -> FALSE

\* What is encoded, by livelib or by a program that refers to strings and traits, is
\* what DecodeBatch returns, in the order of the message, up to a value that ends the
\* message with an empty string.  References are right in the first message of a
\* connection only: the tables are never emptied.
AmfRoundTrip ==
    amf.state = "read" /\ (amf.no = 1 \/ amf.use = {})
      /\ (\A i \in DOMAIN amf.vals : Lossless(amf.ver, amf.vals[i])) =>
        LET n == Len(amf.vals)
            read == IF EndsEmpty(amf.ver, amf.vals[n]) THEN n - 1 ELSE n
        IN  decoded = [i \in 1..read |-> Meant(amf.ver, amf.vals[i])]
=============================================================================
