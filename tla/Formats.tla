------------------------------- MODULE Formats -------------------------------
(***************************************************************************)
(* The formats of the bytes that leave and enter livelib: MPEG-TS, AMF and *)
(* FLV.  They share no state, so a behaviour is one of one format, chosen  *)
(* at the start.                                                           *)
(***************************************************************************)
EXTENDS TsMuxer, Amf, Flv

VARIABLE format

vars == <<format, tsVars, amfVars, flvVars>>

Init ==
    /\ format \in {"ts", "amf", "flv"}
    /\ TsInit
    /\ AmfInit
    /\ FlvInit

Next ==
    /\ UNCHANGED format
    /\ \/ format = "ts" /\ TsNext /\ UNCHANGED <<amfVars, flvVars>>
       \/ format = "amf" /\ AmfNext /\ UNCHANGED <<tsVars, flvVars>>
       \/ format = "flv" /\ FlvNext /\ UNCHANGED <<tsVars, amfVars>>

Spec == Init /\ [][Next]_vars

-----------------------------------------------------------------------------
(* The values of AMF and the packets of FLV of the runs. *)

Num(n) == <<"int", n>>
Str(s) == <<"str", s>>
Arr(s) == <<"array", s>>
Obj == <<"object", "a" :> Str("a") @@ "b" :> Num(5)>>
Dyn == <<"dynamic", "b" :> Str("a")>>
Date == <<"date", 1500>>

SampleValues == [
    AMF0 |-> {<<"null">>, <<"bool", TRUE>>, <<"num", 7>>, Num(268435456),
              Str(""), Str("a"), Str(Long), <<"xml", "">>, <<"xml", "a">>, <<"date0", 7>>,
              Arr(<<>>), Arr(<<Str("a"), Str("")>>),
              <<"object", "a" :> <<"bool", FALSE>> @@ "b" :> Arr(<<<<"undefined">>>>)>>,
              <<"object", Long :> Str("a")>>, <<"ecma", "a" :> Obj>>,
              <<"typed", "a", "b" :> Str("")>>,
              <<"amf3", Str("a")>>, <<"amf3", Arr(<<Str("a"), Str("a")>>)>>},
    AMF3 |-> {Num(n) : n \in {-1, 127, 128, 16383, 16384, 2097151, 2097152, 268435455,
                              268435456, 536870912}}
             \cup {<<"null">>, <<"bool", TRUE>>, <<"num", 7>>,
                   Str(""), Str("a"), Str(Long), <<"bytes", "">>, <<"bytes", "b">>, Date,
                   Arr(<<>>), Arr(<<Str("a"), Str("")>>), Arr(<<Date, Date>>),
                   Arr(<<Str("a"), Str("b"), Str(""), Str("a"), Str("b")>>),
                   Obj, <<"object", "a" :> Obj>>, Arr(<<Obj, Obj>>), <<"typed", "a", Obj[2]>>,
                   Dyn, Arr(<<Dyn, Obj, Dyn, Obj>>), <<"collection", Arr(<<Str("a")>>)>>}]

SamplePackets ==
    [kind : {"video", "audio"}, ts : {0, 3, 4, 15}, data : {<<"x">>, <<"y">>}]
    \cup [kind : {"meta"}, ts : {0},
          data : {<<SetDataFrame, OnMetaData, "object">>, <<OnMetaData, "object">>,
                  <<SetDataFrame>>, <<SetDataFrame, "object">>, <<"object">>}]
    \cup {[kind |-> "none", ts |-> 0, data |-> <<>>]}
=============================================================================
