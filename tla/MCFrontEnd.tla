----------------------------- MODULE MCFrontEnd -----------------------------
(***************************************************************************)
(* FrontEnd on small inputs.                                               *)
(***************************************************************************)
EXTENDS FrontEnd

(* MsgBuf with a usize of six bits: lengths below the length word's own, an *)
(* empty body, bodies that fit, double and outgrow the buffer, and one no   *)
(* allocation can hold.                                                     *)

SomeLenWords == {0, 3, 4, 5, 6, 9, 30}

-----------------------------------------------------------------------------
(* Startup on every body of up to four bytes, and on every body of up to   *)
(* five terminated strings: two parameters and the end of the list.        *)

Pieces    == {<<"nul">>} \cup {<<b, "nul">> : b \in Bytes \ {"nul"}}
SomeRests == BoundedSeq(Bytes, 4) \cup {FlattenSeq(p) : p \in BoundedSeq(Pieces, 5)}

-----------------------------------------------------------------------------
(* Wire with bytes of four bits, u16 of one byte and u32 of two: sixteen   *)
(* columns wrap a count, a value of 128 bytes a signed length and a        *)
(* message of 256 bytes its length.                                        *)

Texts == {<<>>, <<11>>, <<11, 12>>, <<0>>, <<11, 0, 12>>, <<0, 0>>}

FieldOf(n, r, a, l, m) == [name |-> n, reloid |-> r, attnum |-> a, typoid |-> 23, typlen |-> l, typmod |-> m]
Fields == {FieldOf(<<11>>, <<>>, <<>>, 4, -1), FieldOf(<<>>, <<200>>, <<3>>, -1, 100), FieldOf(<<0, 12>>, <<1>>, <<>>, -1, -1)}

Null    == [null |-> TRUE, data |-> <<>>]
Data(n) == [null |-> FALSE, data |-> [i \in 1..n |-> i % 16]]
Cols    == {Null, Data(0), Data(2)}

SomeMsgs ==
  [tag : {"R", "I"}]
    \cup [tag : {"K"}, backendid : {0, 18, 255}, key : {0, 33}]
    \cup [tag : {"Z"}, status : {"I", "T", "E"}]
    \cup [tag : {"C"}, text : Texts]
    \cup [tag : {"S"}, name : {<<11>>, <<12, 0>>}, value : Texts]
    \cup [tag : {"E"}, severity : {<<11>>}, code : {<<12, 13>>}, msg : Texts]
    \cup [tag : {"T"}, fields : BoundedSeq(Fields, 2) \cup {[i \in 1..16 |-> FieldOf(<<11>>, <<>>, <<>>, 4, -1)]}]
    \cup [tag : {"D"}, cols : BoundedSeq(Cols, 2) \cup {[i \in 1..n |-> Null] : n \in {15, 16, 17}}
                                \cup {<<Data(n)>> : n \in {127, 128, 251, 255}}]

-----------------------------------------------------------------------------
(* Analyze with an i32 up to 3, an i64 up to 7 and three columns: literals *)
(* on both sides of each limit, a catalog with an overloaded operator, a   *)
(* prefix operator, a shell and an operator whose function is missing.     *)

Op(n, l, r, f) == [name |-> n, left |-> l, right |-> r, oprcode |-> f]
SomeOperators ==
  {Op("+", <<"INT4">>, "INT4", <<"int4pl">>), Op("+", <<"INT4">>, "INT8", <<"int48pl">>),
   Op("-", <<>>, "INT4", <<"int4um">>), Op("-", <<"INT4">>, "INT4", <<"int4mi">>),
   Op("-", <<"INT8">>, "INT4", <<>>), Op("+", <<"INT8">>, "INT8", <<"int8pl">>)}
SomeProcs == [int4pl |-> "INT4", int48pl |-> "INT8", int4um |-> "INT4", int4mi |-> "INT4"]

Num(v, p, l) == <<[kind |-> "num", point |-> p, v |-> v, loc |-> l]>>
Text(v, l)   == <<[kind |-> "str", v |-> v, loc |-> l]>>

\* The tree e behind k other nodes.
Behind(k, e) ==
  [i \in DOMAIN e |-> IF e[i].kind = "op" THEN [e[i] EXCEPT !.args = [j \in DOMAIN @ |-> @[j] + k]] ELSE e[i]]
OpNode(n, as, l)  == <<[kind |-> "op", name |-> n, args |-> as, loc |-> l]>>
Op1(n, a, l)      == a \o OpNode(n, <<Len(a)>>, l)
Op2(n, a, b, l)   == a \o Behind(Len(a), b) \o OpNode(n, <<Len(a), Len(a) + Len(b)>>, l)

Leaves == {Num(v, FALSE, 1) : v \in {1, 3, 4, 7, 8}} \cup {Num(1, TRUE, 1), Text(1, 1)}
Level1 == {Op1("-", a, 2) : a \in Leaves} \cup {Op2(n, a, b, 2) : n \in {"+", "-"}, a, b \in Leaves}
Level2 == {Op1("-", a, 3) : a \in Level1} \cup {Op2("+", a, b, 3) : a \in Leaves, b \in Level1}
            \cup {Op2("-", a, b, 3) : a \in Level1, b \in {Num(1, FALSE, 1), Num(4, FALSE, 1)}}

Few == {Num(1, FALSE, 1), Num(1, FALSE, 2), Num(4, FALSE, 1), Text(1, 1), Num(1, TRUE, 1)}
         \cup {Op2(n, Num(1, FALSE, 1), Num(v, FALSE, l), l) : n \in {"+", "-"}, v \in {1, 3}, l \in {2, 3}}
         \cup {Op1("-", Num(1, FALSE, 1), 2), Op1("-", Text(1, 1), 2)}

Select(ts) == [kind |-> "Select", tlist |-> ts]
SomeStmts ==
  {Select(<<e>>) : e \in Level1 \cup Level2} \cup {Select(ts) : ts \in BoundedSeq(Few, 2)}
    \cup {Select(<<a, b, c>>) : a, b, c \in Few}
    \cup [kind : {"VariableSet", "VariableShow", "DefineType", "CreateTable", "Tran", "Lock", "Copy", "Empty"}]
=============================================================================
