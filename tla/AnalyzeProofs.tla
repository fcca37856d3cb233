--------------------------- MODULE AnalyzeProofs ----------------------------
(***************************************************************************)
(* The invariants of Analyze, proved for every catalog and all statements. *)
(*                                                                         *)
(* The analysis, the hash and their references are defined by recursion on *)
(* trees.  A tree lists operands before their operator, so that a value    *)
(* for every node exists, and what holds of a node when it holds of those  *)
(* before it holds of all: both by induction on the place of a node.       *)
(***************************************************************************)
EXTENDS Analyze, SequenceTheorems, WellFoundedInduction, TLAPS

-----------------------------------------------------------------------------
(* Induction on natural numbers, for a set in place of a predicate.        *)

NatLess == {p \in Nat \X Nat : p[1] < p[2]}

\* The order of the naturals is well-founded.
LEMMA NatLessWF == IsWellFoundedOn(NatLess, Nat)
  BY NatLessThanWellFounded, Zenon DEF NatLess, OpToRel

\* A set with zero and with the successor of each of its naturals has them all.
LEMMA NatSetInduction ==
  ASSUME NEW T, 0 \in T, \A n \in Nat : n \in T => (n + 1) \in T
  PROVE  \A n \in Nat : n \in T
<1> DEFINE U == {n \in Nat : n \notin T}
<1>1. SUFFICES ASSUME U # {} PROVE FALSE
  OBVIOUS
<1>2. PICK x \in U : \A y \in U : ~ (<<y, x>> \in NatLess)
  <2>1. U \subseteq Nat
    OBVIOUS
  <2> HIDE DEF U
  <2>2. QED
    BY <1>1, <2>1, WFMin, NatLessWF
<1>3. \A y \in U : ~(y < x)
  BY <1>2 DEF NatLess
<1>4. x \in Nat /\ x # 0 /\ x - 1 \in Nat /\ x - 1 < x
  OBVIOUS
<1>5. x - 1 \in T
  BY <1>3, <1>4
<1> QED
  BY <1>4, <1>5

-----------------------------------------------------------------------------
(* The recursive functions.                                                *)

\* The trees of a query: constants, and functions of nodes before them.
OutNode(n, i) ==
  \/ n = [node |-> "Const", typ |-> n.typ, v |-> n.v, loc |-> n.loc]
  \/ /\ n = [node |-> "Func", funcid |-> n.funcid, funcresulttype |-> n.funcresulttype, args |-> n.args, loc |-> n.loc]
     /\ \/ \E r \in 1..(i - 1) : n.args = <<r>>
        \/ \E l, r \in 1..(i - 1) : n.args = <<l, r>>

OutTree(x) == Len(x) \in Nat \ {0} /\ DOMAIN x = 1..Len(x) /\ \A i \in DOMAIN x : OutNode(x[i], i)

\* What each recursive function makes of a node, given the nodes before.
Rec(kind, n, g) ==
  CASE kind = "expr"  -> transform_node(n, g)
    [] kind = "types" -> NodeTypes(n, g)
    [] kind = "hash"  -> HashNode(n, g)
    [] kind = "strip" -> StripNode(n, g)

Ordered(kind, x) ==
  \/ kind \in {"expr", "types"} /\ IsTree(x)
  \/ kind \in {"hash", "strip"} /\ OutTree(x)

\* A node depends on the nodes before it alone.
LEMMA RecLocal ==
  ASSUME NEW kind, NEW x, Ordered(kind, x), NEW i \in DOMAIN x, NEW g, NEW h,
         \A j \in 1..(i - 1) : g[j] = h[j]
  PROVE  Rec(kind, x[i], g) = Rec(kind, x[i], h)
<1>1. ASSUME kind = "expr", IsTree(x) PROVE transform_node(x[i], g) = transform_node(x[i], h)
  <2>1. IsNode(x[i], i)
    BY <1>1 DEF IsTree
  <2>2. CASE x[i].kind # "op"
    BY <2>2 DEF transform_node
  <2>3. CASE x[i].kind = "op"
    <3>1. \A k \in DOMAIN x[i].args : g[x[i].args[k]] = h[x[i].args[k]]
      BY <2>1, <2>3 DEF IsNode
    <3>2. 1 \in DOMAIN x[i].args /\ (Len(x[i].args) # 1 => 2 \in DOMAIN x[i].args)
      BY <2>1, <2>3 DEF IsNode
    <3>3. (\E k \in DOMAIN x[i].args : g[x[i].args[k]] = Fail) <=> (\E k \in DOMAIN x[i].args : h[x[i].args[k]] = Fail)
      BY <3>1
    <3> QED
      BY <2>3, <3>1, <3>2, <3>3 DEF transform_node
  <2> QED
    BY <2>2, <2>3
<1>2. ASSUME kind = "types", IsTree(x) PROVE NodeTypes(x[i], g) = NodeTypes(x[i], h)
  <2>1. IsNode(x[i], i)
    BY <1>2 DEF IsTree
  <2>2. CASE x[i].kind # "op"
    BY <2>2 DEF NodeTypes
  <2>3. CASE x[i].kind = "op"
    <3>1. g[x[i].args[Len(x[i].args)]] = h[x[i].args[Len(x[i].args)]] /\ g[x[i].args[1]] = h[x[i].args[1]]
      BY <2>1, <2>3 DEF IsNode
    <3> QED
      BY <2>3, <3>1 DEF NodeTypes
  <2> QED
    BY <2>2, <2>3
<1>3. ASSUME OutTree(x) PROVE HashNode(x[i], g) = HashNode(x[i], h) /\ StripNode(x[i], g) = StripNode(x[i], h)
  <2>1. OutNode(x[i], i)
    BY <1>3 DEF OutTree
  <2>2. CASE x[i].node = "Const"
    BY <2>2 DEF HashNode, StripNode
  <2>3. CASE x[i].node # "Const"
    <3>1. \A k \in DOMAIN x[i].args : g[x[i].args[k]] = h[x[i].args[k]]
      BY <2>1, <2>3 DEF OutNode
    <3>2. [k \in DOMAIN x[i].args |-> g[x[i].args[k]]] = [k \in DOMAIN x[i].args |-> h[x[i].args[k]]]
      BY <3>1
    <3> QED
      BY <2>3, <3>2 DEF HashNode, StripNode
  <2> QED
    BY <2>2, <2>3
<1> QED
  BY <1>1, <1>2, <1>3 DEF Ordered, Rec

\* A function that does so for the whole tree exists.
LEMMA RecExists ==
  ASSUME NEW kind, NEW x, Ordered(kind, x)
  PROVE  \E g : g = [i \in DOMAIN x |-> Rec(kind, x[i], g)]
<1> DEFINE Upto(g, k) == g = [i \in 1..k |-> Rec(kind, x[i], g)]
           T == {k \in Nat : k <= Len(x) => \E g : Upto(g, k)}
<1>0. Len(x) \in Nat /\ DOMAIN x = 1..Len(x)
  BY DEF Ordered, IsTree, OutTree
<1>1. 0 \in T
  <2> DEFINE g0 == [i \in 1..0 |-> 0]
  <2>1. Upto(g0, 0)
    OBVIOUS
  <2> QED
    BY <2>1
<1>2. ASSUME NEW k \in Nat, k \in T PROVE (k + 1) \in T
  <2>1. SUFFICES ASSUME k + 1 <= Len(x) PROVE \E g : Upto(g, k + 1)
    BY <1>0
  <2>2. PICK g : Upto(g, k)
    BY <1>2, <2>1, <1>0
  <2> DEFINE h == [i \in 1..(k + 1) |-> IF i = k + 1 THEN Rec(kind, x[k + 1], g) ELSE g[i]]
  <2>3. \A j \in 1..k : g[j] = h[j]
    OBVIOUS
  <2>4. ASSUME NEW i \in 1..(k + 1) PROVE Rec(kind, x[i], g) = Rec(kind, x[i], h)
    <3>1. i \in DOMAIN x /\ \A j \in 1..(i - 1) : g[j] = h[j]
      BY <2>1, <2>3, <1>0
    <3> QED
      BY <3>1, RecLocal
  <2>5. \A i \in 1..k : g[i] = Rec(kind, x[i], g)
    BY <2>2
  <2>6. Upto(h, k + 1)
    <3>1. \A i \in 1..(k + 1) : h[i] = Rec(kind, x[i], h)
      BY <2>4, <2>5
    <3> QED
      BY <3>1
  <2> QED
    BY <2>6
<1>3. Len(x) \in T
  <2> HIDE DEF T
  <2> QED
    BY <1>0, <1>1, <1>2, NatSetInduction
<1> QED
  BY <1>0, <1>3
\* transform_expr makes each node of the nodes before it.
LEMMA TransformExprDef ==
  ASSUME NEW e, IsTree(e)
  PROVE  /\ transform_expr(e) = [i \in DOMAIN e |-> transform_node(e[i], transform_expr(e))]
         /\ DOMAIN transform_expr(e) = DOMAIN e
         /\ \A i \in DOMAIN e : transform_expr(e)[i] = transform_node(e[i], transform_expr(e))
<1> DEFINE Is(g) == g = [i \in DOMAIN e |-> transform_node(e[i], g)]
<1>1. \E g : Is(g)
  BY RecExists, "expr" = "expr" DEF Ordered, Rec
<1>2. transform_expr(e) = CHOOSE g : Is(g)
  BY DEF transform_expr
<1> HIDE DEF Is
<1>3. Is(transform_expr(e))
  BY <1>1, <1>2
<1> QED
  BY <1>3 DEF Is

\* Types makes each node of the nodes before it.
LEMMA TypesDef ==
  ASSUME NEW e, IsTree(e)
  PROVE  /\ DOMAIN Types(e) = DOMAIN e
         /\ \A i \in DOMAIN e : Types(e)[i] = NodeTypes(e[i], Types(e))
<1> DEFINE Is(g) == g = [i \in DOMAIN e |-> NodeTypes(e[i], g)]
<1>1. \E g : Is(g)
  BY RecExists DEF Ordered, Rec
<1>2. Types(e) = CHOOSE g : Is(g)
  BY DEF Types
<1> HIDE DEF Is
<1>3. Is(Types(e))
  BY <1>1, <1>2
<1> QED
  BY <1>3 DEF Is

\* The hash of a tree is that of its last node, each made of those before it.
LEMMA HashDef ==
  ASSUME NEW x, OutTree(x)
  PROVE  \E h : h = [i \in DOMAIN x |-> HashNode(x[i], h)] /\ Hash(x) = h[Len(x)]
<1> DEFINE Is(g) == g = [i \in DOMAIN x |-> HashNode(x[i], g)]
<1>1. \E g : Is(g)
  BY RecExists DEF Ordered, Rec
<1>2. Hash(x) = (CHOOSE g : Is(g))[Len(x)]
  BY DEF Hash
<1> HIDE DEF Is
<1>3. Is(CHOOSE g : Is(g))
  BY <1>1
<1> QED
  BY <1>2, <1>3 DEF Is

\* The same of the tree without locations.
LEMMA StripDef ==
  ASSUME NEW x, OutTree(x)
  PROVE  \E s : s = [i \in DOMAIN x |-> StripNode(x[i], s)] /\ Strip(x) = s[Len(x)]
<1> DEFINE Is(g) == g = [i \in DOMAIN x |-> StripNode(x[i], g)]
<1>1. \E g : Is(g)
  BY RecExists DEF Ordered, Rec
<1>2. Strip(x) = (CHOOSE g : Is(g))[Len(x)]
  BY DEF Strip
<1> HIDE DEF Is
<1>3. Is(CHOOSE g : Is(g))
  BY <1>1
<1> QED
  BY <1>2, <1>3 DEF Is

-----------------------------------------------------------------------------
(* Typing.                                                                 *)

\* Const::try_new takes the type of a literal.
LEMMA ConstType ==
  ASSUME NEW n, n.kind # "op", NEW i, IsNode(n, i)
  PROVE  /\ Const(n) = [node |-> "Const", typ |-> Const(n).typ, v |-> Const(n).v, loc |-> Const(n).loc]
         /\ val_type(Const(n)) = LiteralType(n)
         /\ Const(n) # Fail
<1>1. CASE n.kind = "str"
  <2>1. Const(n) = [node |-> "Const", typ |-> "VARCHAR", v |-> n.v, loc |-> n.loc]
    BY <1>1 DEF Const
  <2>2. LiteralType(n) = "VARCHAR"
    BY <1>1 DEF LiteralType
  <2>3. Const(n).typ = "VARCHAR" /\ Const(n).v = n.v /\ Const(n).loc = n.loc /\ Const(n).node = "Const"
    BY <2>1
  <2>4. Const(n) # Fail
    BY <2>3 DEF Fail
  <2> QED
    BY <2>1, <2>2, <2>3, <2>4 DEF val_type
<1>2. CASE n.kind = "num"
  <2>1. n.v \in Nat /\ n.point \in BOOLEAN
    BY <1>2 DEF IsNode
  <2> DEFINE c == ConstNum(I_or_F_const(n))
  <2>2. Const(n) = [node |-> "Const", typ |-> c.typ, v |-> c.v, loc |-> n.loc]
    BY <1>2 DEF Const
  <2>3. c.typ = LiteralType(n)
    <3>1. CASE ~n.point /\ n.v <= I32Max
      <4>1. c.typ = "INT4"
        BY <3>1 DEF ConstNum, I_or_F_const, IntVal
      <4>2. LiteralType(n) = "INT4"
        <5>1. n.kind # "str" /\ n.v <= I32Max /\ ~n.point /\ ~(n.v \in (I32Max + 1)..I64Max)
          BY <3>1, <2>1, <1>2, LimitsAssumption
        <5> QED
          BY <5>1, <1>2 DEF LiteralType
      <4> QED
        BY <4>1, <4>2
    <3>2. CASE ~(~n.point /\ n.v <= I32Max)
      <4>1. c.typ = IF ~n.point /\ n.v <= I64Max THEN "INT8" ELSE "FLOAT8"
        BY <3>2 DEF ConstNum, I_or_F_const, FloatVal
      <4>2. LiteralType(n) = IF ~n.point /\ n.v <= I64Max THEN "INT8" ELSE "FLOAT8"
        BY <3>2, <2>1, <1>2, LimitsAssumption DEF LiteralType
      <4> QED
        BY <4>1, <4>2
    <3> QED
      BY <3>1, <3>2
  <2> HIDE DEF c
  <2>4. Const(n).typ = c.typ /\ Const(n).v = c.v /\ Const(n).loc = n.loc /\ Const(n).node = "Const"
    BY <2>2
  <2>5. Const(n) # Fail
    BY <2>4 DEF Fail
  <2> QED
    BY <2>2, <2>3, <2>4, <2>5 DEF val_type
<1> QED
  BY <1>1, <1>2 DEF IsNode

\* make_op finds the function the catalog has for the types, or there is none.
LEMMA MakeOp ==
  ASSUME NEW n, NEW left, NEW right
  PROVE  LET r == make_op(n, left, right)
             F == {g \in DOMAIN Procs :
                     \E o \in Operators : o.name = n.name /\ o.oprcode = <<g>> /\ o.left = left /\ o.right = right}
         IN  /\ r = Fail => F = {}
             /\ r # Fail => /\ F = {r.funcid} /\ val_type(r) = Procs[r.funcid]
                            /\ r = [node |-> "Func", funcid |-> r.funcid, funcresulttype |-> r.funcresulttype,
                                    args |-> n.args, loc |-> n.loc]
<1> DEFINE found == {o \in Operators : o.name = n.name /\ o.left = left /\ o.right = right}
           o == CHOOSE x \in found : TRUE
           r == make_op(n, left, right)
           F == {g \in DOMAIN Procs :
                   \E q \in Operators : q.name = n.name /\ q.oprcode = <<g>> /\ q.left = left /\ q.right = right}
           Found == [node |-> "Func", funcid |-> o.oprcode[1], funcresulttype |-> Procs[o.oprcode[1]],
                     args |-> n.args, loc |-> n.loc]
<1>1. r = IF found = {} \/ o.oprcode = <<>> \/ o.oprcode[1] \notin DOMAIN Procs THEN Fail ELSE Found
  BY DEF make_op
<1>2. Found # Fail
  BY DEF Fail
<1>3. CASE found = {}
  BY <1>1, <1>2, <1>3
<1>4. CASE found # {}
  <2>1. o \in found /\ \A q \in found : q = o
    BY <1>4, OperatorsAssumption
  <2> HIDE DEF o
  <2>2. F = {g \in DOMAIN Procs : o.oprcode = <<g>>}
    BY <2>1
  <2>3. o.oprcode = <<>> \/ o.oprcode = <<o.oprcode[1]>>
    BY <2>1, OperatorsAssumption
  <2>4. CASE o.oprcode = <<>> \/ o.oprcode[1] \notin DOMAIN Procs
    <3>1. r = Fail
      BY <2>4, <1>1
    <3>2. F = {}
      BY <2>2, <2>4
    <3> QED
      BY <3>1, <3>2
  <2>5. CASE o.oprcode # <<>> /\ o.oprcode[1] \in DOMAIN Procs
    <3>1. r = Found /\ r # Fail
      BY <2>5, <1>1, <1>2, <1>4
    <3>2. F = {o.oprcode[1]}
      BY <2>2, <2>3, <2>5
    <3>3. /\ r.node = "Func" /\ r.funcid = o.oprcode[1] /\ r.funcresulttype = Procs[o.oprcode[1]]
          /\ r.args = n.args /\ r.loc = n.loc
      BY <3>1
    <3>4. val_type(r) = Procs[r.funcid]
      BY <3>3 DEF val_type
    <3> QED
      BY <3>1, <3>2, <3>3, <3>4
  <2> QED
    BY <2>4, <2>5
<1> QED
  BY <1>3, <1>4

\* A node is analysed exactly when the catalog gives it a type, and to that type.
LEMMA NodeTyped ==
  ASSUME NEW e, IsTree(e), NEW i \in DOMAIN e,
         \A j \in 1..(i - 1) : Types(e)[j] = IF transform_expr(e)[j] = Fail THEN {} ELSE {val_type(transform_expr(e)[j])}
  PROVE  /\ Types(e)[i] = IF transform_expr(e)[i] = Fail THEN {} ELSE {val_type(transform_expr(e)[i])}
         /\ transform_expr(e)[i] = Fail \/ OutNode(transform_expr(e)[i], i)
<1> DEFINE n == e[i]
           X == transform_expr(e)
           t == Types(e)
<1>1. IsNode(n, i)
  BY DEF IsTree
<1>2. X[i] = transform_node(n, X) /\ t[i] = NodeTypes(n, t)
  BY TransformExprDef, TypesDef
<1> HIDE DEF n, X, t
<1>3. \A j \in 1..(i - 1) : t[j] = IF X[j] = Fail THEN {} ELSE {val_type(X[j])}
  BY DEF X, t
<1>4. CASE n.kind # "op"
  <2>1. X[i] = Const(n) /\ t[i] = {LiteralType(n)}
    BY <1>2, <1>4 DEF transform_node, NodeTypes
  <2>2. /\ Const(n) = [node |-> "Const", typ |-> Const(n).typ, v |-> Const(n).v, loc |-> Const(n).loc]
        /\ val_type(Const(n)) = LiteralType(n)
        /\ Const(n) # Fail
    BY <1>1, <1>4, ConstType
  <2> QED
    BY <2>1, <2>2 DEF OutNode, X, t
<1>5. ASSUME NEW r \in 1..(i - 1), n.kind = "op", n.args = <<r>> PROVE
        /\ t[i] = IF X[i] = Fail THEN {} ELSE {val_type(X[i])}
        /\ X[i] = Fail \/ OutNode(X[i], i)
  <2> DEFINE F == {g \in DOMAIN Procs :
                     \E o \in Operators : o.name = n.name /\ o.oprcode = <<g>> /\ o.left = <<>> /\ o.right \in t[r]}
  <2>1. t[i] = {Procs[f] : f \in F}
    BY <1>2, <1>5 DEF NodeTypes
  <2>2. CASE X[r] = Fail
    <3>1. X[i] = Fail
      BY <1>2, <1>5, <2>2 DEF transform_node
    <3>2. t[r] = {}
      BY <1>3, <2>2
    <3>3. t[i] = {}
      BY <2>1, <3>2
    <3> QED
      BY <3>1, <3>3
  <2>3. CASE X[r] # Fail
    <3> DEFINE m == make_op(n, <<>>, val_type(X[r]))
               G == {g \in DOMAIN Procs :
                       \E o \in Operators : o.name = n.name /\ o.oprcode = <<g>> /\ o.left = <<>> /\ o.right = val_type(X[r])}
    <3>1. X[i] = m
      BY <1>2, <1>5, <2>3 DEF transform_node, make_op1
    <3>2. t[r] = {val_type(X[r])}
      BY <1>3, <2>3
    <3>3. F = G
      BY <3>2
    <3> HIDE DEF F
    <3>4. /\ m = Fail => G = {}
          /\ m # Fail => /\ G = {m.funcid} /\ val_type(m) = Procs[m.funcid]
                         /\ m = [node |-> "Func", funcid |-> m.funcid, funcresulttype |-> m.funcresulttype,
                                 args |-> n.args, loc |-> n.loc]
      BY MakeOp
    <3> HIDE DEF G, m
    <3>5. t[i] = IF m = Fail THEN {} ELSE {val_type(m)}
      BY <2>1, <3>3, <3>4
    <3>6. m = Fail \/ OutNode(m, i)
      <4>1. SUFFICES ASSUME m # Fail PROVE OutNode(m, i)
        OBVIOUS
      <4>2. m.args = n.args /\ m.loc = n.loc
        BY <4>1, <3>4
      <4> QED
        BY <4>1, <4>2, <3>4, <1>5 DEF OutNode
    <3> QED
      BY <3>1, <3>5, <3>6
  <2> QED
    BY <2>2, <2>3
<1>6. ASSUME NEW l \in 1..(i - 1), NEW r \in 1..(i - 1), n.kind = "op", n.args = <<l, r>> PROVE
        /\ t[i] = IF X[i] = Fail THEN {} ELSE {val_type(X[i])}
        /\ X[i] = Fail \/ OutNode(X[i], i)
  <2> DEFINE F == {g \in DOMAIN Procs :
                     \E o \in Operators : /\ o.name = n.name /\ o.oprcode = <<g>> /\ o.right \in t[r]
                                          /\ \E u \in t[l] : o.left = <<u>>}
  <2>1. t[i] = {Procs[f] : f \in F}
    BY <1>2, <1>6 DEF NodeTypes
  <2>2. CASE X[l] = Fail \/ X[r] = Fail
    <3>1. X[i] = Fail
      <4>1. \E k \in DOMAIN n.args : X[n.args[k]] = Fail
        BY <1>6, <2>2
      <4> QED
        BY <1>2, <1>6, <4>1 DEF transform_node
    <3>2. t[r] = {} \/ t[l] = {}
      BY <1>3, <2>2
    <3>3. t[i] = {}
      BY <2>1, <3>2
    <3> QED
      BY <3>1, <3>3
  <2>3. CASE X[l] # Fail /\ X[r] # Fail
    <3> DEFINE m == make_op(n, <<val_type(X[l])>>, val_type(X[r]))
               G == {g \in DOMAIN Procs :
                       \E o \in Operators : o.name = n.name /\ o.oprcode = <<g>> /\ o.left = <<val_type(X[l])>> /\ o.right = val_type(X[r])}
    <3>1. X[i] = m
      <4>1. ~\E k \in DOMAIN n.args : X[n.args[k]] = Fail
        BY <1>6, <2>3
      <4> QED
        BY <1>2, <1>6, <4>1 DEF transform_node, make_op2
    <3>2. t[r] = {val_type(X[r])} /\ t[l] = {val_type(X[l])}
      BY <1>3, <2>3
    <3>3. F = G
      BY <3>2
    <3> HIDE DEF F
    <3>4. /\ m = Fail => G = {}
          /\ m # Fail => /\ G = {m.funcid} /\ val_type(m) = Procs[m.funcid]
                         /\ m = [node |-> "Func", funcid |-> m.funcid, funcresulttype |-> m.funcresulttype,
                                 args |-> n.args, loc |-> n.loc]
      BY MakeOp
    <3> HIDE DEF G, m
    <3>5. t[i] = IF m = Fail THEN {} ELSE {val_type(m)}
      BY <2>1, <3>3, <3>4
    <3>6. m = Fail \/ OutNode(m, i)
      <4>1. SUFFICES ASSUME m # Fail PROVE OutNode(m, i)
        OBVIOUS
      <4>2. m.args = n.args /\ m.loc = n.loc
        BY <4>1, <3>4
      <4> QED
        BY <4>1, <4>2, <3>4, <1>6 DEF OutNode
    <3> QED
      BY <3>1, <3>5, <3>6
  <2> QED
    BY <2>2, <2>3
<1> QED
  BY <1>1, <1>4, <1>5, <1>6 DEF IsNode, X, t

\* The same of a whole tree.
LEMMA Typed ==
  ASSUME NEW e, IsTree(e), NEW i \in DOMAIN e
  PROVE  /\ Types(e)[i] = IF transform_expr(e)[i] = Fail THEN {} ELSE {val_type(transform_expr(e)[i])}
         /\ transform_expr(e)[i] = Fail \/ OutNode(transform_expr(e)[i], i)
<1> DEFINE Is(j) == Types(e)[j] = IF transform_expr(e)[j] = Fail THEN {} ELSE {val_type(transform_expr(e)[j])}
           T == {n \in Nat : \A j \in 1..n : j \in DOMAIN e => Is(j)}
<1>1. 0 \in T
  OBVIOUS
<1>2. ASSUME NEW n \in Nat, n \in T PROVE (n + 1) \in T
  <2>1. ASSUME n + 1 \in DOMAIN e PROVE Is(n + 1)
    <3>1. (n + 1) - 1 = n /\ \A j \in 1..n : j \in DOMAIN e
      BY <2>1 DEF IsTree
    <3>2. \A j \in 1..((n + 1) - 1) : Is(j)
      BY <3>1, <1>2
    <3> QED
      BY <2>1, <3>2, NodeTyped
  <2> QED
    BY <1>2, <2>1
<1>3. i \in Nat /\ (i - 1) \in Nat
  BY DEF IsTree
<1>4. i - 1 \in T
  <2> HIDE DEF T
  <2> QED
    BY <1>1, <1>2, <1>3, NatSetInduction
<1>5. \A j \in 1..(i - 1) : Is(j)
  <2>1. \A j \in 1..(i - 1) : j \in DOMAIN e
    BY DEF IsTree
  <2> QED
    BY <1>4, <2>1
<1> QED
  BY <1>5, NodeTyped

-----------------------------------------------------------------------------
(* Hashing.                                                                *)

SameBefore(i, j, h, k, s, u) == \A a \in 1..(i - 1), b \in 1..(j - 1) : h[a] = k[b] <=> s[a] = u[b]

\* Two nodes have the same hash exactly when they are the same without their
\* locations, if that holds of the nodes they are made of.
LEMMA NodeHash ==
  ASSUME NEW x, NEW y, NEW i, NEW j, OutNode(x, i), OutNode(y, j), NEW h, NEW k, NEW s, NEW u,
         SameBefore(i, j, h, k, s, u)
  PROVE  HashNode(x, h) = HashNode(y, k) <=> StripNode(x, s) = StripNode(y, u)
<1>1. CASE x.node = "Const" /\ y.node = "Const"
  <2>1. /\ x = [node |-> "Const", typ |-> x.typ, v |-> x.v, loc |-> x.loc]
        /\ y = [node |-> "Const", typ |-> y.typ, v |-> y.v, loc |-> y.loc]
    BY <1>1 DEF OutNode
  <2>2. /\ StripNode(x, s) = [node |-> "Const", typ |-> x.typ, v |-> x.v, loc |-> 0]
        /\ StripNode(y, u) = [node |-> "Const", typ |-> y.typ, v |-> y.v, loc |-> 0]
    BY <1>1, <2>1 DEF StripNode
  <2>3. StripNode(x, s) = StripNode(y, u) <=> x.typ = y.typ /\ x.v = y.v
    BY <2>2
  <2>4. HashNode(x, h) = <<"const", x.typ, x.v>> /\ HashNode(y, k) = <<"const", y.typ, y.v>>
    BY <1>1 DEF HashNode
  <2> QED
    BY <2>3, <2>4
<1>2. CASE x.node = "Func" /\ y.node = "Func"
  <2> DEFINE hx == [a \in DOMAIN x.args |-> h[x.args[a]]]
             hy == [b \in DOMAIN y.args |-> k[y.args[b]]]
             sx == [a \in DOMAIN x.args |-> s[x.args[a]]]
             sy == [b \in DOMAIN y.args |-> u[y.args[b]]]
  <2>1. /\ x = [node |-> "Func", funcid |-> x.funcid, funcresulttype |-> x.funcresulttype, args |-> x.args, loc |-> x.loc]
        /\ y = [node |-> "Func", funcid |-> y.funcid, funcresulttype |-> y.funcresulttype, args |-> y.args, loc |-> y.loc]
        /\ \A a \in DOMAIN x.args : x.args[a] \in 1..(i - 1)
        /\ \A b \in DOMAIN y.args : y.args[b] \in 1..(j - 1)
    BY <1>2 DEF OutNode
  <2>2. hx = hy <=> sx = sy
    <3>1. hx = hy <=> DOMAIN x.args = DOMAIN y.args /\ \A a \in DOMAIN x.args : h[x.args[a]] = k[y.args[a]]
      OBVIOUS
    <3>2. sx = sy <=> DOMAIN x.args = DOMAIN y.args /\ \A a \in DOMAIN x.args : s[x.args[a]] = u[y.args[a]]
      OBVIOUS
    <3>3. ASSUME DOMAIN x.args = DOMAIN y.args, NEW a \in DOMAIN x.args
          PROVE  h[x.args[a]] = k[y.args[a]] <=> s[x.args[a]] = u[y.args[a]]
      BY <2>1, <3>3 DEF SameBefore
    <3> QED
      BY <3>1, <3>2, <3>3
  <2>3. /\ StripNode(x, s) = [node |-> "Func", funcid |-> x.funcid, funcresulttype |-> x.funcresulttype, args |-> sx, loc |-> 0]
        /\ StripNode(y, u) = [node |-> "Func", funcid |-> y.funcid, funcresulttype |-> y.funcresulttype, args |-> sy, loc |-> 0]
    BY <1>2, <2>1 DEF StripNode
  <2>4. /\ HashNode(x, h) = <<"func", x.funcresulttype, x.funcid, hx>>
        /\ HashNode(y, k) = <<"func", y.funcresulttype, y.funcid, hy>>
    BY <1>2 DEF HashNode
  <2> HIDE DEF hx, hy, sx, sy
  <2>5. StripNode(x, s) = StripNode(y, u) <=> x.funcid = y.funcid /\ x.funcresulttype = y.funcresulttype /\ sx = sy
    BY <2>3
  <2>6. HashNode(x, h) = HashNode(y, k) <=> x.funcid = y.funcid /\ x.funcresulttype = y.funcresulttype /\ hx = hy
    BY <2>4
  <2> QED
    BY <2>2, <2>5, <2>6
<1>3. CASE x.node = "Const" /\ y.node = "Func"
  BY <1>3 DEF OutNode, HashNode, StripNode
<1>4. CASE x.node = "Func" /\ y.node = "Const"
  BY <1>4 DEF OutNode, HashNode, StripNode
<1>5. x.node \in {"Const", "Func"} /\ y.node \in {"Const", "Func"}
  BY DEF OutNode
<1> QED
  BY <1>1, <1>2, <1>3, <1>4, <1>5

\* The hashes of two trees are the same exactly when the trees are the same
\* without their locations.
LEMMA HashStrip ==
  ASSUME NEW x, NEW y, OutTree(x), OutTree(y)
  PROVE  Hash(x) = Hash(y) <=> Strip(x) = Strip(y)
<1>1. PICK h : h = [i \in DOMAIN x |-> HashNode(x[i], h)] /\ Hash(x) = h[Len(x)]
  BY HashDef
<1>2. PICK k : k = [i \in DOMAIN y |-> HashNode(y[i], k)] /\ Hash(y) = k[Len(y)]
  BY HashDef
<1>3. PICK s : s = [i \in DOMAIN x |-> StripNode(x[i], s)] /\ Strip(x) = s[Len(x)]
  BY StripDef
<1>4. PICK u : u = [i \in DOMAIN y |-> StripNode(y[i], u)] /\ Strip(y) = u[Len(y)]
  BY StripDef
<1> DEFINE Is(i, j) == h[i] = k[j] <=> s[i] = u[j]
           T == {n \in Nat : \A i \in 1..n : i \in DOMAIN x => \A j \in DOMAIN y : Is(i, j)}
<1>5. 0 \in T
  OBVIOUS
<1>6. ASSUME NEW n \in Nat, n \in T PROVE (n + 1) \in T
  <2>1. ASSUME n + 1 \in DOMAIN x, NEW j \in DOMAIN y PROVE Is(n + 1, j)
    <3>1. /\ h[n + 1] = HashNode(x[n + 1], h) /\ s[n + 1] = StripNode(x[n + 1], s)
          /\ k[j] = HashNode(y[j], k) /\ u[j] = StripNode(y[j], u)
      BY <1>1, <1>2, <1>3, <1>4, <2>1
    <3>2. OutNode(x[n + 1], n + 1) /\ OutNode(y[j], j)
      BY <2>1 DEF OutTree
    <3>3. (n + 1) - 1 = n /\ (\A a \in 1..n : a \in DOMAIN x) /\ (\A b \in 1..(j - 1) : b \in DOMAIN y)
      BY <2>1 DEF OutTree
    <3>4. SameBefore(n + 1, j, h, k, s, u)
      BY <1>6, <3>3 DEF SameBefore
    <3>5. HashNode(x[n + 1], h) = HashNode(y[j], k) <=> StripNode(x[n + 1], s) = StripNode(y[j], u)
      BY <3>2, <3>4, NodeHash
    <3> QED
      BY <3>1, <3>5
  <2> QED
    BY <1>6, <2>1
<1>7. Len(x) \in DOMAIN x /\ Len(y) \in DOMAIN y /\ Len(x) \in Nat /\ Len(x) \in 1..Len(x)
  BY DEF OutTree
<1>8. Len(x) \in T
  <2> HIDE DEF T
  <2> QED
    BY <1>5, <1>6, <1>7, NatSetInduction
<1>9. Is(Len(x), Len(y))
  BY <1>7, <1>8
<1> QED
  BY <1>1, <1>2, <1>3, <1>4, <1>9

-----------------------------------------------------------------------------
(* The invariant: the entries are the analysed targets, in order.          *)

EntryOf(i) == [expr |-> transform_expr(stmt.tlist[i]), resno |-> i]

Entries ==
  /\ stmt \in Stmts
  /\ tlist # <<>> => stmt.kind = "Select"
  /\ tlist \in Seq({EntryOf(i) : i \in DOMAIN stmt.tlist})
  /\ p_next_resno = Len(tlist) + 1 /\ p_next_resno < U16Mod
  /\ stmt.kind = "Select" => Len(tlist) <= Len(stmt.tlist)
  /\ \A i \in DOMAIN tlist : tlist[i] = EntryOf(i) /\ ~Failed(tlist[i].expr)

Outcome ==
  /\ apc \in {"targets", "query", "error"} => stmt.kind = "Select"
  /\ apc = "error" =>
       /\ Len(tlist) < Len(stmt.tlist)
       /\ Failed(transform_expr(Target)) \/ (abuild = "release" /\ Len(tlist) = U16Mod - 2)
  /\ apc = "query" => Len(tlist) = Len(stmt.tlist)

AInv == abuild \in {"debug", "release"} /\ Entries /\ Outcome

\* Entries depends on three variables.
LEMMA EntriesKept == Entries /\ UNCHANGED <<stmt, tlist, p_next_resno>> => Entries'
<1> SUFFICES ASSUME Entries, stmt' = stmt, tlist' = tlist, p_next_resno' = p_next_resno PROVE Entries'
  OBVIOUS
<1> DEFINE S == {EntryOf(i) : i \in DOMAIN stmt.tlist}
<1>1. S' = S /\ \A i : EntryOf(i)' = EntryOf(i)
  BY DEF EntryOf
<1> QED
  BY <1>1 DEF Entries

\* The invariant holds initially.
LEMMA AInvInit == AInit => AInv
  BY U16Assumption DEF AInit, AInv, Entries, Outcome

\* A target that is analysed becomes the next entry.
LEMMA TargetStep == AInv /\ transform_target_entry => AInv'
<1> SUFFICES ASSUME AInv, transform_target_entry PROVE AInv'
  OBVIOUS
<1> DEFINE x == transform_expr(Target)
           S == {EntryOf(i) : i \in DOMAIN stmt.tlist}
           n == Len(tlist)
<1>1. /\ stmt.kind = "Select" /\ stmt' = stmt /\ abuild' = abuild /\ abuild \in {"debug", "release"}
      /\ apc = "targets" /\ n < Len(stmt.tlist) /\ stmt \in Stmts
  BY DEF AInv, Entries, Outcome, transform_target_entry
<1>2. n \in Nat /\ tlist \in Seq(S) /\ DOMAIN tlist = 1..n
  BY DEF AInv, Entries
<1>3. Len(stmt.tlist) \in Nat /\ DOMAIN stmt.tlist = 1..Len(stmt.tlist)
  BY <1>1, StmtsAssumption
<1>4. p_next_resno = n + 1 /\ p_next_resno < U16Mod /\ U16Mod \in Nat
  BY U16Assumption DEF AInv, Entries
<1>5. ASSUME apc' \in {"error", "panicked"}, tlist' = tlist, p_next_resno' = p_next_resno,
             apc' = "error" => Failed(x) \/ (abuild = "release" /\ n = U16Mod - 2)
      PROVE  AInv'
  <2>1. Entries'
    BY <1>1, <1>5, EntriesKept DEF AInv
  <2>2. Target' = Target
    BY <1>1, <1>5 DEF Target
  <2>3. Outcome'
    BY <1>1, <1>5, <2>2 DEF Outcome
  <2> QED
    BY <1>1, <2>1, <2>3 DEF AInv
<1>6. CASE Failed(x)
  <2>1. apc' = "error" /\ tlist' = tlist /\ p_next_resno' = p_next_resno
    BY <1>6 DEF transform_target_entry
  <2>2. apc' = "error" => Failed(x) \/ (abuild = "release" /\ n = U16Mod - 2)
    BY <1>6, Zenon
  <2>3. apc' \in {"error", "panicked"}
    BY <2>1
  <2> HIDE DEF x, n
  <2> QED
    BY <1>5, <2>1, <2>2, <2>3
<1>7. CASE ~Failed(x) /\ p_next_resno + 1 = U16Mod
  <2>1. apc' = (IF abuild = "debug" THEN "panicked" ELSE "error") /\ tlist' = tlist /\ p_next_resno' = p_next_resno
    <3>1. ~(p_next_resno + 1 < U16Mod)
      BY <1>7, <1>4
    <3> QED
      BY <1>7, <3>1 DEF transform_target_entry
  <2>2. n = U16Mod - 2
    BY <1>2, <1>4, <1>7
  <2> HIDE DEF x, n
  <2> QED
    BY <1>1, <1>5, <2>1, <2>2
<1>8. CASE ~Failed(x) /\ p_next_resno + 1 < U16Mod
  <2>1. apc' = apc /\ tlist' = Append(tlist, [expr |-> x, resno |-> p_next_resno]) /\ p_next_resno' = p_next_resno + 1
    <3>1. p_next_resno + 1 # U16Mod
      BY <1>2, <1>4, <1>8
    <3> QED
      BY <1>8, <3>1 DEF transform_target_entry, Entry
  <2>2. [expr |-> x, resno |-> p_next_resno] = EntryOf(n + 1) /\ n + 1 \in DOMAIN stmt.tlist
    BY <1>1, <1>2, <1>3, <1>4 DEF EntryOf, Target
  <2>3. EntryOf(n + 1) \in S /\ ~Failed(EntryOf(n + 1).expr)
    BY <1>8, <2>2 DEF EntryOf, Target
  <2>5. S' = S /\ \A i : EntryOf(i)' = EntryOf(i)
    BY <1>1 DEF EntryOf
  <2> HIDE DEF S
  <2>4. /\ tlist' \in Seq(S) /\ Len(tlist') = n + 1 /\ DOMAIN tlist' = 1..(n + 1)
        /\ \A i \in 1..n : tlist'[i] = tlist[i]
        /\ tlist'[n + 1] = EntryOf(n + 1)
    BY <1>2, <2>1, <2>2, <2>3, AppendProperties, LenProperties
  <2>6. \A i \in DOMAIN tlist' : tlist'[i] = EntryOf(i) /\ ~Failed(tlist'[i].expr)
    BY <1>2, <2>3, <2>4 DEF AInv, Entries
  <2>7. Entries'
    BY <1>1, <1>2, <1>3, <1>4, <1>8, <2>1, <2>4, <2>5, <2>6 DEF Entries, S
  <2>8. Outcome'
    BY <1>1, <2>1 DEF Outcome
  <2> QED
    BY <1>1, <2>7, <2>8 DEF AInv
<1> QED
  BY <1>2, <1>4, <1>6, <1>7, <1>8
\* Every step keeps the invariant.
LEMMA AInvNext == AInv /\ [ANext]_avars => AInv'
<1> SUFFICES ASSUME AInv, [ANext]_avars PROVE AInv'
  OBVIOUS
<1>1. CASE kb_analyze
  <2>1. Entries' /\ abuild' = abuild
    BY <1>1, EntriesKept DEF kb_analyze, AInv
  <2>2. /\ stmt' = stmt /\ apc' \in {"targets", "panicked", "utility"}
        /\ apc' = "targets" => stmt.kind = "Select"
    BY <1>1 DEF kb_analyze
  <2>3. Outcome'
    BY <2>2 DEF Outcome
  <2> QED
    BY <2>1, <2>3 DEF AInv
<1>2. CASE transform_target_entry
  BY <1>2, TargetStep
<1>3. CASE transform_select_stmt
  <2>1. Entries' /\ abuild' = abuild
    BY <1>3, EntriesKept DEF transform_select_stmt, AInv
  <2>2. Outcome'
    BY <1>3 DEF transform_select_stmt, AInv, Outcome
  <2> QED
    BY <2>1, <2>2 DEF AInv
<1>4. CASE UNCHANGED avars
  <2>1. Entries' /\ abuild' = abuild
    BY <1>4, EntriesKept DEF avars, AInv
  <2>2. Target' = Target
    BY <1>4 DEF avars, Target
  <2>3. Outcome'
    BY <1>4, <2>2 DEF avars, AInv, Outcome
  <2> QED
    BY <2>1, <2>3 DEF AInv
<1> QED
  BY <1>1, <1>2, <1>3, <1>4 DEF ANext, Analyzed

\* The invariant holds always.
LEMMA AInvAlways == ASpec => []AInv
<1>1. AInit => AInv
  BY AInvInit
<1>2. AInv /\ [ANext]_avars => AInv'
  BY AInvNext
<1> QED
  BY <1>1, <1>2, PTL DEF ASpec

\* The entries of a query are trees.
LEMMA EntryTree ==
  ASSUME AInv, NEW i \in DOMAIN tlist
  PROVE  /\ i \in DOMAIN stmt.tlist /\ IsTree(stmt.tlist[i])
         /\ tlist[i].expr = transform_expr(stmt.tlist[i]) /\ tlist[i].resno = i
         /\ \A p \in DOMAIN stmt.tlist[i] : tlist[i].expr[p] # Fail
         /\ OutTree(tlist[i].expr)
<1> DEFINE e == stmt.tlist[i]
           x == tlist[i].expr
<1>1. tlist # <<>> /\ stmt.kind = "Select" /\ stmt \in Stmts
  BY DEF AInv, Entries
<1>2. Len(tlist) \in Nat /\ DOMAIN tlist = 1..Len(tlist) /\ Len(tlist) <= Len(stmt.tlist)
  BY <1>1 DEF AInv, Entries
<1>3. Len(stmt.tlist) \in Nat /\ DOMAIN stmt.tlist = 1..Len(stmt.tlist)
  BY <1>1, StmtsAssumption
<1>4. i \in DOMAIN stmt.tlist
  BY <1>2, <1>3
<1>5. IsTree(e)
  BY <1>1, <1>4, StmtsAssumption
<1>6. x = transform_expr(e) /\ tlist[i].resno = i /\ ~Failed(x)
  BY DEF AInv, Entries, EntryOf
<1> HIDE DEF e, x
<1>7. DOMAIN x = DOMAIN e /\ DOMAIN e = 1..Len(e) /\ Len(e) \in Nat \ {0}
  BY <1>5, <1>6, TransformExprDef DEF IsTree
<1>8. \A p \in DOMAIN e : x[p] # Fail
  BY <1>6, <1>7 DEF Failed
<1>9. \A p \in DOMAIN e : OutNode(x[p], p)
  BY <1>5, <1>6, <1>8, Typed
<1>10. x \in Seq({x[p] : p \in DOMAIN e}) /\ Len(x) = Len(e)
  <2>1. x = [p \in 1..Len(e) |-> x[p]]
    <3>1. x = [p \in DOMAIN e |-> transform_node(e[p], x)]
      BY <1>5, <1>6, TransformExprDef
    <3> QED
      BY <1>7, <3>1
  <2> QED
    BY <1>7, <2>1
<1> QED
  BY <1>4, <1>5, <1>6, <1>7, <1>8, <1>9, <1>10 DEF OutTree, e, x

-----------------------------------------------------------------------------
(* The theorems.                                                           *)

\* transform_target_entry: the entries of a target list are numbered by their
\* positions, whatever the statement, the catalog and the width of an
\* AttrNumber.
THEOREM ResnoIsPositionAlways == ASpec => []ResnoIsPosition
<1>1. AInv => ResnoIsPosition
  BY EntryTree DEF ResnoIsPosition
<1> QED
  BY <1>1, AInvAlways, PTL

\* make_op, transform_expr: for every catalog in which name and operand types
\* are a key, each node of a query has the one type the catalog gives it, and
\* an error comes at the first target the catalog cannot type or the numbers
\* cannot count.
THEOREM TypedAsCatalogSaysAlways == ASpec => []TypedAsCatalogSays
<1>1. AInv => TypedAsCatalogSays
  <2> SUFFICES ASSUME AInv PROVE TypedAsCatalogSays
    OBVIOUS
  <2>1. ASSUME NEW i \in DOMAIN tlist, NEW p \in DOMAIN stmt.tlist[i]
        PROVE  Types(stmt.tlist[i])[p] = {val_type(tlist[i].expr[p])}
    <3>1. /\ IsTree(stmt.tlist[i]) /\ tlist[i].expr = transform_expr(stmt.tlist[i])
          /\ tlist[i].expr[p] # Fail
      BY EntryTree
    <3> QED
      BY <3>1, Typed
  <2>2. ASSUME apc = "error"
        PROVE  /\ Len(tlist) < Len(stmt.tlist)
               /\ \/ \E p \in DOMAIN Target : Types(Target)[p] = {}
                  \/ abuild = "release" /\ Len(tlist) = U16Mod - 2
    <3>1. /\ Len(tlist) < Len(stmt.tlist)
          /\ Failed(transform_expr(Target)) \/ (abuild = "release" /\ Len(tlist) = U16Mod - 2)
      BY <2>2 DEF AInv, Outcome
    <3>2. IsTree(Target)
      <4>1. stmt.kind = "Select" /\ stmt \in Stmts
        BY <2>2 DEF AInv, Outcome, Entries
      <4>2. Len(stmt.tlist) \in Nat /\ DOMAIN stmt.tlist = 1..Len(stmt.tlist) /\ Len(tlist) \in Nat
        BY <4>1, StmtsAssumption DEF AInv, Entries
      <4>3. Len(tlist) + 1 \in DOMAIN stmt.tlist
        BY <3>1, <4>2
      <4> QED
        BY <4>1, <4>3, StmtsAssumption DEF Target
    <3>3. ASSUME Failed(transform_expr(Target)) PROVE \E p \in DOMAIN Target : Types(Target)[p] = {}
      <4>1. PICK p \in DOMAIN transform_expr(Target) : transform_expr(Target)[p] = Fail
        BY <3>3 DEF Failed
      <4>2. p \in DOMAIN Target
        BY <3>2, <4>1, TransformExprDef
      <4>3. Types(Target)[p] = {}
        BY <3>2, <4>1, <4>2, Typed
      <4> QED
        BY <4>2, <4>3
    <3> QED
      BY <3>1, <3>3, Zenon
  <2>3. apc = "query" => Len(tlist) = Len(stmt.tlist)
    BY DEF AInv, Outcome
  <2> QED
    BY <2>1, <2>2, <2>3 DEF TypedAsCatalogSays
<1> QED
  BY <1>1, AInvAlways, PTL

\* Expr::hash, with an md5 that has no collisions: two targets of a query have
\* the same hash exactly when they are the same expression written at other
\* places, however deep they are.
THEOREM HashIsStructureAlways == ASpec => []HashIsStructure
<1>1. AInv => HashIsStructure
  BY EntryTree, HashStrip DEF HashIsStructure
<1> QED
  BY <1>1, AInvAlways, PTL

=============================================================================
