------------------------------ MODULE Analyze -------------------------------
(***************************************************************************)
(* The semantic analysis of a statement, parser/sem.rs, on the syntax tree *)
(* of parser/syn.rs.  (The crate does not include the parser at this       *)
(* commit; the catalog lookups it calls are external.)                     *)
(*                                                                         *)
(* A tree, of the syntax or of the query, is the sequence of its nodes in  *)
(* the order transform_expr_recurse is done with them: operands before     *)
(* their operator, which names them by their places, and the root last.    *)
(* A literal is its value and whether it was written with a point; an i32  *)
(* goes up to I32Max, an i64 up to I64Max, an AttrNumber is a u16 modulo   *)
(* U16Mod other than zero.  p_expr_kind is set and restored and never      *)
(* read: it is left out.                                                   *)
(***************************************************************************)
EXTENDS Integers, Sequences

CONSTANTS I32Max, I64Max,
          U16Mod,
          Operators, \* the operators of the catalog: name, left (<<>> if none),
                     \* right, oprcode (<<>> if the operator is only a shell)
          Procs,     \* the result type of each function
          Stmts      \* the statements that are analysed

ASSUME LimitsAssumption == I32Max \in Nat /\ I64Max \in Nat /\ I32Max <= I64Max
ASSUME U16Assumption == U16Mod \in Nat /\ U16Mod >= 2

\* Name, left and right are a key of the catalog.
ASSUME OperatorsAssumption ==
  /\ \A o \in Operators : o.oprcode = <<>> \/ o.oprcode = <<o.oprcode[1]>>
  /\ \A o, p \in Operators : o.name = p.name /\ o.left = p.left /\ o.right = p.right => o = p

\* The trees of syn.rs: AConst, and AExpr with its AExprOprands.
IsNode(n, i) ==
  \/ n.kind = "str"
  \/ n.kind = "num" /\ n.v \in Nat /\ n.point \in BOOLEAN
  \/ n.kind = "op" /\ \/ \E r \in 1..(i - 1) : n.args = <<r>>
                      \/ \E l, r \in 1..(i - 1) : n.args = <<l, r>>

IsTree(e) == Len(e) \in Nat \ {0} /\ DOMAIN e = 1..Len(e) /\ \A i \in DOMAIN e : IsNode(e[i], i)

ASSUME StmtsAssumption ==
  \A s \in Stmts : s.kind = "Select" =>
    Len(s.tlist) \in Nat /\ DOMAIN s.tlist = 1..Len(s.tlist) /\ \A i \in DOMAIN s.tlist : IsTree(s.tlist[i])

VARIABLES
  abuild,       \* "debug" or "release"
  stmt,         \* the statement
  apc,          \* "analyze", "targets", or the outcome: "utility", "query",
                \* "error", "panicked"
  tlist,        \* the target entries so far
  p_next_resno

avars == <<abuild, stmt, apc, tlist, p_next_resno>>

AInit ==
  /\ abuild \in {"debug", "release"} /\ stmt \in Stmts
  /\ apc = "analyze" /\ tlist = <<>> /\ p_next_resno = 1

-----------------------------------------------------------------------------
(* syn.rs and sql.lalrpop: numbers.                                        *)

IntVal(v)   == [num |-> "Int", neg |-> FALSE, point |-> FALSE, v |-> v]
FloatVal(l) == [num |-> "Float", neg |-> FALSE, point |-> l.point, v |-> l.v]

\* The text of a literal is an i32, or kept.
I_or_F_const(l) == IF ~l.point /\ l.v <= I32Max THEN IntVal(l.v) ELSE FloatVal(l)

-----------------------------------------------------------------------------
(* sem.rs: expressions.                                                    *)

\* In place of a node: an Err.
Fail == [node |-> "Err"]

\* Const::try_new.  f64's parse takes any text of the grammar.
ConstNum(n) ==
  IF n.num = "Int" THEN [typ |-> "INT4", v |-> n.v]
  ELSE [typ |-> IF ~n.point /\ n.v <= I64Max THEN "INT8" ELSE "FLOAT8",
        v   |-> IF n.neg THEN -n.v ELSE n.v]

Const(n) ==
  IF n.kind = "str" THEN [node |-> "Const", typ |-> "VARCHAR", v |-> n.v, loc |-> n.loc]
  ELSE LET c == ConstNum(I_or_F_const(n))
       IN  [node |-> "Const", typ |-> c.typ, v |-> c.v, loc |-> n.loc]

val_type(x) == IF x.node = "Const" THEN x.typ ELSE x.funcresulttype

\* opername_get_oprid and get_proc, with what make_op does of their results.
\* left is <<>> for a prefix operator.
make_op(n, left, right) ==
  LET found == {o \in Operators : o.name = n.name /\ o.left = left /\ o.right = right}
      o     == CHOOSE x \in found : TRUE
  IN  IF found = {} \/ o.oprcode = <<>> \/ o.oprcode[1] \notin DOMAIN Procs THEN Fail
      ELSE [node |-> "Func", funcid |-> o.oprcode[1], funcresulttype |-> Procs[o.oprcode[1]],
            args |-> n.args, loc |-> n.loc]

\* Mutant: both operands are taken to have the type of the right one.
make_op2_right(n, l, r) == make_op(n, <<val_type(r)>>, val_type(r))

make_op1(n, r)    == make_op(n, <<>>, val_type(r))
make_op2(n, l, r) == make_op(n, <<val_type(l)>>, val_type(r))

\* transform_expr_recurse for one node, when its operands are made.
transform_node(n, made) ==
  IF n.kind # "op" THEN Const(n)
  ELSE IF \E k \in DOMAIN n.args : made[n.args[k]] = Fail THEN Fail
  ELSE IF Len(n.args) = 1 THEN make_op1(n, made[n.args[1]])
  ELSE make_op2(n, made[n.args[1]], made[n.args[2]])

\* An Err anywhere is the Err of the whole.
transform_expr(e) == LET made[i \in DOMAIN e] == transform_node(e[i], made) IN made
Failed(x)         == \E i \in DOMAIN x : x[i] = Fail

\* Mutant: the function is left out of the hash.
HashNodeNoFunc(n, h) ==
  IF n.node = "Const" THEN <<"const", n.typ, n.v>>
  ELSE <<"func", n.funcresulttype, [k \in DOMAIN n.args |-> h[n.args[k]]]>>

\* hash: md5 of what it consumes, taken to have no collisions.
HashNode(n, h) ==
  IF n.node = "Const" THEN <<"const", n.typ, n.v>>
  ELSE <<"func", n.funcresulttype, n.funcid, [k \in DOMAIN n.args |-> h[n.args[k]]]>>

Hash(x) == LET h[i \in DOMAIN x] == HashNode(x[i], h) IN h[Len(x)]

-----------------------------------------------------------------------------
(* sem.rs: statements.                                                     *)

\* kb_analyze: utility statements go through as they are, and an empty one is
\* not expected.
kb_analyze ==
  /\ apc = "analyze"
  /\ apc' = CASE stmt.kind = "Select" -> "targets"
              [] stmt.kind = "Empty" -> "panicked"
              [] OTHER -> "utility"
  /\ UNCHANGED <<abuild, stmt, tlist, p_next_resno>>

Target == stmt.tlist[Len(tlist) + 1]

\* Mutant: the number is taken after it was counted up.
EntryLate(x) == [expr |-> x, resno |-> p_next_resno + 1]

Entry(x) == [expr |-> x, resno |-> p_next_resno]

\* transform_target_entry: the number of the next entry is made before this one
\* is returned.
transform_target_entry ==
  /\ apc = "targets" /\ Len(tlist) < Len(stmt.tlist)
  /\ LET x    == transform_expr(Target)
         next == p_next_resno + 1
     IN  CASE Failed(x) ->
                apc' = "error" /\ UNCHANGED <<tlist, p_next_resno>>
           [] ~Failed(x) /\ next = U16Mod ->
                apc' = (IF abuild = "debug" THEN "panicked" ELSE "error") /\ UNCHANGED <<tlist, p_next_resno>>
           [] ~Failed(x) /\ next < U16Mod ->
                /\ tlist' = Append(tlist, Entry(x))
                /\ p_next_resno' = next
                /\ UNCHANGED apc
  /\ UNCHANGED <<abuild, stmt>>

transform_select_stmt ==
  /\ apc = "targets" /\ Len(tlist) = Len(stmt.tlist)
  /\ apc' = "query"
  /\ UNCHANGED <<abuild, stmt, tlist, p_next_resno>>

Analyzed == apc \in {"utility", "query", "error", "panicked"} /\ UNCHANGED avars

ANext == kb_analyze \/ transform_target_entry \/ transform_select_stmt \/ Analyzed

ASpec == AInit /\ [][ANext]_avars

-----------------------------------------------------------------------------
(* The types an expression can have, from the leaves and the catalog alone. *)

LiteralType(n) ==
  CASE n.kind = "str" -> "VARCHAR"
    [] n.kind = "num" /\ ~n.point /\ n.v <= I32Max -> "INT4"
    [] n.kind = "num" /\ ~n.point /\ n.v \in (I32Max + 1)..I64Max -> "INT8"
    [] OTHER -> "FLOAT8"

NodeTypes(n, t) ==
  IF n.kind # "op" THEN {LiteralType(n)}
  ELSE {Procs[f] : f \in {g \in DOMAIN Procs :
          \E o \in Operators :
            /\ o.name = n.name /\ o.oprcode = <<g>>
            /\ o.right \in t[n.args[Len(n.args)]]
            /\ IF Len(n.args) = 1 THEN o.left = <<>> ELSE \E u \in t[n.args[1]] : o.left = <<u>>}}

Types(e) == LET t[i \in DOMAIN e] == NodeTypes(e[i], t) IN t

\* The expression as one value, without the places it was written at.
StripNode(n, s) ==
  IF n.node = "Const" THEN [n EXCEPT !.loc = 0]
  ELSE [n EXCEPT !.loc = 0, !.args = [k \in DOMAIN n.args |-> s[n.args[k]]]]

Strip(x) == LET s[i \in DOMAIN x] == StripNode(x[i], s) IN s[Len(x)]

-----------------------------------------------------------------------------
(* Properties.                                                             *)

\* Overload resolution by exact types, bottom up, through make_op: a query is
\* made exactly of targets that can be typed, each node with its type; and an
\* error comes at the first target that cannot, or at the one whose number is
\* the last an AttrNumber has, which is lost to the number after it.
TypedAsCatalogSays ==
  /\ \A i \in DOMAIN tlist : \A p \in DOMAIN stmt.tlist[i] :
       Types(stmt.tlist[i])[p] = {val_type(tlist[i].expr[p])}
  /\ apc = "error" =>
       /\ Len(tlist) < Len(stmt.tlist)
       /\ \/ \E p \in DOMAIN Target : Types(Target)[p] = {}
          \/ abuild = "release" /\ Len(tlist) = U16Mod - 2
  /\ apc = "query" => Len(tlist) = Len(stmt.tlist)

\* The entries are numbered from one without a gap, whatever errors end it.
ResnoIsPosition == \A i \in DOMAIN tlist : tlist[i].resno = i

\* Two expressions of a query have the same hash exactly when they differ at
\* most in where they were written.
HashIsStructure ==
  \A i, j \in DOMAIN tlist :
    Hash(tlist[i].expr) = Hash(tlist[j].expr) <=> Strip(tlist[i].expr) = Strip(tlist[j].expr)
=============================================================================
