----------------------------- MODULE ExprProofs -----------------------------
(***************************************************************************)
(* What evalExpr returns for every expression: trees of any size, built,   *)
(* shared, evaluated and freed in any order.                               *)
(***************************************************************************)
EXTENDS Expr, FiniteSetTheorems, SequenceTheorems, TLAPS

-----------------------------------------------------------------------------
(* Induction.  A number that is not in a set has a smallest one beside it,  *)
(* because the intervals from 0 are finite sets.                            *)

LEMMA Smallest ==
  ASSUME NEW S \in SUBSET Nat, S # {}
  PROVE  \E x \in S : \A y \in S : x <= y
<1> DEFINE T == {0 .. x : x \in S}
<1>1. \A x \in S : IsFiniteSet(0 .. x) /\ 0 .. x \in SUBSET Nat
  BY FS_Interval
<1>2. T \subseteq FiniteSubsetsOf(Nat)
  BY <1>1 DEF FiniteSubsetsOf
<1>3. T # {}
  OBVIOUS
<1>4. IsWellFoundedOn(StrictSubsetOrdering(Nat), FiniteSubsetsOf(Nat))
  BY FS_StrictSubsetOrderingWellFounded
<1>5. PICK t \in T : \A r \in T : ~(<<r, t>> \in StrictSubsetOrdering(Nat))
  <2> HIDE DEF T
  <2> QED BY <1>2, <1>3, <1>4, WFMin
<1>6. PICK x \in S : t = 0 .. x
  OBVIOUS
<1>7. ASSUME NEW y \in S, y < x PROVE FALSE
  <2>1. (0 .. y) \subseteq (0 .. x) /\ x \in 0 .. x /\ x \notin 0 .. y
    BY <1>7
  <2>2. <<0 .. y, t>> \in StrictSubsetOrdering(Nat)
    BY <1>6, <2>1, <1>7 DEF StrictSubsetOrdering
  <2> QED BY <1>5, <2>2
<1> QED BY <1>7

\* What holds of a number whenever it holds of all before it.
LEMMA FromBefore ==
  ASSUME NEW m \in Nat, NEW S,
         \A n \in 1 .. m : (\A k \in 1 .. n - 1 : k \in S) => n \in S
  PROVE  \A n \in 1 .. m : n \in S
<1> DEFINE Bad == {n \in 1 .. m : n \notin S}
<1> SUFFICES ASSUME Bad # {} PROVE FALSE
  OBVIOUS
<1>1. Bad \in SUBSET Nat
  OBVIOUS
<1>2. PICK x \in Bad : \A y \in Bad : x <= y
  <2> HIDE DEF Bad
  <2> QED BY <1>1, Smallest
<1>3. \A k \in 1 .. x - 1 : k \in S
  BY <1>2
<1> QED BY <1>2, <1>3

LEMMA FromZero ==
  ASSUME NEW m \in Nat, NEW S, 0 \in S,
         \A n \in 1 .. m : n - 1 \in S => n \in S
  PROVE  m \in S
<1> DEFINE Bad == {n \in 0 .. m : n \notin S}
<1> SUFFICES ASSUME Bad # {} PROVE FALSE
  OBVIOUS
<1>1. Bad \in SUBSET Nat
  OBVIOUS
<1>2. PICK x \in Bad : \A y \in Bad : x <= y
  <2> HIDE DEF Bad
  <2> QED BY <1>1, Smallest
<1>3. x # 0 /\ x \in 1 .. m
  BY <1>2
<1>4. x - 1 \in 0 .. m /\ x - 1 < x
  BY <1>3
<1>5. x - 1 \in S
  BY <1>2, <1>4
<1> QED BY <1>2, <1>3, <1>5

-----------------------------------------------------------------------------
(* Nodes *)

\* The shapes of a node: what the macros of expr.h build, and what freeExpr
\* leaves.
Constant(e, n) ==
  /\ e \in [type : {"EXPR_CONST"}, cons : Value]
  /\ IsValue(e.cons)
  /\ e.cons.string = n

Reference(e) == e \in [type : {"EXPR_ATTRREF"}, attr : DOMAIN Row]

Unary(e, n) ==
  e \in [type : {"EXPR_OP"}, op : {"OP_BOOL_NOT"}, args : [1 .. 1 -> 1 .. n]]

Binary(e, n) ==
  e \in [type : {"EXPR_OP"}, op : OpType \ {"OP_BOOL_NOT"},
         args : [1 .. 2 -> 1 .. n]]

Freed(e) == e = [type |-> "freed"]

Formed ==
  /\ node \in Seq(NodeType)
  /\ Len(node) <= MaxNodes
  /\ \A n \in DOMAIN node :
       \/ Constant(node[n], n)
       \/ Reference(node[n])
       \/ Unary(node[n], n)
       \/ Binary(node[n], n)
       \/ Freed(node[n])

LEMMA Operator ==
  ASSUME Formed, NEW n \in DOMAIN node, node[n].type = "EXPR_OP"
  PROVE  /\ Unary(node[n], n) \/ Binary(node[n], n)
         /\ node[n].op \in OpType
         /\ DOMAIN node[n].args = IF node[n].op = "OP_BOOL_NOT" THEN 1 .. 1 ELSE 1 .. 2
         /\ \A i \in DOMAIN node[n].args : node[n].args[i] \in 1 .. n
         /\ Args(n) = {node[n].args[i] : i \in DOMAIN node[n].args}
BY DEF Formed, Constant, Reference, Unary, Binary, Freed, Args, Range, OpType

LEMMA Numbers ==
  ASSUME Formed
  PROVE  /\ Len(node) \in Nat /\ DOMAIN node = 1 .. Len(node)
         /\ \A n \in DOMAIN node : Args(n) \subseteq 1 .. n
<1>1. Len(node) \in Nat /\ DOMAIN node = 1 .. Len(node)
  BY DEF Formed
<1>2. ASSUME NEW n \in DOMAIN node PROVE Args(n) \subseteq 1 .. n
  BY Operator DEF Args
<1> QED BY <1>1, <1>2

\* An operand is an older node, or the node itself.
LEMMA Older ==
  ASSUME Formed, NEW n \in DOMAIN node, node[n].type = "EXPR_OP"
  PROVE  \A i \in DOMAIN node[n].args :
           /\ node[n].args[i] \in DOMAIN node
           /\ node[n].args[i] \in Args(n)
           /\ node[n].args[i] # n => node[n].args[i] \in 1 .. n - 1
<1>1. n \in 1 .. Len(node) /\ Len(node) \in Nat /\ DOMAIN node = 1 .. Len(node)
  BY Numbers
<1> QED BY <1>1, Operator

-----------------------------------------------------------------------------
(* The recursive functions over the tree exist: what they say of a node      *)
(* depends on what they say of older ones only.                              *)

LEMMA BelowLocal ==
  ASSUME Formed, NEW n \in DOMAIN node, NEW f, NEW g,
         \A a \in 1 .. n - 1 : f[a] = g[a]
  PROVE  BelowNode(f, n) = BelowNode(g, n)
<1>1. \A a \in Args(n) \ {n} : f[a] = g[a]
  BY Numbers
<1> QED BY <1>1 DEF BelowNode

LEMMA BelowDefined ==
  ASSUME Formed
  PROVE  Below = [n \in DOMAIN node |-> BelowNode(Below, n)]
<1> DEFINE S == {k \in Nat : \E f : f = [n \in 1 .. k |-> BelowNode(f, n)]}
<1>1. 0 \in S
  <2> DEFINE e == [n \in 1 .. 0 |-> BelowNode(<<>>, n)]
  <2>1. e = [n \in 1 .. 0 |-> BelowNode(e, n)]
    OBVIOUS
  <2> QED BY <2>1
<1>2. ASSUME NEW k \in 1 .. Len(node), k - 1 \in S PROVE k \in S
  <2>1. PICK f : f = [n \in 1 .. k - 1 |-> BelowNode(f, n)]
    BY <1>2
  <2> DEFINE g == [n \in 1 .. k |-> BelowNode(f, n)]
  <2>2. \A a \in 1 .. k - 1 : f[a] = g[a]
    BY <2>1
  <2> HIDE DEF g
  <2>3. \A n \in 1 .. k : BelowNode(f, n) = BelowNode(g, n)
    <3> SUFFICES ASSUME NEW n \in 1 .. k PROVE BelowNode(f, n) = BelowNode(g, n)
      OBVIOUS
    <3>1. n \in DOMAIN node /\ \A a \in 1 .. n - 1 : f[a] = g[a]
      BY <1>2, <2>2, Numbers
    <3> QED BY <3>1, BelowLocal
  <2>4. g = [n \in 1 .. k |-> BelowNode(g, n)]
    BY <2>3 DEF g
  <2> QED BY <2>4
<1>3. Len(node) \in S
  <2> HIDE DEF S
  <2> QED BY <1>1, <1>2, FromZero, Numbers
<1>4. PICK f : f = [n \in DOMAIN node |-> BelowNode(f, n)]
  BY <1>3, Numbers
<1> QED BY <1>4, Zenon DEF Below

LEMMA EvalExprLocal ==
  ASSUME Formed, NEW n \in DOMAIN node, NEW f, NEW g,
         \A a \in 1 .. n - 1 : f[a] = g[a]
  PROVE  EvalNode(f, n) = EvalNode(g, n)
<1>1. CASE node[n].type # "EXPR_OP"
  BY <1>1 DEF EvalNode
<1>2. CASE node[n].type = "EXPR_OP"
  <2> DEFINE args == node[n].args
             in(h) == [i \in DOMAIN args |->
                         IF args[i] = n THEN Ended("crashed", Null, {})
                                        ELSE h[args[i]]]
  <2>1. \A i \in DOMAIN args : args[i] # n => f[args[i]] = g[args[i]]
    BY <1>2, Older
  <2>2. in(f) = in(g)
    BY <2>1
  <2>3. \A h : EvalNode(h, n) = EvalOp(node[n].op, in(h))
    BY <1>2 DEF EvalNode
  <2> HIDE DEF in
  <2> QED BY <2>2, <2>3
<1> QED BY <1>1, <1>2

LEMMA EvalExprDefined ==
  ASSUME Formed
  PROVE  EvalExpr = [n \in DOMAIN node |-> EvalNode(EvalExpr, n)]
<1> DEFINE S == {k \in Nat : \E f : f = [n \in 1 .. k |-> EvalNode(f, n)]}
<1>1. 0 \in S
  <2> DEFINE e == [n \in 1 .. 0 |-> EvalNode(<<>>, n)]
  <2>1. e = [n \in 1 .. 0 |-> EvalNode(e, n)]
    OBVIOUS
  <2> QED BY <2>1
<1>2. ASSUME NEW k \in 1 .. Len(node), k - 1 \in S PROVE k \in S
  <2>1. PICK f : f = [n \in 1 .. k - 1 |-> EvalNode(f, n)]
    BY <1>2
  <2> DEFINE g == [n \in 1 .. k |-> EvalNode(f, n)]
  <2>2. \A a \in 1 .. k - 1 : f[a] = g[a]
    BY <2>1
  <2> HIDE DEF g
  <2>3. \A n \in 1 .. k : EvalNode(f, n) = EvalNode(g, n)
    <3> SUFFICES ASSUME NEW n \in 1 .. k PROVE EvalNode(f, n) = EvalNode(g, n)
      OBVIOUS
    <3>1. n \in DOMAIN node /\ \A a \in 1 .. n - 1 : f[a] = g[a]
      BY <1>2, <2>2, Numbers
    <3> QED BY <3>1, EvalExprLocal
  <2>4. g = [n \in 1 .. k |-> EvalNode(g, n)]
    BY <2>3 DEF g
  <2> QED BY <2>4
<1>3. Len(node) \in S
  <2> HIDE DEF S
  <2> QED BY <1>1, <1>2, FromZero, Numbers
<1>4. PICK f : f = [n \in DOMAIN node |-> EvalNode(f, n)]
  BY <1>3, Numbers
<1> QED BY <1>4, Zenon DEF EvalExpr

LEMMA FreeOrderLocal ==
  ASSUME Formed, NEW n \in DOMAIN node, NEW f, NEW g,
         \A a \in 1 .. n - 1 : f[a] = g[a]
  PROVE  FreeNode(f, n) = FreeNode(g, n)
<1>1. CASE node[n].type # "EXPR_OP"
  BY <1>1 DEF FreeNode
<1>2. CASE node[n].type = "EXPR_OP"
  <2>1. \A i \in DOMAIN node[n].args : node[n].args[i] # n =>
          f[node[n].args[i]] = g[node[n].args[i]]
    BY <1>2, Older
  <2>2. 1 \in DOMAIN node[n].args
    BY <1>2, Operator
  <2>3. node[n].op # "OP_BOOL_NOT" => 2 \in DOMAIN node[n].args
    BY <1>2, Operator
  <2> QED BY <2>1, <2>2, <2>3 DEF FreeNode
<1> QED BY <1>1, <1>2

LEMMA FreeOrderDefined ==
  ASSUME Formed
  PROVE  FreeOrder = [n \in DOMAIN node |-> FreeNode(FreeOrder, n)]
<1> DEFINE S == {k \in Nat : \E f : f = [n \in 1 .. k |-> FreeNode(f, n)]}
<1>1. 0 \in S
  <2> DEFINE e == [n \in 1 .. 0 |-> FreeNode(<<>>, n)]
  <2>1. e = [n \in 1 .. 0 |-> FreeNode(e, n)]
    OBVIOUS
  <2> QED BY <2>1
<1>2. ASSUME NEW k \in 1 .. Len(node), k - 1 \in S PROVE k \in S
  <2>1. PICK f : f = [n \in 1 .. k - 1 |-> FreeNode(f, n)]
    BY <1>2
  <2> DEFINE g == [n \in 1 .. k |-> FreeNode(f, n)]
  <2>2. \A a \in 1 .. k - 1 : f[a] = g[a]
    BY <2>1
  <2> HIDE DEF g
  <2>3. \A n \in 1 .. k : FreeNode(f, n) = FreeNode(g, n)
    <3> SUFFICES ASSUME NEW n \in 1 .. k PROVE FreeNode(f, n) = FreeNode(g, n)
      OBVIOUS
    <3>1. n \in DOMAIN node /\ \A a \in 1 .. n - 1 : f[a] = g[a]
      BY <1>2, <2>2, Numbers
    <3> QED BY <3>1, FreeOrderLocal
  <2>4. g = [n \in 1 .. k |-> FreeNode(g, n)]
    BY <2>3 DEF g
  <2> QED BY <2>4
<1>3. Len(node) \in S
  <2> HIDE DEF S
  <2> QED BY <1>1, <1>2, FromZero, Numbers
<1>4. PICK f : f = [n \in DOMAIN node |-> FreeNode(f, n)]
  BY <1>3, Numbers
<1> QED BY <1>4, Zenon DEF FreeOrder

LEMMA MeaningLocal ==
  ASSUME Formed, NEW n \in DOMAIN node, NEW f, NEW g,
         \A a \in 1 .. n - 1 : f[a] = g[a]
  PROVE  MeaningNode(f, n) = MeaningNode(g, n)
<1>1. CASE node[n].type # "EXPR_OP" \/ n \in Args(n)
  BY <1>1 DEF MeaningNode, Args
<1>2. CASE node[n].type = "EXPR_OP" /\ n \notin Args(n)
  <2> DEFINE args == node[n].args
             in(h) == [i \in DOMAIN args |-> h[args[i]]]
  <2>1. \A i \in DOMAIN args : f[args[i]] = g[args[i]]
    BY <1>2, Older
  <2>2. in(f) = in(g)
    BY <2>1
  <2>3. \A h : MeaningNode(h, n) = Denotes(node[n].op, in(h))
    BY <1>2 DEF MeaningNode
  <2> HIDE DEF in
  <2> QED BY <2>2, <2>3
<1> QED BY <1>1, <1>2

LEMMA MeaningDefined ==
  ASSUME Formed
  PROVE  Meaning = [n \in DOMAIN node |-> MeaningNode(Meaning, n)]
<1> DEFINE S == {k \in Nat : \E f : f = [n \in 1 .. k |-> MeaningNode(f, n)]}
<1>1. 0 \in S
  <2> DEFINE e == [n \in 1 .. 0 |-> MeaningNode(<<>>, n)]
  <2>1. e = [n \in 1 .. 0 |-> MeaningNode(e, n)]
    OBVIOUS
  <2> QED BY <2>1
<1>2. ASSUME NEW k \in 1 .. Len(node), k - 1 \in S PROVE k \in S
  <2>1. PICK f : f = [n \in 1 .. k - 1 |-> MeaningNode(f, n)]
    BY <1>2
  <2> DEFINE g == [n \in 1 .. k |-> MeaningNode(f, n)]
  <2>2. \A a \in 1 .. k - 1 : f[a] = g[a]
    BY <2>1
  <2> HIDE DEF g
  <2>3. \A n \in 1 .. k : MeaningNode(f, n) = MeaningNode(g, n)
    <3> SUFFICES ASSUME NEW n \in 1 .. k PROVE MeaningNode(f, n) = MeaningNode(g, n)
      OBVIOUS
    <3>1. n \in DOMAIN node /\ \A a \in 1 .. n - 1 : f[a] = g[a]
      BY <1>2, <2>2, Numbers
    <3> QED BY <3>1, MeaningLocal
  <2>4. g = [n \in 1 .. k |-> MeaningNode(g, n)]
    BY <2>3 DEF g
  <2> QED BY <2>4
<1>3. Len(node) \in S
  <2> HIDE DEF S
  <2> QED BY <1>1, <1>2, FromZero, Numbers
<1>4. PICK f : f = [n \in DOMAIN node |-> MeaningNode(f, n)]
  BY <1>3, Numbers
<1> QED BY <1>4, Zenon DEF Meaning

-----------------------------------------------------------------------------
(* The operators.  AND and OR leave the tag of their result DT_INT, and the  *)
(* upper half of the -1 it was made with.                                    *)

Plain(val) == IsValue(val) /\ val.string = 0

Shifted(m, val) ==
  /\ m.dt = "DT_BOOL" /\ m.v \in {0, 1}
  /\ val.dt = "DT_INT" /\ val.v = m.v - Short
  /\ m # Wrong

Reads(m, val) == m = Typed(val) \/ Shifted(m, val)

\* An int between the negative of a short's span and its span.
LEMMA Halves ==
  ASSUME NEW x \in Int, -Short <= x, x < Short
  PROVE  x % Short = IF x < 0 THEN x + Short ELSE x
<1>1. ASSUME NEW d \in Nat \ {0}, -d <= x, x < d
      PROVE  x % d = IF x < 0 THEN x + d ELSE x
  BY <1>1
<1>2. Short \in Nat \ {0}
  BY DEF Short
<1> QED BY <1>1, <1>2

LEMMA SetBit ==
  ASSUME NEW b \in BOOLEAN
  PROVE  SetBoolV(MinusOne, b) = Own("DT_INT", Bit(b) - Short)
<1> DEFINE x == MinusOne.v
<1>1. MinusOne = [dt |-> "DT_INT", v |-> x, string |-> 0]
  BY DEF MinusOne, Own
<1>2. x \in Int /\ -Short <= x /\ x < 0 /\ x < Short /\ Short \in Int
  BY DEF MinusOne, Own, Short
<1> HIDE DEF x
<1>3. x % Short = x + Short /\ Bit(b) \in Int
  BY <1>2, Halves DEF Bit
<1>4. x - (x + Short) + Bit(b) = Bit(b) - Short
  BY <1>2, <1>3
<1> QED BY <1>1, <1>3, <1>4 DEF SetBoolV, Own

LEMMA BitIs ==
  /\ \A b \in BOOLEAN : /\ Bit(b) \in {0, 1} /\ (Bit(b) = 1 <=> b)
                        /\ Own("DT_INT", Bit(b) - Short) \in Value
                        /\ Truth(MinusOne, b) = Returns("RC_OK", Own("DT_BOOL", Bit(b)))
                        /\ Own("DT_BOOL", Bit(b)) \in Value
<1> SUFFICES ASSUME NEW b \in BOOLEAN
             PROVE  /\ Bit(b) \in {0, 1} /\ (Bit(b) = 1 <=> b)
                    /\ Own("DT_INT", Bit(b) - Short) \in Value
                    /\ Truth(MinusOne, b) = Returns("RC_OK", Own("DT_BOOL", Bit(b)))
                    /\ Own("DT_BOOL", Bit(b)) \in Value
  OBVIOUS
<1>1. Bit(b) \in {0, 1} /\ (Bit(b) = 1 <=> b)
  BY DEF Bit
<1>2. Short \in Int /\ 0 \in 0 .. MaxNodes
  BY NodesAssumption DEF Short
<1>3. \A dt \in DataType, v \in Int : Own(dt, v) \in Value
  BY <1>2 DEF Own, Value
<1>4. Truth(MinusOne, b) = Returns("RC_OK", Own("DT_BOOL", Bit(b)))
  <2>1. MinusOne.string = 0
    BY DEF MinusOne, Own
  <2> QED BY <2>1 DEF Truth, Own
<1>5. Bit(b) \in Int /\ Bit(b) - Short \in Int
  BY <1>1, <1>2
<1> QED BY <1>1, <1>3, <1>4, <1>5 DEF DataType

\* What an operator returns has a type, and a crash a cause.
LEMMA Applied ==
  ASSUME NEW op \in OpType, NEW in,
         \A i \in IF op = "OP_BOOL_NOT" THEN 1 .. 1 ELSE 1 .. 2 : Plain(in[i])
  PROVE  LET out == Apply(op, in, MinusOne)
         IN  /\ out.rc = "RC_OK" =>
                  /\ Plain(out.result)
                  /\ out.result.dt = IF op \in {"OP_BOOL_AND", "OP_BOOL_OR"}
                                       THEN "DT_INT" ELSE "DT_BOOL"
             /\ out.rc = "crash" =>
                  /\ op = "OP_COMP_SMALLER"
                  /\ in[1].dt = "DT_BOOL" /\ in[2].dt = "DT_BOOL"
<1>1. \A b \in BOOLEAN :
        /\ Plain(SetBoolV(MinusOne, b)) /\ SetBoolV(MinusOne, b).dt = "DT_INT"
        /\ Plain(Own("DT_BOOL", Bit(b))) /\ Own("DT_BOOL", Bit(b)).dt = "DT_BOOL"
  BY SetBit, BitIs DEF Plain, IsValue, Own
<1>2. \A b \in BOOLEAN :
        /\ Truth(MinusOne, b).rc = "RC_OK"
        /\ Truth(MinusOne, b).result = Own("DT_BOOL", Bit(b))
  BY BitIs DEF Returns
<1>3. CASE op = "OP_BOOL_NOT"
  BY <1>1, <1>2, <1>3 DEF Apply, BoolNot, NotBoolean, Returns
<1>4. CASE op = "OP_BOOL_AND"
  BY <1>1, <1>4 DEF Apply, BoolAnd, NotBoolean, Returns
<1>5. CASE op = "OP_BOOL_OR"
  BY <1>1, <1>5 DEF Apply, BoolOr, NotBoolean, Returns
<1>6. CASE op = "OP_COMP_EQUAL"
  BY <1>1, <1>2, <1>6 DEF Apply, ValueEquals, DifferentDatatype, Returns
<1>7. CASE op = "OP_COMP_SMALLER"
  <2>1. (in[1].v < in[2].v) \in BOOLEAN
    OBVIOUS
  <2> QED BY <1>1, <1>2, <1>7, <2>1
          DEF Apply, ValueSmaller, DifferentDatatype, Returns
<1> QED BY <1>3, <1>4, <1>5, <1>6, <1>7 DEF OpType

\* An operator on operands that read as what they mean returns what the
\* expression means.  It fails only for an expression that means nothing, or
\* for an operand that is the result of an AND or OR.
LEMMA AppliedMeans ==
  ASSUME NEW op \in OpType, NEW in, NEW m,
         DOMAIN m = IF op = "OP_BOOL_NOT" THEN 1 .. 1 ELSE 1 .. 2,
         \A i \in DOMAIN m : Plain(in[i]) /\ Reads(m[i], in[i])
  PROVE  LET out == Apply(op, in, MinusOne)
             d == Denotes(op, m)
         IN  /\ out.rc = "RC_OK" =>
                  \/ d = Wrong /\ \E i \in DOMAIN m : Shifted(m[i], in[i])
                  \/ op \in {"OP_BOOL_AND", "OP_BOOL_OR"} /\ Shifted(d, out.result)
                  \/ op \notin {"OP_BOOL_AND", "OP_BOOL_OR"} /\ d = Typed(out.result)
             /\ out.rc \notin {"RC_OK", "crash"} =>
                  d = Wrong \/ \E i \in DOMAIN m : Shifted(m[i], in[i])
<1> DEFINE Truly(k) == [dt |-> "DT_BOOL", v |-> k]
           out == Apply(op, in, MinusOne)
           d == Denotes(op, m)
<1>1. ASSUME NEW k \in {0, 1}
      PROVE  /\ Truly(k) # Wrong
             /\ Shifted(Truly(k), Own("DT_INT", k - Short))
             /\ Truly(k) = Typed(Own("DT_BOOL", k))
  BY DEF Wrong, Shifted, Own, Typed
<1>2. \A rc, r : Returns(rc, r).rc = rc /\ Returns(rc, r).result = r
  BY DEF Returns
<1>3. \A i \in DOMAIN m :
        /\ m[i] # Wrong
        /\ in[i].v \in Int
        /\ in[i].dt = "DT_BOOL" => in[i].v \in {0, 1}
        /\ ~Shifted(m[i], in[i]) => m[i].dt = in[i].dt /\ m[i].v = in[i].v
        /\ Shifted(m[i], in[i]) =>
             /\ in[i].dt = "DT_INT" /\ m[i].dt = "DT_BOOL"
             /\ in[i].v = m[i].v - Short /\ m[i].v \in {0, 1}
  <2> SUFFICES ASSUME NEW i \in DOMAIN m
               PROVE  /\ m[i] # Wrong
                      /\ in[i].v \in Int
                      /\ in[i].dt = "DT_BOOL" => in[i].v \in {0, 1}
                      /\ ~Shifted(m[i], in[i]) =>
                           m[i].dt = in[i].dt /\ m[i].v = in[i].v
    BY DEF Shifted
  <2>1. in[i] \in Value /\ (in[i].dt = "DT_BOOL" => in[i].v \in {0, 1})
    BY DEF Plain, IsValue
  <2>2. in[i].dt \in DataType /\ in[i].v \in Int
    BY <2>1 DEF Value
  <2>3. CASE m[i] = Typed(in[i])
    BY <2>1, <2>2, <2>3 DEF Typed, Wrong, DataType
  <2>4. CASE Shifted(m[i], in[i])
    BY <2>1, <2>2, <2>4 DEF Shifted
  <2> QED BY <2>3, <2>4 DEF Reads
<1>4. Wrong \notin Range(m)
  BY <1>3 DEF Range
<1>5. \A b \in BOOLEAN :
        /\ Typed(Own("DT_BOOL", Bit(b))) = Truly(IF b THEN 1 ELSE 0)
        /\ Truth(MinusOne, b) = Returns("RC_OK", Own("DT_BOOL", IF b THEN 1 ELSE 0))
        /\ SetBoolV(MinusOne, b) = Own("DT_INT", (IF b THEN 1 ELSE 0) - Short)
  BY SetBit, BitIs DEF Typed, Own, Bit
<1>6. Short \in Int
  BY DEF Short
<1> HIDE DEF Truly, out, d
<1>7. CASE op = "OP_BOOL_NOT"
  <2>1. d = IF m[1].dt # "DT_BOOL" THEN Wrong
            ELSE Truly(IF ~(m[1].v = 1) THEN 1 ELSE 0)
    <3>1. d = IF m[1].dt # "DT_BOOL" THEN Wrong
              ELSE Typed(Own("DT_BOOL", Bit(~(m[1].v = 1))))
      BY <1>3, <1>4, <1>7 DEF Denotes, d
    <3> QED BY <1>5, <3>1
  <2>2. out = IF in[1].dt # "DT_BOOL" THEN Returns("RC_RM_BOOLEAN_EXPR_ARG_IS_NOT_BOOLEAN", MinusOne)
              ELSE Returns("RC_OK", Own("DT_BOOL", IF in[1].v = 0 THEN 1 ELSE 0))
    <3>1. out = IF in[1].dt # "DT_BOOL" THEN Returns("RC_RM_BOOLEAN_EXPR_ARG_IS_NOT_BOOLEAN", MinusOne)
                ELSE Truth(MinusOne, in[1].v = 0)
      BY <1>7 DEF Apply, out, BoolNot, NotBoolean
    <3> QED BY <1>5, <3>1
  <2>3. 1 \in DOMAIN m
    BY <1>7
  <2>4. CASE in[1].dt # "DT_BOOL"
    <3>1. out.rc \notin {"RC_OK", "crash"}
      BY <1>2, <2>2, <2>4
    <3>2. d = Wrong \/ \E i \in DOMAIN m : Shifted(m[i], in[i])
      BY <1>3, <2>1, <2>3, <2>4
    <3> QED BY <3>1, <3>2 DEF out, d
  <2>5. CASE in[1].dt = "DT_BOOL"
    <3>1. d = Truly(IF in[1].v = 0 THEN 1 ELSE 0)
      BY <1>3, <2>1, <2>3, <2>5
    <3>2. out.rc = "RC_OK" /\ out.result = Own("DT_BOOL", IF in[1].v = 0 THEN 1 ELSE 0)
      BY <1>2, <2>2, <2>5
    <3>3. d = Typed(out.result)
      BY <1>1, <3>1, <3>2
    <3> QED BY <1>7, <3>2, <3>3 DEF out, d
  <2> QED BY <2>4, <2>5
<1>8. CASE op = "OP_BOOL_AND"
  <2>1. d = IF m[1].dt # "DT_BOOL" \/ m[2].dt # "DT_BOOL" THEN Wrong
            ELSE Truly(IF m[1].v = 1 /\ m[2].v = 1 THEN 1 ELSE 0)
    <3>1. d = IF m[1].dt # "DT_BOOL" \/ m[2].dt # "DT_BOOL" THEN Wrong
              ELSE Typed(Own("DT_BOOL", Bit(m[1].v = 1 /\ m[2].v = 1)))
      BY <1>3, <1>4, <1>8 DEF Denotes, d
    <3> QED BY <1>5, <3>1
  <2>2. out = IF in[1].dt # "DT_BOOL" \/ in[2].dt # "DT_BOOL" THEN Returns("RC_RM_BOOLEAN_EXPR_ARG_IS_NOT_BOOLEAN", MinusOne)
              ELSE Returns("RC_OK", Own("DT_INT", (IF in[1].v = 1 /\ in[2].v = 1 THEN 1 ELSE 0) - Short))
    <3>1. out = IF in[1].dt # "DT_BOOL" \/ in[2].dt # "DT_BOOL" THEN Returns("RC_RM_BOOLEAN_EXPR_ARG_IS_NOT_BOOLEAN", MinusOne)
                ELSE Returns("RC_OK", SetBoolV(MinusOne, in[1].v = 1 /\ in[2].v = 1))
      BY <1>8 DEF Apply, out, BoolAnd, NotBoolean
    <3> QED BY <1>5, <3>1
  <2>3. 1 \in DOMAIN m /\ 2 \in DOMAIN m
    BY <1>8
  <2>4. CASE in[1].dt # "DT_BOOL" \/ in[2].dt # "DT_BOOL"
    <3>1. out.rc \notin {"RC_OK", "crash"}
      BY <1>2, <2>2, <2>4
    <3>2. d = Wrong \/ \E i \in DOMAIN m : Shifted(m[i], in[i])
      BY <1>3, <2>1, <2>3, <2>4
    <3> QED BY <3>1, <3>2 DEF out, d
  <2>5. CASE in[1].dt = "DT_BOOL" /\ in[2].dt = "DT_BOOL"
    <3>1. d = Truly(IF in[1].v = 1 /\ in[2].v = 1 THEN 1 ELSE 0)
      BY <1>3, <2>1, <2>3, <2>5
    <3>2. out.rc = "RC_OK" /\ out.result = Own("DT_INT", (IF in[1].v = 1 /\ in[2].v = 1 THEN 1 ELSE 0) - Short)
      BY <1>2, <2>2, <2>5
    <3>3. Shifted(d, out.result)
      BY <1>1, <3>1, <3>2
    <3> QED BY <1>8, <3>2, <3>3 DEF out, d
  <2> QED BY <2>4, <2>5
<1>9. CASE op = "OP_BOOL_OR"
  <2>1. d = IF m[1].dt # "DT_BOOL" \/ m[2].dt # "DT_BOOL" THEN Wrong
            ELSE Truly(IF m[1].v = 1 \/ m[2].v = 1 THEN 1 ELSE 0)
    <3>1. d = IF m[1].dt # "DT_BOOL" \/ m[2].dt # "DT_BOOL" THEN Wrong
              ELSE Typed(Own("DT_BOOL", Bit(m[1].v = 1 \/ m[2].v = 1)))
      BY <1>3, <1>4, <1>9 DEF Denotes, d
    <3> QED BY <1>5, <3>1
  <2>2. out = IF in[1].dt # "DT_BOOL" \/ in[2].dt # "DT_BOOL" THEN Returns("RC_RM_BOOLEAN_EXPR_ARG_IS_NOT_BOOLEAN", MinusOne)
              ELSE Returns("RC_OK", Own("DT_INT", (IF in[1].v = 1 \/ in[2].v = 1 THEN 1 ELSE 0) - Short))
    <3>1. out = IF in[1].dt # "DT_BOOL" \/ in[2].dt # "DT_BOOL" THEN Returns("RC_RM_BOOLEAN_EXPR_ARG_IS_NOT_BOOLEAN", MinusOne)
                ELSE Returns("RC_OK", SetBoolV(MinusOne, in[1].v = 1 \/ in[2].v = 1))
      BY <1>9 DEF Apply, out, BoolOr, NotBoolean
    <3> QED BY <1>5, <3>1
  <2>3. 1 \in DOMAIN m /\ 2 \in DOMAIN m
    BY <1>9
  <2>4. CASE in[1].dt # "DT_BOOL" \/ in[2].dt # "DT_BOOL"
    <3>1. out.rc \notin {"RC_OK", "crash"}
      BY <1>2, <2>2, <2>4
    <3>2. d = Wrong \/ \E i \in DOMAIN m : Shifted(m[i], in[i])
      BY <1>3, <2>1, <2>3, <2>4
    <3> QED BY <3>1, <3>2 DEF out, d
  <2>5. CASE in[1].dt = "DT_BOOL" /\ in[2].dt = "DT_BOOL"
    <3>1. d = Truly(IF in[1].v = 1 \/ in[2].v = 1 THEN 1 ELSE 0)
      BY <1>3, <2>1, <2>3, <2>5
    <3>2. out.rc = "RC_OK" /\ out.result = Own("DT_INT", (IF in[1].v = 1 \/ in[2].v = 1 THEN 1 ELSE 0) - Short)
      BY <1>2, <2>2, <2>5
    <3>3. Shifted(d, out.result)
      BY <1>1, <3>1, <3>2
    <3> QED BY <1>9, <3>2, <3>3 DEF out, d
  <2> QED BY <2>4, <2>5
<1>10. CASE op = "OP_COMP_EQUAL"
  <2>1. d = IF m[1].dt # m[2].dt THEN Wrong
            ELSE Truly(IF m[1].v = m[2].v THEN 1 ELSE 0)
    <3>1. d = IF m[1].dt # m[2].dt THEN Wrong
              ELSE Typed(Own("DT_BOOL", Bit(m[1].v = m[2].v)))
      BY <1>3, <1>4, <1>10 DEF Denotes, d
    <3> QED BY <1>5, <3>1
  <2>2. out = IF in[1].dt # in[2].dt THEN Returns("RC_RM_COMPARE_VALUE_OF_DIFFERENT_DATATYPE", MinusOne)
              ELSE Returns("RC_OK", Own("DT_BOOL", IF in[1].v = in[2].v THEN 1 ELSE 0))
    <3>1. out = IF in[1].dt # in[2].dt THEN Returns("RC_RM_COMPARE_VALUE_OF_DIFFERENT_DATATYPE", MinusOne)
                ELSE Truth(MinusOne, in[1].v = in[2].v)
      BY <1>10 DEF Apply, out, ValueEquals, DifferentDatatype
    <3> QED BY <1>5, <3>1
  <2>3. 1 \in DOMAIN m /\ 2 \in DOMAIN m
    BY <1>10
  <2>4. CASE in[1].dt # in[2].dt
    <3>1. out.rc \notin {"RC_OK", "crash"}
      BY <1>2, <2>2, <2>4
    <3>2. d = Wrong \/ \E i \in DOMAIN m : Shifted(m[i], in[i])
      BY <1>3, <2>1, <2>3, <2>4
    <3> QED BY <3>1, <3>2 DEF out, d
  <2>5. CASE in[1].dt = in[2].dt
    <3>1. ASSUME d # Wrong
          PROVE  m[1].dt = m[2].dt /\ (m[1].v = m[2].v <=> in[1].v = in[2].v)
      BY <1>3, <1>6, <2>1, <2>3, <2>5, <3>1
    <3>2. m[1].dt # m[2].dt => \E i \in DOMAIN m : Shifted(m[i], in[i])
      BY <1>3, <2>3, <2>5
    <3>3. d = Wrong => \E i \in DOMAIN m : Shifted(m[i], in[i])
      BY <1>1, <2>1, <3>2
    <3>4. \/ out.rc = "crash"
          \/ out.rc = "RC_OK" /\ out.result = Own("DT_BOOL", IF in[1].v = in[2].v THEN 1 ELSE 0)
      BY <1>2, <2>2, <2>5
    <3>5. d # Wrong => d = Truly(IF in[1].v = in[2].v THEN 1 ELSE 0)
      BY <2>1, <3>1
    <3>6. out.rc = "RC_OK" /\ d # Wrong => d = Typed(out.result)
      BY <1>1, <3>4, <3>5
    <3> QED BY <1>10, <3>3, <3>4, <3>6 DEF out, d
  <2> QED BY <2>4, <2>5
<1>11. CASE op = "OP_COMP_SMALLER"
  <2>1. d = IF m[1].dt # m[2].dt THEN Wrong
            ELSE Truly(IF m[1].v < m[2].v THEN 1 ELSE 0)
    <3>1. d = IF m[1].dt # m[2].dt THEN Wrong
              ELSE Typed(Own("DT_BOOL", Bit(m[1].v < m[2].v)))
      BY <1>3, <1>4, <1>11 DEF Denotes, d
    <3> QED BY <3>1 DEF Typed, Own, Bit, Truly
  <2>2. out = IF in[1].dt # in[2].dt THEN Returns("RC_RM_COMPARE_VALUE_OF_DIFFERENT_DATATYPE", MinusOne)
            ELSE IF in[1].dt = "DT_BOOL" THEN Returns("crash", MinusOne)
              ELSE Returns("RC_OK", Own("DT_BOOL", IF in[1].v < in[2].v THEN 1 ELSE 0))
    <3>1. out = IF in[1].dt # in[2].dt THEN Returns("RC_RM_COMPARE_VALUE_OF_DIFFERENT_DATATYPE", MinusOne)
            ELSE IF in[1].dt = "DT_BOOL" THEN Returns("crash", MinusOne)
                ELSE Truth(MinusOne, in[1].v < in[2].v)
      BY <1>11 DEF Apply, out, ValueSmaller, DifferentDatatype
    <3>2. MinusOne.string = 0
      BY DEF MinusOne, Own
    <3> QED BY <3>1, <3>2 DEF Truth, Own, Bit
  <2>3. 1 \in DOMAIN m /\ 2 \in DOMAIN m
    BY <1>11
  <2>4. CASE in[1].dt # in[2].dt
    <3>1. out.rc \notin {"RC_OK", "crash"}
      BY <1>2, <2>2, <2>4
    <3>2. d = Wrong \/ \E i \in DOMAIN m : Shifted(m[i], in[i])
      BY <1>3, <2>1, <2>3, <2>4
    <3> QED BY <3>1, <3>2 DEF out, d
  <2>5. CASE in[1].dt = in[2].dt
    <3>1. ASSUME d # Wrong
          PROVE  m[1].dt = m[2].dt /\ (m[1].v < m[2].v <=> in[1].v < in[2].v)
      BY <1>3, <1>6, <2>1, <2>3, <2>5, <3>1
    <3>2. m[1].dt # m[2].dt => \E i \in DOMAIN m : Shifted(m[i], in[i])
      BY <1>3, <2>3, <2>5
    <3>3. d = Wrong => \E i \in DOMAIN m : Shifted(m[i], in[i])
      BY <1>1, <2>1, <3>2
    <3>4. \/ out.rc = "crash"
          \/ out.rc = "RC_OK" /\ out.result = Own("DT_BOOL", IF in[1].v < in[2].v THEN 1 ELSE 0)
      BY <1>2, <2>2, <2>5
    <3>5. d # Wrong => d = Truly(IF in[1].v < in[2].v THEN 1 ELSE 0)
      BY <2>1, <3>1
    <3>6. out.rc = "RC_OK" /\ d # Wrong => d = Typed(out.result)
      BY <1>1, <3>4, <3>5
    <3> QED BY <1>11, <3>3, <3>4, <3>6 DEF out, d
  <2> QED BY <2>4, <2>5
<1> QED BY <1>7, <1>8, <1>9, <1>10, <1>11 DEF OpType

-----------------------------------------------------------------------------
(* Trees *)

LEMMA BelowIs ==
  ASSUME Formed, NEW n \in DOMAIN node
  PROVE  /\ n \in Below[n]
         /\ \A a \in Args(n) : a \in DOMAIN node /\ Below[a] \subseteq Below[n]
<1>1. Below[n] = {n} \cup UNION {Below[a] : a \in Args(n) \ {n}}
  <2>1. Below[n] = BelowNode(Below, n)
    <3> DEFINE B == [k \in DOMAIN node |-> BelowNode(Below, k)]
    <3>1. Below = B
      BY BelowDefined
    <3>2. B[n] = BelowNode(Below, n)
      OBVIOUS
    <3> HIDE DEF B
    <3> QED BY <3>1, <3>2
  <2> QED BY <2>1 DEF BelowNode
<1>2. \A a \in Args(n) : a \in DOMAIN node
  BY Numbers
<1> QED BY <1>1, <1>2

LEMMA LiveArgs ==
  ASSUME Formed, NEW n \in DOMAIN node, Live(n)
  PROVE  /\ node[n].type # "freed"
         /\ \A a \in Args(n) : Live(a)
BY BelowIs DEF Live

\* What is below an operand is below the operator.
LEMMA Inherited ==
  ASSUME Formed, NEW n \in DOMAIN node, NEW a \in Args(n)
  PROVE  /\ Nested(a) => Nested(n)
         /\ Looped(a) => Looped(n)
         /\ OrdersBools(a) => OrdersBools(n)
         /\ Connective(a) => Nested(n)
         /\ a = n => Looped(n)
<1>1. n \in Below[n] /\ Below[a] \subseteq Below[n]
  BY BelowIs
<1>2. Nested(a) => Nested(n)
  BY <1>1 DEF Nested
<1>3. Looped(a) => Looped(n)
  BY <1>1 DEF Looped
<1>4. OrdersBools(a) => OrdersBools(n)
  BY <1>1 DEF OrdersBools
<1>5. Connective(a) => Nested(n)
  BY <1>1 DEF Nested
<1>6. a = n => Looped(n)
  BY <1>1 DEF Looped
<1> QED BY <1>2, <1>3, <1>4, <1>5, <1>6

LEMMA EvalIs ==
  ASSUME Formed, NEW n \in DOMAIN node
  PROVE  /\ EvalExpr[n] = EvalNode(EvalExpr, n)
         /\ Meaning[n] = MeaningNode(Meaning, n)
<1> DEFINE E == [k \in DOMAIN node |-> EvalNode(EvalExpr, k)]
           M == [k \in DOMAIN node |-> MeaningNode(Meaning, k)]
<1>1. EvalExpr = E /\ Meaning = M
  BY EvalExprDefined, MeaningDefined
<1>2. E[n] = EvalNode(EvalExpr, n) /\ M[n] = MeaningNode(Meaning, n)
  OBVIOUS
<1> HIDE DEF E, M
<1> QED BY <1>1, <1>2

-----------------------------------------------------------------------------
(* What evalExpr returns *)

Right(n, val) ==
  \/ /\ Meaning[n] = Wrong /\ Nested(n)
     /\ val.dt = "DT_BOOL" =>
          IsOp(n, {"OP_BOOL_NOT", "OP_COMP_EQUAL", "OP_COMP_SMALLER"})
  \/ Connective(n) /\ Shifted(Meaning[n], val)
  \/ ~Connective(n) /\ Meaning[n] = Typed(val)

Sound(n) ==
  /\ EvalExpr[n].freed = {}
  /\ \/ /\ EvalExpr[n].how = "returned"
        /\ Plain(EvalExpr[n].val) /\ Right(n, EvalExpr[n].val)
     \/ /\ EvalExpr[n].how = "exited" /\ EvalExpr[n].val = Null
        /\ Meaning[n] = Wrong \/ Nested(n)
     \/ /\ EvalExpr[n].how = "crashed" /\ EvalExpr[n].val = Null
        /\ OrdersBools(n) \/ Looped(n)

LEMMA LeafSound ==
  ASSUME Formed, NEW n \in DOMAIN node,
         node[n].type # "EXPR_OP", node[n].type # "freed"
  PROVE  Sound(n)
<1>1. ~Connective(n)
  BY DEF Connective, IsOp
<1>2. \A v \in Value : IsValue(v) =>
        Plain([v EXCEPT !.string = 0]) /\ Typed([v EXCEPT !.string = 0]) = Typed(v)
  BY NodesAssumption DEF Plain, IsValue, Value, Typed
<1>3. CASE Constant(node[n], n)
  <2>1. node[n].type = "EXPR_CONST" /\ IsValue(node[n].cons) /\ node[n].cons \in Value
    BY <1>3 DEF Constant, IsValue
  <2>2. EvalExpr[n] = Ended("returned", CPVAL(node[n].cons), {})
    BY <2>1, EvalIs DEF EvalNode, EvalLeaf
  <2>3. Meaning[n] = Typed(node[n].cons)
    BY <2>1, EvalIs DEF MeaningNode
  <2>4. Plain(CPVAL(node[n].cons)) /\ Typed(CPVAL(node[n].cons)) = Typed(node[n].cons)
    BY <1>2, <2>1 DEF CPVAL
  <2> QED BY <1>1, <2>2, <2>3, <2>4 DEF Sound, Right, Ended
<1>4. CASE Reference(node[n])
  <2>1. node[n].type = "EXPR_ATTRREF" /\ node[n].attr \in DOMAIN Row
    BY <1>4 DEF Reference
  <2>2. EvalExpr[n] = Ended("returned", GetAttr(node[n].attr), {})
    BY <2>1, EvalIs DEF EvalNode, EvalLeaf
  <2>3. Meaning[n] = Typed(GetAttr(node[n].attr))
    BY <2>1, EvalIs DEF MeaningNode
  <2>4. Plain(GetAttr(node[n].attr))
    BY <2>1, RowAssumption, NodesAssumption DEF Plain, IsValue, Value, GetAttr, Own
  <2> QED BY <1>1, <2>2, <2>3, <2>4 DEF Sound, Right, Ended
<1> QED BY <1>3, <1>4 DEF Formed, Unary, Binary, Freed

LEMMA TypedIs ==
  ASSUME NEW val, Plain(val)
  PROVE  /\ Typed(val).dt = val.dt
         /\ ~Shifted(Typed(val), val)
         /\ Typed(val) # Wrong
<1>1. val.dt # "wrong"
  BY DEF Plain, IsValue, Value, DataType
<1>2. Typed(val).dt = val.dt /\ Wrong.dt = "wrong"
  BY DEF Typed, Wrong
<1> QED BY <1>1, <1>2 DEF Shifted

\* An operator is right when its operands are.
LEMMA OpSound ==
  ASSUME Formed, NEW n \in DOMAIN node, node[n].type = "EXPR_OP",
         \A a \in Args(n) : a # n => Sound(a)
  PROVE  Sound(n)
<1> DEFINE op == node[n].op
           args == node[n].args
           arg == [i \in DOMAIN args |->
                     IF args[i] = n THEN Ended("crashed", Null, {})
                                    ELSE EvalExpr[args[i]]]
           in == [i \in DOMAIN arg |-> arg[i].val]
           m == [i \in DOMAIN args |-> Meaning[args[i]]]
           lost == {i \in DOMAIN arg : arg[i].how # "returned"}
           freed == UNION {arg[i].freed \cup FreeVal(in[i]) : i \in DOMAIN arg}
           out == Apply(op, in, MinusOne)
<1>1. /\ op \in OpType
      /\ DOMAIN args = IF op = "OP_BOOL_NOT" THEN 1 .. 1 ELSE 1 .. 2
      /\ Args(n) = {args[i] : i \in DOMAIN args}
  BY Operator
<1>2. \A i \in DOMAIN args :
        /\ args[i] \in DOMAIN node /\ args[i] \in Args(n)
        /\ args[i] # n => arg[i] = EvalExpr[args[i]] /\ Sound(args[i])
        /\ args[i] = n => arg[i] = Ended("crashed", Null, {})
  BY <1>1, Older
<1>3. EvalExpr[n] =
        IF lost # {} THEN arg[IF 1 \in lost THEN 1 ELSE 2]
        ELSE CASE out.rc = "RC_OK" -> Ended("returned", out.result, freed)
               [] out.rc = "crash" -> Ended("crashed", Null, {})
               [] OTHER -> Ended("exited", Null, {})
  <2>1. EvalExpr[n] = EvalOp(op, arg)
    BY EvalIs DEF EvalNode
  <2> HIDE DEF op, arg
  <2> QED BY <2>1 DEF EvalOp
<1>4. Meaning[n] = IF n \in Args(n) THEN Wrong ELSE Denotes(op, m)
  BY EvalIs DEF MeaningNode
<1>5. ASSUME NEW i \in DOMAIN args, Meaning[args[i]] = Wrong
      PROVE  Meaning[n] = Wrong
  <2>1. m[i] = Wrong /\ i \in DOMAIN m
    BY <1>5
  <2> HIDE DEF m
  <2>2. Wrong \in Range(m)
    BY <2>1 DEF Range
  <2> QED BY <1>4, <2>2 DEF Denotes
<1>6. DOMAIN arg = DOMAIN args /\ DOMAIN in = DOMAIN args /\ DOMAIN m = DOMAIN args
      /\ \A i \in DOMAIN args : in[i] = arg[i].val /\ m[i] = Meaning[args[i]]
  OBVIOUS
<1>7. \A how, val, f : /\ Ended(how, val, f).how = how
                       /\ Ended(how, val, f).val = val
                       /\ Ended(how, val, f).freed = f
  BY DEF Ended
<1> HIDE DEF op, args, arg, in, m, out, freed
<1>8. CASE lost # {}
  <2>1. PICK j \in lost : EvalExpr[n] = arg[j]
    BY <1>1, <1>3, <1>6, <1>8
  <2>2. j \in DOMAIN args /\ arg[j].how # "returned"
    BY <1>6
  <2> HIDE DEF lost
  <2>3. CASE args[j] = n
    BY <1>2, <1>7, <2>1, <2>2, <2>3, Inherited DEF Sound
  <2>4. CASE args[j] # n
    <3>1. Sound(args[j]) /\ EvalExpr[n] = EvalExpr[args[j]] /\ args[j] \in Args(n)
      BY <1>2, <2>1, <2>2, <2>4
    <3> QED BY <1>5, <2>1, <2>2, <3>1, Inherited DEF Sound
  <2> QED BY <2>3, <2>4
<1>9. CASE lost = {}
  <2>1. \A i \in DOMAIN args :
          /\ args[i] # n /\ Plain(in[i]) /\ Right(args[i], in[i])
          /\ arg[i].freed = {} /\ FreeVal(in[i]) = {}
    <3> SUFFICES ASSUME NEW i \in DOMAIN args
                 PROVE  /\ args[i] # n /\ Plain(in[i]) /\ Right(args[i], in[i])
                        /\ arg[i].freed = {} /\ FreeVal(in[i]) = {}
      OBVIOUS
    <3>1. arg[i].how = "returned"
      BY <1>6, <1>9
    <3>2. args[i] # n
      BY <1>2, <1>7, <3>1
    <3>3. /\ Plain(in[i]) /\ Right(args[i], in[i]) /\ arg[i].freed = {}
      BY <1>2, <1>6, <3>1, <3>2 DEF Sound
    <3> QED BY <3>2, <3>3 DEF Plain, FreeVal
  <2>2. freed = {}
    BY <1>6, <2>1 DEF freed
  <2>3. EvalExpr[n] = CASE out.rc = "RC_OK" -> Ended("returned", out.result, {})
                        [] out.rc = "crash" -> Ended("crashed", Null, {})
                        [] OTHER -> Ended("exited", Null, {})
    BY <1>3, <1>9, <2>2
  <2> HIDE DEF lost
  <2>4. \A i \in DOMAIN args : Shifted(m[i], in[i]) => Nested(n)
    <3> SUFFICES ASSUME NEW i \in DOMAIN args, Shifted(m[i], in[i]) PROVE Nested(n)
      OBVIOUS
    <3>1. Connective(args[i]) \/ Nested(args[i])
      BY <1>6, <2>1, TypedIs DEF Right
    <3> QED BY <1>2, <3>1, Inherited
  <2>5. \/ Meaning[n] = Wrong /\ Nested(n)
        \/ /\ Meaning[n] = Denotes(op, m)
           /\ \A i \in DOMAIN args : Reads(m[i], in[i])
    <3>1. CASE \E i \in DOMAIN args : Meaning[args[i]] = Wrong
      <4>1. PICK i \in DOMAIN args : Meaning[args[i]] = Wrong
        BY <3>1
      <4>2. ~Shifted(Wrong, in[i])
        BY DEF Shifted
      <4>3. Nested(args[i])
        BY <2>1, <4>1, <4>2, TypedIs DEF Right
      <4> QED BY <1>2, <1>5, <4>1, <4>3, Inherited
    <3>2. CASE \A i \in DOMAIN args : Meaning[args[i]] # Wrong
      <4>1. \A i \in DOMAIN args : Reads(m[i], in[i])
        BY <1>6, <2>1, <3>2 DEF Right, Reads
      <4>2. n \notin Args(n)
        BY <1>1, <2>1
      <4> QED BY <1>4, <4>1, <4>2
    <3> QED BY <3>1, <3>2
  <2>6. /\ out.rc = "RC_OK" =>
             /\ Plain(out.result)
             /\ out.result.dt = IF op \in {"OP_BOOL_AND", "OP_BOOL_OR"}
                                  THEN "DT_INT" ELSE "DT_BOOL"
        /\ out.rc = "crash" =>
             /\ op = "OP_COMP_SMALLER"
             /\ in[1].dt = "DT_BOOL" /\ in[2].dt = "DT_BOOL"
    <3>1. \A i \in IF op = "OP_BOOL_NOT" THEN 1 .. 1 ELSE 1 .. 2 : Plain(in[i])
      BY <1>1, <2>1
    <3> QED BY <1>1, <3>1, Applied DEF out
  <2>7. IsOp(n, {op}) /\ (Connective(n) <=> op \in {"OP_BOOL_AND", "OP_BOOL_OR"})
    BY DEF IsOp, Connective, op
  <2>8. CASE out.rc = "RC_OK"
    <3>1. EvalExpr[n] = Ended("returned", out.result, {})
      BY <2>3, <2>8
    <3>2. out.result.dt = "DT_BOOL" =>
            IsOp(n, {"OP_BOOL_NOT", "OP_COMP_EQUAL", "OP_COMP_SMALLER"})
      BY <1>1, <2>6, <2>8 DEF IsOp, op, OpType
    <3>3. Right(n, out.result)
      <4>1. CASE Meaning[n] = Wrong /\ Nested(n)
        BY <3>2, <4>1 DEF Right
      <4>2. CASE /\ Meaning[n] = Denotes(op, m)
                 /\ \A i \in DOMAIN args : Reads(m[i], in[i])
        <5>1. \/ Denotes(op, m) = Wrong /\ \E i \in DOMAIN m : Shifted(m[i], in[i])
              \/ op \in {"OP_BOOL_AND", "OP_BOOL_OR"} /\ Shifted(Denotes(op, m), out.result)
              \/ op \notin {"OP_BOOL_AND", "OP_BOOL_OR"}
                   /\ Denotes(op, m) = Typed(out.result)
          BY <1>1, <1>6, <2>1, <2>8, <4>2, AppliedMeans DEF out
        <5> QED BY <1>6, <2>4, <2>7, <3>2, <4>2, <5>1 DEF Right
      <4> QED BY <2>5, <4>1, <4>2
    <3> QED BY <1>7, <2>6, <2>8, <3>1, <3>3 DEF Sound
  <2>9. CASE out.rc = "crash"
    <3>1. EvalExpr[n] = Ended("crashed", Null, {})
      BY <2>3, <2>9
    <3>2. op = "OP_COMP_SMALLER" /\ in[1].dt = "DT_BOOL" /\ in[2].dt = "DT_BOOL"
      BY <2>6, <2>9
    <3>3. ASSUME NEW a \in Args(n)
          PROVE  \/ Meaning[a].dt = "DT_BOOL"
                 \/ IsOp(a, {"OP_BOOL_NOT", "OP_COMP_EQUAL", "OP_COMP_SMALLER"})
      <4>1. PICK i \in DOMAIN args : a = args[i]
        BY <1>1
      <4>2. in[i].dt = "DT_BOOL" /\ Right(a, in[i])
        BY <1>1, <2>1, <3>2, <4>1
      <4> QED BY <4>2 DEF Right, Shifted, Typed
    <3>4. IsOp(n, {"OP_COMP_SMALLER"}) /\ n \in Below[n]
      BY <2>7, <3>2, BelowIs
    <3>5. OrdersBools(n)
      BY <3>3, <3>4 DEF OrdersBools
    <3> QED BY <1>7, <3>1, <3>5 DEF Sound
  <2>10. CASE out.rc \notin {"RC_OK", "crash"}
    <3>1. EvalExpr[n] = Ended("exited", Null, {})
      BY <2>3, <2>10
    <3>2. Meaning[n] = Wrong \/ Nested(n)
      <4>1. CASE /\ Meaning[n] = Denotes(op, m)
                 /\ \A i \in DOMAIN args : Reads(m[i], in[i])
        <5>1. Denotes(op, m) = Wrong \/ \E i \in DOMAIN m : Shifted(m[i], in[i])
          BY <1>1, <1>6, <2>1, <2>10, <4>1, AppliedMeans DEF out
        <5> QED BY <1>6, <2>4, <4>1, <5>1
      <4> QED BY <2>5, <4>1
    <3> QED BY <1>7, <3>1, <3>2 DEF Sound
  <2> QED BY <2>8, <2>9, <2>10
<1> QED BY <1>8, <1>9

\* Every live expression, of any size.
LEMMA TreeSound ==
  ASSUME Formed, NEW n \in DOMAIN node, Live(n)
  PROVE  Sound(n)
<1> DEFINE S == {k \in Nat : Live(k) => Sound(k)}
<1>1. ASSUME NEW k \in 1 .. Len(node), \A j \in 1 .. k - 1 : j \in S
      PROVE  k \in S
  <2> SUFFICES ASSUME Live(k) PROVE Sound(k)
    OBVIOUS
  <2>1. k \in DOMAIN node /\ Args(k) \subseteq 1 .. k
    BY Numbers
  <2>2. node[k].type # "freed" /\ \A a \in Args(k) : Live(a)
    BY <2>1, LiveArgs
  <2>3. \A a \in Args(k) : a # k => a \in 1 .. k - 1
    BY <2>1
  <2>4. \A a \in Args(k) : a # k => Sound(a)
    BY <1>1, <2>2, <2>3
  <2> QED BY <2>1, <2>2, <2>4, LeafSound, OpSound
<1>2. n \in 1 .. Len(node) /\ Len(node) \in Nat
  BY Numbers
<1>3. n \in S
  <2> HIDE DEF S
  <2> QED BY <1>1, <1>2, FromBefore
<1> QED BY <1>3

-----------------------------------------------------------------------------
(* What freeExpr frees *)

LEMMA FreeIs ==
  ASSUME Formed, NEW n \in DOMAIN node
  PROVE  FreeOrder[n] = FreeNode(FreeOrder, n)
<1> DEFINE F == [k \in DOMAIN node |-> FreeNode(FreeOrder, k)]
<1>1. FreeOrder = F
  BY FreeOrderDefined
<1>2. F[n] = FreeNode(FreeOrder, n)
  OBVIOUS
<1> HIDE DEF F
<1> QED BY <1>1, <1>2

\* A set of nodes that has the operands of all of them.
WholeTrees(R) == \A m \in R : Args(m) \subseteq R

FreesTree(n) ==
  /\ FreeOrder[n] \in Seq(Nat)
  /\ n \in Range(FreeOrder[n])
  /\ WholeTrees(Range(FreeOrder[n]))

LEMMA FreesNode ==
  ASSUME Formed, NEW n \in DOMAIN node, \A a \in Args(n) : a # n => FreesTree(a)
  PROVE  FreesTree(n)
<1> DEFINE below(a) == IF a = n THEN <<n>> ELSE FreeOrder[a]
<1>1. n \in Nat /\ <<n>> \in Seq(Nat) /\ Range(<<n>>) = {n}
  BY Numbers DEF Range
<1>2. \A s, t \in Seq(Nat) : s \o t \in Seq(Nat) /\ Range(s \o t) = Range(s) \cup Range(t)
  BY RangeConcatenation
<1>3. \A a \in Args(n) : /\ below(a) \in Seq(Nat)
                         /\ a \in Range(below(a))
                         /\ \A m \in Range(below(a)) : m = n \/ Args(m) \subseteq Range(below(a))
  BY <1>1 DEF FreesTree, WholeTrees
<1>4. FreeOrder[n] =
        IF node[n].type # "EXPR_OP" THEN <<n>>
        ELSE IF node[n].op = "OP_BOOL_NOT"
          THEN below(node[n].args[1]) \o <<n>>
          ELSE below(node[n].args[1]) \o below(node[n].args[2]) \o <<n>>
  BY FreeIs DEF FreeNode
<1> HIDE DEF below
<1>5. CASE node[n].type # "EXPR_OP"
  <2>1. FreeOrder[n] = <<n>> /\ Args(n) = {}
    BY <1>4, <1>5 DEF Args
  <2> QED BY <1>1, <2>1 DEF FreesTree, WholeTrees
<1>6. CASE node[n].type = "EXPR_OP" /\ node[n].op = "OP_BOOL_NOT"
  <2> DEFINE a == node[n].args[1]
  <2>1. Args(n) = {a}
    BY <1>6, Operator
  <2>2. FreeOrder[n] = below(a) \o <<n>>
    BY <1>4, <1>6
  <2> HIDE DEF a
  <2>3. below(a) \in Seq(Nat)
    BY <1>3, <2>1
  <2>4. /\ below(a) \o <<n>> \in Seq(Nat)
        /\ Range(below(a) \o <<n>>) = Range(below(a)) \cup {n}
    <3> DEFINE t == <<n>>
    <3>1. t \in Seq(Nat) /\ Range(t) = {n}
      BY <1>1
    <3> HIDE DEF t
    <3>2. below(a) \o t \in Seq(Nat) /\ Range(below(a) \o t) = Range(below(a)) \cup Range(t)
      BY <1>2, <2>3, <3>1
    <3>3. t = <<n>>
      BY DEF t
    <3> QED BY <3>1, <3>2, <3>3
  <2>5. /\ FreeOrder[n] \in Seq(Nat)
        /\ Range(FreeOrder[n]) = Range(below(a)) \cup {n}
    BY <2>2, <2>4
  <2> QED BY <1>3, <2>1, <2>5 DEF FreesTree, WholeTrees
<1>7. CASE node[n].type = "EXPR_OP" /\ node[n].op # "OP_BOOL_NOT"
  <2> DEFINE a == node[n].args[1]
             b == node[n].args[2]
  <2>1. Args(n) = {a, b}
    BY <1>7, Operator
  <2>2. FreeOrder[n] = below(a) \o below(b) \o <<n>>
    BY <1>4, <1>7
  <2> HIDE DEF a, b
  <2>3. /\ below(a) \o below(b) \in Seq(Nat)
        /\ Range(below(a) \o below(b)) = Range(below(a)) \cup Range(below(b))
    BY <1>2, <1>3, <2>1
  <2>4. /\ FreeOrder[n] \in Seq(Nat)
        /\ Range(FreeOrder[n]) = Range(below(a)) \cup Range(below(b)) \cup {n}
    BY <1>1, <1>2, <2>2, <2>3
  <2> QED BY <1>3, <2>1, <2>4 DEF FreesTree, WholeTrees
<1> QED BY <1>5, <1>6, <1>7

LEMMA FreeWhole ==
  ASSUME Formed, NEW n \in DOMAIN node
  PROVE  FreesTree(n)
<1> DEFINE S == {k \in Nat : FreesTree(k)}
<1>1. ASSUME NEW k \in 1 .. Len(node), \A j \in 1 .. k - 1 : j \in S
      PROVE  k \in S
  <2>1. k \in DOMAIN node /\ Args(k) \subseteq 1 .. k
    BY Numbers
  <2>2. \A a \in Args(k) : a # k => a \in 1 .. k - 1
    BY <2>1
  <2> QED BY <1>1, <2>1, <2>2, FreesNode
<1>2. n \in 1 .. Len(node) /\ Len(node) \in Nat
  BY Numbers
<1>3. n \in S
  <2> HIDE DEF S
  <2> QED BY <1>1, <1>2, FromBefore
<1> QED BY <1>3

LEMMA StringToValuePlain ==
  ASSUME NEW text \in Texts
  PROVE  Plain(StringToValue(text))
<1>1. text.rest \in Int /\ 0 \in 0 .. MaxNodes
  BY TextsAssumption, NodesAssumption
<1>2. \A dt \in DataType, v \in Int :
        dt = "DT_BOOL" /\ v \in {0, 1} => Plain(Own(dt, v))
  BY <1>1 DEF Own, Plain, IsValue, Value
<1>3. \A dt \in DataType, v \in Int : dt # "DT_BOOL" => Plain(Own(dt, v))
  BY <1>1 DEF Own, Plain, IsValue, Value
<1>4. Bit(text.rest = 1) \in {0, 1}
  BY DEF Bit
<1>5. Plain(MinusOne)
  BY <1>3 DEF MinusOne, DataType
<1>6. "DT_BOOL" \in DataType /\ {0, 1} \subseteq Int
  BY DEF DataType
<1>7. Plain(Own("DT_BOOL", Bit(text.rest = 1)))
  BY <1>2, <1>4, <1>6
<1> QED BY <1>1, <1>3, <1>5, <1>7 DEF StringToValue, DataType

-----------------------------------------------------------------------------
(* The invariant: the nodes are what the macros build, and the caller has    *)
(* either just evaluated a live expression or has no result.                 *)

JustEvaluated ==
  /\ used \in DOMAIN node /\ Live(used)
  /\ res = EvalExpr[used].val
  /\ process = IF EvalExpr[used].how = "returned" THEN "running"
                                                  ELSE EvalExpr[used].how

Idle == used = 0 /\ res = Null /\ process \in {"running", "aborted"}

TwiceFreed == \E x \in Names : Holds(x) /\ ~IsInjective(FreeOrder[name[x]])

EInv ==
  /\ Formed
  /\ name \in [Names -> DOMAIN node \cup {Null}]
  /\ JustEvaluated \/ Idle
  /\ process = "aborted" => TwiceFreed

LEMMA Held ==
  ASSUME EInv, NEW x \in Names, Holds(x)
  PROVE  name[x] \in DOMAIN node /\ Live(name[x])
BY DEF EInv, Holds

\* An allocation leaves the older nodes alone.
LEMMA BuildKeeps ==
  ASSUME EInv, NEW x \in Names, NEW e, Build(x, e), e \in NodeType,
         \/ Constant(e, Built) \/ Reference(e)
         \/ Unary(e, Built) \/ Binary(e, Built)
  PROVE  EInv'
<1>1. /\ Len(node) \in Nat /\ DOMAIN node = 1 .. Len(node)
      /\ node \in Seq(NodeType) /\ Built = Len(node) + 1
  BY Numbers DEF EInv, Formed, Built
<1>2. /\ node' = Append(node, e) /\ Built <= MaxNodes /\ name' = Assigned(x)
      /\ res' = Null /\ used' = 0 /\ process = "running" /\ process' = process
  BY DEF Build, Looked
<1>3. /\ node' \in Seq(NodeType) /\ Len(node') = Built /\ DOMAIN node' = 1 .. Built
      /\ node'[Built] = e
      /\ \A n \in DOMAIN node : node'[n] = node[n]
  BY <1>1, <1>2, AppendProperties
<1>4. Formed'
  <2>1. ASSUME NEW n \in DOMAIN node'
        PROVE  \/ Constant(node'[n], n) \/ Reference(node'[n])
               \/ Unary(node'[n], n) \/ Binary(node'[n], n) \/ Freed(node'[n])
    <3>1. CASE n = Built
      BY <1>3, <3>1
    <3>2. CASE n # Built
      <4>1. n \in DOMAIN node
        BY <1>1, <1>3, <3>2
      <4> QED BY <1>3, <4>1 DEF EInv, Formed
    <3> QED BY <3>1, <3>2
  <2>2. \A n \in DOMAIN node' :
          /\ Constant(node[n], n)' <=> Constant(node'[n], n)
          /\ Reference(node[n])' <=> Reference(node'[n])
          /\ Unary(node[n], n)' <=> Unary(node'[n], n)
          /\ Binary(node[n], n)' <=> Binary(node'[n], n)
          /\ Freed(node[n])' <=> Freed(node'[n])
    BY DEF Constant, Reference, Unary, Binary, Freed
  <2> QED BY <1>2, <1>3, <2>1, <2>2 DEF Formed
<1>5. name' \in [Names -> DOMAIN node' \cup {Null}]
  BY <1>1, <1>2, <1>3 DEF EInv, Assigned
<1>6. Idle' /\ process' # "aborted"
  BY <1>2 DEF Idle
<1> QED BY <1>4, <1>5, <1>6 DEF EInv

LEMMA MakeConsInv ==
  ASSUME EInv, NEW x \in Names, NEW text \in Texts, MakeCons(x, text)
  PROVE  EInv'
<1> DEFINE cons == [StringToValue(text) EXCEPT !.string = Built]
           e == [type |-> "EXPR_CONST", cons |-> cons]
<1>1. Build(x, e)
  BY DEF MakeCons
<1>2. Built \in 0 .. MaxNodes
  BY <1>1, Numbers, NodesAssumption DEF Build, Built, EInv
<1>3. Plain(StringToValue(text))
  BY TextsAssumption, StringToValuePlain
<1>4. cons \in Value /\ IsValue(cons) /\ cons.string = Built
  BY <1>2, <1>3 DEF Plain, IsValue, Value
<1> HIDE DEF cons
<1>5. e \in NodeType /\ Constant(e, Built)
  BY <1>4 DEF NodeType, Constant
<1> HIDE DEF e
<1> QED BY <1>1, <1>5, BuildKeeps

LEMMA MakeAttrrefInv ==
  ASSUME EInv, NEW x \in Names, NEW attr \in DOMAIN Row, MakeAttrref(x, attr)
  PROVE  EInv'
<1> DEFINE e == [type |-> "EXPR_ATTRREF", attr |-> attr]
<1>1. e \in NodeType /\ Reference(e) /\ Build(x, e)
  BY DEF NodeType, Reference, MakeAttrref
<1> HIDE DEF e
<1> QED BY <1>1, BuildKeeps

\* An operand is a node that was there, or the one that is being built.
LEMMA Operand ==
  ASSUME EInv, NEW x \in Names, NEW e, Build(x, e),
         NEW y \in Names, y = x \/ Holds(y)
  PROVE  /\ Assigned(x)[y] \in 1 .. Built
         /\ 1 .. Built \subseteq 1 .. MaxNodes
<1>1. /\ Len(node) \in Nat /\ DOMAIN node = 1 .. Len(node)
      /\ Built = Len(node) + 1 /\ Built <= MaxNodes /\ MaxNodes \in Nat
  BY Numbers, NodesAssumption DEF EInv, Built, Build
<1>2. y # x => name[y] \in DOMAIN node
  BY Held
<1> QED BY <1>1, <1>2 DEF EInv, Assigned

LEMMA MakeUnopInv ==
  ASSUME EInv, NEW x \in Names, NEW input \in Names, MakeUnop(x, input)
  PROVE  EInv'
<1> DEFINE a == Assigned(x)[input]
           e == [type |-> "EXPR_OP", op |-> "OP_BOOL_NOT", args |-> <<a>>]
<1>1. Build(x, e) /\ (input = x \/ Holds(input))
  BY DEF MakeUnop
<1>2. a \in 1 .. Built /\ 1 .. Built \subseteq 1 .. MaxNodes
  <2> HIDE DEF e
  <2> QED BY <1>1, Operand
<1> HIDE DEF a
<1>3. <<a>> \in [1 .. 1 -> 1 .. Built] /\ <<a>> \in Seq(1 .. MaxNodes)
  BY <1>2
<1>4. e \in NodeType /\ Unary(e, Built)
  BY <1>3 DEF NodeType, Unary, OpType
<1> HIDE DEF e
<1> QED BY <1>1, <1>4, BuildKeeps

LEMMA MakeBinopInv ==
  ASSUME EInv, NEW x \in Names, NEW left \in Names, NEW right \in Names,
         NEW op \in Ops \ {"OP_BOOL_NOT"}, MakeBinop(x, left, right, op)
  PROVE  EInv'
<1> DEFINE a == Assigned(x)[left]
           b == Assigned(x)[right]
           e == [type |-> "EXPR_OP", op |-> op, args |-> <<a, b>>]
<1>1. Build(x, e) /\ (left = x \/ Holds(left)) /\ (right = x \/ Holds(right))
  BY DEF MakeBinop
<1>2. a \in 1 .. Built /\ b \in 1 .. Built /\ 1 .. Built \subseteq 1 .. MaxNodes
  <2> HIDE DEF e
  <2> QED BY <1>1, Operand
<1> HIDE DEF a, b
<1>3. <<a, b>> \in [1 .. 2 -> 1 .. Built] /\ <<a, b>> \in Seq(1 .. MaxNodes)
  BY <1>2
<1>4. e \in NodeType /\ Binary(e, Built)
  BY <1>3, OpsAssumption DEF NodeType, Binary
<1> HIDE DEF e
<1> QED BY <1>1, <1>4, BuildKeeps

\* What a step that leaves the nodes alone leaves alone.
LEMMA SameTrees ==
  ASSUME node' = node
  PROVE  /\ Formed' <=> Formed
         /\ EvalExpr' = EvalExpr
         /\ FreeOrder' = FreeOrder
         /\ \A n : Live(n)' <=> Live(n)
<1>1. Formed' <=> Formed
  BY DEF Formed, Constant, Reference, Unary, Binary, Freed
<1>2. EvalExpr' = EvalExpr
  BY DEF EvalExpr, EvalNode
<1>3. FreeOrder' = FreeOrder
  BY DEF FreeOrder, FreeNode
<1>4. \A n : Live(n)' <=> Live(n)
  BY DEF Live, Below, BelowNode, Args
<1> QED BY <1>1, <1>2, <1>3, <1>4

\* An evaluation gives no constant's characters back.
LEMMA EvaluateKeeps ==
  ASSUME EInv, NEW x \in Names, Evaluate(x)
  PROVE  node' = node
<1>1. name[x] \in DOMAIN node /\ Live(name[x])
  BY Held DEF Evaluate
<1>2. EvalExpr[name[x]].freed = {}
  BY <1>1, TreeSound DEF EInv, Sound
<1>3. node' = [n \in DOMAIN node |-> node[n]]
  BY <1>2 DEF Evaluate
<1> QED BY <1>3 DEF EInv, Formed

LEMMA EvaluateInv ==
  ASSUME EInv, NEW x \in Names, Evaluate(x)
  PROVE  EInv'
<1>1. name[x] \in DOMAIN node /\ Live(name[x])
  BY Held DEF Evaluate
<1>2. node' = node
  BY EvaluateKeeps
<1>3. /\ res' = EvalExpr[name[x]].val
      /\ process' = IF EvalExpr[name[x]].how = "returned" THEN process
                                                          ELSE EvalExpr[name[x]].how
      /\ process = "running" /\ used' = name[x] /\ name' = name
  BY DEF Evaluate
<1>4. EvalExpr[name[x]].how \in {"returned", "exited", "crashed"}
  BY <1>1, TreeSound DEF EInv, Sound
<1>5. JustEvaluated'
  BY <1>1, <1>2, <1>3, SameTrees DEF JustEvaluated
<1> QED BY <1>2, <1>3, <1>4, <1>5, SameTrees DEF EInv

LEMMA FreeExprInv ==
  ASSUME EInv, NEW x \in Names, FreeExpr(x)
  PROVE  EInv'
<1> DEFINE order == FreeOrder[name[x]]
<1>1. Holds(x) /\ process = "running" /\ Idle'
  BY DEF FreeExpr, Looked, Idle
<1>2. CASE ~IsInjective(order)
  <2>1. node' = node /\ name' = name
    BY <1>2 DEF FreeExpr
  <2>2. TwiceFreed /\ (TwiceFreed' <=> TwiceFreed)
    BY <1>1, <1>2, <2>1, SameTrees DEF TwiceFreed, Holds
  <2> QED BY <1>1, <2>1, <2>2, SameTrees DEF EInv
<1>3. CASE IsInjective(order)
  <2> DEFINE R == Range(order)
  <2>1. /\ node' = [n \in DOMAIN node |->
                      IF n \in R THEN [type |-> "freed"] ELSE node[n]]
        /\ name' = [y \in Names |-> IF name[y] \in R THEN Null ELSE name[y]]
        /\ process' = process
    BY <1>3 DEF FreeExpr
  <2> HIDE DEF R
  <2>2. /\ Len(node) \in Nat /\ DOMAIN node = 1 .. Len(node)
        /\ node \in Seq(NodeType) /\ Len(node) <= MaxNodes
    BY Numbers DEF EInv, Formed
  <2>3. ASSUME NEW n \in DOMAIN node
        PROVE  /\ node'[n] = node[n] \/ Freed(node'[n])
               /\ node'[n] \in NodeType
    BY <2>1, <2>2, <2>3 DEF Freed, NodeType
  <2>4. node' \in Seq(NodeType) /\ Len(node') = Len(node) /\ DOMAIN node' = DOMAIN node
    BY <2>1, <2>2, <2>3
  <2>5. ASSUME NEW n \in DOMAIN node
        PROVE  \/ Constant(node'[n], n) \/ Reference(node'[n])
               \/ Unary(node'[n], n) \/ Binary(node'[n], n) \/ Freed(node'[n])
    BY <2>3 DEF EInv, Formed
  <2>6. Formed'
    <3>1. \A n \in DOMAIN node' :
            /\ Constant(node[n], n)' <=> Constant(node'[n], n)
            /\ Reference(node[n])' <=> Reference(node'[n])
            /\ Unary(node[n], n)' <=> Unary(node'[n], n)
            /\ Binary(node[n], n)' <=> Binary(node'[n], n)
            /\ Freed(node[n])' <=> Freed(node'[n])
      BY DEF Constant, Reference, Unary, Binary, Freed
    <3> QED BY <2>2, <2>4, <2>5, <3>1 DEF Formed
  <2>7. name' \in [Names -> DOMAIN node' \cup {Null}]
    BY <2>1, <2>4 DEF EInv
  <2> QED BY <1>1, <2>1, <2>6, <2>7 DEF EInv
<1> QED BY <1>2, <1>3

LEMMA InitInv == Init => EInv
<1> SUFFICES ASSUME Init PROVE EInv
  OBVIOUS
<1>1. node = <<>> /\ node \in Seq(NodeType) /\ Len(node) = 0 /\ DOMAIN node = {}
  BY DEF Init
<1>2. Formed
  BY <1>1, NodesAssumption DEF Formed
<1> QED BY <1>2 DEF Init, EInv, Idle

LEMMA StutterInv ==
  ASSUME EInv, UNCHANGED vars
  PROVE  EInv'
<1>1. /\ node' = node /\ name' = name /\ res' = res
      /\ process' = process /\ used' = used
  BY DEF vars
<1>2. JustEvaluated' <=> JustEvaluated
  BY <1>1, SameTrees DEF JustEvaluated
<1>3. Idle' <=> Idle
  BY <1>1 DEF Idle
<1>4. TwiceFreed' <=> TwiceFreed
  BY <1>1, SameTrees DEF TwiceFreed, Holds
<1> QED BY <1>1, <1>2, <1>3, <1>4, SameTrees DEF EInv

LEMMA NextInv ==
  ASSUME EInv, Next
  PROVE  EInv'
BY MakeConsInv, MakeAttrrefInv, MakeUnopInv, MakeBinopInv, EvaluateInv,
   FreeExprInv DEF Next

THEOREM Invariance == Spec => []EInv
<1>1. Init => EInv
  BY InitInv
<1>2. EInv /\ [Next]_vars => EInv'
  BY NextInv, StutterInv
<1> QED BY <1>1, <1>2, PTL DEF Spec

-----------------------------------------------------------------------------
(* The properties *)

\* Every tag, variable and result has its C type, in every tree.
THEOREM TypeCorrect == Spec => []TypeOK
<1>1. EInv => TypeOK
  <2> SUFFICES ASSUME EInv PROVE TypeOK
    OBVIOUS
  <2>1. /\ Len(node) \in Nat /\ DOMAIN node = 1 .. Len(node)
        /\ \A n \in DOMAIN node : Args(n) \subseteq 1 .. n
    BY Numbers DEF EInv
  <2>2. \A n \in DOMAIN node :
          node[n].type = "EXPR_CONST" => IsValue(node[n].cons)
    BY DEF EInv, Formed, Constant, Reference, Unary, Binary, Freed
  <2>3. /\ res # Null => IsValue(res)
        /\ process \in {"running", "exited", "crashed", "aborted"}
        /\ used \in 0 .. Len(node)
    <3>1. CASE JustEvaluated
      BY <2>1, <3>1, TreeSound DEF EInv, JustEvaluated, Sound, Plain
    <3>2. CASE Idle
      BY <2>1, <3>2 DEF Idle
    <3> QED BY <3>1, <3>2 DEF EInv
  <2> QED BY <2>1, <2>2, <2>3 DEF EInv, Formed, TypeOK
<1> QED BY <1>1, Invariance, PTL

\* What there is to say of a result.
LEMMA ResultIs ==
  ASSUME EInv, Evaluated
  PROVE  /\ JustEvaluated /\ used \in DOMAIN node
         /\ res # Null => Plain(res) /\ Right(used, res)
         /\ process = "exited" => Meaning[used] = Wrong \/ Nested(used)
         /\ process = "crashed" => OrdersBools(used) \/ Looped(used)
<1>1. JustEvaluated
  BY DEF EInv, Evaluated, Idle
<1>2. used \in DOMAIN node /\ Sound(used)
  BY <1>1, TreeSound DEF EInv, JustEvaluated
<1> QED BY <1>1, <1>2 DEF JustEvaluated, Sound

LEMMA BoolVIs ==
  /\ \A val : val.v \in {0, 1} => (BoolV(val) <=> val.v = 1)
  /\ \A val : val.v \in {0 - Short, 1 - Short} => (BoolV(val) <=> val.v = 1 - Short)
  /\ BoolV(MinusOne)
<1>1. Short \in Nat /\ Short > 1
  BY DEF Short
<1>2. ASSUME NEW val, val.v \in {0, 1} PROVE BoolV(val) <=> val.v = 1
  <2>1. val.v % Short = val.v
    BY <1>1, <1>2, Halves
  <2> QED BY <1>2, <2>1 DEF BoolV
<1>3. ASSUME NEW val, val.v \in {0 - Short, 1 - Short}
      PROVE  BoolV(val) <=> val.v = 1 - Short
  <2> DEFINE w == val.v
  <2>1. w \in Int /\ -Short <= w /\ w < 0 /\ w < Short
    BY <1>1, <1>3
  <2>2. w + Short = 0 <=> w # 1 - Short
    BY <1>1, <1>3
  <2> HIDE DEF w
  <2>3. w % Short = w + Short
    BY <2>1, Halves
  <2>4. (w % Short # 0) <=> w = 1 - Short
    BY <2>2, <2>3
  <2> QED BY <2>4 DEF BoolV, w
<1>4. BoolV(MinusOne)
  <2> DEFINE w == MinusOne.v
  <2>1. w \in Int /\ -Short <= w /\ w < 0 /\ w < Short /\ w + Short # 0
    BY DEF MinusOne, Own, Short
  <2> HIDE DEF w
  <2>2. w % Short = w + Short
    BY <2>1, Halves
  <2>3. w % Short # 0
    BY <2>1, <2>2
  <2> QED BY <2>3 DEF BoolV, w
<1> QED BY <1>2, <1>3, <1>4

\* evalExpr (expr.c:92-149) returns what the expression means, for a tree of
\* any size: a result that is not the meaning was made of the result of an AND
\* or OR, whose tag expr.c:77 and :87 leave as it was.
THEOREM MeansIt == Spec => []ResultIsMeaning
<1>1. EInv => ResultIsMeaning
  <2> SUFFICES ASSUME EInv, Evaluated, res # Null
               PROVE  LET meant == Meaning[used]
                      IN CASE meant = Wrong -> Nested(used)
                           [] meant.dt = "DT_BOOL" -> BoolV(res) = (meant.v = 1)
                           [] OTHER -> Typed(res) = meant
    BY Zenon DEF ResultIsMeaning
  <2> DEFINE meant == Meaning[used]
  <2>1. Plain(res) /\ Right(used, res)
    BY ResultIs
  <2>2. CASE meant = Wrong /\ Nested(used)
    <3>1. meant = Wrong /\ meant.dt # "DT_BOOL"
      BY <2>2 DEF Wrong
    <3> HIDE DEF meant
    <3> QED BY <2>2, <3>1 DEF meant
  <2>3. CASE Shifted(meant, res)
    <3>1. /\ meant # Wrong /\ meant.dt = "DT_BOOL" /\ meant.v \in {0, 1}
          /\ res.v = meant.v - Short
      BY <2>3 DEF Shifted
    <3>2. res.v \in {0 - Short, 1 - Short} /\ (res.v = 1 - Short <=> meant.v = 1)
      BY <3>1 DEF Short
    <3>3. BoolV(res) <=> meant.v = 1
      BY <3>2, BoolVIs
    <3>4. BoolV(res) \in BOOLEAN
      BY DEF BoolV
    <3> QED BY <3>1, <3>3, <3>4
  <2>4. CASE meant = Typed(res)
    <3>1. meant # Wrong /\ meant.dt = res.dt /\ meant.v = res.v
      BY <2>1, <2>4, TypedIs DEF Typed
    <3>2. meant.dt = "DT_BOOL" => (BoolV(res) <=> meant.v = 1)
      BY <2>1, <3>1, BoolVIs DEF Plain, IsValue
    <3>3. BoolV(res) \in BOOLEAN
      BY DEF BoolV
    <3> QED BY <2>4, <3>1, <3>2, <3>3
  <2> QED BY <2>1, <2>2, <2>3, <2>4 DEF Right
<1> QED BY <1>1, Invariance, PTL

\* CHECK (expr.c:108-127) ends the process for no expression that is right and
\* uses the result of no AND or OR.
THEOREM ExitCaused == Spec => []ExitHasCause
<1>1. EInv => ExitHasCause
  BY ResultIs DEF ExitHasCause
<1> QED BY <1>1, Invariance, PTL

\* evalExpr crashes only where valueSmaller (expr.c:51-54) orders two bools and
\* where a macro's result was its operand; freeExpr (expr.c:151-181) aborts
\* only for a tree that has a node twice.
THEOREM CrashCaused == Spec => []CrashHasCause
<1>1. EInv => CrashHasCause
  BY ResultIs DEF CrashHasCause, EInv, TwiceFreed
<1> QED BY <1>1, Invariance, PTL

\* The cleanup of evalExpr (expr.c:134-136) frees the copies CPVAL made
\* (expr.h:56-58), and a constant keeps its characters for the next call.
THEOREM Owned == Spec => []ConstantsOwned
<1>1. EInv => ConstantsOwned
  BY DEF EInv, Formed, ConstantsOwned, Constant, Reference, Unary, Binary, Freed
<1> QED BY <1>1, Invariance, PTL

\* The assertions of test_expr.c (:105-122) hold of every expression that means
\* what they compare it with, those that valueEquals (expr.c:10-36) refuses to
\* compare included: what it leaves behind is not FALSE.
THEOREM TestSees == Spec => []TestSeesTrue
<1>1. EInv => TestSeesTrue
  <2> SUFFICES ASSUME EInv, Evaluated, res # Null, NEW text \in Meant
               PROVE  BoolV(Verdict(text).result)
    BY DEF TestSeesTrue
  <2> DEFINE val == StringToValue(text)
  <2>1. text \in Texts /\ Typed(val) = Meaning[used]
    BY DEF Meant
  <2>2. Plain(val) /\ Right(used, res)
    BY <2>1, ResultIs, StringToValuePlain
  <2> HIDE DEF val
  <2>3. val.dt # res.dt \/ val.v = res.v
    <3>1. Meaning[used] # Wrong
      BY <2>1, <2>2, TypedIs
    <3> QED BY <2>1, <3>1, <2>2 DEF Right, Shifted, Typed
  <2>4. CASE val.dt # res.dt
    BY <2>4, BoolVIs DEF Verdict, ValueEquals, DifferentDatatype, Returns, val
  <2>5. CASE val.dt = res.dt
    <3>1. Verdict(text).result = Own("DT_BOOL", 1)
      <4> DEFINE b == (val.v = res.v)
      <4>1. b = TRUE /\ b \in BOOLEAN
        BY <2>3, <2>5
      <4>2. Verdict(text) = Truth(MinusOne, b)
        BY <2>5 DEF Verdict, ValueEquals, val
      <4> HIDE DEF b
      <4>3. Verdict(text) = Returns("RC_OK", Own("DT_BOOL", Bit(b))) /\ Bit(b) = 1
        BY <4>1, <4>2, BitIs
      <4> QED BY <4>3 DEF Returns
    <3>2. Own("DT_BOOL", 1).v = 1
      BY DEF Own
    <3> QED BY <3>1, <3>2, BoolVIs
  <2> QED BY <2>4, <2>5
<1> QED BY <1>1, Invariance, PTL

\* freeExpr (expr.c:151-181) frees with an operator its operands, down to the
\* leaves, in a tree of any size.
THEOREM FreesAll == Spec => FreesWholeTree
<1>1. ASSUME EInv, [Next]_vars PROVE FreesStep
  <2> SUFFICES ASSUME NEW n \in DOMAIN node,
                      node[n].type # "freed", node'[n].type = "freed",
                      NEW a \in Args(n)
               PROVE  node'[a].type = "freed"
    BY DEF FreesStep
  <2>1. ASSUME NEW x \in Names, NEW e, Build(x, e) PROVE node'[n] = node[n]
    <3>1. node' = Append(node, e) /\ n \in 1 .. Len(node) /\ node \in Seq(NodeType)
      BY <2>1, Numbers DEF Build, EInv, Formed
    <3> QED BY <3>1
  <2>2. ASSUME NEW x \in Names, FreeExpr(x) PROVE node'[a].type = "freed"
    <3> DEFINE R == Range(FreeOrder[name[x]])
    <3>1. node' = [k \in DOMAIN node |->
                     IF k \in R THEN [type |-> "freed"] ELSE node[k]]
      BY <2>2 DEF FreeExpr
    <3>2. name[x] \in DOMAIN node
      BY <1>1, <2>2, Held DEF FreeExpr
    <3>3. WholeTrees(R)
      BY <1>1, <3>2, FreeWhole DEF EInv, FreesTree
    <3> HIDE DEF R
    <3>4. n \in R
      BY <3>1
    <3>5. a \in DOMAIN node /\ a \in R
      BY <1>1, <3>3, <3>4, BelowIs DEF EInv, WholeTrees
    <3> QED BY <3>1, <3>5
  <2>3. CASE UNCHANGED vars
    BY <2>3 DEF vars
  <2>4. ASSUME NEW x \in Names, Evaluate(x) PROVE node' = node
    BY <1>1, <2>4, EvaluateKeeps
  <2>5. CASE Next
    BY <2>1, <2>2, <2>4, <2>5
       DEF Next, MakeCons, MakeAttrref, MakeUnop, MakeBinop
  <2> QED BY <1>1, <2>3, <2>5
<1> QED BY <1>1, Invariance, PTL DEF Spec, FreesWholeTree
=============================================================================
