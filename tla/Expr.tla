-------------------------------- MODULE Expr --------------------------------
(***************************************************************************)
(* expr.c: conditions are trees of Expr nodes that a caller builds with    *)
(* the macros of expr.h and evaluates with evalExpr, as test_expr.c does,  *)
(* and frees with freeExpr, as test_assign3_1.c does (495, 614).  It keeps *)
(* its trees in a few variables and may use one node in several trees.     *)
(*                                                                         *)
(* A Value is a tag and a union; v is what the union holds as an int: 0 or *)
(* 1 for a bool, the rank in strcmp's order for a string, the order of the *)
(* numbers for a float.  A bool is a short (dt.h:6): writing one into the  *)
(* union of an int changes its lower half only.                            *)
(***************************************************************************)
EXTENDS Integers, Sequences, FiniteSets, Functions

CONSTANTS
  Names,     \* the Expr* variables of the caller
  Texts,     \* what the caller passes to stringToValue: a letter and the rest
  Row,       \* the record's attributes, numbered from 0, as Values
  Ops,       \* BOUND: the operators the caller uses
  Null,      \* no expression, no value
  MaxWide,   \* BOUND: how many nodes of any kind are built
  MaxNodes,  \* BOUND: how many, the ones beyond MaxWide operators, and
             \* all operators among DeepOps
  DeepOps

VARIABLES
  node,      \* the Expr nodes in the order of their allocation
  name,      \* the caller's variables: Null or a node
  res,       \* Value *res: what evalExpr has just returned
  process,   \* "running", "exited" by CHECK, "crashed", or "aborted" in free
  used       \* GHOST: the node it was called for, or 0

vars == <<node, name, res, process, used>>

DataType == {"DT_INT", "DT_STRING", "DT_FLOAT", "DT_BOOL"}
OpType == {"OP_BOOL_AND", "OP_BOOL_OR", "OP_BOOL_NOT",
           "OP_COMP_EQUAL", "OP_COMP_SMALLER"}

\* string is the node whose constant owns the characters of a DT_STRING, and 0
\* when the value owns them itself.
Value == [dt : DataType, v : Int, string : 0 .. MaxNodes]

Own(dt, v) == [dt |-> dt, v |-> v, string |-> 0]

IsValue(val) ==
  /\ val \in Value
  /\ val.dt = "DT_BOOL" => val.v \in {0, 1}

ASSUME NodesAssumption == MaxNodes \in Nat
ASSUME OpsAssumption == Ops \subseteq OpType
ASSUME TextsAssumption == \A text \in Texts : text.rest \in Int

\* getAttr makes attribute 1 a string, whatever the schema says: a table is
\* only usable if it is one, as it is in the tests.
ASSUME RowAssumption ==
  /\ \A attr \in DOMAIN Row : IsValue(Row[attr])
  /\ 1 \in DOMAIN Row => Row[1].dt = "DT_STRING"

\* MUTANT of MinusOne: the result of a comparison is made with another value.
Zero == Own("DT_INT", 0)

\* MAKE_VALUE(result, DT_INT, -1)
MinusOne == Own("DT_INT", -1)

Bit(b) == IF b THEN 1 ELSE 0

\* How many values the short has that a bool is.
Short == 65536

\* v.boolV of any value, and the assignment of it.
BoolV(val) == val.v % Short # 0
SetBoolV(val, b) == [val EXCEPT !.v = @ - (@ % Short) + Bit(b)]

\* "bt" and "btrue" are TRUE, any other "b..." is FALSE; a letter that names no
\* type makes the int -1.
StringToValue(text) ==
  CASE text.letter = "i" -> Own("DT_INT", text.rest)
    [] text.letter = "f" -> Own("DT_FLOAT", text.rest)
    [] text.letter = "s" -> Own("DT_STRING", text.rest)
    [] text.letter = "b" -> Own("DT_BOOL", Bit(text.rest = 1))
    [] OTHER -> MinusOne

\* MUTANT of CPVAL: the characters of a string are not copied.
CPVALSharing(input) == input

CPVAL(input) == [input EXCEPT !.string = 0]

\* getAttr copies what the record has at the attribute's offset.
GetAttr(attr) == Own(Row[attr].dt, Row[attr].v)

-----------------------------------------------------------------------------
(* Comparisons and Boolean operators: what they return, and the result.     *)

Returns(rc, result) == [rc |-> rc, result |-> result]

Truth(result, b) ==
  Returns("RC_OK", [dt |-> "DT_BOOL", v |-> Bit(b), string |-> result.string])

DifferentDatatype(result) ==
  Returns("RC_RM_COMPARE_VALUE_OF_DIFFERENT_DATATYPE", result)

NotBoolean(result) ==
  Returns("RC_RM_BOOLEAN_EXPR_ARG_IS_NOT_BOOLEAN", result)

\* MUTANT of ValueEquals: the Boolean is the difference, as strcmp returns it.
ValueEqualsDifference(left, right, result) ==
  IF left.dt # right.dt THEN DifferentDatatype(result)
  ELSE Returns("RC_OK", [result EXCEPT !.dt = "DT_BOOL", !.v = left.v - right.v])

\* MUTANT of ValueEquals: the case of two bools has no break either.
ValueEqualsFallingThrough(left, right, result) ==
  IF left.dt # right.dt THEN DifferentDatatype(result)
  ELSE IF left.dt = "DT_BOOL" THEN Returns("crash", result)
  ELSE Truth(result, left.v = right.v)

ValueEquals(left, right, result) ==
  IF left.dt # right.dt
    THEN DifferentDatatype(result)
    ELSE Truth(result, left.v = right.v)

\* MUTANT of ValueSmaller: equal values are in order.
ValueSmallerOrEqual(left, right, result) ==
  IF left.dt # right.dt THEN DifferentDatatype(result)
  ELSE IF left.dt = "DT_BOOL" THEN Returns("crash", result)
  ELSE Truth(result, left.v <= right.v)

\* The case of two bools has no break: strcmp is called on what they are as
\* pointers.
ValueSmaller(left, right, result) ==
  IF left.dt # right.dt THEN DifferentDatatype(result)
  ELSE IF left.dt = "DT_BOOL" THEN Returns("crash", result)
  ELSE Truth(result, left.v < right.v)

\* MUTANT of BoolNot: the tag of the result is not set, as in BoolAnd.
BoolNotUntagged(input, result) ==
  IF input.dt # "DT_BOOL" THEN NotBoolean(result)
  ELSE Returns("RC_OK", SetBoolV(result, input.v = 0))

BoolNot(input, result) ==
  IF input.dt # "DT_BOOL" THEN NotBoolean(result)
  ELSE Truth(result, input.v = 0)

BoolAnd(left, right, result) ==
  IF left.dt # "DT_BOOL" \/ right.dt # "DT_BOOL" THEN NotBoolean(result)
  ELSE Returns("RC_OK", SetBoolV(result, left.v = 1 /\ right.v = 1))

BoolOr(left, right, result) ==
  IF left.dt # "DT_BOOL" \/ right.dt # "DT_BOOL" THEN NotBoolean(result)
  ELSE Returns("RC_OK", SetBoolV(result, left.v = 1 \/ right.v = 1))

Apply(op, in, result) ==
  CASE op = "OP_BOOL_NOT" -> BoolNot(in[1], result)
    [] op = "OP_BOOL_AND" -> BoolAnd(in[1], in[2], result)
    [] op = "OP_BOOL_OR" -> BoolOr(in[1], in[2], result)
    [] op = "OP_COMP_EQUAL" -> ValueEquals(in[1], in[2], result)
    [] op = "OP_COMP_SMALLER" -> ValueSmaller(in[1], in[2], result)

-----------------------------------------------------------------------------
(* Trees.  An argument of a node is an older node, or the node itself when  *)
(* the macro's result and operand are one variable (expr.h:72-78).          *)

Args(n) == IF node[n].type = "EXPR_OP" THEN Range(node[n].args) ELSE {}

BelowNode(below, n) == {n} \cup UNION {below[a] : a \in Args(n) \ {n}}

Below ==
  LET below[n \in DOMAIN node] == BelowNode(below, n)
  IN below

Live(n) == \A m \in Below[n] : node[m].type # "freed"

\* How an evaluation ends, with what result, and which constants' characters
\* were given back by freeVal.
Ended(how, val, freed) == [how |-> how, val |-> val, freed |-> freed]

FreeVal(val) ==
  IF val.dt = "DT_STRING" /\ val.string # 0 THEN {val.string} ELSE {}

EvalLeaf(e) ==
  IF e.type = "EXPR_CONST" THEN Ended("returned", CPVAL(e.cons), {})
                           ELSE Ended("returned", GetAttr(e.attr), {})

\* What CHECK and the cleanup make of the operands' evaluations.  Both come
\* before the operator looks at them, and the first to fail ends the process.
EvalOp(op, arg) ==
  LET lost == {i \in DOMAIN arg : arg[i].how # "returned"}
      in == [i \in DOMAIN arg |-> arg[i].val]
      freed == UNION {arg[i].freed \cup FreeVal(in[i]) : i \in DOMAIN arg}
      out == Apply(op, in, MinusOne)
  IN IF lost # {} THEN arg[IF 1 \in lost THEN 1 ELSE 2]
     ELSE CASE out.rc = "RC_OK" -> Ended("returned", out.result, freed)
            [] out.rc = "crash" -> Ended("crashed", Null, {})
            [] OTHER -> Ended("exited", Null, {})

\* A node below itself is evaluated until the stack is full.
EvalNode(eval, n) ==
  LET e == node[n]
  IN IF e.type # "EXPR_OP" THEN EvalLeaf(e)
     ELSE EvalOp(e.op, [i \in DOMAIN e.args |->
                          IF e.args[i] = n THEN Ended("crashed", Null, {})
                                           ELSE eval[e.args[i]]])

EvalExpr ==
  LET eval[n \in DOMAIN node] == EvalNode(eval, n)
  IN eval

\* MUTANT of FreeNode: only the first operand is freed.
FreeNodeFirst(order, n) ==
  IF node[n].type = "EXPR_OP" /\ node[n].args[1] # n
    THEN order[node[n].args[1]] \o <<n>>
    ELSE <<n>>

\* The nodes freeExpr frees, in its order.  (The Operator of a node is never
\* freed, and read by nobody.)
FreeNode(order, n) ==
  LET below(a) == IF a = n THEN <<n>> ELSE order[a]
  IN IF node[n].type # "EXPR_OP" THEN <<n>>
     ELSE IF node[n].op = "OP_BOOL_NOT"
       THEN below(node[n].args[1]) \o <<n>>
       ELSE below(node[n].args[1]) \o below(node[n].args[2]) \o <<n>>

FreeOrder ==
  LET order[n \in DOMAIN node] == FreeNode(order, n)
  IN order

-----------------------------------------------------------------------------
(* The caller *)

Init ==
  /\ node = <<>>
  /\ name = [x \in Names |-> Null]
  /\ res = Null
  /\ process = "running"
  /\ used = 0

Holds(x) == name[x] # Null /\ Live(name[x])

Built == Len(node) + 1

\* The result variable is assigned before the operands are read.
Assigned(x) == [name EXCEPT ![x] = Built]

\* Nothing writes to a result after it was returned: the caller looks at it
\* before the next call and then leaves it.
Looked == res' = Null /\ used' = 0

\* May a node be in a larger expression?
Deep(e) == e.type = "EXPR_OP" => e.op \in DeepOps

Build(x, e) ==
  /\ process = "running"
  /\ Built <= MaxNodes
  /\ node' = Append(node, e)
  /\ Built > MaxWide =>
       e.type = "EXPR_OP" /\ \A n \in 1 .. Built : Deep(node'[n])
  /\ name' = Assigned(x)
  /\ Looked
  /\ UNCHANGED process

MakeCons(x, text) ==
  Build(x, [type |-> "EXPR_CONST",
            cons |-> [StringToValue(text) EXCEPT !.string = Built]])

MakeAttrref(x, attr) == Build(x, [type |-> "EXPR_ATTRREF", attr |-> attr])

MakeUnop(x, input) ==
  /\ Build(x, [type |-> "EXPR_OP", op |-> "OP_BOOL_NOT",
               args |-> <<Assigned(x)[input]>>])
  /\ input = x \/ Holds(input)

MakeBinop(x, left, right, op) ==
  /\ Build(x, [type |-> "EXPR_OP", op |-> op,
               args |-> <<Assigned(x)[left], Assigned(x)[right]>>])
  /\ \A y \in {left, right} : y = x \/ Holds(y)

Evaluate(x) ==
  /\ process = "running"
  /\ Holds(x)
  /\ LET out == EvalExpr[name[x]]
     IN /\ res' = out.val
        /\ process' = IF out.how = "returned" THEN process ELSE out.how
        /\ node' = [n \in DOMAIN node |->
             IF n \in out.freed THEN [node[n] EXCEPT !.cons.string = 0]
                                ELSE node[n]]
  /\ used' = name[x]
  /\ UNCHANGED name

\* The caller forgets the variables that pointed into a tree it freed.  A node
\* met twice is freed twice, and one below itself is met until the stack is
\* full.
FreeExpr(x) ==
  /\ process = "running"
  /\ Holds(x)
  /\ LET order == FreeOrder[name[x]]
     IN IF IsInjective(order)
          THEN /\ node' = [n \in DOMAIN node |->
                    IF n \in Range(order) THEN [type |-> "freed"] ELSE node[n]]
               /\ name' = [y \in Names |->
                    IF name[y] \in Range(order) THEN Null ELSE name[y]]
               /\ UNCHANGED process
          ELSE /\ process' = "aborted"
               /\ UNCHANGED <<node, name>>
  /\ Looked

Next ==
  \E x \in Names :
    \/ \E text \in Texts : MakeCons(x, text)
    \/ \E attr \in DOMAIN Row : MakeAttrref(x, attr)
    \/ "OP_BOOL_NOT" \in Ops /\ \E input \in Names : MakeUnop(x, input)
    \/ \E left, right \in Names, op \in Ops \ {"OP_BOOL_NOT"} :
         MakeBinop(x, left, right, op)
    \/ Evaluate(x)
    \/ FreeExpr(x)

Spec == Init /\ [][Next]_vars

-----------------------------------------------------------------------------
(* What an expression means *)

Typed(val) == [dt |-> val.dt, v |-> val.v]
Wrong == [dt |-> "wrong", v |-> 0]

\* Boolean operators take bools, comparisons two values of a type, FALSE being
\* smaller than TRUE; anything else is wrong, and whatever contains it.
Denotes(op, in) ==
  LET bool(b) == Typed(Own("DT_BOOL", Bit(b)))
      true(i) == in[i].v = 1
      logical == op \in {"OP_BOOL_AND", "OP_BOOL_OR", "OP_BOOL_NOT"}
  IN IF \/ Wrong \in Range(in)
        \/ logical /\ \E i \in DOMAIN in : in[i].dt # "DT_BOOL"
        \/ ~logical /\ in[1].dt # in[2].dt
       THEN Wrong
       ELSE CASE op = "OP_BOOL_NOT" -> bool(~true(1))
              [] op = "OP_BOOL_AND" -> bool(true(1) /\ true(2))
              [] op = "OP_BOOL_OR" -> bool(true(1) \/ true(2))
              [] op = "OP_COMP_EQUAL" -> bool(in[1].v = in[2].v)
              [] op = "OP_COMP_SMALLER" -> bool(in[1].v < in[2].v)

MeaningNode(meaning, n) ==
  LET e == node[n]
  IN IF e.type # "EXPR_OP"
       THEN Typed(IF e.type = "EXPR_CONST" THEN e.cons ELSE GetAttr(e.attr))
     ELSE IF n \in Args(n) THEN Wrong
     ELSE Denotes(e.op, [i \in DOMAIN e.args |-> meaning[e.args[i]]])

Meaning ==
  LET meaning[n \in DOMAIN node] == MeaningNode(meaning, n)
  IN meaning

IsOp(n, ops) == node[n].type = "EXPR_OP" /\ node[n].op \in ops

Connective(n) == IsOp(n, {"OP_BOOL_AND", "OP_BOOL_OR"})

\* The result of an AND or OR is an operand.
Nested(n) == \E m \in Below[n] : \E a \in Args(m) : Connective(a)

Looped(n) == \E m \in Below[n] : m \in Args(m)

OrdersBools(n) ==
  \E m \in Below[n] :
    /\ IsOp(m, {"OP_COMP_SMALLER"})
    /\ \A a \in Args(m) : \/ Meaning[a].dt = "DT_BOOL"
                          \/ IsOp(a, {"OP_BOOL_NOT", "OP_COMP_EQUAL",
                                      "OP_COMP_SMALLER"})

Evaluated == used # 0 /\ Live(used)

-----------------------------------------------------------------------------
(* Properties *)

NodeType ==
  [type : {"EXPR_CONST"}, cons : Value]
    \cup [type : {"EXPR_ATTRREF"}, attr : DOMAIN Row]
    \cup [type : {"EXPR_OP"}, op : OpType, args : Seq(1 .. MaxNodes)]
    \cup [type : {"freed"}]

\* The nodes, the variables and the results have their C types, and a bool is
\* TRUE or FALSE.
TypeOK ==
  /\ node \in Seq(NodeType)
  /\ name \in [Names -> DOMAIN node \cup {Null}]
  /\ \A n \in DOMAIN node :
       /\ node[n].type = "EXPR_CONST" => IsValue(node[n].cons)
       /\ Args(n) \subseteq 1 .. n
  /\ res # Null => IsValue(res)
  /\ process \in {"running", "exited", "crashed", "aborted"}
  /\ used \in 0 .. Len(node)

\* What evalExpr returns reads as what the expression means, although an AND
\* or OR leaves the tag DT_INT on its result (expr.c:77, :87).  It may return
\* for an expression that means nothing only when it took such a result for an
\* int.
ResultIsMeaning ==
  Evaluated /\ res # Null =>
    LET meant == Meaning[used]
    IN CASE meant = Wrong -> Nested(used)
         [] meant.dt = "DT_BOOL" -> BoolV(res) = (meant.v = 1)
         [] OTHER -> Typed(res) = meant

\* CHECK ends the process (expr.c:108-127) only for an expression that is
\* wrong, or that uses the result of an AND or OR as an operand.
ExitHasCause ==
  process = "exited" /\ Evaluated => Meaning[used] = Wrong \/ Nested(used)

\* An evaluation crashes only when it orders two bools (expr.c:51-54) or when
\* a macro was given its result variable as an operand; freeing aborts only
\* for a tree that has a node twice.
CrashHasCause ==
  /\ process = "crashed" /\ Evaluated => OrdersBools(used) \/ Looped(used)
  /\ process = "aborted" => \E x \in Names : /\ Holds(x)
                                             /\ ~IsInjective(FreeOrder[name[x]])

\* Evaluating gives back the values it made and never the characters of a
\* constant (expr.c:134-136, expr.h:56-58): the tree can be evaluated again.
ConstantsOwned ==
  \A n \in DOMAIN node : node[n].type = "EXPR_CONST" => node[n].cons.string = n

\* freeExpr (expr.c:151-181) frees with an operator its operands, so that no
\* node of a tree is left that nobody can free.
FreesStep ==
  \A n \in DOMAIN node : node[n].type # "freed" /\ node'[n].type = "freed" =>
    \A a \in Args(n) : node'[a].type = "freed"

FreesWholeTree == [][FreesStep]_vars

\* OP_TRUE(stringToValue(text), res, valueEquals) of test_expr.c
Verdict(text) == ValueEquals(StringToValue(text), res, MinusOne)

Meant == {text \in Texts : Typed(StringToValue(text)) = Meaning[used]}

\* test_expr.c:122: an expression that means TRUE is evaluated to a Value that
\* valueEquals takes for stringToValue("bt").
EqualsItsMeaning ==
  Evaluated /\ res # Null => \A text \in Meant : Verdict(text).rc = "RC_OK"

\* The assertion made of it holds all the same: when valueEquals refuses to
\* compare, the caller's result still holds the -1 it was made with, which is
\* not FALSE.
TestSeesTrue ==
  Evaluated /\ res # Null => \A text \in Meant : BoolV(Verdict(text).result)

=============================================================================
