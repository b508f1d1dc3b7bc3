------------------------------- MODULE MCExpr -------------------------------
(* Expr for TLC: the constants of test_expr.c, one record.                  *)
EXTENDS Expr, TLC

Text(letter, rest) == [letter |-> letter, rest |-> rest]

TestTexts == {Text("i", 10), Text("b", 1), Text("s", 10)}

TestRow == 0 :> Own("DT_INT", 20) @@ 1 :> Own("DT_STRING", 20)

\* A comparison inside an AND, and an AND inside a comparison or an AND.
FewOps == {"OP_BOOL_AND", "OP_COMP_SMALLER"}

NameSymmetry == Permutations(Names)
=============================================================================
