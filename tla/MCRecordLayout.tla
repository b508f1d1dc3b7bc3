--------------------------- MODULE MCRecordLayout ---------------------------
(* RecordLayout for TLC: the schemas of up to three attributes.             *)
EXTENDS RecordLayout

Attribute(type, length) == [type |-> type, length |-> length]

\* Strings that fit into an int and strings that do not; the typeLength of a
\* float is nobody's business but getRecordSize's.
Fewer == {Attribute(DT_INT, 0), Attribute(DT_STRING, 6), Attribute(DT_BOOL, 0)}

Attributes ==
  Fewer \cup {Attribute(DT_STRING, 4), Attribute(DT_FLOAT, 0), Attribute(DT_FLOAT, 4)}

Schema(n, attr, name) ==
  [numAttr |-> n, keySize |-> 1,
   dataTypes |-> [i \in 0 .. n - 1 |-> attr[i].type],
   typeLength |-> [i \in 0 .. n - 1 |-> attr[i].length],
   attrNames |-> [i \in 0 .. n - 1 |-> name]]

\* A string of one character or none behind a bool, which has not ended where
\* the next attribute begins; an int with a typeLength, which getAttr may make a
\* string.
ShortBehindBool(n) ==
  [i \in 0 .. 2 |-> CASE i = 0 -> Attribute(DT_BOOL, 0)
                      [] i = 1 -> Attribute(DT_STRING, n)
                      [] i = 2 -> Attribute(DT_INT, 0)]

WideInt(attr) == [i \in 0 .. 1 |-> IF i = 0 THEN attr ELSE Attribute(DT_INT, 6)]

Unusual ==
  {Schema(3, ShortBehindBool(n), 1) : n \in 0 .. 1}
    \cup {Schema(2, WideInt(attr), 1) : attr \in Fewer}

\* Names end before the four bytes that openTable takes for a type, or in
\* them.  The schema of test_assign3_1.c is one of the longest.
SmallSchemas ==
  {Schema(n, attr, name) : n \in 1 .. 2, attr \in [0 .. 1 -> Attributes],
                           name \in {11, 12}}
    \cup {Schema(3, attr, 1) : attr \in
             {a \in [0 .. 2 -> Attributes] :
                /\ a[0] \in Fewer
                /\ a[1].type # DT_FLOAT
                /\ a[2] \in Fewer \ {Attribute(DT_STRING, 6)}}}
    \cup Unusual
=============================================================================
