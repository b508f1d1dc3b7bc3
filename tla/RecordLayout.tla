---------------------------- MODULE RecordLayout ----------------------------
(***************************************************************************)
(* Where the bytes of a record are.  Six places of the code each work it   *)
(* out for themselves: createTable and openTable, which take a schema to   *)
(* page 0 and back; getRecordSize; setAttr and getAttr; and the copies     *)
(* between record->data and the slot on the page.  A caller creates a      *)
(* table and a record of one schema, sets and gets attributes, and sends   *)
(* the record to the table and back, in any order.                         *)
(*                                                                         *)
(* A byte of a record is "byte number at of value val of attribute attr",  *)
(* or raw.  The header's bytes are numbers.  Pools and pages are           *)
(* RecordManager's.                                                        *)
(***************************************************************************)
EXTENDS Integers

CONSTANTS
  Schemas,   \* what the caller passes to createSchema
  Values,    \* the values it stores
  Unset      \* no value

DT_INT    == 0
DT_STRING == 1
DT_FLOAT  == 2
DT_BOOL   == 3

Attrs(s) == 0 .. s.numAttr - 1

\* Page 0 has room for the header of so many attributes.
MaxAttrs == 177

\* attrNames has the lengths of the names.
IsSchema(s) ==
  /\ s \in [numAttr : 1 .. MaxAttrs, keySize : 1 .. MaxAttrs,
            dataTypes : [Attrs(s) -> DT_INT .. DT_BOOL],
            typeLength : [Attrs(s) -> Nat],
            attrNames : [Attrs(s) -> Nat]]
  /\ s.keySize <= s.numAttr

ASSUME SchemasAssumption == \A s \in Schemas : IsSchema(s)
ASSUME UnsetAssumption == Unset \notin Values

VARIABLES
  status,   \* "running"; "overrun": wrote past record->data; "crashed"
  made,     \* GHOST: the schema the caller created
  schema,   \* that schema now: getAttr changes it
  file,     \* the schema whose header is on page 0, if any
  table,    \* what openTable made of it, if anything
  data,     \* record->data; no bytes before createRecord
  slot,     \* the record's slot on its page; no bytes before insertRecord
  last,     \* GHOST: of each attribute, the value last stored in the record
  kept,     \* GHOST: last, as insertRecord found it
  cut       \* GHOST: the size of the last record read from the page, or 0

vars == <<status, made, schema, file, table, data, slot, last, kept, cut>>

Raw == [attr |-> -1, val |-> Unset, at |-> 0]

NoBytes == [o \in {} |-> Raw]

At(bytes, o) == IF o \in DOMAIN bytes THEN bytes[o] ELSE Raw

NoSchema == [numAttr |-> 0]

-----------------------------------------------------------------------------
(* The header *)

Weight == <<1, 256, 65536, 16777216>>

IntByte(v, k) == (v \div Weight[k + 1]) % 256

\* The length of a name in the header, and the global x.
NameLength == 15

Stride == NameLength + 4 + 4

\* createTable: 0, 1, numAttr, keySize, and the attributes.
HeaderByte(s, o) ==
  LET i == (o - 16) \div Stride
      k == (o - 16) % Stride
  IN  CASE o < 4  -> 0
        [] o \in 4 .. 7   -> IntByte(1, o - 4)
        [] o \in 8 .. 11  -> IntByte(s.numAttr, o - 8)
        [] o \in 12 .. 15 -> IntByte(s.keySize, o - 12)
        [] o >= 16 /\ k < NameLength     -> IF k < s.attrNames[i] THEN 97 ELSE 0
        [] o >= 16 /\ k \in 15 .. 18     -> IntByte(s.dataTypes[i], k - 15)
        [] o >= 16 /\ k > 18             -> IntByte(s.typeLength[i], k - 19)

IntAt(s, o) ==
  HeaderByte(s, o) + 256 * HeaderByte(s, o + 1)
    + 65536 * HeaderByte(s, o + 2) + 16777216 * HeaderByte(s, o + 3)

\* MUTANT of NumAttrAt: one int further.
NumAttrAtKeySize == 12

\* Where openTable reads the number of attributes.
NumAttrAt == 8

\* MUTANT of FirstAttr: one byte earlier.
FirstAttrEarly == 11

\* openTable takes the key size for the beginning of the first name.
FirstAttr == 12

\* A type is then the end of a name, and a length is the type.
Parse(s) ==
  LET n == IntAt(s, NumAttrAt)
      type(i) == FirstAttr + i * Stride + NameLength
  IN  [numAttr |-> n, keySize |-> s.keySize,
       dataTypes |-> [i \in 0 .. n - 1 |-> IntAt(s, type(i))],
       typeLength |-> [i \in 0 .. n - 1 |-> IntAt(s, type(i) + 4)],
       attrNames |-> s.attrNames]

-----------------------------------------------------------------------------
(* Sizes and positions *)

\* What the first attributes of n take, when attribute j takes width[j].
Sums(width, n) ==
  LET to[i \in 0 .. n] == IF i = 0 THEN 0 ELSE to[i - 1] + width[i - 1]
  IN  to

\* getRecordSize calls handlers[type]: handleFloat, handleInt, handleString and
\* handleBool, which is not the order of DataType.
Callable(s) == \A i \in Attrs(s) : s.dataTypes[i] \in DT_INT .. DT_BOOL

Handled(s) ==
  [i \in Attrs(s) |->
     CASE s.dataTypes[i] = DT_INT    -> 4
       [] s.dataTypes[i] = DT_STRING -> 4
       [] s.dataTypes[i] = DT_FLOAT  -> s.typeLength[i]
       [] s.dataTypes[i] = DT_BOOL   -> 2]

\* MUTANT of GetRecordSize: the mark is forgotten.
GetRecordSizeUnmarked(s) == Sums(Handled(s), s.numAttr)[s.numAttr]

GetRecordSize(s) == Sums(Handled(s), s.numAttr)[s.numAttr] + 1

\* What setAttr writes and getAttr reads of an attribute.
Width(s, i) ==
  CASE s.dataTypes[i] = DT_STRING -> s.typeLength[i]
    [] s.dataTypes[i] = DT_BOOL   -> 2
    [] OTHER                      -> 4

\* What both add for the attributes before it: dataTypeSizes has 0 for a bool.
Skipped(s) ==
  [i \in Attrs(s) |-> IF s.dataTypes[i] = DT_BOOL THEN 0 ELSE Width(s, i)]

Pos(s, i) == 1 + Sums(Skipped(s), s.numAttr)[i]

End(s, i) == Pos(s, i) + Width(s, i)

-----------------------------------------------------------------------------

Init ==
  /\ status = "running"
  /\ made \in Schemas
  /\ schema = made
  /\ file = NoSchema
  /\ table = NoSchema
  /\ data = NoBytes
  /\ slot = NoBytes
  /\ last = [i \in Attrs(made) |-> Unset]
  /\ kept = [i \in Attrs(made) |-> Unset]
  /\ cut = 0

Running == status = "running"

HasRecord == data # NoBytes

\* The process wrote past the end of record->data.
Overrun ==
  /\ status' = "overrun"
  /\ UNCHANGED <<made, schema, file, table, data, slot, last, kept, cut>>

\* It called what is behind the last handler.
Crash ==
  /\ status' = "crashed"
  /\ UNCHANGED <<made, schema, file, table, data, slot, last, kept, cut>>

CreateTable ==
  /\ Running
  /\ file' = schema
  /\ table' = NoSchema
  /\ slot' = NoBytes
  /\ UNCHANGED <<status, made, schema, data, last, kept, cut>>

OpenTable ==
  /\ Running
  /\ file # NoSchema
  /\ table' = Parse(file)
  /\ UNCHANGED <<status, made, schema, file, data, slot, last, kept, cut>>

\* createRecord writes the first two bytes.
CreateRecord ==
  /\ Running
  /\ IF GetRecordSize(schema) < 2 THEN Overrun
     ELSE /\ data' = [o \in 0 .. GetRecordSize(schema) - 1 |-> Raw]
          /\ last' = [i \in Attrs(made) |-> Unset]
          /\ cut' = 0
          /\ UNCHANGED <<status, made, schema, file, table, slot, kept>>

SetAttr(i, v) ==
  /\ Running /\ HasRecord
  /\ IF \E o \in Pos(schema, i) .. End(schema, i) - 1 : o \notin DOMAIN data
     THEN Overrun
     ELSE /\ data' = [o \in DOMAIN data |->
                        IF o \in Pos(schema, i) .. End(schema, i) - 1
                        THEN [attr |-> i, val |-> v, at |-> o - Pos(schema, i)]
                        ELSE data[o]]
          /\ last' = [last EXCEPT ![i] = v]
          /\ UNCHANGED <<status, made, schema, file, table, slot, kept, cut>>

\* getAttr makes attribute 1 a string, in the caller's schema and for good.
Asked(s, i) == IF i = 1 THEN [s EXCEPT !.dataTypes[1] = DT_STRING] ELSE s

\* What it returns, or Unset if that is no value the caller stored there.
Got(i) ==
  LET s     == Asked(schema, i)
      shown == {v \in Values : \A k \in 0 .. Width(s, i) - 1 :
                  At(data, Pos(s, i) + k) = [attr |-> i, val |-> v, at |-> k]}
  IN  IF s.dataTypes[i] = made.dataTypes[i] /\ shown # {}
      THEN CHOOSE v \in shown : TRUE ELSE Unset

GetAttr(i) ==
  /\ Running /\ HasRecord
  /\ schema' = Asked(schema, i)
  /\ UNCHANGED <<status, made, file, table, data, slot, last, kept, cut>>

\* updatePage's memmove, of a record of the size the table has.
InsertRecord ==
  /\ Running /\ HasRecord
  /\ table # NoSchema
  /\ IF ~Callable(table) THEN Crash
     ELSE /\ slot' = [o \in 0 .. GetRecordSize(table) - 1 |->
                        IF o = 0 THEN Raw ELSE At(data, o)]
          /\ kept' = last
          /\ UNCHANGED <<status, made, schema, file, table, data, last, cut>>

\* MUTANT of Copied: the mark's byte is not skipped on the page.
CopiedFromMark(o) == slot[o - 1]

\* The byte getRecord copies to record->data[o].
Copied(o) == slot[o]

GetRecord ==
  /\ Running /\ HasRecord
  /\ slot # NoBytes /\ table # NoSchema
  /\ IF \E o \in 1 .. GetRecordSize(table) - 1 : o \notin DOMAIN data
     THEN Overrun
     ELSE /\ data' = [o \in DOMAIN data |->
                        IF o \in 1 .. GetRecordSize(table) - 1
                        THEN Copied(o) ELSE data[o]]
          /\ last' = kept
          /\ cut' = GetRecordSize(table)
          /\ UNCHANGED <<status, made, schema, file, table, slot, kept>>

Next ==
  \/ CreateTable \/ OpenTable
  \/ CreateRecord
  \/ \E i \in Attrs(made) : GetAttr(i) \/ \E v \in Values : SetAttr(i, v)
  \/ InsertRecord \/ GetRecord

Spec == Init /\ [][Next]_vars

-----------------------------------------------------------------------------
(* Properties *)

Byte == [attr : Attrs(made), val : Values, at : Nat] \cup {Raw}

TypeOK ==
  /\ status \in {"running", "overrun", "crashed"}
  /\ IsSchema(made) /\ IsSchema(schema)
  /\ file = NoSchema \/ IsSchema(file)
  /\ table = NoSchema \/ table.numAttr = made.numAttr
  /\ \A o \in DOMAIN data : data[o] \in Byte
  /\ \A o \in DOMAIN slot : slot[o] \in Byte
  /\ {last, kept} \subseteq [Attrs(made) -> Values \cup {Unset}]
  /\ cut \in Nat

\* The attribute shares its bytes with a bool, or is one that does: the bytes of
\* a bool are also those of what follows it.
Shared(i) ==
  \E j \in Attrs(made) \ {i} :
    /\ DT_BOOL \in {made.dataTypes[i], made.dataTypes[j]}
    /\ Pos(made, i) < End(made, j) /\ Pos(made, j) < End(made, i)

\* getAttr has been asked for an attribute 1 that is no string.
Retyped == schema.dataTypes # made.dataTypes

\* What was stored last is what getAttr returns, for every order of the calls
\* and over the trip to the page and back, with these exceptions: the attribute
\* shares its bytes with a bool (record_mgr.c:667-681) or has none, attribute 1
\* is no string and is asked for or was before (:685), or the record was cut on
\* the page, whose table takes every attribute for an int.
GarbledHasCause ==
  Running => \A i \in Attrs(made) :
    last[i] # Unset /\ Got(i) # last[i]
      => \/ Shared(i) \/ Retyped \/ (i = 1 /\ made.dataTypes[1] # DT_STRING)
         \/ cut # 0 /\ End(made, i) > cut
         \/ Width(made, i) = 0

\* createRecord asks for as much as setAttr will fill, when getAttr has made
\* attribute 1 a string too.
Roomy(s) ==
  \A i \in Attrs(s) :
    /\ s.dataTypes[i] = DT_STRING \/ i = 1 => s.typeLength[i] <= 4
    /\ s.dataTypes[i] = DT_FLOAT => s.typeLength[i] >= 4

\* Nothing is written past record->data, by createRecord, setAttr or
\* getRecord, unless the schema has a long string or a float of small
\* typeLength (getRecordSize, :555, gives each the other's size), a bool, or an
\* attribute 1 that is long as a string.
OverrunHasCause ==
  status = "overrun" =>
    ~Roomy(made) \/ \E i \in Attrs(made) : made.dataTypes[i] = DT_BOOL

\* An open table has a size, unless one of its names is as long as the header
\* allows, and is taken for a type.
CrashHasCause ==
  status = "crashed" => \E i \in Attrs(made) : made.attrNames[i] > 11
=============================================================================
