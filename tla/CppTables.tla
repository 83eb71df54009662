----------------------------- MODULE CppTables -----------------------------
(***************************************************************************)
(* Two tables of strings: the result of a query as a map from the names of *)
(* its columns (CppMysql.cpp), and the values of an enumeration with their *)
(* names (CppEnumType.h, CppEnumType.cpp).                                 *)
(*                                                                         *)
(* A name that ends in _Faulty is a plausible bug in the definition that   *)
(* follows it, on which the properties are tried.                          *)
(***************************************************************************)
EXTENDS Integers, Sequences, SequencesExt

CONSTANTS
  NULL,     \* what a row has where the database has no value
  EmptyString,    \* the empty string
  INVALID_VALUE

-----------------------------------------------------------------------------
(* CppMysql *)

\* What one row adds to a column, of which the result may have several of one name.
ColumnValues(fields, row, name) ==
  [i \in 1 .. Len(SelectSeq(fields, LAMBDA f : f = name)) |->
     LET places == SetToSortSeq({c \in DOMAIN fields : fields[c] = name}, <)
         value == row[places[i]]
     IN  IF value = NULL THEN EmptyString ELSE value]

\* A value that is missing is passed over.
Pushed_Faulty(fields, row, name) == SelectSeq(ColumnValues(fields, row, name), LAMBDA v : v # EmptyString)

Pushed(fields, row, name) == ColumnValues(fields, row, name)

\* rows: what FetchRow gives.  Without a row there are no columns either.
StoreResultToMap(fields, rows) ==
  [name \in (IF rows = <<>> THEN {} ELSE ToSet(fields)) |->
     FlattenSeq([r \in DOMAIN rows |-> Pushed(fields, rows[r], name)])]

\* row counts from 0.
GetMysqlResult(data, feildName, row) ==
  IF feildName \in DOMAIN data /\ row < Len(data[feildName]) THEN data[feildName][row + 1]
  ELSE EmptyString

-----------------------------------------------------------------------------
(* CppEnumType.  enumString is the sequence of the names; a value is an     *)
(* index from 0, or more than any for one that is unset.                    *)

StringOf(enumString, value) ==
  IF value >= Len(enumString) THEN INVALID_VALUE ELSE enumString[value + 1]

\* The first of the name, or the count.
StrToIntValue(enumString, valueStr) ==
  LET same == {value \in 0 .. Len(enumString) - 1 : enumString[value + 1] = valueStr}
  IN  IF same = {} THEN Len(enumString) ELSE CHOOSE v \in same : \A w \in same : v <= w

Less(left, right) == left < right

\* operator== of two values, which is made of operator<.
Equal(left, right) == ~(Less(left, right) \/ Less(right, left))

EqualStr(enumString, value, valueStr) == StringOf(enumString, value) = valueStr

-----------------------------------------------------------------------------
(* Properties *)

\* Row and column of the map are those of the result, missing values included, unless
\* the result has two columns of one name, whose values come in turn; beside the result
\* GetMysqlResult gives the empty string.
MapIsResult(fields, rows) ==
  LET data == StoreResultToMap(fields, rows)
      times == Len(SelectSeq(fields, LAMBDA f : f = fields[1]))
  IN  \A row \in 0 .. Len(rows) :
        IF row < Len(rows) /\ IsInjective(fields)
        THEN \A c \in DOMAIN fields :
               GetMysqlResult(data, fields[c], row) =
                 IF rows[row + 1][c] = NULL THEN EmptyString ELSE rows[row + 1][c]
        ELSE fields # <<>> => GetMysqlResult(data, fields[1], times * Len(rows) + row) = EmptyString

\* A value and its name give each other, but for a name that is not one, which gives a
\* value that is not one; of two values of one name the first comes back.
NamesAreValues(enumString, value, valueStr) ==
  /\ valueStr \in ToSet(enumString) =>
       EqualStr(enumString, StrToIntValue(enumString, valueStr), valueStr)
  /\ valueStr \notin ToSet(enumString) =>
       StringOf(enumString, StrToIntValue(enumString, valueStr)) = INVALID_VALUE
  /\ LET again == StrToIntValue(enumString, StringOf(enumString, value))
     IN  /\ IsInjective(enumString) /\ value < Len(enumString) => Equal(again, value)
         /\ value < Len(enumString) => ~Less(value, again)
=============================================================================
