------------------------------- MODULE Columns -------------------------------
(***************************************************************************)
(* A column as the application sees it: in the descriptor of a result, in  *)
(* a row of SQLColumns, in SQLGetTypeInfo and in the buffers it is read    *)
(* into.  FlightSqlResultSetMetadata, ODBCDescriptor.cc, utils.cc.         *)
(*                                                                         *)
(* SQLWCHAR is wide by the build, wide SQL types are a property of the     *)
(* connection (UseWideChar): `mode` holds both.                            *)
(***************************************************************************)
EXTENDS Integers

CONSTANTS
    Modes,          \* what a connection may be: see ColumnAssumption
    Precisions,     \* what the server may tell as precision of a column
    Scales,         \* and as its scale
    DecimalDigits,  \* the precision of a decimal
    ColumnLengths,  \* the property StringColumnLength
    MaxColumnLength \* above, the octets of a wide column do not fit their int32_t

VARIABLES
    mode,       \* of the connection
    column      \* the column described

columnVars == <<mode, column>>

INSTANCE CatalogRows WITH WcharSize <- mode.size, UseWideChar <- mode.wide

ASSUME ColumnAssumption ==
    /\ MaxColumnLength \in Nat
    /\ Modes \subseteq [size : {2, 4}, wide : BOOLEAN]
    /\ Precisions \subseteq 0..MaxColumnLength /\ ColumnLengths \subseteq 1..MaxColumnLength
    /\ Scales \subseteq Int /\ DecimalDigits \subseteq Nat

Fields == [type : ArrowTypes, precision : Precisions \cup {None}, scale : Scales \cup {None},
           digits : DecimalDigits]
ColumnCalls == [field : Fields, length : ColumnLengths \cup {None}, isOdbc2x : BOOLEAN]
NoColumn == [type |-> "none"]

ColumnInit == mode \in Modes /\ column = NoColumn

(* The server announces a result with this column, or lists it in a table. *)
DescribeColumn ==
    /\ column = NoColumn
    /\ column' \in ColumnCalls
    /\ UNCHANGED mode

ColumnSpec == ColumnInit /\ [][DescribeColumn]_columnVars

-----------------------------------------------------------------------------
(* Type invariant. *)
ColumnTypeOK == mode \in Modes /\ column \in ColumnCalls \cup {NoColumn}

(* For every type a server can send, wide characters or not, the type tables of
   the driver agree with each other and the descriptor fields of a column fit
   together. (utils.cc, flight_sql_result_set_accessors.cc,
   FlightSqlResultSetMetadata, PopulateFromResultSetMetadata) *)
ColumnsDescribed ==
    column # NoColumn =>
        TablesAgreeOn(column.field.type) /\ ColumnsDescribedOf(column.field, column.length)

(* SQLColumns and SQLGetTypeInfo say of a column what its result would say.
   (get_columns.cc, get_type_info.cc) *)
CatalogAgrees == column # NoColumn => CatalogAgreesOn(column.field, column.isOdbc2x)
=============================================================================
