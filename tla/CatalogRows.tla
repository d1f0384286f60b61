------------------------------ MODULE CatalogRows ------------------------------
(***************************************************************************)
(* What a row of SQLColumns and of SQLGetTypeInfo tells of a type:         *)
(* flight_sql_statement_get_columns.cc, flight_sql_statement_get_type_info.*)
(***************************************************************************)
EXTENDS TypeMapping

-----------------------------------------------------------------------------
(* SQLColumns. *)

(* One row of Transform_inner; `named` says if the server tells a type name. *)
DataTypeToldV3(t, isOdbc2x) == t        \* mutant: ODBC 3's types in ODBC 2 too

DataTypeTold(t, isOdbc2x) == IF isOdbc2x THEN ConvertSqlDataTypeFromV3ToV2(t) ELSE t

GetColumnsRow(f, isOdbc2x, named) ==
    LET t == GetDataTypeFromArrowField_V3(f.type)
    IN [dataType     |-> DataTypeTold(t, isOdbc2x),
        typeName     |-> IF named THEN "server's" ELSE GetTypeNameFromSqlDataType(t),
        columnSize   |-> f.precision,
        octetLength  |-> GetCharOctetLength(t, f.precision, 0),
        bufferLength |-> GetBufferLength(t, f.precision),
        digits       |-> f.scale,
        radix        |-> GetRadixFromSqlDataType(t),
        sqlDataType  |-> GetNonConciseDataType(t),
        subCode      |-> GetSqlDateTimeSubCode(t)]

-----------------------------------------------------------------------------
(* SQLGetTypeInfo: the server's types, one of them or ALL_TYPES. *)
ALL_TYPES == "ALL_TYPES"

GetTypeInfo(types, dataType, isOdbc2x) ==
    LET v3(t)  == EnsureRightSqlCharType(t.dataType)
        v2(t)  == ConvertSqlDataTypeFromV3ToV2(v3(t))
        row(t) == LET told == DataTypeTold(v3(t), isOdbc2x)
                  IN [dataType    |-> told,
                      sqlDataType |-> EnsureRightSqlCharType(t.sqlDataType),
                      subCode     |-> GetSqlDateTimeSubCode(told)]
    IN {row(t) : t \in {u \in types : dataType \in {ALL_TYPES, v3(u), v2(u)}}}

-----------------------------------------------------------------------------
(* SQLColumns, SQLDescribeCol and SQLGetTypeInfo tell one story of a column: the
   type SQLColumns lists is the concise type of the IRD, in either version of
   ODBC; SQLGetTypeInfo, asked for that number, finds the server's type and only
   it; what the server tells of the size gives the same octets and the same size
   in both.  A DECIMAL is left out: SQLColumns does not pass its precision on
   and says 2 octets.  So is the subcode in ODBC 2, where SQLGetTypeInfo looks it
   up by the number of ODBC 2 and finds none.
   (Transform_inner of both files, PopulateFromResultSetMetadata) *)
CatalogAgreesOn(f, isOdbc2x) ==
    LET row   == GetColumnsRow(f, isOdbc2x, FALSE)
        ird   == IrdRecord(f, None, isOdbc2x)
        t     == GetDataTypeFromArrowField_V3(f.type)
        found == GetTypeInfo({[dataType |-> u, sqlDataType |-> GetNonConciseDataType(u)] :
                                u \in SqlTypes}, row.dataType, isOdbc2x)
    IN /\ row.dataType = ird.conciseType
       /\ \A r \in found : /\ r.dataType = row.dataType
                            /\ r.sqlDataType = row.sqlDataType
                            /\ ~isOdbc2x => r.subCode = row.subCode
       /\ found # {}
       /\ row.typeName = t
       /\ f.precision # None =>
            /\ t \notin ExactTypes => row.octetLength \in {None, Metadata(f, None).octetLength}
            /\ row.bufferLength \in {None, Metadata(f, None).precision}
=============================================================================

