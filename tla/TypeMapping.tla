----------------------------- MODULE TypeMapping -----------------------------
(***************************************************************************)
(* From Arrow types to SQL types, C types and sizes: utils.cc,             *)
(* flight_sql_result_set_metadata.cc, the table of accessors, and the      *)
(* default C types of ODBCStatement.cc and flight_sql_result_set_column.cc.*)
(*                                                                         *)
(* Types are named, their numbers only matter in the ODBC 2 conversions.   *)
(* A size that is missing (nullopt), and a conversion that throws, are     *)
(* values of their own.                                                    *)
(***************************************************************************)
EXTENDS Integers, Sequences

CONSTANTS
    WcharSize,      \* GetSqlWCharSize()
    UseWideChar     \* use_wide_char_ of the metadata settings

None == -1          \* std::nullopt
Throws == "throws"  \* a DriverException

-----------------------------------------------------------------------------
(* Arrow types. *)

ComplexTypes == {"LIST", "LARGE_LIST", "FIXED_SIZE_LIST", "MAP", "STRUCT"}
IsComplexType(a) == a \in ComplexTypes
Unsigned == {"UINT8", "UINT16", "UINT32", "UINT64"}

DefaultSqlChar    == IF UseWideChar THEN "WCHAR" ELSE "CHAR"
DefaultSqlVarchar == IF UseWideChar THEN "WVARCHAR" ELSE "VARCHAR"
DefaultCChar      == IF UseWideChar THEN "C_WCHAR" ELSE "C_CHAR"

(* GetDataTypeFromArrowField_V3: everything not named is a VARCHAR. *)
SqlTypeOfArrow ==
    [BOOL |-> "BIT", UINT8 |-> "TINYINT", INT8 |-> "TINYINT",
     UINT16 |-> "SMALLINT", INT16 |-> "SMALLINT", UINT32 |-> "INTEGER", INT32 |-> "INTEGER",
     UINT64 |-> "BIGINT", INT64 |-> "BIGINT", HALF_FLOAT |-> "FLOAT", FLOAT |-> "FLOAT",
     DOUBLE |-> "DOUBLE", BINARY |-> "BINARY", FIXED_SIZE_BINARY |-> "BINARY",
     LARGE_BINARY |-> "BINARY", STRING |-> DefaultSqlVarchar, LARGE_STRING |-> DefaultSqlVarchar,
     DATE32 |-> "TYPE_DATE", DATE64 |-> "TYPE_DATE", TIMESTAMP |-> "TYPE_TIMESTAMP",
     DECIMAL128 |-> "DECIMAL", TIME32 |-> "TYPE_TIME", TIME64 |-> "TYPE_TIME",
     INTERVAL_MONTHS |-> "INTERVAL_MONTH", INTERVAL_DAY_TIME |-> "INTERVAL_DAY"]

OtherTypes == {"INTERVAL_MONTH_DAY_NANO", "SPARSE_UNION", "DENSE_UNION", "DICTIONARY",
               "EXTENSION", "DURATION", "NA"}
ArrowTypes == DOMAIN SqlTypeOfArrow \cup ComplexTypes \cup OtherTypes

GetDataTypeFromArrowField_V3(a) ==
    IF a \in DOMAIN SqlTypeOfArrow THEN SqlTypeOfArrow[a] ELSE DefaultSqlVarchar

EnsureRightSqlCharType(t) ==
    CASE t \in {"CHAR", "WCHAR"} -> DefaultSqlChar
      [] t \in {"VARCHAR", "WVARCHAR"} -> DefaultSqlVarchar
      [] OTHER -> t

-----------------------------------------------------------------------------
(* SQL types. *)

CharTypes   == {"CHAR", "VARCHAR", "LONGVARCHAR"}
WideTypes   == {"WCHAR", "WVARCHAR", "WLONGVARCHAR"}
BinaryTypes == {"BINARY", "VARBINARY", "LONGVARBINARY"}
DateTimes   == {"TYPE_DATE", "TYPE_TIME", "TYPE_TIMESTAMP"}
ExactTypes  == {"DECIMAL", "NUMERIC"}
IntTypes   == {"TINYINT", "SMALLINT", "INTEGER", "BIGINT"}
FloatTypes  == {"REAL", "FLOAT", "DOUBLE"}

(* SqlDateTimeSubCode, which starts from 1 for each of the verbose types. *)
SubCode ==
    [TYPE_DATE |-> 1, TYPE_TIME |-> 2, TYPE_TIMESTAMP |-> 3,
     INTERVAL_YEAR |-> 1, INTERVAL_MONTH |-> 2, INTERVAL_DAY |-> 3, INTERVAL_HOUR |-> 4,
     INTERVAL_MINUTE |-> 5, INTERVAL_SECOND |-> 6, INTERVAL_YEAR_TO_MONTH |-> 7,
     INTERVAL_DAY_TO_HOUR |-> 8, INTERVAL_DAY_TO_MINUTE |-> 9, INTERVAL_DAY_TO_SECOND |-> 10,
     INTERVAL_HOUR_TO_MINUTE |-> 11, INTERVAL_HOUR_TO_SECOND |-> 12,
     INTERVAL_MINUTE_TO_SECOND |-> 13]
Intervals == DOMAIN SubCode \ DateTimes

SqlTypes == CharTypes \cup WideTypes \cup BinaryTypes \cup DateTimes \cup ExactTypes
            \cup IntTypes \cup FloatTypes \cup Intervals \cup {"BIT", "GUID"}

GetSqlDateTimeSubCode(t) == IF t \in DOMAIN SubCode THEN SubCode[t] ELSE None

(* 9, 10, 11: the numbers of ODBC 2 for a date, a time and a timestamp, and of
   ODBC 3 for the verbose types SQL_DATETIME (9) and SQL_INTERVAL (10). *)
V2Number == [TYPE_DATE |-> "9", TYPE_TIME |-> "10", TYPE_TIMESTAMP |-> "11"]

ConvertSqlDataTypeFromV3ToV2(t) == IF t \in DateTimes THEN V2Number[t] ELSE t

GetNonConciseDataType(t) ==
    IF t \in DateTimes THEN "9" ELSE IF t \in Intervals THEN "10" ELSE t

(* GetSqlTypeForODBCVersion, of what the descriptor gets from the metadata: a
   concise type, or the verbose number 9, which is SQL_DATE too. *)
GetSqlTypeForODBCVersion(t, isOdbc2x) ==
    IF isOdbc2x THEN (IF t \in DateTimes THEN V2Number[t] ELSE t)
    ELSE CASE t = "9" -> "TYPE_DATE" [] t = "10" -> "TYPE_TIME" [] t = "11" -> "TYPE_TIMESTAMP"
           [] OTHER -> t

(* GetTypeNameFromSqlDataType takes every SQL type, and the numbers of ODBC 2;
   a name is the type's own. *)
GetTypeNameFromSqlDataType(t) == IF t \in SqlTypes \cup {"9", "10", "11"} THEN t ELSE Throws

GetRadixFromSqlDataType(t) ==
    IF t \in ExactTypes \cup IntTypes THEN 10 ELSE IF t \in FloatTypes THEN 2 ELSE None

GetTypeScale(t, scale) ==
    CASE t \in {"TYPE_TIMESTAMP", "TYPE_TIME"} -> 3
      [] t \in ExactTypes -> scale
      [] t \in IntTypes -> 0
      [] OTHER -> None

-----------------------------------------------------------------------------
(* Sizes.  `size` is the precision the server tells of the column, None if it
   does not. *)

Scaled(size, factor) == IF size = None THEN None ELSE size * factor

FixedSize ==
    [BIT |-> 1, TINYINT |-> 1, SMALLINT |-> 2, INTEGER |-> 4, BIGINT |-> 8, REAL |-> 4,
     FLOAT |-> 8, DOUBLE |-> 8, DECIMAL |-> 19, NUMERIC |-> 19,
     TYPE_DATE |-> 10, TYPE_TIME |-> 12, TYPE_TIMESTAMP |-> 23, GUID |-> 16]
FixedSizeOf(t) ==
    CASE t \in DOMAIN FixedSize -> FixedSize[t] [] t \in Intervals -> 28 [] OTHER -> None

GetColumnSize(t, size) ==
    CASE t \in CharTypes \cup BinaryTypes -> size
      [] t \in WideTypes -> Scaled(size, WcharSize)
      [] OTHER -> FixedSizeOf(t)

GetBufferLength(t, size) == GetColumnSize(t, size)

GetLength(t, size) ==
    IF t \in CharTypes \cup WideTypes \cup BinaryTypes THEN size ELSE FixedSizeOf(t)

OctetsOf ==
    [TINYINT |-> 1, BIT |-> 1, SMALLINT |-> 2, INTEGER |-> 4, BIGINT |-> 8, FLOAT |-> 8,
     DOUBLE |-> 8, TYPE_DATE |-> 6, TYPE_TIME |-> 6, TYPE_TIMESTAMP |-> 16, GUID |-> 16]

GetCharOctetLengthChars(t, size, precision) ==   \* mutant: characters, not octets
    CASE t \in CharTypes \cup BinaryTypes \cup WideTypes -> size
      [] t \in ExactTypes -> precision + 2
      [] t \in DOMAIN OctetsOf -> OctetsOf[t]
      [] t \in Intervals -> 34
      [] OTHER -> None

GetCharOctetLength(t, size, precision) ==
    CASE t \in CharTypes \cup BinaryTypes -> size
      [] t \in WideTypes -> Scaled(size, WcharSize)
      [] t \in ExactTypes -> precision + 2      \* the digits, a sign and a point
      [] t \in DOMAIN OctetsOf -> OctetsOf[t]
      [] t \in Intervals -> 34
      [] OTHER -> None

DisplayOf ==
    [BIT |-> 1, TINYINT |-> 4, SMALLINT |-> 6, INTEGER |-> 11, BIGINT |-> 20, REAL |-> 14,
     FLOAT |-> 24, DOUBLE |-> 24, TYPE_DATE |-> 10, TYPE_TIME |-> 12, TYPE_TIMESTAMP |-> 23,
     GUID |-> 36]

GetDisplaySize(t, size) ==
    CASE t \in CharTypes \cup WideTypes -> size
      [] t \in BinaryTypes -> Scaled(size, 2)
      [] t \in ExactTypes -> IF size = None THEN None ELSE size + 2
      [] t \in DOMAIN DisplayOf -> DisplayOf[t]
      [] OTHER -> None

-----------------------------------------------------------------------------
(* FlightSqlResultSetMetadata, of a field: its Arrow type, the precision and
   the scale its metadata tell or None, and the digits of a decimal; with the
   property StringColumnLength, None if it is not set. *)
NO_TOTAL == -4
DefaultLength == 1024
Or(value, default) == IF value = None THEN default ELSE value

ColumnSizeOf(f, columnLength) == Or(columnLength, Or(f.precision, DefaultLength))

Metadata(f, columnLength) ==
    LET t == GetDataTypeFromArrowField_V3(f.type)
        size == ColumnSizeOf(f, columnLength)
    IN [conciseType |-> t,
        dataType    |-> GetNonConciseDataType(t),
        precision   |-> Or(GetColumnSize(t, Or(f.precision, 0)), 0),
        scale       |-> Or(GetTypeScale(t, Or(f.scale, 0)), 0),
        displaySize |-> Or(GetDisplaySize(t, size), NO_TOTAL),
        length      |-> Or(GetLength(t, size), DefaultLength),
        octetLength |-> Or(GetCharOctetLength(t, size, f.digits), DefaultLength),
        radix       |-> Or(GetRadixFromSqlDataType(t), NO_TOTAL),
        unsigned    |-> f.type \in Unsigned]

(* The IRD record PopulateFromResultSetMetadata fills: the verbose type goes
   through the conversion of concise types too, where 9 is SQL_DATE. *)
IrdRecord(f, columnLength, isOdbc2x) ==
    LET col == Metadata(f, columnLength)
    IN [conciseType |-> GetSqlTypeForODBCVersion(col.conciseType, isOdbc2x),
        type        |-> GetSqlTypeForODBCVersion(col.dataType, isOdbc2x),
        unsigned    |-> col.unsigned]

-----------------------------------------------------------------------------
(* C types. *)

(* The Arrow type a C type is converted from: ConvertCToArrowType. *)
ArrowOfC ==
    [C_CHAR |-> "STRING", C_WCHAR |-> "STRING", C_SSHORT |-> "INT16", C_USHORT |-> "UINT16",
     C_SLONG |-> "INT32", C_ULONG |-> "UINT32", C_FLOAT |-> "FLOAT", C_DOUBLE |-> "DOUBLE",
     C_BIT |-> "BOOL", C_STINYINT |-> "INT8", C_UTINYINT |-> "UINT8", C_SBIGINT |-> "INT64",
     C_UBIGINT |-> "UINT64", C_BINARY |-> "BINARY", C_NUMERIC |-> "DECIMAL128",
     C_TIMESTAMP |-> "TIMESTAMP", C_TIME |-> "TIME64", C_DATE |-> "DATE64"]
CTypes == DOMAIN ArrowOfC

(* C types of ODBC that the driver does not convert to. *)
OtherCTypes == {"C_GUID", "C_INTERVAL_DAY", "C_INTERVAL_MONTH"}

(* ConvertCDataTypeFromV2ToV3, of the C types only ODBC 2 has. *)
V2CTypes == [C_TINYINT |-> "C_STINYINT", C_LONG |-> "C_SLONG", C_SHORT |-> "C_SSHORT",
             V2_DATE |-> "C_DATE", V2_TIME |-> "C_TIME", V2_TIMESTAMP |-> "C_TIMESTAMP"]
ConvertCDataTypeFromV2ToV3(c) == IF c \in DOMAIN V2CTypes THEN V2CTypes[c] ELSE c

(* ConvertArrowTypeToC: the default of a bound column. *)
ConvertArrowTypeToC(a) ==
    CASE a = "STRING" -> DefaultCChar
      [] a = "DATE32" -> "C_DATE"
      [] a = "TIME32" -> "C_TIME"
      [] a # "STRING" /\ \E c \in CTypes : ArrowOfC[c] = a ->
             CHOOSE c \in CTypes : ArrowOfC[c] = a
      [] OTHER -> Throws

(* getCTypeForSQLType: the default of SQLGetData, from the concise type of the
   IRD, which may be one of ODBC 2. *)
getCTypeForSQLType(t, unsigned) ==
    CASE t \in CharTypes   -> "C_CHAR"
      [] t \in WideTypes   -> "C_WCHAR"
      [] t \in BinaryTypes -> "C_BINARY"
      [] t = "TINYINT"     -> IF unsigned THEN "C_UTINYINT" ELSE "C_STINYINT"
      [] t = "SMALLINT"    -> IF unsigned THEN "C_USHORT" ELSE "C_SSHORT"
      [] t = "INTEGER"     -> IF unsigned THEN "C_ULONG" ELSE "C_SLONG"
      [] t = "BIGINT"      -> IF unsigned THEN "C_UBIGINT" ELSE "C_SBIGINT"
      [] t = "REAL"        -> "C_FLOAT"
      [] t \in {"FLOAT", "DOUBLE"}       -> "C_DOUBLE"
      [] t \in {"9", "TYPE_DATE"}          -> "C_DATE"
      [] t \in {"10", "TYPE_TIME"}         -> "C_TIME"
      [] t \in {"11", "TYPE_TIMESTAMP"}    -> "C_TIMESTAMP"
      [] t \in Intervals                 -> t    \* no C type of the driver
      [] OTHER             -> Throws

(* GetLength of ODBCStatement.cc: the size of a C type that has one. *)
CSize ==
    [C_BIT |-> 1, C_STINYINT |-> 1, C_UTINYINT |-> 1, C_SSHORT |-> 2, C_USHORT |-> 2,
     C_SLONG |-> 4, C_ULONG |-> 4, C_FLOAT |-> 4, C_SBIGINT |-> 8, C_UBIGINT |-> 8,
     C_DOUBLE |-> 8, C_NUMERIC |-> 19, C_DATE |-> 6, C_TIME |-> 6, C_TIMESTAMP |-> 16]

-----------------------------------------------------------------------------
(* Conversion. *)

(* The table of accessors: an array's type and a C type. *)
Accessors ==
    {<<ArrowOfC[c], c>> : c \in CTypes} \cup {<<"DATE32", "C_DATE">>, <<"TIME32", "C_TIME">>}

Convertible == {ArrowOfC[c] : c \in CTypes} \cup {"DATE32", "TIME32"} \cup ComplexTypes

NeedArrayConversionTime32(a, c) ==      \* mutant: TIME32 goes with the timestamps
    IF IsComplexType(a) THEN c \in {"C_CHAR", "C_WCHAR"}
    ELSE <<IF a = "TIME32" THEN "TIMESTAMP" ELSE a, c>> \notin Accessors

(* Complex types are left as they are for anything but text. *)
NeedArrayConversion(a, c) ==
    IF IsComplexType(a) THEN c \in {"C_CHAR", "C_WCHAR"}
    ELSE <<a, c>> \notin Accessors

(* GetConverter: the type of the array it makes.  Arrow's own cast may refuse
   the pair, which is an exception too and not modelled. *)
Converted(a, c) ==
    CASE a \in ComplexTypes \cup {"DECIMAL128"} /\ c \in {"C_CHAR", "C_WCHAR"} -> "STRING"
      [] a \in {"TIME32", "TIME64"} /\ c = "C_TIMESTAMP" -> "TIMESTAMP"
      [] OTHER -> IF c \in CTypes THEN ArrowOfC[c] ELSE Throws

CastArray(a, c) ==
    CASE a \notin Convertible -> Throws     \* NeedArrayConversion: "Invalid conversion"
      [] a \in Convertible /\ NeedArrayConversion(a, c)  -> Converted(a, c)
      [] a \in Convertible /\ ~NeedArrayConversion(a, c) -> a

(* CreateAccessor of a column: throws, or the C type the value is written as. *)
CreateAccessor(a, c) == IF <<CastArray(a, c), c>> \in Accessors THEN c ELSE Throws

(* SetBinding and GetAccessorForTargetType: C_DEFAULT of a bound column. *)
BoundType(a, c) == IF c = "C_DEFAULT" THEN ConvertArrowTypeToC(a) ELSE c

(* ODBCStatement::GetData: C_DEFAULT, from the application or from the current
   ARD, which no binding wrote, is resolved with the IRD's concise type. *)
GetDataType(ird, c) ==
    IF c = "C_DEFAULT" THEN getCTypeForSQLType(ird.conciseType, ird.unsigned) ELSE c

-----------------------------------------------------------------------------
(* Arrow types the metadata gives a SQL type, and no call can read. *)
Unreadable == ArrowTypes \ Convertible

(* A value can be read as text, bound or not, whatever its type, as soon as
   the column has one of the types the driver converts at all; and an array
   that is not converted is never handed to an accessor of another type: every
   type the conversion leaves alone is in the table of accessors.  The set of
   types left out is what the server must not send: LARGE_STRING, LARGE_BINARY,
   FIXED_SIZE_BINARY, HALF_FLOAT, the intervals, dictionaries and unions are
   described by SQLDescribeCol and refused by every fetch.
   (NeedArrayConversion, GetConverter, ACCESSORS_CONSTRUCTORS) *)
TablesAgreeOn(a) ==
    /\ a \notin Unreadable =>
         /\ CreateAccessor(a, "C_CHAR") # Throws /\ CreateAccessor(a, "C_WCHAR") # Throws
         /\ \A c \in CTypes \cup OtherCTypes : CreateAccessor(a, c) = Throws =>
                c \in OtherCTypes \/ IsComplexType(a)
    /\ a \in Unreadable => \A c \in CTypes : CreateAccessor(a, c) = Throws

(* What the metadata says of a column is consistent: the verbose type and the
   subcode it goes with name one concise type; a descriptor asked in the terms
   of either ODBC version turns the type of the other into the same one; the
   octets of a character column are its characters times their size; and the
   value of the default C type, found from the Arrow type for a bound column and
   from the SQL type for SQLGetData, is the same one and fits the octets told.
   SQLGetData refuses SQL_C_DEFAULT for BIT and DECIMAL columns, and for
   complex types the binding does: the disagreements are named.
   (FlightSqlResultSetMetadata, getCTypeForSQLType, ConvertArrowTypeToC) *)
DefaultDisagrees(a) == a \in {"BOOL", "DECIMAL128", "FLOAT"} \cup ComplexTypes

ColumnsDescribedOf(f, columnLength) ==
    LET col == Metadata(f, columnLength)
        t   == col.conciseType
        bound == BoundType(f.type, "C_DEFAULT")
    IN /\ \A u \in SqlTypes : u # t /\ GetNonConciseDataType(u) = col.dataType
              => GetSqlDateTimeSubCode(u) # GetSqlDateTimeSubCode(t)
       /\ GetSqlTypeForODBCVersion(GetSqlTypeForODBCVersion(t, TRUE), FALSE) = t
       /\ t \in CharTypes \cup WideTypes
              => col.octetLength = col.length * IF t \in WideTypes THEN WcharSize ELSE 1
       /\ GetTypeNameFromSqlDataType(t) # Throws
       /\ f.type \in Convertible \ Unreadable /\ ~DefaultDisagrees(f.type) =>
              \A v2 \in BOOLEAN :
                 /\ bound = GetDataType(IrdRecord(f, columnLength, v2), "C_DEFAULT")
                 /\ bound \in DOMAIN CSize => CSize[bound] <= col.octetLength
=============================================================================
