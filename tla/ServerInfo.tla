------------------------------ MODULE ServerInfo ------------------------------
(***************************************************************************)
(* What SQLGetInfo answers: the constants of the driver, and the entries   *)
(* of GetInfoCache, filled by its constructor, by what the server tells    *)
(* in the rows of a GetSqlInfo stream, and by defaults for the rest.       *)
(* get_info_cache.cc, scalar_function_reporter.cc and                      *)
(* ODBCConnection::GetInfo.                                                *)
(*                                                                         *)
(* An entry has the type of its variant; masks are sets of the names of    *)
(* their bits, without the prefix.  The load is here, row by row; when it  *)
(* is made, and that it is made once, is module Connection.                *)
(***************************************************************************)
EXTENDS Versions, TLC

CONSTANT Rows     \* what a server may tell: an option and its value

VARIABLES
    loading,      \* how far LoadInfoFromServer is
    infoCache,    \* info_
    flags,        \* its local variables, by the option that sets them
    rowsTold,     \* history: the rows of the stream so far
    chunkTold     \* history: a chunk of it has ended

serverInfoVars == <<loading, infoCache, flags, rowsTold, chunkTold>>

Text(v) == [type |-> "string", value |-> v]
Word(v) == [type |-> "uint32", value |-> v]
Half(v) == [type |-> "uint16", value |-> v]
YesNo(b) == Text(IF b THEN "Y" ELSE "N")

(* Entries of one variant: a single one, and those of a table of values. *)
Entry(type, entry) == [t \in {type} |-> entry]
Texts(table)  == [t \in DOMAIN table |-> Text(table[t])]
Words(table)  == [t \in DOMAIN table |-> Word(table[t])]
Halves(table) == [t \in DOMAIN table |-> Half(table[t])]

(* What is stored later replaces what is there. *)
f ++ g == [t \in DOMAIN f \cup DOMAIN g |-> IF t \in DOMAIN f THEN f[t] ELSE g[t]]

-----------------------------------------------------------------------------
(* ODBCConnection::GetInfo: the types it answers itself, and those it asks the
   cache for, by the variant it expects. *)

DriverAnswers ==
    {"ACTIVE_ENVIRONMENTS", "ASYNC_DBC_FUNCTIONS", "ASYNC_MODE", "ASYNC_NOTIFICATION",
     "BATCH_ROW_COUNT", "BATCH_SUPPORT", "DATA_SOURCE_NAME", "DRIVER_ODBC_VER",
     "DYNAMIC_CURSOR_ATTRIBUTES1", "DYNAMIC_CURSOR_ATTRIBUTES2",
     "FORWARD_ONLY_CURSOR_ATTRIBUTES1", "FORWARD_ONLY_CURSOR_ATTRIBUTES2", "FILE_USAGE",
     "KEYSET_CURSOR_ATTRIBUTES1", "KEYSET_CURSOR_ATTRIBUTES2",
     "MAX_ASYNC_CONCURRENT_STATEMENTS", "ODBC_INTERFACE_CONFORMANCE", "PARAM_ARRAY_ROW_COUNTS",
     "PARAM_ARRAY_SELECTS", "ROW_UPDATES", "SCROLL_OPTIONS", "STATIC_CURSOR_ATTRIBUTES1",
     "STATIC_CURSOR_ATTRIBUTES2", "BOOKMARK_PERSISTENCE", "DESCRIBE_PARAMETER",
     "MULT_RESULT_SETS", "MULTIPLE_ACTIVE_TXN", "NEED_LONG_DATA_LEN", "TXN_CAPABLE",
     "TXN_ISOLATION_OPTION", "TABLE_TERM", "ODBC_API_CONFORMANCE", "FETCH_DIRECTION",
     "LOCK_TYPES", "POS_OPERATIONS", "POSITIONED_STATEMENTS", "SCROLL_CONCURRENCY",
     "STATIC_SENSITIVITY"}

ReadAsText ==
    {"USER_NAME", "COLUMN_ALIAS", "DBMS_NAME", "DBMS_VER", "DRIVER_NAME", "DRIVER_VER",
     "SEARCH_PATTERN_ESCAPE", "SERVER_NAME", "DATA_SOURCE_READ_ONLY", "ACCESSIBLE_TABLES",
     "ACCESSIBLE_PROCEDURES", "CATALOG_TERM", "COLLATION_SEQ", "SCHEMA_TERM", "CATALOG_NAME",
     "CATALOG_NAME_SEPARATOR", "EXPRESSIONS_IN_ORDERBY", "IDENTIFIER_QUOTE_CHAR", "INTEGRITY",
     "KEYWORDS", "LIKE_ESCAPE_CLAUSE", "MAX_ROW_SIZE_INCLUDES_LONG",
     "ORDER_BY_COLUMNS_IN_SELECT", "OUTER_JOINS", "PROCEDURE_TERM", "PROCEDURES",
     "SPECIAL_CHARACTERS", "XOPEN_CLI_YEAR"}

(* The SQL types a conversion can be told of, and those ODBC has besides. *)
GetInfoTypeForArrowConvertEntry ==
    [BIGINT |-> "CONVERT_BIGINT", BINARY |-> "CONVERT_BINARY", BIT |-> "CONVERT_BIT",
     CHAR |-> "CONVERT_CHAR", DATE |-> "CONVERT_DATE", DECIMAL |-> "CONVERT_DECIMAL",
     FLOAT |-> "CONVERT_FLOAT", INTEGER |-> "CONVERT_INTEGER",
     INTERVAL_DAY_TIME |-> "CONVERT_INTERVAL_DAY_TIME",
     INTERVAL_YEAR_MONTH |-> "CONVERT_INTERVAL_YEAR_MONTH",
     LONGVARBINARY |-> "CONVERT_LONGVARBINARY", LONGVARCHAR |-> "CONVERT_LONGVARCHAR",
     NUMERIC |-> "CONVERT_NUMERIC", REAL |-> "CONVERT_REAL", SMALLINT |-> "CONVERT_SMALLINT",
     TIME |-> "CONVERT_TIME", TIMESTAMP |-> "CONVERT_TIMESTAMP", TINYINT |-> "CONVERT_TINYINT",
     VARBINARY |-> "CONVERT_VARBINARY", VARCHAR |-> "CONVERT_VARCHAR"]
ConvertEntries == DOMAIN GetInfoTypeForArrowConvertEntry
Converts ==
    {GetInfoTypeForArrowConvertEntry[t] : t \in ConvertEntries}
    \cup {"CONVERT_DOUBLE", "CONVERT_GUID", "CONVERT_WCHAR", "CONVERT_WVARCHAR",
          "CONVERT_WLONGVARCHAR"}

ReadAsWord ==
    Converts \cup
    {"GETDATA_EXTENSIONS", "INFO_SCHEMA_VIEWS", "CURSOR_SENSITIVITY", "DEFAULT_TXN_ISOLATION",
     "AGGREGATE_FUNCTIONS", "ALTER_DOMAIN", "ALTER_TABLE", "DATETIME_LITERALS",
     "CATALOG_USAGE", "CREATE_ASSERTION", "CREATE_CHARACTER_SET", "CREATE_COLLATION",
     "CREATE_DOMAIN", "CREATE_SCHEMA", "CREATE_TABLE", "CREATE_TRANSLATION", "CREATE_VIEW",
     "INDEX_KEYWORDS", "INSERT_STATEMENT", "OJ_CAPABILITIES", "SCHEMA_USAGE",
     "SQL_CONFORMANCE", "SUBQUERIES", "UNION", "MAX_BINARY_LITERAL_LEN",
     "MAX_CHAR_LITERAL_LEN", "MAX_ROW_SIZE", "MAX_STATEMENT_LEN", "CONVERT_FUNCTIONS",
     "NUMERIC_FUNCTIONS", "STRING_FUNCTIONS", "SYSTEM_FUNCTIONS", "TIMEDATE_ADD_INTERVALS",
     "TIMEDATE_DIFF_INTERVALS", "TIMEDATE_FUNCTIONS", "DDL_INDEX", "DROP_ASSERTION",
     "DROP_CHARACTER_SET", "DROP_COLLATION", "DROP_DOMAIN", "DROP_SCHEMA", "DROP_TABLE",
     "DROP_TRANSLATION", "DROP_VIEW", "MAX_INDEX_SIZE", "SQL92_DATETIME_FUNCTIONS",
     "SQL92_FOREIGN_KEY_DELETE_RULE", "SQL92_FOREIGN_KEY_UPDATE_RULE", "SQL92_GRANT",
     "SQL92_NUMERIC_VALUE_FUNCTIONS", "SQL92_PREDICATES", "SQL92_RELATIONAL_JOIN_OPERATORS",
     "SQL92_REVOKE", "SQL92_ROW_VALUE_CONSTRUCTOR", "SQL92_STRING_FUNCTIONS",
     "SQL92_VALUE_EXPRESSIONS", "STANDARD_CLI_CONFORMANCE"}

(* Limits a server tells that fit in 16 bits. *)
ShortLimits ==
    {"MAX_COLUMN_NAME_LEN", "MAX_COLUMNS_IN_GROUP_BY", "MAX_COLUMNS_IN_INDEX",
     "MAX_COLUMNS_IN_ORDER_BY", "MAX_COLUMNS_IN_SELECT", "MAX_COLUMNS_IN_TABLE",
     "MAX_DRIVER_CONNECTIONS", "MAX_CURSOR_NAME_LEN", "MAX_SCHEMA_NAME_LEN",
     "MAX_PROCEDURE_NAME_LEN", "MAX_CATALOG_NAME_LEN", "MAX_CONCURRENT_ACTIVITIES",
     "MAX_TABLE_NAME_LEN", "MAX_TABLES_IN_SELECT", "MAX_USER_NAME_LEN"}
LongLimits == {"MAX_BINARY_LITERAL_LEN", "MAX_CHAR_LITERAL_LEN", "MAX_INDEX_SIZE",
               "MAX_ROW_SIZE", "MAX_STATEMENT_LEN"}

ReadAsHalf ==
    ShortLimits \cup
    {"CONCAT_NULL_BEHAVIOR", "CURSOR_COMMIT_BEHAVIOR", "CURSOR_ROLLBACK_BEHAVIOR",
     "NULL_COLLATION", "CATALOG_LOCATION", "CORRELATION_NAME", "GROUP_BY", "IDENTIFIER_CASE",
     "NON_NULLABLE_COLUMNS", "QUOTED_IDENTIFIER_CASE", "MAX_IDENTIFIER_LEN",
     "ODBC_SQL_CONFORMANCE", "ODBC_SAG_CLI_CONFORMANCE"}

ReadFromCache == ReadAsText \cup ReadAsWord \cup ReadAsHalf

(* boost::get throws when the entry holds another variant. *)
HoldsVariantRead(infoType, variant) ==
    \/ infoType \in ReadAsText /\ variant = "string"
    \/ infoType \in ReadAsWord /\ variant = "uint32"
    \/ infoType \in ReadAsHalf /\ variant = "uint16"

AnswerInfo(infoType, currentCatalog) ==
    IF infoType \in DriverAnswers THEN "answered"
    ELSE IF infoType = "DATABASE_NAME" THEN IF currentCatalog THEN "answered" ELSE "HYC00"
    ELSE IF infoType \notin ReadFromCache THEN "Unknown SQLGetInfo type"
    ELSE IF infoType \notin DOMAIN infoCache THEN "Unknown GetInfo type"
    ELSE IF HoldsVariantRead(infoType, infoCache[infoType].type) THEN "answered" ELSE "bad_get"

-----------------------------------------------------------------------------
(* The constructor. *)

TimestampIntervals ==
    {"FRAC_SECOND", "SECOND", "MINUTE", "HOUR", "DAY", "WEEK", "MONTH", "QUARTER", "YEAR"}
Aggregates == {"ALL", "AVG", "COUNT", "DISTINCT", "MAX", "MIN", "SUM"}
Inserts == {"INSERT_LITERALS", "INSERT_SEARCHED", "SELECT_INTO"}

(* What both the constructor and the defaults give. *)
OfTheDriver ==
    Texts([DRIVER_NAME |-> "driver", DRIVER_VER |-> "driver", ACCESSIBLE_PROCEDURES |-> "N",
           COLUMN_ALIAS |-> "Y", COLLATION_SEQ |-> "", CATALOG_TERM |-> "",
           CATALOG_NAME_SEPARATOR |-> "", CATALOG_NAME |-> "N"])
    ++ Words([GETDATA_EXTENSIONS |-> {"ANY_COLUMN", "ANY_ORDER"},
              CURSOR_SENSITIVITY |-> "UNSPECIFIED", AGGREGATE_FUNCTIONS |-> Aggregates,
              TIMEDATE_ADD_INTERVALS |-> TimestampIntervals,
              TIMEDATE_DIFF_INTERVALS |-> TimestampIntervals])
    ++ Words([t \in {"ALTER_DOMAIN", "ALTER_TABLE", "CREATE_ASSERTION", "CREATE_CHARACTER_SET",
                     "CREATE_DOMAIN", "CREATE_TRANSLATION", "INDEX_KEYWORDS", "DDL_INDEX",
                     "DROP_ASSERTION", "DROP_CHARACTER_SET", "DROP_COLLATION", "DROP_DOMAIN",
                     "DROP_SCHEMA", "DROP_TABLE", "DROP_TRANSLATION", "DROP_VIEW"} |-> {}])
    ++ Halves([CURSOR_COMMIT_BEHAVIOR |-> "CB_CLOSE", CURSOR_ROLLBACK_BEHAVIOR |-> "CB_CLOSE",
               MAX_IDENTIFIER_LEN |-> 65535, CATALOG_LOCATION |-> "NONE"])

GetInfoCache ==
    OfTheDriver
    ++ Words([DATETIME_LITERALS |-> {"SQL92_DATE", "SQL92_TIME", "SQL92_TIMESTAMP"},
              CREATE_COLLATION |-> {}])

-----------------------------------------------------------------------------
(* A row of the stream: an option of Flight SQL and its value; rows with a null
   are left out, options that are not recognized are ignored.  Options whose
   value is kept as it is, or as Y and N. *)

Ignored == <<>>

TextOf ==
    [SEARCH_STRING_ESCAPE |-> "SEARCH_PATTERN_ESCAPE",
     IDENTIFIER_QUOTE_CHAR |-> "IDENTIFIER_QUOTE_CHAR",
     EXTRA_NAME_CHARACTERS |-> "SPECIAL_CHARACTERS", SCHEMA_TERM |-> "SCHEMA_TERM",
     PROCEDURE_TERM |-> "PROCEDURE_TERM"]

ServerText(option, v) ==
    CASE option = "SERVER_NAME" -> Texts([SERVER_NAME |-> v, DBMS_NAME |-> v, DATABASE_NAME |-> v])
      [] option = "SERVER_VERSION" -> Entry("DBMS_VER", Text(ConvertToDBMSVer(v)))
      [] option \in DOMAIN TextOf -> Entry(TextOf[option], Text(v))
      [] option = "CATALOG_TERM" ->
            Entry("CATALOG_TERM", Text(v)) ++ Entry("CATALOG_NAME", YesNo(v # ""))
            ++ Entry("CATALOG_NAME_SEPARATOR", Text(IF v = "" THEN "" ELSE "."))
            ++ Entry("CATALOG_LOCATION", Half(IF v = "" THEN "NONE" ELSE "START"))
      [] OTHER -> Ignored

YesNoOf ==
    [ALL_TABLES_ARE_SELECTABLE |-> "ACCESSIBLE_TABLES",
     SUPPORTS_COLUMN_ALIASING |-> "COLUMN_ALIAS",
     SUPPORTS_EXPRESSIONS_IN_ORDER_BY |-> "EXPRESSIONS_IN_ORDERBY",
     SUPPORTS_LIKE_ESCAPE_CLAUSE |-> "LIKE_ESCAPE_CLAUSE",
     SUPPORTS_INTEGRITY_ENHANCEMENT_FACILITY |-> "INTEGRITY",
     STORED_PROCEDURES_SUPPORTED |-> "PROCEDURES",
     MAX_ROW_SIZE_INCLUDES_BLOBS |-> "MAX_ROW_SIZE_INCLUDES_LONG"]

ChoiceOf ==
    [NULL_PLUS_NULL_IS_NULL |-> <<"CONCAT_NULL_BEHAVIOR", "NULL", "NON_NULL">>,
     SUPPORTS_NON_NULLABLE_COLUMNS |-> <<"NON_NULLABLE_COLUMNS", "NON_NULL", "NULL">>,
     CATALOG_AT_START |-> <<"CATALOG_LOCATION", "START", "END">>]

(* The values of the two DDL options are read and not looked at. *)
ServerBool(option, v) ==
    CASE option \in DOMAIN YesNoOf -> Entry(YesNoOf[option], YesNo(v))
      [] option = "SERVER_READ_ONLY" ->
            Entry("DATA_SOURCE_READ_ONLY", YesNo(v)) ++ Entry("INSERT_STATEMENT", Word(Inserts))
      [] option = "DDL_SCHEMA" ->
            Entry("DROP_SCHEMA", Word({"DROP"})) ++ Entry("CREATE_SCHEMA", Word({"CREATE"}))
      [] option = "DDL_TABLE" ->
            Entry("CREATE_TABLE", Word({"CREATE"})) ++ Entry("DROP_TABLE", Word({"DROP"}))
      [] option = "SUPPORTS_ORDER_BY_UNRELATED" -> Entry("ORDER_BY_COLUMNS_IN_SELECT", YesNo(~v))
      [] option = "BATCH_UPDATES_SUPPORTED" ->
            Entry("BATCH_SUPPORT", Word(IF v THEN {"ROW_COUNT_EXPLICIT"} ELSE {}))
      [] option \in DOMAIN ChoiceOf ->
            Entry(ChoiceOf[option][1], Half(ChoiceOf[option][IF v THEN 2 ELSE 3]))
      [] OTHER -> Ignored

(* Numbers: a limit is cast to the width of its entry. *)
CaseOf(n) == IF n \in 1..3 THEN <<"MIXED", "UPPER", "LOWER">>[n] ELSE "SENSITIVE"
ServerNumber(option, n) ==
    CASE option \in {"IDENTIFIER_CASE", "QUOTED_IDENTIFIER_CASE"} -> Entry(option, Half(CaseOf(n)))
      [] option = "NULL_ORDERING" ->
            Entry("NULL_COLLATION",
                  Half(CASE n = 0 -> "HIGH" [] n = 2 -> "START" [] n = 3 -> "END" [] OTHER -> "LOW"))
      [] option \in ShortLimits -> Entry(option, Half(n % 65536))
      [] option \in LongLimits -> Entry(option, Word(n))
      [] OTHER -> Ignored

(* The first bit of an order that is in the mask decides. *)
FirstOf(mask, order, default) ==
    LET hits == SelectSeq(order, LAMBDA p : p[1] \in mask)
    IN IF hits = <<>> THEN default ELSE hits[1][2]

Isolations == <<"READ_UNCOMMITTED", "READ_COMMITTED", "REPEATABLE_READ", "SERIALIZABLE">>
Conformance(mask) ==
    FirstOf(mask, <<<<"ENTRY", <<"ENTRY", "MINIMUM">>>>, <<"INTERMEDIATE", <<"INTERMEDIATE", "CORE">>>>,
                    <<"FULL", <<"FULL", "EXTENDED">>>>>>, <<"ENTRY", "MINIMUM">>)

(* SQL_SC_SQL92_INTERMEDIATE has the number of SQL_OJ_FULL. *)
OuterJoins(mask) ==
    FirstOf(mask, <<<<"FULL", {"LEFT", "RIGHT", "FULL", "NESTED"}>>, <<"LIMITED", {"FULL"}>>>>, {})
OuterJoinOperators(mask) ==
    {"CROSS_JOIN", "INNER_JOIN"} \cup
    IF "FULL" \in mask THEN {"FULL_OUTER_JOIN", "LEFT_OUTER_JOIN", "RIGHT_OUTER_JOIN"} ELSE {}

ActionsOf(mask) ==
    {"DML_STATEMENTS", "TABLE_DEFINITION"} \cup
    {CASE a = "PROCEDURE" -> "PROCEDURE_INVOCATION" [] a = "INDEX" -> "INDEX_DEFINITION"
       [] a = "PRIVILEGE" -> "PRIVILEGE_DEFINITION" :
     a \in mask}

ServerMask(option, mask) ==
    CASE option = "DEFAULT_TRANSACTION_ISOLATION" ->
            Entry("DEFAULT_TXN_ISOLATION",
                  Word(FirstOf(mask, [i \in 1..4 |-> <<Isolations[i], {Isolations[i]}>>], {})))
      [] option = "SUPPORTED_GROUP_BY" ->
            Entry("GROUP_BY",
                  Half(FirstOf(mask, <<<<"UNRELATED", "NO_RELATION">>,
                                       <<"BEYOND_SELECT", "CONTAINS_SELECT">>>>, "NOT_SUPPORTED")))
      [] option = "SUPPORTED_GRAMMAR" ->
            Entry("ODBC_API_CONFORMANCE",
                  Word(FirstOf(mask, <<<<"MINIMUM", "CORE">>, <<"CORE", "LEVEL1">>,
                                       <<"EXTENDED", "LEVEL2">>>>, "CORE")))
      [] option = "ANSI92_SUPPORTED_LEVEL" ->
            Entry("SQL_CONFORMANCE", Word(Conformance(mask)[1]))
            ++ Entry("ODBC_SQL_CONFORMANCE", Half(Conformance(mask)[2]))
      [] option = "OUTER_JOINS_SUPPORT_LEVEL" ->
            Entry("OJ_CAPABILITIES", Word(OuterJoins(mask)))
            ++ Entry("OUTER_JOINS", YesNo(OuterJoins(mask) # {}))
            ++ Entry("SQL92_RELATIONAL_JOIN_OPERATORS", Word(OuterJoinOperators(mask)))
      [] option = "SCHEMAS_SUPPORTED_ACTIONS" -> Entry("SCHEMA_USAGE", Word(ActionsOf(mask)))
      [] option = "CATALOGS_SUPPORTED_ACTIONS" -> Entry("CATALOG_USAGE", Word(ActionsOf(mask)))
      [] option = "SUPPORTED_SUBQUERIES" ->
            Entry("SUBQUERIES", Word(mask \cap {"COMPARISON", "EXISTS", "IN", "QUANTIFIED"}))
      [] option = "SUPPORTED_UNIONS" -> Entry("UNION", Word(mask \cap {"UNION", "UNION_ALL"}))
      [] option = "SUPPORTED_TRANSACTIONS_ISOLATION_LEVELS" ->
            Entry("TXN_ISOLATION_OPTION", Word(mask \cap ToSet(Isolations)))
      [] OTHER -> Ignored

-----------------------------------------------------------------------------
(* Names of functions, by their bit where it has another name. *)

NumericFunctions ==
    Entry("COS", "ACOS") ++
    [f \in {"ABS", "ACOS", "ASIN", "ATAN", "ATAN2", "CEILING", "COT", "DEGREES", "EXP", "FLOOR",
            "LOG", "LOG10", "MOD", "PI", "POWER", "RADIANS", "RAND", "ROUND", "SIGN", "SIN",
            "SQRT", "TAN", "TRUNCATE"} |-> f]
SystemFunctions == [DATABASE |-> "DBNAME", IFNULL |-> "IFNULL", USER |-> "USERNAME"]
DatetimeFunctions ==
    [f \in {"CURDATE", "CURTIME", "DAYNAME", "DAYOFMONTH", "DAYOFWEEK", "DAYOFYEAR", "HOUR",
            "MINUTE", "MONTH", "MONTHNAME", "NOW", "QUARTER", "SECOND", "TIMESTAMPADD",
            "TIMESTAMPDIFF", "WEEK", "YEAR", "CURRENT_DATE", "CURRENT_TIME",
            "CURRENT_TIMESTAMP", "EXTRACT"} |-> f]
StringFunctions ==
    Entry("POSTION", "POSITION") ++
    [f \in {"ASCII", "CHAR", "CONCAT", "DIFFERENCE", "INSERT", "LCASE", "LEFT", "LENGTH",
            "LOCATE", "LTRIM", "REPEAT", "REPLACE", "RIGHT", "RTRIM", "SOUNDEX", "SPACE",
            "SUBSTRING", "UCASE", "LOCATE_2", "BIT_LENGTH", "CHAR_LENGTH", "CHARACTER_LENGTH",
            "OCTET_LENGTH"} |-> f]

Null == "null"
Report(names, table) == {table[f] : f \in ToSet(names) \cap DOMAIN table}
ConvertFunctions(names) == IF "CONVERT" \in ToSet(names) THEN {"CONVERT", "CAST"} ELSE {}

(* A separator is written before every name but the first of the list. *)
Keywords(names) ==
    FoldLeftDomain(LAMBDA text, i :
        IF names[i] = Null THEN text
        ELSE text \o (IF i = 1 THEN <<>> ELSE <<", ">>) \o <<names[i]>>, <<>>, names)

GetCvtBitForArrowConvertEntry(t) ==
    CASE t = "CHAR" -> {"CHAR", "WCHAR"}
      [] t = "LONGVARCHAR" -> {"LONGVARCHAR", "WLONGVARCHAR"}
      [] t = "VARCHAR" -> {"VARCHAR", "WLONGVARCHAR"}
      [] OTHER -> {t} \cap ConvertEntries

ServerList(option, names) ==
    CASE option = "NUMERIC_FUNCTIONS" -> Entry(option, Word(Report(names, NumericFunctions)))
      [] option = "STRING_FUNCTIONS" -> Entry(option, Word(Report(names, StringFunctions)))
      [] option = "SYSTEM_FUNCTIONS" ->
            Entry(option, Word(Report(names, SystemFunctions)))
            ++ Entry("CONVERT_FUNCTIONS", Word(ConvertFunctions(names)))
      [] option = "DATETIME_FUNCTIONS" ->
            Entry("TIMEDATE_FUNCTIONS", Word(Report(names, DatetimeFunctions)))
      [] option = "KEYWORDS" -> Entry(option, Text(Keywords(names)))
      [] OTHER -> Ignored

(* A map from types to the types they convert to. *)
ServerConverts(option, map) ==
    IF option # "SUPPORTS_CONVERT" THEN Ignored
    ELSE [e \in {GetInfoTypeForArrowConvertEntry[t] : t \in DOMAIN map \cap ConvertEntries} |->
            Word(UNION {GetCvtBitForArrowConvertEntry(t) :
                            t \in map[CHOOSE s \in DOMAIN map \cap ConvertEntries :
                                          GetInfoTypeForArrowConvertEntry[s] = e]})]

-----------------------------------------------------------------------------
(* LoadInfoFromServer. *)

Flags == {"SUPPORTS_TABLE_CORRELATION_NAMES", "SUPPORTS_DIFFERENT_TABLE_CORRELATION_NAMES",
          "TRANSACTIONS_SUPPORTED", "DATA_DEFINITION_CAUSES_TRANSACTION_COMMIT",
          "DATA_DEFINITIONS_IN_TRANSACTIONS_IGNORED"}

ASSUME RowAssumption == \A row \in Rows : row.option \in Flags => row.value \in BOOLEAN

(* One switch over the option: at most one of these is not empty. *)
Entries(row) ==
    LET o == row.option
        v == row.value
    IN ServerText(o, v) ++ ServerBool(o, v) ++ ServerNumber(o, v) ++ ServerMask(o, v)
          ++ ServerList(o, v) ++ ServerConverts(o, v)

FromFlags(told) ==
    Entry("TXN_CAPABLE",
          Half(CASE ~told["TRANSACTIONS_SUPPORTED"] -> "NONE"
                 [] told["DATA_DEFINITION_CAUSES_TRANSACTION_COMMIT"] -> "DDL_COMMIT"
                 [] told["DATA_DEFINITIONS_IN_TRANSACTIONS_IGNORED"] -> "DDL_IGNORE"
                 [] OTHER -> "DML"))
    ++ Entry("CORRELATION_NAME",
             Half(CASE ~told["SUPPORTS_TABLE_CORRELATION_NAMES"] -> "NONE"
                    [] told["SUPPORTS_DIFFERENT_TABLE_CORRELATION_NAMES"] -> "DIFFERENT"
                    [] OTHER -> "ANY"))

DefaultsOfNames ==
    Texts([DBMS_NAME |-> "server", SERVER_NAME |-> "server", DBMS_VER |-> "server",
           DATA_SOURCE_READ_ONLY |-> "N", EXPRESSIONS_IN_ORDERBY |-> "N", INTEGRITY |-> "N",
           PROCEDURES |-> "N", MAX_ROW_SIZE_INCLUDES_LONG |-> "N", DESCRIBE_PARAMETER |-> "N",
           ACCESSIBLE_TABLES |-> "Y", LIKE_ESCAPE_CLAUSE |-> "Y",
           ORDER_BY_COLUMNS_IN_SELECT |-> "Y", KEYWORDS |-> "", PROCEDURE_TERM |-> "",
           SCHEMA_TERM |-> "schema", IDENTIFIER_QUOTE_CHAR |-> "quote",
           SEARCH_PATTERN_ESCAPE |-> "\\", XOPEN_CLI_YEAR |-> "1995",
           DRIVER_ODBC_VER |-> "03.80"])

DefaultsOfMasks ==
    Words([CORRELATION_NAME |-> "NONE", INSERT_STATEMENT |-> Inserts,
           INFO_SCHEMA_VIEWS |-> {"TABLES", "COLUMNS", "VIEWS"},
           OJ_CAPABILITIES |-> {"LEFT", "RIGHT", "FULL"}, SCHEMA_USAGE |-> {"DML_STATEMENTS"},
           SQL_CONFORMANCE |-> "ENTRY",
           SQL92_DATETIME_FUNCTIONS |-> {"CURRENT_DATE", "CURRENT_TIME", "CURRENT_TIMESTAMP"},
           SQL92_PREDICATES |-> {"BETWEEN", "COMPARISON", "EXISTS", "IN", "ISNOTNULL", "ISNULL",
                                 "LIKE"},
           SQL92_RELATIONAL_JOIN_OPERATORS |-> OuterJoinOperators({"FULL"}),
           SQL92_ROW_VALUE_CONSTRUCTOR |-> {"VALUE_EXPRESSION", "NULL"},
           SQL92_STRING_FUNCTIONS |-> {"CONVERT", "LOWER", "UPPER", "SUBSTRING", "TRIM_BOTH",
                                       "TRIM_LEADING", "TRIM_TRAILING"},
           SQL92_VALUE_EXPRESSIONS |-> {"CASE", "CAST", "COALESCE", "NULLIF"},
           STRING_FUNCTIONS |-> {"CONCAT", "LCASE", "LENGTH", "LTRIM", "RTRIM", "SPACE",
                                 "SUBSTRING", "UCASE"},
           SUBQUERIES |-> {"CORRELATED", "COMPARISON", "EXISTS", "IN", "QUANTIFIED"},
           SYSTEM_FUNCTIONS |-> {"IFNULL", "USERNAME"}])
    ++ Entry("UNION", Word({"UNION", "UNION_ALL"}))
    ++ Words([t \in Converts \cup
                {"CATALOG_USAGE", "CREATE_SCHEMA", "CREATE_TABLE", "CREATE_VIEW",
                 "DEFAULT_TXN_ISOLATION", "NUMERIC_FUNCTIONS", "SQL92_FOREIGN_KEY_DELETE_RULE",
                 "SQL92_FOREIGN_KEY_UPDATE_RULE", "SQL92_GRANT", "SQL92_NUMERIC_VALUE_FUNCTIONS",
                 "SQL92_REVOKE", "STANDARD_CLI_CONFORMANCE", "ASYNC_MODE", "BATCH_ROW_COUNT",
                 "BATCH_SUPPORT", "BOOKMARK_PERSISTENCE", "MAX_ASYNC_CONCURRENT_STATEMENTS"}
              |-> {}])

DefaultsOfNumbers ==
    Halves([t \in ShortLimits \ {"MAX_CONCURRENT_ACTIVITIES"} |-> 0])
    ++ Words([t \in LongLimits |-> 0])
    ++ Halves([ACTIVE_ENVIRONMENTS |-> 0, CONCAT_NULL_BEHAVIOR |-> "NULL",
               GROUP_BY |-> "CONTAINS_SELECT", IDENTIFIER_CASE |-> "MIXED",
               NON_NULLABLE_COLUMNS |-> "NULL", NULL_COLLATION |-> "END",
               QUOTED_IDENTIFIER_CASE |-> "SENSITIVE", ODBC_SQL_CONFORMANCE |-> "MINIMUM",
               ODBC_SAG_CLI_CONFORMANCE |-> "COMPLIANT"])

LoadDefaultsForMissingEntries(cache) ==
    cache ++ OfTheDriver ++ DefaultsOfNames ++ DefaultsOfMasks ++ DefaultsOfNumbers

(* SQL_USER_NAME is set by the connection when it has logged in. *)
BeforeLoad == Entry("USER_NAME", Text("user")) ++ GetInfoCache
NoFlags    == [f \in Flags |-> FALSE]

ServerInfoInit ==
    /\ loading = "not yet" /\ infoCache = BeforeLoad /\ flags = NoFlags
    /\ rowsTold = {} /\ chunkTold = FALSE

(* GetSqlInfo. *)
AskServer ==
    /\ loading = "not yet" /\ loading' = "stream"
    /\ UNCHANGED <<infoCache, flags, rowsTold, chunkTold>>

(* GetNext has a chunk. *)
BeginChunk ==
    /\ loading = "stream" /\ loading' = "chunk"
    /\ UNCHANGED <<infoCache, flags, rowsTold, chunkTold>>

TakeRow(row) ==
    /\ loading = "chunk"
    /\ IF row.option \in Flags
       THEN flags' = [flags EXCEPT ![row.option] = row.value] /\ UNCHANGED infoCache
       ELSE infoCache' = Entries(row) ++ infoCache /\ UNCHANGED flags
    /\ rowsTold' = rowsTold \cup {row}
    /\ UNCHANGED <<loading, chunkTold>>

EndChunkForgets ==  \* mutant: what one chunk told of the flags is forgotten in the next
    /\ loading = "chunk" /\ loading' = "stream"
    /\ infoCache' = FromFlags(flags) ++ infoCache
    /\ chunkTold' = TRUE /\ flags' = NoFlags
    /\ UNCHANGED rowsTold

EndChunk ==
    /\ loading = "chunk" /\ loading' = "stream"
    /\ infoCache' = FromFlags(flags) ++ infoCache
    /\ chunkTold' = TRUE
    /\ UNCHANGED <<flags, rowsTold>>

EndStream ==
    /\ loading = "stream" /\ loading' = "done"
    /\ infoCache' = LoadDefaultsForMissingEntries(infoCache)
    /\ UNCHANGED <<flags, rowsTold, chunkTold>>

(* The request, the stream or a value fails, and the exception leaves what was
   stored so far; no other load follows. *)
LoadBreaksOff ==
    /\ loading \in {"not yet", "stream", "chunk"} /\ loading' = "broken off"
    /\ UNCHANGED <<infoCache, flags, rowsTold, chunkTold>>

ServerInfoNext ==
    \/ AskServer \/ BeginChunk \/ EndChunk \/ EndStream \/ LoadBreaksOff
    \/ \E row \in Rows : TakeRow(row)

ServerInfoSpec == ServerInfoInit /\ [][ServerInfoNext]_serverInfoVars

-----------------------------------------------------------------------------
(* Type invariant. *)
ServerInfoTypeOK ==
    /\ loading \in {"not yet", "stream", "chunk", "done", "broken off"}
    /\ \A e \in DOMAIN infoCache : infoCache[e].type \in {"string", "uint32", "uint16"}
    /\ flags \in [Flags -> BOOLEAN]
    /\ rowsTold \subseteq Rows
    /\ chunkTold \in BOOLEAN

(* Whatever the server tells, in whatever chunks, and whatever it leaves out,
   each type SQLGetInfo asks the cache for is there with the variant it is read
   as.  Five types are known only if the server tells them; and a stream without
   a chunk leaves SQL_CORRELATION_NAME with the variant of its default, which is
   not the one it is read as.  A load that broke off leaves some unknown, but no
   entry that cannot be read.
   (LoadInfoFromServer, LoadDefaultsForMissingEntries, ODBCConnection::GetInfo) *)
ToldBy ==
    [OUTER_JOINS |-> "OUTER_JOINS_SUPPORT_LEVEL", SPECIAL_CHARACTERS |-> "EXTRA_NAME_CHARACTERS",
     CONVERT_FUNCTIONS |-> "SYSTEM_FUNCTIONS", TIMEDATE_FUNCTIONS |-> "DATETIME_FUNCTIONS",
     MAX_CONCURRENT_ACTIVITIES |-> "MAX_CONCURRENT_ACTIVITIES"]
OptionsTold == {row.option : row \in rowsTold}

EveryTypeIsAnswered ==
    \A t \in ReadFromCache :
        /\ loading = "done" =>
             AnswerInfo(t, TRUE) =
               (IF t = "CORRELATION_NAME" /\ ~chunkTold THEN "bad_get"
                ELSE IF t \in DOMAIN ToldBy /\ ToldBy[t] \notin OptionsTold
                     THEN "Unknown GetInfo type"
                     ELSE "answered")
        /\ loading # "done" => AnswerInfo(t, TRUE) # "bad_get"

(* The order of the rows in the stream, and the chunks they come in, do not
   matter: each row ends in its entries, the flags in theirs, a flag told in one
   chunk counts when the one it belongs with comes in another, and an entry
   nobody told of is as the driver has it.  It is so if no option is told twice
   with different values; the term for catalogs and their place overwrite the
   same entry. (LoadInfoFromServer) *)
ToldOnce == \A r, s \in rowsTold : r.option = s.option => r = s
EntryRows == {row \in rowsTold : row.option \notin Flags}
FlagsTold == [f \in Flags |-> \E row \in rowsTold : row.option = f /\ row.value]
Untold == LoadDefaultsForMissingEntries(BeforeLoad)

RowsEndInTheirEntries ==
    \A row \in EntryRows : \A e \in DOMAIN Entries(row) :
        \/ e \in DOMAIN infoCache /\ infoCache[e] = Entries(row)[e]
        \/ e = "CATALOG_LOCATION" /\ {"CATALOG_TERM", "CATALOG_AT_START"} \subseteq OptionsTold

FlagsEndInTheirs ==
    chunkTold => \A e \in DOMAIN FromFlags(FlagsTold) :
                    e \in DOMAIN infoCache /\ infoCache[e] = FromFlags(FlagsTold)[e]

OthersAreTheDrivers ==
    \A e \in DOMAIN infoCache :
        \/ e \in DOMAIN Untold /\ infoCache[e] = Untold[e]
        \/ \E row \in EntryRows : e \in DOMAIN Entries(row)
        \/ chunkTold /\ e \in DOMAIN FromFlags(FlagsTold)

ServerInfoHolds ==
    /\ EveryTypeIsAnswered
    /\ loading = "done" /\ ToldOnce =>
         RowsEndInTheirEntries /\ FlagsEndInTheirs /\ OthersAreTheDrivers
=============================================================================
