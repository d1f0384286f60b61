---------------------------- MODULE MCConversions ----------------------------
(* The conversions of the driver, called once each with every input of a small
   range: the types of columns, the arguments and answers of the catalog
   functions, the information of a server, values on their way to the
   application, and connection strings. *)
EXTENDS CellConversion, Columns, ServerInfo

Cat   == INSTANCE Catalog WITH WcharSize <- 2, UseWideChar <- TRUE
Value == INSTANCE Values
Conf  == INSTANCE Config

VARIABLE call
vars == <<call, cellVars, columnVars, serverInfoVars>>

Init == call = [kind |-> "none"] /\ CellInit /\ ColumnInit /\ ServerInfoInit
Is(kind) == call.kind = kind

(* Columns are described in every mode; nothing else depends on it. *)
MCModes == [size : {2, 4}, wide : BOOLEAN]
OneMode == mode = [size |-> 2, wide |-> TRUE]
NoLoad == loading = "not yet"
Fresh == Is("none") /\ CellIdle /\ column = NoColumn /\ OneMode /\ NoLoad
Make(c) == call' = c /\ UNCHANGED <<cellVars, columnVars, serverInfoVars>>

UpTo(S, n) == UNION {[1..k -> S] : k \in 0..n}
Singles(S) == {<<s>> : s \in S}
Optional(keys, values) == UNION {[d -> values] : d \in SUBSET keys}

-----------------------------------------------------------------------------
(* Columns and catalog functions. *)

Describe ==
    /\ Is("none") /\ CellIdle /\ NoLoad
    /\ DescribeColumn /\ UNCHANGED <<call, cellVars, serverInfoVars>>

Match ==
    /\ Fresh
    /\ \E pattern \in UpTo({"a", "_", "%", "\\", "."}, 4) \cup UpTo({"a", "_", "%", "ue"}, 3),
          name \in UpTo({"a", "_", "."}, 3) \cup UpTo({"a", "ue"}, 3) :
            Make([kind |-> "match", pattern |-> pattern, name |-> name])

(* Many lists of types for some of the other arguments, and all of those for
   some lists; the bare "%" is SQL_ALL_TABLE_TYPES. *)
Arguments == {<<"null">>, <<>>, <<"%">>, <<"a">>}
Bare(name) == [name |-> name, bare |-> TRUE]
InQuotes(name) == [name |-> name, bare |-> FALSE]
TypeNames == UpTo({"a", " ", ",", "'"}, 2) \ {<<>>}
Types == {InQuotes(n) : n \in TypeNames} \cup {Bare(n) : n \in {m \in TypeNames : Cat!MayBeBare(m)}}
Lists == UpTo(Types, 2)
FewLists == {<<>>, <<Bare(<<"%">>)>>, <<InQuotes(<<"%">>)>>, <<Bare(<<"a">>), InQuotes(<<"a", ",">>)>>}
ListTables ==
    /\ Fresh
    /\ \E catalog, schema, table \in Arguments, given, isOdbc2x \in BOOLEAN,
          types \in Lists \cup FewLists, separator \in {<<",">>, <<",", " ">>} :
        /\ types \in FewLists \/ {catalog, schema, table} = {<<"a">>}
        /\ given \/ types = <<>>
        /\ Make([kind |-> "tables", args |-> <<catalog, schema, table>>, given |-> given,
                 types |-> types, separator |-> separator, isOdbc2x |-> isOdbc2x])

-----------------------------------------------------------------------------
(* Server information: two different rows, or three flags, in any chunks. *)

Row(option, answer) == [option |-> option, value |-> answer]
MCRows ==
    {Row(o, v) : o \in {"SERVER_NAME", "CATALOG_TERM", "EXTRA_NAME_CHARACTERS"}, v \in {"", "t"}}
    \cup {Row("SERVER_VERSION", <<"1", ".", "2">>)}
    \cup {Row(o, v) :
            o \in Flags \cup {"SERVER_READ_ONLY", "DDL_SCHEMA", "DDL_TABLE",
                              "BATCH_UPDATES_SUPPORTED", "SUPPORTS_ORDER_BY_UNRELATED",
                              "CATALOG_AT_START", "SUPPORTS_COLUMN_ALIASING"},
            v \in BOOLEAN}
    \cup {Row(o, 65543) : o \in {"MAX_ROW_SIZE", "MAX_CONCURRENT_ACTIVITIES"}}
    \cup {Row(o, n) : o \in {"IDENTIFIER_CASE", "NULL_ORDERING"}, n \in {0, 2}}
    \cup {Row(o, {"SERIALIZABLE", "NONE"}) :
            o \in {"DEFAULT_TRANSACTION_ISOLATION", "SUPPORTED_TRANSACTIONS_ISOLATION_LEVELS"}}
    \cup {Row("SUPPORTED_GROUP_BY", {"UNRELATED"}),
          Row("SUPPORTED_GRAMMAR", {"CORE", "EXTENDED"}),
          Row("ANSI92_SUPPORTED_LEVEL", {"FULL"}),
          Row("SUPPORTED_SUBQUERIES", {"EXISTS"}), Row("SUPPORTED_UNIONS", {}),
          Row("SCHEMAS_SUPPORTED_ACTIONS", {"INDEX"}),
          Row("CATALOGS_SUPPORTED_ACTIONS", {"PROCEDURE", "PRIVILEGE"})}
    \cup {Row("OUTER_JOINS_SUPPORT_LEVEL", v) :
            v \in {{"UNSUPPORTED", "LIMITED"}, {"FULL"}, {}}}
    \cup {Row(o, <<"null", "COS", "CONVERT">>) :
            o \in {"NUMERIC_FUNCTIONS", "STRING_FUNCTIONS", "SYSTEM_FUNCTIONS",
                   "DATETIME_FUNCTIONS", "KEYWORDS"}}
    \cup {Row("OTHER", 0)}
    \cup {Row("SUPPORTS_CONVERT", [t \in {"VARCHAR", "GUID"} |-> {"CHAR", "GUID"}])}

FewRows ==
    rowsTold' # rowsTold =>
        Cardinality(rowsTold') <= IF OptionsTold' \subseteq Flags THEN 3 ELSE 2

LoadInfo ==
    /\ Is("none") /\ CellIdle /\ column = NoColumn /\ OneMode
    /\ ServerInfoNext /\ FewRows /\ UNCHANGED <<call, cellVars, columnVars>>

-----------------------------------------------------------------------------
(* Values. *)

ReadCell ==
    /\ Is("none") /\ column = NoColumn /\ OneMode /\ NoLoad
    /\ CellNext /\ UNCHANGED <<call, columnVars, serverInfoVars>>

FormatDecimal ==
    /\ Fresh
    /\ \E n \in {0, 1, 9, 10, 99, 105, 1234, -1, -9, -10, -105}, scale \in -2..5 :
        Make([kind |-> "decimal", n |-> n, scale |-> scale])

Leaves == {[kind |-> "leaf", text |-> "7"], [kind |-> "null"], [kind |-> "nan"],
           [kind |-> "refused"]}
Nested(S) ==
    {[kind |-> "list", items |-> s] : s \in UpTo(S, 2)}
    \cup {[kind |-> "struct", items |-> s, names |-> [i \in 1..Len(s) |-> "k"]] : s \in UpTo(S, 2)}
FormatJson ==
    /\ Fresh
    /\ \E before \in {[kind |-> "nan"],
                   [kind |-> "list", items |-> <<[kind |-> "leaf", text |-> "7"],
                                                 [kind |-> "refused"]>>]},
       nested \in Leaves \cup Nested(Leaves) \cup Nested(Nested(Leaves)) :
        Make([kind |-> "json", before |-> before, value |-> nested])

TellVersion ==
    /\ Fresh
    /\ \E text \in UpTo({"1", "0", "a", ".", "-"}, 6) :
                  Make([kind |-> "version", text |-> text])

-----------------------------------------------------------------------------
(* Connection strings. *)

Pairs == [key : Singles({"DSN", "Driver", "UID", "uid", "x"}) \cup {<<"y", " ">>},
          value : Singles({"s", "v"}) \cup {<<"v", ";", "w">>, <<"v", "=">>, <<"v", " ", "w">>,
                                             <<"}", "v">>, <<"{", "v">>}]
Sources ==
    {<<>>, (<<"s">> :> ((<<"uid">> :> <<"a">>) @@ (<<"x">> :> <<"b">>) @@ (<<"driver">> :> <<"d">>)))
           @@ (<<"v">> :> (<<"x">> :> <<"c">>))}
ReadString ==
    /\ Fresh
    /\ \E pairs \in UpTo(Pairs, 2), sources \in Sources :
                 Make([kind |-> "string", pairs |-> pairs, sources |-> sources])

Properties ==
    Optional(Singles({"useencryption", "disablecertificateverification", "usesystemtruststore",
                    "trustedcerts"}), Singles({"True", "0", "z"}))
    \cup Optional(Singles({"chunkbuffercapacity", "stringcolumnlength", "usewidechar"}),
                  Singles({"True", "0", "z", "5000"}) \cup {<<>>})
    \cup Optional(Singles({"sendpingframe", "pingframeintervalmilliseconds",
                         "maxpingswithoutdata"}), Singles({"1", "0", "z", "5000"}))
    \cup Optional(Singles({"host", "port", "uid", "token", "useencryption"}),
                  Singles({"5000", "10.0.0.1", "false"}))
    \cup {[k \in d |-> k] : d \in SUBSET Singles({"user", "user id", "password", "uid", "pwd", "token"})}
    \cup Optional(Singles({"authtype", "uid", "token"}), Singles({"external", "Token"}))
Configure ==
    /\ Fresh
    /\ \E properties \in Properties, windows \in BOOLEAN, name \in {"null", <<"h">>} :
                Make([kind |-> "configure", properties |-> properties, windows |-> windows,
                      name |-> name])

Next ==
    \/ Describe \/ Match \/ ListTables \/ LoadInfo
    \/ ReadCell \/ FormatDecimal \/ FormatJson \/ TellVersion
    \/ ReadString \/ Configure

Spec == Init /\ [][Next]_vars
-----------------------------------------------------------------------------
(* A pattern finds the names it means, and SQLTables asks the server for what
   its arguments mean, with the exceptions named there.
   (ConvertSqlPatternToRegexString, FlightSqlStatement::GetTables) *)
PatternsAreObeyed ==
    /\ Is("match") => Cat!PatternMatchesOn(call.pattern, call.name)
    /\ Is("tables") => Cat!TablesAskedOn(call.args[1], call.args[2], call.args[3], call.given,
                                          call.types, call.separator, call.isOdbc2x)

(* The text of a decimal, of nested data and of a version reads back as what it
   was. (FormatDecimalWithoutScientificNotation, ConvertToJson, ConvertToDBMSVer) *)
TextReadsBack ==
    /\ Is("decimal") => Value!DecimalReadsBackOn(call.n, call.scale)
    /\ Is("json") => Value!JsonIsTheValueOn(call.before, call.value)
    /\ Is("version") => VersionIsWellFormedOn(call.text)

(* A connection string is obeyed as it is written, and a property that is not
   understood counts for nothing, and the login is the one written, with the
   exceptions named there.
   (getPropertiesFromConnString, PopulateMetadataSettings, FromProperties) *)
ConnectsAsWritten ==
    /\ Is("string") => Conf!ConnectsAsWrittenOn(call.pairs, call.sources)
    /\ Is("configure") => /\ Conf!OnlyUnderstoodCountsOn(call.properties, call.windows, call.name)
                          /\ Conf!LogsInAsWrittenOn(call.properties)

(* The login follows the precedence the documentation gives.  Violated. *)
LogsInAsDocumented == Is("configure") => Conf!LogsInAsDocumentedOn(call.properties)
=============================================================================
