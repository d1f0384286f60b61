------------------------------- MODULE Catalog -------------------------------
(***************************************************************************)
(* What SQLTables, SQLColumns, SQLPrimaryKeys and SQLForeignKeys ask the   *)
(* server for, and what they make of the batches it sends:                 *)
(* flight_sql_statement.cc, flight_sql_statement_get_*.cc, the readers of  *)
(* the batches and record_batch_transformer.cc.                            *)
(*                                                                         *)
(* A text is a sequence of characters, Null the argument that is missing.  *)
(* Umlaut stands for the characters of more than one byte.                 *)
(***************************************************************************)
EXTENDS CatalogRows, SequencesExt

Null == <<"null">>      \* a null pointer for a text
Nulls == "nulls"        \* a column of nulls
Percent == <<"%">>
Empty == <<>>

-----------------------------------------------------------------------------
(* The five columns of SQLTables, and the transformers: a field is its new name
   and the name of the server's field it renames, or Nulls. *)
ColumnNames(isOdbc2x) ==
    IF isOdbc2x
    THEN <<"TABLE_QUALIFIER", "TABLE_OWNER", "TABLE_NAME", "TABLE_TYPE", "REMARKS">>
    ELSE <<"TABLE_CAT", "TABLE_SCHEM", "TABLE_NAME", "TABLE_TYPE", "REMARKS">>

RenameField(fields, original, name) == Append(fields, [name |-> name, from |-> original])
AddFieldOfNulls(fields, name) == Append(fields, [name |-> name, from |-> Nulls])

(* RecordBatchTransformerWithTasks::Transform, of one row. *)
Transform(fields, row) ==
    [i \in 1..Len(fields) |-> IF fields[i].from = Nulls THEN Nulls ELSE row[fields[i].from]]

(* The transformer that takes the server's fields by their place among the five
   columns, and makes the others null. *)
TablesFields(names, server) ==
    FoldLeftDomain(LAMBDA fields, i :
        IF i \in DOMAIN server THEN RenameField(fields, server[i], names[i])
        ELSE AddFieldOfNulls(fields, names[i]), <<>>, names)

GetTablesForSQLAllCatalogs(names)   == TablesFields(names, 1 :> "catalog_name")
GetTablesForSQLAllDbSchemas(names)  == TablesFields(names, 2 :> "db_schema_name")
GetTablesForSQLAllTableTypes(names) == TablesFields(names, 4 :> "table_type")
GetTablesForGenericUse(names, hide) ==
    IF hide THEN AddFieldOfNulls(<<>>, names[5])    \* HideSQLTablesListing
    ELSE TablesFields(names, 1 :> "catalog_name" @@ 2 :> "db_schema_name"
                       @@ 3 :> "table_name" @@ 4 :> "table_type")

(* ParseTableTypes: a list of types, quoted or not; outside quotes a space is
   dropped. *)
DroppedAlways(c, quoted) == c = " "     \* mutant: spaces go, quoted or not

Dropped(c, quoted) == c = " " /\ ~quoted

ParseTableTypes(text) ==
    LET step(s, c) ==
            CASE c = "'" -> [s EXCEPT !.quoted = ~@]
              [] c = "," /\ ~s.quoted -> [s EXCEPT !.types = Append(@, s.curr), !.curr = <<>>]
              [] Dropped(c, s.quoted) -> s
              [] OTHER -> [s EXCEPT !.curr = Append(@, c)]
        end == FoldLeft(step, [quoted |-> FALSE, curr |-> <<>>, types |-> <<>>], text)
    IN Append(end.types, end.curr)

(* FlightSqlStatement::GetTables: the three enumerations of ODBC, or a search.
   An answer is what is asked of the server and the transformer. *)
GetTables(catalog, schema, table, type, isOdbc2x, hide) ==
    LET names == ColumnNames(isOdbc2x)
    IN CASE catalog = Percent /\ schema = Empty /\ table = Empty ->
              [ask |-> <<"GetCatalogs">>, fields |-> GetTablesForSQLAllCatalogs(names)]
         [] catalog = Empty /\ schema = Percent /\ table = Empty ->
              [ask |-> <<"GetDbSchemas", schema>>, fields |-> GetTablesForSQLAllDbSchemas(names)]
         [] catalog = Empty /\ schema = Empty /\ table = Empty /\ type = Percent ->
              [ask |-> <<"GetTableTypes">>, fields |-> GetTablesForSQLAllTableTypes(names)]
         [] OTHER ->
              [ask |-> <<"GetTables", catalog, schema, table,
                         IF type = Null THEN <<>> ELSE ParseTableTypes(type)>>,
               fields |-> GetTablesForGenericUse(names, hide)]

(* SQLPrimaryKeys and SQLForeignKeys never ask: a result with columns and no
   endpoint, so without rows. *)
GetPrimaryKeys ==
    <<"TABLE_CAT", "TABLE_SCHEM", "TABLE_NAME", "COLUMN_NAME", "KEY_SEQ", "PK_NAME">>
GetForeignKeys ==
    <<"PKTABLE_CAT", "PKTABLE_SCHEM", "PKTABLE_NAME", "PKCOLUMN_NAME",
      "FKTABLE_CAT", "FKTABLE_SCHEM", "FKTABLE_NAME", "FKCOLUMN_NAME",
      "KEY_SEQ", "UPDATE_RULE", "DELETE_RULE", "FK_NAME", "PK_NAME", "DEFERRABILITY">>

-----------------------------------------------------------------------------
(* SQLColumns: tables with their schemas, the columns chosen by a pattern. *)

Specials == {".", "*"}      \* of "[]()|^-+*?{}$\\.", those the texts have; the
                            \* escape itself is never looked up

RegexOfPlain(c) ==      \* mutant: a point of the pattern is not quoted
    CASE c = "_" -> <<".">> [] c = "%" -> <<".", "*">> [] OTHER -> <<c>>

RegexOf(c) ==
    CASE c = "_" -> <<".">> [] c = "%" -> <<".", "*">>
      [] c \in Specials -> <<"\\", c>> [] OTHER -> <<c>>

ConvertSqlPatternToRegexString(pattern) ==
    LET step(s, c) ==
            CASE s.escape -> [regex |-> Append(s.regex, c), escape |-> FALSE]
              [] ~s.escape /\ c = "\\" -> [s EXCEPT !.escape = TRUE]
              [] OTHER -> [s EXCEPT !.regex = @ \o RegexOf(c)]
    IN FoldLeft(step, [regex |-> <<>>, escape |-> FALSE], pattern).regex

(* The texts of the driver are UTF-8, of which regex_match sees the bytes. *)
Umlaut == "ue"
Utf8(text) ==
    FlattenSeq([i \in DOMAIN text |->
        IF text[i] = Umlaut THEN <<"ue1", "ue2">> ELSE <<text[i]>>])

(* regex_match of xpressive, of the expressions above: a quoted byte, a point, a
   byte, each with a star or not. *)
RECURSIVE RegexMatch(_, _)
RegexMatch(regex, text) ==
    IF regex = <<>> THEN text = <<>>
    ELSE LET quoted == regex[1] = "\\" /\ Len(regex) > 1
             atom   == IF quoted THEN regex[2] ELSE regex[1]
             rest   == SubSeq(regex, IF quoted THEN 3 ELSE 2, Len(regex))
             one(t) == t # <<>> /\ (t[1] = atom \/ (atom = "." /\ ~quoted))
         IN IF rest # <<>> /\ rest[1] = "*"
            THEN \/ RegexMatch(Tail(rest), text)
                 \/ one(text) /\ RegexMatch(regex, Tail(text))
            ELSE one(text) /\ RegexMatch(rest, Tail(text))

ColumnMatches(pattern, name) ==
    pattern = Null \/ RegexMatch(ConvertSqlPatternToRegexString(Utf8(pattern)), Utf8(name))

(* The rows of a batch of tables: a table whose schema cannot be read
   (GetTablesReader::GetSchema) is passed over; a column keeps its place in the
   table whatever the pattern leaves out. *)
GetColumns(tables, pattern, isOdbc2x) ==
    LET place(t) == {i \in DOMAIN t.schema : ColumnMatches(pattern, t.schema[i].name)}
        rows(t)  == IF ~t.readable THEN <<>>
                    ELSE [k \in 1..Cardinality(place(t)) |->
                            LET i == SetToSortSeq(place(t), <)[k]
                            IN [table |-> t.name, column |-> t.schema[i].name,
                                ordinal |-> i,
                                type |-> GetColumnsRow(t.schema[i].field, isOdbc2x, FALSE)]]
    IN FlattenSeq([n \in DOMAIN tables |-> rows(tables[n])])

-----------------------------------------------------------------------------
(* Reference definitions. *)

(* LIKE of ODBC's pattern arguments. *)
RECURSIVE Like(_, _)
Like(pattern, text) ==
    IF pattern = <<>> THEN text = <<>>
    ELSE CASE pattern[1] = "%" -> \/ Like(Tail(pattern), text)
                                  \/ text # <<>> /\ Like(pattern, Tail(text))
           [] pattern[1] = "_" -> text # <<>> /\ Like(Tail(pattern), Tail(text))
           [] pattern[1] = "\\" /\ Len(pattern) > 1 ->
                /\ text # <<>> /\ text[1] = pattern[2]
                /\ Like(SubSeq(pattern, 3, Len(pattern)), Tail(text))
           [] OTHER -> text # <<>> /\ text[1] = pattern[1] /\ Like(Tail(pattern), Tail(text))

(* The escape stands before a wildcard, what ODBC defines it for. *)
WellEscaped(pattern) ==
    \A i \in DOMAIN pattern : pattern[i] = "\\" =>
        i < Len(pattern) /\ pattern[i + 1] \in {"_", "%"}

(* The argument an application builds from a list of types, each in quotes, its
   own doubled, or bare, which one with a comma or a quote cannot be. *)
MayBeBare(name) == ToSet(name) \cap {",", "'"} = {}
Written(type) ==
    IF type.bare THEN type.name
    ELSE <<"'">> \o FlattenSeq([i \in DOMAIN type.name |->
                       IF type.name[i] = "'" THEN <<"'", "'">> ELSE <<type.name[i]>>]) \o <<"'">>
Listed(types, separator) ==
    FoldLeftDomain(LAMBDA text, i :
        text \o (IF i = 1 THEN <<>> ELSE separator) \o Written(types[i]), <<>>, types)

(* What of a type is asked for: all of it, but the quotes in it, and the spaces
   in a bare one, are lost. *)
Kept(type) == SelectSeq(type.name, LAMBDA c : c # "'" /\ ~(c = " " /\ type.bare))

(* A column pattern whose escapes stand before wildcards selects the columns
   LIKE selects; except that "_" stands for a byte, so that it does not find a
   character of more than one. (ConvertSqlPatternToRegexString) *)
PatternMatchesOn(pattern, name) ==
    WellEscaped(pattern) /\ (Umlaut \in ToSet(name) => "_" \notin ToSet(pattern))
        => (ColumnMatches(pattern, name) <=> Like(pattern, name))

(* SQLTables asks for the types its argument lists, in their order, whether in
   quotes or not and however separated, commas and quoted spaces included; no
   argument is no restriction.  Except that Kept names what is lost of a type,
   and that an empty list asks for the type without a name.  Each of its
   columns holds the server's value of that meaning or nulls, in the order and
   under the names of the ODBC version; one enumeration fills one of them.
   (ParseTableTypes, GetTables, RenameField) *)
Meaning == <<"catalog_name", "db_schema_name", "table_name", "table_type">>
TablesAskedOn(catalog, schema, table, given, types, separator, isOdbc2x) ==
    LET type   == IF given THEN Listed(types, separator) ELSE Null
        answer == GetTables(catalog, schema, table, type, isOdbc2x, FALSE)
        row    == Transform(answer.fields, [n \in ToSet(Meaning) |-> n])
    IN /\ answer.ask[1] = "GetTables" =>
            /\ answer.ask[5] = IF ~given THEN <<>> ELSE IF types = <<>> THEN <<Empty>>
                               ELSE [i \in DOMAIN types |-> Kept(types[i])]
            /\ \A i \in 1..4 : row[i] = Meaning[i]
       /\ [i \in DOMAIN answer.fields |-> answer.fields[i].name] = ColumnNames(isOdbc2x)
       /\ \A i \in DOMAIN row : row[i] = Nulls \/ row[i] = Meaning[i]
       /\ answer.ask[1] # "GetTables" =>
            row = [i \in 1..5 |->
                      IF i <= 4 /\ answer.ask[1] = <<"GetCatalogs", "GetDbSchemas", "",
                                                     "GetTableTypes">>[i]
                      THEN Meaning[i] ELSE Nulls]
=============================================================================
