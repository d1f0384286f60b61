------------------------------ MODULE Attributes ------------------------------
(***************************************************************************)
(* The statement and connection attributes: SetStmtAttr and GetStmtAttr of *)
(* ODBCStatement.cc, SetConnectAttr and GetConnectAttr of                  *)
(* ODBCConnection.cc, and the attributes of FlightSqlStatement and         *)
(* FlightSqlConnection below them.  Execution uses them.                   *)
(*                                                                         *)
(* The attributes of a statement are kept in places: fields of its         *)
(* descriptors, members of its own, or the SPI statement.  A pointer is a  *)
(* value like any other, 0 the null one.                                   *)
(***************************************************************************)
EXTENDS Integers

(* Attributes that are header fields of a descriptor.  m_currentArd of a new
   statement is its implicit parameter descriptor, so that the row attributes
   are kept with those of the parameters. *)
m_currentApd == "apd"
m_currentArd == "apd"

DescriptorField ==
    [PARAM_BIND_OFFSET_PTR |-> <<m_currentApd, "bind_offset_ptr">>,
     PARAM_BIND_TYPE       |-> <<m_currentApd, "bind_type">>,
     PARAM_OPERATION_PTR   |-> <<m_currentApd, "array_status_ptr">>,
     PARAM_STATUS_PTR      |-> <<"ipd", "array_status_ptr">>,
     PARAMS_PROCESSED_PTR  |-> <<"ipd", "rows_processed_ptr">>,
     PARAMSET_SIZE         |-> <<m_currentApd, "array_size">>,
     ROW_ARRAY_SIZE        |-> <<m_currentArd, "array_size">>,
     ROW_BIND_OFFSET_PTR   |-> <<m_currentArd, "bind_offset_ptr">>,
     ROW_BIND_TYPE         |-> <<m_currentArd, "bind_type">>,
     ROW_OPERATION_PTR     |-> <<m_currentArd, "array_status_ptr">>,
     ROW_STATUS_PTR        |-> <<"ird", "array_status_ptr">>,
     ROWS_FETCHED_PTR      |-> <<"ird", "rows_processed_ptr">>]

(* Attributes of the statement that have one value: any other is refused. *)
OnlyValue ==
    [CONCURRENCY |-> 1, CURSOR_SCROLLABLE |-> 0, CURSOR_SENSITIVITY |-> 0,
     CURSOR_TYPE |-> 0, ENABLE_AUTO_IPD |-> 0, FETCH_BOOKMARK_PTR |-> 0,
     KEYSET_SIZE |-> 0, SIMULATE_CURSOR |-> 2, USE_BOOKMARKS |-> 0, RETRIEVE_DATA |-> 1]

(* Attributes of the SPI statement that have one value: any other is answered
   with a warning. *)
SpiOnlyValue == [METADATA_ID |-> 0, NOSCAN |-> 0, MAX_LENGTH |-> 0]
SpiFree == {"QUERY_TIMEOUT"}
SpiAttributes == DOMAIN SpiOnlyValue \cup SpiFree

(* Attributes SetStmtAttr throws for, whatever the value. *)
Refused ==
    [IMP_PARAM_DESC |-> "HY017", IMP_ROW_DESC |-> "HY017", ASYNC_ENABLE |-> "HYC00",
     ROW_NUMBER |-> "HY092", MAX_ROWS |-> "HY092", unknown |-> "HY092"]

StmtAttributes == DOMAIN DescriptorField \cup DOMAIN OnlyValue \cup SpiAttributes
                  \cup DOMAIN Refused \cup {"ROWSET_SIZE"}

PlaceStrayed(a) ==   \* mutant: every pointer is kept with the bindings
    IF a \in DOMAIN DescriptorField THEN <<"apd", DescriptorField[a][2]>> ELSE <<"stmt", a>>

Place(a) == IF a \in DOMAIN DescriptorField THEN DescriptorField[a] ELSE <<"stmt", a>>
Places == {Place(a) : a \in DOMAIN DescriptorField \cup SpiAttributes \cup {"ROWSET_SIZE"}}

(* What the constructors leave. *)
NewAttributes ==
    [p \in Places |-> IF p[2] = "array_size" \/ p = Place("ROWSET_SIZE") THEN 1 ELSE 0]

(* SetStmtAttr: the return code, or the state it throws, and the attributes. *)
Answer(rc, attributes) == [rc |-> rc, attributes |-> attributes]

SetStmtAttr(attributes, a, v) ==
    CASE a \in DOMAIN Refused -> Answer(Refused[a], attributes)
      [] a \in DOMAIN OnlyValue ->
            Answer(IF v = OnlyValue[a] THEN "SUCCESS" ELSE "HYC00", attributes)
      [] a \in DOMAIN SpiOnlyValue ->
            Answer(IF v = SpiOnlyValue[a] THEN "SUCCESS" ELSE "01S02", attributes)
      [] OTHER -> Answer("SUCCESS", [attributes EXCEPT ![Place(a)] = v])

(* GetStmtAttr, of the attributes that can be read as a number: m_rowNumber is
   in Statement, and m_maxRows is never anything but 0. *)
Readable == StmtAttributes \ {"IMP_PARAM_DESC", "IMP_ROW_DESC", "ROW_NUMBER", "unknown"}

GetStmtAttr(attributes, a) ==
    CASE a \in {"ASYNC_ENABLE", "MAX_ROWS"} -> 0
      [] a \in DOMAIN OnlyValue -> OnlyValue[a]
      [] a \in DOMAIN SpiOnlyValue -> SpiOnlyValue[a]
      [] OTHER -> attributes[Place(a)]

(* CopyAttributesFromConnection: from the connection's tracking statement. *)
CopyAttributesPartly(tracking) ==   \* mutant: forgets the query timeout
    [NewAttributes EXCEPT ![Place("ROW_BIND_TYPE")] = tracking[Place("ROW_BIND_TYPE")]]

CopyAttributesFromConnection(tracking) ==
    [NewAttributes EXCEPT ![Place("QUERY_TIMEOUT")] = tracking[Place("QUERY_TIMEOUT")],
                          ![Place("ROW_BIND_TYPE")] = tracking[Place("ROW_BIND_TYPE")]]

-----------------------------------------------------------------------------
(* Connection attributes. *)

ConnRefused ==
    [AUTO_IPD |-> "HY092", CONNECTION_DEAD |-> "HY092", ENLIST_IN_DTC |-> "HYC00",
     ODBC_CURSORS |-> "HY092", QUIET_MODE |-> "HY092", TRACE |-> "HY092",
     TRACEFILE |-> "HYC00", TRANSLATE_LIB |-> "HYC00", TRANSLATE_OPTION |-> "HYC00",
     TXN_ISOLATION |-> "HYC00"]
ConnOnlyValue == [ACCESS_MODE |-> 0, PACKET_SIZE |-> 0]
ConnFree == {"LOGIN_TIMEOUT", "CONNECTION_TIMEOUT"}

(* Statement attributes a connection passes on to its tracking statement. *)
PassedOn == {"ASYNC_ENABLE", "METADATA_ID", "CONCURRENCY", "CURSOR_TYPE", "KEYSET_SIZE",
             "MAX_LENGTH", "MAX_ROWS", "NOSCAN", "QUERY_TIMEOUT", "RETRIEVE_DATA",
             "ROW_BIND_TYPE", "SIMULATE_CURSOR", "USE_BOOKMARKS"}

ConnAttributes == DOMAIN ConnRefused \cup DOMAIN ConnOnlyValue \cup ConnFree \cup {"AUTOCOMMIT"}

(* SetConnectAttr, of the attributes the connection keeps itself. *)
SetConnectAttr(attributes, a, v) ==
    CASE a \in DOMAIN ConnRefused -> Answer(ConnRefused[a], attributes)
      [] a = "AUTOCOMMIT" -> Answer(IF v = 1 THEN "SUCCESS" ELSE "HYC00", attributes)
      [] a \in DOMAIN ConnOnlyValue ->
            Answer(IF v = ConnOnlyValue[a] THEN "SUCCESS" ELSE "01S02", attributes)
      [] a \in ConnFree -> Answer("SUCCESS", [attributes EXCEPT ![a] = v])

(* GetConnectAttr: the number, or the state it throws. *)
GetConnectAttr(attributes, a) ==
    CASE a \in {"AUTO_IPD", "ENLIST_IN_DTC", "QUIET_MODE"} -> 0
      [] a = "AUTOCOMMIT" -> 1
      [] a \in {"ODBC_CURSORS", "TRACE"} \cup (PassedOn \ {"ASYNC_ENABLE"}) -> "HY092"
      [] a \in {"TRACEFILE", "TRANSLATE_LIB", "TRANSLATE_OPTION"} -> "HYC00"
      [] a = "TXN_ISOLATION" -> "HCY00"
      [] a = "ASYNC_ENABLE" -> 0
      [] a \in DOMAIN ConnOnlyValue -> ConnOnlyValue[a]
      [] a \in ConnFree -> attributes[a]
=============================================================================
