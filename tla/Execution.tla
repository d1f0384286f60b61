------------------------------ MODULE Execution ------------------------------
(***************************************************************************)
(* What the statements of a connection ask of the server:                  *)
(* flight_sql_statement.cc with the calls of ODBCStatement.cc above it,    *)
(* and the attributes that shape the requests (module Attributes).         *)
(*                                                                         *)
(* Every call holds the lock of its handle, so that it is one step, unless *)
(* it makes a request that may fail between two assignments, which is then *)
(* one of its outcomes.  Queries are numbered in the order they are sent;  *)
(* so are prepared statements.                                             *)
(***************************************************************************)
EXTENDS Attributes, FiniteSets

CONSTANTS
    Stmts,          \* statement handles
    Values,         \* values an application sets an attribute to
    MaxSets,        \* bound: attributes set
    MaxRequests,    \* bound: queries sent and statements prepared
    MaxConnects     \* bound: connections of the handle

ASSUME ExecutionAssumption ==
    /\ Values \subseteq Int
    /\ MaxSets \in Nat /\ MaxRequests \in Nat /\ MaxConnects \in Nat

None == 0
Catalog == -1
Ids == 1..MaxRequests

VARIABLES
    connected,      \* m_isConnected, and whether there is a client
    connAttributes, \* attribute_ of FlightSqlConnection
    connTimeout,    \* call_options_.timeout of FlightSqlConnection
    tracking,       \* m_attributeTrackingStatement's attributes
    live,           \* m_statements
    stmt,           \* ODBCStatement and FlightSqlStatement
    open,           \* at the server: prepared statements
    lost,           \* history: prepared statements whose Close failed, or whose
                    \* Prepare succeeded at the server and failed at the client
    asked,          \* history: what each attribute was last set to, by statement
    askedConn,      \* ... and for the connection
    about,          \* the query the last call, SQLCancel or SQLRowCount, was about
    cursor,         \* what the driver manager takes a statement to have: "none",
                    \* "count" (executed, without a cursor) or "open"
    sets, requests, connects

vars == <<connected, connAttributes, connTimeout, tracking, live, stmt, open, lost,
          asked, askedConn, about, cursor, sets, requests, connects>>

serverVars == <<open, lost>>
askedVars  == <<asked, askedConn>>
connVars   == <<connected, connAttributes, connTimeout, tracking, connects>>

(* The FlightSqlStatement's timeout is that of its query timeout, none to
   begin with: the connection's does not reach it. *)
NoTimeout == -1
Timeout(v) == IF v > 0 THEN v ELSE NoTimeout

NewStmt(attributes) ==
    [attributes |-> attributes,
     timeout |-> Timeout(attributes[Place("QUERY_TIMEOUT")]),
     prepared_statement_ |-> None, isPrepared |-> FALSE,
     flight_info_ |-> None,         \* the query it is of
     update_count_ |-> None,        \* the query it counts
     current_result_set_ |-> None,  \* the query, or Catalog
     m_currenResult |-> FALSE]

About(s, query) == [stmt |-> s, query |-> query]
Nothing == About(None, None)

Defaults == [a \in Readable |-> GetStmtAttr(NewAttributes, a)]

Init ==
    /\ connected = FALSE /\ tracking = NewAttributes /\ connects = 0
    /\ connAttributes = [a \in ConnFree |-> 0] /\ connTimeout = NoTimeout
    /\ live = {} /\ stmt = [s \in Stmts |-> NewStmt(NewAttributes)]
    /\ open = {} /\ lost = {}
    /\ asked = [s \in Stmts |-> Defaults] /\ askedConn = Defaults
    /\ about = Nothing /\ cursor = [s \in Stmts |-> "none"]
    /\ sets = 0 /\ requests = 0

-----------------------------------------------------------------------------
(* The connection. *)

(* PopulateCallOptions, which finds closed_ already false; and the tracking
   statement, a new one. *)
Connect ==
    /\ ~connected /\ connects < MaxConnects
    /\ connected' = TRUE /\ connects' = connects + 1
    /\ connTimeout' = IF connAttributes["CONNECTION_TIMEOUT"] > 0
                      THEN connAttributes["CONNECTION_TIMEOUT"] ELSE connTimeout
    /\ tracking' = NewAttributes /\ askedConn' = Defaults
    /\ about' = Nothing
    /\ UNCHANGED <<connAttributes, live, stmt, serverVars, asked, cursor, sets, requests>>

(* The destructor of a FlightSqlStatement closes its prepared statement and
   ignores the answer.  A Close that fails is taken here, and below, to have
   closed nothing at the server. *)
Destroyed(stmts) ==
    LET held == {stmt[s].prepared_statement_ : s \in stmts} \ {None}
    IN \E failed \in SUBSET held :
          open' = open \ (held \ failed) /\ lost' = lost \cup failed

(* The mutant closes the client before it drops the statements. *)
DisconnectClientFirst ==   \* mutant
    /\ connected
    /\ connected' = FALSE /\ live' = {}
    /\ about' = Nothing
    /\ UNCHANGED <<connAttributes, connTimeout, tracking, connects, stmt, serverVars,
                   askedVars, cursor, sets, requests>>

Disconnect ==
    /\ connected
    /\ Destroyed(live)
    /\ connected' = FALSE /\ live' = {}
    /\ about' = Nothing
    /\ UNCHANGED <<connAttributes, connTimeout, tracking, connects, stmt,
                   askedVars, cursor, sets, requests>>

SetsOne == sets < MaxSets /\ sets' = sets + 1

ConnSet(a, v) ==
    LET set == SetConnectAttr(connAttributes, a, v)
    IN /\ SetsOne
       /\ connAttributes' = set.attributes
       /\ about' = Nothing
       /\ UNCHANGED <<connected, connTimeout, tracking, connects, live, stmt, serverVars,
                      askedVars, cursor, requests>>

(* Pairs of attributes that are one. *)
Twins == {{"PARAM_BIND_OFFSET_PTR", "ROW_BIND_OFFSET_PTR"},
          {"PARAM_BIND_TYPE", "ROW_BIND_TYPE"},
          {"PARAM_OPERATION_PTR", "ROW_OPERATION_PTR"},
          {"PARAMSET_SIZE", "ROW_ARRAY_SIZE"}}
Asked(function, a, v) ==
    [b \in Readable |-> IF b = a \/ {a, b} \in Twins THEN v ELSE function[b]]

(* The driver manager keeps these for a connection that is not made yet. *)
ConnSetPassedOn(a, v) ==
    LET set == SetStmtAttr(tracking, a, v)
    IN /\ connected /\ SetsOne
       /\ tracking' = set.attributes
       /\ askedConn' = IF set.rc = "SUCCESS" THEN Asked(askedConn, a, v) ELSE askedConn
       /\ about' = Nothing
       /\ UNCHANGED <<connected, connAttributes, connTimeout, connects, live, stmt,
                      serverVars, asked, cursor, requests>>

-----------------------------------------------------------------------------
(* Statements. *)

Inherits(s) ==
    asked' = [asked EXCEPT ![s] = [a \in Readable |->
        IF a \in PassedOn \/ \E b \in PassedOn : {a, b} \in Twins THEN askedConn[a]
        ELSE Defaults[a]]]

AllocStmt(s) ==
    /\ connected /\ s \notin live
    /\ live' = live \cup {s}
    /\ stmt' = [stmt EXCEPT ![s] = NewStmt(CopyAttributesFromConnection(tracking))]
    /\ Inherits(s)
    /\ cursor' = [cursor EXCEPT ![s] = "none"]
    /\ about' = Nothing
    /\ UNCHANGED <<connVars, serverVars, askedConn, sets, requests>>

FreeStmt(s) ==
    /\ s \in live
    /\ Destroyed({s})
    /\ live' = live \ {s}
    /\ about' = Nothing
    /\ UNCHANGED <<connVars, stmt, askedVars, cursor, sets, requests>>

(* FlightSqlStatement::SetAttribute keeps the timeout besides the attribute. *)
StmtSetSticky(s, a, v) ==   \* mutant: a timeout of 0 does not take the old one away
    LET set == SetStmtAttr(stmt[s].attributes, a, v)
    IN /\ s \in live /\ SetsOne
       /\ stmt' = [stmt EXCEPT ![s].attributes = set.attributes,
                               ![s].timeout = IF a = "QUERY_TIMEOUT" /\ v > 0 THEN v ELSE @]
       /\ asked' = IF set.rc = "SUCCESS" THEN [asked EXCEPT ![s] = Asked(@, a, v)] ELSE asked
       /\ about' = Nothing
       /\ UNCHANGED <<connVars, live, serverVars, askedConn, cursor, requests>>

StmtSet(s, a, v) ==
    LET set == SetStmtAttr(stmt[s].attributes, a, v)
    IN /\ s \in live /\ SetsOne
       /\ stmt' = [stmt EXCEPT ![s].attributes = set.attributes,
                               ![s].timeout = IF a = "QUERY_TIMEOUT" THEN Timeout(v) ELSE @]
       /\ asked' = IF set.rc = "SUCCESS" THEN [asked EXCEPT ![s] = Asked(@, a, v)] ELSE asked
       /\ about' = Nothing
       /\ UNCHANGED <<connVars, live, serverVars, askedConn, cursor, requests>>

Unmoved == UNCHANGED <<connVars, live, askedVars, sets>>

(* The driver manager lets a request through when it sees no open cursor; a
   request that fails leaves none. *)
MayRequest(s) == s \in live /\ cursor[s] # "open"
Sees(s, what) == cursor' = [cursor EXCEPT ![s] = what]
Executes(s) == \E what \in {"count", "open"} : Sees(s, what)

(* ClosePreparedStatementIfAny, which begins every call below: `closed` is what
   it leaves of the statement, or it throws and leaves everything. *)
Held(s) == {stmt[s].prepared_statement_} \ {None}
ClosePreparedStatementIfAny(s) == [stmt[s] EXCEPT !.prepared_statement_ = None]

CloseFails(s) ==
    /\ MayRequest(s) /\ Held(s) # {}
    /\ lost' = lost \cup Held(s)
    /\ Sees(s, "none") /\ about' = Nothing
    /\ UNCHANGED <<stmt, open, requests>> /\ Unmoved

(* With a statement that is prepared; the driver manager sees to that. *)
MayExecutePrepared(s) == MayRequest(s) /\ Held(s) # {} /\ stmt[s].isPrepared

(* The request that follows fails, or the one of ExecutePrepared, which closes
   nothing. *)
RequestFails(s) ==
    /\ \/ /\ MayRequest(s)
          /\ stmt' = [stmt EXCEPT ![s] = ClosePreparedStatementIfAny(s)]
          /\ open' = open \ Held(s)
       \/ MayExecutePrepared(s) /\ UNCHANGED <<stmt, open>>
    /\ Sees(s, "none") /\ about' = Nothing
    /\ UNCHANGED <<lost, requests>> /\ Unmoved

Numbered == requests < MaxRequests /\ requests' = requests + 1

(* The server has prepared the statement, and the client has no answer, or none
   it can read: the driver has no handle to close it by. *)
PrepareUnanswered(s) ==
    /\ MayRequest(s) /\ Numbered
    /\ stmt' = [stmt EXCEPT ![s] = ClosePreparedStatementIfAny(s)]
    /\ open' = (open \ Held(s)) \cup {requests'}
    /\ lost' = lost \cup {requests'}
    /\ Sees(s, "none") /\ about' = Nothing
    /\ Unmoved

PrepareLeaky(s) ==   \* mutant: the old prepared statement is replaced, not closed
    /\ MayRequest(s) /\ Numbered
    /\ stmt' = [stmt EXCEPT ![s].prepared_statement_ = requests', ![s].isPrepared = TRUE]
    /\ open' = open \cup {requests'}
    /\ Sees(s, "none") /\ about' = Nothing
    /\ UNCHANGED lost /\ Unmoved

Prepare(s) ==
    /\ MayRequest(s) /\ Numbered
    /\ stmt' = [stmt EXCEPT ![s].prepared_statement_ = requests', ![s].isPrepared = TRUE]
    /\ open' = (open \ Held(s)) \cup {requests'}
    /\ Sees(s, "none") /\ about' = Nothing
    /\ UNCHANGED lost /\ Unmoved

(* A query has been answered with a FlightInfo; then the result set is made. *)
Answered(st, n) == [st EXCEPT !.flight_info_ = n, !.update_count_ = n]

ExecutedStale(st, n) ==   \* mutant: the flight info is only kept by Execute
    [st EXCEPT !.flight_info_ = IF st.prepared_statement_ = None THEN n ELSE @,
               !.update_count_ = n, !.current_result_set_ = n, !.m_currenResult = TRUE]

Executed(st, n) ==
    [Answered(st, n) EXCEPT !.current_result_set_ = n, !.m_currenResult = TRUE]

ExecuteDirect(s) ==
    /\ MayRequest(s) /\ Numbered
    /\ stmt' = [stmt EXCEPT ![s] = [Executed(ClosePreparedStatementIfAny(s), requests')
                                    EXCEPT !.isPrepared = FALSE]]
    /\ open' = open \ Held(s)
    /\ Executes(s) /\ about' = Nothing
    /\ UNCHANGED lost /\ Unmoved

ExecutePrepared(s) ==
    /\ MayExecutePrepared(s) /\ Numbered
    /\ stmt' = [stmt EXCEPT ![s] = Executed(@, requests')]
    /\ Executes(s) /\ about' = Nothing
    /\ UNCHANGED serverVars /\ Unmoved

(* The constructor of the result set throws, because DoGet of the first endpoint
   failed: flight_info_ and update_count_ are of the new query, the result set
   is the one before it, and m_isPrepared is left. *)
ResultSetFails(s) ==
    /\ Numbered
    /\ \/ /\ MayRequest(s)
          /\ stmt' = [stmt EXCEPT ![s] = Answered(ClosePreparedStatementIfAny(s), requests')]
          /\ open' = open \ Held(s) /\ UNCHANGED lost
       \/ /\ MayExecutePrepared(s)
          /\ stmt' = [stmt EXCEPT ![s] = Answered(@, requests')]
          /\ UNCHANGED serverVars
    /\ Sees(s, "none") /\ about' = Nothing
    /\ Unmoved

(* SQLTables, SQLColumns, SQLGetTypeInfo and, without a request, SQLPrimaryKeys
   and SQLForeignKeys.  flight_info_ and update_count_ are left. *)
CatalogFunction(s) ==
    /\ MayRequest(s)
    /\ stmt' = [stmt EXCEPT ![s] = [ClosePreparedStatementIfAny(s) EXCEPT
          !.current_result_set_ = Catalog, !.m_currenResult = TRUE, !.isPrepared = FALSE]]
    /\ open' = open \ Held(s)
    /\ Sees(s, "open") /\ about' = Nothing
    /\ UNCHANGED <<lost, requests>> /\ Unmoved

(* A catalog function that fails has closed the cursor of ODBCStatement. *)
CatalogFails(s) ==
    /\ MayRequest(s)
    /\ \/ /\ stmt' = [stmt EXCEPT ![s] = [ClosePreparedStatementIfAny(s)
                                          EXCEPT !.m_currenResult = FALSE]]
          /\ open' = open \ Held(s) /\ UNCHANGED lost
       \/ /\ Held(s) # {}
          /\ stmt' = [stmt EXCEPT ![s].m_currenResult = FALSE]
          /\ lost' = lost \cup Held(s) /\ UNCHANGED open
    /\ Sees(s, "none") /\ about' = Nothing
    /\ UNCHANGED requests /\ Unmoved

(* closeCursor: the FlightSqlStatement keeps its result set. *)
CloseCursor(s) ==
    /\ s \in live
    /\ stmt' = [stmt EXCEPT ![s].m_currenResult = FALSE]
    /\ Sees(s, "none") /\ about' = Nothing
    /\ UNCHANGED <<serverVars, requests>> /\ Unmoved

(* SQLMoreResults answers SQL_NO_DATA and changes nothing. *)
MoreResults(s) ==
    /\ s \in live /\ cursor[s] # "none"
    /\ Sees(s, "none") /\ about' = Nothing
    /\ UNCHANGED <<stmt, serverVars, requests>> /\ Unmoved

(* SQLCancel: CancelFlightInfo for flight_info_, if there is a result set. *)
Cancel(s) ==
    /\ s \in live
    /\ about' = About(s, IF stmt[s].current_result_set_ = None THEN None ELSE stmt[s].flight_info_)
    /\ UNCHANGED <<stmt, cursor, serverVars, requests>> /\ Unmoved

(* SQLRowCount, of a statement that was executed. *)
GetUpdateCount(s) ==
    /\ s \in live /\ cursor[s] # "none"
    /\ about' = About(s, stmt[s].update_count_)
    /\ UNCHANGED <<stmt, cursor, serverVars, requests>> /\ Unmoved

Next ==
    \/ Connect \/ Disconnect
    \/ \E a \in ConnAttributes, v \in Values : ConnSet(a, v)
    \/ \E a \in PassedOn, v \in Values : ConnSetPassedOn(a, v)
    \/ \E s \in Stmts :
       \/ AllocStmt(s) \/ FreeStmt(s)
       \/ \E a \in StmtAttributes, v \in Values : StmtSet(s, a, v)
       \/ CloseFails(s) \/ RequestFails(s)
       \/ PrepareUnanswered(s) \/ Prepare(s) \/ ExecuteDirect(s) \/ ExecutePrepared(s)
       \/ ResultSetFails(s) \/ CatalogFunction(s) \/ CatalogFails(s)
       \/ CloseCursor(s) \/ MoreResults(s) \/ Cancel(s) \/ GetUpdateCount(s)

Spec == Init /\ [][Next]_vars

-----------------------------------------------------------------------------
(* Statement requests and what became of them are numbered by the requests
   made; attributes are kept in their places. *)
FlightSqlStatements ==
    [attributes : [Places -> Int], timeout : Int,
     prepared_statement_ : Nat, isPrepared : BOOLEAN,
     flight_info_ : Nat, update_count_ : Nat, current_result_set_ : Nat \cup {Catalog},
     m_currenResult : BOOLEAN]

ConnTypes ==
    /\ connected \in BOOLEAN /\ connects \in Nat
    /\ connAttributes \in [ConnFree -> Int] /\ connTimeout \in Int
    /\ tracking \in [Places -> Int]
StmtTypes ==
    /\ live \subseteq Stmts /\ stmt \in [Stmts -> FlightSqlStatements]
    /\ cursor \in [Stmts -> {"none", "count", "open"}]
AskedTypes ==
    /\ asked \in [Stmts -> [Readable -> Int]] /\ askedConn \in [Readable -> Int]
ServerTypes ==
    /\ open \subseteq Nat \ {None} /\ lost \subseteq Nat \ {None}
    /\ sets \in Nat /\ requests \in Nat

TypeOK == ConnTypes /\ StmtTypes /\ AskedTypes /\ ServerTypes

(* Every attribute of a statement reads back as it was last set: on the
   statement, or before it was allocated on its connection, in this session of
   it; setting one changes no other.  Except that each attribute of the
   parameters and its counterpart of the rows are one, the driver having
   started with one descriptor for both. *)
AttributesAsAsked ==
    \A s \in live, a \in Readable : GetStmtAttr(stmt[s].attributes, a) = asked[s][a]

(* What SQLGetStmtAttr tells of SQL_ATTR_QUERY_TIMEOUT is what the requests of
   the statement carry, whichever way it came there, 0 being none. *)
TimeoutIsAsked ==
    \A s \in live : stmt[s].timeout = Timeout(asked[s]["QUERY_TIMEOUT"])

(* Of a query that was executed and is not yet closed, SQLCancel stops that query
   at the server and SQLRowCount tells that query's rows, whatever was executed,
   prepared, refused or broken off before.  (Of the result of a catalog function
   both are of the last query before it.) *)
CancelIsOfTheResult ==
    about # Nothing =>
       LET result == stmt[about.stmt].current_result_set_
       IN cursor[about.stmt] # "none" /\ result \in Ids => about.query = result

(* A prepared statement is open at the server only while a statement holds it,
   or after one of the two requests about it, Prepare or Close, has failed at
   the client: none is left by preparing again, by executing something else,
   by freeing the statement or by disconnecting. *)
NoPreparedLeft ==
    open \subseteq {stmt[s].prepared_statement_ : s \in live} \cup lost

(* Without the exception. *)
PreparedAreHeld == open \subseteq {stmt[s].prepared_statement_ : s \in live}

(* The timeout of the login is what the application set
   (flight_sql_connection.cc:315: "Set CONNECTION_TIMEOUT attribute or
   LOGIN_TIMEOUT depending on if this is the first request").  Violated:
   closed_ is false by the time it is read, and the login is over. *)
LoginTimeoutHonoured ==
    [][Connect /\ connects = 0 /\ connAttributes["LOGIN_TIMEOUT"] > 0
        => connTimeout' = connAttributes["LOGIN_TIMEOUT"]]_vars
=============================================================================
