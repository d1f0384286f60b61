----------------------------- MODULE Connection -----------------------------
(***************************************************************************)
(* A connection handle: ODBCConnection (odbc_impl/ODBCConnection.cc), the  *)
(* FlightSqlConnection below it, its authentication methods                *)
(* (flight_sql_auth_method.cc) and its cache of server information         *)
(* (get_info_cache.cc).                                                    *)
(*                                                                         *)
(* Every entry point runs under the lock of the connection handle and is   *)
(* one step.  The exceptions: a Connect with authType=external polls the   *)
(* server while the user logs in with a browser, so its discovery and its  *)
(* polls are steps of their own; a statement is dropped without that lock. *)
(* A handle may be connected again after SQLDisconnect and after a Connect *)
(* that failed; the n-th call of Connect makes the n-th client.            *)
(***************************************************************************)
EXTENDS Integers, Sequences, FiniteSets

CONSTANTS
    Stmts,          \* statement handles
    MaxAttempts,    \* max_attempts of WaitForToken; 120 in the code
    EarlyTokens,    \* the server may answer a poll with a token before the login
    MaxConnects     \* bound: calls of Connect

ASSUME ConnectionAssumption ==
    /\ MaxAttempts \in Nat \ {0}
    /\ EarlyTokens \in BOOLEAN
    /\ MaxConnects \in Nat

NoClient == 0
Clients == 0..MaxConnects
Idle == -1

(* Properties SQLGetInfo takes from the server: one that a load which breaks
   off may have stored, and one that only a complete load stores. *)
InfoTypes == {"early", "late"}

VARIABLES
    m_isConnected, m_statements,
    closed_, connection_dead, sql_client_,
    headers,            \* call_options_.headers, by the Connect that added them
    has_server_info_,
    info_,              \* the client each property was asked of, or NoClient
    stmt,               \* the client and the headers each statement was made with
    connects,           \* calls of Connect so far
    attempt,            \* polls of the Connect that is under way, or Idle
    external,           \* history: the Connects with authType=external
    loggedIn,           \* history: those whose user has completed the login
    loadFailed,         \* history: a load of server information has failed
    told                \* the answer of the last GetInfo

spiVars  == <<closed_, connection_dead, sql_client_, headers>>
odbcVars == <<m_isConnected, m_statements, stmt>>
infoVars == <<has_server_info_, info_, loadFailed, told>>
authVars == <<connects, attempt, external, loggedIn>>
vars == <<spiVars, odbcVars, infoVars, authVars>>

Running == attempt # Idle

(* A header the n-th Connect adds: its authorization, the empty one of a login
   that brought no token, or an option of its connection string that the driver
   does not know. *)
Authorization(n) == [kind |-> "authorization", by |-> n]
NoToken(n)       == [kind |-> "empty", by |-> n]
Option(n)        == [kind |-> "option", by |-> n]
Headers == [kind : {"authorization", "empty", "option"}, by : 1..MaxConnects]

Init ==
    /\ m_isConnected = FALSE /\ m_statements = {}
    /\ stmt = [s \in Stmts |-> [client |-> NoClient, headers |-> <<>>]]
    /\ closed_ = TRUE /\ connection_dead = TRUE
    /\ sql_client_ = NoClient /\ headers = <<>>
    /\ has_server_info_ = FALSE /\ loadFailed = FALSE /\ told = "nothing"
    /\ info_ = [t \in InfoTypes |-> NoClient]
    /\ connects = 0 /\ attempt = Idle
    /\ external = {} /\ loggedIn = {}

-----------------------------------------------------------------------------
(* Connect. *)

(* What follows the authentication: the client is kept and the options of the
   connection string are added to the call options.  `obtained` are the
   headers the authentication has added. *)
EstablishedForgetful(n, obtained) ==  \* mutant: the bearer goes to auth_call_options
    /\ sql_client_' = n
    /\ closed_' = FALSE /\ connection_dead' = FALSE /\ m_isConnected' = TRUE
    /\ headers' = Append(headers, Option(n))
    /\ UNCHANGED <<m_statements, stmt>>

Established(n, obtained) ==
    /\ sql_client_' = n
    /\ closed_' = FALSE /\ connection_dead' = FALSE /\ m_isConnected' = TRUE
    /\ headers' = headers \o obtained \o <<Option(n)>>
    /\ UNCHANGED <<m_statements, stmt>>

(* The catch block; the exception leaves connect() before m_isConnected. *)
Failed(obtained) ==
    /\ sql_client_' = NoClient
    /\ connection_dead' = TRUE
    /\ headers' = headers \o obtained
    /\ UNCHANGED <<closed_, odbcVars>>

StartConnect ==
    /\ ~Running /\ ~m_isConnected
    /\ connects < MaxConnects
    /\ connects' = connects + 1

(* User and password: the bearer token of the answer becomes a header, or an
   empty header when the server lets the user in and sends no token: nobody
   looks.  It also stands for a Connect that fails before it asks the server. *)
ConnectPassword ==
    /\ StartConnect
    /\ \/ Established(connects', <<Authorization(connects')>>)
       \/ Established(connects', <<NoToken(connects')>>)
       \/ Failed(<<>>)
    /\ UNCHANGED <<infoVars, attempt, external, loggedIn>>

(* Token: the header is added before the server is asked. *)
ConnectToken ==
    /\ StartConnect
    /\ \/ Established(connects', <<Authorization(connects')>>)
       \/ Failed(<<Authorization(connects')>>)
    /\ UNCHANGED <<infoVars, attempt, external, loggedIn>>

(* authType=external: Discover succeeds, LaunchBrowser. *)
Discover ==
    /\ StartConnect
    /\ attempt' = 0
    /\ external' = external \cup {connects'}
    /\ UNCHANGED <<spiVars, odbcVars, infoVars, loggedIn>>

(* The user completes the login in the browser, perhaps after the driver has
   given up. *)
UserLogsIn ==
    /\ connects \in external \ loggedIn
    /\ loggedIn' = loggedIn \cup {connects}
    /\ UNCHANGED <<spiVars, odbcVars, infoVars, connects, attempt, external>>

(* The answers of the server to a poll: an error, success without a token,
   success with one. *)
Answers == {"error", "empty"} \cup
           IF EarlyTokens \/ connects \in loggedIn THEN {"token"} ELSE {}

AcceptEmpty(answer) == answer # "error"     \* mutant: the token is not looked at

Accept(answer) == answer = "token"

(* One round of WaitForToken. *)
PollForever(answer) ==      \* mutant: the attempts are not counted
    /\ Running
    /\ IF Accept(answer)
       THEN Established(connects, <<Authorization(connects)>>) /\ attempt' = Idle
       ELSE UNCHANGED <<spiVars, odbcVars, attempt>>
    /\ UNCHANGED <<infoVars, connects, external, loggedIn>>

PollOnceMore(answer) ==     \* mutant: <= for <
    /\ Running
    /\ \/ /\ Accept(answer)
          /\ Established(connects, <<Authorization(connects)>>)
          /\ attempt' = Idle
       \/ /\ ~Accept(answer) /\ attempt + 1 <= MaxAttempts
          /\ attempt' = attempt + 1
          /\ UNCHANGED <<spiVars, odbcVars>>
       \/ /\ ~Accept(answer) /\ attempt + 1 > MaxAttempts
          /\ Failed(<<>>)
          /\ attempt' = Idle
    /\ UNCHANGED <<infoVars, connects, external, loggedIn>>

Poll(answer) ==
    /\ Running
    /\ \/ /\ Accept(answer)
          /\ Established(connects, <<Authorization(connects)>>)
          /\ attempt' = Idle
       \/ /\ ~Accept(answer) /\ attempt + 1 < MaxAttempts
          /\ attempt' = attempt + 1
          /\ UNCHANGED <<spiVars, odbcVars>>
       \/ /\ ~Accept(answer) /\ attempt + 1 = MaxAttempts
          /\ Failed(<<>>)
          /\ attempt' = Idle
    /\ UNCHANGED <<infoVars, connects, external, loggedIn>>

-----------------------------------------------------------------------------
(* disconnect() and FlightSqlConnection::Close, which throws when it is
   already closed.  The statements go first. *)
CloseLeavesOpen ==      \* mutant: closed_ = true is dropped
    /\ ~closed_
    /\ sql_client_' = NoClient /\ connection_dead' = TRUE
    /\ UNCHANGED closed_

Close ==
    /\ ~closed_
    /\ sql_client_' = NoClient /\ connection_dead' = TRUE
    /\ closed_' = TRUE

DisconnectKeepsStatements ==    \* mutant: m_statements.clear() is dropped
    /\ ~Running /\ m_isConnected
    /\ \/ Close /\ m_isConnected' = FALSE
       \/ closed_ /\ UNCHANGED <<closed_, sql_client_, connection_dead, m_isConnected>>
    /\ UNCHANGED <<headers, m_statements, stmt, infoVars, authVars>>

Disconnect ==
    /\ ~Running /\ m_isConnected
    /\ m_statements' = {}
    /\ \/ Close /\ m_isConnected' = FALSE
       \/ closed_ /\ UNCHANGED <<closed_, sql_client_, connection_dead, m_isConnected>>
    /\ UNCHANGED <<headers, stmt, infoVars, authVars>>

createStatement(s) ==
    /\ ~Running /\ m_isConnected
    /\ s \notin m_statements
    /\ stmt' = [stmt EXCEPT ![s] = [client |-> sql_client_, headers |-> headers]]
    /\ m_statements' = m_statements \cup {s}
    /\ UNCHANGED <<spiVars, m_isConnected, infoVars, authVars>>

dropStatement(s) ==
    /\ s \in m_statements
    /\ m_statements' = m_statements \ {s}
    /\ UNCHANGED <<spiVars, stmt, m_isConnected, infoVars, authVars>>

-----------------------------------------------------------------------------
(* GetInfo of a property that comes from the server. *)
LoadsNow == sql_client_ # NoClient /\ ~has_server_info_

(* has_server_info_ after  sql_client_ && !has_server_info_.exchange(true). *)
FlagAfterTestSwapped == TRUE    \* mutant: the flag is tested, and set, first

FlagAfterTest == has_server_info_ \/ LoadsNow

Found(t) == info_[t] # NoClient

GetInfoFinds(t) ==
    /\ ~Running /\ Found(t)
    /\ told' = "answer"
    /\ UNCHANGED <<spiVars, odbcVars, authVars, has_server_info_, info_, loadFailed>>

GetInfoLoads(t) ==
    /\ ~Running /\ ~Found(t)
    /\ LoadsNow /\ has_server_info_' = FlagAfterTest
    /\ \/ /\ info_' = [u \in InfoTypes |-> sql_client_]
          /\ told' = "answer" /\ UNCHANGED loadFailed
       \/ /\ info_' \in {info_, [info_ EXCEPT !["early"] = sql_client_]}
          /\ told' = "error" /\ loadFailed' = TRUE
    /\ UNCHANGED <<spiVars, odbcVars, authVars>>

(* "Unknown GetInfo type" *)
GetInfoUnknown(t) ==
    /\ ~Running /\ ~Found(t)
    /\ ~LoadsNow /\ has_server_info_' = FlagAfterTest
    /\ told' = IF m_isConnected THEN "unknown" ELSE "error"
    /\ UNCHANGED <<spiVars, odbcVars, authVars, info_, loadFailed>>

GetInfo == \E t \in InfoTypes : GetInfoFinds(t) \/ GetInfoLoads(t) \/ GetInfoUnknown(t)

-----------------------------------------------------------------------------
ServerAnswersPoll == \E answer \in Answers : Poll(answer)

Next ==
    \/ ConnectPassword \/ ConnectToken \/ Discover
    \/ ServerAnswersPoll \/ UserLogsIn
    \/ Disconnect
    \/ \E s \in Stmts : createStatement(s) \/ dropStatement(s)
    \/ GetInfo

Spec == Init /\ [][Next]_vars

(* A poll has no timeout of its own, so this is an assumption about the
   server, not about the driver. *)
FairSpec == Spec /\ WF_vars(ServerAnswersPoll)

-----------------------------------------------------------------------------
(* Type invariant: of FlightSqlConnection, of ODBCConnection, of Connect and
   of the cache. *)
SpiTypeOK ==
    /\ closed_ \in BOOLEAN /\ connection_dead \in BOOLEAN
    /\ sql_client_ \in Clients /\ headers \in Seq(Headers)

OdbcTypeOK ==
    /\ m_isConnected \in BOOLEAN /\ m_statements \subseteq Stmts
    /\ stmt \in [Stmts -> [client : Clients, headers : Seq(Headers)]]

AuthTypeOK ==
    /\ connects \in 0..MaxConnects /\ attempt \in {Idle} \cup 0..MaxAttempts-1
    /\ external \subseteq 1..connects /\ loggedIn \subseteq external

InfoTypeOK ==
    /\ has_server_info_ \in BOOLEAN /\ info_ \in [InfoTypes -> Clients]
    /\ loadFailed \in BOOLEAN /\ told \in {"nothing", "answer", "error", "unknown"}

TypeOK == SpiTypeOK /\ OdbcTypeOK /\ AuthTypeOK /\ InfoTypeOK

(* The four places that say whether the handle is connected never disagree,
   whichever Connect failed and however: SQLDisconnect of a connected handle
   never meets "Connection already closed", SQL_ATTR_CONNECTION_DEAD is true
   exactly while there is no client. *)
StatesAgree ==
    /\ m_isConnected = ~closed_
    /\ m_isConnected = ~connection_dead
    /\ m_isConnected = (sql_client_ # NoClient)

(* A FlightSqlStatement keeps a reference to the client it was made with; as
   long as the connection holds the statement that client exists. *)
StatementsUseThisClient ==
    \A s \in m_statements : sql_client_ # NoClient /\ stmt[s].client = sql_client_

(* The newest authorization among some headers is that of the n-th Connect. *)
NewestIsOf(hs, n) ==
    \E i \in 1..Len(hs) :
        /\ hs[i] = Authorization(n)
        /\ \A j \in i+1..Len(hs) : hs[j].kind # "authorization"

(* The login of the session brought a token. *)
TokenObtained == \A i \in 1..Len(headers) : headers[i] # NoToken(sql_client_)

(* Every request of a session carries the authorization this Connect
   obtained, after those that earlier Connects of the handle left behind:
   requests of the connection and of the statements made on it.  The exception
   is a session that obtained none: the server let the password in and sent no
   token. *)
OwnAuthorization ==
    m_isConnected /\ TokenObtained =>
        /\ NewestIsOf(headers, sql_client_)
        /\ \A s \in m_statements : NewestIsOf(stmt[s].headers, sql_client_)

(* No session sends the authorization an earlier Connect of its handle left
   behind as its newest. *)
NoForeignAuthorization ==
    m_isConnected => \A n \in 1..connects : NewestIsOf(headers, n) => n = sql_client_

(* If the server gives tokens only to users that have logged in, a handle
   connected by authType=external belongs to one: neither a failed poll, nor
   one without a token, nor one answered after the driver gave up makes a
   session. *)
SessionsFollowLogins ==
    m_isConnected /\ sql_client_ \in external /\ ~EarlyTokens => sql_client_ \in loggedIn

(* A connected handle fails to find a property of the server only when a load
   has failed before: being asked too early, by a driver manager that probes
   the driver, costs nothing later. *)
InfoIsMissedForAReason == told = "unknown" => loadFailed

(* A Connect that waits for the browser ends, whether the user logs in or
   not. *)
WaitEnds == Running ~> ~Running

=============================================================================
