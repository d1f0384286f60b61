-------------------------- MODULE ConnectionProofs --------------------------
(***************************************************************************)
(* Proofs of the safety properties of Connection, for any statements and   *)
(* any number of Connects and of polls; and of ServerInfo, for any rows a  *)
(* server sends, in any order and in any chunks.                           *)
(***************************************************************************)
EXTENDS Connection, ServerInfo, TLAPS

-----------------------------------------------------------------------------
(* Type correctness, with what a Connect under way is known to be: one of an
   unconnected handle, with authType=external. *)
Waiting == Running => ~m_isConnected /\ connects \in external

Basics == TypeOK /\ Waiting

LEMMA NoClientIsTyped == NoClient \in Clients
  BY ConnectionAssumption DEF NoClient, Clients

LEMMA InitBasics == Init => Basics
  <1> SUFFICES ASSUME Init PROVE Basics
    OBVIOUS
  <1> USE ConnectionAssumption DEF Init
  <1>1. SpiTypeOK /\ OdbcTypeOK
    <2>1. SpiTypeOK
      BY NoClientIsTyped DEF SpiTypeOK
    <2>2. [client |-> NoClient, headers |-> <<>>] \in [client : Clients, headers : Seq(Headers)]
      BY NoClientIsTyped
    <2>3. OdbcTypeOK
      BY <2>2 DEF OdbcTypeOK
    <2> QED BY <2>1, <2>3
  <1>2. AuthTypeOK
    <2>1. connects \in 0..MaxConnects /\ attempt \in {Idle} \cup 0..MaxAttempts-1
      OBVIOUS
    <2>2. external \subseteq 1..connects /\ loggedIn \subseteq external
      OBVIOUS
    <2> QED BY <2>1, <2>2 DEF AuthTypeOK
  <1>3. InfoTypeOK
    BY NoClientIsTyped DEF InfoTypeOK
  <1> QED BY <1>1, <1>2, <1>3 DEF Basics, TypeOK, Waiting, Running

(* The headers a Connect may add keep call_options_.headers well typed. *)
LEMMA AppendedTypes ==
  ASSUME NEW n \in 1..MaxConnects, NEW hs \in Seq(Headers)
  PROVE  /\ hs \o <<>> \in Seq(Headers)
         /\ hs \o <<Authorization(n)>> \in Seq(Headers)
         /\ hs \o <<Authorization(n)>> \o <<Option(n)>> \in Seq(Headers)
         /\ hs \o <<NoToken(n)>> \o <<Option(n)>> \in Seq(Headers)
  <1>1. {Authorization(n), NoToken(n), Option(n)} \subseteq Headers
    BY DEF Authorization, NoToken, Option, Headers
  <1>2. <<>> \in Seq(Headers) /\ <<Authorization(n)>> \in Seq(Headers)
        /\ <<NoToken(n)>> \in Seq(Headers) /\ <<Option(n)>> \in Seq(Headers)
    BY <1>1
  <1> QED BY <1>2

(* The two ways a Connect ends, whatever its method. *)
LEMMA EstablishedTypes ==
  ASSUME TypeOK, NEW n \in 1..MaxConnects,
         Established(n, <<Authorization(n)>>) \/ Established(n, <<NoToken(n)>>)
  PROVE  SpiTypeOK' /\ OdbcTypeOK'
  <1>1. headers' \in Seq(Headers)
    BY AppendedTypes DEF Established, TypeOK, SpiTypeOK
  <1>2. n \in Clients
    BY ConnectionAssumption DEF Clients
  <1>3. SpiTypeOK'
    BY <1>1, <1>2 DEF Established, SpiTypeOK
  <1>4. OdbcTypeOK'
    BY DEF Established, TypeOK, OdbcTypeOK
  <1> QED BY <1>3, <1>4

LEMMA FailedTypes ==
  ASSUME TypeOK, NEW n \in 1..MaxConnects,
         Failed(<<>>) \/ Failed(<<Authorization(n)>>)
  PROVE  SpiTypeOK' /\ OdbcTypeOK'
  <1>1. headers' \in Seq(Headers)
    BY AppendedTypes DEF Failed, TypeOK, SpiTypeOK
  <1>3. SpiTypeOK'
    BY <1>1, NoClientIsTyped DEF Failed, TypeOK, SpiTypeOK
  <1>4. OdbcTypeOK'
    BY DEF Failed, TypeOK, OdbcTypeOK, odbcVars
  <1> QED BY <1>3, <1>4

(* A call of Connect that starts. *)
LEMMA Starting ==
  ASSUME TypeOK, StartConnect
  PROVE  /\ connects' \in 1..MaxConnects /\ connects' = connects + 1
         /\ attempt = Idle /\ ~m_isConnected
         /\ external \subseteq 1..connects'
  BY ConnectionAssumption DEF StartConnect, Running, TypeOK, AuthTypeOK

LEMMA StepBasics == Basics /\ [Next]_vars => Basics'
  <1> SUFFICES ASSUME TypeOK, Waiting, [Next]_vars PROVE Basics'
    BY DEF Basics
  <1> USE ConnectionAssumption
  <1>i. UNCHANGED infoVars => InfoTypeOK'
    BY DEF infoVars, TypeOK, InfoTypeOK
  <1>a. UNCHANGED authVars => AuthTypeOK'
    BY DEF authVars, TypeOK, AuthTypeOK
  <1>so. UNCHANGED <<spiVars, odbcVars>> => SpiTypeOK' /\ OdbcTypeOK'
    BY DEF spiVars, odbcVars, TypeOK, SpiTypeOK, OdbcTypeOK
  <1>1. CASE ConnectPassword \/ ConnectToken
    <2>1. /\ StartConnect
          /\ \/ Established(connects', <<Authorization(connects')>>)
             \/ Established(connects', <<NoToken(connects')>>)
             \/ Failed(<<>>) \/ Failed(<<Authorization(connects')>>)
          /\ UNCHANGED <<infoVars, attempt, external, loggedIn>>
      BY <1>1 DEF ConnectPassword, ConnectToken
    <2>2. SpiTypeOK' /\ OdbcTypeOK'
      BY <2>1, Starting, EstablishedTypes, FailedTypes
    <2>3. AuthTypeOK'
      BY <2>1, Starting DEF TypeOK, AuthTypeOK
    <2> QED BY <2>1, <2>2, <2>3, <1>i, Starting DEF Basics, TypeOK, Waiting, Running
  <1>2. CASE Discover
    <2>1. StartConnect /\ attempt' = 0 /\ external' = external \cup {connects'}
          /\ UNCHANGED <<spiVars, odbcVars, infoVars, loggedIn>>
      BY <1>2 DEF Discover
    <2>2. AuthTypeOK'
      <3>0. connects' \in 0..MaxConnects
        BY <2>1, Starting
      <3>1. attempt' \in {Idle} \cup 0..MaxAttempts-1
        BY <2>1
      <3>a. connects' \in 1..connects'
        BY <2>1, Starting
      <3>b. external \subseteq 1..connects'
        BY <2>1, Starting
      <3>2. external' \subseteq 1..connects' /\ loggedIn' \subseteq external'
        BY <2>1, <3>a, <3>b DEF TypeOK, AuthTypeOK
      <3> QED BY <3>0, <3>1, <3>2 DEF AuthTypeOK
    <2>3. Waiting'
      BY <2>1, Starting DEF Waiting, odbcVars
    <2> QED BY <2>1, <2>2, <2>3, <1>i, <1>so DEF Basics, TypeOK
  <1>3. ASSUME NEW answer \in Answers, Poll(answer) PROVE Basics'
    <2>1. connects \in 1..MaxConnects /\ attempt \in 0..MaxAttempts-1
          /\ ~m_isConnected /\ connects \in external
      BY <1>3 DEF Poll, Waiting, Running, TypeOK, AuthTypeOK
    <2>2. UNCHANGED <<infoVars, connects, external, loggedIn>>
      BY <1>3 DEF Poll
    <2>3. CASE attempt' = Idle
      <3>1. Established(connects, <<Authorization(connects)>>) \/ Failed(<<>>)
        BY <1>3, <2>1, <2>3 DEF Poll, Idle
      <3>2. SpiTypeOK' /\ OdbcTypeOK'
        BY <2>1, <3>1, EstablishedTypes, FailedTypes
      <3>3. AuthTypeOK' /\ Waiting'
        BY <2>2, <2>3 DEF TypeOK, AuthTypeOK, Waiting, Running
      <3> QED BY <2>2, <3>2, <3>3, <1>i DEF Basics, TypeOK
    <2>4. CASE attempt' # Idle
      <3>1. attempt' = attempt + 1 /\ attempt + 1 < MaxAttempts /\ UNCHANGED <<spiVars, odbcVars>>
        BY <1>3, <2>4 DEF Poll
      <3>2. AuthTypeOK'
        BY <2>1, <2>2, <3>1 DEF TypeOK, AuthTypeOK
      <3>3. Waiting'
        BY <2>1, <2>2, <3>1 DEF Waiting, odbcVars
      <3> QED BY <2>2, <3>1, <3>2, <3>3, <1>i, <1>so DEF Basics, TypeOK
    <2> QED BY <2>3, <2>4
  <1>4. CASE UserLogsIn
    <2>1. AuthTypeOK' /\ Waiting'
      BY <1>4 DEF UserLogsIn, TypeOK, AuthTypeOK, Waiting, Running, odbcVars
    <2> QED BY <1>4, <2>1, <1>i, <1>so DEF UserLogsIn, Basics, TypeOK
  <1>5. CASE Disconnect
    <2>1. SpiTypeOK' /\ OdbcTypeOK'
      BY <1>5, NoClientIsTyped DEF Disconnect, Close, TypeOK, SpiTypeOK, OdbcTypeOK
    <2>2. UNCHANGED <<infoVars, authVars>> /\ ~Running
      BY <1>5 DEF Disconnect
    <2>3. Waiting'
      BY <2>2 DEF Waiting, Running, authVars
    <2> QED BY <2>1, <2>2, <2>3, <1>a, <1>i DEF Basics, TypeOK
  <1>6. ASSUME NEW s \in Stmts, createStatement(s) \/ dropStatement(s) PROVE Basics'
    <2>1. UNCHANGED <<spiVars, m_isConnected, infoVars, authVars>>
      BY <1>6 DEF createStatement, dropStatement
    <2>2. SpiTypeOK' /\ Waiting'
      BY <2>1 DEF TypeOK, SpiTypeOK, spiVars, Waiting, Running, authVars
    <2>3. OdbcTypeOK'
      <3>1. [client |-> sql_client_, headers |-> headers] \in [client : Clients, headers : Seq(Headers)]
        BY DEF TypeOK, SpiTypeOK
      <3>2. m_isConnected' \in BOOLEAN /\ m_statements' \subseteq Stmts
        BY <1>6 DEF createStatement, dropStatement, TypeOK, OdbcTypeOK
      <3>3. stmt' \in [Stmts -> [client : Clients, headers : Seq(Headers)]]
        BY <1>6, <3>1 DEF createStatement, dropStatement, TypeOK, OdbcTypeOK
      <3> QED BY <3>2, <3>3 DEF OdbcTypeOK
    <2> QED BY <2>1, <2>2, <2>3, <1>a, <1>i DEF Basics, TypeOK
  <1>7. ASSUME NEW t \in InfoTypes, GetInfoFinds(t) \/ GetInfoLoads(t) \/ GetInfoUnknown(t)
        PROVE  Basics'
    <2>1. UNCHANGED <<spiVars, odbcVars, authVars>>
      BY <1>7 DEF GetInfoFinds, GetInfoLoads, GetInfoUnknown
    <2>2. InfoTypeOK'
      BY <1>7 DEF GetInfoFinds, GetInfoLoads, GetInfoUnknown, FlagAfterTest, LoadsNow,
                  TypeOK, SpiTypeOK, InfoTypeOK
    <2>3. Waiting'
      BY <2>1 DEF Waiting, Running, odbcVars, authVars
    <2> QED BY <2>1, <2>2, <2>3, <1>a, <1>so DEF Basics, TypeOK
  <1>8. CASE UNCHANGED vars
    BY <1>8, <1>a, <1>i, <1>so DEF vars, Basics, TypeOK, Waiting, Running, odbcVars, authVars
  <1> QED BY <1>1, <1>2, <1>3, <1>4, <1>5, <1>6, <1>7, <1>8
    DEF Next, ServerAnswersPoll, GetInfo

LEMMA AlwaysBasics == Spec => []Basics
  BY InitBasics, StepBasics, PTL DEF Spec

(* Every variable keeps its type: connect, disconnect, createStatement and
   GetInfo in any order. *)
THEOREM Typing == Spec => []TypeOK
  BY AlwaysBasics, PTL DEF Basics

-----------------------------------------------------------------------------
(* The connected state and the client of the statements. *)

LEMMA InitAgrees == Init => StatesAgree /\ StatementsUseThisClient
  BY DEF Init, StatesAgree, StatementsUseThisClient

LEMMA StepAgrees ==
  Basics /\ StatesAgree /\ StatementsUseThisClient /\ [Next]_vars
    => StatesAgree' /\ StatementsUseThisClient'
  <1> SUFFICES ASSUME TypeOK, Waiting, StatesAgree, StatementsUseThisClient, [Next]_vars
               PROVE  StatesAgree' /\ StatementsUseThisClient'
    BY DEF Basics
  <1>e. ASSUME ~m_isConnected, NEW n \in 1..MaxConnects, NEW hs, Established(n, hs)
        PROVE  StatesAgree' /\ StatementsUseThisClient'
    <2>1. m_statements = {}
      BY <1>e DEF StatesAgree, StatementsUseThisClient
    <2>2. n # NoClient
      BY ConnectionAssumption DEF NoClient
    <2> QED BY <1>e, <2>1, <2>2 DEF Established, StatesAgree, StatementsUseThisClient
  <1>f. ASSUME ~m_isConnected, NEW hs, Failed(hs)
        PROVE  StatesAgree' /\ StatementsUseThisClient'
    BY <1>f DEF Failed, StatesAgree, StatementsUseThisClient, odbcVars
  <1>1. CASE ConnectPassword \/ ConnectToken
    <2>1. StartConnect
      BY <1>1 DEF ConnectPassword, ConnectToken
    <2> QED BY <1>1, <1>e, <1>f, <2>1, Starting DEF ConnectPassword, ConnectToken
  <1>2. ASSUME NEW answer \in Answers, Poll(answer)
        PROVE  StatesAgree' /\ StatementsUseThisClient'
    <2>1. connects \in 1..MaxConnects /\ ~m_isConnected
      BY <1>2, ConnectionAssumption DEF Poll, Waiting, TypeOK, AuthTypeOK
    <2>2. CASE UNCHANGED <<spiVars, odbcVars>>
      BY <2>2 DEF StatesAgree, StatementsUseThisClient, spiVars, odbcVars
    <2> QED BY <1>2, <1>e, <1>f, <2>1, <2>2 DEF Poll
  <1>3. CASE Disconnect
    BY <1>3 DEF Disconnect, Close, StatesAgree, StatementsUseThisClient, TypeOK, SpiTypeOK, OdbcTypeOK
  <1>4. ASSUME NEW s \in Stmts, createStatement(s)
        PROVE  StatesAgree' /\ StatementsUseThisClient'
    BY <1>4 DEF createStatement, StatesAgree, StatementsUseThisClient, spiVars, TypeOK, OdbcTypeOK
  <1>5. ASSUME NEW s \in Stmts, dropStatement(s)
        PROVE  StatesAgree' /\ StatementsUseThisClient'
    BY <1>5 DEF dropStatement, StatesAgree, StatementsUseThisClient, spiVars
  <1>6. CASE Discover \/ UserLogsIn \/ GetInfo \/ UNCHANGED vars
    <2>1. UNCHANGED <<spiVars, odbcVars>>
      BY <1>6 DEF Discover, UserLogsIn, GetInfo, GetInfoFinds, GetInfoLoads, GetInfoUnknown, vars
    <2> QED BY <2>1 DEF StatesAgree, StatementsUseThisClient, spiVars, odbcVars
  <1> QED BY <1>1, <1>2, <1>3, <1>4, <1>5, <1>6 DEF Next, ServerAnswersPoll

LEMMA AlwaysAgrees == Spec => [](StatesAgree /\ StatementsUseThisClient)
  <1>1. Init => StatesAgree /\ StatementsUseThisClient
    BY InitAgrees
  <1>2. Basics /\ (StatesAgree /\ StatementsUseThisClient) /\ [Next]_vars
          => (StatesAgree /\ StatementsUseThisClient)'
    BY StepAgrees
  <1> QED BY <1>1, <1>2, AlwaysBasics, PTL DEF Spec

(* m_isConnected, closed_, SQL_ATTR_CONNECTION_DEAD and the client never
   disagree, whichever Connects failed. *)
THEOREM OneConnectedState == Spec => []StatesAgree
  BY AlwaysAgrees, PTL

(* No statement of the connection outlives the client it refers to. *)
THEOREM StatementsKeepTheirClient == Spec => []StatementsUseThisClient
  BY AlwaysAgrees, PTL

-----------------------------------------------------------------------------
(* The authorization of the session. *)

(* A Connect that succeeds leaves its own authorization as the newest one. *)
LEMMA NewestAfterConnect ==
  ASSUME NEW n \in 1..MaxConnects, NEW hs \in Seq(Headers)
  PROVE  NewestIsOf(hs \o <<Authorization(n)>> \o <<Option(n)>>, n)
  <1> DEFINE all == hs \o <<Authorization(n)>> \o <<Option(n)>>
             i   == Len(hs) + 1
  <1>1. Authorization(n) \in Headers /\ Option(n) \in Headers
    BY DEF Authorization, Option, Headers
  <1>2. Len(hs) \in Nat
    OBVIOUS
  <1>3. Len(all) = Len(hs) + 2
    BY <1>1
  <1>4. all[i] = Authorization(n) /\ all[i+1] = Option(n)
    BY <1>1
  <1>5. i \in 1..Len(all)
    BY <1>2, <1>3
  <1>6. \A j \in i+1..Len(all) : all[j].kind # "authorization"
    <2>1. \A j \in i+1..Len(all) : j = i + 1
      BY <1>2, <1>3
    <2>2. Option(n).kind # "authorization"
      BY DEF Option
    <2> QED BY <1>4, <2>1, <2>2
  <1> HIDE DEF all, i
  <1>7. NewestIsOf(all, n)
    BY <1>4, <1>5, <1>6 DEF NewestIsOf
  <1> QED BY <1>7 DEF all

(* A Connect that brought no token leaves its empty header. *)
LEMMA EmptyAfterConnect ==
  ASSUME NEW n \in 1..MaxConnects, NEW hs \in Seq(Headers)
  PROVE  LET all == hs \o <<NoToken(n)>> \o <<Option(n)>>
         IN  \E i \in 1..Len(all) : all[i] = NoToken(n)
  <1> DEFINE all == hs \o <<NoToken(n)>> \o <<Option(n)>>
             i   == Len(hs) + 1
  <1>1. NoToken(n) \in Headers /\ Option(n) \in Headers
    BY DEF NoToken, Option, Headers
  <1>2. Len(hs) \in Nat /\ Len(all) = Len(hs) + 2 /\ all[i] = NoToken(n)
    BY <1>1
  <1>3. i \in 1..Len(all)
    BY <1>2
  <1> QED BY <1>2, <1>3

LEMMA StepAuthorization ==
  Basics /\ StatesAgree /\ StatementsUseThisClient /\ OwnAuthorization /\ [Next]_vars
    => OwnAuthorization'
  <1> SUFFICES ASSUME TypeOK, Waiting, StatesAgree, StatementsUseThisClient, OwnAuthorization,
                      [Next]_vars
               PROVE  OwnAuthorization'
    BY DEF Basics
  <1>e. ASSUME ~m_isConnected, NEW n \in 1..MaxConnects, Established(n, <<Authorization(n)>>)
        PROVE  OwnAuthorization'
    <2>1. m_statements' = {}
      BY <1>e DEF Established, StatesAgree, StatementsUseThisClient
    <2>2. headers' = headers \o <<Authorization(n)>> \o <<Option(n)>> /\ sql_client_' = n
      BY <1>e DEF Established
    <2>3. NewestIsOf(headers', sql_client_')
      BY <2>2, NewestAfterConnect DEF TypeOK, SpiTypeOK
    <2> QED BY <2>1, <2>3 DEF OwnAuthorization
  <1>t. UNCHANGED spiVars => TokenObtained' = TokenObtained
    BY DEF TokenObtained, NoToken, spiVars
  <1>n. ASSUME ~m_isConnected, NEW n \in 1..MaxConnects, Established(n, <<NoToken(n)>>)
        PROVE  OwnAuthorization'
    <2>1. headers' = headers \o <<NoToken(n)>> \o <<Option(n)>> /\ sql_client_' = n
      BY <1>n DEF Established
    <2>2. \E i \in 1..Len(headers') : headers'[i] = NoToken(n)
      BY <2>1, EmptyAfterConnect DEF TypeOK, SpiTypeOK
    <2>3. NoToken(sql_client_)' = NoToken(n)
      BY <2>1 DEF NoToken
    <2> QED BY <2>2, <2>3 DEF OwnAuthorization, TokenObtained
  <1>u. ASSUME ~m_isConnected' PROVE OwnAuthorization'
    BY <1>u DEF OwnAuthorization
  <1>f. ASSUME ~m_isConnected, NEW hs, Failed(hs) PROVE OwnAuthorization'
    BY <1>f, <1>u DEF Failed, odbcVars
  <1>k. ASSUME UNCHANGED <<spiVars, odbcVars>> PROVE OwnAuthorization'
    BY <1>k, <1>t DEF OwnAuthorization, spiVars, odbcVars
  <1>1. CASE ConnectPassword \/ ConnectToken
    <2>1. StartConnect
      BY <1>1 DEF ConnectPassword, ConnectToken
    <2> QED BY <1>1, <1>e, <1>f, <1>n, <2>1, Starting DEF ConnectPassword, ConnectToken
  <1>2. ASSUME NEW answer \in Answers, Poll(answer) PROVE OwnAuthorization'
    <2>1. connects \in 1..MaxConnects /\ ~m_isConnected
      BY <1>2, ConnectionAssumption DEF Poll, Waiting, TypeOK, AuthTypeOK
    <2> QED BY <1>2, <1>e, <1>f, <1>k, <2>1 DEF Poll
  <1>3. CASE Disconnect
    <2>1. ~closed_
      BY <1>3 DEF Disconnect, StatesAgree, TypeOK, SpiTypeOK, OdbcTypeOK
    <2> QED BY <1>3, <1>u, <2>1 DEF Disconnect
  <1>4. ASSUME NEW s \in Stmts, createStatement(s) PROVE OwnAuthorization'
    <2> SUFFICES ASSUME TokenObtained PROVE OwnAuthorization'
      BY <1>4, <1>t DEF createStatement, OwnAuthorization
    <2>1. UNCHANGED <<headers, sql_client_>> /\ NewestIsOf(headers, sql_client_)
      BY <1>4 DEF createStatement, spiVars, OwnAuthorization
    <2>2. stmt'[s].headers = headers
      BY <1>4 DEF createStatement, TypeOK, OdbcTypeOK
    <2>3. \A r \in m_statements : r # s /\ stmt'[r] = stmt[r]
      BY <1>4 DEF createStatement, TypeOK, OdbcTypeOK
    <2>4. \A r \in m_statements : NewestIsOf(stmt[r].headers, sql_client_)
      BY <1>4 DEF createStatement, OwnAuthorization
    <2>5. m_statements' = m_statements \cup {s}
      BY <1>4 DEF createStatement
    <2> QED BY <2>1, <2>2, <2>3, <2>4, <2>5 DEF OwnAuthorization
  <1>5. ASSUME NEW s \in Stmts, dropStatement(s) PROVE OwnAuthorization'
    BY <1>5, <1>t DEF dropStatement, OwnAuthorization, spiVars
  <1>6. CASE Discover \/ UserLogsIn \/ GetInfo \/ UNCHANGED vars
    <2>1. UNCHANGED <<spiVars, odbcVars>>
      BY <1>6 DEF Discover, UserLogsIn, GetInfo, GetInfoFinds, GetInfoLoads, GetInfoUnknown, vars
    <2> QED BY <1>k, <2>1
  <1> QED BY <1>1, <1>2, <1>3, <1>4, <1>5, <1>6 DEF Next, ServerAnswersPoll

(* Whatever earlier Connects of the handle left in the call options, requests
   of the connection and of its statements end with this session's
   authorization, unless its login brought no token. *)
THEOREM RequestsAreAuthorized == Spec => []OwnAuthorization
  <1>1. Init => OwnAuthorization
    BY DEF Init, OwnAuthorization
  <1> QED BY <1>1, StepAuthorization, AlwaysBasics, AlwaysAgrees, PTL DEF Spec

-----------------------------------------------------------------------------
(* authType=external. *)

LEMMA StepLogins ==
  Basics /\ SessionsFollowLogins /\ [Next]_vars => SessionsFollowLogins'
  <1> SUFFICES ASSUME TypeOK, Waiting, SessionsFollowLogins, [Next]_vars
               PROVE  SessionsFollowLogins'
    BY DEF Basics
  <1>u. ASSUME ~m_isConnected' PROVE SessionsFollowLogins'
    BY <1>u DEF SessionsFollowLogins
  <1>k. ASSUME UNCHANGED <<m_isConnected, sql_client_, external>>, loggedIn \subseteq loggedIn'
        PROVE  SessionsFollowLogins'
    BY <1>k DEF SessionsFollowLogins
  <1>1. CASE ConnectPassword \/ ConnectToken
    <2>1. StartConnect /\ external' = external
      BY <1>1 DEF ConnectPassword, ConnectToken
    <2>2. connects' \notin external
      <3>1. external \subseteq 1..connects /\ connects \in Nat /\ connects' = connects + 1
        BY <2>1, Starting, ConnectionAssumption DEF TypeOK, AuthTypeOK
      <3> QED BY <3>1
    <2>3. CASE \/ Established(connects', <<Authorization(connects')>>)
               \/ Established(connects', <<NoToken(connects')>>)
      BY <2>1, <2>2, <2>3 DEF Established, SessionsFollowLogins
    <2>4. CASE Failed(<<>>) \/ Failed(<<Authorization(connects')>>)
      BY <2>1, <2>4, <1>u, Starting DEF Failed, odbcVars
    <2> QED BY <1>1, <2>3, <2>4 DEF ConnectPassword, ConnectToken
  <1>2. ASSUME NEW answer \in Answers, Poll(answer) PROVE SessionsFollowLogins'
    <2>1. ~m_isConnected /\ UNCHANGED <<external, loggedIn>>
      BY <1>2 DEF Poll, Waiting
    <2>2. CASE Accept(answer) /\ Established(connects, <<Authorization(connects)>>)
      <3>1. ~EarlyTokens => connects \in loggedIn
        BY <2>2 DEF Accept, Answers
      <3> QED BY <2>1, <2>2, <3>1 DEF Established, SessionsFollowLogins
    <2>3. CASE Failed(<<>>) \/ UNCHANGED <<spiVars, odbcVars>>
      BY <2>1, <2>3, <1>u DEF Failed, odbcVars
    <2> QED BY <1>2, <2>2, <2>3 DEF Poll
  <1>3. CASE Disconnect
    <2>1. CASE ~m_isConnected'
      BY <1>u, <2>1
    <2>2. CASE UNCHANGED <<closed_, sql_client_, connection_dead, m_isConnected>>
      BY <1>3, <1>k, <2>2 DEF Disconnect, authVars
    <2> QED BY <1>3, <2>1, <2>2 DEF Disconnect
  <1>4. CASE Discover
    BY <1>4, <1>u, Starting DEF Discover, odbcVars
  <1>5. CASE UserLogsIn
    BY <1>5, <1>k DEF UserLogsIn, spiVars, odbcVars
  <1>6. CASE GetInfo \/ UNCHANGED vars \/ \E s \in Stmts : createStatement(s) \/ dropStatement(s)
    <2>1. UNCHANGED <<m_isConnected, sql_client_, external, loggedIn>>
      BY <1>6 DEF GetInfo, GetInfoFinds, GetInfoLoads, GetInfoUnknown, createStatement,
                  dropStatement, vars, spiVars, odbcVars, authVars
    <2> QED BY <1>k, <2>1
  <1> QED BY <1>1, <1>2, <1>3, <1>4, <1>5, <1>6 DEF Next, ServerAnswersPoll

(* With a server that issues tokens after the login only, no number of polls
   and no retry makes a session for a user who has not logged in. *)
THEOREM NoSessionWithoutLogin == Spec => []SessionsFollowLogins
  <1>1. Init => SessionsFollowLogins
    BY DEF Init, SessionsFollowLogins
  <1> QED BY <1>1, StepLogins, AlwaysBasics, PTL DEF Spec

-----------------------------------------------------------------------------
(* The cache of server information.  The flag is up only when a load was
   tried: it failed, or it found everything. *)
FlagIsEarned == has_server_info_ => loadFailed \/ \A t \in InfoTypes : Found(t)

CacheInv == InfoIsMissedForAReason /\ FlagIsEarned

LEMMA StepCache == Basics /\ StatesAgree /\ CacheInv /\ [Next]_vars => CacheInv'
  <1> SUFFICES ASSUME TypeOK, StatesAgree, CacheInv, [Next]_vars PROVE CacheInv'
    BY DEF Basics
  <1>k. ASSUME UNCHANGED infoVars PROVE CacheInv'
    BY <1>k DEF CacheInv, InfoIsMissedForAReason, FlagIsEarned, Found, infoVars
  <1>1. ASSUME NEW t \in InfoTypes, GetInfoFinds(t) PROVE CacheInv'
    BY <1>1 DEF GetInfoFinds, CacheInv, InfoIsMissedForAReason, FlagIsEarned, Found
  <1>2. ASSUME NEW t \in InfoTypes, GetInfoLoads(t) PROVE CacheInv'
    <2>1. CASE info_' = [u \in InfoTypes |-> sql_client_] /\ told' = "answer"
      BY <1>2, <2>1 DEF GetInfoLoads, LoadsNow, CacheInv, InfoIsMissedForAReason, FlagIsEarned, Found
    <2>2. CASE loadFailed' = TRUE
      BY <2>2 DEF CacheInv, InfoIsMissedForAReason, FlagIsEarned
    <2> QED BY <1>2, <2>1, <2>2 DEF GetInfoLoads
  <1>3. ASSUME NEW t \in InfoTypes, GetInfoUnknown(t) PROVE CacheInv'
    <2>1. has_server_info_' = has_server_info_ /\ UNCHANGED <<info_, loadFailed>>
      BY <1>3 DEF GetInfoUnknown, FlagAfterTest, TypeOK, InfoTypeOK
    <2>2. m_isConnected => has_server_info_
      BY <1>3 DEF GetInfoUnknown, LoadsNow, StatesAgree
    <2>3. m_isConnected => loadFailed
      BY <1>3, <2>2 DEF GetInfoUnknown, CacheInv, FlagIsEarned
    <2>4. told' = "unknown" => loadFailed'
      BY <1>3, <2>1, <2>3 DEF GetInfoUnknown
    <2> QED BY <2>1, <2>4 DEF CacheInv, InfoIsMissedForAReason, FlagIsEarned, Found
  <1>4. CASE ConnectPassword \/ ConnectToken \/ Discover \/ UserLogsIn \/ Disconnect \/ UNCHANGED vars
    <2>1. UNCHANGED infoVars
      BY <1>4 DEF ConnectPassword, ConnectToken, Discover, UserLogsIn, Disconnect, vars
    <2> QED BY <1>k, <2>1
  <1>5. CASE ServerAnswersPoll \/ \E s \in Stmts : createStatement(s) \/ dropStatement(s)
    <2>1. UNCHANGED infoVars
      BY <1>5 DEF ServerAnswersPoll, Poll, createStatement, dropStatement
    <2> QED BY <1>k, <2>1
  <1> QED BY <1>1, <1>2, <1>3, <1>4, <1>5 DEF Next, GetInfo

(* A connected handle misses server information only after a load of it has
   failed. *)
THEOREM InfoIsFoundUnlessLoadFailed == Spec => []InfoIsMissedForAReason
  <1>1. Init => CacheInv
    BY DEF Init, CacheInv, InfoIsMissedForAReason, FlagIsEarned
  <1>2. Spec => []CacheInv
    BY <1>1, StepCache, AlwaysBasics, AlwaysAgrees, PTL DEF Spec
  <1> QED BY <1>2, PTL DEF CacheInv

-----------------------------------------------------------------------------
(* The tables of ServerInfo.  What SQLGetInfo reads as one variant it reads as no
   other, and some entries it never reads. *)
Unread ==
  {"DATABASE_NAME", "BATCH_SUPPORT", "TXN_ISOLATION_OPTION", "ODBC_API_CONFORMANCE",
   "TXN_CAPABLE", "DESCRIBE_PARAMETER", "DRIVER_ODBC_VER", "ASYNC_MODE", "BATCH_ROW_COUNT",
   "BOOKMARK_PERSISTENCE", "MAX_ASYNC_CONCURRENT_STATEMENTS", "ACTIVE_ENVIRONMENTS"}

EntriesOfConverts ==
  {"CONVERT_BIGINT", "CONVERT_BINARY", "CONVERT_BIT", "CONVERT_CHAR", "CONVERT_DATE",
   "CONVERT_DECIMAL", "CONVERT_FLOAT", "CONVERT_INTEGER", "CONVERT_INTERVAL_DAY_TIME",
   "CONVERT_INTERVAL_YEAR_MONTH", "CONVERT_LONGVARBINARY", "CONVERT_LONGVARCHAR",
   "CONVERT_NUMERIC", "CONVERT_REAL", "CONVERT_SMALLINT", "CONVERT_TIME",
   "CONVERT_TIMESTAMP", "CONVERT_TINYINT", "CONVERT_VARBINARY", "CONVERT_VARCHAR"}

LEMMA ConvertsAre ==
  /\ \A t \in ConvertEntries : GetInfoTypeForArrowConvertEntry[t] \in EntriesOfConverts
  /\ Converts = EntriesOfConverts
                  \cup {"CONVERT_DOUBLE", "CONVERT_GUID", "CONVERT_WCHAR", "CONVERT_WVARCHAR",
                        "CONVERT_WLONGVARCHAR"}
  BY DEF Converts, ConvertEntries, EntriesOfConverts, GetInfoTypeForArrowConvertEntry

LEMMA ReadApart ==
  /\ ReadAsText \cap ReadAsWord = {}
  /\ ReadAsText \cap ReadAsHalf = {}
  /\ ReadAsWord \cap ReadAsHalf = {}
  /\ Unread \cap ReadFromCache = {}
  <1>1. ReadAsText \cap ReadAsWord = {}
    BY ConvertsAre, SMT DEF ReadAsText, ReadAsWord, EntriesOfConverts
  <1>2. ReadAsText \cap ReadAsHalf = {}
    BY SMT DEF ReadAsText, ReadAsHalf, ShortLimits
  <1>3. ReadAsWord \cap ReadAsHalf = {}
    BY ConvertsAre, SMT DEF ReadAsWord, ReadAsHalf, ShortLimits, EntriesOfConverts
  <1>4. Unread \cap ReadFromCache = {}
    BY ConvertsAre, SMT DEF Unread, ReadFromCache, ReadAsText, ReadAsWord, ReadAsHalf, ShortLimits, EntriesOfConverts
  <1> QED BY <1>1, <1>2, <1>3, <1>4

LEMMA MergeDef ==
  ASSUME NEW f, NEW g
  PROVE  /\ DOMAIN (f ++ g) = DOMAIN f \cup DOMAIN g
         /\ \A t \in DOMAIN f : (f ++ g)[t] = f[t]
         /\ \A t \in DOMAIN g : t \notin DOMAIN f => (f ++ g)[t] = g[t]
  BY DEF ++

LEMMA TablesDef ==
  /\ \A t, e : DOMAIN Entry(t, e) = {t} /\ Entry(t, e)[t] = e
  /\ \A table : DOMAIN Texts(table) = DOMAIN table
  /\ \A table : DOMAIN Words(table) = DOMAIN table
  /\ \A table : DOMAIN Halves(table) = DOMAIN table
  BY DEF Entry, Texts, Words, Halves

(* An entry with the variant it is read as, and entries that can all be read. *)
Readable(t, entry) ==
  /\ entry.type \in {"string", "uint32", "uint16"}
  /\ t \in ReadAsText => entry.type = "string"
  /\ t \in ReadAsWord => entry.type = "uint32"
  /\ t \in ReadAsHalf => entry.type = "uint16"
Fits(f) == \A t \in DOMAIN f : Readable(t, f[t])

LEMMA MergeFits ==
  \A f, g : Fits(f) /\ Fits(g) => Fits(f ++ g)
  <1> SUFFICES ASSUME NEW f, NEW g, Fits(f), Fits(g) PROVE Fits(f ++ g)
    OBVIOUS
  <1> QED BY SMT DEF Fits, ++

LEMMA TextsFit ==
  ASSUME NEW table, DOMAIN table \subseteq ReadAsText \cup Unread PROVE Fits(Texts(table))
  BY ReadApart DEF Fits, Readable, Texts, Text, ReadFromCache

LEMMA WordsFit ==
  ASSUME NEW table, DOMAIN table \subseteq ReadAsWord \cup Unread PROVE Fits(Words(table))
  BY ReadApart DEF Fits, Readable, Words, Word, ReadFromCache

LEMMA HalvesFit ==
  ASSUME NEW table, DOMAIN table \subseteq ReadAsHalf \cup Unread PROVE Fits(Halves(table))
  BY ReadApart DEF Fits, Readable, Halves, Half, ReadFromCache

LEMMA EntryFits ==
  ASSUME NEW t, NEW v
  PROVE  /\ t \in ReadAsText \cup Unread => Fits(Entry(t, Text(v)))
         /\ t \in ReadAsWord \cup Unread => Fits(Entry(t, Word(v)))
         /\ t \in ReadAsHalf \cup Unread => Fits(Entry(t, Half(v)))
  BY ReadApart DEF Fits, Readable, Entry, Text, Word, Half, ReadFromCache

(* The tables of the driver fit, and these are their entries. *)
LEMMA DriverTable ==
  /\ Fits(OfTheDriver)
  /\ DOMAIN OfTheDriver =
       {"DRIVER_NAME", "DRIVER_VER", "ACCESSIBLE_PROCEDURES", "COLUMN_ALIAS", "COLLATION_SEQ",
        "CATALOG_TERM", "CATALOG_NAME_SEPARATOR", "CATALOG_NAME", "GETDATA_EXTENSIONS",
        "CURSOR_SENSITIVITY", "AGGREGATE_FUNCTIONS", "TIMEDATE_ADD_INTERVALS",
        "TIMEDATE_DIFF_INTERVALS", "ALTER_DOMAIN", "ALTER_TABLE", "CREATE_ASSERTION",
        "CREATE_CHARACTER_SET", "CREATE_DOMAIN", "CREATE_TRANSLATION", "INDEX_KEYWORDS",
        "DDL_INDEX", "DROP_ASSERTION", "DROP_CHARACTER_SET", "DROP_COLLATION", "DROP_DOMAIN",
        "DROP_SCHEMA", "DROP_TABLE", "DROP_TRANSLATION", "DROP_VIEW", "CURSOR_COMMIT_BEHAVIOR",
        "CURSOR_ROLLBACK_BEHAVIOR", "MAX_IDENTIFIER_LEN", "CATALOG_LOCATION"}
  <1> DEFINE T == [DRIVER_NAME |-> "driver", DRIVER_VER |-> "driver",
                   ACCESSIBLE_PROCEDURES |-> "N", COLUMN_ALIAS |-> "Y", COLLATION_SEQ |-> "",
                   CATALOG_TERM |-> "", CATALOG_NAME_SEPARATOR |-> "", CATALOG_NAME |-> "N"]
             W == [GETDATA_EXTENSIONS |-> {"ANY_COLUMN", "ANY_ORDER"},
                   CURSOR_SENSITIVITY |-> "UNSPECIFIED", AGGREGATE_FUNCTIONS |-> Aggregates,
                   TIMEDATE_ADD_INTERVALS |-> TimestampIntervals,
                   TIMEDATE_DIFF_INTERVALS |-> TimestampIntervals]
             Z == [t \in {"ALTER_DOMAIN", "ALTER_TABLE", "CREATE_ASSERTION", "CREATE_CHARACTER_SET",
                     "CREATE_DOMAIN", "CREATE_TRANSLATION", "INDEX_KEYWORDS", "DDL_INDEX",
                     "DROP_ASSERTION", "DROP_CHARACTER_SET", "DROP_COLLATION", "DROP_DOMAIN",
                     "DROP_SCHEMA", "DROP_TABLE", "DROP_TRANSLATION", "DROP_VIEW"} |-> {}]
             H == [CURSOR_COMMIT_BEHAVIOR |-> "CB_CLOSE", CURSOR_ROLLBACK_BEHAVIOR |-> "CB_CLOSE",
                   MAX_IDENTIFIER_LEN |-> 65535, CATALOG_LOCATION |-> "NONE"]
  <1>1. OfTheDriver = Texts(T) ++ Words(W) ++ Words(Z) ++ Halves(H)
    BY DEF OfTheDriver
  <1>2. /\ DOMAIN T \subseteq ReadAsText \cup Unread /\ DOMAIN W \subseteq ReadAsWord \cup Unread
        /\ DOMAIN Z \subseteq ReadAsWord \cup Unread /\ DOMAIN H \subseteq ReadAsHalf \cup Unread
    BY DEF ReadAsText, ReadAsWord, ReadAsHalf
  <1>3. DOMAIN OfTheDriver = DOMAIN T \cup DOMAIN W \cup DOMAIN Z \cup DOMAIN H
    <2> HIDE DEF T, W, Z, H
    <2> QED BY <1>1, TablesDef, SMT DEF ++
  <1>4. Fits(OfTheDriver)
    <2> HIDE DEF T, W, Z, H
    <2>1. Fits(Texts(T)) /\ Fits(Words(W)) /\ Fits(Words(Z)) /\ Fits(Halves(H))
      BY <1>2, TextsFit, WordsFit, HalvesFit
    <2> QED BY <1>1, <2>1, MergeFits
  <1> QED BY <1>3, <1>4

LEMMA FlagTable ==
  \A f : /\ DOMAIN FromFlags(f) = {"TXN_CAPABLE", "CORRELATION_NAME"}
         /\ Fits(FromFlags(f))
  <1> SUFFICES ASSUME NEW f
               PROVE  /\ DOMAIN FromFlags(f) = {"TXN_CAPABLE", "CORRELATION_NAME"}
                      /\ Fits(FromFlags(f))
    OBVIOUS
  <1> DEFINE x == CASE ~f["TRANSACTIONS_SUPPORTED"] -> "NONE"
                 [] f["DATA_DEFINITION_CAUSES_TRANSACTION_COMMIT"] -> "DDL_COMMIT"
                 [] f["DATA_DEFINITIONS_IN_TRANSACTIONS_IGNORED"] -> "DDL_IGNORE"
                 [] OTHER -> "DML"
             y == CASE ~f["SUPPORTS_TABLE_CORRELATION_NAMES"] -> "NONE"
                    [] f["SUPPORTS_DIFFERENT_TABLE_CORRELATION_NAMES"] -> "DIFFERENT"
                    [] OTHER -> "ANY"
  <1>1. FromFlags(f) = Entry("TXN_CAPABLE", Half(x)) ++ Entry("CORRELATION_NAME", Half(y))
    BY DEF FromFlags
  <1> HIDE DEF x, y
  <1>2. "TXN_CAPABLE" \in Unread /\ "CORRELATION_NAME" \in ReadAsHalf
    BY DEF Unread, ReadAsHalf
  <1>3. DOMAIN FromFlags(f) = {"TXN_CAPABLE", "CORRELATION_NAME"}
    <2> DEFINE A == Entry("TXN_CAPABLE", Half(x))
               B == Entry("CORRELATION_NAME", Half(y))
    <2>1. DOMAIN A = {"TXN_CAPABLE"} /\ DOMAIN B = {"CORRELATION_NAME"}
      BY TablesDef
    <2> HIDE DEF A, B
    <2>2. DOMAIN (A ++ B) = {"TXN_CAPABLE", "CORRELATION_NAME"}
      BY <2>1, SMT DEF ++
    <2> QED BY <1>1, <2>2 DEF A, B
  <1>4. Fits(Entry("TXN_CAPABLE", Half(x))) /\ Fits(Entry("CORRELATION_NAME", Half(y)))
    BY <1>2, EntryFits
  <1>5. Fits(Entry("TXN_CAPABLE", Half(x)) ++ Entry("CORRELATION_NAME", Half(y)))
    BY <1>4, MergeFits
  <1>6. Fits(FromFlags(f))
    BY <1>1, <1>5
  <1> QED BY <1>3, <1>6

(* What the cache holds before a load. *)
LEMMA BeforeTable ==
  /\ Fits(BeforeLoad)
  /\ DOMAIN BeforeLoad =
       DOMAIN OfTheDriver \cup {"USER_NAME", "DATETIME_LITERALS", "CREATE_COLLATION"}
  <1> DEFINE W == [DATETIME_LITERALS |-> {"SQL92_DATE", "SQL92_TIME", "SQL92_TIMESTAMP"},
                   CREATE_COLLATION |-> {}]
  <1>1. BeforeLoad = Entry("USER_NAME", Text("user")) ++ (OfTheDriver ++ Words(W))
    BY DEF BeforeLoad, GetInfoCache
  <1>2. "USER_NAME" \in ReadAsText /\ DOMAIN W = {"DATETIME_LITERALS", "CREATE_COLLATION"}
        /\ DOMAIN W \subseteq ReadAsWord
    BY DEF ReadAsText, ReadAsWord
  <1> HIDE DEF W
  <1>3. DOMAIN Words(W) = {"DATETIME_LITERALS", "CREATE_COLLATION"}
    BY <1>2, TablesDef
  <1>4. DOMAIN BeforeLoad =
          DOMAIN OfTheDriver \cup {"USER_NAME", "DATETIME_LITERALS", "CREATE_COLLATION"}
    <2> DEFINE A == Entry("USER_NAME", Text("user"))
    <2>1. DOMAIN A = {"USER_NAME"}
      BY TablesDef
    <2> HIDE DEF A
    <2>2. DOMAIN (A ++ (OfTheDriver ++ Words(W))) =
            DOMAIN OfTheDriver \cup {"USER_NAME", "DATETIME_LITERALS", "CREATE_COLLATION"}
      BY <1>3, <2>1, SMT DEF ++
    <2> QED BY <1>1, <2>2 DEF A
  <1>5. Fits(Words(W)) /\ Fits(Entry("USER_NAME", Text("user")))
    BY <1>2, WordsFit, EntryFits
  <1>6. Fits(OfTheDriver ++ Words(W))
    BY <1>5, MergeFits, DriverTable
  <1>7. Fits(Entry("USER_NAME", Text("user")) ++ (OfTheDriver ++ Words(W)))
    BY <1>5, <1>6, MergeFits
  <1>8. Fits(BeforeLoad)
    BY <1>1, <1>7
  <1> QED BY <1>4, <1>8

(* The defaults. *)
LEMMA NamesTable ==
  /\ Fits(DefaultsOfNames)
  /\ DOMAIN DefaultsOfNames =
       {"DBMS_NAME", "SERVER_NAME", "DBMS_VER", "DATA_SOURCE_READ_ONLY",
        "EXPRESSIONS_IN_ORDERBY", "INTEGRITY", "PROCEDURES", "MAX_ROW_SIZE_INCLUDES_LONG",
        "DESCRIBE_PARAMETER", "ACCESSIBLE_TABLES", "LIKE_ESCAPE_CLAUSE",
        "ORDER_BY_COLUMNS_IN_SELECT", "KEYWORDS", "PROCEDURE_TERM", "SCHEMA_TERM",
        "IDENTIFIER_QUOTE_CHAR", "SEARCH_PATTERN_ESCAPE", "XOPEN_CLI_YEAR",
        "DRIVER_ODBC_VER"}
  <1> DEFINE T == [DBMS_NAME |-> "server", SERVER_NAME |-> "server", DBMS_VER |-> "server",
                   DATA_SOURCE_READ_ONLY |-> "N", EXPRESSIONS_IN_ORDERBY |-> "N", INTEGRITY |-> "N",
                   PROCEDURES |-> "N", MAX_ROW_SIZE_INCLUDES_LONG |-> "N", DESCRIBE_PARAMETER |-> "N",
                   ACCESSIBLE_TABLES |-> "Y", LIKE_ESCAPE_CLAUSE |-> "Y",
                   ORDER_BY_COLUMNS_IN_SELECT |-> "Y", KEYWORDS |-> "", PROCEDURE_TERM |-> "",
                   SCHEMA_TERM |-> "schema", IDENTIFIER_QUOTE_CHAR |-> "quote",
                   SEARCH_PATTERN_ESCAPE |-> "\\", XOPEN_CLI_YEAR |-> "1995",
                   DRIVER_ODBC_VER |-> "03.80"]
  <1>1. DefaultsOfNames = Texts(T)
    BY DEF DefaultsOfNames
  <1>2. DOMAIN T =
          {"DBMS_NAME", "SERVER_NAME", "DBMS_VER", "DATA_SOURCE_READ_ONLY",
           "EXPRESSIONS_IN_ORDERBY", "INTEGRITY", "PROCEDURES",
           "MAX_ROW_SIZE_INCLUDES_LONG", "DESCRIBE_PARAMETER", "ACCESSIBLE_TABLES",
           "LIKE_ESCAPE_CLAUSE", "ORDER_BY_COLUMNS_IN_SELECT", "KEYWORDS", "PROCEDURE_TERM",
           "SCHEMA_TERM", "IDENTIFIER_QUOTE_CHAR", "SEARCH_PATTERN_ESCAPE",
           "XOPEN_CLI_YEAR", "DRIVER_ODBC_VER"}
    OBVIOUS
  <1> HIDE DEF T
  <1>3. DOMAIN T \subseteq ReadAsText \cup Unread
    BY <1>2, SMT DEF ReadAsText, Unread
  <1>4. DOMAIN DefaultsOfNames = DOMAIN T
    BY <1>1, TablesDef
  <1>5. Fits(DefaultsOfNames)
    BY <1>1, <1>3, TextsFit
  <1> QED BY <1>2, <1>4, <1>5

LEMMA MasksTable ==
  /\ \A t \in DOMAIN DefaultsOfMasks \ {"CORRELATION_NAME"} : Readable(t, DefaultsOfMasks[t])
  /\ DefaultsOfMasks["CORRELATION_NAME"].type = "uint32"
  /\ DOMAIN DefaultsOfMasks = Converts \cup
       {"CORRELATION_NAME", "INSERT_STATEMENT", "INFO_SCHEMA_VIEWS", "OJ_CAPABILITIES",
        "SCHEMA_USAGE", "SQL_CONFORMANCE", "SQL92_DATETIME_FUNCTIONS", "SQL92_PREDICATES",
        "SQL92_RELATIONAL_JOIN_OPERATORS", "SQL92_ROW_VALUE_CONSTRUCTOR",
        "SQL92_STRING_FUNCTIONS", "SQL92_VALUE_EXPRESSIONS", "STRING_FUNCTIONS",
        "SUBQUERIES", "SYSTEM_FUNCTIONS", "UNION"}
       \cup
       {"CATALOG_USAGE", "CREATE_SCHEMA", "CREATE_TABLE", "CREATE_VIEW",
        "DEFAULT_TXN_ISOLATION", "NUMERIC_FUNCTIONS", "SQL92_FOREIGN_KEY_DELETE_RULE",
        "SQL92_FOREIGN_KEY_UPDATE_RULE", "SQL92_GRANT", "SQL92_NUMERIC_VALUE_FUNCTIONS",
        "SQL92_REVOKE", "STANDARD_CLI_CONFORMANCE", "ASYNC_MODE", "BATCH_ROW_COUNT",
        "BATCH_SUPPORT", "BOOKMARK_PERSISTENCE", "MAX_ASYNC_CONCURRENT_STATEMENTS"}
  <1> DEFINE M == [CORRELATION_NAME |-> "NONE", INSERT_STATEMENT |-> Inserts,
                   INFO_SCHEMA_VIEWS |-> {"TABLES", "COLUMNS", "VIEWS"},
                   OJ_CAPABILITIES |-> {"LEFT", "RIGHT", "FULL"}, SCHEMA_USAGE |-> {"DML_STATEMENTS"},
                   SQL_CONFORMANCE |-> "ENTRY",
                   SQL92_DATETIME_FUNCTIONS |-> {"CURRENT_DATE", "CURRENT_TIME", "CURRENT_TIMESTAMP"},
                   SQL92_PREDICATES |-> {"BETWEEN", "COMPARISON", "EXISTS", "IN", "ISNOTNULL", "ISNULL",
                                         "LIKE"},
                   SQL92_RELATIONAL_JOIN_OPERATORS |-> OuterJoinOperators({"FULL"}),
                   SQL92_ROW_VALUE_CONSTRUCTOR |-> {"VALUE_EXPRESSION", "NULL"},
                   SQL92_STRING_FUNCTIONS |-> {"CONVERT", "LOWER", "UPPER", "SUBSTRING", "TRIM_BOTH",
                                               "TRIM_LEADING", "TRIM_TRAILING"},
                   SQL92_VALUE_EXPRESSIONS |-> {"CASE", "CAST", "COALESCE", "NULLIF"},
                   STRING_FUNCTIONS |-> {"CONCAT", "LCASE", "LENGTH", "LTRIM", "RTRIM", "SPACE",
                                         "SUBSTRING", "UCASE"},
                   SUBQUERIES |-> {"CORRELATED", "COMPARISON", "EXISTS", "IN", "QUANTIFIED"},
                   SYSTEM_FUNCTIONS |-> {"IFNULL", "USERNAME"}]
             Z == [t \in Converts \cup
                     {"CATALOG_USAGE", "CREATE_SCHEMA", "CREATE_TABLE", "CREATE_VIEW",
                      "DEFAULT_TXN_ISOLATION", "NUMERIC_FUNCTIONS", "SQL92_FOREIGN_KEY_DELETE_RULE",
                      "SQL92_FOREIGN_KEY_UPDATE_RULE", "SQL92_GRANT", "SQL92_NUMERIC_VALUE_FUNCTIONS",
                      "SQL92_REVOKE", "STANDARD_CLI_CONFORMANCE", "ASYNC_MODE", "BATCH_ROW_COUNT",
                      "BATCH_SUPPORT", "BOOKMARK_PERSISTENCE", "MAX_ASYNC_CONCURRENT_STATEMENTS"}
                   |-> {}]
             U == Entry("UNION", Word({"UNION", "UNION_ALL"}))
  <1>1. DefaultsOfMasks = Words(M) ++ U ++ Words(Z)
    BY DEF DefaultsOfMasks
  <1>2. DOMAIN M =
          {"CORRELATION_NAME", "INSERT_STATEMENT", "INFO_SCHEMA_VIEWS", "OJ_CAPABILITIES",
           "SCHEMA_USAGE", "SQL_CONFORMANCE", "SQL92_DATETIME_FUNCTIONS",
           "SQL92_PREDICATES", "SQL92_RELATIONAL_JOIN_OPERATORS",
           "SQL92_ROW_VALUE_CONSTRUCTOR", "SQL92_STRING_FUNCTIONS",
           "SQL92_VALUE_EXPRESSIONS", "STRING_FUNCTIONS", "SUBQUERIES", "SYSTEM_FUNCTIONS"}
    OBVIOUS
  <1>3. DOMAIN Z = Converts \cup
          {"CATALOG_USAGE", "CREATE_SCHEMA", "CREATE_TABLE", "CREATE_VIEW",
           "DEFAULT_TXN_ISOLATION", "NUMERIC_FUNCTIONS", "SQL92_FOREIGN_KEY_DELETE_RULE",
           "SQL92_FOREIGN_KEY_UPDATE_RULE", "SQL92_GRANT", "SQL92_NUMERIC_VALUE_FUNCTIONS",
           "SQL92_REVOKE", "STANDARD_CLI_CONFORMANCE", "ASYNC_MODE", "BATCH_ROW_COUNT",
           "BATCH_SUPPORT", "BOOKMARK_PERSISTENCE", "MAX_ASYNC_CONCURRENT_STATEMENTS"}
    OBVIOUS
  <1>4. DOMAIN U = {"UNION"}
    BY TablesDef
  <1>5. Fits(U)
    <2>1. "UNION" \in ReadAsWord
      BY DEF ReadAsWord
    <2> QED BY <2>1, EntryFits
  <1> HIDE DEF M, Z, U
  <1>6. DOMAIN M \subseteq ReadAsWord \cup Unread \cup {"CORRELATION_NAME"}
    BY <1>2, SMT DEF ReadAsWord, Unread
  <1>7. DOMAIN Z \subseteq ReadAsWord \cup Unread
    BY <1>3, SMT DEF ReadAsWord, Unread
  <1>8. DOMAIN Words(M) = DOMAIN M /\ DOMAIN Words(Z) = DOMAIN Z
    BY TablesDef
  <1>9. DOMAIN DefaultsOfMasks = DOMAIN M \cup {"UNION"} \cup DOMAIN Z
    BY <1>1, <1>4, <1>8, SMT DEF ++
  <1>10. Fits(Words(Z))
    BY <1>7, WordsFit
  <1>11. \A t \in DOMAIN M : Words(M)[t].type = "uint32" /\ t \notin ReadAsText
                              /\ (t # "CORRELATION_NAME" => t \notin ReadAsHalf)
    <2>1. \A t \in DOMAIN M : Words(M)[t].type = "uint32"
      BY DEF Words, Word
    <2>2. "CORRELATION_NAME" \notin ReadAsText
      BY DEF ReadAsText
    <2> QED BY <1>6, <2>1, <2>2, ReadApart DEF ReadFromCache
  <1>12. \A t \in DOMAIN DefaultsOfMasks \ {"CORRELATION_NAME"} : Readable(t, DefaultsOfMasks[t])
    BY <1>1, <1>4, <1>5, <1>8, <1>10, <1>11, SMT DEF ++, Fits, Readable
  <1>13. DefaultsOfMasks["CORRELATION_NAME"].type = "uint32"
    <2>1. "CORRELATION_NAME" \in DOMAIN M
      BY <1>2
    <2> QED BY <1>1, <1>8, <1>11, <2>1, SMT DEF ++
  <1> QED BY <1>2, <1>3, <1>9, <1>12, <1>13

LEMMA NumbersTable ==
  /\ Fits(DefaultsOfNumbers)
  /\ DOMAIN DefaultsOfNumbers =
       (ShortLimits \ {"MAX_CONCURRENT_ACTIVITIES"}) \cup LongLimits \cup
       {"ACTIVE_ENVIRONMENTS", "CONCAT_NULL_BEHAVIOR", "GROUP_BY", "IDENTIFIER_CASE",
        "NON_NULLABLE_COLUMNS", "NULL_COLLATION", "QUOTED_IDENTIFIER_CASE",
        "ODBC_SQL_CONFORMANCE", "ODBC_SAG_CLI_CONFORMANCE"}
  <1> DEFINE S == [t \in ShortLimits \ {"MAX_CONCURRENT_ACTIVITIES"} |-> 0]
             L == [t \in LongLimits |-> 0]
             N == [ACTIVE_ENVIRONMENTS |-> 0, CONCAT_NULL_BEHAVIOR |-> "NULL",
                   GROUP_BY |-> "CONTAINS_SELECT", IDENTIFIER_CASE |-> "MIXED",
                   NON_NULLABLE_COLUMNS |-> "NULL", NULL_COLLATION |-> "END",
                   QUOTED_IDENTIFIER_CASE |-> "SENSITIVE", ODBC_SQL_CONFORMANCE |-> "MINIMUM",
                   ODBC_SAG_CLI_CONFORMANCE |-> "COMPLIANT"]
  <1>1. DefaultsOfNumbers = Halves(S) ++ Words(L) ++ Halves(N)
    BY DEF DefaultsOfNumbers
  <1>2. DOMAIN N =
          {"ACTIVE_ENVIRONMENTS", "CONCAT_NULL_BEHAVIOR", "GROUP_BY", "IDENTIFIER_CASE",
           "NON_NULLABLE_COLUMNS", "NULL_COLLATION", "QUOTED_IDENTIFIER_CASE",
           "ODBC_SQL_CONFORMANCE", "ODBC_SAG_CLI_CONFORMANCE"}
    OBVIOUS
  <1>3. DOMAIN S = ShortLimits \ {"MAX_CONCURRENT_ACTIVITIES"} /\ DOMAIN L = LongLimits
    OBVIOUS
  <1> HIDE DEF S, L, N
  <1>4. DOMAIN S \subseteq ReadAsHalf
    BY <1>3 DEF ReadAsHalf
  <1>5. DOMAIN L \subseteq ReadAsWord
    BY <1>3, SMT DEF LongLimits, ReadAsWord
  <1>6. DOMAIN N \subseteq ReadAsHalf \cup Unread
    BY <1>2, SMT DEF ReadAsHalf, Unread
  <1>7. Fits(Halves(S)) /\ Fits(Words(L)) /\ Fits(Halves(N))
    BY <1>4, <1>5, <1>6, WordsFit, HalvesFit
  <1>8. DOMAIN Halves(S) = DOMAIN S /\ DOMAIN Words(L) = DOMAIN L /\ DOMAIN Halves(N) = DOMAIN N
    BY TablesDef
  <1>9. DOMAIN DefaultsOfNumbers = DOMAIN S \cup DOMAIN L \cup DOMAIN N
    BY <1>1, <1>8, SMT DEF ++
  <1>10. Fits(DefaultsOfNumbers)
    BY <1>1, <1>7, MergeFits
  <1> QED BY <1>2, <1>3, <1>9, <1>10

(* The defaults fill what is missing, and change nothing else. *)
LEMMA DefaultsFill ==
  \A f : LET g == LoadDefaultsForMissingEntries(f)
         IN /\ DOMAIN g = DOMAIN f \cup DOMAIN OfTheDriver \cup DOMAIN DefaultsOfNames
                             \cup DOMAIN DefaultsOfMasks \cup DOMAIN DefaultsOfNumbers
            /\ \A t \in DOMAIN f : g[t] = f[t]
  <1> SUFFICES ASSUME NEW f
               PROVE  LET g == LoadDefaultsForMissingEntries(f)
                      IN /\ DOMAIN g = DOMAIN f \cup DOMAIN OfTheDriver \cup DOMAIN DefaultsOfNames
                                          \cup DOMAIN DefaultsOfMasks \cup DOMAIN DefaultsOfNumbers
                         /\ \A t \in DOMAIN f : g[t] = f[t]
    OBVIOUS
  <1> QED BY SMT DEF LoadDefaultsForMissingEntries, ++

LEMMA DefaultsAreTheSame ==
  \A f, g : \A t \in DOMAIN LoadDefaultsForMissingEntries(f) \ (DOMAIN f \cup DOMAIN g) :
      LoadDefaultsForMissingEntries(f)[t] = LoadDefaultsForMissingEntries(g)[t]
  <1> SUFFICES ASSUME NEW f, NEW g,
                      NEW t \in DOMAIN LoadDefaultsForMissingEntries(f) \ (DOMAIN f \cup DOMAIN g)
               PROVE  LoadDefaultsForMissingEntries(f)[t] = LoadDefaultsForMissingEntries(g)[t]
    OBVIOUS
  <1> QED BY SMT DEF LoadDefaultsForMissingEntries, ++

LEMMA DefaultsFit ==
  \A f : Fits(f) => LET g == LoadDefaultsForMissingEntries(f)
                    IN \A t \in DOMAIN g : t # "CORRELATION_NAME" => Readable(t, g[t])
  <1> SUFFICES ASSUME NEW f, Fits(f),
                      NEW t \in DOMAIN LoadDefaultsForMissingEntries(f), t # "CORRELATION_NAME"
               PROVE  Readable(t, LoadDefaultsForMissingEntries(f)[t])
    OBVIOUS
  <1> DEFINE e == LoadDefaultsForMissingEntries(f)[t]
  <1>1. \/ t \in DOMAIN f /\ e = f[t]
        \/ t \in DOMAIN OfTheDriver /\ e = OfTheDriver[t]
        \/ t \in DOMAIN DefaultsOfNames /\ e = DefaultsOfNames[t]
        \/ t \in DOMAIN DefaultsOfMasks /\ e = DefaultsOfMasks[t]
        \/ t \in DOMAIN DefaultsOfNumbers /\ e = DefaultsOfNumbers[t]
    BY SMTT(30) DEF LoadDefaultsForMissingEntries, ++
  <1> HIDE DEF e
  <1>2. Readable(t, e)
    BY <1>1, DriverTable, NamesTable, MasksTable, NumbersTable DEF Fits
  <1> QED BY <1>2 DEF e

(* What SQLGetInfo finds when the server has told nothing. *)
LEMMA UntoldEntries ==
  /\ \A t \in ReadFromCache : t \in DOMAIN Untold <=> t \notin DOMAIN ToldBy
  /\ "CORRELATION_NAME" \in DOMAIN Untold /\ Untold["CORRELATION_NAME"].type = "uint32"
  /\ \A t \in DOMAIN Untold : Untold[t].type \in {"string", "uint32", "uint16"}
  <1> DEFINE D == DOMAIN BeforeLoad \cup DOMAIN OfTheDriver \cup DOMAIN DefaultsOfNames
                    \cup DOMAIN DefaultsOfMasks \cup DOMAIN DefaultsOfNumbers
  <1>1. DOMAIN Untold = D
    BY DefaultsFill DEF Untold
  <1>2. DOMAIN ToldBy = {"OUTER_JOINS", "SPECIAL_CHARACTERS", "CONVERT_FUNCTIONS",
                         "TIMEDATE_FUNCTIONS", "MAX_CONCURRENT_ACTIVITIES"}
    BY DEF ToldBy
  <1>3. \A t \in ReadAsText : t \in D <=> t \notin DOMAIN ToldBy
    BY <1>2, ConvertsAre, DriverTable, BeforeTable, NamesTable, MasksTable, NumbersTable, SMT
       DEF ReadAsText, ShortLimits, LongLimits, EntriesOfConverts
  <1>4. \A t \in ReadAsWord : t \in D <=> t \notin DOMAIN ToldBy
    BY <1>2, ConvertsAre, DriverTable, BeforeTable, NamesTable, MasksTable, NumbersTable, SMT
       DEF ReadAsWord, ShortLimits, LongLimits, EntriesOfConverts
  <1>5. \A t \in ReadAsHalf : t \in D <=> t \notin DOMAIN ToldBy
    BY <1>2, ConvertsAre, DriverTable, BeforeTable, NamesTable, MasksTable, NumbersTable, SMT
       DEF ReadAsHalf, ShortLimits, LongLimits, EntriesOfConverts
  <1>6. "CORRELATION_NAME" \in DOMAIN DefaultsOfMasks
        /\ "CORRELATION_NAME" \notin DOMAIN BeforeLoad \cup DOMAIN OfTheDriver
                                       \cup DOMAIN DefaultsOfNames
    BY DriverTable, BeforeTable, NamesTable, MasksTable, SMT
  <1>7. Untold["CORRELATION_NAME"] = DefaultsOfMasks["CORRELATION_NAME"]
    BY <1>6, SMT DEF Untold, LoadDefaultsForMissingEntries, ++
  <1>8. \A t \in DOMAIN Untold : Untold[t].type \in {"string", "uint32", "uint16"}
    BY <1>7, BeforeTable, MasksTable, DefaultsFit DEF Untold, Readable
  <1> HIDE DEF D
  <1>9. \A t \in ReadFromCache : t \in D <=> t \notin DOMAIN ToldBy
    BY <1>3, <1>4, <1>5 DEF ReadFromCache
  <1>10. "CORRELATION_NAME" \in D
    BY <1>6 DEF D
  <1> QED BY <1>1, <1>7, <1>8, <1>9, <1>10, MasksTable

(* The option of Flight SQL that tells an entry. *)
ToldByItsName ==
  ShortLimits \cup LongLimits \cup
  {"SERVER_NAME", "IDENTIFIER_QUOTE_CHAR", "SCHEMA_TERM", "PROCEDURE_TERM", "CATALOG_TERM",
   "IDENTIFIER_CASE", "QUOTED_IDENTIFIER_CASE", "NUMERIC_FUNCTIONS", "STRING_FUNCTIONS",
   "SYSTEM_FUNCTIONS", "KEYWORDS"}

OptionOf ==
  [DBMS_NAME |-> "SERVER_NAME", DATABASE_NAME |-> "SERVER_NAME", DBMS_VER |-> "SERVER_VERSION",
   SEARCH_PATTERN_ESCAPE |-> "SEARCH_STRING_ESCAPE", SPECIAL_CHARACTERS |-> "EXTRA_NAME_CHARACTERS",
   CATALOG_NAME |-> "CATALOG_TERM", CATALOG_NAME_SEPARATOR |-> "CATALOG_TERM",
   ACCESSIBLE_TABLES |-> "ALL_TABLES_ARE_SELECTABLE", COLUMN_ALIAS |-> "SUPPORTS_COLUMN_ALIASING",
   EXPRESSIONS_IN_ORDERBY |-> "SUPPORTS_EXPRESSIONS_IN_ORDER_BY",
   LIKE_ESCAPE_CLAUSE |-> "SUPPORTS_LIKE_ESCAPE_CLAUSE",
   INTEGRITY |-> "SUPPORTS_INTEGRITY_ENHANCEMENT_FACILITY",
   PROCEDURES |-> "STORED_PROCEDURES_SUPPORTED",
   MAX_ROW_SIZE_INCLUDES_LONG |-> "MAX_ROW_SIZE_INCLUDES_BLOBS",
   CONCAT_NULL_BEHAVIOR |-> "NULL_PLUS_NULL_IS_NULL",
   NON_NULLABLE_COLUMNS |-> "SUPPORTS_NON_NULLABLE_COLUMNS",
   DATA_SOURCE_READ_ONLY |-> "SERVER_READ_ONLY", INSERT_STATEMENT |-> "SERVER_READ_ONLY",
   DROP_SCHEMA |-> "DDL_SCHEMA", CREATE_SCHEMA |-> "DDL_SCHEMA", CREATE_TABLE |-> "DDL_TABLE",
   DROP_TABLE |-> "DDL_TABLE", ORDER_BY_COLUMNS_IN_SELECT |-> "SUPPORTS_ORDER_BY_UNRELATED",
   BATCH_SUPPORT |-> "BATCH_UPDATES_SUPPORTED", NULL_COLLATION |-> "NULL_ORDERING",
   DEFAULT_TXN_ISOLATION |-> "DEFAULT_TRANSACTION_ISOLATION", GROUP_BY |-> "SUPPORTED_GROUP_BY",
   ODBC_API_CONFORMANCE |-> "SUPPORTED_GRAMMAR", SQL_CONFORMANCE |-> "ANSI92_SUPPORTED_LEVEL",
   ODBC_SQL_CONFORMANCE |-> "ANSI92_SUPPORTED_LEVEL",
   OJ_CAPABILITIES |-> "OUTER_JOINS_SUPPORT_LEVEL", OUTER_JOINS |-> "OUTER_JOINS_SUPPORT_LEVEL",
   SQL92_RELATIONAL_JOIN_OPERATORS |-> "OUTER_JOINS_SUPPORT_LEVEL",
   SCHEMA_USAGE |-> "SCHEMAS_SUPPORTED_ACTIONS", CATALOG_USAGE |-> "CATALOGS_SUPPORTED_ACTIONS",
   SUBQUERIES |-> "SUPPORTED_SUBQUERIES",
   TXN_ISOLATION_OPTION |-> "SUPPORTED_TRANSACTIONS_ISOLATION_LEVELS",
   CONVERT_FUNCTIONS |-> "SYSTEM_FUNCTIONS", TIMEDATE_FUNCTIONS |-> "DATETIME_FUNCTIONS"]

Tells(o, t) ==
  \/ t = "CATALOG_LOCATION" /\ o \in {"CATALOG_TERM", "CATALOG_AT_START"}
  \/ t = "UNION" /\ o = "SUPPORTED_UNIONS"
  \/ t \in EntriesOfConverts /\ o = "SUPPORTS_CONVERT"
  \/ t \in ToldByItsName /\ o = t
  \/ t \in DOMAIN OptionOf /\ o = OptionOf[t]

(* The entries of a row, each readable and of this option. *)
Good(o, f) == \A t \in DOMAIN f : Readable(t, f[t]) /\ Tells(o, t)

LEMMA MergeGood ==
  \A o, f, g : Good(o, f) /\ Good(o, g) => Good(o, f ++ g)
  <1> SUFFICES ASSUME NEW o, NEW f, NEW g, Good(o, f), Good(o, g) PROVE Good(o, f ++ g)
    OBVIOUS
  <1> QED BY SMT DEF Good, ++

LEMMA EntryGood ==
  ASSUME NEW o, NEW t, NEW v, Tells(o, t)
  PROVE  /\ t \in ReadAsText \cup Unread => Good(o, Entry(t, Text(v)))
         /\ t \in ReadAsWord \cup Unread => Good(o, Entry(t, Word(v)))
         /\ t \in ReadAsHalf \cup Unread => Good(o, Entry(t, Half(v)))
  <1>1. \A e : DOMAIN Entry(t, e) = {t}
    BY TablesDef
  <1>2. \A e : Fits(Entry(t, e)) => Good(o, Entry(t, e))
    BY <1>1 DEF Good, Fits
  <1> QED BY <1>2, EntryFits

LEMMA IgnoredIsGood ==
  DOMAIN Ignored = {} /\ \A o : Good(o, Ignored)
  <1>1. DOMAIN Ignored = 1..0
    BY DEF Ignored
  <1>2. DOMAIN Ignored = {}
    BY <1>1, SMT
  <1> QED BY <1>2 DEF Good

LEMMA TextRows ==
  ASSUME NEW o, NEW v PROVE Good(o, ServerText(o, v))
  <1>1. CASE o = "SERVER_NAME"
    <2> DEFINE T == [SERVER_NAME |-> v, DBMS_NAME |-> v, DATABASE_NAME |-> v]
    <2>1. ServerText(o, v) = Texts(T)
      BY <1>1, SMT DEF ServerText, TextOf
    <2>2. DOMAIN T = {"SERVER_NAME", "DBMS_NAME", "DATABASE_NAME"}
      OBVIOUS
    <2> HIDE DEF T
    <2>3. DOMAIN T \subseteq ReadAsText \cup Unread
      BY <2>2, SMT DEF ReadAsText, Unread
    <2>4. \A t \in DOMAIN T : Tells(o, t)
      BY <1>1, <2>2, SMT DEF Tells, ToldByItsName, EntriesOfConverts, OptionOf, ShortLimits, LongLimits
    <2> QED BY <2>1, <2>3, <2>4, TextsFit, TablesDef DEF Good, Fits
  <1>2. CASE o = "SERVER_VERSION"
    <2>1. ServerText(o, v) = Entry("DBMS_VER", Text(ConvertToDBMSVer(v)))
      BY <1>2, SMT DEF ServerText, TextOf
    <2>2. Tells(o, "DBMS_VER") /\ "DBMS_VER" \in ReadAsText
      BY <1>2, SMT DEF Tells, ToldByItsName, EntriesOfConverts, OptionOf, ShortLimits, LongLimits, ReadAsText
    <2> QED BY <2>1, <2>2, EntryGood
  <1>3. CASE o \in DOMAIN TextOf
    <2>1. ServerText(o, v) = Entry(TextOf[o], Text(v))
      <3>1. o # "SERVER_NAME" /\ o # "SERVER_VERSION" /\ o # "CATALOG_TERM"
        BY <1>3, SMT DEF TextOf
      <3> QED BY <1>3, <3>1 DEF ServerText
    <2>2. Tells(o, TextOf[o]) /\ TextOf[o] \in ReadAsText
      BY <1>3, SMT DEF TextOf, Tells, ToldByItsName, EntriesOfConverts, OptionOf, ShortLimits, LongLimits, ReadAsText
    <2> QED BY <2>1, <2>2, EntryGood
  <1>4. CASE o = "CATALOG_TERM"
    <2> DEFINE A == Entry("CATALOG_TERM", Text(v))
               B == Entry("CATALOG_NAME", YesNo(v # ""))
               C == Entry("CATALOG_NAME_SEPARATOR", Text(IF v = "" THEN "" ELSE "."))
               D == Entry("CATALOG_LOCATION", Half(IF v = "" THEN "NONE" ELSE "START"))
    <2>1. ServerText(o, v) = A ++ B ++ C ++ D
      BY <1>4, SMT DEF ServerText, TextOf
    <2>2. /\ Tells(o, "CATALOG_TERM") /\ "CATALOG_TERM" \in ReadAsText
          /\ Tells(o, "CATALOG_NAME") /\ "CATALOG_NAME" \in ReadAsText
          /\ Tells(o, "CATALOG_NAME_SEPARATOR") /\ "CATALOG_NAME_SEPARATOR" \in ReadAsText
          /\ Tells(o, "CATALOG_LOCATION") /\ "CATALOG_LOCATION" \in ReadAsHalf
      BY <1>4, SMT DEF Tells, ToldByItsName, EntriesOfConverts, OptionOf, ShortLimits, LongLimits,
                       ReadAsText, ReadAsHalf
    <2>3. Good(o, A) /\ Good(o, B) /\ Good(o, C) /\ Good(o, D)
      BY <2>2, EntryGood DEF YesNo
    <2> HIDE DEF A, B, C, D
    <2> QED BY <2>1, <2>3, MergeGood
  <1>5. CASE o \notin {"SERVER_NAME", "SERVER_VERSION", "CATALOG_TERM"} \cup DOMAIN TextOf
    <2>1. ServerText(o, v) = Ignored
      BY <1>5 DEF ServerText
    <2> QED BY <2>1, IgnoredIsGood
  <1> QED BY <1>1, <1>2, <1>3, <1>4, <1>5

LEMMA BoolRows ==
  ASSUME NEW o, NEW v PROVE Good(o, ServerBool(o, v))
  <1>1. CASE o \in DOMAIN YesNoOf
    <2>1. /\ o # "SERVER_READ_ONLY"
          /\ o # "DDL_SCHEMA"
          /\ o # "DDL_TABLE"
          /\ o # "SUPPORTS_ORDER_BY_UNRELATED"
          /\ o # "BATCH_UPDATES_SUPPORTED"
          /\ o \notin DOMAIN ChoiceOf
      BY <1>1, SMT DEF YesNoOf, ChoiceOf
    <2>2. ServerBool(o, v) = Entry(YesNoOf[o], YesNo(v))
      BY <1>1, <2>1 DEF ServerBool
    <2>3. Tells(o, YesNoOf[o]) /\ YesNoOf[o] \in ReadAsText
      BY <1>1, SMT DEF YesNoOf, Tells, ToldByItsName, EntriesOfConverts, OptionOf, ShortLimits, LongLimits,
                       ReadAsText
    <2> QED BY <2>2, <2>3, EntryGood DEF YesNo
  <1>2. CASE o \in DOMAIN ChoiceOf
    <2>1. /\ o # "SERVER_READ_ONLY"
          /\ o # "DDL_SCHEMA"
          /\ o # "DDL_TABLE"
          /\ o # "SUPPORTS_ORDER_BY_UNRELATED"
          /\ o # "BATCH_UPDATES_SUPPORTED"
          /\ o \notin DOMAIN YesNoOf
      BY <1>2, SMT DEF YesNoOf, ChoiceOf
    <2>2. ServerBool(o, v) = Entry(ChoiceOf[o][1], Half(ChoiceOf[o][IF v THEN 2 ELSE 3]))
      BY <1>2, <2>1 DEF ServerBool
    <2>3. Tells(o, ChoiceOf[o][1]) /\ ChoiceOf[o][1] \in ReadAsHalf
      BY <1>2, SMT DEF ChoiceOf, Tells, ToldByItsName, EntriesOfConverts, OptionOf, ShortLimits, LongLimits,
                       ReadAsHalf
    <2> QED BY <2>2, <2>3, EntryGood
  <1>3. CASE o = "SERVER_READ_ONLY"
    <2> DEFINE A == Entry("DATA_SOURCE_READ_ONLY", YesNo(v))
               B == Entry("INSERT_STATEMENT", Word(Inserts))
    <2>1. ServerBool(o, v) = A ++ B
      BY <1>3, SMT DEF ServerBool, YesNoOf, ChoiceOf
    <2>2. /\ Tells(o, "DATA_SOURCE_READ_ONLY") /\ "DATA_SOURCE_READ_ONLY" \in ReadAsText
          /\ Tells(o, "INSERT_STATEMENT") /\ "INSERT_STATEMENT" \in ReadAsWord
      BY <1>3, SMT DEF Tells, ToldByItsName, EntriesOfConverts, OptionOf, ShortLimits, LongLimits,
                       ReadAsText, ReadAsWord
    <2>3. Good(o, A) /\ Good(o, B)
      BY <2>2, EntryGood DEF YesNo
    <2> HIDE DEF A, B
    <2> QED BY <2>1, <2>3, MergeGood
  <1>4. CASE o = "DDL_SCHEMA"
    <2> DEFINE A == Entry("DROP_SCHEMA", Word({"DROP"}))
               B == Entry("CREATE_SCHEMA", Word({"CREATE"}))
    <2>1. ServerBool(o, v) = A ++ B
      BY <1>4, SMT DEF ServerBool, YesNoOf, ChoiceOf
    <2>2. /\ Tells(o, "DROP_SCHEMA") /\ "DROP_SCHEMA" \in ReadAsWord
          /\ Tells(o, "CREATE_SCHEMA") /\ "CREATE_SCHEMA" \in ReadAsWord
      BY <1>4, SMT DEF Tells, ToldByItsName, EntriesOfConverts, OptionOf, ShortLimits, LongLimits,
                       ReadAsWord
    <2>3. Good(o, A) /\ Good(o, B)
      BY <2>2, EntryGood
    <2> HIDE DEF A, B
    <2> QED BY <2>1, <2>3, MergeGood
  <1>5. CASE o = "DDL_TABLE"
    <2> DEFINE A == Entry("CREATE_TABLE", Word({"CREATE"}))
               B == Entry("DROP_TABLE", Word({"DROP"}))
    <2>1. ServerBool(o, v) = A ++ B
      BY <1>5, SMT DEF ServerBool, YesNoOf, ChoiceOf
    <2>2. /\ Tells(o, "CREATE_TABLE") /\ "CREATE_TABLE" \in ReadAsWord
          /\ Tells(o, "DROP_TABLE") /\ "DROP_TABLE" \in ReadAsWord
      BY <1>5, SMT DEF Tells, ToldByItsName, EntriesOfConverts, OptionOf, ShortLimits, LongLimits,
                       ReadAsWord
    <2>3. Good(o, A) /\ Good(o, B)
      BY <2>2, EntryGood
    <2> HIDE DEF A, B
    <2> QED BY <2>1, <2>3, MergeGood
  <1>6. CASE o = "SUPPORTS_ORDER_BY_UNRELATED"
    <2>1. ServerBool(o, v) = Entry("ORDER_BY_COLUMNS_IN_SELECT", YesNo(~v))
      BY <1>6, SMT DEF ServerBool, YesNoOf, ChoiceOf
    <2>2. Tells(o, "ORDER_BY_COLUMNS_IN_SELECT") /\ "ORDER_BY_COLUMNS_IN_SELECT" \in ReadAsText
      BY <1>6, SMT DEF Tells, ToldByItsName, EntriesOfConverts, OptionOf, ShortLimits, LongLimits,
                       ReadAsText
    <2> QED BY <2>1, <2>2, EntryGood DEF YesNo
  <1>7. CASE o = "BATCH_UPDATES_SUPPORTED"
    <2>1. ServerBool(o, v) = Entry("BATCH_SUPPORT", Word(IF v THEN {"ROW_COUNT_EXPLICIT"} ELSE {}))
      BY <1>7, SMT DEF ServerBool, YesNoOf, ChoiceOf
    <2>2. Tells(o, "BATCH_SUPPORT") /\ "BATCH_SUPPORT" \in Unread
      BY <1>7, SMT DEF Tells, ToldByItsName, EntriesOfConverts, OptionOf, ShortLimits, LongLimits,
                       Unread
    <2> QED BY <2>1, <2>2, EntryGood
  <1>8. CASE /\ o \notin DOMAIN YesNoOf /\ o \notin DOMAIN ChoiceOf
             /\ o # "SERVER_READ_ONLY"
             /\ o # "DDL_SCHEMA"
             /\ o # "DDL_TABLE"
             /\ o # "SUPPORTS_ORDER_BY_UNRELATED"
             /\ o # "BATCH_UPDATES_SUPPORTED"
    <2>1. ServerBool(o, v) = Ignored
      BY <1>8 DEF ServerBool
    <2> QED BY <2>1, IgnoredIsGood
  <1> QED BY <1>1, <1>2, <1>3, <1>4, <1>5, <1>6, <1>7, <1>8

LEMMA NumberRows ==
  ASSUME NEW o, NEW n PROVE Good(o, ServerNumber(o, n))
  <1> DEFINE Cases == {"IDENTIFIER_CASE", "QUOTED_IDENTIFIER_CASE"}
  <1>1. CASE o \in Cases
    <2>1. ServerNumber(o, n) = Entry(o, Half(CaseOf(n)))
      <3>1. o # "NULL_ORDERING" /\ o \notin ShortLimits /\ o \notin LongLimits
        BY <1>1, SMT DEF ShortLimits, LongLimits
      <3> QED BY <1>1, <3>1 DEF ServerNumber
    <2>2. Tells(o, o) /\ o \in ReadAsHalf
      BY <1>1, SMT DEF Tells, ToldByItsName, EntriesOfConverts, OptionOf, ShortLimits, LongLimits,
                       ReadAsHalf
    <2> QED BY <2>1, <2>2, EntryGood
  <1>2. CASE o = "NULL_ORDERING"
    <2> DEFINE x == CASE n = 0 -> "HIGH" [] n = 2 -> "START" [] n = 3 -> "END" [] OTHER -> "LOW"
    <2>1. ServerNumber(o, n) = Entry("NULL_COLLATION", Half(x))
      <3>1. "NULL_ORDERING" \notin ShortLimits /\ "NULL_ORDERING" \notin LongLimits
        BY SMT DEF ShortLimits, LongLimits
      <3> QED BY <1>2, <3>1 DEF ServerNumber
    <2> HIDE DEF x
    <2>2. Tells(o, "NULL_COLLATION") /\ "NULL_COLLATION" \in ReadAsHalf
      BY <1>2, SMT DEF Tells, ToldByItsName, EntriesOfConverts, OptionOf, ShortLimits, LongLimits,
                       ReadAsHalf
    <2> QED BY <2>1, <2>2, EntryGood
  <1>3. CASE o \in ShortLimits
    <2>1. ServerNumber(o, n) = Entry(o, Half(n % 65536))
      <3>1. o # "NULL_ORDERING" /\ o \notin LongLimits /\ o \notin Cases
        BY <1>3, SMT DEF ShortLimits, LongLimits
      <3> QED BY <1>3, <3>1 DEF ServerNumber
    <2>2. Tells(o, o) /\ o \in ReadAsHalf
      BY <1>3, SMT DEF Tells, ToldByItsName, EntriesOfConverts, OptionOf, ShortLimits, LongLimits,
                       ReadAsHalf
    <2> QED BY <2>1, <2>2, EntryGood
  <1>4. CASE o \in LongLimits
    <2>1. ServerNumber(o, n) = Entry(o, Word(n))
      <3>1. o # "NULL_ORDERING" /\ o \notin ShortLimits /\ o \notin Cases
        BY <1>4, SMT DEF ShortLimits, LongLimits
      <3> QED BY <1>4, <3>1 DEF ServerNumber
    <2>2. Tells(o, o) /\ o \in ReadAsWord
      BY <1>4, SMT DEF Tells, ToldByItsName, EntriesOfConverts, OptionOf, ShortLimits, LongLimits,
                       ReadAsWord
    <2> QED BY <2>1, <2>2, EntryGood
  <1>5. CASE o \notin Cases /\ o # "NULL_ORDERING" /\ o \notin ShortLimits /\ o \notin LongLimits
    <2>1. ServerNumber(o, n) = Ignored
      BY <1>5 DEF ServerNumber
    <2> QED BY <2>1, IgnoredIsGood
  <1> QED BY <1>1, <1>2, <1>3, <1>4, <1>5

LEMMA MaskRows ==
  ASSUME NEW o, NEW m PROVE Good(o, ServerMask(o, m))
  <1>1. CASE o = "DEFAULT_TRANSACTION_ISOLATION"
    <2>1. ServerMask(o, m) = Entry("DEFAULT_TXN_ISOLATION", Word(FirstOf(m, [i \in 1..4 |-> <<Isolations[i], {Isolations[i]}>>], {})))
      BY <1>1, SMT DEF ServerMask
    <2>2. Tells(o, "DEFAULT_TXN_ISOLATION") /\ "DEFAULT_TXN_ISOLATION" \in ReadAsWord
      BY <1>1, SMT DEF Tells, ToldByItsName, EntriesOfConverts, OptionOf, ShortLimits, LongLimits,
                       ReadAsWord
    <2> QED BY <2>1, <2>2, EntryGood
  <1>2. CASE o = "SUPPORTED_GROUP_BY"
    <2>1. ServerMask(o, m) = Entry("GROUP_BY", Half(FirstOf(m, <<<<"UNRELATED", "NO_RELATION">>,
                                      <<"BEYOND_SELECT", "CONTAINS_SELECT">>>>, "NOT_SUPPORTED")))
      BY <1>2, SMT DEF ServerMask
    <2>2. Tells(o, "GROUP_BY") /\ "GROUP_BY" \in ReadAsHalf
      BY <1>2, SMT DEF Tells, ToldByItsName, EntriesOfConverts, OptionOf, ShortLimits, LongLimits,
                       ReadAsHalf
    <2> QED BY <2>1, <2>2, EntryGood
  <1>3. CASE o = "SUPPORTED_GRAMMAR"
    <2>1. ServerMask(o, m) = Entry("ODBC_API_CONFORMANCE", Word(FirstOf(m, <<<<"MINIMUM", "CORE">>, <<"CORE", "LEVEL1">>,
                                      <<"EXTENDED", "LEVEL2">>>>, "CORE")))
      BY <1>3, SMT DEF ServerMask
    <2>2. Tells(o, "ODBC_API_CONFORMANCE") /\ "ODBC_API_CONFORMANCE" \in Unread
      BY <1>3, SMT DEF Tells, ToldByItsName, EntriesOfConverts, OptionOf, ShortLimits, LongLimits,
                       Unread
    <2> QED BY <2>1, <2>2, EntryGood
  <1>4. CASE o = "ANSI92_SUPPORTED_LEVEL"
    <2> DEFINE A == Entry("SQL_CONFORMANCE", Word(Conformance(m)[1]))
               B == Entry("ODBC_SQL_CONFORMANCE", Half(Conformance(m)[2]))
    <2>1. ServerMask(o, m) = A ++ B
      BY <1>4, SMT DEF ServerMask
    <2>2. /\ Tells(o, "SQL_CONFORMANCE") /\ "SQL_CONFORMANCE" \in ReadAsWord
          /\ Tells(o, "ODBC_SQL_CONFORMANCE") /\ "ODBC_SQL_CONFORMANCE" \in ReadAsHalf
      BY <1>4, SMT DEF Tells, ToldByItsName, EntriesOfConverts, OptionOf, ShortLimits, LongLimits,
                       ReadAsWord, ReadAsHalf
    <2>3. Good(o, A) /\ Good(o, B)
      BY <2>2, EntryGood
    <2> HIDE DEF A, B
    <2> QED BY <2>1, <2>3, MergeGood
  <1>5. CASE o = "OUTER_JOINS_SUPPORT_LEVEL"
    <2> DEFINE A == Entry("OJ_CAPABILITIES", Word(OuterJoins(m)))
               B == Entry("OUTER_JOINS", YesNo(OuterJoins(m) # {}))
               C == Entry("SQL92_RELATIONAL_JOIN_OPERATORS", Word(OuterJoinOperators(m)))
    <2>1. ServerMask(o, m) = A ++ B ++ C
      BY <1>5, SMT DEF ServerMask
    <2>2. /\ Tells(o, "OJ_CAPABILITIES") /\ "OJ_CAPABILITIES" \in ReadAsWord
          /\ Tells(o, "OUTER_JOINS") /\ "OUTER_JOINS" \in ReadAsText
          /\ Tells(o, "SQL92_RELATIONAL_JOIN_OPERATORS") /\ "SQL92_RELATIONAL_JOIN_OPERATORS" \in ReadAsWord
      BY <1>5, SMT DEF Tells, ToldByItsName, EntriesOfConverts, OptionOf, ShortLimits, LongLimits,
                       ReadAsWord, ReadAsText
    <2>3. Good(o, A) /\ Good(o, B) /\ Good(o, C)
      BY <2>2, EntryGood DEF YesNo
    <2> HIDE DEF A, B, C
    <2> QED BY <2>1, <2>3, MergeGood
  <1>6. CASE o = "SCHEMAS_SUPPORTED_ACTIONS"
    <2>1. ServerMask(o, m) = Entry("SCHEMA_USAGE", Word(ActionsOf(m)))
      BY <1>6, SMT DEF ServerMask
    <2>2. Tells(o, "SCHEMA_USAGE") /\ "SCHEMA_USAGE" \in ReadAsWord
      BY <1>6, SMT DEF Tells, ToldByItsName, EntriesOfConverts, OptionOf, ShortLimits, LongLimits,
                       ReadAsWord
    <2> QED BY <2>1, <2>2, EntryGood
  <1>7. CASE o = "CATALOGS_SUPPORTED_ACTIONS"
    <2>1. ServerMask(o, m) = Entry("CATALOG_USAGE", Word(ActionsOf(m)))
      BY <1>7, SMT DEF ServerMask
    <2>2. Tells(o, "CATALOG_USAGE") /\ "CATALOG_USAGE" \in ReadAsWord
      BY <1>7, SMT DEF Tells, ToldByItsName, EntriesOfConverts, OptionOf, ShortLimits, LongLimits,
                       ReadAsWord
    <2> QED BY <2>1, <2>2, EntryGood
  <1>8. CASE o = "SUPPORTED_SUBQUERIES"
    <2>1. ServerMask(o, m) = Entry("SUBQUERIES", Word(m \cap {"COMPARISON", "EXISTS", "IN", "QUANTIFIED"}))
      BY <1>8, SMT DEF ServerMask
    <2>2. Tells(o, "SUBQUERIES") /\ "SUBQUERIES" \in ReadAsWord
      BY <1>8, SMT DEF Tells, ToldByItsName, EntriesOfConverts, OptionOf, ShortLimits, LongLimits,
                       ReadAsWord
    <2> QED BY <2>1, <2>2, EntryGood
  <1>9. CASE o = "SUPPORTED_UNIONS"
    <2>1. ServerMask(o, m) = Entry("UNION", Word(m \cap {"UNION", "UNION_ALL"}))
      BY <1>9, SMT DEF ServerMask
    <2>2. Tells(o, "UNION") /\ "UNION" \in ReadAsWord
      BY <1>9, SMT DEF Tells, ToldByItsName, EntriesOfConverts, OptionOf, ShortLimits, LongLimits,
                       ReadAsWord
    <2> QED BY <2>1, <2>2, EntryGood
  <1>10. CASE o = "SUPPORTED_TRANSACTIONS_ISOLATION_LEVELS"
    <2>1. ServerMask(o, m) = Entry("TXN_ISOLATION_OPTION", Word(m \cap ToSet(Isolations)))
      BY <1>10, SMT DEF ServerMask
    <2>2. Tells(o, "TXN_ISOLATION_OPTION") /\ "TXN_ISOLATION_OPTION" \in Unread
      BY <1>10, SMT DEF Tells, ToldByItsName, EntriesOfConverts, OptionOf, ShortLimits, LongLimits,
                       Unread
    <2> QED BY <2>1, <2>2, EntryGood
  <1>11. CASE /\ o # "DEFAULT_TRANSACTION_ISOLATION"
             /\ o # "SUPPORTED_GROUP_BY"
             /\ o # "SUPPORTED_GRAMMAR"
             /\ o # "ANSI92_SUPPORTED_LEVEL"
             /\ o # "OUTER_JOINS_SUPPORT_LEVEL"
             /\ o # "SCHEMAS_SUPPORTED_ACTIONS"
             /\ o # "CATALOGS_SUPPORTED_ACTIONS"
             /\ o # "SUPPORTED_SUBQUERIES"
             /\ o # "SUPPORTED_UNIONS"
             /\ o # "SUPPORTED_TRANSACTIONS_ISOLATION_LEVELS"
    <2>1. ServerMask(o, m) = Ignored
      BY <1>11 DEF ServerMask
    <2> QED BY <2>1, IgnoredIsGood
  <1> QED BY <1>1, <1>2, <1>3, <1>4, <1>5, <1>6, <1>7, <1>8, <1>9, <1>10, <1>11

LEMMA ListRows ==
  ASSUME NEW o, NEW names PROVE Good(o, ServerList(o, names))
  <1>1. CASE o = "NUMERIC_FUNCTIONS"
    <2>1. ServerList(o, names) = Entry("NUMERIC_FUNCTIONS", Word(Report(names, NumericFunctions)))
      BY <1>1, SMT DEF ServerList
    <2>2. Tells(o, "NUMERIC_FUNCTIONS") /\ "NUMERIC_FUNCTIONS" \in ReadAsWord
      BY <1>1, SMT DEF Tells, ToldByItsName, EntriesOfConverts, OptionOf, ShortLimits, LongLimits,
                       ReadAsWord
    <2> QED BY <2>1, <2>2, EntryGood
  <1>2. CASE o = "STRING_FUNCTIONS"
    <2>1. ServerList(o, names) = Entry("STRING_FUNCTIONS", Word(Report(names, StringFunctions)))
      BY <1>2, SMT DEF ServerList
    <2>2. Tells(o, "STRING_FUNCTIONS") /\ "STRING_FUNCTIONS" \in ReadAsWord
      BY <1>2, SMT DEF Tells, ToldByItsName, EntriesOfConverts, OptionOf, ShortLimits, LongLimits,
                       ReadAsWord
    <2> QED BY <2>1, <2>2, EntryGood
  <1>3. CASE o = "SYSTEM_FUNCTIONS"
    <2> DEFINE A == Entry("SYSTEM_FUNCTIONS", Word(Report(names, SystemFunctions)))
               B == Entry("CONVERT_FUNCTIONS", Word(ConvertFunctions(names)))
    <2>1. ServerList(o, names) = A ++ B
      BY <1>3, SMT DEF ServerList
    <2>2. /\ Tells(o, "SYSTEM_FUNCTIONS") /\ "SYSTEM_FUNCTIONS" \in ReadAsWord
          /\ Tells(o, "CONVERT_FUNCTIONS") /\ "CONVERT_FUNCTIONS" \in ReadAsWord
      BY <1>3, SMT DEF Tells, ToldByItsName, EntriesOfConverts, OptionOf, ShortLimits, LongLimits,
                       ReadAsWord
    <2>3. Good(o, A) /\ Good(o, B)
      BY <2>2, EntryGood
    <2> HIDE DEF A, B
    <2> QED BY <2>1, <2>3, MergeGood
  <1>4. CASE o = "DATETIME_FUNCTIONS"
    <2>1. ServerList(o, names) = Entry("TIMEDATE_FUNCTIONS", Word(Report(names, DatetimeFunctions)))
      BY <1>4, SMT DEF ServerList
    <2>2. Tells(o, "TIMEDATE_FUNCTIONS") /\ "TIMEDATE_FUNCTIONS" \in ReadAsWord
      BY <1>4, SMT DEF Tells, ToldByItsName, EntriesOfConverts, OptionOf, ShortLimits, LongLimits,
                       ReadAsWord
    <2> QED BY <2>1, <2>2, EntryGood
  <1>5. CASE o = "KEYWORDS"
    <2>1. ServerList(o, names) = Entry("KEYWORDS", Text(Keywords(names)))
      BY <1>5, SMT DEF ServerList
    <2>2. Tells(o, "KEYWORDS") /\ "KEYWORDS" \in ReadAsText
      BY <1>5, SMT DEF Tells, ToldByItsName, EntriesOfConverts, OptionOf, ShortLimits, LongLimits,
                       ReadAsText
    <2> QED BY <2>1, <2>2, EntryGood
  <1>6. CASE /\ o # "NUMERIC_FUNCTIONS"
             /\ o # "STRING_FUNCTIONS"
             /\ o # "SYSTEM_FUNCTIONS"
             /\ o # "DATETIME_FUNCTIONS"
             /\ o # "KEYWORDS"
    <2>1. ServerList(o, names) = Ignored
      BY <1>6 DEF ServerList
    <2> QED BY <2>1, IgnoredIsGood
  <1> QED BY <1>1, <1>2, <1>3, <1>4, <1>5, <1>6

LEMMA ConvertRows ==
  ASSUME NEW o, NEW m PROVE Good(o, ServerConverts(o, m))
  <1>1. CASE o # "SUPPORTS_CONVERT"
    BY <1>1, IgnoredIsGood DEF ServerConverts
  <1>2. CASE o = "SUPPORTS_CONVERT"
    <2> DEFINE E == {GetInfoTypeForArrowConvertEntry[t] : t \in DOMAIN m \cap ConvertEntries}
               F(e) == UNION {GetCvtBitForArrowConvertEntry(t) :
                                t \in m[CHOOSE s \in DOMAIN m \cap ConvertEntries :
                                           GetInfoTypeForArrowConvertEntry[s] = e]}
    <2>1. ServerConverts(o, m) = [e \in E |-> Word(F(e))]
      BY <1>2 DEF ServerConverts
    <2>2. E \subseteq EntriesOfConverts
      BY ConvertsAre
    <2>3. \A e \in EntriesOfConverts : Tells(o, e)
      BY <1>2 DEF Tells
    <2>4. EntriesOfConverts \subseteq ReadAsWord
      BY ConvertsAre DEF ReadAsWord
    <2>5. \A x : \A e \in EntriesOfConverts : Readable(e, Word(x))
      BY <2>4, ReadApart DEF Readable, Word
    <2> HIDE DEF E, F
    <2> QED BY <2>1, <2>2, <2>3, <2>5 DEF Good
  <1> QED BY <1>1, <1>2

LEMMA RowTells ==
  \A row : Good(row.option, Entries(row))
  <1> SUFFICES ASSUME NEW row PROVE Good(row.option, Entries(row))
    OBVIOUS
  <1> DEFINE o == row.option
             v == row.value
             A == ServerText(o, v)
             B == ServerBool(o, v)
             C == ServerNumber(o, v)
             D == ServerMask(o, v)
             E == ServerList(o, v)
             F == ServerConverts(o, v)
  <1>1. Entries(row) = A ++ B ++ C ++ D ++ E ++ F
    BY DEF Entries
  <1>2. Good(o, A) /\ Good(o, B) /\ Good(o, C) /\ Good(o, D) /\ Good(o, E) /\ Good(o, F)
    BY TextRows, BoolRows, NumberRows, MaskRows, ListRows, ConvertRows
  <1> HIDE DEF o, v, A, B, C, D, E, F
  <1>3. Good(o, A ++ B ++ C ++ D ++ E ++ F)
    BY <1>2, MergeGood
  <1>4. Good(o, Entries(row))
    BY <1>1, <1>3
  <1> QED BY <1>4 DEF o

(* No two options tell the same entry, but for the place of catalogs. *)
LEMMA TellsApart ==
  /\ \A o, p, t : Tells(o, t) /\ Tells(p, t) =>
       \/ o = p
       \/ t = "CATALOG_LOCATION" /\ {o, p} \subseteq {"CATALOG_TERM", "CATALOG_AT_START"}
  /\ \A o : ~Tells(o, "TXN_CAPABLE") /\ ~Tells(o, "CORRELATION_NAME")
  <1>1. /\ "CATALOG_LOCATION" \notin EntriesOfConverts \cup ToldByItsName \cup DOMAIN OptionOf
        /\ "UNION" \notin EntriesOfConverts \cup ToldByItsName \cup DOMAIN OptionOf
        /\ "TXN_CAPABLE" \notin EntriesOfConverts \cup ToldByItsName \cup DOMAIN OptionOf
        /\ "CORRELATION_NAME" \notin EntriesOfConverts \cup ToldByItsName \cup DOMAIN OptionOf
    BY SMT DEF EntriesOfConverts, ToldByItsName, ShortLimits, LongLimits, OptionOf
  <1>2. /\ EntriesOfConverts \cap ToldByItsName = {}
        /\ EntriesOfConverts \cap DOMAIN OptionOf = {}
        /\ ToldByItsName \cap DOMAIN OptionOf = {}
    BY SMT DEF EntriesOfConverts, ToldByItsName, ShortLimits, LongLimits, OptionOf
  <1>3. ASSUME NEW o, NEW p, NEW t, Tells(o, t), Tells(p, t)
        PROVE  \/ o = p
               \/ t = "CATALOG_LOCATION" /\ {o, p} \subseteq {"CATALOG_TERM", "CATALOG_AT_START"}
    <2>1. CASE t = "CATALOG_LOCATION"
      BY <1>1, <1>3, <2>1, SMT DEF Tells
    <2>2. CASE t = "UNION"
      <3>1. \A q : Tells(q, t) => q = "SUPPORTED_UNIONS"
        BY <1>1, <2>2, SMT DEF Tells
      <3> QED BY <1>3, <3>1
    <2>3. CASE t \in EntriesOfConverts
      <3>1. \A q : Tells(q, t) => q = "SUPPORTS_CONVERT"
        BY <1>1, <1>2, <2>3 DEF Tells
      <3> QED BY <1>3, <3>1
    <2>4. CASE t \in ToldByItsName
      <3>1. \A q : Tells(q, t) => q = t
        BY <1>1, <1>2, <2>4 DEF Tells
      <3> QED BY <1>3, <3>1
    <2>5. CASE t \in DOMAIN OptionOf
      <3>1. \A q : Tells(q, t) => q = OptionOf[t]
        BY <1>1, <1>2, <2>5 DEF Tells
      <3> QED BY <1>3, <3>1
    <2> QED BY <1>3, <2>1, <2>2, <2>3, <2>4, <2>5 DEF Tells
  <1>4. \A o : ~Tells(o, "TXN_CAPABLE") /\ ~Tells(o, "CORRELATION_NAME")
    BY <1>1, SMT DEF Tells
  <1> QED BY <1>3, <1>4

LEMMA TellersOfTheFive ==
  \A o : \A t \in DOMAIN ToldBy : Tells(o, t) => o = ToldBy[t]
  BY SMT DEF ToldBy, Tells, EntriesOfConverts, ToldByItsName, ShortLimits, LongLimits, OptionOf

LEMMA TheFiveAreTold ==
  \A row : \A t \in DOMAIN ToldBy : row.option = ToldBy[t] => t \in DOMAIN Entries(row)
  <1> SUFFICES ASSUME NEW row, NEW t \in DOMAIN ToldBy, row.option = ToldBy[t]
               PROVE  t \in DOMAIN Entries(row)
    OBVIOUS
  <1> DEFINE o == row.option
             v == row.value
             A == ServerText(o, v)
             B == ServerBool(o, v)
             C == ServerNumber(o, v)
             D == ServerMask(o, v)
             E == ServerList(o, v)
             F == ServerConverts(o, v)
  <1>1. Entries(row) = A ++ B ++ C ++ D ++ E ++ F
    BY DEF Entries
  <1>2. DOMAIN Entries(row) = DOMAIN A \cup DOMAIN B \cup DOMAIN C \cup DOMAIN D
                                \cup DOMAIN E \cup DOMAIN F
    <2> HIDE DEF A, B, C, D, E, F
    <2> QED BY <1>1, SMT DEF ++
  <1>3. CASE t = "OUTER_JOINS"
    <2> DEFINE X == Entry("OJ_CAPABILITIES", Word(OuterJoins(v)))
               Y == Entry("OUTER_JOINS", YesNo(OuterJoins(v) # {}))
               Z == Entry("SQL92_RELATIONAL_JOIN_OPERATORS", Word(OuterJoinOperators(v)))
    <2>1. o = "OUTER_JOINS_SUPPORT_LEVEL"
      BY <1>3, SMT DEF ToldBy
    <2>2. D = X ++ Y ++ Z
      BY <2>1, SMT DEF ServerMask
    <2>3. DOMAIN Y = {"OUTER_JOINS"}
      BY TablesDef
    <2> HIDE DEF D, X, Y, Z
    <2>4. "OUTER_JOINS" \in DOMAIN D
      BY <2>2, <2>3, SMT DEF ++
    <2> QED BY <1>2, <1>3, <2>4
  <1>4. CASE t = "SPECIAL_CHARACTERS"
    <2>1. o = "EXTRA_NAME_CHARACTERS"
      BY <1>4, SMT DEF ToldBy
    <2>2. A = Entry("SPECIAL_CHARACTERS", Text(v))
      BY <2>1, SMT DEF ServerText, TextOf
    <2>3. "SPECIAL_CHARACTERS" \in DOMAIN A
      <3>1. DOMAIN Entry("SPECIAL_CHARACTERS", Text(v)) = {"SPECIAL_CHARACTERS"}
        BY TablesDef
      <3> HIDE DEF A
      <3> QED BY <2>2, <3>1
    <2> QED BY <1>2, <1>4, <2>3
  <1>5. CASE t = "CONVERT_FUNCTIONS"
    <2> DEFINE X == Entry("SYSTEM_FUNCTIONS", Word(Report(v, SystemFunctions)))
               Y == Entry("CONVERT_FUNCTIONS", Word(ConvertFunctions(v)))
    <2>1. o = "SYSTEM_FUNCTIONS"
      BY <1>5, SMT DEF ToldBy
    <2>2. E = X ++ Y
      BY <2>1, SMT DEF ServerList
    <2>3. DOMAIN Y = {"CONVERT_FUNCTIONS"}
      BY TablesDef
    <2> HIDE DEF E, X, Y
    <2>4. "CONVERT_FUNCTIONS" \in DOMAIN E
      BY <2>2, <2>3, SMT DEF ++
    <2> QED BY <1>2, <1>5, <2>4
  <1>6. CASE t = "TIMEDATE_FUNCTIONS"
    <2>1. o = "DATETIME_FUNCTIONS"
      BY <1>6, SMT DEF ToldBy
    <2>2. E = Entry("TIMEDATE_FUNCTIONS", Word(Report(v, DatetimeFunctions)))
      BY <2>1, SMT DEF ServerList
    <2>3. "TIMEDATE_FUNCTIONS" \in DOMAIN E
      <3>1. DOMAIN Entry("TIMEDATE_FUNCTIONS", Word(Report(v, DatetimeFunctions))) = {"TIMEDATE_FUNCTIONS"}
        BY TablesDef
      <3> HIDE DEF E
      <3> QED BY <2>2, <3>1
    <2> QED BY <1>2, <1>6, <2>3
  <1>7. CASE t = "MAX_CONCURRENT_ACTIVITIES"
    <2>1. o = "MAX_CONCURRENT_ACTIVITIES"
      BY <1>7, SMT DEF ToldBy
    <2>2. o \in ShortLimits /\ o # "NULL_ORDERING" /\ o \notin LongLimits
          /\ o \notin {"IDENTIFIER_CASE", "QUOTED_IDENTIFIER_CASE"}
      BY <2>1, SMT DEF ShortLimits, LongLimits
    <2> DEFINE x == Half(v % 65536)
    <2>3. C = Entry(o, x)
      BY <2>2 DEF ServerNumber
    <2> HIDE DEF x
    <2>4. DOMAIN Entry(o, x) = {o}
      BY TablesDef
    <2> HIDE DEF C, o
    <2>5. "MAX_CONCURRENT_ACTIVITIES" \in DOMAIN C
      BY <2>1, <2>3, <2>4
    <2> QED BY <1>2, <1>7, <2>5 DEF C, o
  <1> QED BY <1>3, <1>4, <1>5, <1>6, <1>7 DEF ToldBy

(* The inductive invariant: what is in the cache, while it is filled. *)
CacheReads ==
  \A t \in DOMAIN infoCache :
    \/ Readable(t, infoCache[t])
    \/ /\ loading = "done" /\ t = "CORRELATION_NAME"
       /\ infoCache[t].type \in {"string", "uint32", "uint16"}

(* The entry of a row is there, with the value of some row that tells it. *)
RowsAreThere ==
  \A row \in EntryRows : \A t \in DOMAIN Entries(row) :
    t \in DOMAIN infoCache /\ \E r \in EntryRows : t \in DOMAIN Entries(r) /\ infoCache[t] = Entries(r)[t]

FlagsAreAsTold == ToldOnce => flags = FlagsTold

(* Between chunks the entries of the flags follow the flags. *)
FlagsAreThere ==
  loading \in {"not yet", "stream", "done"} /\ chunkTold =>
    \A t \in {"TXN_CAPABLE", "CORRELATION_NAME"} :
      t \in DOMAIN infoCache /\ infoCache[t] = FromFlags(flags)[t]

Base == IF loading = "done" THEN Untold ELSE BeforeLoad
OthersAreAsBefore ==
  /\ DOMAIN Base \subseteq DOMAIN infoCache
  /\ \A t \in DOMAIN infoCache :
       \/ t \in DOMAIN Base /\ infoCache[t] = Base[t]
       \/ \E row \in EntryRows : t \in DOMAIN Entries(row)
       \/ chunkTold /\ t \in {"TXN_CAPABLE", "CORRELATION_NAME"}

ServerInfoTypes ==
  /\ loading \in {"not yet", "stream", "chunk", "done", "broken off"}
  /\ flags \in [Flags -> BOOLEAN]
  /\ rowsTold \subseteq Rows
  /\ chunkTold \in BOOLEAN

ServerInfoInv ==
  /\ ServerInfoTypes
  /\ CacheReads
  /\ RowsAreThere
  /\ FlagsAreAsTold
  /\ FlagsAreThere
  /\ OthersAreAsBefore

LEMMA InfoInvInit ==
  ServerInfoInit => ServerInfoInv
  <1> SUFFICES ASSUME ServerInfoInit PROVE ServerInfoInv
    OBVIOUS
  <1> USE DEF ServerInfoInit
  <1>1. ServerInfoTypes
    BY DEF ServerInfoTypes, NoFlags
  <1>2. CacheReads
    BY BeforeTable DEF CacheReads, Fits
  <1>3. RowsAreThere
    BY DEF RowsAreThere, EntryRows
  <1>4. FlagsAreAsTold
    BY DEF FlagsAreAsTold, FlagsTold, NoFlags
  <1>5. FlagsAreThere
    BY DEF FlagsAreThere
  <1>6. OthersAreAsBefore
    <2>1. Base = BeforeLoad
      BY DEF Base
    <2> QED BY <2>1 DEF OthersAreAsBefore
  <1> QED BY <1>1, <1>2, <1>3, <1>4, <1>5, <1>6 DEF ServerInfoInv

(* A row of a flag changes the flag, as it is told. *)
LEMMA TakesFlag ==
  ASSUME ServerInfoInv, NEW row \in Rows, TakeRow(row), row.option \in Flags
  PROVE  ServerInfoInv'
  <1>1. /\ loading = "chunk" /\ loading' = "chunk"
        /\ flags' = [flags EXCEPT ![row.option] = row.value]
        /\ rowsTold' = rowsTold \cup {row}
        /\ infoCache' = infoCache /\ chunkTold' = chunkTold
    BY DEF TakeRow
  <1>2. EntryRows' = EntryRows
    BY <1>1 DEF EntryRows
  <1>3. ServerInfoTypes'
    <2>1. row.value \in BOOLEAN
      BY RowAssumption
    <2> QED BY <1>1, <2>1 DEF ServerInfoInv, ServerInfoTypes
  <1>4. CacheReads'
    BY <1>1 DEF ServerInfoInv, CacheReads
  <1>5. RowsAreThere'
    BY <1>1, <1>2 DEF ServerInfoInv, RowsAreThere
  <1>6. FlagsAreAsTold'
    <2> SUFFICES ASSUME ToldOnce' PROVE flags' = FlagsTold'
      BY DEF FlagsAreAsTold
    <2>1. ToldOnce
      BY <1>1 DEF ToldOnce
    <2>2. flags = FlagsTold
      BY <2>1 DEF ServerInfoInv, FlagsAreAsTold
    <2>3. row.value \in BOOLEAN
      BY RowAssumption
    <2>4. \A f \in Flags : flags[f] = \E r \in rowsTold : r.option = f /\ r.value
      BY <2>2 DEF FlagsTold
    <2>5. FlagsTold' = [f \in Flags |-> \E r \in rowsTold \cup {row} : r.option = f /\ r.value]
      BY <1>1 DEF FlagsTold
    <2>6. flags' \in [Flags -> BOOLEAN] /\ FlagsTold' \in [Flags -> BOOLEAN]
      BY <1>3, <2>5 DEF ServerInfoTypes
    <2>7. ASSUME NEW f \in Flags PROVE flags'[f] = FlagsTold'[f]
      <3>1. FlagsTold'[f] = \E r \in rowsTold \cup {row} : r.option = f /\ r.value
        BY <2>5
      <3>2. CASE f = row.option
        <4>1. flags'[f] = row.value
          BY <1>1, <3>2 DEF ServerInfoInv, ServerInfoTypes
        <4>2. \A r \in rowsTold \cup {row} : r.option = f => r = row
          BY <1>1, <3>2 DEF ToldOnce
        <4>3. (\E r \in rowsTold \cup {row} : r.option = f /\ r.value) = row.value
          BY <2>3, <3>2, <4>2
        <4> QED BY <3>1, <4>1, <4>3
      <3>3. CASE f # row.option
        <4>1. flags'[f] = flags[f]
          BY <1>1, <3>3 DEF ServerInfoInv, ServerInfoTypes
        <4>2. (\E r \in rowsTold \cup {row} : r.option = f /\ r.value)
                = \E r \in rowsTold : r.option = f /\ r.value
          BY <3>3
        <4> QED BY <2>4, <3>1, <4>1, <4>2
      <3> QED BY <3>2, <3>3
    <2> QED BY <2>6, <2>7
  <1>7. FlagsAreThere'
    BY <1>1 DEF FlagsAreThere
  <1>8. OthersAreAsBefore'
    BY <1>1, <1>2 DEF ServerInfoInv, OthersAreAsBefore, Base
  <1> QED BY <1>3, <1>4, <1>5, <1>6, <1>7, <1>8 DEF ServerInfoInv

(* A row of another option stores its entries. *)
LEMMA TakesEntries ==
  ASSUME ServerInfoInv, NEW row \in Rows, TakeRow(row), row.option \notin Flags
  PROVE  ServerInfoInv'
  <1>1. /\ loading = "chunk" /\ loading' = "chunk"
        /\ infoCache' = Entries(row) ++ infoCache
        /\ rowsTold' = rowsTold \cup {row}
        /\ flags' = flags /\ chunkTold' = chunkTold
    BY DEF TakeRow
  <1>2. EntryRows' = EntryRows \cup {row}
    BY <1>1 DEF EntryRows
  <1>3. /\ DOMAIN infoCache' = DOMAIN Entries(row) \cup DOMAIN infoCache
        /\ \A t \in DOMAIN Entries(row) : infoCache'[t] = Entries(row)[t]
        /\ \A t \in DOMAIN infoCache : t \notin DOMAIN Entries(row) => infoCache'[t] = infoCache[t]
    <2> DEFINE c == Entries(row) ++ infoCache
    <2>1. /\ DOMAIN c = DOMAIN Entries(row) \cup DOMAIN infoCache
          /\ \A t \in DOMAIN Entries(row) : c[t] = Entries(row)[t]
          /\ \A t \in DOMAIN infoCache : t \notin DOMAIN Entries(row) => c[t] = infoCache[t]
      BY MergeDef
    <2>2. infoCache' = c
      BY <1>1
    <2> HIDE DEF c
    <2> QED BY <2>1, <2>2
  <1>4. ServerInfoTypes'
    BY <1>1 DEF ServerInfoInv, ServerInfoTypes
  <1>5. CacheReads'
    <2>1. \A t \in DOMAIN Entries(row) : Readable(t, Entries(row)[t])
      BY RowTells DEF Good
    <2>2. \A t \in DOMAIN infoCache : Readable(t, infoCache[t])
      BY <1>1 DEF ServerInfoInv, CacheReads
    <2>3. \A t \in DOMAIN infoCache' : Readable(t, infoCache'[t])
      BY <1>3, <2>1, <2>2
    <2> QED BY <2>3 DEF CacheReads
  <1>6. RowsAreThere'
    <2> SUFFICES ASSUME NEW s \in EntryRows', NEW t \in DOMAIN Entries(s)
                 PROVE  /\ t \in DOMAIN infoCache'
                        /\ \E r \in EntryRows' : t \in DOMAIN Entries(r) /\ infoCache'[t] = Entries(r)[t]
      BY DEF RowsAreThere
    <2>1. CASE t \in DOMAIN Entries(row)
      BY <1>2, <1>3, <2>1
    <2>2. CASE t \notin DOMAIN Entries(row)
      <3>1. s \in EntryRows
        BY <1>2, <2>2
      <3>2. /\ t \in DOMAIN infoCache
            /\ \E r \in EntryRows : t \in DOMAIN Entries(r) /\ infoCache[t] = Entries(r)[t]
        BY <3>1 DEF ServerInfoInv, RowsAreThere
      <3> QED BY <1>2, <1>3, <2>2, <3>2
    <2> QED BY <2>1, <2>2
  <1>7. FlagsAreAsTold'
    <2> SUFFICES ASSUME ToldOnce' PROVE flags' = FlagsTold'
      BY DEF FlagsAreAsTold
    <2>1. ToldOnce
      BY <1>1 DEF ToldOnce
    <2>2. flags = FlagsTold
      BY <2>1 DEF ServerInfoInv, FlagsAreAsTold
    <2>3. \A f \in Flags : (\E r \in rowsTold \cup {row} : r.option = f /\ r.value)
                             = \E r \in rowsTold : r.option = f /\ r.value
      OBVIOUS
    <2>4. FlagsTold' = FlagsTold
      BY <1>1, <2>3 DEF FlagsTold
    <2> QED BY <1>1, <2>2, <2>4
  <1>8. FlagsAreThere'
    BY <1>1 DEF FlagsAreThere
  <1>9. OthersAreAsBefore'
    <2>1. Base' = BeforeLoad /\ Base = BeforeLoad
      BY <1>1 DEF Base
    <2>2. DOMAIN Base' \subseteq DOMAIN infoCache'
      BY <1>3, <2>1 DEF ServerInfoInv, OthersAreAsBefore
    <2>3. ASSUME NEW t \in DOMAIN infoCache'
          PROVE  \/ t \in DOMAIN Base' /\ infoCache'[t] = Base'[t]
                 \/ \E r \in EntryRows' : t \in DOMAIN Entries(r)
                 \/ chunkTold' /\ t \in {"TXN_CAPABLE", "CORRELATION_NAME"}
      <3>1. CASE t \in DOMAIN Entries(row)
        BY <1>2, <3>1
      <3>2. CASE t \notin DOMAIN Entries(row)
        <4>1. t \in DOMAIN infoCache /\ infoCache'[t] = infoCache[t]
          BY <1>3, <3>2
        <4>2. \/ t \in DOMAIN Base /\ infoCache[t] = Base[t]
              \/ \E r \in EntryRows : t \in DOMAIN Entries(r)
              \/ chunkTold /\ t \in {"TXN_CAPABLE", "CORRELATION_NAME"}
          BY <4>1 DEF ServerInfoInv, OthersAreAsBefore
        <4> QED BY <1>1, <1>2, <2>1, <4>1, <4>2
      <3> QED BY <3>1, <3>2
    <2> QED BY <2>2, <2>3 DEF OthersAreAsBefore
  <1> QED BY <1>4, <1>5, <1>6, <1>7, <1>8, <1>9 DEF ServerInfoInv

(* The end of a chunk stores the entries of the flags. *)
LEMMA EndsChunk ==
  ASSUME ServerInfoInv, EndChunk
  PROVE  ServerInfoInv'
  <1>1. /\ loading = "chunk" /\ loading' = "stream"
        /\ infoCache' = FromFlags(flags) ++ infoCache
        /\ chunkTold' = TRUE /\ flags' = flags /\ rowsTold' = rowsTold
    BY DEF EndChunk
  <1>2. EntryRows' = EntryRows
    BY <1>1 DEF EntryRows
  <1> DEFINE X == {"TXN_CAPABLE", "CORRELATION_NAME"}
  <1>3. DOMAIN FromFlags(flags) = X
    BY FlagTable
  <1>4. /\ DOMAIN infoCache' = X \cup DOMAIN infoCache
        /\ \A t \in X : infoCache'[t] = FromFlags(flags)[t]
        /\ \A t \in DOMAIN infoCache : t \notin X => infoCache'[t] = infoCache[t]
    <2> DEFINE f == FromFlags(flags)
               c == f ++ infoCache
    <2>1. infoCache' = c /\ DOMAIN f = X
      BY <1>1, <1>3
    <2> HIDE DEF f
    <2>2. /\ DOMAIN c = DOMAIN f \cup DOMAIN infoCache
          /\ \A t \in DOMAIN f : c[t] = f[t]
          /\ \A t \in DOMAIN infoCache : t \notin DOMAIN f => c[t] = infoCache[t]
      BY MergeDef
    <2> HIDE DEF c, X
    <2>3. /\ DOMAIN infoCache' = X \cup DOMAIN infoCache
          /\ \A t \in X : infoCache'[t] = f[t]
          /\ \A t \in DOMAIN infoCache : t \notin X => infoCache'[t] = infoCache[t]
      BY <2>1, <2>2
    <2> QED BY <2>3 DEF f
  <1>5. \A row : X \cap DOMAIN Entries(row) = {}
    BY RowTells, TellsApart DEF Good
  <1>6. ServerInfoTypes'
    BY <1>1 DEF ServerInfoInv, ServerInfoTypes
  <1>7. FlagsAreThere'
    BY <1>1, <1>4 DEF FlagsAreThere
  <1> HIDE DEF X
  <1>8. CacheReads'
    <2>1. \A t \in X : Readable(t, FromFlags(flags)[t])
      BY <1>3, FlagTable DEF Fits
    <2>2. \A t \in DOMAIN infoCache : Readable(t, infoCache[t])
      BY <1>1 DEF ServerInfoInv, CacheReads
    <2>3. \A t \in DOMAIN infoCache' : Readable(t, infoCache'[t])
      BY <1>4, <2>1, <2>2
    <2> QED BY <2>3 DEF CacheReads
  <1>9. RowsAreThere'
    <2> SUFFICES ASSUME NEW s \in EntryRows', NEW t \in DOMAIN Entries(s)
                 PROVE  /\ t \in DOMAIN infoCache'
                        /\ \E r \in EntryRows' : t \in DOMAIN Entries(r) /\ infoCache'[t] = Entries(r)[t]
      BY DEF RowsAreThere
    <2>1. t \notin X
      BY <1>5
    <2>2. /\ t \in DOMAIN infoCache
          /\ \E r \in EntryRows : t \in DOMAIN Entries(r) /\ infoCache[t] = Entries(r)[t]
      BY <1>2 DEF ServerInfoInv, RowsAreThere
    <2> QED BY <1>2, <1>4, <2>1, <2>2
  <1>10. FlagsAreAsTold'
    BY <1>1 DEF ServerInfoInv, FlagsAreAsTold, ToldOnce, FlagsTold
  <1>11. OthersAreAsBefore'
    <2>1. Base' = BeforeLoad /\ Base = BeforeLoad
      BY <1>1 DEF Base
    <2>2. DOMAIN Base' \subseteq DOMAIN infoCache'
      BY <1>4, <2>1 DEF ServerInfoInv, OthersAreAsBefore
    <2>3. ASSUME NEW t \in DOMAIN infoCache'
          PROVE  \/ t \in DOMAIN Base' /\ infoCache'[t] = Base'[t]
                 \/ \E r \in EntryRows' : t \in DOMAIN Entries(r)
                 \/ chunkTold' /\ t \in X
      <3>1. CASE t \in X
        BY <1>1, <3>1
      <3>2. CASE t \notin X
        <4>1. t \in DOMAIN infoCache /\ infoCache'[t] = infoCache[t]
          BY <1>4, <3>2
        <4>2. \/ t \in DOMAIN Base /\ infoCache[t] = Base[t]
              \/ \E r \in EntryRows : t \in DOMAIN Entries(r)
          BY <3>2, <4>1 DEF ServerInfoInv, OthersAreAsBefore, X
        <4> QED BY <1>2, <2>1, <4>1, <4>2
      <3> QED BY <3>1, <3>2
    <2> QED BY <2>2, <2>3 DEF OthersAreAsBefore, X
  <1> QED BY <1>6, <1>7, <1>8, <1>9, <1>10, <1>11 DEF ServerInfoInv

(* The end of the stream stores the defaults of what is missing. *)
LEMMA EndsStream ==
  ASSUME ServerInfoInv, EndStream
  PROVE  ServerInfoInv'
  <1>1. /\ loading = "stream" /\ loading' = "done"
        /\ infoCache' = LoadDefaultsForMissingEntries(infoCache)
        /\ chunkTold' = chunkTold /\ flags' = flags /\ rowsTold' = rowsTold
    BY DEF EndStream
  <1>2. EntryRows' = EntryRows
    BY <1>1 DEF EntryRows
  <1>3. /\ DOMAIN infoCache \subseteq DOMAIN infoCache'
        /\ \A t \in DOMAIN infoCache : infoCache'[t] = infoCache[t]
    BY <1>1, DefaultsFill
  <1>4. ServerInfoTypes'
    BY <1>1 DEF ServerInfoInv, ServerInfoTypes
  <1>5. Base' = Untold /\ Base = BeforeLoad
    BY <1>1 DEF Base
  <1>6. /\ DOMAIN BeforeLoad \subseteq DOMAIN infoCache
        /\ DOMAIN Untold \subseteq DOMAIN infoCache'
        /\ DOMAIN infoCache' = DOMAIN infoCache \cup DOMAIN Untold
    <2>1. DOMAIN BeforeLoad \subseteq DOMAIN infoCache
      BY <1>5 DEF ServerInfoInv, OthersAreAsBefore
    <2>2. DOMAIN infoCache' = DOMAIN infoCache \cup DOMAIN Untold
      BY <1>1, <2>1, DefaultsFill DEF Untold
    <2> QED BY <2>1, <2>2
  <1>7. \A t \in DOMAIN infoCache' : t \notin DOMAIN infoCache => infoCache'[t] = Untold[t]
    BY <1>1, <1>6, DefaultsAreTheSame DEF Untold
  <1>8. \A t \in DOMAIN BeforeLoad : Untold[t] = BeforeLoad[t] /\ t \in DOMAIN Untold
    BY DefaultsFill DEF Untold
  <1>9. CacheReads'
    <2>1. Fits(infoCache)
      BY <1>1 DEF ServerInfoInv, CacheReads, Fits
    <2>2. \A t \in DOMAIN infoCache' : t # "CORRELATION_NAME" => Readable(t, infoCache'[t])
      BY <1>1, <2>1, DefaultsFit
    <2>3. \A t \in DOMAIN infoCache' : infoCache'[t].type \in {"string", "uint32", "uint16"}
      BY <1>3, <1>6, <1>7, <2>1, UntoldEntries DEF Fits, Readable
    <2> QED BY <1>1, <2>2, <2>3 DEF CacheReads
  <1>10. RowsAreThere'
    BY <1>2, <1>3 DEF ServerInfoInv, RowsAreThere
  <1>11. FlagsAreAsTold'
    BY <1>1 DEF ServerInfoInv, FlagsAreAsTold, ToldOnce, FlagsTold
  <1>12. FlagsAreThere'
    BY <1>1, <1>3 DEF ServerInfoInv, FlagsAreThere
  <1>13. OthersAreAsBefore'
    <2>1. ASSUME NEW t \in DOMAIN infoCache'
          PROVE  \/ t \in DOMAIN Untold /\ infoCache'[t] = Untold[t]
                 \/ \E r \in EntryRows : t \in DOMAIN Entries(r)
                 \/ chunkTold /\ t \in {"TXN_CAPABLE", "CORRELATION_NAME"}
      <3>1. CASE t \notin DOMAIN infoCache
        BY <1>6, <1>7, <3>1
      <3>2. CASE t \in DOMAIN infoCache
        <4>1. \/ t \in DOMAIN BeforeLoad /\ infoCache[t] = BeforeLoad[t]
              \/ \E r \in EntryRows : t \in DOMAIN Entries(r)
              \/ chunkTold /\ t \in {"TXN_CAPABLE", "CORRELATION_NAME"}
          BY <1>5, <3>2 DEF ServerInfoInv, OthersAreAsBefore
        <4> QED BY <1>3, <1>8, <3>2, <4>1
      <3> QED BY <3>1, <3>2
    <2> QED BY <1>1, <1>2, <1>5, <1>6, <2>1 DEF OthersAreAsBefore
  <1> QED BY <1>4, <1>9, <1>10, <1>11, <1>12, <1>13 DEF ServerInfoInv

(* The other steps leave the cache as it is. *)
LEMMA KeepsCache ==
  ASSUME ServerInfoInv, UNCHANGED <<infoCache, flags, rowsTold, chunkTold>>,
         \/ AskServer \/ BeginChunk \/ LoadBreaksOff
         \/ loading' = loading
  PROVE  ServerInfoInv'
  <1>1. /\ infoCache' = infoCache /\ flags' = flags /\ rowsTold' = rowsTold
        /\ chunkTold' = chunkTold
    OBVIOUS
  <1>2. /\ loading' \in {"not yet", "stream", "chunk", "done", "broken off"}
        /\ (loading' = "done") = (loading = "done")
        /\ loading' \in {"not yet", "stream", "done"} => loading \in {"not yet", "stream", "done"}
    BY DEF ServerInfoInv, ServerInfoTypes, AskServer, BeginChunk, LoadBreaksOff
  <1>3. EntryRows' = EntryRows
    BY <1>1 DEF EntryRows
  <1>4. Base' = Base
    BY <1>2 DEF Base
  <1>5. ServerInfoTypes'
    BY <1>1, <1>2 DEF ServerInfoInv, ServerInfoTypes
  <1>6. CacheReads'
    BY <1>1, <1>2 DEF ServerInfoInv, CacheReads
  <1>7. RowsAreThere'
    BY <1>1, <1>3 DEF ServerInfoInv, RowsAreThere
  <1>8. FlagsAreAsTold'
    BY <1>1 DEF ServerInfoInv, FlagsAreAsTold, ToldOnce, FlagsTold
  <1>9. FlagsAreThere'
    <2> SUFFICES ASSUME loading' \in {"not yet", "stream", "done"}, chunkTold',
                        NEW t \in {"TXN_CAPABLE", "CORRELATION_NAME"}
                 PROVE  t \in DOMAIN infoCache' /\ infoCache'[t] = FromFlags(flags')[t]
      BY DEF FlagsAreThere
    <2>1. t \in DOMAIN infoCache /\ infoCache[t] = FromFlags(flags)[t]
      <3>1. loading \in {"not yet", "stream", "done"}
        BY <1>2
      <3>2. chunkTold
        <4>1. chunkTold \in BOOLEAN
          BY DEF ServerInfoInv, ServerInfoTypes
        <4>2. CASE chunkTold = FALSE
          <5>1. chunkTold' = FALSE
            BY <1>1, <4>2
          <5> QED BY <5>1
        <4> QED BY <4>1, <4>2
      <3> QED BY <3>1, <3>2 DEF ServerInfoInv, FlagsAreThere
    <2> QED BY <1>1, <2>1
  <1>10. OthersAreAsBefore'
    BY <1>1, <1>3, <1>4 DEF ServerInfoInv, OthersAreAsBefore
  <1> QED BY <1>5, <1>6, <1>7, <1>8, <1>9, <1>10 DEF ServerInfoInv

LEMMA InfoInvNext ==
  ServerInfoInv /\ [ServerInfoNext]_serverInfoVars => ServerInfoInv'
  <1> SUFFICES ASSUME ServerInfoInv, [ServerInfoNext]_serverInfoVars PROVE ServerInfoInv'
    OBVIOUS
  <1>1. CASE AskServer
    BY <1>1, KeepsCache DEF AskServer
  <1>2. CASE BeginChunk
    BY <1>2, KeepsCache DEF BeginChunk
  <1>3. CASE EndChunk
    BY <1>3, EndsChunk
  <1>4. CASE EndStream
    BY <1>4, EndsStream
  <1>5. CASE LoadBreaksOff
    BY <1>5, KeepsCache DEF LoadBreaksOff
  <1>6. ASSUME NEW row \in Rows, TakeRow(row) PROVE ServerInfoInv'
    BY <1>6, TakesFlag, TakesEntries
  <1>7. CASE UNCHANGED serverInfoVars
    BY <1>7, KeepsCache DEF serverInfoVars
  <1> QED BY <1>1, <1>2, <1>3, <1>4, <1>5, <1>6, <1>7 DEF ServerInfoNext

LEMMA InfoTypesHold ==
  ServerInfoInv => ServerInfoTypeOK
  BY DEF ServerInfoInv, ServerInfoTypes, CacheReads, Readable, ServerInfoTypeOK

LEMMA AskedOfTheCache ==
  ReadFromCache \cap (DriverAnswers \cup {"DATABASE_NAME"}) = {}
  <1>1. ReadAsText \cap (DriverAnswers \cup {"DATABASE_NAME"}) = {}
    BY SMT DEF ReadAsText, DriverAnswers
  <1>2. ReadAsWord \cap (DriverAnswers \cup {"DATABASE_NAME"}) = {}
    BY ConvertsAre, SMT DEF ReadAsWord, DriverAnswers, EntriesOfConverts
  <1>3. ReadAsHalf \cap (DriverAnswers \cup {"DATABASE_NAME"}) = {}
    BY SMT DEF ReadAsHalf, DriverAnswers, ShortLimits
  <1> QED BY <1>1, <1>2, <1>3 DEF ReadFromCache

LEMMA InfoAnswered ==
  ServerInfoInv => EveryTypeIsAnswered
  <1> SUFFICES ASSUME ServerInfoInv, NEW t \in ReadFromCache
               PROVE  /\ loading = "done" =>
                           AnswerInfo(t, TRUE) =
                             (IF t = "CORRELATION_NAME" /\ ~chunkTold THEN "bad_get"
                              ELSE IF t \in DOMAIN ToldBy /\ ToldBy[t] \notin OptionsTold
                                   THEN "Unknown GetInfo type"
                                   ELSE "answered")
                      /\ loading # "done" => AnswerInfo(t, TRUE) # "bad_get"
    BY DEF EveryTypeIsAnswered
  <1> DEFINE reads == HoldsVariantRead(t, infoCache[t].type)
  <1>1. AnswerInfo(t, TRUE) = IF t \notin DOMAIN infoCache THEN "Unknown GetInfo type"
                              ELSE IF reads THEN "answered" ELSE "bad_get"
    BY AskedOfTheCache DEF AnswerInfo
  <1>2. Readable(t, infoCache[t]) => reads
    BY DEF Readable, HoldsVariantRead, ReadFromCache
  <1>3. "CORRELATION_NAME" \in ReadAsHalf
    BY DEF ReadAsHalf
  <1>4. ASSUME loading # "done" PROVE AnswerInfo(t, TRUE) # "bad_get"
    <2>1. t \in DOMAIN infoCache => reads
      BY <1>2, <1>4 DEF ServerInfoInv, CacheReads
    <2> HIDE DEF reads
    <2> QED BY <1>1, <2>1
  <1>5. CASE loading = "done" /\ t = "CORRELATION_NAME"
    <2>1. t \notin DOMAIN ToldBy
      BY <1>5, SMT DEF ToldBy
    <2>2. t \in DOMAIN infoCache
      BY <1>5, UntoldEntries DEF ServerInfoInv, OthersAreAsBefore, Base
    <2>3. CASE ~chunkTold
      <3>1. \A row : t \notin DOMAIN Entries(row)
        BY <1>5, RowTells, TellsApart DEF Good
      <3>2. infoCache[t] = Untold[t]
        BY <1>5, <2>2, <2>3, <3>1 DEF ServerInfoInv, OthersAreAsBefore, Base
      <3>3. infoCache[t].type = "uint32"
        BY <1>5, <3>2, UntoldEntries
      <3>4. ~reads
        BY <1>3, <1>5, <3>3, ReadApart DEF HoldsVariantRead
      <3> HIDE DEF reads
      <3> QED BY <1>1, <1>5, <2>2, <2>3, <3>4
    <2>4. CASE chunkTold
      <3>1. infoCache[t] = FromFlags(flags)[t]
        BY <1>5, <2>4 DEF ServerInfoInv, FlagsAreThere
      <3>2. reads
        BY <1>2, <1>5, <3>1, FlagTable DEF Fits
      <3> HIDE DEF reads
      <3> QED BY <1>1, <1>5, <2>1, <2>2, <2>4, <3>2
    <2> QED BY <2>3, <2>4
  <1>6. CASE loading = "done" /\ t # "CORRELATION_NAME"
    <2>1. t \in DOMAIN infoCache => reads
      BY <1>2, <1>6 DEF ServerInfoInv, CacheReads
    <2>2. CASE t \notin DOMAIN ToldBy
      <3>1. t \in DOMAIN infoCache
        BY <1>6, <2>2, UntoldEntries DEF ServerInfoInv, OthersAreAsBefore, Base
      <3> HIDE DEF reads
      <3> QED BY <1>1, <1>6, <2>1, <2>2, <3>1
    <2>3. CASE t \in DOMAIN ToldBy /\ ToldBy[t] \notin OptionsTold
      <3>1. \A row \in EntryRows : t \notin DOMAIN Entries(row)
        BY <2>3, RowTells, TellersOfTheFive DEF Good, EntryRows, OptionsTold
      <3>2. t \notin DOMAIN Untold /\ t \notin {"TXN_CAPABLE", "CORRELATION_NAME"}
        BY <2>3, UntoldEntries, SMT DEF ToldBy
      <3>3. t \notin DOMAIN infoCache
        BY <1>6, <3>1, <3>2 DEF ServerInfoInv, OthersAreAsBefore, Base
      <3> HIDE DEF reads
      <3> QED BY <1>1, <1>6, <2>3, <3>3
    <2>4. CASE t \in DOMAIN ToldBy /\ ToldBy[t] \in OptionsTold
      <3>1. PICK row \in rowsTold : row.option = ToldBy[t]
        BY <2>4 DEF OptionsTold
      <3>2. \A s \in DOMAIN ToldBy : ToldBy[s] \notin Flags
        BY SMT DEF ToldBy, Flags
      <3>3. row \in EntryRows
        BY <2>4, <3>1, <3>2 DEF EntryRows
      <3>4. t \in DOMAIN infoCache
        BY <2>4, <3>1, <3>3, TheFiveAreTold DEF ServerInfoInv, RowsAreThere
      <3> HIDE DEF reads
      <3> QED BY <1>1, <1>6, <2>1, <2>4, <3>4
    <2> QED BY <2>2, <2>3, <2>4
  <1> QED BY <1>4, <1>5, <1>6

LEMMA InfoInOrder ==
  ServerInfoInv /\ loading = "done" /\ ToldOnce =>
    RowsEndInTheirEntries /\ FlagsEndInTheirs /\ OthersAreTheDrivers
  <1> SUFFICES ASSUME ServerInfoInv, loading = "done", ToldOnce
               PROVE  RowsEndInTheirEntries /\ FlagsEndInTheirs /\ OthersAreTheDrivers
    OBVIOUS
  <1>1. RowsEndInTheirEntries
    <2> SUFFICES ASSUME NEW row \in EntryRows, NEW t \in DOMAIN Entries(row)
                 PROVE  \/ t \in DOMAIN infoCache /\ infoCache[t] = Entries(row)[t]
                        \/ /\ t = "CATALOG_LOCATION"
                           /\ {"CATALOG_TERM", "CATALOG_AT_START"} \subseteq OptionsTold
      BY DEF RowsEndInTheirEntries
    <2>1. PICK r \in EntryRows : /\ t \in DOMAIN infoCache
                                 /\ t \in DOMAIN Entries(r)
                                 /\ infoCache[t] = Entries(r)[t]
      BY DEF ServerInfoInv, RowsAreThere
    <2>2. Tells(row.option, t) /\ Tells(r.option, t)
      BY <2>1, RowTells DEF Good
    <2>3. CASE row.option = r.option
      <3>1. row = r
        BY <2>3 DEF ToldOnce, EntryRows
      <3> QED BY <2>1, <3>1
    <2>4. CASE row.option # r.option
      <3>1. t = "CATALOG_LOCATION"
            /\ {row.option, r.option} \subseteq {"CATALOG_TERM", "CATALOG_AT_START"}
        BY <2>2, <2>4, TellsApart
      <3>2. row.option \in OptionsTold /\ r.option \in OptionsTold
        BY DEF OptionsTold, EntryRows
      <3> QED BY <2>4, <3>1, <3>2
    <2> QED BY <2>3, <2>4
  <1>2. \A f : DOMAIN FromFlags(f) = {"TXN_CAPABLE", "CORRELATION_NAME"}
    BY FlagTable
  <1>3. FlagsEndInTheirs
    <2>1. flags = FlagsTold
      BY DEF ServerInfoInv, FlagsAreAsTold
    <2> SUFFICES ASSUME chunkTold, NEW t \in {"TXN_CAPABLE", "CORRELATION_NAME"}
                 PROVE  t \in DOMAIN infoCache /\ infoCache[t] = FromFlags(FlagsTold)[t]
      BY <1>2 DEF FlagsEndInTheirs
    <2>2. t \in DOMAIN infoCache /\ infoCache[t] = FromFlags(flags)[t]
      BY DEF ServerInfoInv, FlagsAreThere
    <2> QED BY <2>1, <2>2
  <1>4. OthersAreTheDrivers
    BY <1>2 DEF OthersAreTheDrivers, ServerInfoInv, OthersAreAsBefore, Base
  <1> QED BY <1>1, <1>3, <1>4

(* Type invariant of the load. *)
THEOREM InfoTypeCorrect ==
  ServerInfoSpec => []ServerInfoTypeOK
  <1>1. ServerInfoSpec => []ServerInfoInv
    BY InfoInvInit, InfoInvNext, PTL DEF ServerInfoSpec
  <1> QED BY <1>1, InfoTypesHold, PTL

(* What SQLGetInfo answers does not depend on how the server tells it. *)
THEOREM ServerIsUnderstood ==
  ServerInfoSpec => []ServerInfoHolds
  <1>1. ServerInfoSpec => []ServerInfoInv
    BY InfoInvInit, InfoInvNext, PTL DEF ServerInfoSpec
  <1>2. ServerInfoInv => ServerInfoHolds
    BY InfoAnswered, InfoInOrder DEF ServerInfoHolds
  <1> QED BY <1>1, <1>2, PTL
=============================================================================
