-------------------------------- MODULE Config --------------------------------
(***************************************************************************)
(* From a connection string, a data source and a user to the options of    *)
(* the Flight client: ODBCConnection::getPropertiesFromConnString,         *)
(* SQLDriverConnect and SQLConnect, the parser behind the data source      *)
(* windows, and the settings FlightSqlConnection takes from the            *)
(* properties.                                                             *)
(*                                                                         *)
(* Text is a sequence of symbols: "=", ";", "{", "}", a blank, and words,  *)
(* which stand for runs of other characters.                               *)
(***************************************************************************)
EXTENDS Integers, FiniteSets, SequencesExt, TLC

(* The map of properties compares its keys without case. *)
Lower(text) ==
    LET lower == [DSN |-> "dsn", Driver |-> "driver", UID |-> "uid", PWD |-> "pwd",
                  X |-> "x", True |-> "true"]
    IN [i \in DOMAIN text |-> IF text[i] \in DOMAIN lower THEN lower[text[i]] ELSE text[i]]

Stripped(value) ==
    IF Len(value) >= 2 /\ value[1] = "{" /\ Last(value) = "}"
    THEN SubSeq(value, 2, Len(value) - 1) ELSE value

-----------------------------------------------------------------------------
(* CONNECTION_STR_REGEX: a key, "=", and a value that is a braced text up to the
   last closing brace there is, a run without "=" and ";", or one symbol. *)

RunEnd(text, i) ==
    LET stop == SelectInSubSeq(text, i, Len(text), LAMBDA c : c \in {"=", ";"})
    IN IF stop = 0 THEN Len(text) + 1 ELSE stop

ValueEnd(text, i) ==
    LET closing == SelectLastInSubSeq(text, i + 2, Len(text), LAMBDA c : c = "}")
    IN CASE i > Len(text) -> 0
         [] i <= Len(text) /\ text[i] = "{" /\ closing # 0 -> closing
         [] i <= Len(text) /\ ~(text[i] = "{" /\ closing # 0) ->
                CASE RunEnd(text, i) > i -> RunEnd(text, i) - 1
                  [] text[i] = "=" -> i
                  [] OTHER -> 0

RECURSIVE Matches(_, _)
Matches(text, i) ==
    LET eq   == RunEnd(text, i)
        last == ValueEnd(text, eq + 1)
    IN CASE i > Len(text) -> <<>>
         [] eq = i \/ eq > Len(text) \/ last = 0 -> Matches(text, i + 1)
         [] text[eq] # "=" -> Matches(text, i + 1)
         [] OTHER -> <<[key |-> SubSeq(text, i, eq - 1), value |-> SubSeq(text, eq + 1, last)]>>
                        \o Matches(text, last + 1)

-----------------------------------------------------------------------------
(* Data sources are a function from names to properties. *)

NotLoaded == {<<"dsn">>, <<"driver">>}

\* A mutant: the data source replaces what the string said before it.
loadPropertiesFromDSNOver(dsn, properties, sources) ==
    IF dsn \notin DOMAIN sources THEN properties
    ELSE [k \in DOMAIN sources[dsn] \ NotLoaded |-> sources[dsn][k]] @@ properties

loadPropertiesFromDSN(dsn, properties, sources) ==
    IF dsn \notin DOMAIN sources THEN properties
    ELSE properties @@ [k \in DOMAIN sources[dsn] \ NotLoaded |-> sources[dsn][k]]

TakePair(s, pair, sources) ==
    LET key == Lower(pair.key)
    IN CASE key = <<"dsn">> ->
              IF s.driverFirst \/ s.dsnFirst THEN s
              ELSE [s EXCEPT !.dsnFirst = TRUE, !.dsn = pair.value,
                             !.properties = loadPropertiesFromDSN(pair.value, @, sources)]
         [] key = <<"driver">> -> [s EXCEPT !.driverFirst = @ \/ ~s.dsnFirst]
         [] OTHER -> [s EXCEPT !.properties = (key :> Stripped(pair.value)) @@ @]

getPropertiesFromConnString(text, sources) ==
    FoldLeft(LAMBDA s, pair : TakePair(s, pair, sources),
             [properties |-> <<>>, dsn |-> <<>>, dsnFirst |-> FALSE, driverFirst |-> FALSE],
             Matches(text, 1))

(* SQLConnect: a null user or password leaves the one of the data source. *)
Null == "null"
SQLConnect(serverName, userName, auth, sources) ==
    LET read == getPropertiesFromConnString(<<"DSN", "=">> \o serverName, sources).properties
    IN [dsn |-> serverName,
        properties |-> (IF auth = Null THEN <<>> ELSE <<"pwd">> :> auth)
                       @@ (IF userName = Null THEN <<>> ELSE <<"uid">> :> userName) @@ read]

-----------------------------------------------------------------------------
(* ConnectionStringParser, behind the windows: from the end of the string to its
   beginning, so that the first copy of a key is the one that stays; a value
   that is blank is not set. *)

Trim(text) ==
    LET first == SelectInSeq(text, LAMBDA c : c # " ")
    IN IF first = 0 THEN <<>>
       ELSE SubSeq(text, first, SelectLastInSeq(text, LAMBDA c : c # " "))

Set(cfg, key, value) == IF Trim(value) = <<>> THEN cfg ELSE (Lower(key) :> value) @@ cfg

RECURSIVE ParseConnectionString(_, _)
ParseConnectionString(text, cfg) ==
    LET begin == SelectLastInSeq(text, LAMBDA c : c = ";") + 1
        eq    == SelectLastInSeq(text, LAMBDA c : c = "=")
        taken == IF begin < eq
                 THEN Set(cfg, Trim(SubSeq(text, begin, eq - 1)),
                          Stripped(Trim(SubSeq(text, eq + 1, Len(text)))))
                 ELSE cfg
    IN CASE text = <<>> -> cfg
         [] text # <<>> /\ begin = 1 -> taken
         [] OTHER -> ParseConnectionString(SubSeq(text, 1, begin - 2), taken)

(* Configuration::LoadDsn: the keys the windows show, with their defaults, and
   the keys the driver does not know; its other keys are left behind, and blanks
   are not set. *)
Shown == {"host", "port", "token", "uid", "pwd", "useencryption", "trustedcerts",
          "usesystemtruststore", "disablecertificateverification"}
Unseen == {"dsn", "driver", "user id", "stringcolumnlength", "usewidechar",
           "useextendedflightsqlbuffer", "chunkbuffercapacity", "hidesqltableslisting",
           "authtype", "sendpingframe", "pingframeintervalmilliseconds",
           "pingframetimeoutmilliseconds", "maxpingswithoutdata"}
ConfigDefaults == (<<"useencryption">> :> <<"true">>) @@ (<<"usesystemtruststore">> :> <<"true">>)
                  @@ (<<"disablecertificateverification">> :> <<"false">>)
LoadDsn(dsn, sources) ==
    LET read == (IF dsn \in DOMAIN sources THEN sources[dsn] ELSE <<>>) @@ ConfigDefaults
        kept == {k \in DOMAIN read : k \notin {<<u>> : u \in Unseen} /\ Trim(read[k]) # <<>>}
    IN (<<"dsn">> :> dsn) @@ [k \in kept |-> read[k]]

-----------------------------------------------------------------------------
(* Properties as settings. *)

None == -1
\* A mutant: what is not "true" is false.
AsBoolStrict(properties, key, default) ==
    IF <<key>> \notin DOMAIN properties THEN default
    ELSE Lower(properties[<<key>>]) \in {<<"true">>, <<"1">>}

AsBool(properties, key, default) ==
    IF <<key>> \notin DOMAIN properties THEN default
    ELSE CASE Lower(properties[<<key>>]) \in {<<"true">>, <<"1">>}  -> TRUE
           [] Lower(properties[<<key>>]) \in {<<"false">>, <<"0">>} -> FALSE
           [] OTHER -> default

(* stoi throws on what is no number; a number below the least is not taken. *)
NumberIn(value) == ("0" :> 0) @@ ("1" :> 1) @@ ("5000" :> 5000)
AsInt32(least, properties, key) ==
    CASE <<key>> \notin DOMAIN properties -> [value |-> None, throws |-> FALSE]
      [] OTHER ->
           LET value == SelectSeq(properties[<<key>>], LAMBDA c : c # " ")
           IN IF value = <<>> \/ Head(value) \notin DOMAIN NumberIn(value)
              THEN [value |-> None, throws |-> TRUE]
              ELSE LET n == NumberIn(value)[Head(value)]
                   IN [value |-> IF n >= least THEN n ELSE None, throws |-> FALSE]

PopulateMetadataSettings(properties, windows) ==
    LET capacity == AsInt32(1, properties, "chunkbuffercapacity")
        length   == AsInt32(1, properties, "stringcolumnlength")
    IN [stringColumnLength |-> length.value,
        useWideChar |-> AsBool(properties, "usewidechar", windows),
        useExtendedBuffer |-> AsBool(properties, "useextendedflightsqlbuffer", FALSE),
        chunkBufferCapacity |-> IF capacity.value = None THEN 5 ELSE capacity.value,
        hideTables |-> AsBool(properties, "hidesqltableslisting", FALSE),
        warnings |-> {k \in {"length", "capacity"} :
                        (IF k = "length" THEN length ELSE capacity).throws}]

BuiltIn ==
    {"host", "port", "user", "user id", "uid", "password", "pwd", "token", "useencryption",
     "disablecertificateverification", "trustedcerts", "usesystemtruststore",
     "stringcolumnlength", "usewidechar", "useextendedflightsqlbuffer", "authtype",
     "sendpingframe", "pingframeintervalmilliseconds", "pingframetimeoutmilliseconds",
     "maxpingswithoutdata"}

(* What is not built in becomes a header of every call, unless it has a blank. *)
Headers(properties) ==
    [k \in {k \in DOMAIN properties : k \notin {<<b>> : b \in BuiltIn} /\ ~Contains(k, " ")} |->
        properties[k]]

Pings(properties) ==
    IF ~AsBool(properties, "sendpingframe", FALSE) THEN <<None, None, None>>
    ELSE <<AsInt32(1000, properties, "pingframeintervalmilliseconds").value,
           AsInt32(1000, properties, "pingframetimeoutmilliseconds").value,
           AsInt32(0, properties, "maxpingswithoutdata").value>>

(* How the server proves itself: nobody asks, the certificates of the system
   (none but on Windows), the file of the user, or the roots of gRPC. *)
Tls(properties, windows) ==
    LET certs == IF <<"trustedcerts">> \in DOMAIN properties THEN properties[<<"trustedcerts">>]
                 ELSE <<>>
    IN CASE ~AsBool(properties, "useencryption", TRUE) -> "plain"
         [] AsBool(properties, "disablecertificateverification", FALSE) -> "unverified"
         [] AsBool(properties, "usesystemtruststore", windows) ->
                IF windows THEN "system" ELSE "default"
         [] certs # <<>> -> "file"
         [] OTHER -> "default"

(* BuildLocation comes first; an IP address is turned into its name for TLS when
   that can be resolved. *)
Addresses == {<<"10.0.0.1">>}
BuildLocation(properties, resolved) ==
    LET missing == SelectSeq(<<"host", "port">>, LAMBDA k : <<k>> \notin DOMAIN properties)
        host    == properties[<<"host">>]
    IN CASE missing # <<>> -> <<"missing", missing>>
         [] properties[<<"port">>] # <<"5000">> -> <<"bad_lexical_cast">>
         [] ~AsBool(properties, "useencryption", TRUE) -> <<"tcp", host>>
         [] OTHER -> <<"tls", IF host \in Addresses /\ resolved # Null THEN resolved ELSE host>>

(* FlightSqlAuthMethod::FromProperties: how the driver logs in, and with what.  A
   user and its password have three spellings; a half of the third is enough. *)
FromProperties(properties) ==
    LET given(k) == <<k>> \in DOMAIN properties
        text(k)  == IF given(k) THEN properties[<<k>>] ELSE <<>>
        user     == IF given("user") THEN "user" ELSE "user id"
        pair     == IF given(user) /\ given("password") THEN <<user, "password">> ELSE <<"uid", "pwd">>
    IN CASE text("authtype") = <<"external">> -> <<"external">>
         [] given(pair[1]) \/ given(pair[2])  -> <<"password", text(pair[1]), text(pair[2])>>
         [] given("token")                    -> <<"token", text("token")>>
         [] OTHER                             -> <<"refused">>

-----------------------------------------------------------------------------
(* A connection string is obeyed as it is written: of the copies of a key the
   last counts, in whatever case; a value in braces, wherever it stands, may hold
   what separates pairs, and braces; a data source named before any driver, the
   first one only, fills in what the string does not say and never replaces what
   it says before or after.  Except that of two values in braces the first runs
   to the brace that ends the second, and that the name of a data source keeps
   its braces: the strings below have one such value at most, and not a DSN's.
   A user and a password given to SQLConnect are the same as written behind the
   data source; and the windows read a plain string as the driver does.
   (getPropertiesFromConnString, SQLConnect, ParseConnectionString) *)
Special(value) == \E i \in DOMAIN value : value[i] \in {"=", ";", "{", "}"}
Written(pairs) ==
    FlattenSeq([i \in DOMAIN pairs |->
        pairs[i].key \o <<"=">>
            \o (IF Special(pairs[i].value) THEN <<"{">> \o pairs[i].value \o <<"}">>
               ELSE pairs[i].value) \o <<";">>])

ConnectsAsWrittenOn(pairs, sources) ==
    LET keyOf(i)  == Lower(pairs[i].key)
        copies(k) == {i \in DOMAIN pairs : keyOf(i) = k}
        naming    == {i \in DOMAIN pairs : keyOf(i) \in NotLoaded}
        said      == {keyOf(i) : i \in DOMAIN pairs} \ NotLoaded
        last(k)   == pairs[CHOOSE i \in copies(k) : \A j \in copies(k) : j <= i].value
        explicit  == [k \in said |-> last(k)]
        first     == CHOOSE i \in naming : \A j \in naming : i <= j
        named     == naming # {} /\ keyOf(first) = <<"dsn">>
        filled    == IF named /\ pairs[first].value \in DOMAIN sources
                     THEN sources[pairs[first].value] ELSE <<>>
        read      == getPropertiesFromConnString(Written(pairs), sources)
        once      == \A i, j \in DOMAIN pairs : keyOf(i) = keyOf(j) => i = j
        plain     == \A i \in DOMAIN pairs : /\ ~Special(pairs[i].value)
                                               /\ Trim(pairs[i].key) = pairs[i].key
                                               /\ Trim(pairs[i].value) = pairs[i].value
        braced    == {i \in DOMAIN pairs : Special(pairs[i].value)}
    IN Cardinality(braced) <= 1 /\ (\A i \in braced : keyOf(i) # <<"dsn">>) =>
        /\ read.properties = explicit @@ [k \in DOMAIN filled \ NotLoaded |-> filled[k]]
        /\ read.dsn = IF named THEN pairs[first].value ELSE <<>>
        /\ once /\ plain =>
              LET shown == ParseConnectionString(Written(pairs), <<>>)
              IN /\ DOMAIN shown = {keyOf(i) : i \in DOMAIN pairs}
                 /\ \A i \in DOMAIN pairs : shown[keyOf(i)] = pairs[i].value
        /\ \A dsn \in DOMAIN sources, user, auth \in {<<"w">>} :
              SQLConnect(dsn, user, auth, sources).properties
                = getPropertiesFromConnString(
                      Written(<<[key |-> <<"PWD">>, value |-> auth],
                                [key |-> <<"DSN">>, value |-> dsn],
                                [key |-> <<"UID">>, value |-> user]>>), sources).properties

(* A property whose value the driver does not understand counts for nothing: the
   settings, the keepalive and the way the server is verified are those of a
   string without it, and never less safe ones; the defaults of the windows verify
   the server as those of the driver do.  Credentials stay out of the headers,
   and the location is reached the way the certificates expect.
   (AsBool, AsInt32, PopulateMetadataSettings, LoadFlightSslConfigs, LoadDsn) *)
LeastOf == [chunkbuffercapacity |-> 1, stringcolumnlength |-> 1, maxpingswithoutdata |-> 0,
            pingframeintervalmilliseconds |-> 1000, pingframetimeoutmilliseconds |-> 1000]
Flags == {"useencryption", "disablecertificateverification", "usesystemtruststore",
          "usewidechar", "useextendedflightsqlbuffer", "hidesqltableslisting", "sendpingframe"}
Understood(key, value) ==
    /\ key \in Flags => value \in {<<"true">>, <<"True">>, <<"false">>, <<"1">>, <<"0">>}
    /\ key \in DOMAIN LeastOf =>
          value # <<>> /\ value[1] \in DOMAIN NumberIn(value)
            /\ NumberIn(value)[value[1]] >= LeastOf[key]

OnlyUnderstoodCountsOn(properties, windows, resolved) ==
    LET kept == [k \in {k \in DOMAIN properties : Understood(k[1], properties[k])} |->
                    properties[k]]
        location == BuildLocation(properties, resolved)
    IN /\ [PopulateMetadataSettings(properties, windows) EXCEPT !.warnings = {}]
             = PopulateMetadataSettings(kept, windows)
       /\ Pings(properties) = Pings(kept)
       /\ Tls(properties, windows) = Tls(kept, windows)
       /\ Tls(LoadDsn(<<"s">>, <<"s">> :> properties), TRUE) = Tls(properties, TRUE)
       /\ DOMAIN Headers(properties) \cap {<<"uid">>, <<"pwd">>, <<"user">>, <<"password">>, <<"token">>}
             = {}
       /\ location[1] \in {"tcp", "tls"} =>
             (location[1] = "tcp" <=> Tls(properties, windows) = "plain")

(* The driver logs in with what was written: a user goes with the password of its
   own spelling, half a pair is completed by nothing and only used when no whole
   one is there, a token replaces no user with its password, and a property more
   never costs the login.  Except that a token does replace half a pair of the
   first two spellings, and that without credentials there is no login, both
   against docs/CONFIGURATION.md (LogsInAsDocumentedOn).
   (FlightSqlAuthMethod::FromProperties) *)
Spellings == {<<"user", "password">>, <<"user id", "password">>, <<"uid", "pwd">>}
LogsInAsWrittenOn(properties) ==
    LET method     == FromProperties(properties)
        text(k)    == IF <<k>> \in DOMAIN properties THEN properties[<<k>>] ELSE <<>>
        given(pair) == {k \in {pair[1], pair[2]} : <<k>> \in DOMAIN properties}
        whole      == {pair \in Spellings : Cardinality(given(pair)) = 2}
        without(k) == [x \in DOMAIN properties \ {k} |-> properties[x]]
    IN /\ method[1] = "external" <=> text("authtype") = <<"external">>
       /\ method[1] = "password" =>
             \E pair \in Spellings :
                /\ method = <<"password", text(pair[1]), text(pair[2])>>
                /\ given(pair) # {} /\ (whole # {} => pair \in whole)
       /\ method[1] = "token" => whole = {} /\ method[2] = text("token")
       /\ \A k \in DOMAIN properties :
             FromProperties(without(k))[1] # "refused" => method[1] # "refused"

(* The precedence of docs/CONFIGURATION.md:28-31: external, then a user or a
   password of any spelling, then a token, and a handshake without either. *)
LogsInAsDocumentedOn(properties) ==
    LET given(keys) == \E k \in keys : <<k>> \in DOMAIN properties
        documented  ==
            CASE given({"authtype"}) /\ properties[<<"authtype">>] = <<"external">> -> "external"
              [] given({"user", "user id", "uid", "password", "pwd"}) -> "password"
              [] given({"token"}) -> "token"
              [] OTHER -> "none"
    IN FromProperties(properties)[1] = documented
=============================================================================
