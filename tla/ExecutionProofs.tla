--------------------------- MODULE ExecutionProofs ---------------------------
(***************************************************************************)
(* Proofs about Execution, and about the attributes of Attributes, for any *)
(* number of statements, requests and settings.                            *)
(***************************************************************************)
EXTENDS Execution, TLAPS

(* The attributes that have a place of their own. *)
Kept == DOMAIN DescriptorField \cup SpiFree \cup {"ROWSET_SIZE"}

LEMMA KeptNames ==
  /\ DOMAIN DescriptorField =
       {"PARAM_BIND_OFFSET_PTR", "PARAM_BIND_TYPE", "PARAM_OPERATION_PTR", "PARAM_STATUS_PTR",
        "PARAMS_PROCESSED_PTR", "PARAMSET_SIZE", "ROW_ARRAY_SIZE", "ROW_BIND_OFFSET_PTR",
        "ROW_BIND_TYPE", "ROW_OPERATION_PTR", "ROW_STATUS_PTR", "ROWS_FETCHED_PTR"}
  /\ DOMAIN OnlyValue =
       {"CONCURRENCY", "CURSOR_SCROLLABLE", "CURSOR_SENSITIVITY", "CURSOR_TYPE",
        "ENABLE_AUTO_IPD", "FETCH_BOOKMARK_PTR", "KEYSET_SIZE", "SIMULATE_CURSOR",
        "USE_BOOKMARKS", "RETRIEVE_DATA"}
  /\ DOMAIN SpiOnlyValue = {"METADATA_ID", "NOSCAN", "MAX_LENGTH"}
  /\ DOMAIN Refused = {"IMP_PARAM_DESC", "IMP_ROW_DESC", "ASYNC_ENABLE", "ROW_NUMBER",
                       "MAX_ROWS", "unknown"}
  BY DEF DescriptorField, OnlyValue, SpiOnlyValue, Refused

(* The groups of attributes do not overlap. *)
LEMMA Groups ==
  /\ \A a \in Kept : /\ a \notin DOMAIN OnlyValue /\ a \notin DOMAIN SpiOnlyValue
                     /\ a \notin DOMAIN Refused
  /\ \A a \in DOMAIN OnlyValue : a \notin DOMAIN SpiOnlyValue /\ a \notin DOMAIN Refused
  /\ \A a \in DOMAIN SpiOnlyValue : a \notin DOMAIN Refused
  /\ StmtAttributes = Kept \cup DOMAIN OnlyValue \cup DOMAIN SpiOnlyValue \cup DOMAIN Refused
  /\ Kept \subseteq Readable
  BY KeptNames DEF Kept, SpiFree, StmtAttributes, SpiAttributes, Readable

(* Two attributes share a place only as twins. *)
LEMMA PlacesApart ==
  ASSUME NEW a \in Kept, NEW b \in Kept
  PROVE  Place(a) = Place(b) <=> a = b \/ {a, b} \in Twins
  BY KeptNames DEF Kept, SpiFree, Place, DescriptorField, Twins, m_currentApd, m_currentArd

(* Twins are kept attributes. *)
LEMMA TwinsKept == \A a, b : {a, b} \in Twins => a \in Kept /\ b \in Kept
  BY KeptNames DEF Kept, Twins

LEMMA KeptPlaces == \A a \in Kept : Place(a) \in Places
  BY DEF Kept, Places, SpiAttributes

(* The attributes with one of them put in its place. *)
Placed(attributes, a, v) == [attributes EXCEPT ![Place(a)] = v]

(* What SetStmtAttr and GetStmtAttr do to each kind of attribute. *)
LEMMA SetEach ==
  ASSUME NEW attributes, NEW a \in StmtAttributes, NEW v
  PROVE  /\ a \in DOMAIN Refused => SetStmtAttr(attributes, a, v) = Answer(Refused[a], attributes)
         /\ a \in DOMAIN OnlyValue => SetStmtAttr(attributes, a, v) =
               Answer(IF v = OnlyValue[a] THEN "SUCCESS" ELSE "HYC00", attributes)
         /\ a \in DOMAIN SpiOnlyValue => SetStmtAttr(attributes, a, v) =
               Answer(IF v = SpiOnlyValue[a] THEN "SUCCESS" ELSE "01S02", attributes)
         /\ a \in Kept => SetStmtAttr(attributes, a, v) =
               Answer("SUCCESS", Placed(attributes, a, v))
  BY Groups DEF SetStmtAttr, Placed

LEMMA GetEach ==
  ASSUME NEW attributes, NEW a \in Readable
  PROVE  /\ a \in {"ASYNC_ENABLE", "MAX_ROWS"} => GetStmtAttr(attributes, a) = 0
         /\ a \in DOMAIN OnlyValue => GetStmtAttr(attributes, a) = OnlyValue[a]
         /\ a \in DOMAIN SpiOnlyValue => GetStmtAttr(attributes, a) = SpiOnlyValue[a]
         /\ a \in Kept => GetStmtAttr(attributes, a) = attributes[Place(a)]
         /\ a \in {"ASYNC_ENABLE", "MAX_ROWS"} \cup DOMAIN OnlyValue
                  \cup DOMAIN SpiOnlyValue \cup Kept
  <1>1. {"ASYNC_ENABLE", "MAX_ROWS"} \subseteq DOMAIN Refused
    BY KeptNames
  <1>2. a \in {"ASYNC_ENABLE", "MAX_ROWS"} \cup DOMAIN OnlyValue
                  \cup DOMAIN SpiOnlyValue \cup Kept
    BY Groups, KeptNames DEF Readable
  <1> QED BY <1>1, <1>2, Groups DEF GetStmtAttr

LEMMA FixedValues ==
  /\ \A a \in DOMAIN OnlyValue : OnlyValue[a] \in Int
  /\ \A a \in DOMAIN SpiOnlyValue : SpiOnlyValue[a] \in Int
  /\ \A a \in DOMAIN Refused : Refused[a] # "SUCCESS"
  BY KeptNames DEF OnlyValue, SpiOnlyValue, Refused

(* One attribute under two names. *)
Same(a, b) == b = a \/ {a, b} \in Twins

(* Setting an attribute sets it and its twin and no other, and a refusal or a
   warning sets none. *)
LEMMA SetThenGet ==
  ASSUME NEW attributes \in [Places -> Int], NEW a \in StmtAttributes, NEW v \in Int
  PROVE  LET set == SetStmtAttr(attributes, a, v) IN
         /\ set.attributes \in [Places -> Int]
         /\ \A b \in Readable : GetStmtAttr(set.attributes, b) =
               IF set.rc = "SUCCESS" /\ Same(a, b) THEN v
               ELSE GetStmtAttr(attributes, b)
         /\ a \in Kept => set.rc = "SUCCESS"
  <1> DEFINE set == SetStmtAttr(attributes, a, v)
  <1>0. ASSUME NEW rc, NEW new, set = Answer(rc, new) PROVE set.rc = rc /\ set.attributes = new
    BY <1>0 DEF Answer
  <1>1. CASE a \in DOMAIN Refused
    <2>1. set = Answer(Refused[a], attributes)
      BY <1>1, SetEach
    <2>2. set.rc # "SUCCESS" /\ set.attributes = attributes
      BY <1>1, <2>1, <1>0, FixedValues
    <2> QED BY <1>1, <2>2, Groups
  <1>2. CASE a \in DOMAIN OnlyValue
    <2>1. set = Answer(IF v = OnlyValue[a] THEN "SUCCESS" ELSE "HYC00", attributes)
      BY <1>2, SetEach
    <2>2. set.attributes = attributes /\ (set.rc = "SUCCESS" => v = OnlyValue[a])
      BY <2>1, <1>0
    <2>3. a \notin Kept
      BY <1>2, Groups
    <2>4. a \in Readable => GetStmtAttr(attributes, a) = OnlyValue[a]
      BY <1>2, GetEach
    <2> QED BY <2>2, <2>3, <2>4, TwinsKept DEF Same
  <1>3. CASE a \in DOMAIN SpiOnlyValue
    <2>1. set = Answer(IF v = SpiOnlyValue[a] THEN "SUCCESS" ELSE "01S02", attributes)
      BY <1>3, SetEach
    <2>2. set.attributes = attributes /\ (set.rc = "SUCCESS" => v = SpiOnlyValue[a])
      BY <2>1, <1>0
    <2>3. a \notin Kept
      BY <1>3, Groups
    <2>4. a \in Readable => GetStmtAttr(attributes, a) = SpiOnlyValue[a]
      BY <1>3, GetEach
    <2> QED BY <2>2, <2>3, <2>4, TwinsKept DEF Same
  <1>4. CASE a \in Kept
    <2> DEFINE new == Placed(attributes, a, v)
    <2>1. set.rc = "SUCCESS" /\ set.attributes = new
      <3>1. set = Answer("SUCCESS", new)
        BY <1>4, SetEach
      <3> QED BY <3>1 DEF Answer
    <2>2. new \in [Places -> Int]
      BY DEF Placed
    <2>3. \A b \in Kept : new[Place(b)] = IF Place(b) = Place(a) THEN v ELSE attributes[Place(b)]
      BY <1>4, KeptPlaces DEF Placed
    <2>4. ASSUME NEW b \in Readable
          PROVE  GetStmtAttr(new, b) = IF Same(a, b) THEN v
                                       ELSE GetStmtAttr(attributes, b)
      <3>1. CASE b \in Kept
        <4>1. GetStmtAttr(new, b) = new[Place(b)]
              /\ GetStmtAttr(attributes, b) = attributes[Place(b)]
          BY <3>1, <2>4, GetEach
        <4>2. Place(b) = Place(a) <=> Same(a, b)
          BY <3>1, <1>4, PlacesApart DEF Same
        <4> QED BY <3>1, <4>1, <4>2, <2>3
      <3>2. CASE b \notin Kept
        <4>1. GetStmtAttr(new, b) = GetStmtAttr(attributes, b)
          BY <3>2, <2>4, GetEach
        <4>2. ~Same(a, b)
          BY <3>2, <1>4, TwinsKept DEF Same
        <4> QED BY <4>1, <4>2
      <3> QED BY <3>1, <3>2
    <2> QED BY <2>1, <2>2, <2>4
  <1> QED BY <1>1, <1>2, <1>3, <1>4, Groups

(* A new statement has the defaults, and what it takes from its connection are
   the attributes passed on and their twins. *)
LEMMA NewTypes == NewAttributes \in [Places -> Int]
  BY DEF NewAttributes

LEMMA Copied ==
  ASSUME NEW tracked \in [Places -> Int]
  PROVE  /\ CopyAttributesFromConnection(tracked) \in [Places -> Int]
         /\ \A a \in Readable :
               GetStmtAttr(CopyAttributesFromConnection(tracked), a) =
                  IF a \in PassedOn \/ \E b \in PassedOn : {a, b} \in Twins
                  THEN GetStmtAttr(tracked, a) ELSE Defaults[a]
  <1> DEFINE new == CopyAttributesFromConnection(tracked)
             qt == Place("QUERY_TIMEOUT")
             rb == Place("ROW_BIND_TYPE")
  <1>1. {"QUERY_TIMEOUT", "ROW_BIND_TYPE"} \subseteq Kept
    BY KeptNames DEF Kept, SpiFree
  <1>2. qt \in Places /\ rb \in Places
    BY <1>1, KeptPlaces
  <1>3. new = [NewAttributes EXCEPT ![qt] = tracked[qt], ![rb] = tracked[rb]]
    BY DEF CopyAttributesFromConnection
  <1>4. new \in [Places -> Int]
        /\ \A p \in Places : new[p] = IF p \in {qt, rb} THEN tracked[p] ELSE NewAttributes[p]
    <2> HIDE DEF qt, rb, new
    <2> QED BY <1>2, <1>3, NewTypes
  <1>5. ASSUME NEW a \in Readable
        PROVE  GetStmtAttr(new, a) =
                 IF a \in PassedOn \/ \E b \in PassedOn : {a, b} \in Twins
                 THEN GetStmtAttr(tracked, a) ELSE Defaults[a]
    <2>0. Defaults[a] = GetStmtAttr(NewAttributes, a)
      BY <1>5 DEF Defaults
    <2>1. CASE a \in Kept
      <3>1. /\ GetStmtAttr(new, a) = new[Place(a)]
            /\ GetStmtAttr(tracked, a) = tracked[Place(a)]
            /\ GetStmtAttr(NewAttributes, a) = NewAttributes[Place(a)]
        BY <1>5, <2>1, GetEach
      <3>2. (a \in PassedOn \/ \E b \in PassedOn : {a, b} \in Twins)
            <=> a \in {"QUERY_TIMEOUT", "ROW_BIND_TYPE", "PARAM_BIND_TYPE"}
        BY ZenonT(30), <2>1, KeptNames DEF Kept, SpiFree, PassedOn, Twins
      <3>3. Place(a) \in {qt, rb} <=> a \in {"QUERY_TIMEOUT", "ROW_BIND_TYPE", "PARAM_BIND_TYPE"}
        <4>1. Place(a) = qt <=> a = "QUERY_TIMEOUT" \/ {a, "QUERY_TIMEOUT"} \in Twins
          BY <2>1, <1>1, PlacesApart
        <4>2. Place(a) = rb <=> a = "ROW_BIND_TYPE" \/ {a, "ROW_BIND_TYPE"} \in Twins
          BY <2>1, <1>1, PlacesApart
        <4>3. {a, "QUERY_TIMEOUT"} \notin Twins
              /\ ({a, "ROW_BIND_TYPE"} \in Twins <=> a = "PARAM_BIND_TYPE")
          BY DEF Twins
        <4> QED BY <4>1, <4>2, <4>3
      <3>4. Place(a) \in Places
        BY <2>1, KeptPlaces
      <3> HIDE DEF qt, rb, new
      <3> QED BY <2>0, <3>1, <3>2, <3>3, <3>4, <1>4
    <2>2. CASE a \notin Kept
      <3>1. /\ GetStmtAttr(new, a) = GetStmtAttr(tracked, a)
            /\ GetStmtAttr(new, a) = GetStmtAttr(NewAttributes, a)
        BY <1>5, <2>2, GetEach
      <3> QED BY <2>0, <3>1
    <2> QED BY <2>1, <2>2
  <1> QED BY <1>4, <1>5

-----------------------------------------------------------------------------
(* The changes calls make to a statement, and what they leave of it. *)
SameSettings(new, st) ==
    new \in FlightSqlStatements /\ new.attributes = st.attributes /\ new.timeout = st.timeout
SameResult(new, st) ==
    /\ new.flight_info_ = st.flight_info_ /\ new.update_count_ = st.update_count_
    /\ new.current_result_set_ = st.current_result_set_

LEMMA Closing ==
  ASSUME NEW st \in FlightSqlStatements
  PROVE  /\ SameSettings([st EXCEPT !.prepared_statement_ = None], st)
         /\ SameResult([st EXCEPT !.prepared_statement_ = None], st)
         /\ [st EXCEPT !.prepared_statement_ = None].prepared_statement_ = None
         /\ SameSettings([st EXCEPT !.m_currenResult = FALSE], st)
         /\ SameResult([st EXCEPT !.m_currenResult = FALSE], st)
         /\ [st EXCEPT !.m_currenResult = FALSE].prepared_statement_ = st.prepared_statement_
         /\ SameSettings([st EXCEPT !.isPrepared = FALSE], st)
         /\ SameResult([st EXCEPT !.isPrepared = FALSE], st)
         /\ [st EXCEPT !.isPrepared = FALSE].prepared_statement_ = st.prepared_statement_
  BY DEF SameSettings, SameResult, FlightSqlStatements, None

LEMMA Changing ==
  ASSUME NEW st \in FlightSqlStatements, NEW n \in Nat
  PROVE  /\ SameSettings(Answered(st, n), st)
         /\ Answered(st, n).prepared_statement_ = st.prepared_statement_
         /\ SameSettings(Executed(st, n), st)
         /\ Executed(st, n).prepared_statement_ = st.prepared_statement_
         /\ Executed(st, n).flight_info_ = n /\ Executed(st, n).update_count_ = n
         /\ Executed(st, n).current_result_set_ = n
         /\ SameSettings([st EXCEPT !.current_result_set_ = Catalog,
                             !.m_currenResult = TRUE, !.isPrepared = FALSE], st)
         /\ [st EXCEPT !.current_result_set_ = Catalog,
                !.m_currenResult = TRUE, !.isPrepared = FALSE].prepared_statement_
              = st.prepared_statement_
         /\ [st EXCEPT !.current_result_set_ = Catalog,
                !.m_currenResult = TRUE, !.isPrepared = FALSE].current_result_set_ = Catalog
  BY DEF SameSettings, FlightSqlStatements, Answered, Executed, Catalog

-----------------------------------------------------------------------------
(* A query the cursor of a statement shows is the one it was last answered. *)
ResultOfCursor ==
    \A s \in Stmts :
       cursor[s] # "none" /\ stmt[s].current_result_set_ \in Ids =>
          /\ stmt[s].flight_info_ = stmt[s].current_result_set_
          /\ stmt[s].update_count_ = stmt[s].current_result_set_

(* What the calls of a statement have in common: they leave its settings and
   everything of the other statements, a cursor they leave shows the query the
   statement was last answered, and a prepared statement they open is held or
   lost. *)
Acts(s, new, what) ==
    /\ s \in live
    /\ stmt' = [stmt EXCEPT ![s] = new] /\ SameSettings(new, stmt[s])
    /\ cursor' = [cursor EXCEPT ![s] = what] /\ what \in {"none", "count", "open"}
    /\ what # "none" /\ new.current_result_set_ \in Ids =>
          /\ new.flight_info_ = new.current_result_set_
          /\ new.update_count_ = new.current_result_set_
    /\ open' \subseteq (open \ Held(s)) \cup {new.prepared_statement_} \cup lost'
    /\ open' \subseteq Nat \ {None}
    /\ lost \subseteq lost' /\ lost' \subseteq Nat \ {None}
    /\ requests' \in Nat
    /\ Unmoved

LEMMA Answers ==
  ASSUME TypeOK, NEW s \in Stmts
  PROVE  /\ stmt[s] \in FlightSqlStatements /\ stmt = [stmt EXCEPT ![s] = stmt[s]]
         /\ cursor[s] \in {"none", "count", "open"} /\ cursor = [cursor EXCEPT ![s] = cursor[s]]
         /\ requests \in Nat
         /\ open \subseteq (open \ Held(s)) \cup {stmt[s].prepared_statement_} \cup lost
         /\ open \subseteq Nat \ {None} /\ lost \subseteq Nat \ {None} /\ Held(s) \subseteq Nat \ {None}
         /\ ClosePreparedStatementIfAny(s) \in FlightSqlStatements
         /\ SameSettings(ClosePreparedStatementIfAny(s), stmt[s])
         /\ SameResult(ClosePreparedStatementIfAny(s), stmt[s])
         /\ ClosePreparedStatementIfAny(s).prepared_statement_ = None
  <1>1. stmt[s] \in FlightSqlStatements /\ stmt = [stmt EXCEPT ![s] = stmt[s]]
    BY DEF TypeOK, StmtTypes
  <1>2. cursor[s] \in {"none", "count", "open"} /\ cursor = [cursor EXCEPT ![s] = cursor[s]]
    BY DEF TypeOK, StmtTypes
  <1>3. requests \in Nat
    BY DEF TypeOK, ServerTypes
  <1>4. open \subseteq (open \ Held(s)) \cup {stmt[s].prepared_statement_} \cup lost
    BY DEF Held
  <1>5. open \subseteq Nat \ {None} /\ lost \subseteq Nat \ {None} /\ Held(s) \subseteq Nat \ {None}
    BY <1>1 DEF TypeOK, ServerTypes, Held, FlightSqlStatements
  <1> QED BY <1>1, <1>2, <1>3, <1>4, <1>5, Closing DEF ClosePreparedStatementIfAny, SameSettings

LEMMA Acting ==
  ASSUME TypeOK, NEW s \in Stmts, ResultOfCursor,
         \/ CloseFails(s) \/ RequestFails(s)
         \/ PrepareUnanswered(s) \/ Prepare(s) \/ ExecuteDirect(s) \/ ExecutePrepared(s)
         \/ ResultSetFails(s) \/ CatalogFunction(s) \/ CatalogFails(s)
         \/ CloseCursor(s) \/ MoreResults(s) \/ Cancel(s) \/ GetUpdateCount(s)
  PROVE  \E new \in FlightSqlStatements, what \in {"none", "count", "open"} : Acts(s, new, what)
  <1> DEFINE closed == ClosePreparedStatementIfAny(s)
             G == \E new \in FlightSqlStatements, what \in {"none", "count", "open"} :
                     Acts(s, new, what)
  <1>a. /\ stmt[s] \in FlightSqlStatements /\ stmt = [stmt EXCEPT ![s] = stmt[s]]
        /\ cursor[s] \in {"none", "count", "open"} /\ cursor = [cursor EXCEPT ![s] = cursor[s]]
        /\ requests \in Nat /\ requests + 1 \in Nat
        /\ open \subseteq (open \ Held(s)) \cup {stmt[s].prepared_statement_} \cup lost
        /\ open \subseteq Nat \ {None} /\ lost \subseteq Nat \ {None} /\ Held(s) \subseteq Nat \ {None}
    BY Answers
  <1>b. /\ closed \in FlightSqlStatements /\ SameSettings(closed, stmt[s])
        /\ SameResult(closed, stmt[s]) /\ closed.prepared_statement_ = None
    BY Answers
  <1>c. SameSettings(stmt[s], stmt[s]) /\ SameResult(stmt[s], stmt[s])
    BY <1>a DEF SameSettings, SameResult
  <1>d. \A x, y : SameSettings(x, y) /\ SameSettings(y, stmt[s]) => SameSettings(x, stmt[s])
    BY DEF SameSettings
  <1>e. \A x, y : SameSettings(x, y) => x \in FlightSqlStatements
    BY DEF SameSettings
  <1>n. Numbered => requests' = requests + 1
    BY DEF Numbered
  <1>k. Catalog \notin Ids
    BY ExecutionAssumption DEF Catalog, Ids
  <1> HIDE DEF closed
  <1>1. CASE CloseFails(s)
    <2>1. Acts(s, stmt[s], "none")
      BY <1>1, <1>a, <1>c DEF Acts, CloseFails, MayRequest, Sees
    <2> QED BY <2>1, <1>a
  <1>2. CASE RequestFails(s)
    <2>1. requests' \in Nat /\ lost' = lost /\ Sees(s, "none") /\ Unmoved
      BY <1>2, <1>a DEF RequestFails
    <2>2. CASE /\ MayRequest(s) /\ stmt' = [stmt EXCEPT ![s] = closed]
               /\ open' = open \ Held(s)
      <3>1. Acts(s, closed, "none")
        BY <2>1, <2>2, <1>a, <1>b DEF Acts, MayRequest, Sees
      <3> QED BY <3>1, <1>b
    <2>3. CASE MayExecutePrepared(s) /\ UNCHANGED <<stmt, open>>
      <3>1. Acts(s, stmt[s], "none")
        BY <2>1, <2>3, <1>a, <1>c DEF Acts, MayExecutePrepared, MayRequest, Sees
      <3> QED BY <3>1, <1>a
    <2> QED BY <1>2, <2>2, <2>3 DEF RequestFails, closed
  <1>3. CASE Prepare(s)
    <2> DEFINE new == [stmt[s] EXCEPT !.prepared_statement_ = requests', !.isPrepared = TRUE]
    <2>1. requests' \in Nat
      BY <1>3, <1>a, <1>n DEF Prepare
    <2>2. SameSettings(new, stmt[s]) /\ new.prepared_statement_ = requests'
      BY <2>1, <1>a DEF SameSettings, FlightSqlStatements
    <2>3. stmt' = [stmt EXCEPT ![s] = new]
      BY <1>3, <1>a DEF Prepare
    <2>4. requests' # None
      BY <1>3, <1>a, <1>n DEF Prepare, None
    <2> HIDE DEF new
    <2>5. Acts(s, new, "none")
      BY <1>3, <2>1, <2>2, <2>3, <2>4, <1>a DEF Acts, Prepare, MayRequest, Sees
    <2> QED BY <2>2, <2>5, <1>e
  <1>4. CASE ExecuteDirect(s)
    <2> DEFINE run == Executed(closed, requests')
               new == [run EXCEPT !.isPrepared = FALSE]
    <2>1. requests' \in Nat
      BY <1>4, <1>a, <1>n DEF ExecuteDirect
    <2>2. /\ SameSettings(run, closed) /\ run.prepared_statement_ = None
          /\ run.flight_info_ = requests' /\ run.update_count_ = requests'
          /\ run.current_result_set_ = requests'
      BY <2>1, <1>b, Changing
    <2>3. SameSettings(new, run) /\ SameResult(new, run) /\ new.prepared_statement_ = None
      BY <2>2, <1>e, Closing
    <2>4. stmt' = [stmt EXCEPT ![s] = new]
      BY <1>4 DEF ExecuteDirect, closed
    <2> HIDE DEF new, run
    <2>5. SameSettings(new, stmt[s])
      BY <2>2, <2>3, <1>b, <1>d
    <2>6. PICK what \in {"count", "open"} : cursor' = [cursor EXCEPT ![s] = what]
      BY <1>4 DEF ExecuteDirect, Executes, Sees
    <2>7. Acts(s, new, what)
      BY <1>4, <2>1, <2>2, <2>3, <2>4, <2>5, <2>6, <1>a
      DEF Acts, ExecuteDirect, MayRequest, SameResult
    <2> QED BY <2>3, <2>7, <1>e
  <1>5. CASE ExecutePrepared(s)
    <2> DEFINE new == Executed(stmt[s], requests')
    <2>1. requests' \in Nat
      BY <1>5, <1>a, <1>n DEF ExecutePrepared
    <2>2. /\ SameSettings(new, stmt[s]) /\ new.prepared_statement_ = stmt[s].prepared_statement_
          /\ new.flight_info_ = requests' /\ new.update_count_ = requests'
          /\ new.current_result_set_ = requests'
      BY <2>1, <1>a, Changing
    <2>3. stmt' = [stmt EXCEPT ![s] = new]
      BY <1>5, <1>a DEF ExecutePrepared
    <2> HIDE DEF new
    <2>4. PICK what \in {"count", "open"} : cursor' = [cursor EXCEPT ![s] = what]
      BY <1>5 DEF ExecutePrepared, Executes, Sees
    <2>5. Acts(s, new, what)
      BY <1>5, <2>1, <2>2, <2>3, <2>4, <1>a
      DEF Acts, ExecutePrepared, MayExecutePrepared, MayRequest, serverVars
    <2> QED BY <2>2, <2>5, <1>e
  <1>6. CASE ResultSetFails(s)
    <2>1. requests' \in Nat /\ Sees(s, "none") /\ Unmoved
      BY <1>6, <1>a, <1>n DEF ResultSetFails
    <2>2. CASE /\ MayRequest(s)
               /\ stmt' = [stmt EXCEPT ![s] = Answered(closed, requests')]
               /\ open' = open \ Held(s) /\ UNCHANGED lost
      <3> DEFINE new == Answered(closed, requests')
      <3>1. SameSettings(new, closed) /\ new.prepared_statement_ = None
        BY <2>1, <1>b, Changing
      <3> HIDE DEF new
      <3>2. SameSettings(new, stmt[s]) /\ stmt' = [stmt EXCEPT ![s] = new]
        BY <3>1, <2>2, <1>b, <1>d DEF new
      <3>3. Acts(s, new, "none")
        BY <3>1, <3>2, <2>1, <2>2, <1>a DEF Acts, MayRequest, Sees
      <3> QED BY <3>2, <3>3, <1>e
    <2>3. CASE /\ MayExecutePrepared(s)
               /\ stmt' = [stmt EXCEPT ![s] = Answered(@, requests')]
               /\ UNCHANGED serverVars
      <3> DEFINE new == Answered(stmt[s], requests')
      <3>1. SameSettings(new, stmt[s]) /\ new.prepared_statement_ = stmt[s].prepared_statement_
        BY <2>1, <1>a, Changing
      <3>2. stmt' = [stmt EXCEPT ![s] = new]
        BY <2>3, <1>a
      <3> HIDE DEF new
      <3>3. Acts(s, new, "none")
        BY <3>1, <3>2, <2>1, <2>3, <1>a DEF Acts, MayExecutePrepared, MayRequest, Sees, serverVars
      <3> QED BY <3>1, <3>3, <1>e
    <2> QED BY <1>6, <2>2, <2>3 DEF ResultSetFails, closed
  <1>7. CASE CatalogFunction(s)
    <2> DEFINE new == [closed EXCEPT !.current_result_set_ = Catalog,
                          !.m_currenResult = TRUE, !.isPrepared = FALSE]
    <2>1. /\ SameSettings(new, closed) /\ new.prepared_statement_ = None
          /\ new.current_result_set_ = Catalog
      BY <1>a, <1>b, Changing
    <2>2. stmt' = [stmt EXCEPT ![s] = new]
      BY <1>7 DEF CatalogFunction, closed
    <2> HIDE DEF new
    <2>3. SameSettings(new, stmt[s])
      BY <2>1, <1>b, <1>d
    <2>4. Acts(s, new, "open")
      BY <1>7, <2>1, <2>2, <2>3, <1>a, <1>k DEF Acts, CatalogFunction, MayRequest, Sees
    <2> QED BY <2>3, <2>4, <1>e
  <1>8. CASE CatalogFails(s)
    <2>1. requests' \in Nat /\ Sees(s, "none") /\ Unmoved /\ s \in live
      BY <1>8, <1>a DEF CatalogFails, MayRequest
    <2>2. CASE /\ stmt' = [stmt EXCEPT ![s] = [closed EXCEPT !.m_currenResult = FALSE]]
               /\ open' = open \ Held(s) /\ UNCHANGED lost
      <3> DEFINE new == [closed EXCEPT !.m_currenResult = FALSE]
      <3>1. SameSettings(new, closed) /\ new.prepared_statement_ = None
        BY <1>b, Closing
      <3> HIDE DEF new
      <3>2. SameSettings(new, stmt[s]) /\ stmt' = [stmt EXCEPT ![s] = new]
        BY <3>1, <2>2, <1>b, <1>d DEF new
      <3>3. Acts(s, new, "none")
        BY <3>1, <3>2, <2>1, <2>2, <1>a DEF Acts, Sees
      <3> QED BY <3>2, <3>3, <1>e
    <2>3. CASE /\ stmt' = [stmt EXCEPT ![s].m_currenResult = FALSE]
               /\ lost' = lost \cup Held(s) /\ UNCHANGED open
      <3> DEFINE new == [stmt[s] EXCEPT !.m_currenResult = FALSE]
      <3>1. SameSettings(new, stmt[s]) /\ new.prepared_statement_ = stmt[s].prepared_statement_
        BY <1>a, Closing
      <3>2. stmt' = [stmt EXCEPT ![s] = new]
        BY <2>3, <1>a
      <3> HIDE DEF new
      <3>3. Acts(s, new, "none")
        BY <3>1, <3>2, <2>1, <2>3, <1>a DEF Acts, Sees
      <3> QED BY <3>1, <3>3, <1>e
    <2> QED BY <1>8, <2>2, <2>3 DEF CatalogFails, closed
  <1>9. CASE CloseCursor(s)
    <2> DEFINE new == [stmt[s] EXCEPT !.m_currenResult = FALSE]
    <2>1. SameSettings(new, stmt[s]) /\ new.prepared_statement_ = stmt[s].prepared_statement_
      BY <1>a, Closing
    <2>2. stmt' = [stmt EXCEPT ![s] = new]
      BY <1>9, <1>a DEF CloseCursor
    <2> HIDE DEF new
    <2>3. Acts(s, new, "none")
      BY <1>9, <2>1, <2>2, <1>a DEF Acts, CloseCursor, Sees, serverVars
    <2> QED BY <2>1, <2>3, <1>e
  <1>10. CASE MoreResults(s)
    <2>1. Acts(s, stmt[s], "none")
      BY <1>10, <1>a, <1>c DEF Acts, MoreResults, Sees, serverVars
    <2> QED BY <2>1, <1>a
  <1>11. CASE Cancel(s) \/ GetUpdateCount(s)
    <2>1. Acts(s, stmt[s], cursor[s])
      BY <1>11, <1>a, <1>c DEF Acts, Cancel, GetUpdateCount, serverVars, ResultOfCursor
    <2> QED BY <2>1, <1>a
  <1>12. CASE PrepareUnanswered(s)
    <2>1. requests' \in Nat \ {None}
      BY <1>12, <1>a, <1>n DEF PrepareUnanswered, None
    <2>2. Acts(s, closed, "none")
      BY <1>12, <2>1, <1>a, <1>b DEF Acts, PrepareUnanswered, MayRequest, Sees, closed
    <2> QED BY <2>2, <1>b
  <1> QED BY <1>1, <1>2, <1>3, <1>4, <1>5, <1>6, <1>7, <1>8, <1>9, <1>10, <1>11, <1>12

-----------------------------------------------------------------------------
(* The other calls: the effect of each on a statement. *)
LEMMA Setting ==
  ASSUME TypeOK, NEW s \in Stmts, NEW a \in StmtAttributes, NEW v \in Values, StmtSet(s, a, v)
  PROVE  \E new \in FlightSqlStatements :
           /\ stmt' = [stmt EXCEPT ![s] = new]
           /\ new.attributes = SetStmtAttr(stmt[s].attributes, a, v).attributes
           /\ new.timeout = IF a = "QUERY_TIMEOUT" THEN Timeout(v) ELSE stmt[s].timeout
           /\ SameResult(new, stmt[s])
           /\ new.prepared_statement_ = stmt[s].prepared_statement_
  <1> DEFINE set == SetStmtAttr(stmt[s].attributes, a, v)
             after == set.attributes
             time == IF a = "QUERY_TIMEOUT" THEN Timeout(v) ELSE stmt[s].timeout
             new == [stmt[s] EXCEPT !.attributes = after, !.timeout = time]
  <1>1. stmt[s] \in FlightSqlStatements /\ stmt[s].attributes \in [Places -> Int]
        /\ stmt[s].timeout \in Int
    BY DEF TypeOK, StmtTypes, FlightSqlStatements
  <1>2. after \in [Places -> Int]
    BY <1>1, SetThenGet, ExecutionAssumption
  <1>3. time \in Int
    BY <1>1, ExecutionAssumption DEF Timeout, NoTimeout
  <1>4. stmt' = [stmt EXCEPT ![s] = new]
    BY DEF StmtSet, TypeOK, StmtTypes, FlightSqlStatements
  <1> HIDE DEF after, time
  <1>5. new \in FlightSqlStatements
    BY <1>1, <1>2, <1>3 DEF FlightSqlStatements
  <1>6. new.attributes = after /\ new.timeout = time /\ SameResult(new, stmt[s])
        /\ new.prepared_statement_ = stmt[s].prepared_statement_
    BY <1>1 DEF FlightSqlStatements, SameResult
  <1> HIDE DEF new
  <1> QED BY <1>4, <1>5, <1>6 DEF after, time

LEMMA Allocating ==
  ASSUME TypeOK, NEW s \in Stmts, AllocStmt(s)
  PROVE  \E new \in FlightSqlStatements :
           /\ stmt' = [stmt EXCEPT ![s] = new]
           /\ new.attributes = CopyAttributesFromConnection(tracking)
           /\ new.timeout = Timeout(GetStmtAttr(new.attributes, "QUERY_TIMEOUT"))
           /\ new.prepared_statement_ = None
  <1> DEFINE copy == CopyAttributesFromConnection(tracking)
             new == NewStmt(copy)
             time == Timeout(copy[Place("QUERY_TIMEOUT")])
  <1>1. copy \in [Places -> Int]
    BY Copied DEF TypeOK, ConnTypes
  <1>2. "QUERY_TIMEOUT" \in Kept /\ "QUERY_TIMEOUT" \in Readable
    BY Groups DEF Kept, SpiFree
  <1>3. GetStmtAttr(copy, "QUERY_TIMEOUT") = copy[Place("QUERY_TIMEOUT")]
    BY <1>2, GetEach
  <1>4. time \in Int
    BY <1>1, <1>2, KeptPlaces DEF Timeout, NoTimeout
  <1>5. stmt' = [stmt EXCEPT ![s] = new]
    BY DEF AllocStmt
  <1>6. /\ new.attributes = copy /\ new.timeout = time /\ new.prepared_statement_ = None
        /\ new \in FlightSqlStatements
    <2> HIDE DEF copy, time
    <2>1. new = [attributes |-> copy, timeout |-> time,
                 prepared_statement_ |-> None, isPrepared |-> FALSE, flight_info_ |-> None,
                 update_count_ |-> None, current_result_set_ |-> None, m_currenResult |-> FALSE]
      BY DEF NewStmt, time
    <2> HIDE DEF new
    <2> QED BY <2>1, <1>1, <1>4 DEF FlightSqlStatements, None
  <1> HIDE DEF new
  <1> QED BY <1>3, <1>5, <1>6

LEMMA Destroying ==
  ASSUME TypeOK, NEW S \in SUBSET live, Destroyed(S)
  PROVE  /\ open' \subseteq open /\ lost \subseteq lost' /\ lost' \subseteq Nat \ {None}
         /\ \A s \in S : stmt[s].prepared_statement_ \in open' => stmt[s].prepared_statement_ \in lost'
  <1> DEFINE held == {stmt[s].prepared_statement_ : s \in S} \ {None}
  <1>1. PICK failed \in SUBSET held :
          open' = open \ (held \ failed) /\ lost' = lost \cup failed
    BY DEF Destroyed
  <1>2. held \subseteq Nat \ {None}
    BY DEF TypeOK, StmtTypes, FlightSqlStatements
  <1>3. None \notin open /\ open \subseteq Nat /\ lost \subseteq Nat \ {None}
    BY DEF TypeOK, ServerTypes
  <1> QED BY <1>1, <1>2, <1>3

(* A connection attribute stays a number. *)
LEMMA ConnSetting ==
  ASSUME TypeOK, NEW a \in ConnAttributes, NEW v \in Values, ConnSet(a, v)
  PROVE  connAttributes' \in [ConnFree -> Int]
  <1>1. connAttributes \in [ConnFree -> Int] /\ v \in Int
    BY ExecutionAssumption DEF TypeOK, ConnTypes
  <1>2. [connAttributes EXCEPT ![a] = v] \in [ConnFree -> Int]
    BY <1>1
  <1>3. SetConnectAttr(connAttributes, a, v).attributes
           \in {connAttributes, [connAttributes EXCEPT ![a] = v]}
    BY DEF SetConnectAttr, Answer, ConnAttributes
  <1> QED BY <1>1, <1>2, <1>3 DEF ConnSet

-----------------------------------------------------------------------------
(* Each step is a call of the connection, of one of its statements, or none. *)
ActsOne(s) == \E new \in FlightSqlStatements, what \in {"none", "count", "open"} :
                 Acts(s, new, what)

LEMMA Steps ==
  ASSUME TypeOK, ResultOfCursor, [Next]_vars
  PROVE  \/ Connect \/ Disconnect
         \/ \E a \in ConnAttributes, v \in Values : ConnSet(a, v)
         \/ \E a \in PassedOn, v \in Values : ConnSetPassedOn(a, v)
         \/ \E s \in Stmts : AllocStmt(s) \/ FreeStmt(s) \/ ActsOne(s)
         \/ \E s \in Stmts, a \in StmtAttributes, v \in Values : StmtSet(s, a, v)
         \/ UNCHANGED vars
  BY Acting DEF Next, ActsOne

LEMMA PassedOnAreStmt == PassedOn \subseteq StmtAttributes
  BY Groups, KeptNames DEF PassedOn, Kept, SpiFree

LEMMA DefaultTypes == Defaults \in [Readable -> Int]
  <1>1. \A a \in Readable : GetStmtAttr(NewAttributes, a) \in Int
    <2> SUFFICES ASSUME NEW a \in Readable PROVE GetStmtAttr(NewAttributes, a) \in Int
      OBVIOUS
    <2>1. a \in Kept => NewAttributes[Place(a)] \in Int
      BY NewTypes, KeptPlaces
    <2> QED BY <2>1, GetEach, FixedValues
  <1> QED BY <1>1 DEF Defaults

LEMMA AskedType ==
  ASSUME NEW f \in [Readable -> Int], NEW a, NEW v \in Int
  PROVE  /\ Asked(f, a, v) \in [Readable -> Int]
         /\ \A b \in Readable : Asked(f, a, v)[b] = IF Same(a, b) THEN v ELSE f[b]
  BY DEF Asked, Same

LEMMA TypeInit == Init => TypeOK
  <1> SUFFICES ASSUME Init PROVE TypeOK
    OBVIOUS
  <1>1. NewAttributes[Place("QUERY_TIMEOUT")] \in Int
    BY NewTypes, KeptPlaces, KeptNames DEF Kept, SpiFree
  <1>2. ConnTypes
    <2>1. connected \in BOOLEAN /\ connects \in Nat
      BY DEF Init
    <2>2. connAttributes \in [ConnFree -> Int] /\ connTimeout \in Int
      BY DEF Init, NoTimeout
    <2>3. tracking \in [Places -> Int]
      BY NewTypes DEF Init
    <2> QED BY <2>1, <2>2, <2>3 DEF ConnTypes
  <1>3. NewStmt(NewAttributes) \in FlightSqlStatements
    <2>1. Timeout(NewAttributes[Place("QUERY_TIMEOUT")]) \in Int
      BY <1>1 DEF Timeout, NoTimeout
    <2> QED BY <2>1, NewTypes DEF NewStmt, FlightSqlStatements, None
  <1>4. StmtTypes
    BY <1>3 DEF Init, StmtTypes
  <1>5. AskedTypes
    BY DefaultTypes DEF Init, AskedTypes
  <1>6. ServerTypes
    BY DEF Init, ServerTypes
  <1> QED BY <1>2, <1>4, <1>5, <1>6 DEF TypeOK

LEMMA TypeStep == TypeOK /\ ResultOfCursor /\ [Next]_vars => TypeOK'
  <1> SUFFICES ASSUME TypeOK, ResultOfCursor, [Next]_vars PROVE TypeOK'
    OBVIOUS
  <1>1. CASE Connect
    <2>1. ConnTypes'
      BY <1>1, NewTypes DEF Connect, TypeOK, ConnTypes, ConnFree
    <2>2. StmtTypes' /\ ServerTypes'
      BY <1>1 DEF Connect, TypeOK, StmtTypes, ServerTypes, serverVars
    <2>3. AskedTypes'
      BY <1>1, DefaultTypes DEF Connect, TypeOK, AskedTypes
    <2> QED BY <2>1, <2>2, <2>3 DEF TypeOK
  <1>2. CASE Disconnect
    <2>1. open' \subseteq open /\ lost' \subseteq Nat \ {None}
      BY <1>2, Destroying DEF Disconnect
    <2> QED BY <1>2, <2>1
        DEF Disconnect, TypeOK, ConnTypes, StmtTypes, ServerTypes, AskedTypes, askedVars
  <1>3. ASSUME NEW a \in ConnAttributes, NEW v \in Values, ConnSet(a, v) PROVE TypeOK'
    <2>1. connAttributes' \in [ConnFree -> Int]
      BY <1>3, ConnSetting
    <2>2. sets' \in Nat
      BY <1>3 DEF ConnSet, SetsOne, TypeOK, ServerTypes
    <2> QED BY <1>3, <2>1, <2>2
        DEF ConnSet, TypeOK, ConnTypes, StmtTypes, ServerTypes, AskedTypes, askedVars, serverVars
  <1>4. ASSUME NEW a \in PassedOn, NEW v \in Values, ConnSetPassedOn(a, v) PROVE TypeOK'
    <2>1. tracking' \in [Places -> Int]
      BY <1>4, SetThenGet, PassedOnAreStmt, ExecutionAssumption
      DEF ConnSetPassedOn, TypeOK, ConnTypes
    <2>2. sets' \in Nat
      BY <1>4 DEF ConnSetPassedOn, SetsOne, TypeOK, ServerTypes
    <2>3. askedConn' \in [Readable -> Int]
      BY <1>4, AskedType, ExecutionAssumption DEF ConnSetPassedOn, TypeOK, AskedTypes
    <2> QED BY <1>4, <2>1, <2>2, <2>3
        DEF ConnSetPassedOn, TypeOK, ConnTypes, StmtTypes, ServerTypes, AskedTypes, serverVars
  <1>5. ASSUME NEW s \in Stmts, AllocStmt(s) PROVE TypeOK'
    <2>1. stmt' \in [Stmts -> FlightSqlStatements]
      BY <1>5, Allocating DEF TypeOK, StmtTypes
    <2>2. asked' \in [Stmts -> [Readable -> Int]]
      <3> DEFINE new == [a \in Readable |->
                 IF a \in PassedOn \/ \E b \in PassedOn : {a, b} \in Twins THEN askedConn[a]
                 ELSE Defaults[a]]
      <3>1. new \in [Readable -> Int]
        BY DefaultTypes DEF TypeOK, AskedTypes
      <3>2. asked' = [asked EXCEPT ![s] = new]
        BY <1>5 DEF AllocStmt, Inherits
      <3> HIDE DEF new
      <3> QED BY <3>1, <3>2 DEF TypeOK, AskedTypes
    <2> QED BY <1>5, <2>1, <2>2
        DEF AllocStmt, TypeOK, ConnTypes, StmtTypes, ServerTypes, AskedTypes, connVars, serverVars
  <1>6. ASSUME NEW s \in Stmts, FreeStmt(s) PROVE TypeOK'
    <2>1. open' \subseteq open /\ lost' \subseteq Nat \ {None}
      BY <1>6, Destroying DEF FreeStmt
    <2> QED BY <1>6, <2>1
        DEF FreeStmt, TypeOK, ConnTypes, StmtTypes, ServerTypes, AskedTypes, askedVars, connVars
  <1>7. ASSUME NEW s \in Stmts, NEW a \in StmtAttributes, NEW v \in Values, StmtSet(s, a, v)
        PROVE  TypeOK'
    <2>1. stmt' \in [Stmts -> FlightSqlStatements]
      BY <1>7, Setting DEF TypeOK, StmtTypes
    <2>2. asked' \in [Stmts -> [Readable -> Int]]
      <3> DEFINE new == Asked(asked[s], a, v)
      <3>1. new \in [Readable -> Int]
        BY AskedType, ExecutionAssumption DEF TypeOK, AskedTypes
      <3>2. asked' = [asked EXCEPT ![s] = new] \/ asked' = asked
        BY <1>7 DEF StmtSet, TypeOK, AskedTypes
      <3> HIDE DEF new
      <3> QED BY <3>1, <3>2 DEF TypeOK, AskedTypes
    <2>3. sets' \in Nat
      BY <1>7 DEF StmtSet, SetsOne, TypeOK, ServerTypes
    <2> QED BY <1>7, <2>1, <2>2, <2>3
        DEF StmtSet, TypeOK, ConnTypes, StmtTypes, ServerTypes, AskedTypes, connVars, serverVars
  <1>8. ASSUME NEW s \in Stmts, ActsOne(s) PROVE TypeOK'
    <2>1. PICK new \in FlightSqlStatements, what \in {"none", "count", "open"} :
             Acts(s, new, what)
      BY <1>8 DEF ActsOne
    <2>2. ConnTypes' /\ AskedTypes'
      BY <2>1 DEF Acts, Unmoved, connVars, askedVars, TypeOK, ConnTypes, AskedTypes
    <2>3. StmtTypes'
      BY <2>1 DEF Acts, Unmoved, TypeOK, StmtTypes
    <2>4. new.prepared_statement_ \in Nat /\ Held(s) \subseteq Nat \ {None}
      BY DEF TypeOK, StmtTypes, FlightSqlStatements, Held
    <2>5. ServerTypes'
      BY <2>1, <2>4 DEF Acts, Unmoved, TypeOK, ServerTypes
    <2> QED BY <2>2, <2>3, <2>5 DEF TypeOK
  <1>9. CASE UNCHANGED vars
    BY <1>9 DEF vars, serverVars, askedVars, TypeOK, ConnTypes, StmtTypes, ServerTypes, AskedTypes
  <1> QED BY <1>1, <1>2, <1>3, <1>4, <1>5, <1>6, <1>7, <1>8, <1>9, Steps

-----------------------------------------------------------------------------
LEMMA ResultStep == TypeOK /\ ResultOfCursor /\ [Next]_vars => ResultOfCursor'
  <1> SUFFICES ASSUME TypeOK, ResultOfCursor, [Next]_vars,
                      NEW u \in Stmts, cursor'[u] # "none",
                      stmt'[u].current_result_set_ \in Ids
               PROVE  /\ stmt'[u].flight_info_ = stmt'[u].current_result_set_
                      /\ stmt'[u].update_count_ = stmt'[u].current_result_set_
    BY DEF ResultOfCursor
  <1> DEFINE G == /\ stmt'[u].flight_info_ = stmt'[u].current_result_set_
                  /\ stmt'[u].update_count_ = stmt'[u].current_result_set_
  <1>t. cursor \in [Stmts -> {"none", "count", "open"}] /\ stmt \in [Stmts -> FlightSqlStatements]
    BY DEF TypeOK, StmtTypes
  <1>s. stmt'[u] = stmt[u] /\ cursor'[u] = cursor[u] => G
    BY DEF ResultOfCursor
  <1> HIDE DEF G
  <1>1. CASE Connect \/ Disconnect \/ UNCHANGED vars
    <2>1. stmt' = stmt /\ cursor' = cursor
      <3>1. CASE Connect
        BY <3>1 DEF Connect
      <3>2. CASE Disconnect
        BY <3>2 DEF Disconnect
      <3>3. CASE UNCHANGED vars
        BY <3>3 DEF vars
      <3> QED BY <1>1, <3>1, <3>2, <3>3
    <2> QED BY <2>1, <1>s DEF G
  <1>2. ASSUME NEW a \in ConnAttributes, NEW v \in Values, ConnSet(a, v) PROVE G
    BY <1>2, <1>s DEF ConnSet
  <1>3. ASSUME NEW a \in PassedOn, NEW v \in Values, ConnSetPassedOn(a, v) PROVE G
    BY <1>3, <1>s DEF ConnSetPassedOn
  <1>4. ASSUME NEW s \in Stmts, AllocStmt(s) PROVE G
    <2>1. CASE u = s
      BY <1>4, <1>t, <2>1 DEF AllocStmt
    <2>2. CASE u # s
      BY <1>4, <1>t, <1>s, <2>2 DEF AllocStmt
    <2> QED BY <2>1, <2>2
  <1>5. ASSUME NEW s \in Stmts, FreeStmt(s) PROVE G
    BY <1>5, <1>s DEF FreeStmt
  <1>6. ASSUME NEW s \in Stmts, NEW a \in StmtAttributes, NEW v \in Values, StmtSet(s, a, v)
        PROVE  G
    <2>1. PICK new \in FlightSqlStatements :
             stmt' = [stmt EXCEPT ![s] = new] /\ SameResult(new, stmt[s])
      BY <1>6, Setting
    <2>2. cursor' = cursor
      BY <1>6 DEF StmtSet
    <2>3. SameResult(stmt'[u], stmt[u])
      BY <2>1, <1>t DEF SameResult
    <2> QED BY <2>2, <2>3 DEF SameResult, ResultOfCursor, G
  <1>7. ASSUME NEW s \in Stmts, ActsOne(s) PROVE G
    <2>1. PICK new \in FlightSqlStatements, what \in {"none", "count", "open"} :
             Acts(s, new, what)
      BY <1>7 DEF ActsOne
    <2>2. CASE u = s
      <3>1. stmt'[u] = new /\ cursor'[u] = what
        BY <2>1, <2>2, <1>t DEF Acts
      <3> QED BY <3>1, <2>1 DEF Acts, G
    <2>3. CASE u # s
      BY <2>1, <2>3, <1>t, <1>s DEF Acts
    <2> QED BY <2>2, <2>3
  <1> QED BY <1>1, <1>2, <1>3, <1>4, <1>5, <1>6, <1>7, Steps DEF G

LEMMA ResultInit == Init => ResultOfCursor
  BY DEF Init, ResultOfCursor

(* Every variable keeps its type. *)
THEOREM Typing == Spec => []TypeOK
  <1>1. Spec => [](TypeOK /\ ResultOfCursor)
    BY TypeInit, TypeStep, ResultInit, ResultStep, PTL DEF Spec
  <1> QED BY <1>1, PTL

(* The query a cursor shows is the one the statement was last answered. *)
THEOREM CursorShowsAnswer == Spec => []ResultOfCursor
  <1>1. Spec => [](TypeOK /\ ResultOfCursor)
    BY TypeInit, TypeStep, ResultInit, ResultStep, PTL DEF Spec
  <1> QED BY <1>1, PTL

-----------------------------------------------------------------------------
LEMMA CancelStep ==
  ASSUME TypeOK, ResultOfCursor, [Next]_vars, CancelIsOfTheResult
  PROVE  CancelIsOfTheResult'
  <1>1. CASE about' = Nothing
    BY <1>1 DEF CancelIsOfTheResult, Nothing, About, None
  <1>2. ASSUME NEW s \in Stmts, Cancel(s) \/ GetUpdateCount(s) PROVE CancelIsOfTheResult'
    <2>1. UNCHANGED <<stmt, cursor>>
      BY <1>2 DEF Cancel, GetUpdateCount
    <2>2. /\ about'.stmt = s
          /\ \/ about'.query = stmt[s].update_count_
             \/ about'.query = stmt[s].flight_info_
             \/ stmt[s].current_result_set_ = None
      BY <1>2 DEF Cancel, GetUpdateCount, About
    <2>3. None \notin Ids
      BY ExecutionAssumption DEF Ids, None
    <2> QED BY <2>1, <2>2, <2>3 DEF CancelIsOfTheResult, ResultOfCursor
  <1>3. CASE UNCHANGED vars
    BY <1>3 DEF vars, CancelIsOfTheResult
  <1>4. Next => about' = Nothing \/ \E s \in Stmts : Cancel(s) \/ GetUpdateCount(s)
    BY DEF Next, Connect, Disconnect, ConnSet, ConnSetPassedOn, AllocStmt, FreeStmt, StmtSet,
           CloseFails, RequestFails, PrepareUnanswered, Prepare, ExecuteDirect, ExecutePrepared, ResultSetFails,
           CatalogFunction, CatalogFails, CloseCursor, MoreResults
  <1> QED BY <1>1, <1>2, <1>3, <1>4

(* SQLCancel and SQLRowCount are about the query whose result the application
   has, whatever was executed, prepared, refused or broken off before. *)
THEOREM CancelsTheResult == Spec => []CancelIsOfTheResult
  <1>1. Init => CancelIsOfTheResult
    BY DEF Init, CancelIsOfTheResult
  <1> QED BY <1>1, CancelStep, Typing, CursorShowsAnswer, PTL DEF Spec

-----------------------------------------------------------------------------
LEMMA PreparedStep ==
  ASSUME TypeOK, ResultOfCursor, [Next]_vars, NoPreparedLeft
  PROVE  NoPreparedLeft'
  <1> SUFFICES ASSUME NEW n \in open', n \notin lost'
               PROVE  \E u \in live' : n = stmt'[u].prepared_statement_
    BY DEF NoPreparedLeft
  <1> DEFINE G == \E u \in live' : n = stmt'[u].prepared_statement_
  <1>t. live \subseteq Stmts /\ stmt \in [Stmts -> FlightSqlStatements]
        /\ None \notin open
    BY DEF TypeOK, StmtTypes, ServerTypes
  <1>o. n \in open /\ n \notin lost => \E u \in live : n = stmt[u].prepared_statement_
    BY DEF NoPreparedLeft
  <1>s. n \in open /\ n \notin lost /\ stmt' = stmt /\ live' = live => G
    BY <1>o
  <1>1. CASE Connect
    BY <1>1, <1>s DEF Connect, serverVars
  <1>2. CASE Disconnect
    <2>1. n \in open /\ lost \subseteq lost'
          /\ \A s \in live : stmt[s].prepared_statement_ \in open'
                             => stmt[s].prepared_statement_ \in lost'
      BY <1>2, Destroying DEF Disconnect
    <2> QED BY <2>1, <1>o
  <1>3. CASE UNCHANGED vars
    <2>1. UNCHANGED <<open, lost, stmt, live>>
      BY <1>3 DEF vars
    <2> QED BY <2>1, <1>s DEF G
  <1>4. ASSUME NEW a \in ConnAttributes, NEW v \in Values, ConnSet(a, v) PROVE G
    BY <1>4, <1>s DEF ConnSet, serverVars
  <1>5. ASSUME NEW a \in PassedOn, NEW v \in Values, ConnSetPassedOn(a, v) PROVE G
    BY <1>5, <1>s DEF ConnSetPassedOn, serverVars
  <1>6. ASSUME NEW s \in Stmts, AllocStmt(s) PROVE G
    <2>1. /\ s \notin live /\ live' = live \cup {s} /\ UNCHANGED <<open, lost>>
          /\ \A u \in live : stmt'[u] = stmt[u]
      BY <1>6, <1>t DEF AllocStmt, serverVars
    <2> QED BY <2>1, <1>o
  <1>7. ASSUME NEW s \in Stmts, FreeStmt(s) PROVE G
    <2>1. n \in open /\ lost \subseteq lost'
          /\ (stmt[s].prepared_statement_ \in open' => stmt[s].prepared_statement_ \in lost')
      <3>1. {s} \in SUBSET live /\ Destroyed({s})
        BY <1>7 DEF FreeStmt
      <3> QED BY <3>1, Destroying
    <2>2. live' = live \ {s} /\ stmt' = stmt
      BY <1>7 DEF FreeStmt
    <2> QED BY <2>1, <2>2, <1>o
  <1>8. ASSUME NEW s \in Stmts, NEW a \in StmtAttributes, NEW v \in Values, StmtSet(s, a, v)
        PROVE  G
    <2>1. PICK new \in FlightSqlStatements :
             stmt' = [stmt EXCEPT ![s] = new]
             /\ new.prepared_statement_ = stmt[s].prepared_statement_
      BY <1>8, Setting
    <2>2. \A u \in Stmts : stmt'[u].prepared_statement_ = stmt[u].prepared_statement_
      BY <2>1, <1>t
    <2>3. UNCHANGED <<open, lost, live>>
      BY <1>8 DEF StmtSet, serverVars
    <2> QED BY <2>2, <2>3, <1>o, <1>t
  <1>9. ASSUME NEW s \in Stmts, ActsOne(s) PROVE G
    <2>1. PICK new \in FlightSqlStatements, what \in {"none", "count", "open"} :
             Acts(s, new, what)
      BY <1>9 DEF ActsOne
    <2>2. s \in live /\ live' = live /\ lost \subseteq lost'
          /\ stmt'[s] = new /\ \A u \in live \ {s} : stmt'[u] = stmt[u]
      BY <2>1, <1>t DEF Acts, Unmoved
    <2>3. CASE n = new.prepared_statement_
      BY <2>2, <2>3
    <2>4. CASE n # new.prepared_statement_
      <3>1. n \in open /\ n \notin Held(s)
        BY <2>1, <2>4 DEF Acts
      <3>2. n # stmt[s].prepared_statement_
        BY <3>1, <1>t DEF Held
      <3>3. PICK u \in live : n = stmt[u].prepared_statement_
        BY <3>1, <2>2, <1>o
      <3> QED BY <3>2, <3>3, <2>2
    <2> QED BY <2>3, <2>4
  <1> HIDE DEF G
  <1>10. G
    BY <1>1, <1>2, <1>3, <1>4, <1>5, <1>6, <1>7, <1>8, <1>9, Steps DEF G
  <1> QED BY <1>10 DEF G

(* A prepared statement is open at the server only while a statement holds it,
   or after its Prepare or its Close has failed at the client. *)
THEOREM NonePreparedLeft == Spec => []NoPreparedLeft
  <1>1. Init => NoPreparedLeft
    BY DEF Init, NoPreparedLeft
  <1> QED BY <1>1, PreparedStep, Typing, CursorShowsAnswer, PTL DEF Spec

-----------------------------------------------------------------------------
(* The attributes of the tracking statement are those the application set on
   the connection, in this session of it. *)
TrackingAsAsked == \A a \in Readable : GetStmtAttr(tracking, a) = askedConn[a]
AsAsked == TrackingAsAsked /\ AttributesAsAsked /\ TimeoutIsAsked

LEMMA AttributeStep ==
  ASSUME TypeOK, ResultOfCursor, [Next]_vars, AsAsked
  PROVE  AsAsked'
  <1> DEFINE QT == "QUERY_TIMEOUT"
  <1>q. QT \in Kept /\ QT \in Readable /\ \A a : Same(a, QT) => a = QT
    <2>1. QT \in Kept /\ QT \in Readable
      BY Groups DEF Kept, SpiFree
    <2> QED BY <2>1 DEF Same, Twins
  <1>t. /\ live \subseteq Stmts /\ stmt \in [Stmts -> FlightSqlStatements]
        /\ tracking \in [Places -> Int]
        /\ asked \in [Stmts -> [Readable -> Int]] /\ askedConn \in [Readable -> Int]
        /\ \A s \in Stmts : stmt[s].attributes \in [Places -> Int]
    BY DEF TypeOK, StmtTypes, ConnTypes, AskedTypes, FlightSqlStatements
  <1>s. /\ live' \subseteq live /\ asked' = asked
        /\ \A s \in live' : stmt'[s].attributes = stmt[s].attributes
                            /\ stmt'[s].timeout = stmt[s].timeout
        => AttributesAsAsked' /\ TimeoutIsAsked'
    BY DEF AsAsked, AttributesAsAsked, TimeoutIsAsked
  <1>c. UNCHANGED <<tracking, askedConn>> => TrackingAsAsked'
    BY DEF AsAsked, TrackingAsAsked
  <1> HIDE DEF QT
  <1>1. CASE Connect
    <2>1. tracking' = NewAttributes /\ askedConn' = Defaults
          /\ UNCHANGED <<live, stmt, asked>>
      BY <1>1 DEF Connect
    <2>2. TrackingAsAsked'
      BY <2>1 DEF TrackingAsAsked, Defaults
    <2> QED BY <2>1, <2>2, <1>s DEF AsAsked
  <1>2. CASE Disconnect
    <2>1. live' \subseteq live /\ UNCHANGED <<tracking, askedConn, stmt, asked>>
      BY <1>2 DEF Disconnect, askedVars
    <2> QED BY <2>1, <1>s, <1>c DEF AsAsked
  <1>3. CASE UNCHANGED vars
    <2>1. UNCHANGED <<live, tracking, askedConn, stmt, asked>>
      BY <1>3 DEF vars
    <2> QED BY <2>1, <1>s, <1>c DEF AsAsked
  <1>4. ASSUME NEW a \in ConnAttributes, NEW v \in Values, ConnSet(a, v) PROVE AsAsked'
    <2>1. UNCHANGED <<live, tracking, askedConn, stmt, asked>>
      BY <1>4 DEF ConnSet, askedVars
    <2> QED BY <2>1, <1>s, <1>c DEF AsAsked
  <1>5. ASSUME NEW a \in PassedOn, NEW v \in Values, ConnSetPassedOn(a, v) PROVE AsAsked'
    <2> DEFINE set == SetStmtAttr(tracking, a, v)
    <2>1. UNCHANGED <<live, stmt, asked>> /\ tracking' = set.attributes
          /\ askedConn' = IF set.rc = "SUCCESS" THEN Asked(askedConn, a, v) ELSE askedConn
      BY <1>5 DEF ConnSetPassedOn
    <2>2. a \in StmtAttributes /\ v \in Int
      BY PassedOnAreStmt, ExecutionAssumption
    <2>3. \A b \in Readable : GetStmtAttr(set.attributes, b) =
               IF set.rc = "SUCCESS" /\ Same(a, b) THEN v
               ELSE GetStmtAttr(tracking, b)
      BY <2>2, <1>t, SetThenGet
    <2>4. \A b \in Readable : Asked(askedConn, a, v)[b] =
             IF Same(a, b) THEN v ELSE askedConn[b]
      BY <2>2, <1>t, AskedType
    <2> HIDE DEF set
    <2>5. TrackingAsAsked'
      BY <2>1, <2>3, <2>4 DEF AsAsked, TrackingAsAsked
    <2> QED BY <2>1, <2>5, <1>s DEF AsAsked
  <1>6. ASSUME NEW s \in Stmts, AllocStmt(s) PROVE AsAsked'
    <2>1. UNCHANGED <<tracking, askedConn>> /\ live' = live \cup {s}
      BY <1>6 DEF AllocStmt, connVars
    <2>2. PICK new \in FlightSqlStatements :
           /\ stmt' = [stmt EXCEPT ![s] = new]
           /\ new.attributes = CopyAttributesFromConnection(tracking)
           /\ new.timeout = Timeout(GetStmtAttr(new.attributes, "QUERY_TIMEOUT"))
      BY <1>6, Allocating
    <2>3. stmt'[s] = new /\ \A u \in Stmts \ {s} : stmt'[u] = stmt[u]
      BY <2>2, <1>t
    <2>4. \A a \in Readable : asked'[s][a] =
             IF a \in PassedOn \/ \E b \in PassedOn : {a, b} \in Twins THEN askedConn[a]
             ELSE Defaults[a]
      BY <1>6, <1>t DEF AllocStmt, Inherits
    <2>5. \A u \in Stmts \ {s} : asked'[u] = asked[u]
      BY <1>6, <1>t DEF AllocStmt, Inherits
    <2>6. \A a \in Readable : GetStmtAttr(new.attributes, a) = asked'[s][a]
      <3>1. \A a \in Readable : GetStmtAttr(new.attributes, a) =
                  IF a \in PassedOn \/ \E b \in PassedOn : {a, b} \in Twins
                  THEN GetStmtAttr(tracking, a) ELSE Defaults[a]
        BY <2>2, <1>t, Copied
      <3> QED BY <3>1, <2>4 DEF AsAsked, TrackingAsAsked
    <2>7. AttributesAsAsked'
      BY <2>1, <2>3, <2>5, <2>6, <1>t DEF AsAsked, AttributesAsAsked
    <2>8. TimeoutIsAsked'
      <3>1. stmt'[s].timeout = Timeout(asked'[s]["QUERY_TIMEOUT"])
        BY <2>2, <2>3, <2>6, <1>q DEF QT
      <3> QED BY <3>1, <2>1, <2>3, <2>5, <1>t DEF AsAsked, TimeoutIsAsked
    <2> QED BY <2>1, <2>7, <2>8, <1>c DEF AsAsked
  <1>7. ASSUME NEW s \in Stmts, FreeStmt(s) PROVE AsAsked'
    <2>1. live' \subseteq live /\ UNCHANGED <<tracking, askedConn, stmt, asked>>
      BY <1>7 DEF FreeStmt, askedVars, connVars
    <2> QED BY <2>1, <1>s, <1>c DEF AsAsked
  <1>8. ASSUME NEW s \in Stmts, NEW a \in StmtAttributes, NEW v \in Values, StmtSet(s, a, v)
        PROVE  AsAsked'
    <2> DEFINE set == SetStmtAttr(stmt[s].attributes, a, v)
    <2>1. UNCHANGED <<live, tracking, askedConn>> /\ s \in live
          /\ asked' = IF set.rc = "SUCCESS" THEN [asked EXCEPT ![s] = Asked(@, a, v)] ELSE asked
      BY <1>8 DEF StmtSet, connVars
    <2>2. PICK new \in FlightSqlStatements :
           /\ stmt' = [stmt EXCEPT ![s] = new]
           /\ new.attributes = set.attributes
           /\ new.timeout = IF a = "QUERY_TIMEOUT" THEN Timeout(v) ELSE stmt[s].timeout
      BY <1>8, Setting
    <2>3. stmt'[s] = new /\ \A u \in Stmts \ {s} : stmt'[u] = stmt[u]
      BY <2>2, <1>t
    <2>4. /\ \A b \in Readable : GetStmtAttr(set.attributes, b) =
               IF set.rc = "SUCCESS" /\ Same(a, b) THEN v
               ELSE GetStmtAttr(stmt[s].attributes, b)
          /\ a \in Kept => set.rc = "SUCCESS"
      BY <1>t, SetThenGet, ExecutionAssumption
    <2>5. \A b \in Readable : Asked(asked[s], a, v)[b] =
             IF Same(a, b) THEN v ELSE asked[s][b]
      BY <1>t, AskedType, ExecutionAssumption
    <2> HIDE DEF set
    <2>6. /\ \A u \in Stmts \ {s} : asked'[u] = asked[u]
          /\ asked'[s] = IF set.rc = "SUCCESS" THEN Asked(asked[s], a, v) ELSE asked[s]
      BY <2>1, <1>t
    <2>7. \A b \in Readable : GetStmtAttr(new.attributes, b) = asked'[s][b]
      BY <2>1, <2>2, <2>4, <2>5, <2>6 DEF AsAsked, AttributesAsAsked
    <2>8. AttributesAsAsked'
      BY <2>1, <2>3, <2>6, <2>7, <1>t DEF AsAsked, AttributesAsAsked
    <2>9. TimeoutIsAsked'
      <3>1. stmt'[s].timeout = Timeout(asked'[s]["QUERY_TIMEOUT"])
        <4>1. CASE a = QT
          <5>1. Same(a, QT)
            BY <4>1 DEF Same
          <5>2. Asked(asked[s], a, v)[QT] = v
            BY <5>1, <2>5, <1>q
          <5>3. set.rc = "SUCCESS"
            BY <4>1, <2>4, <1>q
          <5>4. asked'[s][QT] = v
            BY <5>2, <5>3, <2>6
          <5> QED BY <5>4, <4>1, <2>2, <2>3 DEF QT
        <4>2. CASE a # QT
          <5>1. asked'[s][QT] = asked[s][QT]
            BY <4>2, <2>5, <2>6, <1>q
          <5> QED BY <5>1, <4>2, <2>1, <2>2, <2>3 DEF QT, AsAsked, TimeoutIsAsked
        <4> QED BY <4>1, <4>2
      <3> QED BY <3>1, <2>1, <2>3, <2>6, <1>t DEF AsAsked, TimeoutIsAsked
    <2> QED BY <2>1, <2>8, <2>9, <1>c DEF AsAsked
  <1>9. ASSUME NEW s \in Stmts, ActsOne(s) PROVE AsAsked'
    <2>1. PICK new \in FlightSqlStatements, what \in {"none", "count", "open"} :
             Acts(s, new, what)
      BY <1>9 DEF ActsOne
    <2>2. /\ UNCHANGED <<live, tracking, askedConn, asked>>
          /\ stmt' = [stmt EXCEPT ![s] = new]
          /\ new.attributes = stmt[s].attributes /\ new.timeout = stmt[s].timeout
      BY <2>1 DEF Acts, Unmoved, SameSettings, connVars, askedVars
    <2>3. \A u \in live : stmt'[u].attributes = stmt[u].attributes
                          /\ stmt'[u].timeout = stmt[u].timeout
      BY <2>2, <1>t
    <2> QED BY <2>2, <2>3, <1>s, <1>c DEF AsAsked
  <1> QED BY <1>1, <1>2, <1>3, <1>4, <1>5, <1>6, <1>7, <1>8, <1>9, Steps

LEMMA AttributeInit == Init => AsAsked
  BY DEF Init, AsAsked, TrackingAsAsked, AttributesAsAsked, TimeoutIsAsked, Defaults

LEMMA AllAsAsked == Spec => []AsAsked
  BY AttributeInit, AttributeStep, Typing, CursorShowsAnswer, PTL DEF Spec

(* Every attribute of a statement reads back as it was last set, on it or on
   its connection before it, for every value and in any order of settings. *)
THEOREM AttributesReadBack == Spec => []AttributesAsAsked
  <1>1. AsAsked => AttributesAsAsked
    BY DEF AsAsked
  <1> QED BY <1>1, AllAsAsked, PTL

(* The requests of a statement carry the query timeout the attribute tells. *)
THEOREM TimeoutsAreAsked == Spec => []TimeoutIsAsked
  <1>1. AsAsked => TimeoutIsAsked
    BY DEF AsAsked
  <1> QED BY <1>1, AllAsAsked, PTL

=============================================================================
