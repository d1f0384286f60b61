---------------------------- MODULE Diagnostics -----------------------------
(***************************************************************************)
(* What a call returns and which diagnostic records it leaves: execute of  *)
(* ODBCHandle.h, diagnostics.h and diagnostics.cc, the functions that read *)
(* records back, and the functions that return text (module Text).         *)
(*                                                                         *)
(* Calls are made one after the other on an environment, a connection, a   *)
(* statement and its IRD; each of the four has Diagnostics of its own.     *)
(***************************************************************************)
EXTENDS Text, Sequences

CONSTANTS
    Texts,          \* texts the driver has to return
    Sizes,          \* buffer lengths the application gives
    MaxExecuted     \* bound: calls

Owners == {"env", "dbc", "stmt", "ird"}
V_2 == 2
V_3 == 3

VARIABLES
    m_version,      \* of the environment
    version_,       \* of the Diagnostics of each handle
    error_records_, warning_records_,
    last,           \* the last call: function, handle, return code, text
    executed        \* calls made

ASSUME DiagnosticsAssumption ==
    Texts \subseteq Text /\ Sizes \subseteq Nat /\ MaxExecuted \in Nat

diagnosticsVars == <<m_version, version_, error_records_, warning_records_, last, executed>>

Codes == {"SUCCESS", "SUCCESS_WITH_INFO", "NO_DATA", "ERROR", "ESCAPES"}
NoText == [text |-> Ascii(0), size |-> -1, out |-> Out(0, 0, FALSE, 0, FALSE), retry |-> FALSE]

DiagnosticsInit ==
    /\ m_version = V_2
    /\ version_ = [h \in Owners |-> IF h = "ird" THEN V_3 ELSE V_2]
    /\ error_records_ = [h \in Owners |-> <<>>]
    /\ warning_records_ = [h \in Owners |-> <<>>]
    /\ last = [fn |-> "none", on |-> "env", rc |-> "SUCCESS", returned |-> NoText]
    /\ executed = 0

-----------------------------------------------------------------------------
(* Records. *)

(* RewriteSQLStateForODBC2: HY becomes S1.  Two states stand for all of class HY. *)
HY == {"HY000", "HYC00"}
Rewritten(state) ==
    CASE state = "HY000" -> "S1000" [] state = "HYC00" -> "S1C00" [] OTHER -> state

(* AddError and AddWarning: the state of the ODBC version, and TrackRecord,
   which tells warnings by their class 01 and not by who added them. *)
RecordOf(h, state, text) ==
    [state |-> IF version_[h] = V_2 THEN Rewritten(state) ELSE state, text |-> text]
IsWarning(record) == record.state \in {"01004", "01S02"}
TRUNCATION_WARNING == [state |-> "01004", text |-> Ascii(2)]

NoRecords == [errors |-> <<>>, warnings |-> <<>>]
TrackRecord(records, record) ==
    IF IsWarning(record) THEN [records EXCEPT !.warnings = Append(@, record)]
    ELSE [records EXCEPT !.errors = Append(@, record)]

RecordCount(h) == Len(error_records_[h]) + Len(warning_records_[h])
GetRecordAtIndex(h, i) == (error_records_[h] \o warning_records_[h])[i]

(* The return code: `rc` is what the function returned, or, where it threw,
   what execute was given to begin with. *)
ReturnCode(records, rc) ==
    IF records.errors # <<>> THEN "ERROR"
    ELSE IF rc \in {"SUCCESS", "SUCCESS_WITH_INFO"} /\ records.warnings # <<>>
    THEN "SUCCESS_WITH_INFO"
    ELSE rc

Did(fn, h, rc, returned) ==
    /\ executed' = executed + 1
    /\ last' = [fn |-> fn, on |-> h, rc |-> rc, returned |-> returned]

(* execute: Clear, the function, which adds `records`, the exception it throws
   as one more of them, the return code. *)
ExecuteUncleared(fn, h, rc, records, returned) ==   \* mutant: no Clear
    /\ Did(fn, h, ReturnCode(records, rc), returned)
    /\ error_records_' = [error_records_ EXCEPT ![h] = @ \o records.errors]
    /\ warning_records_' = [warning_records_ EXCEPT ![h] = @ \o records.warnings]

Execute(fn, h, rc, records, returned) ==
    /\ Did(fn, h, ReturnCode(records, rc), returned)
    /\ error_records_' = [error_records_ EXCEPT ![h] = records.errors]
    /\ warning_records_' = [warning_records_ EXCEPT ![h] = records.warnings]

-----------------------------------------------------------------------------
(* Calls without text.  A function may warn, then return or throw; what it
   throws may be a warning's state (ODBCConnection.cc:485). *)
Warned(yes) == IF yes THEN TrackRecord(NoRecords, TRUNCATION_WARNING) ELSE NoRecords

Function(h) ==
    \E warned, thrown \in BOOLEAN, state \in HY \cup {"07009", "01S02"}, t \in Texts,
       rc \in {"SUCCESS", "NO_DATA"} :
       /\ Execute("Function", h, IF thrown THEN "SUCCESS" ELSE rc,
             IF thrown THEN TrackRecord(Warned(warned), RecordOf(h, state, t))
             ELSE Warned(warned), NoText)
       /\ UNCHANGED <<m_version, version_>>

(* The functions that are not supported throw HYC00. *)
Unsupported ==
    /\ Execute("Unsupported", "stmt", "ERROR",
               TrackRecord(NoRecords, RecordOf("stmt", "HYC00", Ascii(1))), NoText)
    /\ UNCHANGED <<m_version, version_>>

(* SQLSetEnvAttr(SQL_ATTR_ODBC_VERSION), which the driver manager sends first:
   a change replaces the Diagnostics of the environment, and the handles made
   later take its version.  ODBCDescriptor always takes V_3. *)
SetOdbcVersion(v) ==
    /\ executed = 0
    /\ Execute("SetEnvAttr", "env", "SUCCESS", NoRecords, NoText)
    /\ m_version' = v
    /\ version_' = [h \in Owners |-> IF h = "ird" THEN V_3 ELSE v]

(* SQLMoreResults, SQLSetCursorName, SQLEndTran(SQL_COMMIT) and
   SQLFreeStmt(SQL_UNBIND) return without execute: the records stay. *)
Untracked ==
    /\ Did("Untracked", "stmt", "SUCCESS", NoText)
    /\ UNCHANGED <<m_version, version_, error_records_, warning_records_>>

(* Text that is passed in (SQLPrepare, SQLExecDirect, SQLNativeSql): with its
   length in bytes, and the wide functions with SQL_NTS or their length in
   characters.  `told` is how much the driver reads. *)
PassText(f, t) ==
    LET read == CASE f = "ExecDirect"         -> SqlCharToString(t, Utf8Size(t))
                  [] f = "ExecDirectW"        -> SqlWCharToString(t, SQL_NTS)
                  [] f = "ExecDirectWCounted" -> SqlWCharToString(t, Units(t))
    IN /\ Execute(f, "stmt", "SUCCESS", NoRecords,
                  [NoText EXCEPT !.text = t, !.out.told = read])
       /\ UNCHANGED <<m_version, version_>>

-----------------------------------------------------------------------------
(* Functions that return text: the handle they are called with, the handle
   whose Diagnostics takes the truncation warning (or none), how they copy,
   what ODBC counts their buffer in, and the type of the length they tell. *)
Fn(on, warns, copy, counts, tells) ==
    [on |-> on, warns |-> warns, copy |-> copy, counts |-> counts, tells |-> tells]

TextFunctions ==
    [GetInfo        |-> Fn("dbc",  "dbc",  "utf8",     "bytes", "SQLSMALLINT"),
     GetInfoW       |-> Fn("dbc",  "dbc",  "wide",     "bytes", "SQLSMALLINT"),
     GetDescField   |-> Fn("ird",  "ird",  "utf8",     "bytes", "SQLINTEGER"),
     GetDescFieldW  |-> Fn("ird",  "ird",  "wide",     "bytes", "SQLINTEGER"),
     GetDescRec     |-> Fn("ird",  "none", "utf8",     "bytes", "SQLSMALLINT"),
     GetDescRecW    |-> Fn("ird",  "none", "wide",     "chars", "SQLSMALLINT"),
     DescribeCol    |-> Fn("stmt", "ird",  "utf8",     "bytes", "SQLSMALLINT"),
     DescribeColW   |-> Fn("stmt", "ird",  "wide",     "chars", "SQLSMALLINT"),
     ColAttribute   |-> Fn("stmt", "ird",  "utf8",     "bytes", "SQLSMALLINT"),
     ColAttributeW  |-> Fn("stmt", "ird",  "wide",     "bytes", "SQLSMALLINT"),
     DriverConnect  |-> Fn("dbc",  "none", "own",      "bytes", "SQLSMALLINT"),
     DriverConnectW |-> Fn("dbc",  "none", "ownWide",  "chars", "SQLSMALLINT"),
     NativeSql      |-> Fn("dbc",  "none", "own",      "bytes", "SQLINTEGER"),
     NativeSqlW     |-> Fn("dbc",  "none", "ownWide",  "chars", "SQLINTEGER")]
DiagFunctions ==
    [GetDiagRec     |-> Fn("any",  "none", "diag",     "bytes", "SQLSMALLINT"),
     GetDiagRecW    |-> Fn("any",  "none", "diagWide", "chars", "SQLSMALLINT")]
Kind(f) == IF f \in DOMAIN TextFunctions THEN TextFunctions[f] ELSE DiagFunctions[f]

Wide(f) == Kind(f).copy \in {"wide", "ownWide", "diagWide"}

(* The type GetAttributeUTF8 and GetAttributeSQLWCHAR compute with: GetField of
   the descriptor has an SQLINTEGER, which SQLColAttribute casts afterwards. *)
O(f) == IF f \in {"ColAttribute", "ColAttributeW"} THEN "SQLINTEGER" ELSE Kind(f).tells

CopyBy(f, t, size) ==
    CASE Kind(f).copy = "utf8"     -> GetAttributeUTF8(t, size, O(f))
      [] Kind(f).copy = "wide"     -> GetAttributeSQLWCHAR(t, size, O(f))
      [] Kind(f).copy = "own"      -> OwnCopy(t, size)
      [] Kind(f).copy = "ownWide"  -> OwnWideCopy(t, size)
      [] Kind(f).copy = "diag"     -> DiagRecCopy(t, size)
      [] Kind(f).copy = "diagWide" -> DiagRecWideCopy(t, size)

Copy(f, t, size) == [CopyBy(f, t, size) EXCEPT !.told = As(Kind(f).tells, @)]

Returned(f, t, size, retry) ==
    [text |-> t, size |-> size, out |-> Copy(f, t, size), retry |-> retry]

(* One call.  A text that does not convert is an exception; a warning of the
   IRD is none of the statement's and is not cleared by the statement. *)
ReturnText(f, t, size, retry) ==
    LET kind == TextFunctions[f]
        returned == Returned(f, t, size, retry)
        warn == returned.out.info /\ kind.warns # "none"
    IN /\ IF Wide(f) /\ ~Encodable(t)
          THEN Execute(f, kind.on, "SUCCESS",
                       TrackRecord(NoRecords, RecordOf(kind.on, "HY000", Ascii(1))), NoText)
          ELSE IF warn /\ kind.warns # kind.on
          THEN /\ Did(f, kind.on, "SUCCESS", returned)
               /\ error_records_' = [error_records_ EXCEPT ![kind.on] = <<>>]
               /\ warning_records_' = [warning_records_ EXCEPT
                     ![kind.on] = <<>>, ![kind.warns] = Append(@, TRUNCATION_WARNING)]
          ELSE Execute(f, kind.on, "SUCCESS", Warned(warn), returned)
       /\ UNCHANGED <<m_version, version_>>

(* SQLGetDiagRec and SQLGetDiagField's message: no execute, so no Clear, and
   nothing that would catch an exception. *)
ReadRecord(f, h, i, size, retry) ==
    LET t == GetRecordAtIndex(h, i).text
        returned == Returned(f, t, size, retry)
    IN /\ i \in 1..RecordCount(h)
       /\ IF Wide(f) /\ ~Encodable(t) THEN Did(f, h, "ESCAPES", NoText)
          ELSE Did(f, h, IF returned.out.info THEN "SUCCESS_WITH_INFO" ELSE "SUCCESS", returned)
       /\ UNCHANGED <<m_version, version_, error_records_, warning_records_>>

ReadPastEnd(f, h) ==
    /\ Did(f, h, "NO_DATA", NoText)
    /\ UNCHANGED <<m_version, version_, error_records_, warning_records_>>

GaveText == last.returned.size >= 0
Room == last.returned.size * IF Wide(last.fn) /\ Kind(last.fn).counts = "chars" THEN WcharSize ELSE 1

(* The application calls once more, with room for the length it was told. *)
Retry ==
    LET f == last.fn
        room == last.returned.out.told + IF Wide(f) /\ Kind(f).counts = "bytes" THEN WcharSize ELSE 1
    IN /\ f \in DOMAIN TextFunctions \cup DOMAIN DiagFunctions
       /\ GaveText /\ last.returned.out.told >= 0 /\ ~last.returned.retry
       /\ IF f \in DOMAIN TextFunctions
          THEN ReturnText(f, last.returned.text, room, TRUE)
          ELSE ReadRecord(f, last.on, 1, room, TRUE)
               /\ GetRecordAtIndex(last.on, 1).text = last.returned.text

(* What a program does that has written outside its buffer is not followed. *)
Overran == GaveText /\ last.returned.out.reach > Room

More == executed < MaxExecuted /\ ~Overran

DiagnosticsNext ==
    \/ More /\ \E h \in Owners : Function(h)
    \/ \E v \in {V_2, V_3} : SetOdbcVersion(v)
    \/ More /\ (Unsupported \/ Untracked \/ Retry)
    \/ More /\ \E f \in {"ExecDirect", "ExecDirectW", "ExecDirectWCounted"}, t \in Texts :
          PassText(f, t)
    \/ More /\ \E f \in DOMAIN TextFunctions, t \in Texts, size \in Sizes :
          ReturnText(f, t, size, FALSE)
    \/ More /\ \E f \in DOMAIN DiagFunctions, h \in Owners, i \in 1..2, size \in Sizes :
          ReadRecord(f, h, i, size, FALSE)
    \/ More /\ \E f \in DOMAIN DiagFunctions, h \in Owners : ReadPastEnd(f, h)

DiagnosticsSpec == DiagnosticsInit /\ [][DiagnosticsNext]_diagnosticsVars

-----------------------------------------------------------------------------
(* Type invariant. *)
StatesOf(version) ==
    {"07009", "01004", "01S02"} \cup IF version = V_2 THEN {"S1000", "S1C00"} ELSE HY
States == StatesOf(V_2) \cup StatesOf(V_3)
Records == [state : States, text : Text]
Outs == [reach : Int, kept : Int, nul : BOOLEAN, told : Int, info : BOOLEAN]
Functions == DOMAIN TextFunctions \cup DOMAIN DiagFunctions \cup
    {"none", "Function", "Unsupported", "SetEnvAttr", "Untracked",
     "ExecDirect", "ExecDirectW", "ExecDirectWCounted"}

DiagnosticsTypeOK ==
    /\ m_version \in {V_2, V_3}
    /\ version_ \in [Owners -> {V_2, V_3}]
    /\ error_records_ \in [Owners -> Seq(Records)]
    /\ warning_records_ \in [Owners -> Seq(Records)]
    /\ last \in [fn : Functions, on : Owners, rc : Codes,
                 returned : [text : Text, size : Int, out : Outs, retry : BOOLEAN]]
    /\ executed \in Nat

Tracked == last.fn \notin {"none", "Untracked"} \cup DOMAIN DiagFunctions

(* The first record an application reads after a call explains its return
   code: an error exactly after SQL_ERROR, however many warnings came before
   it, a warning after SQL_SUCCESS_WITH_INFO, none after SQL_SUCCESS; and its
   state is one of the handle's ODBC version. *)
FirstRecordExplains ==
    Tracked =>
      LET h == last.on
          first == GetRecordAtIndex(h, 1)
      IN /\ last.rc = "ERROR" <=> RecordCount(h) > 0 /\ ~IsWarning(first)
         /\ last.rc = "SUCCESS_WITH_INFO" => RecordCount(h) > 0 /\ IsWarning(first)
         /\ last.rc = "SUCCESS" => RecordCount(h) = 0
         /\ RecordCount(h) > 0 => first.state \in StatesOf(version_[h])

Total == IF Wide(last.fn) THEN Units(last.returned.text) ELSE Utf8Size(last.returned.text)

(* GetAttributeUTF8 copies a size that is negative: into a buffer of no bytes,
   or of a text whose length is negative as an SQLSMALLINT. *)
SizeGoesNegative ==
    /\ Kind(last.fn).copy = "utf8"
    /\ last.returned.size = 0 \/ As(O(last.fn), Utf8Size(last.returned.text)) < 0

(* Text that is cut is cut inside the buffer, ends with a NUL (a wide one if
   the length given has room for it), and the call says so.  It says nothing in
   the functions that copy by themselves, in SQLDescribeCol, SQLColAttribute
   and SQLGetDescRec, whose warning goes to the IRD or nowhere, and in
   SQLGetDiagRec with a buffer of no bytes; SizeGoesNegative is excepted, and a
   wide buffer of more bytes than SQLSMALLINT holds is outside of this. *)
CutTextIsTold ==
    GaveText /\ Room <= MaxShort /\ ~SizeGoesNegative =>
      /\ last.returned.out.reach <= Room
      /\ last.returned.size >= (IF Wide(last.fn) THEN WcharSize ELSE 1) => last.returned.out.nul
      /\ last.returned.out.kept < Total /\ Kind(last.fn).warns \in {last.on, "none"}
         /\ Kind(last.fn).copy \notin {"own", "ownWide"}
         /\ last.fn \notin {"GetDescRec", "GetDescRecW"}
         /\ (last.fn \in DOMAIN DiagFunctions => last.returned.size > 0)
         => last.rc = "SUCCESS_WITH_INFO"

(* Without the exception: no function writes outside its buffer. *)
NothingOverrun == GaveText /\ Room <= MaxShort => ~Overran

(* A second call with room for the length the first one told gets the whole
   text, whatever its characters; except from SQLDescribeColW and
   SQLGetDescRecW, which tell bytes where the application counts characters
   and take the length it gives for bytes. *)
RetryGetsAll ==
    last.returned.retry /\ Room <= MaxShort /\ (Total + 1) * WcharSize <= MaxShort
       /\ last.fn \notin {"DescribeColW", "GetDescRecW"}
       => last.returned.out.kept = Total

(* The text of a statement arrives whole, and nothing behind it is read, if
   its length fits SQLSMALLINT, to which every length is cast; of a wide text
   that comes with its length the driver, which takes characters for bytes,
   reads a part. *)
StatementTextArrives ==
    LET t == last.returned.text
        read == last.returned.out.told
    IN /\ last.fn = "ExecDirect" /\ Utf8Size(t) <= MaxShort => read = Utf8Size(t)
       /\ last.fn = "ExecDirectW" => read = Units(t)
       /\ last.fn = "ExecDirectWCounted" /\ Units(t) <= MaxShort =>
             read = Units(t) \div WcharSize
=============================================================================
