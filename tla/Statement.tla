------------------------------- MODULE Statement -------------------------------
(***************************************************************************)
(* odbcabstraction/odbc_impl/ODBCStatement.cc and ODBCDescriptor.cc, with  *)
(* the calls of odbc_entry/odbc_entry.cc that reach them: statements,      *)
(* their cursors and prepared states, and the application descriptors      *)
(* that statements share and that hold the bindings of columns.            *)
(*                                                                         *)
(* Every call holds the lock of its handle to the end, so it is one step;  *)
(* the order of calls is the application's, within what the driver manager *)
(* lets through (dm).  One column stands for all: BindColumn treats them   *)
(* alike.  A result set is what ResultSet establishes of it: a cursor that *)
(* fills the buffers bound to it and comes to an end.                      *)
(***************************************************************************)
EXTENDS Integers, FiniteSets

CONSTANTS
    Stmts,      \* statements, each allocated once
    Descs,      \* descriptors from SQLAllocHandle(SQL_HANDLE_DESC)
    Buffers,    \* application buffers
    None,       \* no buffer, no result set
    Executing,  \* bound: the statements that execute and bind
    MaxRowset,  \* largest SQL_DESC_ARRAY_SIZE
    MaxRows     \* bound: rows an application fetches from a statement

Results == [bound : Buffers \union {None}, rows : Nat, over : BOOLEAN]

ASSUME StatementAssumption ==
    /\ Executing \subseteq Stmts
    /\ MaxRowset \in Nat \ {0} /\ MaxRows \in Nat
    /\ None \notin Buffers \union Results
    /\ Descs \intersect (Stmts \X {"ard", "apd"}) = {}

Implicit == Stmts \X {"ard", "apd"}
m_builtInArd(s) == <<s, "ard">>
m_builtInApd(s) == <<s, "apd">>
Descriptors == Descs \union Implicit

VARIABLES
    live,      \* ODBCConnection::m_statements
    gone,      \* history: statements dropped
    descs,     \* ODBCConnection::m_descriptors
    desc,      \* ODBCDescriptor: record bound, m_hasBindingsChanged, registrations
    stmt,      \* ODBCStatement
    dm,        \* the driver manager's view: prepared, cursor open
    strayed,   \* history: statements that used SQL_UNBIND, SQLMoreResults or
               \* SQL_ATTR_APP_ROW_DESC
    misbound,  \* history: statements whose fetch filled other buffers than the
               \* ones bound
    touched    \* history: dropped statements a descriptor called

vars == <<live, gone, descs, desc, stmt, dm, strayed, misbound, touched>>

DescRecords == [bound : Buffers \union {None}, changed : BOOLEAN,
                asArd : SUBSET Stmts, asApd : SUBSET Stmts]
StmtRecords == [ard : Descriptors, apd : Descriptors, result : Results \union {None},
                rowNumber : Nat, ended : BOOLEAN, isPrepared : BOOLEAN,
                prepared : BOOLEAN]
DmRecords   == [prepared : BOOLEAN, open : BOOLEAN]

TypeOK ==
    /\ live \subseteq Stmts /\ gone \subseteq Stmts \ live /\ descs \subseteq Descs
    /\ desc \in [Descriptors -> DescRecords]
    /\ stmt \in [Stmts -> StmtRecords]
    /\ dm \in [Stmts -> DmRecords]
    /\ strayed \subseteq Stmts /\ misbound \subseteq Stmts
    /\ touched \subseteq gone

(* The constructors.  m_currentArd starts as the implicit *parameter*
   descriptor; SQL_ATTR_APP_ROW_DESC reads and writes m_currentArd. *)
NewDescriptor == [bound |-> None, changed |-> TRUE, asArd |-> {}, asApd |-> {}]

NewStatement(s) ==
    [ard |-> m_builtInApd(s), apd |-> m_builtInApd(s), result |-> None,
     rowNumber |-> 0, ended |-> FALSE, isPrepared |-> FALSE, prepared |-> FALSE]

NewResult == [bound |-> None, rows |-> 0, over |-> FALSE]

Init ==
    /\ live = {} /\ gone = {} /\ descs = {}
    /\ desc = [d \in Descriptors |-> NewDescriptor]
    /\ stmt = [s \in Stmts |-> NewStatement(s)]
    /\ dm = [s \in Stmts |-> [prepared |-> FALSE, open |-> FALSE]]
    /\ strayed = {} /\ misbound = {} /\ touched = {}

history == <<strayed, misbound, touched>>
handles == <<live, gone, descs>>

-----------------------------------------------------------------------------
(* Handles. *)

AllocStmt(s) ==
    /\ s \notin live \union gone
    /\ live' = live \union {s}
    /\ UNCHANGED <<gone, descs, desc, stmt, dm, history>>

AllocDesc(d) ==
    /\ d \notin descs
    /\ descs' = descs \union {d}
    /\ UNCHANGED <<live, gone, desc, stmt, dm, history>>

NotifyBindingsHaveChanged(d) == [desc EXCEPT ![d].changed = TRUE]

(* closeCursor: the state it leaves the statement in. *)
Closed(st) == [st EXCEPT !.result = None, !.rowNumber = 0, !.ended = FALSE]

dropStatementForgotten(s) == live' = live /\ gone' = gone \union {s}

dropStatement(s) == live' = live \ {s} /\ gone' = gone \union {s}

(* SQLFreeHandle: releaseStatement closes the cursor, dropStatement destroys
   the object and its implicit descriptors; the pointers that explicit
   descriptors hold are left. *)
FreeStmt(s) ==
    /\ s \in live
    /\ dropStatement(s)
    /\ desc' = [d \in Descriptors |->
                  IF d \in {m_builtInArd(s), m_builtInApd(s)} THEN NewDescriptor
                  ELSE NotifyBindingsHaveChanged(stmt[s].ard)[d]]
    /\ stmt' = [stmt EXCEPT ![s] = NewStatement(s)]
    /\ dm' = [dm EXCEPT ![s] = [prepared |-> FALSE, open |-> FALSE]]
    /\ strayed' = strayed \ {s} /\ misbound' = misbound \ {s}
    /\ UNCHANGED <<descs, touched>>

RevertApdOnly(s, d) ==
    [stmt[s] EXCEPT !.apd = IF s \in desc[d].asApd THEN m_builtInApd(s) ELSE @]

(* RevertAppDescriptor on a statement that d is registered with. *)
RevertAppDescriptor(s, d) ==
    [stmt[s] EXCEPT !.apd = IF s \in desc[d].asApd THEN m_builtInApd(s) ELSE @,
                    !.ard = IF s \in desc[d].asArd THEN m_builtInArd(s) ELSE @]

(* SQLFreeHandle: ReleaseDescriptor, then dropDescriptor. *)
FreeDesc(d) ==
    /\ d \in descs
    /\ descs' = descs \ {d}
    /\ stmt' = [s \in Stmts |-> IF s \in live THEN RevertAppDescriptor(s, d) ELSE stmt[s]]
    /\ desc' = [desc EXCEPT ![d] = NewDescriptor]
    /\ touched' = touched \union (gone \intersect (desc[d].asArd \union desc[d].asApd))
    /\ UNCHANGED <<live, gone, dm, strayed, misbound>>

-----------------------------------------------------------------------------
(* Which descriptor a statement uses.  The application passes an explicit
   descriptor, or the implicit one it read from the statement at the start. *)

(* SQL_ATTR_APP_ROW_DESC: DetachFromStatement, RegisterToStatement.  The
   bindings are not said to have changed. *)
SetArd(s, d) ==
    /\ s \in live /\ d \in descs \union {m_builtInApd(s)} /\ stmt[s].ard # d
    /\ desc' = [x \in Descriptors |-> [desc[x] EXCEPT !.asArd =
                  IF x = d THEN @ \union {s} ELSE IF x = stmt[s].ard THEN @ \ {s} ELSE @]]
    /\ stmt' = [stmt EXCEPT ![s].ard = d]
    /\ strayed' = strayed \union {s}
    /\ UNCHANGED <<handles, dm, misbound, touched>>

(* SQL_ATTR_APP_PARAM_DESC. *)
SetApd(s, d) ==
    /\ s \in live /\ d \in descs \union {m_builtInApd(s)} /\ stmt[s].apd # d
    /\ desc' = [x \in Descriptors |-> [desc[x] EXCEPT !.asApd =
                  IF x = d /\ d # m_builtInApd(s) THEN @ \union {s}
                  ELSE IF x = stmt[s].apd THEN @ \ {s} ELSE @]]
    /\ stmt' = [stmt EXCEPT ![s].apd = d]
    /\ UNCHANGED <<handles, dm, history>>

-----------------------------------------------------------------------------
(* Bindings, in explicit descriptors and those in use for rows (parameters are
   not supported). *)
AppDescs == descs \union {stmt[s].ard : s \in live \intersect Executing}

(* SQLBindCol, SQLSetDescRec and SQLSetDescField: the data pointer binds the
   record or unbinds it, any other field of a record unbinds it or leaves it. *)
SetDataPtr(d, b) ==
    /\ d \in AppDescs
    /\ desc' = [desc EXCEPT ![d].bound = b, ![d].changed = TRUE]
    /\ UNCHANGED <<handles, stmt, dm, history>>

(* Header fields, SQL_DESC_COUNT among them: it may cut the record off. *)
SetHeaderField(d) ==
    /\ d \in AppDescs
    /\ \E b \in {desc[d].bound, None} :
          desc' = [desc EXCEPT ![d].bound = b, ![d].changed = TRUE]
    /\ UNCHANGED <<handles, stmt, dm, history>>

CopyDesc(src, dst) ==
    /\ {src, dst} \subseteq AppDescs
    /\ desc' = [desc EXCEPT ![dst].bound = desc[src].bound, ![dst].changed = TRUE]
    /\ UNCHANGED <<handles, stmt, dm, history>>

(* SQLFreeStmt(SQL_UNBIND) clears the records and says so to nobody. *)
Unbind(s) ==
    /\ s \in live
    /\ desc' = [desc EXCEPT ![stmt[s].ard].bound = None]
    /\ strayed' = strayed \union {s}
    /\ UNCHANGED <<handles, stmt, dm, misbound, touched>>

-----------------------------------------------------------------------------
(* Preparing and executing.  The driver manager lets none of these through
   while it sees an open cursor; `dm` follows the ODBC state tables. *)

CloseCursorKeepsRow(s) ==
    /\ s \in live
    /\ stmt' = [stmt EXCEPT ![s].result = None, ![s].ended = FALSE]
    /\ desc' = NotifyBindingsHaveChanged(stmt[s].ard)
    /\ dm' = [dm EXCEPT ![s].open = FALSE]
    /\ UNCHANGED <<handles, history>>

CloseCursorUnnoticed(s) ==
    /\ s \in live
    /\ stmt' = [stmt EXCEPT ![s] = Closed(@)]
    /\ dm' = [dm EXCEPT ![s].open = FALSE]
    /\ UNCHANGED <<handles, desc, history>>

(* SQLFreeStmt(SQL_CLOSE) and SQLCloseCursor. *)
CloseCursor(s) ==
    /\ s \in live
    /\ stmt' = [stmt EXCEPT ![s] = Closed(@)]
    /\ desc' = NotifyBindingsHaveChanged(stmt[s].ard)
    /\ dm' = [dm EXCEPT ![s].open = FALSE]
    /\ UNCHANGED <<handles, history>>

(* SQLMoreResults always answers SQL_NO_DATA and does nothing: the driver
   manager takes the cursor for closed. *)
MoreResults(s) ==
    /\ s \in live /\ dm[s].open
    /\ dm' = [dm EXCEPT ![s].open = FALSE]
    /\ strayed' = strayed \union {s}
    /\ UNCHANGED <<handles, desc, stmt, misbound, touched>>

Prepare(s) ==
    /\ s \in live /\ ~dm[s].open
    /\ stmt' = [stmt EXCEPT ![s].isPrepared = TRUE, ![s].prepared = TRUE]
    /\ dm' = [dm EXCEPT ![s].prepared = TRUE]
    /\ UNCHANGED <<handles, desc, history>>

(* Prepare or Execute of the SPI statement throws, before or after it has
   closed the old prepared statement; m_isPrepared is left. *)
PrepareOrExecuteFails(s) ==
    /\ s \in live /\ ~dm[s].open
    /\ \E kept \in {stmt[s].prepared, FALSE} :
          stmt' = [stmt EXCEPT ![s].prepared = kept]
    /\ dm' = [dm EXCEPT ![s].prepared = FALSE]
    /\ UNCHANGED <<handles, desc, history>>

ExecuteDirectKeepsEnd(s) ==
    /\ s \in live /\ ~dm[s].open
    /\ stmt' = [stmt EXCEPT ![s].result = NewResult, ![s].isPrepared = FALSE,
                            ![s].prepared = FALSE]
    /\ \E rows \in BOOLEAN : dm' = [dm EXCEPT ![s] = [prepared |-> FALSE, open |-> rows]]
    /\ UNCHANGED <<handles, desc, history>>

(* Execute always brings a result set; the driver manager sees a cursor when
   it has columns.  The old one is not closed. *)
ExecuteDirect(s) ==
    /\ s \in live /\ ~dm[s].open
    /\ stmt' = [stmt EXCEPT ![s].result = NewResult, ![s].ended = FALSE,
                            ![s].isPrepared = FALSE, ![s].prepared = FALSE]
    /\ \E rows \in BOOLEAN : dm' = [dm EXCEPT ![s] = [prepared |-> FALSE, open |-> rows]]
    /\ UNCHANGED <<handles, desc, history>>

ExecutePreparedOnce(s) ==
    /\ s \in live /\ ~dm[s].open /\ dm[s].prepared /\ stmt[s].isPrepared
    /\ stmt' = [stmt EXCEPT ![s].result = NewResult, ![s].ended = FALSE,
                            ![s].isPrepared = FALSE]
    /\ \E rows \in BOOLEAN : dm' = [dm EXCEPT ![s].open = rows]
    /\ UNCHANGED <<handles, desc, history>>

ExecutePrepared(s) ==
    /\ s \in live /\ ~dm[s].open /\ dm[s].prepared /\ stmt[s].isPrepared
    /\ stmt' = [stmt EXCEPT ![s].result = NewResult, ![s].ended = FALSE]
    /\ \E rows \in BOOLEAN : dm' = [dm EXCEPT ![s].open = rows]
    /\ UNCHANGED <<handles, desc, history>>

(* SQLTables, SQLColumns, SQLGetTypeInfo, SQLPrimaryKeys, SQLForeignKeys: the
   cursor is closed first, and the call may fail after that. *)
Catalog(s) ==
    /\ s \in live /\ ~dm[s].open
    /\ desc' = NotifyBindingsHaveChanged(stmt[s].ard)
    /\ \/ /\ stmt' = [stmt EXCEPT ![s] = [Closed(@) EXCEPT !.result = NewResult,
                                                          !.isPrepared = FALSE]]
          /\ dm' = [dm EXCEPT ![s] = [prepared |-> FALSE, open |-> TRUE]]
       \/ /\ stmt' = [stmt EXCEPT ![s] = Closed(@)]
          /\ dm' = [dm EXCEPT ![s].prepared = FALSE]
    /\ UNCHANGED <<handles, history>>

-----------------------------------------------------------------------------
(* SQLFetch.  After the end of the result it returns at once; otherwise the
   bindings that changed are handed to the result set, and Move fetches n rows
   of the rowset or throws. *)
BoundForFetch(s) ==
    LET d == desc[stmt[s].ard]
    IN  IF d.changed THEN d.bound ELSE stmt[s].result.bound

Fetch(s) ==
    LET bound == BoundForFetch(s)
    IN  /\ s \in live /\ dm[s].open /\ ~stmt[s].ended
        /\ desc' = [desc EXCEPT ![stmt[s].ard].changed = FALSE]
        /\ misbound' = IF bound = desc[stmt[s].ard].bound THEN misbound
                       ELSE misbound \union {s}
        /\ \/ stmt' = [stmt EXCEPT ![s].result.bound = bound]
           \/ \E size \in 1..MaxRowset, n \in 0..MaxRowset :
                /\ n <= size /\ stmt[s].rowNumber + n <= MaxRows
                /\ stmt' = [stmt EXCEPT
                      ![s].result = [bound |-> bound, rows |-> @.rows + n, over |-> n < size],
                      ![s].rowNumber = @ + n,
                      ![s].ended = n < size]
        /\ UNCHANGED <<handles, dm, strayed, touched>>

HandleStep ==
    \/ \E s \in Stmts : AllocStmt(s) \/ FreeStmt(s)
    \/ \E d \in Descs : AllocDesc(d) \/ FreeDesc(d)
    \/ \E s \in Stmts, d \in Descriptors : SetArd(s, d) \/ SetApd(s, d)

BindingStep ==
    \/ \E d \in Descriptors, b \in Buffers \union {None} : SetDataPtr(d, b)
    \/ \E d \in Descriptors : SetHeaderField(d)
    \/ \E src, dst \in Descriptors : CopyDesc(src, dst)
    \/ \E s \in Stmts : Unbind(s)

CursorStep(s) ==
    \/ CloseCursor(s) \/ MoreResults(s)
    \/ Prepare(s) \/ PrepareOrExecuteFails(s)
    \/ ExecuteDirect(s) \/ ExecutePrepared(s) \/ Catalog(s)
    \/ Fetch(s)

Next == HandleStep \/ BindingStep \/ \E s \in Executing : CursorStep(s)

Spec == Init /\ [][Next]_vars

-----------------------------------------------------------------------------
(* An application that binds columns with SQLBindCol or through descriptor
   fields, and closes its cursors, has every fetch fill the buffers bound at
   that time and no others, whatever was bound for earlier results. *)
BindingsHonoured == misbound \subseteq strayed

(* ... and so does every other application (ODBCStatement.cc:290: "Wipe out
   all bindings in the ResultSet.").  Violated: SQL_UNBIND, a change of the
   descriptor and a cursor closed by SQLMoreResults leave old bindings. *)
BindingsAlwaysHonoured == misbound = {}

(* The descriptors a statement uses exist: SQLFreeHandle on one takes it away
   from every statement that has it in either role. *)
DescriptorsAlive ==
    \A s \in live : {stmt[s].ard, stmt[s].apd} \subseteq descs \union Implicit

(* Freeing a descriptor calls no statement that was destroyed.  Violated:
   dropStatement does not detach the statement from explicit descriptors. *)
NoDanglingStatement == touched = {}

(* What the driver manager lets through the driver is ready for: SQLExecute
   finds a prepared statement (FlightSqlStatement::ExecutePrepared asserts
   it), SQLFetch finds a result set (Fetch does not look). *)
SequenceHonoured ==
    \A s \in live :
        /\ dm[s].prepared => stmt[s].isPrepared /\ stmt[s].prepared
        /\ dm[s].open => stmt[s].result # None

(* SQL_ATTR_ROW_NUMBER counts the rows of the present result, when cursors are
   closed before the next one. *)
RowNumberIsCurrent ==
    \A s \in live \ strayed :
        stmt[s].rowNumber = IF stmt[s].result = None THEN 0 ELSE stmt[s].result.rows

(* SQLFetch says SQL_NO_DATA without asking the result set only when this
   result has come to its end, never because an earlier one had. *)
EndIsOfThisResult ==
    \A s \in live : stmt[s].ended => stmt[s].result # None /\ stmt[s].result.over
================================================================================
