------------------------------- MODULE ResultSet -------------------------------
(***************************************************************************)
(* flight_sql/flight_sql_result_set.cc and flight_sql_result_set_column.*: *)
(* the cursor over the record batches of a result, the columns bound to    *)
(* application buffers, SQLGetData and the row status array.               *)
(*                                                                         *)
(* The calls of one statement are serialised by its lock, so a call is     *)
(* never overtaken by another; Move is a loop over batches and is modelled *)
(* iteration by iteration.  chunk_buffer_ appears as what ChunkBuffer      *)
(* establishes of it: GetNext hands out batches, empty ones included, then *)
(* reports the end, or an error after which it is closed.                  *)
(*                                                                         *)
(* Making an accessor may fail, for a binding, for SQLGetData, and for a   *)
(* batch that has been taken already.  Where that leads to an accessor     *)
(* that is missing, whose array is gone or too short, or past the rows of  *)
(* the batch, the call goes astray and is not followed any further.        *)
(*                                                                         *)
(* Rows are numbered through the result: ends[b] is the number of the last *)
(* row of the b-th batch received.                                         *)
(***************************************************************************)
EXTENDS Integers, Sequences, FiniteSets

CONSTANTS
    NumColumns,   \* columns of the result
    Types,        \* C types an application may ask a column in
    None,         \* no binding, no accessor
    BindTypes,    \* subset of {"column", "row"}: SQL_DESC_BIND_TYPE
    NoAccessor,   \* C types the columns can not be read as
    MayFail,      \* streams and conversions may fail
    MaxRowset,    \* largest rowset
    MaxBatches,   \* bound: batches a stream may bring
    MaxRows       \* bound: rows of the result

ASSUME ResultSetAssumption ==
    /\ NumColumns \in Nat \ {0} /\ MaxRowset \in Nat \ {0}
    /\ MaxBatches \in Nat /\ MaxRows \in Nat
    /\ None \notin Types /\ Types # {} /\ NoAccessor \subseteq Types
    /\ BindTypes \subseteq {"column", "row"} /\ MayFail \in BOOLEAN

Columns == 1..NumColumns

VARIABLES
    source,      \* chunk_buffer_: "open", "ended" or "closed"
    ends,        \* the batches received, by the number of their last row
    chunk,       \* index of current_chunk_, 0 when its data is nullptr
    row,         \* current_row_
    columns,     \* columns_
    numBinding,  \* num_binding_
    propagated,  \* columns ODBCStatement::Fetch has passed the bindings of on to,
                 \* all of them when m_hasBindingsChanged is clear
    offsets,     \* get_data_offsets_
    resetGetData,
    call,        \* where the statement's thread is
    move,        \* the Move in progress, or the last one
    status,      \* the application's row status array and the cells behind it
    reply,       \* what the last GetData did
    delivered,   \* history: rows brought by the Moves that returned
    passed,      \* history: number of the row the cursor stands behind
    offsetOf,    \* history: the row an offset was left by
    mishap       \* history: accessors could not be made for a batch that had
                 \* been taken: "never", for the last batch "now", or "once"

cursor  == <<source, ends, chunk, row, mishap>>
bindings == <<columns, numBinding, propagated>>
getdata == <<offsets, resetGetData, reply, offsetOf>>
vars == <<cursor, bindings, getdata, call, move, status, delivered, passed>>

End(b)   == IF b = 0 THEN 0 ELSE ends[b]
RowsOf(b) == End(b) - End(b - 1)
Bound    == {c \in Columns : columns[c].binding # None}
Fetched  == Len(move.pending)

Phases   == {"none", "bind", "first", "loop", "released", "astray", "moveAstray"}
Statuses == {"unset", "success", "info", "error", "norow"}
(* A value is unread, read in part, or read to its end (-1). *)
Offsets  == {"start", "part", "done"}
Cells    == 1..(2 * MaxRowset)

TypeOK ==
    /\ source \in {"open", "ended", "closed"}
    /\ ends \in Seq(Nat)
    /\ chunk \in 0..Len(ends) /\ row \in Nat
    /\ mishap \in {"never", "now", "once"}
    /\ columns \in [Columns -> [binding : Types \union {None}, array : 0..Len(ends),
                                type : Types \union {None}, batch : 0..Len(ends),
                                cast : {"none", "own", "other"}]]
    /\ numBinding = Cardinality(Bound) /\ propagated \in 0..NumColumns
    /\ offsets \in [Columns -> Offsets] /\ resetGetData \in BOOLEAN
    /\ call \in Phases
    /\ move \in [rows : 0..MaxRowset, bindType : BindTypes, pending : Seq(Nat),
                 ok : BOOLEAN]
    /\ status \in [Cells -> Statuses]
    /\ reply \in [kind : {"none", "true", "false"}, from : Nat]
    /\ delivered \in Seq(Nat) /\ passed \in Nat
    /\ offsetOf \in [Columns -> Nat]

NoReply == [kind |-> "none", from |-> 0]

Init ==
    /\ source = "open" /\ ends = <<>> /\ chunk = 0 /\ row = 0 /\ mishap = "never"
    /\ columns = [c \in Columns |-> [binding |-> None, array |-> 0, type |-> None,
                                     batch |-> 0, cast |-> "none"]]
    /\ numBinding = 0 /\ propagated = NumColumns
    /\ offsets = [c \in Columns |-> "start"] /\ resetGetData = FALSE
    /\ call = "none"
    /\ move \in [rows : {0}, bindType : BindTypes, pending : {<<>>}, ok : {FALSE}]
    /\ status = [i \in Cells |-> "unset"]
    /\ reply = NoReply
    /\ delivered = <<>> /\ passed = 0
    /\ offsetOf = [c \in Columns |-> 0]

-----------------------------------------------------------------------------
(* FlightSqlResultSetColumn: `array` is the batch original_array_ belongs to,
   `type` and `batch` the target type and the batch of cached_accessor_, `cast`
   what cached_casted_array_ holds: nothing, the accessor's own array, or
   another one, and then nobody holds the array of the accessor. *)

(* CreateAccessor makes an accessor ... *)
Made(col, t) == [col EXCEPT !.type = t, !.batch = col.array, !.cast = "own"]

(* ... or CastArray throws, or the cast array has no accessor for the type. *)
Unmade(col, t) ==
    {[col EXCEPT !.cast = cast] : cast \in (IF MayFail THEN {col.cast} ELSE {})
                                     \union (IF t \in NoAccessor THEN {"other"} ELSE {})}

SetBindingKeepsAccessor(col, t) == [col EXCEPT !.binding = t]

(* The accessor is made when the column has an array and none of that type. *)
NeedsAccessor(col, t) == col.array # 0 /\ (col.cast = "none" \/ col.type # t)

AccessorMissing(col) == col.array # 0 /\ col.cast # "none" /\ col.type = None

SetBinding(col, t) ==
    LET bound == [col EXCEPT !.binding = t]
    IN  IF NeedsAccessor(col, t) THEN Made(bound, t) ELSE bound

ResetBinding(col) ==
    [col EXCEPT !.binding = None, !.type = None, !.batch = 0, !.cast = "none"]

(* A new batch: the cached accessor is rebuilt for the type it had, or for
   the binding when there was none. *)
RebuiltAs(col) == IF col.type # None THEN col.type ELSE col.binding

ResetAccessorKeepsArray(col, b) == [col EXCEPT !.array = b]

ResetAccessor(col, b) ==
    LET moved == [col EXCEPT !.array = b]
    IN  IF RebuiltAs(col) = None THEN [moved EXCEPT !.batch = 0, !.cast = "none"]
        ELSE Made(moved, RebuiltAs(col))

GetAccessorForGetData(col, t) == IF col.type = t THEN col ELSE Made(col, t)

(* An accessor can be read up to a row of its batch. *)
Readable(col, last) ==
    col.type # None /\ col.batch # 0 /\ col.cast = "own" /\ last <= RowsOf(col.batch)

-----------------------------------------------------------------------------
(* BindColumn, a null buffer unbinds.  Its only caller is ODBCStatement::Fetch,
   which passes on the binding of every column when the bindings have changed,
   starting anew when it failed the last time, and calls Move next. *)
Propagates(c) ==
    \/ call = "none" /\ c = 1
    \/ call = "bind" /\ c = propagated + 1

BindColumnMiscounts(c, t) ==
    /\ Propagates(c)
    /\ call' = "bind" /\ propagated' = c
    /\ IF t = None
       THEN /\ numBinding' = numBinding - 1
            /\ columns' = [columns EXCEPT ![c] = ResetBinding(@)]
       ELSE /\ numBinding' = numBinding + 1
            /\ ~AccessorMissing(columns[c])
            /\ NeedsAccessor(columns[c], t) => t \notin NoAccessor
            /\ columns' = [columns EXCEPT ![c] = SetBinding(@, t)]
    /\ UNCHANGED <<cursor, getdata, move, status, delivered, passed>>

BindColumn(c, t) ==
    /\ Propagates(c)
    /\ call' = "bind" /\ propagated' = c
    /\ IF t = None
       THEN /\ numBinding' = numBinding - (IF c \in Bound THEN 1 ELSE 0)
            /\ columns' = [columns EXCEPT ![c] = ResetBinding(@)]
       ELSE /\ numBinding' = numBinding + (IF c \in Bound THEN 0 ELSE 1)
            /\ ~AccessorMissing(columns[c])
            /\ NeedsAccessor(columns[c], t) => t \notin NoAccessor
            /\ columns' = [columns EXCEPT ![c] = SetBinding(@, t)]
    /\ UNCHANGED <<cursor, getdata, move, status, delivered, passed>>

(* No accessor can be made: SQLFetch fails, the column is bound and counted. *)
BindColumnFails(c, t) ==
    /\ Propagates(c) /\ NeedsAccessor(columns[c], t) /\ ~AccessorMissing(columns[c])
    /\ \E unmade \in Unmade([columns[c] EXCEPT !.binding = t], t) :
          columns' = [columns EXCEPT ![c] = unmade]
    /\ numBinding' = numBinding + (IF c \in Bound THEN 0 ELSE 1)
    /\ call' = "none" /\ propagated' = c - 1
    /\ move' = [move EXCEPT !.ok = FALSE]
    /\ UNCHANGED <<cursor, getdata, status, delivered, passed>>

(* SetBinding asks the accessor that could not be made for its type. *)
BindColumnAstray(c) ==
    /\ Propagates(c) /\ AccessorMissing(columns[c])
    /\ call' = "astray"
    /\ UNCHANGED <<cursor, bindings, getdata, move, status, delivered, passed>>

ResetOffsetsForgotten == UNCHANGED <<offsets, offsetOf>>

(* "Reset GetData value offsets." *)
ResetOffsets ==
    IF numBinding # NumColumns /\ resetGetData
    THEN /\ offsets' = [c \in Columns |-> "start"]
         /\ offsetOf' = [c \in Columns |-> 0]
    ELSE UNCHANGED <<offsets, offsetOf>>

-----------------------------------------------------------------------------
(* Move(rows, bind_offset, bind_type, row_status_array); the application is
   taken to pass a row status array and to clear it. *)

StartMove(n, bindType) ==
    /\ call \in {"none", "bind"} /\ propagated = NumColumns
    /\ move' = [rows |-> n, bindType |-> bindType, pending |-> <<>>, ok |-> FALSE]
    /\ status' = [i \in Cells |-> "unset"]
    /\ reply' = NoReply
    /\ IF chunk = 0
       THEN call' = "first" /\ UNCHANGED <<offsets, offsetOf>>
       ELSE call' = "loop" /\ ResetOffsets
    /\ UNCHANGED <<cursor, bindings, resetGetData, delivered, passed>>

(* chunk_buffer_.GetNext(&current_chunk_) *)
TakeBatch(n) ==
    /\ source = "open" /\ Len(ends) < MaxBatches /\ End(Len(ends)) + n <= MaxRows
    /\ ends' = Append(ends, End(Len(ends)) + n)
    /\ chunk' = Len(ends) + 1
    /\ UNCHANGED source

(* ... and ResetAccessor on every column. *)
ReceiveBatch(n) ==
    /\ TakeBatch(n)
    /\ \A c \in Columns : RebuiltAs(columns[c]) \notin NoAccessor
    /\ columns' = [c \in Columns |-> ResetAccessor(columns[c], Len(ends) + 1)]
    /\ mishap' = IF mishap = "now" THEN "once" ELSE mishap

(* Transform throws before any column, or ResetAccessor for one of them. *)
ResetAccessorFails ==
    \/ MayFail /\ UNCHANGED columns
    \/ \E c \in Columns :
        /\ RebuiltAs(columns[c]) # None
        /\ \A d \in 1..(c - 1) : RebuiltAs(columns[d]) \notin NoAccessor
        /\ \E unmade \in Unmade([columns[c] EXCEPT !.array = Len(ends) + 1],
                               RebuiltAs(columns[c])) :
              columns' = [d \in Columns |->
                  IF d < c THEN ResetAccessor(columns[d], Len(ends) + 1)
                  ELSE IF d = c THEN unmade ELSE columns[d]]

NoMoreBatches ==
    /\ source' = IF source = "open" THEN "ended" ELSE source
    /\ UNCHANGED <<ends, chunk, row, mishap, columns>>

StreamFails ==
    /\ MayFail /\ source = "open"
    /\ source' = "closed"
    /\ UNCHANGED <<ends, chunk, row, mishap, columns>>

FirstBatch ==
    /\ call = "first"
    /\ \E n \in 0..MaxRows : ReceiveBatch(n)
    /\ ResetOffsets
    /\ call' = "loop"
    /\ UNCHANGED <<row, numBinding, propagated, resetGetData, reply, move, status,
                   delivered, passed>>

(* "return 0": the row status array is left alone. *)
NoFirstBatch ==
    /\ call = "first"
    /\ NoMoreBatches
    /\ call' = "none" /\ move' = [move EXCEPT !.ok = TRUE]
    /\ UNCHANGED <<numBinding, propagated, getdata, status, delivered, passed>>

(* The rest of the batch is an unsigned difference: behind its end it is more
   than anyone wants. *)
RowsToFetch ==
    LET wanted == move.rows - Fetched
        rest   == RowsOf(chunk) - row
    IN  IF rest < 0 \/ wanted <= rest THEN wanted ELSE rest

AtBatchEnd == call = "loop" /\ Fetched < move.rows /\ RowsToFetch = 0

NextBatchKeepsRow ==
    /\ AtBatchEnd
    /\ \E n \in 0..MaxRows : ReceiveBatch(n)
    /\ UNCHANGED <<row, numBinding, propagated, getdata, call, move, status, delivered,
                   passed>>

NextBatch ==
    /\ AtBatchEnd
    /\ \E n \in 0..MaxRows : ReceiveBatch(n)
    /\ row' = 0
    /\ UNCHANGED <<numBinding, propagated, getdata, call, move, status, delivered,
                   passed>>

(* An exception after the batch was taken: Move fails with the new batch, the old
   row, and the accessors of some columns as they were. *)
BatchMisplaced ==
    /\ call = "first" \/ AtBatchEnd
    /\ \E n \in 0..MaxRows : TakeBatch(n)
    /\ ResetAccessorFails
    /\ call' = "none" /\ mishap' = "now" /\ passed' = passed + row
    /\ UNCHANGED <<row, numBinding, propagated, getdata, move, status, delivered>>

(* ThrowIfNotOK in GetNext: what the loop had converted is not reported. *)
MoveFails ==
    /\ call = "first" \/ AtBatchEnd
    /\ StreamFails
    /\ call' = "none"
    /\ UNCHANGED <<numBinding, propagated, getdata, move, status, delivered, passed>>

(* The rows behind the end of the batch, or a bound column that can not be read
   that far. *)
BeyondRows(n) ==
    \/ row > RowsOf(chunk)
    \/ \E c \in Bound : ~Readable(columns[c], row + n)

MoveGoesAstray ==
    /\ call = "loop" /\ RowsToFetch > 0 /\ BeyondRows(RowsToFetch)
    /\ call' = "moveAstray"
    /\ UNCHANGED <<cursor, bindings, getdata, move, status, delivered, passed>>

(* Convert n rows for every bound column.  Each bound column fills in success
   and then notes its own truncations, so the last one decides; `info` are the
   rows where its value does not fit.  Without a bound column the statuses are
   not touched. *)
ConvertRows ==
    LET n    == RowsToFetch
        rows == IF Bound = {} THEN {} ELSE (Fetched + 1)..(Fetched + n)
    IN  /\ call = "loop" /\ n > 0 /\ ~BeyondRows(n)
        /\ \E info \in SUBSET rows :
              status' = [i \in Cells |-> CASE i \in info -> "info"
                                          [] i \in rows \ info -> "success"
                                          [] OTHER -> status[i]]
        /\ move' = [move EXCEPT
              !.pending = @ \o [i \in 1..n |-> End(chunk - 1) + row + i]]
        /\ row' = row + n
        /\ passed' = passed + n
        /\ UNCHANGED <<source, ends, chunk, mishap, bindings, getdata, call, delivered>>

(* The conversion of row i throws for some bound column.  The handler marks n statuses as
   errors from where the pointer into the array stands; row-wise binding has
   moved it on by one for every row converted. *)
ConversionFails ==
    LET n == RowsToFetch
    IN  /\ MayFail /\ call = "loop" /\ n > 0
        /\ Bound # {}
        /\ \E i \in 1..n :
            LET first == IF move.bindType = "row" THEN Fetched + i ELSE Fetched + 1
            IN  status' = [k \in Cells |->
                    CASE k \in first..(first + n - 1) -> "error"
                      [] k \in (Fetched + 1)..(first - 1) -> "success"
                      [] OTHER -> status[k]]
        /\ call' = "none"
        /\ UNCHANGED <<cursor, bindings, getdata, move, delivered, passed>>

MarkNoRowOffByOne == [i \in Cells |-> IF i \in (Fetched + 1)..(move.rows + 1) THEN "norow" ELSE status[i]]

MarkNoRow == [i \in Cells |-> IF i \in (Fetched + 1)..move.rows THEN "norow" ELSE status[i]]

ReturnRows ==
    /\ call' = "none"
    /\ status' = MarkNoRow
    /\ move' = [move EXCEPT !.ok = TRUE]
    /\ delivered' = delivered \o move.pending
    /\ UNCHANGED <<numBinding, propagated, getdata, passed>>

MoveReturns ==
    /\ call = "loop" /\ Fetched = move.rows
    /\ ReturnRows
    /\ UNCHANGED <<cursor, columns>>

LastBatchKeepsTrying ==
    /\ AtBatchEnd
    /\ NoMoreBatches
    /\ UNCHANGED <<numBinding, propagated, getdata, call, move, status, delivered, passed>>

LastBatch ==
    /\ AtBatchEnd
    /\ NoMoreBatches
    /\ ReturnRows

-----------------------------------------------------------------------------
(* SQLGetData.  The driver announces SQL_GD_ANY_COLUMN and SQL_GD_ANY_ORDER
   only: the column is unbound and the rowset has one row. *)
CanGetData(c) ==
    /\ call = "none" /\ c \notin Bound
    /\ move.ok /\ move.rows = 1 /\ Fetched = 1

GetDataAgain(c) ==
    /\ CanGetData(c) /\ offsets[c] = "done"
    /\ resetGetData' = TRUE
    /\ reply' = [kind |-> "false", from |-> 0]
    /\ UNCHANGED <<cursor, bindings, offsets, offsetOf, call, move, status,
                   delivered, passed>>

(* The offset an accessor leaves: at the value's end, after a part of it, or
   where it was (no room for a character, a value of fixed length, a null). *)
Readings(c) == {"done", "part", offsets[c]}

GetsAccessor(c, t) ==
    LET column == columns[c]
    IN  /\ column.type = t \/ t \notin NoAccessor
        /\ Readable(GetAccessorForGetData(column, t), row)

GetData(c, t) ==
    LET column == GetAccessorForGetData(columns[c], t)
        from   == End(column.batch - 1) + row
    IN  /\ CanGetData(c) /\ offsets[c] # "done" /\ GetsAccessor(c, t)
        /\ resetGetData' = TRUE
        /\ columns' = [columns EXCEPT ![c] = column]
        /\ \E reading \in Readings(c) :
            /\ offsets' = [offsets EXCEPT ![c] = reading]
            /\ offsetOf' = [offsetOf EXCEPT ![c] = IF reading = "start" THEN 0 ELSE from]
            /\ reply' = [kind |-> "true", from |-> from]
        /\ UNCHANGED <<cursor, numBinding, propagated, call, move, status, delivered,
                       passed>>

(* A null for which the application gave no indicator. *)
GetDataFails(c, t) ==
    /\ MayFail /\ CanGetData(c) /\ offsets[c] # "done" /\ GetsAccessor(c, t)
    /\ resetGetData' = TRUE
    /\ columns' = [columns EXCEPT ![c] = GetAccessorForGetData(@, t)]
    /\ reply' = NoReply
    /\ UNCHANGED <<cursor, numBinding, propagated, offsets, offsetOf, call, move, status,
                   delivered, passed>>

(* No accessor can be made. *)
GetDataUnmade(c, t) ==
    /\ CanGetData(c) /\ offsets[c] # "done"
    /\ columns[c].type # t /\ columns[c].array # 0
    /\ \E unmade \in Unmade(columns[c], t) : columns' = [columns EXCEPT ![c] = unmade]
    /\ resetGetData' = TRUE
    /\ reply' = NoReply
    /\ UNCHANGED <<cursor, numBinding, propagated, offsets, offsetOf, call, move, status,
                   delivered, passed>>

(* The column has no array, or one that ends before the row; or the accessor
   outlived its array. *)
GetDataAstray(c, t) ==
    /\ CanGetData(c) /\ offsets[c] # "done"
    /\ columns[c].type = t \/ t \notin NoAccessor \/ columns[c].array = 0
    /\ ~Readable(GetAccessorForGetData(columns[c], t), row)
    /\ call' = "astray"
    /\ UNCHANGED <<cursor, bindings, getdata, move, status, delivered, passed>>

CancelKeepsStream ==
    /\ call = "none" /\ chunk' = 0
    /\ UNCHANGED <<source, ends, row, mishap, bindings, getdata, call, move, status,
                   delivered, passed>>

(* SQLCancel; the statement's lock keeps it out of a Move. *)
Cancel ==
    /\ call = "none"
    /\ source' = "closed" /\ chunk' = 0
    /\ UNCHANGED <<ends, row, mishap, bindings, getdata, call, move, status, delivered,
                   passed>>

(* closeCursor, which then drops the result set. *)
Close ==
    /\ call = "none"
    /\ source' = "closed" /\ chunk' = 0 /\ call' = "released"
    /\ UNCHANGED <<ends, row, mishap, bindings, getdata, move, status, delivered,
                   passed>>

MoveStep ==
    \/ FirstBatch \/ NoFirstBatch
    \/ NextBatch \/ LastBatch \/ MoveFails \/ BatchMisplaced
    \/ ConvertRows \/ ConversionFails
    \/ MoveReturns \/ MoveGoesAstray

Next ==
    \/ \E c \in Columns, t \in Types \union {None} : BindColumn(c, t)
    \/ \E c \in Columns, t \in Types : BindColumnFails(c, t)
    \/ \E c \in Columns : BindColumnAstray(c)
    \/ \E n \in 1..MaxRowset, b \in BindTypes : StartMove(n, b)
    \/ MoveStep
    \/ \E c \in Columns : GetDataAgain(c)
    \/ \E c \in Columns, t \in Types : GetData(c, t) \/ GetDataFails(c, t)
    \/ \E c \in Columns, t \in Types : GetDataUnmade(c, t) \/ GetDataAstray(c, t)
    \/ Cancel \/ Close

Spec == Init /\ [][Next]_vars

(* A Move goes on by itself: GetNext answers, as ChunkBuffer shows. *)
FairSpec == Spec /\ WF_vars(MoveStep)

-----------------------------------------------------------------------------
LastRow == delivered[Len(delivered)]
OnARow  == call = "none" /\ move.ok /\ Fetched > 0

(* Unless the accessors of the last batch could not be made, current_row_ never
   lies behind the end of current_chunk_, so batch_rows - current_row_ in Move
   (an unsigned subtraction) does not wrap; Close and Cancel drop the batch but
   keep current_row_. *)
RowInBatch == mishap # "now" /\ chunk # 0 => row <= RowsOf(chunk)

(* While Move converts rows, every bound column has an accessor of the type
   it is bound as, and it reads the current batch: neither a new batch, nor a
   new binding, nor SQLGetData, each of them failing or not, leaves an old one
   behind.  Two things are left out: the batch whose accessors could not be
   made when it came (mishap), and whether somebody still holds the accessor's
   array (cast). *)
BindingsHonoured ==
    call = "loop" /\ mishap # "now" =>
        \A c \in Bound : columns[c].type = columns[c].binding /\ columns[c].batch = chunk

(* SQLGetData reads the row the last SQLFetch brought. *)
GetDataReadsLastRow == reply.kind = "true" => reply.from = LastRow

(* What SQLGetData remembers of a value it remembers of the current row: it
   neither skips the beginning of a value nor reports SQL_NO_DATA for a value
   nobody has read. *)
OffsetsAreCurrent ==
    OnARow /\ move.rows = 1 =>
        \A c \in Columns \ Bound : offsets[c] # "start" => offsetOf[c] = LastRow

(* After a fetch that brought rows into bound columns the status array says
   which of its entries are rows, and nothing behind it was written. *)
StatusTellsRows ==
    OnARow /\ Bound # {} =>
        \A i \in Cells :
            status[i] \in CASE i <= Fetched -> {"success", "info"}
                            [] i > Fetched /\ i <= move.rows -> {"norow"}
                            [] OTHER -> {"unset"}

(* A fetch, failed or not, writes the statuses of its rowset only. *)
StatusInBounds == \A i \in Cells : i > move.rows => status[i] = "unset"

(* No call asks an accessor that is missing, or one whose array is gone or too
   short, and no row is counted behind the end of a batch. *)
NeverAstray == call \notin {"astray", "moveAstray"}

(* A Move returns or throws, unless it goes astray. *)
MoveReturnsAtLast == call \in {"first", "loop"} ~> call \in {"none", "moveAstray"}

Moving == call \in {"first", "loop", "moveAstray"}

Cursor == INSTANCE RowCursor WITH
    read  <- delivered,
    pos   <- passed - (IF Moving THEN Fetched ELSE 0),
    asked <- IF Moving THEN move.rows ELSE 0,
    over  <- source # "open",
    lost  <- mishap # "never"

(* The result set is a row cursor. *)
ImplementsCursor == Cursor!Spec
================================================================================
