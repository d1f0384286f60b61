# Verification of the GizmoSQL ODBC driver

TLA+ models of the driver, TLC runs over small instances, and TLAPS proofs for
every value of the constants. Paths below are relative to `src/`.

    tlasany M.tla                      # parse
    tlc -workers 2 -config X.cfg MCM   # model-check; the pairs are listed in PROJECT.json
    tlapm M.tla                        # check the proofs of module M

`PROJECT.json` is the index: components, runs, the mutant that shows each
property can be broken, the source lines each definition stands for, the
disagreements found, the hazards, the theorems.

## 1. The system

The driver is a shared library that an ODBC driver manager loads into an
application. Calls go down four layers:

| layer | code | what it does |
|---|---|---|
| entry points | `odbc_entry/odbc_entry.cc` | the `SQL...` functions; take the lock of the handle, turn exceptions into diagnostics |
| ODBC objects | `odbcabstraction/odbc_impl/*` | environment, connection, statement, descriptor |
| service interface (SPI) | `odbcabstraction/include/odbcabstraction/spi/*.h` | abstract connection, statement, result set |
| Flight SQL | `flight_sql/*`, with `odbcabstraction/.../blocking_queue.h` | the SPI over Arrow Flight SQL: streams, accessors, authentication, catalog |

### Components

**BlockingQueue** (`blocking_queue.h`). State: a ring of cells with `left_`,
`right_`, `buffer_size_`, the flag `closed_`, `active_threads_`, one mutex, the
condition variables `not_empty_` and `not_full_`, the vector of threads.
Operations: `AddProducer` starts a thread that calls its supplier under the
mutex until the supplier has nothing left, `Pop`, `Close`. Hard: wake-ups, the
end of threads, Close at any moment, the timed wait of the extended buffer.
Correct when it is a bounded FIFO channel, never reports the end early, never
loses a wake-up, and Close leaves no thread behind.

**FlightStreamChunkBuffer** (`flight_sql_stream_chunk_buffer.cc`). One stream
reader and one queue producer per endpoint of a result. `GetNext` pops, and
closes everything when it pops an error; `Close` cancels the streams and closes
the queue; the destructor closes. Hard: a stream that fails, never answers or
ends while others run; a constructor that fails half way. Correct when every
endpoint's batches come in order and once, an error is never taken for the end,
and Close always returns.

**FlightSqlResultSet** (`flight_sql_result_set.cc`, `..._column.*`). The cursor
(`current_chunk_`, `current_row_`), per column the binding, the cached accessor
and the array it was made from, `get_data_offsets_`, `num_binding_`. `Move`
converts a rowset that may span several batches; `GetData` reads one value in
pieces; `BindColumn`, `Cancel`, `Close`. Hard: empty batches and short ones,
accessors of a batch that is gone, offsets of a row that is gone, failures in
the middle of a rowset. Correct when it is a cursor: rows in order, once, none
left out.

**ODBCStatement** and **ODBCDescriptor** (`ODBCStatement.cc`,
`ODBCDescriptor.cc`). The statement's prepared state, result set, row number and
end flag; the four descriptors it uses, of which the application may replace two
by explicit descriptors shared between statements; `m_hasBindingsChanged` tells
`Fetch` to hand bindings to the result set. Hard: the orders of calls, with
failing ones, that an application may make; sharing; the lifetime of handles.
Correct when a fetch fills the buffers bound now, no handle in use is a
destroyed one, and what the driver manager lets through finds the state it
needs.

**ODBCConnection**, **FlightSqlConnection**, **authentication**,
**GetInfoCache**. `m_isConnected`, `closed_`, the attribute `CONNECTION_DEAD`
and the client pointer all say whether there is a session;
`call_options_.headers` grows with each connect; `m_statements` owns the
statements, which keep a reference to the client and a copy of the headers. An
external login polls the server up to 120 times while a user logs in with a
browser. The cache loads what the server says of itself once. Hard: repeated
connects on one handle, failures at every point, a login that is late. Correct
when the four states agree, no statement outlives its client, every request
carries the authorization of its session, and nobody gets a session without a
login.

**Handles** (`ODBCHandle.h`, `ODBCEnvironment.cc`, the allocation and freeing in
`odbc_entry.cc`). State: each handle's mutex, the lists `m_connections`,
`m_statements`, `m_descriptors` that own the handles below. Operations:
allocate, free, disconnect, any call on a statement, `SQLCancel`,
`SQLGetDiag...` (which takes no lock), free the environment. Hard: a handle is
freed in two halves, the second without any lock; a call may wait for the server
with the lock held. Correct when no destroyed handle is touched, lists are not
changed by two threads, and every call returns.

**Descriptor records** (`ODBCDescriptor.cc`, `DescriptorRecord.h`). Records of
several columns, `m_highestOneBasedBoundRecord`, `m_hasBindingsChanged`, and the
bindings the result set was given. Hard: binding, unbinding, cutting off and
growing again in any order, with three functions that bind. Correct when
`SQL_DESC_COUNT` reaches the last bound record and a fetch writes exactly the
bound buffers.

**Diagnostics and text** (`diagnostics.*`, `ODBCHandle.h`, `EncodingUtils.h`,
`AttributeUtils.h`). Records of errors and warnings per handle, the ODBC version
that chooses their states; some thirty functions that return text, each with its
own idea of lengths. Hard: calls that warn and then throw, calls that do not
clear, buffers too short, characters of several bytes. Correct when the first
record explains the return code and cut text is announced and can be had with a
second call.

**Attributes and execution** (the attribute functions of `ODBCStatement.cc` and
`ODBCConnection.cc`, `flight_sql_statement.cc`, `flight_sql_connection.cc`).
Fields in three kinds of place, a tracking statement on the connection whose
attributes new statements inherit, `flight_info_`, `prepared_statement_`,
timeouts. Hard: what survives a failed call, a reconnection, a result of another
kind. Correct when a statement runs under what was asked for, and cancelling,
counting and closing are about the right query.

**Type mapping, catalog, values, server information, configuration**
(`utils.cc`, `flight_sql_result_set_metadata.cc`,
`flight_sql_statement_get_*.cc`, `accessors/*`, `json_converter.cc`,
`get_info_cache.cc`, `ODBCConnection.cc:38`, `config/*`). Functions of their
arguments. Hard: a dozen tables over the same types written apart, search
patterns turned into regular expressions, arithmetic of fixed width, rows of
server information in any order, two parsers for connection strings. Correct
when they agree with each other and with a plain definition of what they are
for.

**The others** (driver and logging, DSN windows) and the parts left out of the
above are listed with their reason in `PROJECT.json` and in section 6.

### How they interact

A fetch goes `SQLFetch` → `ODBCStatement::Fetch` → (`BindColumn`)* → `Move` →
`FlightStreamChunkBuffer::GetNext` → `BlockingQueue::Pop`, in the application's
thread. The other threads of the driver are the queue's producers, one per
endpoint, which meet the application in the queue only. Application threads meet
in the handles: every entry point takes the lock of the handle it was given, and
that lock only, so a connection, its statements and its explicit descriptors are
under three kinds of lock. Pointers go down (connection owns statements own
result sets) and sideways (an explicit descriptor keeps pointers to the
statements that use it).

## 2. Modules

| module | models | state | composed with |
|---|---|---|---|
| `BoundedChannel` | what a queue promises its owner (abstract) | queue, open, live, a pending request | refined by `BlockingQueue` |
| `BlockingQueue` | the queue, thread by thread | ring, mutex, condition variables, program counters | — |
| `BatchSource` | what the read-ahead promises the result set (abstract) | batches brought and handed out, streams failed and left, a pending request | refined by `ChunkBuffer` |
| `ChunkBuffer` | the read-ahead of one result | streams, the call of the owner | `INSTANCE BlockingQueue`, one producer per endpoint |
| `RowCursor` | what a result set promises (abstract) | rows read, position, end | refined by `ResultSet` |
| `ResultSet` | the cursor with its bindings | batch, row, columns, offsets, statuses | takes from the chunk buffer what `ChunkBuffer` shows |
| `Statement` | statements and descriptors of a connection | statements, descriptors, the driver manager's view | takes a result set to be what `ResultSet` shows |
| `Connection` | one connection handle | session, headers, statements, login, cache | — |
| `Handles` | every handle at the granularity of its lock | who exists, lists, mutexes, a program counter per thread | — |
| `Descriptor` | the records of a row, another application and an implementation descriptor | records, count, flag, bindings of the result set | — |
| `Text` | copying text into and out of buffers | none | used by `Diagnostics` |
| `Diagnostics` | return codes, records, functions that return text | records, version, the last call | `EXTENDS Text` |
| `Attributes` | where each attribute is kept, which calls are refused | none | used by `Execution` |
| `Execution` | what statements ask of the server | attributes, queries, prepared statements of the server | `EXTENDS Attributes` |
| `TypeMapping`, `CatalogRows` | tables of types; rows that describe a column | none | `CatalogRows EXTENDS TypeMapping` |
| `Columns` | a column in its descriptor, in the catalog and in the buffers | the mode of the connection, the column | `INSTANCE CatalogRows` |
| `Catalog` | requests and patterns of the catalog functions | none | `EXTENDS CatalogRows` |
| `CellConversion` | a cell read in pieces; timestamps, times, dates | the cell, the offset, what was delivered | `EXTENDS CxxIntegers` |
| `CxxIntegers`, `Versions` | division in C++; version texts | none | — |
| `Values` | decimals, JSON | none | `EXTENDS Versions, CxxIntegers` |
| `ServerInfo` | the load of the cache and what `SQLGetInfo` answers from it | cache, flags, where the load is | `EXTENDS Versions` |
| `Config` | connection strings, properties, options of the client | none | — |
| `MCConversions` | the three modules above that have state, and calls of those that have none, with every input of a small range | the call | `EXTENDS CellConversion, Columns, ServerInfo`; instances of `Catalog`, `Values`, `Config` |
| other `MC...` | symmetry sets and constants | | |
| `...Proofs` | theorems about the module they are named after; `HandlesProofs` also about `Diagnostics`, `ResultSetProofs` about `CellConversion`, `DescriptorProofs` about `Columns`, `ConnectionProofs` about `ServerInfo` | | `ChunkBufferProofs` takes the queue's from `INSTANCE BlockingQueueProofs` |

### How the state and the actions correspond

*BlockingQueue.* `ppc[p]` is where a producer thread is: `check` (the loop's
test, outside the lock), `lock` (has to take `mtx_`), three kinds of sleep on
`not_full_` (`waitCap`, `waitTimed`, `waitExt`: the three waits of
`WaitUntilCanPushOrClosed`), `supply` (inside the supplier, with the mutex),
`exit` and `done`. `opc` is where the owner is. `notFull` and `popAsleep` are
the threads asleep on the two condition variables: notify_one takes an arbitrary
one out, a spurious wake-up takes one out at any time, `Timeout` ends a timed
wait. A step is what a thread does between two points where another may act:
taking the mutex, testing, and releasing it in a wait are one step, the
supplier's call is a step of its own because it takes as long as the server
likes while the mutex is held. `closed_` and `active_threads_` are atomics and
are read outside the lock where the code does. `pushed` and `got` are history.

*ChunkBuffer.* The queue's variables plus, per endpoint, how much its stream
sent, whether it failed and whether it was cancelled; `call` is the public call
the application thread is in. The gRPC reader is external: it may deliver, fail
or end, and answers for sure only once cancelled.

*ResultSet.* Calls of one statement are serialised by its lock; `Move` is a loop
and takes one step per iteration. Rows are numbered through the result, so
"which row" is a number and values need not be modelled. A column carries the
batch its array and its accessor belong to, which is what can go stale, and
`cast` says whether anybody still holds the accessor's array. The status array
has cells behind its end, so that a write past it is seen. Making an accessor
may throw (`Unmade`: in `Transform`, in `CastArray`, or because the cast array
cannot be read as the C type, one of `NoAccessor`), at each place that makes one:
in `SQLFetch` before it moves (`BindColumnFails`; `propagated` is how far it has
passed bindings on), in `SQLGetData` (`GetDataUnmade`), and for a batch that has
already replaced `current_chunk_` (`BatchMisplaced`): the row and the accessors
of the later columns are then those of the batch before, which `mishap`
records. Where this leads to an accessor that is missing, whose array is gone or
too short, or behind the rows of a batch, the call goes `astray` (or `moveAstray`)
and the program is not followed further.

*Statement.* One step per call: each holds the handle's lock to its end. `desc`
carries per descriptor the buffer of its record, `m_hasBindingsChanged` and the
statements registered with it as row or parameter descriptor. `dm` is what the
driver manager believes, following the ODBC state tables; it decides which calls
reach the driver. `strayed`, `misbound`, `touched` are history.

*Connection.* One step per call, except that an external login is a discovery
and then one step per poll, during which the user may log in. Clients are
numbered by the call of `Connect` that made them, so a reference to a client
that is gone, or a header that an earlier connect left, can be told apart. A
password login that the server lets in without a token leaves an empty header
(`NoToken`).

*Handles.* `pc[t].at` is where a call is: `lock` (waits for the mutex of the
handle it was given), `body` (inside), `edit` (about to change the parent's
list: after the object was made, or after `find_if` found it), `clear` (a disconnect empties its lists), `server` (a request waits, with the
mutex), `unlock`, and `drop` for the second half of a free, which takes no
mutex. `registered` is the list an explicit descriptor has of the statements that
use it: `DescribeBody` changes it, the release of the descriptor calls every
statement on it (`RevertsOn`), the end of a statement does not, and `orphaned`
records the statements that ended so. A call that another thread's free may still make invalid is the
application's mistake and is not made: a thread frees a handle only when no call
on it is under way. `SQLGetDiagRec` reads without the mutex, as the code does.

*Descriptor.* A record is a pointer and `m_isBound`; `m_records` of a descriptor
is as long as the vector. `wanted` is what the application bound last; `copied`
are the descriptors `SQLCopyDesc` wrote, and `unnoticed` says that `SQL_UNBIND`
was the last change: the properties exclude their effects by name.

*Diagnostics.* `Function(h)` is any call that goes through `execute`: it warns or
not, then throws or returns. Each function that returns text is
a row of a table (`TextFunctions`, `DiagFunctions`): how it copies, in which
unit it is told a length and tells one, whom it warns. A text says how many
of its characters take one, two, three and four bytes in UTF-8 (their order
matters to none of it); a buffer is what a call does to it. Lengths are cast
where the code casts them, twice in `SQLColAttribute`: to the type the helper
computes with (`O(f)`, `As`) and to that of the answer. A size that comes out
negative is one of `memcpy` (`Unsigned`); a program that has written outside its
buffer is not followed further (`Overran`). The states `HY000` and `HYC00` stand
for the class HY, all of which ODBC 2 calls S1.

*Attributes, Execution.* A call is one step; a call with a request that may fail
between two assignments has that failure as an action (`CloseFails`,
`RequestFails`, `ResultSetFails`, `CatalogFails`). Queries are numbered in the
order they are sent. `cursor` is what the driver manager takes a statement to
have; it keeps requests away from an open cursor. `asked` is what the application
set, `about` what the last cancel or count spoke of, `lost` the prepared
statements whose closing failed, or whose making failed at the client after it
had succeeded at the server (`PrepareUnanswered`): history. A request that fails
otherwise, and a `Close` that fails, are taken to have changed nothing at the
server.

*CellConversion.* `OpenCell` turns to a cell of text or bytes, `ReadPiece` is a
`SQLGetData` with a buffer of any length in bytes: `offset` is `value_offset`,
`joined` what all calls delivered. An `SQLWCHAR` has two or four bytes by the
build, and a buffer that ends inside a character gives `Torn` ones. `ReadInstant`
converts a timestamp; its integers are `IntMin..IntMax` and wrap.

*Columns.* `mode` is the size of an `SQLWCHAR` (the build) and whether the
connection uses wide types (`UseWideChar`): they are independent, so there are
four. `DescribeColumn` is one column as the server describes it; the tables the
driver looks it up in are functions and sets of pairs in `TypeMapping` and
`CatalogRows`.

*ServerInfo.* The load of the cache by its steps: `AskServer`, then chunk by
chunk, row by row (`TakeRow`); an option is stored at once or kept in a flag, and
the flags are evaluated where a chunk ends (`EndChunk`, `FromFlags`); the end of
the stream fills in the defaults. `LoadBreaksOff` may happen anywhere before,
and keeps what is stored. An entry carries the type of its variant, so that
reading it as another is seen (`"bad_get"`).

*TypeMapping, CatalogRows, Catalog, Values, Config.* No state: each `switch` is a
function or a set of pairs, each algorithm an operator, and each has a reference
definition written from what the function is for (`...On` operators).
In `Catalog` the texts are UTF-8: `Utf8` gives the bytes, which is what the
regular expression is matched against. `MCConversions` has one action per algorithm, which calls it with any input of
its range; its invariants compare the result with the reference.

## 3. Runs

Twelve runs; `pass` unless marked. States are distinct ones.

| run | instance | what it shows |
|---|---|---|
| `queue_safety` | 3 producers, 2 items, 3 cells, 5 pushes, fairness | no producer is left asleep beside a queue with room; Close joins; the queue implements `BoundedChannel` (FIFO, bounded, an honest end); every `Pop` returns |
| `queue_extended` | 2 producers, limit 2, extension to 4, 7 pushes | with the timed wait the queue exceeds its limit by less than one item per producer |
| `chunks` | 2 endpoints, 2 batches each, failures | batches in order and once; a failed stream is no short result; Close returns though no server answers; the buffer implements `BatchSource` |
| `rows` | 2 columns, 2 C types one of which they cannot be read as, 2 batches, 3 rows, rowsets of 1 and 2 (2.7 million) | bindings and `SQLGetData` offsets are of the current row and batch; statuses tell rows; the result set implements `RowCursor` |
| `statements` | 2 statements, 1 explicit descriptor, 1 buffer | fetches fill what is bound; descriptors in use exist; calls find what they need |
| `statements_misbound` (violation) | the same | after `SQL_UNBIND` the next fetch still writes into the old buffer |
| `connections` | 2 statements, 3 connects, 3 polls | statements have their client; requests their authorization, if the login brought one; sessions their login; the cache misses for a reason; the wait for a login ends |
| `handles` | 2 threads, 1 connection, 2 statements, 1 descriptor, 5 calls a thread (272 thousand states) | no destroyed handle is touched, but a statement destroyed with a descriptor set; a list is changed by two threads only where one of them drops a handle; every call returns when the server answers |
| `descriptor` | 2 records, 2 buffers, 6 calls (669 thousand) | `SQL_DESC_COUNT` covers what is bound; records are the bindings asked for; a fetch writes these |
| `diagnostics` | UTF-16, `SQLSMALLINT` up to 15, buffers of 0, 1 and 4, 3 calls (642 thousand) | the first record explains the return code; cut text is announced; a second call gets all of it |
| `execution` | 1 statement, values 0 and 1, 2 settings, 2 requests, 2 connects (278 thousand) | attributes read back as asked; cancelling and counting are about the result read; no prepared statement is forgotten but one whose `Prepare` or `Close` was not answered |
| `conversions` | every input of the ranges in `MCConversions`; server information row by row (262 thousand) | the type tables agree with each other, catalog rows with results, patterns and texts with their reference definitions; pieces are the value and timestamps the instant; server information is understood in any order of its rows; connection strings count as written |

A run checks what could really be wrong. The modules state more, which holds of
the same instances and can be added to a cfg: `FifoIntact`, `EndIsTheEnd`,
`PopSleepsForAReason`, `ClosedForGood`, `CloseReturns` (queue),
`BatchesInOrder`, `QuietAfterClose`, `Source!EndIsFinal`, `FetchingEnds`
(chunks, the last from a capacity of two on),
`RowInBatch`, `GetDataReadsLastRow`, `MoveReturnsAtLast` (rows),
`RowNumberIsCurrent`, `EndIsOfThisResult` (statements), `StatesAgree`
(connections), `ListsHoldWhatExists` (handles), `StatementTextArrives`
(diagnostics), `TimeoutIsAsked` (execution), and every `TypeOK`; all but the
liveness properties are also proved (section 4).

### Bounds, and why they are enough

- *Queue.* Three producers are needed for two to sleep while a third ends; two
  items show exchanges of order; five pushes wrap a ring of three. The
  `_extended` instance needs seven pushes to fill four cells, overshoot and
  wrap. `MaxPushes` is in the guard of `SupplierAnswers` only: a supplier that
  reached it answers "nothing left", as a real one does at the end of its
  stream.
- *Chunk buffer.* Two endpoints interleave; two batches give an order to break;
  `Capacity` 2 is the smallest that does not stall (see `NoStrandedProducer`).
- *Rows.* Three rows in up to two batches, empty ones among them, with rowsets of
  one and two: a rowset inside a batch, at its end, over the boundary, from or to
  an empty batch, short at the end, and one after the end; two batches are also
  what an exception can mix up: the old row lies behind the end of the new batch,
  at it, or inside, and rows are left out. Two larger instances hold as well:
  three C types, two of them readable (6.5 million states, too long for a run),
  and three batches of one column. Two columns let one be bound while the other is
  read with `SQLGetData`, which is also the condition under which offsets are
  reset; one type makes an accessor and the other makes it fail. The run binds
  column-wise; row-wise binding is a disagreement (section 5).
- *Statements.* Statement `s1` executes and binds, `s2` only takes and leaves
  descriptors (`Executing`): what a second executing statement does to the first
  goes through the shared descriptor, which `SetDataPtr` and `CopyDesc` on
  explicit descriptors cover, and the theorems hold for any `Executing`. One
  buffer against none is enough to tell a wrong binding.
- *Connection.* Three connects allow connect, disconnect, fail, connect; three
  polls separate the first, a middle and the last of the 120.
- *Handles.* Two threads are enough for every race of two steps, and a list has
  two changers at most without a third. Five calls a thread allocate the
  connection, connect its children, and leave each thread a call to free and one
  to race; two statements let one be dropped while the other is made.
- *Descriptor.* Two records give a lower and a higher one; six calls bind both,
  cut off, grow, unbind and fetch. Two buffers tell a stale binding from a
  current one.
- *Diagnostics.* A buffer of no bytes is the edge of the code's `size - 1`. Characters of one, three and four bytes, the last outside the
  basic plane; with a `SQLSMALLINT` up to 15 a length of sixteen overflows,
  which a text of twenty bytes passes; a size of one holds the terminator only, of
  four a part of a text. Three calls: one to leave records, one to fail, one to
  read them back.
- *Execution.* Two requests make a current and an earlier query; two connects
  make what survives a session visible; two settings change one thing and
  another. A second statement would share nothing with the first but the
  connection's attributes.
- *Conversions.* Every Arrow type, both sizes of `SQLWCHAR` with and without wide
  types, both ODBC versions, precisions that are absent, zero and not, decimals of
  one digit and of 38. Patterns and names up to the length where an escape, a
  wildcard and a special character stand together, some with a character of two
  bytes. Lists of up to two table types, bare or in quotes, with commas, spaces and
  quotes in them and after the separator, the empty list and none; every
  enumeration of `SQLTables`, that of types included. Timestamps are integers of
  eight bits, with 1, 3, 6 and 12 ticks to the second for the four units: every
  value of the type, so that overflow and negative fractions occur. Values of up
  to five characters, of two kinds, read with buffers of 0 to 12 bytes in any
  sequence: a value that fits, one that is cut inside and at a character, and a
  buffer too small for the terminator. Two rows of server information in any
  order and any chunks, and three where flags meet; a load that breaks off after
  any of them. JSON nested twice. Connection strings of up to two pairs, with and
  without a data source, whose values hold separators, braces and blanks.

### Deadlock

`ChunkBuffer` and `ResultSet` runs switch deadlock checking off: a destroyed
chunk buffer, a constructor that threw, a released result set are ends. So do
`handles`, `descriptor`, `diagnostics`, `execution` and `conversions`, where the
bound on calls is the end; a deadlock of the handles' mutexes would violate
`CallsReturn`. All other runs check it.

### Fairness

- `BlockingQueue.ThreadFairness`: the operating system runs every runnable
  thread and the clock ends timed waits. Nothing makes the owner call and no
  spurious wake-up is owed.
- `BlockingQueue.SuppliersAnswer` and `ChunkBuffer.ServersAnswer`: servers send
  some day. It is an assumption about the environment, is named where it is
  used, and is *not* needed for `CloseAlwaysReturns`, which relies only on a
  cancelled stream answering (gRPC's `TryCancel`).
- `ResultSet`: weak fairness of the steps of a `Move` that has started; that
  `GetNext` answers is what `ChunkBuffer` shows.
- `Connection`: weak fairness of the server's answer to a poll. The polls have
  no timeout (`flight_sql_auth_method.cc:300`), so without this assumption
  `WaitEnds` is false.
- `Handles`: weak fairness of each thread's steps inside the driver (the
  scheduler runs it; each thread makes finitely many calls, so a mutex is free
  for good at some time and is taken), and `ServerAnswers`, an assumption about
  the environment that `CallsReturn` is stated under: the requests have no
  timeout unless the application sets one.
- `Statement`, `Descriptor`, `Diagnostics`, `Execution` and `MCConversions` have
  no liveness property and no fairness.

## 4. Proofs

All theorems are about the `Spec` of their module — `DiagnosticsSpec`,
`CellSpec`, `ColumnSpec` and `ServerInfoSpec` where a proof module is about a
second one — for every value of the constants that satisfies
the module's `ASSUME` (and what the theorem assumes itself). They rest on the
library's facts about finite sets and sequences and on nothing else. The
assumptions on constants are types, the distinctness of sets that stand for
different kinds of things, and that a capacity, a rowset or a number of columns
is not zero; every run evaluates those of its modules. Before a strengthened
invariant was proved, TLC checked it on the run of its module.

**BlockingQueueProofs.** `Typing` is inductive. `LockInv` says who holds the
mutex — a thread is in its supplier exactly when it owns `mtx_`, and nobody owns
it once `closed_` is up — and gives `ClosedIsFinal` as an action property.
`ActiveIsAccurate` (the counter equals the number of live threads, a fact about
cardinalities) supports `OwnerInv`, from which `PopNotLost` and
`JoinedAfterClose` follow. `RingIsFifo` needs `RingInv`: `FifoIntact` alone is
not inductive, because a push is safe only if a producer in its supplier still
has a free cell, and the index arithmetic needs `right_` to be `left_` moved by
the size; the modulus is replaced by `Cell`, which has no division, through two
lemmas. `EndIsNotEarly` adds `EndInv`. `NobodyStranded` — assuming no more
producers than cells — needs the stronger `StrandInv`, that sleepers never
outnumber items: then each `Pop` pays for the one it wakes. `OvershootIsBounded`
counts, besides the items, the threads that have passed their test and may push
without another (`Pushers`). `IsABoundedChannel` is the refinement of `BoundedChannel`, step by
step: the channel's queue is the ring read from `left_` on (`ContentsCells`), so
a `Push` appends to it (`ContentsSupply`) and a `Pop` takes its head
(`ContentsTake`); the end of a thread is `Finish`, `ReportEnd` needs
`ActiveIsAccurate`, and locking, sleeping, waking and joining are stutters.
`RingIsFifo`, `EndIsNotEarly` and `IsABoundedChannel` assume `~UseExtended`;
with the extended buffer they are false (section 5).

**ChunkBufferProofs.** The theorems of the queue are used, not proved again:
`UsesTheQueue` shows that every step of a supplier, of `GetNext`, `Close` and
the destructor is a step of `BlockingQueue`'s specification or leaves the queue
alone, and `QueueSafe` and `QueueFifo` carry the queue's invariants over. Above
them `CallInv` relates the call of the application to the owner's place in the
queue (`InQueue`), says what the last `GetNext` reported (`Reported`), and that
an error once popped leads to a `Close` (`FailureStops`): a failure in `got`
while the queue is open is the answer `GetNext` is about to raise. `SupplyInv`
says what is pushed: the delivered batches of each stream, all of them, in
order, and an error for each failed stream. With `FifoIntact` the latter gives
`BatchesAreInOrder`; with `EndIsTheEnd` both give `NothingIsTruncated`.
`NobodyAfterClose` holds in both modes of the queue, the others without the
extended buffer.

`IsABatchSource` is the refinement of `BatchSource`, which is all the result set
knows of threads and queues: the batches handed out are those in `got` but the
one a `GetNext` is about to return, and a stream is left when its thread has
ended or is on its way out. Each theorem above becomes a guard of the source: a
batch may be handed out when the one before it has been (`BatchesInOrder`), the
end when every thread has ended, no stream failed and all is handed out
(`NothingIsTruncated`), an error when there was a failure and nobody reads any
more (`NobodyAfterClose`). `EndIsTheLastAnswer` follows from the abstract steps
alone: once the end was told, no later call gets a batch, whatever the threads
do.

**ResultSetProofs.** One inductive invariant. `CursorOK` ties the position to
the batches: `passed`, the number of rows converted so far, is the end of the
batches before plus `current_row_`, and once no batch will come the cursor is at
the end of its own. `MoveOK` says that a `Move` under way has gathered the rows
before the cursor, consecutively. `AccessorsOK` says that an accessor reads the
last batch, unless those of the last batch could not be made, and that a column
whose binding was passed on has one of its C type, which gives
`ConvertsWhatIsBound`; `StaleOK`, that a batch left behind by an exception ends
before the row the cursor has read, so that an accessor of it is astray there and
never read, which `ReadsTheLastRow` needs; `OffsetsOK` and `StatusesOK` say the same of the offsets
and of the statuses written so far. `IsARowCursor` is the refinement of
`RowCursor`: a `Move` is one `Ask` and, when it returns, one `Answer` or `Fail`;
what it does in between, batch after batch, are stutters, because its position
is taken to be `passed` less the rows gathered and not yet reported; `Cancel`
and `Close` are `Stop`. A `Move` that throws between a batch and its accessors is
`Lose`, after which the source's promise is weaker: it never repeats a row, and
leaves out rows only in a fetch that failed. `RowsStayInBatch` excepts the batch
whose accessors could not be made.

*Cells*, for values, buffers and alphabets of every size, with an `SQLWCHAR` of
two or four bytes. `PiecesAreTheValue` is typing and `PiecesReassemble` by
`CellInv`: as long as every buffer held whole characters, the offset is at the
end of what was delivered, and that is the beginning of the value.
`TimestampsAreInstants` is arithmetic: the quotient that C++ rounds towards zero
is compared with the one that rounds down, below and above the epoch, for seconds
(`SecondsRoundDown`) and for the fraction (`FractionOfASecond`), whose wrapping is
excluded by half the range, where the property is stated. `CellAssumption` says of
the units what it needs: a second is a whole number of each, a unit a whole
number of nanoseconds, and `Nano` fits the integer.

**HandlesProofs.** `NoUseAfterFree` is far from inductive. `Inv` says where a
call may be (`Stages`), that it holds the mutex between the ends of its guard
(`HoldsMutex`), that handles form a tree whose lists hold what exists (`Levels`,
`Listed`, `Rooted`), that what a call is on exists and is held by the
application unless the call frees it (`InUse`), that a handle being made is
nobody else's (`Allocating`), and that nobody is on or below a handle that is
being freed or disconnected (`Exclusive`, `Retired`). The last two are what the
application promises (`Promised`, section 2) when a call begins, shown to be
kept by every step.
`Registrations` adds that a descriptor is registered on statements that exist or
are `orphaned`, the one thing a release may touch after its end.
`HandlesOutliveCalls`, `EditsAreGuarded` and `ListsAreExact` follow.

*Diagnostics*, for texts and buffers of every size. Facts about a single text
come first: what each way of copying writes, leaves and tells, with a buffer that
is too short and with one sized by what a first call told, where the cast to
`SQLSMALLINT` loses nothing; `CopyIs` says what the two casts of `GetAttributeUTF8`
and of its caller leave, whichever type each has. `DiagnosticsInvariant` is inductive: typing, the
property `FirstRecordExplains` itself (a call clears the records of its handle
before it leaves new ones, in the words of the handle's version, which is set
before any), and what the last call returned: its buffer is the copy of its text, a second
call was sized by a first one's answer, a copy that says it is cut made the call
say so (`Given`), and what the statement received is the conversion of what was
passed in (`Passed`). With the facts about copies, `CutsAreTold`, `RetryIsEnough`
and `StatementsArrive` follow; `CutsAreTold` excepts the copies whose size is
negative (`SizeGoesNegative`). The assumption `MaxShort >= 2` is there for
`SQL_NTS`, which is -3 and has to fit.

**DescriptorProofs.** `CountCovers` is inductive with types. `RecordsBind` needs
that a bound record has a buffer in every descriptor (`BoundHasBuffer`), since
`SQLCopyDesc` copies from all of them. `FetchWrites` needs `HandedOver`: the
result set has a binding per record, and after a hand-over it holds those the
application made until something marks them as changed, or `SQL_UNBIND`, which
marks nothing, changes them.

*Columns.* `ColumnsFit` and `CatalogTellsTheSame` hold of every column the server
can describe: the invariant is typing, the work a case analysis over the Arrow
types, the modes and the ODBC versions, for any precision, scale and length. Each
table is expanded for one kind of type at a time (`ColumnsOfEveryKind`). Lengths
are bounded by `MaxColumnLength`, since the octets of a wide column are an
`int32_t` (section 5).

**ExecutionProofs.** `CursorShowsAnswer` (an open cursor that shows a query
shows the one in `flight_info_` and in the update count) carries
`CancelsTheResult`. `NonePreparedLeft` follows the prepared statements of the
server through `Prepare`, its failures and the closing of the handle; what a
`Prepare` without an answer leaves there is in `lost`.
`AttributesReadBack` and `TimeoutsAreAsked` are inductive together with
`TrackingAsAsked`: what a connection was told is in the statement every new one
copies.

**StatementProofs.** `Sound` is typing together with `Ready`: `SQLFetch` updates
a field of the result, so the type of a statement is not preserved unless an
open cursor implies a result. `NoDanglingDescriptor` strengthens
`DescriptorsAlive` to `Registered`, that a statement using an explicit
descriptor is on the list `ReleaseDescriptor` walks. `FetchFillsWhatIsBound`
needs `OwnBindings`: a statement that did none of the three things in `strayed`
uses its implicit descriptor, nobody else uses it, and either the descriptor is
marked as changed or the open result has exactly its binding. `RowNumberCounts`
and `EndIsNotInherited` share `FetchState`.

**ConnectionProofs.** `Basics` is typing with `Waiting` (a login in progress
means not connected). `OneConnectedState` and `StatementsKeepTheirClient` are
inductive together: the destruction of statements in `disconnect` matters only
because the states agree. `RequestsAreAuthorized` goes through
`NewestAfterConnect`, on what appending headers does to the newest
authorization, and excepts the session of a login that brought no token.
`NoSessionWithoutLogin` and `InfoIsFoundUnlessLoadFailed` add the
history of logins, and that `has_server_info_` is earned.

*Server information*, for any rows of a server in any order and chunks.
`ServerIsUnderstood` is two questions about the cache. That nothing is read as
another variant (`CacheReads`) needs the tables to fit (`Readable`, `Fits`): the
constructor, each branch of the load and each default store under a type the
variant that `SQLGetInfo` reads it as, but for the default of
`SQL_CORRELATION_NAME`. That the order does not matter needs that no two options
tell the same entry (`Tells`), but for `SQL_CATALOG_LOCATION`; then an entry that
a row told is the one some row told (`RowsAreThere`), which is that row's if no
option was told twice. The invariant `ServerInfoInv` says besides that the flags
are what was told so far (`FlagsAreAsTold`), that their entries are up to date
whenever no chunk is under way (`FlagsAreThere`), and that all else is as before
the load, with defaults once it is done (`OthersAreAsBefore`). `RowAssumption` (a
flag's value is a Boolean) is its only assumption.

**Only model-checked.** All liveness (`PopAnswers`, `CloseAlwaysReturns`,
`WaitEnds`, `CallsReturn`, and on demand `CloseReturns`, `FetchingEnds`,
`MoveReturnsAtLast`): liveness under fairness is out of the prover's reach.
`PatternsAreObeyed`, `TextReadsBack` and `ConnectsAsWritten`: patterns, decimals,
JSON and connection strings are computed by recursion and folds over sequences,
so that what they compute for every input would take an induction over data,
which the provers cannot instantiate; over their ranges the run is exhaustive,
and every call starts from the same state, so that there is no invariant of long
behaviours to find. `BindingsAlwaysHonoured` and the properties of the tables in section 5
are false of the code. The three refinements (`BoundedChannel`, `BatchSource`,
`RowCursor`) are proved as `Spec => ...`; that fairness maps to nothing is as it
should be, since the abstract specifications promise no progress.

## 5. Disagreements

`SQL_UNBIND` unnoticed has a run (`statements_misbound`) and is under `findings`
in `PROJECT.json`. These have a property, and a cfg beside the others that shows
its violation (`tlc -config X.cfg M`):

| cfg and module | property | what the code does |
|---|---|---|
| `ChunkBuffer_stall`, `MCChunkBuffer` | `FetchingEnds` | with fewer cells than endpoints `GetNext` hangs: `Pop` notifies one producer, which ends without pushing (`blocking_queue.h:59`, `:85`). The default capacity is five, so it takes more endpoints than that or a smaller `ChunkBufferCapacity`, which `docs/CONFIGURATION.md:49` offers |
| `BlockingQueue_overfull`, `MCBlockingQueue` | `NeverOverfull` | the timed wait of the extended buffer pushes without looking again, and the ring overwrites items (`blocking_queue.h:123`) |
| `ChunkBuffer_ctor`, `MCChunkBuffer` | `ConstructorThrowsCleanly` | `DoGet` failing after the first endpoint destroys joinable threads (`flight_sql_stream_chunk_buffer.cc:30`) |
| `ResultSet_overrun`, `MCResultSet` | `StatusInBounds` | with row-wise binding a conversion error writes statuses behind the application's array (`flight_sql_result_set.cc:192`) |
| `Statement_dangling`, `MCStatement` | `NoDanglingStatement` | freeing a descriptor calls a statement that was destroyed (`ODBCConnection.cc:661`, `odbc_entry.cc:254`) |
| `Handles_cancel`, `Handles` | `CancelEndsTheCall` | `SQLCancel` waits for the mutex the blocked call holds (`odbc_entry.cc:760`), against `CHANGELOG.md:16` |
| `Execution_login`, `Execution` | `LoginTimeoutHonoured` | `SQL_ATTR_LOGIN_TIMEOUT` is never used, against the comment at `flight_sql_connection.cc:315` |

For these the cfg is that of a run, with the invariant added to it:

| cfg and module | invariant | what the code does |
|---|---|---|
| `ResultSet_full`, `MCResultSet` | `NeverAstray` | an exception of `ResetAccessor` or `CastArray` leaves the new batch with the old row and accessors (`flight_sql_result_set.cc:84`, `:110`); a failed `SQLGetData` leaves an accessor without its array, and a failed binding none, which the next one dereferences (`flight_sql_result_set_column.cc:72`) |
| `Handles_full`, `Handles` | `NoStatementRevertedAfterItsEnd` | `Statement_dangling` by handles: a statement freed with the descriptor still set on it is called when the descriptor is freed (`ODBCDescriptor.cc:427`) |
| `Connection_full`, `MCConnection` | `NoForeignAuthorization` | a password login answered without a token connects (`flight_sql_auth_method.cc:101`), and on a handle connected before sends the authorization of the earlier session |
| `Diagnostics_full`, `MCDiagnostics` | `NothingOverrun` | a buffer of no bytes, or a text longer than `SQLSMALLINT`, gives the copy a negative size (`AttributeUtils.h:39-46`) |
| `Execution_full`, `Execution` | `PreparedAreHeld` | a `Prepare` whose answer is lost leaves a prepared statement at the server that the driver cannot close (`flight_sql_statement.cc:115`), and one whose `Close` fails is forgotten |
| `Conversions`, `MCConversions` | `LogsInAsDocumented` | a token beside a user without a password, or a password without a user, logs in by the token, against `docs/CONFIGURATION.md:29`; no credentials are refused, where `:31` has a handshake that does nothing (`flight_sql_auth_method.cc:178-203`) |

Others were met while reading, and have no property of their own. Where one
bears on a property, the property names it as an exception.

Fetching:

- a truncation noted by one bound column is overwritten with success by the next
  (`flight_sql_result_set.cc:126`); no status is written when no column is
  bound, against the comment at `:117`;
- after a trailing empty batch `current_row_` is 0, against the comment at
  `:241`; `StatusTellsRows` and `GetDataReadsLastRow` are stated so that they
  hold of what the code does for the rows it does return;
- `SQLMoreResults` leaves the cursor open; `GetUpdateCount` answers with the
  number of rows of the result;
- `Cancel` on a catalog result cancels the last query's `flight_info_`
  (`flight_sql_statement.cc:365`), and its update count is stale likewise.

Descriptors and attributes:

- `m_currentArd` starts as the implicit *parameter* descriptor
  (`ODBCStatement.cc:201`): row and parameter attributes are one, and
  `SQL_NULL_DESC` for `SQL_ATTR_APP_ROW_DESC` dereferences null;
- `SQL_DESC_COUNT` of an implementation descriptor is one too high
  (`ODBCDescriptor.cc:443`); `SQLCopyDesc` copies records without count or
  header and may write the implementation descriptor; setting a describing field
  unbinds without a new count; `SQLSetDescRec` sets the octet length while a
  fetch binds with `m_length`;
- `SQL_DESC_TYPE` of time and timestamp columns says date in ODBC 3
  (`ODBCDescriptor.cc:476`), and `m_datetimeIntervalCode` is never set;
- a connection timeout never reaches a statement, and once set it survives
  reconnecting with zero; the setter of the current catalog has its branches for
  UTF-8 and wide text the wrong way round;
- a statement attribute set on a connection that was never connected
  dereferences null (`ODBCConnection.cc:507`); after a disconnect it goes to a
  tracking statement nobody reads;
- `SQL_ATTR_MAX_ROWS` cannot be set; `SQL_ATTR_TXN_ISOLATION` fails with the
  state "HCY00".

Diagnostics and text:

- truncation in `SQLDescribeCol` and `SQLColAttribute` is recorded at the
  implementation descriptor, in `SQLDriverConnect`, `SQLNativeSql` and
  `SQLGetCursorName` nowhere; `SQLDescribeColW` and `SQLGetDescRecW` take counts
  of characters for bytes;
- wide functions halve lengths the application gives in characters; lengths are
  cast to `SQLSMALLINT`; reading a record with a character outside the basic
  plane lets an exception escape;
- `SQLGetDiagRec` with a buffer of no bytes says nothing of the text it cut;
- calls that skip `execute` leave the records of the call before; `SQLError`
  always reads the first; `SQLCancel` from another thread clears the records of
  the call it means to end.

Connecting:

- the branch for the login timeout in `PopulateCallOptions` is unreachable
  (`flight_sql_connection.cc:202` comes before it), token and external logins
  use none;
- with `EarlyTokens = TRUE` — a server whose `__discover__` answers success with
  an URL, as `flight_sql_auth_method.cc:261` allows — the first poll may take
  that URL for the token;
- the connection string's pattern matches braces greedily and ends values at `=`
  (`ODBCConnection.cc:38`), drops empty values and leaves braces on a data
  source's name; of two values in braces the first runs to the end of the second,
  against `docs/CONFIGURATION.md:116`; the windows' parser keeps the first copy of a key and splits at
  the last `=`;
- a user written as `User` with a password written as `PWD` is dropped, and the
  password sent without it (`flight_sql_auth_method.cc:178`);
- `ChunkBufferCapacity` and `HideSQLTablesListing` are sent to the server as
  headers, being left out of the driver's own properties.

Types and catalog:

- large strings and binaries, fixed-size binaries, half floats, intervals,
  unions and dictionaries are described but cannot be fetched (`utils.cc:747`);
  the default C type of `SQLGetData` and that of a bound column differ for
  several types;
- the octet length of a decimal is 2 in `SQLColumns`, its precision and 2 in a
  result; its display size comes from the string length; a nanosecond timestamp
  needs more than the display size told;
- the octet length of a wide column is an `int32_t` and overflows from 2^29
  characters of four bytes on (`flight_sql/utils.cc:365`);
- `SQLGetTypeInfo` leaves `SQL_DATETIME_SUB` null in ODBC 2 where `SQLColumns`
  does not; `flight_sql_statement_get_columns.cc:120` dereferences metadata that
  may be absent;
- the types of `SQLTables` lose their quotes, doubled ones too, and the spaces of
  a type that is not in quotes (`SYSTEM TABLE`); an empty list asks for the type
  without a name (`flight_sql_statement_get_tables.cc:24-64`);
- `_` in a pattern stands for one byte of UTF-8, so that it never finds a letter
  with an accent (`flight_sql/utils.cc:679`);
- `HideSQLTablesListing` yields a single column; an escaped special character of a pattern is not escaped for the
  regular expression.

Server information:

- with limited outer joins only, "so just report none" says the comment, and
  `SQL_SC_SQL92_INTERMEDIATE` is reported, whose number is that of full joins;
- the lowest of several levels wins in `ANSI92_SUPPORTED_LEVEL`, the grammar,
  the transaction default and `GROUP_BY`; the flags for DDL are read and unused;
  the function "COS" sets the bit of ACOS; "POSTION" is misspelt;
- a stream without a chunk leaves `SQL_CORRELATION_NAME` with a default of the
  wrong variant, and reading it throws;
- limits are told modulo 65536; five types are unknown unless the server tells
  them; a failed load is never retried, and the cache outlives a reconnect to
  another server.

Values:

- `timestamp_array_accessor.cc:52` lacks braces, so the line meant for negative
  values runs for all, and late nanosecond timestamps overflow;
- a wide-string piece read with an odd buffer length tears a character
  (`string_array_accessor.cc:97`);
- `TIME64` to timestamp multiplies by 10^9 whatever the unit; text to time reads
  hours and minutes only; a number that is not finite leaves a hole in nested
  JSON; a version without digits gets ".0000" appended.

## 6. Not modelled, and why

- *Driver start-up, logging, module path* (`spd_logger.*`, `whereami.cc`): a
  logger around a library, a third-party file; no state another part reads.
- *DSN windows* (`flight_sql/ui/*`, the registration of data sources): a Windows
  dialog and calls of the installer; the parser behind it is in `Config`.
- *`ReadConfigFile`, certificates, trust stores*: input and output; what the
  properties ask for is in `Config`.
- *`SQLGetFunctions`, cursor names, functions answered with "not supported"*:
  constants.
- *The Arrow library and gRPC*: external; streams, builders and casts are taken
  for what the driver uses of them.
- *Values inside a result* (in `ResultSet`): a value fits its buffer or not; how
  it is converted is in `CellConversion`.
- *What follows undefined behaviour*: a fetch or `SQLGetData` gone astray, a copy
  outside its buffer; the model stops at it, and section 5 has the run that
  reaches it.
- *Batches without data* (metadata only), which end a stream early
  (`flight_sql_stream_chunk_buffer.cc:39`): the servers this driver is written
  for send none.

## 7. Plan

Written in the order of importance; done unless marked.

1. `BoundedChannel`, `BlockingQueue`, their refinement, runs and proofs.
2. `ChunkBuffer` over the queue.
3. `RowCursor`, `ResultSet` and their refinement.
4. `Statement`, with proofs.
5. `Connection`, with proofs.
6. `Handles`: locks, allocation, freeing in halves, cancelling.
7. `Attributes`, `Execution`: attributes, requests, prepared statements,
   timeouts.
8. The pure modules against reference definitions, checked by `MCConversions`.
9. `Descriptor`; `Text` and `Diagnostics`.
10. Proofs of `Descriptor`, `Execution`, `Handles`, `ResultSet` with its
    refinement, the refinement of the queue, and `ChunkBuffer` from the queue's
    theorems.
11. `BatchSource` and its refinement by `ChunkBuffer`; proofs of `Diagnostics`;
    cells, columns and server information as state machines, with proofs.
12. *Next:* `ResultSet` over `INSTANCE BatchSource`: it takes its batches from a
    sequence of its own, and that this is what the source gives is an argument
    of this text, over `IsABatchSource` (batches once, in the order of each
    stream, the end only when nothing is left, an error only once all is closed)
    and `EndIsTheLastAnswer`. Patterns, decimals, JSON and connection strings
    need an induction over data, and liveness a prover for it.

The runs are kept few: a disagreement that is recorded in section 5 keeps its
cfg and gives up its place among the runs.
