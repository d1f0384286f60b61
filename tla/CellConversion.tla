---------------------------- MODULE CellConversion ----------------------------
(***************************************************************************)
(* How the accessors hand one cell to the application: text and bytes in   *)
(* as many SQLGetData calls as their buffers take, and timestamps, times   *)
(* and dates as their parts.  accessors/*.cc.                              *)
(*                                                                         *)
(* A value is its sequence of characters, of form.size bytes each; offsets *)
(* and buffers are counted in bytes.                                       *)
(***************************************************************************)
EXTENDS CxxIntegers, Sequences

CONSTANTS
    Characters,   \* what a value is written in
    WcharSizes,   \* bytes of an SQLWCHAR: one for each build
    MaxLength,    \* bound: characters of a value
    MaxBuffer,    \* bound: bytes of a buffer
    IntMax,       \* the largest integer: INT64_MAX
    Milli, Micro, Nano,   \* ticks of a second
    DaySeconds,   \* DAYS_TO_SECONDS_MULTIPLIER
    Torn          \* a character put together from parts of two

ASSUME CellAssumption ==
    /\ WcharSizes \subseteq {2, 4}
    /\ MaxLength \in Nat /\ MaxBuffer \in Nat
    /\ IntMax \in Nat /\ DaySeconds \in Nat
    /\ Milli \in Nat \ {0} /\ Micro \in Nat \ {0} /\ Nano \in 1..IntMax
    /\ Nano % Milli = 0 /\ Nano % Micro = 0
    /\ Torn \notin Characters

VARIABLES
    form,     \* the C type SQLGetData reads the cell as
    value,    \* the cell
    offset,   \* value_offset: where the next call goes on, -1 for "no data left"
    joined,   \* all the calls have delivered, put together
    piece,    \* what the last call told
    whole,    \* every buffer so far held whole characters
    instant   \* a timestamp and the parts it was converted to

cellVars == <<form, value, offset, joined, piece, whole, instant>>

Forms == {[type |-> "C_CHAR", size |-> 1], [type |-> "C_BINARY", size |-> 1]}
            \cup {[type |-> "C_WCHAR", size |-> n] : n \in WcharSizes}
NoForm    == [type |-> "none", size |-> 0]
NoInstant == [unit |-> "none"]

-----------------------------------------------------------------------------
(* Text and bytes. *)

\* A mutant: the terminator is forgotten.
TruncatedTight(text, charSize, from, bufferLength) ==
    bufferLength < Len(text) * charSize - from

Truncated(text, charSize, from, bufferLength) ==
    bufferLength < Len(text) * charSize - from + charSize

(* The bytes copied from a cut wide value need not start at a character. *)
MoveSingleCellToCharBuffer(text, charSize, from, bufferLength) ==
    LET written == bufferLength \div charSize
        first   == from \div charSize
        cut     == Truncated(text, charSize, from, bufferLength)
    IN [status    |-> IF cut THEN "truncated" ELSE "success",
        data      |-> CASE ~cut -> SubSeq(text, first + 1, Len(text))
                        [] cut /\ written = 0 -> <<>>
                        [] cut /\ written > 0 /\ from % charSize = 0 ->
                               SubSeq(text, first + 1, first + written - 1)
                        [] OTHER -> [i \in 1..(written - 1) |-> Torn],
        indicator |-> Len(text) * charSize - from,
        next      |-> CASE ~cut -> -1
                        [] cut /\ written > 0 -> from + bufferLength - charSize
                        [] OTHER -> from]

MoveSingleCellToBinaryBuffer(bytes, from, bufferLength) ==
    LET remaining == Len(bytes) - from
        cut       == remaining > bufferLength
        length    == IF cut THEN bufferLength ELSE remaining
    IN [status    |-> IF cut THEN "truncated" ELSE "success",
        data      |-> SubSeq(bytes, from + 1, from + length),
        indicator |-> remaining,
        next      |-> IF cut THEN from + length ELSE -1]

MoveSingleCell(as, cell, from, bufferLength) ==
    IF as.type = "C_BINARY" THEN MoveSingleCellToBinaryBuffer(cell, from, bufferLength)
    ELSE MoveSingleCellToCharBuffer(cell, as.size, from, bufferLength)

-----------------------------------------------------------------------------
(* Timestamps, times and dates. *)

Divisor == [SECOND |-> 1, MILLI |-> Milli, MICRO |-> Micro, NANO |-> Nano]
IntMin  == -IntMax - 1
Wrapped(n) == ((n - IntMin) % (2 * (IntMax + 1))) + IntMin

(* C++ runs the line after two nested ifs for every value; what leaves the range
   of the integer is wrapped, as the builds do. *)
CalculateFraction(unit, ticks) ==
    LET d      == Divisor[unit]
        raised == IF ticks < 0 /\ ticks <= IntMin + d THEN ticks + d ELSE ticks
        ceil   == AbsOf(Quot(raised - (d - 1), d))
    IN IF unit = "SECOND" THEN 0 ELSE Rem(Wrapped(raised + d * ceil), d) * (Nano \div d)

\* A mutant: instants before the epoch are rounded towards it.
TimestampSecondsTowardsZero(unit, ticks) == Quot(ticks, Divisor[unit])

(* Seconds since the epoch; GetTimeForSecondsSinceEpoch splits them into a date
   and a time of day. *)
TimestampSeconds(unit, ticks) ==
    IF ticks < 0 THEN Quot(ticks + 1, Divisor[unit]) - 1 ELSE Quot(ticks, Divisor[unit])

ConvertTimeValue(array, unit, ticks) ==
    CASE array = "TIME32" -> IF unit = "SECOND" THEN ticks ELSE Quot(ticks, Milli)
      [] array = "TIME64" -> IF unit = "MICRO" THEN Quot(ticks, Micro) ELSE Quot(ticks, Nano)

ConvertDate(array, days) ==
    IF array = "DATE64" THEN Quot(days, Milli) ELSE days * DaySeconds

-----------------------------------------------------------------------------
CellInit ==
    /\ form = NoForm /\ value = <<>> /\ offset = 0 /\ joined = <<>> /\ whole = TRUE
    /\ piece = [status |-> "none"] /\ instant = NoInstant

CellIdle == form = NoForm /\ instant = NoInstant

(* The application turns to a cell of text or bytes. *)
OpenCell(as, cell) ==
    /\ CellIdle
    /\ form' = as /\ value' = cell
    /\ UNCHANGED <<offset, joined, piece, whole, instant>>

(* SQLGetData; after -1 it answers SQL_NO_DATA and converts nothing. *)
ReadPiece(bufferLength) ==
    /\ form # NoForm /\ offset # -1
    /\ LET cell == MoveSingleCell(form, value, offset, bufferLength)
       IN /\ offset' = cell.next
          /\ joined' = joined \o cell.data
          /\ piece' = [status |-> cell.status, indicator |-> cell.indicator,
                       length |-> Len(cell.data), room |-> bufferLength]
    /\ whole' = (whole /\ bufferLength % form.size = 0)
    /\ UNCHANGED <<form, value, instant>>

(* A timestamp, and the arrays of times and days that hold the same number. *)
ReadInstant(unit, ticks) ==
    /\ CellIdle
    /\ instant' =
         [unit |-> unit, ticks |-> ticks,
          seconds  |-> TimestampSeconds(unit, ticks),
          fraction |-> CalculateFraction(unit, ticks),
          time     |-> ConvertTimeValue(IF unit \in {"SECOND", "MILLI"} THEN "TIME32" ELSE "TIME64",
                                        unit, ticks),
          date32   |-> ConvertDate("DATE32", ticks),
          date64   |-> ConvertDate("DATE64", ticks * DaySeconds * Milli)]
    /\ UNCHANGED <<form, value, offset, joined, piece, whole>>

CellNext ==
    \/ \E as \in Forms, n \in 0..MaxLength : \E cell \in [1..n -> Characters] : OpenCell(as, cell)
    \/ \E bufferLength \in 0..MaxBuffer : ReadPiece(bufferLength)
    \/ \E unit \in DOMAIN Divisor, ticks \in IntMin..IntMax : ReadInstant(unit, ticks)

CellSpec == CellInit /\ [][CellNext]_cellVars

-----------------------------------------------------------------------------
(* Type invariant. *)
CellTypeOK ==
    /\ form \in Forms \cup {NoForm}
    /\ value \in Seq(Characters) /\ joined \in Seq(Characters \cup {Torn})
    /\ offset \in -1..(Len(value) * form.size)
    /\ whole \in BOOLEAN
    /\ \/ piece = [status |-> "none"]
       \/ piece \in [status : {"truncated", "success"}, indicator : Nat, length : Nat, room : Nat]
    /\ \/ instant = NoInstant
       \/ instant.unit \in DOMAIN Divisor /\ instant.ticks \in IntMin..IntMax

(* What SQLGetData delivers in pieces is the value: the pieces joined are its
   beginning, each call tells the bytes that were still to come, and the end is
   told with the last piece and never before; a piece fits its buffer, its
   terminator included, and a buffer for a character and a terminator never
   comes back empty before the end, so that calling on gets the whole value.
   For buffers of any length that holds whole characters, too short for a single
   one included. (MoveSingleCellToCharBuffer, MoveSingleCellToBinaryBuffer) *)
PiecesReassemble ==
    form # NoForm /\ piece.status # "none" /\ whole =>
        LET terminator == IF form.type = "C_BINARY" THEN 0 ELSE 1
        IN /\ Len(joined) <= Len(value) /\ joined = SubSeq(value, 1, Len(joined))
           /\ piece.indicator = (Len(value) - (Len(joined) - piece.length)) * form.size
           /\ \/ (piece.length + terminator) * form.size <= piece.room
              \/ piece.length = 0 /\ piece.status = "truncated"
           /\ piece.length = 0 /\ piece.status = "truncated"
                => piece.room < (1 + terminator) * form.size
           /\ offset = -1 <=> piece.status = "success"
           /\ offset = -1 => joined = value

(* The parts of a timestamp are the instant: whole seconds, rounded down before
   the epoch too, and a fraction of them in nanoseconds.  It holds to half of
   what the integer holds, the year 2116 for nanoseconds: above, the line that
   the missing braces let run overflows.  A time of day is the second it lies in,
   and a day is the same in both of its arrays.
   (CalculateFraction, MoveSingleCell_impl, ConvertTimeValue, ConvertDate) *)
TimestampIsTheInstant ==
    instant # NoInstant =>
        LET d == Divisor[instant.unit]
        IN /\ instant.ticks <= IntMax \div 2 \/ instant.unit = "SECOND" =>
                /\ instant.fraction \in 0..(Nano - 1)
                /\ instant.seconds * Nano + instant.fraction = instant.ticks * (Nano \div d)
           /\ instant.ticks >= 0 => instant.time = instant.ticks \div d
           /\ instant.date64 = instant.date32
=============================================================================
