---------------------------- MODULE ResultSetProofs ----------------------------
(***************************************************************************)
(* Proofs about ResultSet for any number of columns, C types, rowset       *)
(* sizes, batches and rows: what is bound is what a fetch converts, what   *)
(* SQLGetData remembers belongs to the current row, the row statuses tell  *)
(* the rows, and a result set is a row cursor.  And about CellConversion:  *)
(* the pieces of a value are the value, for every length and buffer, and   *)
(* the parts of a timestamp are the instant, for every integer width.      *)
(***************************************************************************)
EXTENDS ResultSet, CellConversion, FiniteSetTheorems, SequenceTheorems, TLAPS

Last == Len(ends)

(* The cursor stands in the last batch received, or nowhere after a cancel;
   once no batch will come it stands at its end.  Only a batch whose accessors
   could not be made may end before it. *)
CursorOK ==
    /\ chunk \in {0, Last}
    /\ source = "open" => chunk = Last
    /\ Last = 0 => row = 0 /\ passed = 0
    /\ Last > 0 => passed = End(Last - 1) + row
    /\ Last > 0 /\ mishap # "now" => row <= RowsOf(Last)
    /\ source # "open" /\ chunk # 0 => row = RowsOf(chunk)

(* A Move has gathered the rows before the cursor, one after the other; when it
   returned, the last of them is the row before the cursor. *)
RowNumbers(from, k) == [i \in 1..k |-> from + i]

MoveOK ==
    /\ call = "loop" => chunk # 0
    /\ call = "first" => chunk = 0 /\ Fetched = 0
    /\ Fetched <= move.rows
    /\ Moving =>
          /\ ~move.ok /\ move.rows > 0 /\ reply.kind # "true"
          /\ Fetched <= passed
          /\ move.pending = RowNumbers(passed - Fetched, Fetched)
          /\ source # "open" => Fetched = 0
          /\ propagated = NumColumns
    /\ OnARow => Last > 0 /\ delivered # <<>> /\ LastRow = passed

(* A column has an accessor only when it had an array to make it of. *)
Held(col) ==
    /\ col.array = 0 => col.type = None
    /\ col.type # None => col.batch # 0

(* An accessor reads the last batch, unless those of the last batch could not
   be made. *)
Fresh(col, b) == col.array = b /\ (col.type # None => col.batch = b /\ b > 0)

(* The accessor of a column whose binding was passed on has the type it is
   bound as. *)
BoundAs(col) == col.binding # None => col.type \in {col.binding, None}
HasAccessor(col) == col.binding # None => col.type # None

AccessorsOK ==
    /\ \A c \in Columns : Held(columns[c])
    /\ mishap # "now" => \A c \in Columns : Fresh(columns[c], Last)
    /\ \A c \in Columns : c <= propagated =>
          /\ BoundAs(columns[c])
          /\ mishap # "now" /\ Last > 0 => HasAccessor(columns[c])

(* A batch that is left behind ends before the row the cursor has read: an
   accessor of it can not be read there. *)
HasRead == Fetched > 0 /\ (Moving \/ OnARow)
Behind(b) == b \notin {0, Last} => RowsOf(b) <= row /\ (HasRead => RowsOf(b) < row)
StaleOK == \A c \in Columns : Behind(columns[c].array) /\ Behind(columns[c].batch)

(* The loop of a Move starts with every unbound column unread. *)
OffsetsOK ==
    /\ ~resetGetData => \A c \in Columns : offsets[c] = "start"
    /\ call = "loop" => \A c \in Columns \ Bound : offsets[c] = "start"

(* The statuses written so far are those of the rows gathered so far. *)
StatusesOK ==
    /\ call = "first" => \A i \in Cells : status[i] = "unset"
    /\ call = "loop" /\ Bound # {} =>
          \A i \in Cells :
             status[i] \in IF i <= Fetched THEN {"success", "info"} ELSE {"unset"}

Inv == /\ TypeOK /\ CursorOK /\ MoveOK /\ AccessorsOK /\ StaleOK /\ OffsetsOK /\ StatusesOK
       /\ GetDataReadsLastRow /\ OffsetsAreCurrent /\ StatusTellsRows

-----------------------------------------------------------------------------
(* Types, and the numbers of the last rows of the batches. *)
ColumnsTo(b) == [binding : Types \union {None}, array : 0..b,
                 type : Types \union {None}, batch : 0..b,
                 cast : {"none", "own", "other"}]
MoveTypes == [rows : 0..MaxRowset, bindType : BindTypes, pending : Seq(Nat), ok : BOOLEAN]

LEMMA Typed ==
  ASSUME TypeOK
  PROVE  /\ Last \in Nat /\ Fetched \in Nat /\ chunk \in 0..Last /\ row \in Nat
         /\ ends \in Seq(Nat) /\ passed \in Nat /\ delivered \in Seq(Nat)
         /\ columns \in [Columns -> ColumnsTo(Last)]
         /\ \A c \in Columns : columns[c] \in ColumnsTo(Last)
         /\ move \in MoveTypes /\ move.pending \in Seq(Nat) /\ move.rows \in 0..MaxRowset
         /\ MaxRowset \in Nat /\ move.rows \in Nat
  <1>1. ends \in Seq(Nat) /\ move \in MoveTypes
    BY DEF TypeOK, MoveTypes
  <1>2. move.pending \in Seq(Nat) /\ move.rows \in 0..MaxRowset
    BY <1>1 DEF MoveTypes
  <1>3. Last \in Nat /\ Fetched \in Nat
    BY <1>1, <1>2, LenProperties DEF Last, Fetched
  <1> QED BY <1>1, <1>2, <1>3, ResultSetAssumption DEF TypeOK, Last, ColumnsTo

LEMMA EndTypes ==
  ASSUME TypeOK, NEW b \in 0..Last
  PROVE  End(b) \in Nat
  BY Typed, ElementOfSeq DEF End, Last

(* A new batch comes behind the ones that were received. *)
LEMMA NewBatch ==
  ASSUME TypeOK, NEW n \in Nat, ends' = Append(ends, End(Last) + n)
  PROVE  /\ ends' \in Seq(Nat) /\ Len(ends') = Last + 1
         /\ \A b \in 0..Last : End(b)' = End(b)
         /\ \A b : b = Last + 1 => End(b)' = End(Last) + n
  <1>0. ends \in Seq(Nat) /\ Last \in Nat /\ Last = Len(ends) /\ Last \in 0..Last
    BY Typed DEF Last
  <1>1. ends \in Seq(Nat) /\ Last \in Nat /\ Last = Len(ends) /\ End(Last) + n \in Nat
    BY <1>0, EndTypes
  <1>2. ends' \in Seq(Nat) /\ Len(ends') = Last + 1
    BY <1>1
  <1>3. \A b \in 1..Last : ends'[b] = ends[b]
    BY <1>1
  <1>4. ends'[Last + 1] = End(Last) + n
    BY <1>1
  <1>5. \A b \in 0..Last : End(b)' = End(b)
    BY <1>1, <1>3 DEF End
  <1>6. \A b : b = Last + 1 => End(b)' = End(Last) + n
    BY <1>1, <1>4 DEF End
  <1> QED BY <1>2, <1>5, <1>6

(* The columns that are bound are counted exactly. *)
LEMMA Columns_Finite ==
  /\ IsFiniteSet(Columns) /\ Cardinality(Columns) = NumColumns
  BY ResultSetAssumption, FS_Interval DEF Columns

LEMMA BoundCount ==
  /\ IsFiniteSet(Bound) /\ Cardinality(Bound) \in Nat
  /\ Bound \subseteq Columns
  /\ Cardinality(Bound) = NumColumns <=> Bound = Columns
  <1>1. Bound \subseteq Columns
    BY DEF Bound
  <1> QED BY <1>1, Columns_Finite, FS_Subset, FS_CardinalityType

(* Consecutive rows. *)
LEMMA RowNumbersType ==
  ASSUME NEW a \in Nat, NEW k \in Nat
  PROVE  /\ RowNumbers(a, k) \in Seq(Nat) /\ Len(RowNumbers(a, k)) = k
         /\ \A i \in 1..k : RowNumbers(a, k)[i] = a + i
  BY DEF RowNumbers

LEMMA RowNumbersJoin ==
  ASSUME NEW a \in Nat, NEW k \in Nat, NEW n \in Nat
  PROVE  RowNumbers(a, k) \o RowNumbers(a + k, n) = RowNumbers(a, k + n)
  <1> DEFINE s == RowNumbers(a, k)
             t == RowNumbers(a + k, n)
             u == RowNumbers(a, k + n)
  <1>1. /\ s \in Seq(Nat) /\ t \in Seq(Nat) /\ u \in Seq(Nat)
        /\ Len(s) = k /\ Len(t) = n /\ Len(u) = k + n
        /\ \A i \in 1..k : s[i] = a + i
        /\ \A i \in 1..n : t[i] = a + k + i
        /\ \A i \in 1..(k + n) : u[i] = a + i
    <2>1. a + k \in Nat /\ k + n \in Nat
      OBVIOUS
    <2> QED BY <2>1, RowNumbersType
  <1> HIDE DEF s, t, u
  <1>0. a \in Int /\ k \in Int
    OBVIOUS
  <1>2. /\ s \o t \in Seq(Nat) /\ Len(s \o t) = k + n
        /\ \A i \in 1..(k + n) : (s \o t)[i] = IF i <= k THEN s[i] ELSE t[i - k]
    BY ZenonT(30), <1>1, ConcatProperties
  <1>3. \A i \in 1..(k + n) : (s \o t)[i] = u[i]
    <2> SUFFICES ASSUME NEW i \in 1..(k + n) PROVE (s \o t)[i] = u[i]
      OBVIOUS
    <2>1. CASE i <= k
      BY <2>1, <1>1, <1>2
    <2>2. CASE ~(i <= k)
      <3>0. i \in Int /\ i > k /\ i <= k + n /\ i - k \in 1..n
        BY <2>2, <1>0
      <3>1. i - k \in 1..n /\ (s \o t)[i] = t[i - k] /\ u[i] = a + i
        BY <2>2, <3>0, <1>1, <1>2
      <3>2. t[i - k] = a + k + (i - k)
        BY <3>1, <1>1
      <3>3. a + k + (i - k) = a + i
        OBVIOUS
      <3> QED BY <3>1, <3>2, <3>3
    <2> QED BY <2>1, <2>2
  <1>4. s \o t = u
    BY <1>1, <1>2, <1>3, SeqEqual
  <1> QED BY <1>4 DEF s, t, u

LEMMA LastOfJoin ==
  ASSUME NEW s \in Seq(Nat), NEW t \in Seq(Nat), Len(t) > 0
  PROVE  /\ s \o t \in Seq(Nat) /\ s \o t # <<>>
         /\ (s \o t)[Len(s \o t)] = t[Len(t)]
  <1>1. Len(s) \in Nat /\ Len(t) \in Nat
    BY LenProperties
  <1>2. /\ s \o t \in Seq(Nat) /\ Len(s \o t) = Len(s) + Len(t)
        /\ \A i \in 1..Len(s) + Len(t) : (s \o t)[i] = IF i <= Len(s) THEN s[i] ELSE t[i - Len(s)]
    BY ConcatProperties
  <1>3. (s \o t)[Len(s) + Len(t)] = t[Len(t)]
    BY <1>1, <1>2
  <1>4. s \o t # <<>>
    BY <1>1, <1>2
  <1> QED BY <1>2, <1>3, <1>4

LEMMA RowNumbersEmpty == ASSUME NEW a \in Nat PROVE RowNumbers(a, 0) = <<>>
  BY RowNumbersType

-----------------------------------------------------------------------------
(* What the column operations do to an accessor. *)
LEMMA MadeKeeps ==
  ASSUME NEW b \in Nat, NEW col \in ColumnsTo(b), NEW t \in Types
  PROVE  /\ Made(col, t) \in ColumnsTo(b) /\ Made(col, t).binding = col.binding
         /\ Made(col, t).array = col.array /\ Made(col, t).batch = col.array
         /\ Made(col, t).type = t
  <1> DEFINE new == [col EXCEPT !.type = t, !.batch = col.array, !.cast = "own"]
  <1>1. /\ new \in ColumnsTo(b) /\ new.binding = col.binding /\ new.array = col.array
        /\ new.batch = col.array /\ new.type = t
    BY DEF ColumnsTo
  <1> QED BY <1>1 DEF Made

LEMMA UnmadeKeeps ==
  ASSUME NEW b \in Nat, NEW col \in ColumnsTo(b), NEW t, NEW new \in Unmade(col, t)
  PROVE  /\ new \in ColumnsTo(b) /\ new.binding = col.binding /\ new.array = col.array
         /\ new.type = col.type /\ new.batch = col.batch
  <1>1. PICK cast \in (IF MayFail THEN {col.cast} ELSE {})
                     \union (IF t \in NoAccessor THEN {"other"} ELSE {}) :
                new = [col EXCEPT !.cast = cast]
    BY DEF Unmade
  <1>2. cast \in {"none", "own", "other"}
    BY <1>1 DEF ColumnsTo
  <1> QED BY <1>1, <1>2 DEF ColumnsTo

LEMMA BoundKeeps ==
  ASSUME NEW b \in Nat, NEW col \in ColumnsTo(b), NEW t \in Types
  PROVE  LET new == [col EXCEPT !.binding = t]
         IN  /\ new \in ColumnsTo(b) /\ new.binding = t /\ new.array = col.array
             /\ new.type = col.type /\ new.batch = col.batch /\ new.cast = col.cast
  BY DEF ColumnsTo

LEMMA SetBindingKeeps ==
  ASSUME NEW b \in Nat, NEW col \in ColumnsTo(b), NEW t \in Types, Held(col)
  PROVE  LET new == SetBinding(col, t)
         IN  /\ new \in ColumnsTo(b) /\ new.binding = t /\ new.array = col.array
             /\ new.batch \in {col.batch, col.array}
             /\ Held(new) /\ BoundAs(new)
             /\ Fresh(col, b) => Fresh(new, b) /\ (b > 0 => HasAccessor(new))
  <1> DEFINE bound == [col EXCEPT !.binding = t]
             made == Made(bound, t)
  <1>1. /\ bound \in ColumnsTo(b) /\ bound.binding = t /\ bound.array = col.array
        /\ bound.type = col.type /\ bound.batch = col.batch
    BY BoundKeeps
  <1>2. SetBinding(col, t) = IF NeedsAccessor(col, t) THEN made ELSE bound
    BY DEF SetBinding
  <1> HIDE DEF bound
  <1>3. /\ made \in ColumnsTo(b) /\ made.binding = t /\ made.array = col.array
        /\ made.batch = col.array /\ made.type = t
    BY <1>1, MadeKeeps
  <1> HIDE DEF made
  <1>4. t # None
    BY ResultSetAssumption
  <1>5. CASE NeedsAccessor(col, t)
    <2>1. SetBinding(col, t) = made /\ col.array # 0
      BY <1>2, <1>5 DEF NeedsAccessor
    <2> QED BY <1>3, <1>4, <2>1 DEF Held, BoundAs, HasAccessor, Fresh
  <1>6. CASE ~NeedsAccessor(col, t)
    <2>1. SetBinding(col, t) = bound /\ (col.array # 0 => col.type = t)
      BY <1>2, <1>6 DEF NeedsAccessor
    <2> QED BY <1>1, <1>4, <2>1 DEF Held, BoundAs, HasAccessor, Fresh
  <1> QED BY <1>5, <1>6

LEMMA ResetBindingKeeps ==
  ASSUME NEW b \in Nat, NEW col \in ColumnsTo(b)
  PROVE  LET new == ResetBinding(col)
         IN  /\ new \in ColumnsTo(b) /\ new.binding = None /\ new.array = col.array
             /\ new.batch = 0
             /\ Held(new) /\ BoundAs(new) /\ HasAccessor(new)
             /\ Fresh(col, b) => Fresh(new, b)
  <1> DEFINE new == [col EXCEPT !.binding = None, !.type = None, !.batch = 0, !.cast = "none"]
  <1>0. 0 \in 0..b /\ None \in Types \union {None}
    OBVIOUS
  <1>1. /\ new \in ColumnsTo(b) /\ new.binding = None /\ new.type = None
        /\ new.array = col.array /\ new.batch = 0
    BY <1>0 DEF ColumnsTo
  <1>2. ResetBinding(col) = new
    BY DEF ResetBinding
  <1> HIDE DEF new
  <1> QED BY <1>1, <1>2 DEF Held, BoundAs, HasAccessor, Fresh

LEMMA ResetAccessorMoves ==
  ASSUME NEW b \in Nat, NEW col \in ColumnsTo(b), BoundAs(col)
  PROVE  LET new == ResetAccessor(col, b + 1)
         IN  /\ new \in ColumnsTo(b + 1) /\ new.binding = col.binding
             /\ new.array = b + 1 /\ new.batch \in {0, b + 1}
             /\ Held(new) /\ BoundAs(new) /\ HasAccessor(new) /\ Fresh(new, b + 1)
  <1> DEFINE moved == [col EXCEPT !.array = b + 1]
             t == RebuiltAs(col)
             none == [moved EXCEPT !.batch = 0, !.cast = "none"]
             made == Made(moved, t)
  <1>0. 0 \in 0..(b + 1) /\ b + 1 \in 0..(b + 1) /\ b + 1 \in Nat /\ b + 1 > 0
        /\ 0..b \subseteq 0..(b + 1)
    OBVIOUS
  <1>1. /\ moved \in ColumnsTo(b + 1) /\ moved.array = b + 1 /\ moved.type = col.type
        /\ moved.binding = col.binding
    BY <1>0 DEF ColumnsTo
  <1>2. t \in Types \union {None} /\ (t = None => col.binding = None /\ col.type = None)
        /\ (col.binding # None => t = col.binding)
    <2>1. CASE col.type = None
      BY <2>1 DEF ColumnsTo, RebuiltAs
    <2>2. CASE col.type # None
      BY <2>2 DEF BoundAs, ColumnsTo, RebuiltAs
    <2> QED BY <2>1, <2>2
  <1>3. ResetAccessor(col, b + 1) = IF t = None THEN none ELSE made
    BY DEF ResetAccessor
  <1> HIDE DEF moved, t
  <1>4. CASE t = None
    <2>1. /\ none \in ColumnsTo(b + 1) /\ none.array = b + 1 /\ none.type = None
          /\ none.binding = None /\ none.batch = 0
      BY <1>0, <1>1, <1>2, <1>4 DEF ColumnsTo
    <2> HIDE DEF none
    <2> QED BY <1>0, <1>2, <1>3, <1>4, <2>1 DEF Held, BoundAs, HasAccessor, Fresh
  <1>5. CASE t # None
    <2>1. t \in Types
      BY <1>2, <1>5
    <2>2. /\ made \in ColumnsTo(b + 1) /\ made.array = b + 1 /\ made.type = t
          /\ made.binding = col.binding /\ made.batch = b + 1
      BY <1>0, <1>1, <2>1, MadeKeeps
    <2> HIDE DEF made
    <2> QED BY <1>0, <1>2, <1>3, <1>5, <2>2 DEF Held, BoundAs, HasAccessor, Fresh
  <1> QED BY <1>4, <1>5

LEMMA GetAccessorKeeps ==
  ASSUME NEW b \in Nat, NEW col \in ColumnsTo(b), Held(col), NEW t \in Types,
         GetAccessorForGetData(col, t).batch # 0
  PROVE  LET new == GetAccessorForGetData(col, t)
         IN  /\ new \in ColumnsTo(b) /\ new.binding = col.binding /\ new.array = col.array
             /\ new.batch \in {col.batch, col.array} /\ Held(new)
             /\ Fresh(col, b) => Fresh(new, b)
  <1> DEFINE made == Made(col, t)
  <1>1. /\ made \in ColumnsTo(b) /\ made.binding = col.binding /\ made.array = col.array
        /\ made.batch = col.array /\ made.type = t
    BY MadeKeeps
  <1>2. GetAccessorForGetData(col, t) = IF col.type = t THEN col ELSE made
    BY DEF GetAccessorForGetData
  <1> HIDE DEF made
  <1>3. CASE col.type = t
    BY <1>2, <1>3
  <1>4. CASE col.type # t
    <2>1. GetAccessorForGetData(col, t) = made /\ col.array # 0
      BY <1>1, <1>2, <1>4
    <2>2. Fresh(col, b) => b > 0
      BY <2>1 DEF Fresh
    <2> QED BY <1>1, <2>1, <2>2 DEF Held, Fresh
  <1> QED BY <1>3, <1>4

-----------------------------------------------------------------------------
(* The steps, by what they leave alone. *)
LEMMA SameCursor ==
  ASSUME Inv, UNCHANGED <<source, ends, chunk, row, passed, mishap>>
  PROVE  CursorOK'
  BY DEF Inv, CursorOK, Last, RowsOf, End

LEMMA SameColumns ==
  ASSUME Inv, UNCHANGED <<columns, ends, mishap, propagated>>
  PROVE  AccessorsOK' /\ Bound' = Bound
  BY DEF Inv, AccessorsOK, Last, Bound

LEMMA SameStale ==
  ASSUME Inv, UNCHANGED <<columns, ends, row>>, HasRead' => HasRead
  PROVE  StaleOK'
  <1> SUFFICES ASSUME NEW c \in Columns
               PROVE  Behind(columns[c].array)' /\ Behind(columns[c].batch)'
    BY DEF StaleOK
  <1>1. Behind(columns[c].array) /\ Behind(columns[c].batch)
    BY DEF Inv, StaleOK
  <1> QED BY <1>1 DEF Behind, RowsOf, End, Last

(* One column changes, and reads no other batch than it did or had the array of. *)
LEMMA StaleColumn ==
  ASSUME Inv, NEW c \in Columns, NEW col, columns' = [columns EXCEPT ![c] = col],
         col.array = columns[c].array, col.batch \in {0, columns[c].batch, columns[c].array},
         UNCHANGED <<ends, row>>, HasRead' => HasRead
  PROVE  StaleOK'
  <1> SUFFICES ASSUME NEW d \in Columns
               PROVE  Behind(columns[d].array)' /\ Behind(columns[d].batch)'
    BY DEF StaleOK
  <1>1. columns'[d] = IF d = c THEN col ELSE columns[d]
    BY Typed DEF Inv
  <1>2. \A b : Behind(b) => (b \notin {0, Last'} =>
                               RowsOf(b)' <= row' /\ (HasRead' => RowsOf(b)' < row'))
    BY DEF Behind, RowsOf, End, Last
  <1>3. Behind(columns[d].array) /\ Behind(columns[d].batch) /\ Behind(0)
    BY DEF Inv, StaleOK, Behind
  <1> QED BY <1>1, <1>2, <1>3 DEF Behind

(* The column a binding is passed on to. *)
LEMMA Propagating ==
  ASSUME Inv, NEW c \in Columns, Propagates(c)
  PROVE  /\ Last \in Nat /\ columns[c] \in ColumnsTo(Last) /\ Held(columns[c])
         /\ mishap # "now" => Fresh(columns[c], Last)
         /\ propagated \in 0..NumColumns /\ c \in 1..NumColumns
         /\ \A d \in Columns : d < c => d <= propagated
         /\ ~Moving
  <1>1. propagated \in 0..NumColumns /\ c \in 1..NumColumns /\ NumColumns \in Nat
    BY ResultSetAssumption DEF Inv, TypeOK, Columns
  <1>2. \A d \in Columns : d < c => d <= propagated
    BY <1>1 DEF Propagates, Columns
  <1> QED BY <1>1, <1>2, Typed DEF Inv, AccessorsOK, Propagates, Moving

(* The count follows the column. *)
LEMMA Counted ==
  ASSUME Inv, NEW c \in Columns, NEW col \in ColumnsTo(Last),
         columns' = [columns EXCEPT ![c] = col],
         numBinding' = IF col.binding = None
                       THEN numBinding - (IF c \in Bound THEN 1 ELSE 0)
                       ELSE numBinding + (IF c \in Bound THEN 0 ELSE 1)
  PROVE  /\ columns' \in [Columns -> ColumnsTo(Last)] /\ columns'[c] = col
         /\ \A d \in Columns : d # c => columns'[d] = columns[d]
         /\ numBinding' = Cardinality(Bound')
  <1>1. /\ columns' \in [Columns -> ColumnsTo(Last)] /\ columns'[c] = col
        /\ \A d \in Columns : d # c => columns'[d] = columns[d]
    BY Typed DEF Inv
  <1>2. numBinding = Cardinality(Bound) /\ IsFiniteSet(Bound) /\ Cardinality(Bound) \in Nat
    BY BoundCount DEF Inv, TypeOK
  <1>3. CASE col.binding = None
    <2>1. Bound' = Bound \ {c}
      BY <1>1, <1>3 DEF Bound
    <2>2. Cardinality(Bound \ {c}) = IF c \in Bound THEN Cardinality(Bound) - 1
                                     ELSE Cardinality(Bound)
      BY <1>2, FS_RemoveElement
    <2> QED BY <1>1, <1>2, <1>3, <2>1, <2>2
  <1>4. CASE col.binding # None
    <2>1. Bound' = Bound \cup {c}
      BY <1>1, <1>4 DEF Bound
    <2>2. Cardinality(Bound \cup {c}) = IF c \in Bound THEN Cardinality(Bound)
                                        ELSE Cardinality(Bound) + 1
      BY <1>2, FS_AddElement
    <2> QED BY <1>1, <1>2, <1>4, <2>1, <2>2
  <1> QED BY <1>3, <1>4

LEMMA InvBindColumn ==
  ASSUME Inv, NEW c \in Columns, NEW t \in Types \union {None}, BindColumn(c, t)
  PROVE  Inv'
  <1> DEFINE col == IF t = None THEN ResetBinding(columns[c]) ELSE SetBinding(columns[c], t)
  <1>0. /\ call' = "bind" /\ propagated' = c /\ Propagates(c)
        /\ UNCHANGED <<source, ends, chunk, row, mishap, offsets, resetGetData, reply, offsetOf,
                       move, status, delivered, passed>>
        /\ columns' = [columns EXCEPT ![c] = col]
        /\ t = None => numBinding' = numBinding - (IF c \in Bound THEN 1 ELSE 0)
        /\ t # None => numBinding' = numBinding + (IF c \in Bound THEN 0 ELSE 1)
    BY DEF BindColumn, cursor, getdata
  <1>1. /\ Last \in Nat /\ columns[c] \in ColumnsTo(Last) /\ Held(columns[c])
        /\ mishap # "now" => Fresh(columns[c], Last)
        /\ \A d \in Columns : d < c => d <= propagated
        /\ c \in 1..NumColumns
    BY <1>0, Propagating
  <1>2. /\ col \in ColumnsTo(Last) /\ col.binding = t /\ col.array = columns[c].array
        /\ col.batch \in {0, columns[c].batch, columns[c].array} /\ Held(col) /\ BoundAs(col)
        /\ mishap # "now" => Fresh(col, Last) /\ (Last > 0 => HasAccessor(col))
    <2>1. CASE t = None
      BY <2>1, <1>1, ResetBindingKeeps
    <2>2. CASE t # None
      <3>1. t \in Types
        BY <2>2
      <3> QED BY <2>2, <3>1, <1>1, SetBindingKeeps
    <2> QED BY <2>1, <2>2
  <1> HIDE DEF col
  <1>3. /\ columns' \in [Columns -> ColumnsTo(Last)] /\ columns'[c] = col
        /\ \A d \in Columns : d # c => columns'[d] = columns[d]
        /\ numBinding' = Cardinality(Bound')
    BY <1>0, <1>2, Counted
  <1>4. Last' = Last /\ ~Moving' /\ ~OnARow' /\ ~HasRead'
    BY <1>0 DEF Last, Moving, OnARow, HasRead
  <1>5. TypeOK'
    <2>1. propagated' \in 0..NumColumns
      BY <1>0, <1>1, ResultSetAssumption
    <2> QED BY <2>1, <1>0, <1>3 DEF Inv, TypeOK, ColumnsTo, Last, Phases
  <1>6. CursorOK'
    BY <1>0, SameCursor
  <1>7. MoveOK'
    BY <1>0, <1>4 DEF Inv, MoveOK, Fetched
  <1>8. AccessorsOK'
    <2> SUFFICES ASSUME NEW d \in Columns
                 PROVE  /\ Held(columns'[d]) /\ (mishap # "now" => Fresh(columns'[d], Last))
                        /\ d <= c => BoundAs(columns'[d])
                              /\ (mishap # "now" /\ Last > 0 => HasAccessor(columns'[d]))
      BY <1>0, <1>4 DEF AccessorsOK, Held, Fresh, BoundAs, HasAccessor
    <2>1. CASE d = c
      BY <2>1, <1>2, <1>3
    <2>2. CASE d # c
      <3>1. d <= c => d < c
        BY <2>2, <1>1 DEF Columns
      <3> QED BY <2>2, <3>1, <1>1, <1>3 DEF Inv, AccessorsOK
    <2> QED BY <2>1, <2>2
  <1>9. StaleOK'
    BY <1>0, <1>2, <1>4, StaleColumn
  <1>10. OffsetsOK' /\ StatusesOK'
    BY <1>0 DEF Inv, OffsetsOK, StatusesOK
  <1>11. GetDataReadsLastRow' /\ OffsetsAreCurrent' /\ StatusTellsRows'
    BY <1>0, <1>4 DEF Inv, GetDataReadsLastRow, LastRow, OffsetsAreCurrent, StatusTellsRows
  <1> QED BY <1>5, <1>6, <1>7, <1>8, <1>9, <1>10, <1>11 DEF Inv

(* No accessor could be made: the column is bound, its accessor is as it was,
   and no Move comes before it is bound again. *)
LEMMA InvBindColumnFails ==
  ASSUME Inv, NEW c \in Columns, NEW t \in Types, BindColumnFails(c, t)
  PROVE  Inv'
  <1> DEFINE bound == [columns[c] EXCEPT !.binding = t]
  <1>0. /\ call' = "none" /\ propagated' = c - 1 /\ Propagates(c)
        /\ move' = [move EXCEPT !.ok = FALSE]
        /\ UNCHANGED <<source, ends, chunk, row, mishap, offsets, resetGetData, reply, offsetOf,
                       status, delivered, passed>>
        /\ numBinding' = numBinding + (IF c \in Bound THEN 0 ELSE 1)
    BY DEF BindColumnFails, cursor, getdata
  <1>1. /\ Last \in Nat /\ columns[c] \in ColumnsTo(Last) /\ Held(columns[c])
        /\ mishap # "now" => Fresh(columns[c], Last)
        /\ \A d \in Columns : d < c => d <= propagated
        /\ c \in 1..NumColumns
    BY <1>0, Propagating
  <1>2. PICK col \in Unmade(bound, t) : columns' = [columns EXCEPT ![c] = col]
    BY DEF BindColumnFails
  <1>3. /\ bound \in ColumnsTo(Last) /\ bound.binding = t /\ bound.array = columns[c].array
        /\ bound.type = columns[c].type /\ bound.batch = columns[c].batch
    BY <1>1, BoundKeeps
  <1> HIDE DEF bound
  <1>4. /\ col \in ColumnsTo(Last) /\ col.binding = t /\ col.array = columns[c].array
        /\ col.batch = columns[c].batch /\ Held(col) /\ t # None
        /\ mishap # "now" => Fresh(col, Last)
    <2>1. /\ col \in ColumnsTo(Last) /\ col.binding = t /\ col.array = columns[c].array
          /\ col.type = columns[c].type /\ col.batch = columns[c].batch
      BY <1>1, <1>2, <1>3, UnmadeKeeps
    <2> QED BY <2>1, <1>1, ResultSetAssumption DEF Held, Fresh
  <1>5. /\ columns' \in [Columns -> ColumnsTo(Last)] /\ columns'[c] = col
        /\ \A d \in Columns : d # c => columns'[d] = columns[d]
        /\ numBinding' = Cardinality(Bound')
    BY <1>0, <1>2, <1>4, Counted
  <1>6. /\ move' \in MoveTypes /\ move'.pending = move.pending /\ move'.rows = move.rows
        /\ move'.ok = FALSE
    BY <1>0, Typed DEF Inv, MoveTypes
  <1>7. Last' = Last /\ ~Moving' /\ ~OnARow' /\ ~HasRead'
    BY <1>0, <1>6 DEF Last, Moving, OnARow, HasRead
  <1>8. TypeOK'
    <2>1. propagated' \in 0..NumColumns
      BY <1>0, <1>1, ResultSetAssumption
    <2> QED BY <2>1, <1>0, <1>5, <1>6 DEF Inv, TypeOK, MoveTypes, ColumnsTo, Last, Phases
  <1>9. CursorOK'
    BY <1>0, SameCursor
  <1>10. MoveOK'
    BY <1>0, <1>6, <1>7 DEF Inv, MoveOK, Fetched
  <1>11. AccessorsOK'
    <2> SUFFICES ASSUME NEW d \in Columns
                 PROVE  /\ Held(columns'[d]) /\ (mishap # "now" => Fresh(columns'[d], Last))
                        /\ d <= c - 1 => BoundAs(columns'[d])
                              /\ (mishap # "now" /\ Last > 0 => HasAccessor(columns'[d]))
      BY <1>0, <1>7 DEF AccessorsOK, Held, Fresh, BoundAs, HasAccessor
    <2>1. CASE d = c
      BY <2>1, <1>1, <1>4, <1>5
    <2>2. CASE d # c
      <3>1. d <= c - 1 => d < c
        BY <1>1 DEF Columns
      <3> QED BY <2>2, <3>1, <1>1, <1>5 DEF Inv, AccessorsOK
    <2> QED BY <2>1, <2>2
  <1>12. StaleOK'
    BY <1>0, <1>2, <1>4, <1>7, StaleColumn
  <1>13. OffsetsOK' /\ StatusesOK'
    BY <1>0 DEF Inv, OffsetsOK, StatusesOK
  <1>14. GetDataReadsLastRow' /\ OffsetsAreCurrent' /\ StatusTellsRows'
    BY <1>0, <1>7 DEF Inv, GetDataReadsLastRow, LastRow, OffsetsAreCurrent, StatusTellsRows
  <1> QED BY <1>8, <1>9, <1>10, <1>11, <1>12, <1>13, <1>14 DEF Inv

(* A call that goes astray changes nothing the others rely on. *)
LEMMA InvAstray ==
  ASSUME Inv, UNCHANGED <<cursor, bindings, getdata, move, status, delivered, passed>>,
         call' = "astray" \/ (call' = "moveAstray" /\ call = "loop")
  PROVE  Inv'
  <1>1. UNCHANGED <<source, ends, chunk, row, mishap, columns, numBinding, propagated, offsets,
                    resetGetData, reply, offsetOf, move, status, delivered, passed>>
    BY DEF cursor, bindings, getdata
  <1>2. /\ Fetched' = Fetched /\ ~OnARow' /\ (Moving' => Moving) /\ (HasRead' => HasRead)
        /\ call' \in Phases /\ call' \notin {"loop", "first"}
    BY <1>1 DEF Fetched, OnARow, Moving, HasRead, Phases
  <1>3. CursorOK' /\ AccessorsOK' /\ Bound' = Bound /\ StaleOK'
    BY <1>1, <1>2, SameCursor, SameColumns, SameStale
  <1>4. TypeOK'
    BY <1>1, <1>2, <1>3 DEF Inv, TypeOK
  <1>5. MoveOK'
    BY <1>1, <1>2 DEF Inv, MoveOK
  <1>6. OffsetsOK' /\ StatusesOK'
    BY <1>1, <1>2 DEF Inv, OffsetsOK, StatusesOK
  <1>7. GetDataReadsLastRow' /\ OffsetsAreCurrent' /\ StatusTellsRows'
    BY <1>1, <1>2 DEF Inv, GetDataReadsLastRow, LastRow, OffsetsAreCurrent, StatusTellsRows
  <1> QED BY <1>3, <1>4, <1>5, <1>6, <1>7 DEF Inv

(* After the offsets were reset an unbound column is unread. *)
LEMMA OffsetsReset ==
  ASSUME Inv, ResetOffsets
  PROVE  /\ offsets' \in [Columns -> Offsets]
         /\ \A c \in Columns \ Bound : offsets'[c] = "start"
         /\ ~resetGetData => \A c \in Columns : offsets'[c] = "start"
         /\ offsetOf' \in [Columns -> Nat]
  <1>1. numBinding = NumColumns => Columns \ Bound = {}
    BY BoundCount DEF Inv, TypeOK
  <1>2. offsets \in [Columns -> Offsets] /\ "start" \in Offsets /\ offsetOf \in [Columns -> Nat]
    BY DEF Inv, TypeOK, Offsets
  <1>3. CASE numBinding # NumColumns /\ resetGetData
    BY <1>2, <1>3 DEF ResetOffsets
  <1>4. CASE ~(numBinding # NumColumns /\ resetGetData)
    BY <1>1, <1>2, <1>4 DEF ResetOffsets, Inv, OffsetsOK
  <1> QED BY <1>3, <1>4

LEMMA InvStartMove ==
  ASSUME Inv, NEW n \in 1..MaxRowset, NEW b \in BindTypes, StartMove(n, b)
  PROVE  Inv'
  <1>1. /\ move' = [rows |-> n, bindType |-> b, pending |-> <<>>, ok |-> FALSE]
        /\ status' = [i \in Cells |-> "unset"] /\ reply' = NoReply
        /\ propagated = NumColumns
        /\ (chunk = 0 /\ call' = "first" /\ UNCHANGED <<offsets, offsetOf>>)
           \/ (chunk # 0 /\ call' = "loop" /\ ResetOffsets)
        /\ UNCHANGED <<source, ends, chunk, row, mishap, columns, numBinding, propagated,
                       resetGetData, delivered, passed>>
    BY DEF StartMove, cursor, bindings
  <1>2. n \in 0..MaxRowset /\ n > 0 /\ n \in Nat
    BY ResultSetAssumption
  <1>3. /\ move' \in MoveTypes /\ move'.rows = n /\ move'.pending = <<>> /\ move'.ok = FALSE
    BY <1>1, <1>2 DEF MoveTypes
  <1>4. Fetched' = 0 /\ ~HasRead'
    BY <1>3 DEF Fetched, HasRead
  <1>5. offsets' \in [Columns -> Offsets] /\ offsetOf' \in [Columns -> Nat]
    BY <1>1, OffsetsReset DEF Inv, TypeOK
  <1>6. TypeOK'
    <2>1. status' \in [Cells -> Statuses]
      BY <1>1 DEF Statuses
    <2>2. reply' \in [kind : {"none", "true", "false"}, from : Nat]
      BY <1>1 DEF NoReply
    <2>3. Bound' = Bound
      BY <1>1, SameColumns
    <2> QED BY <1>1, <1>3, <1>5, <2>1, <2>2, <2>3 DEF Inv, TypeOK, MoveTypes, Phases
  <1>7. CursorOK' /\ AccessorsOK' /\ Bound' = Bound /\ StaleOK'
    BY <1>1, <1>4, SameCursor, SameColumns, SameStale
  <1>8. MoveOK'
    <2>1. reply'.kind # "true"
      BY <1>1 DEF NoReply
    <2>2. passed \in Nat /\ move'.pending = RowNumbers(passed - 0, 0)
      BY <1>3, Typed, RowNumbersEmpty DEF Inv
    <2> QED BY <1>1, <1>2, <1>3, <1>4, <2>1, <2>2 DEF MoveOK, Moving, OnARow
  <1>9. OffsetsOK'
    BY <1>1, <1>7, OffsetsReset DEF Inv, OffsetsOK
  <1>10. StatusesOK'
    BY <1>1, <1>4 DEF StatusesOK, Cells
  <1>11. GetDataReadsLastRow' /\ OffsetsAreCurrent' /\ StatusTellsRows'
    BY <1>1 DEF GetDataReadsLastRow, NoReply, OffsetsAreCurrent, StatusTellsRows, OnARow
  <1> QED BY <1>6, <1>7, <1>8, <1>9, <1>10, <1>11 DEF Inv

(* A batch is taken by a cursor that stands behind the rows before it. *)
LEMMA Taken ==
  ASSUME Inv, NEW n \in 0..MaxRows, TakeBatch(n), passed = End(Last)
  PROVE  /\ source = "open" /\ source' = "open" /\ chunk' # 0 /\ chunk' = Last + 1
         /\ ends' \in Seq(Nat) /\ Len(ends') = Last + 1 /\ Last' = Last + 1
         /\ chunk' \in 0..Len(ends') /\ Last \in Nat
         /\ RowsOf(Last)' = n /\ passed = End(Last - 1)'
         /\ \A b \in 1..Last : RowsOf(b)' = RowsOf(b)
  <1>1. /\ source = "open" /\ source' = source /\ chunk' = Len(ends) + 1
        /\ ends' = Append(ends, End(Len(ends)) + n)
    BY DEF TakeBatch
  <1>2. Last \in Nat /\ Last = Len(ends) /\ n \in Nat /\ Last \in 0..Last
    BY Typed, ResultSetAssumption DEF Inv, Last
  <1>3. End(Last) \in Nat
    BY <1>2, EndTypes DEF Inv
  <1>4. ends' = Append(ends, End(Last) + n)
    BY <1>1, <1>2
  <1>5. /\ ends' \in Seq(Nat) /\ Len(ends') = Last + 1
        /\ \A b \in 0..Last : End(b)' = End(b)
        /\ \A b : b = Last + 1 => End(b)' = End(Last) + n
    BY <1>2, <1>4, NewBatch DEF Inv
  <1>6. Last' = Last + 1 /\ Last' - 1 = Last
    BY <1>2, <1>5 DEF Last
  <1>7. (End(Last))' = End(Last) + n /\ (End(Last - 1))' = End(Last)
    <2>1. ends'[Last + 1] = End(Last) + n /\ (Last # 0 => ends'[Last] = End(Last))
      BY <1>2, <1>5 DEF End
    <2>2. Last + 1 # 0 /\ (Last = 0 => End(Last) = 0)
      BY <1>2 DEF End
    <2>3. (End(Last))' = IF Last' = 0 THEN 0 ELSE ends'[Last']
      BY DEF End
    <2>4. (End(Last - 1))' = IF Last' - 1 = 0 THEN 0 ELSE ends'[Last' - 1]
      BY DEF End
    <2> QED BY <1>6, <2>1, <2>2, <2>3, <2>4
  <1>8. RowsOf(Last)' = n
    BY <1>2, <1>3, <1>6, <1>7 DEF RowsOf
  <1>9. ASSUME NEW b \in 1..Last PROVE RowsOf(b)' = RowsOf(b)
    <2>1. b \in 0..Last /\ b - 1 \in 0..Last
      BY <1>2
    <2>2. End(b)' = End(b) /\ End(b - 1)' = End(b - 1)
      BY <2>1, <1>5
    <2> QED BY <2>2 DEF RowsOf
  <1> QED BY <1>1, <1>2, <1>5, <1>6, <1>7, <1>8, <1>9

(* ... and received when every column has its accessor again. *)
LEMMA Received ==
  ASSUME Inv, NEW n \in 0..MaxRows, ReceiveBatch(n), row' = 0, passed' = passed,
         passed = End(Last), Moving, UNCHANGED propagated
  PROVE  /\ source = "open" /\ source' = "open" /\ chunk' # 0
         /\ ends' \in Seq(Nat) /\ chunk' \in 0..Len(ends')
         /\ columns' \in [Columns -> ColumnsTo(Len(ends'))]
         /\ mishap' \in {"never", "once"} /\ (mishap' = "never" <=> mishap = "never")
         /\ Bound' = Bound /\ CursorOK' /\ AccessorsOK' /\ StaleOK'
  <1>1. /\ TakeBatch(n) /\ mishap' = IF mishap = "now" THEN "once" ELSE mishap
        /\ columns' = [c \in Columns |-> ResetAccessor(columns[c], Len(ends) + 1)]
    BY DEF ReceiveBatch
  <1>2. /\ source = "open" /\ source' = "open" /\ chunk' # 0 /\ chunk' = Last + 1
        /\ ends' \in Seq(Nat) /\ Len(ends') = Last + 1 /\ Last' = Last + 1
        /\ chunk' \in 0..Len(ends') /\ Last \in Nat
        /\ RowsOf(Last)' = n /\ passed = End(Last - 1)'
    BY <1>1, Taken
  <1>3. mishap' \in {"never", "once"} /\ (mishap' = "never" <=> mishap = "never")
    BY <1>1 DEF Inv, TypeOK
  <1>4. ASSUME NEW c \in Columns
        PROVE  /\ columns'[c] \in ColumnsTo(Last + 1) /\ columns'[c].binding = columns[c].binding
               /\ columns'[c].array = Last + 1 /\ columns'[c].batch \in {0, Last + 1}
               /\ Held(columns'[c]) /\ BoundAs(columns'[c]) /\ HasAccessor(columns'[c])
               /\ Fresh(columns'[c], Last + 1)
    <2>1. columns'[c] = ResetAccessor(columns[c], Last + 1)
      BY <1>1 DEF Last
    <2>2. c <= propagated
      BY ResultSetAssumption DEF Inv, MoveOK, Columns
    <2>3. columns[c] \in ColumnsTo(Last) /\ BoundAs(columns[c])
      BY <2>2, Typed DEF Inv, AccessorsOK
    <2> QED BY <1>2, <2>1, <2>3, ResetAccessorMoves
  <1>5. columns' \in [Columns -> ColumnsTo(Last + 1)]
    BY <1>1, <1>4
  <1>6. Bound' = Bound
    BY <1>4 DEF Bound
  <1>7. AccessorsOK'
    BY <1>2, <1>4 DEF AccessorsOK, Held, BoundAs, HasAccessor, Fresh
  <1>8. StaleOK'
    BY <1>2, <1>4 DEF StaleOK, Behind
  <1>9. CursorOK'
    <2>1. passed \in Nat /\ n \in Nat
      BY Typed, ResultSetAssumption DEF Inv
    <2>2. passed' = End(Last - 1)' + row'
      BY <1>2, <2>1
    <2> QED BY <1>2, <2>1, <2>2 DEF CursorOK
  <1> QED BY <1>2, <1>3, <1>5, <1>6, <1>7, <1>8, <1>9

LEMMA InvFirstBatch ==
  ASSUME Inv, FirstBatch
  PROVE  Inv'
  <1>1. /\ call = "first" /\ call' = "loop" /\ ResetOffsets /\ Moving
        /\ UNCHANGED <<row, numBinding, propagated, resetGetData, reply, move, status,
                       delivered, passed>>
    BY DEF FirstBatch, Moving
  <1>2. PICK n \in 0..MaxRows : ReceiveBatch(n)
    BY DEF FirstBatch
  <1>3. chunk = 0 /\ Fetched = 0 /\ Last = 0 /\ row = 0 /\ passed = 0
    BY <1>1, <1>2 DEF Inv, MoveOK, CursorOK, ReceiveBatch, TakeBatch
  <1>4. passed = End(Last)
    BY <1>3 DEF End
  <1>5. /\ source = "open" /\ source' = "open" /\ chunk' # 0
        /\ ends' \in Seq(Nat) /\ chunk' \in 0..Len(ends')
        /\ columns' \in [Columns -> ColumnsTo(Len(ends'))]
        /\ mishap' \in {"never", "once"}
        /\ Bound' = Bound /\ CursorOK' /\ AccessorsOK' /\ StaleOK'
    BY <1>1, <1>2, <1>3, <1>4, Received
  <1>6. /\ offsets' \in [Columns -> Offsets]
        /\ \A c \in Columns \ Bound : offsets'[c] = "start"
        /\ ~resetGetData => \A c \in Columns : offsets'[c] = "start"
        /\ offsetOf' \in [Columns -> Nat]
    BY <1>1, OffsetsReset
  <1>7. TypeOK'
    BY <1>1, <1>5, <1>6 DEF Inv, TypeOK, ColumnsTo, Phases
  <1>8. MoveOK'
    BY <1>1, <1>3, <1>5 DEF Inv, MoveOK, Moving, OnARow, Fetched
  <1>9. OffsetsOK'
    BY <1>1, <1>5, <1>6 DEF Inv, OffsetsOK
  <1>10. StatusesOK'
    BY <1>1, <1>3 DEF Inv, StatusesOK, Fetched, Cells
  <1>11. GetDataReadsLastRow' /\ OffsetsAreCurrent' /\ StatusTellsRows'
    BY <1>1 DEF Inv, GetDataReadsLastRow, LastRow, OffsetsAreCurrent, StatusTellsRows, OnARow
  <1> QED BY <1>5, <1>7, <1>8, <1>9, <1>10, <1>11 DEF Inv

(* A Move that looks for the next batch has come to the end of its batch. *)
LEMMA BatchEnd ==
  ASSUME Inv, AtBatchEnd
  PROVE  /\ call = "loop" /\ chunk = Last /\ Last > 0 /\ row = RowsOf(Last)
         /\ Fetched < move.rows /\ passed = End(Last)
  <1>1. call = "loop" /\ chunk # 0 /\ chunk = Last /\ Last > 0 /\ Last \in Nat /\ Last \in 0..Last
        /\ Last - 1 \in 0..Last
    BY Typed DEF AtBatchEnd, Inv, MoveOK, CursorOK
  <1>2. End(Last) \in Nat /\ End(Last - 1) \in Nat
    BY <1>1, EndTypes DEF Inv
  <1>3. Fetched \in Nat /\ move.rows \in Nat /\ Fetched < move.rows /\ row \in Nat
    BY Typed DEF AtBatchEnd, Inv
  <1>4. RowsToFetch = 0
    BY DEF AtBatchEnd
  <1>5. RowsOf(Last) = End(Last) - End(Last - 1)
    BY DEF RowsOf
  <1>6. RowsOf(Last) - row = 0
    BY <1>1, <1>2, <1>3, <1>4, <1>5 DEF RowsToFetch
  <1>7. passed = End(Last - 1) + row
    BY <1>1 DEF Inv, CursorOK
  <1> QED BY <1>1, <1>2, <1>3, <1>5, <1>6, <1>7

LEMMA InvNextBatch ==
  ASSUME Inv, NextBatch
  PROVE  Inv'
  <1>1. /\ AtBatchEnd /\ row' = 0
        /\ UNCHANGED <<numBinding, propagated, offsets, resetGetData, reply, offsetOf, call, move,
                       status, delivered, passed>>
    BY DEF NextBatch, getdata
  <1>2. PICK n \in 0..MaxRows : ReceiveBatch(n)
    BY DEF NextBatch
  <1>3. call = "loop" /\ passed = End(Last) /\ Moving
    BY <1>1, BatchEnd DEF Moving
  <1>5. /\ source = "open" /\ source' = "open" /\ chunk' # 0
        /\ ends' \in Seq(Nat) /\ chunk' \in 0..Len(ends')
        /\ columns' \in [Columns -> ColumnsTo(Len(ends'))]
        /\ mishap' \in {"never", "once"}
        /\ Bound' = Bound /\ CursorOK' /\ AccessorsOK' /\ StaleOK'
    BY <1>1, <1>2, <1>3, Received
  <1>7. TypeOK'
    BY <1>1, <1>5 DEF Inv, TypeOK, ColumnsTo
  <1>8. MoveOK'
    BY <1>1, <1>3, <1>5 DEF Inv, MoveOK, Moving, OnARow, Fetched
  <1>9. OffsetsOK' /\ StatusesOK'
    BY <1>1, <1>5 DEF Inv, OffsetsOK, StatusesOK, Fetched
  <1>11. GetDataReadsLastRow' /\ OffsetsAreCurrent' /\ StatusTellsRows'
    BY <1>1, <1>3 DEF Inv, GetDataReadsLastRow, LastRow, OffsetsAreCurrent, StatusTellsRows, OnARow
  <1> QED BY <1>5, <1>7, <1>8, <1>9, <1>11 DEF Inv

(* The accessors of some columns could not be made for the batch that was taken:
   the ones that were not rebuilt read batches that end where the row is. *)
LEMMA Misplaced ==
  ASSUME Inv, NEW n \in 0..MaxRows, TakeBatch(n), ResetAccessorFails, Moving,
         UNCHANGED <<row, propagated>>, ~HasRead', mishap' = "now",
         passed = End(Last), Last > 0 => row = RowsOf(Last)
  PROVE  /\ columns' \in [Columns -> ColumnsTo(Last + 1)]
         /\ Bound' = Bound /\ AccessorsOK' /\ StaleOK'
  <1>1. /\ Len(ends') = Last + 1 /\ Last' = Last + 1 /\ Last \in Nat
        /\ \A b \in 1..Last : RowsOf(b)' = RowsOf(b)
    BY Taken
  <1>2. ASSUME NEW c \in Columns
        PROVE  /\ columns[c] \in ColumnsTo(Last) /\ Held(columns[c]) /\ BoundAs(columns[c])
               /\ Behind(columns[c].array) /\ Behind(columns[c].batch)
               /\ columns[c].array \in 0..Last /\ columns[c].batch \in 0..Last
    <2>1. c <= propagated
      BY ResultSetAssumption DEF Inv, MoveOK, Columns
    <2> QED BY <2>1, Typed DEF Inv, AccessorsOK, StaleOK, ColumnsTo
  <1>3. \A b \in 0..Last : Behind(b) => Behind(b)'
    <2> SUFFICES ASSUME NEW b \in 0..Last, Behind(b), b # 0
                 PROVE  RowsOf(b)' <= row'
      BY <1>1 DEF Behind
    <2>1. RowsOf(b)' = RowsOf(b) /\ row \in Nat
      BY <1>1, Typed DEF Inv
    <2> QED BY <1>1, <2>1 DEF Behind
  <1> DEFINE Good(col, c) == /\ col \in ColumnsTo(Last + 1) /\ col.binding = columns[c].binding
                             /\ Held(col) /\ BoundAs(col)
                             /\ col.array \in {columns[c].array, Last + 1}
                             /\ col.batch \in {columns[c].batch, 0, Last + 1}
  <1>5. ASSUME NEW c \in Columns PROVE Good(columns[c], c)
    <2>1. columns[c] \in ColumnsTo(Last + 1)
      BY <1>1, <1>2 DEF ColumnsTo
    <2> QED BY <1>2, <2>1
  <1>6. ASSUME NEW c \in Columns PROVE Good(ResetAccessor(columns[c], Last + 1), c)
    BY <1>1, <1>2, ResetAccessorMoves
  <1>7. ASSUME NEW c \in Columns, NEW t,
               NEW col \in Unmade([columns[c] EXCEPT !.array = Last + 1], t)
        PROVE  Good(col, c)
    <2> DEFINE moved == [columns[c] EXCEPT !.array = Last + 1]
    <2>1. /\ moved \in ColumnsTo(Last + 1) /\ moved.binding = columns[c].binding
          /\ moved.array = Last + 1 /\ moved.type = columns[c].type
          /\ moved.batch = columns[c].batch
      BY <1>1, <1>2 DEF ColumnsTo
    <2> HIDE DEF moved
    <2>2. /\ col \in ColumnsTo(Last + 1) /\ col.binding = columns[c].binding
          /\ col.array = Last + 1 /\ col.type = columns[c].type /\ col.batch = columns[c].batch
      <3>1. col \in Unmade(moved, t) /\ Last + 1 \in Nat
        BY <1>1, <1>7 DEF moved
      <3> QED BY <2>1, <3>1, UnmadeKeeps
    <2> QED BY <1>1, <1>2, <2>2 DEF Held, BoundAs
  <1>8. \A c \in Columns : Good(columns'[c], c)
    <2>1. CASE UNCHANGED columns
      BY <1>5, <2>1
    <2>2. ASSUME NEW c \in Columns,
                 NEW col \in Unmade([columns[c] EXCEPT !.array = Last + 1], RebuiltAs(columns[c])),
                 columns' = [d \in Columns |->
                     IF d < c THEN ResetAccessor(columns[d], Last + 1)
                     ELSE IF d = c THEN col ELSE columns[d]]
          PROVE  \A d \in Columns : Good(columns'[d], d)
      <3> HIDE DEF Good
      <3>1. Good(col, c)
        BY <1>7, <2>2
      <3> SUFFICES ASSUME NEW d \in Columns PROVE Good(columns'[d], d)
        OBVIOUS
      <3>2. columns'[d] = IF d < c THEN ResetAccessor(columns[d], Last + 1)
                          ELSE IF d = c THEN col ELSE columns[d]
        BY <2>2
      <3> QED BY <1>5, <1>6, <3>1, <3>2
    <2> QED BY <2>1, <2>2 DEF ResetAccessorFails, Last
  <1>9. DOMAIN columns' = Columns /\ columns' = [c \in Columns |-> columns'[c]]
    <2>1. columns = [c \in Columns |-> columns[c]]
      BY Typed DEF Inv
    <2> QED BY <2>1 DEF ResetAccessorFails
  <1>10. columns' \in [Columns -> ColumnsTo(Last + 1)]
    BY <1>8, <1>9
  <1>11. Bound' = Bound
    BY <1>8 DEF Bound
  <1>12. AccessorsOK'
    BY <1>8 DEF AccessorsOK, Held, BoundAs
  <1>13. StaleOK'
    <2> SUFFICES ASSUME NEW c \in Columns
                 PROVE  Behind(columns[c].array)' /\ Behind(columns[c].batch)'
      BY DEF StaleOK
    <2>1. \A b : b \in {columns[c].array, columns[c].batch, 0, Last + 1} =>
                   (b \notin {0, Last'} => RowsOf(b)' <= row' /\ (HasRead' => RowsOf(b)' < row'))
      BY <1>1, <1>2, <1>3 DEF Behind
    <2> HIDE DEF Good
    <2>2. /\ columns'[c].array \in {columns[c].array, Last + 1}
          /\ columns'[c].batch \in {columns[c].batch, 0, Last + 1}
      BY <1>8 DEF Good
    <2> QED BY <2>1, <2>2 DEF Behind
  <1> QED BY <1>10, <1>11, <1>12, <1>13

LEMMA InvBatchMisplaced ==
  ASSUME Inv, BatchMisplaced
  PROVE  Inv'
  <1>1. /\ call = "first" \/ AtBatchEnd
        /\ call' = "none" /\ mishap' = "now" /\ passed' = passed + row /\ ResetAccessorFails
        /\ UNCHANGED <<row, numBinding, propagated, offsets, resetGetData, reply, offsetOf, move,
                       status, delivered>>
    BY DEF BatchMisplaced, getdata
  <1>2. PICK n \in 0..MaxRows : TakeBatch(n)
    BY DEF BatchMisplaced
  <1>3. /\ Moving /\ passed = End(Last) /\ (Last > 0 => row = RowsOf(Last))
        /\ passed \in Nat /\ row \in Nat /\ Last \in Nat
    <2>1. CASE call = "first"
      <3>1. Last = 0 /\ passed = 0
        BY <1>2, <2>1 DEF Inv, MoveOK, CursorOK, TakeBatch
      <3> QED BY <2>1, <3>1, Typed DEF Moving, End, Inv
    <2>2. CASE AtBatchEnd
      BY <2>2, BatchEnd, Typed DEF Moving, Inv
    <2> QED BY <1>1, <2>1, <2>2
  <1>4. ~move.ok /\ Fetched' = Fetched /\ ~HasRead' /\ ~Moving' /\ ~OnARow'
    BY <1>1, <1>3 DEF Inv, MoveOK, Fetched, HasRead, Moving, OnARow
  <1>5. /\ source = "open" /\ source' = "open" /\ chunk' # 0 /\ chunk' = Last + 1
        /\ ends' \in Seq(Nat) /\ Len(ends') = Last + 1 /\ Last' = Last + 1
        /\ chunk' \in 0..Len(ends') /\ passed = End(Last - 1)'
    BY <1>2, <1>3, Taken
  <1>6. /\ columns' \in [Columns -> ColumnsTo(Last + 1)]
        /\ Bound' = Bound /\ AccessorsOK' /\ StaleOK'
    BY <1>1, <1>2, <1>3, <1>4, Misplaced
  <1>7. TypeOK'
    <2>1. passed' \in Nat /\ row' \in Nat /\ propagated' \in 0..NumColumns
      BY <1>1, <1>3 DEF Inv, TypeOK
    <2>2. columns' \in [Columns -> ColumnsTo(Len(ends'))] /\ numBinding' = Cardinality(Bound')
      BY <1>1, <1>5, <1>6 DEF Inv, TypeOK
    <2> QED BY <1>1, <1>5, <2>1, <2>2 DEF Inv, TypeOK, ColumnsTo, Phases
  <1>8. CursorOK'
    BY <1>1, <1>3, <1>5 DEF CursorOK
  <1>9. MoveOK'
    BY <1>1, <1>4 DEF Inv, MoveOK
  <1>10. OffsetsOK' /\ StatusesOK'
    BY <1>1 DEF Inv, OffsetsOK, StatusesOK
  <1>11. GetDataReadsLastRow' /\ OffsetsAreCurrent' /\ StatusTellsRows'
    BY <1>1, <1>4 DEF Inv, GetDataReadsLastRow, LastRow, OffsetsAreCurrent, StatusTellsRows
  <1> QED BY <1>6, <1>7, <1>8, <1>9, <1>10, <1>11 DEF Inv

(* The stream ends, or fails, under a cursor that stands at its end. *)
LEMMA Ended ==
  ASSUME Inv, UNCHANGED <<ends, chunk, row, mishap, columns, propagated, passed>>,
         chunk = 0 \/ row = RowsOf(chunk), source' \in {"ended", "closed"}
  PROVE  CursorOK' /\ AccessorsOK' /\ Bound' = Bound
  <1>1. AccessorsOK' /\ Bound' = Bound
    BY SameColumns
  <1>2. CursorOK'
    BY DEF Inv, CursorOK, Last, RowsOf, End
  <1> QED BY <1>1, <1>2

LEMMA InvNoFirstBatch ==
  ASSUME Inv, NoFirstBatch
  PROVE  Inv'
  <1>1. /\ call = "first" /\ call' = "none" /\ move' = [move EXCEPT !.ok = TRUE]
        /\ UNCHANGED <<ends, chunk, row, mishap, columns, numBinding, propagated, offsets,
                       resetGetData, reply, offsetOf, status, delivered, passed>>
    BY DEF NoFirstBatch, NoMoreBatches, getdata
  <1>2. chunk = 0 /\ Fetched = 0
    BY <1>1 DEF Inv, MoveOK
  <1>3. source' \in {"ended", "closed"}
    BY DEF NoFirstBatch, NoMoreBatches, Inv, TypeOK
  <1>4. CursorOK' /\ AccessorsOK' /\ Bound' = Bound
    BY <1>1, <1>2, <1>3, Ended
  <1>5. move' \in MoveTypes /\ move'.pending = move.pending /\ move'.rows = move.rows
    BY <1>1, Typed DEF Inv, MoveTypes
  <1>6. Fetched' = 0 /\ StaleOK'
    <2>1. Fetched' = 0
      BY <1>2, <1>5 DEF Fetched
    <2> QED BY <1>1, <2>1, SameStale DEF HasRead
  <1>7. TypeOK'
    BY <1>1, <1>3, <1>4, <1>5 DEF Inv, TypeOK, MoveTypes, Phases
  <1>8. MoveOK'
    BY <1>1, <1>2, <1>5, <1>6 DEF Inv, MoveOK, Moving, OnARow
  <1>9. OffsetsOK' /\ StatusesOK'
    BY <1>1, <1>4 DEF Inv, OffsetsOK, StatusesOK
  <1>10. GetDataReadsLastRow' /\ OffsetsAreCurrent' /\ StatusTellsRows'
    BY <1>1, <1>6 DEF Inv, GetDataReadsLastRow, LastRow, OffsetsAreCurrent, StatusTellsRows, OnARow
  <1> QED BY <1>4, <1>6, <1>7, <1>8, <1>9, <1>10 DEF Inv

LEMMA InvMoveFails ==
  ASSUME Inv, MoveFails
  PROVE  Inv'
  <1>1. /\ call = "first" \/ AtBatchEnd
        /\ call' = "none" /\ source' = "closed"
        /\ UNCHANGED <<ends, chunk, row, mishap, columns, numBinding, propagated, offsets,
                       resetGetData, reply, offsetOf, move, status, delivered, passed>>
    BY DEF MoveFails, StreamFails, getdata
  <1>2. Moving /\ (chunk = 0 \/ row = RowsOf(chunk))
    BY <1>1, BatchEnd DEF Inv, MoveOK, Moving
  <1>3. CursorOK' /\ AccessorsOK' /\ Bound' = Bound
    BY <1>1, <1>2, Ended
  <1>4. move'.ok = FALSE /\ StaleOK'
    <2>1. move'.ok = FALSE
      BY <1>1, <1>2, Typed DEF Inv, MoveOK, MoveTypes
    <2> QED BY <1>1, <2>1, SameStale DEF HasRead, Moving, OnARow
  <1>5. TypeOK'
    BY <1>1, <1>3 DEF Inv, TypeOK, Phases
  <1>6. MoveOK'
    BY <1>1, <1>4 DEF Inv, MoveOK, Moving, OnARow, Fetched
  <1>7. OffsetsOK' /\ StatusesOK'
    BY <1>1, <1>3 DEF Inv, OffsetsOK, StatusesOK
  <1>8. GetDataReadsLastRow' /\ OffsetsAreCurrent' /\ StatusTellsRows'
    BY <1>1, <1>4 DEF Inv, GetDataReadsLastRow, LastRow, OffsetsAreCurrent, StatusTellsRows, OnARow
  <1> QED BY <1>3, <1>4, <1>5, <1>6, <1>7, <1>8 DEF Inv

(* A Move returns: its rows are brought, the last one is the cursor's. *)
LEMMA Returned ==
  ASSUME Inv, call = "loop", ReturnRows, UNCHANGED <<ends, chunk, row, mishap, columns>>,
         source' \in {"open", "ended", "closed"}, CursorOK'
  PROVE  Inv'
  <1>1. /\ call' = "none" /\ status' = MarkNoRow /\ move' = [move EXCEPT !.ok = TRUE]
        /\ delivered' = delivered \o move.pending
        /\ UNCHANGED <<numBinding, propagated, offsets, resetGetData, reply, offsetOf, passed>>
    BY DEF ReturnRows, getdata
  <1>2. move' \in MoveTypes /\ move'.pending = move.pending /\ move'.rows = move.rows
    BY <1>1, Typed DEF Inv, MoveTypes
  <1>3. Fetched' = Fetched /\ Moving /\ Fetched \in Nat
    BY <1>2, Typed DEF Fetched, Moving, Inv
  <1>4. AccessorsOK' /\ Bound' = Bound /\ StaleOK'
    <2>1. HasRead' => HasRead
      BY <1>3 DEF HasRead
    <2> QED BY <1>1, <2>1, SameColumns, SameStale
  <1>5. delivered \in Seq(Nat) /\ move.pending \in Seq(Nat)
    BY Typed DEF Inv
  <1>6. status' \in [Cells -> Statuses]
    BY <1>1 DEF Inv, TypeOK, MarkNoRow, Statuses
  <1>7. TypeOK'
    <2>1. delivered' \in Seq(Nat)
      BY <1>1, <1>5, ConcatProperties
    <2> QED BY <1>1, <1>2, <1>4, <1>6, <2>1 DEF Inv, TypeOK, MoveTypes, Phases
  <1>8. MoveOK'
    <2>1. chunk # 0 /\ Fetched <= passed /\ move.pending = RowNumbers(passed - Fetched, Fetched)
          /\ Fetched <= move.rows
      BY <1>3 DEF Inv, MoveOK
    <2>2. Last > 0 /\ Last' = Last
      BY <2>1, Typed DEF Inv, CursorOK, Last
    <2>3. ASSUME Fetched > 0 PROVE delivered' # <<>> /\ LastRow' = passed
      <3>1. passed \in Nat /\ passed - Fetched \in Nat /\ Fetched \in 1..Fetched
        BY <1>3, <2>1, <2>3, Typed DEF Inv
      <3>2. move.pending[Fetched] = (passed - Fetched) + Fetched
        BY <1>3, <2>1, <3>1, RowNumbersType
      <3>3. /\ delivered \o move.pending # <<>>
            /\ (delivered \o move.pending)[Len(delivered \o move.pending)] = move.pending[Fetched]
        BY <1>5, <2>3, LastOfJoin DEF Fetched
      <3> QED BY <1>1, <1>3, <3>1, <3>2, <3>3 DEF LastRow
    <2> QED BY <1>1, <1>2, <1>3, <2>1, <2>2, <2>3 DEF MoveOK, Moving, OnARow
  <1>9. OffsetsOK' /\ StatusesOK'
    BY <1>1 DEF Inv, OffsetsOK, StatusesOK
  <1>10. GetDataReadsLastRow'
    BY <1>1, <1>3 DEF Inv, MoveOK, GetDataReadsLastRow
  <1>11. OffsetsAreCurrent'
    BY <1>1, <1>4 DEF Inv, OffsetsOK, OffsetsAreCurrent
  <1>12. StatusTellsRows'
    <2> SUFFICES ASSUME Bound # {}, NEW i \in Cells
                 PROVE  status'[i] \in CASE i <= Fetched -> {"success", "info"}
                                         [] i > Fetched /\ i <= move.rows -> {"norow"}
                                         [] OTHER -> {"unset"}
      BY <1>2, <1>3, <1>4 DEF StatusTellsRows
    <2>1. status[i] \in IF i <= Fetched THEN {"success", "info"} ELSE {"unset"}
      BY DEF Inv, StatusesOK
    <2>2. status'[i] = IF i \in (Fetched + 1)..move.rows THEN "norow" ELSE status[i]
      BY <1>1 DEF MarkNoRow
    <2>3. i \in Int /\ move.rows \in Int /\ Fetched <= move.rows /\ i >= 1
      BY Typed DEF Inv, MoveOK, Cells
    <2>4. i \in (Fetched + 1)..move.rows <=> i > Fetched /\ i <= move.rows
      BY <1>3, <2>3
    <2> QED BY <1>3, <2>1, <2>2, <2>3, <2>4
  <1> QED BY <1>4, <1>7, <1>8, <1>9, <1>10, <1>11, <1>12 DEF Inv

LEMMA InvMoveReturns ==
  ASSUME Inv, MoveReturns
  PROVE  Inv'
  <1>1. UNCHANGED <<source, ends, chunk, row, mishap, columns>> /\ ReturnRows /\ call = "loop"
    BY DEF MoveReturns, cursor
  <1>2. passed' = passed
    BY <1>1 DEF ReturnRows
  <1>3. CursorOK' /\ source' \in {"open", "ended", "closed"}
    BY <1>1, <1>2, SameCursor DEF Inv, TypeOK
  <1> QED BY <1>1, <1>3, Returned

LEMMA InvLastBatch ==
  ASSUME Inv, LastBatch
  PROVE  Inv'
  <1>1. /\ AtBatchEnd /\ ReturnRows
        /\ UNCHANGED <<ends, chunk, row, mishap, columns, propagated, passed>>
    BY DEF LastBatch, NoMoreBatches, ReturnRows
  <1>2. source' \in {"ended", "closed"}
    BY DEF LastBatch, NoMoreBatches, Inv, TypeOK
  <1>3. CursorOK'
    BY <1>1, <1>2, BatchEnd, Ended
  <1> QED BY <1>1, <1>2, <1>3, BatchEnd, Returned

(* Rows are converted only while batches may come: at the end of the stream
   the cursor stands behind the last row. *)
LEMMA RowsAhead ==
  ASSUME Inv, call = "loop", RowsToFetch > 0, ~BeyondRows(RowsToFetch)
  PROVE  /\ RowsToFetch \in Nat /\ Fetched + RowsToFetch <= move.rows
         /\ source = "open" /\ chunk = Last /\ Last > 0
         /\ row + RowsToFetch <= RowsOf(Last) /\ passed = End(Last - 1) + row
         /\ End(Last - 1) \in Nat /\ RowsOf(Last) \in Int
  <1>1. chunk # 0 /\ chunk = Last /\ Last > 0 /\ Last \in Nat /\ Last \in 0..Last
        /\ Last - 1 \in 0..Last
    BY Typed DEF Inv, MoveOK, CursorOK
  <1>2. End(Last) \in Nat /\ End(Last - 1) \in Nat
    BY <1>1, EndTypes DEF Inv
  <1>3. RowsOf(Last) \in Int
    BY <1>2 DEF RowsOf
  <1>4. Fetched \in Nat /\ move.rows \in Nat /\ row \in Nat /\ Fetched <= move.rows
    BY Typed DEF Inv, MoveOK
  <1>5. /\ RowsToFetch \in Int /\ RowsToFetch <= move.rows - Fetched
        /\ RowsToFetch <= RowsOf(Last) - row
    BY <1>1, <1>3, <1>4 DEF RowsToFetch, BeyondRows
  <1>6. source = "open"
    BY <1>1, <1>3, <1>4, <1>5 DEF Inv, CursorOK
  <1>7. passed = End(Last - 1) + row
    BY <1>1 DEF Inv, CursorOK
  <1> QED BY <1>1, <1>2, <1>3, <1>4, <1>5, <1>6, <1>7

(* Rows wanted are rows asked for. *)
LEMMA RowsWanted ==
  ASSUME Inv, call = "loop", RowsToFetch > 0
  PROVE  Fetched < move.rows
  <1>1. Last > 0 /\ chunk = Last /\ Last \in 0..Last /\ Last - 1 \in 0..Last
    BY Typed DEF Inv, MoveOK, CursorOK
  <1>2. End(Last) \in Nat /\ End(Last - 1) \in Nat
    BY <1>1, EndTypes DEF Inv
  <1>3. RowsOf(chunk) \in Int
    BY <1>1, <1>2 DEF RowsOf
  <1> QED BY <1>3, Typed DEF Inv, RowsToFetch

LEMMA InvConvertRows ==
  ASSUME Inv, ConvertRows
  PROVE  Inv'
  <1> DEFINE n == RowsToFetch
             rows == IF Bound = {} THEN {} ELSE (Fetched + 1)..(Fetched + n)
             more == [i \in 1..n |-> End(chunk - 1) + row + i]
  <1>1. /\ call = "loop" /\ n > 0 /\ ~BeyondRows(n)
        /\ move' = [move EXCEPT !.pending = @ \o more]
        /\ row' = row + n /\ passed' = passed + n
        /\ UNCHANGED <<source, ends, chunk, mishap, columns, numBinding, propagated, offsets,
                       resetGetData, reply, offsetOf, call, delivered>>
    BY DEF ConvertRows, bindings, getdata
  <1>2. PICK info \in SUBSET rows :
           status' = [i \in Cells |-> CASE i \in info -> "info"
                                       [] i \in rows \ info -> "success"
                                       [] OTHER -> status[i]]
    BY DEF ConvertRows
  <1>3. /\ n \in Nat /\ Fetched + n <= move.rows
        /\ source = "open" /\ chunk = Last /\ Last > 0
        /\ row + n <= RowsOf(Last) /\ passed = End(Last - 1) + row
        /\ End(Last - 1) \in Nat /\ RowsOf(Last) \in Int
    BY <1>1, RowsAhead
  <1> HIDE DEF n
  <1>4. /\ Fetched \in Nat /\ row \in Nat /\ passed \in Nat /\ Fetched <= passed /\ ~move.ok
        /\ move.pending = RowNumbers(passed - Fetched, Fetched) /\ move.rows \in Nat
        /\ passed - Fetched \in Nat
    BY <1>1, Typed DEF Inv, MoveOK, Moving
  <1>5. more = RowNumbers(passed, n)
    BY <1>3, <1>4 DEF RowNumbers
  <1> HIDE DEF more
  <1>6. move.pending \o more = RowNumbers(passed - Fetched, Fetched + n)
    <2>1. (passed - Fetched) + Fetched = passed
      BY <1>4
    <2> DEFINE a == passed - Fetched
    <2>2. a \in Nat /\ a + Fetched = passed /\ Fetched \in Nat /\ n \in Nat
      BY <2>1, <1>3, <1>4
    <2> HIDE DEF a
    <2>3. RowNumbers(a, Fetched) \o RowNumbers(a + Fetched, n) = RowNumbers(a, Fetched + n)
      BY <2>2, RowNumbersJoin
    <2>4. RowNumbers(a, Fetched) \o RowNumbers(passed, n) = RowNumbers(a, Fetched + n)
      BY <2>2, <2>3
    <2> QED BY <2>4, <1>4, <1>5 DEF a
  <1>7. /\ move' \in MoveTypes /\ move'.pending = RowNumbers(passed - Fetched, Fetched + n)
        /\ move'.rows = move.rows /\ move'.ok = move.ok
    <2>1. RowNumbers(passed - Fetched, Fetched + n) \in Seq(Nat)
      BY <1>3, <1>4, RowNumbersType
    <2> QED BY <2>1, <1>1, <1>6, Typed DEF Inv, MoveTypes
  <1>8. Fetched' = Fetched + n
    <2>1. Fetched + n \in Nat
      BY <1>3, <1>4
    <2>2. Len(RowNumbers(passed - Fetched, Fetched + n)) = Fetched + n
      BY <2>1, <1>4, RowNumbersType
    <2> QED BY <1>7, <2>2 DEF Fetched
  <1>9. status' \in [Cells -> Statuses]
    <2>1. \A i \in Cells : status[i] \in Statuses
      BY DEF Inv, TypeOK
    <2> HIDE DEF rows
    <2> QED BY <2>1, <1>2 DEF Statuses
  <1>10. AccessorsOK' /\ Bound' = Bound
    BY <1>1, SameColumns
  <1>11. TypeOK'
    <2>1. row' \in Nat /\ passed' \in Nat
      BY SMTT(30), <1>1, <1>3, <1>4
    <2> QED BY <1>1, <1>7, <1>9, <1>10, <2>1 DEF Inv, TypeOK, MoveTypes
  <1>17. StaleOK'
    <2> SUFFICES ASSUME NEW c \in Columns
                 PROVE  Behind(columns[c].array)' /\ Behind(columns[c].batch)'
      BY DEF StaleOK
    <2>1. \A b : Behind(b) => (b \notin {0, Last'} => RowsOf(b)' <= row)
      BY <1>1 DEF Behind, RowsOf, End, Last
    <2>2. \A b : b \in 0..Last => RowsOf(b)' \in Int \/ b = 0
      <3> SUFFICES ASSUME NEW b \in 1..Last PROVE RowsOf(b) \in Int
        BY <1>1 DEF RowsOf, End
      <3>1. b \in 0..Last /\ b - 1 \in 0..Last
        BY Typed DEF Inv
      <3>2. End(b) \in Nat /\ End(b - 1) \in Nat
        BY <3>1, EndTypes DEF Inv
      <3> QED BY <3>2 DEF RowsOf
    <2>3. /\ Behind(columns[c].array) /\ Behind(columns[c].batch)
          /\ columns[c].array \in 0..Last /\ columns[c].batch \in 0..Last
      BY Typed DEF Inv, StaleOK, ColumnsTo
    <2>4. \A b : b \in 0..Last /\ Behind(b) =>
                   (b \notin {0, Last'} => RowsOf(b)' <= row' /\ RowsOf(b)' < row')
      <3> SUFFICES ASSUME NEW b \in 0..Last, Behind(b), b \notin {0, Last'}
                   PROVE  RowsOf(b)' <= row' /\ RowsOf(b)' < row'
        OBVIOUS
      <3>1. row \in Nat /\ row' = row + n /\ n \in Nat /\ n > 0
        BY <1>1, <1>3, <1>4
      <3>2. RowsOf(b)' <= row /\ RowsOf(b)' \in Int
        BY <2>1, <2>2
      <3> QED BY <3>1, <3>2
    <2> QED BY <1>1, <2>3, <2>4 DEF Behind
  <1>12. CursorOK'
    <2>1. Last' = Last /\ RowsOf(Last)' = RowsOf(Last) /\ (End(Last - 1))' = End(Last - 1)
      BY <1>1 DEF Last, RowsOf, End
    <2>2. Last # 0 /\ passed' = End(Last - 1) + row'
      BY <1>1, <1>3, <1>4
    <2> QED BY <1>1, <1>3, <2>1, <2>2 DEF CursorOK
  <1>13. MoveOK'
    <2>1. passed' - Fetched' = passed - Fetched
      BY <1>1, <1>3, <1>4, <1>8
    <2>2. move.rows > 0 /\ reply.kind # "true" /\ chunk # 0
      BY <1>1 DEF Inv, MoveOK, Moving
    <2>3. Fetched' <= passed' /\ Fetched' <= move.rows
      BY <1>1, <1>3, <1>4, <1>8
    <2>4. move'.pending = RowNumbers(passed' - Fetched', Fetched')
      BY <1>7, <1>8, <2>1
    <2>5. source' = "open" /\ call' = "loop"
      BY <1>1, <1>3
    <2>6. propagated' = NumColumns
      BY <1>1 DEF Inv, MoveOK, Moving
    <2> QED BY <1>1, <1>4, <1>7, <2>2, <2>3, <2>4, <2>5, <2>6 DEF MoveOK, Moving, OnARow
  <1>14. OffsetsOK'
    BY <1>1, <1>10 DEF Inv, OffsetsOK
  <1>15. StatusesOK'
    <2> SUFFICES ASSUME Bound # {}, NEW i \in Cells
                 PROVE  status'[i] \in IF i <= Fetched + n THEN {"success", "info"} ELSE {"unset"}
      BY <1>1, <1>8, <1>10 DEF StatusesOK
    <2>1. status[i] \in IF i <= Fetched THEN {"success", "info"} ELSE {"unset"}
      BY <1>1 DEF Inv, StatusesOK
    <2>2. rows = (Fetched + 1)..(Fetched + n) /\ i \in Int
      BY DEF Cells
    <2>3. i \in rows <=> i > Fetched /\ i <= Fetched + n
      BY <1>3, <1>4, <2>2
    <2> HIDE DEF rows
    <2>4. status'[i] = CASE i \in info -> "info"
                         [] i \in rows \ info -> "success"
                         [] OTHER -> status[i]
      BY <1>2
    <2>5. i \in info => i \in rows
      BY <1>2
    <2>6. CASE i \in rows
      BY <1>3, <1>4, <2>2, <2>3, <2>4, <2>6
    <2>7. CASE i \notin rows
      <3>1. status'[i] = status[i]
        BY <2>4, <2>5, <2>7
      <3>2. i <= Fetched + n <=> i <= Fetched
        BY <1>3, <1>4, <2>2, <2>3, <2>7
      <3> QED BY <2>1, <3>1, <3>2
    <2> QED BY <2>6, <2>7
  <1>16. GetDataReadsLastRow' /\ OffsetsAreCurrent' /\ StatusTellsRows'
    BY <1>1 DEF Inv, GetDataReadsLastRow, LastRow, OffsetsAreCurrent, StatusTellsRows, OnARow
  <1> QED BY <1>10, <1>11, <1>12, <1>13, <1>14, <1>15, <1>16, <1>17 DEF Inv

LEMMA InvConversionFails ==
  ASSUME Inv, ConversionFails
  PROVE  Inv'
  <1>1. /\ call = "loop" /\ call' = "none"
        /\ UNCHANGED <<source, ends, chunk, row, mishap, columns, numBinding, propagated, offsets,
                       resetGetData, reply, offsetOf, move, delivered, passed>>
    BY DEF ConversionFails, cursor, bindings, getdata
  <1>2. status' \in [Cells -> Statuses]
    <2>1. \A i \in Cells : status[i] \in Statuses
      BY DEF Inv, TypeOK
    <2>2. PICK first, n :
             status' = [k \in Cells |->
                          CASE k \in first..(first + n - 1) -> "error"
                            [] k \in (Fetched + 1)..(first - 1) -> "success"
                            [] OTHER -> status[k]]
      BY DEF ConversionFails
    <2> QED BY <2>1, <2>2 DEF Statuses
  <1>3. ~move.ok
    BY <1>1 DEF Inv, MoveOK, Moving
  <1>4. CursorOK' /\ AccessorsOK' /\ Bound' = Bound /\ StaleOK'
    <2>1. ~HasRead'
      BY <1>1, <1>3 DEF HasRead, Moving, OnARow
    <2> QED BY <1>1, <2>1, SameCursor, SameColumns, SameStale
  <1>5. TypeOK'
    BY <1>1, <1>2, <1>4 DEF Inv, TypeOK, Phases
  <1>6. MoveOK'
    BY <1>1, <1>3 DEF Inv, MoveOK, Moving, OnARow, Fetched
  <1>7. OffsetsOK' /\ StatusesOK'
    BY <1>1 DEF Inv, OffsetsOK, StatusesOK
  <1>8. GetDataReadsLastRow' /\ OffsetsAreCurrent' /\ StatusTellsRows'
    BY <1>1, <1>3 DEF Inv, GetDataReadsLastRow, LastRow, OffsetsAreCurrent, StatusTellsRows, OnARow
  <1> QED BY <1>4, <1>5, <1>6, <1>7, <1>8 DEF Inv

-----------------------------------------------------------------------------
(* SQLGetData: on the row that was brought, and with an accessor that reads
   the batch the row is in: one of an earlier batch does not reach it. *)
LEMMA OnTheLastRow ==
  ASSUME Inv, NEW c \in Columns, CanGetData(c)
  PROVE  /\ OnARow /\ call = "none" /\ move.rows = 1 /\ Last > 0 /\ Last \in Nat
         /\ LastRow = passed /\ passed = End(Last - 1) + row /\ columns[c].binding = None
         /\ columns[c] \in ColumnsTo(Last) /\ Held(columns[c])
         /\ mishap # "now" => Fresh(columns[c], Last)
  <1>1. OnARow /\ call = "none" /\ move.rows = 1 /\ columns[c].binding = None
    BY DEF CanGetData, OnARow, Bound
  <1>2. Last > 0 /\ LastRow = passed /\ passed = End(Last - 1) + row
    BY <1>1 DEF Inv, MoveOK, CursorOK
  <1> QED BY <1>1, <1>2, Typed DEF Inv, AccessorsOK

(* Any of its outcomes: the accessor of the column may have changed. *)
LEMMA GetDataKeeps ==
  ASSUME Inv, NEW c \in Columns, CanGetData(c), NEW col \in ColumnsTo(Last),
         Held(col), mishap # "now" => Fresh(col, Last), col.binding = None,
         col.array = columns[c].array, col.batch \in {0, columns[c].batch, columns[c].array},
         columns' = [columns EXCEPT ![c] = col],
         resetGetData' = TRUE, reply' \in [kind : {"none", "true", "false"}, from : Nat],
         reply'.kind = "true" => reply'.from = LastRow,
         offsets' \in [Columns -> Offsets], offsetOf' \in [Columns -> Nat],
         \A d \in Columns : \/ offsets'[d] = offsets[d] /\ offsetOf'[d] = offsetOf[d]
                            \/ d = c /\ (offsets'[d] # "start" => offsetOf'[d] = LastRow),
         UNCHANGED <<cursor, numBinding, propagated, call, move, status, delivered, passed>>
  PROVE  Inv'
  <1>1. /\ OnARow /\ call = "none" /\ move.rows = 1 /\ Last > 0 /\ columns[c].binding = None
        /\ UNCHANGED <<source, ends, chunk, row, mishap>> /\ Last' = Last
    BY OnTheLastRow DEF cursor, Last
  <1>2. /\ columns' \in [Columns -> ColumnsTo(Last)] /\ columns'[c] = col
        /\ \A d \in Columns : d # c => columns'[d] = columns[d]
    BY Typed DEF Inv
  <1>3. Bound' = Bound
    BY <1>1, <1>2 DEF Bound
  <1>4. TypeOK'
    BY <1>1, <1>2, <1>3 DEF Inv, TypeOK, ColumnsTo, Last
  <1>5. CursorOK'
    BY <1>1, SameCursor
  <1>6. MoveOK'
    BY <1>1 DEF Inv, MoveOK, Moving, OnARow, Fetched, LastRow, Last
  <1>7. AccessorsOK'
    <2> SUFFICES ASSUME NEW d \in Columns
                 PROVE  /\ Held(columns'[d]) /\ (mishap # "now" => Fresh(columns'[d], Last))
                        /\ d <= propagated => BoundAs(columns'[d])
                              /\ (mishap # "now" /\ Last > 0 => HasAccessor(columns'[d]))
      BY <1>1 DEF AccessorsOK, Held, Fresh, BoundAs, HasAccessor
    <2>1. CASE d = c
      BY <2>1, <1>2 DEF BoundAs, HasAccessor
    <2>2. CASE d # c
      BY <2>2, <1>2 DEF Inv, AccessorsOK
    <2> QED BY <2>1, <2>2
  <1>8. OffsetsOK' /\ StatusesOK'
    BY <1>1 DEF OffsetsOK, StatusesOK
  <1>9. GetDataReadsLastRow' /\ LastRow' = LastRow /\ OnARow' = OnARow
    BY DEF GetDataReadsLastRow, LastRow, OnARow, Fetched
  <1>10. OffsetsAreCurrent'
    BY <1>1, <1>3, <1>9 DEF Inv, OffsetsAreCurrent
  <1>11. StatusTellsRows'
    BY <1>3, <1>9 DEF Inv, StatusTellsRows, Fetched
  <1>12. StaleOK'
    <2>1. HasRead' => HasRead
      BY <1>9 DEF HasRead, Moving, Fetched
    <2> QED BY <1>1, <2>1, StaleColumn
  <1> QED BY <1>4, <1>5, <1>6, <1>7, <1>8, <1>9, <1>10, <1>11, <1>12 DEF Inv

LEMMA InvGetData ==
  ASSUME Inv, NEW c \in Columns, NEW t \in Types,
         GetDataAgain(c) \/ GetData(c, t) \/ GetDataFails(c, t) \/ GetDataUnmade(c, t)
  PROVE  Inv'
  <1>0. CanGetData(c) /\ resetGetData' = TRUE
        /\ UNCHANGED <<cursor, numBinding, propagated, call, move, status, delivered, passed>>
    BY DEF GetDataAgain, GetData, GetDataFails, GetDataUnmade, bindings
  <1>1. /\ Last > 0 /\ Last \in Nat /\ LastRow = passed /\ passed = End(Last - 1) + row
        /\ columns[c].binding = None /\ OnARow
        /\ columns[c] \in ColumnsTo(Last) /\ Held(columns[c])
        /\ mishap # "now" => Fresh(columns[c], Last)
    BY <1>0, OnTheLastRow
  <1>2. /\ offsets \in [Columns -> Offsets] /\ offsetOf \in [Columns -> Nat]
        /\ columns \in [Columns -> ColumnsTo(Last)] /\ passed \in Nat
    BY Typed DEF Inv, TypeOK
  <1>3. CASE GetDataAgain(c)
    <2>1. columns' = [columns EXCEPT ![c] = columns[c]] /\ UNCHANGED <<offsets, offsetOf>>
      BY <1>2, <1>3 DEF GetDataAgain, bindings
    <2>2. reply' \in [kind : {"none", "true", "false"}, from : Nat] /\ reply'.kind = "false"
      BY <1>3 DEF GetDataAgain
    <2> QED BY <1>0, <1>1, <1>2, <2>1, <2>2, GetDataKeeps
  <1>4. CASE GetDataUnmade(c, t)
    <2>1. PICK col \in Unmade(columns[c], t) : columns' = [columns EXCEPT ![c] = col]
      BY <1>4 DEF GetDataUnmade
    <2>2. /\ col \in ColumnsTo(Last) /\ col.binding = None /\ col.array = columns[c].array
          /\ col.type = columns[c].type /\ col.batch = columns[c].batch
      BY <1>1, <2>1, UnmadeKeeps
    <2>3. Held(col) /\ (mishap # "now" => Fresh(col, Last))
      BY <1>1, <2>2 DEF Held, Fresh
    <2>4. reply' \in [kind : {"none", "true", "false"}, from : Nat] /\ reply'.kind = "none"
          /\ UNCHANGED <<offsets, offsetOf>>
      BY <1>4 DEF GetDataUnmade, NoReply
    <2> QED BY <1>0, <1>2, <2>1, <2>2, <2>3, <2>4, GetDataKeeps
  <1> DEFINE col == GetAccessorForGetData(columns[c], t)
             from == End(col.batch - 1) + row
  <1>5. ASSUME GetsAccessor(c, t)
        PROVE  /\ col \in ColumnsTo(Last) /\ Held(col) /\ (mishap # "now" => Fresh(col, Last))
               /\ col.binding = None /\ col.array = columns[c].array
               /\ col.batch \in {0, columns[c].batch, columns[c].array}
               /\ from = passed
    <2>1. col.batch # 0 /\ row <= RowsOf(col.batch)
      BY <1>5 DEF GetsAccessor, Readable
    <2>2. /\ col \in ColumnsTo(Last) /\ Held(col) /\ (mishap # "now" => Fresh(col, Last))
          /\ col.binding = None /\ col.array = columns[c].array
          /\ col.batch \in {columns[c].batch, columns[c].array}
      BY <1>1, <2>1, GetAccessorKeeps
    <2> HIDE DEF col
    <2>3. Behind(col.batch) /\ HasRead
      BY <1>1, <2>2 DEF Inv, StaleOK, HasRead, OnARow
    <2>4. col.batch = Last
      <3> SUFFICES ASSUME col.batch # Last PROVE FALSE
        OBVIOUS
      <3>1. RowsOf(col.batch) < row /\ col.batch \in 1..Last /\ row \in Nat
        BY <1>1, <2>1, <2>2, <2>3, Typed DEF Behind, ColumnsTo, Inv
      <3>2. col.batch \in 0..Last /\ col.batch - 1 \in 0..Last
        BY <1>1, <3>1
      <3>3. RowsOf(col.batch) \in Int
        BY <3>2, EndTypes DEF RowsOf, Inv
      <3> QED BY <2>1, <3>1, <3>3
    <2> QED BY <1>1, <2>2, <2>4
  <1>6. CASE GetDataFails(c, t)
    <2>1. columns' = [columns EXCEPT ![c] = col] /\ UNCHANGED <<offsets, offsetOf>>
          /\ GetsAccessor(c, t)
      BY <1>6 DEF GetDataFails
    <2>2. reply' \in [kind : {"none", "true", "false"}, from : Nat] /\ reply'.kind = "none"
      BY <1>6 DEF GetDataFails, NoReply
    <2> HIDE DEF col, from
    <2> QED BY <1>0, <1>1, <1>2, <1>5, <2>1, <2>2, GetDataKeeps
  <1>7. CASE GetData(c, t)
    <2>1. columns' = [columns EXCEPT ![c] = col] /\ GetsAccessor(c, t)
      BY <1>7 DEF GetData
    <2>2. PICK reading \in Readings(c) :
             /\ offsets' = [offsets EXCEPT ![c] = reading]
             /\ offsetOf' = [offsetOf EXCEPT ![c] = IF reading = "start" THEN 0 ELSE from]
             /\ reply' = [kind |-> "true", from |-> from]
      BY <1>7 DEF GetData
    <2> HIDE DEF col, from
    <2>3. reply' \in [kind : {"none", "true", "false"}, from : Nat] /\ reply'.from = LastRow
      BY <1>1, <1>2, <1>5, <2>1, <2>2
    <2>4. reading \in Offsets
      BY <1>2 DEF Readings, Offsets
    <2>5. /\ offsets' \in [Columns -> Offsets] /\ offsetOf' \in [Columns -> Nat]
          /\ offsets'[c] = reading /\ (reading # "start" => offsetOf'[c] = LastRow)
          /\ \A d \in Columns : d # c => offsets'[d] = offsets[d] /\ offsetOf'[d] = offsetOf[d]
      BY <1>1, <1>2, <1>5, <2>1, <2>2, <2>4
    <2> QED BY <1>0, <1>1, <1>2, <1>5, <2>1, <2>3, <2>5, GetDataKeeps
  <1> QED BY <1>3, <1>4, <1>6, <1>7

LEMMA InvStops ==
  ASSUME Inv, Cancel \/ Close
  PROVE  Inv'
  <1>1. /\ call = "none" /\ call' \in {"none", "released"} /\ source' = "closed" /\ chunk' = 0
        /\ UNCHANGED <<ends, row, mishap, columns, numBinding, propagated, offsets, resetGetData,
                       reply, offsetOf, move, status, delivered, passed>>
    BY DEF Cancel, Close, bindings, getdata
  <1>2. AccessorsOK' /\ Bound' = Bound /\ StaleOK'
    <2>1. HasRead' => HasRead
      BY <1>1 DEF HasRead, Moving, OnARow, Fetched
    <2> QED BY <1>1, <2>1, SameColumns, SameStale
  <1>3. TypeOK'
    BY <1>1, <1>2, Typed DEF Inv, TypeOK, Phases, Last
  <1>4. CursorOK'
    BY <1>1 DEF Inv, CursorOK, Last, RowsOf, End
  <1>5. MoveOK'
    BY <1>1 DEF Inv, MoveOK, Moving, OnARow, Fetched, LastRow, Last
  <1>6. OffsetsOK' /\ StatusesOK'
    BY <1>1 DEF Inv, OffsetsOK, StatusesOK
  <1>7. GetDataReadsLastRow' /\ OffsetsAreCurrent' /\ StatusTellsRows'
    BY <1>1, <1>2 DEF Inv, GetDataReadsLastRow, LastRow, OffsetsAreCurrent, StatusTellsRows,
       OnARow, Fetched
  <1> QED BY <1>2, <1>3, <1>4, <1>5, <1>6, <1>7 DEF Inv

LEMMA InvInit == Init => Inv
  <1> SUFFICES ASSUME Init PROVE Inv
    OBVIOUS
  <1>1. /\ ends = <<>> /\ Last = 0 /\ chunk = 0 /\ row = 0 /\ passed = 0 /\ source = "open"
        /\ call = "none" /\ reply = NoReply /\ resetGetData = FALSE /\ delivered = <<>>
        /\ mishap = "never" /\ propagated = NumColumns
    BY DEF Init, Last
  <1>2. \A c \in Columns : /\ columns[c].binding = None /\ columns[c].type = None
                           /\ columns[c].array = 0 /\ columns[c].batch = 0
                           /\ columns[c] \in ColumnsTo(0)
    BY DEF Init, ColumnsTo
  <1>3. Bound = {} /\ numBinding = Cardinality(Bound)
    BY <1>2, FS_EmptySet DEF Bound, Init
  <1>4. move \in MoveTypes /\ move.rows = 0 /\ move.pending = <<>> /\ move.ok = FALSE
    <2>1. move \in [rows : {0}, bindType : BindTypes, pending : {<<>>}, ok : {FALSE}]
      BY DEF Init
    <2>2. {0} \subseteq 0..MaxRowset /\ {<<>>} \subseteq Seq(Nat) /\ {FALSE} \subseteq BOOLEAN
      BY ResultSetAssumption, EmptySeq
    <2>3. /\ move = [rows |-> move.rows, bindType |-> move.bindType,
                     pending |-> move.pending, ok |-> move.ok]
          /\ move.rows \in {0} /\ move.bindType \in BindTypes
          /\ move.pending \in {<<>>} /\ move.ok \in {FALSE}
      BY <2>1
    <2> QED BY <2>2, <2>3 DEF MoveTypes
  <1>5. TypeOK
    <2>1. columns \in [Columns -> ColumnsTo(0)]
      BY <1>2 DEF Init
    <2>2. reply \in [kind : {"none", "true", "false"}, from : Nat]
      BY <1>1 DEF NoReply
    <2>3. /\ offsets \in [Columns -> Offsets] /\ offsetOf \in [Columns -> Nat]
          /\ status \in [Cells -> Statuses]
      BY DEF Init, Offsets, Statuses
    <2>4. ends \in Seq(Nat) /\ delivered \in Seq(Nat) /\ Len(ends) = 0
      BY <1>1, EmptySeq
    <2>5. columns \in [Columns -> ColumnsTo(Len(ends))] /\ chunk \in 0..Len(ends)
      BY <1>1, <2>1, <2>4
    <2>6. resetGetData \in BOOLEAN
      BY <1>1
    <2>7. source \in {"open", "ended", "closed"} /\ call \in Phases /\ row \in Nat /\ passed \in Nat
          /\ mishap \in {"never", "now", "once"} /\ propagated \in 0..NumColumns
      BY <1>1, ResultSetAssumption DEF Phases
    <2>8. TypeOK <=> /\ source \in {"open", "ended", "closed"} /\ ends \in Seq(Nat)
                     /\ chunk \in 0..Len(ends) /\ row \in Nat
                     /\ columns \in [Columns -> ColumnsTo(Len(ends))]
                     /\ numBinding = Cardinality(Bound)
                     /\ mishap \in {"never", "now", "once"} /\ propagated \in 0..NumColumns
                     /\ offsets \in [Columns -> Offsets] /\ resetGetData \in BOOLEAN
                     /\ call \in Phases /\ move \in MoveTypes /\ status \in [Cells -> Statuses]
                     /\ reply \in [kind : {"none", "true", "false"}, from : Nat]
                     /\ delivered \in Seq(Nat) /\ passed \in Nat /\ offsetOf \in [Columns -> Nat]
      BY ZenonT(30) DEF TypeOK, ColumnsTo, MoveTypes
    <2> QED BY <1>3, <1>4, <2>2, <2>3, <2>4, <2>5, <2>6, <2>7, <2>8
  <1>6. CursorOK
    BY <1>1 DEF CursorOK
  <1>7. Fetched = 0
    BY <1>4 DEF Fetched
  <1>8. MoveOK
    BY <1>1, <1>4, <1>7 DEF MoveOK, Moving, OnARow
  <1>9. AccessorsOK /\ StaleOK
    BY <1>1, <1>2 DEF AccessorsOK, Held, Fresh, BoundAs, HasAccessor, StaleOK, Behind
  <1>10. OffsetsOK /\ StatusesOK
    BY <1>1 DEF OffsetsOK, StatusesOK, Init
  <1>11. GetDataReadsLastRow /\ OffsetsAreCurrent /\ StatusTellsRows
    BY <1>1, <1>4 DEF GetDataReadsLastRow, NoReply, OffsetsAreCurrent, StatusTellsRows, OnARow
  <1> QED BY <1>5, <1>6, <1>8, <1>9, <1>10, <1>11 DEF Inv

LEMMA InvNext == Inv /\ [Next]_vars => Inv'
  <1> SUFFICES ASSUME Inv, [Next]_vars PROVE Inv'
    OBVIOUS
  <1>1. CASE UNCHANGED vars
    <2>1. UNCHANGED <<source, ends, chunk, row, mishap, columns, numBinding, propagated, offsets,
                      resetGetData, reply, offsetOf, call, move, status, delivered, passed>>
      BY <1>1 DEF vars, cursor, bindings, getdata
    <2>2. CursorOK' /\ AccessorsOK' /\ Bound' = Bound /\ StaleOK'
      <3>1. HasRead' => HasRead
        BY <2>1 DEF HasRead, Moving, OnARow, Fetched
      <3> QED BY <2>1, <3>1, SameCursor, SameColumns, SameStale
    <2> QED BY SMTT(30), <2>1, <2>2 DEF Inv, TypeOK, MoveOK, OffsetsOK, StatusesOK, GetDataReadsLastRow,
                OffsetsAreCurrent, StatusTellsRows, OnARow, Moving, Fetched, LastRow, Last
  <1>2. CASE MoveStep
    <2>1. CASE MoveGoesAstray
      BY <2>1, InvAstray DEF MoveGoesAstray
    <2> QED BY <1>2, <2>1, InvFirstBatch, InvNoFirstBatch, InvNextBatch, InvLastBatch, InvMoveFails,
       InvBatchMisplaced, InvConvertRows, InvConversionFails, InvMoveReturns DEF MoveStep
  <1>3. ASSUME NEW c \in Columns, GetDataAgain(c) PROVE Inv'
    <2>1. PICK t \in Types : TRUE
      BY ResultSetAssumption
    <2> QED BY <2>1, <1>3, InvGetData
  <1>4. ASSUME NEW c \in Columns, NEW t \in Types, GetDataAstray(c, t) PROVE Inv'
    BY <1>4, InvAstray DEF GetDataAstray
  <1>5. ASSUME NEW c \in Columns, BindColumnAstray(c) PROVE Inv'
    BY <1>5, InvAstray DEF BindColumnAstray
  <1> QED BY <1>1, <1>2, <1>3, <1>4, <1>5, InvBindColumn, InvBindColumnFails, InvStartMove, InvGetData,
             InvStops DEF Next

LEMMA Safe == Spec => []Inv
  BY InvInit, InvNext, PTL DEF Spec

(* Bound columns are converted by accessors of the batch the cursor is in. *)
LEMMA BoundAccessors ==
  ASSUME Inv
  PROVE  BindingsHonoured
  <1> SUFFICES ASSUME call = "loop", mishap # "now", NEW c \in Bound
               PROVE  columns[c].type = columns[c].binding /\ columns[c].batch = chunk
    BY DEF BindingsHonoured
  <1>1. chunk = Last /\ Last > 0 /\ Last \in Nat
    BY Typed DEF Inv, MoveOK, CursorOK
  <1>2. c \in Columns /\ columns[c].binding # None /\ c <= propagated
    BY ResultSetAssumption DEF Bound, Inv, MoveOK, Moving, Columns
  <1> QED BY <1>1, <1>2 DEF Inv, AccessorsOK, Fresh, BoundAs, HasAccessor

-----------------------------------------------------------------------------
(* The variables keep their types, and num_binding_ counts the bound columns. *)
THEOREM Typing == Spec => []TypeOK
  <1>1. Inv => TypeOK
    BY DEF Inv
  <1> QED BY <1>1, Safe, PTL

(* No fetch converts a bound column with the accessor of another batch, or of
   another type than it is bound as, unless the accessors of the batch could not
   be made when it came. *)
THEOREM ConvertsWhatIsBound == Spec => []BindingsHonoured
  BY BoundAccessors, Safe, PTL

(* SQLGetData reads the row the last fetch brought. *)
THEOREM ReadsTheLastRow == Spec => []GetDataReadsLastRow
  <1>1. Inv => GetDataReadsLastRow
    BY DEF Inv
  <1> QED BY <1>1, Safe, PTL

(* The cursor never stands behind the end of its batch, so that batch_rows -
   current_row_ does not wrap, unless the accessors of the batch could not be
   made when it came. *)
THEOREM RowsStayInBatch == Spec => []RowInBatch
  <1>1. Inv => RowInBatch
    <2> SUFFICES ASSUME Inv, mishap # "now", chunk # 0 PROVE row <= RowsOf(chunk)
      BY DEF RowInBatch
    <2>1. chunk = Last /\ Last > 0
      BY Typed DEF Inv, CursorOK
    <2> QED BY <2>1 DEF Inv, CursorOK
  <1> QED BY <1>1, Safe, PTL

(* What SQLGetData remembers of a value belongs to the current row. *)
THEOREM OffsetsFollowTheRow == Spec => []OffsetsAreCurrent
  <1>1. Inv => OffsetsAreCurrent
    BY DEF Inv
  <1> QED BY <1>1, Safe, PTL

(* The statuses of a fetch that brought rows tell which entries are rows. *)
THEOREM StatusesTell == Spec => []StatusTellsRows
  <1>1. Inv => StatusTellsRows
    BY DEF Inv
  <1> QED BY <1>1, Safe, PTL

-----------------------------------------------------------------------------
(* The result set as a row cursor: what each step is to RowCursor.  A Move asks
   when it starts and answers or fails when it ends; the rows it has gathered
   are not passed until then. *)
Pos   == passed - (IF Moving THEN Fetched ELSE 0)
Asked == IF Moving THEN move.rows ELSE 0
Over  == source # "open"
Lost  == mishap # "never"

LEMMA IsStutter ==
  ASSUME delivered' = delivered, Pos' = Pos, Asked' = Asked, Over' = Over, Lost' = Lost
  PROVE  [Cursor!Next]_(Cursor!vars)
  BY DEF Cursor!vars, Pos, Asked, Over, Lost

LEMMA IsAsk ==
  ASSUME Asked = 0, Asked' \in 1..MaxRowset, delivered' = delivered, Pos' = Pos, Over' = Over,
         Lost' = Lost
  PROVE  [Cursor!Next]_(Cursor!vars)
  BY DEF Cursor!Next, Cursor!Ask, Pos, Asked, Over, Lost

LEMMA IsAnswer ==
  ASSUME Asked > 0, NEW k \in 0..Asked, k > 0 => ~Over, Over' = (Over \/ k < Asked),
         delivered' = delivered \o RowNumbers(Pos, k), Pos' = Pos + k, Asked' = 0,
         Lost' = Lost
  PROVE  [Cursor!Next]_(Cursor!vars)
  BY DEF Cursor!Next, Cursor!Answer, RowNumbers, Pos, Asked, Over, Lost

LEMMA IsFail ==
  ASSUME Asked > 0, Pos' \in Pos..(Pos + Asked - 1), Over' \in {Over, TRUE}, Asked' = 0,
         delivered' = delivered, Lost' = Lost
  PROVE  [Cursor!Next]_(Cursor!vars)
  BY DEF Cursor!Next, Cursor!Fail, Pos, Asked, Over, Lost

LEMMA IsLose ==
  ASSUME Asked > 0, ~Over, Pos' \in Nat, Pos' >= Pos, Over' = Over, Asked' = 0,
         delivered' = delivered, Lost' = TRUE
  PROVE  [Cursor!Next]_(Cursor!vars)
  BY DEF Cursor!Next, Cursor!Lose, Pos, Asked, Over, Lost

LEMMA IsStop ==
  ASSUME Asked = 0, Over' = TRUE, delivered' = delivered, Pos' = Pos, Asked' = 0,
         Lost' = Lost
  PROVE  [Cursor!Next]_(Cursor!vars)
  BY DEF Cursor!Next, Cursor!Stop, Pos, Asked, Over, Lost

LEMMA CursorTypes ==
  ASSUME Inv
  PROVE  /\ passed \in Nat /\ Fetched \in Nat /\ move.rows \in Nat /\ Fetched <= move.rows
         /\ Moving => /\ Fetched <= passed /\ move.rows > 0
                      /\ Pos = passed - Fetched /\ Asked = move.rows /\ Pos \in Nat
                      /\ move.pending = RowNumbers(Pos, Fetched)
                      /\ Over => Fetched = 0
         /\ ~Moving => Pos = passed /\ Asked = 0
  <1>1. /\ passed \in Nat /\ Fetched \in Nat /\ move.rows \in Nat /\ Fetched <= move.rows
    BY Typed DEF Inv, MoveOK
  <1>2. ASSUME Moving
        PROVE  /\ Fetched <= passed /\ move.rows > 0
               /\ Pos = passed - Fetched /\ Asked = move.rows /\ Pos \in Nat
               /\ move.pending = RowNumbers(Pos, Fetched)
               /\ Over => Fetched = 0
    BY <1>1, <1>2 DEF Inv, MoveOK, Pos, Asked, Over
  <1>3. ASSUME ~Moving PROVE Pos = passed /\ Asked = 0
    BY <1>1, <1>3 DEF Pos, Asked
  <1> QED BY <1>1, <1>2, <1>3

LEMMA StartStep ==
  ASSUME Inv, Inv', NEW n \in 1..MaxRowset, NEW b \in BindTypes, StartMove(n, b)
  PROVE  [Cursor!Next]_(Cursor!vars)
  <1>1. /\ ~Moving /\ Moving' /\ UNCHANGED <<delivered, passed, source, mishap>>
        /\ move' = [rows |-> n, bindType |-> b, pending |-> <<>>, ok |-> FALSE]
    BY DEF StartMove, Moving, cursor
  <1>2. Fetched' = 0 /\ move'.rows = n
    BY <1>1 DEF Fetched
  <1>3. Pos' = Pos /\ Asked = 0 /\ Asked' = n /\ Over' = Over /\ Lost' = Lost
    BY <1>1, <1>2, CursorTypes DEF Pos, Asked, Over, Lost
  <1> QED BY <1>1, <1>3, IsAsk

(* Steps within a Move, and calls that fetch nothing. *)
LEMMA InnerStep ==
  ASSUME Inv, \/ FirstBatch \/ NextBatch \/ ConvertRows
              \/ MoveGoesAstray
              \/ \E c \in Columns, t \in Types \cup {None} : BindColumn(c, t)
              \/ \E c \in Columns, t \in Types : BindColumnFails(c, t)
              \/ \E c \in Columns : BindColumnAstray(c) \/ GetDataAgain(c)
              \/ \E c \in Columns, t \in Types : GetData(c, t) \/ GetDataFails(c, t)
              \/ \E c \in Columns, t \in Types : GetDataUnmade(c, t) \/ GetDataAstray(c, t)
  PROVE  [Cursor!Next]_(Cursor!vars)
  <1>1. CASE FirstBatch \/ NextBatch
    <2>1. /\ Moving /\ Moving' /\ UNCHANGED <<delivered, passed, source, move>> /\ Lost' = Lost
      BY <1>1 DEF FirstBatch, NextBatch, AtBatchEnd, ReceiveBatch, TakeBatch, Moving, Lost
    <2> QED BY <2>1, IsStutter DEF Pos, Asked, Over, Fetched
  <1>4. CASE MoveGoesAstray
    <2>1. /\ Moving /\ Moving' /\ UNCHANGED <<delivered, passed, source, move, mishap>>
      BY <1>4 DEF MoveGoesAstray, Moving, cursor
    <2> QED BY <2>1, IsStutter DEF Pos, Asked, Over, Lost, Fetched
  <1>2. CASE ConvertRows
    <2>1. /\ Moving /\ Moving' /\ UNCHANGED <<delivered, source, mishap>> /\ call = "loop"
          /\ passed' = passed + RowsToFetch /\ RowsToFetch > 0 /\ ~BeyondRows(RowsToFetch)
          /\ move' = [move EXCEPT !.pending =
                        @ \o [i \in 1..RowsToFetch |-> End(chunk - 1) + row + i]]
      BY <1>2 DEF ConvertRows, Moving
    <2>2. /\ RowsToFetch \in Nat /\ End(chunk - 1) + row = passed /\ passed \in Nat
          /\ Fetched \in Nat /\ move.pending \in Seq(Nat) /\ move \in MoveTypes
      BY <2>1, RowsAhead, Typed DEF Inv
    <2> DEFINE n == RowsToFetch
    <2>3. [i \in 1..n |-> End(chunk - 1) + row + i] = RowNumbers(passed, n)
      BY <2>2 DEF RowNumbers
    <2>4. move'.pending = move.pending \o RowNumbers(passed, n) /\ move'.rows = move.rows
      BY <2>1, <2>2, <2>3 DEF MoveTypes
    <2> HIDE DEF n
    <2>5. RowNumbers(passed, n) \in Seq(Nat) /\ Len(RowNumbers(passed, n)) = n
      BY <2>2, RowNumbersType DEF n
    <2>6. Fetched' = Fetched + n
      <3> DEFINE read == RowNumbers(passed, n)
      <3>1. read \in Seq(Nat) /\ Len(read) = n
        BY <2>5
      <3> HIDE DEF read
      <3>2. Len(move.pending \o read) = Len(move.pending) + n
        BY <2>2, <3>1, ConcatProperties
      <3> QED BY <2>4, <3>2 DEF Fetched, read
    <2>7. passed' - Fetched' = passed - Fetched
      BY <2>1, <2>2, <2>6 DEF n
    <2> QED BY <2>1, <2>4, <2>7, IsStutter DEF Pos, Asked, Over, Lost
  <1>3. CASE \/ \E c \in Columns, t \in Types \cup {None} : BindColumn(c, t)
             \/ \E c \in Columns, t \in Types : BindColumnFails(c, t)
             \/ \E c \in Columns : BindColumnAstray(c) \/ GetDataAgain(c)
             \/ \E c \in Columns, t \in Types : GetData(c, t) \/ GetDataFails(c, t)
             \/ \E c \in Columns, t \in Types : GetDataUnmade(c, t) \/ GetDataAstray(c, t)
    <2>1. ~Moving /\ ~Moving' /\ UNCHANGED <<delivered, passed, source, mishap>>
      BY <1>3 DEF BindColumn, BindColumnFails, BindColumnAstray, Propagates, GetDataAgain, GetData,
         GetDataFails, GetDataUnmade, GetDataAstray, CanGetData, Moving, cursor
    <2> QED BY <2>1, IsStutter DEF Pos, Asked, Over, Lost
  <1> QED BY <1>1, <1>2, <1>3, <1>4

LEMMA AnswerStep ==
  ASSUME Inv, NoFirstBatch \/ LastBatch \/ MoveReturns
  PROVE  [Cursor!Next]_(Cursor!vars)
  <1>1. Moving /\ ~Moving' /\ passed' = passed /\ Lost' = Lost
    BY DEF NoFirstBatch, LastBatch, MoveReturns, AtBatchEnd, ReturnRows, NoMoreBatches, Moving,
       Lost, cursor
  <1>2. /\ Pos = passed - Fetched /\ Asked = move.rows /\ Pos \in Nat /\ Asked > 0
        /\ move.pending = RowNumbers(Pos, Fetched) /\ (Over => Fetched = 0)
        /\ Fetched \in 0..Asked /\ passed = Pos + Fetched /\ move.rows \in Nat /\ Fetched \in Nat
    BY <1>1, CursorTypes
  <1>3. Pos' = Pos + Fetched /\ Asked' = 0
    <2>1. Pos' = passed' - 0 /\ Asked' = 0
      BY <1>1 DEF Pos, Asked
    <2> QED BY <1>1, <1>2, <2>1, CursorTypes
  <1>4. delivered' = delivered \o RowNumbers(Pos, Fetched)
    <2>1. CASE NoFirstBatch
      <3>1. Fetched = 0 /\ delivered' = delivered
        BY <2>1 DEF NoFirstBatch, Inv, MoveOK
      <3>2. delivered \o <<>> = delivered
        BY Typed, ConcatEmptySeq DEF Inv
      <3> QED BY <1>2, <3>1, <3>2, RowNumbersEmpty
    <2>2. CASE LastBatch \/ MoveReturns
      BY <1>2, <2>2 DEF LastBatch, MoveReturns, ReturnRows
    <2> QED BY <2>1, <2>2
  <1>5. Over' = (Over \/ Fetched < Asked)
    <2>1. CASE NoFirstBatch
      <3>1. Fetched = 0 /\ Over'
        BY <2>1 DEF NoFirstBatch, NoMoreBatches, Inv, MoveOK, Over
      <3> QED BY <1>2, <3>1 DEF Over
    <2>2. CASE LastBatch
      <3>1. Over' /\ Fetched < Asked
        BY <2>2, <1>2 DEF LastBatch, NoMoreBatches, AtBatchEnd, Over
      <3> QED BY <3>1 DEF Over
    <2>3. CASE MoveReturns
      <3>1. source' = source /\ Fetched = Asked
        BY <2>3, <1>2 DEF MoveReturns, cursor
      <3> QED BY <1>2, <3>1 DEF Over
    <2> QED BY <2>1, <2>2, <2>3
  <1> QED BY <1>1, <1>2, <1>3, <1>4, <1>5, IsAnswer

LEMMA FailStep ==
  ASSUME Inv, MoveFails \/ ConversionFails
  PROVE  [Cursor!Next]_(Cursor!vars)
  <1>1. Moving /\ ~Moving' /\ UNCHANGED <<passed, delivered>> /\ Over' \in {Over, TRUE}
        /\ Lost' = Lost
    BY DEF MoveFails, StreamFails, ConversionFails, AtBatchEnd, Moving, Over, Lost, cursor
  <1>2. /\ Pos = passed - Fetched /\ Asked = move.rows /\ Pos \in Nat /\ Asked > 0
        /\ passed = Pos + Fetched /\ move.rows \in Nat /\ Fetched \in Nat
    BY <1>1, CursorTypes
  <1>3. Fetched < move.rows
    <2>1. CASE MoveFails
      BY <2>1, <1>2, BatchEnd DEF MoveFails, Inv, MoveOK
    <2>2. CASE ConversionFails
      <3>1. call = "loop" /\ RowsToFetch > 0
        BY <2>2 DEF ConversionFails
      <3> QED BY <3>1, RowsWanted
    <2> QED BY <2>1, <2>2
  <1>4. Pos' = passed /\ Asked' = 0
    <2>1. Pos' = passed' - 0 /\ Asked' = 0
      BY <1>1 DEF Pos, Asked
    <2> QED BY <1>1, <2>1, CursorTypes
  <1>5. Pos' \in Pos..(Pos + Asked - 1)
    BY <1>2, <1>3, <1>4
  <1> QED BY <1>1, <1>2, <1>4, <1>5, IsFail

(* A batch whose accessors could not be made is where rows are left out. *)
LEMMA LoseStep ==
  ASSUME Inv, BatchMisplaced
  PROVE  [Cursor!Next]_(Cursor!vars)
  <1>1. /\ call = "first" \/ AtBatchEnd
        /\ call' = "none" /\ mishap' = "now" /\ passed' = passed + row
        /\ source = "open" /\ source' = source /\ delivered' = delivered
    BY DEF BatchMisplaced, TakeBatch
  <1>2. Moving /\ ~Moving'
    BY <1>1 DEF AtBatchEnd, Moving
  <1>3. /\ Pos = passed - Fetched /\ Asked > 0 /\ passed \in Nat /\ Fetched \in Nat
        /\ row \in Nat
    BY <1>2, CursorTypes, Typed DEF Inv
  <1>4. Pos' = passed + row /\ Asked' = 0 /\ ~Over /\ Over' = Over /\ Lost' = TRUE
    <2>1. Pos' = passed' - 0
      BY <1>2 DEF Pos
    <2> QED BY <1>1, <1>2, <1>3, <2>1 DEF Asked, Over, Lost
  <1>5. Pos' \in Nat /\ Pos' >= Pos
    BY <1>3, <1>4
  <1> QED BY <1>1, <1>3, <1>4, <1>5, IsLose

LEMMA StopStep ==
  ASSUME Inv, Cancel \/ Close
  PROVE  [Cursor!Next]_(Cursor!vars)
  <1>1. ~Moving /\ ~Moving' /\ UNCHANGED <<passed, delivered, mishap>> /\ Over'
    BY DEF Cancel, Close, Moving, Over
  <1> QED BY <1>1, IsStop DEF Pos, Asked, Over, Lost

(* The result set is a row cursor: rows come in order, none twice, none left
   out unless a fetch failed, and a short rowset announces the end.  A failed
   fetch leaves out fewer rows than it asked for, unless it had taken a batch
   whose accessors could not be made. *)
THEOREM IsARowCursor == Spec => ImplementsCursor
  <1>1. Init => Cursor!Init
    BY DEF Init, Cursor!Init, Moving
  <1>2. Inv /\ Inv' /\ [Next]_vars => [Cursor!Next]_(Cursor!vars)
    <2> SUFFICES ASSUME Inv, Inv', [Next]_vars PROVE [Cursor!Next]_(Cursor!vars)
      OBVIOUS
    <2>1. CASE UNCHANGED vars
      <3>1. UNCHANGED <<delivered, passed, source, mishap, call, move>>
        BY <2>1 DEF vars, cursor
      <3> QED BY <3>1, IsStutter DEF Pos, Asked, Over, Lost, Moving, Fetched
    <2>2. CASE MoveStep
      BY <2>2, InnerStep, AnswerStep, FailStep, LoseStep DEF MoveStep
    <2>3. ASSUME NEW n \in 1..MaxRowset, NEW b \in BindTypes, StartMove(n, b)
          PROVE  [Cursor!Next]_(Cursor!vars)
      BY <2>3, StartStep
    <2> QED BY <2>1, <2>2, <2>3, InnerStep, StopStep DEF Next
  <1> QED BY <1>1, <1>2, Safe, PTL DEF Spec, ImplementsCursor, Cursor!Spec

-----------------------------------------------------------------------------
(* The pieces of a cell (PiecesReassemble).  While every buffer held whole
   characters, the next piece starts where the pieces so far end. *)
CellInv ==
    /\ CellTypeOK
    /\ form = NoForm => joined = <<>> /\ offset = 0 /\ whole /\ piece.status = "none"
    /\ form # NoForm /\ whole =>
         /\ Len(joined) <= Len(value) /\ joined = SubSeq(value, 1, Len(joined))
         /\ offset = -1 \/ offset = Len(joined) * form.size
         /\ offset = -1 => joined = value
    /\ PiecesReassemble

(* What a range of a value is, and that two ranges in succession are one. *)
LEMMA RangeOfValue ==
  ASSUME NEW S, NEW s \in Seq(S), NEW i \in 1..(Len(s) + 1), NEW j \in Nat, j <= Len(s), i <= j + 1
  PROVE  /\ SubSeq(s, i, j) \in Seq(S)
         /\ Len(SubSeq(s, i, j)) = j - i + 1
         /\ \A k \in 1..(j - i + 1) : SubSeq(s, i, j)[k] = s[i + k - 1]
  OBVIOUS

LEMMA RangesJoin ==
  ASSUME NEW S, NEW s \in Seq(S), NEW k \in 0..Len(s), NEW m \in k..Len(s)
  PROVE  /\ SubSeq(s, 1, k) \o SubSeq(s, k + 1, m) = SubSeq(s, 1, m)
         /\ Len(SubSeq(s, 1, m)) = m
         /\ Len(SubSeq(s, k + 1, m)) = m - k
         /\ SubSeq(s, k + 1, m) \in Seq(S)
  <1> DEFINE a == SubSeq(s, 1, k)
             b == SubSeq(s, k + 1, m)
             c == SubSeq(s, 1, m)
  <1>1. /\ a \in Seq(S) /\ Len(a) = k /\ \A i \in 1..k : a[i] = s[i]
        /\ b \in Seq(S) /\ Len(b) = m - k /\ \A i \in 1..(m - k) : b[i] = s[k + i]
        /\ c \in Seq(S) /\ Len(c) = m /\ \A i \in 1..m : c[i] = s[i]
    BY SMTT(30)
  <1> HIDE DEF a, b, c
  <1>0. k \in Nat /\ m \in Nat /\ k <= m /\ k + (m - k) = m
    OBVIOUS
  <1>2. a \o b \in Seq(S) /\ Len(a \o b) = m
    BY <1>0, <1>1
  <1>3. ASSUME NEW i \in 1..m PROVE (a \o b)[i] = c[i]
    <2>1. ASSUME i <= k PROVE (a \o b)[i] = c[i]
      BY <1>0, <1>1, <2>1
    <2>2. ASSUME ~(i <= k) PROVE (a \o b)[i] = c[i]
      <3>1. i - k \in 1..(m - k) /\ k + (i - k) = i
        BY ONLY <1>0, <2>2, i \in 1..m
      <3>2. (a \o b)[i] = b[i - k]
        BY ONLY <1>0, <1>1, <2>2, i \in 1..m
      <3>3. b[i - k] = s[k + (i - k)]
        BY ONLY <1>1, <3>1
      <3> QED BY <1>1, <3>1, <3>2, <3>3
    <2> QED BY <2>1, <2>2
  <1>4. a \o b = c
    BY <1>1, <1>2, <1>3, SeqEqual
  <1> QED BY <1>1, <1>4 DEF a, b, c

LEMMA WholeValue ==
  ASSUME NEW S, NEW s \in Seq(S)
  PROVE  SubSeq(s, 1, Len(s)) = s
  OBVIOUS

(* A call that starts where a character does delivers the next characters, n of
   them, as its buffer allows. *)
Delivers(text, size, terminator, k, bufferLength, cell, n) ==
    /\ n \in 0..(Len(text) - k)
    /\ cell.data = SubSeq(text, k + 1, k + n)
    /\ cell.indicator = (Len(text) - k) * size
    /\ \/ /\ cell.status = "success" /\ cell.next = -1 /\ n = Len(text) - k
          /\ (n + terminator) * size <= bufferLength
       \/ /\ cell.status = "truncated" /\ cell.next = (k + n) * size
          /\ n = 0 \/ (n + terminator) * size <= bufferLength
          /\ n = 0 => bufferLength < (1 + terminator) * size

LEMMA NoCharacters ==
  ASSUME NEW S, NEW s \in Seq(S), NEW k \in 0..Len(s)
  PROVE  SubSeq(s, k + 1, k) = <<>>
  OBVIOUS

LEMMA CharDelivers ==
  ASSUME NEW S, NEW text \in Seq(S), NEW size \in {1, 2, 4}, NEW k \in 0..Len(text),
         NEW bufferLength \in Nat, bufferLength % size = 0
  PROVE  \E n \in Nat : Delivers(text, size, 1, k, bufferLength,
                           MoveSingleCellToCharBuffer(text, size, k * size, bufferLength), n)
  <1> DEFINE cell    == MoveSingleCellToCharBuffer(text, size, k * size, bufferLength)
             written == bufferLength \div size
             length  == Len(text)
  <1>0. \A from : ~Truncated(text, size, from, bufferLength) =>
          LET moved == MoveSingleCellToCharBuffer(text, size, from, bufferLength)
          IN /\ moved.status = "success" /\ moved.next = -1
             /\ moved.data = SubSeq(text, (from \div size) + 1, length)
    BY DEF MoveSingleCellToCharBuffer
  <1>00. \A from : Truncated(text, size, from, bufferLength) /\ written = 0 =>
          LET moved == MoveSingleCellToCharBuffer(text, size, from, bufferLength)
          IN moved.status = "truncated" /\ moved.next = from /\ moved.data = <<>>
    BY DEF MoveSingleCellToCharBuffer
  <1>1. /\ k \in Nat /\ length \in Nat /\ k <= length
        /\ (k * size) \div size = k /\ (k * size) % size = 0
        /\ written \in Nat /\ bufferLength = written * size
    <2>1. CASE size = 1
      BY <2>1
    <2>2. CASE size = 2
      BY <2>2
    <2>3. CASE size = 4
      BY <2>3
    <2> QED BY <2>1, <2>2, <2>3
  <1>2. length * size - k * size = (length - k) * size
    BY <1>1
  <1>3. cell.indicator = (length - k) * size
    BY <1>2 DEF MoveSingleCellToCharBuffer
  <1>4. CASE ~Truncated(text, size, k * size, bufferLength)
    <2>1. /\ cell.status = "success" /\ cell.next = -1
          /\ cell.data = SubSeq(text, k + 1, length)
      BY <1>0, <1>1, <1>4
    <2>2. (length - k + 1) * size <= bufferLength
      <3>1. length * size - k * size + size <= bufferLength
        BY <1>1, <1>4 DEF Truncated
      <3> QED BY <1>1, <1>2, <3>1
    <2>3. k + (length - k) = length /\ length - k \in 0..(length - k)
      BY <1>1
    <2>4. Delivers(text, size, 1, k, bufferLength, cell, length - k)
      BY <1>3, <2>1, <2>2, <2>3 DEF Delivers
    <2> QED BY <2>3, <2>4
  <1>5. CASE Truncated(text, size, k * size, bufferLength) /\ written = 0
    <2>1. /\ cell.status = "truncated" /\ cell.next = k * size /\ cell.data = <<>>
      BY <1>00, <1>5
    <2>2. cell.data = SubSeq(text, k + 1, k + 0)
      <3>1. SubSeq(text, k + 1, k) = <<>> /\ k + 0 = k
        BY NoCharacters
      <3> QED BY <2>1, <3>1
    <2>3. bufferLength < (1 + 1) * size
      BY <1>1, <1>5
    <2>4. Delivers(text, size, 1, k, bufferLength, cell, 0)
      BY <1>1, <1>3, <2>1, <2>2, <2>3 DEF Delivers
    <2> QED BY <2>4
  <1>6. CASE Truncated(text, size, k * size, bufferLength) /\ written > 0
    <2>1. /\ cell.status = "truncated"
          /\ cell.next = k * size + bufferLength - size
          /\ cell.data = SubSeq(text, k + 1, k + written - 1)
      BY SMTT(30), <1>1, <1>6 DEF MoveSingleCellToCharBuffer
    <2>2. written - 1 \in 0..(length - k)
      <3>1. written * size < length * size - k * size + size
        BY <1>1, <1>6 DEF Truncated
      <3>2. CASE size = 1
        BY <1>1, <1>6, <3>1, <3>2
      <3>3. CASE size = 2
        BY <1>1, <1>6, <3>1, <3>3
      <3>4. CASE size = 4
        BY <1>1, <1>6, <3>1, <3>4
      <3> QED BY <3>2, <3>3, <3>4
    <2>3. /\ k + (written - 1) = k + written - 1
          /\ k * size + bufferLength - size = (k + (written - 1)) * size
          /\ (written - 1 + 1) * size <= bufferLength
          /\ written - 1 = 0 => bufferLength < (1 + 1) * size
      BY <1>1
    <2>4. Delivers(text, size, 1, k, bufferLength, cell, written - 1)
      BY <1>3, <2>1, <2>2, <2>3 DEF Delivers
    <2> QED BY <2>2, <2>4
  <1> QED BY <1>1, <1>4, <1>5, <1>6

LEMMA BytesDeliver ==
  ASSUME NEW S, NEW text \in Seq(S), NEW k \in 0..Len(text), NEW bufferLength \in Nat
  PROVE  \E n \in Nat : Delivers(text, 1, 0, k, bufferLength,
                           MoveSingleCellToBinaryBuffer(text, k, bufferLength), n)
  <1> DEFINE cell == MoveSingleCellToBinaryBuffer(text, k, bufferLength)
             length  == Len(text)
  <1>1. k \in Nat /\ length \in Nat /\ k <= length /\ k + (length - k) = length
    OBVIOUS
  <1>2. CASE length - k > bufferLength
    <2>1. /\ cell.status = "truncated" /\ cell.next = k + bufferLength
          /\ cell.indicator = length - k /\ cell.data = SubSeq(text, k + 1, k + bufferLength)
      BY <1>2 DEF MoveSingleCellToBinaryBuffer
    <2> HIDE DEF cell
    <2> HIDE DEF length
    <2>2. /\ bufferLength \in 0..(length - k) /\ (length - k) * 1 = length - k
          /\ (k + bufferLength) * 1 = k + bufferLength /\ (bufferLength + 0) * 1 <= bufferLength
          /\ bufferLength = 0 => bufferLength < (1 + 0) * 1
      BY <1>1, <1>2
    <2>3. Delivers(text, 1, 0, k, bufferLength, cell, bufferLength)
      BY <2>1, <2>2 DEF Delivers, length
    <2> QED BY <2>3 DEF cell
  <1>3. CASE ~(length - k > bufferLength)
    <2>1. /\ cell.status = "success" /\ cell.next = -1
          /\ cell.indicator = length - k /\ cell.data = SubSeq(text, k + 1, k + (length - k))
      BY <1>3 DEF MoveSingleCellToBinaryBuffer
    <2> HIDE DEF cell
    <2> HIDE DEF length
    <2>2. /\ length - k \in 0..(length - k) /\ (length - k) * 1 = length - k
          /\ (length - k + 0) * 1 <= bufferLength
      BY <1>1, <1>3
    <2>3. Delivers(text, 1, 0, k, bufferLength, cell, length - k)
      BY <2>1, <2>2 DEF Delivers, length
    <2> QED BY <1>1, <2>3 DEF cell
  <1> QED BY <1>2, <1>3

(* The types of what a call leaves, with buffers of any length. *)
LEMMA CharTypes ==
  ASSUME NEW text \in Seq(Characters), NEW size \in {1, 2, 4}, NEW from \in 0..(Len(text) * size),
         NEW bufferLength \in Nat
  PROVE  LET cell == MoveSingleCellToCharBuffer(text, size, from, bufferLength)
         IN /\ cell.status \in {"truncated", "success"}
            /\ cell.data \in Seq(Characters \cup {Torn})
            /\ cell.indicator \in Nat
            /\ cell.next \in -1..(Len(text) * size)
  <1> DEFINE cell    == MoveSingleCellToCharBuffer(text, size, from, bufferLength)
             written == bufferLength \div size
             first   == from \div size
             length  == Len(text)
  <1>1. /\ length \in Nat /\ length * size \in Nat /\ from \in Nat /\ from <= length * size
        /\ written \in Nat /\ first \in Nat /\ first <= length
        /\ written > 0 => bufferLength >= size
        /\ written * size <= bufferLength
        /\ from % size = 0 => first * size = from
    <2>1. CASE size = 1
      BY <2>1
    <2>2. CASE size = 2
      BY <2>2
    <2>3. CASE size = 4
      BY <2>3
    <2> QED BY <2>1, <2>2, <2>3
  <1>2. cell.indicator \in Nat /\ cell.status \in {"truncated", "success"}
    BY <1>1 DEF MoveSingleCellToCharBuffer
  <1>3. \A i \in Nat \ {0} : \A j \in Nat : j <= length => SubSeq(text, i, j) \in Seq(Characters \cup {Torn})
    OBVIOUS
  <1>4. CASE ~Truncated(text, size, from, bufferLength)
    <2>1. cell.next = -1 /\ cell.data = SubSeq(text, first + 1, length)
      BY <1>4 DEF MoveSingleCellToCharBuffer
    <2> HIDE DEF cell, first, length
    <2>2. first + 1 \in Nat \ {0} /\ length \in Nat /\ length <= length
      BY <1>1
    <2>3. SubSeq(text, first + 1, length) \in Seq(Characters \cup {Torn})
      BY ONLY <1>3, <2>2
    <2>30. cell.data \in Seq(Characters \cup {Torn})
      BY <2>1, <2>3
    <2>4. cell.next \in -1..(length * size)
      BY <1>1, <2>1
    <2> QED BY <1>2, <2>30, <2>4 DEF cell, length
  <1>5. CASE Truncated(text, size, from, bufferLength) /\ written = 0
    <2>1. cell.next = from /\ cell.data = <<>>
      <3>1. \A n : Truncated(text, size, n, bufferLength) /\ written = 0 =>
              LET moved == MoveSingleCellToCharBuffer(text, size, n, bufferLength)
              IN moved.next = n /\ moved.data = <<>>
        BY DEF MoveSingleCellToCharBuffer
      <3> QED BY <1>5, <3>1
    <2> QED BY <1>1, <1>2, <2>1
  <1>6. CASE Truncated(text, size, from, bufferLength) /\ written > 0
    <2>1. /\ cell.next = from + bufferLength - size
          /\ cell.data = IF from % size = 0 THEN SubSeq(text, first + 1, first + written - 1)
                         ELSE [i \in 1..(written - 1) |-> Torn]
      BY <1>6 DEF MoveSingleCellToCharBuffer
    <2>2. bufferLength < length * size - from + size
      BY <1>6 DEF Truncated
    <2>3. cell.next \in -1..(length * size)
      BY <1>1, <1>6, <2>1, <2>2
    <2>4. from % size = 0 => first + written - 1 \in Nat /\ first + written - 1 <= length
      <3>1. CASE size = 1
        BY <1>1, <1>6, <2>2, <3>1
      <3>2. CASE size = 2
        BY <1>1, <1>6, <2>2, <3>2
      <3>3. CASE size = 4
        BY <1>1, <1>6, <2>2, <3>3
      <3> QED BY <3>1, <3>2, <3>3
    <2>5. [i \in 1..(written - 1) |-> Torn] \in Seq(Characters \cup {Torn})
      <3>1. written - 1 \in Nat
        BY <1>1, <1>6
      <3> QED BY <3>1
    <2>6. first + 1 \in Nat \ {0}
      BY <1>1
    <2> HIDE DEF cell, first, length, written
    <2>7. cell.data \in Seq(Characters \cup {Torn})
      BY <1>3, <2>1, <2>4, <2>5, <2>6
    <2> QED BY <1>2, <2>3, <2>7 DEF cell, length
  <1> QED BY <1>1, <1>4, <1>5, <1>6

LEMMA BytesTypes ==
  ASSUME NEW text \in Seq(Characters), NEW from \in 0..Len(text), NEW bufferLength \in Nat
  PROVE  LET cell == MoveSingleCellToBinaryBuffer(text, from, bufferLength)
         IN /\ cell.status \in {"truncated", "success"}
            /\ cell.data \in Seq(Characters \cup {Torn})
            /\ cell.indicator \in Nat
            /\ cell.next \in -1..Len(text)
  <1> DEFINE cell == MoveSingleCellToBinaryBuffer(text, from, bufferLength)
  <1>1. PICK n \in Nat : Delivers(text, 1, 0, from, bufferLength, cell, n)
    BY BytesDeliver
  <1> HIDE DEF cell
  <1>2. /\ from \in Nat /\ Len(text) \in Nat /\ from <= Len(text) /\ from + n <= Len(text)
        /\ cell.indicator = Len(text) - from
        /\ cell.next \in {-1, from + n} /\ cell.status \in {"truncated", "success"}
        /\ cell.data = SubSeq(text, from + 1, from + n)
    BY <1>1 DEF Delivers
  <1>3. cell.data \in Seq(Characters \cup {Torn})
    BY <1>2
  <1> QED BY <1>2, <1>3 DEF cell

LEMMA FormSizes ==
  ASSUME NEW as \in Forms
  PROVE  as.size \in {1, 2, 4} /\ (as.type = "C_BINARY" => as.size = 1)
  <1>1. CASE \E n \in WcharSizes : as = [type |-> "C_WCHAR", size |-> n]
    <2>1. PICK n \in WcharSizes : as = [type |-> "C_WCHAR", size |-> n]
      BY <1>1
    <2>2. n \in {2, 4} /\ as.type = "C_WCHAR" /\ as.size = n
      BY <2>1, CellAssumption
    <2> QED BY <2>2
  <1>2. CASE as = [type |-> "C_CHAR", size |-> 1]
    BY <1>2
  <1>3. CASE as = [type |-> "C_BINARY", size |-> 1]
    BY <1>3
  <1> QED BY <1>1, <1>2, <1>3 DEF Forms

LEMMA PieceTypes ==
  ASSUME NEW as \in Forms, NEW text \in Seq(Characters), NEW from \in 0..(Len(text) * as.size),
         NEW bufferLength \in Nat
  PROVE  LET cell == MoveSingleCell(as, text, from, bufferLength)
         IN /\ cell.status \in {"truncated", "success"}
            /\ cell.data \in Seq(Characters \cup {Torn})
            /\ cell.indicator \in Nat
            /\ cell.next \in -1..(Len(text) * as.size)
  <1>1. as.size \in {1, 2, 4} /\ (as.type = "C_BINARY" => as.size = 1)
    BY FormSizes
  <1>2. Len(text) * 1 = Len(text)
    OBVIOUS
  <1>3. CASE as.type = "C_BINARY"
    <2>1. /\ as.size = 1 /\ from \in 0..Len(text)
          /\ MoveSingleCell(as, text, from, bufferLength) = MoveSingleCellToBinaryBuffer(text, from, bufferLength)
      BY <1>1, <1>2, <1>3 DEF MoveSingleCell
    <2> QED BY <1>2, <1>3, <2>1, BytesTypes
  <1>4. CASE as.type # "C_BINARY"
    BY <1>1, <1>4, CharTypes DEF MoveSingleCell
  <1> QED BY <1>3, <1>4

LEMMA PieceDelivers ==
  ASSUME NEW as \in Forms, NEW text \in Seq(Characters), NEW k \in 0..Len(text),
         NEW bufferLength \in Nat, bufferLength % as.size = 0
  PROVE  \E n \in Nat : Delivers(text, as.size, IF as.type = "C_BINARY" THEN 0 ELSE 1, k, bufferLength,
                           MoveSingleCell(as, text, k * as.size, bufferLength), n)
  <1>1. as.size \in {1, 2, 4} /\ (as.type = "C_BINARY" => as.size = 1)
    BY FormSizes
  <1>2. k * 1 = k
    OBVIOUS
  <1>3. CASE as.type = "C_BINARY"
    <2>1. /\ as.size = 1 /\ k * as.size = k
          /\ MoveSingleCell(as, text, k * as.size, bufferLength) = MoveSingleCellToBinaryBuffer(text, k, bufferLength)
      BY <1>1, <1>2, <1>3 DEF MoveSingleCell
    <2> QED BY <1>2, <1>3, <2>1, BytesDeliver
  <1>4. CASE as.type # "C_BINARY"
    BY <1>1, <1>4, CharDelivers DEF MoveSingleCell
  <1> QED BY <1>3, <1>4

LEMMA CellInitially == CellInit => CellInv
  <1> SUFFICES ASSUME CellInit PROVE CellInv
    OBVIOUS
  <1>1. /\ form = NoForm /\ value = <<>> /\ joined = <<>> /\ offset = 0 /\ whole = TRUE
        /\ piece = [status |-> "none"] /\ piece.status = "none" /\ instant = NoInstant
    BY DEF CellInit
  <1>2. CellTypeOK
    <2>1. Len(value) = 0 /\ form.size = 0 /\ value \in Seq(Characters)
          /\ joined \in Seq(Characters \cup {Torn})
      BY <1>1 DEF NoForm
    <2> QED BY <1>1, <2>1 DEF CellTypeOK
  <1> QED BY <1>1, <1>2 DEF CellInv, PiecesReassemble

LEMMA ReadPieceKeeps ==
  ASSUME CellInv, NEW bufferLength \in Nat, ReadPiece(bufferLength)
  PROVE  CellInv'
  <1> DEFINE cell       == MoveSingleCell(form, value, offset, bufferLength)
             terminator == IF form.type = "C_BINARY" THEN 0 ELSE 1
             k          == Len(joined)
  <1>1. /\ form \in Forms /\ value \in Seq(Characters) /\ joined \in Seq(Characters \cup {Torn})
        /\ offset \in 0..(Len(value) * form.size) /\ whole \in BOOLEAN
        /\ form' = form /\ value' = value /\ instant' = instant
        /\ offset' = cell.next /\ joined' = joined \o cell.data
        /\ piece' = [status |-> cell.status, indicator |-> cell.indicator,
                     length |-> Len(cell.data), room |-> bufferLength]
        /\ whole' = (whole /\ bufferLength % form.size = 0)
    <2>1. form \in Forms /\ form # NoForm /\ offset # -1 /\ offset \in -1..(Len(value) * form.size)
      BY DEF CellInv, CellTypeOK, ReadPiece
    <2>2. Len(value) * form.size \in Int
      <3>1. form.size \in {1, 2, 4} /\ value \in Seq(Characters)
        BY <2>1, FormSizes DEF CellInv, CellTypeOK
      <3> QED BY <3>1
    <2>3. offset \in 0..(Len(value) * form.size)
      BY <2>1, <2>2
    <2> QED BY <2>1, <2>3 DEF CellInv, CellTypeOK, ReadPiece
  <1>2. form.size \in {1, 2, 4}
    BY <1>1, FormSizes
  <1>3. /\ cell.status \in {"truncated", "success"}
        /\ cell.data \in Seq(Characters \cup {Torn})
        /\ cell.indicator \in Nat
        /\ cell.next \in -1..(Len(value) * form.size)
    BY <1>1, PieceTypes
  <1>t. CellTypeOK'
    <2>1. joined \o cell.data \in Seq(Characters \cup {Torn}) /\ Len(cell.data) \in Nat
      BY <1>1, <1>3
    <2> HIDE DEF cell
    <2>2. piece' \in [status : {"truncated", "success"}, indicator : Nat, length : Nat, room : Nat]
      BY <1>1, <1>3, <2>1
    <2> QED BY <1>1, <1>3, <2>1, <2>2 DEF CellInv, CellTypeOK
  <1>4. CASE whole'
    <2>1. /\ whole /\ bufferLength % form.size = 0
          /\ k \in 0..Len(value) /\ joined = SubSeq(value, 1, k) /\ offset = k * form.size
      <3>1. /\ k <= Len(value) /\ joined = SubSeq(value, 1, k)
            /\ offset = -1 \/ offset = k * form.size
        BY <1>1, <1>4 DEF CellInv, Forms, NoForm
      <3>2. offset # -1 /\ k \in Nat /\ Len(value) \in Nat
        BY <1>1 DEF ReadPiece
      <3>3. k \in 0..Len(value)
        BY <3>1, <3>2
      <3>4. whole /\ bufferLength % form.size = 0
        BY <1>1, <1>4
      <3> QED BY <3>1, <3>2, <3>3, <3>4
    <2>2. PICK n \in Nat : Delivers(value, form.size, terminator, k, bufferLength, cell, n)
      BY <1>1, <2>1, PieceDelivers
    <2>3. n \in 0..(Len(value) - k) /\ k + n \in k..Len(value) /\ Len(value) \in Nat /\ k \in Nat
      BY <1>1, <2>1, <2>2 DEF Delivers
    <2>4. /\ joined' = SubSeq(value, 1, k + n) /\ Len(joined') = k + n /\ Len(cell.data) = n
      <3>1. cell.data = SubSeq(value, k + 1, k + n)
        BY <2>2 DEF Delivers
      <3>2. joined' = SubSeq(value, 1, k) \o SubSeq(value, k + 1, k + n)
        BY <1>1, <2>1, <3>1
      <3>3. /\ SubSeq(value, 1, k) \o SubSeq(value, k + 1, k + n) = SubSeq(value, 1, k + n)
            /\ Len(SubSeq(value, 1, k + n)) = k + n
            /\ Len(SubSeq(value, k + 1, k + n)) = (k + n) - k
        <4>1. ASSUME NEW a \in 0..Len(value), NEW b \in a..Len(value)
              PROVE  /\ SubSeq(value, 1, a) \o SubSeq(value, a + 1, b) = SubSeq(value, 1, b)
                     /\ Len(SubSeq(value, 1, b)) = b
                     /\ Len(SubSeq(value, a + 1, b)) = b - a
          BY <1>1, RangesJoin
        <4> QED BY <2>1, <2>3, <4>1
      <3>4. (k + n) - k = n
        BY <2>3
      <3> QED BY <3>1, <3>2, <3>3, <3>4
    <2>5. n = Len(value) - k => joined' = value
      BY <1>1, <2>3, <2>4, WholeValue
    <2> HIDE DEF cell, terminator
    <2>6. /\ piece'.status = cell.status /\ piece'.indicator = cell.indicator
          /\ piece'.length = n /\ piece'.room = bufferLength
      BY <1>1, <2>4
    <2>7. offset' = -1 \/ offset' = Len(joined') * form'.size
      BY <1>1, <2>2, <2>4 DEF Delivers
    <2>8. offset' = -1 => cell.status = "success"
      BY <1>1, <1>2, <2>2, <2>3 DEF Delivers
    <2>9. offset' = -1 => joined' = value
      BY <2>2, <2>5, <2>8 DEF Delivers
    <2>10. PiecesReassemble'
      <3>1. /\ piece'.indicator = (Len(value) - (Len(joined') - piece'.length)) * form.size
        <4>1. piece'.indicator = (Len(value) - k) * form.size
          BY <2>2, <2>6 DEF Delivers
        <4>2. Len(joined') - piece'.length = k
          <5>1. (k + n) - n = k
            BY <2>3
          <5> QED BY <2>4, <2>6, <5>1
        <4> QED BY <4>1, <4>2
      <3>2. \/ (piece'.length + terminator) * form.size <= piece'.room
            \/ piece'.length = 0 /\ piece'.status = "truncated"
        BY <2>2, <2>6 DEF Delivers
      <3>3. piece'.length = 0 /\ piece'.status = "truncated"
               => piece'.room < (1 + terminator) * form.size
        BY <2>2, <2>6 DEF Delivers
      <3>4. offset' = -1 <=> piece'.status = "success"
        BY <1>1, <2>2, <2>6, <2>8 DEF Delivers
      <3>5. Len(joined') <= Len(value) /\ joined' = SubSeq(value, 1, Len(joined'))
        BY <2>3, <2>4
      <3> QED BY <1>1, <2>9, <3>1, <3>2, <3>3, <3>4, <3>5 DEF PiecesReassemble, terminator
    <2>11. Len(joined') <= Len(value') /\ joined' = SubSeq(value', 1, Len(joined'))
      BY <1>1, <2>3, <2>4
    <2>12. form' # NoForm
      BY <1>1 DEF ReadPiece
    <2> QED BY <1>1, <1>t, <2>7, <2>9, <2>10, <2>11, <2>12 DEF CellInv
  <1>5. CASE ~whole'
    <2>1. PiecesReassemble' /\ form' # NoForm
      BY <1>5, <1>1 DEF PiecesReassemble, ReadPiece
    <2> QED BY <1>t, <1>5, <2>1 DEF CellInv
  <1> QED BY <1>4, <1>5

LEMMA OpenCellKeeps ==
  ASSUME CellInv, NEW as \in Forms, NEW n \in Nat, NEW cell \in [1..n -> Characters],
         OpenCell(as, cell)
  PROVE  CellInv'
  <1>1. cell \in Seq(Characters) /\ Len(cell) \in Nat
    OBVIOUS
  <1>2. /\ form = NoForm /\ form' = as /\ value' = cell
        /\ joined' = joined /\ offset' = offset /\ piece' = piece /\ whole' = whole
        /\ instant' = instant
    BY DEF OpenCell, CellIdle
  <1>3. joined = <<>> /\ offset = 0 /\ whole /\ piece.status = "none"
    BY <1>2 DEF CellInv
  <1>4. as.size \in {1, 2, 4} /\ as # NoForm
    <2>1. as.size \in {1, 2, 4}
      BY FormSizes
    <2>2. NoForm.size = 0
      BY DEF NoForm
    <2>3. ASSUME as = NoForm PROVE FALSE
      BY ONLY <2>1, <2>2, <2>3
    <2> QED BY <2>1, <2>3
  <1>5. Len(cell) * as.size \in Nat /\ 0 \in -1..(Len(cell) * as.size)
    <2>1. CASE as.size = 1
      BY <1>1, <2>1
    <2>2. CASE as.size = 2
      BY <1>1, <2>2
    <2>3. CASE as.size = 4
      BY <1>1, <2>3
    <2> QED BY <1>4, <2>1, <2>2, <2>3
  <1>6. CellTypeOK'
    BY <1>1, <1>2, <1>3, <1>5 DEF CellInv, CellTypeOK
  <1>7. Len(<<>>) = 0 /\ SubSeq(cell, 1, 0) = <<>> /\ 0 * as.size = 0
        /\ 0 <= Len(cell)
    <2>1. 0 \in 0..Len(cell) /\ 0 + 1 = 1 /\ 0 <= Len(cell)
      BY <1>1
    <2>2. 0 * 1 = 0 /\ 0 * 2 = 0 /\ 0 * 4 = 0
      OBVIOUS
    <2>3. SubSeq(cell, 0 + 1, 0) = <<>>
      BY <1>1, <2>1, NoCharacters
    <2> QED BY <1>4, <2>1, <2>2, <2>3
  <1>8. PiecesReassemble'
    BY <1>2, <1>3 DEF PiecesReassemble
  <1>9. /\ form' # NoForm /\ Len(joined') <= Len(value')
        /\ joined' = SubSeq(value', 1, Len(joined')) /\ offset' = Len(joined') * form'.size
        /\ offset' # -1
    <2>1. joined' = <<>> /\ offset' = 0 /\ 0 # -1
      BY <1>2, <1>3
    <2>2. /\ Len(joined') = 0 /\ SubSeq(value', 1, 0) = <<>> /\ 0 * form'.size = 0
          /\ 0 <= Len(value') /\ form' # NoForm
      BY <1>2, <1>4, <1>7, <2>1
    <2> QED BY <2>1, <2>2
  <1> QED BY <1>6, <1>8, <1>9 DEF CellInv

LEMMA ReadInstantKeeps ==
  ASSUME CellInv, NEW unit \in DOMAIN Divisor, NEW ticks \in IntMin..IntMax,
         ReadInstant(unit, ticks)
  PROVE  CellInv'
  <1>1. /\ instant'.unit = unit /\ instant'.ticks = ticks
        /\ form' = form /\ value' = value /\ offset' = offset /\ joined' = joined
        /\ piece' = piece /\ whole' = whole
    BY DEF ReadInstant
  <1> QED BY <1>1 DEF CellInv, CellTypeOK, PiecesReassemble

LEMMA CellStep == CellInv /\ [CellNext]_cellVars => CellInv'
  <1> SUFFICES ASSUME CellInv, [CellNext]_cellVars PROVE CellInv'
    OBVIOUS
  <1>1. ASSUME NEW as \in Forms, NEW n \in 0..MaxLength, NEW cell \in [1..n -> Characters],
               OpenCell(as, cell)
        PROVE  CellInv'
    <2>1. n \in Nat
      BY CellAssumption
    <2> QED BY <1>1, <2>1, OpenCellKeeps
  <1>2. ASSUME NEW bufferLength \in 0..MaxBuffer, ReadPiece(bufferLength) PROVE CellInv'
    BY <1>2, ReadPieceKeeps
  <1>3. ASSUME NEW unit \in DOMAIN Divisor, NEW ticks \in IntMin..IntMax, ReadInstant(unit, ticks)
        PROVE  CellInv'
    BY <1>3, ReadInstantKeeps
  <1>4. CASE UNCHANGED cellVars
    BY <1>4 DEF cellVars, CellInv, CellTypeOK, PiecesReassemble
  <1> QED BY <1>1, <1>2, <1>3, <1>4 DEF CellNext

(* For text and bytes of any length, every C type and SQLWCHAR of 2 or 4 bytes
   and every sequence of buffers that hold whole characters, the pieces are the
   value (MoveSingleCellToCharBuffer, MoveSingleCellToBinaryBuffer). *)
THEOREM PiecesAreTheValue == CellSpec => [](CellTypeOK /\ PiecesReassemble)
  <1>1. CellSpec => []CellInv
    BY CellInitially, CellStep, PTL DEF CellSpec
  <1>2. CellInv => CellTypeOK /\ PiecesReassemble
    BY DEF CellInv
  <1> QED BY <1>1, <1>2, PTL

-----------------------------------------------------------------------------
(* Timestamps, times and dates (TimestampIsTheInstant). *)

(* Division rounding down: quotient and remainder, and that there is one of each. *)
LEMMA Division ==
  ASSUME NEW a \in Int, NEW d \in Nat \ {0}
  PROVE  /\ a \div d \in Int /\ a % d \in 0..(d - 1)
         /\ a = d * (a \div d) + (a % d)
  OBVIOUS

LEMMA MultiplesApart ==
  ASSUME NEW d \in Nat \ {0}, NEW q \in Int, NEW p \in Int, q < p
  PROVE  d * q + d <= d * p
  <1>1. PICK n \in Nat : p = q + 1 + n
    <2>1. p - q - 1 \in Nat /\ p = q + 1 + (p - q - 1)
      OBVIOUS
    <2> QED BY <2>1
  <1>2. d * p = d * q + d + d * n
    BY <1>1
  <1>3. d * n \in Nat
    OBVIOUS
  <1> QED BY <1>2, <1>3

LEMMA OneDivision ==
  ASSUME NEW a \in Int, NEW d \in Nat \ {0}, NEW q \in Int, NEW r \in 0..(d - 1), a = d * q + r
  PROVE  a \div d = q /\ a % d = r
  <1> DEFINE p == a \div d
             s == a % d
  <1>1. p \in Int /\ s \in 0..(d - 1) /\ a = d * p + s
    BY Division
  <1> HIDE DEF p, s
  <1>2. d * p \in Int /\ d * q \in Int
    BY <1>1
  <1>3. ~(p < q)
    <2> SUFFICES ASSUME p < q PROVE FALSE
      OBVIOUS
    <2>1. d * p + d <= d * q
      BY <1>1, MultiplesApart
    <2> QED BY <1>1, <1>2, <2>1
  <1>4. ~(q < p)
    <2> SUFFICES ASSUME q < p PROVE FALSE
      OBVIOUS
    <2>1. d * q + d <= d * p
      BY <1>1, MultiplesApart
    <2> QED BY <1>1, <1>2, <2>1
  <1>5. p = q
    BY <1>1, <1>3, <1>4
  <1>6. s = r
    BY <1>1, <1>2, <1>5
  <1> QED BY <1>5, <1>6 DEF p, s

(* Seconds are rounded down before the epoch as after it. *)
LEMMA SecondsRoundDown ==
  ASSUME NEW unit \in DOMAIN Divisor, Divisor[unit] \in Nat \ {0}, NEW ticks \in Int
  PROVE  TimestampSeconds(unit, ticks) = ticks \div Divisor[unit]
  <1> DEFINE d == Divisor[unit]
             u == -ticks - 1
  <1>1. CASE ticks >= 0
    BY <1>1 DEF TimestampSeconds, Quot
  <1>2. CASE ticks < 0
    <2>1. u \in Nat /\ -(ticks + 1) = u /\ ticks = -u - 1
      BY <1>2
    <2>2. u \div d \in Int /\ u % d \in 0..(d - 1) /\ u = d * (u \div d) + (u % d)
      <3>1. d \in Nat \ {0} /\ u \in Int
        BY <2>1
      <3> HIDE DEF d, u
      <3> QED BY <3>1, Division
    <2>3. TimestampSeconds(unit, ticks) = -(u \div d) - 1
      <3>1. CASE ticks + 1 < 0
        BY <1>2, <2>1, <3>1 DEF TimestampSeconds, Quot
      <3>2. CASE ~(ticks + 1 < 0)
        <4>1. ticks + 1 = 0 /\ u = 0
          BY <1>2, <3>2
        <4>2. 0 \div d = 0
          BY <4>1, OneDivision
        <4> QED BY <1>2, <4>1, <4>2 DEF TimestampSeconds, Quot
      <3> QED BY <3>1, <3>2
    <2> DEFINE q == u \div d
               r == u % d
    <2>4. -q - 1 \in Int /\ d - 1 - r \in 0..(d - 1)
      BY SMTT(30), <2>2
    <2>5. ticks = d * (-q - 1) + (d - 1 - r)
      <3> HIDE DEF q, r, u, d
      <3>1. /\ q \in Int /\ r \in 0..(d - 1) /\ u = d * q + r
        BY <2>2 DEF q, r, d
      <3>0. d \in Nat \ {0} /\ u \in Int /\ ticks = -u - 1
        BY <2>1 DEF d
      <3>2. d * (-q - 1) = -(d * q) - d /\ d * q \in Int
        BY <3>0, <3>1
      <3> QED BY <3>0, <3>1, <3>2
    <2>6. ticks \div d = -q - 1
      BY <2>4, <2>5, OneDivision
    <2> QED BY <2>3, <2>6
  <1> QED BY <1>1, <1>2

LEMMA SmallRemainder ==
  ASSUME NEW d \in Nat \ {0}, NEW r \in 0..(d - 1)
  PROVE  r \div d = 0 /\ r % d = r
  <1>1. r = d * 0 + r
    OBVIOUS
  <1> QED BY <1>1, OneDivision

LEMMA SameRemainder ==
  ASSUME NEW a \in Int, NEW d \in Nat \ {0}, NEW c \in Int, NEW b \in Int, b = a + d * c
  PROVE  b % d = a % d
  <1> DEFINE q == a \div d
             r == a % d
  <1>1. q \in Int /\ r \in 0..(d - 1) /\ a = d * q + r
    BY Division
  <1> HIDE DEF q, r
  <1>2. d * (q + c) = d * q + d * c /\ d * q \in Int /\ d * c \in Int /\ q + c \in Int
    BY <1>1
  <1>3. b = d * (q + c) + r
    BY <1>1, <1>2
  <1> DEFINE e == q + c
  <1>4. e \in Int /\ b = d * e + r
    BY <1>2, <1>3
  <1> HIDE DEF e
  <1>5. b % d = r
    BY <1>1, <1>4, OneDivision
  <1> QED BY <1>5 DEF r

(* Nothing is wrapped that fits. *)
LEMMA FitsUnwrapped ==
  ASSUME NEW n \in IntMin..IntMax
  PROVE  Wrapped(n) = n
  <1> DEFINE w == 2 * (IntMax + 1)
  <1>1. /\ IntMax \in Nat /\ IntMin = -IntMax - 1 /\ n \in Int
        /\ w \in Nat \ {0} /\ n - IntMin \in 0..(w - 1)
    BY CellAssumption DEF IntMin
  <1>2. (n - IntMin) % w = n - IntMin
    BY <1>1, SmallRemainder
  <1> QED BY <1>1, <1>2 DEF Wrapped

(* What the line without braces adds brings every instant up to the middle of
   the range into it, with the remainder of the instant. *)
LEMMA ShiftKeepsRemainder ==
  ASSUME NEW d \in 1..IntMax, NEW raised \in Int, raised < d \/ 2 * raised <= IntMax
  PROVE  LET shifted == raised + d * AbsOf(Quot(raised - (d - 1), d))
         IN Rem(Wrapped(shifted), d) = raised % d
  <1> DEFINE z       == raised - (d - 1)
             c       == AbsOf(Quot(z, d))
             shifted == raised + d * c
  <1>0. d \in Nat \ {0} /\ IntMax \in Nat /\ z \in Int /\ raised = z + d - 1
    BY CellAssumption
  <1>1. c \in Nat /\ shifted \in 0..IntMax
    <2>1. CASE z <= 0
      <3>1. -z \in Nat /\ (-z) \div d \in Int
            /\ (-z) % d \in 0..(d - 1) /\ -z = d * ((-z) \div d) + ((-z) % d)
        BY <1>0, <2>1, Division
      <3> DEFINE q == (-z) \div d
                 r == (-z) % d
      <3>2. c = q /\ q \in Nat
        <4>1. q >= 0
          <5>1. ~(q < 0)
            <6> SUFFICES ASSUME q < 0 PROVE FALSE
              OBVIOUS
            <6> HIDE DEF q
            <6>1. d * q + d <= d * 0
              BY <1>0, <3>1, MultiplesApart DEF q
            <6>2. d * 0 = 0 /\ d * q \in Int
              BY <1>0, <3>1 DEF q
            <6>3. -z = d * q + r /\ r \in 0..(d - 1)
              BY <3>1 DEF q
            <6> HIDE DEF r, z
            <6> QED BY <1>0, <3>1, <6>1, <6>2, <6>3
          <5> QED BY <3>1, <5>1
        <4>2. CASE z < 0
          BY <1>0, <2>1, <3>1, <4>1, <4>2 DEF Quot, AbsOf
        <4>3. CASE z = 0
          <5>1. 0 \div d = 0
            BY <1>0, SmallRemainder
          <5> QED BY <1>0, <3>1, <4>1, <4>3, <5>1 DEF Quot, AbsOf
        <4> QED BY <1>0, <2>1, <4>2, <4>3
      <3> HIDE DEF q, r, z, c
      <3>3. q \in Int /\ r \in 0..(d - 1) /\ -z = d * q + r /\ d * q \in Int
        BY <1>0, <3>1, <3>2 DEF q, r
      <3>4. shifted = d - 1 - r
        BY <1>0, <3>2, <3>3
      <3> QED BY <1>0, <3>2, <3>3, <3>4
    <2>2. CASE z > 0
      <3> DEFINE q == z \div d
                 r == z % d
      <3>1. q \in Int /\ r \in 0..(d - 1) /\ z = d * q + r
        BY <1>0, Division
      <3>2. c = q /\ q \in Nat
        <4>1. q >= 0
          BY <1>0, <2>2
        <4> QED BY <1>0, <2>2, <3>1, <4>1 DEF Quot, AbsOf
      <3> HIDE DEF q, r, z, c
      <3>3. d * q \in Nat
        BY <1>0, <3>2
      <3>4. shifted = raised + z - r
        BY <1>0, <3>1, <3>2, <3>3
      <3>5. 2 * raised <= IntMax /\ z <= raised /\ raised >= 0
        BY <1>0, <2>2 DEF z
      <3> QED BY <1>0, <2>2, <3>1, <3>2, <3>3, <3>4, <3>5
    <2> QED BY <1>0, <2>1, <2>2
  <1>2. Wrapped(shifted) = shifted
    <2>1. shifted \in IntMin..IntMax
      BY <1>0, <1>1 DEF IntMin
    <2> QED BY <2>1, FitsUnwrapped
  <1>3. Rem(shifted, d) = shifted % d
    <2> HIDE DEF shifted
    <2>1. ~(shifted < 0) /\ shifted \in Int
      BY <1>0, <1>1
    <2>2. Rem(shifted, d) = shifted - d * (shifted \div d)
      BY <2>1 DEF Rem, Quot
    <2>3. /\ shifted \div d \in Int /\ shifted % d \in 0..(d - 1)
          /\ shifted = d * (shifted \div d) + (shifted % d)
      BY <1>0, <2>1, Division
    <2> DEFINE p == d * (shifted \div d)
               r == shifted % d
    <2>4. p \in Int /\ r \in Int /\ shifted = p + r
      BY <1>0, <2>3
    <2>5. Rem(shifted, d) = shifted - p
      BY <2>2
    <2> HIDE DEF p, r
    <2>6. shifted - p = r
      BY <2>1, <2>4
    <2> QED BY <2>5, <2>6 DEF r
  <1>4. shifted % d = raised % d
    <2> HIDE DEF c
    <2>1. shifted \in Int /\ shifted = raised + d * c /\ c \in Int
      BY <1>1
    <2> HIDE DEF shifted
    <2> QED BY <1>0, <2>1, SameRemainder
  <1> QED BY <1>2, <1>3, <1>4

(* A second has a whole number of nanoseconds for each tick of every unit. *)
LEMMA TicksOfASecond ==
  ASSUME NEW unit \in DOMAIN Divisor
  PROVE  LET d == Divisor[unit]
         IN /\ d \in 1..IntMax /\ d \in Nat \ {0}
            /\ Nano \div d \in Nat \ {0} /\ Nano = d * (Nano \div d)
  <1> DEFINE d == Divisor[unit]
             m == Nano \div d
  <1>1. d \in {1, Milli, Micro, Nano}
    BY DEF Divisor
  <1>2. d \in Nat \ {0} /\ Nano \in 1..IntMax /\ Nano \in Nat \ {0} /\ IntMax \in Nat
    BY <1>1, CellAssumption
  <1>3. Nano % d = 0
    <2>1. Nano = 1 * Nano + 0 /\ Nano = Nano * 1 + 0
      BY <1>2
    <2>2. Nano % 1 = 0 /\ Nano % Nano = 0
      BY <1>2, <2>1, OneDivision
    <2> QED BY <1>1, <2>2, CellAssumption
  <1> HIDE DEF d
  <1>4. m \in Int /\ Nano = d * m
    BY <1>2, <1>3, Division
  <1> HIDE DEF m
  <1>5. m > 0
    <2> SUFFICES ASSUME ~(m > 0) PROVE FALSE
      OBVIOUS
    <2>1. CASE m = 0
      BY <1>2, <1>4, <2>1
    <2>2. CASE m < 0
      <3>1. d * m + d <= d * 0
        BY <1>2, <1>4, <2>2, MultiplesApart
      <3> QED BY <1>2, <1>4, <3>1
    <2> QED BY <1>4, <2>1, <2>2
  <1>6. d <= Nano
    <2>1. d * 0 + d <= d * m
      BY <1>2, <1>4, <1>5, MultiplesApart
    <2> QED BY <1>2, <1>4, <2>1
  <1> QED BY <1>2, <1>4, <1>5, <1>6 DEF d, m

LEMMA FractionOfASecond ==
  ASSUME NEW unit \in DOMAIN Divisor, unit # "SECOND", NEW ticks \in IntMin..(IntMax \div 2)
  PROVE  CalculateFraction(unit, ticks) = (ticks % Divisor[unit]) * (Nano \div Divisor[unit])
  <1> DEFINE d      == Divisor[unit]
             raised == IF ticks < 0 /\ ticks <= IntMin + d THEN ticks + d ELSE ticks
  <1>1. d \in 1..IntMax /\ d \in Nat \ {0} /\ IntMax \in Nat /\ ticks \in Int
        /\ 2 * ticks <= IntMax /\ IntMin = -IntMax - 1
    BY TicksOfASecond, CellAssumption DEF IntMin
  <1> HIDE DEF d
  <1>2. raised \in Int /\ (raised < d \/ 2 * raised <= IntMax)
    BY <1>1
  <1>3. raised % d = ticks % d
    <2>1. CASE raised = ticks
      BY <2>1
    <2>2. CASE raised = ticks + d
      <3> DEFINE one == 1
      <3>1. raised \in Int /\ raised = ticks + d * one /\ one \in Int
        BY <1>1, <2>2
      <3> HIDE DEF raised, one
      <3> QED BY <1>1, <3>1, SameRemainder
    <2> QED BY <2>1, <2>2
  <1> HIDE DEF raised
  <1>4. Rem(Wrapped(raised + d * AbsOf(Quot(raised - (d - 1), d))), d) = raised % d
    BY <1>1, <1>2, ShiftKeepsRemainder
  <1> QED BY <1>3, <1>4 DEF CalculateFraction, raised, d

LEMMA PartsAreTheInstant ==
  ASSUME NEW unit \in DOMAIN Divisor, NEW ticks \in IntMin..IntMax,
         ticks <= IntMax \div 2 \/ unit = "SECOND"
  PROVE  LET fraction == CalculateFraction(unit, ticks)
         IN /\ fraction \in 0..(Nano - 1)
            /\ TimestampSeconds(unit, ticks) * Nano + fraction = ticks * (Nano \div Divisor[unit])
  <1> DEFINE d == Divisor[unit]
             m == Nano \div d
             q == ticks \div d
             r == ticks % d
  <1>1. /\ d \in Nat \ {0} /\ m \in Nat \ {0} /\ Nano = d * m /\ ticks \in Int
    BY TicksOfASecond, CellAssumption DEF IntMin
  <1>2. TimestampSeconds(unit, ticks) = q
    BY <1>1, SecondsRoundDown
  <1>3. CalculateFraction(unit, ticks) = r * m
    <2>1. CASE unit # "SECOND"
      <3>1. ticks \in IntMin..(IntMax \div 2)
        BY <2>1, CellAssumption DEF IntMin
      <3> QED BY <2>1, <3>1, FractionOfASecond
    <2>2. CASE unit = "SECOND"
      <3>1. d = 1
        BY <2>2 DEF Divisor
      <3>2. r = 0
        BY <1>1, <3>1
      <3> QED BY <1>1, <2>2, <3>2 DEF CalculateFraction
    <2> QED BY <2>1, <2>2
  <1>4. q \in Int /\ r \in 0..(d - 1) /\ ticks = d * q + r
    <2> HIDE DEF d
    <2> QED BY <1>1, Division
  <1> HIDE DEF d, m, q, r
  <1>5. r * m \in 0..(Nano - 1)
    <2>1. r * m \in Nat /\ m * r = r * m
      BY <1>1, <1>4
    <2>2. m * r + m <= m * d
      BY <1>1, <1>4, MultiplesApart
    <2>3. m * d = Nano
      BY <1>1
    <2> QED BY <1>1, <2>1, <2>2, <2>3
  <1>6. q * Nano + r * m = ticks * m
    <2>1. q * Nano = (d * q) * m
      BY <1>1, <1>4
    <2>2. (d * q + r) * m = (d * q) * m + r * m
      BY <1>1, <1>4
    <2> QED BY <1>1, <1>4, <2>1, <2>2
  <1> QED BY <1>2, <1>3, <1>5, <1>6 DEF m, d

LEMMA TimeOfDay ==
  ASSUME NEW unit \in DOMAIN Divisor, NEW ticks \in Nat
  PROVE  ConvertTimeValue(IF unit \in {"SECOND", "MILLI"} THEN "TIME32" ELSE "TIME64", unit, ticks)
            = ticks \div Divisor[unit]
  <1>1. CASE unit = "SECOND"
    <2>1. ticks = 1 * ticks + 0
      OBVIOUS
    <2>2. ticks \div 1 = ticks
      BY <2>1, OneDivision
    <2> QED BY <1>1, <2>2 DEF ConvertTimeValue, Divisor
  <1>2. CASE unit = "MILLI"
    BY <1>2 DEF ConvertTimeValue, Divisor, Quot
  <1>3. CASE unit = "MICRO"
    BY <1>3 DEF ConvertTimeValue, Divisor, Quot
  <1>4. CASE unit = "NANO"
    BY <1>4 DEF ConvertTimeValue, Divisor, Quot
  <1> QED BY <1>1, <1>2, <1>3, <1>4 DEF Divisor

LEMMA ExactQuotient ==
  ASSUME NEW a \in Int, NEW d \in Nat \ {0}
  PROVE  Quot(a * d, d) = a
  <1> DEFINE p == a * d
  <1>1. p \in Int /\ p = d * a + 0 /\ -p = d * (-a) + 0
    OBVIOUS
  <1> HIDE DEF p
  <1>2. p \div d = a /\ (-p) \div d = -a
    BY <1>1, OneDivision
  <1>3. Quot(p, d) = a
    BY <1>1, <1>2 DEF Quot
  <1> QED BY <1>3 DEF p

LEMMA SameDay ==
  ASSUME NEW days \in Int
  PROVE  ConvertDate("DATE64", days * DaySeconds * Milli) = ConvertDate("DATE32", days)
  <1> DEFINE seconds == days * DaySeconds
  <1>1. seconds \in Int /\ Milli \in Nat \ {0}
    BY CellAssumption
  <1> HIDE DEF seconds
  <1>2. Quot(seconds * Milli, Milli) = seconds
    BY <1>1, ExactQuotient
  <1> QED BY <1>2 DEF ConvertDate, seconds

(* What an accessor was given and made of it. *)
InstantInv ==
    instant = NoInstant
    \/ \E unit \in DOMAIN Divisor, ticks \in IntMin..IntMax :
          /\ instant.unit = unit /\ instant.ticks = ticks
          /\ instant.seconds = TimestampSeconds(unit, ticks)
          /\ instant.fraction = CalculateFraction(unit, ticks)
          /\ instant.time = ConvertTimeValue(IF unit \in {"SECOND", "MILLI"} THEN "TIME32"
                                             ELSE "TIME64", unit, ticks)
          /\ instant.date32 = ConvertDate("DATE32", ticks)
          /\ instant.date64 = ConvertDate("DATE64", ticks * DaySeconds * Milli)

(* For integers of every size and every number of ticks to a second the parts
   of a timestamp are the instant, up to the middle of the integer's range, a
   time of day is its second and both arrays hold the same day
   (timestamp_array_accessor.cc, time_array_accessor.cc, date_array_accessor.cc). *)
THEOREM TimestampsAreInstants == CellSpec => []TimestampIsTheInstant
  <1>1. CellInit => InstantInv
    BY DEF CellInit, InstantInv
  <1>2. InstantInv /\ [CellNext]_cellVars => InstantInv'
    <2> SUFFICES ASSUME InstantInv, [CellNext]_cellVars PROVE InstantInv'
      OBVIOUS
    <2>1. ASSUME NEW unit \in DOMAIN Divisor, NEW ticks \in IntMin..IntMax, ReadInstant(unit, ticks)
          PROVE  InstantInv'
      BY <2>1 DEF ReadInstant, InstantInv
    <2>2. CASE UNCHANGED instant
      BY <2>2 DEF InstantInv
    <2> QED BY <2>1, <2>2 DEF CellNext, OpenCell, ReadPiece, cellVars
  <1>3. InstantInv => TimestampIsTheInstant
    <2> SUFFICES ASSUME InstantInv, instant # NoInstant PROVE TimestampIsTheInstant
      BY DEF TimestampIsTheInstant
    <2>1. PICK unit \in DOMAIN Divisor, ticks \in IntMin..IntMax :
             /\ instant.unit = unit /\ instant.ticks = ticks
             /\ instant.seconds = TimestampSeconds(unit, ticks)
             /\ instant.fraction = CalculateFraction(unit, ticks)
             /\ instant.time = ConvertTimeValue(IF unit \in {"SECOND", "MILLI"} THEN "TIME32"
                                                ELSE "TIME64", unit, ticks)
             /\ instant.date32 = ConvertDate("DATE32", ticks)
             /\ instant.date64 = ConvertDate("DATE64", ticks * DaySeconds * Milli)
      BY DEF InstantInv
    <2>2. ticks \in Int
      BY CellAssumption DEF IntMin
    <2>3. ticks <= IntMax \div 2 \/ unit = "SECOND" =>
             /\ instant.fraction \in 0..(Nano - 1)
             /\ instant.seconds * Nano + instant.fraction = ticks * (Nano \div Divisor[unit])
      BY <2>1, PartsAreTheInstant
    <2>4. ticks >= 0 => instant.time = ticks \div Divisor[unit]
      BY <2>1, <2>2, TimeOfDay
    <2>5. instant.date64 = instant.date32
      BY <2>1, <2>2, SameDay
    <2> QED BY <2>1, <2>3, <2>4, <2>5 DEF TimestampIsTheInstant
  <1> QED BY <1>1, <1>2, <1>3, PTL DEF CellSpec
================================================================================
