----------------------------- MODULE Descriptor -----------------------------
(***************************************************************************)
(* The records of descriptors: ODBCDescriptor.cc, the descriptor functions *)
(* of odbc_entry.cc, and the hand-over of bindings in ODBCStatement::Fetch.*)
(*                                                                         *)
(* A statement fetches through its ARD; another application descriptor and *)
(* the IRD, which describes the result set, are copied from and to.  The   *)
(* module follows several columns at once, where Statement has one: the    *)
(* number of records and SQL_DESC_COUNT, records that are bound, unbound,  *)
(* cut off and grown again, and which columns a fetch then writes.         *)
(***************************************************************************)
EXTENDS Integers, Sequences, SequencesExt

CONSTANTS
    Buffers,        \* buffers of the application
    Null,           \* the null pointer
    MaxRecords,     \* bound: records of a descriptor, and columns of a result
    MaxCalls        \* bound: calls

ASSUME DescriptorAssumption == MaxRecords \in Nat /\ MaxCalls \in Nat

Numbers == 1..MaxRecords
AppDescs == {"ard", "other"}
Descs == AppDescs \cup {"ird"}

VARIABLES
    m_records,      \* the records of each descriptor
    m_highest,      \* m_highestOneBasedBoundRecord
    m_hasBindingsChanged,   \* of the ARD
    bound_,         \* the buffer of each column of the result set, or Null
    written,        \* the columns the last fetch wrote, with their buffers
    last,           \* the last call and how it ended
    wanted,         \* history: the buffers the application has bound in the ARD
    copied,         \* history: descriptors that SQLCopyDesc has written
    unnoticed,      \* history: SQL_UNBIND was the last change of the ARD
    calls

vars == <<m_records, m_highest, m_hasBindingsChanged, bound_, written, last,
          wanted, copied, unnoticed, calls>>

(* A DescriptorRecord, as far as binding goes: m_isBound and m_dataPtr. *)
NewRecord == [m_isBound |-> FALSE, m_dataPtr |-> Null]
Unbound == [n \in Numbers |-> Null]

Init ==
    /\ m_records = [d \in Descs |-> <<>>]
    /\ m_highest = [d \in Descs |-> 0]
    /\ m_hasBindingsChanged = TRUE
    /\ bound_ = <<>> /\ written = Unbound
    /\ last = [call |-> "none", rc |-> "SUCCESS", value |-> 0]
    /\ wanted = Unbound /\ copied = {} /\ unnoticed = FALSE
    /\ calls = 0

(* std::vector::resize. *)
Resized(recs, n) == [i \in 1..n |-> IF i <= Len(recs) THEN recs[i] ELSE NewRecord]

(* CalculateHighestBoundRecord, over the records as they are when it is called. *)
CalculateHighestBoundRecord(recs) ==
    SelectLastInSeq(recs, LAMBDA r : r.m_isBound)

Call(name, rc, value) ==
    /\ calls < MaxCalls /\ calls' = calls + 1
    /\ last' = [call |-> name, rc |-> rc, value |-> value]

(* A change that marks the bindings of d as changed. *)
Noticed(d) ==
    /\ m_hasBindingsChanged' = (d = "ard" \/ m_hasBindingsChanged)
    /\ unnoticed' = (unnoticed /\ d # "ard")

(* The application's own account of its ARD. *)
Want(d, n, p) == wanted' = IF d = "ard" THEN [wanted EXCEPT ![n] = p] ELSE wanted

(* An exception: nothing has changed. *)
Refused(name) ==
    /\ Call(name, "ERROR", 0)
    /\ UNCHANGED <<m_records, m_highest, m_hasBindingsChanged, bound_, written,
                   wanted, copied, unnoticed>>

-----------------------------------------------------------------------------
(* SetDataPtrOnRecord, on the records `recs` of d, which it may be the first
   to see grown by BindCol. *)
DataPtrSetBound(recs, n, p) ==   \* mutant: a null pointer does not unbind
    [recs EXCEPT ![n] = [m_isBound |-> TRUE, m_dataPtr |-> p]]

DataPtrSet(recs, n, p) ==
    [recs EXCEPT ![n] = [m_isBound |-> p # Null, m_dataPtr |-> p]]

HighestLastBound(d, recs, n, p) ==   \* mutant: the last bound, not the highest
    IF p # Null THEN n
    ELSE IF m_highest[d] = n THEN CalculateHighestBoundRecord(recs) ELSE m_highest[d]

HighestAfter(d, recs, n, p) ==
    IF m_highest[d] < n /\ p # Null THEN n
    ELSE IF m_highest[d] = n /\ p = Null THEN CalculateHighestBoundRecord(recs)
    ELSE m_highest[d]

SetDataPtrOnRecord(name, d, recs, n, p) ==
    LET new == DataPtrSet(recs, n, p) IN
    /\ Call(name, "SUCCESS", n)
    /\ m_records' = [m_records EXCEPT ![d] = new]
    /\ m_highest' = [m_highest EXCEPT ![d] = HighestAfter(d, new, n, p)]
    /\ Noticed(d) /\ Want(d, n, p)
    /\ UNCHANGED <<bound_, written, copied>>

(* BindCol grows the records of the ARD up to the one it binds. *)
BindCol(n, p) ==
    LET recs == m_records["ard"]
    IN SetDataPtrOnRecord("BindCol", "ard",
                          IF Len(recs) < n THEN Resized(recs, n) ELSE recs, n, p)

(* SetField of a record: the IRD is read only, the record must be there. *)
SetDataPtr(d, n, p) ==
    IF d = "ird" \/ n > Len(m_records[d]) THEN Refused("SetField")
    ELSE SetDataPtrOnRecord("SetField", d, m_records[d], n, p)

(* The fields that describe the buffer (type, length, precision...) unbind
   the record; its pointer stays in it. *)
SetDescribingField(d, n) ==
    IF d = "ird" \/ n > Len(m_records[d]) THEN Refused("SetField")
    ELSE /\ Call("SetField", "SUCCESS", n)
         /\ m_records' = [m_records EXCEPT ![d][n].m_isBound = FALSE]
         /\ Noticed(d) /\ Want(d, n, Null)
         /\ UNCHANGED <<m_highest, bound_, written, copied>>

(* SQL_DESC_COUNT of SetHeaderField. *)
SetCount(d, count) ==
    IF d = "ird" THEN Refused("SetField")
    ELSE LET new == Resized(m_records[d], count) IN
         /\ Call("SetCount", "SUCCESS", count)
         /\ m_records' = [m_records EXCEPT ![d] = new]
         /\ m_highest' = [m_highest EXCEPT ![d] =
                IF count <= m_highest[d] THEN CalculateHighestBoundRecord(new) ELSE count]
         /\ Noticed(d)
         /\ wanted' = IF d # "ard" THEN wanted
                      ELSE [n \in Numbers |-> IF n <= count THEN wanted[n] ELSE Null]
         /\ UNCHANGED <<bound_, written, copied>>

(* SQLSetDescRec: SetField of the describing fields, then of the pointer,
   then of the two length pointers, which unbind nothing. *)
SetDescRecPtrFirst(d, n, p) ==   \* mutant: the pointer before what describes it
    IF d = "ird" \/ n > Len(m_records[d]) THEN Refused("SetDescRec")
    ELSE /\ Call("SetDescRec", "SUCCESS", n)
         /\ m_records' = [m_records EXCEPT ![d][n] = [m_isBound |-> FALSE, m_dataPtr |-> p]]
         /\ Noticed(d) /\ Want(d, n, p)
         /\ UNCHANGED <<m_highest, bound_, written, copied>>

SetDescRec(d, n, p) ==
    IF d = "ird" \/ n > Len(m_records[d]) THEN Refused("SetDescRec")
    ELSE SetDataPtrOnRecord("SetDescRec", d,
             [m_records[d] EXCEPT ![n].m_isBound = FALSE], n, p)

(* SQLCopyDesc copies the records alone, to any descriptor. *)
CopyDesc(src, dst) ==
    /\ Call("CopyDesc", "SUCCESS", 0)
    /\ m_records' = [m_records EXCEPT ![dst] = m_records[src]]
    /\ Noticed(dst)
    /\ copied' = copied \cup {dst}
    /\ wanted' = IF dst # "ard" THEN wanted
                 ELSE [n \in Numbers |-> IF n <= Len(m_records[src]) /\ m_records[src][n].m_isBound
                                         THEN m_records[src][n].m_dataPtr ELSE Null]
    /\ UNCHANGED <<m_highest, bound_, written>>

(* SQLFreeStmt(SQL_UNBIND) clears the records, and nothing else. *)
Unbind ==
    /\ Call("Unbind", "SUCCESS", 0)
    /\ m_records' = [m_records EXCEPT !["ard"] = <<>>]
    /\ wanted' = Unbound
    /\ unnoticed' = TRUE
    /\ UNCHANGED <<m_highest, m_hasBindingsChanged, bound_, written, copied>>

(* A statement with `columns` columns is executed while the cursor is closed:
   the IRD is populated, the new result set has no bindings, and the last
   closeCursor has marked the bindings as changed. *)
Execute(columns) ==
    /\ Call("Execute", "SUCCESS", columns)
    /\ m_records' = [m_records EXCEPT !["ird"] = [i \in 1..columns |-> NewRecord]]
    /\ m_highest' = [m_highest EXCEPT !["ird"] = columns + 1]
    /\ bound_' = [i \in 1..columns |-> Null]
    /\ Noticed("ard")
    /\ copied' = copied \ {"ird"}
    /\ UNCHANGED <<written, wanted>>

(* Fetch binds each column the IRD describes, or unbinds it; Move writes what
   is bound.  The ARD may have more records than the result has columns, or
   fewer. *)
HandOverBoundOnly ==   \* mutant: a column without a record keeps its binding
    [i \in DOMAIN bound_ |->
       IF i <= Len(m_records["ird"]) /\ i <= Len(m_records["ard"])
       THEN IF m_records["ard"][i].m_isBound THEN m_records["ard"][i].m_dataPtr ELSE Null
       ELSE bound_[i]]

HandOver ==
    [i \in DOMAIN bound_ |->
       IF i > Len(m_records["ird"]) THEN bound_[i]
       ELSE IF i <= Len(m_records["ard"]) /\ m_records["ard"][i].m_isBound
       THEN m_records["ard"][i].m_dataPtr ELSE Null]

Fetch ==
    LET now == IF m_hasBindingsChanged THEN HandOver ELSE bound_ IN
    /\ bound_ # <<>> /\ "ird" \notin copied
    /\ Call("Fetch", "SUCCESS", 0)
    /\ bound_' = now
    /\ written' = [n \in Numbers |-> IF n \in DOMAIN now THEN now[n] ELSE Null]
    /\ m_hasBindingsChanged' = FALSE
    /\ UNCHANGED <<m_records, m_highest, wanted, copied, unnoticed>>

(* SQL_DESC_COUNT of GetHeaderField, and SQLNumResultCols. *)
GetCount(d) ==
    /\ Call("GetCount", "SUCCESS", m_highest[d])
    /\ UNCHANGED <<m_records, m_highest, m_hasBindingsChanged, bound_, written,
                   wanted, copied, unnoticed>>

NumResultCols ==
    /\ Call("NumResultCols", "SUCCESS", Len(m_records["ird"]))
    /\ UNCHANGED <<m_records, m_highest, m_hasBindingsChanged, bound_, written,
                   wanted, copied, unnoticed>>

Next ==
    \/ \E n \in Numbers, p \in Buffers \cup {Null} :
          \/ BindCol(n, p)
          \/ \E d \in Descs : SetDataPtr(d, n, p) \/ SetDescRec(d, n, p)
    \/ \E d \in Descs, n \in Numbers : SetDescribingField(d, n)
    \/ \E d \in Descs, count \in 0..MaxRecords : SetCount(d, count)
    \/ \E src, dst \in Descs : src # dst /\ CopyDesc(src, dst)
    \/ \E columns \in Numbers : Execute(columns)
    \/ \E d \in Descs : GetCount(d)
    \/ Unbind \/ Fetch \/ NumResultCols

Spec == Init /\ [][Next]_vars

-----------------------------------------------------------------------------
Records == [m_isBound : BOOLEAN, m_dataPtr : Buffers \cup {Null}]
Calls == {"none", "BindCol", "SetField", "SetDescRec", "SetCount", "CopyDesc", "Unbind",
          "Execute", "Fetch", "GetCount", "NumResultCols"}

DescriptorTypes ==
    /\ m_records \in [Descs -> Seq(Records)]
    /\ \A d \in Descs : Len(m_records[d]) <= MaxRecords
    /\ m_highest \in [Descs -> Nat]
    /\ copied \subseteq Descs
    /\ wanted \in [Numbers -> Buffers \cup {Null}]
FetchTypes ==
    /\ bound_ \in Seq(Buffers \cup {Null}) /\ Len(bound_) <= MaxRecords
    /\ written \in [Numbers -> Buffers \cup {Null}]
    /\ last \in [call : Calls, rc : {"SUCCESS", "ERROR"}, value : Nat]
    /\ calls \in Nat
FlagTypes == m_hasBindingsChanged \in BOOLEAN /\ unnoticed \in BOOLEAN

TypeOK == DescriptorTypes /\ FetchTypes /\ FlagTypes

(* SQL_DESC_COUNT never hides a bound record: however records were bound,
   unbound, cut off and grown again, no record above the count is bound.
   SQLCopyDesc, which copies the records and not the count, is the exception. *)
CountCoversBound ==
    \A d \in AppDescs \ copied : \A n \in DOMAIN m_records[d] :
       m_records[d][n].m_isBound => n <= m_highest[d]

(* The records of the ARD are the bindings the application made: binding one
   column leaves the others alone, a record cut off by SQL_DESC_COUNT comes
   back unbound, what SQLSetDescRec sets ends up bound, and what is bound has a
   buffer to write to. *)
RecordsAreBindings ==
    \A n \in Numbers :
       IF n <= Len(m_records["ard"]) /\ m_records["ard"][n].m_isBound
       THEN wanted[n] # Null /\ wanted[n] = m_records["ard"][n].m_dataPtr
       ELSE wanted[n] = Null

(* A fetch writes the columns of the result that are bound at that time, each
   to its buffer, and no other; unless SQL_UNBIND, which tells nobody, was the
   last to change the bindings. *)
FetchWritesBindings ==
    last.call = "Fetch" /\ ~unnoticed =>
       \A n \in Numbers :
          written[n] = IF n \in DOMAIN bound_ THEN wanted[n] ELSE Null
=============================================================================
