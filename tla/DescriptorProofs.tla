--------------------------- MODULE DescriptorProofs ---------------------------
(***************************************************************************)
(* Proofs about Descriptor for every number of records, every set of       *)
(* buffers and any sequence of calls.                                      *)
(***************************************************************************)
EXTENDS Descriptor, Columns, FiniteSetTheorems, TLAPS

(* A nonempty finite set of numbers has a greatest element: the set of numbers
   above an element is smallest for the greatest, and strict inclusion is well
   founded on finite sets. *)
LEMMA GreatestElement ==
  ASSUME NEW n \in Nat, NEW S \in SUBSET (1..n), S # {}
  PROVE  /\ Max(S) \in S
         /\ \A x \in S : x <= Max(S)
  <1> DEFINE above(x) == {y \in S : y > x}
             T == {above(x) : x \in S}
             U == 1..n
  <1>1. IsFiniteSet(U) /\ \A x \in S : above(x) \in FiniteSubsetsOf(U)
    <2>1. IsFiniteSet(U)
      BY FS_Interval
    <2>2. \A V \in SUBSET U : IsFiniteSet(V)
      BY <2>1, FS_Subset
    <2> QED BY <2>1, <2>2 DEF FiniteSubsetsOf
  <1>2. T # {} /\ T \subseteq FiniteSubsetsOf(U)
    BY <1>1
  <1>3. PICK V \in T : \A W \in T : <<W, V>> \notin StrictSubsetOrdering(U)
    <2> HIDE DEF T, U
    <2> QED BY <1>2, WFMin, FS_StrictSubsetOrderingWellFounded
  <1>4. PICK x \in S : V = above(x)
    BY <1>3
  <1>5. \A y \in S : y <= x
    <2> SUFFICES ASSUME NEW y \in S, y > x PROVE FALSE
      OBVIOUS
    <2>0. x \in Int /\ y \in Int /\ \A z \in S : z \in Int
      OBVIOUS
    <2>1. above(y) \subseteq above(x) /\ y \in above(x) /\ y \notin above(y)
      <3>1. \A z : z \in above(y) => z \in above(x)
        BY <2>0
      <3>2. y \in above(x) /\ y \notin above(y)
        BY <2>0
      <3> QED BY <3>1, <3>2
    <2>2. <<above(y), above(x)>> \in StrictSubsetOrdering(U)
      BY <2>1 DEF StrictSubsetOrdering
    <2> QED BY <2>2, <1>3, <1>4
  <1> QED BY <1>5 DEF Max

(* CalculateHighestBoundRecord is a record number or 0, and no record above it
   is bound. *)
LEMMA HighestBound ==
  ASSUME NEW S, NEW recs \in Seq(S)
  PROVE  /\ CalculateHighestBoundRecord(recs) \in 0..Len(recs)
         /\ \A i \in 1..Len(recs) :
               recs[i].m_isBound => i <= CalculateHighestBoundRecord(recs)
  <1> DEFINE B == {i \in 1..Len(recs) : recs[i].m_isBound}
  <1>1. CalculateHighestBoundRecord(recs) = IF B # {} THEN Max(B) ELSE 0
    BY DEF CalculateHighestBoundRecord, SelectLastInSeq
  <1>2. Len(recs) \in Nat /\ B \in SUBSET (1..Len(recs))
    OBVIOUS
  <1>3. B # {} => Max(B) \in B /\ \A x \in B : x <= Max(B)
    BY <1>2, GreatestElement
  <1> QED BY <1>1, <1>2, <1>3

-----------------------------------------------------------------------------
(* The record of a buffer. *)
RecordFor(p) == [m_isBound |-> p # Null, m_dataPtr |-> p]

LEMMA RecordTypes ==
  /\ NewRecord \in Records
  /\ \A p \in Buffers \cup {Null} : RecordFor(p) \in Records
  /\ \A r \in Records : [r EXCEPT !.m_isBound = FALSE] \in Records
                        /\ r.m_dataPtr \in Buffers \cup {Null}
  <1>1. NewRecord \in Records
    BY DEF NewRecord, Records
  <1>2. \A p \in Buffers \cup {Null} : RecordFor(p) \in Records
    BY DEF RecordFor, Records
  <1>3. \A r \in Records : [r EXCEPT !.m_isBound = FALSE] \in Records
                        /\ r.m_dataPtr \in Buffers \cup {Null}
    BY DEF Records
  <1> QED BY <1>1, <1>2, <1>3

(* Resized keeps the records it does not cut off and adds unbound ones. *)
LEMMA ResizedRecords ==
  ASSUME NEW recs \in Seq(Records), NEW n \in Nat
  PROVE  /\ Resized(recs, n) \in Seq(Records)
         /\ Len(Resized(recs, n)) = n
         /\ \A i \in 1..n :
               Resized(recs, n)[i] = IF i <= Len(recs) THEN recs[i] ELSE NewRecord
  <1>1. \A i \in 1..n : (IF i <= Len(recs) THEN recs[i] ELSE NewRecord) \in Records
    BY RecordTypes
  <1> QED BY <1>1 DEF Resized

(* The records SetDataPtrOnRecord leaves. *)
LEMMA DataPtrRecords ==
  ASSUME NEW recs \in Seq(Records), NEW n \in 1..Len(recs), NEW p \in Buffers \cup {Null}
  PROVE  /\ DataPtrSet(recs, n, p) \in Seq(Records)
         /\ Len(DataPtrSet(recs, n, p)) = Len(recs)
         /\ \A i \in 1..Len(recs) : DataPtrSet(recs, n, p)[i] =
               IF i = n THEN RecordFor(p) ELSE recs[i]
  <1> DEFINE r == RecordFor(p)
  <1>1. r \in Records
    BY RecordTypes
  <1> HIDE DEF r
  <1>2. /\ [recs EXCEPT ![n] = r] \in Seq(Records)
        /\ Len([recs EXCEPT ![n] = r]) = Len(recs)
        /\ \A i \in 1..Len(recs) : [recs EXCEPT ![n] = r][i] = IF i = n THEN r ELSE recs[i]
    BY <1>1
  <1> QED BY <1>2 DEF DataPtrSet, RecordFor, r

(* ... and those a describing field leaves. *)
LEMMA UnboundRecords ==
  ASSUME NEW recs \in Seq(Records), NEW n \in 1..Len(recs)
  PROVE  /\ [recs EXCEPT ![n].m_isBound = FALSE] \in Seq(Records)
         /\ Len([recs EXCEPT ![n].m_isBound = FALSE]) = Len(recs)
         /\ \A i \in 1..Len(recs) : [recs EXCEPT ![n].m_isBound = FALSE][i] =
               IF i = n THEN [recs[n] EXCEPT !.m_isBound = FALSE] ELSE recs[i]
  <1> DEFINE r == [recs[n] EXCEPT !.m_isBound = FALSE]
  <1>1. r \in Records
    BY RecordTypes
  <1> HIDE DEF r
  <1>2. /\ [recs EXCEPT ![n] = r] \in Seq(Records)
        /\ Len([recs EXCEPT ![n] = r]) = Len(recs)
        /\ \A i \in 1..Len(recs) : [recs EXCEPT ![n] = r][i] = IF i = n THEN r ELSE recs[i]
    BY <1>1
  <1> QED BY <1>2 DEF r

(* What every call through SetDataPtrOnRecord has in common: the records it
   starts from are those of d with more unbound records behind them, or with
   the record to be set unbound. *)
Starts(d, recs, n) ==
    /\ recs \in Seq(Records) /\ n \in 1..Len(recs) /\ Len(recs) <= MaxRecords
    /\ Len(m_records[d]) <= Len(recs)
    /\ \A i \in 1..Len(recs) : i # n =>
          IF i <= Len(m_records[d]) THEN recs[i] = m_records[d][i] ELSE recs[i] = NewRecord

(* A descriptor has typed records, no more of them than there may be. *)
LEMMA RecordsOf ==
  ASSUME TypeOK, NEW d \in Descs
  PROVE  m_records[d] \in Seq(Records) /\ Len(m_records[d]) <= MaxRecords /\ m_highest[d] \in Nat
  BY DEF TypeOK, DescriptorTypes

LEMMA BindColSets ==
  ASSUME TypeOK, NEW n \in Numbers, NEW p \in Buffers \cup {Null}, BindCol(n, p)
  PROVE  \E recs \in Seq(Records) :
            Starts("ard", recs, n) /\ SetDataPtrOnRecord("BindCol", "ard", recs, n, p)
  <1> DEFINE old == m_records["ard"]
             recs == IF Len(old) < n THEN Resized(old, n) ELSE old
  <1>1. "ard" \in Descs /\ n \in 1..MaxRecords /\ MaxRecords \in Nat
    BY DescriptorAssumption DEF Descs, AppDescs, Numbers
  <1>2. old \in Seq(Records) /\ Len(old) <= MaxRecords
    BY <1>1, RecordsOf
  <1>3. SetDataPtrOnRecord("BindCol", "ard", recs, n, p)
    BY DEF BindCol
  <1>4. CASE Len(old) < n
    <2>n. n \in Nat
      BY <1>1
    <2> HIDE DEF old
    <2>0. Resized(old, n) \in Seq(Records) /\ Len(Resized(old, n)) = n
          /\ \A i \in 1..n : Resized(old, n)[i] = IF i <= Len(old) THEN old[i] ELSE NewRecord
      BY <2>n, <1>2, ResizedRecords
    <2>1. Starts("ard", Resized(old, n), n)
      BY <1>1, <1>2, <1>4, <2>0 DEF Starts, old
    <2> QED BY <2>0, <2>1, <1>3, <1>4
  <1>5. CASE ~(Len(old) < n)
    <2>1. Starts("ard", old, n)
      BY <1>1, <1>2, <1>5 DEF Starts
    <2> QED BY <2>1, <1>2, <1>3, <1>5
  <1> QED BY <1>4, <1>5

LEMMA SetDataPtrSets ==
  ASSUME TypeOK, NEW d \in Descs, NEW n \in Numbers, NEW p \in Buffers \cup {Null},
         SetDataPtr(d, n, p)
  PROVE  \/ Refused("SetField")
         \/ d \in AppDescs /\ \E recs \in Seq(Records) :
               Starts(d, recs, n) /\ SetDataPtrOnRecord("SetField", d, recs, n, p)
  <1>1. CASE d = "ird" \/ n > Len(m_records[d])
    BY <1>1 DEF SetDataPtr
  <1>2. CASE ~(d = "ird" \/ n > Len(m_records[d]))
    <2>0. SetDataPtrOnRecord("SetField", d, m_records[d], n, p)
      BY <1>2 DEF SetDataPtr
    <2>1. d \in AppDescs /\ SetDataPtrOnRecord("SetField", d, m_records[d], n, p)
      BY <1>2, <2>0 DEF Descs
    <2>2. n \in 1..MaxRecords /\ MaxRecords \in Nat
      BY DescriptorAssumption DEF Numbers
    <2>3. m_records[d] \in Seq(Records) /\ Starts(d, m_records[d], n)
      BY <1>2, <2>2, RecordsOf DEF Starts
    <2> QED BY <2>1, <2>3
  <1> QED BY <1>1, <1>2

LEMMA SetDescRecSets ==
  ASSUME TypeOK, NEW d \in Descs, NEW n \in Numbers, NEW p \in Buffers \cup {Null},
         SetDescRec(d, n, p)
  PROVE  \/ Refused("SetDescRec")
         \/ d \in AppDescs /\ \E recs \in Seq(Records) :
               Starts(d, recs, n) /\ SetDataPtrOnRecord("SetDescRec", d, recs, n, p)
  <1>1. CASE d = "ird" \/ n > Len(m_records[d])
    BY <1>1 DEF SetDescRec
  <1>2. CASE ~(d = "ird" \/ n > Len(m_records[d]))
    <2> DEFINE recs == [m_records[d] EXCEPT ![n].m_isBound = FALSE]
    <2>1. d \in AppDescs /\ SetDataPtrOnRecord("SetDescRec", d, recs, n, p)
      BY <1>2 DEF SetDescRec, Descs
    <2>2. n \in 1..MaxRecords /\ MaxRecords \in Nat
      BY DescriptorAssumption DEF Numbers
    <2>3. m_records[d] \in Seq(Records) /\ n \in 1..Len(m_records[d])
          /\ Len(m_records[d]) <= MaxRecords
      BY <1>2, <2>2, RecordsOf
    <2>4. recs \in Seq(Records) /\ Len(recs) = Len(m_records[d])
          /\ \A i \in 1..Len(recs) : i # n => recs[i] = m_records[d][i]
      BY <2>3, UnboundRecords
    <2> HIDE DEF recs
    <2>5. Starts(d, recs, n)
      BY <2>3, <2>4 DEF Starts
    <2> QED BY <2>1, <2>4, <2>5
  <1> QED BY <1>1, <1>2

(* The effect of such a call. *)
LEMMA Setting ==
  ASSUME TypeOK, NEW name \in Calls, NEW d \in AppDescs, NEW recs \in Seq(Records),
         NEW n \in Numbers, NEW p \in Buffers \cup {Null},
         Starts(d, recs, n), SetDataPtrOnRecord(name, d, recs, n, p)
  PROVE  \E new \in Seq(Records) :
           /\ Len(new) = Len(recs) /\ Len(new) <= MaxRecords
           /\ \A i \in 1..Len(new) : new[i] =
                 IF i = n THEN RecordFor(p) ELSE recs[i]
           /\ m_records' = [m_records EXCEPT ![d] = new]
           /\ m_highest' = [m_highest EXCEPT ![d] = HighestAfter(d, new, n, p)]
           /\ HighestAfter(d, new, n, p) \in Nat
  <1> DEFINE new == DataPtrSet(recs, n, p)
  <1>1. /\ new \in Seq(Records) /\ Len(new) = Len(recs) /\ Len(new) <= MaxRecords
        /\ \A i \in 1..Len(new) : new[i] =
                 IF i = n THEN RecordFor(p) ELSE recs[i]
    BY DataPtrRecords DEF Starts
  <1>2. /\ m_records' = [m_records EXCEPT ![d] = new]
        /\ m_highest' = [m_highest EXCEPT ![d] = HighestAfter(d, new, n, p)]
    BY DEF SetDataPtrOnRecord
  <1> HIDE DEF new
  <1>3. d \in Descs /\ n \in Nat /\ m_highest[d] \in Nat
    BY RecordsOf, DescriptorAssumption DEF Descs, Numbers
  <1>4. CalculateHighestBoundRecord(new) \in Nat
    <2>1. CalculateHighestBoundRecord(new) \in 0..Len(new) /\ Len(new) \in Nat
      BY <1>1, HighestBound
    <2> QED BY <2>1
  <1>5. HighestAfter(d, new, n, p) \in Nat
    BY <1>3, <1>4 DEF HighestAfter
  <1> QED BY <1>1, <1>2, <1>5

-----------------------------------------------------------------------------
(* The other calls that change records: the effect of each. *)
LEMMA Describing ==
  ASSUME TypeOK, NEW d \in Descs, NEW n \in Numbers, SetDescribingField(d, n)
  PROVE  \/ Refused("SetField")
         \/ /\ d \in AppDescs
            /\ n <= Len(m_records[d])
            /\ m_records' = [m_records EXCEPT ![d][n].m_isBound = FALSE]
            /\ Call("SetField", "SUCCESS", n) /\ Noticed(d) /\ Want(d, n, Null)
            /\ UNCHANGED <<m_highest, bound_, written, copied>>
  <1>1. CASE d = "ird" \/ n > Len(m_records[d])
    BY <1>1 DEF SetDescribingField
  <1>2. CASE ~(d = "ird" \/ n > Len(m_records[d]))
    <2>1. d \in AppDescs
      BY <1>2 DEF Descs
    <2>2. Len(m_records[d]) \in Nat /\ n \in Nat
      BY RecordsOf, DescriptorAssumption DEF Numbers
    <2>3. n <= Len(m_records[d])
      BY <1>2, <2>2
    <2> QED BY <1>2, <2>1, <2>3 DEF SetDescribingField
  <1> QED BY <1>1, <1>2

LEMMA Counting ==
  ASSUME TypeOK, NEW d \in Descs, NEW count \in 0..MaxRecords, SetCount(d, count)
  PROVE  \/ Refused("SetField")
         \/ \E new \in Seq(Records) :
               /\ d \in AppDescs
               /\ new = Resized(m_records[d], count) /\ Len(new) = count
               /\ \A i \in 1..count : new[i] =
                     IF i <= Len(m_records[d]) THEN m_records[d][i] ELSE NewRecord
               /\ m_records' = [m_records EXCEPT ![d] = new]
               /\ m_highest' = [m_highest EXCEPT ![d] =
                     IF count <= m_highest[d] THEN CalculateHighestBoundRecord(new) ELSE count]
               /\ CalculateHighestBoundRecord(new) \in Nat
               /\ Call("SetCount", "SUCCESS", count) /\ Noticed(d)
               /\ wanted' = IF d # "ard" THEN wanted
                      ELSE [n \in Numbers |-> IF n <= count THEN wanted[n] ELSE Null]
               /\ UNCHANGED <<bound_, written, copied>>
  <1>1. CASE d = "ird"
    BY <1>1 DEF SetCount
  <1>2. CASE d # "ird"
    <2> DEFINE new == Resized(m_records[d], count)
    <2>1. count \in Nat /\ m_records[d] \in Seq(Records)
      BY RecordsOf, DescriptorAssumption
    <2>2. new \in Seq(Records) /\ Len(new) = count
          /\ \A i \in 1..count : new[i] =
                IF i <= Len(m_records[d]) THEN m_records[d][i] ELSE NewRecord
      BY <2>1, ResizedRecords
    <2>3. CalculateHighestBoundRecord(new) \in 0..Len(new)
      BY <2>2, HighestBound
    <2>4. CalculateHighestBoundRecord(new) \in Nat
      BY <2>1, <2>2, <2>3
    <2>5. d \in AppDescs
      BY <1>2 DEF Descs
    <2>6. /\ m_records' = [m_records EXCEPT ![d] = new]
          /\ m_highest' = [m_highest EXCEPT ![d] =
                IF count <= m_highest[d] THEN CalculateHighestBoundRecord(new) ELSE count]
          /\ Call("SetCount", "SUCCESS", count) /\ Noticed(d)
          /\ wanted' = IF d # "ard" THEN wanted
                 ELSE [n \in Numbers |-> IF n <= count THEN wanted[n] ELSE Null]
          /\ UNCHANGED <<bound_, written, copied>>
      BY <1>2 DEF SetCount
    <2> HIDE DEF new
    <2>7. new = Resized(m_records[d], count)
      BY DEF new
    <2> QED BY <2>2, <2>4, <2>5, <2>6, <2>7
  <1> QED BY <1>1, <1>2

(* A call, its name, its return code and what it returns are typed. *)
LEMMA CallTypes ==
  ASSUME TypeOK, NEW name \in Calls, NEW rc \in {"SUCCESS", "ERROR"}, NEW v \in Nat,
         Call(name, rc, v)
  PROVE  last' \in [call : Calls, rc : {"SUCCESS", "ERROR"}, value : Nat] /\ calls' \in Nat
  BY DEF Call, TypeOK, FetchTypes

LEMMA RefusedTypes ==
  ASSUME TypeOK, NEW name \in Calls, Refused(name)
  PROVE  TypeOK'
  <1>1. last' \in [call : Calls, rc : {"SUCCESS", "ERROR"}, value : Nat] /\ calls' \in Nat
    BY CallTypes DEF Refused
  <1>2. DescriptorTypes'
    BY DEF Refused, TypeOK, DescriptorTypes
  <1>3. FetchTypes'
    BY <1>1 DEF Refused, TypeOK, FetchTypes
  <1>4. FlagTypes'
    BY DEF Refused, TypeOK, FlagTypes
  <1> QED BY <1>2, <1>3, <1>4 DEF TypeOK

LEMMA WantTypes ==
  ASSUME TypeOK, NEW d \in Descs, NEW n \in Numbers, NEW p \in Buffers \cup {Null},
         Want(d, n, p)
  PROVE  wanted' \in [Numbers -> Buffers \cup {Null}]
  BY DEF Want, TypeOK, DescriptorTypes

LEMMA NoticedTypes == ASSUME TypeOK, NEW d \in Descs, Noticed(d) PROVE FlagTypes'
  BY Zenon DEF Noticed, FlagTypes

LEMMA TypeInit == Init => TypeOK
  <1>1. Init => DescriptorTypes
    BY DescriptorAssumption DEF Init, DescriptorTypes, Unbound, Numbers
  <1>2. Init => FetchTypes
    BY DescriptorAssumption DEF Init, FetchTypes, Unbound, Numbers, Calls
  <1>3. Init => FlagTypes
    BY DEF Init, FlagTypes
  <1> QED BY <1>1, <1>2, <1>3 DEF TypeOK

LEMMA TypeStep == TypeOK /\ [Next]_vars => TypeOK'
  <1> SUFFICES ASSUME TypeOK, [Next]_vars PROVE TypeOK'
    OBVIOUS
  <1>a. \A d \in AppDescs : d \in Descs
    BY DEF Descs
  <1>n. \A n \in Numbers : n \in Nat
    BY DescriptorAssumption DEF Numbers
  <1>c. \A d \in Descs, new \in Seq(Records), h \in Nat :
          /\ m_records' = [m_records EXCEPT ![d] = new] /\ Len(new) <= MaxRecords
          /\ m_highest' = [m_highest EXCEPT ![d] = h] \/ UNCHANGED m_highest
          /\ copied' \subseteq Descs /\ wanted' \in [Numbers -> Buffers \cup {Null}]
          => DescriptorTypes'
    BY DEF TypeOK, DescriptorTypes
  <1>1. ASSUME NEW name \in Calls, NEW d \in AppDescs, NEW recs \in Seq(Records),
               NEW n \in Numbers, NEW p \in Buffers \cup {Null},
               Starts(d, recs, n), SetDataPtrOnRecord(name, d, recs, n, p)
        PROVE  TypeOK'
    <2>1. /\ Call(name, "SUCCESS", n) /\ Noticed(d) /\ Want(d, n, p)
          /\ UNCHANGED <<bound_, written, copied>>
      BY <1>1 DEF SetDataPtrOnRecord
    <2>2. DescriptorTypes'
      <3>1. copied' \subseteq Descs /\ wanted' \in [Numbers -> Buffers \cup {Null}]
        BY <2>1, <1>a, WantTypes DEF TypeOK, DescriptorTypes
      <3> QED BY <3>1, <1>1, <1>a, <1>c, Setting
    <2>3. FetchTypes'
      BY <2>1, <1>n, CallTypes DEF TypeOK, FetchTypes
    <2> QED BY <2>1, <2>2, <2>3, <1>a, NoticedTypes DEF TypeOK
  <1>2. ASSUME NEW n \in Numbers, NEW p \in Buffers \cup {Null}, NEW d \in Descs,
               BindCol(n, p) \/ SetDataPtr(d, n, p) \/ SetDescRec(d, n, p)
        PROVE  TypeOK'
    <2>1. {"BindCol", "SetField", "SetDescRec"} \subseteq Calls /\ "ard" \in AppDescs
      BY DEF Calls, AppDescs
    <2>2. CASE BindCol(n, p)
      BY <2>1, <2>2, <1>1, BindColSets
    <2>3. CASE SetDataPtr(d, n, p)
      BY <2>1, <2>3, <1>1, SetDataPtrSets, RefusedTypes
    <2>4. CASE SetDescRec(d, n, p)
      BY <2>1, <2>4, <1>1, SetDescRecSets, RefusedTypes
    <2> QED BY <1>2, <2>2, <2>3, <2>4
  <1>3. ASSUME NEW d \in Descs, NEW n \in Numbers, SetDescribingField(d, n)
        PROVE  TypeOK'
    <2>0. "SetField" \in Calls /\ Null \in Buffers \cup {Null}
      BY DEF Calls
    <2> DEFINE new == [m_records[d] EXCEPT ![n].m_isBound = FALSE]
    <2>1. CASE /\ n <= Len(m_records[d])
               /\ m_records' = [m_records EXCEPT ![d] = new]
               /\ Call("SetField", "SUCCESS", n) /\ Noticed(d) /\ Want(d, n, Null)
               /\ UNCHANGED <<m_highest, bound_, written, copied>>
      <3>1. new \in Seq(Records) /\ Len(new) <= MaxRecords
        <4>1. n \in 1..Len(m_records[d])
          BY <2>1, RecordsOf, DescriptorAssumption DEF Numbers
        <4> QED BY <4>1, RecordsOf, UnboundRecords
      <3> HIDE DEF new
      <3>2. DescriptorTypes'
        <4>1. copied' \subseteq Descs /\ wanted' \in [Numbers -> Buffers \cup {Null}]
          BY <2>0, <2>1, WantTypes DEF TypeOK, DescriptorTypes
        <4> QED BY <4>1, <3>1, <2>1 DEF TypeOK, DescriptorTypes
      <3>3. FetchTypes'
        BY <2>0, <2>1, <1>n, CallTypes DEF TypeOK, FetchTypes
      <3> QED BY <3>2, <3>3, <2>1, NoticedTypes DEF TypeOK
    <2> QED BY <1>3, <2>0, <2>1, Describing, RefusedTypes
  <1>4. ASSUME NEW d \in Descs, NEW count \in 0..MaxRecords, SetCount(d, count)
        PROVE  TypeOK'
    <2>0. {"SetField", "SetCount"} \subseteq Calls /\ count \in Nat /\ count <= MaxRecords
      BY DescriptorAssumption DEF Calls
    <2>1. ASSUME NEW new \in Seq(Records), Len(new) = count,
                 m_records' = [m_records EXCEPT ![d] = new],
                 m_highest' = [m_highest EXCEPT ![d] =
                     IF count <= m_highest[d] THEN CalculateHighestBoundRecord(new) ELSE count],
                 CalculateHighestBoundRecord(new) \in Nat,
                 Call("SetCount", "SUCCESS", count), Noticed(d),
                 wanted' = IF d # "ard" THEN wanted
                      ELSE [n \in Numbers |-> IF n <= count THEN wanted[n] ELSE Null],
                 UNCHANGED <<bound_, written, copied>>
          PROVE  TypeOK'
      <3>1. copied' \subseteq Descs /\ wanted' \in [Numbers -> Buffers \cup {Null}]
        BY <2>1 DEF TypeOK, DescriptorTypes
      <3>2. DescriptorTypes'
        BY <3>1, <2>1, <2>0 DEF TypeOK, DescriptorTypes
      <3>3. FetchTypes'
        BY <2>0, <2>1, CallTypes DEF TypeOK, FetchTypes
      <3> QED BY <3>2, <3>3, <2>1, NoticedTypes DEF TypeOK
    <2>2. CASE Refused("SetField")
      BY <2>0, <2>2, RefusedTypes
    <2>3. CASE ~Refused("SetField")
      <3>1. PICK new \in Seq(Records) :
               /\ new = Resized(m_records[d], count) /\ Len(new) = count
               /\ m_records' = [m_records EXCEPT ![d] = new]
               /\ m_highest' = [m_highest EXCEPT ![d] =
                     IF count <= m_highest[d] THEN CalculateHighestBoundRecord(new) ELSE count]
               /\ CalculateHighestBoundRecord(new) \in Nat
               /\ Call("SetCount", "SUCCESS", count) /\ Noticed(d)
               /\ wanted' = IF d # "ard" THEN wanted
                      ELSE [n \in Numbers |-> IF n <= count THEN wanted[n] ELSE Null]
               /\ UNCHANGED <<bound_, written, copied>>
        BY <1>4, <2>3, Counting
      <3> QED BY <3>1, <2>1
    <2> QED BY <2>2, <2>3
  <1>5. ASSUME NEW src \in Descs, NEW dst \in Descs, CopyDesc(src, dst) PROVE TypeOK'
    <2>0. "CopyDesc" \in Calls /\ 0 \in Nat
      BY DEF Calls
    <2>1. m_records[src] \in Seq(Records) /\ Len(m_records[src]) <= MaxRecords
      BY RecordsOf
    <2>2. \A i \in 1..Len(m_records[src]) : m_records[src][i].m_dataPtr \in Buffers \cup {Null}
      <3>1. \A i \in 1..Len(m_records[src]) : m_records[src][i] \in Records
        BY <2>1
      <3> QED BY <3>1, RecordTypes
    <2>3. \A n \in Numbers : n <= Len(m_records[src]) =>
             m_records[src][n].m_dataPtr \in Buffers \cup {Null}
      <3> SUFFICES ASSUME NEW n \in Numbers, n <= Len(m_records[src])
                   PROVE  m_records[src][n].m_dataPtr \in Buffers \cup {Null}
        OBVIOUS
      <3>1. n \in 1..Len(m_records[src])
        BY <2>1, DescriptorAssumption DEF Numbers
      <3> QED BY <3>1, <2>2
    <2>4. wanted' \in [Numbers -> Buffers \cup {Null}]
      <3>1. CASE dst # "ard"
        BY <1>5, <3>1 DEF CopyDesc, TypeOK, DescriptorTypes
      <3>2. CASE dst = "ard"
        <4> DEFINE want(n) == IF n <= Len(m_records[src]) /\ m_records[src][n].m_isBound
                              THEN m_records[src][n].m_dataPtr ELSE Null
        <4>1. \A n \in Numbers : want(n) \in Buffers \cup {Null}
          BY <2>3
        <4>2. wanted' = [n \in Numbers |-> want(n)]
          BY <1>5, <3>2 DEF CopyDesc
        <4> HIDE DEF want
        <4> QED BY <4>1, <4>2
      <3> QED BY <3>1, <3>2
    <2>5. DescriptorTypes'
      BY <1>5, <2>1, <2>4 DEF CopyDesc, TypeOK, DescriptorTypes
    <2>6. FetchTypes'
      BY <1>5, <2>0, CallTypes DEF CopyDesc, TypeOK, FetchTypes
    <2>7. Noticed(dst)
      BY <1>5 DEF CopyDesc
    <2> QED BY <2>5, <2>6, <2>7, NoticedTypes DEF TypeOK
  <1>6. ASSUME NEW columns \in Numbers, Execute(columns) PROVE TypeOK'
    <2>0. "Execute" \in Calls /\ {"ird", "ard"} \subseteq Descs
      BY DEF Calls, Descs, AppDescs
    <2>1. columns \in Nat /\ columns <= MaxRecords
      BY DescriptorAssumption DEF Numbers
    <2> DEFINE new == [i \in 1..columns |-> NewRecord]
    <2>2. new \in Seq(Records) /\ Len(new) = columns
      BY <2>1, RecordTypes
    <2>3. m_records' = [m_records EXCEPT !["ird"] = new]
      BY <1>6 DEF Execute
    <2> HIDE DEF new
    <2>4. DescriptorTypes'
      BY <1>6, <2>0, <2>1, <2>2, <2>3 DEF Execute, TypeOK, DescriptorTypes
    <2>5. bound_' \in Seq(Buffers \cup {Null}) /\ Len(bound_') <= MaxRecords
      BY <1>6, <2>1 DEF Execute
    <2>6. FetchTypes'
      BY <1>6, <2>0, <2>1, <2>5, CallTypes DEF Execute, TypeOK, FetchTypes
    <2>7. Noticed("ard")
      BY <1>6 DEF Execute
    <2> QED BY <2>0, <2>4, <2>6, <2>7, NoticedTypes DEF TypeOK
  <1>7. CASE Unbind
    <2>0. "Unbind" \in Calls /\ 0 \in Nat /\ <<>> \in Seq(Records) /\ Len(<<>>) = 0
      BY DEF Calls
    <2> DEFINE new == <<>>
    <2>e. new \in Seq(Records) /\ Len(new) <= MaxRecords /\ "ard" \in Descs
      BY DescriptorAssumption DEF Descs, AppDescs
    <2>w. wanted' \in [Numbers -> Buffers \cup {Null}]
      BY <1>7 DEF Unbind, Unbound
    <2>u. m_records' = [m_records EXCEPT !["ard"] = new] /\ UNCHANGED <<m_highest, copied>>
      BY <1>7 DEF Unbind
    <2> HIDE DEF new
    <2>1. DescriptorTypes'
      BY <2>e, <2>w, <2>u DEF TypeOK, DescriptorTypes
    <2>2. FetchTypes'
      BY <1>7, <2>0, CallTypes DEF Unbind, TypeOK, FetchTypes
    <2>3. FlagTypes'
      BY <1>7 DEF Unbind, TypeOK, FlagTypes
    <2> QED BY <2>1, <2>2, <2>3 DEF TypeOK
  <1>8. CASE Fetch
    <2>0. "Fetch" \in Calls /\ 0 \in Nat /\ "ard" \in Descs
      BY DEF Calls, Descs, AppDescs
    <2> DEFINE now == IF m_hasBindingsChanged THEN HandOver ELSE bound_
    <2>1. now \in Seq(Buffers \cup {Null}) /\ Len(now) = Len(bound_)
      <3>1. bound_ \in Seq(Buffers \cup {Null})
        BY DEF TypeOK, FetchTypes
      <3>2. \A i \in 1..Len(m_records["ard"]) :
                m_records["ard"][i].m_dataPtr \in Buffers \cup {Null}
        <4>1. m_records["ard"] \in Seq(Records)
          BY <2>0, RecordsOf
        <4>2. \A i \in 1..Len(m_records["ard"]) : m_records["ard"][i] \in Records
          BY <4>1
        <4> QED BY <4>2, RecordTypes
      <3> DEFINE hand(i) == IF i > Len(m_records["ird"]) THEN bound_[i]
                            ELSE IF i <= Len(m_records["ard"]) /\ m_records["ard"][i].m_isBound
                            THEN m_records["ard"][i].m_dataPtr ELSE Null
      <3>3. \A i \in 1..Len(bound_) : hand(i) \in Buffers \cup {Null}
        <4>1. "ard" \in Descs /\ m_records["ard"] \in Seq(Records)
          BY <2>0, RecordsOf
        <4> SUFFICES ASSUME NEW i \in 1..Len(bound_) PROVE hand(i) \in Buffers \cup {Null}
          OBVIOUS
        <4>2. i <= Len(m_records["ard"]) => m_records["ard"][i].m_dataPtr \in Buffers \cup {Null}
          BY <4>1, <3>1, <3>2
        <4>3. bound_[i] \in Buffers \cup {Null}
          BY <3>1
        <4> QED BY <4>2, <4>3
      <3>4. HandOver = [i \in 1..Len(bound_) |-> hand(i)]
        BY <3>1 DEF HandOver
      <3> HIDE DEF hand
      <3>5. HandOver \in Seq(Buffers \cup {Null}) /\ Len(HandOver) = Len(bound_)
        BY <3>1, <3>3, <3>4
      <3> QED BY <3>1, <3>5
    <2>2. /\ bound_' = now /\ m_hasBindingsChanged' = FALSE
          /\ written' = [n \in Numbers |-> IF n \in DOMAIN now THEN now[n] ELSE Null]
          /\ Call("Fetch", "SUCCESS", 0)
          /\ UNCHANGED <<m_records, m_highest, wanted, copied, unnoticed>>
      BY <1>8 DEF Fetch
    <2> HIDE DEF now
    <2>3. written' \in [Numbers -> Buffers \cup {Null}]
      BY <2>1, <2>2
    <2>4. DescriptorTypes'
      BY <2>2 DEF TypeOK, DescriptorTypes
    <2>5. FetchTypes'
      BY <2>0, <2>1, <2>2, <2>3, CallTypes DEF TypeOK, FetchTypes
    <2>6. FlagTypes'
      BY <2>2 DEF TypeOK, FlagTypes
    <2> QED BY <2>4, <2>5, <2>6 DEF TypeOK
  <1>9. CASE NumResultCols \/ \E d \in Descs : GetCount(d)
    <2>0. {"NumResultCols", "GetCount"} \subseteq Calls /\ "ird" \in Descs
      BY DEF Calls, Descs
    <2>1. /\ UNCHANGED <<m_records, m_highest, m_hasBindingsChanged, bound_, written,
                         wanted, copied, unnoticed>>
          /\ \E name \in Calls, v \in Nat : Call(name, "SUCCESS", v)
      <3>1. CASE NumResultCols
        <4>1. Len(m_records["ird"]) \in Nat
          BY <2>0, RecordsOf
        <4> QED BY <4>1, <3>1, <2>0 DEF NumResultCols
      <3>2. ASSUME NEW d \in Descs, GetCount(d)
            PROVE  /\ UNCHANGED <<m_records, m_highest, m_hasBindingsChanged, bound_, written,
                                  wanted, copied, unnoticed>>
                   /\ \E name \in Calls, v \in Nat : Call(name, "SUCCESS", v)
        <4>1. m_highest[d] \in Nat
          BY RecordsOf
        <4> QED BY <4>1, <3>2, <2>0 DEF GetCount
      <3> QED BY <1>9, <3>1, <3>2
    <2>2. DescriptorTypes'
      BY <2>1 DEF TypeOK, DescriptorTypes
    <2>3. FetchTypes'
      BY <2>1, CallTypes DEF TypeOK, FetchTypes
    <2>4. FlagTypes'
      BY <2>1 DEF TypeOK, FlagTypes
    <2> QED BY <2>2, <2>3, <2>4 DEF TypeOK
  <1>10. CASE UNCHANGED vars
    BY <1>10 DEF vars, TypeOK, DescriptorTypes, FetchTypes, FlagTypes
  <1>11. "ard" \in Descs
    BY DEF Descs, AppDescs
  <1> QED BY <1>2, <1>3, <1>4, <1>5, <1>6, <1>7, <1>8, <1>9, <1>10, <1>11 DEF Next

(* Every variable keeps its type; no descriptor gets more records than there
   are columns to bind. *)
THEOREM Typing == Spec => []TypeOK
  BY TypeInit, TypeStep, PTL DEF Spec
-----------------------------------------------------------------------------
(* The calls by their effect on the records: a step sets a pointer, unbinds a
   record, changes the count, is one of CopyDesc, Unbind, Execute and Fetch, or
   leaves everything but `last` and `calls` as it was. *)
Sets ==
    \E name \in Calls \ {"Fetch"}, d \in AppDescs, recs \in Seq(Records),
       n \in Numbers, p \in Buffers \cup {Null} :
       Starts(d, recs, n) /\ SetDataPtrOnRecord(name, d, recs, n, p)
Describes ==
    \E d \in AppDescs, n \in Numbers :
       /\ n <= Len(m_records[d])
       /\ m_records' = [m_records EXCEPT ![d][n].m_isBound = FALSE]
       /\ Call("SetField", "SUCCESS", n) /\ Noticed(d) /\ Want(d, n, Null)
       /\ UNCHANGED <<m_highest, bound_, written, copied>>
Counts ==
    \E d \in AppDescs, count \in 0..MaxRecords : SetCount(d, count)
Leaves ==
    /\ UNCHANGED <<m_records, m_highest, m_hasBindingsChanged, bound_, written,
                   wanted, copied, unnoticed>>
    /\ last'.call # "Fetch" \/ UNCHANGED last

LEMMA Effects ==
  ASSUME TypeOK, [Next]_vars
  PROVE  \/ Sets \/ Describes \/ Counts \/ Leaves
         \/ \E src, dst \in Descs : CopyDesc(src, dst)
         \/ \E columns \in Numbers : Execute(columns)
         \/ Unbind \/ Fetch
  <1>1. ASSUME NEW name \in {"SetField", "SetDescRec"}, Refused(name) PROVE Leaves
    BY <1>1 DEF Refused, Call, Leaves
  <1>2. {"BindCol", "SetField", "SetDescRec"} \subseteq Calls \ {"Fetch"} /\ "ard" \in AppDescs
    BY DEF Calls, AppDescs
  <1>3. ASSUME NEW n \in Numbers, NEW p \in Buffers \cup {Null}, BindCol(n, p) PROVE Sets
    BY <1>2, <1>3, BindColSets DEF Sets
  <1>4. ASSUME NEW d \in Descs, NEW n \in Numbers, NEW p \in Buffers \cup {Null},
               SetDataPtr(d, n, p)
        PROVE  Sets \/ Leaves
    BY <1>1, <1>2, <1>4, SetDataPtrSets DEF Sets
  <1>5. ASSUME NEW d \in Descs, NEW n \in Numbers, NEW p \in Buffers \cup {Null},
               SetDescRec(d, n, p)
        PROVE  Sets \/ Leaves
    BY <1>1, <1>2, <1>5, SetDescRecSets DEF Sets
  <1>6. ASSUME NEW d \in Descs, NEW n \in Numbers, SetDescribingField(d, n)
        PROVE  Describes \/ Leaves
    BY <1>1, <1>6, Describing DEF Describes
  <1>7. ASSUME NEW d \in Descs, NEW count \in 0..MaxRecords, SetCount(d, count)
        PROVE  Counts \/ Leaves
    <2>1. CASE d = "ird"
      BY <2>1, <1>1, <1>7 DEF SetCount
    <2>2. CASE d # "ird"
      BY <2>2, <1>7 DEF Counts, Descs
    <2> QED BY <2>1, <2>2
  <1>8. ASSUME NumResultCols \/ \E d \in Descs : GetCount(d) PROVE Leaves
    BY <1>8 DEF NumResultCols, GetCount, Call, Leaves
  <1>9. ASSUME UNCHANGED vars PROVE Leaves
    BY <1>9 DEF vars, Leaves
  <1> QED BY <1>3, <1>4, <1>5, <1>6, <1>7, <1>8, <1>9 DEF Next

(* The records after each effect, record by record. *)
LEMMA RecordsAfter ==
  ASSUME TypeOK, TypeOK', NEW d \in Descs
  PROVE  /\ m_records[d] \in Seq(Records) /\ Len(m_records[d]) \in Nat
         /\ m_records'[d] \in Seq(Records) /\ Len(m_records'[d]) \in Nat
         /\ Len(m_records[d]) <= MaxRecords /\ Len(m_records'[d]) <= MaxRecords
         /\ m_highest[d] \in Nat /\ m_highest'[d] \in Nat
  BY DEF TypeOK, DescriptorTypes

LEMMA Described ==
  ASSUME TypeOK, NEW d \in AppDescs, NEW n \in Numbers, n <= Len(m_records[d]),
         m_records' = [m_records EXCEPT ![d][n].m_isBound = FALSE]
  PROVE  /\ \A e \in Descs : Len(m_records'[e]) = Len(m_records[e])
         /\ \A e \in Descs \ {d} : m_records'[e] = m_records[e]
         /\ \A i \in 1..Len(m_records[d]) \ {n} : m_records'[d][i] = m_records[d][i]
         /\ m_records'[d][n].m_isBound = FALSE
  <1> DEFINE new == [m_records[d] EXCEPT ![n].m_isBound = FALSE]
  <1>1. d \in Descs /\ m_records[d] \in Seq(Records) /\ n \in 1..Len(m_records[d])
    <2>1. d \in Descs
      BY DEF Descs
    <2> QED BY <2>1, RecordsOf, DescriptorAssumption DEF Numbers
  <1>2. /\ Len(new) = Len(m_records[d])
        /\ \A i \in 1..Len(m_records[d]) : new[i] =
              IF i = n THEN [m_records[d][n] EXCEPT !.m_isBound = FALSE] ELSE m_records[d][i]
    BY <1>1, UnboundRecords
  <1>3. [m_records[d][n] EXCEPT !.m_isBound = FALSE].m_isBound = FALSE
    <2>1. m_records[d][n] \in Records
      BY <1>1
    <2> QED BY <2>1 DEF Records
  <1>4. m_records' = [m_records EXCEPT ![d] = new] /\ m_records \in [Descs -> Seq(Records)]
    BY DEF TypeOK, DescriptorTypes
  <1> HIDE DEF new
  <1>5. m_records'[d] = new /\ \A e \in Descs \ {d} : m_records'[e] = m_records[e]
    BY <1>1, <1>4
  <1>6. new[n].m_isBound = FALSE
    BY <1>1, <1>2, <1>3
  <1> QED BY <1>1, <1>2, <1>5, <1>6

LEMMA Counted ==
  ASSUME TypeOK, NEW d \in AppDescs, NEW count \in 0..MaxRecords, SetCount(d, count)
  PROVE  /\ Len(m_records'[d]) = count
         /\ \A i \in 1..count : m_records'[d][i] =
               IF i <= Len(m_records[d]) THEN m_records[d][i] ELSE NewRecord
         /\ \A e \in Descs \ {d} : m_records'[e] = m_records[e] /\ m_highest'[e] = m_highest[e]
         /\ \A i \in 1..count : m_records'[d][i].m_isBound => i <= m_highest'[d]
         /\ last'.call # "Fetch" /\ Noticed(d)
         /\ wanted' = IF d # "ard" THEN wanted
                      ELSE [n \in Numbers |-> IF n <= count THEN wanted[n] ELSE Null]
         /\ UNCHANGED <<bound_, written, copied>>
  <1>1. d \in Descs /\ d # "ird" /\ count \in Nat
    BY DescriptorAssumption DEF Descs, AppDescs
  <1>2. m_records \in [Descs -> Seq(Records)] /\ m_highest \in [Descs -> Nat]
        /\ m_records[d] \in Seq(Records) /\ m_highest[d] \in Nat
    BY <1>1 DEF TypeOK, DescriptorTypes
  <1> DEFINE new == Resized(m_records[d], count)
             top == CalculateHighestBoundRecord(new)
  <1>3. /\ m_records' = [m_records EXCEPT ![d] = new]
        /\ m_highest' = [m_highest EXCEPT ![d] = IF count <= m_highest[d] THEN top ELSE count]
        /\ Call("SetCount", "SUCCESS", count) /\ Noticed(d)
        /\ wanted' = IF d # "ard" THEN wanted
                     ELSE [n \in Numbers |-> IF n <= count THEN wanted[n] ELSE Null]
        /\ UNCHANGED <<bound_, written, copied>>
    BY <1>1 DEF SetCount
  <1>4. new \in Seq(Records) /\ Len(new) = count
        /\ \A i \in 1..count : new[i] =
              IF i <= Len(m_records[d]) THEN m_records[d][i] ELSE NewRecord
    BY <1>1, <1>2, ResizedRecords
  <1>5. \A i \in 1..Len(new) : new[i].m_isBound => i <= top
    BY <1>4, HighestBound
  <1>6. last'.call # "Fetch"
    BY <1>3 DEF Call
  <1> HIDE DEF new, top
  <1>7. /\ m_records'[d] = new
        /\ m_highest'[d] = IF count <= m_highest[d] THEN top ELSE count
        /\ \A e \in Descs \ {d} : m_records'[e] = m_records[e] /\ m_highest'[e] = m_highest[e]
    BY <1>1, <1>2, <1>3
  <1>8. \A i \in 1..count : new[i].m_isBound => i <= m_highest'[d]
    BY <1>1, <1>2, <1>4, <1>5, <1>7
  <1> QED BY <1>3, <1>4, <1>6, <1>7, <1>8

LEMMA SetRecords ==
  ASSUME TypeOK, NEW name \in Calls \ {"Fetch"}, NEW d \in AppDescs, NEW recs \in Seq(Records),
         NEW n \in Numbers, NEW p \in Buffers \cup {Null},
         Starts(d, recs, n), SetDataPtrOnRecord(name, d, recs, n, p)
  PROVE  /\ n <= Len(m_records'[d]) /\ Len(m_records[d]) <= Len(m_records'[d])
         /\ m_records'[d][n] = RecordFor(p)
         /\ \A i \in 1..Len(m_records'[d]) \ {n} : m_records'[d][i] =
               IF i <= Len(m_records[d]) THEN m_records[d][i] ELSE NewRecord
         /\ \A e \in Descs \ {d} : m_records'[e] = m_records[e] /\ m_highest'[e] = m_highest[e]
         /\ m_highest'[d] = HighestAfter(d, m_records'[d], n, p)
         /\ last'.call # "Fetch" /\ Noticed(d) /\ Want(d, n, p)
         /\ UNCHANGED <<bound_, written, copied>>
  <1>0. name \in Calls
    OBVIOUS
  <1>1. PICK new \in Seq(Records) :
           /\ Len(new) = Len(recs) /\ Len(new) <= MaxRecords
           /\ \A i \in 1..Len(new) : new[i] = IF i = n THEN RecordFor(p) ELSE recs[i]
           /\ m_records' = [m_records EXCEPT ![d] = new]
           /\ m_highest' = [m_highest EXCEPT ![d] = HighestAfter(d, new, n, p)]
    BY <1>0, Setting
  <1>d. d \in Descs
    BY DEF Descs
  <1>2. m_records \in [Descs -> Seq(Records)] /\ m_highest \in [Descs -> Nat]
    BY DEF TypeOK, DescriptorTypes
  <1>3. /\ m_records'[d] = new /\ m_highest'[d] = HighestAfter(d, new, n, p)
        /\ \A e \in Descs \ {d} : m_records'[e] = m_records[e] /\ m_highest'[e] = m_highest[e]
    BY <1>1, <1>2, <1>d
  <1>4. n \in 1..Len(recs) /\ Len(m_records[d]) <= Len(recs)
        /\ \A i \in 1..Len(recs) : i # n =>
             IF i <= Len(m_records[d]) THEN recs[i] = m_records[d][i] ELSE recs[i] = NewRecord
    BY DEF Starts
  <1>5. Call(name, "SUCCESS", n) /\ Noticed(d) /\ Want(d, n, p)
        /\ UNCHANGED <<bound_, written, copied>>
    BY DEF SetDataPtrOnRecord
  <1>6. last'.call # "Fetch"
    BY <1>5 DEF Call
  <1>7. \A i \in 1..Len(new) \ {n} : new[i] =
               IF i <= Len(m_records[d]) THEN m_records[d][i] ELSE NewRecord
    BY <1>1, <1>4
  <1> QED BY <1>1, <1>3, <1>4, <1>5, <1>6, <1>7

-----------------------------------------------------------------------------
(* The count covers the bound records: by the highest of them where a call
   looks for it, by the record it binds otherwise. *)
LEMMA CountStep ==
  ASSUME TypeOK, TypeOK', [Next]_vars, CountCoversBound
  PROVE  CountCoversBound'
  <1> SUFFICES ASSUME NEW e \in AppDescs \ copied', NEW i \in 1..Len(m_records'[e]),
                      m_records'[e][i].m_isBound
               PROVE  i <= m_highest'[e]
    <2>1. \A e \in AppDescs : m_records'[e] \in Seq(Records)
      BY RecordsAfter DEF Descs
    <2> QED BY <2>1 DEF CountCoversBound
  <1>e. e \in Descs /\ e # "ird" /\ "ird" \in Descs
    BY DEF Descs, AppDescs
  <1>t. /\ m_records[e] \in Seq(Records) /\ Len(m_records[e]) \in Nat
        /\ m_records'[e] \in Seq(Records) /\ Len(m_records'[e]) \in Nat
        /\ m_highest[e] \in Nat /\ m_highest'[e] \in Nat
    BY <1>e, RecordsAfter
  <1>o. e \notin copied /\ i <= Len(m_records[e]) /\ m_records[e][i].m_isBound => i <= m_highest[e]
    BY <1>t DEF CountCoversBound
  <1>s. m_records'[e] = m_records[e] /\ m_highest'[e] = m_highest[e] /\ e \notin copied
        => i <= m_highest'[e]
    BY <1>o, <1>t
  <1>1. CASE Sets
    <2>1. PICK name \in Calls \ {"Fetch"}, d \in AppDescs, recs \in Seq(Records),
               n \in Numbers, p \in Buffers \cup {Null} :
                  Starts(d, recs, n) /\ SetDataPtrOnRecord(name, d, recs, n, p)
      BY <1>1 DEF Sets
    <2>2. /\ n <= Len(m_records'[d]) /\ Len(m_records[d]) <= Len(m_records'[d])
          /\ m_records'[d][n] = RecordFor(p)
          /\ \A j \in 1..Len(m_records'[d]) \ {n} : m_records'[d][j] =
                IF j <= Len(m_records[d]) THEN m_records[d][j] ELSE NewRecord
          /\ \A f \in Descs \ {d} : m_records'[f] = m_records[f] /\ m_highest'[f] = m_highest[f]
          /\ m_highest'[d] = HighestAfter(d, m_records'[d], n, p)
          /\ UNCHANGED copied
      BY <2>1, SetRecords
    <2>3. CASE e # d
      BY <2>2, <2>3, <1>e, <1>s
    <2>4. CASE e = d
      <3>1. i <= CalculateHighestBoundRecord(m_records'[d])
        BY <2>4, <1>t, HighestBound
      <3>2. i # n => i <= m_highest[d]
        <4>1. i # n => m_records'[d][i] = IF i <= Len(m_records[d]) THEN m_records[d][i] ELSE NewRecord
          BY <2>2, <2>4
        <4>2. ~NewRecord.m_isBound
          BY DEF NewRecord
        <4> QED BY <4>1, <4>2, <2>2, <2>4, <1>o
      <3>3. i = n => p # Null
        <4> SUFFICES ASSUME i = n, p = Null PROVE FALSE
          OBVIOUS
        <4>1. m_records'[e][i] = RecordFor(p)
          BY <2>2, <2>4
        <4>2. ~RecordFor(p).m_isBound
          BY DEF RecordFor
        <4> QED BY <4>1, <4>2
      <3>4. n \in Nat
        BY DescriptorAssumption DEF Numbers
      <3> DEFINE top == CalculateHighestBoundRecord(m_records'[d])
      <3>5. m_highest'[d] = IF m_highest[d] < n /\ p # Null THEN n
                            ELSE IF m_highest[d] = n /\ p = Null THEN top ELSE m_highest[d]
        BY <2>2 DEF HighestAfter
      <3> HIDE DEF top
      <3>6. i <= top
        BY <3>1, <2>4 DEF top
      <3>7. i \in Nat
        BY <1>t
      <3> QED BY <2>4, <3>2, <3>3, <3>4, <3>5, <3>6, <3>7, <1>t
    <2> QED BY <2>3, <2>4
  <1>2. CASE Describes
    <2>1. PICK d \in AppDescs, n \in Numbers :
             /\ n <= Len(m_records[d])
             /\ m_records' = [m_records EXCEPT ![d][n].m_isBound = FALSE]
             /\ UNCHANGED <<m_highest, copied>>
      BY <1>2 DEF Describes
    <2>2. /\ \A f \in Descs : Len(m_records'[f]) = Len(m_records[f])
          /\ \A f \in Descs \ {d} : m_records'[f] = m_records[f]
          /\ \A j \in 1..Len(m_records[d]) \ {n} : m_records'[d][j] = m_records[d][j]
          /\ m_records'[d][n].m_isBound = FALSE
      BY <2>1, Described
    <2>3. CASE e # d
      BY <2>1, <2>2, <2>3, <1>e, <1>s
    <2>4. CASE e = d
      <3>1. i # n
        BY <2>2, <2>4
      <3>2. Len(m_records'[e]) = Len(m_records[e])
        BY <2>2, <1>e
      <3>3. m_records'[d][i] = m_records[d][i]
        BY <3>1, <3>2, <2>2, <2>4
      <3> QED BY <2>1, <2>4, <3>2, <3>3, <1>o
    <2> QED BY <2>3, <2>4
  <1>3. CASE Counts
    <2>1. PICK d \in AppDescs, count \in 0..MaxRecords : SetCount(d, count)
      BY <1>3 DEF Counts
    <2>2. /\ Len(m_records'[d]) = count /\ UNCHANGED copied
          /\ \A f \in Descs \ {d} : m_records'[f] = m_records[f] /\ m_highest'[f] = m_highest[f]
          /\ \A j \in 1..count : m_records'[d][j].m_isBound => j <= m_highest'[d]
      BY <2>1, Counted
    <2>3. CASE e # d
      BY <2>2, <2>3, <1>e, <1>s
    <2>4. CASE e = d
      BY <2>2, <2>4
    <2> QED BY <2>3, <2>4
  <1>4. CASE Leaves
    BY <1>4, <1>s DEF Leaves
  <1>5. ASSUME NEW src \in Descs, NEW dst \in Descs, CopyDesc(src, dst) PROVE i <= m_highest'[e]
    <2>1. e # dst /\ e \notin copied /\ UNCHANGED m_highest
      BY <1>5 DEF CopyDesc
    <2>2. m_records'[e] = m_records[e]
      BY <1>5, <1>e, <2>1 DEF CopyDesc, TypeOK, DescriptorTypes
    <2> QED BY <2>1, <2>2, <1>s
  <1>6. ASSUME NEW columns \in Numbers, Execute(columns) PROVE i <= m_highest'[e]
    <2>1. m_records'[e] = m_records[e] /\ m_highest'[e] = m_highest[e]
      BY <1>6, <1>e DEF Execute, TypeOK, DescriptorTypes
    <2>2. e \notin copied
      BY <1>6, <1>e DEF Execute
    <2> QED BY <2>1, <2>2, <1>s
  <1>7. CASE Unbind
    <2>1. e \notin copied /\ UNCHANGED m_highest
      BY <1>7 DEF Unbind
    <2>2. CASE e = "ard"
      <3>1. m_records'[e] = <<>>
        BY <1>7, <1>e, <2>2 DEF Unbind, TypeOK, DescriptorTypes
      <3> QED BY <3>1
    <2>3. CASE e # "ard"
      <3>1. m_records'[e] = m_records[e]
        BY <1>7, <1>e, <2>3 DEF Unbind, TypeOK, DescriptorTypes
      <3> QED BY <3>1, <2>1, <1>s
    <2> QED BY <2>2, <2>3
  <1>8. CASE Fetch
    BY <1>8, <1>s DEF Fetch
  <1> QED BY <1>1, <1>2, <1>3, <1>4, <1>5, <1>6, <1>7, <1>8, Effects

(* Whatever sequence of calls binds, unbinds, cuts off and grows records, the
   count SQL_DESC_COUNT reports covers every bound record of a descriptor that
   SQLCopyDesc has not overwritten. *)
THEOREM CountCovers == Spec => []CountCoversBound
  <1>1. Init => CountCoversBound
    BY DEF Init, CountCoversBound, Descs
  <1> QED BY <1>1, CountStep, Typing, PTL DEF Spec

-----------------------------------------------------------------------------
(* A bound record has a buffer, in every descriptor: SQLCopyDesc copies from
   all of them. *)
BoundHasBuffer ==
    \A d \in Descs : \A i \in 1..Len(m_records[d]) :
       m_records[d][i].m_isBound => m_records[d][i].m_dataPtr # Null

LEMMA BufferStep ==
  ASSUME TypeOK, TypeOK', [Next]_vars, BoundHasBuffer
  PROVE  BoundHasBuffer'
  <1> SUFFICES ASSUME NEW e \in Descs, NEW i \in 1..Len(m_records'[e]),
                      m_records'[e][i].m_isBound
               PROVE  m_records'[e][i].m_dataPtr # Null
    BY DEF BoundHasBuffer
  <1>t. /\ m_records[e] \in Seq(Records) /\ Len(m_records[e]) \in Nat
        /\ m_records'[e] \in Seq(Records) /\ Len(m_records'[e]) \in Nat
    BY RecordsAfter
  <1>u. ~NewRecord.m_isBound
    BY DEF NewRecord
  <1>s. ASSUME NEW f \in Descs, i <= Len(m_records[f]), m_records'[e][i] = m_records[f][i]
        PROVE  m_records'[e][i].m_dataPtr # Null
    <2>1. i \in 1..Len(m_records[f])
      BY <1>s, RecordsAfter
    <2> QED BY <2>1, <1>s DEF BoundHasBuffer
  <1>k. m_records'[e] = m_records[e] => m_records'[e][i].m_dataPtr # Null
    BY <1>s
  <1>1. CASE Sets
    <2>1. PICK name \in Calls \ {"Fetch"}, d \in AppDescs, recs \in Seq(Records),
               n \in Numbers, p \in Buffers \cup {Null} :
                  Starts(d, recs, n) /\ SetDataPtrOnRecord(name, d, recs, n, p)
      BY <1>1 DEF Sets
    <2>2. /\ m_records'[d][n] = RecordFor(p)
          /\ \A j \in 1..Len(m_records'[d]) \ {n} : m_records'[d][j] =
                IF j <= Len(m_records[d]) THEN m_records[d][j] ELSE NewRecord
          /\ \A f \in Descs \ {d} : m_records'[f] = m_records[f]
      BY <2>1, SetRecords
    <2>3. CASE e # d
      BY <2>2, <2>3, <1>k
    <2>4. CASE e = d /\ i # n
      BY <2>2, <2>4, <1>s, <1>u
    <2>5. CASE e = d /\ i = n
      <3>1. m_records'[e][i] = RecordFor(p)
        BY <2>2, <2>5
      <3>2. RecordFor(p).m_isBound => RecordFor(p).m_dataPtr # Null
        BY DEF RecordFor
      <3> QED BY <3>1, <3>2
    <2> QED BY <2>3, <2>4, <2>5
  <1>2. CASE Describes
    <2>1. PICK d \in AppDescs, n \in Numbers :
             /\ n <= Len(m_records[d])
             /\ m_records' = [m_records EXCEPT ![d][n].m_isBound = FALSE]
      BY <1>2 DEF Describes
    <2>2. /\ \A f \in Descs : Len(m_records'[f]) = Len(m_records[f])
          /\ \A f \in Descs \ {d} : m_records'[f] = m_records[f]
          /\ \A j \in 1..Len(m_records[d]) \ {n} : m_records'[d][j] = m_records[d][j]
          /\ m_records'[d][n].m_isBound = FALSE
      BY <2>1, Described
    <2>3. CASE e # d
      BY <2>2, <2>3, <1>k
    <2>4. CASE e = d
      <3>1. i # n
        BY <2>2, <2>4
      <3>2. Len(m_records'[e]) = Len(m_records[e])
        BY <2>2
      <3>3. m_records'[e][i] = m_records[e][i]
        BY <3>1, <3>2, <2>2, <2>4
      <3> QED BY <3>2, <3>3, <1>s, <1>t
    <2> QED BY <2>3, <2>4
  <1>3. CASE Counts
    <2>1. PICK d \in AppDescs, count \in 0..MaxRecords : SetCount(d, count)
      BY <1>3 DEF Counts
    <2>2. /\ Len(m_records'[d]) = count
          /\ \A j \in 1..count : m_records'[d][j] =
               IF j <= Len(m_records[d]) THEN m_records[d][j] ELSE NewRecord
          /\ \A f \in Descs \ {d} : m_records'[f] = m_records[f]
      BY <2>1, Counted
    <2>3. CASE e # d
      BY <2>2, <2>3, <1>k
    <2>4. CASE e = d
      BY <2>2, <2>4, <1>s, <1>u
    <2> QED BY <2>3, <2>4
  <1>4. CASE Leaves
    BY <1>4, <1>k DEF Leaves
  <1>5. ASSUME NEW src \in Descs, NEW dst \in Descs, CopyDesc(src, dst)
        PROVE  m_records'[e][i].m_dataPtr # Null
    <2>1. m_records'[e] = m_records[IF e = dst THEN src ELSE e]
      BY <1>5 DEF CopyDesc, TypeOK, DescriptorTypes
    <2>2. CASE e = dst
      <3>1. m_records'[e] = m_records[src]
        BY <2>1, <2>2
      <3>2. i <= Len(m_records[src]) /\ m_records'[e][i] = m_records[src][i]
        BY <3>1, <1>t
      <3> QED BY <3>2, <1>s
    <2>3. CASE e # dst
      BY <2>1, <2>3, <1>k
    <2> QED BY <2>2, <2>3
  <1>6. ASSUME NEW columns \in Numbers, Execute(columns)
        PROVE  m_records'[e][i].m_dataPtr # Null
    <2> DEFINE new == [j \in 1..columns |-> NewRecord]
    <2>1. CASE e = "ird"
      <3>1. m_records'[e] = new
        BY <1>6, <2>1 DEF Execute, TypeOK, DescriptorTypes
      <3>2. columns \in Nat
        BY DescriptorAssumption DEF Numbers
      <3>3. Len(new) = columns
        BY <3>2
      <3>4. m_records'[e][i] = NewRecord
        BY <3>1, <3>3
      <3> QED BY <3>4, <1>u
    <2>2. CASE e # "ird"
      <3>1. m_records'[e] = m_records[e]
        BY <1>6, <2>2 DEF Execute, TypeOK, DescriptorTypes
      <3> QED BY <3>1, <1>k
    <2> QED BY <2>1, <2>2
  <1>7. CASE Unbind
    <2>1. CASE e = "ard"
      <3>1. m_records'[e] = <<>>
        BY <1>7, <2>1 DEF Unbind, TypeOK, DescriptorTypes
      <3> QED BY <3>1
    <2>2. CASE e # "ard"
      <3>1. m_records'[e] = m_records[e]
        BY <1>7, <2>2 DEF Unbind, TypeOK, DescriptorTypes
      <3> QED BY <3>1, <1>k
    <2> QED BY <2>1, <2>2
  <1>8. CASE Fetch
    BY <1>8, <1>k DEF Fetch
  <1> QED BY <1>1, <1>2, <1>3, <1>4, <1>5, <1>6, <1>7, <1>8, Effects

-----------------------------------------------------------------------------
(* What a record binds its column to. *)
Held(recs, n) == IF n <= Len(recs) /\ recs[n].m_isBound THEN recs[n].m_dataPtr ELSE Null

LEMMA HeldIsWanted ==
  ASSUME TypeOK, BoundHasBuffer
  PROVE  RecordsAreBindings <=> \A n \in Numbers : wanted[n] = Held(m_records["ard"], n)
  <1>1. "ard" \in Descs
    BY DEF Descs, AppDescs
  <1>2. Len(m_records["ard"]) \in Nat
    BY <1>1, RecordsOf
  <1>3. \A n \in Numbers : n <= Len(m_records["ard"]) => n \in 1..Len(m_records["ard"])
    BY <1>2, DescriptorAssumption DEF Numbers
  <1>4. \A n \in Numbers : n <= Len(m_records["ard"]) /\ m_records["ard"][n].m_isBound
                           => m_records["ard"][n].m_dataPtr # Null
    BY <1>1, <1>3 DEF BoundHasBuffer
  <1> QED BY <1>4 DEF RecordsAreBindings, Held

LEMMA BindingStep ==
  ASSUME TypeOK, TypeOK', [Next]_vars, BoundHasBuffer, BoundHasBuffer', RecordsAreBindings
  PROVE  RecordsAreBindings'
  <1> DEFINE old == m_records["ard"]
             new == m_records'["ard"]
  <1>a. "ard" \in Descs /\ "ard" \in AppDescs
    BY DEF Descs, AppDescs
  <1> SUFFICES ASSUME NEW i \in Numbers PROVE wanted'[i] = Held(new, i)
    <2>1. RecordsAreBindings' <=> \A n \in Numbers : wanted'[n] = Held(new, n)
      <3>1. new \in Seq(Records) /\ Len(new) \in Nat
        BY <1>a, RecordsAfter
      <3>2. \A n \in Numbers : n <= Len(new) => n \in 1..Len(new)
        BY <3>1, DescriptorAssumption DEF Numbers
      <3>3. \A n \in Numbers : n <= Len(new) /\ new[n].m_isBound => new[n].m_dataPtr # Null
        BY <1>a, <3>2 DEF BoundHasBuffer
      <3> QED BY <3>3 DEF RecordsAreBindings, Held
    <2> QED BY <2>1
  <1>t. /\ old \in Seq(Records) /\ Len(old) \in Nat
        /\ new \in Seq(Records) /\ Len(new) \in Nat
        /\ i \in Nat /\ i >= 1 /\ wanted \in [Numbers -> Buffers \cup {Null}]
    BY <1>a, RecordsAfter, DescriptorAssumption DEF Numbers, TypeOK, DescriptorTypes
  <1>h. wanted[i] = Held(old, i)
    BY HeldIsWanted
  <1>s. new = old /\ UNCHANGED wanted => wanted'[i] = Held(new, i)
    BY <1>h
  <1>u. ~NewRecord.m_isBound
    BY DEF NewRecord
  <1> HIDE DEF old, new
  <1>1. CASE Sets
    <2>1. PICK name \in Calls \ {"Fetch"}, d \in AppDescs, recs \in Seq(Records),
               n \in Numbers, p \in Buffers \cup {Null} :
                  Starts(d, recs, n) /\ SetDataPtrOnRecord(name, d, recs, n, p)
      BY <1>1 DEF Sets
    <2>2. /\ n <= Len(m_records'[d])
          /\ m_records'[d][n] = RecordFor(p) /\ Len(m_records[d]) <= Len(m_records'[d])
          /\ \A j \in 1..Len(m_records'[d]) \ {n} : m_records'[d][j] =
                IF j <= Len(m_records[d]) THEN m_records[d][j] ELSE NewRecord
          /\ \A f \in Descs \ {d} : m_records'[f] = m_records[f]
          /\ Want(d, n, p)
      BY <2>1, SetRecords
    <2>3. CASE d # "ard"
      BY <2>2, <2>3, <1>a, <1>s DEF Want, old, new
    <2>4. CASE d = "ard"
      <3>1. wanted' = [wanted EXCEPT ![n] = p]
        BY <2>2, <2>4 DEF Want
      <3>2. CASE i = n
        <4>1. wanted'[i] = p
          BY <3>1, <3>2, <1>t
        <4>2. new[i] = RecordFor(p) /\ i <= Len(new)
          BY <2>2, <2>4, <3>2 DEF new
        <4>3. (IF RecordFor(p).m_isBound THEN RecordFor(p).m_dataPtr ELSE Null) = p
          BY DEF RecordFor
        <4> QED BY <4>1, <4>2, <4>3 DEF Held
      <3>3. CASE i # n
        <4>1. wanted'[i] = wanted[i]
          BY <3>1, <3>3, <1>t
        <4>2. \A j \in 1..Len(new) \ {n} : new[j] = IF j <= Len(old) THEN old[j] ELSE NewRecord
          BY <2>2, <2>4 DEF new, old
        <4>3. Len(old) <= Len(new)
          BY <2>2, <2>4 DEF new, old
        <4>4. CASE i <= Len(old)
          <5>1. i <= Len(new) /\ new[i] = old[i]
            BY <4>2, <4>3, <4>4, <3>3, <1>t
          <5> QED BY <5>1, <4>1, <4>4, <1>h DEF Held
        <4>5. CASE ~(i <= Len(old))
          <5>1. i <= Len(new) => new[i] = NewRecord
            BY <4>2, <4>5, <3>3, <1>t
          <5> QED BY <5>1, <4>1, <4>5, <1>h, <1>u DEF Held
        <4> QED BY <4>4, <4>5
      <3> QED BY <3>2, <3>3
    <2> QED BY <2>3, <2>4
  <1>2. CASE Describes
    <2>1. PICK d \in AppDescs, n \in Numbers :
             /\ n <= Len(m_records[d])
             /\ m_records' = [m_records EXCEPT ![d][n].m_isBound = FALSE]
             /\ Want(d, n, Null)
      BY <1>2 DEF Describes
    <2>2. /\ \A f \in Descs : Len(m_records'[f]) = Len(m_records[f])
          /\ \A f \in Descs \ {d} : m_records'[f] = m_records[f]
          /\ \A j \in 1..Len(m_records[d]) \ {n} : m_records'[d][j] = m_records[d][j]
          /\ m_records'[d][n].m_isBound = FALSE
      BY <2>1, Described
    <2>3. CASE d # "ard"
      BY <2>1, <2>2, <2>3, <1>a, <1>s DEF Want, old, new
    <2>4. CASE d = "ard"
      <3>1. wanted' = [wanted EXCEPT ![n] = Null] /\ Len(new) = Len(old)
        BY <2>1, <2>2, <2>4, <1>a DEF Want, old, new
      <3>2. CASE i = n
        <4>1. wanted'[i] = Null
          BY <3>1, <3>2, <1>t
        <4>2. new[i].m_isBound = FALSE
          BY <2>2, <2>4, <3>2 DEF new
        <4> QED BY <4>1, <4>2 DEF Held
      <3>3. CASE i # n
        <4>1. wanted'[i] = wanted[i]
          BY <3>1, <3>3, <1>t
        <4>2. i <= Len(old) => new[i] = old[i]
          BY <2>2, <2>4, <3>3, <1>t DEF new, old
        <4> QED BY <4>1, <4>2, <3>1, <1>h DEF Held
      <3> QED BY <3>2, <3>3
    <2> QED BY <2>3, <2>4
  <1>3. CASE Counts
    <2>1. PICK d \in AppDescs, count \in 0..MaxRecords : SetCount(d, count)
      BY <1>3 DEF Counts
    <2>2. /\ Len(m_records'[d]) = count
          /\ \A j \in 1..count : m_records'[d][j] =
               IF j <= Len(m_records[d]) THEN m_records[d][j] ELSE NewRecord
          /\ \A f \in Descs \ {d} : m_records'[f] = m_records[f]
          /\ wanted' = IF d # "ard" THEN wanted
                       ELSE [n \in Numbers |-> IF n <= count THEN wanted[n] ELSE Null]
      BY <2>1, Counted
    <2>3. CASE d # "ard"
      BY <2>2, <2>3, <1>a, <1>s DEF old, new
    <2>4. CASE d = "ard"
      <3>1. wanted'[i] = IF i <= count THEN wanted[i] ELSE Null
        BY <2>2, <2>4
      <3>2. Len(new) = count
        BY <2>2, <2>4 DEF new
      <3>3. i <= count => new[i] = IF i <= Len(old) THEN old[i] ELSE NewRecord
        BY <2>2, <2>4, <3>2, <1>t DEF old, new
      <3>4. CASE i <= count /\ i <= Len(old)
        BY <3>1, <3>2, <3>3, <3>4, <1>h DEF Held
      <3>5. CASE i <= count /\ ~(i <= Len(old))
        BY <3>1, <3>2, <3>3, <3>5, <1>h, <1>u DEF Held
      <3>6. CASE ~(i <= count)
        BY <3>1, <3>2, <3>6 DEF Held
      <3> QED BY <3>4, <3>5, <3>6
    <2> QED BY <2>3, <2>4
  <1>4. CASE Leaves
    BY <1>4, <1>s DEF Leaves, old, new
  <1>5. ASSUME NEW src \in Descs, NEW dst \in Descs, CopyDesc(src, dst)
        PROVE  wanted'[i] = Held(new, i)
    <2>1. CASE dst = "ard"
      <3>1. new = m_records[src]
        BY <1>5, <2>1, <1>a DEF CopyDesc, TypeOK, DescriptorTypes, new
      <3>2. wanted' = [n \in Numbers |-> Held(m_records[src], n)]
        BY <1>5, <2>1 DEF CopyDesc, Held
      <3> QED BY <3>1, <3>2
    <2>2. CASE dst # "ard"
      <3>1. new = old
        BY <1>5, <2>2, <1>a DEF CopyDesc, TypeOK, DescriptorTypes, new, old
      <3> QED BY <3>1, <1>5, <2>2, <1>s DEF CopyDesc
    <2> QED BY <2>1, <2>2
  <1>6. ASSUME NEW columns \in Numbers, Execute(columns) PROVE wanted'[i] = Held(new, i)
    <2>1. new = old /\ UNCHANGED wanted
      BY <1>6, <1>a DEF Execute, TypeOK, DescriptorTypes, new, old
    <2> QED BY <2>1, <1>s
  <1>7. CASE Unbind
    <2>1. new = <<>>
      BY <1>7, <1>a DEF Unbind, TypeOK, DescriptorTypes, new
    <2>2. wanted'[i] = Null
      BY <1>7 DEF Unbind, Unbound
    <2>3. Len(new) = 0
      BY <2>1
    <2> QED BY <2>2, <2>3, <1>t DEF Held
  <1>8. CASE Fetch
    BY <1>8, <1>s DEF Fetch, old, new
  <1> QED BY <1>1, <1>2, <1>3, <1>4, <1>5, <1>6, <1>7, <1>8, Effects

LEMMA BindingInit == Init => BoundHasBuffer /\ RecordsAreBindings
  <1> SUFFICES ASSUME Init PROVE BoundHasBuffer /\ RecordsAreBindings
    OBVIOUS
  <1>1. \A d \in Descs : m_records[d] = <<>>
    BY DEF Init
  <1>2. "ard" \in Descs
    BY DEF Descs, AppDescs
  <1>3. BoundHasBuffer
    BY <1>1 DEF BoundHasBuffer
  <1>4. \A n \in Numbers : wanted[n] = Null /\ n \in Nat /\ n >= 1
    BY DescriptorAssumption DEF Init, Unbound, Numbers
  <1>5. Len(m_records["ard"]) = 0
    BY <1>1, <1>2
  <1>6. RecordsAreBindings
    BY <1>4, <1>5 DEF RecordsAreBindings
  <1> QED BY <1>3, <1>6

(* The records of the ARD are the bindings the application made, and a bound
   record has a buffer to write to. *)
THEOREM RecordsBind == Spec => []RecordsAreBindings
  <1>1. Spec => []BoundHasBuffer
    BY BindingInit, BufferStep, Typing, PTL DEF Spec
  <1> QED BY <1>1, BindingInit, BindingStep, Typing, PTL DEF Spec

-----------------------------------------------------------------------------
(* The result set has a binding per record of the IRD, as long as SQLCopyDesc
   has not written to the IRD, and once a fetch has handed the bindings over it
   holds those the application made, until something marks them as changed or
   SQL_UNBIND, which marks nothing, changes them. *)
HandedOver ==
    /\ "ird" \notin copied => Len(bound_) = Len(m_records["ird"])
    /\ ~m_hasBindingsChanged /\ ~unnoticed =>
          \A i \in 1..Len(bound_) : bound_[i] = wanted[i]

(* No call but CopyDesc and Execute changes the records of the IRD. *)
LEMMA IrdKept ==
  ASSUME TypeOK, Sets \/ Describes \/ Counts \/ Leaves \/ Unbind
  PROVE  m_records'["ird"] = m_records["ird"] /\ UNCHANGED <<bound_, copied>>
  <1>i. "ird" \in Descs /\ "ird" \notin AppDescs
    BY DEF Descs, AppDescs
  <1>1. CASE Sets
    <2>1. PICK name \in Calls \ {"Fetch"}, d \in AppDescs, recs \in Seq(Records),
               n \in Numbers, p \in Buffers \cup {Null} :
                  Starts(d, recs, n) /\ SetDataPtrOnRecord(name, d, recs, n, p)
      BY <1>1 DEF Sets
    <2>2. /\ \A f \in Descs \ {d} : m_records'[f] = m_records[f]
          /\ UNCHANGED <<bound_, copied>>
      BY <2>1, SetRecords
    <2> QED BY <2>2, <1>i
  <1>2. CASE Describes
    <2>1. PICK d \in AppDescs, n \in Numbers :
             /\ n <= Len(m_records[d])
             /\ m_records' = [m_records EXCEPT ![d][n].m_isBound = FALSE]
             /\ UNCHANGED <<bound_, copied>>
      BY <1>2 DEF Describes
    <2>2. \A f \in Descs \ {d} : m_records'[f] = m_records[f]
      BY <2>1, Described
    <2> QED BY <2>1, <2>2, <1>i
  <1>3. CASE Counts
    <2>1. PICK d \in AppDescs, count \in 0..MaxRecords : SetCount(d, count)
      BY <1>3 DEF Counts
    <2>2. /\ \A f \in Descs \ {d} : m_records'[f] = m_records[f]
          /\ UNCHANGED <<bound_, copied>>
      BY <2>1, Counted
    <2> QED BY <2>2, <1>i
  <1>4. CASE Leaves
    BY <1>4 DEF Leaves
  <1>5. CASE Unbind
    BY <1>5, <1>i DEF Unbind, TypeOK, DescriptorTypes
  <1> QED BY <1>1, <1>2, <1>3, <1>4, <1>5

(* A call on the ARD tells the statement; one on another descriptor leaves the
   application's bindings and the flags alone; and no call is called "Fetch". *)
LEMMA Told ==
  ASSUME TypeOK, Sets \/ Describes \/ Counts
  PROVE  /\ m_hasBindingsChanged'
            \/ /\ m_hasBindingsChanged' = m_hasBindingsChanged
               /\ unnoticed' = unnoticed /\ wanted' = wanted
         /\ last'.call # "Fetch"
  <1>1. ASSUME NEW d, Noticed(d), d # "ard" => wanted' = wanted
        PROVE  m_hasBindingsChanged'
               \/ /\ m_hasBindingsChanged' = m_hasBindingsChanged
                  /\ unnoticed' = unnoticed /\ wanted' = wanted
    <2>1. m_hasBindingsChanged \in BOOLEAN /\ unnoticed \in BOOLEAN
      BY DEF TypeOK, FlagTypes
    <2>2. CASE d = "ard"
      BY <1>1, <2>2, Zenon DEF Noticed
    <2>3. CASE d # "ard"
      <3>1. m_hasBindingsChanged' = m_hasBindingsChanged
        BY <1>1, <2>1, <2>3, Zenon DEF Noticed
      <3>2. unnoticed' = unnoticed
        BY <1>1, <2>1, <2>3, Zenon DEF Noticed
      <3> QED BY <1>1, <2>3, <3>1, <3>2
    <2> QED BY <2>2, <2>3
  <1>2. CASE Sets
    <2>1. PICK name \in Calls \ {"Fetch"}, d \in AppDescs, recs \in Seq(Records),
               n \in Numbers, p \in Buffers \cup {Null} :
                  Starts(d, recs, n) /\ SetDataPtrOnRecord(name, d, recs, n, p)
      BY <1>2 DEF Sets
    <2>2. last'.call # "Fetch" /\ Noticed(d) /\ Want(d, n, p)
      BY <2>1, SetRecords
    <2>3. d # "ard" => wanted' = wanted
      BY <2>2 DEF Want
    <2> QED BY <2>2, <2>3, <1>1
  <1>3. CASE Describes
    <2>1. PICK d \in AppDescs, n \in Numbers :
             Call("SetField", "SUCCESS", n) /\ Noticed(d) /\ Want(d, n, Null)
      BY <1>3 DEF Describes
    <2>2. d # "ard" => wanted' = wanted
      BY <2>1 DEF Want
    <2>3. last'.call # "Fetch"
      BY <2>1 DEF Call
    <2> QED BY <2>1, <2>2, <2>3, <1>1
  <1>4. CASE Counts
    <2>1. PICK d \in AppDescs, count \in 0..MaxRecords : SetCount(d, count)
      BY <1>4 DEF Counts
    <2>2. last'.call # "Fetch" /\ Noticed(d) /\ (d # "ard" => wanted' = wanted)
      BY <2>1, Counted
    <2> QED BY <2>2, <1>1
  <1> QED BY <1>2, <1>3, <1>4

(* What Fetch hands over is what the records hold. *)
LEMMA HandsOver ==
  ASSUME TypeOK, BoundHasBuffer, RecordsAreBindings, HandedOver, Fetch
  PROVE  /\ Len(bound_') = Len(bound_) /\ Len(bound_) <= MaxRecords
         /\ ~unnoticed \/ m_hasBindingsChanged =>
               \A i \in 1..Len(bound_) : bound_'[i] = wanted[i]
  <1>1. /\ bound_ \in Seq(Buffers \cup {Null}) /\ Len(bound_) <= MaxRecords
        /\ Len(bound_) \in Nat
    BY DEF TypeOK, FetchTypes
  <1>2. Len(bound_) = Len(m_records["ird"])
    BY DEF HandedOver, Fetch
  <1>3. \A i \in 1..Len(bound_) : i \in Numbers
    BY <1>1, DescriptorAssumption DEF Numbers
  <1>4. CASE m_hasBindingsChanged
    <2>1. HandOver = [i \in 1..Len(bound_) |-> Held(m_records["ard"], i)]
      <3>1. DOMAIN bound_ = 1..Len(bound_)
        BY <1>1
      <3>2. \A i \in 1..Len(bound_) : ~(i > Len(m_records["ird"]))
        BY <1>1, <1>2
      <3> QED BY <3>1, <3>2 DEF HandOver, Held
    <2>2. bound_' = HandOver
      BY <1>4 DEF Fetch
    <2>3. \A i \in 1..Len(bound_) : Held(m_records["ard"], i) = wanted[i]
      BY <1>3, HeldIsWanted
    <2>4. \A i \in 1..Len(bound_) : bound_'[i] = wanted[i]
      BY <2>1, <2>2, <2>3
    <2>5. Len(bound_') = Len(bound_)
      BY <2>1, <2>2, <1>1
    <2> QED BY <2>4, <2>5, <1>1
  <1>5. CASE ~m_hasBindingsChanged
    <2>1. bound_' = bound_
      BY <1>5 DEF Fetch
    <2> QED BY <2>1, <1>1, <1>5 DEF HandedOver
  <1> QED BY <1>4, <1>5

LEMMA HandedStep ==
  ASSUME TypeOK, TypeOK', [Next]_vars, BoundHasBuffer, RecordsAreBindings, HandedOver
  PROVE  HandedOver'
  <1>1. CASE Sets \/ Describes \/ Counts
    <2>1. m_records'["ird"] = m_records["ird"] /\ UNCHANGED <<bound_, copied>>
      BY <1>1, IrdKept
    <2>2. \/ m_hasBindingsChanged'
          \/ /\ m_hasBindingsChanged' = m_hasBindingsChanged
             /\ unnoticed' = unnoticed /\ wanted' = wanted
      BY <1>1, Told
    <2> QED BY <2>1, <2>2 DEF HandedOver
  <1>2. CASE Leaves
    <2>1. UNCHANGED <<m_records, m_hasBindingsChanged, bound_, wanted, copied, unnoticed>>
      BY <1>2 DEF Leaves
    <2> QED BY <2>1 DEF HandedOver
  <1>3. CASE Unbind
    <2>1. m_records'["ird"] = m_records["ird"] /\ UNCHANGED <<bound_, copied>>
      BY <1>3, IrdKept
    <2>2. unnoticed'
      BY <1>3 DEF Unbind
    <2> QED BY <2>1, <2>2 DEF HandedOver
  <1>4. ASSUME NEW src \in Descs, NEW dst \in Descs, CopyDesc(src, dst) PROVE HandedOver'
    <2>1. "ird" \notin copied' => "ird" \notin copied /\ dst # "ird"
      BY <1>4 DEF CopyDesc
    <2>2. dst # "ird" => m_records'["ird"] = m_records["ird"]
      BY <1>4 DEF CopyDesc, TypeOK, DescriptorTypes, Descs
    <2>3. UNCHANGED bound_
      BY <1>4 DEF CopyDesc
    <2>4. m_hasBindingsChanged' \in BOOLEAN /\ unnoticed \in BOOLEAN /\ m_hasBindingsChanged \in BOOLEAN
      BY DEF TypeOK, FlagTypes
    <2>5. \/ m_hasBindingsChanged'
          \/ /\ m_hasBindingsChanged' = m_hasBindingsChanged
             /\ unnoticed' = unnoticed /\ wanted' = wanted
      <3>1. CASE dst = "ard"
        BY <1>4, <3>1, Zenon DEF CopyDesc, Noticed
      <3>2. CASE dst # "ard"
        <4>1. m_hasBindingsChanged' = m_hasBindingsChanged
          BY <1>4, <2>4, <3>2, Zenon DEF CopyDesc, Noticed
        <4>2. unnoticed' = unnoticed
          BY <1>4, <2>4, <3>2, Zenon DEF CopyDesc, Noticed
        <4>3. wanted' = wanted
          BY <1>4, <3>2 DEF CopyDesc
        <4> QED BY <4>1, <4>2, <4>3
      <3> QED BY <3>1, <3>2
    <2> QED BY <2>1, <2>2, <2>3, <2>5 DEF HandedOver
  <1>5. ASSUME NEW columns \in Numbers, Execute(columns) PROVE HandedOver'
    <2>1. columns \in Nat
      BY DescriptorAssumption DEF Numbers
    <2>2. m_records'["ird"] = [i \in 1..columns |-> NewRecord]
      BY <1>5 DEF Execute, TypeOK, DescriptorTypes, Descs
    <2>3. bound_' = [i \in 1..columns |-> Null]
      BY <1>5 DEF Execute
    <2>4. Len(bound_') = Len(m_records'["ird"])
      BY <2>1, <2>2, <2>3
    <2>5. m_hasBindingsChanged'
      BY <1>5, Zenon DEF Execute, Noticed
    <2> QED BY <2>4, <2>5 DEF HandedOver
  <1>6. CASE Fetch
    <2>1. UNCHANGED <<m_records, wanted, copied, unnoticed>> /\ "ird" \notin copied
      BY <1>6 DEF Fetch
    <2>2. /\ Len(bound_') = Len(bound_)
          /\ ~unnoticed => \A i \in 1..Len(bound_) : bound_'[i] = wanted[i]
      BY <1>6, HandsOver
    <2> QED BY <2>1, <2>2 DEF HandedOver
  <1> QED BY <1>1, <1>2, <1>3, <1>4, <1>5, <1>6, Effects

LEMMA FetchStep ==
  ASSUME TypeOK, TypeOK', [Next]_vars, BoundHasBuffer, RecordsAreBindings, HandedOver,
         FetchWritesBindings
  PROVE  FetchWritesBindings'
  <1>1. CASE Sets \/ Describes \/ Counts
    BY <1>1, Told DEF FetchWritesBindings
  <1>2. CASE Leaves
    BY <1>2 DEF Leaves, FetchWritesBindings
  <1>3. CASE \/ \E src, dst \in Descs : CopyDesc(src, dst)
             \/ \E columns \in Numbers : Execute(columns)
             \/ Unbind
    <2>1. last'.call # "Fetch"
      BY <1>3 DEF CopyDesc, Execute, Unbind, Call
    <2> QED BY <2>1 DEF FetchWritesBindings
  <1>4. CASE Fetch
    <2> SUFFICES ASSUME ~unnoticed, NEW n \in Numbers
                 PROVE  written'[n] = IF n \in DOMAIN bound_' THEN wanted'[n] ELSE Null
      BY <1>4 DEF Fetch, FetchWritesBindings
    <2>1. /\ Len(bound_') = Len(bound_)
          /\ \A i \in 1..Len(bound_) : bound_'[i] = wanted[i]
      BY <1>4, HandsOver
    <2>2. written'[n] = (IF n \in DOMAIN bound_' THEN bound_'[n] ELSE Null) /\ wanted' = wanted
      BY <1>4 DEF Fetch
    <2>3. DOMAIN bound_' = 1..Len(bound_')
      BY DEF TypeOK, FetchTypes
    <2> QED BY <2>1, <2>2, <2>3
  <1> QED BY <1>1, <1>2, <1>3, <1>4, Effects

LEMMA HandedInit == Init => HandedOver /\ FetchWritesBindings
  <1> SUFFICES ASSUME Init PROVE HandedOver /\ FetchWritesBindings
    OBVIOUS
  <1>1. m_records["ird"] = <<>> /\ bound_ = <<>> /\ m_hasBindingsChanged = TRUE
    BY DEF Init, Descs
  <1>2. last.call = "none"
    BY DEF Init
  <1>3. HandedOver
    BY <1>1 DEF HandedOver
  <1>4. FetchWritesBindings
    BY <1>2 DEF FetchWritesBindings
  <1> QED BY <1>3, <1>4

(* What a fetch writes is what the application had bound when it was called,
   for any number of columns and whatever calls bound, unbound, copied and
   resized the records before; SQL_UNBIND alone goes unnoticed. *)
THEOREM FetchWrites == Spec => []FetchWritesBindings
  <1>1. Spec => []BoundHasBuffer
    BY BindingInit, BufferStep, Typing, PTL DEF Spec
  <1>2. Spec => []HandedOver
    BY <1>1, HandedInit, HandedStep, RecordsBind, Typing, PTL DEF Spec
  <1> QED BY <1>1, <1>2, HandedInit, FetchStep, RecordsBind, Typing, PTL DEF Spec

-----------------------------------------------------------------------------
(* The columns a descriptor tells of. *)

LEMMA CTypesAre ==
    /\ CTypes = {"C_CHAR", "C_WCHAR", "C_SSHORT", "C_USHORT", "C_SLONG", "C_ULONG", "C_FLOAT",
                 "C_DOUBLE", "C_BIT", "C_STINYINT", "C_UTINYINT", "C_SBIGINT", "C_UBIGINT",
                 "C_BINARY", "C_NUMERIC", "C_TIMESTAMP", "C_TIME", "C_DATE"}
    /\ ArrowOfC["C_CHAR"] = "STRING" /\ ArrowOfC["C_WCHAR"] = "STRING"
    /\ ArrowOfC["C_TIMESTAMP"] = "TIMESTAMP"
BY DEF CTypes, ArrowOfC

LEMMA AccessorIs ==
    ASSUME NEW a, NEW c
    PROVE  <<a, c>> \in Accessors <=>
             \/ c \in CTypes /\ a = ArrowOfC[c]
             \/ a = "DATE32" /\ c = "C_DATE"
             \/ a = "TIME32" /\ c = "C_TIME"
BY DEF Accessors

LEMMA NoneThrows == \A c \in CTypes : ArrowOfC[c] # "throws"
BY DEF CTypes, ArrowOfC

(* What NeedArrayConversion and GetConverter make of an array has an accessor. *)
LEMMA TablesAgree ==
    ASSUME NEW a \in ArrowTypes
    PROVE  TablesAgreeOn(a)
<1>1. ASSUME a \notin Unreadable, NEW c \in CTypes, ~IsComplexType(a) \/ c \in {"C_CHAR", "C_WCHAR"}
      PROVE  CreateAccessor(a, c) # Throws
  <2>0. a \in Convertible
    BY <1>1 DEF Unreadable
  <2>1. c # Throws
    BY CTypesAre DEF Throws
  <2>2. CASE ~NeedArrayConversion(a, c)
    BY <1>1, <2>0, <2>1, <2>2 DEF NeedArrayConversion, CastArray, CreateAccessor, IsComplexType
  <2>3. CASE NeedArrayConversion(a, c)
    <3>1. CastArray(a, c) = Converted(a, c)
      BY <2>0, <2>3 DEF CastArray
    <3>2. Converted(a, c) = ArrowOfC[c]
      BY CTypesAre DEF Converted
    <3> QED BY <2>1, <3>1, <3>2, AccessorIs DEF CreateAccessor
  <2> QED BY <2>2, <2>3
<1>2. ASSUME a \in Unreadable, NEW c \in CTypes
      PROVE  CreateAccessor(a, c) = Throws
  <2>1. CastArray(a, c) = Throws
    BY <1>2 DEF CastArray, Unreadable
  <2>2. <<Throws, c>> \notin Accessors
    BY AccessorIs, NoneThrows DEF Throws
  <2> QED BY <2>1, <2>2 DEF CreateAccessor
<1>3. "C_CHAR" \in CTypes /\ "C_WCHAR" \in CTypes
  BY CTypesAre
<1> QED BY <1>1, <1>2, <1>3 DEF TablesAgreeOn


-----------------------------------------------------------------------------
(* Types of a column. *)

SqlTypesOfColumns ==
    {"BIT", "TINYINT", "SMALLINT", "INTEGER", "BIGINT", "FLOAT", "DOUBLE", "BINARY", "VARCHAR",
     "WVARCHAR", "TYPE_DATE", "TYPE_TIMESTAMP", "DECIMAL", "TYPE_TIME", "INTERVAL_MONTH",
     "INTERVAL_DAY"}

LEMMA SqlTypeIs ==
    ASSUME NEW a PROVE GetDataTypeFromArrowField_V3(a) \in SqlTypesOfColumns
<1>1. CASE a \in DOMAIN SqlTypeOfArrow
  BY <1>1 DEF GetDataTypeFromArrowField_V3, SqlTypeOfArrow, SqlTypesOfColumns, DefaultSqlVarchar
<1>2. CASE a \notin DOMAIN SqlTypeOfArrow
  BY <1>2 DEF GetDataTypeFromArrowField_V3, SqlTypesOfColumns, DefaultSqlVarchar
<1> QED BY <1>1, <1>2

LEMMA IntervalsAre ==
    Intervals = {"INTERVAL_YEAR", "INTERVAL_MONTH", "INTERVAL_DAY", "INTERVAL_HOUR",
        "INTERVAL_MINUTE", "INTERVAL_SECOND", "INTERVAL_YEAR_TO_MONTH", "INTERVAL_DAY_TO_HOUR",
        "INTERVAL_DAY_TO_MINUTE", "INTERVAL_DAY_TO_SECOND", "INTERVAL_HOUR_TO_MINUTE",
        "INTERVAL_HOUR_TO_SECOND", "INTERVAL_MINUTE_TO_SECOND"}
BY DEF Intervals, SubCode, DateTimes

LEMMA SubCodesDiffer ==
    ASSUME NEW t \in Intervals, NEW u \in Intervals, t # u
    PROVE  GetSqlDateTimeSubCode(u) # GetSqlDateTimeSubCode(t)
BY DEF Intervals, SubCode, DateTimes, GetSqlDateTimeSubCode

(* A verbose type and a subcode name one concise type. *)
LEMMA VerboseTypes ==
    ASSUME NEW t \in SqlTypes, NEW u \in SqlTypes, u # t,
           GetNonConciseDataType(u) = GetNonConciseDataType(t)
    PROVE  GetSqlDateTimeSubCode(u) # GetSqlDateTimeSubCode(t)
<1>0. t \notin {"9", "10"} /\ u \notin {"9", "10"}
  BY IntervalsAre DEF SqlTypes, CharTypes, WideTypes, BinaryTypes, DateTimes, ExactTypes, IntTypes, FloatTypes
<1>1. t \in DateTimes \/ t \in Intervals
  BY <1>0 DEF GetNonConciseDataType
<1>2. CASE t \in DateTimes
  <2>1. u \in DateTimes
    BY <1>0, <1>2 DEF GetNonConciseDataType
  <2> QED BY <1>2, <2>1 DEF DateTimes, GetSqlDateTimeSubCode, SubCode
<1>3. CASE t \in Intervals
  <2>1. u \in Intervals /\ t \notin DateTimes
    BY <1>0, <1>3 DEF GetNonConciseDataType, Intervals
  <2> QED BY <1>3, <2>1, SubCodesDiffer
<1> QED BY <1>1, <1>2, <1>3

LEMMA ColumnTypesAreSqlTypes == SqlTypesOfColumns \subseteq SqlTypes \ {"9", "10", "11"}
BY IntervalsAre DEF SqlTypesOfColumns, SqlTypes, CharTypes, WideTypes, BinaryTypes, DateTimes,
   ExactTypes, IntTypes, FloatTypes

LEMMA VersionsRoundTrip ==
    ASSUME NEW t \in SqlTypesOfColumns
    PROVE  GetSqlTypeForODBCVersion(GetSqlTypeForODBCVersion(t, TRUE), FALSE) = t
<1>1. CASE t \in DateTimes
  BY <1>1 DEF GetSqlTypeForODBCVersion, DateTimes, V2Number
<1>2. CASE t \notin DateTimes
  BY <1>2, ColumnTypesAreSqlTypes DEF GetSqlTypeForODBCVersion
<1> QED BY <1>1, <1>2

LEMMA OctetsAre ==
    /\ DOMAIN OctetsOf = {"TINYINT", "BIT", "SMALLINT", "INTEGER", "BIGINT", "FLOAT", "DOUBLE",
                          "TYPE_DATE", "TYPE_TIME", "TYPE_TIMESTAMP", "GUID"}
    /\ \A t \in DOMAIN OctetsOf : OctetsOf[t] \in Nat
BY DEF OctetsOf

LEMMA OctetLengths ==
    ASSUME NEW t, NEW size, NEW digits
    PROVE  /\ t \in CharTypes \cup BinaryTypes => GetCharOctetLength(t, size, digits) = size
           /\ t \in WideTypes => GetCharOctetLength(t, size, digits) = Scaled(size, mode.size)
           /\ t \in DOMAIN OctetsOf => GetCharOctetLength(t, size, digits) = OctetsOf[t]
<1> USE DEF CharTypes, BinaryTypes, WideTypes, ExactTypes
<1>1. CASE t \in CharTypes \cup BinaryTypes \cup WideTypes
  BY <1>1, OctetsAre, IntervalsAre DEF GetCharOctetLength
<1>2. CASE t \in DOMAIN OctetsOf
  BY <1>2, OctetsAre, IntervalsAre DEF GetCharOctetLength
<1> QED BY <1>1, <1>2
(* The octets of a text are its characters times their size. *)
LEMMA OctetsOfText ==
    ASSUME NEW f \in Fields, NEW n \in ColumnLengths \cup {None}, mode \in Modes,
           Metadata(f, n).conciseType \in CharTypes \cup WideTypes
    PROVE  Metadata(f, n).octetLength
             = Metadata(f, n).length
                 * (IF Metadata(f, n).conciseType \in WideTypes THEN mode.size ELSE 1)
<1> DEFINE t == GetDataTypeFromArrowField_V3(f.type)
           size == ColumnSizeOf(f, n)
<1>1. size \in Nat /\ size # None
  <2>1. n \in Nat \cup {None} /\ f.precision \in Nat \cup {None}
    <3>1. Precisions \subseteq Nat /\ ColumnLengths \subseteq Nat
      BY ColumnAssumption
    <3>2. f.precision \in Precisions \cup {None}
      BY DEF Fields
    <3> QED BY <3>1, <3>2
  <2> QED BY <2>1 DEF ColumnSizeOf, Or, None, DefaultLength
<1>2. mode.size \in {2, 4}
  BY ColumnAssumption
<1>3. /\ Metadata(f, n).conciseType = t
      /\ Metadata(f, n).octetLength = Or(GetCharOctetLength(t, size, f.digits), DefaultLength)
      /\ Metadata(f, n).length = Or(GetLength(t, size), DefaultLength)
  BY DEF Metadata
<1>4. Metadata(f, n).length = size
  BY <1>1, <1>3 DEF GetLength, Or
<1>5. CASE t \in WideTypes
  <2>1. size * mode.size # None
    BY <1>1, <1>2 DEF None
  <2>2. GetCharOctetLength(t, size, f.digits) = size * mode.size
    BY <1>1, <1>5, OctetLengths DEF Scaled
  <2> QED BY <1>3, <1>4, <1>5, <2>1, <2>2 DEF Or
<1>6. CASE t \in CharTypes /\ t \notin WideTypes
  BY <1>1, <1>3, <1>4, <1>6, OctetLengths DEF Or
<1> QED BY <1>3, <1>5, <1>6

LEMMA TypesHaveNames ==
    ASSUME NEW t \in SqlTypesOfColumns PROVE GetTypeNameFromSqlDataType(t) = t /\ t # Throws
BY ColumnTypesAreSqlTypes DEF GetTypeNameFromSqlDataType, Throws, SqlTypesOfColumns

-----------------------------------------------------------------------------
(* The default C type. *)

(* What both ways to the default C type lead to: for a bound column from the Arrow
   type, for SQLGetData over the SQL type of the descriptor. *)
DefaultCType ==
    [STRING |-> DefaultCChar, INT8 |-> "C_STINYINT", UINT8 |-> "C_UTINYINT", INT16 |-> "C_SSHORT",
     UINT16 |-> "C_USHORT", INT32 |-> "C_SLONG", UINT32 |-> "C_ULONG", INT64 |-> "C_SBIGINT",
     UINT64 |-> "C_UBIGINT", DOUBLE |-> "C_DOUBLE", BINARY |-> "C_BINARY", DATE32 |-> "C_DATE",
     DATE64 |-> "C_DATE", TIME32 |-> "C_TIME", TIME64 |-> "C_TIME", TIMESTAMP |-> "C_TIMESTAMP"]

LEMMA DefaultedTypes ==
    ASSUME NEW a \in Convertible, ~DefaultDisagrees(a)
    PROVE  a \in DOMAIN DefaultCType
<1>1. {ArrowOfC[c] : c \in CTypes} \subseteq
        {"STRING", "INT16", "UINT16", "INT32", "UINT32", "FLOAT", "DOUBLE", "BOOL", "INT8",
         "UINT8", "INT64", "UINT64", "BINARY", "DECIMAL128", "TIMESTAMP", "TIME64", "DATE64"}
  BY DEF CTypes, ArrowOfC
<1> QED BY <1>1 DEF Convertible, DefaultDisagrees, DefaultCType

LEMMA BoundDefault ==
    ASSUME NEW a \in DOMAIN DefaultCType PROVE BoundType(a, "C_DEFAULT") = DefaultCType[a]
<1>1. CASE a \in {"STRING", "DATE32", "TIME32"}
  <2>1. \A c \in CTypes : ArrowOfC[c] \notin {"DATE32", "TIME32"}
    BY DEF CTypes, ArrowOfC
  <2> QED BY <1>1, <2>1 DEF BoundType, ConvertArrowTypeToC, DefaultCType
<1>2. CASE a \notin {"STRING", "DATE32", "TIME32"}
  <2>1. /\ DefaultCType[a] \in CTypes /\ ArrowOfC[DefaultCType[a]] = a
        /\ \A c \in CTypes : ArrowOfC[c] = a => c = DefaultCType[a]
    BY <1>2 DEF DefaultCType, CTypes, ArrowOfC
  <2>2. (CHOOSE c \in CTypes : ArrowOfC[c] = a) = DefaultCType[a]
    BY <2>1
  <2> QED BY <1>2, <2>1, <2>2 DEF BoundType, ConvertArrowTypeToC
<1> QED BY <1>1, <1>2

DefaultSqlType ==
    [STRING |-> DefaultSqlVarchar, INT8 |-> "TINYINT", UINT8 |-> "TINYINT", INT16 |-> "SMALLINT",
     UINT16 |-> "SMALLINT", INT32 |-> "INTEGER", UINT32 |-> "INTEGER", INT64 |-> "BIGINT",
     UINT64 |-> "BIGINT", DOUBLE |-> "DOUBLE", BINARY |-> "BINARY", DATE32 |-> "TYPE_DATE",
     DATE64 |-> "TYPE_DATE", TIME32 |-> "TYPE_TIME", TIME64 |-> "TYPE_TIME",
     TIMESTAMP |-> "TYPE_TIMESTAMP"]

LEMMA DefaultSql ==
    ASSUME NEW a \in DOMAIN DefaultCType
    PROVE  GetDataTypeFromArrowField_V3(a) = DefaultSqlType[a]
BY DEF DefaultCType, DefaultSqlType, GetDataTypeFromArrowField_V3, SqlTypeOfArrow

LEMMA VersionOfType ==
    ASSUME NEW t \in SqlTypesOfColumns, NEW v2 \in BOOLEAN
    PROVE  GetSqlTypeForODBCVersion(t, v2) \in {t} \cup {V2Number[d] : d \in DateTimes \cap {t}}
<1>1. t \notin {"9", "10", "11"}
  BY ColumnTypesAreSqlTypes
<1> QED BY <1>1 DEF GetSqlTypeForODBCVersion

LEMMA CTypesOfSqlTypes ==
    ASSUME NEW t, NEW unsigned \in BOOLEAN
    PROVE  /\ t = "VARCHAR" => getCTypeForSQLType(t, unsigned) = "C_CHAR"
           /\ t = "WVARCHAR" => getCTypeForSQLType(t, unsigned) = "C_WCHAR"
           /\ t = "BINARY" => getCTypeForSQLType(t, unsigned) = "C_BINARY"
           /\ t = "TINYINT" => getCTypeForSQLType(t, unsigned) =
                IF unsigned THEN "C_UTINYINT" ELSE "C_STINYINT"
           /\ t = "SMALLINT" => getCTypeForSQLType(t, unsigned) =
                IF unsigned THEN "C_USHORT" ELSE "C_SSHORT"
           /\ t = "INTEGER" => getCTypeForSQLType(t, unsigned) =
                IF unsigned THEN "C_ULONG" ELSE "C_SLONG"
           /\ t = "BIGINT" => getCTypeForSQLType(t, unsigned) =
                IF unsigned THEN "C_UBIGINT" ELSE "C_SBIGINT"
           /\ t = "DOUBLE" => getCTypeForSQLType(t, unsigned) = "C_DOUBLE"
           /\ t \in {"9", "TYPE_DATE"} => getCTypeForSQLType(t, unsigned) = "C_DATE"
           /\ t \in {"10", "TYPE_TIME"} => getCTypeForSQLType(t, unsigned) = "C_TIME"
           /\ t \in {"11", "TYPE_TIMESTAMP"} => getCTypeForSQLType(t, unsigned) = "C_TIMESTAMP"
BY IntervalsAre DEF getCTypeForSQLType, CharTypes, WideTypes, BinaryTypes

LEMMA DataDefault ==
    ASSUME NEW a \in DOMAIN DefaultCType, NEW t,
           t \in {DefaultSqlType[a]} \cup {V2Number[d] : d \in DateTimes \cap {DefaultSqlType[a]}}
    PROVE  getCTypeForSQLType(t, a \in Unsigned) = DefaultCType[a]
<1> DEFINE u == DefaultSqlType[a]
<1>0. (a \in Unsigned) \in BOOLEAN
  OBVIOUS
<1>1. CASE u \notin DateTimes
  <2>1. t = u
    BY <1>1
  <2>2. /\ a = "STRING" => u = DefaultSqlVarchar /\ DefaultCType[a] = DefaultCChar
        /\ a = "BINARY" => u = "BINARY" /\ DefaultCType[a] = "C_BINARY"
        /\ a = "DOUBLE" => u = "DOUBLE" /\ DefaultCType[a] = "C_DOUBLE"
        /\ a = "INT8" => u = "TINYINT" /\ DefaultCType[a] = "C_STINYINT"
        /\ a = "UINT8" => u = "TINYINT" /\ DefaultCType[a] = "C_UTINYINT"
        /\ a = "INT16" => u = "SMALLINT" /\ DefaultCType[a] = "C_SSHORT"
        /\ a = "UINT16" => u = "SMALLINT" /\ DefaultCType[a] = "C_USHORT"
        /\ a = "INT32" => u = "INTEGER" /\ DefaultCType[a] = "C_SLONG"
        /\ a = "UINT32" => u = "INTEGER" /\ DefaultCType[a] = "C_ULONG"
        /\ a = "INT64" => u = "BIGINT" /\ DefaultCType[a] = "C_SBIGINT"
        /\ a = "UINT64" => u = "BIGINT" /\ DefaultCType[a] = "C_UBIGINT"
    BY DEF DefaultCType, DefaultSqlType
  <2>3. a \in {"STRING", "BINARY", "DOUBLE", "INT8", "UINT8", "INT16", "UINT16", "INT32", "UINT32",
               "INT64", "UINT64"}
    BY <1>1 DEF DefaultCType, DefaultSqlType, DateTimes
  <2>4. CASE a = "STRING"
    <3>1. t = DefaultSqlVarchar /\ DefaultCType[a] = DefaultCChar
      BY <2>1, <2>2, <2>4
    <3>2. \/ DefaultSqlVarchar = "VARCHAR" /\ DefaultCChar = "C_CHAR"
          \/ DefaultSqlVarchar = "WVARCHAR" /\ DefaultCChar = "C_WCHAR"
      BY DEF DefaultSqlVarchar, DefaultCChar
    <3> QED BY <1>0, <3>1, <3>2, CTypesOfSqlTypes
  <2>5. CASE a = "BINARY"
    <3>1. t = "BINARY" /\ DefaultCType[a] = "C_BINARY"
      BY <2>1, <2>2, <2>5
    <3> QED BY <1>0, <3>1, CTypesOfSqlTypes
  <2>6. CASE a = "DOUBLE"
    <3>1. t = "DOUBLE" /\ DefaultCType[a] = "C_DOUBLE"
      BY <2>1, <2>2, <2>6
    <3> QED BY <1>0, <3>1, CTypesOfSqlTypes
  <2>7. CASE a \in {"INT8", "INT16", "INT32", "INT64"}
    <3>1. ~(a \in Unsigned)
      BY <2>7 DEF Unsigned
    <3>2. \/ t = "TINYINT" /\ DefaultCType[a] = "C_STINYINT"
          \/ t = "SMALLINT" /\ DefaultCType[a] = "C_SSHORT"
          \/ t = "INTEGER" /\ DefaultCType[a] = "C_SLONG"
          \/ t = "BIGINT" /\ DefaultCType[a] = "C_SBIGINT"
      BY <2>1, <2>2, <2>7
    <3> QED BY <1>0, <3>1, <3>2, CTypesOfSqlTypes
  <2>8. CASE a \in {"UINT8", "UINT16", "UINT32", "UINT64"}
    <3>1. a \in Unsigned
      BY <2>8 DEF Unsigned
    <3>2. \/ t = "TINYINT" /\ DefaultCType[a] = "C_UTINYINT"
          \/ t = "SMALLINT" /\ DefaultCType[a] = "C_USHORT"
          \/ t = "INTEGER" /\ DefaultCType[a] = "C_ULONG"
          \/ t = "BIGINT" /\ DefaultCType[a] = "C_UBIGINT"
      BY <2>1, <2>2, <2>8
    <3> QED BY <1>0, <3>1, <3>2, CTypesOfSqlTypes
  <2> QED BY <2>3, <2>4, <2>5, <2>6, <2>7, <2>8
<1>2. CASE u \in DateTimes
  <2>1. t \in {u, V2Number[u]}
    BY <1>2
  <2>2. V2Number["TYPE_DATE"] = "9" /\ V2Number["TYPE_TIME"] = "10" /\ V2Number["TYPE_TIMESTAMP"] = "11"
    BY DEF V2Number
  <2>3. /\ u = "TYPE_DATE" => DefaultCType[a] = "C_DATE"
        /\ u = "TYPE_TIME" => DefaultCType[a] = "C_TIME"
        /\ u = "TYPE_TIMESTAMP" => DefaultCType[a] = "C_TIMESTAMP"
    BY DEF DefaultCType, DefaultSqlType, DefaultSqlVarchar
  <2>4. CASE u = "TYPE_DATE"
    <3>1. t \in {"9", "TYPE_DATE"}
      BY <2>1, <2>2, <2>4
    <3> QED BY <1>0, <3>1, <2>3, <2>4, CTypesOfSqlTypes
  <2>5. CASE u = "TYPE_TIME"
    <3>1. t \in {"10", "TYPE_TIME"}
      BY <2>1, <2>2, <2>5
    <3> QED BY <1>0, <3>1, <2>3, <2>5, CTypesOfSqlTypes
  <2>6. CASE u = "TYPE_TIMESTAMP"
    <3>1. t \in {"11", "TYPE_TIMESTAMP"}
      BY <2>1, <2>2, <2>6
    <3> QED BY <1>0, <3>1, <2>3, <2>6, CTypesOfSqlTypes
  <2> QED BY <1>2, <2>4, <2>5, <2>6 DEF DateTimes
<1> QED BY <1>1, <1>2

LEMMA DefaultsAgree ==
    ASSUME NEW f \in Fields, NEW n, NEW v2 \in BOOLEAN, f.type \in Convertible, ~DefaultDisagrees(f.type)
    PROVE  BoundType(f.type, "C_DEFAULT") = GetDataType(IrdRecord(f, n, v2), "C_DEFAULT")
<1> DEFINE t == GetSqlTypeForODBCVersion(DefaultSqlType[f.type], v2)
<1>1. f.type \in DOMAIN DefaultCType
  BY DefaultedTypes
<1>2. /\ IrdRecord(f, n, v2).conciseType = t
      /\ IrdRecord(f, n, v2).unsigned = (f.type \in Unsigned)
  BY <1>1, DefaultSql DEF IrdRecord, Metadata
<1>3. t \in {DefaultSqlType[f.type]} \cup {V2Number[d] : d \in DateTimes \cap {DefaultSqlType[f.type]}}
  BY <1>1, DefaultSql, SqlTypeIs, VersionOfType
<1> QED BY <1>1, <1>2, <1>3, BoundDefault, DataDefault DEF GetDataType

LEMMA DefaultsFit ==
    ASSUME NEW f \in Fields, NEW n \in ColumnLengths \cup {None},
           f.type \in Convertible, ~DefaultDisagrees(f.type)
    PROVE  BoundType(f.type, "C_DEFAULT") \in DOMAIN CSize =>
             CSize[BoundType(f.type, "C_DEFAULT")] <= Metadata(f, n).octetLength
<1> DEFINE t == DefaultSqlType[f.type]
<1>1. f.type \in DOMAIN DefaultCType
  BY DefaultedTypes
<1>2. Metadata(f, n).octetLength = Or(GetCharOctetLength(t, ColumnSizeOf(f, n), f.digits), DefaultLength)
  BY <1>1, DefaultSql DEF Metadata
<1>3. CASE f.type \in {"STRING", "BINARY"}
  BY <1>1, <1>3, BoundDefault DEF DefaultCType, DefaultCChar, CSize
<1>4. CASE f.type \notin {"STRING", "BINARY"}
  <2>1. t \in DOMAIN OctetsOf /\ CSize[DefaultCType[f.type]] <= OctetsOf[t] /\ OctetsOf[t] # None
    BY <1>1, <1>4 DEF DefaultCType, DefaultSqlType, OctetsOf, CSize, None
  <2>3. GetCharOctetLength(t, ColumnSizeOf(f, n), f.digits) = OctetsOf[t]
    BY <2>1, OctetLengths
  <2> QED BY <1>1, <1>2, <2>1, <2>3, BoundDefault DEF Or
<1> QED BY <1>3, <1>4

LEMMA ColumnsDescribedHere ==
    ASSUME NEW f \in Fields, NEW n \in ColumnLengths \cup {None}, mode \in Modes
    PROVE  ColumnsDescribedOf(f, n)
<1> DEFINE t == GetDataTypeFromArrowField_V3(f.type)
<1>1. t \in SqlTypesOfColumns /\ t \in SqlTypes
  BY SqlTypeIs, ColumnTypesAreSqlTypes
<1>2. Metadata(f, n).conciseType = t /\ Metadata(f, n).dataType = GetNonConciseDataType(t)
  BY DEF Metadata
<1> QED BY <1>1, <1>2, VerboseTypes, VersionsRoundTrip, OctetsOfText, TypesHaveNames, DefaultsAgree,
           DefaultsFit DEF ColumnsDescribedOf

-----------------------------------------------------------------------------
(* The catalog functions. *)

LEMMA ToldIsTheDescriptors ==
    ASSUME NEW f \in Fields, NEW n, NEW v2 \in BOOLEAN
    PROVE  DataTypeTold(GetDataTypeFromArrowField_V3(f.type), v2) = IrdRecord(f, n, v2).conciseType
<1> DEFINE t == GetDataTypeFromArrowField_V3(f.type)
<1>1. IrdRecord(f, n, v2).conciseType = GetSqlTypeForODBCVersion(t, v2)
  BY DEF IrdRecord, Metadata
<1>2. t \notin {"9", "10", "11"}
  BY SqlTypeIs, ColumnTypesAreSqlTypes
<1> QED BY <1>1, <1>2 DEF DataTypeTold, ConvertSqlDataTypeFromV3ToV2, GetSqlTypeForODBCVersion

LEMMA RightCharTypes ==
    ASSUME NEW u \in SqlTypes
    PROVE  /\ EnsureRightSqlCharType(u) \in SqlTypes
           /\ EnsureRightSqlCharType(u) \in DateTimes \cup Intervals => EnsureRightSqlCharType(u) = u
           /\ u \in DateTimes \cup Intervals => EnsureRightSqlCharType(u) = u
           /\ u \notin {"CHAR", "WCHAR", "VARCHAR", "WVARCHAR"} => EnsureRightSqlCharType(u) = u
<1>1. SqlTypes \cap {"CHAR", "WCHAR", "VARCHAR", "WVARCHAR"} = {"CHAR", "WCHAR", "VARCHAR", "WVARCHAR"}
  BY DEF SqlTypes, CharTypes, WideTypes
<1>2. (DateTimes \cup Intervals) \cap {"CHAR", "WCHAR", "VARCHAR", "WVARCHAR"} = {}
  BY IntervalsAre DEF DateTimes
<1> QED BY <1>1, <1>2 DEF EnsureRightSqlCharType, DefaultSqlChar, DefaultSqlVarchar

LEMMA ColumnTypesAreRight ==
    ASSUME NEW a
    PROVE  EnsureRightSqlCharType(GetDataTypeFromArrowField_V3(a)) = GetDataTypeFromArrowField_V3(a)
<1> DEFINE t == GetDataTypeFromArrowField_V3(a)
<1>1. t \in {"CHAR", "WCHAR", "VARCHAR", "WVARCHAR"} => t = DefaultSqlVarchar
  <2>1. CASE a \in DOMAIN SqlTypeOfArrow
    BY <2>1 DEF GetDataTypeFromArrowField_V3, SqlTypeOfArrow, DefaultSqlVarchar
  <2>2. CASE a \notin DOMAIN SqlTypeOfArrow
    BY <2>2 DEF GetDataTypeFromArrowField_V3
  <2> QED BY <2>1, <2>2
<1> QED BY <1>1 DEF EnsureRightSqlCharType, DefaultSqlVarchar, DefaultSqlChar

(* SQLGetTypeInfo, asked for the type that is told of t, answers with rows for t. *)
LEMMA TypesFound ==
    ASSUME NEW t \in SqlTypes, EnsureRightSqlCharType(t) = t, NEW v2 \in BOOLEAN,
           NEW u \in SqlTypes,
           DataTypeTold(t, v2) \in {ALL_TYPES, EnsureRightSqlCharType(u),
                                    ConvertSqlDataTypeFromV3ToV2(EnsureRightSqlCharType(u))}
    PROVE  EnsureRightSqlCharType(u) = t
<1> DEFINE w == EnsureRightSqlCharType(u)
<1>1. SqlTypes \cap {"9", "10", "11", ALL_TYPES} = {}
  BY IntervalsAre DEF SqlTypes, CharTypes, WideTypes, BinaryTypes, DateTimes, ExactTypes, IntTypes,
     FloatTypes, ALL_TYPES
<1>2. /\ \A d \in DateTimes : V2Number[d] \in {"9", "10", "11"}
      /\ \A d, e \in DateTimes : V2Number[d] = V2Number[e] => d = e
  BY DEF DateTimes, V2Number
<1>3. w \in SqlTypes
  BY RightCharTypes
<1>4. DataTypeTold(t, v2) \in {t, V2Number[t]} /\ (DataTypeTold(t, v2) # t => t \in DateTimes)
  BY DEF DataTypeTold, ConvertSqlDataTypeFromV3ToV2
<1>5. ConvertSqlDataTypeFromV3ToV2(w) = IF w \in DateTimes THEN V2Number[w] ELSE w
  BY DEF ConvertSqlDataTypeFromV3ToV2
<1>6. DataTypeTold(t, v2) # ALL_TYPES
  BY <1>1, <1>2, <1>4 DEF ALL_TYPES
<1>7. CASE DataTypeTold(t, v2) = t
  BY <1>1, <1>2, <1>3, <1>5, <1>6, <1>7
<1>8. CASE DataTypeTold(t, v2) = V2Number[t] /\ t \in DateTimes
  BY <1>1, <1>2, <1>3, <1>5, <1>6, <1>8
<1> QED BY <1>4, <1>7, <1>8

LEMMA VerboseIsRight ==
    ASSUME NEW u \in SqlTypes
    PROVE  EnsureRightSqlCharType(GetNonConciseDataType(u)) = GetNonConciseDataType(EnsureRightSqlCharType(u))
<1>1. CASE u \in DateTimes \cup Intervals
  BY <1>1, RightCharTypes DEF GetNonConciseDataType, EnsureRightSqlCharType
<1>2. CASE u \notin DateTimes \cup Intervals
  BY <1>2, RightCharTypes DEF GetNonConciseDataType
<1> QED BY <1>1, <1>2

TypeInfoRow(u, v2) ==
    [dataType    |-> DataTypeTold(EnsureRightSqlCharType(u), v2),
     sqlDataType |-> EnsureRightSqlCharType(GetNonConciseDataType(u)),
     subCode     |-> GetSqlDateTimeSubCode(DataTypeTold(EnsureRightSqlCharType(u), v2))]

Server == {[dataType |-> u, sqlDataType |-> GetNonConciseDataType(u)] : u \in SqlTypes}

AskedFor(asked, u) ==
    asked \in {ALL_TYPES, EnsureRightSqlCharType(u),
               ConvertSqlDataTypeFromV3ToV2(EnsureRightSqlCharType(u))}

LEMMA TypeInfoIs ==
    ASSUME NEW asked, NEW v2 \in BOOLEAN, NEW r
    PROVE  r \in GetTypeInfo(Server, asked, v2)
             <=> \E u \in SqlTypes : AskedFor(asked, u) /\ r = TypeInfoRow(u, v2)
<1> DEFINE Made(p) ==
        [dataType    |-> DataTypeTold(EnsureRightSqlCharType(p.dataType), v2),
         sqlDataType |-> EnsureRightSqlCharType(p.sqlDataType),
         subCode     |-> GetSqlDateTimeSubCode(DataTypeTold(EnsureRightSqlCharType(p.dataType), v2))]
<1>1. r \in GetTypeInfo(Server, asked, v2)
        <=> \E p \in Server : AskedFor(asked, p.dataType) /\ r = Made(p)
  BY DEF GetTypeInfo, AskedFor
<1>2. ASSUME NEW p \in Server, AskedFor(asked, p.dataType), r = Made(p)
      PROVE  \E u \in SqlTypes : AskedFor(asked, u) /\ r = TypeInfoRow(u, v2)
  <2>1. PICK u \in SqlTypes : p = [dataType |-> u, sqlDataType |-> GetNonConciseDataType(u)]
    BY DEF Server
  <2>2. p.dataType = u /\ p.sqlDataType = GetNonConciseDataType(u)
    BY <2>1
  <2> QED BY <1>2, <2>2 DEF TypeInfoRow
<1>3. ASSUME NEW u \in SqlTypes, AskedFor(asked, u), r = TypeInfoRow(u, v2)
      PROVE  \E p \in Server : AskedFor(asked, p.dataType) /\ r = Made(p)
  <2> DEFINE p == [dataType |-> u, sqlDataType |-> GetNonConciseDataType(u)]
  <2>1. p \in Server /\ p.dataType = u /\ p.sqlDataType = GetNonConciseDataType(u)
    BY DEF Server
  <2>2. r = Made(p)
    BY <1>3, <2>1 DEF TypeInfoRow
  <2> HIDE DEF p
  <2> QED BY <1>3, <2>1, <2>2
<1> QED BY <1>1, <1>2, <1>3

LEMMA CatalogAgreesHere ==
    ASSUME NEW f \in Fields, NEW v2 \in BOOLEAN
    PROVE  CatalogAgreesOn(f, v2)
<1> DEFINE t == GetDataTypeFromArrowField_V3(f.type)
           row == GetColumnsRow(f, v2, FALSE)
           found == GetTypeInfo(Server, row.dataType, v2)
<1>1. /\ row.dataType = DataTypeTold(t, v2) /\ row.typeName = GetTypeNameFromSqlDataType(t)
      /\ row.octetLength = GetCharOctetLength(t, f.precision, 0)
      /\ row.bufferLength = GetBufferLength(t, f.precision)
      /\ row.sqlDataType = GetNonConciseDataType(t)
      /\ row.subCode = GetSqlDateTimeSubCode(t)
  BY DEF GetColumnsRow
<1>2. t \in SqlTypesOfColumns /\ t \in SqlTypes /\ EnsureRightSqlCharType(t) = t
  BY SqlTypeIs, ColumnTypesAreSqlTypes, ColumnTypesAreRight
<1>3. row.dataType = IrdRecord(f, None, v2).conciseType
  BY <1>1, ToldIsTheDescriptors
<1>4. row.typeName = t
  BY <1>1, <1>2, TypesHaveNames
<1>5. ASSUME NEW r \in found
      PROVE  r.dataType = row.dataType /\ r.sqlDataType = row.sqlDataType /\ (~v2 => r.subCode = row.subCode)
  <2>0. \A asked : r \in GetTypeInfo(Server, asked, v2)
           => \E u \in SqlTypes : AskedFor(asked, u) /\ r = TypeInfoRow(u, v2)
    BY TypeInfoIs
  <2>1. PICK u \in SqlTypes : AskedFor(row.dataType, u) /\ r = TypeInfoRow(u, v2)
    BY <1>5, <2>0
  <2>2. EnsureRightSqlCharType(u) = t
    BY <1>1, <1>2, <2>1, TypesFound DEF AskedFor
  <2>3. EnsureRightSqlCharType(GetNonConciseDataType(u)) = GetNonConciseDataType(t)
    BY <2>2, VerboseIsRight
  <2>4. ~v2 => DataTypeTold(t, v2) = t
    BY DEF DataTypeTold
  <2> QED BY <1>1, <2>1, <2>2, <2>3, <2>4 DEF TypeInfoRow
<1>6. found # {}
  <2>1. AskedFor(row.dataType, t)
    BY <1>1, <1>2 DEF DataTypeTold, AskedFor
  <2> QED BY <1>2, <2>1, TypeInfoIs
<1>7. ASSUME f.precision # None
      PROVE  /\ t \notin ExactTypes => row.octetLength \in {None, Metadata(f, None).octetLength}
             /\ row.bufferLength \in {None, Metadata(f, None).precision}
  <2>1. ColumnSizeOf(f, None) = f.precision /\ Or(f.precision, 0) = f.precision
    BY <1>7 DEF ColumnSizeOf, Or
  <2>2. Metadata(f, None).octetLength = Or(GetCharOctetLength(t, f.precision, f.digits), DefaultLength)
    BY <2>1 DEF Metadata
  <2>3. Metadata(f, None).precision = Or(GetColumnSize(t, f.precision), 0)
    BY <2>1 DEF Metadata
  <2>4. row.bufferLength = GetColumnSize(t, f.precision)
    BY <1>1 DEF GetBufferLength
  <2>5. t \notin ExactTypes =>
          GetCharOctetLength(t, f.precision, f.digits) = GetCharOctetLength(t, f.precision, 0)
    BY DEF GetCharOctetLength
  <2> QED BY <1>1, <2>2, <2>3, <2>4, <2>5 DEF Or
<1> QED BY <1>3, <1>4, <1>5, <1>6, <1>7 DEF CatalogAgreesOn, Server

-----------------------------------------------------------------------------

(* The type tables are the same in every mode, but for wide and narrow characters. *)
LEMMA ArrowTypesStay == ArrowTypes' = ArrowTypes
BY DEF ArrowTypes, SqlTypeOfArrow, ComplexTypes, OtherTypes

(* Columns: typing. *)
THEOREM ColumnTyping == ColumnSpec => []ColumnTypeOK
<1>1. ColumnInit => ColumnTypeOK
  BY DEF ColumnInit, ColumnTypeOK
<1>2. ColumnCalls' = ColumnCalls
  BY ArrowTypesStay DEF ColumnCalls, Fields, None
<1>3. ColumnTypeOK /\ [DescribeColumn]_columnVars => ColumnTypeOK'
  BY <1>2 DEF ColumnTypeOK, DescribeColumn, columnVars
<1> QED BY <1>1, <1>3, PTL DEF ColumnSpec

(* Every column that can be described is described consistently. *)
LEMMA ColumnsOfEveryKind == ColumnTypeOK => ColumnsDescribed /\ CatalogAgrees
<1> SUFFICES ASSUME mode \in Modes, column \in ColumnCalls
             PROVE  ColumnsDescribed /\ CatalogAgrees
  BY DEF ColumnTypeOK, ColumnsDescribed, CatalogAgrees
<1>1. /\ column.field \in Fields /\ column.field.type \in ArrowTypes
      /\ column.length \in ColumnLengths \cup {None} /\ column.isOdbc2x \in BOOLEAN
  BY DEF ColumnCalls, Fields
<1> QED BY <1>1, TablesAgree, ColumnsDescribedHere, CatalogAgreesHere
        DEF ColumnsDescribed, CatalogAgrees

(* For every type, precision, scale and length a server may tell, in every mode
   of the connection, the type tables agree with each other and the descriptor
   fields of a column fit together. (utils.cc, FlightSqlResultSetMetadata) *)
THEOREM ColumnsFit == ColumnSpec => []ColumnsDescribed
BY ColumnsOfEveryKind, ColumnTyping, PTL

(* For every column, in both versions of ODBC, SQLColumns and SQLGetTypeInfo say
   what the descriptor of a result says. (Transform_inner of both files) *)
THEOREM CatalogTellsTheSame == ColumnSpec => []CatalogAgrees
BY ColumnsOfEveryKind, ColumnTyping, PTL
=============================================================================
