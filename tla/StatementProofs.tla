---------------------------- MODULE StatementProofs ----------------------------
(***************************************************************************)
(* Proofs about Statement for any statements, descriptors and buffers.     *)
(***************************************************************************)
EXTENDS Statement, TLAPS

LEMMA BuiltIns ==
  ASSUME NEW s \in Stmts
  PROVE  /\ m_builtInApd(s) \in Descriptors /\ m_builtInArd(s) \in Descriptors
         /\ m_builtInApd(s) \notin Descs /\ m_builtInArd(s) \notin Descs
  BY StatementAssumption DEF m_builtInApd, m_builtInArd, Descriptors, Implicit

LEMMA NewTypes ==
  /\ NewDescriptor \in DescRecords
  /\ \A s \in Stmts : NewStatement(s) \in StmtRecords
  /\ NewResult \in Results /\ NewResult # None
  <1>1. NewDescriptor \in DescRecords
    BY DEF NewDescriptor, DescRecords
  <1>2. ASSUME NEW s \in Stmts PROVE NewStatement(s) \in StmtRecords
    BY BuiltIns DEF NewStatement, StmtRecords
  <1>3. NewResult \in Results
    BY DEF NewResult, Results
  <1>4. NewResult # None
    BY <1>3, StatementAssumption
  <1> QED BY <1>1, <1>2, <1>3, <1>4

(* What the calls do to one record keeps its type. *)
LEMMA StmtUpdates ==
  ASSUME NEW st \in StmtRecords
  PROVE  /\ \A b \in BOOLEAN : [st EXCEPT !.prepared = b] \in StmtRecords
         /\ [st EXCEPT !.isPrepared = TRUE, !.prepared = TRUE] \in StmtRecords
         /\ Closed(st) \in StmtRecords
         /\ \A d \in Descriptors : [st EXCEPT !.ard = d] \in StmtRecords
         /\ \A d \in Descriptors : [st EXCEPT !.apd = d] \in StmtRecords
         /\ \A r \in Results : [st EXCEPT !.result = r, !.ended = FALSE] \in StmtRecords
         /\ \A r \in Results : [st EXCEPT !.result = r, !.ended = FALSE, !.isPrepared = FALSE,
                                          !.prepared = FALSE] \in StmtRecords
         /\ \A r \in Results : [Closed(st) EXCEPT !.result = r, !.isPrepared = FALSE] \in StmtRecords
         /\ \A r \in Results : [st EXCEPT !.result = r] \in StmtRecords
         /\ \A r \in Results, n \in Nat, b \in BOOLEAN :
              [st EXCEPT !.result = r, !.rowNumber = n, !.ended = b] \in StmtRecords
  BY DEF StmtRecords, Closed

LEMMA DescUpdates ==
  ASSUME NEW d \in DescRecords, NEW b \in Buffers \union {None}, NEW c \in BOOLEAN, NEW S \in SUBSET Stmts
  PROVE  /\ [d EXCEPT !.changed = c] \in DescRecords
         /\ [d EXCEPT !.bound = b] \in DescRecords
         /\ [d EXCEPT !.bound = b, !.changed = c] \in DescRecords
         /\ [d EXCEPT !.asArd = S] \in DescRecords
         /\ [d EXCEPT !.asApd = S] \in DescRecords
  BY DEF DescRecords

LEMMA SetDesc ==
  ASSUME desc \in [Descriptors -> DescRecords], NEW d \in Descriptors, NEW r \in DescRecords,
         desc' = [desc EXCEPT ![d] = r]
  PROVE  desc' \in [Descriptors -> DescRecords]
  OBVIOUS

LEMMA Notified ==
  ASSUME desc \in [Descriptors -> DescRecords], NEW d \in Descriptors
  PROVE  NotifyBindingsHaveChanged(d) \in [Descriptors -> DescRecords]
  BY DescUpdates DEF NotifyBindingsHaveChanged

LEMMA StmtArd ==
  ASSUME stmt \in [Stmts -> StmtRecords], NEW s \in Stmts
  PROVE  stmt[s].ard \in Descriptors /\ stmt[s].apd \in Descriptors
  BY DEF StmtRecords

(* Types, and what the driver manager's view promises: SQLFetch extends a
   result, so the two are proved together.  Ready is SequenceHonoured for all
   statements: the ones not allocated have nothing open. *)
Ready ==
    \A s \in Stmts :
        /\ dm[s].prepared => stmt[s].isPrepared /\ stmt[s].prepared
        /\ dm[s].open => stmt[s].result # None

Sound == TypeOK /\ Ready

(* What SQLFetch does to a statement, whatever the result becomes. *)
LEMMA Refetched ==
  ASSUME Sound, NEW s \in Stmts, NEW r \in Results, NEW k \in Nat, NEW e \in BOOLEAN,
         \/ stmt' = [stmt EXCEPT ![s] = [stmt[s] EXCEPT !.result = r]]
         \/ stmt' = [stmt EXCEPT ![s] = [stmt[s] EXCEPT !.result = r, !.rowNumber = k, !.ended = e]]
  PROVE  /\ stmt' \in [Stmts -> StmtRecords]
         /\ \A t \in Stmts : /\ stmt'[t].isPrepared = stmt[t].isPrepared
                             /\ stmt'[t].prepared = stmt[t].prepared
                             /\ stmt[t].result # None => stmt'[t].result # None
  <1>1. r # None
    BY StatementAssumption
  <1>2. PICK st \in StmtRecords :
           /\ stmt' = [stmt EXCEPT ![s] = st]
           /\ st.isPrepared = stmt[s].isPrepared /\ st.prepared = stmt[s].prepared
           /\ st.result = r
    <2>0. stmt[s] \in StmtRecords
      BY DEF Sound, TypeOK
    <2>1. CASE stmt' = [stmt EXCEPT ![s] = [stmt[s] EXCEPT !.result = r]]
      <3> DEFINE st == [stmt[s] EXCEPT !.result = r]
      <3>1. st \in StmtRecords
        BY <2>0, StmtUpdates
      <3>2. /\ st.isPrepared = stmt[s].isPrepared /\ st.prepared = stmt[s].prepared
            /\ st.result = r
        BY <2>0 DEF StmtRecords
      <3> QED BY <2>1, <3>1, <3>2
    <2>2. CASE stmt' = [stmt EXCEPT ![s] = [stmt[s] EXCEPT !.result = r, !.rowNumber = k,
                                                          !.ended = e]]
      <3> DEFINE st == [stmt[s] EXCEPT !.result = r, !.rowNumber = k, !.ended = e]
      <3>1. st \in StmtRecords
        BY <2>0, StmtUpdates
      <3>2. /\ st.isPrepared = stmt[s].isPrepared /\ st.prepared = stmt[s].prepared
            /\ st.result = r
        BY <2>0 DEF StmtRecords
      <3> QED BY <2>2, <3>1, <3>2
    <2> QED BY <2>1, <2>2
  <1> QED BY <1>1, <1>2 DEF Sound, TypeOK

LEMMA SoundHandles ==
  ASSUME Sound, HandleStep
  PROVE  Sound'
  <1> USE DEF Sound, TypeOK, handles, history
  <1>1. ASSUME NEW s \in Stmts, AllocStmt(s) PROVE Sound'
    <2>1. TypeOK'
      BY <1>1 DEF AllocStmt
    <2>2. Ready'
      BY <1>1 DEF AllocStmt, Ready
    <2> QED BY <2>1, <2>2
  <1>2. ASSUME NEW s \in Stmts, FreeStmt(s) PROVE Sound'
    <2>1. desc' \in [Descriptors -> DescRecords]
      BY <1>2, Notified, NewTypes, StmtArd DEF FreeStmt
    <2>2. stmt' \in [Stmts -> StmtRecords]
      BY <1>2, NewTypes DEF FreeStmt
    <2>3. dm' \in [Stmts -> DmRecords]
      BY <1>2 DEF FreeStmt, DmRecords
    <2>4. TypeOK'
      BY <1>2, <2>1, <2>2, <2>3 DEF FreeStmt, dropStatement
    <2>5. Ready'
      BY <1>2 DEF FreeStmt, Ready
    <2> QED BY <2>4, <2>5
  <1>3. ASSUME NEW d \in Descs, AllocDesc(d) PROVE Sound'
    BY <1>3 DEF AllocDesc, Ready
  <1>4. ASSUME NEW d \in Descs, FreeDesc(d) PROVE Sound'
    <2>1. \A s \in Stmts : RevertAppDescriptor(s, d) \in StmtRecords
      BY BuiltIns DEF RevertAppDescriptor, StmtRecords
    <2>2. stmt' \in [Stmts -> StmtRecords]
      BY <1>4, <2>1 DEF FreeDesc
    <2>3. desc' \in [Descriptors -> DescRecords]
      BY <1>4, NewTypes DEF FreeDesc
    <2>4. \A s \in Stmts : /\ stmt'[s].isPrepared = stmt[s].isPrepared
                           /\ stmt'[s].prepared = stmt[s].prepared
                           /\ stmt'[s].result = stmt[s].result
      BY <1>4 DEF FreeDesc, RevertAppDescriptor, StmtRecords
    <2>5. Ready'
      BY <1>4, <2>4 DEF FreeDesc, Ready
    <2> QED BY <1>4, <2>2, <2>3, <2>5 DEF FreeDesc
  <1>5. ASSUME NEW s \in Stmts, NEW d \in Descriptors, SetArd(s, d) PROVE Sound'
    <2>1. desc' \in [Descriptors -> DescRecords]
      BY ZenonT(30), <1>5 DEF SetArd, DescRecords
    <2>2. stmt' \in [Stmts -> StmtRecords]
      BY <1>5, StmtUpdates DEF SetArd
    <2>3. Ready'
      BY <1>5 DEF SetArd, Ready, StmtRecords
    <2> QED BY <1>5, <2>1, <2>2, <2>3 DEF SetArd
  <1>6. ASSUME NEW s \in Stmts, NEW d \in Descriptors, SetApd(s, d) PROVE Sound'
    <2>1. desc' \in [Descriptors -> DescRecords]
      BY ZenonT(30), <1>6 DEF SetApd, DescRecords
    <2>2. stmt' \in [Stmts -> StmtRecords]
      BY <1>6, StmtUpdates DEF SetApd
    <2>3. Ready'
      BY <1>6 DEF SetApd, Ready, StmtRecords
    <2> QED BY <1>6, <2>1, <2>2, <2>3 DEF SetApd
  <1> QED
    BY <1>1, <1>2, <1>3, <1>4, <1>5, <1>6 DEF HandleStep

LEMMA SoundBindings ==
  ASSUME Sound, BindingStep
  PROVE  Sound'
  <1> USE DEF Sound, TypeOK, handles, history
  <1>1. ASSUME NEW d \in Descriptors, NEW b \in Buffers \union {None}, SetDataPtr(d, b)
        PROVE  Sound'
    <2>1. desc' \in [Descriptors -> DescRecords]
      BY <1>1, DescUpdates DEF SetDataPtr
    <2> QED BY <1>1, <2>1 DEF SetDataPtr, Ready
  <1>2. ASSUME NEW d \in Descriptors, SetHeaderField(d) PROVE Sound'
    <2>1. desc[d].bound \in Buffers \union {None}
      BY DEF DescRecords
    <2>2. desc' \in [Descriptors -> DescRecords]
      <3>1. PICK b \in {desc[d].bound, None} :
                   desc' = [desc EXCEPT ![d].bound = b, ![d].changed = TRUE]
        BY <1>2 DEF SetHeaderField
      <3>2. b \in Buffers \union {None}
        BY <2>1
      <3>3. desc' = [desc EXCEPT ![d] = [desc[d] EXCEPT !.bound = b, !.changed = TRUE]]
        BY <3>1
      <3>4. [desc[d] EXCEPT !.bound = b, !.changed = TRUE] \in DescRecords
        BY <3>2, DescUpdates
      <3> QED BY <3>3, <3>4
    <2> QED BY <1>2, <2>2 DEF SetHeaderField, Ready
  <1>3. ASSUME NEW src \in Descriptors, NEW dst \in Descriptors, CopyDesc(src, dst)
        PROVE  Sound'
    <2>1. desc[src].bound \in Buffers \union {None}
      BY DEF DescRecords
    <2>2. desc' \in [Descriptors -> DescRecords]
      BY <1>3, <2>1, DescUpdates DEF CopyDesc
    <2> QED BY <1>3, <2>2 DEF CopyDesc, Ready
  <1>4. ASSUME NEW s \in Stmts, Unbind(s) PROVE Sound'
    <2>1. desc' \in [Descriptors -> DescRecords]
      BY <1>4, DescUpdates, StmtArd DEF Unbind
    <2> QED BY <1>4, <2>1 DEF Unbind, Ready
  <1> QED
    BY <1>1, <1>2, <1>3, <1>4 DEF BindingStep

LEMMA SoundCursor ==
  ASSUME Sound, NEW s \in Stmts, CursorStep(s)
  PROVE  Sound'
  <1> USE DEF Sound, TypeOK, handles, history
  <1>d. ASSUME NEW p \in BOOLEAN, NEW o \in BOOLEAN
        PROVE  /\ [dm EXCEPT ![s] = [prepared |-> p, open |-> o]] \in [Stmts -> DmRecords]
               /\ [dm EXCEPT ![s].open = o] \in [Stmts -> DmRecords]
               /\ [dm EXCEPT ![s].prepared = p] \in [Stmts -> DmRecords]
    BY DEF DmRecords
  <1>1. CASE CloseCursor(s)
    <2>1. stmt' \in [Stmts -> StmtRecords] /\ dm' \in [Stmts -> DmRecords]
      BY <1>1, <1>d, StmtUpdates DEF CloseCursor
    <2>2. desc' \in [Descriptors -> DescRecords]
      BY <1>1, Notified, StmtArd DEF CloseCursor
    <2>3. Ready'
      BY <1>1 DEF CloseCursor, Closed, Ready, StmtRecords, DmRecords
    <2> QED BY <1>1, <2>1, <2>2, <2>3 DEF CloseCursor
  <1>2. CASE MoreResults(s)
    <2>1. dm' \in [Stmts -> DmRecords]
      BY <1>2, <1>d DEF MoreResults
    <2>2. Ready'
      BY <1>2 DEF MoreResults, Ready, DmRecords
    <2> QED BY <1>2, <2>1, <2>2 DEF MoreResults
  <1>3. CASE Prepare(s)
    <2>1. stmt' \in [Stmts -> StmtRecords] /\ dm' \in [Stmts -> DmRecords]
      BY <1>3, <1>d, StmtUpdates DEF Prepare
    <2>2. Ready'
      BY <1>3 DEF Prepare, Ready, StmtRecords, DmRecords
    <2> QED BY <1>3, <2>1, <2>2 DEF Prepare
  <1>4. CASE PrepareOrExecuteFails(s)
    <2>0. stmt[s].prepared \in BOOLEAN
      BY DEF StmtRecords
    <2>a. PICK kept \in BOOLEAN : stmt' = [stmt EXCEPT ![s].prepared = kept]
      BY <1>4, <2>0 DEF PrepareOrExecuteFails
    <2>b. [stmt[s] EXCEPT !.prepared = kept] \in StmtRecords
      BY StmtUpdates
    <2>1. stmt' \in [Stmts -> StmtRecords] /\ dm' \in [Stmts -> DmRecords]
      BY <1>4, <1>d, <2>a, <2>b DEF PrepareOrExecuteFails
    <2>2. Ready'
      BY <1>4 DEF PrepareOrExecuteFails, Ready, StmtRecords, DmRecords
    <2> QED BY <1>4, <2>1, <2>2 DEF PrepareOrExecuteFails
  <1>5. CASE ExecuteDirect(s)
    <2>1. stmt' \in [Stmts -> StmtRecords] /\ dm' \in [Stmts -> DmRecords]
      BY <1>5, <1>d, StmtUpdates, NewTypes DEF ExecuteDirect
    <2>2. Ready'
      BY <1>5, NewTypes DEF ExecuteDirect, Ready, StmtRecords, DmRecords
    <2> QED BY <1>5, <2>1, <2>2 DEF ExecuteDirect
  <1>6. CASE ExecutePrepared(s)
    <2>1. stmt' \in [Stmts -> StmtRecords] /\ dm' \in [Stmts -> DmRecords]
      BY <1>6, <1>d, StmtUpdates, NewTypes DEF ExecutePrepared
    <2>2. Ready'
      BY <1>6, NewTypes DEF ExecutePrepared, Ready, StmtRecords, DmRecords
    <2> QED BY <1>6, <2>1, <2>2 DEF ExecutePrepared
  <1>7. CASE Catalog(s)
    <2>2. desc' \in [Descriptors -> DescRecords]
      BY <1>7, Notified, StmtArd DEF Catalog
    <2>3. CASE /\ stmt' = [stmt EXCEPT ![s] = [Closed(@) EXCEPT !.result = NewResult,
                                                               !.isPrepared = FALSE]]
               /\ dm' = [dm EXCEPT ![s] = [prepared |-> FALSE, open |-> TRUE]]
      <3>1. stmt' \in [Stmts -> StmtRecords]
        BY <2>3, StmtUpdates, NewTypes
      <3>2. dm' \in [Stmts -> DmRecords]
        BY <2>3, <1>d
      <3>3. Ready'
        BY <2>3, NewTypes DEF Closed, Ready, StmtRecords, DmRecords
      <3> QED BY <1>7, <2>2, <3>1, <3>2, <3>3 DEF Catalog
    <2>4. CASE stmt' = [stmt EXCEPT ![s] = Closed(@)] /\ dm' = [dm EXCEPT ![s].prepared = FALSE]
      <3>1. stmt' \in [Stmts -> StmtRecords]
        BY <2>4, StmtUpdates
      <3>2. dm' \in [Stmts -> DmRecords]
        BY <2>4, <1>d
      <3>3. Ready'
        BY <1>7, <2>4 DEF Catalog, Closed, Ready, StmtRecords, DmRecords
      <3> QED BY <1>7, <2>2, <3>1, <3>2, <3>3 DEF Catalog
    <2> QED BY <1>7, <2>3, <2>4 DEF Catalog
  <1>8. CASE Fetch(s)
    <2> DEFINE bound == BoundForFetch(s)
               Kept  == /\ stmt' \in [Stmts -> StmtRecords]
                        /\ \A t \in Stmts : /\ stmt'[t].isPrepared = stmt[t].isPrepared
                                            /\ stmt'[t].prepared = stmt[t].prepared
                                            /\ stmt[t].result # None => stmt'[t].result # None
    <2>0. stmt[s].result \in Results /\ stmt[s].rowNumber \in Nat /\ stmt[s].result # None
      BY <1>8 DEF Fetch, Ready, StmtRecords
    <2>1. bound \in Buffers \union {None}
      BY <2>0, StmtArd DEF BoundForFetch, DescRecords, Results
    <2>2. desc' \in [Descriptors -> DescRecords]
      BY <1>8, DescUpdates, StmtArd DEF Fetch
    <2>3. Kept
      <3>1. CASE stmt' = [stmt EXCEPT ![s].result.bound = bound]
        <4>1. [stmt[s].result EXCEPT !.bound = bound] \in Results
          BY <2>0, <2>1 DEF Results
        <4>2. stmt' = [stmt EXCEPT ![s] = [stmt[s] EXCEPT
                            !.result = [stmt[s].result EXCEPT !.bound = bound]]]
          BY <3>1
        <4> HIDE DEF bound
        <4> QED BY <4>1, <4>2, Refetched
      <3>2. ASSUME NEW size \in 1..MaxRowset, NEW n \in 0..MaxRowset,
                   stmt' = [stmt EXCEPT
                      ![s].result = [bound |-> bound, rows |-> @.rows + n, over |-> n < size],
                      ![s].rowNumber = @ + n, ![s].ended = n < size]
            PROVE  Kept
        <4>1. n \in Nat /\ (n < size) \in BOOLEAN
          BY StatementAssumption
        <4>2. [bound |-> bound, rows |-> stmt[s].result.rows + n, over |-> n < size] \in Results
          BY <2>0, <2>1, <4>1 DEF Results
        <4>3. stmt' = [stmt EXCEPT ![s] = [stmt[s] EXCEPT
                 !.result = [bound |-> bound, rows |-> stmt[s].result.rows + n, over |-> n < size],
                 !.rowNumber = stmt[s].rowNumber + n, !.ended = n < size]]
          BY <3>2
        <4>4. stmt[s].rowNumber + n \in Nat
          BY <2>0, <4>1
        <4> HIDE DEF bound
        <4> QED BY <4>1, <4>2, <4>3, <4>4, Refetched
      <3> QED BY <1>8, <3>1, <3>2 DEF Fetch
    <2>4. Ready'
      BY <1>8, <2>3 DEF Fetch, Ready
    <2> QED BY <1>8, <2>2, <2>3, <2>4 DEF Fetch
  <1> QED
    BY <1>1, <1>2, <1>3, <1>4, <1>5, <1>6, <1>7, <1>8 DEF CursorStep

LEMMA SoundAlways == Spec => []Sound
  <1>1. Init => Sound
    BY NewTypes DEF Init, Sound, TypeOK, Ready, DmRecords
  <1>2. Sound /\ [Next]_vars => Sound'
    <2> SUFFICES ASSUME Sound, [Next]_vars PROVE Sound'
      OBVIOUS
    <2>1. CASE UNCHANGED vars
      BY <2>1 DEF vars, Sound, TypeOK, Ready
    <2>2. CASE Next
      BY <2>2, SoundHandles, SoundBindings, SoundCursor, StatementAssumption DEF Next
    <2> QED BY <2>1, <2>2
  <1> QED BY <1>1, <1>2, PTL DEF Spec

(* Every variable keeps its type: a destroyed statement leaves m_statements. *)
THEOREM Typing == Spec => []TypeOK
  <1>1. Sound => TypeOK
    BY DEF Sound
  <1> QED BY <1>1, SoundAlways, PTL

(* What the driver manager lets through finds a prepared statement and a
   result set, whichever calls failed before. *)
THEOREM CallsAreExpected == Spec => []SequenceHonoured
  <1>1. Sound => SequenceHonoured
    BY DEF Sound, TypeOK, Ready, SequenceHonoured
  <1> QED BY <1>1, SoundAlways, PTL

-----------------------------------------------------------------------------
(* Registration.  A statement that uses an explicit descriptor is in the list
   ReleaseDescriptor goes through. *)
Registered ==
    \A s \in Stmts :
        /\ stmt[s].ard \in Descs =>
             s \in live /\ stmt[s].ard \in descs /\ s \in desc[stmt[s].ard].asArd
        /\ stmt[s].apd \in Descs =>
             s \in live /\ stmt[s].apd \in descs /\ s \in desc[stmt[s].apd].asApd

(* A call on a cursor changes its statement only, and not its descriptors. *)
LEMMA OneStatement ==
  ASSUME Sound, NEW s \in Stmts, CursorStep(s)
  PROVE  \E st \in StmtRecords :
            stmt' = [stmt EXCEPT ![s] = st] /\ st.ard = stmt[s].ard /\ st.apd = stmt[s].apd
  <1>0. stmt \in [Stmts -> StmtRecords] /\ stmt[s] \in StmtRecords
    BY DEF Sound, TypeOK
  <1>1. CASE CloseCursor(s)
    <2>1. stmt' = [stmt EXCEPT ![s] = Closed(stmt[s])]
      BY <1>1 DEF CloseCursor
    <2>2. Closed(stmt[s]).ard = stmt[s].ard /\ Closed(stmt[s]).apd = stmt[s].apd
      BY <1>0 DEF Closed, StmtRecords
    <2> QED BY <2>1, <2>2, <1>0, StmtUpdates
  <1>2. CASE MoreResults(s)
    <2>1. stmt' = [stmt EXCEPT ![s] = stmt[s]]
      BY <1>0, <1>2 DEF MoreResults
    <2> QED BY <1>0, <2>1
  <1>3. CASE Prepare(s)
    <2> DEFINE st == [stmt[s] EXCEPT !.isPrepared = TRUE, !.prepared = TRUE]
    <2>1. stmt' = [stmt EXCEPT ![s] = st]
      BY <1>0, <1>3 DEF Prepare
    <2>2. st \in StmtRecords
      BY <1>0, StmtUpdates
    <2>3. st.ard = stmt[s].ard /\ st.apd = stmt[s].apd
      BY <1>0 DEF StmtRecords
    <2> QED BY <2>1, <2>2, <2>3
  <1>4. CASE PrepareOrExecuteFails(s)
    <2>0. stmt[s].prepared \in BOOLEAN
      BY <1>0 DEF StmtRecords
    <2>a. PICK kept \in BOOLEAN : stmt' = [stmt EXCEPT ![s].prepared = kept]
      BY <1>4, <2>0 DEF PrepareOrExecuteFails
    <2> DEFINE st == [stmt[s] EXCEPT !.prepared = kept]
    <2>1. stmt' = [stmt EXCEPT ![s] = st]
      BY <2>a
    <2>2. st \in StmtRecords
      BY <1>0, StmtUpdates
    <2>3. st.ard = stmt[s].ard /\ st.apd = stmt[s].apd
      BY <1>0 DEF StmtRecords
    <2> QED BY <2>1, <2>2, <2>3
  <1>5. CASE ExecuteDirect(s)
    <2> DEFINE st == [stmt[s] EXCEPT !.result = NewResult, !.ended = FALSE,
                                    !.isPrepared = FALSE, !.prepared = FALSE]
    <2>1. stmt' = [stmt EXCEPT ![s] = st]
      BY <1>0, <1>5 DEF ExecuteDirect
    <2>2. st \in StmtRecords
      BY <1>0, StmtUpdates, NewTypes
    <2>3. st.ard = stmt[s].ard /\ st.apd = stmt[s].apd
      BY <1>0 DEF StmtRecords
    <2> QED BY <2>1, <2>2, <2>3
  <1>6. CASE ExecutePrepared(s)
    <2> DEFINE st == [stmt[s] EXCEPT !.result = NewResult, !.ended = FALSE]
    <2>1. stmt' = [stmt EXCEPT ![s] = st]
      BY <1>0, <1>6 DEF ExecutePrepared
    <2>2. st \in StmtRecords
      BY <1>0, StmtUpdates, NewTypes
    <2>3. st.ard = stmt[s].ard /\ st.apd = stmt[s].apd
      BY <1>0 DEF StmtRecords
    <2> QED BY <2>1, <2>2, <2>3
  <1>7. CASE Catalog(s)
    <2> DEFINE ok == [Closed(stmt[s]) EXCEPT !.result = NewResult, !.isPrepared = FALSE]
    <2>1. stmt' = [stmt EXCEPT ![s] = ok] \/ stmt' = [stmt EXCEPT ![s] = Closed(stmt[s])]
      BY <1>7 DEF Catalog
    <2>2. ok \in StmtRecords /\ Closed(stmt[s]) \in StmtRecords
      BY <1>0, StmtUpdates, NewTypes
    <2>3. /\ ok.ard = stmt[s].ard /\ ok.apd = stmt[s].apd
          /\ Closed(stmt[s]).ard = stmt[s].ard /\ Closed(stmt[s]).apd = stmt[s].apd
      BY <1>0 DEF Closed, StmtRecords
    <2> HIDE DEF ok
    <2> QED BY <2>1, <2>2, <2>3
  <1>8. CASE Fetch(s)
    <2>1. stmt' \in [Stmts -> StmtRecords]
      BY SoundCursor DEF Sound, TypeOK
    <2>2. stmt' = [stmt EXCEPT ![s] = stmt'[s]]
      BY <1>0, <1>8, <2>1 DEF Fetch
    <2>3. stmt'[s].ard = stmt[s].ard /\ stmt'[s].apd = stmt[s].apd
      <3>1. CASE stmt' = [stmt EXCEPT ![s].result.bound = BoundForFetch(s)]
        <4>1. stmt'[s] = [stmt[s] EXCEPT !.result =
                                  [stmt[s].result EXCEPT !.bound = BoundForFetch(s)]]
          BY <1>0, <3>1
        <4> QED BY <1>0, <4>1 DEF StmtRecords
      <3>2. ASSUME NEW size \in 1..MaxRowset, NEW n \in 0..MaxRowset,
                   stmt' = [stmt EXCEPT
                      ![s].result = [bound |-> BoundForFetch(s), rows |-> @.rows + n,
                                     over |-> n < size],
                      ![s].rowNumber = @ + n, ![s].ended = n < size]
            PROVE  stmt'[s].ard = stmt[s].ard /\ stmt'[s].apd = stmt[s].apd
        <4>1. stmt'[s] = [stmt[s] EXCEPT
                 !.result = [bound |-> BoundForFetch(s), rows |-> stmt[s].result.rows + n,
                             over |-> n < size],
                 !.rowNumber = stmt[s].rowNumber + n, !.ended = n < size]
          BY <1>0, <3>2
        <4> QED BY <1>0, <4>1 DEF StmtRecords
      <3> QED BY <1>8, <3>1, <3>2 DEF Fetch
    <2> QED BY <2>1, <2>2, <2>3
  <1> QED
    BY <1>1, <1>2, <1>3, <1>4, <1>5, <1>6, <1>7, <1>8 DEF CursorStep

LEMMA QuietCursor ==
  ASSUME Sound, NEW s \in Stmts, CursorStep(s)
  PROVE  \A d \in Descriptors : desc'[d].asArd = desc[d].asArd /\ desc'[d].asApd = desc[d].asApd
  <1>1. \/ UNCHANGED desc
        \/ \E c \in BOOLEAN : desc' = [desc EXCEPT ![stmt[s].ard].changed = c]
    BY DEF CursorStep, CloseCursor, MoreResults, Prepare, PrepareOrExecuteFails,
           ExecuteDirect, ExecutePrepared, Catalog, Fetch, NotifyBindingsHaveChanged
  <1>2. ASSUME NEW c \in BOOLEAN, desc' = [desc EXCEPT ![stmt[s].ard].changed = c]
        PROVE  \A d \in Descriptors : desc'[d].asArd = desc[d].asArd /\ desc'[d].asApd = desc[d].asApd
    BY <1>2 DEF Sound, TypeOK, DescRecords
  <1> QED BY <1>1, <1>2

(* Calls on bindings and cursors leave the registrations alone. *)
LEMMA QuietSteps ==
  ASSUME Sound, BindingStep \/ \E s \in Executing : CursorStep(s)
  PROVE  /\ \A d \in Descriptors : desc'[d].asArd = desc[d].asArd /\ desc'[d].asApd = desc[d].asApd
         /\ \A s \in Stmts : stmt'[s].ard = stmt[s].ard /\ stmt'[s].apd = stmt[s].apd
         /\ UNCHANGED handles
  <1> DEFINE Goal == /\ \A d \in Descriptors : desc'[d].asArd = desc[d].asArd /\ desc'[d].asApd = desc[d].asApd
                     /\ \A s \in Stmts : stmt'[s].ard = stmt[s].ard /\ stmt'[s].apd = stmt[s].apd
                     /\ UNCHANGED handles
  <1> USE DEF Sound, TypeOK, DescRecords, StmtRecords
  <1>1. CASE BindingStep
    <2>1. UNCHANGED <<stmt, handles>>
      BY <1>1 DEF BindingStep, SetDataPtr, SetHeaderField, CopyDesc, Unbind
    <2>2. ASSUME NEW d \in Descriptors, NEW b \in Buffers \union {None}, SetDataPtr(d, b) PROVE Goal
      BY <2>1, <2>2 DEF SetDataPtr
    <2>3. ASSUME NEW d \in Descriptors, SetHeaderField(d) PROVE Goal
      BY <2>1, <2>3 DEF SetHeaderField
    <2>4. ASSUME NEW src \in Descriptors, NEW dst \in Descriptors, CopyDesc(src, dst) PROVE Goal
      BY <2>1, <2>4 DEF CopyDesc
    <2>5. ASSUME NEW s \in Stmts, Unbind(s) PROVE Goal
      BY <2>1, <2>5 DEF Unbind
    <2> QED BY <1>1, <2>2, <2>3, <2>4, <2>5 DEF BindingStep
  <1>2. ASSUME NEW s \in Stmts, CursorStep(s) PROVE Goal
    <2>1. UNCHANGED handles
      BY <1>2 DEF CursorStep, CloseCursor, MoreResults, Prepare, PrepareOrExecuteFails,
                  ExecuteDirect, ExecutePrepared, Catalog, Fetch
    <2>2. \A d \in Descriptors : desc'[d].asArd = desc[d].asArd /\ desc'[d].asApd = desc[d].asApd
      BY <1>2, QuietCursor
    <2>3. \A t \in Stmts : stmt'[t].ard = stmt[t].ard /\ stmt'[t].apd = stmt[t].apd
      <3>1. PICK st \in StmtRecords :
               stmt' = [stmt EXCEPT ![s] = st] /\ st.ard = stmt[s].ard /\ st.apd = stmt[s].apd
        BY <1>2, OneStatement
      <3> QED BY <3>1
    <2> QED BY <2>1, <2>2, <2>3
  <1> QED BY <1>1, <1>2, StatementAssumption

LEMMA RegisteredStep == Sound /\ Registered /\ [Next]_vars => Registered'
  <1> SUFFICES ASSUME Sound, Registered, [Next]_vars PROVE Registered'
    OBVIOUS
  <1> USE DEF Registered
  <1>d. Descs \subseteq Descriptors
    BY DEF Descriptors
  <1>t. /\ \A d \in Descriptors : desc[d] \in DescRecords
        /\ \A s \in Stmts : stmt[s] \in StmtRecords
        /\ DOMAIN desc = Descriptors /\ DOMAIN stmt = Stmts
    BY DEF Sound, TypeOK
  <1>1. ASSUME NEW s \in Stmts, AllocStmt(s) PROVE Registered'
    BY <1>1 DEF AllocStmt
  <1>2. ASSUME NEW s \in Stmts, FreeStmt(s) PROVE Registered'
    <2>1. \A d \in Descs : desc'[d].asArd = desc[d].asArd /\ desc'[d].asApd = desc[d].asApd
      BY <1>2, <1>d, <1>t, BuiltIns DEF FreeStmt, NotifyBindingsHaveChanged, DescRecords
    <2>2. stmt'[s].ard \notin Descs /\ stmt'[s].apd \notin Descs
      BY <1>2, <1>t, BuiltIns DEF FreeStmt, NewStatement
    <2>3. \A t \in Stmts \ {s} : stmt'[t] = stmt[t]
      BY <1>2, <1>t DEF FreeStmt
    <2>4. live' = live \ {s} /\ descs' = descs
      BY <1>2 DEF FreeStmt, dropStatement
    <2>5. ASSUME NEW t \in Stmts
          PROVE  /\ stmt'[t].ard \in Descs =>
                      t \in live' /\ stmt'[t].ard \in descs' /\ t \in desc'[stmt'[t].ard].asArd
                 /\ stmt'[t].apd \in Descs =>
                      t \in live' /\ stmt'[t].apd \in descs' /\ t \in desc'[stmt'[t].apd].asApd
      BY <2>1, <2>2, <2>3, <2>4
    <2> HIDE DEF Registered
    <2> QED BY <2>5 DEF Registered
  <1>3. ASSUME NEW d \in Descs, AllocDesc(d) PROVE Registered'
    BY <1>3 DEF AllocDesc
  <1>4. ASSUME NEW d \in Descs, FreeDesc(d) PROVE Registered'
    <2>1. \A s \in live : RevertAppDescriptor(s, d).ard =
                            IF s \in desc[d].asArd THEN m_builtInArd(s) ELSE stmt[s].ard
      BY <1>t DEF RevertAppDescriptor, StmtRecords, Sound, TypeOK
    <2>2. \A s \in live : RevertAppDescriptor(s, d).apd =
                            IF s \in desc[d].asApd THEN m_builtInApd(s) ELSE stmt[s].apd
      BY <1>t DEF RevertAppDescriptor, StmtRecords, Sound, TypeOK
    <2>3. \A x \in Descs \ {d} : desc'[x] = desc[x]
      BY <1>4, <1>d, <1>t DEF FreeDesc
    <2>4. \A s \in Stmts : stmt'[s] = IF s \in live THEN RevertAppDescriptor(s, d) ELSE stmt[s]
      BY <1>4 DEF FreeDesc
    <2> QED BY <1>4, <2>1, <2>2, <2>3, <2>4, BuiltIns DEF FreeDesc
  <1>5. ASSUME NEW s \in Stmts, NEW d \in Descriptors, SetArd(s, d) PROVE Registered'
    <2>1. \A x \in Descs :
            /\ desc'[x].asApd = desc[x].asApd
            /\ desc'[x].asArd = IF x = d THEN desc[x].asArd \union {s}
                                ELSE IF x = stmt[s].ard THEN desc[x].asArd \ {s}
                                ELSE desc[x].asArd
      BY <1>5, <1>d, <1>t DEF SetArd, DescRecords
    <2>2. /\ stmt'[s].ard = d /\ stmt'[s].apd = stmt[s].apd
          /\ \A t \in Stmts \ {s} : stmt'[t] = stmt[t]
      BY <1>5, <1>t DEF SetArd, StmtRecords
    <2>3. d \in Descs => d \in descs
      BY <1>5, BuiltIns DEF SetArd
    <2>4. s \in live /\ live' = live /\ descs' = descs
      BY <1>5 DEF SetArd, handles
    <2>5. ASSUME NEW t \in Stmts
          PROVE  /\ stmt'[t].ard \in Descs =>
                      t \in live' /\ stmt'[t].ard \in descs' /\ t \in desc'[stmt'[t].ard].asArd
                 /\ stmt'[t].apd \in Descs =>
                      t \in live' /\ stmt'[t].apd \in descs' /\ t \in desc'[stmt'[t].apd].asApd
      <3>1. CASE t = s
        BY <3>1, <2>1, <2>2, <2>3, <2>4
      <3>2. CASE t # s
        <4>1. stmt'[t] = stmt[t]
          BY <3>2, <2>2
        <4>2. \A x \in Descs : /\ t \in desc[x].asArd => t \in desc'[x].asArd
                               /\ t \in desc[x].asApd => t \in desc'[x].asApd
          BY <3>2, <2>1
        <4> QED BY <4>1, <4>2, <2>4
      <3> QED BY <3>1, <3>2
    <2> HIDE DEF Registered
    <2> QED BY <2>5 DEF Registered
  <1>6. ASSUME NEW s \in Stmts, NEW d \in Descriptors, SetApd(s, d) PROVE Registered'
    <2>1. \A x \in Descs :
            /\ desc'[x].asArd = desc[x].asArd
            /\ desc'[x].asApd = IF x = d THEN desc[x].asApd \union {s}
                                ELSE IF x = stmt[s].apd THEN desc[x].asApd \ {s}
                                ELSE desc[x].asApd
      BY <1>6, <1>d, <1>t, BuiltIns DEF SetApd, DescRecords
    <2>2. /\ stmt'[s].apd = d /\ stmt'[s].ard = stmt[s].ard
          /\ \A t \in Stmts \ {s} : stmt'[t] = stmt[t]
      BY <1>6, <1>t DEF SetApd, StmtRecords
    <2>3. d \in Descs => d \in descs
      BY <1>6, BuiltIns DEF SetApd
    <2>4. s \in live /\ live' = live /\ descs' = descs
      BY <1>6 DEF SetApd, handles
    <2>5. ASSUME NEW t \in Stmts
          PROVE  /\ stmt'[t].ard \in Descs =>
                      t \in live' /\ stmt'[t].ard \in descs' /\ t \in desc'[stmt'[t].ard].asArd
                 /\ stmt'[t].apd \in Descs =>
                      t \in live' /\ stmt'[t].apd \in descs' /\ t \in desc'[stmt'[t].apd].asApd
      <3>1. CASE t = s
        BY <3>1, <2>1, <2>2, <2>3, <2>4
      <3>2. CASE t # s
        <4>1. stmt'[t] = stmt[t]
          BY <3>2, <2>2
        <4>2. \A x \in Descs : /\ t \in desc[x].asArd => t \in desc'[x].asArd
                               /\ t \in desc[x].asApd => t \in desc'[x].asApd
          BY <3>2, <2>1
        <4> QED BY <4>1, <4>2, <2>4
      <3> QED BY <3>1, <3>2
    <2> HIDE DEF Registered
    <2> QED BY <2>5 DEF Registered
  <1>7. CASE BindingStep \/ \E s \in Executing : CursorStep(s)
    BY <1>7, <1>d, QuietSteps DEF handles
  <1>8. CASE UNCHANGED vars
    BY <1>8 DEF vars
  <1> QED BY <1>1, <1>2, <1>3, <1>4, <1>5, <1>6, <1>7, <1>8 DEF Next, HandleStep

LEMMA AlwaysRegistered == Spec => [](Sound /\ Registered)
  <1>1. Init => Registered
    BY BuiltIns DEF Init, Registered, NewStatement
  <1>2. Sound /\ Sound' /\ Registered /\ [Next]_vars => Registered'
    BY RegisteredStep
  <1> QED BY <1>1, <1>2, SoundAlways, PTL DEF Spec

(* SQLFreeHandle on a descriptor takes it away from every statement that uses
   it, so no statement is left with a destroyed one. *)
THEOREM NoDanglingDescriptor == Spec => []DescriptorsAlive
  <1>1. Sound /\ Registered => DescriptorsAlive
    <2> SUFFICES ASSUME Sound, Registered, NEW s \in live
                 PROVE  {stmt[s].ard, stmt[s].apd} \subseteq descs \union Implicit
      BY DEF DescriptorsAlive
    <2>1. s \in Stmts
      BY DEF Sound, TypeOK
    <2>2. stmt[s].ard \in Descriptors /\ stmt[s].apd \in Descriptors
      BY <2>1, StmtArd DEF Sound, TypeOK
    <2> QED BY <2>1, <2>2 DEF Registered, Descriptors
  <1> QED BY <1>1, AlwaysRegistered, PTL

-----------------------------------------------------------------------------
(* Bindings.  A statement that never strayed uses its implicit descriptor, and
   while that one is not marked as changed the open result set has exactly its
   binding. *)
LEMMA OwnDescriptors ==
  ASSUME NEW s \in Stmts, NEW t \in Stmts
  PROVE  /\ m_builtInApd(s) # m_builtInArd(t)
         /\ s # t => m_builtInApd(s) # m_builtInApd(t)
  BY DEF m_builtInApd, m_builtInArd

HandedOver(s) ==
    \/ desc[m_builtInApd(s)].changed
    \/ /\ dm[s].open /\ stmt[s].result # None
       /\ stmt[s].result.bound = desc[m_builtInApd(s)].bound

OwnBindings ==
    /\ \A s \in Stmts \ strayed : stmt[s].ard = m_builtInApd(s) /\ HandedOver(s)
    /\ \A s \in Stmts : stmt[s].ard \in Descs \union {m_builtInApd(s), m_builtInArd(s)}
    /\ \A d \in Descs : desc[d].asArd \subseteq strayed \union gone
    /\ misbound \subseteq strayed

LEMMA OwnBindingsInit == Init => OwnBindings
  BY BuiltIns DEF Init, OwnBindings, HandedOver, NewStatement, NewDescriptor, Descriptors

LEMMA OwnBindingsHandles ==
  ASSUME Sound, OwnBindings, HandleStep
  PROVE  OwnBindings'
  <1> USE DEF OwnBindings, HandedOver
  <1>t. /\ \A d \in Descriptors : desc[d] \in DescRecords
        /\ \A s \in Stmts : stmt[s] \in StmtRecords
        /\ DOMAIN desc = Descriptors /\ DOMAIN stmt = Stmts /\ DOMAIN dm = Stmts
        /\ gone \intersect live = {}
        /\ Descs \subseteq Descriptors
    BY DEF Sound, TypeOK, Descriptors
  <1>1. ASSUME NEW s \in Stmts, AllocStmt(s) PROVE OwnBindings'
    BY <1>1 DEF AllocStmt, history
  <1>2. ASSUME NEW s \in Stmts, FreeStmt(s) PROVE OwnBindings'
    <2>1. /\ stmt'[s] = NewStatement(s) /\ desc'[m_builtInApd(s)] = NewDescriptor
          /\ strayed' = strayed \ {s} /\ misbound' = misbound \ {s}
          /\ gone' = gone \union {s}
      BY <1>2, <1>t, BuiltIns DEF FreeStmt, dropStatement
    <2>2. \A t \in Stmts \ {s} : stmt'[t] = stmt[t] /\ dm'[t] = dm[t]
      BY <1>2, <1>t DEF FreeStmt
    <2>3. \A d \in Descriptors \ {m_builtInApd(s), m_builtInArd(s)} :
             /\ desc'[d].bound = desc[d].bound /\ desc'[d].asArd = desc[d].asArd
             /\ desc[d].changed => desc'[d].changed
      BY <1>2, <1>t DEF FreeStmt, NotifyBindingsHaveChanged, DescRecords
    <2>4. \A t \in Stmts \ strayed' : stmt'[t].ard = m_builtInApd(t) /\ HandedOver(t)'
      BY <2>1, <2>2, <2>3, BuiltIns, OwnDescriptors DEF NewStatement, NewDescriptor
    <2>5. \A t \in Stmts : stmt'[t].ard \in Descs \union {m_builtInApd(t), m_builtInArd(t)}
      BY <2>1, <2>2 DEF NewStatement
    <2>6. \A d \in Descs : desc'[d].asArd \subseteq strayed' \union gone'
      BY <2>1, <2>3, <1>t, BuiltIns
    <2> QED BY <2>1, <2>4, <2>5, <2>6
  <1>3. ASSUME NEW d \in Descs, AllocDesc(d) PROVE OwnBindings'
    BY <1>3 DEF AllocDesc, history
  <1>4. ASSUME NEW d \in Descs, FreeDesc(d) PROVE OwnBindings'
    <2>0. live \subseteq Stmts
      BY DEF Sound, TypeOK
    <2>1. \A s \in live : /\ RevertAppDescriptor(s, d).ard =
                               IF s \in desc[d].asArd THEN m_builtInArd(s) ELSE stmt[s].ard
                          /\ RevertAppDescriptor(s, d).result = stmt[s].result
      BY <1>t, <2>0 DEF RevertAppDescriptor, StmtRecords
    <2>2. \A s \in Stmts : stmt'[s] = IF s \in live THEN RevertAppDescriptor(s, d) ELSE stmt[s]
      BY <1>4 DEF FreeDesc
    <2>3. /\ \A x \in Descriptors \ {d} : desc'[x] = desc[x]
          /\ desc'[d] = NewDescriptor
      BY <1>4, <1>t DEF FreeDesc
    <2>4. UNCHANGED <<gone, dm, strayed, misbound>>
      BY <1>4 DEF FreeDesc
    <2>5. \A s \in Stmts \ strayed : s \in live => s \notin desc[d].asArd
      BY <1>t
    <2>6. \A s \in Stmts \ strayed : stmt'[s].ard = m_builtInApd(s) /\ stmt'[s].result = stmt[s].result
      BY <2>1, <2>2, <2>5
    <2>7. \A s \in Stmts : desc'[m_builtInApd(s)] = desc[m_builtInApd(s)]
      BY <2>3, BuiltIns
    <2>8. \A s \in Stmts : stmt'[s].ard \in Descs \union {m_builtInApd(s), m_builtInArd(s)}
      BY <2>1, <2>2
    <2>9. \A x \in Descs : desc'[x].asArd \subseteq strayed \union gone
      BY <2>3, <1>t DEF NewDescriptor
    <2> QED BY <2>4, <2>6, <2>7, <2>8, <2>9
  <1>5. ASSUME NEW s \in Stmts, NEW d \in Descriptors, SetArd(s, d) PROVE OwnBindings'
    <2>1. \A x \in Descriptors : /\ desc'[x].bound = desc[x].bound
                                 /\ desc'[x].changed = desc[x].changed
                                 /\ desc'[x].asArd \subseteq desc[x].asArd \union {s}
      BY <1>5, <1>t DEF SetArd, DescRecords
    <2>2. /\ stmt'[s].ard = d
          /\ \A t \in Stmts \ {s} : stmt'[t] = stmt[t]
      BY <1>5, <1>t DEF SetArd, StmtRecords
    <2>3. d \in Descs \union {m_builtInApd(s)}
      BY <1>5 DEF SetArd, Sound, TypeOK
    <2>4. strayed' = strayed \union {s} /\ UNCHANGED <<dm, gone, misbound>>
      BY <1>5 DEF SetArd, handles
    <2>5. \A t \in Stmts \ strayed' : stmt'[t].ard = m_builtInApd(t) /\ HandedOver(t)'
      BY <2>1, <2>2, <2>4, BuiltIns
    <2>6. \A t \in Stmts : stmt'[t].ard \in Descs \union {m_builtInApd(t), m_builtInArd(t)}
      BY <2>2, <2>3
    <2>7. \A x \in Descs : desc'[x].asArd \subseteq strayed' \union gone
      BY <2>1, <2>4, <1>t
    <2> QED BY <2>4, <2>5, <2>6, <2>7
  <1>6. ASSUME NEW s \in Stmts, NEW d \in Descriptors, SetApd(s, d) PROVE OwnBindings'
    <2>1. \A x \in Descriptors : /\ desc'[x].bound = desc[x].bound
                                 /\ desc'[x].changed = desc[x].changed
                                 /\ desc'[x].asArd = desc[x].asArd
      BY <1>6, <1>t DEF SetApd, DescRecords
    <2>2. \A t \in Stmts : stmt'[t].ard = stmt[t].ard /\ stmt'[t].result = stmt[t].result
      BY <1>6, <1>t DEF SetApd, StmtRecords
    <2>3. UNCHANGED <<dm, gone, strayed, misbound>>
      BY <1>6 DEF SetApd, handles, history
    <2> QED BY <2>1, <2>2, <2>3, <1>t, BuiltIns
  <1> QED BY <1>1, <1>2, <1>3, <1>4, <1>5, <1>6 DEF HandleStep

LEMMA OwnBindingsBindings ==
  ASSUME Sound, OwnBindings, BindingStep
  PROVE  OwnBindings'
  <1> USE DEF OwnBindings, HandedOver
  <1>t. /\ \A d \in Descriptors : desc[d] \in DescRecords
        /\ DOMAIN desc = Descriptors /\ Descs \subseteq Descriptors
    BY DEF Sound, TypeOK, Descriptors
  <1>q. /\ \A d \in Descriptors : desc'[d].asArd = desc[d].asArd
        /\ UNCHANGED <<gone, stmt, dm, misbound>>
    BY QuietSteps DEF BindingStep, SetDataPtr, SetHeaderField, CopyDesc, Unbind, handles, history
  <1>1. ASSUME NEW d \in Descriptors, desc'[d].changed,
               \A x \in Descriptors \ {d} : desc'[x] = desc[x], UNCHANGED strayed
        PROVE  OwnBindings'
    BY <1>1, <1>q, <1>t, BuiltIns
  <1>2. ASSUME NEW d \in Descriptors, NEW b \in Buffers \union {None}, SetDataPtr(d, b)
        PROVE  OwnBindings'
    <2>1. desc'[d].changed /\ \A x \in Descriptors \ {d} : desc'[x] = desc[x]
      BY <1>2, <1>t DEF SetDataPtr, DescRecords
    <2>2. UNCHANGED strayed
      BY <1>2 DEF SetDataPtr, history
    <2> HIDE DEF OwnBindings
    <2> QED BY <1>1, <2>1, <2>2
  <1>3. ASSUME NEW d \in Descriptors, SetHeaderField(d) PROVE OwnBindings'
    <2>1. desc'[d].changed /\ \A x \in Descriptors \ {d} : desc'[x] = desc[x]
      BY <1>3, <1>t DEF SetHeaderField, DescRecords
    <2>2. UNCHANGED strayed
      BY <1>3 DEF SetHeaderField, history
    <2> HIDE DEF OwnBindings
    <2> QED BY <1>1, <2>1, <2>2
  <1>4. ASSUME NEW src \in Descriptors, NEW dst \in Descriptors, CopyDesc(src, dst)
        PROVE  OwnBindings'
    <2>1. desc'[dst].changed /\ \A x \in Descriptors \ {dst} : desc'[x] = desc[x]
      BY <1>4, <1>t DEF CopyDesc, DescRecords
    <2>2. UNCHANGED strayed
      BY <1>4 DEF CopyDesc, history
    <2> HIDE DEF OwnBindings
    <2> QED BY <1>1, <2>1, <2>2
  <1>5. ASSUME NEW s \in Stmts, Unbind(s) PROVE OwnBindings'
    <2>1. \A x \in Descriptors \ {stmt[s].ard} : desc'[x] = desc[x]
      BY <1>5, <1>t DEF Unbind
    <2>2. strayed' = strayed \union {s}
      BY <1>5 DEF Unbind
    <2>3. \A t \in Stmts \ {s} : stmt[s].ard # m_builtInApd(t)
      BY BuiltIns, OwnDescriptors
    <2> QED BY <2>1, <2>2, <2>3, <1>q, <1>t, BuiltIns
  <1> QED BY <1>2, <1>3, <1>4, <1>5 DEF BindingStep

LEMMA OwnBindingsCursor ==
  ASSUME Sound, OwnBindings, NEW s \in Stmts, CursorStep(s)
  PROVE  OwnBindings'
  <1> DEFINE d == stmt[s].ard
             own == m_builtInApd(s)
  <1>t. /\ \A x \in Descriptors : desc[x] \in DescRecords
        /\ \A t \in Stmts : stmt[t] \in StmtRecords /\ dm[t] \in DmRecords
        /\ DOMAIN desc = Descriptors /\ DOMAIN stmt = Stmts /\ DOMAIN dm = Stmts
        /\ Descs \subseteq Descriptors /\ own \in Descriptors /\ d \in Descriptors
    BY BuiltIns, StmtArd DEF Sound, TypeOK, Descriptors
  <1>k. /\ UNCHANGED gone
        /\ strayed' \in {strayed, strayed \union {s}}
        /\ \A t \in Stmts \ {s} : stmt'[t] = stmt[t] /\ dm'[t] = dm[t]
        /\ stmt'[s].ard = d
        /\ \A x \in Descriptors \ {d} : desc'[x] = desc[x]
    <2>1. UNCHANGED gone
      BY DEF CursorStep, CloseCursor, MoreResults, Prepare, PrepareOrExecuteFails,
             ExecuteDirect, ExecutePrepared, Catalog, Fetch, handles
    <2>2. strayed' \in {strayed, strayed \union {s}}
      BY DEF CursorStep, CloseCursor, MoreResults, Prepare, PrepareOrExecuteFails,
             ExecuteDirect, ExecutePrepared, Catalog, Fetch, history
    <2>3. (\A t \in Stmts \ {s} : stmt'[t] = stmt[t]) /\ stmt'[s].ard = d
      BY <1>t, OneStatement
    <2>4. \A t \in Stmts \ {s} : dm'[t] = dm[t]
      BY <1>t DEF CursorStep, CloseCursor, MoreResults, Prepare, PrepareOrExecuteFails,
             ExecuteDirect, ExecutePrepared, Catalog, Fetch
    <2>5. \A x \in Descriptors \ {d} : desc'[x] = desc[x]
      BY <1>t DEF CursorStep, CloseCursor, MoreResults, Prepare, PrepareOrExecuteFails,
             ExecuteDirect, ExecutePrepared, Catalog, Fetch, NotifyBindingsHaveChanged
    <2> QED BY <2>1, <2>2, <2>3, <2>4, <2>5
  (* What is left to show is about s alone. *)
  <1>1. ASSUME misbound' \subseteq strayed',
               s \notin strayed' => HandedOver(s)'
        PROVE  OwnBindings'
    <2>1. \A x \in Descriptors : desc'[x].asArd = desc[x].asArd
      BY QuietCursor
    <2>2. \A x \in Descs : desc'[x].asArd \subseteq strayed' \union gone'
      BY <1>k, <1>t, <2>1 DEF OwnBindings
    <2>3. \A t \in Stmts : stmt'[t].ard = stmt[t].ard
      BY <1>k
    <2>4. ASSUME NEW t \in Stmts \ {s}, t \notin strayed'
          PROVE  HandedOver(t)'
      <3>1. m_builtInApd(t) # d /\ m_builtInApd(t) \in Descriptors
        BY BuiltIns, OwnDescriptors DEF OwnBindings
      <3>2. desc'[m_builtInApd(t)] = desc[m_builtInApd(t)] /\ stmt'[t] = stmt[t] /\ dm'[t] = dm[t]
        BY <1>k, <3>1
      <3>3. HandedOver(t)
        BY <1>k, <2>4 DEF OwnBindings
      <3> QED BY <3>2, <3>3 DEF HandedOver
    <2> QED BY <1>1, <1>k, <2>2, <2>3, <2>4 DEF OwnBindings
  <1>o. s \notin strayed => d = own /\ HandedOver(s)
    BY DEF OwnBindings
  <1>m. misbound \subseteq strayed
    BY DEF OwnBindings
  <1>2. CASE CloseCursor(s)
    <2>1. desc'[d].changed /\ UNCHANGED <<strayed, misbound>>
      BY <1>2, <1>t DEF CloseCursor, NotifyBindingsHaveChanged, DescRecords, history
    <2> QED BY <1>1, <1>m, <1>o, <2>1 DEF HandedOver
  <1>3. CASE MoreResults(s)
    <2>1. strayed' = strayed \union {s} /\ UNCHANGED misbound
      BY <1>3 DEF MoreResults
    <2> QED BY <1>1, <1>m, <2>1
  <1>4. CASE \/ Prepare(s) \/ PrepareOrExecuteFails(s)
             \/ ExecuteDirect(s) \/ ExecutePrepared(s)
    <2>1. UNCHANGED <<desc, strayed, misbound>> /\ ~dm[s].open
      BY <1>4 DEF Prepare, PrepareOrExecuteFails, ExecuteDirect, ExecutePrepared, history
    <2> QED BY <1>1, <1>m, <1>o, <2>1 DEF HandedOver
  <1>5. CASE Catalog(s)
    <2>1. desc'[d].changed /\ UNCHANGED <<strayed, misbound>>
      BY <1>5, <1>t DEF Catalog, NotifyBindingsHaveChanged, DescRecords, history
    <2> QED BY <1>1, <1>m, <1>o, <2>1 DEF HandedOver
  <1>6. CASE Fetch(s)
    <2>1. s \notin strayed => BoundForFetch(s) = desc[d].bound
      BY <1>6, <1>o DEF Fetch, BoundForFetch, HandedOver
    <2>2. misbound' \subseteq strayed' /\ strayed' = strayed
      BY <1>6, <1>m, <2>1 DEF Fetch
    <2>3. dm' = dm /\ dm[s].open /\ desc'[d].bound = desc[d].bound
      BY ZenonT(30), <1>6, <1>t DEF Fetch, DescRecords
    <2>4. stmt[s].result # None /\ stmt[s].result \in Results
      BY <1>6, <1>t DEF Fetch, Sound, Ready, StmtRecords
    <2>5. stmt'[s].result # None /\ stmt'[s].result.bound = BoundForFetch(s)
      <3>1. Sound'
        BY SoundCursor
      <3>2. stmt'[s].result # None
        BY <3>1, <2>3 DEF Sound, Ready
      <3>3. stmt'[s].result.bound = BoundForFetch(s)
        <4>1. CASE stmt' = [stmt EXCEPT ![s].result.bound = BoundForFetch(s)]
          BY <4>1, <2>4, <1>t DEF Results, StmtRecords
        <4>2. ASSUME NEW size \in 1..MaxRowset, NEW n \in 0..MaxRowset,
                     stmt' = [stmt EXCEPT
                        ![s].result = [bound |-> BoundForFetch(s), rows |-> @.rows + n,
                                       over |-> n < size],
                        ![s].rowNumber = @ + n, ![s].ended = n < size]
              PROVE  stmt'[s].result.bound = BoundForFetch(s)
          BY <4>2, <1>t DEF StmtRecords
        <4> QED BY <1>6, <4>1, <4>2 DEF Fetch
      <3> QED BY <3>2, <3>3
    <2> QED BY <1>1, <1>o, <2>1, <2>2, <2>3, <2>5 DEF HandedOver
  <1> QED BY <1>2, <1>3, <1>4, <1>5, <1>6 DEF CursorStep

LEMMA AlwaysOwnBindings == Spec => [](Sound /\ OwnBindings)
  <1>1. Sound /\ OwnBindings /\ [Next]_vars => OwnBindings'
    <2> SUFFICES ASSUME Sound, OwnBindings, [Next]_vars PROVE OwnBindings'
      OBVIOUS
    <2>1. CASE UNCHANGED vars
      BY <2>1 DEF vars, OwnBindings, HandedOver
    <2>2. CASE Next
      BY <2>2, OwnBindingsHandles, OwnBindingsBindings, OwnBindingsCursor, StatementAssumption
         DEF Next
    <2> QED BY <2>1, <2>2
  <1> QED BY <1>1, OwnBindingsInit, SoundAlways, PTL DEF Spec

(* Whatever the order of binding, executing, fetching and closing, failed
   calls included, a fetch fills the buffers that are bound then and no others,
   unless the statement used SQL_UNBIND, SQLMoreResults or another descriptor. *)
THEOREM FetchFillsWhatIsBound == Spec => []BindingsHonoured
  <1>1. OwnBindings => BindingsHonoured
    BY DEF OwnBindings, BindingsHonoured
  <1> QED BY <1>1, AlwaysOwnBindings, PTL

-----------------------------------------------------------------------------
(* The fetching state is the present result's: m_hasReachedEndOfResult for any
   statement, m_rowNumber for one that closed its cursors. *)
Counts(s) ==
    /\ stmt[s].rowNumber = IF stmt[s].result = None THEN 0 ELSE stmt[s].result.rows
    /\ ~dm[s].open => stmt[s].rowNumber = 0

EndIsReal(s) == stmt[s].ended => stmt[s].result # None /\ stmt[s].result.over

FetchState == /\ \A s \in Stmts : EndIsReal(s)
              /\ \A s \in Stmts \ strayed : Counts(s)

LEMMA FetchStateOthers ==
  ASSUME Sound, FetchState, HandleStep \/ BindingStep
  PROVE  FetchState'
  <1> USE DEF FetchState, EndIsReal, Counts
  <1>t. /\ \A s \in Stmts : stmt[s] \in StmtRecords
        /\ DOMAIN stmt = Stmts /\ DOMAIN dm = Stmts
        /\ live \subseteq Stmts
    BY DEF Sound, TypeOK
  <1>1. ASSUME NEW s \in Stmts, FreeStmt(s) PROVE FetchState'
    <2>1. /\ stmt'[s] = NewStatement(s) /\ strayed' = strayed \ {s}
          /\ \A t \in Stmts \ {s} : stmt'[t] = stmt[t] /\ dm'[t] = dm[t]
      BY <1>1, <1>t DEF FreeStmt
    <2> QED BY <2>1 DEF NewStatement
  <1>2. ASSUME NEW d \in Descs, FreeDesc(d) PROVE FetchState'
    <2>1. \A s \in live : /\ RevertAppDescriptor(s, d).result = stmt[s].result
                          /\ RevertAppDescriptor(s, d).ended = stmt[s].ended
                          /\ RevertAppDescriptor(s, d).rowNumber = stmt[s].rowNumber
      BY <1>t DEF RevertAppDescriptor, StmtRecords
    <2>2. \A s \in Stmts : stmt'[s] = IF s \in live THEN RevertAppDescriptor(s, d) ELSE stmt[s]
      BY <1>2 DEF FreeDesc
    <2>3. UNCHANGED <<dm, strayed>>
      BY <1>2 DEF FreeDesc
    <2> QED BY <2>1, <2>2, <2>3
  <1>3. ASSUME NEW s \in Stmts, NEW d \in Descriptors, SetArd(s, d) \/ SetApd(s, d)
        PROVE  FetchState'
    <2>1. \A t \in Stmts : /\ stmt'[t].result = stmt[t].result
                           /\ stmt'[t].ended = stmt[t].ended
                           /\ stmt'[t].rowNumber = stmt[t].rowNumber
      BY <1>3, <1>t DEF SetArd, SetApd, StmtRecords
    <2>2. dm' = dm /\ strayed \subseteq strayed'
      BY <1>3 DEF SetArd, SetApd, history
    <2> QED BY <2>1, <2>2
  <1>4. ASSUME UNCHANGED <<stmt, dm>>, strayed \subseteq strayed' PROVE FetchState'
    BY <1>4
  <1>5. CASE BindingStep
    <2>1. UNCHANGED <<stmt, dm>> /\ strayed \subseteq strayed'
      BY <1>5 DEF BindingStep, SetDataPtr, SetHeaderField, CopyDesc, Unbind, history
    <2> QED BY <1>4, <2>1
  <1>6. ASSUME NEW s \in Stmts, AllocStmt(s) PROVE FetchState'
    BY <1>4, <1>6 DEF AllocStmt, history
  <1>7. ASSUME NEW d \in Descs, AllocDesc(d) PROVE FetchState'
    BY <1>4, <1>7 DEF AllocDesc, history
  <1> QED BY <1>1, <1>2, <1>3, <1>5, <1>6, <1>7 DEF HandleStep

LEMMA FetchStateCursor ==
  ASSUME Sound, FetchState, NEW s \in Stmts, CursorStep(s)
  PROVE  FetchState'
  <1>t. /\ stmt[s] \in StmtRecords /\ dm[s] \in DmRecords
        /\ DOMAIN stmt = Stmts /\ DOMAIN dm = Stmts
    BY DEF Sound, TypeOK
  <1>s. EndIsReal(s) /\ (s \notin strayed => Counts(s))
    BY DEF FetchState
  <1>n. NewResult # None /\ NewResult.rows = 0
    BY NewTypes DEF NewResult
  (* What is left to show is about s alone. *)
  <1>1. ASSUME EndIsReal(s)', s \notin strayed' => Counts(s)'
        PROVE  FetchState'
    <2>1. \A t \in Stmts \ {s} : stmt'[t] = stmt[t]
      BY <1>t, OneStatement
    <2>2. \A t \in Stmts \ {s} : dm'[t] = dm[t]
      BY <1>t DEF CursorStep, CloseCursor, MoreResults, Prepare, PrepareOrExecuteFails,
             ExecuteDirect, ExecutePrepared, Catalog, Fetch
    <2>3. strayed' \in {strayed, strayed \union {s}}
      BY DEF CursorStep, CloseCursor, MoreResults, Prepare, PrepareOrExecuteFails,
             ExecuteDirect, ExecutePrepared, Catalog, Fetch, history
    <2> QED BY <1>1, <2>1, <2>2, <2>3 DEF FetchState, EndIsReal, Counts
  <1>2. CASE CloseCursor(s)
    <2>1. stmt'[s].result = None /\ stmt'[s].rowNumber = 0 /\ ~stmt'[s].ended
      BY <1>2, <1>t DEF CloseCursor, Closed, StmtRecords
    <2> QED BY <1>1, <2>1 DEF EndIsReal, Counts
  <1>3. CASE MoreResults(s)
    BY <1>1, <1>3, <1>s DEF MoreResults, EndIsReal
  <1>4. CASE Prepare(s) \/ PrepareOrExecuteFails(s)
    <2>1. /\ stmt'[s].result = stmt[s].result /\ stmt'[s].rowNumber = stmt[s].rowNumber
          /\ stmt'[s].ended = stmt[s].ended
      BY <1>4, <1>t DEF Prepare, PrepareOrExecuteFails, StmtRecords
    <2>2. dm'[s].open = dm[s].open /\ strayed' = strayed
      BY <1>4, <1>t DEF Prepare, PrepareOrExecuteFails, DmRecords, history
    <2> QED BY <1>1, <1>s, <2>1, <2>2 DEF EndIsReal, Counts
  <1>5. CASE ExecuteDirect(s) \/ ExecutePrepared(s)
    <2>1. /\ stmt'[s].result = NewResult /\ stmt'[s].rowNumber = stmt[s].rowNumber
          /\ ~stmt'[s].ended
      BY <1>5, <1>t DEF ExecuteDirect, ExecutePrepared, StmtRecords
    <2>2. ~dm[s].open /\ strayed' = strayed
      BY <1>5 DEF ExecuteDirect, ExecutePrepared, history
    <2>3. s \notin strayed => stmt[s].rowNumber = 0
      BY <1>s, <2>2 DEF Counts
    <2> QED BY <1>1, <1>n, <2>1, <2>2, <2>3 DEF EndIsReal, Counts
  <1>6. CASE Catalog(s)
    <2>1. /\ stmt'[s].result \in {None, NewResult} /\ stmt'[s].rowNumber = 0
          /\ ~stmt'[s].ended
      <3> DEFINE ok == [Closed(stmt[s]) EXCEPT !.result = NewResult, !.isPrepared = FALSE]
      <3>1. stmt'[s] = ok \/ stmt'[s] = Closed(stmt[s])
        BY <1>6, <1>t DEF Catalog
      <3>2. /\ ok.result = NewResult /\ ok.rowNumber = 0 /\ ~ok.ended
            /\ Closed(stmt[s]).result = None /\ Closed(stmt[s]).rowNumber = 0
            /\ ~Closed(stmt[s]).ended
        BY <1>t DEF Closed, StmtRecords
      <3> HIDE DEF ok
      <3> QED BY <3>1, <3>2
    <2> QED BY <1>1, <1>n, <2>1 DEF EndIsReal, Counts
  <1>7. CASE Fetch(s)
    <2>0. /\ ~stmt[s].ended /\ dm[s].open /\ strayed' = strayed /\ dm' = dm
          /\ stmt[s].result # None
      BY <1>7, <1>t DEF Fetch, Sound, Ready
    <2>r. stmt'[s].result # None
      BY <2>0, SoundCursor DEF Sound, Ready
    <2>1. CASE stmt' = [stmt EXCEPT ![s].result.bound = BoundForFetch(s)]
      <3>0. stmt[s].result \in Results
        BY <1>t, <2>0 DEF StmtRecords
      <3>1. /\ stmt'[s].rowNumber = stmt[s].rowNumber /\ ~stmt'[s].ended
            /\ stmt'[s].result.rows = stmt[s].result.rows
        BY <1>t, <2>0, <2>1, <3>0 DEF StmtRecords, Results
      <3> QED BY <1>1, <1>s, <2>0, <2>r, <3>1 DEF EndIsReal, Counts
    <2>2. ASSUME NEW size \in 1..MaxRowset, NEW n \in 0..MaxRowset,
                 stmt' = [stmt EXCEPT
                    ![s].result = [bound |-> BoundForFetch(s), rows |-> @.rows + n,
                                   over |-> n < size],
                    ![s].rowNumber = @ + n,
                    ![s].ended = n < size]
          PROVE  FetchState'
      <3>1. /\ stmt'[s].rowNumber = stmt[s].rowNumber + n /\ stmt'[s].ended = (n < size)
            /\ stmt'[s].result.rows = stmt[s].result.rows + n
            /\ stmt'[s].result.over = (n < size)
        BY <1>t, <2>2 DEF StmtRecords
      <3> QED BY <1>1, <1>s, <2>0, <2>r, <3>1 DEF EndIsReal, Counts
    <2> QED BY <1>7, <2>1, <2>2 DEF Fetch
  <1> QED BY <1>2, <1>3, <1>4, <1>5, <1>6, <1>7 DEF CursorStep

LEMMA AlwaysFetchState == Spec => [](Sound /\ FetchState)
  <1>1. Init => FetchState
    BY DEF Init, FetchState, EndIsReal, Counts, NewStatement
  <1>2. Sound /\ FetchState /\ [Next]_vars => FetchState'
    <2> SUFFICES ASSUME Sound, FetchState, [Next]_vars PROVE FetchState'
      OBVIOUS
    <2>1. CASE UNCHANGED vars
      BY <2>1 DEF vars, FetchState, EndIsReal, Counts
    <2>2. CASE Next
      BY <2>2, FetchStateOthers, FetchStateCursor, StatementAssumption DEF Next
    <2> QED BY <2>1, <2>2
  <1> QED BY <1>1, <1>2, SoundAlways, PTL DEF Spec

(* SQL_ATTR_ROW_NUMBER is the number of rows fetched from the present result. *)
THEOREM RowNumberCounts == Spec => []RowNumberIsCurrent
  <1>1. Sound /\ FetchState => RowNumberIsCurrent
    BY DEF Sound, TypeOK, FetchState, Counts, RowNumberIsCurrent
  <1> QED BY <1>1, AlwaysFetchState, PTL

(* SQL_NO_DATA of one result is never reported for the next, closed or not. *)
THEOREM EndIsNotInherited == Spec => []EndIsOfThisResult
  <1>1. Sound /\ FetchState => EndIsOfThisResult
    BY DEF Sound, TypeOK, FetchState, EndIsReal, EndIsOfThisResult
  <1> QED BY <1>1, AlwaysFetchState, PTL
================================================================================
