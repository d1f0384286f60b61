------------------------- MODULE BlockingQueueProofs -------------------------
(***************************************************************************)
(* Proofs about BlockingQueue for every number of producers, every         *)
(* capacity and every set of items.                                        *)
(***************************************************************************)
EXTENDS BlockingQueue, FiniteSetTheorems, TLAPS

LEMMA RingType == Ring \in Nat \ {0}
  <1>1. CASE UseExtended
    <2>1. ExtFactor * Capacity \in Nat \ {0}
      BY QueueAssumption
    <2> QED BY <2>1, <1>1 DEF Ring
  <1>2. CASE ~UseExtended
    BY <1>2, QueueAssumption DEF Ring
  <1> QED BY <1>1, <1>2

(* One step round the ring, without the modulus. *)
LEMMA NextCell ==
  ASSUME NEW i \in 0..Ring-1
  PROVE  /\ Advance(i) = IF i + 1 = Ring THEN 0 ELSE i + 1
         /\ Advance(i) \in 0..Ring-1
  BY RingType DEF Advance

(* Every variable keeps its type: the ring's indices stay inside buffer_, the
   size never goes below zero, no thread is in two places. *)
THEOREM Typing == Spec => []TypeOK
  <1>1. Init => TypeOK
    BY RingType, QueueAssumption
       DEF Init, TypeOK, RingTypeOK, ThreadTypeOK, ProducerStates, OwnerStates
  <1>2. TypeOK /\ [Next]_vars => TypeOK'
    <2> SUFFICES ASSUME TypeOK, [Next]_vars PROVE TypeOK'
      OBVIOUS
    <2>0. UNCHANGED ringVars => RingTypeOK'
      BY DEF TypeOK, RingTypeOK, ringVars
    <2>p. {"check", "lock", "supply", "exit", "done", "waitCap", "waitTimed", "waitExt"}
            \subseteq ProducerStates
      BY DEF ProducerStates, WaitKinds
    <2>o. {"idle", "pop", "popWait", "close", "join"} \subseteq OwnerStates
      BY DEF OwnerStates
    <2> USE <2>p, <2>o DEF ThreadTypeOK, WaitKinds, mutexVars, NotifyNotEmpty, NotifyAllNotFull
    <2>1. ASSUME NEW p \in Producers, AddProducer(p) PROVE TypeOK'
      BY <2>1, <2>0 DEF AddProducer, TypeOK
    <2>2. ASSUME NEW p \in Producers, Check(p) PROVE TypeOK'
      BY <2>2, <2>0 DEF Check, TypeOK
    <2>3. ASSUME NEW p \in Producers, Enter(p) PROVE TypeOK'
      BY <2>3, <2>0 DEF Enter, LeaveWait, Sleep, WaitKind, TypeOK
    <2>4. ASSUME NEW p \in Producers, Wake(p) PROVE TypeOK'
      BY <2>4, <2>0 DEF Wake, LeaveWait, Sleep, TypeOK
    <2>5. ASSUME NEW p \in Producers, Timeout(p) PROVE TypeOK'
      BY <2>5, <2>0 DEF Timeout, TypeOK
    <2>6. ASSUME NEW p \in Producers, Exit(p) PROVE TypeOK'
      <3>1. RingTypeOK'
        BY <2>6, <2>0 DEF Exit
      <3>2. active' \in Int /\ ppc' \in [Producers -> ProducerStates]
        BY <2>6 DEF Exit, TypeOK
      <3>3. popAsleep' \in BOOLEAN
        BY <2>6 DEF Exit
      <3>4. UNCHANGED <<closed, mtx, notFull, opc, answer>>
        BY <2>6 DEF Exit
      <3>5. ThreadTypeOK'
        BY <3>2, <3>3, <3>4 DEF TypeOK
      <3> QED BY <3>1, <3>5 DEF TypeOK
    <2>7. ASSUME NEW p \in Producers, NEW item \in Items, Supply(p, item) PROVE TypeOK'
      <3>1. RingTypeOK'
        BY <2>7, NextCell DEF Supply, TypeOK, RingTypeOK
      <3>2. ThreadTypeOK'
        BY <2>7 DEF Supply, TypeOK
      <3> QED BY <3>1, <3>2 DEF TypeOK
    <2>8. ASSUME NEW p \in Producers, SupplyNone(p) PROVE TypeOK'
      BY <2>8, <2>0 DEF SupplyNone, TypeOK
    <2>9. CASE SpuriousStep
      BY <2>9, <2>0 DEF SpuriousStep, SpuriousWakeup, TypeOK
    <2>10. CASE EndBuilding \/ CallPop \/ CallClose \/ Join
      BY <2>10, <2>0 DEF EndBuilding, CallPop, CallClose, Join, StepOwner, TypeOK
    <2>11. CASE Pop /\ TakeItem
      <3>0. size > 0
        BY <2>11 DEF Pop, TakeItem, TypeOK, RingTypeOK, ringVars
      <3>a. size' \in Nat
        BY <2>11, <3>0 DEF TakeItem, TypeOK, RingTypeOK
      <3>b. left' \in 0..Ring-1
        BY <2>11, NextCell DEF TakeItem, TypeOK, RingTypeOK
      <3>c. got' \in Seq(Items \cup {NoItem}) /\ buffer' \in [0..Ring-1 -> Items \cup {NoItem}]
        BY <2>11 DEF TakeItem, TypeOK, RingTypeOK
      <3>d. right' \in 0..Ring-1 /\ pushed' \in Seq(Items)
        BY <2>11 DEF TakeItem, TypeOK, RingTypeOK
      <3>1. RingTypeOK'
        BY <3>a, <3>b, <3>c, <3>d DEF RingTypeOK
      <3>2. notFull' \in SUBSET Producers
        BY <2>11 DEF TakeItem, NotifyNotFull, TypeOK
      <3>3. answer' \in Items \cup {NoItem}
        BY <2>11 DEF TakeItem, TypeOK, RingTypeOK
      <3>4. ThreadTypeOK'
        BY <2>11, <3>2, <3>3 DEF Pop, TakeItem, TypeOK
      <3> QED BY <3>1, <3>4 DEF TypeOK
    <2>12. CASE Pop /\ ~TakeItem
      BY <2>12, <2>0 DEF Pop, TypeOK
    <2>13. CASE Close
      BY <2>13, <2>0 DEF Close, TypeOK
    <2>14. CASE UNCHANGED vars
      BY <2>14, <2>0 DEF vars, ringVars, TypeOK
    <2> QED
      BY <2>1, <2>2, <2>3, <2>4, <2>5, <2>6, <2>7, <2>8, <2>9, <2>10, <2>11,
         <2>12, <2>13, <2>14
         DEF Next, ProducerStep, SupplierAnswers, OwnerStep
  <1> QED BY <1>1, <1>2, PTL DEF Spec

-----------------------------------------------------------------------------
(* Who holds the mutex, and what a raised closed_ implies: the owner raises it
   holding mtx_, so no producer is in its supplier then, and none enters it
   afterwards. *)
LockInv ==
    /\ \A p \in Producers : ppc[p] = "supply" <=> mtx = p
    /\ closed => mtx = NoThread
    /\ \A p \in notFull : ppc[p] \in WaitKinds

LEMMA LockInvInductive == TypeOK /\ LockInv /\ [Next]_vars => LockInv'
  <1> SUFFICES ASSUME TypeOK, LockInv, [Next]_vars PROVE LockInv'
    OBVIOUS
  <1> USE QueueAssumption DEF TypeOK, ThreadTypeOK, LockInv, WaitKinds, mutexVars,
                              NotifyAllNotFull
  <1>1. ASSUME NEW p \in Producers, AddProducer(p) PROVE LockInv'
    BY <1>1 DEF AddProducer
  <1>2. ASSUME NEW p \in Producers, Check(p) PROVE LockInv'
    BY <1>2 DEF Check
  <1>3. ASSUME NEW p \in Producers, Enter(p) PROVE LockInv'
    BY <1>3 DEF Enter, LeaveWait, Sleep, WaitKind
  <1>4. ASSUME NEW p \in Producers, Wake(p) PROVE LockInv'
    BY <1>4 DEF Wake, LeaveWait, Sleep
  <1>5. ASSUME NEW p \in Producers, Timeout(p) PROVE LockInv'
    BY <1>5 DEF Timeout
  <1>6. ASSUME NEW p \in Producers, Exit(p) PROVE LockInv'
    BY <1>6 DEF Exit
  <1>7. ASSUME NEW p \in Producers, NEW item \in Items, Supply(p, item) PROVE LockInv'
    BY <1>7 DEF Supply
  <1>8. ASSUME NEW p \in Producers, SupplyNone(p) PROVE LockInv'
    BY <1>8 DEF SupplyNone
  <1>9. CASE SpuriousStep
    BY <1>9 DEF SpuriousStep, SpuriousWakeup
  <1>10. CASE EndBuilding \/ CallPop \/ CallClose \/ Join
    BY <1>10 DEF EndBuilding, CallPop, CallClose, Join
  <1>11. CASE Pop
    BY <1>11 DEF Pop, TakeItem, NotifyNotFull
  <1>12. CASE Close
    BY <1>12 DEF Close
  <1>13. CASE UNCHANGED vars
    BY <1>13 DEF vars
  <1> QED
    BY <1>1, <1>2, <1>3, <1>4, <1>5, <1>6, <1>7, <1>8, <1>9, <1>10, <1>11, <1>12, <1>13
       DEF Next, ProducerStep, SupplierAnswers, OwnerStep

(* At most one supplier runs at a time, and none while the queue is closed. *)
THEOREM Locking == Spec => []LockInv
  <1>1. Init => LockInv
    BY QueueAssumption DEF Init, LockInv
  <1> QED BY <1>1, Typing, LockInvInductive, PTL DEF Spec

(* After Close has raised closed_ nothing is pushed or popped any more. *)
THEOREM ClosedIsFinal == Spec => ClosedForGood
  <1>1. TypeOK /\ LockInv /\ [Next]_vars
          => [closed => closed' /\ UNCHANGED <<pushed, got>>]_vars
    <2> SUFFICES ASSUME TypeOK, LockInv, Next, closed
                 PROVE  closed' /\ UNCHANGED <<pushed, got>>
      BY DEF vars
    <2> USE QueueAssumption DEF LockInv, ringVars
    <2>1. ASSUME NEW p \in Producers, AddProducer(p) \/ ProducerStep(p)
          PROVE  closed' /\ UNCHANGED <<pushed, got>>
      BY <2>1 DEF AddProducer, ProducerStep, Check, Enter, Wake, Timeout, Exit
    <2>2. ASSUME NEW p \in Producers, SupplierAnswers(p)
          PROVE  closed' /\ UNCHANGED <<pushed, got>>
      BY <2>2 DEF SupplierAnswers, Supply, SupplyNone
    <2>3. CASE SpuriousStep \/ EndBuilding \/ CallPop \/ CallClose
      BY <2>3 DEF SpuriousStep, EndBuilding, CallPop, CallClose
    <2>4. CASE OwnerStep
      BY <2>4 DEF OwnerStep, Pop, Close, Join
    <2> QED BY <2>1, <2>2, <2>3, <2>4 DEF Next
  <1> QED BY <1>1, Typing, Locking, PTL DEF Spec, ClosedForGood

-----------------------------------------------------------------------------
(* How a step changes the set of live threads. *)
LEMMA AliveSteps ==
  ASSUME TypeOK, NEW p \in Producers, NEW s \in ProducerStates,
         ppc' = [ppc EXCEPT ![p] = s]
  PROVE  /\ s \notin {"unborn", "done"} /\ p \in Alive => Alive' = Alive
         /\ s \notin {"unborn", "done"} => Alive' = Alive \cup {p}
         /\ s \in {"unborn", "done"} => Alive' = Alive \ {p}
  BY DEF TypeOK, ThreadTypeOK, Alive

LEMMA AliveIsFinite == IsFiniteSet(Alive) /\ Cardinality(Alive) \in Nat
  <1>1. Alive \subseteq Producers
    BY DEF Alive
  <1> QED BY <1>1, QueueAssumption, FS_Subset, FS_CardinalityType

LEMMA ActiveInductive ==
  TypeOK /\ ActiveIsAccurate /\ [Next]_vars => ActiveIsAccurate'
  <1> SUFFICES ASSUME TypeOK, ActiveIsAccurate, [Next]_vars PROVE ActiveIsAccurate'
    OBVIOUS
  <1> USE DEF ActiveIsAccurate
  <1>s. {"check", "lock", "supply", "exit", "done", "waitCap", "waitTimed", "waitExt"}
          \subseteq ProducerStates
    BY DEF ProducerStates, WaitKinds
  <1>1. ASSUME NEW p \in Producers, AddProducer(p) PROVE ActiveIsAccurate'
    <2>1. p \notin Alive /\ Alive' = Alive \cup {p} /\ active' = active + 1
      BY <1>1, <1>s, AliveSteps DEF AddProducer, Alive
    <2> QED BY <2>1, AliveIsFinite, FS_AddElement
  <1>2. ASSUME NEW p \in Producers, Exit(p) PROVE ActiveIsAccurate'
    <2>1. p \in Alive /\ Alive' = Alive \ {p} /\ active' = active - 1
      BY <1>2, <1>s, AliveSteps DEF Exit, Alive
    <2> QED BY <2>1, AliveIsFinite, FS_RemoveElement
  <1>3. ASSUME NEW p \in Producers, Check(p) \/ Enter(p) \/ Wake(p) \/ Timeout(p)
        PROVE  ActiveIsAccurate'
    <2>1. active' = active /\ (ppc' = ppc \/ p \in Alive)
      BY <1>3 DEF Check, Enter, Wake, Timeout, WaitKinds, Alive
    <2>2. \/ ppc' = ppc
          \/ \E s \in ProducerStates \ {"unborn", "done"} : ppc' = [ppc EXCEPT ![p] = s]
      BY <1>3, <1>s DEF Check, Enter, Wake, Timeout, LeaveWait, Sleep, WaitKind, WaitKinds
    <2>3. Alive' = Alive
      BY <2>1, <2>2, AliveSteps DEF Alive
    <2> QED BY <2>1, <2>3
  <1>4. ASSUME NEW p \in Producers, SupplierAnswers(p) PROVE ActiveIsAccurate'
    <2>1. active' = active /\ p \in Alive
      BY <1>4 DEF SupplierAnswers, Supply, SupplyNone, Alive
    <2>2. \E s \in {"check", "exit"} : ppc' = [ppc EXCEPT ![p] = s]
      BY <1>4 DEF SupplierAnswers, Supply, SupplyNone
    <2>3. Alive' = Alive
      BY <2>1, <2>2, <1>s, AliveSteps
    <2> QED BY <2>1, <2>3
  <1>5. ASSUME UNCHANGED <<active, ppc>> PROVE ActiveIsAccurate'
    BY <1>5 DEF Alive
  <1>6. CASE SpuriousStep \/ EndBuilding \/ CallPop \/ CallClose
    BY <1>5, <1>6 DEF SpuriousStep, EndBuilding, CallPop, CallClose
  <1>7. CASE OwnerStep
    BY <1>5, <1>7 DEF OwnerStep, Pop, Close, Join
  <1>8. CASE UNCHANGED vars
    BY <1>5, <1>8 DEF vars
  <1> QED
    BY <1>1, <1>2, <1>3, <1>4, <1>6, <1>7, <1>8 DEF Next, ProducerStep

(* active_threads_ counts the threads that have not ended. *)
THEOREM ActiveCount == Spec => []ActiveIsAccurate
  <1>1. Init => ActiveIsAccurate
    <2>1. Init => Alive = {} /\ active = 0
      BY DEF Init, Alive
    <2> QED BY <2>1, FS_EmptySet DEF ActiveIsAccurate
  <1> QED BY <1>1, Typing, ActiveInductive, PTL DEF Spec

-----------------------------------------------------------------------------
(* Close: the owner is past its join whenever closed_ is up and it is not in
   it, and it sleeps in Pop only for a reason. *)
OwnerInv ==
    /\ popAsleep => opc = "popWait"
    /\ PopSleepsForAReason
    /\ closed => opc # "building"
    /\ closed /\ opc # "join" => Alive = {}

LEMMA OwnerInductive ==
  TypeOK /\ LockInv /\ ActiveIsAccurate /\ OwnerInv /\ [Next]_vars => OwnerInv'
  <1> SUFFICES ASSUME TypeOK, LockInv, ActiveIsAccurate, OwnerInv, [Next]_vars
               PROVE  OwnerInv'
    OBVIOUS
  <1> USE DEF OwnerInv, PopSleepsForAReason, NotifyNotEmpty, NothingLeft
  <1>t. closed \in BOOLEAN /\ popAsleep \in BOOLEAN /\ active \in Int /\ size \in Nat
    BY DEF TypeOK, ThreadTypeOK, RingTypeOK
  <1>c. active # 0 => active > 0
    BY <1>t, AliveIsFinite DEF ActiveIsAccurate
  <1>1. ASSUME NEW p \in Producers, AddProducer(p) PROVE OwnerInv'
    BY <1>1, <1>t DEF AddProducer, ringVars, mutexVars
  <1>2. ASSUME NEW p \in Producers, Exit(p) PROVE OwnerInv'
    <2>1. p \in Alive /\ Alive' \subseteq Alive
      BY <1>2 DEF Exit, Alive, TypeOK, ThreadTypeOK
    <2> QED BY <1>2, <2>1 DEF Exit, ringVars
  <1>3. ASSUME NEW p \in Producers, Check(p) \/ Enter(p) \/ Wake(p) \/ Timeout(p)
        PROVE  OwnerInv'
    <2>1. p \in Alive
      BY <1>3, LockInv DEF Check, Enter, Wake, Timeout, Alive, WaitKinds
    <2>2. UNCHANGED <<closed, popAsleep, opc, size, active>>
      BY <1>3 DEF Check, Enter, Wake, Timeout, ringVars, mutexVars
    <2> QED BY <2>1, <2>2
  <1>4. ASSUME NEW p \in Producers, SupplierAnswers(p) PROVE OwnerInv'
    <2>1. p \in Alive /\ ~closed
      BY <1>4, QueueAssumption
         DEF SupplierAnswers, Supply, SupplyNone, Alive, LockInv
    <2> QED BY <1>4, <2>1 DEF SupplierAnswers, Supply, SupplyNone, ringVars
  <1>5. CASE SpuriousStep
    BY <1>5 DEF SpuriousStep, SpuriousWakeup, ringVars, Alive
  <1>6. CASE EndBuilding \/ CallPop \/ CallClose \/ Join
    BY <1>6 DEF EndBuilding, CallPop, CallClose, Join, StepOwner, ringVars, mutexVars, Alive
  <1>7. CASE Pop
    BY <1>7, <1>t, <1>c DEF Pop, TakeItem, ringVars, Alive
  <1>8. CASE Close
    BY <1>8 DEF Close, ringVars, Alive
  <1>9. CASE UNCHANGED vars
    BY <1>9 DEF vars, ringVars, mutexVars, Alive
  <1> QED
    BY <1>1, <1>2, <1>3, <1>4, <1>5, <1>6, <1>7, <1>8, <1>9
       DEF Next, ProducerStep, OwnerStep

LEMMA OwnerInvariant == Spec => []OwnerInv
  <1>1. Init => OwnerInv
    BY DEF Init, OwnerInv, PopSleepsForAReason
  <1> QED BY <1>1, Typing, Locking, ActiveCount, OwnerInductive, PTL DEF Spec

(* No wake-up of not_empty_ is lost. *)
THEOREM PopNotLost == Spec => []PopSleepsForAReason
  <1>1. OwnerInv => PopSleepsForAReason
    BY DEF OwnerInv
  <1> QED BY <1>1, OwnerInvariant, PTL

(* When Close has returned, all threads have ended. *)
THEOREM JoinedAfterClose == Spec => []CloseJoins
  <1>1. OwnerInv => CloseJoins
    BY DEF OwnerInv, CloseJoins
  <1> QED BY <1>1, OwnerInvariant, PTL

-----------------------------------------------------------------------------
(* The ring: positions on it are l or, past the end, start again at 0. *)
LEMMA ModSmall == ASSUME NEW N \in Nat \ {0}, NEW x \in 0..N-1 PROVE x % N = x
  OBVIOUS

LEMMA ModShift == ASSUME NEW N \in Nat \ {0}, NEW x \in N..2*N-1 PROVE x % N = x - N
  OBVIOUS

(* The cell at distance i from cell l. *)
Cell(l, i) == IF l + i < Ring THEN l + i ELSE l + i - Ring

LEMMA CellAt ==
  ASSUME NEW l \in 0..Ring-1, NEW i \in 0..Ring
  PROVE  (l + i) % Ring = Cell(l, i)
  <1>1. CASE l + i < Ring
    <2>1. l + i \in 0..Ring-1
      BY <1>1, RingType
    <2>2. (l + i) % Ring = l + i
      BY <2>1, RingType, ModSmall
    <2> QED BY <1>1, <2>2 DEF Cell
  <1>2. CASE ~(l + i < Ring)
    <2>1. l + i \in Ring..2*Ring-1
      BY <1>2, RingType
    <2>2. (l + i) % Ring = l + i - Ring
      BY <2>1, RingType, ModShift
    <2> QED BY <1>2, <2>2 DEF Cell
  <1> QED BY <1>1, <1>2

LEMMA CellType ==
  ASSUME NEW l \in 0..Ring-1, NEW i \in 0..Ring
  PROVE  Cell(l, i) \in 0..Ring-1
  BY RingType DEF Cell

(* Different distances below the size of the ring lead to different cells. *)
LEMMA CellsDiffer ==
  ASSUME NEW l \in 0..Ring-1, NEW i \in 0..Ring-1, NEW j \in 0..Ring-1, i # j
  PROVE  Cell(l, i) # Cell(l, j)
  BY RingType DEF Cell

LEMMA CellHere == ASSUME NEW l \in 0..Ring-1 PROVE Cell(l, 0) = l
  BY RingType DEF Cell

LEMMA CellSteps ==
  ASSUME NEW l \in 0..Ring-1, NEW i \in 0..Ring-1
  PROVE  /\ Cell(Cell(l, i), 1) = Cell(l, i + 1)
         /\ Cell(Cell(l, 1), i) = Cell(l, i + 1)
  BY RingType DEF Cell

LEMMA AppendIndices ==
  ASSUME NEW S, NEW s \in Seq(S), NEW x \in S
  PROVE  /\ Len(s) \in Nat /\ Len(Append(s, x)) = Len(s) + 1
         /\ Append(s, x)[Len(s) + 1] = x
         /\ \A i \in 1..Len(s) : Append(s, x)[i] = s[i]
  OBVIOUS

(* Without the extended buffer a producer calls its supplier only while a cell
   is free, and the lock keeps it free; right_ is left_ moved by the size. *)
RingInv ==
    /\ size <= Ring
    /\ \A p \in Producers : ppc[p] = "supply" => size < Ring
    /\ right = Cell(left, size)
    /\ Len(pushed) = Len(got) + size
    /\ \A i \in 1..Len(got) : got[i] = pushed[i]
    /\ \A i \in 0..size-1 : buffer[Cell(left, i)] = pushed[Len(got) + i + 1]

LEMMA RingInvIsFifo == TypeOK /\ RingInv => FifoIntact /\ NeverOverfull
  <1> SUFFICES ASSUME TypeOK, RingInv PROVE FifoIntact /\ NeverOverfull
    OBVIOUS
  <1>1. ASSUME NEW i \in 0..size-1
        PROVE  buffer[(left + i) % Ring] = pushed[Len(got) + i + 1]
    <2>1. left \in 0..Ring-1 /\ i \in 0..Ring
      BY RingType DEF TypeOK, RingTypeOK, RingInv
    <2> QED BY <2>1, CellAt DEF RingInv
  <1> QED BY <1>1 DEF RingInv, FifoIntact, NeverOverfull

LEMMA RingSupply ==
  ASSUME TypeOK, LockInv, RingInv,
         NEW p \in Producers, NEW item \in Items, Supply(p, item)
  PROVE  RingInv'
  <1>t. /\ left \in 0..Ring-1 /\ right \in 0..Ring-1
        /\ size \in 0..Ring-1 /\ Ring \in Nat \ {0}
        /\ buffer \in [0..Ring-1 -> Items \cup {NoItem}]
        /\ pushed \in Seq(Items) /\ got \in Seq(Items \cup {NoItem})
    BY RingType DEF TypeOK, RingTypeOK, Supply, RingInv
  <1>1. right' = Cell(left, size + 1)
    <2>1. right' = Cell(right, 1)
      BY <1>t, CellAt DEF Supply, Advance
    <2> QED BY <1>t, <2>1, CellSteps DEF RingInv
  <1>2. /\ size' = size + 1 /\ left' = left /\ got' = got
        /\ buffer' = [buffer EXCEPT ![right] = item]
        /\ pushed' = Append(pushed, item)
    BY DEF Supply
  <1>3. \A q \in Producers : ppc'[q] # "supply"
    BY QueueAssumption DEF Supply, LockInv, TypeOK, ThreadTypeOK
  <1>4. /\ Len(pushed) = Len(got) + size
        /\ Len(pushed') = Len(pushed) + 1
        /\ pushed'[Len(pushed) + 1] = item
        /\ \A i \in 1..Len(pushed) : pushed'[i] = pushed[i]
    <2>1. Len(pushed) = Len(got) + size
      BY DEF RingInv
    <2>2. /\ Len(Append(pushed, item)) = Len(pushed) + 1
          /\ Append(pushed, item)[Len(pushed) + 1] = item
          /\ \A i \in 1..Len(pushed) : Append(pushed, item)[i] = pushed[i]
      BY <1>t, AppendIndices
    <2> QED BY <1>2, <2>1, <2>2
  <1>5. \A i \in 1..Len(got) : got[i] = pushed'[i]
    BY <1>t, <1>4 DEF RingInv
  <1>6. ASSUME NEW i \in 0..size
        PROVE  buffer'[Cell(left, i)] = pushed'[Len(got) + i + 1]
    <2>1. CASE i = size
      BY <1>t, <1>2, <1>4, <2>1 DEF RingInv
    <2>2. CASE i # size
      <3>1. i \in 0..size-1 /\ i \in 0..Ring-1
        BY <1>t, <2>2
      <3>2. Cell(left, i) # right /\ Cell(left, i) \in 0..Ring-1
        <4>1. Cell(left, i) # Cell(left, size)
          BY <1>t, <2>2, <3>1, CellsDiffer
        <4>2. left \in 0..Ring-1 /\ i \in 0..Ring
          BY <1>t
        <4>3. Cell(left, i) \in 0..Ring-1
          BY <4>2, CellType
        <4> QED BY <4>1, <4>3 DEF RingInv
      <3>3. Len(got) + i + 1 \in 1..Len(pushed)
        BY <1>t, <1>4, <3>1
      <3> QED BY <1>t, <1>2, <1>4, <3>1, <3>2, <3>3 DEF RingInv
    <2> QED BY <2>1, <2>2
  <1> QED BY SMTT(30), <1>t, <1>1, <1>2, <1>3, <1>4, <1>5, <1>6 DEF RingInv

LEMMA RingTake ==
  ASSUME TypeOK, RingInv, size > 0, TakeItem, UNCHANGED ppc
  PROVE  RingInv'
  <1>t. /\ left \in 0..Ring-1 /\ size \in 1..Ring /\ Ring \in Nat \ {0}
        /\ buffer \in [0..Ring-1 -> Items \cup {NoItem}]
        /\ pushed \in Seq(Items) /\ got \in Seq(Items \cup {NoItem})
    BY RingType DEF TypeOK, RingTypeOK, RingInv
  <1>1. left' = Cell(left, 1)
    BY <1>t, CellAt DEF TakeItem, Advance
  <1>2. /\ size' = size - 1 /\ right' = right /\ pushed' = pushed
        /\ got' = Append(got, buffer[left])
        /\ buffer' = [buffer EXCEPT ![left] = NoItem]
    BY DEF TakeItem
  <1>3. right' = Cell(left', size')
    <2>1. size - 1 \in 0..Ring-1 /\ (size - 1) + 1 = size
      BY <1>t
    <2>2. Cell(Cell(left, 1), size - 1) = Cell(left, (size - 1) + 1)
      BY <1>t, <2>1, CellSteps
    <2> QED BY <1>1, <1>2, <2>1, <2>2 DEF RingInv
  <1>4. /\ Len(pushed) = Len(got) + size
        /\ Len(got') = Len(got) + 1
        /\ got'[Len(got) + 1] = buffer[left]
        /\ \A i \in 1..Len(got) : got'[i] = got[i]
    <2>1. Len(pushed) = Len(got) + size
      BY DEF RingInv
    <2>2. buffer[left] \in Items \cup {NoItem}
      BY <1>t
    <2> QED BY <1>t, <1>2, <2>1, <2>2, AppendIndices
  <1>5. buffer[left] = pushed[Len(got) + 1]
    <2>1. 0 \in 0..size-1 /\ 0 \in 0..Ring-1 /\ Len(got) + 0 + 1 = Len(got) + 1
      BY <1>t
    <2> QED BY <1>t, <2>1, CellHere DEF RingInv
  <1>6. ASSUME NEW i \in 1..Len(got') PROVE got'[i] = pushed[i]
    <2>1. CASE i = Len(got) + 1
      BY <1>4, <1>5, <2>1
    <2>2. CASE i # Len(got) + 1
      <3>1. i \in 1..Len(got)
        BY <1>t, <1>4, <2>2
      <3> QED BY <1>4, <3>1 DEF RingInv
    <2> QED BY <2>1, <2>2
  <1>7. ASSUME NEW i \in 0..size'-1
        PROVE  buffer'[Cell(left', i)] = pushed[Len(got') + i + 1]
    <2>1. /\ i \in 0..Ring-1 /\ i + 1 \in 0..Ring-1 /\ i + 1 \in 0..size-1
          /\ 0 \in 0..Ring-1 /\ 0 # i + 1
      BY <1>t, <1>2
    <2>2. Cell(left', i) = Cell(left, i + 1)
      BY <1>t, <1>1, <2>1, CellSteps
    <2>3. Cell(left, i + 1) # left /\ Cell(left, i + 1) \in 0..Ring-1
      <3>1. Cell(left, i + 1) # Cell(left, 0) /\ Cell(left, 0) = left
        BY <1>t, <2>1, CellsDiffer, CellHere
      <3>2. left \in 0..Ring-1 /\ i + 1 \in 0..Ring
        BY <1>t, <2>1
      <3>3. Cell(left, i + 1) \in 0..Ring-1
        BY <3>2, CellType
      <3> QED BY <3>1, <3>3
    <2>4. buffer[Cell(left, i + 1)] = pushed[Len(got) + (i + 1) + 1]
      BY <2>1 DEF RingInv
    <2>5. Len(got') + i + 1 = Len(got) + (i + 1) + 1
      BY <1>t, <1>4, <2>1
    <2> QED BY <1>t, <1>2, <2>2, <2>3, <2>4, <2>5
  <1>8. \A p \in Producers : ppc'[p] = "supply" => size' < Ring
    BY <1>t, <1>2
  <1> QED BY <1>t, <1>2, <1>3, <1>4, <1>6, <1>7, <1>8 DEF RingInv

(* Without the extended buffer all producers wait with the same predicate. *)
PlainInv == \A p \in Producers : ppc[p] \notin {"waitTimed", "waitExt"}

LEMMA PlainInductive ==
  ASSUME ~UseExtended PROVE TypeOK /\ PlainInv /\ [Next]_vars => PlainInv'
  <1> SUFFICES ASSUME TypeOK, PlainInv, [Next]_vars PROVE PlainInv'
    OBVIOUS
  <1> USE DEF TypeOK, ThreadTypeOK, PlainInv
  <1>1. ASSUME NEW p \in Producers, AddProducer(p) PROVE PlainInv'
    BY <1>1 DEF AddProducer
  <1>2. ASSUME NEW p \in Producers, ProducerStep(p) PROVE PlainInv'
    <2>1. CASE Check(p) \/ Timeout(p) \/ Exit(p)
      BY <2>1 DEF Check, Timeout, Exit
    <2>2. CASE Enter(p)
      BY <2>2 DEF Enter, LeaveWait, Sleep, WaitKind
    <2>3. CASE Wake(p)
      BY <2>3 DEF Wake, LeaveWait, Sleep, WaitKinds
    <2> QED BY <1>2, <2>1, <2>2, <2>3 DEF ProducerStep
  <1>3. ASSUME NEW p \in Producers, SupplierAnswers(p) PROVE PlainInv'
    BY <1>3 DEF SupplierAnswers, Supply, SupplyNone
  <1>4. ASSUME UNCHANGED ppc PROVE PlainInv'
    BY <1>4
  <1>5. CASE SpuriousStep \/ EndBuilding \/ CallPop \/ CallClose \/ UNCHANGED vars
    BY <1>4, <1>5 DEF SpuriousStep, EndBuilding, CallPop, CallClose, vars
  <1>6. CASE OwnerStep
    BY <1>4, <1>6 DEF OwnerStep, Pop, Close, Join
  <1> QED BY <1>1, <1>2, <1>3, <1>5, <1>6 DEF Next

LEMMA RingInductive ==
  ASSUME ~UseExtended
  PROVE  TypeOK /\ LockInv /\ PlainInv /\ RingInv /\ [Next]_vars => RingInv'
  <1> SUFFICES ASSUME TypeOK, LockInv, PlainInv, RingInv, [Next]_vars PROVE RingInv'
    OBVIOUS
  <1>c. Ring = Capacity
    BY DEF Ring
  <1>u. ASSUME UNCHANGED ringVars,
               \A q \in Producers : ppc'[q] = "supply" => size < Ring
        PROVE  RingInv'
    BY <1>u DEF RingInv, ringVars
  <1>1. ASSUME NEW p \in Producers, AddProducer(p) PROVE RingInv'
    BY <1>1, <1>u DEF AddProducer, RingInv, TypeOK, ThreadTypeOK
  <1>2. ASSUME NEW p \in Producers, Check(p) \/ Timeout(p) \/ Exit(p) PROVE RingInv'
    BY <1>2, <1>u DEF Check, Timeout, Exit, RingInv, TypeOK, ThreadTypeOK
  <1>3. ASSUME NEW p \in Producers, Enter(p) PROVE RingInv'
    <2>1. \A q \in Producers : ppc'[q] = "supply" => size < Ring
      BY <1>3, <1>c DEF Enter, LeaveWait, Sleep, WaitKind, WaitIsOver,
                        RingInv, TypeOK, ThreadTypeOK
    <2> QED BY <1>3, <1>u, <2>1 DEF Enter
  <1>4. ASSUME NEW p \in Producers, Wake(p) PROVE RingInv'
    <2>1. ppc[p] = "waitCap"
      BY <1>4 DEF Wake, WaitKinds, PlainInv
    <2>2. \A q \in Producers : ppc'[q] = "supply" => size < Ring
      BY <1>4, <2>1, <1>c DEF Wake, LeaveWait, Sleep, WaitIsOver,
                              RingInv, TypeOK, ThreadTypeOK
    <2> QED BY <1>4, <1>u, <2>2 DEF Wake
  <1>5. ASSUME NEW p \in Producers, SupplierAnswers(p) PROVE RingInv'
    <2>1. CASE SupplyNone(p)
      BY <2>1, <1>u DEF SupplyNone, RingInv, TypeOK, ThreadTypeOK
    <2>2. CASE \E item \in Items : Supply(p, item)
      BY <2>2, RingSupply
    <2> QED BY <1>5, <2>1, <2>2 DEF SupplierAnswers
  <1>6. CASE SpuriousStep \/ EndBuilding \/ CallPop \/ CallClose
    BY <1>6, <1>u DEF SpuriousStep, EndBuilding, CallPop, CallClose, RingInv
  <1>7. CASE Pop
    <2>1. CASE TakeItem /\ size > 0
      BY <1>7, <2>1, RingTake DEF Pop
    <2>2. CASE ~(TakeItem /\ size > 0)
      BY <1>7, <2>2, <1>u DEF Pop, RingInv
    <2> QED BY <2>1, <2>2
  <1>8. CASE Close \/ Join
    BY <1>8, <1>u DEF Close, Join, RingInv
  <1>9. CASE UNCHANGED vars
    BY <1>9, <1>u DEF vars, RingInv
  <1> QED
    BY <1>1, <1>2, <1>3, <1>4, <1>5, <1>6, <1>7, <1>8, <1>9
       DEF Next, ProducerStep, OwnerStep

LEMMA RingInvariant == ASSUME ~UseExtended PROVE Spec => []RingInv
  <1>1. Init => RingInv
    <2> SUFFICES ASSUME Init PROVE RingInv
      OBVIOUS
    <2>1. Cell(0, 0) = 0
      BY RingType, CellHere
    <2> QED BY <2>1, RingType DEF Init, RingInv
  <1>2. Init => PlainInv
    BY DEF Init, PlainInv
  <1> QED BY <1>1, <1>2, Typing, Locking, PlainInductive, RingInductive, PTL DEF Spec

(* Items leave the ring in the order they entered it, none is lost, repeated
   or overwritten, for every capacity and number of producers; the extended
   buffer is the exception. *)
THEOREM RingIsFifo == ASSUME ~UseExtended PROVE Spec => [](FifoIntact /\ NeverOverfull)
  BY RingInvariant, Typing, RingInvIsFifo, PTL

-----------------------------------------------------------------------------
(* Pop answers "no more items" only when there are none and will be none. *)
EndInv ==
    answer = EndOfItems /\ ~closed => opc # "building" /\ size = 0 /\ Alive = {}

LEMMA EndInductive ==
  TypeOK /\ LockInv /\ ActiveIsAccurate /\ EndInv /\ [Next]_vars => EndInv'
  <1> SUFFICES ASSUME TypeOK, LockInv, ActiveIsAccurate, EndInv, [Next]_vars
               PROVE  EndInv'
    OBVIOUS
  <1> USE DEF EndInv, NothingLeft
  <1>1. ASSUME NEW p \in Producers, AddProducer(p) PROVE EndInv'
    BY <1>1 DEF AddProducer
  <1>2. ASSUME NEW p \in Producers, ProducerStep(p) PROVE EndInv'
    <2>1. p \in Alive /\ UNCHANGED <<answer, closed>>
      BY <1>2 DEF ProducerStep, Check, Enter, Wake, Timeout, Exit, Alive, WaitKinds
    <2> QED BY <2>1
  <1>3. ASSUME NEW p \in Producers, SupplierAnswers(p) PROVE EndInv'
    <2>1. p \in Alive /\ UNCHANGED <<answer, closed>>
      BY <1>3 DEF SupplierAnswers, Supply, SupplyNone, Alive
    <2> QED BY <2>1
  <1>4. CASE SpuriousStep \/ EndBuilding \/ CallClose \/ Join \/ UNCHANGED vars
    BY <1>4 DEF SpuriousStep, EndBuilding, CallClose, Join, StepOwner, vars, ringVars, Alive
  <1>5. CASE CallPop
    BY <1>5, QueueAssumption DEF CallPop
  <1>6. CASE Pop
    <2>1. CASE answer' = EndOfItems /\ ~closed /\ UNCHANGED ringVars
      <3>1. size = 0 /\ (answer = EndOfItems \/ active = 0) /\ opc' # "building"
        BY <1>6, <2>1 DEF Pop, TakeItem, ringVars, TypeOK, RingTypeOK
      <3>2. Alive = {}
        BY <2>1, <3>1, AliveIsFinite, FS_EmptySet DEF ActiveIsAccurate
      <3> QED BY <1>6, <3>1, <3>2, <2>1 DEF Pop, ringVars, Alive
    <2>2. CASE answer' # EndOfItems \/ closed
      BY <1>6, <2>2 DEF Pop
    <2>3. CASE answer' = EndOfItems /\ ~closed /\ ~UNCHANGED ringVars
      <3>1. answer' = buffer[left] /\ buffer[left] \in Items \cup {NoItem}
        BY <1>6, <2>3 DEF Pop, TakeItem, TypeOK, RingTypeOK
      <3> QED BY <2>3, <3>1, QueueAssumption
    <2> QED BY <2>1, <2>2, <2>3
  <1>7. CASE Close
    BY <1>7 DEF Close, ringVars, Alive
  <1> QED
    BY <1>1, <1>2, <1>3, <1>4, <1>5, <1>6, <1>7 DEF Next, OwnerStep

(* The end of the stream is never reported early, and nothing is left behind
   when it is. *)
THEOREM EndIsNotEarly == ASSUME ~UseExtended PROVE Spec => []EndIsTheEnd
  <1>1. Init => EndInv
    BY QueueAssumption DEF Init, EndInv
  <1>2. TypeOK /\ RingInv /\ EndInv => EndIsTheEnd
    <2> SUFFICES ASSUME TypeOK, RingInv, EndInv, answer = EndOfItems, ~closed
                 PROVE  Alive = {} /\ got = pushed
      BY DEF EndIsTheEnd
    <2>1. size = 0 /\ Alive = {}
      BY DEF EndInv
    <2>2. /\ pushed \in Seq(Items) /\ got \in Seq(Items \cup {NoItem})
          /\ Len(pushed) = Len(got) /\ \A i \in 1..Len(got) : got[i] = pushed[i]
      BY <2>1 DEF TypeOK, RingTypeOK, RingInv
    <2> QED BY <2>1, <2>2
  <1> QED
    BY <1>1, <1>2, Typing, Locking, ActiveCount, RingInvariant, EndInductive, PTL DEF Spec

-----------------------------------------------------------------------------
(* Lost notifications of not_full_.  Each Pop takes one item and wakes one
   sleeper, and a producer goes to sleep only when it finds Capacity items; so
   while there are no more producers than that, there are never more sleepers
   than items. *)
StrandInv == Cardinality(notFull) <= size

LEMMA RingHoldsCapacity == Capacity <= Ring
  <1>1. CASE UseExtended
    <2>1. ExtFactor * Capacity >= Capacity
      BY QueueAssumption
    <2> QED BY <1>1, <2>1, QueueAssumption DEF Ring
  <1>2. CASE ~UseExtended
    BY <1>2, QueueAssumption DEF Ring
  <1> QED BY <1>1, <1>2

LEMMA SleepersFinite ==
  ASSUME TypeOK PROVE IsFiniteSet(notFull) /\ Cardinality(notFull) \in Nat
  BY QueueAssumption, FS_Subset, FS_CardinalityType DEF TypeOK, ThreadTypeOK

(* Only a producer that found Capacity items joins the sleepers. *)
LEMMA SleepingMeansFull ==
  ASSUME TypeOK, NEW p \in Producers, Enter(p) \/ Wake(p)
  PROVE  /\ notFull' = notFull \/ (size >= Capacity /\ notFull' \in SUBSET Producers)
         /\ UNCHANGED ringVars
  <1>t. /\ size \in Nat /\ Capacity \in Nat /\ Ring \in Nat
        /\ notFull \in SUBSET Producers
    BY QueueAssumption, RingType DEF TypeOK, RingTypeOK, ThreadTypeOK
  <1>1. CASE Enter(p)
    BY <1>t, <1>1, RingHoldsCapacity DEF Enter, LeaveWait, Sleep, WaitKind, WaitIsOver
  <1>2. CASE Wake(p)
    BY <1>t, <1>2, RingHoldsCapacity DEF Wake, LeaveWait, Sleep, WaitKinds, WaitIsOver
  <1> QED BY <1>1, <1>2

LEMMA StrandInductive ==
  ASSUME Cardinality(Producers) <= Capacity
  PROVE  TypeOK /\ StrandInv /\ [Next]_vars => StrandInv'
  <1> SUFFICES ASSUME TypeOK, StrandInv, [Next]_vars PROVE StrandInv'
    OBVIOUS
  <1> USE DEF StrandInv
  <1>t. size \in Nat /\ Capacity \in Nat /\ notFull \in SUBSET Producers
    BY QueueAssumption DEF TypeOK, RingTypeOK, ThreadTypeOK
  <1>f. IsFiniteSet(notFull) /\ Cardinality(notFull) \in Nat
    BY SleepersFinite
  <1>1. ASSUME NEW p \in notFull, notFull' = notFull \ {p}
        PROVE  Cardinality(notFull') = Cardinality(notFull) - 1
    BY <1>1, <1>f, FS_RemoveElement
  <1>2. ASSUME UNCHANGED <<notFull, size>> PROVE StrandInv'
    BY <1>2
  <1>3. ASSUME NEW p \in Producers, AddProducer(p) \/ Check(p) \/ Exit(p)
        PROVE  StrandInv'
    BY <1>2, <1>3 DEF AddProducer, Check, Exit, ringVars, mutexVars
  <1>4. ASSUME NEW p \in Producers, Enter(p) \/ Wake(p) PROVE StrandInv'
    <2>1. CASE notFull' = notFull
      BY <1>2, <1>4, <2>1, SleepingMeansFull DEF ringVars
    <2>2. CASE size >= Capacity /\ notFull' \in SUBSET Producers
      <3>1. Cardinality(notFull') <= Cardinality(Producers)
        BY <2>2, QueueAssumption, FS_Subset
      <3>2. Cardinality(notFull') \in Nat /\ Cardinality(Producers) \in Nat
        BY <2>2, QueueAssumption, FS_Subset, FS_CardinalityType
      <3>3. size' = size
        BY <1>4, SleepingMeansFull DEF ringVars
      <3> QED BY <1>t, <2>2, <3>1, <3>2, <3>3
    <2> QED BY <1>4, <2>1, <2>2, SleepingMeansFull
  <1>5. ASSUME NEW p \in Producers, Timeout(p) PROVE StrandInv'
    BY <1>1, <1>5, <1>t, <1>f DEF Timeout, ringVars
  <1>6. ASSUME NEW p \in Producers, SupplierAnswers(p) PROVE StrandInv'
    BY <1>6, <1>t, <1>f DEF SupplierAnswers, Supply, SupplyNone, ringVars
  <1>7. CASE SpuriousStep
    BY <1>1, <1>7, <1>t, <1>f DEF SpuriousStep, SpuriousWakeup, ringVars
  <1>8. CASE EndBuilding \/ CallPop \/ CallClose \/ Join \/ UNCHANGED vars
    BY <1>2, <1>8 DEF EndBuilding, CallPop, CallClose, Join, vars, ringVars, mutexVars
  <1>9. CASE Pop
    <2>1. CASE UNCHANGED <<ringVars, notFull>>
      BY <1>2, <2>1 DEF ringVars
    <2>2. CASE size > 0 /\ TakeItem
      <3>1. CASE notFull = {} /\ notFull' = {}
        BY <1>t, <2>2, <3>1, FS_EmptySet DEF TakeItem
      <3>2. CASE \E p \in notFull : notFull' = notFull \ {p}
        <4>1. Cardinality(notFull') = Cardinality(notFull) - 1
          BY <1>1, <3>2
        <4>2. size' = size - 1
          BY <2>2 DEF TakeItem
        <4> QED BY <1>t, <1>f, <4>1, <4>2
      <3> QED BY <2>2, <3>1, <3>2 DEF TakeItem, NotifyNotFull
    <2> QED BY <1>9, <2>1, <2>2 DEF Pop
  <1>10. CASE Close
    BY <1>10, <1>t, <1>2, FS_EmptySet DEF Close, NotifyAllNotFull, ringVars
  <1> QED
    BY <1>3, <1>4, <1>5, <1>6, <1>7, <1>8, <1>9, <1>10
       DEF Next, ProducerStep, OwnerStep

(* A result set with no more endpoints than ChunkBufferCapacity never strands
   a producer: whoever sleeps on not_full_ sleeps before an item the owner can
   still pop. *)
THEOREM NobodyStranded ==
  ASSUME Cardinality(Producers) <= Capacity
  PROVE  Spec => []NoStrandedProducer
  <1>1. Init => StrandInv
    BY FS_EmptySet DEF Init, StrandInv
  <1>2. TypeOK /\ StrandInv => NoStrandedProducer
    <2> SUFFICES ASSUME TypeOK, StrandInv, notFull # {} PROVE size > 0
      BY DEF NoStrandedProducer
    <2>1. Cardinality(notFull) # 0 /\ Cardinality(notFull) \in Nat /\ size \in Nat
      BY SleepersFinite, FS_EmptySet DEF TypeOK, RingTypeOK
    <2> QED BY <2>1 DEF StrandInv
  <1> QED BY <1>1, <1>2, Typing, StrandInductive, PTL DEF Spec

-----------------------------------------------------------------------------
(* How far over its limit the queue can go.  A producer passes a wait, or
   starts the timed one, only below the limit; from then on until its Push or
   its end it may add one item whatever the size has become. *)
Pushers == {p \in Producers : ppc[p] \in {"waitTimed", "supply"}}

OvershootInv == size + Cardinality(Pushers) <= Ring - 1 + Cardinality(Producers)

LEMMA PushersFinite ==
  /\ IsFiniteSet(Pushers) /\ Cardinality(Pushers) \in Nat
  /\ Cardinality(Producers) \in Nat /\ Cardinality(Pushers) <= Cardinality(Producers)
  <1>1. Pushers \subseteq Producers
    BY DEF Pushers
  <1> QED BY <1>1, QueueAssumption, FS_Subset, FS_CardinalityType

(* Only a producer that finds a free cell becomes a pusher. *)
LEMMA BecomingPusher ==
  ASSUME TypeOK, NEW p \in Producers, Enter(p) \/ Wake(p)
  PROVE  /\ Pushers' \subseteq Pushers \/ size <= Ring - 1
         /\ UNCHANGED ringVars
  <1>t. /\ size \in Nat /\ Capacity \in Nat /\ Ring \in Nat
        /\ ppc \in [Producers -> ProducerStates]
    BY QueueAssumption, RingType DEF TypeOK, RingTypeOK, ThreadTypeOK
  <1>1. CASE Enter(p)
    <2>1. CASE size <= Ring - 1
      BY <1>1, <2>1 DEF Enter
    <2>2. CASE ~(size <= Ring - 1)
      <3>1. ppc'[p] \notin {"waitTimed", "supply"}
        BY <1>1, <1>t, <2>2, RingHoldsCapacity
           DEF Enter, LeaveWait, Sleep, WaitKind, WaitIsOver, Ring
      <3>2. \A q \in Producers : q # p => ppc'[q] = ppc[q]
        BY <1>1, <1>t DEF Enter, LeaveWait, Sleep
      <3> QED BY <1>1, <3>1, <3>2 DEF Enter, Pushers
    <2> QED BY <2>1, <2>2
  <1>2. CASE Wake(p)
    <2>1. CASE size <= Ring - 1
      BY <1>2, <2>1 DEF Wake
    <2>2. CASE ~(size <= Ring - 1)
      <3>1. ppc'[p] \in {"waitTimed", "supply"} => p \in Pushers
        BY <1>2, <1>t, <2>2, RingHoldsCapacity
           DEF Wake, LeaveWait, Sleep, WaitKinds, WaitIsOver, Pushers
      <3>2. \A q \in Producers : q # p => ppc'[q] = ppc[q]
        BY <1>2, <1>t DEF Wake, LeaveWait, Sleep
      <3> QED BY <1>2, <3>1, <3>2 DEF Wake, Pushers
    <2> QED BY <2>1, <2>2
  <1> QED BY <1>1, <1>2

LEMMA OvershootInductive == TypeOK /\ OvershootInv /\ [Next]_vars => OvershootInv'
  <1> SUFFICES ASSUME TypeOK, OvershootInv, [Next]_vars PROVE OvershootInv'
    OBVIOUS
  <1> USE DEF OvershootInv
  <1>t. /\ size \in Nat /\ Ring \in Nat
        /\ ppc \in [Producers -> ProducerStates]
    BY RingType DEF TypeOK, RingTypeOK, ThreadTypeOK
  <1>f. /\ IsFiniteSet(Pushers) /\ Cardinality(Pushers) \in Nat
        /\ Cardinality(Producers) \in Nat
    BY PushersFinite
  <1>g. Cardinality(Pushers') \in Nat /\ Cardinality(Pushers') <= Cardinality(Producers)
    <2>1. Pushers' \subseteq Producers
      BY DEF Pushers
    <2> QED BY <2>1, QueueAssumption, FS_Subset, FS_CardinalityType
  <1>1. ASSUME Pushers' \subseteq Pushers, size' \in Nat, size' <= size
        PROVE  OvershootInv'
    <2>1. Cardinality(Pushers') <= Cardinality(Pushers)
      BY <1>1, <1>f, FS_Subset
    <2> QED BY <1>t, <1>f, <1>g, <1>1, <2>1
  <1>2. ASSUME UNCHANGED <<ppc, size>> PROVE OvershootInv'
    BY <1>1, <1>2, <1>t DEF Pushers
  <1>3. ASSUME NEW p \in Producers,
               AddProducer(p) \/ Check(p) \/ Timeout(p) \/ Exit(p) \/ SupplyNone(p)
        PROVE  OvershootInv'
    <2>1. Pushers' \subseteq Pushers /\ size' = size
      BY <1>3, <1>t DEF AddProducer, Check, Timeout, Exit, SupplyNone, Pushers, ringVars
    <2> QED BY <1>1, <1>t, <2>1
  <1>4. ASSUME NEW p \in Producers, Enter(p) \/ Wake(p) PROVE OvershootInv'
    <2>1. size' = size
      BY <1>4, BecomingPusher DEF ringVars
    <2>2. CASE size <= Ring - 1
      BY <1>t, <1>f, <1>g, <2>1, <2>2
    <2>3. CASE Pushers' \subseteq Pushers
      BY <1>1, <1>t, <2>1, <2>3
    <2> QED BY <1>4, <2>2, <2>3, BecomingPusher
  <1>5. ASSUME NEW p \in Producers, NEW item \in Items, Supply(p, item)
        PROVE  OvershootInv'
    <2>1. p \in Pushers /\ Pushers' = Pushers \ {p} /\ size' = size + 1
      BY <1>5, <1>t DEF Supply, Pushers
    <2>2. Cardinality(Pushers') = Cardinality(Pushers) - 1
      BY <1>f, <2>1, FS_RemoveElement
    <2> QED BY <1>t, <1>f, <1>g, <2>1, <2>2
  <1>6. CASE SpuriousStep \/ EndBuilding \/ CallPop \/ CallClose \/ UNCHANGED vars
    BY <1>2, <1>6 DEF SpuriousStep, EndBuilding, CallPop, CallClose, vars, ringVars
  <1>7. CASE OwnerStep
    <2>1. ppc' = ppc
      BY <1>7 DEF OwnerStep, Pop, Close, Join
    <2>2. size' \in Nat /\ size' <= size
      BY <1>7, <1>t DEF OwnerStep, Pop, TakeItem, Close, Join, ringVars
    <2> QED BY <1>1, <2>1, <2>2 DEF Pushers
  <1> QED
    BY <1>3, <1>4, <1>5, <1>6, <1>7 DEF Next, ProducerStep, SupplierAnswers

(* Even with the extended buffer, the queue goes over its limit by less than
   one item per producer. *)
THEOREM OvershootIsBounded == Spec => []OvershootBound
  <1>1. Init => OvershootInv
    <2> SUFFICES ASSUME Init PROVE OvershootInv
      OBVIOUS
    <2>1. Pushers = {} /\ size = 0
      BY DEF Init, Pushers
    <2> QED BY <2>1, PushersFinite, RingType, FS_EmptySet DEF OvershootInv
  <1>2. TypeOK /\ OvershootInv => OvershootBound
    BY PushersFinite, RingType DEF OvershootInv, OvershootBound, TypeOK, RingTypeOK
  <1> QED BY <1>1, <1>2, Typing, OvershootInductive, PTL DEF Spec

-----------------------------------------------------------------------------
(* The channel the queue implements.  The parts of the refinement mapping that
   follow the owner have names of their own. *)
Building == opc = "building"
Asking   == opc \in {"pop", "popWait"}

(* One lemma per step of the channel. *)
LEMMA IsStutter ==
  ASSUME Contents' = Contents, closed' = closed, Building' = Building,
         Alive' = Alive, Asking' = Asking, answer' = answer
  PROVE  [Channel!Next]_(Channel!vars)
  BY DEF Channel!vars, Building, Asking

LEMMA IsAdd ==
  ASSUME NEW p \in Producers, Building, p \notin Alive, Alive' = Alive \cup {p},
         Contents' = Contents, closed' = closed, Building', Asking' = Asking,
         answer' = answer
  PROVE  [Channel!Next]_(Channel!vars)
  BY DEF Channel!Next, Channel!Add, Building, Asking

LEMMA IsStartUse ==
  ASSUME Building, ~Building', Alive' = Alive, Contents' = Contents,
         closed' = closed, Asking' = Asking, answer' = answer
  PROVE  [Channel!Next]_(Channel!vars)
  BY DEF Channel!Next, Channel!StartUse, Building, Asking

LEMMA IsPut ==
  ASSUME NEW item \in Items, ~closed, Alive # {}, Len(Contents) < Ring,
         Contents' = Append(Contents, item), closed' = closed, Building' = Building,
         Alive' = Alive, Asking' = Asking, answer' = answer
  PROVE  [Channel!Next]_(Channel!vars)
  BY DEF Channel!Next, Channel!Put, Building, Asking

LEMMA IsFinish ==
  ASSUME NEW p \in Producers, p \in Alive, Alive' = Alive \ {p},
         Contents' = Contents, closed' = closed, Building' = Building,
         Asking' = Asking, answer' = answer
  PROVE  [Channel!Next]_(Channel!vars)
  BY DEF Channel!Next, Channel!Finish, Building, Asking

LEMMA IsAsk ==
  ASSUME ~Building, ~Asking, Asking', answer' = NoItem,
         Contents' = Contents, closed' = closed, ~Building', Alive' = Alive
  PROVE  [Channel!Next]_(Channel!vars)
  BY DEF Channel!Next, Channel!Ask, Building, Asking

LEMMA IsTake ==
  ASSUME Asking, ~closed, Contents # <<>>, ~Asking', answer' = Head(Contents),
         Contents' = Tail(Contents), closed' = closed, Building' = Building,
         Alive' = Alive
  PROVE  [Channel!Next]_(Channel!vars)
  BY DEF Channel!Next, Channel!Take, Building, Asking

LEMMA IsReportEnd ==
  ASSUME Asking, closed \/ (Contents = <<>> /\ Alive = {}),
         ~Asking', answer' = EndOfItems,
         Contents' = Contents, closed' = closed, Building' = Building, Alive' = Alive
  PROVE  [Channel!Next]_(Channel!vars)
  BY DEF Channel!Next, Channel!ReportEnd, Building, Asking

LEMMA IsClose ==
  ASSUME ~Building, ~Asking, ~closed, closed', Contents' = Contents,
         ~Building', Alive' = Alive, ~Asking', answer' = answer
  PROVE  [Channel!Next]_(Channel!vars)
  BY DEF Channel!Next, Channel!CloseChannel, Building, Asking

-----------------------------------------------------------------------------
(* The channel's queue in terms of cells. *)
HasCells ==
    /\ Contents \in Seq(Items \cup {NoItem}) /\ Len(Contents) = size
    /\ \A i \in 1..size : Contents[i] = buffer[Cell(left, i - 1)]

LEMMA ContentsCells == TypeOK /\ RingInv => HasCells
  <1> SUFFICES ASSUME TypeOK, RingInv PROVE HasCells
    OBVIOUS
  <1>t. /\ left \in 0..Ring-1 /\ size \in 0..Ring /\ Ring \in Nat \ {0}
        /\ buffer \in [0..Ring-1 -> Items \cup {NoItem}]
    BY RingType DEF TypeOK, RingTypeOK, RingInv
  <1>1. ASSUME NEW i \in 1..size
        PROVE  /\ (left + i - 1) % Ring = Cell(left, i - 1)
               /\ Cell(left, i - 1) \in 0..Ring-1
    <2>1. i - 1 \in 0..Ring /\ left + i - 1 = left + (i - 1)
      BY <1>t
    <2>2. (left + (i - 1)) % Ring = Cell(left, i - 1)
      BY <1>t, <2>1, CellAt
    <2>3. Cell(left, i - 1) \in 0..Ring-1
      BY <1>t, <2>1, CellType
    <2> QED BY <2>1, <2>2, <2>3
  <1>2. \A i \in 1..size : buffer[(left + i - 1) % Ring] \in Items \cup {NoItem}
    BY <1>t, <1>1
  <1>3. \A i \in 1..size : Contents[i] = buffer[Cell(left, i - 1)]
    BY <1>1 DEF Contents
  <1>4. Contents \in Seq(Items \cup {NoItem}) /\ Len(Contents) = size
    BY <1>t, <1>2 DEF Contents
  <1> QED BY <1>3, <1>4 DEF HasCells

LEMMA ContentsKept ==
  ASSUME UNCHANGED <<buffer, left, size>> PROVE Contents' = Contents
  BY DEF Contents

(* Push appends to the channel's queue. *)
LEMMA ContentsSupply ==
  ASSUME TypeOK, RingInv, TypeOK', RingInv', size < Ring,
         NEW p \in Producers, NEW item \in Items, Supply(p, item)
  PROVE  Contents' = Append(Contents, item)
  <1>t. /\ left \in 0..Ring-1 /\ right \in 0..Ring-1
        /\ size \in 0..Ring-1 /\ Ring \in Nat \ {0}
        /\ buffer \in [0..Ring-1 -> Items \cup {NoItem}]
        /\ right = Cell(left, size)
    BY SMTT(30), RingType DEF TypeOK, RingTypeOK, RingInv
  <1>s. /\ size' = size + 1 /\ left' = left
        /\ buffer' = [buffer EXCEPT ![right] = item]
    BY DEF Supply
  <1>1. /\ Contents \in Seq(Items \cup {NoItem}) /\ Len(Contents) = size
        /\ \A i \in 1..size : Contents[i] = buffer[Cell(left, i - 1)]
    BY ContentsCells DEF HasCells
  <1>2. /\ Contents' \in Seq(Items \cup {NoItem}) /\ Len(Contents') = size + 1
        /\ \A i \in 1..size + 1 : Contents'[i] = buffer'[Cell(left, i - 1)]
    <2>1. HasCells'
      BY ContentsCells, PTL
    <2>2. Ring' = Ring
      BY DEF Ring
    <2> QED BY <1>s, <2>1, <2>2 DEF HasCells, Cell
  <1>3. ASSUME NEW i \in 1..size + 1 PROVE Contents'[i] = Append(Contents, item)[i]
    <2>1. CASE i = size + 1
      <3>1. Contents'[i] = buffer'[Cell(left, size)]
        BY <1>t, <1>2, <2>1
      <3> QED BY <1>t, <1>s, <1>1, <2>1, <3>1
    <2>2. CASE i # size + 1
      <3>1. i \in 1..size /\ i - 1 \in 0..Ring-1 /\ i - 1 # size /\ i - 1 \in 0..Ring
        BY <1>t, <2>2
      <3>2. Cell(left, i - 1) # right
        BY <1>t, <3>1, CellsDiffer
      <3>3. Cell(left, i - 1) \in 0..Ring-1
        BY <1>t, <3>1, CellType
      <3>4. Contents'[i] = Contents[i]
        BY <1>t, <1>s, <1>1, <1>2, <3>1, <3>2, <3>3
      <3> QED BY <1>1, <3>1, <3>4
    <2> QED BY <2>1, <2>2
  <1>4. Append(Contents, item) \in Seq(Items \cup {NoItem})
        /\ Len(Append(Contents, item)) = size + 1
    BY <1>1
  <1> HIDE DEF Contents
  <1> QED BY <1>t, <1>2, <1>3, <1>4

(* Pop takes the head off the channel's queue. *)
LEMMA ContentsTake ==
  ASSUME TypeOK, RingInv, TypeOK', RingInv', size > 0, TakeItem
  PROVE  Contents # <<>> /\ answer' = Head(Contents) /\ Contents' = Tail(Contents)
  <1>t. /\ left \in 0..Ring-1 /\ size \in 1..Ring /\ Ring \in Nat \ {0}
        /\ buffer \in [0..Ring-1 -> Items \cup {NoItem}]
    BY RingType DEF TypeOK, RingTypeOK, RingInv
  <1>s. /\ size' = size - 1 /\ left' = Cell(left, 1) /\ answer' = buffer[left]
        /\ buffer' = [buffer EXCEPT ![left] = NoItem]
    BY <1>t, CellAt DEF TakeItem, Advance
  <1>1. /\ Contents \in Seq(Items \cup {NoItem}) /\ Len(Contents) = size
        /\ \A i \in 1..size : Contents[i] = buffer[Cell(left, i - 1)]
    BY ContentsCells DEF HasCells
  <1>2. /\ Contents' \in Seq(Items \cup {NoItem}) /\ Len(Contents') = size - 1
        /\ \A i \in 1..size - 1 : Contents'[i] = buffer'[Cell(Cell(left, 1), i - 1)]
    <2>1. HasCells'
      BY ContentsCells, PTL
    <2>2. Ring' = Ring
      BY DEF Ring
    <2> QED BY <1>s, <2>1, <2>2 DEF HasCells, Cell
  <1>3. Contents # <<>> /\ Head(Contents) = buffer[left]
    <2>1. Contents[1] = buffer[Cell(left, 0)] /\ Cell(left, 0) = left
      BY <1>t, <1>1, CellHere
    <2> HIDE DEF Contents
    <2> QED BY <1>t, <1>1, <2>1
  <1>4. ASSUME NEW i \in 1..size - 1 PROVE Contents'[i] = Contents[i + 1]
    <2>1. /\ i \in 0..Ring-1 /\ i - 1 \in 0..Ring-1 /\ (i - 1) + 1 = i /\ (i + 1) - 1 = i
          /\ 0 \in 0..Ring-1 /\ i # 0 /\ i \in 0..Ring /\ i + 1 \in 1..size
      BY <1>t
    <2>2. Cell(Cell(left, 1), i - 1) = Cell(left, i)
      BY <1>t, <2>1, CellSteps
    <2>3. Cell(left, i) # left
      BY <1>t, <2>1, CellsDiffer, CellHere
    <2>4. Cell(left, i) \in 0..Ring-1
      BY <1>t, <2>1, CellType
    <2>5. Contents[i + 1] = buffer[Cell(left, i)]
      BY <1>1, <2>1
    <2> QED BY <1>t, <1>s, <1>2, <2>2, <2>3, <2>4, <2>5
  <1> HIDE DEF Contents
  <1>5. /\ Tail(Contents) \in Seq(Items \cup {NoItem}) /\ Len(Tail(Contents)) = size - 1
        /\ \A i \in 1..size - 1 : Tail(Contents)[i] = Contents[i + 1]
    BY <1>t, <1>1, <1>3
  <1>6. Contents' = Tail(Contents)
    BY <1>t, <1>2, <1>4, <1>5
  <1> QED BY <1>s, <1>3, <1>6

-----------------------------------------------------------------------------
(* A producer thread that does not end stays alive. *)
LEMMA AliveStays ==
  ASSUME TypeOK, NEW p \in Producers,
         \/ Check(p) \/ Enter(p) \/ Wake(p) \/ Timeout(p)
         \/ SupplyNone(p) \/ \E item \in Items : Supply(p, item)
  PROVE  p \in Alive /\ Alive' = Alive
  <1>s. {"check", "lock", "supply", "exit", "waitCap", "waitTimed", "waitExt"}
          \subseteq ProducerStates \ {"unborn", "done"}
    BY DEF ProducerStates, WaitKinds
  <1>1. p \in Alive
    BY DEF Check, Enter, Wake, Timeout, Supply, SupplyNone, Alive, WaitKinds
  <1>2. \/ ppc' = ppc
        \/ \E s \in ProducerStates \ {"unborn", "done"} : ppc' = [ppc EXCEPT ![p] = s]
    BY <1>s DEF Check, Enter, Wake, Timeout, LeaveWait, Sleep, WaitKind, WaitKinds,
                Supply, SupplyNone
  <1>3. Alive' = Alive
    BY <1>1, <1>2, AliveSteps DEF Alive
  <1> QED BY <1>1, <1>3

ChannelInv == TypeOK /\ LockInv /\ ActiveIsAccurate /\ OwnerInv /\ RingInv

LEMMA ProducerRefines ==
  ASSUME ChannelInv, ChannelInv', NEW p \in Producers,
         AddProducer(p) \/ ProducerStep(p) \/ SupplierAnswers(p)
  PROVE  [Channel!Next]_(Channel!vars)
  <1>s. {"check", "done"} \subseteq ProducerStates
    BY DEF ProducerStates
  <1>1. CASE AddProducer(p)
    <2>1. /\ Building /\ UNCHANGED <<opc, closed, answer, buffer, left, size>>
          /\ p \notin Alive /\ Alive' = Alive \cup {p}
      BY <1>1, <1>s, AliveSteps DEF AddProducer, Building, Alive, ringVars, ChannelInv
    <2> QED BY <2>1, ContentsKept, IsAdd DEF Building, Asking
  <1>2. CASE Check(p) \/ Enter(p) \/ Wake(p) \/ Timeout(p) \/ SupplyNone(p)
    <2>1. UNCHANGED <<opc, closed, answer, buffer, left, size>>
      BY <1>2 DEF Check, Enter, Wake, Timeout, SupplyNone, ringVars
    <2>2. Alive' = Alive
      BY <1>2, AliveStays DEF ChannelInv
    <2> QED BY <2>1, <2>2, ContentsKept, IsStutter DEF Building, Asking
  <1>3. ASSUME NEW item \in Items, Supply(p, item)
        PROVE  [Channel!Next]_(Channel!vars)
    <2>1. /\ UNCHANGED <<opc, closed, answer>> /\ ~closed /\ size < Ring
      BY <1>3, QueueAssumption DEF Supply, ChannelInv, LockInv, RingInv
    <2>2. Alive # {} /\ Alive' = Alive
      BY <1>3, AliveStays DEF ChannelInv
    <2>3. Contents' = Append(Contents, item) /\ Len(Contents) = size
      BY <1>3, <2>1, ContentsSupply, ContentsCells DEF ChannelInv, HasCells
    <2> QED BY <2>1, <2>2, <2>3, IsPut DEF Building, Asking
  <1>4. CASE Exit(p)
    <2>1. UNCHANGED <<opc, closed, answer, buffer, left, size>>
      BY <1>4 DEF Exit, ringVars
    <2>2. p \in Alive /\ Alive' = Alive \ {p}
      BY <1>4, <1>s, AliveSteps DEF Exit, Alive, ChannelInv
    <2> QED BY <2>1, <2>2, ContentsKept, IsFinish DEF Building, Asking
  <1> QED BY <1>1, <1>2, <1>3, <1>4 DEF ProducerStep, SupplierAnswers

LEMMA PopRefines ==
  ASSUME ChannelInv, ChannelInv', Pop
  PROVE  [Channel!Next]_(Channel!vars)
  <1>1. Asking /\ Building' = Building /\ closed' = closed /\ Alive' = Alive
    BY DEF Pop, Asking, Building, Alive
  <1>2. CASE ~closed /\ size > 0 /\ TakeItem /\ opc' = "idle"
    <2>1. ~Asking'
      BY <1>2 DEF Asking
    <2>2. Contents # <<>> /\ answer' = Head(Contents) /\ Contents' = Tail(Contents)
      BY <1>2, ContentsTake DEF ChannelInv
    <2> QED BY <1>1, <1>2, <2>1, <2>2, IsTake
  <1>3. CASE /\ closed \/ NothingLeft
             /\ answer' = EndOfItems /\ opc' = "idle" /\ UNCHANGED ringVars
    <2>1. NothingLeft => Contents = <<>> /\ Alive = {}
      <3>1. ASSUME NothingLeft PROVE Alive = {}
        BY <3>1, AliveIsFinite, FS_EmptySet DEF NothingLeft, ActiveIsAccurate, ChannelInv
      <3>2. ASSUME NothingLeft PROVE Contents = <<>>
        <4>1. Contents \in Seq(Items \cup {NoItem}) /\ Len(Contents) = 0
          BY <3>2, ContentsCells DEF NothingLeft, ChannelInv, HasCells
        <4> HIDE DEF Contents
        <4> QED BY <4>1
      <3> QED BY <3>1, <3>2
    <2>2. Contents' = Contents
      BY <1>3, ContentsKept DEF ringVars
    <2>3. ~Asking'
      BY <1>3 DEF Asking
    <2> QED BY <1>1, <1>3, <2>1, <2>2, <2>3, IsReportEnd
  <1>4. CASE opc' = "popWait" /\ UNCHANGED <<ringVars, answer>>
    <2>1. Contents' = Contents
      BY <1>4, ContentsKept DEF ringVars
    <2>2. Asking' = Asking
      BY <1>4 DEF Asking, Pop
    <2> QED BY <1>1, <1>4, <2>1, <2>2, IsStutter
  <1> QED BY <1>2, <1>3, <1>4 DEF Pop

LEMMA OwnerRefines ==
  ASSUME ChannelInv, EndBuilding \/ CallPop \/ CallClose \/ Close \/ Join
  PROVE  [Channel!Next]_(Channel!vars)
  <1>1. /\ UNCHANGED <<buffer, left, size>> /\ Alive' = Alive
    BY DEF EndBuilding, CallPop, CallClose, Close, Join, ringVars, Alive
  <1>2. Contents' = Contents
    BY <1>1, ContentsKept
  <1>3. CASE EndBuilding
    BY <1>1, <1>2, <1>3, IsStartUse DEF EndBuilding, StepOwner, Building, Asking
  <1>4. CASE CallPop
    BY <1>1, <1>2, <1>4, IsAsk DEF CallPop, StepOwner, Building, Asking
  <1>5. CASE CallClose \/ Join
    BY <1>1, <1>2, <1>5, IsStutter DEF CallClose, Join, StepOwner, Building, Asking
  <1>6. CASE Close
    <2>1. CASE closed
      BY <1>1, <1>2, <1>6, <2>1, IsStutter DEF Close, Building, Asking
    <2>2. CASE ~closed
      BY <1>1, <1>2, <1>6, <2>2, IsClose DEF Close, Building, Asking
    <2> QED BY <2>1, <2>2
  <1> QED BY <1>3, <1>4, <1>5, <1>6

(* Without the extended buffer the queue, with its lock, ring, sleeping and
   waking threads, behaves for its owner and its suppliers like a bounded FIFO
   channel: every step is one step of the channel or is not seen by them. *)
THEOREM IsABoundedChannel == ASSUME ~UseExtended PROVE Spec => ImplementsChannel
  <1>1. Init => Channel!Init
    <2> SUFFICES ASSUME Init PROVE Channel!Init
      OBVIOUS
    <2>1. Contents = <<>>
      BY DEF Init, Contents
    <2>2. Alive = {}
      BY DEF Init, Alive
    <2> QED BY <2>1, <2>2 DEF Init, Channel!Init
  <1>2. ChannelInv /\ ChannelInv' /\ [Next]_vars => [Channel!Next]_(Channel!vars)
    <2> SUFFICES ASSUME ChannelInv, ChannelInv', [Next]_vars
                 PROVE  [Channel!Next]_(Channel!vars)
      OBVIOUS
    <2>1. CASE SpuriousStep \/ UNCHANGED vars
      <3>1. UNCHANGED <<buffer, left, size, ppc, opc, closed, answer>>
        BY <2>1 DEF SpuriousStep, vars, ringVars
      <3> QED BY <3>1, ContentsKept, IsStutter DEF Building, Asking, Alive
    <2> QED BY <2>1, ProducerRefines, PopRefines, OwnerRefines DEF Next, OwnerStep
  <1>3. Spec => []ChannelInv
    BY Typing, Locking, ActiveCount, OwnerInvariant, RingInvariant, PTL DEF ChannelInv
  <1> QED BY <1>1, <1>2, <1>3, PTL DEF Spec, ImplementsChannel, Channel!Spec

=============================================================================
