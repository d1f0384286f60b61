-------------------------- MODULE ChunkBufferProofs --------------------------
(***************************************************************************)
(* Proofs about ChunkBuffer for every number of endpoints and batches.     *)
(* What holds of the queue is taken from BlockingQueueProofs: the chunk    *)
(* buffer is shown to use its queue only as BlockingQueue lets its users.  *)
(***************************************************************************)
EXTENDS ChunkBuffer, TLAPS

(* The theorems about the queue, for the queue of this class. *)
QueueP == INSTANCE BlockingQueueProofs WITH Producers <- Endpoints

-----------------------------------------------------------------------------
(* Where the application thread is in its call and where it is in the queue. *)
InQueue ==
    /\ call \in {"construct", "thrown", "terminated"} <=> opc = "building"
    /\ call \in {"none", "destroyed"} => opc = "idle"
    /\ call = "GetNext" => opc \in {"pop", "popWait", "idle"}
    /\ call \in {"raise", "Close", "destroy"} => opc \in {"close", "join", "idle"}
    /\ opc = "join" \/ (call \in {"raise", "Close", "destroy"} /\ opc = "idle") => closed

(* What the last GetNext reported, and what follows from it. *)
Reported ==
    /\ call = "destroyed" \/ outcome = "error" => closed
    /\ outcome = "end" => answer = EndOfItems /\ call # "GetNext"

(* An error the application was handed is on its way to a Close. *)
FailureStops ==
    \A i \in 1..Len(got) : IsFailure(got[i]) =>
        \/ closed
        \/ /\ (call = "GetNext" /\ opc = "idle") \/ call = "raise"
           /\ IsFailure(answer)

(* What the suppliers have pushed: the batches each stream has delivered, in
   its order, and an error for each stream that failed. *)
Delivered(e, n) == \E i \in 1..Len(pushed) : pushed[i] = Chunk(e, n)

PushedSent ==
    \A i \in 1..Len(pushed) :
        /\ pushed[i].batch # 0 => pushed[i].batch <= sent[pushed[i].from]
        /\ pushed[i].batch = 0 => pushed[i].from \in failed

SentPushed ==
    /\ \A e \in Endpoints : \A n \in 1..sent[e] : Delivered(e, n)
    /\ \A e \in failed : Delivered(e, 0)

PushedInOrder ==
    \A j \in 1..Len(pushed) : \A i \in 1..j-1 :
        pushed[i].from = pushed[j].from /\ pushed[i].batch # 0 /\ pushed[j].batch # 0
            => pushed[i].batch < pushed[j].batch

-----------------------------------------------------------------------------
LEMMA ChunkTypeInductive == ChunkTypeOK /\ [Next]_vars => ChunkTypeOK'
  <1> SUFFICES ASSUME ChunkTypeOK, [Next]_vars PROVE ChunkTypeOK'
    OBVIOUS
  <1> USE DEF ChunkTypeOK, Calls, Outcomes
  <1>1. ASSUME NEW e \in Endpoints, DoGet(e) \/ Producer(e) PROVE ChunkTypeOK'
    BY <1>1 DEF DoGet, Producer
  <1>2. ASSUME NEW e \in Endpoints, Supplier(e) PROVE ChunkTypeOK'
    BY <1>2, ChunkAssumption DEF Supplier, NextDelivers, NextFails, NextEnds
  <1>3. CASE DoGetFails \/ Constructed \/ Spurious \/ InsideQueue \/ UNCHANGED vars
    BY <1>3 DEF DoGetFails, Constructed, Spurious, InsideQueue, vars
  <1>4. CASE GetNext \/ CallClose \/ Destroy
    BY <1>4 DEF GetNext, CallClose, Destroy, StartClose, Readers
  <1>5. CASE Return
    BY <1>5 DEF Return, GetNextReturns, GetNextFails, CloseReturned, StartClose, Readers
  <1> QED BY <1>1, <1>2, <1>3, <1>4, <1>5 DEF Next

LEMMA ChunkTypes == Spec => []ChunkTypeOK
  <1>1. Init => ChunkTypeOK
    BY ChunkAssumption DEF Init, ChunkTypeOK, Calls, Outcomes
  <1> QED BY <1>1, ChunkTypeInductive, PTL DEF Spec

-----------------------------------------------------------------------------
(* Every step of this class is a step of the queue's specification, or leaves
   the queue alone. *)
LEMMA QueueStep == ChunkTypeOK /\ [Next]_vars => [Queue!Next]_(Queue!vars)
  <1> SUFFICES ASSUME ChunkTypeOK, [Next]_vars PROVE [Queue!Next]_(Queue!vars)
    OBVIOUS
  <1>v. UNCHANGED queueVars => UNCHANGED Queue!vars
    BY DEF queueVars, Queue!vars, Queue!ringVars, Queue!mutexVars
  <1>1. ASSUME NEW e \in Endpoints, DoGet(e) PROVE Queue!Next
    BY <1>1 DEF DoGet, Queue!Next
  <1>2. ASSUME NEW e \in Endpoints, Supplier(e) PROVE Queue!Next
    <2>1. CASE NextEnds(e)
      BY <2>1 DEF NextEnds, Queue!Next, Queue!SupplierAnswers
    <2>2. CASE NextFails(e)
      <3>1. Failure(e) \in Items
        BY ChunkAssumption DEF Failure, Items
      <3>2. Len(pushed) < MaxPushes /\ Queue!Supply(e, Failure(e))
        BY <2>2 DEF NextFails
      <3> QED BY <3>1, <3>2 DEF Queue!Next, Queue!SupplierAnswers
    <2>3. CASE NextDelivers(e)
      <3>1. sent[e] < MaxBatches /\ Len(pushed) < MaxPushes
        BY <2>3 DEF NextDelivers
      <3>2. Chunk(e, sent[e] + 1) \in Items
        BY <3>1, ChunkAssumption DEF Chunk, Items, ChunkTypeOK
      <3>3. Queue!Supply(e, Chunk(e, sent[e] + 1))
        BY <2>3 DEF NextDelivers
      <3> QED BY <3>1, <3>2, <3>3 DEF Queue!Next, Queue!SupplierAnswers
    <2> QED BY <1>2, <2>1, <2>2, <2>3 DEF Supplier
  <1>3. ASSUME NEW e \in Endpoints, Producer(e) PROVE Queue!Next
    BY <1>3 DEF Producer, Queue!Next
  <1>4. CASE Spurious
    BY <1>4 DEF Spurious, Queue!Next
  <1>5. CASE Constructed
    BY <1>5 DEF Constructed, Queue!Next
  <1>6. CASE GetNext
    BY <1>6 DEF GetNext, Queue!Next
  <1>7. CASE CallClose \/ Destroy \/ GetNextFails
    BY <1>7 DEF CallClose, Destroy, GetNextFails, StartClose, Queue!Next
  <1>8. CASE InsideQueue
    BY <1>8 DEF InsideQueue, Queue!Next
  <1>9. CASE DoGetFails \/ GetNextReturns \/ CloseReturned \/ UNCHANGED vars
    BY <1>9, <1>v DEF DoGetFails, GetNextReturns, CloseReturned, vars
  <1> QED
    BY <1>1, <1>2, <1>3, <1>4, <1>5, <1>6, <1>7, <1>8, <1>9 DEF Next, Return

(* The chunk buffer, its suppliers and its callers use the queue only in the
   ways BlockingQueue allows its users: one call at a time, producers added
   before the first Pop, no item once closed. *)
THEOREM UsesTheQueue == Spec => Queue!Spec
  <1>1. Init => Queue!Init
    BY DEF Init
  <1> QED BY <1>1, ChunkTypes, QueueStep, PTL DEF Spec, Queue!Spec

(* Both instances of BlockingQueue are the same specification. *)
LEMMA SameQueue == Queue!Spec => QueueP!Spec
  <1>1. Queue!Init => QueueP!Init
    BY DEF Queue!Init, QueueP!Init, Queue!Ring, QueueP!Ring
  <1>2. Queue!Next => QueueP!Next
    BY DEF Queue!Next, QueueP!Next, Queue!AddProducer, QueueP!AddProducer,
           Queue!ProducerStep, QueueP!ProducerStep, Queue!SupplierAnswers,
           QueueP!SupplierAnswers, Queue!SpuriousStep, QueueP!SpuriousStep,
           Queue!EndBuilding, QueueP!EndBuilding, Queue!CallPop, QueueP!CallPop,
           Queue!CallClose, QueueP!CallClose, Queue!OwnerStep, QueueP!OwnerStep,
           Queue!Check, QueueP!Check, Queue!Enter, QueueP!Enter, Queue!Wake,
           QueueP!Wake, Queue!Timeout, QueueP!Timeout, Queue!Exit, QueueP!Exit,
           Queue!Supply, QueueP!Supply, Queue!SupplyNone, QueueP!SupplyNone,
           Queue!SpuriousWakeup, QueueP!SpuriousWakeup, Queue!Pop, QueueP!Pop,
           Queue!Close, QueueP!Close, Queue!Join, QueueP!Join, Queue!LeaveWait,
           QueueP!LeaveWait, Queue!Sleep, QueueP!Sleep, Queue!WaitKind,
           QueueP!WaitKind, Queue!WaitIsOver, QueueP!WaitIsOver, Queue!WaitKinds,
           QueueP!WaitKinds, Queue!NotifyNotEmpty, QueueP!NotifyNotEmpty,
           Queue!NotifyNotFull, QueueP!NotifyNotFull, Queue!NotifyAllNotFull,
           QueueP!NotifyAllNotFull, Queue!TakeItem, QueueP!TakeItem,
           Queue!NothingLeft, QueueP!NothingLeft, Queue!Advance, QueueP!Advance,
           Queue!Ring, QueueP!Ring, Queue!StepOwner, QueueP!StepOwner,
           Queue!Alive, QueueP!Alive, Queue!ringVars, QueueP!ringVars,
           Queue!mutexVars, QueueP!mutexVars
  <1>3. UNCHANGED Queue!vars => UNCHANGED QueueP!vars
    BY DEF Queue!vars, QueueP!vars, Queue!ringVars, QueueP!ringVars,
           Queue!mutexVars, QueueP!mutexVars
  <1>4. [Queue!Next]_(Queue!vars) => [QueueP!Next]_(QueueP!vars)
    BY <1>2, <1>3
  <1> QED BY <1>1, <1>4, PTL DEF Queue!Spec, QueueP!Spec

(* QueueAssumption, for the queue of this class. *)
QueueConstants ==
    /\ QueueP!IsFiniteSet(Endpoints)
    /\ Capacity \in Nat \ {0}
    /\ UseExtended \in BOOLEAN
    /\ ExtFactor \in Nat \ {0}
    /\ MaxPushes \in Nat
    /\ NoThread \notin Endpoints
    /\ NoItem \notin Items
    /\ EndOfItems \notin Items \cup {NoItem}

LEMMA QueueConstantsHold == QueueConstants
  BY ChunkAssumption DEF QueueConstants, IsFiniteSet, QueueP!IsFiniteSet

LEMMA QueueSafe == Spec => [](QueueP!TypeOK /\ QueueP!OwnerInv)
  <1>1. QueueP!Spec => []QueueP!TypeOK
    BY QueueConstantsHold, QueueP!Typing DEF QueueConstants
  <1>2. QueueP!Spec => []QueueP!OwnerInv
    BY QueueConstantsHold, QueueP!OwnerInvariant DEF QueueConstants
  <1> QED BY <1>1, <1>2, UsesTheQueue, SameQueue, PTL

LEMMA QueueFifo ==
  ASSUME ~UseExtended
  PROVE  Spec => [](QueueP!FifoIntact /\ QueueP!EndIsTheEnd)
  <1>1. QueueP!Spec => [](QueueP!FifoIntact /\ QueueP!NeverOverfull)
    BY QueueConstantsHold, QueueP!RingIsFifo DEF QueueConstants
  <1>2. QueueP!Spec => []QueueP!EndIsTheEnd
    BY QueueConstantsHold, QueueP!EndIsNotEarly DEF QueueConstants
  <1> QED BY <1>1, <1>2, UsesTheQueue, SameQueue, PTL


(* Every variable keeps its type, those of the queue as the queue says. *)
THEOREM Typing == Spec => []TypeOK
  <1>1. QueueP!TypeOK => Queue!TypeOK
    BY DEF QueueP!TypeOK, QueueP!RingTypeOK, QueueP!ThreadTypeOK, QueueP!Ring,
           QueueP!ProducerStates, QueueP!WaitKinds, QueueP!OwnerStates,
           Queue!TypeOK, Queue!RingTypeOK, Queue!ThreadTypeOK, Queue!Ring,
           Queue!ProducerStates, Queue!WaitKinds, Queue!OwnerStates
  <1> QED BY <1>1, ChunkTypes, QueueSafe, PTL DEF TypeOK

-----------------------------------------------------------------------------
(* Calls of the application. *)
CallInv == InQueue /\ Reported /\ FailureStops

LEMMA CallFrame ==
  ASSUME CallInv, UNCHANGED <<got, closed, opc, answer, call, outcome>>
  PROVE  CallInv'
  BY DEF CallInv, InQueue, Reported, FailureStops

LEMMA NoFailureYet ==
  ASSUME CallInv, ~closed, call # "raise", ~(call = "GetNext" /\ opc = "idle")
  PROVE  \A i \in 1..Len(got) : ~IsFailure(got[i])
  BY DEF CallInv, FailureStops

LEMMA PopKeeps ==
  ASSUME TypeOK, CallInv, Queue!Pop, UNCHANGED <<call, outcome>>
  PROVE  CallInv'
  <1>1. call = "GetNext" /\ opc \in {"pop", "popWait"} /\ closed' = closed
    BY DEF Queue!Pop, CallInv, InQueue, TypeOK, ChunkTypeOK, Calls
  <1>2. outcome # "end" /\ (outcome = "error" => closed)
    BY <1>1 DEF CallInv, Reported
  <1>3. opc' \in {"idle", "popWait"}
    BY DEF Queue!Pop
  <1>4. InQueue' /\ Reported'
    BY <1>1, <1>2, <1>3 DEF InQueue, Reported, CallInv
  <1>5. FailureStops'
    <2>1. CASE closed
      BY <1>1, <2>1 DEF FailureStops
    <2>2. CASE ~closed
      <3>1. \A i \in 1..Len(got) : ~IsFailure(got[i])
        BY <1>1, <2>2, NoFailureYet
      <3>2. CASE got' = got
        BY <3>1, <3>2 DEF FailureStops
      <3>3. CASE got' = Append(got, buffer[left]) /\ answer' = buffer[left] /\ opc' = "idle"
        <4>1. got \in Seq(Items \cup {NoItem}) /\ buffer[left] \in Items \cup {NoItem}
          BY DEF TypeOK, Queue!TypeOK, Queue!RingTypeOK
        <4>2. \A i \in 1..Len(got') :
                 (i \in 1..Len(got) /\ got'[i] = got[i]) \/ got'[i] = answer'
          BY <3>3, <4>1
        <4> QED BY <1>1, <3>1, <3>3, <4>2 DEF FailureStops
      <3> QED BY <2>2, <3>2, <3>3 DEF Queue!Pop, Queue!TakeItem, Queue!ringVars
    <2> QED BY <2>1, <2>2
  <1> QED BY <1>4, <1>5 DEF CallInv

LEMMA CallInductive == TypeOK /\ CallInv /\ [Next]_vars => CallInv'
  <1> SUFFICES ASSUME TypeOK, CallInv, [Next]_vars PROVE CallInv'
    OBVIOUS
  <1> USE DEF Queue!StepOwner, Queue!ringVars
  <1>1. ASSUME NEW e \in Endpoints, DoGet(e) \/ Supplier(e) PROVE CallInv'
    BY <1>1, CallFrame DEF DoGet, Queue!AddProducer, Supplier, NextDelivers, NextFails,
                           NextEnds, Queue!Supply, Queue!SupplyNone
  <1>2. ASSUME NEW e \in Endpoints, Producer(e) PROVE CallInv'
    BY <1>2, CallFrame DEF Producer, Queue!ProducerStep, Queue!Check, Queue!Enter,
                           Queue!Wake, Queue!Timeout, Queue!Exit
  <1>3. CASE Spurious \/ UNCHANGED vars
    BY <1>3, CallFrame DEF Spurious, Queue!SpuriousStep, vars, queueVars
  <1>4. CASE DoGetFails
    BY <1>4 DEF DoGetFails, queueVars, CallInv, InQueue, Reported, FailureStops
  <1>5. CASE Constructed
    BY <1>5 DEF Constructed, Queue!EndBuilding, CallInv, InQueue, Reported, FailureStops
  <1>6. CASE GetNext
    BY <1>6 DEF GetNext, Queue!CallPop, CallInv, InQueue, Reported, FailureStops
  <1>7. ASSUME NEW next \in {"raise", "Close", "destroy"}, StartClose(next),
               \/ call = "none"
               \/ call = "GetNext" /\ next = "raise" /\ IsFailure(answer)
        PROVE  CallInv'
    BY <1>7, ChunkAssumption
       DEF StartClose, Queue!CallClose, CallInv, InQueue, Reported, FailureStops, IsFailure
  <1>8. CASE GetNextReturns
    BY <1>8 DEF GetNextReturns, queueVars, CallInv, InQueue, Reported, FailureStops
  <1>9. CASE CloseReturned
    BY <1>9 DEF CloseReturned, queueVars, CallInv, InQueue, Reported, FailureStops
  <1>10. CASE InsideQueue
    <2>1. CASE Queue!Pop
      BY <1>10, <2>1, PopKeeps DEF InsideQueue
    <2>2. CASE Queue!Close \/ Queue!Join
      BY <1>10, <2>2 DEF InsideQueue, Queue!Close, Queue!Join,
                         CallInv, InQueue, Reported, FailureStops
    <2> QED BY <1>10, <2>1, <2>2 DEF InsideQueue, Queue!OwnerStep
  <1>11. CASE CallClose \/ Destroy \/ GetNextFails
    BY <1>7, <1>11 DEF CallClose, Destroy, GetNextFails
  <1> QED
    BY <1>1, <1>2, <1>3, <1>4, <1>5, <1>6, <1>8, <1>9, <1>10, <1>11 DEF Next, Return

LEMMA CallInvariant == Spec => []CallInv
  <1>1. Init => CallInv
    BY DEF Init, Queue!Init, CallInv, InQueue, Reported, FailureStops
  <1> QED BY <1>1, Typing, CallInductive, PTL DEF Spec

(* Once GetNext has thrown, or the buffer is gone, no producer thread is left
   that could touch the queue or a reader. *)
THEOREM NobodyAfterClose == Spec => []QuietAfterClose
  <1>1. CallInv /\ QueueP!OwnerInv => QuietAfterClose
    BY DEF CallInv, InQueue, Reported, QuietAfterClose, QueueP!OwnerInv,
           Queue!Alive, QueueP!Alive
  <1> QED BY <1>1, CallInvariant, QueueSafe, PTL


-----------------------------------------------------------------------------
(* What the suppliers push. *)
SupplyInv == PushedSent /\ SentPushed /\ PushedInOrder

LEMMA SupplyFrame ==
  ASSUME SupplyInv, UNCHANGED <<pushed, sent, failed>>
  PROVE  SupplyInv'
  BY DEF SupplyInv, PushedSent, SentPushed, PushedInOrder, Delivered

LEMMA Appended ==
  ASSUME TypeOK, NEW item \in Items, pushed' = Append(pushed, item)
  PROVE  /\ Len(pushed) \in Nat /\ Len(pushed') = Len(pushed) + 1
         /\ pushed'[Len(pushed) + 1] = item
         /\ \A i \in 1..Len(pushed) : pushed'[i] = pushed[i] /\ pushed[i] \in Items
         /\ \A e, n : Delivered(e, n) => (Delivered(e, n))'
  <1>1. pushed \in Seq(Items)
    BY DEF TypeOK, Queue!TypeOK, Queue!RingTypeOK
  <1>2. /\ Len(pushed) \in Nat /\ Len(pushed') = Len(pushed) + 1
        /\ pushed'[Len(pushed) + 1] = item
        /\ \A i \in 1..Len(pushed) : pushed'[i] = pushed[i] /\ pushed[i] \in Items
    BY <1>1
  <1>3. \A e, n : Delivered(e, n) => (Delivered(e, n))'
    BY <1>2 DEF Delivered
  <1> QED BY <1>2, <1>3

LEMMA ItemParts ==
  ASSUME NEW item \in Items
  PROVE  item.from \in Endpoints /\ item.batch \in 0..MaxBatches
  BY DEF Items

LEMMA ChunkParts ==
  ASSUME NEW e \in Endpoints, NEW n \in 0..MaxBatches
  PROVE  /\ Chunk(e, n) \in Items /\ Chunk(e, n).from = e /\ Chunk(e, n).batch = n
         /\ Failure(e) = Chunk(e, 0)
  BY DEF Chunk, Failure, Items

LEMMA DeliversKeeps ==
  ASSUME TypeOK, SupplyInv, NEW e \in Endpoints, NextDelivers(e)
  PROVE  SupplyInv'
  <1> DEFINE n == sent[e] + 1
             k == Len(pushed) + 1
  <1>t. /\ sent \in [Endpoints -> 0..MaxBatches] /\ MaxBatches \in Nat
        /\ sent[e] \in 0..MaxBatches /\ n \in 1..MaxBatches
    BY ChunkAssumption DEF NextDelivers, TypeOK, ChunkTypeOK
  <1>c. Chunk(e, n) \in Items /\ Chunk(e, n).from = e /\ Chunk(e, n).batch = n
    BY <1>t, ChunkParts
  <1>n. n = sent[e] + 1 /\ k = Len(pushed) + 1
    OBVIOUS
  <1>1. pushed' = Append(pushed, Chunk(e, n)) /\ failed' = failed
    BY DEF NextDelivers, Queue!Supply
  <1>2. sent'[e] = n /\ \A f \in Endpoints : f # e => sent'[f] = sent[f]
    BY <1>t DEF NextDelivers
  <1> HIDE DEF n, k
  <1>3. /\ Len(pushed) \in Nat /\ Len(pushed') = k /\ pushed'[k] = Chunk(e, n)
        /\ \A i \in 1..Len(pushed) : pushed'[i] = pushed[i] /\ pushed[i] \in Items
        /\ \A f, m : Delivered(f, m) => (Delivered(f, m))'
    BY <1>n, <1>c, <1>1, Appended
  <1>4. \A i \in 1..k : i \in 1..Len(pushed) \/ i = k
    BY <1>n, <1>3
  <1>5. PushedSent'
    <2> SUFFICES ASSUME NEW i \in 1..k
                 PROVE  /\ pushed'[i].batch # 0 => pushed'[i].batch <= sent'[pushed'[i].from]
                        /\ pushed'[i].batch = 0 => pushed'[i].from \in failed'
      BY <1>3 DEF PushedSent
    <2>1. CASE i \in 1..Len(pushed)
      <3>1. pushed'[i] = pushed[i] /\ pushed[i].from \in Endpoints
            /\ pushed[i].batch \in 0..MaxBatches
        BY <1>3, <2>1, ItemParts
      <3>2. /\ pushed[i].batch # 0 => pushed[i].batch <= sent[pushed[i].from]
            /\ pushed[i].batch = 0 => pushed[i].from \in failed
        BY <2>1 DEF SupplyInv, PushedSent
      <3>3. sent[pushed[i].from] <= sent'[pushed[i].from]
            /\ sent[pushed[i].from] \in Nat /\ sent'[pushed[i].from] \in Nat
        BY <1>t, <1>n, <1>2, <3>1
      <3> QED BY <1>1, <1>t, <3>1, <3>2, <3>3
    <2>2. CASE i = k
      BY <1>t, <1>c, <1>2, <1>3, <2>2
    <2> QED BY <1>4, <2>1, <2>2
  <1>6. SentPushed'
    <2>1. ASSUME NEW f \in Endpoints, NEW m \in 1..sent'[f] PROVE (Delivered(f, m))'
      <3>1. CASE f = e /\ m = n
        <4>1. k \in 1..Len(pushed')
          BY <1>n, <1>3
        <4> QED BY <1>3, <3>1, <4>1 DEF Delivered
      <3>2. CASE ~(f = e /\ m = n)
        <4>1. m \in 1..sent[f]
          BY <1>t, <1>n, <1>2, <2>1, <3>2
        <4>2. Delivered(f, m)
          BY <4>1 DEF SupplyInv, SentPushed
        <4> QED BY <1>3, <4>2
      <3> QED BY <3>1, <3>2
    <2>2. ASSUME NEW f \in failed' PROVE (Delivered(f, 0))'
      BY <1>1, <1>3, <2>2 DEF SupplyInv, SentPushed
    <2> QED BY <2>1, <2>2 DEF SentPushed
  <1>7. PushedInOrder'
    <2> SUFFICES ASSUME NEW j \in 1..k, NEW i \in 1..j-1,
                        pushed'[i].from = pushed'[j].from,
                        pushed'[i].batch # 0, pushed'[j].batch # 0
                 PROVE  pushed'[i].batch < pushed'[j].batch
      BY <1>3 DEF PushedInOrder
    <2>0. i \in 1..Len(pushed) /\ pushed'[i] = pushed[i] /\ pushed[i] \in Items
      BY <1>n, <1>3
    <2>1. CASE j \in 1..Len(pushed)
      BY <1>3, <2>0, <2>1 DEF SupplyInv, PushedInOrder
    <2>2. CASE j = k
      <3>1. pushed[i].from = e /\ pushed[i].batch # 0 /\ pushed[i].batch \in 0..MaxBatches
        BY <1>c, <1>3, <2>0, <2>2, ItemParts
      <3>2. pushed[i].batch <= sent[e]
        BY <2>0, <3>1 DEF SupplyInv, PushedSent
      <3>3. pushed'[j].batch = n /\ pushed'[i].batch = pushed[i].batch
        BY <1>c, <1>3, <2>0, <2>2
      <3> QED BY <1>t, <1>n, <3>1, <3>2, <3>3
    <2> QED BY <1>4, <2>1, <2>2
  <1> QED BY <1>5, <1>6, <1>7 DEF SupplyInv

LEMMA FailsKeeps ==
  ASSUME TypeOK, SupplyInv, NEW e \in Endpoints, NextFails(e)
  PROVE  SupplyInv'
  <1> DEFINE k == Len(pushed) + 1
  <1>c. Chunk(e, 0) \in Items /\ Chunk(e, 0).from = e /\ Chunk(e, 0).batch = 0
        /\ Failure(e) = Chunk(e, 0)
    BY ChunkAssumption, ChunkParts
  <1>1. pushed' = Append(pushed, Chunk(e, 0)) /\ failed' = failed \cup {e} /\ sent' = sent
    BY <1>c DEF NextFails, Queue!Supply
  <1>n. k = Len(pushed) + 1
    OBVIOUS
  <1> HIDE DEF k
  <1>3. /\ Len(pushed) \in Nat /\ Len(pushed') = k /\ pushed'[k] = Chunk(e, 0)
        /\ \A i \in 1..Len(pushed) : pushed'[i] = pushed[i] /\ pushed[i] \in Items
        /\ \A f, m : Delivered(f, m) => (Delivered(f, m))'
    BY <1>n, <1>c, <1>1, Appended
  <1>4. k \in 1..k /\ \A i \in 1..k : i \in 1..Len(pushed) \/ i = k
    BY <1>n, <1>3
  <1>5. PushedSent'
    <2> SUFFICES ASSUME NEW i \in 1..k
                 PROVE  /\ pushed'[i].batch # 0 => pushed'[i].batch <= sent'[pushed'[i].from]
                        /\ pushed'[i].batch = 0 => pushed'[i].from \in failed'
      BY <1>3 DEF PushedSent
    <2>1. CASE i \in 1..Len(pushed)
      BY <1>1, <1>3, <2>1 DEF SupplyInv, PushedSent
    <2>2. CASE i = k
      BY <1>c, <1>1, <1>3, <2>2
    <2> QED BY <1>4, <2>1, <2>2
  <1>6. SentPushed'
    <2>1. ASSUME NEW f \in Endpoints, NEW m \in 1..sent'[f] PROVE (Delivered(f, m))'
      BY <1>1, <1>3, <2>1 DEF SupplyInv, SentPushed
    <2>2. ASSUME NEW f \in failed' PROVE (Delivered(f, 0))'
      <3>1. CASE f = e
        BY <1>3, <1>4, <3>1 DEF Delivered
      <3>2. CASE f \in failed
        BY <1>3, <3>2 DEF SupplyInv, SentPushed
      <3> QED BY <1>1, <2>2, <3>1, <3>2
    <2> QED BY <2>1, <2>2 DEF SentPushed
  <1>7. PushedInOrder'
    <2> SUFFICES ASSUME NEW j \in 1..k, NEW i \in 1..j-1,
                        pushed'[i].from = pushed'[j].from,
                        pushed'[i].batch # 0, pushed'[j].batch # 0
                 PROVE  pushed'[i].batch < pushed'[j].batch
      BY <1>3 DEF PushedInOrder
    <2>0. i \in 1..Len(pushed) /\ pushed'[i] = pushed[i]
      BY <1>n, <1>3
    <2>1. j # k
      BY <1>c, <1>3
    <2>2. j \in 1..Len(pushed) /\ pushed'[j] = pushed[j]
      BY <1>3, <1>4, <2>1
    <2> QED BY <2>0, <2>2 DEF SupplyInv, PushedInOrder
  <1> QED BY <1>5, <1>6, <1>7 DEF SupplyInv

LEMMA SupplyInductive == TypeOK /\ SupplyInv /\ [Next]_vars => SupplyInv'
  <1> SUFFICES ASSUME TypeOK, SupplyInv, [Next]_vars PROVE SupplyInv'
    OBVIOUS
  <1> USE DEF Queue!ringVars
  <1>1. ASSUME NEW e \in Endpoints, Supplier(e) PROVE SupplyInv'
    <2>1. CASE NextEnds(e)
      BY <2>1, SupplyFrame DEF NextEnds, Queue!SupplyNone
    <2> QED BY <1>1, <2>1, DeliversKeeps, FailsKeeps DEF Supplier
  <1>2. ASSUME NEW e \in Endpoints, DoGet(e) \/ Producer(e) PROVE SupplyInv'
    BY <1>2, SupplyFrame DEF DoGet, Queue!AddProducer, Producer, Queue!ProducerStep,
         Queue!Check, Queue!Enter, Queue!Wake, Queue!Timeout, Queue!Exit
  <1>3. CASE Spurious \/ UNCHANGED vars \/ DoGetFails \/ GetNextReturns \/ CloseReturned
    BY <1>3, SupplyFrame DEF Spurious, Queue!SpuriousStep, vars, queueVars,
         DoGetFails, GetNextReturns, CloseReturned
  <1>4. CASE Constructed \/ GetNext \/ CallClose \/ Destroy \/ GetNextFails
    BY <1>4, SupplyFrame DEF Constructed, Queue!EndBuilding, GetNext, Queue!CallPop,
         CallClose, Destroy, GetNextFails, StartClose, Queue!CallClose
  <1>5. CASE InsideQueue
    BY <1>5, SupplyFrame DEF InsideQueue, Queue!OwnerStep, Queue!Pop, Queue!TakeItem,
         Queue!Close, Queue!Join
  <1> QED BY <1>1, <1>2, <1>3, <1>4, <1>5 DEF Next, Return

LEMMA SupplyInvariant == Spec => []SupplyInv
  <1>1. Init => SupplyInv
    BY DEF Init, Queue!Init, SupplyInv, PushedSent, SentPushed, PushedInOrder, Delivered
  <1> QED BY <1>1, Typing, SupplyInductive, PTL DEF Spec

-----------------------------------------------------------------------------
(* What was popped is what was pushed, so far. *)
LEMMA GotIsPushed ==
  ASSUME TypeOK, QueueP!FifoIntact
  PROVE  /\ Len(got) \in Nat /\ Len(pushed) \in Nat /\ Len(got) <= Len(pushed)
         /\ \A i \in 1..Len(got) :
                i \in 1..Len(pushed) /\ got[i] = pushed[i] /\ got[i] \in Items
  BY DEF TypeOK, Queue!TypeOK, Queue!RingTypeOK, QueueP!FifoIntact

(* The application sees the batches of every endpoint in their order, none
   twice and none left out, for every number of endpoints and whatever their
   threads do. *)
THEOREM BatchesAreInOrder == ASSUME ~UseExtended PROVE Spec => []BatchesInOrder
  <1>1. TypeOK /\ SupplyInv /\ QueueP!FifoIntact => BatchesInOrder
    <2> SUFFICES ASSUME TypeOK, SupplyInv, QueueP!FifoIntact,
                        NEW j \in 1..Len(got), got[j].batch # 0
                 PROVE  /\ \A n \in 1..got[j].batch-1 :
                              \E i \in 1..j-1 : got[i] = Chunk(got[j].from, n)
                        /\ \A i \in 1..j-1 : got[i] # got[j]
      BY DEF BatchesInOrder
    <2>g. /\ Len(got) \in Nat /\ Len(pushed) \in Nat /\ Len(got) <= Len(pushed)
          /\ \A i \in 1..Len(got) :
                i \in 1..Len(pushed) /\ got[i] = pushed[i] /\ got[i] \in Items
      BY GotIsPushed
    <2>t. sent \in [Endpoints -> 0..MaxBatches] /\ MaxBatches \in Nat
      BY ChunkAssumption DEF TypeOK, ChunkTypeOK
    <2>j. /\ j \in 1..Len(pushed) /\ got[j] = pushed[j] /\ got[j].from \in Endpoints
          /\ got[j].batch \in 0..MaxBatches /\ got[j].batch <= sent[got[j].from]
      BY <2>g, ItemParts DEF SupplyInv, PushedSent
    <2>1. ASSUME NEW n \in 1..got[j].batch-1
          PROVE  \E i \in 1..j-1 : got[i] = Chunk(got[j].from, n)
      <3>1. n \in 1..sent[got[j].from] /\ n \in 0..MaxBatches /\ n # 0 /\ n < got[j].batch
        BY <2>t, <2>j
      <3>2. PICK i \in 1..Len(pushed) : pushed[i] = Chunk(got[j].from, n)
        BY <2>j, <3>1 DEF SupplyInv, SentPushed, Delivered
      <3>3. pushed[i].from = got[j].from /\ pushed[i].batch = n
        BY <2>j, <3>1, <3>2, ChunkParts
      <3>4. ~(j \in 1..i-1)
        <4> SUFFICES ASSUME j \in 1..i-1 PROVE FALSE
          OBVIOUS
        <4>1. pushed[j].batch < pushed[i].batch
          BY <2>j, <3>1, <3>3 DEF SupplyInv, PushedInOrder
        <4> QED BY <2>j, <3>1, <3>3, <4>1
      <3>5. i # j
        BY <2>j, <3>1, <3>3
      <3>6. i \in 1..j-1 /\ i \in 1..Len(got)
        BY <2>g, <3>4, <3>5
      <3> QED BY <2>g, <3>2, <3>6
    <2>2. ASSUME NEW i \in 1..j-1, got[i] = got[j] PROVE FALSE
      <3>1. i \in 1..Len(got) /\ got[i] = pushed[i]
        BY <2>g
      <3>2. pushed[i].batch < pushed[j].batch
        BY <2>j, <2>2, <3>1 DEF SupplyInv, PushedInOrder
      <3> QED BY <2>j, <2>2, <3>1, <3>2
    <2> QED BY <2>1, <2>2
  <1> QED BY <1>1, Typing, SupplyInvariant, QueueFifo, PTL

(* "No more rows" means that no stream failed and every batch every stream
   delivered was handed out. *)
THEOREM NothingIsTruncated == ASSUME ~UseExtended PROVE Spec => []NoSilentTruncation
  <1>1. TypeOK /\ CallInv /\ SupplyInv /\ QueueP!FifoIntact /\ QueueP!EndIsTheEnd
          => NoSilentTruncation
    <2> SUFFICES ASSUME TypeOK, CallInv, SupplyInv, QueueP!FifoIntact,
                        QueueP!EndIsTheEnd, outcome = "end", ~closed
                 PROVE  /\ failed = {}
                        /\ {got[i] : i \in 1..Len(got)}
                              = {item \in Items : item.batch \in 1..sent[item.from]}
      BY DEF NoSilentTruncation
    <2>1. answer = EndOfItems /\ got = pushed
      BY DEF CallInv, Reported, QueueP!EndIsTheEnd
    <2>g. \A i \in 1..Len(pushed) : pushed[i] \in Items
      BY <2>1, GotIsPushed
    <2>t. sent \in [Endpoints -> 0..MaxBatches] /\ failed \subseteq Endpoints
          /\ MaxBatches \in Nat
      BY ChunkAssumption DEF TypeOK, ChunkTypeOK
    <2>2. \A i \in 1..Len(pushed) : pushed[i].batch # 0
      <3>1. ~IsFailure(answer)
        BY <2>1, ChunkAssumption DEF IsFailure
      <3>2. \A i \in 1..Len(got) : ~IsFailure(got[i])
        BY <3>1 DEF CallInv, FailureStops
      <3> QED BY <2>1, <2>g, <3>2 DEF IsFailure
    <2>3. failed = {}
      <3> SUFFICES ASSUME NEW e \in failed PROVE FALSE
        OBVIOUS
      <3>1. PICK i \in 1..Len(pushed) : pushed[i] = Chunk(e, 0)
        BY DEF SupplyInv, SentPushed, Delivered
      <3> QED BY <2>2, <2>t, <3>1, ChunkParts
    <2>4. ASSUME NEW i \in 1..Len(pushed)
          PROVE  pushed[i] \in Items /\ pushed[i].batch \in 1..sent[pushed[i].from]
      <3>1. pushed[i] \in Items /\ pushed[i].batch # 0
            /\ pushed[i].batch \in 0..MaxBatches /\ pushed[i].from \in Endpoints
        BY <2>g, <2>2, ItemParts
      <3>2. pushed[i].batch <= sent[pushed[i].from]
        BY <3>1 DEF SupplyInv, PushedSent
      <3> QED BY <2>t, <3>1, <3>2
    <2>5. ASSUME NEW item \in Items, item.batch \in 1..sent[item.from]
          PROVE  \E i \in 1..Len(pushed) : pushed[i] = item
      <3>1. item.from \in Endpoints
        BY ItemParts
      <3>2. PICK i \in 1..Len(pushed) : pushed[i] = Chunk(item.from, item.batch)
        BY <2>5, <3>1 DEF SupplyInv, SentPushed, Delivered
      <3>3. Chunk(item.from, item.batch) = item
        BY DEF Chunk, Items
      <3> QED BY <3>2, <3>3
    <2> QED BY <2>1, <2>3, <2>4, <2>5
  <1> QED BY <1>1, Typing, CallInvariant, SupplyInvariant, QueueFifo, PTL

-----------------------------------------------------------------------------
(* The buffer is a source of batches (ImplementsSource).  Every stream has a
   thread once the buffer is built, and what a GetNext is about to return is
   what was popped last. *)
Born == call \in {"construct", "thrown", "terminated"} \/ \A e \in Endpoints : ppc[e] # "unborn"
LastPopped ==
    call = "GetNext" /\ opc = "idle" /\ answer # EndOfItems =>
       /\ ~closed /\ answer \in Items
       /\ Len(got) \in 1..Len(got) /\ got[Len(got)] = answer

GotItems == \A i \in 1..Len(got) : got[i] \in Items

LEMMA BornInductive == TypeOK /\ Born /\ [Next]_vars => Born'
  <1> SUFFICES ASSUME TypeOK, Born, [Next]_vars PROVE Born'
    OBVIOUS
  <1>t. ppc \in [Endpoints -> Queue!ProducerStates]
    BY DEF TypeOK, Queue!TypeOK, Queue!ThreadTypeOK
  <1>0. "unborn" \notin {"check", "supply", "exit", "done", "lock"} \cup Queue!WaitKinds
    BY DEF Queue!WaitKinds
  <1>1. ASSUME NEW e \in Endpoints, NEW at \in {"check", "supply", "exit", "done", "lock"} \cup Queue!WaitKinds,
               ppc' = [ppc EXCEPT ![e] = at], UNCHANGED call
        PROVE  Born'
    BY <1>0, <1>1, <1>t DEF Born
  <1>2. ASSUME NEW e \in Endpoints, DoGet(e) PROVE Born'
    BY <1>1, <1>2 DEF DoGet, Queue!AddProducer
  <1>3. ASSUME NEW e \in Endpoints, Supplier(e) PROVE Born'
    BY <1>1, <1>3 DEF Supplier, NextDelivers, NextFails, NextEnds, Queue!Supply, Queue!SupplyNone
  <1>4. ASSUME NEW e \in Endpoints, Producer(e) PROVE Born'
    <2>1. CASE Queue!Check(e) \/ Queue!Exit(e) \/ Queue!Timeout(e)
      BY <1>1, <1>4, <2>1 DEF Producer, Queue!Check, Queue!Exit, Queue!Timeout, Born
    <2>2. CASE Queue!Enter(e) \/ Queue!Wake(e)
      <3>1. PICK at \in {"check", "supply", "exit", "done", "lock"} \cup Queue!WaitKinds :
               ppc' = [ppc EXCEPT ![e] = at]
        BY <2>2 DEF Queue!Enter, Queue!Wake, Queue!LeaveWait, Queue!Sleep, Queue!WaitKind,
             Queue!WaitKinds
      <3> QED BY <1>1, <1>4, <3>1 DEF Producer
    <2> QED BY <1>4, <2>1, <2>2 DEF Producer, Queue!ProducerStep
  <1>5. CASE Constructed
    <2>1. \A e \in Endpoints : ppc[e] # "unborn"
      BY <1>5 DEF Constructed, Readers
    <2> QED BY <1>5, <2>1 DEF Constructed, Queue!EndBuilding, Born
  <1>6. CASE Spurious \/ UNCHANGED vars \/ DoGetFails \/ GetNextReturns \/ CloseReturned
    BY <1>6 DEF Spurious, Queue!SpuriousStep, vars, queueVars, DoGetFails, GetNextReturns,
         CloseReturned, Born
  <1>7. CASE GetNext \/ CallClose \/ Destroy \/ GetNextFails
    BY <1>7 DEF GetNext, Queue!CallPop, CallClose, Destroy, GetNextFails, StartClose,
         Queue!CallClose, Born
  <1>8. CASE InsideQueue
    BY <1>8 DEF InsideQueue, Queue!OwnerStep, Queue!Pop, Queue!Close, Queue!Join, Born
  <1> QED BY <1>2, <1>3, <1>4, <1>5, <1>6, <1>7, <1>8 DEF Next, Return

LEMMA LastPoppedInductive ==
  TypeOK /\ CallInv /\ GotItems' /\ LastPopped /\ [Next]_vars => LastPopped'
  <1> SUFFICES ASSUME TypeOK, CallInv, GotItems', LastPopped, [Next]_vars
               PROVE  LastPopped'
    OBVIOUS
  <1> USE DEF Queue!ringVars, Queue!StepOwner
  <1>0. ASSUME UNCHANGED <<call, opc, answer, closed, got>> PROVE LastPopped'
    BY <1>0 DEF LastPopped
  <1>1. ASSUME NEW e \in Endpoints, DoGet(e) \/ Supplier(e) PROVE LastPopped'
    BY <1>0, <1>1 DEF DoGet, Queue!AddProducer, Supplier, NextDelivers, NextFails,
                      NextEnds, Queue!Supply, Queue!SupplyNone
  <1>2. ASSUME NEW e \in Endpoints, Producer(e) PROVE LastPopped'
    BY <1>0, <1>2 DEF Producer, Queue!ProducerStep, Queue!Check, Queue!Enter, Queue!Wake,
                      Queue!Timeout, Queue!Exit
  <1>3. CASE Spurious \/ UNCHANGED vars
    BY <1>0, <1>3 DEF Spurious, Queue!SpuriousStep, vars, queueVars
  <1>4. CASE DoGetFails \/ Constructed \/ CallClose \/ Destroy \/ GetNextFails
    BY <1>4 DEF DoGetFails, Constructed, CallClose, Destroy, GetNextFails, StartClose, LastPopped
  <1>5. CASE GetNext
    BY <1>5 DEF GetNext, Queue!CallPop, LastPopped
  <1>6. CASE GetNextReturns \/ CloseReturned
    BY <1>6 DEF GetNextReturns, CloseReturned, LastPopped
  <1>7. CASE InsideQueue
    <2>1. CASE Queue!Close \/ Queue!Join
      <3>1. call # "GetNext" /\ call' = call
        BY <1>7, <2>1 DEF InsideQueue, CallInv, InQueue, Queue!Close, Queue!Join
      <3> QED BY <3>1 DEF LastPopped
    <2>2. CASE Queue!Pop
      <3>1. CASE opc' = "idle" /\ answer' # EndOfItems
        <4>1. ~closed /\ Queue!TakeItem /\ closed' = closed
          BY <2>2, <3>1 DEF Queue!Pop
        <4>2. got' = Append(got, answer') /\ got \in Seq(Items \cup {NoItem})
              /\ answer' \in Items \cup {NoItem, EndOfItems}
          BY <4>1 DEF Queue!TakeItem, TypeOK, Queue!TypeOK, Queue!RingTypeOK, Queue!ThreadTypeOK
        <4>3. \A i \in 1..Len(got') : got'[i] \in Items
          BY DEF GotItems
        <4>4. answer' \in Items \cup {NoItem}
          BY <3>1, <4>2
        <4>5. Len(got') \in 1..Len(got') /\ got'[Len(got')] = answer'
          BY <4>2, <4>4
        <4> QED BY <4>1, <4>3, <4>5 DEF LastPopped
      <3> QED BY <2>2, <3>1 DEF LastPopped
    <2> QED BY <1>7, <2>1, <2>2 DEF InsideQueue, Queue!OwnerStep
  <1> QED BY <1>1, <1>2, <1>3, <1>4, <1>5, <1>6, <1>7 DEF Next, Return

SourceInv ==
    /\ TypeOK /\ CallInv /\ SupplyInv /\ BatchesInOrder /\ Born /\ LastPopped
    /\ QueueP!LockInv /\ QueueP!OwnerInv /\ QueueP!FifoIntact /\ QueueP!EndIsTheEnd

LEMMA SourceInvariant == ASSUME ~UseExtended PROVE Spec => []SourceInv
  <1>1. Init => Born /\ LastPopped
    BY DEF Init, Queue!Init, Born, LastPopped
  <1>2. TypeOK /\ QueueP!FifoIntact => GotItems
    BY GotIsPushed DEF GotItems
  <1>3. QueueP!Spec => []QueueP!LockInv
    BY QueueConstantsHold, QueueP!Locking DEF QueueConstants
  <1>4. Spec => []Born
    BY <1>1, Typing, BornInductive, PTL DEF Spec
  <1>5. Spec => []GotItems
    BY <1>2, Typing, QueueFifo, PTL
  <1>6. Spec => []LastPopped
    BY <1>1, <1>5, Typing, CallInvariant, LastPoppedInductive, PTL DEF Spec
  <1> QED BY <1>3, <1>4, <1>6, Typing, CallInvariant, SupplyInvariant, BatchesAreInOrder,
             QueueSafe, QueueFifo, UsesTheQueue, SameQueue, PTL DEF SourceInv

(* Steps of the threads. *)
LEMMA Unseen ==
  ASSUME UNCHANGED <<sent, failed, closed, outcome, Unread, Asking, HandedOut>>
  PROVE  UNCHANGED Source!vars
  BY DEF Source!vars

LEMMA HandedKept ==
  ASSUME got' = got,
         \/ call # "GetNext" /\ (call' # "GetNext" \/ opc' # "idle")
         \/ call = "GetNext" /\ opc # "idle" /\ call' = call /\ opc' = opc
         \/ UNCHANGED <<call, opc, answer>>
  PROVE  HandedOut' = HandedOut
  BY DEF HandedOut

LEMMA OpenWhileSupplying ==
  ASSUME SourceInv, NEW e \in Endpoints, ppc[e] = "supply"
  PROVE  ~closed
  BY ChunkAssumption DEF SourceInv, QueueP!LockInv

LEMMA Left ==
  ASSUME TypeOK, NEW e \in Endpoints, NEW at, ppc' = [ppc EXCEPT ![e] = at]
  PROVE  /\ at \in {"exit", "done"} => Unread' = Unread \cup {e}
         /\ at \notin {"exit", "done"} => Unread' = Unread \ {e}
         /\ at \notin {"exit", "done"} /\ e \notin Unread => Unread' = Unread
  <1>1. ppc \in [Endpoints -> Queue!ProducerStates]
    BY DEF TypeOK, Queue!TypeOK, Queue!ThreadTypeOK
  <1>2. at \in {"exit", "done"} => Unread' = Unread \cup {e}
    BY <1>1 DEF Unread
  <1>3. at \notin {"exit", "done"} => Unread' = Unread \ {e}
    BY <1>1 DEF Unread
  <1>4. e \notin Unread => Unread \ {e} = Unread
    OBVIOUS
  <1> QED BY <1>2, <1>3, <1>4

LEMMA SupplierRefines ==
  ASSUME SourceInv, NEW e \in Endpoints, Supplier(e)
  PROVE  Source!Next
  <1>0. ASSUME e \notin Unread, ppc' = [ppc EXCEPT ![e] = "check"]
        PROVE  Unread' = Unread
    <2>1. TypeOK
      BY DEF SourceInv
    <2>2. "check" \notin {"exit", "done"}
      OBVIOUS
    <2> QED BY ONLY <1>0, <2>1, <2>2, Left, Zenon
  <1>1. /\ ppc[e] = "supply" /\ e \notin Unread
        /\ UNCHANGED <<got, opc, answer, closed, call, outcome>>
    BY DEF Supplier, NextDelivers, NextFails, NextEnds, Queue!Supply, Queue!SupplyNone,
         Queue!ringVars, Unread
  <1>2. ~closed
    BY <1>1, OpenWhileSupplying
  <1>3. HandedOut' = HandedOut /\ Asking' = Asking
    BY <1>1, HandedKept DEF Asking
  <1>4. CASE NextDelivers(e)
    <2>0. ppc' = [ppc EXCEPT ![e] = "check"]
      BY <1>4 DEF NextDelivers, Queue!Supply
    <2>1. Unread' = Unread
      BY <1>0, <1>1, <2>0
    <2>2. Source!Bring(e)
      BY <1>1, <1>2, <1>3, <1>4, <2>1 DEF NextDelivers, Source!Bring
    <2> QED BY <2>2 DEF Source!Next
  <1>5. CASE NextFails(e)
    <2>0. ppc' = [ppc EXCEPT ![e] = "check"]
      BY <1>5 DEF NextFails, Queue!Supply
    <2>1. Unread' = Unread
      BY <1>0, <1>1, <2>0
    <2>2. Source!Break(e)
      BY <1>1, <1>2, <1>3, <1>5, <2>1 DEF NextFails, Source!Break
    <2> QED BY <2>2 DEF Source!Next
  <1>6. CASE NextEnds(e)
    <2>1. Unread' = Unread \cup {e}
      BY <1>1, <1>6, Left DEF NextEnds, Queue!SupplyNone, SourceInv
    <2>2. Source!Leave(e)
      BY <1>1, <1>2, <1>3, <1>6, <2>1 DEF NextEnds, Source!Leave
    <2> QED BY <2>2 DEF Source!Next
  <1> QED BY <1>4, <1>5, <1>6 DEF Supplier

LEMMA ProducerRefines ==
  ASSUME SourceInv, NEW e \in Endpoints, Producer(e)
  PROVE  [Source!Next]_(Source!vars)
  <1> USE DEF Queue!ringVars
  <1>1. UNCHANGED <<got, opc, answer, closed, call, outcome, sent, failed>>
    BY DEF Producer, Queue!ProducerStep, Queue!Check, Queue!Enter, Queue!Wake, Queue!Timeout,
         Queue!Exit
  <1>2. HandedOut' = HandedOut /\ Asking' = Asking
    BY <1>1, HandedKept DEF Asking
  <1>3. ASSUME Unread' = Unread PROVE UNCHANGED Source!vars
    BY <1>1, <1>2, <1>3, Unseen
  <1>4. ASSUME closed, e \notin Unread, ppc' = [ppc EXCEPT ![e] = "exit"]
        PROVE  Source!Next
    <2>1. Unread' = Unread \cup {e}
      BY <1>4, Left DEF SourceInv
    <2>2. Source!Leave(e)
      BY <1>1, <1>2, <1>4, <2>1 DEF Source!Leave
    <2> QED BY <2>2 DEF Source!Next
  <1>5. ASSUME e \notin Unread, NEW at, at \notin {"exit", "done"}, ppc' = [ppc EXCEPT ![e] = at]
        PROVE  Unread' = Unread
    BY <1>5, Left DEF SourceInv
  <1>6. CASE Queue!Check(e)
    <2>1. e \notin Unread
      BY <1>6 DEF Queue!Check, Unread
    <2>2. CASE closed
      BY <1>4, <1>6, <2>1, <2>2 DEF Queue!Check
    <2>3. CASE ~closed
      BY <1>3, <1>5, <1>6, <2>1, <2>3 DEF Queue!Check
    <2> QED BY <2>2, <2>3
  <1>7. CASE Queue!Enter(e) \/ Queue!Wake(e)
    <2>1. e \notin Unread
      BY <1>7 DEF Queue!Enter, Queue!Wake, Queue!WaitKinds, Unread
    <2>2. \/ closed /\ ppc' = [ppc EXCEPT ![e] = "exit"]
          \/ \E at \in {"supply"} \cup Queue!WaitKinds : ppc' = [ppc EXCEPT ![e] = at]
      BY <1>7 DEF Queue!Enter, Queue!Wake, Queue!LeaveWait, Queue!Sleep, Queue!WaitKind,
           Queue!WaitKinds
    <2>3. CASE closed /\ ppc' = [ppc EXCEPT ![e] = "exit"]
      BY <1>4, <2>1, <2>3
    <2>4. ASSUME NEW at \in {"supply"} \cup Queue!WaitKinds, ppc' = [ppc EXCEPT ![e] = at]
          PROVE  UNCHANGED Source!vars
      BY <1>3, <1>5, <2>1, <2>4 DEF Queue!WaitKinds
    <2> QED BY <2>2, <2>3, <2>4
  <1>8. CASE Queue!Timeout(e)
    BY <1>3, <1>8 DEF Queue!Timeout, Unread
  <1>9. CASE Queue!Exit(e)
    <2>1. e \in Unread /\ Unread' = Unread \cup {e}
      BY <1>9, Left DEF Queue!Exit, Unread, SourceInv
    <2> QED BY <1>3, <2>1
  <1> QED BY <1>6, <1>7, <1>8, <1>9 DEF Producer, Queue!ProducerStep

-----------------------------------------------------------------------------
(* Steps of the application thread. *)
LEMMA PopRefines ==
  ASSUME SourceInv, SourceInv', InsideQueue, Queue!Pop
  PROVE  UNCHANGED Source!vars
  <1>1. /\ UNCHANGED <<call, outcome, sent, failed, closed, ppc>>
        /\ call = "GetNext" /\ opc # "idle"
    BY DEF InsideQueue, Queue!Pop, SourceInv, CallInv, InQueue, TypeOK, ChunkTypeOK, Calls
  <1>2. Unread' = Unread /\ Asking' = Asking
    BY <1>1 DEF Unread, Asking
  <1>3. HandedOut' = HandedOut
    <2> DEFINE Failures == {Failure(e) : e \in Endpoints}
               Popped == {got[i] : i \in 1..Len(got)}
    <2>1. CASE Queue!TakeItem /\ opc' = "idle"
      <3>1. got' = Append(got, answer') /\ got \in Seq(Items \cup {NoItem})
            /\ answer' \in Items \cup {NoItem, EndOfItems}
        BY <2>1 DEF Queue!TakeItem, SourceInv, TypeOK, Queue!TypeOK, Queue!RingTypeOK,
             Queue!ThreadTypeOK
      <3>2. answer' \in Items \cup {NoItem}
        BY <2>1 DEF Queue!TakeItem, SourceInv, TypeOK, Queue!TypeOK, Queue!RingTypeOK
      <3>3. /\ Len(got) \in Nat /\ Len(got') = Len(got) + 1 /\ got'[Len(got')] = answer'
            /\ \A i \in 1..Len(got) : got'[i] = got[i]
        BY <3>1, <3>2
      <3>4. Popped' = Popped \cup {answer'}
        BY <3>3
      <3>5. answer' \in Items
        <4>1. answer' # EndOfItems
          BY <3>2, ChunkAssumption
        <4> QED BY <1>1, <2>1, <4>1 DEF SourceInv, LastPopped
      <3>6. answer' \notin Popped \/ answer' \in Failures
        <4>1. CASE answer'.batch = 0
          <5>1. answer' = Failure(answer'.from) /\ answer'.from \in Endpoints
            BY <3>5, <4>1 DEF Failure, Items
          <5> QED BY <5>1
        <4>2. CASE answer'.batch # 0
          <5>1. Len(got') \in 1..Len(got') /\ \A i \in 1..Len(got) : i \in 1..(Len(got') - 1)
            BY <3>3
          <5>2. \A i \in 1..(Len(got') - 1) : got'[i] # got'[Len(got')]
            BY <3>3, <4>2, <5>1 DEF SourceInv, BatchesInOrder
          <5> QED BY <3>3, <5>1, <5>2
        <4> QED BY <4>1, <4>2
      <3>7. HandedOut = Popped \ Failures
        BY <1>1 DEF HandedOut
      <3>8. HandedOut' = Popped' \ (Failures \cup {answer'})
        BY <1>1, <2>1 DEF HandedOut
      <3> HIDE DEF Popped, Failures
      <3> QED BY <3>4, <3>6, <3>7, <3>8
    <2>2. CASE got' = got /\ opc' = "idle" /\ answer' = EndOfItems
      <3>1. EndOfItems \notin Popped
        BY GotIsPushed, ChunkAssumption DEF SourceInv
      <3>2. HandedOut = Popped \ Failures /\ HandedOut' = Popped \ (Failures \cup {EndOfItems})
        BY <1>1, <2>2 DEF HandedOut
      <3> HIDE DEF Popped, Failures
      <3> QED BY <3>1, <3>2
    <2>3. CASE got' = got /\ opc' = "popWait"
      BY <1>1, <2>3 DEF HandedOut
    <2> QED BY <2>1, <2>2, <2>3 DEF Queue!Pop, Queue!ringVars
  <1> QED BY <1>1, <1>2, <1>3, Unseen

LEMMA AnswerRefines ==
  ASSUME SourceInv, GetNextReturns
  PROVE  Source!Next
  <1>1. /\ call = "GetNext" /\ opc = "idle" /\ ~IsFailure(answer) /\ call' = "none"
        /\ outcome' = IF answer = EndOfItems THEN "end" ELSE "chunk"
        /\ UNCHANGED <<queueVars, sent, failed>>
    BY DEF GetNextReturns
  <1>2. Asking = "yes" /\ Asking' = "no" /\ Unread' = Unread /\ closed' = closed
    BY <1>1 DEF Asking, Unread, queueVars
  <1> DEFINE Failures == {Failure(e) : e \in Endpoints}
             Popped == {got[i] : i \in 1..Len(got)}
  <1>3. HandedOut = Popped \ (Failures \cup {answer}) /\ HandedOut' = Popped \ Failures
    BY <1>1 DEF HandedOut, queueVars
  <1>g. /\ Len(got) \in Nat /\ Len(pushed) \in Nat /\ Len(got) <= Len(pushed)
        /\ \A i \in 1..Len(got) : i \in 1..Len(pushed) /\ got[i] = pushed[i] /\ got[i] \in Items
    BY GotIsPushed DEF SourceInv
  <1>f. \A item \in Items : item \in Failures <=> item.batch = 0
    BY DEF Failure, Items
  <1>4. CASE answer # EndOfItems
    <2>1. ~closed /\ answer \in Items /\ Len(got) \in 1..Len(got) /\ got[Len(got)] = answer
      BY <1>1, <1>4 DEF SourceInv, LastPopped
    <2> DEFINE e == answer.from
               n == answer.batch
               j == Len(got)
    <2>2. e \in Endpoints /\ n \in 0..MaxBatches /\ n # 0 /\ answer = [from |-> e, batch |-> n]
      BY <1>1, <2>1 DEF IsFailure, Items
    <2>3. n \in 1..sent[e]
      <3>1. pushed[j].batch # 0 => pushed[j].batch <= sent[pushed[j].from]
        BY <1>g, <2>1 DEF SourceInv, SupplyInv, PushedSent
      <3>2. sent[e] \in 0..MaxBatches /\ MaxBatches \in Nat
        BY <2>2, ChunkAssumption DEF SourceInv, TypeOK, ChunkTypeOK
      <3> QED BY <1>g, <2>1, <2>2, <3>1, <3>2
    <2>4. HandedOut' = HandedOut \cup {answer} /\ answer \notin HandedOut
      <3>1. answer \in Popped /\ answer \notin Failures
        BY <1>f, <2>1, <2>2
      <3> HIDE DEF Popped, Failures
      <3> QED BY <1>3, <3>1
    <2>5. n = 1 \/ [from |-> e, batch |-> n - 1] \in HandedOut
      <3> SUFFICES ASSUME n # 1 PROVE [from |-> e, batch |-> n - 1] \in HandedOut
        OBVIOUS
      <3> DEFINE previous == [from |-> e, batch |-> n - 1]
      <3>1. n - 1 \in 1..got[j].batch-1 /\ got[j].batch # 0 /\ n - 1 \in 0..MaxBatches /\ n - 1 # 0
        BY <2>1, <2>2, <2>3, ChunkAssumption
      <3>2. PICK i \in 1..j-1 : got[i] = Chunk(got[j].from, n - 1)
        BY <2>1, <3>1 DEF SourceInv, BatchesInOrder
      <3>3. got[i] = previous /\ i \in 1..Len(got) /\ previous \in Items
        BY <1>g, <2>1, <2>2, <3>1, <3>2 DEF Chunk, Items
      <3>4. previous \in Popped
        BY <3>3
      <3>5. previous \notin Failures /\ previous # answer
        BY <1>f, <2>2, <3>1, <3>3
      <3> HIDE DEF Popped, Failures, previous
      <3>6. previous \in HandedOut
        BY <1>3, <3>4, <3>5
      <3> QED BY <3>6 DEF previous
    <2>6. Source!AnswerBatch(e, n)
      BY <1>1, <1>2, <1>4, <2>1, <2>2, <2>3, <2>4, <2>5 DEF Source!AnswerBatch, Source!Batch
    <2> QED BY <2>2, <2>3, <2>6 DEF Source!Next
  <1>5. CASE answer = EndOfItems
    <2>1. HandedOut' = HandedOut
      <3>1. EndOfItems \notin Popped
        BY <1>g, ChunkAssumption
      <3> HIDE DEF Popped, Failures
      <3> QED BY <1>3, <1>5, <3>1
    <2>2. ASSUME ~closed PROVE Unread = Endpoints /\ failed = {} /\ Source!AllHanded
      <3>1. Queue!Alive = {} /\ got = pushed
        BY <1>5, <2>2 DEF SourceInv, QueueP!EndIsTheEnd, Queue!Alive, QueueP!Alive
      <3>2. Unread = Endpoints
        BY <1>1, <3>1 DEF SourceInv, Born, Queue!Alive, Unread
      <3>3. \A i \in 1..Len(got) : got[i].batch # 0
        <4>1. \A i \in 1..Len(got) : ~IsFailure(got[i])
          BY <1>1, <2>2 DEF SourceInv, CallInv, FailureStops
        <4> QED BY <1>g, <4>1 DEF IsFailure
      <3>4. failed = {}
        <4> SUFFICES ASSUME NEW e \in failed PROVE FALSE
          OBVIOUS
        <4>1. PICK i \in 1..Len(pushed) : pushed[i] = Chunk(e, 0)
          BY DEF SourceInv, SupplyInv, SentPushed, Delivered
        <4> QED BY <3>1, <3>3, <4>1 DEF Chunk
      <3>5. ASSUME NEW e \in Endpoints, NEW n \in 1..sent[e]
            PROVE  [from |-> e, batch |-> n] \in HandedOut
        <4> DEFINE b == [from |-> e, batch |-> n]
        <4>1. PICK i \in 1..Len(pushed) : pushed[i] = Chunk(e, n)
          BY DEF SourceInv, SupplyInv, SentPushed, Delivered
        <4>2. b \in Popped
          BY <3>1, <4>1 DEF Chunk
        <4>3. b \in Items /\ b \notin Failures /\ b # EndOfItems
          <5>1. b \in Items
            BY <1>g, <3>1, <4>1 DEF Chunk
          <5>2. b.batch # 0
            OBVIOUS
          <5> HIDE DEF b
          <5> QED BY <1>f, <5>1, <5>2, ChunkAssumption
        <4> HIDE DEF Popped, Failures, b
        <4>4. b \in HandedOut
          BY <1>3, <1>5, <4>2, <4>3
        <4> QED BY <4>4 DEF b
      <3>6. Source!AllHanded
        BY <3>5 DEF Source!AllHanded, Source!Batch
      <3> QED BY <3>2, <3>4, <3>6
    <2>3. Source!AnswerEnd
      BY <1>1, <1>2, <1>5, <2>1, <2>2 DEF Source!AnswerEnd, Source!Spent
    <2> QED BY <2>3 DEF Source!Next
  <1> QED BY <1>4, <1>5

LEMMA CallRefines ==
  ASSUME SourceInv, SourceInv',
         DoGetFails \/ Constructed \/ GetNext \/ CallClose \/ Destroy \/ GetNextFails
            \/ CloseReturned
  PROVE  [Source!Next]_(Source!vars)
  <1>1. CASE DoGetFails \/ Constructed \/ CallClose \/ Destroy
    <2>1. /\ call # "GetNext" /\ call' # "GetNext" /\ Asking = "no" /\ Asking' = "no"
          /\ UNCHANGED <<got, ppc, closed, outcome, sent, failed>>
      BY <1>1 DEF DoGetFails, Constructed, CallClose, Destroy, StartClose, Queue!CallClose,
           Queue!EndBuilding, queueVars, Queue!ringVars, Asking
    <2>2. HandedOut' = HandedOut /\ Unread' = Unread
      BY <2>1, HandedKept DEF Unread
    <2> QED BY <2>1, <2>2, Unseen
  <1>2. CASE GetNext
    <2>1. /\ call = "none" /\ call' = "GetNext" /\ opc' = "pop" /\ outcome' = "none"
          /\ UNCHANGED <<got, ppc, closed, sent, failed>>
      BY <1>2 DEF GetNext, Queue!CallPop, Queue!StepOwner, Queue!ringVars
    <2>2. HandedOut' = HandedOut /\ Unread' = Unread
      BY <2>1, HandedKept DEF Unread
    <2>3. Source!Ask
      BY <2>1, <2>2 DEF Source!Ask, Asking
    <2> QED BY <2>3 DEF Source!Next
  <1>3. CASE GetNextFails
    <2>1. /\ call = "GetNext" /\ opc = "idle" /\ IsFailure(answer) /\ call' = "raise"
          /\ UNCHANGED <<got, ppc, closed, outcome, sent, failed>>
      BY <1>3 DEF GetNextFails, StartClose, Queue!CallClose, Queue!ringVars
    <2>2. answer \in {Failure(e) : e \in Endpoints}
      BY <2>1 DEF IsFailure, Failure, Items
    <2>3. HandedOut' = HandedOut /\ Unread' = Unread
      BY <2>1, <2>2 DEF Unread, HandedOut
    <2>4. ~closed /\ failed # {}
      <3>1. answer # EndOfItems
        BY <2>1, ChunkAssumption DEF IsFailure
      <3>2. ~closed /\ Len(got) \in 1..Len(got) /\ got[Len(got)] = answer
        BY <2>1, <3>1 DEF SourceInv, LastPopped
      <3>3. Len(got) \in 1..Len(pushed) /\ pushed[Len(got)] = answer
        BY <3>2, GotIsPushed DEF SourceInv
      <3> QED BY <2>1, <3>2, <3>3 DEF IsFailure, SourceInv, SupplyInv, PushedSent
    <2>5. Source!Fail
      BY <2>1, <2>3, <2>4 DEF Source!Fail, Asking
    <2> QED BY <2>5 DEF Source!Next
  <1>4. CASE CloseReturned
    <2>1. /\ opc = "idle" /\ call \in {"Close", "raise", "destroy"} /\ call' \in {"none", "destroyed"}
          /\ UNCHANGED <<got, ppc, closed, sent, failed>>
          /\ outcome' = IF call = "raise" THEN "error" ELSE outcome
      BY <1>4 DEF CloseReturned, queueVars
    <2>2. HandedOut' = HandedOut /\ Unread' = Unread
      BY <2>1, HandedKept DEF Unread
    <2>3. CASE call # "raise"
      <3>1. Asking' = Asking
        BY <2>1, <2>3 DEF Asking
      <3> QED BY <2>1, <2>2, <2>3, <3>1, Unseen
    <2>4. CASE call = "raise"
      <3>1. closed
        BY <2>1, <2>4 DEF SourceInv, CallInv, InQueue
      <3>2. Queue!Alive = {}
        BY <2>1, <3>1 DEF SourceInv, QueueP!OwnerInv, Queue!Alive, QueueP!Alive
      <3>3. Unread = Endpoints
        BY <2>4, <3>2 DEF SourceInv, Born, Queue!Alive, Unread
      <3>4. Source!Raise
        BY <2>1, <2>2, <2>4, <3>1, <3>3 DEF Source!Raise, Asking
      <3> QED BY <3>4 DEF Source!Next
    <2> QED BY <2>3, <2>4
  <1> QED BY <1>1, <1>2, <1>3, <1>4

LEMMA StepRefines ==
  ASSUME SourceInv, SourceInv', [Next]_vars
  PROVE  [Source!Next]_(Source!vars)
  <1>1. ASSUME NEW e \in Endpoints, DoGet(e) PROVE UNCHANGED Source!vars
    <2>1. /\ ppc[e] = "unborn" /\ ppc' = [ppc EXCEPT ![e] = "check"]
          /\ UNCHANGED <<got, opc, answer, closed, call, outcome, sent, failed>>
      BY <1>1 DEF DoGet, Queue!AddProducer, Queue!ringVars
    <2>2. Unread' = Unread
      BY <2>1, Left DEF Unread, SourceInv
    <2>3. HandedOut' = HandedOut /\ Asking' = Asking
      BY <2>1, HandedKept DEF Asking
    <2> QED BY <2>1, <2>2, <2>3, Unseen
  <1>2. CASE Spurious \/ UNCHANGED vars
    <2>1. UNCHANGED <<ppc, got, opc, answer, closed, call, outcome, sent, failed>>
      BY <1>2 DEF Spurious, Queue!SpuriousStep, Queue!ringVars, vars, queueVars
    <2>2. HandedOut' = HandedOut /\ Asking' = Asking /\ Unread' = Unread
      BY <2>1, HandedKept DEF Asking, Unread
    <2> QED BY <2>1, <2>2, Unseen
  <1>3. CASE InsideQueue
    <2>1. CASE Queue!Pop
      BY <1>3, <2>1, PopRefines
    <2>2. CASE Queue!Close \/ Queue!Join
      <3>1. /\ call # "GetNext" /\ UNCHANGED <<got, ppc, call, outcome, sent, failed>>
            /\ closed' = (closed \/ Queue!Close)
        BY <1>3, <2>2 DEF InsideQueue, Queue!Close, Queue!Join, Queue!StepOwner, Queue!ringVars,
             SourceInv, CallInv, InQueue
      <3>2. HandedOut' = HandedOut /\ Asking' = Asking /\ Unread' = Unread /\ Asking # "yes"
        BY <3>1, HandedKept DEF Asking, Unread
      <3>3. CASE closed' = closed
        BY <3>1, <3>2, <3>3, Unseen
      <3>4. CASE ~closed /\ closed' = TRUE
        <4>1. Source!Close
          BY <3>1, <3>2, <3>4 DEF Source!Close
        <4> QED BY <4>1 DEF Source!Next
      <3>5. closed \in BOOLEAN /\ closed' \in BOOLEAN
        BY DEF SourceInv, TypeOK, Queue!TypeOK, Queue!ThreadTypeOK
      <3> QED BY <3>1, <3>3, <3>4, <3>5
    <2> QED BY <1>3, <2>1, <2>2 DEF InsideQueue, Queue!OwnerStep
  <1>4. CASE GetNextReturns
    BY <1>4, AnswerRefines
  <1> QED BY <1>1, <1>2, <1>3, <1>4, SupplierRefines, ProducerRefines, CallRefines
          DEF Next, Return

(* What the result set sees of the endpoints' threads, their queue and their
   streams is the abstract source of batches, for every number of endpoints
   and batches and every capacity of the queue. *)
THEOREM IsABatchSource == ASSUME ~UseExtended PROVE Spec => ImplementsSource
  <1>1. Init => Source!Init
    <2> SUFFICES ASSUME Init PROVE Source!Init
      OBVIOUS
    <2>1. HandedOut = {} /\ Unread = {} /\ Asking = "no"
      BY DEF Init, Queue!Init, HandedOut, Unread, Asking
    <2> QED BY <2>1 DEF Init, Queue!Init, Source!Init
  <1>2. SourceInv /\ SourceInv' /\ [Next]_vars => [Source!Next]_(Source!vars)
    BY StepRefines
  <1> QED BY <1>1, <1>2, SourceInvariant, PTL DEF Spec, ImplementsSource, Source!Spec

(* What has nothing left to give gives nothing more. *)
LEMMA SpentStays ==
  ASSUME Source!Spent, [Source!Next]_(Source!vars)
  PROVE  Source!Spent' /\ HandedOut' = HandedOut
  <1>1. ASSUME NEW e \in Endpoints, Source!Bring(e) \/ Source!Break(e) \/ Source!Leave(e)
        PROVE  Source!Spent' /\ HandedOut' = HandedOut
    BY <1>1 DEF Source!Bring, Source!Break, Source!Leave, Source!Spent
  <1>2. ASSUME NEW e \in Endpoints, NEW n \in 1..sent[e], Source!AnswerBatch(e, n)
        PROVE  FALSE
    BY <1>2 DEF Source!AnswerBatch, Source!Spent, Source!AllHanded
  <1>3. CASE Source!Ask \/ Source!AnswerEnd \/ Source!Fail \/ Source!Close \/ Source!Raise
    BY <1>3 DEF Source!Ask, Source!AnswerEnd, Source!Fail, Source!Close, Source!Raise,
         Source!Spent, Source!AllHanded
  <1>4. CASE UNCHANGED Source!vars
    BY <1>4 DEF Source!vars, Source!Spent, Source!AllHanded
  <1> QED BY <1>1, <1>2, <1>3, <1>4 DEF Source!Next

(* The end is told when nothing is left. *)
LEMMA ToldWhenSpent ==
  ASSUME outcome = "end" => Source!Spent, [Source!Next]_(Source!vars)
  PROVE  (outcome = "end" => Source!Spent)'
  <1>1. CASE Source!Spent
    BY <1>1, SpentStays
  <1>2. CASE outcome # "end" /\ outcome' = "end"
    <2>1. Source!AnswerEnd
      BY <1>2 DEF Source!Next, Source!vars, Source!Bring, Source!Break, Source!Leave,
           Source!AnswerBatch, Source!Ask, Source!Fail, Source!Close, Source!Raise
    <2> QED BY <2>1, <1>1 DEF Source!AnswerEnd
  <1> QED BY <1>1, <1>2

(* Once GetNext has told the end, nothing the threads of the endpoints or the
   servers do makes a later GetNext hand out a batch. *)
THEOREM EndIsTheLastAnswer == ASSUME ~UseExtended PROVE Spec => Source!EndIsFinal
  <1>1. Init => (outcome = "end" => Source!Spent)
    BY DEF Init
  <1>2. (outcome = "end" => Source!Spent) /\ [Source!Next]_(Source!vars)
        => (outcome = "end" => Source!Spent)'
    BY ToldWhenSpent
  <1>3. [Source!Next]_(Source!vars)
        => [Source!Spent => Source!Spent' /\ HandedOut' = HandedOut]_(Source!vars)
    BY SpentStays
  <1>4. Spec => [][Source!Next]_(Source!vars)
    BY IsABatchSource, PTL DEF ImplementsSource, Source!Spec
  <1> QED BY <1>1, <1>2, <1>3, <1>4, PTL DEF Spec, Source!EndIsFinal

================================================================================
