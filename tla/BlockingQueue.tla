---------------------------- MODULE BlockingQueue ----------------------------
(***************************************************************************)
(* The bounded queue of odbcabstraction/blocking_queue.h: one producer     *)
(* thread per supplier, one owner thread that adds the producers, pops     *)
(* items and closes the queue, a mutex, and the condition variables        *)
(* not_full_ (producers sleep on it) and not_empty_ (the owner sleeps on   *)
(* it in Pop).                                                             *)
(*                                                                         *)
(* Everything a thread does between acquiring mtx_ and releasing it is one *)
(* step, except the call of the supplier: it happens with mtx_ held and    *)
(* may take forever, so a producer inside its supplier is a state of its   *)
(* own.  The suppliers and the owner's choice of calls are the             *)
(* environment; the owner is one thread because every user of the queue    *)
(* reaches it under the lock of its statement handle.                      *)
(***************************************************************************)
EXTENDS Integers, Sequences, FiniteSets

CONSTANTS
    Producers,    \* the threads AddProducer may start
    Items,        \* what a supplier may return
    Capacity,     \* capacity_, the connection property ChunkBufferCapacity
    UseExtended,  \* use_extended_buffer
    ExtFactor,    \* extended_capacity_ / capacity_; 1000 in the code
    MaxPushes,    \* bound: number of items the suppliers return altogether
    NoThread,     \* mtx_ is free
    NoItem,       \* a default constructed T, and "Pop has not answered"
    EndOfItems    \* the answer of a Pop that returns false

ASSUME QueueAssumption ==
    /\ IsFiniteSet(Producers)
    /\ Capacity \in Nat \ {0}
    /\ UseExtended \in BOOLEAN
    /\ ExtFactor \in Nat \ {0}
    /\ MaxPushes \in Nat
    /\ NoThread \notin Producers
    /\ NoItem \notin Items
    /\ EndOfItems \notin Items \cup {NoItem}

VARIABLES
    buffer, left, right, size,  \* buffer_, left_, right_, buffer_size_
    closed, active,             \* closed_, active_threads_
    mtx,                        \* the thread inside its supplier, or NoThread
    notFull,                    \* producers asleep on not_full_
    popAsleep,                  \* the owner is asleep on not_empty_
    ppc, opc,                   \* where each producer, and the owner, is
    answer,                     \* the answer of the last Pop
    pushed, got                 \* history: items pushed, items popped

mutexVars == <<mtx, notFull, popAsleep>>
ringVars  == <<buffer, left, right, size, pushed, got>>
vars == <<ringVars, closed, active, mutexVars, ppc, opc, answer>>

(* The number of cells of buffer_, which is also the modulus of left_ and
   right_. *)
Ring == IF UseExtended THEN ExtFactor * Capacity ELSE Capacity

WaitKinds == {"waitCap", "waitTimed", "waitExt"}
ProducerStates == {"unborn", "check", "lock", "supply", "exit", "done"} \cup WaitKinds
OwnerStates == {"building", "idle", "pop", "popWait", "close", "join"}

(* The threads that are started and have not ended. *)
Alive == {p \in Producers : ppc[p] \notin {"unborn", "done"}}

Init ==
    /\ buffer = [i \in 0..Ring-1 |-> NoItem]
    /\ left = 0 /\ right = 0 /\ size = 0
    /\ closed = FALSE /\ active = 0
    /\ mtx = NoThread /\ notFull = {} /\ popAsleep = FALSE
    /\ ppc = [p \in Producers |-> "unborn"]
    /\ opc = "building"
    /\ answer = NoItem
    /\ pushed = <<>> /\ got = <<>>

-----------------------------------------------------------------------------
(* Producer threads. *)

(* AddProducer: active_threads_ is raised by the owner, then the thread is
   started. *)
AddProducer(p) ==
    /\ opc = "building" /\ ppc[p] = "unborn"
    /\ active' = active + 1
    /\ ppc' = [ppc EXCEPT ![p] = "check"]
    /\ UNCHANGED <<ringVars, closed, mutexVars, opc, answer>>

(* while (!closed_): an atomic read without the lock. *)
Check(p) ==
    /\ ppc[p] = "check"
    /\ ppc' = [ppc EXCEPT ![p] = IF closed THEN "exit" ELSE "lock"]
    /\ UNCHANGED <<ringVars, closed, active, mutexVars, opc, answer>>

(* The wait that WaitUntilCanPushOrClosed chooses from the size it finds. *)
WaitKindNoLimit ==      \* mutant: the test of extended_capacity_ is forgotten
    IF UseExtended /\ size >= Capacity THEN "waitTimed" ELSE "waitCap"

WaitKind ==
    IF UseExtended /\ size >= Ring THEN "waitExt"
    ELSE IF UseExtended /\ size >= Capacity THEN "waitTimed"
    ELSE "waitCap"

(* The predicates of its two predicate waits. *)
WaitIsOverOffByOne(kind) ==     \* mutant: <= for <
    \/ kind = "waitCap" /\ (closed \/ size <= Capacity)
    \/ kind = "waitExt" /\ (closed \/ size < Ring)

WaitIsOver(kind) ==
    \/ kind = "waitCap" /\ (closed \/ size < Capacity)
    \/ kind = "waitExt" /\ (closed \/ size < Ring)

(* return !closed_: the supplier is called with mtx_ held, or the loop is
   left, which releases mtx_. *)
LeaveWaitUnchecked(p) ==        \* mutant: closed_ is not looked at again
    ppc' = [ppc EXCEPT ![p] = "supply"] /\ mtx' = p /\ UNCHANGED notFull

LeaveWait(p) ==
    /\ IF closed
       THEN ppc' = [ppc EXCEPT ![p] = "exit"] /\ UNCHANGED mtx
       ELSE ppc' = [ppc EXCEPT ![p] = "supply"] /\ mtx' = p
    /\ UNCHANGED notFull

(* Releasing mtx_ and going to sleep on not_full_ is atomic. *)
Sleep(p, kind) ==
    /\ ppc' = [ppc EXCEPT ![p] = kind]
    /\ notFull' = notFull \cup {p}
    /\ UNCHANGED mtx

(* A producer takes mtx_ and enters WaitUntilCanPushOrClosed.  The wait_for
   of the extended buffer has no predicate: it sleeps whatever it finds. *)
Enter(p) ==
    /\ ppc[p] = "lock" /\ mtx = NoThread
    /\ \/ WaitIsOver(WaitKind) /\ LeaveWait(p)
       \/ ~WaitIsOver(WaitKind) /\ Sleep(p, WaitKind)
    /\ UNCHANGED <<ringVars, closed, active, popAsleep, opc, answer>>

(* A woken producer takes mtx_ back.  A predicate wait looks at its
   predicate again, wait_for does not. *)
Wake(p) ==
    /\ ppc[p] \in WaitKinds /\ p \notin notFull /\ mtx = NoThread
    /\ \/ (ppc[p] = "waitTimed" \/ WaitIsOver(ppc[p])) /\ LeaveWait(p)
       \/ ppc[p] # "waitTimed" /\ ~WaitIsOver(ppc[p]) /\ Sleep(p, ppc[p])
    /\ UNCHANGED <<ringVars, closed, active, popAsleep, opc, answer>>

(* The 500 milliseconds of wait_for are over. *)
Timeout(p) ==
    /\ ppc[p] = "waitTimed" /\ p \in notFull
    /\ notFull' = notFull \ {p}
    /\ UNCHANGED <<ringVars, closed, active, mtx, popAsleep, ppc, opc, answer>>

(* A condition variable may wake a thread that nobody notified. *)
SpuriousWakeup ==
    \/ /\ \E p \in notFull : notFull' = notFull \ {p}
       /\ UNCHANGED popAsleep
    \/ /\ popAsleep /\ popAsleep' = FALSE
       /\ UNCHANGED notFull

SpuriousStep ==
    /\ SpuriousWakeup
    /\ UNCHANGED <<ringVars, closed, active, mtx, ppc, opc, answer>>

(* not_empty_.notify_one() and not_empty_.notify_all(): only the owner sleeps
   there. *)
NotifyNotEmptyForgotten == UNCHANGED popAsleep       \* mutant

NotifyNotEmpty == popAsleep' = FALSE

(* left_ and right_ go round the ring. *)
AdvanceNoWrap(index) == index + 1                    \* mutant

Advance(index) == (index + 1) % Ring

(* Push, then not_empty_.notify_one(), then the end of the scope releases
   mtx_. *)
Supply(p, item) ==
    /\ ppc[p] = "supply"
    /\ buffer' = [buffer EXCEPT ![right] = item]
    /\ right' = Advance(right)
    /\ size' = size + 1
    /\ pushed' = Append(pushed, item)
    /\ NotifyNotEmpty
    /\ mtx' = NoThread
    /\ ppc' = [ppc EXCEPT ![p] = "check"]
    /\ UNCHANGED <<left, got, closed, active, notFull, opc, answer>>

(* The supplier has nothing left: break, which releases mtx_. *)
SupplyNone(p) ==
    /\ ppc[p] = "supply"
    /\ mtx' = NoThread
    /\ ppc' = [ppc EXCEPT ![p] = "exit"]
    /\ UNCHANGED <<ringVars, closed, active, notFull, popAsleep, opc, answer>>

(* The last lines of the thread. *)
Exit(p) ==
    /\ ppc[p] = "exit" /\ mtx = NoThread
    /\ active' = active - 1
    /\ NotifyNotEmpty
    /\ ppc' = [ppc EXCEPT ![p] = "done"]
    /\ UNCHANGED <<ringVars, closed, mtx, notFull, opc, answer>>

-----------------------------------------------------------------------------
(* The owner thread. *)

StepOwner(from, to) == opc = from /\ opc' = to

(* All producers are added: the constructor of the owner returns. *)
EndBuilding ==
    /\ StepOwner("building", "idle")
    /\ UNCHANGED <<ringVars, closed, active, mutexVars, ppc, answer>>

CallPop ==
    /\ StepOwner("idle", "pop")
    /\ answer' = NoItem
    /\ UNCHANGED <<ringVars, closed, active, mutexVars, ppc>>

(* not_full_.notify_one() *)
NotifyNotFullForgotten == UNCHANGED notFull          \* mutant

NotifyNotFull ==
    \/ notFull = {} /\ notFull' = {}
    \/ \E p \in notFull : notFull' = notFull \ {p}

TakeItem ==
    /\ answer' = buffer[left]
    /\ buffer' = [buffer EXCEPT ![left] = NoItem]
    /\ left' = Advance(left)
    /\ size' = size - 1
    /\ got' = Append(got, buffer[left])
    /\ NotifyNotFull
    /\ UNCHANGED <<right, pushed>>

(* The queue is empty and no thread is left to fill it. *)
NothingLeftOffByOne == active <= 1 /\ size = 0       \* mutant: the last thread is forgotten

NothingLeft == size = 0 /\ active = 0

(* Pop from the moment it holds mtx_, for the first time or after a sleep. *)
Pop ==
    /\ opc = "pop" \/ (opc = "popWait" /\ ~popAsleep)
    /\ mtx = NoThread
    /\ \/ /\ ~closed /\ size > 0
          /\ TakeItem
          /\ opc' = "idle" /\ UNCHANGED popAsleep
       \/ /\ closed \/ NothingLeft
          /\ answer' = EndOfItems
          /\ opc' = "idle" /\ UNCHANGED <<ringVars, notFull, popAsleep>>
       \/ /\ ~closed /\ size = 0 /\ ~NothingLeft
          /\ opc' = "popWait" /\ popAsleep' = TRUE
          /\ UNCHANGED <<ringVars, notFull, answer>>
    /\ UNCHANGED <<closed, active, mtx, ppc>>

CallClose ==
    /\ StepOwner("idle", "close")
    /\ UNCHANGED <<ringVars, closed, active, mutexVars, ppc, answer>>

(* not_full_.notify_all() *)
NotifyAllNotFullOnce == NotifyNotFull                \* mutant: notify_one

NotifyAllNotFull == notFull' = {}

(* Close under mtx_; a second Close returns at once. *)
Close ==
    /\ opc = "close" /\ mtx = NoThread
    /\ IF closed
       THEN opc' = "idle" /\ UNCHANGED <<closed, notFull, popAsleep>>
       ELSE /\ opc' = "join"
            /\ closed' = TRUE
            /\ NotifyNotEmpty /\ NotifyAllNotFull
    /\ UNCHANGED <<ringVars, active, mtx, ppc, answer>>

JoinForgotten ==        \* mutant: Close does not wait for the threads
    /\ StepOwner("join", "idle")
    /\ UNCHANGED <<ringVars, closed, active, mutexVars, ppc, answer>>

Join ==
    /\ StepOwner("join", "idle")
    /\ Alive = {}
    /\ UNCHANGED <<ringVars, closed, active, mutexVars, ppc, answer>>

-----------------------------------------------------------------------------
(* What a producer thread does besides calling its supplier. *)
ProducerStep(p) == Check(p) \/ Enter(p) \/ Wake(p) \/ Timeout(p) \/ Exit(p)

(* The supplier of p answers: the environment. *)
SupplierAnswers(p) ==
    \/ \E item \in Items : Len(pushed) < MaxPushes /\ Supply(p, item)
    \/ SupplyNone(p)

(* What the owner does inside a call of Pop or Close. *)
OwnerStep == Pop \/ Close \/ Join

Next ==
    \/ \E p \in Producers : AddProducer(p) \/ ProducerStep(p) \/ SupplierAnswers(p)
    \/ SpuriousStep
    \/ EndBuilding \/ CallPop \/ CallClose
    \/ OwnerStep

Spec == Init /\ [][Next]_vars

(* The scheduler runs every thread that can run and the clock moves; nothing
   makes the owner call, and no spurious wakeup ever has to happen. *)
ThreadFairness ==
    /\ \A p \in Producers : WF_vars(ProducerStep(p))
    /\ WF_vars(OwnerStep)

(* Every supplier answers some day: the server sends its batches. *)
SuppliersAnswer == \A p \in Producers : WF_vars(SupplierAnswers(p))

FairSpec == Spec /\ ThreadFairness /\ SuppliersAnswer

-----------------------------------------------------------------------------
(* Type invariant, of the ring and of the threads. *)
RingTypeOK ==
    /\ buffer \in [0..Ring-1 -> Items \cup {NoItem}]
    /\ left \in 0..Ring-1 /\ right \in 0..Ring-1 /\ size \in Nat
    /\ pushed \in Seq(Items) /\ got \in Seq(Items \cup {NoItem})

ThreadTypeOK ==
    /\ closed \in BOOLEAN /\ active \in Int
    /\ mtx \in Producers \cup {NoThread}
    /\ notFull \in SUBSET Producers /\ popAsleep \in BOOLEAN
    /\ ppc \in [Producers -> ProducerStates]
    /\ opc \in OwnerStates
    /\ answer \in Items \cup {NoItem, EndOfItems}

TypeOK == RingTypeOK /\ ThreadTypeOK

(* The ring never loses, duplicates or reorders an item: what was popped is a
   prefix of what was pushed, and the cells between left_ and right_ hold the
   rest, in order (Push, Pop). *)
FifoIntact ==
    /\ Len(pushed) = Len(got) + size
    /\ \A i \in 1..Len(got) : got[i] = pushed[i]
    /\ \A i \in 0..size-1 : buffer[(left + i) % Ring] = pushed[Len(got) + i + 1]

(* "Block while queue is full": a Push never finds all cells in use, so it
   never overwrites an item that nobody has popped. *)
NeverOverfull == size <= Ring

(* With the extended buffer the timed wait lets producers past the limit; no
   more than one item per other producer goes over it. *)
OvershootBound == size <= Ring - 1 + Cardinality(Producers)

(* A producer sleeps on not_full_ only while the queue holds an item, so some
   later Pop will notify.  Pop notifies one producer and that producer may end
   without a Push; the sleepers are still reached when the queue has a cell
   for every producer. *)
NoStrandedProducer == notFull # {} => size > 0

(* The owner sleeps in Pop only while there is nothing to report and a
   producer thread that will still notify it: no wake-up of not_empty_ is
   lost between Push, the end of a thread and Close. *)
PopSleepsForAReason == popAsleep => ~closed /\ size = 0 /\ active > 0

(* active_threads_ is the number of threads that have not ended, though the
   owner raises it without the lock and each thread lowers it under the lock;
   Pop takes zero for "no item will come". *)
ActiveIsAccurate == active = Cardinality(Alive)

(* Pop returns false on an open queue only when every producer has ended and
   every item ever pushed was popped: the end of the stream is never reported
   early. *)
EndIsTheEnd ==
    answer = EndOfItems /\ ~closed => Alive = {} /\ got = pushed

(* Once Close has raised closed_, no supplier is called and no item is
   pushed, whatever a producer was doing at that moment. *)
ClosedForGood == [][closed => closed' /\ UNCHANGED <<pushed, got>>]_vars

(* Close returns only after all threads have ended, so the owner may destroy
   the queue. *)
CloseJoins == opc = "idle" /\ closed => Alive = {}

(* If the suppliers answer, every Pop answers. *)
PopAnswers == opc = "pop" ~> opc = "idle"

(* If the suppliers answer, every Close returns. *)
CloseReturns == opc = "close" ~> opc = "idle"

-----------------------------------------------------------------------------
(* The abstract channel this queue implements: the ring read from left_ on is
   the channel's queue. *)
Contents == [i \in 1..size |-> buffer[(left + i - 1) % Ring]]

Channel == INSTANCE BoundedChannel WITH
    Length <- Ring,
    queue  <- Contents,
    open   <- ~closed,
    setup  <- opc = "building",
    live   <- Alive,
    asking <- opc \in {"pop", "popWait"},
    reply  <- answer

(* Seen from its callers the threads, the lock and the ring of the queue are
   a bounded FIFO channel: no interleaving of Push, Pop, Close and the ends of
   threads shows an answer the channel could not give. *)
ImplementsChannel == Channel!Spec

=============================================================================
