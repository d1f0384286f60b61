----------------------------- MODULE ChunkBuffer -----------------------------
(***************************************************************************)
(* flight_sql/flight_sql_stream_chunk_buffer.cc: the record batches of all *)
(* endpoints of a FlightInfo, read ahead by one BlockingQueue producer per *)
(* endpoint.  The application thread builds the buffer, calls GetNext and  *)
(* Close and destroys it, one call at a time (the statement's lock).       *)
(*                                                                         *)
(* The gRPC streams are external: a stream delivers its batches in order   *)
(* and then ends, may fail at any moment, answers Next whenever the server *)
(* pleases, and answers for sure once it is cancelled.                     *)
(***************************************************************************)
EXTENDS Integers, Sequences, FiniteSets

CONSTANTS
    Endpoints,    \* the endpoints of the FlightInfo
    MaxBatches,   \* bound: batches a stream may hold
    MayFail,      \* streams and DoGet may fail
    Capacity, UseExtended, ExtFactor, MaxPushes, NoThread, NoItem, EndOfItems

(* What a supplier returns: the n-th batch of a stream, or its error status. *)
Chunk(e, n) == [from |-> e, batch |-> n]
Failure(e)  == [from |-> e, batch |-> 0]
Items == [from : Endpoints, batch : 0..MaxBatches]
IsFailure(item) == item \in Items /\ item.batch = 0

ASSUME ChunkAssumption ==
    /\ MaxBatches \in Nat /\ MayFail \in BOOLEAN
    /\ IsFiniteSet(Endpoints)
    /\ Capacity \in Nat \ {0}
    /\ UseExtended \in BOOLEAN
    /\ ExtFactor \in Nat \ {0}
    /\ MaxPushes \in Nat
    /\ NoThread \notin Endpoints
    /\ NoItem \notin Items
    /\ EndOfItems \notin Items \cup {NoItem}

VARIABLES
    buffer, left, right, size, closed, active, mtx, notFull, popAsleep,
    ppc, opc, answer, pushed, got,      \* queue_
    sent,       \* batches each stream has delivered
    failed,     \* streams that have returned an error
    cancelled,  \* streams Close has cancelled
    call,       \* the call the application thread is in
    outcome     \* how its last GetNext, or the constructor, ended

Queue == INSTANCE BlockingQueue WITH Producers <- Endpoints

queueVars == <<buffer, left, right, size, pushed, got, closed, active, mtx,
               notFull, popAsleep, ppc, opc, answer>>
vars == <<queueVars, sent, failed, cancelled, call, outcome>>

Calls == {"construct", "none", "GetNext", "raise", "Close", "destroy",
          "destroyed", "thrown", "terminated"}
Outcomes == {"none", "chunk", "end", "error"}

Init ==
    /\ Queue!Init
    /\ sent = [e \in Endpoints |-> 0]
    /\ failed = {} /\ cancelled = {}
    /\ call = "construct" /\ outcome = "none"

(* The streams of stream_readers_. *)
Readers == {e \in Endpoints : ppc[e] # "unborn"}

-----------------------------------------------------------------------------
(* The constructor: endpoint by endpoint DoGet, then AddProducer. *)
DoGet(e) ==
    /\ call = "construct"
    /\ Queue!AddProducer(e)
    /\ UNCHANGED <<sent, failed, cancelled, call, outcome>>

(* DoGet fails and ThrowIfNotOK leaves the constructor.  The destructor does
   not run for an object that was not built, but its members are destroyed:
   a joinable std::thread in threads_ ends the program. *)
DoGetFails ==
    /\ call = "construct" /\ MayFail
    /\ Readers # Endpoints
    /\ call' = IF Readers = {} THEN "thrown" ELSE "terminated"
    /\ UNCHANGED <<queueVars, sent, failed, cancelled, outcome>>

Constructed ==
    /\ call = "construct" /\ Readers = Endpoints
    /\ Queue!EndBuilding
    /\ call' = "none"
    /\ UNCHANGED <<sent, failed, cancelled, outcome>>

-----------------------------------------------------------------------------
(* The supplier of e, called by its producer with mtx_ held: the outcomes of
   Next().  A cancelled stream may still hand out what it had received. *)
Running == call # "terminated"

NextDelivers(e) ==
    /\ e \notin failed /\ sent[e] < MaxBatches
    /\ Len(pushed) < MaxPushes
    /\ Queue!Supply(e, Chunk(e, sent[e] + 1))
    /\ sent' = [sent EXCEPT ![e] = @ + 1]
    /\ UNCHANGED failed

NextFailsSilently(e) ==        \* mutant: the supplier returns isNotEmpty only
    /\ MayFail \/ e \in cancelled
    /\ Queue!SupplyNone(e)
    /\ failed' = failed \cup {e}
    /\ UNCHANGED sent

NextFails(e) ==
    /\ MayFail \/ e \in cancelled
    /\ Len(pushed) < MaxPushes
    /\ Queue!Supply(e, Failure(e))
    /\ failed' = failed \cup {e}
    /\ UNCHANGED sent

NextEnds(e) ==
    /\ e \notin failed
    /\ Queue!SupplyNone(e)
    /\ UNCHANGED <<sent, failed>>

Supplier(e) ==
    /\ Running
    /\ NextDelivers(e) \/ NextFails(e) \/ NextEnds(e)
    /\ UNCHANGED <<cancelled, call, outcome>>

(* The producer threads and their wake-ups, untouched by this class. *)
Producer(e) ==
    /\ Running /\ Queue!ProducerStep(e)
    /\ UNCHANGED <<sent, failed, cancelled, call, outcome>>

Spurious ==
    /\ Running /\ Queue!SpuriousStep
    /\ UNCHANGED <<sent, failed, cancelled, call, outcome>>

-----------------------------------------------------------------------------
(* The application thread. *)
GetNext ==
    /\ call = "none" /\ call' = "GetNext" /\ outcome' = "none"
    /\ Queue!CallPop
    /\ UNCHANGED <<sent, failed, cancelled>>

StartCloseUncancelled(next) ==     \* mutant: the readers are not cancelled
    /\ call' = next
    /\ Queue!CallClose
    /\ UNCHANGED <<cancelled, sent, failed, outcome>>

(* Close: every reader is cancelled, then the queue is closed.  The readers
   are cancelled in one step: their threads do not look at each other. *)
StartClose(next) ==
    /\ call' = next
    /\ cancelled' = cancelled \cup Readers
    /\ Queue!CallClose
    /\ UNCHANGED <<sent, failed, outcome>>

(* What GetNext does with the answer of Pop. *)
GetNextReturns ==
    /\ call = "GetNext" /\ opc = "idle"
    /\ ~IsFailure(answer)
    /\ call' = "none"
    /\ outcome' = IF answer = EndOfItems THEN "end" ELSE "chunk"
    /\ UNCHANGED <<queueVars, sent, failed, cancelled>>

GetNextFailsOpen ==         \* mutant: it throws without closing
    /\ call = "GetNext" /\ opc = "idle"
    /\ IsFailure(answer)
    /\ call' = "none" /\ outcome' = "error"
    /\ UNCHANGED <<queueVars, sent, failed, cancelled>>

GetNextFails ==
    /\ call = "GetNext" /\ opc = "idle"
    /\ IsFailure(answer)
    /\ StartClose("raise")

CallClose ==
    /\ call = "none"
    /\ StartClose("Close")

Destroy ==
    /\ call = "none"
    /\ StartClose("destroy")

(* Close has returned: GetNext throws, the destructor destroys the members. *)
CloseReturned ==
    /\ opc = "idle"
    /\ \/ call = "Close" /\ call' = "none" /\ UNCHANGED outcome
       \/ call = "raise" /\ call' = "none" /\ outcome' = "error"
       \/ call = "destroy" /\ call' = "destroyed" /\ UNCHANGED outcome
    /\ UNCHANGED <<queueVars, sent, failed, cancelled>>

(* What the application thread does inside Pop and inside the queue's Close. *)
InsideQueue ==
    /\ Running /\ Queue!OwnerStep
    /\ UNCHANGED <<sent, failed, cancelled, call, outcome>>

Return == GetNextReturns \/ GetNextFails \/ CloseReturned

Next ==
    \/ \E e \in Endpoints : DoGet(e) \/ Supplier(e) \/ Producer(e)
    \/ DoGetFails \/ Constructed
    \/ Spurious
    \/ GetNext \/ CallClose \/ Destroy
    \/ InsideQueue \/ Return

Spec == Init /\ [][Next]_vars

-----------------------------------------------------------------------------
(* Threads that can run do run; a cancelled stream answers.  The server of a
   stream that is not cancelled need not answer. *)
SchedulerFairness ==
    /\ \A e \in Endpoints :
          /\ WF_vars(Producer(e))
          /\ WF_vars(e \in cancelled /\ Supplier(e))
    /\ WF_vars(InsideQueue) /\ WF_vars(Return)

FairSpec == Spec /\ SchedulerFairness

-----------------------------------------------------------------------------
(* Type invariant. *)
ChunkTypeOK ==
    /\ sent \in [Endpoints -> 0..MaxBatches]
    /\ failed \subseteq Endpoints /\ cancelled \subseteq Endpoints
    /\ call \in Calls /\ outcome \in Outcomes

TypeOK == Queue!TypeOK /\ ChunkTypeOK

(* The batches the application gets of one endpoint are its first ones, in
   the order the server sent them, none twice and none left out, however the
   endpoints' threads interleave (the supplier, Push, Pop, GetNext). *)
BatchesInOrder ==
    \A j \in 1..Len(got) : got[j].batch # 0 =>
        /\ \A n \in 1..got[j].batch-1 : \E i \in 1..j-1 : got[i] = Chunk(got[j].from, n)
        /\ \A i \in 1..j-1 : got[i] # got[j]

(* GetNext says "no more rows" before a Close only when every stream came to
   its end without an error and its batches, all of them, were handed out: a
   stream that fails never looks like a short result. *)
NoSilentTruncation ==
    outcome = "end" /\ ~closed =>
        /\ failed = {}
        /\ {got[i] : i \in 1..Len(got)}
              = {item \in Items : item.batch \in 1..sent[item.from]}

(* When GetNext has thrown, or Close has returned, or the buffer is gone, no
   producer thread is left that could touch the queue or a reader. *)
QuietAfterClose ==
    \/ call = "destroyed"
    \/ outcome = "error" /\ call = "none"
    => closed /\ Queue!Alive = {}

(* A failing constructor raises an exception and nothing else. *)
ConstructorThrowsCleanly == call # "terminated"

(* Close always returns, even when no server answers any more: cancelling the
   streams first unblocks a producer that sits in Next() with the lock. *)
CloseAlwaysReturns == call \in {"Close", "raise", "destroy"} ~> call \in {"none", "destroyed"}

(* An application that keeps fetching from servers that answer every Next is
   told the end or an error in the end. *)
ServersAnswer == \A e \in Endpoints : WF_vars(Supplier(e))
KeepsFetching == WF_vars(outcome \notin {"end", "error"} /\ ~closed /\ GetNext)

FetchingEnds ==
    ServersAnswer /\ KeepsFetching =>
        (call = "none" ~> outcome \in {"end", "error"} \/ closed)

-----------------------------------------------------------------------------
(* The batches that GetNext has returned: what Pop has given, but for the
   errors and for what a GetNext that is still under way was given. *)
HandedOut ==
    {got[i] : i \in 1..Len(got)}
       \ ({Failure(e) : e \in Endpoints}
          \cup IF call = "GetNext" /\ opc = "idle" THEN {answer} ELSE {})

Unread == {e \in Endpoints : ppc[e] \in {"exit", "done"}}
Asking == CASE call = "GetNext" -> "yes" [] call = "raise" -> "raising" [] OTHER -> "no"

Source == INSTANCE BatchSource WITH
    Streams <- Endpoints,
    left    <- Unread,
    over    <- closed,
    asking  <- Asking,
    reply   <- outcome,
    handed  <- HandedOut

(* Seen from the result set the producer threads, the queue and the suppliers
   are one source of batches: whatever the threads and the servers do, GetNext
   gives each stream's batches in order and once, says "no more" only when that
   is so, and throws only after a failure, with the streams closed. *)
ImplementsSource == Source!Spec

=============================================================================
