----------------------------- MODULE BatchSource -----------------------------
(***************************************************************************)
(* What flight_sql_stream_chunk_buffer.cc promises the result set that     *)
(* reads from it, without threads, a queue or suppliers: the batches of    *)
(* every stream one by one and in the stream's order, an end that is told  *)
(* only when nothing is left, and an error that is told only when a stream *)
(* has failed and the source is closed.                                    *)
(***************************************************************************)
EXTENDS Integers

CONSTANT Streams

VARIABLES
    sent,     \* batches each stream has brought
    failed,   \* streams that broke
    left,     \* streams nobody reads any more
    over,     \* the source is closed
    asking,   \* "yes": a request waits for its answer; "raising": for its error
    reply,    \* how the last request was answered
    handed    \* the batches handed out

vars == <<sent, failed, left, over, asking, reply, handed>>

Batch(e, n) == [from |-> e, batch |-> n]

Init ==
    /\ sent = [e \in Streams |-> 0]
    /\ failed = {} /\ left = {} /\ over = FALSE
    /\ asking = "no" /\ reply = "none" /\ handed = {}

(* A stream is read while the source is open and the stream goes on. *)
Bring(e) ==
    /\ ~over /\ e \notin left \cup failed
    /\ sent' = [sent EXCEPT ![e] = @ + 1]
    /\ UNCHANGED <<failed, left, over, asking, reply, handed>>

Break(e) ==
    /\ ~over /\ e \notin left
    /\ failed' = failed \cup {e}
    /\ UNCHANGED <<sent, left, over, asking, reply, handed>>

(* A stream is left when it came to its end, or because the source is over. *)
Leave(e) ==
    /\ e \notin left /\ (over \/ e \notin failed)
    /\ left' = left \cup {e}
    /\ UNCHANGED <<sent, failed, over, asking, reply, handed>>

Ask ==
    /\ asking = "no" /\ asking' = "yes" /\ reply' = "none"
    /\ UNCHANGED <<sent, failed, left, over, handed>>

AnswerBatch(e, n) ==
    /\ asking = "yes" /\ ~over
    /\ n \in 1..sent[e] /\ Batch(e, n) \notin handed
    /\ n = 1 \/ Batch(e, n - 1) \in handed
    /\ asking' = "no" /\ reply' = "chunk"
    /\ handed' = handed \cup {Batch(e, n)}
    /\ UNCHANGED <<sent, failed, left, over>>

AllHanded == \A e \in Streams : \A n \in 1..sent[e] : Batch(e, n) \in handed
Spent == over \/ (left = Streams /\ failed = {} /\ AllHanded)

AnswerEnd ==
    /\ asking = "yes" /\ Spent
    /\ asking' = "no" /\ reply' = "end"
    /\ UNCHANGED <<sent, failed, left, over, handed>>

Fail ==
    /\ asking = "yes" /\ ~over /\ failed # {}
    /\ asking' = "raising"
    /\ UNCHANGED <<sent, failed, left, over, reply, handed>>

Close ==
    /\ asking # "yes" /\ ~over /\ over' = TRUE
    /\ UNCHANGED <<sent, failed, left, asking, reply, handed>>

(* The error is told when the source is over and nobody reads a stream. *)
Raise ==
    /\ asking = "raising" /\ over /\ left = Streams
    /\ asking' = "no" /\ reply' = "error"
    /\ UNCHANGED <<sent, failed, left, over, handed>>

Next ==
    \/ \E e \in Streams : Bring(e) \/ Break(e) \/ Leave(e)
    \/ \E e \in Streams : \E n \in 1..sent[e] : AnswerBatch(e, n)
    \/ Ask \/ AnswerEnd \/ Fail \/ Close \/ Raise

Spec == Init /\ [][Next]_vars

-----------------------------------------------------------------------------
(* The end is final: once it was told, whatever the threads and the servers do
   later, no request gets another batch.  It is what FlightSqlResultSet::Move
   relies on when it leaves its loop. *)
EndIsFinal ==
    /\ [](reply = "end" => Spent)
    /\ [][Spent => Spent' /\ handed' = handed]_vars
=============================================================================
