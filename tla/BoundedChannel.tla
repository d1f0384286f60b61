---------------------------- MODULE BoundedChannel ----------------------------
(***************************************************************************)
(* What odbcabstraction/blocking_queue.h promises its owner, without       *)
(* threads, locks or a ring: a FIFO channel of limited length, fed by      *)
(* producers that each finish some day, with a request that is answered    *)
(* by the oldest item, or by "no more items" once the channel is closed or *)
(* is empty with no producer left.                                         *)
(***************************************************************************)
EXTENDS Naturals, Sequences

CONSTANTS Producers, Items, Length, NoItem, EndOfItems

VARIABLES
    queue,   \* items put and not yet taken, oldest first
    open,    \* nobody has closed the channel
    setup,   \* producers may still be added
    live,    \* producers that are added and have not finished
    asking,  \* a request is pending
    reply    \* the answer to the last request, NoItem while there is none

vars == <<queue, open, setup, live, asking, reply>>

Init ==
    /\ queue = <<>> /\ open = TRUE /\ setup = TRUE
    /\ live = {} /\ asking = FALSE /\ reply = NoItem

Add(p) ==
    /\ setup /\ p \notin live
    /\ live' = live \cup {p}
    /\ UNCHANGED <<queue, open, setup, asking, reply>>

StartUse ==
    /\ setup /\ setup' = FALSE
    /\ UNCHANGED <<queue, open, live, asking, reply>>

Put(item) ==
    /\ open /\ live # {} /\ Len(queue) < Length
    /\ queue' = Append(queue, item)
    /\ UNCHANGED <<open, setup, live, asking, reply>>

Finish(p) ==
    /\ p \in live
    /\ live' = live \ {p}
    /\ UNCHANGED <<queue, open, setup, asking, reply>>

Ask ==
    /\ ~setup /\ ~asking
    /\ asking' = TRUE /\ reply' = NoItem
    /\ UNCHANGED <<queue, open, setup, live>>

Take ==
    /\ asking /\ open /\ queue # <<>>
    /\ asking' = FALSE /\ reply' = Head(queue)
    /\ queue' = Tail(queue)
    /\ UNCHANGED <<open, setup, live>>

ReportEnd ==
    /\ asking
    /\ ~open \/ (queue = <<>> /\ live = {})
    /\ asking' = FALSE /\ reply' = EndOfItems
    /\ UNCHANGED <<queue, open, setup, live>>

CloseChannel ==
    /\ ~setup /\ ~asking /\ open
    /\ open' = FALSE
    /\ UNCHANGED <<queue, setup, live, asking, reply>>

Next ==
    \/ \E p \in Producers : Add(p) \/ Finish(p)
    \/ \E item \in Items : Put(item)
    \/ StartUse \/ Ask \/ Take \/ ReportEnd \/ CloseChannel

Spec == Init /\ [][Next]_vars

=============================================================================
