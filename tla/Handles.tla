------------------------------ MODULE Handles ------------------------------
(***************************************************************************)
(* The handles of the ODBC interface, at the granularity of their locks.   *)
(*                                                                         *)
(* Each handle has a mutex (ODBCHandle.h); an entry point of odbc_entry.cc *)
(* takes the mutex of the one handle it is given, runs, and releases it.   *)
(* What the other modules make one step is here several: waiting for the   *)
(* mutex, the body, the change of a list of the parent handle, the return. *)
(* A handle is freed in two halves: the release under its mutex, and the   *)
(* removal from the list of its parent, which destroys it, after the       *)
(* mutex is released and without the mutex of the parent.                  *)
(***************************************************************************)
EXTENDS Naturals, FiniteSets

CONSTANTS
    Threads,        \* threads of the application
    Env,            \* the environment handle
    Conns, Stmts, Descs,   \* connection, statement, explicit descriptor handles
    MaxCalls,       \* bound: calls each thread makes
    NoOne           \* the holder of a mutex that is free

Handles == {Env} \cup Conns \cup Stmts \cup Descs

ASSUME HandlesAssumption ==
    /\ Env \notin Conns \cup Stmts \cup Descs
    /\ Conns \cap (Stmts \cup Descs) = {} /\ Stmts \cap Descs = {}
    /\ NoOne \notin Handles \cup Threads
    /\ MaxCalls \in Nat

VARIABLES
    exists,         \* handles constructed and not yet destroyed
    parent,         \* the connection of a statement or descriptor, the environment of a connection
    list,           \* m_connections, m_statements and m_descriptors of a handle, as one set
    mtx_,           \* the thread that holds the mutex of each handle
    pc,             \* what each thread is doing
    given,          \* handles the application holds: returned and not yet freed
    calls,          \* calls each thread has made
    registered,     \* m_registeredOnStatementsAsArd of an explicit descriptor
                    \* (AsApd is kept in the same way)
    orphaned        \* history: statements destroyed while an explicit descriptor
                    \* had them registered

descVars == <<registered, orphaned>>
vars == <<exists, parent, list, mtx_, pc, given, calls, descVars>>

Idle == [op |-> "none", on |-> NoOne, makes |-> NoOne, at |-> "idle"]

(* The operations: "alloc" is SQLAllocHandle of a connection, statement or
   descriptor on its parent; "free" is SQLFreeHandle; "describe" is SQLSetStmtAttr
   of a descriptor; "work" stands for every
   call on a statement that waits for the server (SQLExecDirect, SQLFetch,
   the catalog functions); "cancel" is SQLCancel; "diag" is SQLGetDiagRec. *)
Ops == {"alloc", "free", "disconnect", "describe", "work", "cancel", "diag"}

Init ==
    /\ exists = {Env} /\ given = {Env}
    /\ parent = [h \in Handles |-> NoOne]
    /\ list = [h \in Handles |-> {}]
    /\ mtx_ = [h \in Handles |-> NoOne]
    /\ pc = [t \in Threads |-> Idle]
    /\ calls = [t \in Threads |-> 0]
    /\ registered = [d \in Descs |-> {}] /\ orphaned = {}

Above(h) == {h, parent[h]} \cup IF parent[h] \in Handles THEN {parent[parent[h]]} ELSE {}
Below(h) == {x \in Handles : h \in Above(x)}

Uses(t, h) == pc[t].at # "idle" /\ pc[t].on = h

(* What the application promises, as ODBC asks of it: it frees a handle, or
   disconnects, when no other call uses that handle or one below it, and
   calls nothing on a handle that is being freed or disconnected. *)
Promised(op, h) ==
    /\ h \in given
    /\ op \in {"free", "disconnect"} =>
          \A t \in Threads : \A x \in Below(h) : ~Uses(t, x)
    /\ \A t \in Threads : \A x \in Above(h) :
          Uses(t, x) => pc[t].op \notin {"free", "disconnect"}

-----------------------------------------------------------------------------
(* A call begins.  SQLGetDiagRec takes no mutex. *)
Begin(t, op, h, new) ==
    /\ pc[t] = Idle /\ calls[t] < MaxCalls
    /\ Promised(op, h)
    /\ pc' = [pc EXCEPT ![t] = [op |-> op, on |-> h, makes |-> new,
                                at |-> IF op = "diag" THEN "body" ELSE "lock"]]
    /\ calls' = [calls EXCEPT ![t] = @ + 1]
    /\ given' = IF op = "free" THEN given \ Below(h)
                ELSE IF op = "disconnect" THEN given \ (Below(h) \cap Stmts)
                ELSE given
    /\ UNCHANGED <<exists, parent, list, mtx_, descVars>>

Fresh(new) == new \notin exists /\ parent[new] = NoOne
                /\ \A t \in Threads : pc[t].makes # new

CallAlloc(t) ==
    \/ \E c \in Conns : Fresh(c) /\ Begin(t, "alloc", Env, c)
    \/ \E c \in Conns, h \in Stmts \cup Descs : Fresh(h) /\ Begin(t, "alloc", c, h)
CallFree(t) ==
    \E h \in Handles \ {Env} : Begin(t, "free", h, NoOne)
CallDisconnect(t) == \E c \in Conns : Begin(t, "disconnect", c, NoOne)
CallStatement(t) ==
    \E s \in Stmts, op \in {"describe", "work", "cancel"} : Begin(t, op, s, NoOne)
CallDiag(t) == \E h \in Handles : Begin(t, "diag", h, NoOne)

(* std::lock_guard of executeWithLock. *)
LockNot(t) ==   \* mutant: SHOULD_LOCK = FALSE for an allocation
    /\ pc[t].at = "lock"
    /\ IF pc[t].op = "alloc" THEN UNCHANGED mtx_
       ELSE /\ mtx_[pc[t].on] = NoOne
            /\ mtx_' = [mtx_ EXCEPT ![pc[t].on] = t]
    /\ pc' = [pc EXCEPT ![t].at = "body"]
    /\ UNCHANGED <<exists, parent, list, given, calls, descVars>>

Lock(t) ==
    /\ pc[t].at = "lock"
    /\ mtx_[pc[t].on] = NoOne
    /\ mtx_' = [mtx_ EXCEPT ![pc[t].on] = t]
    /\ pc' = [pc EXCEPT ![t].at = "body"]
    /\ UNCHANGED <<exists, parent, list, given, calls, descVars>>

(* The end of the guard's scope.  A free goes on without the mutex. *)
UnlockTwice(t) ==   \* mutant: a release that locks the handle again
    /\ pc[t].at = "unlock"
    /\ pc[t].op = "free" => mtx_[pc[t].on] = NoOne
    /\ mtx_' = [mtx_ EXCEPT ![pc[t].on] = NoOne]
    /\ pc' = [pc EXCEPT ![t] = IF @.op = "free" THEN [@ EXCEPT !.at = "drop"] ELSE Idle]
    /\ given' = IF pc[t].op = "alloc" THEN given \cup {pc[t].makes} ELSE given
    /\ UNCHANGED <<exists, parent, list, calls, descVars>>

Unlock(t) ==
    /\ pc[t].at = "unlock"
    /\ mtx_' = [mtx_ EXCEPT ![pc[t].on] = NoOne]
    /\ pc' = [pc EXCEPT ![t] = IF @.op = "free" THEN [@ EXCEPT !.at = "drop"] ELSE Idle]
    /\ given' = IF pc[t].op = "alloc" THEN given \cup {pc[t].makes} ELSE given
    /\ UNCHANGED <<exists, parent, list, calls, descVars>>

-----------------------------------------------------------------------------
(* The bodies. *)

(* createStatement, createDescriptor, CreateConnection: the object is made,
   then push_back changes the list of the parent. *)
AllocBody(t) ==
    /\ pc[t].op = "alloc" /\ pc[t].at = "body"
    /\ exists' = exists \cup {pc[t].makes}
    /\ parent' = [parent EXCEPT ![pc[t].makes] = pc[t].on]
    /\ registered' = [d \in Descs |-> IF d = pc[t].makes THEN {} ELSE registered[d]]
    /\ pc' = [pc EXCEPT ![t].at = "edit"]
    /\ UNCHANGED <<list, mtx_, given, calls, orphaned>>

AllocEdit(t) ==
    /\ pc[t].op = "alloc" /\ pc[t].at = "edit"
    /\ list' = [list EXCEPT ![pc[t].on] = @ \cup {pc[t].makes}]
    /\ pc' = [pc EXCEPT ![t].at = "unlock"]
    /\ UNCHANGED <<exists, parent, mtx_, given, calls, descVars>>

(* Destroying a handle tells no descriptor of it. *)
Destroy(handles) ==
    /\ exists' = exists \ handles
    /\ orphaned' = orphaned \cup
          {s \in Stmts \cap handles : \E d \in Descs \cap exists' : s \in registered[d]}
    /\ UNCHANGED registered

(* releaseStatement closes the cursor; ReleaseDescriptor calls RevertAppDescriptor
   of every statement the descriptor is registered on; releaseConnection
   disconnects. *)
ReleaseBodyDrops(t) ==  \* mutant: the release also drops the object
    /\ pc[t].op \in {"free", "disconnect"} /\ pc[t].at = "body"
    /\ pc' = [pc EXCEPT ![t].at = IF pc[t].on \in Conns THEN "clear" ELSE "unlock"]
    /\ IF pc[t].on \in Conns THEN UNCHANGED <<exists, list>>
       ELSE /\ list' = [list EXCEPT ![parent[pc[t].on]] = @ \ {pc[t].on}]
            /\ exists' = exists \ {pc[t].on}
    /\ UNCHANGED <<parent, mtx_, given, calls, descVars>>

RevertsOn(t) ==
    IF pc[t].op = "free" /\ pc[t].at = "body" /\ pc[t].on \in Descs
    THEN registered[pc[t].on] ELSE {}

ReleaseBody(t) ==
    /\ pc[t].op \in {"free", "disconnect"} /\ pc[t].at = "body"
    /\ pc' = [pc EXCEPT ![t].at = IF pc[t].on \in Conns THEN "clear" ELSE "unlock"]
    /\ UNCHANGED <<exists, parent, list, mtx_, given, calls, descVars>>

(* disconnect: m_statements.clear() destroys every statement. *)
DisconnectClear(t) ==
    /\ pc[t].at = "clear"
    /\ Destroy(list[pc[t].on] \cap Stmts)
    /\ list' = [list EXCEPT ![pc[t].on] = @ \ Stmts]
    /\ pc' = [pc EXCEPT ![t].at = "unlock"]
    /\ UNCHANGED <<parent, mtx_, given, calls>>

(* SQLSetStmtAttr(SQL_ATTR_APP_ROW_DESC) of an explicit descriptor of the
   connection, or of the statement's own (NoOne): DetachFromStatement, then
   RegisterToStatement. *)
DescribeBody(t) ==
    /\ pc[t].op = "describe" /\ pc[t].at = "body"
    /\ \E chosen \in {NoOne} \cup {d \in Descs \cap given : parent[d] = parent[pc[t].on]} :
          registered' = [d \in Descs |->
              IF d = chosen THEN registered[d] \cup {pc[t].on} ELSE registered[d] \ {pc[t].on}]
    /\ pc' = [pc EXCEPT ![t].at = "unlock"]
    /\ UNCHANGED <<exists, parent, list, mtx_, given, calls, orphaned>>

WorkBody(t) ==
    /\ pc[t].op = "work" /\ pc[t].at = "body"
    /\ pc' = [pc EXCEPT ![t].at = "server"]
    /\ UNCHANGED <<exists, parent, list, mtx_, given, calls, descVars>>

(* The server answers a call. *)
Answer(t) ==
    /\ pc[t].at = "server"
    /\ pc' = [pc EXCEPT ![t].at = "unlock"]
    /\ UNCHANGED <<exists, parent, list, mtx_, given, calls, descVars>>

(* The Cancel of the statement: every call of it that waits is answered. *)
CancelBody(t) ==
    /\ pc[t].op = "cancel" /\ pc[t].at = "body"
    /\ pc' = [u \in Threads |->
                IF u = t \/ (pc[u].at = "server" /\ pc[u].on = pc[t].on)
                THEN [pc[u] EXCEPT !.at = "unlock"] ELSE pc[u]]
    /\ UNCHANGED <<exists, parent, list, mtx_, given, calls, descVars>>

DiagBody(t) ==
    /\ pc[t].op = "diag" /\ pc[t].at = "body"
    /\ pc' = [pc EXCEPT ![t] = Idle]
    /\ UNCHANGED <<exists, parent, list, mtx_, given, calls, descVars>>

-----------------------------------------------------------------------------
(* dropStatement, dropDescriptor, DropConnection, with no mutex held: find_if
   looks the object up, erase changes the list and, since the list holds the
   last reference, destroys the object and all that is below it. *)
DropFind(t) ==
    /\ pc[t].at = "drop"
    /\ pc' = [pc EXCEPT ![t] = IF pc[t].on \in list[parent[pc[t].on]]
                               THEN [@ EXCEPT !.at = "edit"] ELSE Idle]
    /\ UNCHANGED <<exists, parent, list, mtx_, given, calls, descVars>>

DropErase(t) ==
    /\ pc[t].op = "free" /\ pc[t].at = "edit"
    /\ list' = [h \in Handles |->
                  IF h \in Below(pc[t].on) THEN {} ELSE list[h] \ {pc[t].on}]
    /\ Destroy(Below(pc[t].on))
    /\ pc' = [pc EXCEPT ![t] = Idle]
    /\ UNCHANGED <<parent, mtx_, given, calls>>

(* SQLFreeHandle of the environment: delete, with no mutex.  The driver
   manager lets it through when no connection is left. *)
FreeEnv(t) ==
    /\ pc[t] = Idle /\ calls[t] < MaxCalls
    /\ Promised("free", Env) /\ list[Env] = {}
    /\ exists' = exists \ {Env} /\ given' = given \ {Env}
    /\ calls' = [calls EXCEPT ![t] = @ + 1]
    /\ UNCHANGED <<parent, list, mtx_, pc, descVars>>

Step(t) ==
    \/ Lock(t) \/ Unlock(t) \/ AllocBody(t) \/ AllocEdit(t) \/ ReleaseBody(t)
    \/ DisconnectClear(t) \/ DescribeBody(t) \/ WorkBody(t) \/ CancelBody(t) \/ DiagBody(t)
    \/ DropFind(t) \/ DropErase(t)

Next == \E t \in Threads :
    \/ CallAlloc(t) \/ CallFree(t) \/ CallDisconnect(t)
    \/ CallStatement(t) \/ CallDiag(t) \/ FreeEnv(t)
    \/ Answer(t) \/ Step(t)

(* A thread inside the driver goes on: nothing but its mutex and the server
   holds it up.  The server need not answer. *)
Spec == Init /\ [][Next]_vars /\ \A t \in Threads : WF_vars(Step(t))
ServerAnswers == \A t \in Threads : WF_vars(Answer(t))
AnsweredSpec == Spec /\ ServerAnswers

-----------------------------------------------------------------------------
Places == {"idle", "lock", "body", "edit", "clear", "server", "unlock", "drop"}

(* Types of the variables, and who holds a mutex: the thread whose call is
   between the two ends of the guard's scope. *)
TypeOK ==
    /\ exists \subseteq Handles /\ given \subseteq Handles
    /\ parent \in [Handles -> {Env, NoOne} \cup Conns]
    /\ list \in [Handles -> SUBSET Handles]
    /\ mtx_ \in [Handles -> Threads \cup {NoOne}]
    /\ pc \in [Threads -> [op : Ops \cup {"none"}, on : Handles \cup {NoOne},
                           makes : Handles \cup {NoOne}, at : Places]]
    /\ calls \in [Threads -> 0..MaxCalls]
    /\ registered \in [Descs -> SUBSET Stmts] /\ orphaned \subseteq Stmts

(* What the next step of a thread reads or writes: the handle of its call and,
   while it removes that handle from a list, the handle that has the list. *)
Touches(t) ==
    IF pc[t].at = "idle" THEN {}
    ELSE IF pc[t].op = "free" /\ pc[t].at \in {"drop", "edit"}
         THEN {pc[t].on, parent[pc[t].on]}
    ELSE {pc[t].on}

(* No call uses a handle that is destroyed: not to wait for its mutex, not to
   release it, not to record diagnostics, not to change its lists.  (The
   comment at odbc_entry.cc:250: dropping the statement inside
   executeWithLock would use its mutex and diagnostics after its end.)  Nor
   does the release of a descriptor reach a destroyed statement, except one
   that was destroyed with an explicit descriptor still set on it. *)
NoUseAfterFree ==
    \A t \in Threads : Touches(t) \subseteq exists
                      /\ RevertsOn(t) \subseteq exists \cup orphaned

(* Without the exception. *)
NoStatementRevertedAfterItsEnd == \A t \in Threads : RevertsOn(t) \subseteq exists

(* A list never holds a destroyed handle, and a handle that exists is in the
   list of its parent, or is just being put there. *)
ListsHoldWhatExists ==
    \A h \in Handles \ {Env} :
       h \in exists <=> \/ \E p \in Handles : h \in list[p]
                        \/ \E t \in Threads : pc[t].makes = h /\ pc[t].at = "edit"

(* The list a thread is changing. *)
Edits(t) ==
    CASE pc[t].op = "alloc" /\ pc[t].at = "edit" -> {pc[t].on}
      [] pc[t].op = "free"  /\ pc[t].at = "edit" -> {parent[pc[t].on]}
      [] pc[t].at = "clear" -> {pc[t].on}
      [] OTHER -> {}

(* Two threads change the lists of one handle at once only where one of them
   drops a handle, which it does without the mutex of the parent; two
   allocations, or an allocation and a disconnect, never overlap. *)
OnlyDropsRace ==
    \A t, u \in Threads :
       t # u /\ Edits(t) \cap Edits(u) # {} => "free" \in {pc[t].op, pc[u].op}

(* Every call returns when the server answers the calls that wait for it: the
   mutexes are never taken in a circle, nor twice by one thread. *)
CallsReturn == \A t \in Threads : pc[t].at # "idle" ~> pc[t].at = "idle"

(* CHANGELOG.md:16, "Server-side query cancellation via CancelFlightInfo RPC on
   SQLCancel": a SQLCancel from another thread ends the call that waits for
   the server, whether the server answers that call by itself or not. *)
CancelEndsTheCall ==
    \A t, u \in Threads :
       (pc[t].op = "cancel" /\ pc[u].at = "server" /\ pc[t].on = pc[u].on)
          ~> pc[u].at # "server"
=============================================================================
