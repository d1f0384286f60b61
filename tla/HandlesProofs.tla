---------------------------- MODULE HandlesProofs ----------------------------
(***************************************************************************)
(* Proofs about Handles for any threads, any connections, statements and   *)
(* descriptors, and any number of calls: no call uses a handle that is     *)
(* destroyed, and two threads change the same list only if one of them     *)
(* drops a handle.  Then about the Diagnostics that every handle has, for  *)
(* any texts, any buffers and any number of calls.                         *)
(***************************************************************************)
EXTENDS Handles, Diagnostics, TLAPS

(* Where a call may be, by what it does. *)
Stages ==
    \A t \in Threads :
       /\ pc[t].at = "idle" => pc[t] = Idle
       /\ pc[t].at # "idle" => pc[t].op \in Ops /\ pc[t].on \in Handles
       /\ pc[t].at \in {"lock", "unlock"} => pc[t].op # "diag"
       /\ pc[t].at = "edit" => pc[t].op \in {"alloc", "free"}
       /\ pc[t].at = "drop" => pc[t].op = "free"
       /\ pc[t].at = "clear" => pc[t].op \in {"free", "disconnect"} /\ pc[t].on \in Conns
       /\ pc[t].at = "server" => pc[t].op = "work"
       /\ pc[t].op = "free" => pc[t].on # Env
       /\ pc[t].op = "disconnect" => pc[t].on \in Conns
       /\ pc[t].op = "describe" => pc[t].on \in Stmts
       /\ pc[t].op # "alloc" => pc[t].makes = NoOne

(* A call that is between the two ends of the guard's scope has the mutex. *)
Guarded(t) ==
    \/ pc[t].at \in {"clear", "server", "unlock"}
    \/ pc[t].at = "body" /\ pc[t].op # "diag"
    \/ pc[t].at = "edit" /\ pc[t].op = "alloc"
HoldsMutex == \A t \in Threads : Guarded(t) => mtx_[pc[t].on] = t

(* The tree of handles: the environment, its connections, their statements and
   descriptors.  A handle has no parent before it is made and never another. *)
Levels ==
    /\ parent[Env] = NoOne
    /\ \A c \in Conns : parent[c] \in {NoOne, Env}
    /\ \A h \in Stmts \cup Descs : parent[h] = NoOne
                                   \/ (parent[h] \in Conns /\ parent[parent[h]] = Env)

(* Lists hold handles that exist, under their parent; what exists, and has a
   parent that exists, is in its list or about to be. *)
Listed == \A h \in Handles : \A x \in list[h] : x \in exists /\ parent[x] = h
Rooted ==
    \A x \in exists \ {Env} :
       /\ parent[x] \in exists
       /\ x \in list[parent[x]] \/ \E t \in Threads : pc[t].makes = x /\ pc[t].at = "edit"

(* What the application holds exists; so does what a call is on, and it is held
   unless the call frees it. *)
InUse ==
    /\ given \subseteq exists
    /\ \A t \in Threads : pc[t].at # "idle" =>
          pc[t].on \in exists /\ (pc[t].op # "free" => pc[t].on \in given)

(* A handle being allocated is nobody else's yet. *)
Making(t) ==
    /\ \/ pc[t].on = Env /\ pc[t].makes \in Conns
       \/ pc[t].on \in Conns /\ pc[t].makes \in Stmts \cup Descs
    /\ pc[t].makes \notin given
    /\ pc[t].at \in {"lock", "body"} => pc[t].makes \notin exists /\ parent[pc[t].makes] = NoOne
    /\ pc[t].at \in {"edit", "unlock"} => pc[t].makes \in exists /\ parent[pc[t].makes] = pc[t].on
    /\ pc[t].at \in {"lock", "body", "edit", "unlock"}
    /\ \A u \in Threads : pc[u].on # pc[t].makes /\ (u # t => pc[u].makes # pc[t].makes)
Allocating == \A t \in Threads : pc[t].op = "alloc" => Making(t)

(* While a handle is freed or disconnected, no other call is on it or below it,
   and the application holds nothing that is about to be destroyed. *)
Ends(t) == pc[t].op \in {"free", "disconnect"}
Exclusive ==
    \A t, u \in Threads : t # u /\ Ends(t) /\ pc[u].at # "idle" => pc[u].on \notin Below(pc[t].on)
Retired ==
    \A t \in Threads :
       /\ pc[t].op = "free" => given \cap Below(pc[t].on) = {}
       /\ pc[t].op = "disconnect" => given \cap Below(pc[t].on) \cap Stmts = {}

(* A descriptor is registered on statements that exist, and on those that were
   destroyed with it. *)
Registrations == \A d \in Descs \cap exists : registered[d] \subseteq exists \cup orphaned

Inv == /\ TypeOK /\ Stages /\ HoldsMutex /\ Levels /\ Listed /\ Rooted
       /\ InUse /\ Allocating /\ Exclusive /\ Retired /\ Registrations

USE DEF descVars

-----------------------------------------------------------------------------
(* The tree of handles. *)
LEMMA Apart ==
  /\ Env \in Handles /\ Conns \subseteq Handles /\ Stmts \subseteq Handles
  /\ Descs \subseteq Handles /\ NoOne \notin Handles
  /\ \A h \in Handles : h = Env \/ h \in Conns \/ h \in Stmts \cup Descs
  /\ \A c \in Conns : c # Env /\ c \notin Stmts \cup Descs
  /\ \A h \in Stmts \cup Descs : h # Env /\ h \notin Conns
  BY HandlesAssumption DEF Handles

(* What is above a handle. *)
LEMMA AboveWhat ==
  ASSUME Levels, NEW x \in Handles, NEW h \in Handles
  PROVE  h \in Above(x) <=> h = x \/ h = parent[x]
                            \/ (parent[x] \in Handles /\ h = parent[parent[x]])
  BY Apart DEF Above

LEMMA BelowWhat ==
  ASSUME NEW x, NEW h
  PROVE  x \in Below(h) <=> x \in Handles /\ h \in Above(x)
  BY DEF Below

(* What is below a handle's parent's handle is below it: the tree is closed. *)
LEMMA BelowParent ==
  ASSUME Levels, NEW x \in Handles, NEW h \in Handles, parent[x] \in Handles,
         parent[x] \in Below(h)
  PROVE  x \in Below(h)
  <1>1. CASE h = parent[x] \/ h = parent[parent[x]]
    BY <1>1, AboveWhat, BelowWhat
  <1>2. CASE parent[parent[x]] \in Handles /\ h = parent[parent[parent[x]]]
    <2>1. parent[x] = Env \/ parent[parent[x]] = Env
      BY Apart DEF Levels
    <2>2. parent[Env] = NoOne
      BY DEF Levels
    <2> QED BY <1>2, <2>1, <2>2, Apart
  <1> QED BY <1>1, <1>2, AboveWhat, BelowWhat

LEMMA BelowChild ==
  ASSUME Levels, NEW x \in Handles, NEW h \in Handles, x \in Below(h), x # h
  PROVE  parent[x] \in Handles /\ parent[x] \in Below(h)
  <1>1. h = parent[x] \/ (parent[x] \in Handles /\ h = parent[parent[x]])
    BY AboveWhat, BelowWhat
  <1>2. parent[x] \in Handles
    BY <1>1
  <1> QED BY <1>1, <1>2, AboveWhat, BelowWhat

LEMMA BelowSelf == ASSUME NEW h \in Handles PROVE h \in Below(h)
  BY DEF Below, Above

LEMMA NothingAboveEnv ==
  ASSUME Levels, NEW h \in Handles, Env \in Below(h)
  PROVE  h = Env
  BY Apart, BelowChild DEF Levels

-----------------------------------------------------------------------------
(* A thread goes to another place in its call, or leaves it. *)
Frames == [op : Ops \cup {"none"}, on : Handles \cup {NoOne},
           makes : Handles \cup {NoOne}, at : Places]

SameCall(new, old) == new.op = old.op /\ new.on = old.on /\ new.makes = old.makes

Goes(t, at) ==
    /\ pc' \in [Threads -> Frames]
    /\ SameCall(pc'[t], pc[t]) /\ pc'[t].at = at
    /\ \A u \in Threads \ {t} : pc'[u] = pc[u]
Returns(t) ==
    /\ pc' \in [Threads -> Frames]
    /\ pc'[t] = Idle /\ \A u \in Threads \ {t} : pc'[u] = pc[u]

LEMMA Typed ==
  ASSUME TypeOK
  PROVE  /\ pc \in [Threads -> Frames] /\ \A t \in Threads : pc[t] \in Frames
         /\ mtx_ \in [Handles -> Threads \cup {NoOne}]
         /\ list \in [Handles -> SUBSET Handles]
         /\ parent \in [Handles -> {Env, NoOne} \cup Conns]
         /\ exists \subseteq Handles /\ given \subseteq Handles
         /\ registered \in [Descs -> SUBSET Stmts] /\ orphaned \subseteq Stmts
  BY DEF TypeOK, Frames

LEMMA GoesTo ==
  ASSUME TypeOK, NEW t \in Threads, NEW at \in Places, pc' = [pc EXCEPT ![t].at = at]
  PROVE  Goes(t, at)
  BY Typed DEF Goes, SameCall, Frames

LEMMA IdleFrame ==
  /\ Idle \in Frames /\ Idle.op = "none" /\ Idle.on = NoOne /\ Idle.makes = NoOne
  /\ Idle.at = "idle"
  BY DEF Idle, Frames, Places

LEMMA ReturnsTo ==
  ASSUME TypeOK, NEW t \in Threads, pc' = [pc EXCEPT ![t] = Idle]
  PROVE  Returns(t)
  BY Typed, IdleFrame DEF Returns

-----------------------------------------------------------------------------
(* Steps that leave the handles alone: every call keeps its place with respect
   to what it makes, or a call that makes nothing returns. *)
Quiet == UNCHANGED <<exists, parent, list, given>>
Keeps(u) ==
    \/ pc'[u] = pc[u]
    \/ pc'[u] = Idle /\ pc[u].op # "alloc"
    \/ /\ SameCall(pc'[u], pc[u]) /\ pc[u].at # "idle" /\ pc'[u].at # "idle"
       /\ pc[u].op = "alloc" => {pc[u].at, pc'[u].at} \subseteq {"lock", "body"}

LEMMA Kept ==
  ASSUME Inv, Quiet, \A u \in Threads : Keeps(u)
  PROVE  Levels' /\ Listed' /\ Rooted' /\ InUse' /\ Allocating' /\ Exclusive' /\ Retired'
  <1> USE DEF Quiet
  <1>0. \A h : Below(h)' = Below(h)
    BY DEF Below, Above
  <1>1. Levels' /\ Listed'
    BY DEF Inv, Levels, Listed
  <1>2. \A u \in Threads : /\ pc'[u].at # "idle" => pc[u].at # "idle" /\ SameCall(pc'[u], pc[u])
                           /\ pc'[u].op # "none" => SameCall(pc'[u], pc[u])
                           /\ pc'[u].op = "none" => pc'[u] = pc[u] \/ pc'[u] = Idle
    BY IdleFrame DEF Keeps, SameCall, Inv, Stages, Ops
  <1>3. Rooted'
    <2>1. \A x \in Handles, t \in Threads : pc[t].makes = x /\ pc[t].at = "edit" =>
              pc'[t].makes = x /\ pc'[t].at = "edit"
      BY Apart DEF Keeps, Inv, Stages
    <2> QED BY <2>1, Typed DEF Inv, Rooted
  <1>4. InUse'
    BY <1>2 DEF Inv, InUse, SameCall
  <1>5. Allocating'
    <2> SUFFICES ASSUME NEW t \in Threads, pc'[t].op = "alloc"
                 PROVE  Making(t)'
      BY DEF Allocating
    <2>1. SameCall(pc'[t], pc[t]) /\ pc[t].op = "alloc"
      BY <1>2 DEF SameCall
    <2>2. \A u \in Threads : /\ pc'[u].on = pc[u].on \/ pc'[u].on = NoOne
                             /\ pc'[u].makes = pc[u].makes \/ pc'[u].makes = NoOne
      BY IdleFrame DEF Keeps, SameCall
    <2>3. pc'[t].at = pc[t].at \/ {pc[t].at, pc'[t].at} \subseteq {"lock", "body"}
      BY <2>1, IdleFrame DEF Keeps, SameCall
    <2>4. pc[t].makes # NoOne
      BY <2>1, Apart DEF Inv, Allocating, Making
    <2> QED BY <2>1, <2>2, <2>3, <2>4 DEF SameCall, Inv, Allocating, Making
  <1>6. Exclusive'
    BY <1>0, <1>2 DEF Inv, Exclusive, Ends, SameCall
  <1>7. Retired'
    BY <1>0, <1>2 DEF Inv, Retired, SameCall
  <1> QED BY <1>1, <1>3, <1>4, <1>5, <1>6, <1>7

LEMMA KeepsInv ==
  ASSUME Inv, Quiet, \A u \in Threads : Keeps(u), TypeOK', Stages', HoldsMutex',
         UNCHANGED descVars \/ Registrations'
  PROVE  Inv'
  <1>1. Registrations'
    BY DEF Inv, Quiet, Registrations
  <1> QED BY <1>1, Kept DEF Inv

LEMMA InvLock ==
  ASSUME Inv, NEW t \in Threads, Lock(t)
  PROVE  Inv'
  <1> USE DEF Lock
  <1>1. Goes(t, "body")
    BY GoesTo DEF Inv, Places
  <1>2. pc[t].op # "diag" /\ pc[t].on \in Handles
    BY DEF Inv, Stages
  <1>3. TypeOK'
    BY <1>1, <1>2 DEF Inv, TypeOK, Goes, Frames
  <1>4. Stages'
    BY <1>1, <1>2 DEF Inv, Stages, Goes, SameCall
  <1>5. HoldsMutex'
    <2> SUFFICES ASSUME NEW u \in Threads, Guarded(u)' PROVE (mtx_[pc[u].on] = u)'
      BY DEF HoldsMutex
    <2>1. CASE u = t
      BY <2>1, <1>1, <1>2, Typed DEF Inv, Goes, SameCall
    <2>2. CASE u # t
      <3>1. pc'[u] = pc[u] /\ Guarded(u)
        BY <2>2, <1>1 DEF Goes, Guarded
      <3>2. mtx_[pc[u].on] = u /\ mtx_[pc[t].on] # u
        BY <3>1, HandlesAssumption DEF Inv, HoldsMutex
      <3> QED BY <3>1, <3>2, <1>2, Typed DEF Inv
    <2> QED BY <2>1, <2>2
  <1>6. Quiet /\ \A u \in Threads : Keeps(u)
    BY <1>1 DEF Quiet, Keeps, Goes
  <1> QED BY <1>3, <1>4, <1>5, <1>6, KeepsInv

(* The mutexes when a thread stays inside the guard's scope, or is outside. *)
LEMMA MutexKept ==
  ASSUME Inv, mtx_' = mtx_,
         \A u \in Threads : Guarded(u)' => pc'[u] = pc[u] \/ (Guarded(u) /\ pc'[u].on = pc[u].on)
  PROVE  HoldsMutex'
  <1> SUFFICES ASSUME NEW u \in Threads, Guarded(u)' PROVE (mtx_[pc[u].on] = u)'
    BY DEF HoldsMutex
  <1>1. Guarded(u) /\ pc'[u].on = pc[u].on
    BY DEF Guarded
  <1> QED BY <1>1 DEF Inv, HoldsMutex

LEMMA InvReleaseBody ==
  ASSUME Inv, NEW t \in Threads, ReleaseBody(t)
  PROVE  Inv'
  <1> USE DEF ReleaseBody
  <1> DEFINE at == IF pc[t].on \in Conns THEN "clear" ELSE "unlock"
  <1>0. at \in {"clear", "unlock"} /\ (at = "clear" => pc[t].on \in Conns)
    OBVIOUS
  <1>00. pc' = [pc EXCEPT ![t].at = at]
    OBVIOUS
  <1> HIDE DEF at
  <1>1. Goes(t, at)
    BY <1>0, <1>00, GoesTo DEF Inv, Places
  <1>3. TypeOK'
    BY <1>1 DEF Inv, TypeOK, Goes, Frames
  <1>4. Stages'
    BY <1>0, <1>1 DEF Inv, Stages, Goes, SameCall
  <1>5. HoldsMutex'
    BY <1>1, MutexKept DEF Guarded, Goes, SameCall
  <1>6. Quiet /\ \A u \in Threads : Keeps(u)
    BY <1>0, <1>1 DEF Quiet, Keeps, Goes
  <1> QED BY <1>3, <1>4, <1>5, <1>6, KeepsInv

LEMMA InvDescribeBody ==
  ASSUME Inv, NEW t \in Threads, DescribeBody(t)
  PROVE  Inv'
  <1> DEFINE s == pc[t].on
  <1>0. /\ pc[t].op = "describe" /\ pc[t].at = "body"
        /\ UNCHANGED <<exists, parent, list, mtx_, given, calls, orphaned>>
    BY DEF DescribeBody
  <1>1. Goes(t, "unlock")
    BY GoesTo DEF DescribeBody, Inv, Places
  <1>2. s \in Stmts /\ s \in exists
    BY <1>0 DEF Inv, Stages, InUse
  <1>3. PICK chosen : registered' = [d \in Descs |->
              IF d = chosen THEN registered[d] \cup {s} ELSE registered[d] \ {s}]
    BY DEF DescribeBody
  <1> HIDE DEF s
  <1>4. registered' \in [Descs -> SUBSET Stmts]
    BY <1>2, <1>3, Typed DEF Inv
  <1>5. TypeOK'
    BY <1>0, <1>1, <1>4 DEF Inv, TypeOK, Goes, Frames
  <1>6. Registrations'
    BY <1>0, <1>2, <1>3 DEF Inv, Registrations
  <1>7. Stages'
    BY <1>0, <1>1 DEF Inv, Stages, Goes, SameCall
  <1>8. HoldsMutex'
    BY <1>0, <1>1, MutexKept DEF Guarded, Goes, SameCall
  <1>9. Quiet /\ \A u \in Threads : Keeps(u)
    BY <1>0, <1>1 DEF Quiet, Keeps, Goes
  <1> QED BY <1>5, <1>6, <1>7, <1>8, <1>9, KeepsInv

LEMMA InvWorkBody ==
  ASSUME Inv, NEW t \in Threads, WorkBody(t)
  PROVE  Inv'
  <1> USE DEF WorkBody
  <1>1. Goes(t, "server")
    BY GoesTo DEF Inv, Places
  <1>3. TypeOK'
    BY <1>1 DEF Inv, TypeOK, Goes, Frames
  <1>4. Stages'
    BY <1>1 DEF Inv, Stages, Goes, SameCall
  <1>5. HoldsMutex'
    BY <1>1, MutexKept DEF Guarded, Goes, SameCall
  <1>6. Quiet /\ \A u \in Threads : Keeps(u)
    BY <1>1 DEF Quiet, Keeps, Goes
  <1> QED BY <1>3, <1>4, <1>5, <1>6, KeepsInv

LEMMA InvAnswer ==
  ASSUME Inv, NEW t \in Threads, Answer(t)
  PROVE  Inv'
  <1> USE DEF Answer
  <1>1. Goes(t, "unlock")
    BY GoesTo DEF Inv, Places
  <1>2. pc[t].op = "work"
    BY DEF Inv, Stages
  <1>3. TypeOK'
    BY <1>1 DEF Inv, TypeOK, Goes, Frames
  <1>4. Stages'
    BY <1>1, <1>2 DEF Inv, Stages, Goes, SameCall
  <1>5. HoldsMutex'
    BY <1>1, MutexKept DEF Guarded, Goes, SameCall
  <1>6. Quiet /\ \A u \in Threads : Keeps(u)
    BY <1>1, <1>2 DEF Quiet, Keeps, Goes
  <1> QED BY <1>3, <1>4, <1>5, <1>6, KeepsInv

LEMMA InvDiagBody ==
  ASSUME Inv, NEW t \in Threads, DiagBody(t)
  PROVE  Inv'
  <1> USE DEF DiagBody
  <1>1. Returns(t)
    BY ReturnsTo DEF Inv
  <1>3. TypeOK'
    BY <1>1 DEF Inv, TypeOK, Returns, Frames
  <1>4. Stages'
    BY <1>1, IdleFrame DEF Inv, Stages, Returns
  <1>5. HoldsMutex'
    BY <1>1, MutexKept, IdleFrame DEF Guarded, Returns
  <1>6. Quiet /\ \A u \in Threads : Keeps(u)
    BY <1>1 DEF Quiet, Keeps, Returns
  <1> QED BY <1>3, <1>4, <1>5, <1>6, KeepsInv

LEMMA InvDropFind ==
  ASSUME Inv, NEW t \in Threads, DropFind(t)
  PROVE  Inv'
  <1> USE DEF DropFind
  <1>0. pc[t].op = "free"
    BY DEF Inv, Stages
  <1>1. Goes(t, "edit") \/ Returns(t)
    <2>1. pc' = [pc EXCEPT ![t].at = "edit"] \/ pc' = [pc EXCEPT ![t] = Idle]
      OBVIOUS
    <2> QED BY <2>1, GoesTo, ReturnsTo DEF Inv, Places
  <1>3. TypeOK'
    BY <1>1 DEF Inv, TypeOK, Goes, Returns, Frames
  <1>4. Stages'
    BY <1>0, <1>1, IdleFrame DEF Inv, Stages, Goes, Returns, SameCall
  <1>5. HoldsMutex'
    BY <1>0, <1>1, MutexKept, IdleFrame DEF Guarded, Goes, Returns, SameCall
  <1>6. Quiet /\ \A u \in Threads : Keeps(u)
    BY <1>0, <1>1 DEF Quiet, Keeps, Goes, Returns
  <1> QED BY <1>3, <1>4, <1>5, <1>6, KeepsInv

LEMMA InvCancelBody ==
  ASSUME Inv, NEW t \in Threads, CancelBody(t)
  PROVE  Inv'
  <1> USE DEF CancelBody
  <1>0. pc[t].op = "cancel" /\ Quiet /\ UNCHANGED <<mtx_, calls, descVars>>
    BY DEF Quiet
  <1>1. \A u \in Threads :
           \/ pc'[u] = pc[u]
           \/ /\ SameCall(pc'[u], pc[u]) /\ pc'[u].at = "unlock" /\ pc'[u] \in Frames
              /\ pc[u].op \in {"cancel", "work"}
              /\ pc[u].at \in {"body", "server"}
    <2> SUFFICES ASSUME NEW u \in Threads, pc'[u] # pc[u]
                 PROVE  /\ SameCall(pc'[u], pc[u]) /\ pc'[u].at = "unlock" /\ pc'[u] \in Frames
                        /\ pc[u].op \in {"cancel", "work"}
                        /\ pc[u].at \in {"body", "server"}
      OBVIOUS
    <2>1. pc'[u] = [pc[u] EXCEPT !.at = "unlock"] /\ pc[u] \in Frames
      BY Typed DEF Inv
    <2>2. pc[u].op \in {"cancel", "work"} /\ pc[u].at \in {"body", "server"}
      BY <1>0 DEF Inv, Stages
    <2> QED BY <2>1, <2>2 DEF SameCall, Frames, Places
  <1>2. pc' \in [Threads -> Frames]
    <2>1. \A u \in Threads : pc'[u] \in Frames
      BY <1>1, Typed DEF Inv
    <2> QED BY <2>1
  <1> HIDE DEF CancelBody
  <1>3. TypeOK'
    BY <1>0, <1>2, CancelBody(t) DEF Inv, TypeOK, Frames, CancelBody
  <1>4. Stages'
    BY <1>1 DEF Inv, Stages, SameCall
  <1>5. HoldsMutex'
    BY <1>0, <1>1, MutexKept DEF Guarded, SameCall
  <1>6. \A u \in Threads : Keeps(u)
    BY <1>1 DEF Keeps
  <1> QED BY <1>0, <1>3, <1>4, <1>5, <1>6, KeepsInv

-----------------------------------------------------------------------------
(* The beginning of a call, and what an entry point passes to it. *)
Entry(op, h, new) ==
    /\ op \in Ops /\ h \in Handles
    /\ op = "alloc" => /\ Fresh(new)
                       /\ (h = Env /\ new \in Conns) \/ (h \in Conns /\ new \in Stmts \cup Descs)
    /\ op # "alloc" => new = NoOne
    /\ op = "free" => h # Env
    /\ op = "disconnect" => h \in Conns
    /\ op = "describe" => h \in Stmts

Enters(t, op, h, new) ==
    /\ pc' \in [Threads -> Frames]
    /\ pc'[t].op = op /\ pc'[t].on = h /\ pc'[t].makes = new
    /\ pc'[t].at = IF op = "diag" THEN "body" ELSE "lock"
    /\ \A u \in Threads \ {t} : pc'[u] = pc[u]

LEMMA InvBegin ==
  ASSUME Inv, NEW t \in Threads, NEW op, NEW h, NEW new, Entry(op, h, new),
         Begin(t, op, h, new)
  PROVE  Inv'
  <1>1. pc[t] = Idle /\ Promised(op, h) /\ UNCHANGED <<exists, parent, list, mtx_, descVars>>
    BY DEF Begin
  <1>2. new \in Handles \cup {NoOne} /\ op \in Ops /\ h \in Handles
    BY Apart DEF Entry
  <1>3. Enters(t, op, h, new)
    <2> DEFINE f == [op |-> op, on |-> h, makes |-> new,
                     at |-> IF op = "diag" THEN "body" ELSE "lock"]
    <2>1. f \in Frames /\ f.op = op /\ f.on = h /\ f.makes = new
          /\ f.at = IF op = "diag" THEN "body" ELSE "lock"
      BY <1>2 DEF Frames, Places
    <2>2. pc' = [pc EXCEPT ![t] = f]
      BY DEF Begin
    <2> HIDE DEF f
    <2> QED BY <2>1, <2>2, Typed DEF Inv, Enters
  <1>4. /\ given' \subseteq given
        /\ op = "free" => given' = given \ Below(h)
        /\ op = "disconnect" => given' = given \ (Below(h) \cap Stmts)
        /\ op \notin {"free", "disconnect"} => given' = given
    BY DEF Begin
  <1>5. calls' \in [Threads -> 0..MaxCalls]
    BY HandlesAssumption DEF Begin, Inv, TypeOK
  <1>6. \A x : Below(x)' = Below(x)
    BY <1>1 DEF Below, Above
  <1>7. TypeOK'
    BY <1>1, <1>3, <1>4, <1>5 DEF Inv, TypeOK, Enters, Frames
  <1>8. Stages'
    <2> SUFFICES ASSUME NEW u \in Threads
                 PROVE  /\ pc'[u].at = "idle" => pc'[u] = Idle
                        /\ pc'[u].at # "idle" => pc'[u].op \in Ops /\ pc'[u].on \in Handles
                        /\ pc'[u].at \in {"lock", "unlock"} => pc'[u].op # "diag"
                        /\ pc'[u].at = "edit" => pc'[u].op \in {"alloc", "free"}
                        /\ pc'[u].at = "drop" => pc'[u].op = "free"
                        /\ pc'[u].at = "clear" => pc'[u].op \in {"free", "disconnect"}
                                                  /\ pc'[u].on \in Conns
                        /\ pc'[u].at = "server" => pc'[u].op = "work"
                        /\ pc'[u].op = "free" => pc'[u].on # Env
                        /\ pc'[u].op = "disconnect" => pc'[u].on \in Conns
                        /\ pc'[u].op = "describe" => pc'[u].on \in Stmts
                        /\ pc'[u].op # "alloc" => pc'[u].makes = NoOne
      BY DEF Stages
    <2>1. CASE u = t
      BY <2>1, <1>2, <1>3 DEF Enters, Entry
    <2>2. CASE u # t
      BY <2>2, <1>3 DEF Enters, Inv, Stages
    <2> QED BY <2>1, <2>2
  <1>9. HoldsMutex'
    BY <1>1, <1>3, MutexKept DEF Enters, Guarded
  <1>10. Levels' /\ Listed'
    BY <1>1 DEF Inv, Levels, Listed
  <1>11. Rooted'
    <2>1. \A x : \A u \in Threads : pc[u].makes = x /\ pc[u].at = "edit" =>
              pc'[u].makes = x /\ pc'[u].at = "edit"
      BY <1>1, <1>3, IdleFrame DEF Enters
    <2> QED BY <1>1, <2>1 DEF Inv, Rooted
  <1>12. InUse'
    <2>1. h \in given /\ given \subseteq exists
      BY <1>1 DEF Promised, Inv, InUse
    <2>2. op # "free" => h \in given'
      BY <1>4, <2>1, Apart DEF Entry
    <2>3. ASSUME NEW u \in Threads \ {t}, pc[u].at # "idle"
          PROVE  pc[u].on \in exists /\ (pc[u].op # "free" => pc[u].on \in given')
      <3>1. pc[u].on \in exists /\ (pc[u].op # "free" => pc[u].on \in given)
        BY <2>3 DEF Inv, InUse
      <3>2. op \in {"free", "disconnect"} => pc[u].on \notin Below(h)
        BY <1>1, <2>3 DEF Promised, Uses
      <3> QED BY <3>1, <3>2, <1>4, <1>2 DEF Ops
    <2> QED BY <2>1, <2>2, <2>3, <1>1, <1>3, <1>4 DEF InUse, Enters
  <1>13. Allocating'
    <2> SUFFICES ASSUME NEW u \in Threads, pc'[u].op = "alloc"
                 PROVE  Making(u)'
      BY DEF Allocating
    <2>1. CASE u = t
      <3>1. op = "alloc" /\ Fresh(new) /\ new \notin given /\ new \in Handles /\ h # new
        <4>1. op = "alloc" /\ Fresh(new)
          BY <2>1, <1>3 DEF Enters, Entry
        <4>2. new \notin given
          BY <4>1 DEF Fresh, Inv, InUse
        <4> QED BY <4>1, <4>2, Apart DEF Entry
      <3>2. \A v \in Threads : pc[v].on # new
        <4> SUFFICES ASSUME NEW v \in Threads PROVE pc[v].on # new
          OBVIOUS
        <4>1. CASE pc[v].at = "idle"
          BY <4>1, <3>1, IdleFrame, Apart DEF Inv, Stages
        <4>2. CASE pc[v].at # "idle"
          BY <4>2, <3>1 DEF Fresh, Inv, InUse
        <4> QED BY <4>1, <4>2
      <3>3. \A v \in Threads : pc'[v].on # new /\ (v # t => pc'[v].makes # new)
        BY <3>1, <3>2, <1>3 DEF Enters, Fresh
      <3> QED BY <2>1, <3>1, <3>3, <1>3, <1>1, <1>4 DEF Making, Enters, Fresh, Entry
    <2>2. CASE u # t
      <3>1. pc'[u] = pc[u] /\ pc[u].op = "alloc"
        BY <2>2, <1>3 DEF Enters
      <3>2. h # pc[u].makes
        BY <3>1, <1>1 DEF Promised, Inv, Allocating, Making
      <3>3. new # pc[u].makes
        <4>1. CASE op = "alloc"
          BY <4>1 DEF Entry, Fresh
        <4>2. CASE op # "alloc"
          BY <4>2, <3>1, Apart DEF Entry, Inv, Allocating, Making
        <4> QED BY <4>1, <4>2
      <3>4. \A v \in Threads : pc'[v].on # pc[u].makes /\ (v # u => pc'[v].makes # pc[u].makes)
        BY <3>1, <3>2, <3>3, <1>3 DEF Enters, Inv, Allocating, Making
      <3> QED BY <3>1, <3>4, <1>1, <1>4 DEF Inv, Allocating, Making
    <2> QED BY <2>1, <2>2
  <1>14. Exclusive'
    <2> SUFFICES ASSUME NEW u \in Threads, NEW v \in Threads, u # v, Ends(u)', pc'[v].at # "idle"
                 PROVE  pc'[v].on \notin Below(pc'[u].on)
      BY <1>6 DEF Exclusive
    <2>1. CASE u = t
      <3>1. op \in {"free", "disconnect"} /\ pc'[v] = pc[v]
        BY <2>1, <1>3 DEF Enters, Ends
      <3> QED BY <2>1, <3>1, <1>1, <1>3 DEF Promised, Uses, Enters
    <2>2. CASE v = t
      <3>1. pc'[u] = pc[u] /\ Ends(u) /\ pc'[v].on = h
        BY <2>2, <1>3 DEF Enters, Ends
      <3>2. Uses(u, pc[u].on)
        BY <3>1, IdleFrame DEF Uses, Inv, Stages, Ends
      <3>3. pc[u].on \notin Above(h)
        BY <3>1, <3>2, <1>1 DEF Promised, Ends
      <3> QED BY <3>1, <3>3, BelowWhat
    <2>3. CASE u # t /\ v # t
      BY <2>3, <1>3 DEF Enters, Inv, Exclusive, Ends
    <2> QED BY <2>1, <2>2, <2>3
  <1>15. Retired'
    <2> SUFFICES ASSUME NEW u \in Threads
                 PROVE  /\ pc'[u].op = "free" => given' \cap Below(pc'[u].on) = {}
                        /\ pc'[u].op = "disconnect" =>
                              given' \cap Below(pc'[u].on) \cap Stmts = {}
      BY <1>6 DEF Retired
    <2>1. CASE u = t
      BY <2>1, <1>3, <1>4 DEF Enters
    <2>2. CASE u # t
      BY <2>2, <1>3, <1>4 DEF Enters, Inv, Retired
    <2> QED BY <2>1, <2>2
  <1>16. Registrations'
    BY <1>1 DEF Inv, Registrations
  <1> QED BY <1>16, <1>7, <1>8, <1>9, <1>10, <1>11, <1>12, <1>13, <1>14, <1>15 DEF Inv

(* The calls an application makes. *)
LEMMA InvCalls ==
  ASSUME Inv, NEW t \in Threads,
         CallAlloc(t) \/ CallFree(t) \/ CallDisconnect(t) \/ CallStatement(t) \/ CallDiag(t)
  PROVE  Inv'
  <1>1. CASE CallAlloc(t)
    <2>1. CASE \E c \in Conns : Fresh(c) /\ Begin(t, "alloc", Env, c)
      BY <2>1, InvBegin, Apart DEF Entry, Ops
    <2>2. CASE \E c \in Conns, h \in Stmts \cup Descs : Fresh(h) /\ Begin(t, "alloc", c, h)
      BY <2>2, InvBegin, Apart DEF Entry, Ops
    <2> QED BY <1>1, <2>1, <2>2 DEF CallAlloc
  <1>2. CASE CallFree(t)
    BY <1>2, InvBegin DEF CallFree, Entry, Ops
  <1>3. CASE CallDisconnect(t)
    BY <1>3, InvBegin, Apart DEF CallDisconnect, Entry, Ops
  <1>4. CASE CallStatement(t)
    BY <1>4, InvBegin, Apart DEF CallStatement, Entry, Ops
  <1>5. CASE CallDiag(t)
    BY <1>5, InvBegin DEF CallDiag, Entry, Ops
  <1> QED BY <1>1, <1>2, <1>3, <1>4, <1>5

-----------------------------------------------------------------------------
(* The end of the guard's scope: a handle that was made is now held. *)
LEMMA InvUnlock ==
  ASSUME Inv, NEW t \in Threads, Unlock(t)
  PROVE  Inv'
  <1> USE DEF Unlock
  <1>1. pc[t].op # "diag" /\ pc[t].on \in Handles /\ mtx_[pc[t].on] = t
    BY DEF Inv, Stages, HoldsMutex, Guarded
  <1>2. (pc[t].op = "free" /\ Goes(t, "drop")) \/ (pc[t].op # "free" /\ Returns(t))
    <2>1. \/ pc[t].op = "free" /\ pc' = [pc EXCEPT ![t].at = "drop"]
          \/ pc[t].op # "free" /\ pc' = [pc EXCEPT ![t] = Idle]
      OBVIOUS
    <2> QED BY <2>1, GoesTo, ReturnsTo DEF Inv, Places
  <1>3. Stages'
    BY <1>2, IdleFrame DEF Inv, Stages, Goes, Returns, SameCall
  <1>4. HoldsMutex'
    <2> SUFFICES ASSUME NEW u \in Threads, Guarded(u)' PROVE (mtx_[pc[u].on] = u)'
      BY DEF HoldsMutex
    <2>1. u # t /\ pc'[u] = pc[u]
      BY <1>2, IdleFrame DEF Goes, Returns, SameCall, Guarded
    <2>2. Guarded(u) /\ mtx_[pc[u].on] = u
      BY <2>1 DEF Guarded, Inv, HoldsMutex
    <2> QED BY <2>1, <2>2, <1>1, Typed DEF Inv
  <1>5. mtx_' \in [Handles -> Threads \cup {NoOne}]
    BY Typed DEF Inv
  <1>6. CASE pc[t].op # "alloc"
    <2>1. TypeOK'
      BY <1>2, <1>5, <1>6 DEF Inv, TypeOK, Goes, Returns, Frames
    <2>2. Quiet /\ \A u \in Threads : Keeps(u)
      BY <1>2, <1>6, IdleFrame DEF Quiet, Keeps, Goes, Returns, SameCall
    <2> QED BY <1>3, <1>4, <2>1, <2>2, KeepsInv
  <1>7. CASE pc[t].op = "alloc"
    <2> DEFINE m == pc[t].makes
    <2>0. /\ given' = given \cup {m} /\ Returns(t)
          /\ UNCHANGED <<exists, parent, list, calls, descVars>>
      BY <1>2, <1>7
    <2>1. /\ m \in exists /\ m \in Handles /\ parent[m] = pc[t].on
          /\ \A u \in Threads : pc[u].on # m /\ (u # t => pc[u].makes # m)
      BY <1>7, Apart DEF Inv, Allocating, Making
    <2> HIDE DEF m, Unlock
    <2>2. TypeOK'
      BY <1>5, <2>0, <2>1 DEF Inv, TypeOK, Returns, Frames
    <2>3. Levels' /\ Listed'
      BY <2>0 DEF Inv, Levels, Listed
    <2>4. \A h : Below(h)' = Below(h)
      BY <2>0 DEF Below, Above
    <2>5. Rooted'
      <3>1. \A x : \A u \in Threads : pc[u].makes = x /\ pc[u].at = "edit" =>
                pc'[u].makes = x /\ pc'[u].at = "edit"
        BY <2>0, Unlock(t) DEF Returns, Unlock
      <3> QED BY <2>0, <3>1 DEF Inv, Rooted
    <2>6. InUse'
      BY <2>0, <2>1, IdleFrame DEF Inv, InUse, Returns
    <2>7. Allocating'
      <3> SUFFICES ASSUME NEW u \in Threads, pc'[u].op = "alloc"
                 PROVE  Making(u)'
        BY DEF Allocating
      <3>1. u # t /\ pc'[u] = pc[u] /\ pc[u].op = "alloc"
        BY <2>0, IdleFrame DEF Returns
      <3>2. pc[u].makes # m /\ pc[u].makes # NoOne
        BY <2>1, <3>1, Apart DEF Inv, Allocating, Making
      <3>3. \A v \in Threads : pc'[v].on # pc[u].makes /\ (v # u => pc'[v].makes # pc[u].makes)
        BY <2>0, <3>1, <3>2, IdleFrame DEF Returns, Inv, Allocating, Making
      <3> QED BY <3>1, <3>2, <3>3, <2>0 DEF Inv, Allocating, Making
    <2>8. Exclusive'
      BY <2>0, <2>4, IdleFrame DEF Inv, Exclusive, Ends, Returns
    <2>9. Retired'
      <3> SUFFICES ASSUME NEW u \in Threads
                   PROVE  /\ pc'[u].op = "free" => given' \cap Below(pc'[u].on) = {}
                          /\ pc'[u].op = "disconnect" =>
                                given' \cap Below(pc'[u].on) \cap Stmts = {}
        BY <2>4 DEF Retired
      <3>1. CASE u = t
        BY <3>1, <2>0, IdleFrame DEF Returns
      <3>2. CASE u # t /\ Ends(u)
        <4>1. pc[u].on \in Handles /\ pc[t].at # "idle" /\ pc[u].on # m
          BY <3>2, <2>1, IdleFrame, Unlock(t) DEF Inv, Stages, Ends, Ops, Unlock
        <4>2. pc[t].on \notin Below(pc[u].on)
          BY <3>2, <4>1 DEF Inv, Exclusive
        <4>3. m \notin Below(pc[u].on)
          BY <2>1, <4>1, <4>2, BelowChild DEF Inv
        <4> QED BY <3>2, <4>3, <2>0 DEF Inv, Retired, Returns
      <3>3. CASE u # t /\ ~Ends(u)
        BY <3>3, <2>0 DEF Returns, Ends
      <3> QED BY <3>1, <3>2, <3>3
    <2>10. Registrations'
      BY <2>0 DEF Inv, Registrations
    <2> QED BY <2>10, <1>3, <1>4, <2>2, <2>3, <2>5, <2>6, <2>7, <2>8, <2>9 DEF Inv
  <1> QED BY <1>6, <1>7

-----------------------------------------------------------------------------
(* The object is made: the tree grows by a handle that has nothing below. *)
LEMMA InvAllocBody ==
  ASSUME Inv, NEW t \in Threads, AllocBody(t)
  PROVE  Inv'
  <1> DEFINE m == pc[t].makes
             o == pc[t].on
  <1>1. /\ exists' = exists \cup {m} /\ UNCHANGED <<list, mtx_, given, calls, orphaned>>
        /\ pc[t].op = "alloc" /\ pc[t].at = "body"
    BY DEF AllocBody
  <1>2. Goes(t, "edit")
    BY GoesTo DEF AllocBody, Inv, Places
  <1>3. /\ (o = Env /\ m \in Conns) \/ (o \in Conns /\ m \in Stmts \cup Descs)
        /\ m \in Handles /\ o \in Handles /\ o # m
        /\ m \notin exists /\ m \notin given /\ parent[m] = NoOne
        /\ \A u \in Threads : pc[u].on # m /\ (u # t => pc[u].makes # m)
        /\ o \in exists
    BY <1>1, Apart DEF Inv, Allocating, Making, InUse
  <1>4. parent' \in [Handles -> {Env, NoOne} \cup Conns] /\ parent'[m] = o
        /\ \A x \in Handles : x # m => parent'[x] = parent[x]
    BY <1>3, Typed, Apart DEF AllocBody, Inv
  <1>18. registered' = [d \in Descs |-> IF d = m THEN {} ELSE registered[d]]
    BY DEF AllocBody
  <1> HIDE DEF m, o
  <1>19. registered' \in [Descs -> SUBSET Stmts]
    BY <1>18, Typed DEF Inv
  <1>5. TypeOK'
    BY <1>1, <1>2, <1>3, <1>4, <1>19 DEF Inv, TypeOK, Goes, Frames
  <1>6. Stages'
    BY <1>1, <1>2 DEF Inv, Stages, Goes, SameCall
  <1>7. HoldsMutex'
    BY <1>1, <1>2, MutexKept DEF Guarded, Goes, SameCall
  <1>8. \A x \in Handles : x # m => parent'[x] = parent[x] /\ parent'[x] # m
    <2> SUFFICES ASSUME NEW x \in Handles, x # m PROVE parent[x] # m
      BY <1>4
    <2>1. m # NoOne /\ m # Env
      BY <1>3, Apart
    <2>2. parent[x] = NoOne \/ parent[x] = Env
          \/ (parent[x] \in Conns /\ parent[parent[x]] = Env)
      BY Apart DEF Inv, Levels
    <2> QED BY <1>3, <2>1, <2>2, Apart
  <1>9. \A x \in Handles : x # m => Above(x)' = Above(x)
    BY <1>8, <1>4 DEF Above
  <1>10. \A h : \A x \in Handles : x # m => (x \in Below(h)' <=> x \in Below(h))
    BY <1>9 DEF Below
  <1>11. Levels'
    <2>1. parent'[Env] = NoOne
      BY <1>3, <1>8, Apart DEF Inv, Levels
    <2>2. \A c \in Conns : parent'[c] \in {NoOne, Env}
      BY <1>3, <1>4, Apart DEF Inv, Levels
    <2>3. ASSUME NEW h \in Stmts \cup Descs
          PROVE  parent'[h] = NoOne \/ (parent'[h] \in Conns /\ parent'[parent'[h]] = Env)
      <3>1. CASE h = m
        <4>1. o \in Conns /\ o # Env /\ parent'[h] = o
          BY <1>3, <1>4, <3>1, Apart
        <4>2. parent[o] \in exists /\ parent[o] \in {NoOne, Env}
          BY <4>1, <1>3 DEF Inv, Rooted, Levels
        <4>3. parent[o] = Env
          BY <4>2, Typed, Apart DEF Inv
        <4> QED BY <4>1, <4>3, <1>3, <1>4
      <3>2. CASE h # m
        <4>1. parent[h] = NoOne \/ (parent[h] \in Conns /\ parent[parent[h]] = Env)
          BY DEF Inv, Levels
        <4> QED BY <4>1, <3>2, <1>4, <1>8, Apart
      <3> QED BY <3>1, <3>2
    <2> QED BY <2>1, <2>2, <2>3 DEF Levels
  <1>12. Listed'
    BY <1>1, <1>3, <1>4, Typed DEF Inv, Listed
  <1>13. Rooted'
    <2> SUFFICES ASSUME NEW x \in exists', x # Env
                 PROVE  /\ parent'[x] \in exists'
                        /\ \/ x \in list'[parent'[x]]
                           \/ \E u \in Threads : pc'[u].makes = x /\ pc'[u].at = "edit"
      BY DEF Rooted
    <2>1. CASE x = m
      <3>1. pc'[t].makes = x /\ pc'[t].at = "edit"
        BY <2>1, <1>2 DEF Goes, SameCall, m
      <3> QED BY <2>1, <3>1, <1>1, <1>3, <1>4
    <2>2. CASE x # m
      <3>1. x \in exists /\ x \in Handles
        BY <2>2, <1>1, Typed DEF Inv
      <3>2. \A u \in Threads : pc[u].at = "edit" => pc'[u] = pc[u]
        BY <1>1, <1>2 DEF Goes
      <3> QED BY <2>2, <3>1, <3>2, <1>1, <1>4 DEF Inv, Rooted
    <2> QED BY <2>1, <2>2
  <1>14. InUse'
    BY <1>1, <1>2 DEF Inv, InUse, Goes, SameCall
  <1>15. Allocating'
    <2> SUFFICES ASSUME NEW u \in Threads, pc'[u].op = "alloc"
                 PROVE  Making(u)'
      BY DEF Allocating
    <2>0. \A v \in Threads : pc'[v].on = pc[v].on /\ pc'[v].makes = pc[v].makes
                             /\ pc'[v].op = pc[v].op
      BY <1>2 DEF Goes, SameCall
    <2>1. CASE u = t
      <3>1. pc'[u].makes = m /\ pc'[u].on = o /\ pc'[u].at = "edit"
        BY <2>1, <1>2 DEF Goes, SameCall, m, o
      <3> QED BY <2>0, <2>1, <3>1, <1>1, <1>3, <1>4 DEF Making
    <2>2. CASE u # t
      <3>1. Making(u) /\ pc'[u] = pc[u] /\ pc[u].makes # m
        BY <2>0, <2>2, <1>2, <1>3 DEF Inv, Allocating, Goes
      <3>2. pc[u].makes \in Handles
        BY <3>1, Apart DEF Making
      <3> QED BY <2>0, <3>1, <3>2, <1>1, <1>4 DEF Making
    <2> QED BY <2>1, <2>2
  <1>16. Exclusive'
    <2>1. \A u \in Threads : pc[u].on # m
      BY <1>3
    <2> SUFFICES ASSUME NEW u \in Threads, NEW v \in Threads, u # v, Ends(u)', pc'[v].at # "idle"
                 PROVE  (pc[v].on \notin Below(pc[u].on))'
      BY DEF Exclusive
    <2>2. Ends(u) /\ pc[v].at # "idle" /\ pc'[u].on = pc[u].on /\ pc'[v].on = pc[v].on
      BY <1>1, <1>2 DEF Goes, SameCall, Ends
    <2>3. pc[v].on \notin Below(pc[u].on) /\ pc[v].on \in Handles
      BY <2>2 DEF Inv, Exclusive, Stages
    <2> QED BY <2>1, <2>2, <2>3, <1>4, <1>8 DEF Below, Above
  <1>17. Retired'
    <2>1. \A h, x : x \in given => (x \in Below(h)' <=> x \in Below(h))
      BY <1>3, <1>10, Typed DEF Inv
    <2>2. \A u \in Threads : pc'[u].op = pc[u].op /\ pc'[u].on = pc[u].on
      BY <1>2 DEF Goes, SameCall
    <2> QED BY <2>1, <2>2, <1>1 DEF Inv, Retired
  <1>20. Registrations'
    BY <1>1, <1>18 DEF Inv, Registrations
  <1> QED BY <1>20, <1>5, <1>6, <1>7, <1>11, <1>12, <1>13, <1>14, <1>15, <1>16, <1>17 DEF Inv

(* The object is listed. *)
LEMMA InvAllocEdit ==
  ASSUME Inv, NEW t \in Threads, AllocEdit(t)
  PROVE  Inv'
  <1> DEFINE m == pc[t].makes
             o == pc[t].on
  <1>1. /\ UNCHANGED <<exists, parent, mtx_, given, calls, descVars>>
        /\ pc[t].op = "alloc" /\ pc[t].at = "edit"
    BY DEF AllocEdit
  <1>2. Goes(t, "unlock")
    BY GoesTo DEF AllocEdit, Inv, Places
  <1>3. /\ m \in Handles /\ o \in Handles /\ m \in exists /\ parent[m] = o
        /\ \A u \in Threads : u # t => pc[u].makes # m
    BY <1>1, Apart DEF Inv, Allocating, Making
  <1>4. /\ list' \in [Handles -> SUBSET Handles]
        /\ list'[o] = list[o] \cup {m}
        /\ \A h \in Handles : h # o => list'[h] = list[h]
    BY <1>3, Typed DEF AllocEdit, Inv
  <1>5. TypeOK'
    BY <1>1, <1>2, <1>4 DEF Inv, TypeOK, Goes, Frames
  <1>6. Stages'
    BY <1>1, <1>2 DEF Inv, Stages, Goes, SameCall
  <1>7. HoldsMutex'
    BY <1>1, <1>2, MutexKept DEF Guarded, Goes, SameCall
  <1>8. \A h : Below(h)' = Below(h)
    BY <1>1 DEF Below, Above
  <1>9. Levels'
    BY <1>1 DEF Inv, Levels
  <1>10. Listed'
    <2> SUFFICES ASSUME NEW h \in Handles, NEW x \in list'[h]
                 PROVE  x \in exists /\ parent[x] = h
      BY <1>1 DEF Listed
    <2> QED BY <1>3, <1>4 DEF Inv, Listed
  <1>11. Rooted'
    <2> SUFFICES ASSUME NEW x \in exists, x # Env
                 PROVE  /\ parent[x] \in exists
                        /\ \/ x \in list'[parent[x]]
                           \/ \E u \in Threads : pc'[u].makes = x /\ pc'[u].at = "edit"
      BY <1>1 DEF Rooted
    <2>1. parent[x] \in exists /\ parent[x] \in Handles
      BY Typed DEF Inv, Rooted
    <2>2. CASE x \in list[parent[x]] \/ x = m
      BY <2>1, <2>2, <1>3, <1>4
    <2>3. CASE x \notin list[parent[x]] /\ x # m
      <3>1. PICK u \in Threads : pc[u].makes = x /\ pc[u].at = "edit"
        BY <2>3 DEF Inv, Rooted
      <3> QED BY <2>1, <2>3, <3>1, <1>2 DEF Goes
    <2> QED BY <2>2, <2>3
  <1>12. InUse'
    BY <1>1, <1>2 DEF Inv, InUse, Goes, SameCall
  <1>13. Allocating'
    <2> SUFFICES ASSUME NEW u \in Threads, pc'[u].op = "alloc"
                 PROVE  Making(u)'
      BY DEF Allocating
    <2>0. \A v \in Threads : pc'[v].on = pc[v].on /\ pc'[v].makes = pc[v].makes
                             /\ pc'[v].op = pc[v].op
      BY <1>2 DEF Goes, SameCall
    <2>1. Making(u) /\ (pc'[u].at = pc[u].at \/ (u = t /\ pc'[u].at = "unlock"))
      BY <2>0, <1>2 DEF Inv, Allocating, Goes
    <2> QED BY <2>0, <2>1, <1>1 DEF Making
  <1>14. Exclusive' /\ Retired'
    <2>1. \A v \in Threads : /\ pc'[v].on = pc[v].on /\ pc'[v].op = pc[v].op
                             /\ pc'[v].at # "idle" => pc[v].at # "idle"
      BY <1>1, <1>2 DEF Goes, SameCall
    <2> QED BY <2>1, <1>1, <1>8 DEF Inv, Exclusive, Retired, Ends
  <1>15. Registrations'
    BY <1>1 DEF Inv, Registrations
  <1> QED BY <1>15, <1>5, <1>6, <1>7, <1>9, <1>10, <1>11, <1>12, <1>13, <1>14 DEF Inv

-----------------------------------------------------------------------------
(* A statement that is destroyed and still registered is an orphan. *)
LEMMA DestroyedAreOrphans ==
  ASSUME TypeOK, Registrations, NEW D, Destroy(D)
  PROVE  Registrations'
  BY Typed DEF Registrations, Destroy

(* A disconnect destroys the statements in the list of the connection.  The
   application holds none of them and no other call is below the connection. *)
LEMMA InvDisconnectClear ==
  ASSUME Inv, NEW t \in Threads, DisconnectClear(t)
  PROVE  Inv'
  <1> DEFINE c == pc[t].on
             D == list[c] \cap Stmts
  <1>1. /\ exists' = exists \ D /\ UNCHANGED <<parent, mtx_, given, calls>>
        /\ pc[t].at = "clear"
    BY DEF DisconnectClear, Destroy
  <1>16. Destroy(D)
    BY DEF DisconnectClear
  <1>2. Goes(t, "unlock")
    BY GoesTo DEF DisconnectClear, Inv, Places
  <1>3. c \in Conns /\ c \in Handles /\ Ends(t) /\ pc[t].op # "alloc"
    BY <1>1, Apart DEF Inv, Stages, Ends
  <1>4. /\ list' \in [Handles -> SUBSET Handles]
        /\ list'[c] = list[c] \ Stmts
        /\ \A h \in Handles : h # c => list'[h] = list[h]
    BY <1>3, Typed DEF DisconnectClear, Inv
  <1>5. ASSUME NEW x \in D
        PROVE  /\ x \in Handles /\ x \in Stmts /\ x \in exists /\ parent[x] = c
               /\ x \in Below(c) /\ x \notin given
               /\ \A u \in Threads : pc[u].at # "idle" => pc[u].on # x
    <2>1. x \in Handles /\ x \in Stmts /\ x \in exists /\ parent[x] = c
      BY <1>3, Apart DEF Inv, Listed
    <2>2. x \in Below(c)
      BY <2>1, <1>3, AboveWhat, BelowWhat DEF Inv
    <2>3. x \notin given
      BY <2>1, <2>2, <1>3 DEF Inv, Retired, Ends
    <2>4. \A u \in Threads : pc[u].at # "idle" => pc[u].on # x
      BY <2>1, <2>2, <1>3, Apart DEF Inv, Exclusive
    <2> QED BY <2>1, <2>2, <2>3, <2>4
  <1> HIDE DEF c, D
  <1>6. TypeOK'
    <2>1. registered' = registered /\ orphaned' \subseteq Stmts
      BY <1>16, Typed DEF Destroy, Inv
    <2> QED BY <2>1, <1>1, <1>2, <1>4 DEF Inv, TypeOK, Goes, Frames
  <1>7. Stages'
    BY <1>1, <1>2, <1>3 DEF Inv, Stages, Goes, SameCall, Ends
  <1>8. HoldsMutex'
    BY <1>1, <1>2, MutexKept DEF Guarded, Goes, SameCall
  <1>9. \A h : Below(h)' = Below(h)
    BY <1>1 DEF Below, Above
  <1>10. Levels'
    BY <1>1 DEF Inv, Levels
  <1>11. Listed'
    <2> SUFFICES ASSUME NEW h \in Handles, NEW x \in list'[h]
                 PROVE  x \in exists /\ x \notin D /\ parent[x] = h
      BY <1>1 DEF Listed
    <2>1. x \in list[h] /\ (h = c => x \notin Stmts)
      BY <1>4
    <2>2. x \in exists /\ parent[x] = h
      BY <2>1 DEF Inv, Listed
    <2> QED BY <2>1, <2>2, <1>5
  <1>12. Rooted'
    <2> SUFFICES ASSUME NEW x \in exists, x \notin D, x # Env
                 PROVE  /\ parent[x] \in exists /\ parent[x] \notin D
                        /\ \/ x \in list'[parent[x]]
                           \/ \E u \in Threads : pc'[u].makes = x /\ pc'[u].at = "edit"
      BY <1>1 DEF Rooted
    <2>1. parent[x] \in exists /\ parent[x] \in Handles
      BY Typed DEF Inv, Rooted
    <2>2. parent[x] \notin D
      BY <2>1, <1>5, Typed, Apart DEF Inv
    <2>3. CASE x \in list[parent[x]]
      BY <2>1, <2>2, <2>3, <1>4 DEF D
    <2>4. CASE x \notin list[parent[x]]
      <3>1. PICK u \in Threads : pc[u].makes = x /\ pc[u].at = "edit"
        BY <2>4 DEF Inv, Rooted
      <3>2. pc'[u] = pc[u]
        BY <3>1, <1>1, <1>2 DEF Goes
      <3> QED BY <2>1, <2>2, <3>1, <3>2
    <2> QED BY <2>3, <2>4
  <1>13. InUse'
    BY <1>1, <1>2, <1>5 DEF Inv, InUse, Goes, SameCall
  <1>14. Allocating'
    <2> SUFFICES ASSUME NEW u \in Threads, pc'[u].op = "alloc"
                 PROVE  Making(u)'
      BY DEF Allocating
    <2>0. \A v \in Threads : pc'[v].on = pc[v].on /\ pc'[v].makes = pc[v].makes
                             /\ pc'[v].op = pc[v].op
      BY <1>2 DEF Goes, SameCall
    <2>1. Making(u) /\ u # t /\ pc'[u] = pc[u]
      BY <2>0, <1>2, <1>3 DEF Inv, Allocating, Goes
    <2>2. pc[u].at # "idle" /\ pc[u].on \notin Below(c)
      BY <2>1, <1>3 DEF Making, Inv, Exclusive, c
    <2>3. pc[u].on # c
      BY <2>2, <1>3, BelowSelf
    <2>4. pc[u].at \in {"edit", "unlock"} => pc[u].makes \notin D
      BY <2>1, <2>3, <1>5 DEF Making
    <2> QED BY <2>0, <2>1, <2>4, <1>1 DEF Making
  <1>15. Exclusive' /\ Retired'
    <2>1. \A v \in Threads : /\ pc'[v].on = pc[v].on /\ pc'[v].op = pc[v].op
                             /\ pc'[v].at # "idle" => pc[v].at # "idle"
      BY <1>1, <1>2 DEF Goes, SameCall
    <2> QED BY <2>1, <1>1, <1>9 DEF Inv, Exclusive, Retired, Ends
  <1>17. Registrations'
    BY <1>16, DestroyedAreOrphans DEF Inv
  <1> QED BY <1>17, <1>6, <1>7, <1>8, <1>10, <1>11, <1>12, <1>13, <1>14, <1>15 DEF Inv

(* A drop destroys the handle and all that is below it. *)
LEMMA InvDropErase ==
  ASSUME Inv, NEW t \in Threads, DropErase(t)
  PROVE  Inv'
  <1> DEFINE h == pc[t].on
             B == Below(h)
  <1>1. /\ exists' = exists \ B /\ UNCHANGED <<parent, mtx_, given, calls>>
        /\ pc[t].op = "free" /\ pc[t].at = "edit"
    BY DEF DropErase, Destroy
  <1>18. Destroy(B)
    BY DEF DropErase
  <1>2. Returns(t)
    BY ReturnsTo DEF DropErase, Inv
  <1>3. /\ h \in Handles /\ h # Env /\ h \in B /\ Ends(t)
        /\ pc[t].makes = NoOne /\ B \cap given = {}
    BY <1>1, BelowSelf DEF Inv, Stages, Ends, Retired
  <1>4. /\ list' \in [Handles -> SUBSET Handles]
        /\ \A p \in Handles : /\ p \in B => list'[p] = {}
                              /\ p \notin B => list'[p] = list[p] \ {h}
    BY <1>3, Typed DEF DropErase, Inv
  <1>5. \A u \in Threads : u # t /\ pc[u].at # "idle" => pc[u].on \notin B
    BY <1>3 DEF Inv, Exclusive
  <1>6. \A x \in Handles : x \in B /\ x # h => parent[x] \in B
    BY <1>3, BelowChild DEF Inv
  <1>7. \A x \in Handles : parent[x] \in Handles /\ parent[x] \in B => x \in B
    BY <1>3, BelowParent DEF Inv
  <1> HIDE DEF h, B
  <1>8. TypeOK'
    <2>1. registered' = registered /\ orphaned' \subseteq Stmts
      BY <1>18, Typed DEF Destroy, Inv
    <2> QED BY <2>1, <1>1, <1>2, <1>4 DEF Inv, TypeOK, Returns, Frames
  <1>9. Stages'
    BY <1>2, IdleFrame DEF Inv, Stages, Returns
  <1>10. HoldsMutex'
    BY <1>1, <1>2, MutexKept, IdleFrame DEF Guarded, Returns
  <1>11. \A x : Below(x)' = Below(x)
    BY <1>1 DEF Below, Above
  <1>12. Levels'
    BY <1>1 DEF Inv, Levels
  <1>13. Listed'
    <2> SUFFICES ASSUME NEW p \in Handles, NEW x \in list'[p]
                 PROVE  x \in exists /\ x \notin B /\ parent[x] = p
      BY <1>1 DEF Listed
    <2>1. p \notin B /\ x \in list[p] /\ x # h
      BY <1>4
    <2>2. x \in exists /\ parent[x] = p /\ x \in Handles
      BY <2>1, Typed DEF Inv, Listed
    <2> QED BY <2>1, <2>2, <1>6
  <1>14. Rooted'
    <2> SUFFICES ASSUME NEW x \in exists, x \notin B, x # Env
                 PROVE  /\ parent[x] \in exists /\ parent[x] \notin B
                        /\ \/ x \in list'[parent[x]]
                           \/ \E u \in Threads : pc'[u].makes = x /\ pc'[u].at = "edit"
      BY <1>1 DEF Rooted
    <2>1. parent[x] \in exists /\ parent[x] \in Handles /\ x \in Handles
      BY Typed DEF Inv, Rooted
    <2>2. parent[x] \notin B /\ x # h
      BY <2>1, <1>3, <1>7
    <2>3. CASE x \in list[parent[x]]
      BY <2>1, <2>2, <2>3, <1>4
    <2>4. CASE x \notin list[parent[x]]
      <3>1. PICK u \in Threads : pc[u].makes = x /\ pc[u].at = "edit"
        BY <2>4 DEF Inv, Rooted
      <3>2. pc'[u] = pc[u]
        BY <2>1, <3>1, <1>2, <1>3, Apart DEF Returns
      <3> QED BY <2>1, <2>2, <3>1, <3>2
    <2> QED BY <2>3, <2>4
  <1>15. InUse'
    BY <1>1, <1>2, <1>3, <1>5, IdleFrame DEF Inv, InUse, Returns
  <1>16. Allocating'
    <2> SUFFICES ASSUME NEW u \in Threads, pc'[u].op = "alloc"
                 PROVE  Making(u)'
      BY DEF Allocating
    <2>1. u # t /\ pc'[u] = pc[u] /\ Making(u)
      BY <1>2, IdleFrame DEF Returns, Inv, Allocating
    <2>2. pc[u].on \notin B /\ pc[u].on # h /\ pc[u].makes \in Handles
      BY <2>1, <1>3, <1>5, Apart DEF Making
    <2>3. pc[u].at \in {"edit", "unlock"} => pc[u].makes \notin B
      BY <2>1, <2>2, <1>6 DEF Making, h
    <2>4. \A v \in Threads : pc'[v].on # pc[u].makes /\ (v # u => pc'[v].makes # pc[u].makes)
      BY <2>1, <2>2, <1>2, IdleFrame, Apart DEF Making, Returns
    <2> QED BY <2>1, <2>3, <2>4, <1>1 DEF Making
  <1>17. Exclusive' /\ Retired'
    <2>1. \A v \in Threads : /\ pc'[v].at # "idle" => pc'[v] = pc[v]
                             /\ pc'[v].op # "none" => pc'[v] = pc[v]
      BY <1>2, IdleFrame DEF Returns
    <2> QED BY <2>1, <1>1, <1>11 DEF Inv, Exclusive, Retired, Ends
  <1>19. Registrations'
    BY <1>18, DestroyedAreOrphans DEF Inv
  <1> QED BY <1>19, <1>8, <1>9, <1>10, <1>12, <1>13, <1>14, <1>15, <1>16, <1>17 DEF Inv

(* The environment goes last: a handle that exists, or a call, would have a
   connection in its list. *)
LEMMA InvFreeEnv ==
  ASSUME Inv, NEW t \in Threads, FreeEnv(t)
  PROVE  Inv'
  <1>1. /\ pc[t] = Idle /\ list[Env] = {} /\ Env \in given
        /\ \A u \in Threads : \A x \in Below(Env) : ~Uses(u, x)
        /\ exists' = exists \ {Env} /\ given' = given \ {Env}
        /\ UNCHANGED <<parent, list, mtx_, pc, descVars>>
    BY DEF FreeEnv, Promised
  <1>2. calls' \in [Threads -> 0..MaxCalls]
    BY HandlesAssumption DEF FreeEnv, Inv, TypeOK
  <1>3. \A u \in Threads : pc[u].at # "idle" => pc[u].on # Env
    BY <1>1, BelowSelf, Apart DEF Uses
  <1>4. \A x \in exists : x \notin Conns
    <2> SUFFICES ASSUME NEW x \in exists, x \in Conns PROVE FALSE
      OBVIOUS
    <2>1. parent[x] \in exists /\ parent[x] \in {NoOne, Env} /\ x # Env
      BY Apart DEF Inv, Rooted, Levels
    <2>2. parent[x] = Env
      BY <2>1, Typed, Apart DEF Inv
    <2>3. PICK u \in Threads : pc[u].makes = x /\ pc[u].at = "edit"
      BY <2>1, <2>2, <1>1 DEF Inv, Rooted
    <2>4. x # NoOne
      BY Apart
    <2>5. Making(u) /\ pc[u].op = "alloc"
      BY <2>3, <2>4 DEF Inv, Stages, Allocating
    <2>6. pc[u].on = Env
      BY <2>2, <2>3, <2>5 DEF Making
    <2> QED BY <2>3, <2>6, <1>3
  <1>5. exists \subseteq {Env}
    <2> SUFFICES ASSUME NEW x \in exists, x # Env PROVE FALSE
      OBVIOUS
    <2>1. x \in Stmts \cup Descs /\ parent[x] \in exists /\ parent[x] \in Handles
      BY <1>4, Typed, Apart DEF Inv, Rooted
    <2>2. parent[x] \in Conns
      BY <2>1, Apart DEF Inv, Levels
    <2> QED BY <2>1, <2>2, <1>4
  <1>6. exists' = {} /\ given' = {}
    BY <1>1, <1>5 DEF Inv, InUse
  <1>7. \A u \in Threads : pc[u] = Idle
    BY <1>3, <1>5 DEF Inv, InUse, Stages
  <1>8. TypeOK'
    BY <1>1, <1>2, <1>6 DEF Inv, TypeOK
  <1>9. Stages' /\ HoldsMutex' /\ Levels'
    BY <1>1, IdleFrame DEF Inv, Stages, HoldsMutex, Guarded, Levels
  <1>10. Listed'
    <2>1. \A h \in Handles : \A x \in list[h] : FALSE
      BY <1>5, Apart DEF Inv, Listed, Levels
    <2> QED BY <2>1, <1>1 DEF Listed
  <1>11. Rooted' /\ InUse'
    BY <1>1, <1>6, <1>7, IdleFrame DEF Rooted, InUse
  <1>12. Allocating' /\ Exclusive' /\ Retired'
    BY <1>1, <1>6, <1>7, IdleFrame DEF Allocating, Exclusive, Retired, Ends
  <1>13. Registrations'
    BY <1>6 DEF Registrations
  <1> QED BY <1>13, <1>8, <1>9, <1>10, <1>11, <1>12 DEF Inv

LEMMA InvInit == Init => Inv
  <1> SUFFICES ASSUME Init PROVE Inv
    OBVIOUS
  <1>0. \A t \in Threads : pc[t] = Idle
    BY DEF Init
  <1>1. TypeOK
    BY Apart, IdleFrame, HandlesAssumption DEF Init, TypeOK, Frames
  <1>2. Stages /\ HoldsMutex
    BY <1>0, IdleFrame DEF Stages, HoldsMutex, Guarded
  <1>3. Levels /\ Listed /\ Rooted
    BY Apart DEF Init, Levels, Listed, Rooted
  <1>4. InUse /\ Allocating /\ Exclusive /\ Retired
    BY <1>0, IdleFrame DEF Init, InUse, Allocating, Exclusive, Retired, Ends
  <1>5. Registrations
    BY DEF Init, Registrations
  <1> QED BY <1>5, <1>1, <1>2, <1>3, <1>4 DEF Inv

LEMMA InvNext == Inv /\ [Next]_vars => Inv'
  <1> SUFFICES ASSUME Inv, [Next]_vars PROVE Inv'
    OBVIOUS
  <1>1. CASE UNCHANGED vars
    BY <1>1 DEF vars, Inv, TypeOK, Stages, HoldsMutex, Guarded, Levels, Listed, Rooted,
                InUse, Allocating, Making, Exclusive, Ends, Retired, Below, Above, Registrations
  <1>2. ASSUME NEW t \in Threads, Step(t) PROVE Inv'
    BY <1>2, InvLock, InvUnlock, InvAllocBody, InvAllocEdit, InvReleaseBody,
       InvDisconnectClear, InvDescribeBody, InvWorkBody, InvCancelBody, InvDiagBody, InvDropFind,
       InvDropErase DEF Step
  <1> QED BY <1>1, <1>2, InvCalls, InvFreeEnv, InvAnswer DEF Next

-----------------------------------------------------------------------------
(* A handle of a call, and the list it changes, exist: the connection of a
   handle that is freed is above it, and no other call can be freeing it. *)
LEMMA TouchesWhatExists ==
  ASSUME Inv
  PROVE  NoUseAfterFree
  <1> SUFFICES ASSUME NEW t \in Threads PROVE  Touches(t) \subseteq exists
                      /\ RevertsOn(t) \subseteq exists \cup orphaned
    BY DEF NoUseAfterFree
  <1>1. CASE pc[t].at = "idle"
    BY <1>1 DEF Touches, RevertsOn
  <1>2. CASE pc[t].at # "idle"
    <2>1. pc[t].on \in exists
      BY <1>2 DEF Inv, InUse
    <2>2. pc[t].op = "free" => parent[pc[t].on] \in exists
      BY <2>1 DEF Inv, Stages, Rooted
    <2>3. RevertsOn(t) \subseteq exists \cup orphaned
      BY <2>1 DEF RevertsOn, Inv, Registrations
    <2> QED BY <1>2, <2>1, <2>2, <2>3 DEF Touches
  <1> QED BY <1>1, <1>2

LEMMA TwoEditsNeedADrop ==
  ASSUME Inv
  PROVE  OnlyDropsRace
  <1> SUFFICES ASSUME NEW t \in Threads, NEW u \in Threads, t # u,
                      Edits(t) \cap Edits(u) # {}, "free" \notin {pc[t].op, pc[u].op}
               PROVE  FALSE
    BY DEF OnlyDropsRace
  <1>1. \A v \in Threads : pc[v].op # "free" =>
           Edits(v) = {} \/ (Edits(v) = {pc[v].on} /\ Guarded(v))
    BY DEF Edits, Guarded
  <1>2. pc[t].on = pc[u].on /\ Guarded(t) /\ Guarded(u)
    BY <1>1
  <1> QED BY <1>2 DEF Inv, HoldsMutex

LEMMA ListedIsExisting ==
  ASSUME Inv
  PROVE  ListsHoldWhatExists
  <1> SUFFICES ASSUME NEW h \in Handles \ {Env}
               PROVE  h \in exists <=> \/ \E p \in Handles : h \in list[p]
                                       \/ \E t \in Threads : pc[t].makes = h /\ pc[t].at = "edit"
    BY DEF ListsHoldWhatExists
  <1>1. ASSUME NEW p \in Handles, h \in list[p] PROVE h \in exists
    BY <1>1 DEF Inv, Listed
  <1>2. ASSUME NEW t \in Threads, pc[t].makes = h, pc[t].at = "edit" PROVE h \in exists
    <2>1. pc[t].op = "alloc"
      BY <1>2, Apart DEF Inv, Stages
    <2> QED BY <2>1, <1>2 DEF Inv, Allocating, Making
  <1>3. h \in exists => parent[h] \in Handles
    BY Typed DEF Inv, Rooted
  <1> QED BY <1>1, <1>2, <1>3 DEF Inv, Rooted

LEMMA Safe == Spec => []Inv
  BY InvInit, InvNext, PTL DEF Spec

(* The variables keep their types. *)
THEOREM Typing == Spec => []TypeOK
  <1>1. Inv => TypeOK
    BY DEF Inv
  <1> QED BY <1>1, Safe, PTL

(* No call of any thread uses a handle that is destroyed, whatever the order
   of the calls, of the two halves of a free, and of the server's answers. *)
THEOREM HandlesOutliveCalls == Spec => []NoUseAfterFree
  BY TouchesWhatExists, Safe, PTL

(* The lists of a connection or of the environment are changed by two threads
   at once only when one of them drops a handle. *)
THEOREM EditsAreGuarded == Spec => []OnlyDropsRace
  BY TwoEditsNeedADrop, Safe, PTL

(* What is listed exists, and what exists is listed, or about to be. *)
THEOREM ListsAreExact == Spec => []ListsHoldWhatExists
  BY ListedIsExisting, Safe, PTL

-----------------------------------------------------------------------------
(* Diagnostics.  First the copies of a text into a buffer, for every text and
   every length. *)
LEMMA SizesOfText ==
  ASSUME NEW t \in Text
  PROVE  Utf8Size(t) \in Nat /\ Units(t) \in Nat /\ Units(t) <= Utf8Size(t)
  BY DEF Text, Utf8Size, Units

LEMMA ShortIsInt ==
  ASSUME NEW n \in Int
  PROVE  Short(n) \in Int
  BY TextAssumption DEF Short

LEMMA SmallModulo ==
  ASSUME NEW n \in Nat, NEW m \in Nat, n < m
  PROVE  n % m = n
  OBVIOUS

LEMMA ShortOfSmall ==
  ASSUME NEW n \in Nat, n <= MaxShort
  PROVE  Short(n) = n
  <1>1. n + MaxShort + 1 \in Nat /\ 2 * MaxShort + 2 \in Nat /\ n + MaxShort + 1 < 2 * MaxShort + 2
    BY TextAssumption
  <1>2. (n + MaxShort + 1) % (2 * MaxShort + 2) = n + MaxShort + 1
    BY <1>1, SmallModulo
  <1> QED BY <1>2, TextAssumption DEF Short

LEMMA ShortOfMore ==
  ASSUME NEW n \in Nat, n > MaxShort, n < 2 * MaxShort + 2
  PROVE  Short(n) < 0
  <1> DEFINE m == 2 * MaxShort + 2
             k == n - MaxShort - 1
  <1>1. m \in Nat /\ m > 0 /\ k \in Nat /\ k < m /\ n + MaxShort + 1 = k + m
    BY TextAssumption
  <1>2. (k + m) % m = k
    <2> HIDE DEF m, k
    <2> QED BY <1>1
  <1>3. Short(n) = k - MaxShort - 1
    BY <1>1, <1>2 DEF Short
  <1> QED BY <1>3, TextAssumption

(* A length in the type of its caller. *)
LEMMA AsIsInt ==
  ASSUME NEW n \in Int, NEW type
  PROVE  As(type, n) \in Int
  BY ShortIsInt DEF As

LEMMA AsOfSmall ==
  ASSUME NEW n \in Nat, n <= MaxShort, NEW type
  PROVE  As(type, n) = n
  BY ShortOfSmall DEF As

LEMMA AsOfMore ==
  ASSUME NEW n \in Nat, n < 2 * MaxShort + 2, NEW type, As(type, n) >= 0
  PROVE  As(type, n) = n
  <1>1. CASE n <= MaxShort
    BY <1>1, AsOfSmall
  <1>2. CASE ~(n <= MaxShort)
    <2>1. n > MaxShort
      BY <1>2, TextAssumption
    <2>2. Short(n) < 0
      BY <2>1, ShortOfMore
    <2>3. Short(n) \in Int
      BY ShortIsInt
    <2> HIDE DEF Short
    <2> QED BY <2>2, <2>3 DEF As
  <1> QED BY <1>1, <1>2

(* The functions by name, and what each is. *)
TextNames == {"GetInfo", "GetInfoW", "GetDescField", "GetDescFieldW", "GetDescRec",
              "GetDescRecW", "DescribeCol", "DescribeColW", "ColAttribute", "ColAttributeW",
              "DriverConnect", "DriverConnectW", "NativeSql", "NativeSqlW"}
DiagNames == {"GetDiagRec", "GetDiagRecW"}

LEMMA Names == DOMAIN TextFunctions = TextNames /\ DOMAIN DiagFunctions = DiagNames
  BY DEF TextFunctions, DiagFunctions, TextNames, DiagNames

LEMMA KindsOfText == \A f \in TextNames :
     /\ Kind(f) = TextFunctions[f]
     /\ Kind(f).on \in Owners
     /\ Kind(f).warns \in Owners \cup {"none"}
     /\ Kind(f).copy \in {"utf8", "wide", "own", "ownWide"}
     /\ Kind(f).counts = "chars" <=>
          f \in {"GetDescRecW", "DescribeColW", "DriverConnectW", "NativeSqlW"}
     /\ Kind(f).counts # "chars" => Kind(f).counts = "bytes"
     /\ Kind(f).copy = "ownWide" <=> f \in {"DriverConnectW", "NativeSqlW"}
     /\ Kind(f).copy \in {"utf8", "own"} => Kind(f).counts = "bytes"
     /\ Kind(f).warns = "none" => Kind(f).copy \in {"own", "ownWide"}
                                   \/ f \in {"GetDescRec", "GetDescRecW"}
  <1> DEFINE T == TextFunctions
  <1>1. \A f \in TextNames : Kind(f) = T[f]
    BY Names DEF Kind
  <1> HIDE DEF T
  <1>2. \A f \in TextNames : T[f].on \in Owners /\ T[f].warns \in Owners \cup {"none"}
    BY DEF Owners, TextFunctions, Fn, TextNames, T
  <1>3. \A f \in TextNames : T[f].copy \in {"utf8", "wide", "own", "ownWide"}
    BY DEF TextFunctions, Fn, TextNames, T
  <1>4. \A f \in TextNames : T[f].counts = "chars" <=>
          f \in {"GetDescRecW", "DescribeColW", "DriverConnectW", "NativeSqlW"}
    BY DEF TextFunctions, Fn, TextNames, T
  <1>5. \A f \in TextNames : T[f].counts # "chars" => T[f].counts = "bytes"
    BY DEF TextFunctions, Fn, TextNames, T
  <1>6. \A f \in TextNames : T[f].copy = "ownWide" <=> f \in {"DriverConnectW", "NativeSqlW"}
    BY DEF TextFunctions, Fn, TextNames, T
  <1>7. \A f \in TextNames : T[f].copy \in {"utf8", "own"} => T[f].counts = "bytes"
    BY DEF TextFunctions, Fn, TextNames, T
  <1>8. \A f \in TextNames : T[f] = TextFunctions[f]
    BY DEF T
  <1>9. \A f \in TextNames : T[f].warns = "none" =>
          T[f].copy \in {"own", "ownWide"} \/ f \in {"GetDescRec", "GetDescRecW"}
    BY DEF TextFunctions, Fn, TextNames, T
  <1> QED BY <1>1, <1>2, <1>3, <1>4, <1>5, <1>6, <1>7, <1>8, <1>9

LEMMA KindsOfDiag == \A f \in DiagNames :
     /\ Kind(f).warns = "none"
     /\ Kind(f).copy = IF f = "GetDiagRec" THEN "diag" ELSE "diagWide"
     /\ Kind(f).counts = IF f = "GetDiagRec" THEN "bytes" ELSE "chars"
  <1>1. \A f \in DiagNames : Kind(f) = DiagFunctions[f]
    BY Names DEF Kind, TextNames, DiagNames
  <1>2. \A f \in DiagNames : DiagFunctions[f].warns = "none"
    BY DEF DiagFunctions, Fn, DiagNames
  <1>3. \A f \in DiagNames : DiagFunctions[f].copy = IF f = "GetDiagRec" THEN "diag" ELSE "diagWide"
    BY DEF DiagFunctions, Fn, DiagNames
  <1>4. \A f \in DiagNames : DiagFunctions[f].counts = IF f = "GetDiagRec" THEN "bytes" ELSE "chars"
    BY DEF DiagFunctions, Fn, DiagNames
  <1> QED BY <1>1, <1>2, <1>3, <1>4

-----------------------------------------------------------------------------
RoomOf(f, size) == size * IF Wide(f) /\ Kind(f).counts = "chars" THEN WcharSize ELSE 1
TotalOf(f, t) == IF Wide(f) THEN Units(t) ELSE Utf8Size(t)
NegativeSize(f, t, size) ==
    Kind(f).copy = "utf8" /\ (size = 0 \/ As(O(f), Utf8Size(t)) < 0)
NUL(f) == IF Wide(f) /\ Kind(f).counts = "bytes" THEN WcharSize ELSE 1

(* What a copy leaves is a record of numbers and of booleans. *)
LEMMA UnsignedIsInt ==
  ASSUME NEW n \in Int
  PROVE  Unsigned(n) \in Int
  BY TextAssumption DEF Unsigned, Huge

LEMMA WideIsTyped ==
  ASSUME NEW t \in Text, NEW bytes \in Int
  PROVE  ConvertToSqlWChar(t, bytes) \in Outs
  <1> DEFINE n == Units(t) * WcharSize
             copied == Unsigned(Least(n, bytes))
             whole == bytes \div WcharSize
  <1>1. n \in Int /\ whole \in Int /\ Units(t) \in Int
    BY SizesOfText, TextAssumption
  <1>2. Least(n, bytes) \in Int
    BY <1>1 DEF Least
  <1>3. copied \in Int /\ n + WcharSize \in Int
    BY <1>1, <1>2, UnsignedIsInt, TextAssumption
  <1>4. /\ Out(n + WcharSize, Units(t), TRUE, n, FALSE) \in Outs
        /\ Out(copied, whole - 1, TRUE, n, FALSE) \in Outs
        /\ Out(copied, 0, FALSE, n, FALSE) \in Outs
    <2> HIDE DEF n, copied, whole
    <2>1. whole - 1 \in Int
      BY <1>1
    <2> QED BY <1>1, <1>3, <2>1 DEF Out, Outs
  <1> QED BY <1>4 DEF ConvertToSqlWChar

LEMMA OwnWideIsTyped ==
  ASSUME NEW t \in Text, NEW size \in Int
  PROVE  OwnWideCopy(t, size) \in Outs
  <1> DEFINE o == ConvertToSqlWChar(t, Short(size * WcharSize))
             told == Short(o.told) \div WcharSize
  <1>1. o \in Outs
    BY ShortIsInt, WideIsTyped, TextAssumption
  <1>2. Short(o.told) \in Int
    BY <1>1, ShortIsInt DEF Outs
  <1>3. told \in Int
    BY <1>2, TextAssumption
  <1>4. [o EXCEPT !.told = told] \in Outs
    <2> HIDE DEF o, told
    <2> QED BY <1>1, <1>3 DEF Outs
  <1>5. Out(0, 0, FALSE, Utf8Size(t), FALSE) \in Outs
    BY SizesOfText DEF Out, Outs
  <1> QED BY <1>4, <1>5 DEF OwnWideCopy

(* GetAttributeSQLWCHAR is ConvertToSqlWChar but for what it tells. *)
LEMMA WideCopyIs ==
  ASSUME NEW t \in Text, NEW size \in Int, NEW type
  PROVE  LET o == GetAttributeSQLWCHAR(t, size, type)
             c == ConvertToSqlWChar(t, size)
         IN /\ o \in Outs
            /\ o.reach = c.reach /\ o.nul = c.nul /\ o.kept = c.kept
            /\ o.told = As(type, c.told)
            /\ o.info <=> size < (Units(t) + 1) * WcharSize
  <1> DEFINE c == ConvertToSqlWChar(t, size)
             told == As(type, c.told)
             tight == size < (Units(t) + 1) * WcharSize
             o == GetAttributeSQLWCHAR(t, size, type)
  <1>1. c \in Outs
    BY WideIsTyped
  <1>2. told \in Int /\ tight \in BOOLEAN
    <2>1. c.told \in Int
      BY <1>1 DEF Outs
    <2> QED BY <2>1, AsIsInt
  <1>3. o = [c EXCEPT !.told = told, !.info = tight]
    BY DEF GetAttributeSQLWCHAR
  <1>4. /\ o \in Outs /\ o.reach = c.reach /\ o.nul = c.nul /\ o.kept = c.kept
        /\ o.told = told /\ o.info = tight
    <2> HIDE DEF c, told, tight, o
    <2> QED BY <1>1, <1>2, <1>3 DEF Outs
  <1> QED BY <1>4

LEMMA CopyByIsTyped ==
  ASSUME NEW f \in TextNames \cup DiagNames, NEW t \in Text, NEW size \in Int
  PROVE  CopyBy(f, t, size) \in Outs
  <1>0. /\ Utf8Size(t) \in Nat /\ Units(t) \in Nat
        /\ WcharSize \in Int
    BY SizesOfText, TextAssumption
  <1>1. GetAttributeUTF8(t, size, O(f)) \in Outs
    <2> DEFINE n == Utf8Size(t)
               before == Least(As(O(f), n), As(O(f), size - 1))
               after == Unsigned(before)
               told == As(O(f), n)
    <2>1. told \in Int /\ As(O(f), size - 1) \in Int
      BY <1>0, AsIsInt
    <2>2. before \in Int
      BY <2>1 DEF Least
    <2>3. after \in Int /\ after + 1 \in Int
      BY <2>2, UnsignedIsInt
    <2>4. Out(after + 1, after, before >= 0, told, size < n + 1) \in Outs
      <3>1. (before >= 0) \in BOOLEAN /\ (size < n + 1) \in BOOLEAN
        OBVIOUS
      <3> HIDE DEF before, after, told, n
      <3> QED BY <2>1, <2>3, <3>1 DEF Out, Outs
    <2> QED BY <2>4 DEF GetAttributeUTF8
  <1>2. GetAttributeSQLWCHAR(t, size, O(f)) \in Outs
    BY WideCopyIs
  <1>3. OwnCopy(t, size) \in Outs
    <2>1. Least(size - 1, Utf8Size(t)) \in Int
      BY <1>0 DEF Least
    <2>2. /\ Out(Least(size - 1, Utf8Size(t)) + 1, Least(size - 1, Utf8Size(t)), TRUE,
                 Utf8Size(t), FALSE) \in Outs
          /\ Out(0, 0, FALSE, Utf8Size(t), FALSE) \in Outs
      BY <1>0, <2>1 DEF Out, Outs
    <2> QED BY <2>2 DEF OwnCopy
  <1>4. OwnWideCopy(t, size) \in Outs
    BY OwnWideIsTyped
  <1>5. DiagRecCopy(t, size) \in Outs
    <2> DEFINE o == OwnCopy(t, size)
    <2>1. [o EXCEPT !.info = size > 0 /\ size <= Utf8Size(t)] \in Outs
      <3> HIDE DEF o
      <3>1. o \in Outs
        BY <1>3 DEF o
      <3> QED BY <3>1 DEF Outs
    <2> QED BY <2>1 DEF DiagRecCopy
  <1>6. DiagRecWideCopy(t, size) \in Outs
    <2> DEFINE o == OwnWideCopy(t, size)
    <2>1. [o EXCEPT !.info = size > 0 /\ size < Utf8Size(t) + 1] \in Outs
      <3> HIDE DEF o
      <3>1. o \in Outs
        BY <1>4 DEF o
      <3> QED BY <3>1 DEF Outs
    <2> QED BY <2>1 DEF DiagRecWideCopy
  <1>7. Kind(f).copy \in {"utf8", "wide", "own", "ownWide", "diag", "diagWide"}
    BY KindsOfText, KindsOfDiag
  <1> QED BY <1>1, <1>2, <1>3, <1>4, <1>5, <1>6, <1>7 DEF CopyBy

(* The length a function tells is cast once more to the type it has there. *)
LEMMA CopyIs ==
  ASSUME NEW f \in TextNames \cup DiagNames, NEW t \in Text, NEW size \in Int
  PROVE  LET o == Copy(f, t, size)
             c == CopyBy(f, t, size)
         IN /\ o \in Outs /\ c \in Outs
            /\ o.reach = c.reach /\ o.nul = c.nul /\ o.kept = c.kept /\ o.info = c.info
            /\ o.told = As(Kind(f).tells, c.told)
  <1> DEFINE c == CopyBy(f, t, size)
             told == As(Kind(f).tells, c.told)
             o == Copy(f, t, size)
  <1>1. c \in Outs
    BY CopyByIsTyped
  <1>2. told \in Int
    <2>1. c.told \in Int
      BY <1>1 DEF Outs
    <2> QED BY <2>1, AsIsInt
  <1>3. o = [c EXCEPT !.told = told]
    BY DEF Copy
  <1>4. /\ o \in Outs /\ o.reach = c.reach /\ o.nul = c.nul /\ o.kept = c.kept
        /\ o.info = c.info /\ o.told = told
    <2> HIDE DEF c, told, o
    <2> QED BY <1>1, <1>2, <1>3 DEF Outs
  <1> QED BY <1>1, <1>4

LEMMA CopyIsTyped ==
  ASSUME NEW f \in TextNames \cup DiagNames, NEW t \in Text, NEW size \in Int
  PROVE  Copy(f, t, size) \in Outs
  BY CopyIs

(* What a copy says of the text, and where it stops, for a buffer of one and
   more whose length does not overflow. *)
LEMMA Utf8Fits ==
  ASSUME NEW t \in Text, NEW size \in Int, size > 0, size <= MaxShort,
         NEW type, As(type, Utf8Size(t)) >= 0
  PROVE  LET o == GetAttributeUTF8(t, size, type) IN
         /\ o.reach <= size /\ o.nul
         /\ o.kept < Utf8Size(t) => o.info
         /\ size > Utf8Size(t) => o.kept = Utf8Size(t)
  <1> DEFINE n == Utf8Size(t)
             told == As(type, n)
             before == Least(told, size - 1)
             o == GetAttributeUTF8(t, size, type)
  <1>1. n \in Nat /\ told \in Int /\ told >= 0
    BY SizesOfText, AsIsInt
  <1>2. size > n => told = n
    <2>1. size > n => n <= MaxShort
      BY <1>1, TextAssumption
    <2> QED BY <1>1, <2>1, AsOfSmall
  <1>3. As(type, size - 1) = size - 1
    <2>1. size - 1 \in Nat /\ size - 1 <= MaxShort
      BY TextAssumption
    <2> QED BY <2>1, AsOfSmall
  <1>4. o = Out(before + 1, before, TRUE, told, size < n + 1)
    <2>1. before \in Int /\ before >= 0
      BY <1>1 DEF Least
    <2>2. Unsigned(before) = before
      BY <2>1 DEF Unsigned
    <2> QED BY <1>3, <2>1, <2>2 DEF GetAttributeUTF8
  <1>5. o.reach = before + 1 /\ o.kept = before /\ o.nul /\ (o.info <=> size < n + 1)
    <2> HIDE DEF o, before, told, n
    <2> QED BY <1>4 DEF Out
  <1>6. before <= size - 1 /\ (size > n => before = n) /\ before \in Int
    <2> HIDE DEF told, n
    <2> QED BY <1>1, <1>2 DEF Least
  <1> HIDE DEF o, before, told
  <1> QED BY <1>1, <1>5, <1>6 DEF o

LEMMA WideFits ==
  ASSUME NEW t \in Text, NEW bytes \in Int, bytes >= 0
  PROVE  LET o == ConvertToSqlWChar(t, bytes) IN
         /\ o.reach <= bytes /\ o.told = Units(t) * WcharSize
         /\ bytes >= WcharSize => o.nul
         /\ o.kept < Units(t) => bytes < (Units(t) + 1) * WcharSize
         /\ bytes >= (Units(t) + 1) * WcharSize => o.kept = Units(t)
  <1>1. CASE WcharSize = 2
    BY <1>1, SizesOfText DEF ConvertToSqlWChar, Out, Unsigned, Least
  <1>2. CASE WcharSize = 4
    BY <1>2, SizesOfText DEF ConvertToSqlWChar, Out, Unsigned, Least
  <1> QED BY <1>1, <1>2, TextAssumption

LEMMA OwnFits ==
  ASSUME NEW t \in Text, NEW size \in Int, size >= 0
  PROVE  LET o == OwnCopy(t, size) IN
         /\ o.reach <= size /\ o.told = Utf8Size(t)
         /\ size > 0 => o.nul
         /\ o.kept < Utf8Size(t) => size <= Utf8Size(t)
         /\ size > Utf8Size(t) => o.kept = Utf8Size(t)
  BY SizesOfText DEF OwnCopy, Out, Least

LEMMA OwnWideOfNone ==
  ASSUME NEW t \in Text
  PROVE  LET o == OwnWideCopy(t, 0) IN o.reach = 0 /\ o.told = Utf8Size(t)
  BY DEF OwnWideCopy, Out

LEMMA OwnWideFits ==
  ASSUME NEW t \in Text, NEW size \in Int, size > 0, size * WcharSize <= MaxShort
  PROVE  LET o == OwnWideCopy(t, size) IN
         /\ o.reach <= size * WcharSize /\ o.nul
         /\ o.kept < Units(t) => size < Units(t) + 1
         /\ size >= Units(t) + 1 => o.kept = Units(t)
  <1> DEFINE bytes == size * WcharSize
             o == ConvertToSqlWChar(t, bytes)
  <1>1. bytes \in Nat /\ bytes >= WcharSize /\ Short(bytes) = bytes
    <2>1. bytes \in Nat /\ bytes >= WcharSize
      BY TextAssumption
    <2> QED BY <2>1, ShortOfSmall
  <1>2. OwnWideCopy(t, size) = [o EXCEPT !.told = Short(@) \div WcharSize]
    BY <1>1 DEF OwnWideCopy
  <1>3. o \in Outs
    BY <1>1, WideIsTyped
  <1>4. /\ OwnWideCopy(t, size).reach = o.reach
        /\ OwnWideCopy(t, size).kept = o.kept
        /\ OwnWideCopy(t, size).nul = o.nul
    <2> HIDE DEF o
    <2> QED BY <1>2, <1>3 DEF Outs
  <1>5. /\ o.reach <= bytes /\ o.nul
        /\ o.kept < Units(t) => bytes < (Units(t) + 1) * WcharSize
        /\ bytes >= (Units(t) + 1) * WcharSize => o.kept = Units(t)
    BY <1>1, WideFits
  <1>6. /\ bytes < (Units(t) + 1) * WcharSize => size < Units(t) + 1
        /\ size >= Units(t) + 1 => bytes >= (Units(t) + 1) * WcharSize
    BY TextAssumption, SizesOfText
  <1> HIDE DEF o
  <1> QED BY <1>4, <1>5, <1>6

(* The length a wide copy tells, when it does not overflow. *)
LEMMA OwnWideTells ==
  ASSUME NEW t \in Text, NEW size \in Int, size > 0, Units(t) * WcharSize <= MaxShort
  PROVE  OwnWideCopy(t, size).told = Units(t)
  <1> DEFINE bytes == Short(size * WcharSize)
             o == ConvertToSqlWChar(t, bytes)
  <1>1. bytes \in Int
    BY ShortIsInt, TextAssumption
  <1>2. o.told = Units(t) * WcharSize /\ o \in Outs
    BY <1>1, WideIsTyped DEF ConvertToSqlWChar, Out
  <1>3. Short(Units(t) * WcharSize) = Units(t) * WcharSize
    BY ShortOfSmall, SizesOfText, TextAssumption
  <1>4. (Units(t) * WcharSize) \div WcharSize = Units(t)
    <2>1. CASE WcharSize = 2
      BY <2>1, SizesOfText
    <2>2. CASE WcharSize = 4
      BY <2>2, SizesOfText
    <2> QED BY <2>1, <2>2, TextAssumption
  <1>5. OwnWideCopy(t, size) = [o EXCEPT !.told = Short(@) \div WcharSize]
    BY DEF OwnWideCopy
  <1> HIDE DEF o
  <1> QED BY <1>2, <1>3, <1>4, <1>5 DEF Outs

-----------------------------------------------------------------------------
(* The same for each of the functions, in the terms of the properties. *)
LEMMA WideNames ==
  \A f \in TextNames \cup DiagNames : Wide(f) <=> Kind(f).copy \in {"wide", "ownWide", "diagWide"}
  BY DEF Wide

LEMMA CopyFits ==
  ASSUME NEW f \in TextNames \cup DiagNames, NEW t \in Text, NEW size \in Int,
         size >= 0, RoomOf(f, size) <= MaxShort, ~NegativeSize(f, t, size),
         NEW o, o = CopyBy(f, t, size)
  PROVE  /\ o.reach <= RoomOf(f, size)
         /\ size >= (IF Wide(f) THEN WcharSize ELSE 1) => o.nul
         /\ o.kept < TotalOf(f, t) /\ (f \in DiagNames => size > 0)
              => Kind(f).copy \in {"own", "ownWide"} \/ o.info
  <1>0. Kind(f).copy \in {"utf8", "wide", "own", "ownWide", "diag", "diagWide"}
    BY KindsOfText, KindsOfDiag
  <1>1. CASE Kind(f).copy = "utf8"
    <2>1. o = GetAttributeUTF8(t, size, O(f)) /\ ~Wide(f)
      BY <1>1 DEF CopyBy, Wide
    <2>2. size > 0 /\ As(O(f), Utf8Size(t)) >= 0
      <3>1. As(O(f), Utf8Size(t)) \in Int
        BY SizesOfText, AsIsInt
      <3> QED BY <1>1, <3>1 DEF NegativeSize
    <2>3. RoomOf(f, size) = size /\ TotalOf(f, t) = Utf8Size(t)
      BY <2>1 DEF RoomOf, TotalOf
    <2>4. /\ o.reach <= size /\ o.nul /\ (o.kept < Utf8Size(t) => o.info)
      BY <2>1, <2>2, <2>3, Utf8Fits
    <2> QED BY <2>3, <2>4
  <1>2. CASE Kind(f).copy = "wide"
    <2>1. o = GetAttributeSQLWCHAR(t, size, O(f)) /\ Wide(f)
      BY <1>2 DEF CopyBy, Wide
    <2>2. size <= RoomOf(f, size) /\ RoomOf(f, size) \in Int
      BY TextAssumption DEF RoomOf
    <2> DEFINE c == ConvertToSqlWChar(t, size)
    <2>3. c \in Outs /\ c.reach <= size /\ (size >= WcharSize => c.nul)
          /\ (c.kept < Units(t) => size < (Units(t) + 1) * WcharSize)
      BY WideIsTyped, WideFits
    <2>4. /\ o.reach = c.reach /\ o.nul = c.nul /\ o.kept = c.kept
          /\ o.info <=> size < (Units(t) + 1) * WcharSize
      BY <2>1, WideCopyIs
    <2> HIDE DEF c
    <2> QED BY <2>1, <2>2, <2>3, <2>4 DEF TotalOf, Outs
  <1>3. CASE Kind(f).copy = "own"
    <2>1. o = OwnCopy(t, size) /\ ~Wide(f)
      BY <1>3 DEF CopyBy, Wide
    <2> QED BY <2>1, <1>3, OwnFits DEF RoomOf, TotalOf
  <1>4. CASE Kind(f).copy = "ownWide"
    <2>1. o = OwnWideCopy(t, size) /\ Wide(f) /\ Kind(f).counts = "chars"
      BY <1>4, KindsOfText, KindsOfDiag DEF CopyBy, Wide
    <2>2. RoomOf(f, size) = size * WcharSize
      BY <2>1 DEF RoomOf
    <2>3. CASE size = 0
      BY <2>1, <2>2, <2>3, <1>4, OwnWideOfNone, TextAssumption
    <2>4. CASE size > 0
      BY <2>1, <2>2, <2>4, <1>4, OwnWideFits DEF TotalOf
    <2> QED BY <2>3, <2>4
  <1>5. CASE Kind(f).copy = "diag"
    <2> DEFINE c == OwnCopy(t, size)
    <2>1. o = [c EXCEPT !.info = size > 0 /\ size <= Utf8Size(t)] /\ ~Wide(f)
      BY <1>5 DEF CopyBy, Wide, DiagRecCopy
    <2>2. \/ c = Out(Least(size - 1, Utf8Size(t)) + 1, Least(size - 1, Utf8Size(t)), TRUE,
                     Utf8Size(t), FALSE)
          \/ c = Out(0, 0, FALSE, Utf8Size(t), FALSE)
      BY DEF OwnCopy
    <2>3. o.reach = c.reach /\ o.nul = c.nul /\ o.kept = c.kept
      BY <2>1, <2>2 DEF Out
    <2>4. o.info <=> size > 0 /\ size <= Utf8Size(t)
      BY <2>1, <2>2 DEF Out
    <2> HIDE DEF c
    <2>5. c.reach <= size /\ (size > 0 => c.nul) /\ (c.kept < Utf8Size(t) => size <= Utf8Size(t))
      BY OwnFits DEF c
    <2>6. f \in DiagNames
      BY <1>5, KindsOfText
    <2> QED BY <2>1, <2>3, <2>4, <2>5, <2>6 DEF RoomOf, TotalOf
  <1>6. CASE Kind(f).copy = "diagWide"
    <2> DEFINE c == OwnWideCopy(t, size)
    <2>1. o = [c EXCEPT !.info = size > 0 /\ size < Utf8Size(t) + 1]
          /\ Wide(f) /\ Kind(f).counts = "chars"
      BY <1>6, KindsOfText, KindsOfDiag DEF CopyBy, Wide, DiagRecWideCopy
    <2>2. RoomOf(f, size) = size * WcharSize
      BY <2>1 DEF RoomOf
    <2>3. CASE size = 0
      <3>1. c = Out(0, 0, FALSE, Utf8Size(t), FALSE)
        BY <2>3 DEF OwnWideCopy
      <3>2. o.reach = 0
        BY <2>1, <3>1 DEF Out
      <3>3. f \in DiagNames
        BY <1>6, KindsOfText
      <3> QED BY <2>1, <2>2, <2>3, <3>2, <3>3, TextAssumption
    <2>4. CASE size > 0
      <3>1. c.reach <= size * WcharSize /\ c.nul /\ (c.kept < Units(t) => size < Units(t) + 1)
        BY <2>2, <2>4, OwnWideFits
      <3>2. c \in Outs
        BY OwnWideIsTyped
      <3> HIDE DEF c
      <3>3. o.reach = c.reach /\ o.nul = c.nul /\ o.kept = c.kept
        BY <2>1, <3>2 DEF Outs
      <3>4. o.info <=> size > 0 /\ size < Utf8Size(t) + 1
        BY <2>1, <3>2 DEF Outs
      <3>5. c.kept \in Int
        BY <3>2 DEF Outs
      <3> QED BY <2>1, <2>2, <2>4, <3>1, <3>3, <3>4, <3>5, SizesOfText DEF TotalOf
    <2> QED BY <2>3, <2>4
  <1> QED BY <1>0, <1>1, <1>2, <1>3, <1>4, <1>5, <1>6

CountsBytes == {"DescribeColW", "GetDescRecW"}

(* Room for the length a first call told is room for the text. *)
LEMMA RetryFits ==
  ASSUME NEW f \in (TextNames \cup DiagNames) \ CountsBytes, NEW t \in Text,
         NEW first \in Int, first >= 0, NEW size \in Int,
         Copy(f, t, first).told >= 0, size = Copy(f, t, first).told + NUL(f),
         RoomOf(f, size) <= MaxShort, (TotalOf(f, t) + 1) * WcharSize <= MaxShort
  PROVE  Copy(f, t, size).kept = TotalOf(f, t)
  <1> DEFINE told == CopyBy(f, t, first).told
             n == Utf8Size(t)
  <1>0. Kind(f).copy \in {"utf8", "wide", "own", "ownWide", "diag", "diagWide"}
    BY KindsOfText, KindsOfDiag
  <1>1. Copy(f, t, first).told = As(Kind(f).tells, told)
    BY CopyIs
  <1>2. Copy(f, t, size).kept = CopyBy(f, t, size).kept
    BY CopyIs
  <1>3. n \in Nat /\ Units(t) \in Nat /\ Units(t) <= n /\ n <= 4 * Units(t)
    BY SizesOfText DEF Text, Utf8Size, Units
  <1>4. /\ TotalOf(f, t) \in Nat /\ TotalOf(f, t) + 1 <= MaxShort
        /\ 2 * TotalOf(f, t) + 2 <= MaxShort
    <2>1. TotalOf(f, t) \in Nat
      BY <1>3 DEF TotalOf
    <2> QED BY <2>1, TextAssumption
  <1> HIDE DEF n
  <1>5. ASSUME ~Wide(f), told = n PROVE size = n + 1 /\ size > 0 /\ size <= MaxShort /\ n <= MaxShort
    <2>1. TotalOf(f, t) = n /\ NUL(f) = 1
      BY <1>5 DEF TotalOf, NUL, n
    <2>2. n <= MaxShort /\ n + 1 <= MaxShort
      BY <1>3, <1>4, <2>1, TextAssumption
    <2>3. As(Kind(f).tells, n) = n
      BY <1>3, <2>2, AsOfSmall
    <2>4. size = n + 1
      BY <1>1, <1>5, <2>1, <2>3
    <2> QED BY <1>3, <2>2, <2>4
  <1>6. CASE Kind(f).copy = "utf8"
    <2>1. ~Wide(f)
      BY <1>6 DEF Wide
    <2>2. n <= MaxShort
      <3>1. TotalOf(f, t) = n
        BY <2>1 DEF TotalOf, n
      <3> QED BY <1>3, <1>4, <3>1, TextAssumption
    <2>3. As(O(f), n) = n
      BY <1>3, <2>2, AsOfSmall
    <2>4. told = As(O(f), n)
      BY <1>6 DEF CopyBy, GetAttributeUTF8, Out, n
    <2>5. size = n + 1 /\ size > 0 /\ size <= MaxShort
      BY <1>5, <2>1, <2>3, <2>4
    <2>6. GetAttributeUTF8(t, size, O(f)).kept = n
      BY <1>3, <2>3, <2>5, Utf8Fits DEF n
    <2> QED BY <1>2, <1>6, <2>1, <2>6 DEF CopyBy, TotalOf, n
  <1>7. CASE Kind(f).copy = "wide"
    <2>1. Wide(f) /\ Kind(f).counts = "bytes"
      BY <1>7, KindsOfText, KindsOfDiag DEF Wide, CountsBytes
    <2> DEFINE bytes == Units(t) * WcharSize
    <2>2. bytes \in Nat /\ bytes <= MaxShort /\ bytes + WcharSize = (Units(t) + 1) * WcharSize
      BY <1>3, <2>1, TextAssumption DEF TotalOf
    <2>3. told = As(O(f), bytes)
      BY <1>7, WideCopyIs, WideFits DEF CopyBy
    <2>4. As(Kind(f).tells, told) = bytes
      <3> HIDE DEF bytes, told
      <3> QED BY <2>2, <2>3, AsOfSmall
    <2>5. size = (Units(t) + 1) * WcharSize /\ size >= 0
      BY <1>1, <2>1, <2>2, <2>4, TextAssumption DEF NUL
    <2>6. GetAttributeSQLWCHAR(t, size, O(f)).kept = Units(t)
      BY <2>5, WideFits, WideCopyIs
    <2> QED BY <1>2, <1>7, <2>1, <2>6 DEF CopyBy, TotalOf
  <1>8. CASE Kind(f).copy = "own"
    <2>1. ~Wide(f)
      BY <1>8 DEF Wide
    <2>2. told = n
      BY <1>8, OwnFits DEF CopyBy, n
    <2>3. size = n + 1 /\ size > 0
      BY <1>5, <2>1, <2>2
    <2>4. OwnCopy(t, size).kept = n
      BY <1>3, <2>3, OwnFits DEF n
    <2> QED BY <1>2, <1>8, <2>1, <2>4 DEF CopyBy, TotalOf, n
  <1>9. CASE Kind(f).copy = "diag"
    <2>1. ~Wide(f)
      BY <1>9 DEF Wide
    <2>2. \A k \in Int : /\ DiagRecCopy(t, k).told = OwnCopy(t, k).told
                         /\ DiagRecCopy(t, k).kept = OwnCopy(t, k).kept
      BY DEF DiagRecCopy, OwnCopy, Out
    <2>3. told = n
      BY <1>9, <2>2, OwnFits DEF CopyBy, n
    <2>4. size = n + 1 /\ size > 0
      BY <1>5, <2>1, <2>3
    <2>5. OwnCopy(t, size).kept = n
      BY <1>3, <2>4, OwnFits DEF n
    <2> QED BY <1>2, <1>9, <2>1, <2>2, <2>5 DEF CopyBy, TotalOf, n
  <1>10. ASSUME Kind(f).copy \in {"ownWide", "diagWide"}, told = OwnWideCopy(t, first).told
         PROVE  Wide(f) /\ OwnWideCopy(t, size).kept = Units(t)
    <2>1. Wide(f) /\ Kind(f).counts = "chars"
      BY <1>10, KindsOfText, KindsOfDiag DEF Wide
    <2>2. TotalOf(f, t) = Units(t) /\ NUL(f) = 1
      BY <2>1 DEF TotalOf, NUL
    <2>3. Units(t) * WcharSize <= MaxShort
      BY <1>3, <2>2, TextAssumption
    <2>4. told \in {Units(t), n}
      BY <1>10, <2>3, OwnWideTells, OwnWideOfNone DEF n
    <2> HIDE DEF told
    <2>5. told \in Nat /\ told >= Units(t) /\ told < 2 * MaxShort + 2
      <3>1. Units(t) + 1 <= MaxShort /\ 2 * Units(t) + 2 <= MaxShort
        BY <1>4, <2>2
      <3>2. n <= 4 * Units(t) /\ 4 * Units(t) < 2 * MaxShort + 2
        BY <1>3, <3>1, TextAssumption
      <3> QED BY <1>3, <2>4, <3>1, <3>2, TextAssumption
    <2>6. size = told + 1
      BY <1>1, <2>2, <2>5, AsOfMore
    <2>7. size > 0 /\ size >= Units(t) + 1 /\ size * WcharSize <= MaxShort
      <3>1. RoomOf(f, size) = size * WcharSize
        BY <2>1 DEF RoomOf
      <3> QED BY <1>3, <2>5, <2>6, <3>1
    <2> QED BY <2>1, <2>7, OwnWideFits
  <1>11. CASE Kind(f).copy = "ownWide"
    BY <1>2, <1>10, <1>11 DEF CopyBy, TotalOf
  <1>12. CASE Kind(f).copy = "diagWide"
    <2> DEFINE c(k) == OwnWideCopy(t, k)
    <2>1. \A k \in Int : c(k) \in Outs
      BY OwnWideIsTyped
    <2>2. \A k \in Int : DiagRecWideCopy(t, k) = [c(k) EXCEPT !.info = k > 0 /\ k < Utf8Size(t) + 1]
      BY DEF DiagRecWideCopy
    <2> HIDE DEF c
    <2>3. \A k \in Int : /\ DiagRecWideCopy(t, k).told = c(k).told
                         /\ DiagRecWideCopy(t, k).kept = c(k).kept
      <3>1. ASSUME NEW k \in Int
            PROVE  /\ DiagRecWideCopy(t, k).told = c(k).told
                   /\ DiagRecWideCopy(t, k).kept = c(k).kept
        <4> DEFINE d == c(k)
                   info == k > 0 /\ k < Utf8Size(t) + 1
        <4>1. d \in Outs /\ DiagRecWideCopy(t, k) = [d EXCEPT !.info = info]
          BY <2>1, <2>2
        <4> HIDE DEF d, info
        <4>2. [d EXCEPT !.info = info].told = d.told /\ [d EXCEPT !.info = info].kept = d.kept
          BY <4>1 DEF Outs
        <4> QED BY <4>1, <4>2 DEF d
      <3> QED BY <3>1
    <2>4. told = c(first).told
      BY <1>12, <2>3 DEF CopyBy
    <2> QED BY <1>2, <1>10, <1>12, <2>3, <2>4 DEF CopyBy, TotalOf, c
  <1> QED BY <1>0, <1>6, <1>7, <1>8, <1>9, <1>11, <1>12

-----------------------------------------------------------------------------
(* What the last call returned is a copy of the text, a second call asked for
   what a first one told, and a copy that says it is cut makes the call say so. *)
Silent == {"own", "ownWide"}
ToldBefore(f, t, size) ==
    \E first \in Int : /\ first >= 0 /\ Copy(f, t, first).told >= 0
                       /\ size = Copy(f, t, first).told + NUL(f)
Given ==
    GaveText \/ last.returned.retry =>
      /\ last.fn \in TextNames \cup DiagNames
      /\ last.returned.out = Copy(last.fn, last.returned.text, last.returned.size)
      /\ last.returned.retry =>
           ToldBefore(last.fn, last.returned.text, last.returned.size)
      /\ last.returned.out.info /\ Kind(last.fn).warns \in {last.on, "none"}
         /\ Kind(last.fn).copy \notin Silent /\ last.fn \notin {"GetDescRec", "GetDescRecW"}
         => last.rc = "SUCCESS_WITH_INFO"

(* And what was passed in was read in the way of the function. *)
ExecNames == {"ExecDirect", "ExecDirectW", "ExecDirectWCounted"}
ReadBy(f, t) == CASE f = "ExecDirect"         -> SqlCharToString(t, Utf8Size(t))
                  [] f = "ExecDirectW"        -> SqlWCharToString(t, SQL_NTS)
                  [] f = "ExecDirectWCounted" -> SqlWCharToString(t, Units(t))
Passed == last.fn \in ExecNames => last.returned.out.told = ReadBy(last.fn, last.returned.text)

DiagnosticsInv == DiagnosticsTypeOK /\ FirstRecordExplains /\ Given /\ Passed

(* The records of one call: errors and warnings where they belong, in the words
   of the version. *)
RecordLists == [errors : Seq(Records), warnings : Seq(Records)]
Sorted(h, records) ==
    /\ records \in RecordLists
    /\ records.errors # <<>> =>
         /\ ~IsWarning(records.errors[1])
         /\ records.errors[1].state \in StatesOf(version_[h])
    /\ records.warnings # <<>> => IsWarning(records.warnings[1])

Texted == {"Function", "Unsupported", "SetEnvAttr", "ExecDirect", "ExecDirectW",
           "ExecDirectWCounted"} \cup TextNames
ReturnedTexts == [text : Text, size : Int, out : Outs, retry : BOOLEAN]

LEMMA FunctionNames ==
  /\ Functions = TextNames \cup DiagNames \cup
       {"none", "Function", "Unsupported", "SetEnvAttr", "Untracked",
        "ExecDirect", "ExecDirectW", "ExecDirectWCounted"}
  /\ \A f \in Texted : f \in Functions /\ f \notin {"none", "Untracked"} \cup DiagNames
  BY Names DEF Functions, Texted, TextNames, DiagNames

LEMMA NothingPassed ==
  (TextNames \cup DiagNames \cup {"none", "Function", "Unsupported", "SetEnvAttr", "Untracked"})
     \cap ExecNames = {}
  BY DEF TextNames, DiagNames, ExecNames

LEMMA NoTextTyped == NoText \in ReturnedTexts /\ NoText.size = -1 /\ ~NoText.retry
  BY DEF NoText, ReturnedTexts, Out, Outs, Ascii, Text

LEMMA NoRecordsSorted == \A h \in Owners : Sorted(h, NoRecords)
  BY DEF Sorted, NoRecords, RecordLists

LEMMA WarnedSorted ==
  ASSUME NEW h \in Owners, NEW yes \in BOOLEAN
  PROVE  /\ Sorted(h, Warned(yes))
         /\ Warned(yes).errors = <<>>
         /\ Warned(yes).warnings # <<>> <=> yes
  <1>1. TRUNCATION_WARNING \in Records /\ IsWarning(TRUNCATION_WARNING)
    BY DEF TRUNCATION_WARNING, Records, States, StatesOf, Text, Ascii, IsWarning
  <1>2. Warned(TRUE) = [errors |-> <<>>, warnings |-> <<TRUNCATION_WARNING>>]
    BY <1>1 DEF Warned, TrackRecord, NoRecords
  <1>3. CASE yes
    <2> DEFINE w == <<TRUNCATION_WARNING>>
    <2>1. w \in Seq(Records) /\ w # <<>> /\ w[1] = TRUNCATION_WARNING
      BY <1>1
    <2>2. Warned(yes) = [errors |-> <<>>, warnings |-> w]
      BY <1>2, <1>3
    <2> HIDE DEF w
    <2>3. [errors |-> <<>>, warnings |-> w] \in RecordLists
      BY <2>1 DEF RecordLists
    <2>4. Warned(yes).errors = <<>> /\ Warned(yes).warnings = w
      BY <2>2
    <2>5. Sorted(h, Warned(yes))
      BY <1>1, <2>1, <2>2, <2>3, <2>4 DEF Sorted
    <2>6. Warned(yes).warnings # <<>> <=> yes
      BY <1>3, <2>1, <2>4
    <2> QED BY <2>4, <2>5, <2>6
  <1>4. CASE ~yes
    <2>1. Warned(yes) = NoRecords
      BY <1>4 DEF Warned
    <2>2. NoRecords.errors = <<>> /\ NoRecords.warnings = <<>>
      BY DEF NoRecords
    <2>3. Sorted(h, NoRecords)
      BY NoRecordsSorted
    <2> QED BY <1>4, <2>1, <2>2, <2>3
  <1> QED BY <1>3, <1>4

LEMMA TrackedSorted ==
  ASSUME NEW h \in Owners, NEW yes \in BOOLEAN, NEW state \in {"HY000", "07009", "HYC00", "01S02"},
         NEW t \in Text, version_ \in [Owners -> {V_2, V_3}],
         NEW records, records = TrackRecord(Warned(yes), RecordOf(h, state, t))
  PROVE  /\ Sorted(h, records)
         /\ state # "01S02" => records.errors # <<>>
         /\ state = "01S02" => records.errors = <<>> /\ records.warnings # <<>>
  <1> DEFINE w == Warned(yes)
             r == RecordOf(h, state, t)
  <1>1. r \in Records
    BY DEF RecordOf, Records, States, StatesOf, HY, Rewritten, V_2, V_3
  <1>2. IsWarning(r) <=> state = "01S02"
    BY DEF RecordOf, IsWarning, Rewritten
  <1>3. r.state \in StatesOf(version_[h])
    BY DEF RecordOf, Rewritten, StatesOf, HY, V_2, V_3
  <1>4. Sorted(h, w) /\ w.errors = <<>>
    BY WarnedSorted
  <1> HIDE DEF w, r
  <1>5. w \in RecordLists /\ (w.warnings # <<>> => IsWarning(w.warnings[1]))
    BY <1>4 DEF Sorted
  <1>6. CASE state = "01S02"
    <2>1. records = [w EXCEPT !.warnings = Append(@, r)]
      BY <1>2, <1>6 DEF TrackRecord, w, r
    <2> DEFINE s == Append(w.warnings, r)
    <2>2. s \in Seq(Records) /\ s # <<>>
      BY <1>1, <1>5 DEF RecordLists
    <2>3. IsWarning(s[1])
      <3>1. CASE w.warnings = <<>>
        BY <1>1, <1>2, <1>6, <3>1
      <3>2. CASE w.warnings # <<>>
        <4>1. s[1] = w.warnings[1]
          BY <1>1, <1>5, <3>2 DEF RecordLists
        <4> QED BY <4>1, <1>5, <3>2
      <3> QED BY <3>1, <3>2
    <2>4. records.errors = <<>> /\ records.warnings = s /\ records \in RecordLists
      <3> HIDE DEF s
      <3>1. records = [w EXCEPT !.warnings = s]
        BY <2>1 DEF s
      <3> QED BY <3>1, <2>2, <1>4, <1>5 DEF RecordLists
    <2> HIDE DEF s
    <2> QED BY <1>6, <2>2, <2>3, <2>4 DEF Sorted
  <1>7. CASE state # "01S02"
    <2>1. records = [w EXCEPT !.errors = <<r>>]
      BY <1>2, <1>4, <1>7 DEF TrackRecord, w, r
    <2>2. <<r>> \in Seq(Records) /\ <<r>> # <<>> /\ <<r>>[1] = r
      BY <1>1
    <2>3. records.errors = <<r>> /\ records.warnings = w.warnings /\ records \in RecordLists
      BY <2>1, <2>2, <1>5 DEF RecordLists
    <2> QED BY <1>2, <1>3, <1>5, <1>7, <2>2, <2>3 DEF Sorted
  <1> QED BY <1>6, <1>7

LEMMA FirstOfBoth ==
  ASSUME NEW errors \in Seq(Records), NEW warnings \in Seq(Records)
  PROVE  /\ errors # <<>> => (errors \o warnings)[1] = errors[1] /\ Len(errors) + Len(warnings) > 0
         /\ errors = <<>> /\ warnings # <<>> =>
               (errors \o warnings)[1] = warnings[1] /\ Len(errors) + Len(warnings) > 0
         /\ errors = <<>> /\ warnings = <<>> => Len(errors) + Len(warnings) = 0
  <1>1. CASE errors # <<>>
    <2>1. Len(errors) \in Nat /\ Len(errors) > 0 /\ Len(warnings) \in Nat
      BY <1>1
    <2>2. (errors \o warnings)[1] = errors[1]
      BY <2>1
    <2> QED BY <1>1, <2>1, <2>2
  <1>2. CASE errors = <<>> /\ warnings # <<>>
    <2>1. Len(warnings) \in Nat /\ Len(warnings) > 0 /\ Len(errors) = 0
      BY <1>2
    <2>2. (errors \o warnings)[1] = warnings[1]
      BY <1>2, <2>1
    <2> QED BY <1>2, <2>1, <2>2
  <1>3. CASE errors = <<>> /\ warnings = <<>>
    BY <1>3
  <1> QED BY <1>1, <1>2, <1>3

(* A call that clears the records of its handle leaves the first of them to
   explain what it returns. *)
LEMMA ExecuteExplains ==
  ASSUME DiagnosticsTypeOK,
         NEW fn \in Texted, NEW h \in Owners, NEW rc \in {"SUCCESS", "NO_DATA", "ERROR"},
         NEW records, Sorted(h, records), version_'[h] = version_[h] \/ records = NoRecords,
         rc = "ERROR" => records.errors # <<>>,
         NEW returned \in ReturnedTexts, Execute(fn, h, rc, records, returned)
  PROVE  /\ FirstRecordExplains'
         /\ error_records_' \in [Owners -> Seq(Records)]
         /\ warning_records_' \in [Owners -> Seq(Records)]
         /\ last' \in [fn : Functions, on : Owners, rc : Codes, returned : ReturnedTexts]
         /\ executed' \in Nat
         /\ last'.fn = fn /\ last'.on = h /\ last'.returned = returned
         /\ last'.rc = ReturnCode(records, rc)
  <1> DEFINE errors == records.errors
             warnings == records.warnings
             code == ReturnCode(records, rc)
  <1>1. errors \in Seq(Records) /\ warnings \in Seq(Records)
    BY DEF Sorted, RecordLists
  <1>2. last' = [fn |-> fn, on |-> h, rc |-> code, returned |-> returned]
    BY DEF Execute, Did
  <1>3. code \in Codes
    BY DEF ReturnCode, Codes
  <1>4. /\ error_records_' = [error_records_ EXCEPT ![h] = errors]
        /\ warning_records_' = [warning_records_ EXCEPT ![h] = warnings]
        /\ executed' = executed + 1
    BY DEF Execute, Did
  <1>5. error_records_'[h] = errors /\ warning_records_'[h] = warnings
    BY <1>4 DEF DiagnosticsTypeOK
  <1>6. /\ code = "ERROR" <=> errors # <<>>
        /\ code = "SUCCESS_WITH_INFO" <=> errors = <<>> /\ warnings # <<>> /\ rc = "SUCCESS"
        /\ code = "SUCCESS" => errors = <<>> /\ warnings = <<>>
    BY DEF ReturnCode
  <1>7. /\ errors # <<>> => (errors \o warnings)[1] = errors[1] /\ Len(errors) + Len(warnings) > 0
        /\ errors = <<>> /\ warnings # <<>> =>
              (errors \o warnings)[1] = warnings[1] /\ Len(errors) + Len(warnings) > 0
        /\ errors = <<>> /\ warnings = <<>> => Len(errors) + Len(warnings) = 0
    BY <1>1, FirstOfBoth
  <1>8. \A r, v : IsWarning(r) => r.state \in StatesOf(v)
    BY DEF IsWarning, StatesOf
  <1>9. /\ RecordCount(h)' = Len(errors) + Len(warnings)
        /\ GetRecordAtIndex(h, 1)' = (errors \o warnings)[1]
    BY <1>5 DEF RecordCount, GetRecordAtIndex
  <1>10. FirstRecordExplains'
    <2> HIDE DEF errors, warnings, code
    <2>1. /\ errors # <<>> => /\ ~IsWarning(errors[1])
                               /\ errors[1].state \in StatesOf(version_[h]')
          /\ warnings # <<>> => IsWarning(warnings[1])
      BY DEF Sorted, errors, warnings, NoRecords
    <2>2. last'.on = h /\ last'.rc = code
      BY <1>2
    <2> QED BY <1>6, <1>7, <1>8, <1>9, <2>1, <2>2 DEF FirstRecordExplains, IsWarning
  <1>11. /\ error_records_' \in [Owners -> Seq(Records)]
         /\ warning_records_' \in [Owners -> Seq(Records)]
         /\ executed' \in Nat
    BY <1>1, <1>4 DEF DiagnosticsTypeOK
  <1>12. fn \in Functions
    BY FunctionNames
  <1> QED BY <1>2, <1>3, <1>10, <1>11, <1>12

(* Each call, and the second call with the room that the first one told. *)
LEMMA DiagnosticsStep ==
  ASSUME DiagnosticsInv, [DiagnosticsNext]_diagnosticsVars
  PROVE  DiagnosticsInv'
  <1>0. /\ DiagnosticsTypeOK /\ Given /\ FirstRecordExplains /\ Passed
    BY DEF DiagnosticsInv
  <1>a. version_ \in [Owners -> {V_2, V_3}] /\ m_version \in {V_2, V_3}
    BY <1>0 DEF DiagnosticsTypeOK
  <1>b. NoText \in ReturnedTexts /\ NoText.size = -1 /\ ~NoText.retry
    BY NoTextTyped
  <1>c. Texts \subseteq Text /\ Ascii(1) \in Text /\ Sizes \subseteq Int
    BY DiagnosticsAssumption DEF Ascii, Text
  <1>d. ASSUME last'.fn \in TextNames \cup DiagNames
                  \cup {"none", "Function", "Unsupported", "SetEnvAttr", "Untracked"}
        PROVE  Passed'
    BY <1>d, NothingPassed DEF Passed
  <1>1. ASSUME NEW h \in Owners, Function(h) PROVE DiagnosticsInv'
    <2>1. PICK warned, thrown \in BOOLEAN, state \in HY \cup {"07009", "01S02"}, t \in Texts,
             rc \in {"SUCCESS", "NO_DATA"} :
             Execute("Function", h, IF thrown THEN "SUCCESS" ELSE rc,
                IF thrown THEN TrackRecord(Warned(warned), RecordOf(h, state, t))
                ELSE Warned(warned), NoText)
      BY <1>1 DEF Function
    <2> DEFINE records == IF thrown THEN TrackRecord(Warned(warned), RecordOf(h, state, t))
                          ELSE Warned(warned)
               code == IF thrown THEN "SUCCESS" ELSE rc
    <2>2. UNCHANGED <<m_version, version_>>
      BY <1>1 DEF Function
    <2>3. Sorted(h, records)
      BY <1>a, <1>c, TrackedSorted, WarnedSorted DEF HY
    <2>4. Execute("Function", h, code, records, NoText)
      BY <2>1
    <2>5. code \in {"SUCCESS", "NO_DATA", "ERROR"} /\ code # "ERROR"
      OBVIOUS
    <2>6. "Function" \in Texted
      BY DEF Texted
    <2> HIDE DEF records, code
    <2>7. /\ FirstRecordExplains'
          /\ error_records_' \in [Owners -> Seq(Records)]
          /\ warning_records_' \in [Owners -> Seq(Records)]
          /\ last' \in [fn : Functions, on : Owners, rc : Codes, returned : ReturnedTexts]
          /\ executed' \in Nat
          /\ last'.fn = "Function" /\ last'.returned = NoText
      BY <1>0, <1>b, <2>2, <2>3, <2>4, <2>5, <2>6, ExecuteExplains
    <2>8. Given'
      BY <1>b, <2>7 DEF Given, GaveText
    <2> QED BY <1>a, <1>d, <2>2, <2>7, <2>8 DEF DiagnosticsInv, DiagnosticsTypeOK, ReturnedTexts
  <1>2. ASSUME NEW v \in {V_2, V_3}, SetOdbcVersion(v) PROVE DiagnosticsInv'
    <2>1. Execute("SetEnvAttr", "env", "SUCCESS", NoRecords, NoText)
      BY <1>2 DEF SetOdbcVersion
    <2>2. m_version' \in {V_2, V_3} /\ version_' \in [Owners -> {V_2, V_3}]
      BY <1>2 DEF SetOdbcVersion
    <2>3. Sorted("env", NoRecords) /\ "env" \in Owners
      BY NoRecordsSorted DEF Owners
    <2>4. "SetEnvAttr" \in Texted
      BY DEF Texted
    <2>5. /\ FirstRecordExplains'
          /\ error_records_' \in [Owners -> Seq(Records)]
          /\ warning_records_' \in [Owners -> Seq(Records)]
          /\ last' \in [fn : Functions, on : Owners, rc : Codes, returned : ReturnedTexts]
          /\ executed' \in Nat
          /\ last'.fn = "SetEnvAttr" /\ last'.returned = NoText
      BY <1>0, <1>b, <2>1, <2>3, <2>4, ExecuteExplains
    <2>6. Given'
      BY <1>b, <2>5 DEF Given, GaveText
    <2> QED BY <1>d, <2>2, <2>5, <2>6 DEF DiagnosticsInv, DiagnosticsTypeOK, ReturnedTexts
  <1>3. ASSUME Unsupported PROVE DiagnosticsInv'
    <2> DEFINE records == TrackRecord(NoRecords, RecordOf("stmt", "HYC00", Ascii(1)))
    <2>1. Execute("Unsupported", "stmt", "ERROR", records, NoText) /\ UNCHANGED <<m_version, version_>>
      BY <1>3 DEF Unsupported
    <2>2. "stmt" \in Owners /\ "Unsupported" \in Texted
      BY DEF Owners, Texted
    <2>3. records = TrackRecord(Warned(FALSE), RecordOf("stmt", "HYC00", Ascii(1)))
      BY DEF Warned
    <2> HIDE DEF records
    <2>4. Sorted("stmt", records) /\ records.errors # <<>>
      BY <1>a, <1>c, <2>2, <2>3, TrackedSorted
    <2>5. /\ FirstRecordExplains'
          /\ error_records_' \in [Owners -> Seq(Records)]
          /\ warning_records_' \in [Owners -> Seq(Records)]
          /\ last' \in [fn : Functions, on : Owners, rc : Codes, returned : ReturnedTexts]
          /\ executed' \in Nat
          /\ last'.fn = "Unsupported" /\ last'.returned = NoText
      BY <1>0, <1>b, <2>1, <2>2, <2>4, ExecuteExplains
    <2>6. Given'
      BY <1>b, <2>5 DEF Given, GaveText
    <2> QED BY <1>a, <1>d, <2>1, <2>5, <2>6 DEF DiagnosticsInv, DiagnosticsTypeOK, ReturnedTexts
  <1>4. ASSUME NEW fn \in {"Untracked"} \cup DiagNames, NEW h \in Owners, NEW rc \in Codes,
               NEW returned \in ReturnedTexts, Did(fn, h, rc, returned),
               UNCHANGED <<m_version, version_, error_records_, warning_records_>>,
               Given'
        PROVE  DiagnosticsInv'
    <2>1. last' = [fn |-> fn, on |-> h, rc |-> rc, returned |-> returned] /\ executed' = executed + 1
      BY <1>4 DEF Did
    <2>2. fn \in Functions
      BY FunctionNames
    <2>3. DiagnosticsTypeOK'
      BY <1>0, <1>4, <2>1, <2>2 DEF DiagnosticsTypeOK, ReturnedTexts
    <2>4. FirstRecordExplains'
      BY <2>1, Names DEF FirstRecordExplains, Tracked
    <2> QED BY <1>d, <1>4, <2>1, <2>3, <2>4 DEF DiagnosticsInv
  <1>5. ASSUME Untracked PROVE DiagnosticsInv'
    <2>1. Did("Untracked", "stmt", "SUCCESS", NoText)
          /\ UNCHANGED <<m_version, version_, error_records_, warning_records_>>
      BY <1>5 DEF Untracked
    <2>2. Given'
      BY <1>b, <2>1 DEF Given, GaveText, Did
    <2> QED BY <1>b, <1>4, <2>1, <2>2 DEF Owners, Codes
  <1>6. ASSUME NEW f \in {"ExecDirect", "ExecDirectW", "ExecDirectWCounted"}, NEW t \in Texts,
               PassText(f, t)
        PROVE  DiagnosticsInv'
    <2> DEFINE read == CASE f = "ExecDirect"         -> SqlCharToString(t, Utf8Size(t))
                         [] f = "ExecDirectW"        -> SqlWCharToString(t, SQL_NTS)
                         [] f = "ExecDirectWCounted" -> SqlWCharToString(t, Units(t))
               returned == [NoText EXCEPT !.text = t, !.out.told = read]
    <2>1. Execute(f, "stmt", "SUCCESS", NoRecords, returned) /\ UNCHANGED <<m_version, version_>>
      BY <1>6 DEF PassText
    <2>2. read \in Int
      <3>1. Utf8Size(t) \in Int /\ Units(t) \in Int /\ SQL_NTS \in Int
        BY <1>c, SizesOfText DEF SQL_NTS
      <3>2. \A n \in Int : Unsigned(Short(n)) \in Int
        BY ShortIsInt, UnsignedIsInt
      <3>3. \A n \in Int : SqlCharToString(t, n) \in Int /\ SqlWCharToString(t, n) \in Int
        BY <3>1, <3>2, TextAssumption DEF SqlCharToString, SqlWCharToString
      <3> QED BY <3>1, <3>3
    <2>9. read = ReadBy(f, t)
      BY DEF ReadBy
    <2> HIDE DEF read
    <2>3. returned \in ReturnedTexts /\ returned.size = -1 /\ ~returned.retry
          /\ returned.text = t /\ returned.out.told = read
      BY <1>b, <1>c, <2>2 DEF ReturnedTexts, Outs
    <2> HIDE DEF returned
    <2>4. Sorted("stmt", NoRecords) /\ "stmt" \in Owners
      BY NoRecordsSorted DEF Owners
    <2>5. f \in Texted
      BY DEF Texted
    <2>6. /\ FirstRecordExplains'
          /\ error_records_' \in [Owners -> Seq(Records)]
          /\ warning_records_' \in [Owners -> Seq(Records)]
          /\ last' \in [fn : Functions, on : Owners, rc : Codes, returned : ReturnedTexts]
          /\ executed' \in Nat
          /\ last'.fn = f /\ last'.returned = returned
      BY <1>0, <2>1, <2>3, <2>4, <2>5, ExecuteExplains
    <2>7. Given'
      BY <2>3, <2>6 DEF Given, GaveText
    <2>8. Passed'
      BY <2>3, <2>6, <2>9 DEF Passed
    <2> QED BY <1>a, <2>1, <2>6, <2>7, <2>8 DEF DiagnosticsInv, DiagnosticsTypeOK, ReturnedTexts
  <1>7. ASSUME NEW f \in TextNames, NEW t \in Text, NEW size \in Int, NEW retry \in BOOLEAN,
               retry => ToldBefore(f, t, size),
               ReturnText(f, t, size, retry)
        PROVE  DiagnosticsInv'
    <2> DEFINE kind == TextFunctions[f]
               returned == Returned(f, t, size, retry)
               warn == returned.out.info /\ kind.warns # "none"
    <2>1. UNCHANGED <<m_version, version_>>
      BY <1>7 DEF ReturnText
    <2>2. kind = Kind(f) /\ kind.on \in Owners /\ kind.warns \in Owners \cup {"none"}
      BY KindsOfText
    <2>3. f \in Texted /\ f \in Functions
      BY FunctionNames DEF Texted
    <2>4. returned = [text |-> t, size |-> size, out |-> Copy(f, t, size), retry |-> retry]
          /\ returned \in ReturnedTexts
      BY CopyIsTyped DEF Returned, ReturnedTexts
    <2>5. warn \in BOOLEAN
      BY DEF warn
    <2>6. \/ Execute(f, kind.on, "SUCCESS",
                     TrackRecord(NoRecords, RecordOf(kind.on, "HY000", Ascii(1))), NoText)
          \/ /\ warn /\ kind.warns # kind.on
             /\ Did(f, kind.on, "SUCCESS", returned)
             /\ error_records_' = [error_records_ EXCEPT ![kind.on] = <<>>]
             /\ warning_records_' = [warning_records_ EXCEPT
                   ![kind.on] = <<>>, ![kind.warns] = Append(@, TRUNCATION_WARNING)]
          \/ ~(warn /\ kind.warns # kind.on) /\ Execute(f, kind.on, "SUCCESS", Warned(warn), returned)
      BY <1>7 DEF ReturnText
    <2> HIDE DEF kind, returned, warn
    <2>7. CASE Execute(f, kind.on, "SUCCESS",
                     TrackRecord(NoRecords, RecordOf(kind.on, "HY000", Ascii(1))), NoText)
      <3> DEFINE records == TrackRecord(NoRecords, RecordOf(kind.on, "HY000", Ascii(1)))
      <3>1. records = TrackRecord(Warned(FALSE), RecordOf(kind.on, "HY000", Ascii(1)))
        BY DEF Warned
      <3>2. Execute(f, kind.on, "SUCCESS", records, NoText)
        BY <2>7
      <3> HIDE DEF records
      <3>3. Sorted(kind.on, records)
        BY ZenonT(30), <1>a, <1>c, <2>2, <3>1, TrackedSorted
      <3>4. /\ FirstRecordExplains'
            /\ error_records_' \in [Owners -> Seq(Records)]
            /\ warning_records_' \in [Owners -> Seq(Records)]
            /\ last' \in [fn : Functions, on : Owners, rc : Codes, returned : ReturnedTexts]
            /\ executed' \in Nat
            /\ last'.fn = f /\ last'.returned = NoText
        BY <1>0, <1>b, <2>1, <2>2, <2>3, <3>2, <3>3, ExecuteExplains
      <3>5. Given'
        BY <1>b, <3>4 DEF Given, GaveText
      <3> QED BY <1>a, <1>d, <2>1, <3>4, <3>5 DEF DiagnosticsInv, DiagnosticsTypeOK, ReturnedTexts
    <2>8. ASSUME last'.fn = f, last'.on = kind.on, last'.returned = returned,
                 warn /\ kind.warns = kind.on => last'.rc = "SUCCESS_WITH_INFO"
          PROVE  Given'
      <3>1. /\ returned.out = Copy(f, t, size) /\ returned.text = t /\ returned.size = size
            /\ returned.retry = retry
        BY <2>4
      <3>2. kind.warns = "none" => kind.copy \in {"own", "ownWide"}
                                   \/ f \in {"GetDescRec", "GetDescRecW"}
        BY <2>2, KindsOfText
      <3>3. returned.out.info /\ kind.warns \in {kind.on, "none"}
              /\ kind.copy \notin Silent /\ f \notin {"GetDescRec", "GetDescRecW"}
              => last'.rc = "SUCCESS_WITH_INFO"
        BY <2>8, <3>2 DEF Silent, warn
      <3>4. returned.retry => ToldBefore(f, t, size)
        BY <1>7, <3>1
      <3> QED BY <2>2, <2>8, <3>1, <3>3, <3>4 DEF Given, GaveText
    <2>9. CASE warn /\ kind.warns # kind.on
             /\ Did(f, kind.on, "SUCCESS", returned)
             /\ error_records_' = [error_records_ EXCEPT ![kind.on] = <<>>]
             /\ warning_records_' = [warning_records_ EXCEPT
                   ![kind.on] = <<>>, ![kind.warns] = Append(@, TRUNCATION_WARNING)]
      <3>1. last' = [fn |-> f, on |-> kind.on, rc |-> "SUCCESS", returned |-> returned]
            /\ executed' = executed + 1
        BY <2>9 DEF Did
      <3>2. kind.warns \in Owners
        BY <2>2, <2>9 DEF warn
      <3>3. TRUNCATION_WARNING \in Records
        BY DEF TRUNCATION_WARNING, Records, States, StatesOf, Text, Ascii
      <3>4. /\ error_records_' \in [Owners -> Seq(Records)]
            /\ warning_records_' \in [Owners -> Seq(Records)]
            /\ error_records_'[kind.on] = <<>> /\ warning_records_'[kind.on] = <<>>
        <4> DEFINE cleared == [warning_records_ EXCEPT ![kind.on] = <<>>]
                   longer == Append(cleared[kind.warns], TRUNCATION_WARNING)
        <4>1. /\ error_records_ \in [Owners -> Seq(Records)]
              /\ warning_records_ \in [Owners -> Seq(Records)]
              /\ <<>> \in Seq(Records)
          BY <1>0 DEF DiagnosticsTypeOK
        <4>2. cleared \in [Owners -> Seq(Records)] /\ cleared[kind.on] = <<>>
          BY <2>2, <4>1
        <4>3. warning_records_' = [cleared EXCEPT ![kind.warns] = longer]
          BY <2>9
        <4>4. longer \in Seq(Records)
          <5> HIDE DEF cleared
          <5> QED BY <3>2, <3>3, <4>2
        <4> HIDE DEF cleared, longer
        <4>5. warning_records_' \in [Owners -> Seq(Records)] /\ warning_records_'[kind.on] = <<>>
          BY ZenonT(30), <2>2, <2>9, <3>2, <4>2, <4>3, <4>4
        <4>6. error_records_' \in [Owners -> Seq(Records)] /\ error_records_'[kind.on] = <<>>
          BY <2>2, <2>9, <4>1
        <4> QED BY <4>5, <4>6
      <3>5. DiagnosticsTypeOK'
        BY <1>0, <1>a, <2>1, <2>2, <2>3, <2>4, <3>1, <3>4 DEF DiagnosticsTypeOK, ReturnedTexts, Codes
      <3>6. RecordCount(kind.on)' = 0
        BY <3>4 DEF RecordCount
      <3>7. FirstRecordExplains'
        <4>1. last'.rc = "SUCCESS" /\ last'.on = kind.on
          BY <3>1
        <4> QED BY <3>6, <4>1 DEF FirstRecordExplains
      <3>8. Given'
        BY <2>8, <2>9, <3>1
      <3> QED BY <1>d, <3>1, <3>5, <3>7, <3>8 DEF DiagnosticsInv
    <2>10. CASE ~(warn /\ kind.warns # kind.on)
                /\ Execute(f, kind.on, "SUCCESS", Warned(warn), returned)
      <3> DEFINE records == Warned(warn)
      <3>1. Sorted(kind.on, records) /\ records.errors = <<>> /\ (records.warnings # <<>> <=> warn)
        BY <2>2, <2>5, WarnedSorted
      <3>2. Execute(f, kind.on, "SUCCESS", records, returned)
        BY <2>10
      <3> HIDE DEF records
      <3>3. /\ FirstRecordExplains'
            /\ error_records_' \in [Owners -> Seq(Records)]
            /\ warning_records_' \in [Owners -> Seq(Records)]
            /\ last' \in [fn : Functions, on : Owners, rc : Codes, returned : ReturnedTexts]
            /\ executed' \in Nat
            /\ last'.fn = f /\ last'.on = kind.on /\ last'.returned = returned
            /\ last'.rc = ReturnCode(records, "SUCCESS")
        BY <1>0, <2>1, <2>2, <2>3, <2>4, <3>1, <3>2, ExecuteExplains
      <3>4. warn => last'.rc = "SUCCESS_WITH_INFO"
        BY <3>1, <3>3 DEF ReturnCode
      <3>5. Given'
        BY <2>8, <3>3, <3>4
      <3> QED BY <1>a, <1>d, <2>1, <3>3, <3>5 DEF DiagnosticsInv, DiagnosticsTypeOK, ReturnedTexts
    <2> QED BY <2>6, <2>7, <2>9, <2>10
  <1>8. ASSUME NEW f \in DiagNames, NEW h \in Owners, NEW i \in Int, NEW size \in Int,
               NEW retry \in BOOLEAN, NEW t, t = GetRecordAtIndex(h, i).text,
               retry => ToldBefore(f, t, size),
               ReadRecord(f, h, i, size, retry)
        PROVE  DiagnosticsInv'
    <2> DEFINE returned == Returned(f, t, size, retry)
    <2>1. UNCHANGED <<m_version, version_, error_records_, warning_records_>>
          /\ i \in 1..RecordCount(h)
      BY <1>8 DEF ReadRecord
    <2>2. t \in Text
      <3> DEFINE errors == error_records_[h]
                 warnings == warning_records_[h]
      <3>1. errors \in Seq(Records) /\ warnings \in Seq(Records)
        BY <1>0 DEF DiagnosticsTypeOK
      <3> HIDE DEF errors, warnings
      <3>2. errors \o warnings \in Seq(Records) /\ Len(errors \o warnings) = Len(errors) + Len(warnings)
        BY <3>1
      <3>3. i \in 1..Len(errors \o warnings)
        BY <2>1, <3>2 DEF RecordCount, errors, warnings
      <3>4. (errors \o warnings)[i] \in Records
        BY <3>2, <3>3
      <3> QED BY <1>8, <3>4 DEF Records, GetRecordAtIndex, errors, warnings
    <2>3. \/ Did(f, h, "ESCAPES", NoText)
          \/ Did(f, h, IF returned.out.info THEN "SUCCESS_WITH_INFO" ELSE "SUCCESS", returned)
      BY <1>8 DEF ReadRecord
    <2>4. retry => ToldBefore(f, t, size)
      BY <1>8
    <2>5. returned = [text |-> t, size |-> size, out |-> Copy(f, t, size), retry |-> retry]
          /\ returned \in ReturnedTexts
      BY <2>2, CopyIsTyped DEF Returned, ReturnedTexts
    <2> HIDE DEF returned
    <2>6. CASE Did(f, h, "ESCAPES", NoText)
      <3>1. Given'
        BY <1>b, <2>6 DEF Given, GaveText, Did
      <3> QED BY <1>b, <1>4, <2>1, <2>6, <3>1 DEF Codes
    <2>7. CASE Did(f, h, IF returned.out.info THEN "SUCCESS_WITH_INFO" ELSE "SUCCESS", returned)
      <3> DEFINE rc == IF returned.out.info THEN "SUCCESS_WITH_INFO" ELSE "SUCCESS"
      <3>1. last' = [fn |-> f, on |-> h, rc |-> rc, returned |-> returned]
        BY <2>7 DEF Did
      <3>2. Did(f, h, rc, returned) /\ rc \in Codes /\ (returned.out.info => rc = "SUCCESS_WITH_INFO")
        BY <2>7 DEF Codes
      <3> HIDE DEF rc
      <3>3. /\ returned.out = Copy(f, t, size) /\ returned.text = t /\ returned.size = size
            /\ returned.retry = retry
        BY <2>5
      <3>4. Given'
        BY <2>4, <3>1, <3>2, <3>3 DEF Given, GaveText
      <3> QED BY <1>4, <2>1, <2>5, <3>2, <3>4
    <2> QED BY <2>3, <2>6, <2>7
  <1>9. ASSUME NEW f \in DiagNames, NEW h \in Owners, ReadPastEnd(f, h) PROVE DiagnosticsInv'
    <2>1. Did(f, h, "NO_DATA", NoText)
          /\ UNCHANGED <<m_version, version_, error_records_, warning_records_>>
      BY <1>9 DEF ReadPastEnd
    <2>2. Given'
      BY <1>b, <2>1 DEF Given, GaveText, Did
    <2> QED BY <1>b, <1>4, <2>1, <2>2 DEF Codes
  <1>10. ASSUME Retry PROVE DiagnosticsInv'
    <2> DEFINE f == last.fn
               t == last.returned.text
               size == last.returned.out.told + NUL(f)
    <2>1. /\ f \in TextNames \cup DiagNames /\ last.returned.size >= 0
          /\ last.returned.out.told >= 0
          /\ \/ f \in TextNames /\ ReturnText(f, t, size, TRUE)
             \/ /\ f \in DiagNames /\ ReadRecord(f, last.on, 1, size, TRUE)
                /\ GetRecordAtIndex(last.on, 1).text = t
      BY <1>10, Names DEF Retry, NUL, GaveText
    <2>2. /\ t \in Text /\ last.returned.size \in Int /\ last.on \in Owners
          /\ last.returned.out \in Outs
      BY <1>0 DEF DiagnosticsTypeOK
    <2>3. size \in Int
      BY <2>2, TextAssumption DEF Outs, NUL
    <2>4. last.returned.out = Copy(f, t, last.returned.size)
      BY <1>0, <2>1 DEF Given, GaveText
    <2>5. size = Copy(f, t, last.returned.size).told + NUL(f)
      BY <2>4
    <2> HIDE DEF f, t, size
    <2>6. ToldBefore(f, t, size)
      BY <2>1, <2>2, <2>4, <2>5 DEF ToldBefore
    <2>7. CASE f \in TextNames /\ ReturnText(f, t, size, TRUE)
      BY <1>7, <2>2, <2>3, <2>6, <2>7
    <2>8. CASE /\ f \in DiagNames /\ ReadRecord(f, last.on, 1, size, TRUE)
               /\ GetRecordAtIndex(last.on, 1).text = t
      <3>1. 1 \in Int
        OBVIOUS
      <3> QED BY <1>8, <2>2, <2>3, <2>6, <2>8, <3>1, Zenon
    <2> QED BY <2>1, <2>7, <2>8
  <1>11. ASSUME NEW f \in TextNames, NEW t \in Texts, NEW size \in Sizes, ReturnText(f, t, size, FALSE)
         PROVE  DiagnosticsInv'
    BY <1>7, <1>11, <1>c
  <1>12. ASSUME NEW f \in DiagNames, NEW h \in Owners, NEW i \in 1..2, NEW size \in Sizes,
                ReadRecord(f, h, i, size, FALSE)
         PROVE  DiagnosticsInv'
    <2>1. i \in Int /\ size \in Int
      BY <1>c
    <2>2. PICK t : t = GetRecordAtIndex(h, i).text
      OBVIOUS
    <2> QED BY <1>8, <1>12, <2>1, <2>2, Zenon
  <1>13. ASSUME UNCHANGED diagnosticsVars PROVE DiagnosticsInv'
    BY <1>0, <1>13 DEF diagnosticsVars, DiagnosticsInv, DiagnosticsTypeOK, FirstRecordExplains,
         Tracked, RecordCount, GetRecordAtIndex, Given, GaveText, Passed
  <1> QED BY <1>1, <1>2, <1>3, <1>5, <1>6, <1>9, <1>10, <1>11, <1>12, <1>13, Names DEF DiagnosticsNext

(* Initially no call has been made. *)
LEMMA DiagnosticsStart == DiagnosticsInit => DiagnosticsInv
  <1> SUFFICES ASSUME DiagnosticsInit PROVE DiagnosticsInv
    OBVIOUS
  <1>1. last = [fn |-> "none", on |-> "env", rc |-> "SUCCESS", returned |-> NoText]
    BY DEF DiagnosticsInit
  <1>2. "none" \in Functions /\ NoText \in ReturnedTexts /\ NoText.size = -1 /\ ~NoText.retry
    BY FunctionNames, NoTextTyped
  <1>3. last \in [fn : Functions, on : Owners, rc : Codes, returned : ReturnedTexts]
    BY <1>1, <1>2 DEF Owners, Codes
  <1>4. DiagnosticsTypeOK
    BY <1>3 DEF DiagnosticsInit, DiagnosticsTypeOK, ReturnedTexts
  <1>5. FirstRecordExplains
    BY <1>1 DEF FirstRecordExplains, Tracked
  <1>6. Given
    BY <1>1, <1>2 DEF Given, GaveText
  <1>7. Passed
    BY <1>1 DEF Passed, ExecNames
  <1> QED BY <1>4, <1>5, <1>6, <1>7 DEF DiagnosticsInv

(* The variables keep their types, and what is returned is what was copied, of
   the text that was asked for. *)
THEOREM DiagnosticsInvariant == DiagnosticsSpec => []DiagnosticsInv
  <1>1. DiagnosticsInv /\ [DiagnosticsNext]_diagnosticsVars => DiagnosticsInv'
    BY DiagnosticsStep
  <1> QED BY <1>1, DiagnosticsStart, PTL DEF DiagnosticsSpec

(* The first record the application reads explains the return code, in the
   states of the ODBC version, after any calls on any of the four handles. *)
THEOREM FirstRecordIsTheReason == DiagnosticsSpec => []FirstRecordExplains
  <1>1. DiagnosticsInv => FirstRecordExplains
    BY DEF DiagnosticsInv
  <1> QED BY <1>1, DiagnosticsInvariant, PTL

(* Text that is cut stays inside the buffer, ends with a NUL and is announced,
   for any text and buffer, both widths of a character and any SQLSMALLINT;
   except where GetAttributeUTF8 comes to copy a negative size. *)
THEOREM CutsAreTold == DiagnosticsSpec => []CutTextIsTold
  <1>1. DiagnosticsInv => CutTextIsTold
    <2> SUFFICES ASSUME DiagnosticsInv, GaveText, Room <= MaxShort, ~SizeGoesNegative
                 PROVE  /\ last.returned.out.reach <= Room
                        /\ last.returned.size >= (IF Wide(last.fn) THEN WcharSize ELSE 1)
                             => last.returned.out.nul
                        /\ last.returned.out.kept < Total /\ Kind(last.fn).warns \in {last.on, "none"}
                           /\ Kind(last.fn).copy \notin {"own", "ownWide"}
                           /\ last.fn \notin {"GetDescRec", "GetDescRecW"}
                           /\ (last.fn \in DiagNames => last.returned.size > 0)
                           => last.rc = "SUCCESS_WITH_INFO"
      BY Names DEF CutTextIsTold
    <2> DEFINE f == last.fn
               t == last.returned.text
               size == last.returned.size
               o == last.returned.out
    <2>1. f \in TextNames \cup DiagNames /\ o = Copy(f, t, size) /\ size >= 0
      BY DEF DiagnosticsInv, Given, GaveText
    <2>2. t \in Text /\ size \in Int
      BY DEF DiagnosticsInv, DiagnosticsTypeOK
    <2>3. RoomOf(f, size) = Room /\ TotalOf(f, t) = Total /\ ~NegativeSize(f, t, size)
      BY DEF RoomOf, TotalOf, Room, Total, NegativeSize, SizeGoesNegative
    <2>4. o.info /\ Kind(f).warns \in {last.on, "none"}
          /\ Kind(f).copy \notin Silent /\ f \notin {"GetDescRec", "GetDescRecW"}
          => last.rc = "SUCCESS_WITH_INFO"
      BY DEF DiagnosticsInv, Given
    <2> HIDE DEF f, t, size, o
    <2>5. /\ o.reach <= Room
          /\ size >= (IF Wide(f) THEN WcharSize ELSE 1) => o.nul
          /\ o.kept < Total /\ (f \in DiagNames => size > 0) => Kind(f).copy \in Silent \/ o.info
      <3> DEFINE c == CopyBy(f, t, size)
      <3>1. o.reach = c.reach /\ o.nul = c.nul /\ o.kept = c.kept /\ o.info = c.info
        BY <2>1, <2>2, CopyIs
      <3>2. /\ c.reach <= Room
            /\ size >= (IF Wide(f) THEN WcharSize ELSE 1) => c.nul
            /\ c.kept < Total /\ (f \in DiagNames => size > 0)
                 => Kind(f).copy \in Silent \/ c.info
        BY <2>1, <2>2, <2>3, CopyFits DEF Silent
      <3> HIDE DEF c
      <3> QED BY <3>1, <3>2
    <2> QED BY <2>4, <2>5 DEF Silent, f, t, size, o
  <1> QED BY <1>1, DiagnosticsInvariant, PTL

(* A second call with room for the length that was told gets the whole text. *)
THEOREM RetryIsEnough == DiagnosticsSpec => []RetryGetsAll
  <1>1. DiagnosticsInv => RetryGetsAll
    <2> SUFFICES ASSUME DiagnosticsInv, last.returned.retry, Room <= MaxShort,
                        (Total + 1) * WcharSize <= MaxShort,
                        last.fn \notin {"DescribeColW", "GetDescRecW"}
                 PROVE  last.returned.out.kept = Total
      BY DEF RetryGetsAll
    <2> DEFINE f == last.fn
               t == last.returned.text
               size == last.returned.size
    <2>1. /\ f \in (TextNames \cup DiagNames) \ CountsBytes
          /\ last.returned.out = Copy(f, t, size)
          /\ ToldBefore(f, t, size)
      BY DEF DiagnosticsInv, Given, CountsBytes
    <2>2. t \in Text /\ size \in Int
      BY DEF DiagnosticsInv, DiagnosticsTypeOK
    <2>3. RoomOf(f, size) = Room /\ TotalOf(f, t) = Total
      BY DEF RoomOf, TotalOf, Room, Total
    <2> HIDE DEF f, t, size
    <2> QED BY <2>1, <2>2, <2>3, RetryFits DEF ToldBefore
  <1> QED BY <1>1, DiagnosticsInvariant, PTL

(* The text of a statement is read whole, as far as its length is representable. *)
THEOREM StatementsArrive == DiagnosticsSpec => []StatementTextArrives
  <1>1. DiagnosticsInv => StatementTextArrives
    <2> SUFFICES ASSUME DiagnosticsInv PROVE StatementTextArrives
      OBVIOUS
    <2> DEFINE t == last.returned.text
               read == last.returned.out.told
    <2>1. /\ last.fn = "ExecDirect" => read = SqlCharToString(t, Utf8Size(t))
          /\ last.fn = "ExecDirectW" => read = SqlWCharToString(t, SQL_NTS)
          /\ last.fn = "ExecDirectWCounted" => read = SqlWCharToString(t, Units(t))
      BY DEF DiagnosticsInv, Passed, ExecNames, ReadBy
    <2>2. Utf8Size(t) \in Nat /\ Units(t) \in Nat
      BY SizesOfText DEF DiagnosticsInv, DiagnosticsTypeOK
    <2>3. Short(SQL_NTS) = SQL_NTS
      <3>1. MaxShort - 2 \in Nat /\ 2 * MaxShort + 2 \in Nat /\ MaxShort - 2 < 2 * MaxShort + 2
        BY TextAssumption
      <3>2. (MaxShort - 2) % (2 * MaxShort + 2) = MaxShort - 2
        BY <3>1, SmallModulo
      <3>3. -3 + MaxShort + 1 = MaxShort - 2
        BY TextAssumption
      <3>4. Short(SQL_NTS) = (MaxShort - 2) - MaxShort - 1
        BY <3>2, <3>3 DEF Short, SQL_NTS
      <3> QED BY <3>4, TextAssumption DEF SQL_NTS
    <2>4. \A n \in Nat : n <= MaxShort => Short(n) # SQL_NTS /\ Unsigned(Short(n)) = n
      BY ShortOfSmall DEF SQL_NTS, Unsigned
    <2> HIDE DEF t, read
    <2>5. Utf8Size(t) <= MaxShort => SqlCharToString(t, Utf8Size(t)) = Utf8Size(t)
      BY <2>2, <2>4 DEF SqlCharToString
    <2>6. SqlWCharToString(t, SQL_NTS) = Units(t)
      BY <2>3 DEF SqlWCharToString
    <2>7. Units(t) <= MaxShort => SqlWCharToString(t, Units(t)) = Units(t) \div WcharSize
      BY <2>2, <2>4 DEF SqlWCharToString
    <2> QED BY <2>1, <2>5, <2>6, <2>7 DEF StatementTextArrives, t, read
  <1> QED BY <1>1, DiagnosticsInvariant, PTL
=============================================================================
