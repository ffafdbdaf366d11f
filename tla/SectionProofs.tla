---------------------------- MODULE SectionProofs ----------------------------
(***************************************************************************)
(* The semaphore of TableSections, for every number of processes, calls,   *)
(* entries and kills: what the processes store does not matter here, only  *)
(* where they are.                                                         *)
(***************************************************************************)
EXTENDS TableSections, FiniteSetTheorems, TLAPS

Outside == {"idle", "wait", "gone"}

Places ==
    Outside \cup {"scan", "unlock", "sess_count", "next_id", "copy", "copy_rest"}

(* Without the semaphore nobody comes in; with it, its value and the undo    *)
(* values say who is inside.                                                 *)
SemInv ==
    /\ pc \in [Pids -> Places] /\ adj \in [Pids -> Int]
    /\ OneInside
    /\ SemConserved

(* A process that moves is inside or not by the place it moves to.           *)
LEMMA Moves ==
  ASSUME pc \in [Pids -> Places], NEW p \in Pids, NEW place \in Places,
         pc' = [pc EXCEPT ![p] = place]
  PROVE  /\ pc' \in [Pids -> Places]
         /\ Inside(p)' <=> place \notin Outside
         /\ \A q \in Pids : q # p => (Inside(q)' <=> Inside(q))
  BY DEF Inside, Outside

(* A step of a section stays inside.                                         *)
LEMMA SectionStays ==
  ASSUME NEW p \in Pids, pc \in [Pids -> Places], Section(p)
  PROVE  /\ pc' \in [Pids -> Places]
         /\ \A q \in Pids : Inside(q)' <=> Inside(q)
         /\ UNCHANGED semVars
<1> DEFINE places == {"unlock", "sess_count", "next_id", "copy", "copy_rest"}
<1>1. /\ UNCHANGED semVars /\ pc[p] \notin Outside
      /\ UNCHANGED pc \/ \E place \in places : pc' = [pc EXCEPT ![p] = place]
  <2> USE DEF Outside, Go, Again, At
  <2>1. CASE AddSession(p)
    BY <2>1 DEF Section, AddSession
  <2>2. CASE Collect(p)
    BY <2>2 DEF Section, Collect
  <2>3. CASE AddRequest(p)
    BY <2>3 DEF Section, AddRequest, FullPlace
  <2>4. CASE TakeRequest(p)
    BY <2>4 DEF Section, TakeRequest
  <2>5. CASE FailRequests(p)
    BY <2>5 DEF Section, FailRequests, AfterFail
  <2> QED  BY <2>1, <2>2, <2>3, <2>4, <2>5 DEF Section
<1>2. Inside(p)
  BY <1>1 DEF Inside, Outside
<1>3. CASE UNCHANGED pc
  BY <1>1, <1>3 DEF Inside
<1>4. ASSUME NEW place \in places, pc' = [pc EXCEPT ![p] = place]
      PROVE  pc' \in [Pids -> Places] /\ \A q \in Pids : Inside(q)' <=> Inside(q)
  <2>1. place \in Places /\ place \notin Outside
    BY DEF Outside, Places
  <2> QED  BY <1>2, <1>4, <2>1, Moves
<1> QED  BY <1>1, <1>3, <1>4

(* The semaphore is conserved by every step, also by the end of a process.   *)
LEMMA SemInvKept ==
  ASSUME SemInv, [Next]_vars
  PROVE  SemInv'
<1> USE DEF SemInv, OneInside, SemConserved, semVars
<1>0. ASSUME UNCHANGED <<pc, semVars>>  PROVE SemInv'
  BY <1>0 DEF Inside
<1>1. CASE cleanup_shmem
  <2>1. \A q \in Pids : Inside(q)' <=> Inside(q)
    BY <1>1 DEF cleanup_shmem, Inside
  <2> QED  BY <1>1, <2>1 DEF cleanup_shmem
<1>2. ASSUME NEW p \in Pids, Call(p)  PROVE SemInv'
  <2>1. ~Inside(p) /\ pc' = [pc EXCEPT ![p] = "wait"] /\ UNCHANGED semVars
    BY <1>2 DEF Call, Inside
  <2>2. /\ pc' \in [Pids -> Places] /\ ~Inside(p)'
        /\ \A q \in Pids : q # p => (Inside(q)' <=> Inside(q))
    BY <2>1, Moves DEF Outside, Places
  <2> QED  BY <2>1, <2>2
<1>3. ASSUME NEW p \in Pids, sem_lock(p)  PROVE SemInv'
  <2>0. ~Inside(p)
    BY <1>3 DEF sem_lock, Inside
  <2>1. CASE removed
    <3>1. pc' = [pc EXCEPT ![p] = "idle"] /\ UNCHANGED semVars
      BY <1>3, <2>1 DEF sem_lock, AfterLockError
    <3>2. /\ pc' \in [Pids -> Places] /\ ~Inside(p)'
          /\ \A q \in Pids : q # p => (Inside(q)' <=> Inside(q))
      BY <3>1, Moves DEF Outside, Places
    <3> QED  BY <2>0, <3>1, <3>2
  <2>2. CASE ~removed
    <3>1. /\ semval > 0 /\ semval' = semval - 1 /\ adj' = [adj EXCEPT ![p] = @ + 1]
          /\ pc' = [pc EXCEPT ![p] = "scan"] /\ ~removed'
      BY <1>3, <2>2 DEF sem_lock, UndoLock
    <3>2. semval' = 0 /\ \A q \in Pids : ~Inside(q) /\ adj[q] = 0
      BY <2>2, <3>1
    <3>3. /\ pc' \in [Pids -> Places] /\ Inside(p)'
          /\ \A q \in Pids : q # p => (Inside(q)' <=> Inside(q))
      BY <3>1, Moves DEF Outside, Places
    <3> QED  BY <3>1, <3>2, <3>3
  <2> QED  BY <2>1, <2>2
<1>4. ASSUME NEW p \in Pids, Section(p)  PROVE SemInv'
  <2>1. /\ pc' \in [Pids -> Places]
        /\ \A q \in Pids : Inside(q)' <=> Inside(q)
        /\ UNCHANGED semVars
    BY <1>4, SectionStays
  <2> QED  BY <2>1
<1>5. ASSUME NEW p \in Pids, sem_unlock(p)  PROVE SemInv'
  <2>1. Inside(p) /\ pc' = [pc EXCEPT ![p] = "idle"] /\ UNCHANGED removed
    BY <1>5 DEF sem_unlock, Inside
  <2>2. /\ pc' \in [Pids -> Places] /\ ~Inside(p)'
        /\ \A q \in Pids : q # p => (Inside(q)' <=> Inside(q))
    BY <2>1, Moves DEF Outside, Places
  <2>3. CASE removed
    <3>1. UNCHANGED adj
      BY <1>5, <2>3 DEF sem_unlock
    <3> QED  BY <2>1, <2>2, <2>3, <3>1
  <2>4. CASE ~removed
    <3>1. semval' = semval + 1 /\ adj' = [adj EXCEPT ![p] = @ - 1]
      BY <1>5, <2>4 DEF sem_unlock, UndoUnlock
    <3>2. semval = 0 /\ adj[p] = 1 /\ \A q \in Pids : q # p => ~Inside(q) /\ adj[q] = 0
      BY <2>1, <2>4
    <3> QED  BY <2>1, <2>2, <3>1, <3>2
  <2> QED  BY <2>3, <2>4
<1>6. ASSUME NEW p \in Pids, End(p) \/ Kill(p)  PROVE SemInv'
  <2>1. /\ pc' = [pc EXCEPT ![p] = "gone"]
        /\ adj' = [adj EXCEPT ![p] = 0] /\ UNCHANGED removed
        /\ ~removed => semval' = semval + adj[p]
    BY <1>6 DEF End, Kill, Undo
  <2>2. /\ pc' \in [Pids -> Places] /\ ~Inside(p)'
        /\ \A q \in Pids : q # p => (Inside(q)' <=> Inside(q))
    BY <2>1, Moves DEF Outside, Places
  <2>3. CASE removed
    BY <2>1, <2>2, <2>3
  <2>4. CASE ~removed /\ Inside(p)
    <3>1. semval = 0 /\ adj[p] = 1 /\ \A q \in Pids : q # p => ~Inside(q) /\ adj[q] = 0
      BY <2>4
    <3> QED  BY <2>1, <2>2, <2>4, <3>1
  <2>5. CASE ~removed /\ ~Inside(p)
    <3>1. semval' = semval
      BY <2>1, <2>5
    <3> QED  BY <2>1, <2>2, <2>5, <3>1
  <2> QED  BY <2>3, <2>4, <2>5
<1>7. CASE UNCHANGED vars
  BY <1>0, <1>7 DEF vars
<1> QED  BY <1>1, <1>2, <1>3, <1>4, <1>5, <1>6, <1>7 DEF Next

(* Who is inside is told by the semaphore in every reachable state.          *)
LEMMA SemInvHolds == Spec => []SemInv
<1>1. Init => SemInv
  BY DEF Init, SemInv, OneInside, SemConserved, Inside, Places, Outside
<1>2. SemInv /\ [Next]_vars => SemInv'
  BY SemInvKept
<1> QED  BY <1>1, <1>2, PTL DEF Spec

(* One process at a time is in a critical section, also after kills and      *)
(* after the semaphore was removed.                                          *)
THEOREM SectionsExclude == Spec => []OneInside
<1>1. SemInv => OneInside
  BY DEF SemInv
<1> QED  BY <1>1, SemInvHolds, PTL

(* SEM_UNDO gives the semaphore of a killed process back exactly once.       *)
THEOREM SemaphoreConserved == Spec => []SemConserved
<1>1. SemInv => SemConserved
  BY DEF SemInv
<1> QED  BY <1>1, SemInvHolds, PTL

-----------------------------------------------------------------------------
(* How far the process inside has come *)

Locals ==
    [op : Ops \cup {"none"}, u : Users \cup {NoUser}, v : Users \cup {NoUser},
     id : Nat, i : Nat]

MemoryType ==
    [sess : [Slots -> session_entry_t], sessCount : 0 .. MAX_ENTRIES,
     req : [Slots -> transfer_request_entry_t], reqCount : 0 .. MAX_ENTRIES,
     nextId : Nat]

TypesInv ==
    /\ Memory \in MemoryType /\ shown \in MemoryType
    /\ loc \in [Pids -> Locals]
    /\ \A p \in Pids : pc[p] \notin {"idle", "gone"} => loc[p].op \in Ops
    /\ \A p \in Pids : pc[p] = "wait" => loc[p].i = 1

SameSess == sess = shown.sess /\ sessCount = shown.sessCount
SameReq == req = shown.req /\ reqCount = shown.reqCount /\ nextId = shown.nextId

(* The tables at the beginning of the section: k is the first entry of a     *)
(* kind, or none of the first n is.                                          *)
AllInUse(n) == \A j \in 1 .. n : shown.sess[j].in_use
AllPending(n) == \A j \in 1 .. n : shown.req[j].status = "PENDING"
NoneHas(id, n) == \A j \in 1 .. n : shown.req[j].id # id

NewSession(p) == [username |-> loc[p].u, pid |-> p, in_use |-> TRUE]

AddingSession(p) ==
    LET i == loc[p].i IN
    /\ SameReq
    /\ \/ pc[p] = "scan" /\ SameSess /\ i \in 1 .. sessCount + 1 /\ AllInUse(i - 1)
       \/ /\ pc[p] = "sess_count"
          /\ sessCount = shown.sessCount /\ sessCount < MAX_ENTRIES /\ AllInUse(sessCount)
          /\ sess = [shown.sess EXCEPT ![sessCount + 1] = NewSession(p)]
       \/ /\ pc[p] = "unlock"
          /\ \/ SameSess
             \/ /\ i \in 1 .. sessCount /\ sessCount = shown.sessCount
                /\ AllInUse(i - 1) /\ ~shown.sess[i].in_use
                /\ sess = [shown.sess EXCEPT ![i] = NewSession(p)]
             \/ /\ sessCount = shown.sessCount + 1 /\ AllInUse(shown.sessCount)
                /\ sess = [shown.sess EXCEPT ![sessCount] = NewSession(p)]

(* The entries of gone processes among the first n were freed.               *)
Freed(gone, n) ==
    sess = [k \in Slots |->
              IF k <= n /\ shown.sess[k].in_use /\ shown.sess[k].pid \in gone
              THEN FreeSession ELSE shown.sess[k]]

Collecting(p) ==
    LET i == loc[p].i IN
    /\ SameReq /\ sessCount = shown.sessCount
    /\ \E gone \in SUBSET {q \in Pids : pc[q] = "gone"} :
        \/ pc[p] = "scan" /\ i \in 1 .. sessCount + 1 /\ Freed(gone, i - 1)
        \/ pc[p] = "unlock" /\ Freed(gone, sessCount)

(* The slot i that the scan found for a request.                             *)
FoundSlot(i) ==
    /\ i \in Slots /\ AllPending(i - 1)
    /\ \/ i <= shown.reqCount /\ shown.req[i].status # "PENDING" /\ reqCount = shown.reqCount
       \/ i = shown.reqCount + 1 /\ reqCount = i

AddingRequest(p) ==
    LET i == loc[p].i IN
    /\ SameSess
    /\ \/ pc[p] = "scan" /\ SameReq /\ i \in 1 .. reqCount + 1 /\ AllPending(i - 1)
       \/ /\ pc[p] = "next_id" /\ FoundSlot(i)
          /\ req = shown.req /\ nextId = shown.nextId
       \/ /\ pc[p] \in {"copy", "copy_rest", "unlock"} /\ FoundSlot(i)
          /\ loc[p].id = shown.nextId /\ nextId = shown.nextId + 1
          /\ req = [shown.req EXCEPT ![i] =
                CASE pc[p] = "copy" -> @
                  [] pc[p] = "copy_rest" ->
                       [@ EXCEPT !.id = loc[p].id, !.source_username = loc[p].u]
                  [] OTHER ->
                       [id |-> loc[p].id, source_username |-> loc[p].u,
                        dest_username |-> loc[p].v, status |-> "PENDING"]]
       \/ pc[p] = "unlock" /\ SameReq

TakingRequest(p) ==
    LET i == loc[p].i
        take == loc[p].op = "request_take"
    IN
    /\ SameSess
    /\ \/ pc[p] = "scan" /\ SameReq /\ i \in 1 .. reqCount + 1 /\ NoneHas(loc[p].id, i - 1)
       \/ /\ pc[p] = "unlock" /\ i \in 1 .. reqCount /\ NoneHas(loc[p].id, i - 1)
          /\ reqCount = shown.reqCount /\ nextId = shown.nextId
          /\ shown.req[i].id = loc[p].id
          /\ take => /\ shown.req[i].dest_username = loc[p].v
                     /\ shown.req[i].status = "PENDING"
          /\ req = [shown.req EXCEPT ![i].status = IF take THEN "ACCEPTED" ELSE "FAILED"]
       \/ pc[p] = "unlock" /\ SameReq

(* The pending requests of u among the first n were failed.                  *)
Failed(u, n) ==
    req = [k \in Slots |->
             IF k <= n /\ shown.req[k].status = "PENDING" /\ shown.req[k].source_username = u
             THEN [shown.req[k] EXCEPT !.status = "FAILED"] ELSE shown.req[k]]

Failing(p) ==
    LET i == loc[p].i IN
    /\ SameSess /\ reqCount = shown.reqCount /\ nextId = shown.nextId
    /\ \/ pc[p] = "scan" /\ i \in 1 .. reqCount + 1 /\ Failed(loc[p].u, i - 1)
       \/ pc[p] = "unlock" /\ Failed(loc[p].u, reqCount)

Progress(p) ==
    /\ loc[p].op = "session_add" => AddingSession(p)
    /\ loc[p].op = "collect" => Collecting(p)
    /\ loc[p].op = "request_add" => AddingRequest(p)
    /\ loc[p].op \in {"request_take", "request_set"} => TakingRequest(p)
    /\ loc[p].op = "set_failed" => Failing(p)

ProgressInv ==
    /\ (\A p \in Pids : ~Inside(p)) => SameSess /\ SameReq
    /\ \A p \in Pids : Inside(p) => Progress(p)

(* A process has one session at most, also while it adds it.                 *)
Adding(p) ==
    loc[p].op = "session_add" /\ pc[p] \in {"wait", "scan", "sess_count"}

UniqueInv ==
    /\ \A j \in Slots : sess[j].in_use => sess[j].pid \in Pids
    /\ \A j, k \in 1 .. sessCount :
           sess[j].in_use /\ sess[k].in_use /\ sess[j].pid = sess[k].pid => j = k
    /\ \A p \in Pids : Adding(p) => \A j \in 1 .. sessCount : sess[j].pid # p

AtomicInv == SemInv /\ TypesInv /\ ProgressInv /\ UniqueInv

-----------------------------------------------------------------------------
(* A step of a section makes progress *)

(* The parts of the tables, now and at the beginning of the section.         *)
LEMMA Parts ==
  ASSUME TypesInv
  PROVE  /\ sess \in [Slots -> session_entry_t] /\ sessCount \in 0 .. MAX_ENTRIES
         /\ req \in [Slots -> transfer_request_entry_t] /\ reqCount \in 0 .. MAX_ENTRIES
         /\ nextId \in Nat
         /\ shown.sess \in [Slots -> session_entry_t]
         /\ shown.sessCount \in 0 .. MAX_ENTRIES
         /\ shown.req \in [Slots -> transfer_request_entry_t]
         /\ shown.reqCount \in 0 .. MAX_ENTRIES /\ shown.nextId \in Nat
  BY DEF TypesInv, Memory, MemoryType

(* The process inside, its call and its place.                               *)
LEMMA InsideParts ==
  ASSUME AtomicInv, NEW p \in Pids, Inside(p)
  PROVE  /\ loc[p] \in Locals /\ loc[p].op \in Ops /\ Progress(p)
         /\ pc[p] \in Places
         /\ pc[p] = "sess_count" => loc[p].op = "session_add"
         /\ pc[p] \in {"next_id", "copy", "copy_rest"} => loc[p].op = "request_add"
<1>1. /\ loc[p] \in Locals /\ loc[p].op \in Ops /\ Progress(p) /\ pc[p] \in Places
  BY DEF AtomicInv, TypesInv, ProgressInv, SemInv, Inside
<1> QED
  BY <1>1 DEF Progress, Ops, AddingSession, Collecting, AddingRequest, TakingRequest, Failing

(* Moving on in the section, or to the next entry of the loop.               *)
LEMMA MovesOn ==
  ASSUME pc \in [Pids -> Places], loc \in [Pids -> Locals], NEW p \in Pids
  PROVE  /\ \A place \in Places : Go(p, place) => pc'[p] = place /\ loc' = loc
         /\ Again(p) => /\ pc' = pc /\ loc' \in [Pids -> Locals]
                        /\ loc'[p] = [loc[p] EXCEPT !.i = @ + 1]
                        /\ loc'[p].i = loc[p].i + 1 /\ loc'[p].op = loc[p].op
                        /\ loc'[p].u = loc[p].u /\ loc'[p].v = loc[p].v
                        /\ loc'[p].id = loc[p].id
<1>1. loc[p] \in Locals
  OBVIOUS
<1>2. \A place \in Places : Go(p, place) => pc'[p] = place /\ loc' = loc
  BY DEF Go
<1>3. ASSUME Again(p)
      PROVE  /\ pc' = pc /\ loc' \in [Pids -> Locals]
             /\ loc'[p] = [loc[p] EXCEPT !.i = @ + 1]
  <2> DEFINE next == [loc[p] EXCEPT !.i = @ + 1]
  <2>1. next \in Locals
    BY <1>1 DEF Locals
  <2>2. loc' = [loc EXCEPT ![p] = next] /\ pc' = pc
    BY <1>3 DEF Again
  <2> QED  BY <2>1, <2>2
<1> QED  BY <1>1, <1>2, <1>3 DEF Locals

(* shm_session_add: the first free entry, or a new one if all are in use.    *)
LEMMA AddSessionStep ==
  ASSUME AtomicInv, NEW p \in Pids, AddSession(p), UNCHANGED shown
  PROVE  /\ sess' \in [Slots -> session_entry_t] /\ sessCount' \in 0 .. MAX_ENTRIES
         /\ UNCHANGED reqVars /\ loc' \in [Pids -> Locals]
         /\ Progress(p)' /\ loc'[p].op = loc[p].op
<1> DEFINE i == loc[p].i
           entry == [username |-> loc[p].u, pid |-> p, in_use |-> TRUE]
<1> USE DEF Places, Outside
<1>1. Inside(p)
  BY DEF AddSession, At, Inside
<1>2. /\ loc[p] \in Locals /\ loc[p].op = "session_add" /\ AddingSession(p)
      /\ UNCHANGED reqVars /\ pc \in [Pids -> Places] /\ loc \in [Pids -> Locals]
      /\ i \in Nat
  <2>1. /\ loc[p] \in Locals /\ loc[p].op = "session_add" /\ UNCHANGED reqVars
    BY <1>1, InsideParts DEF AddSession, At
  <2>2. AddingSession(p)
    BY <1>1, <2>1, InsideParts DEF Progress
  <2> QED  BY <2>1, <2>2 DEF Locals, AtomicInv, SemInv, TypesInv
<1>3. /\ sess \in [Slots -> session_entry_t] /\ sessCount \in 0 .. MAX_ENTRIES
      /\ shown.sess \in [Slots -> session_entry_t] /\ shown.sessCount \in 0 .. MAX_ENTRIES
      /\ MAX_ENTRIES \in Nat
  BY Parts, ShmAssumption DEF AtomicInv
<1>4. entry \in session_entry_t /\ entry = NewSession(p)
  BY <1>2 DEF session_entry_t, Locals, NewSession
<1>5. NewSession(p)' = NewSession(p) /\ SameReq' = SameReq
  <2>1. loc'[p].u = loc[p].u
    BY <1>2, MovesOn DEF AddSession
  <2> QED  BY <1>2, <2>1 DEF NewSession, SameReq, reqVars
<1>6. CASE At(p, "session_add") /\ i <= sessCount
  <2>1. SameSess /\ i \in 1 .. sessCount /\ AllInUse(i - 1) /\ SameReq /\ UNCHANGED sessCount
    BY <1>2, <1>6 DEF AddingSession, At, AddSession
  <2>2. CASE sess[i].in_use
    <3>1. UNCHANGED sess /\ Again(p)
      BY <1>2, <1>3, <1>6, <2>1, <2>2 DEF AddSession, At
    <3>2. AllInUse(i)
      BY <2>1, <2>2, <1>3 DEF AllInUse, SameSess
    <3>3. pc'[p] = "scan" /\ loc'[p].i = i + 1 /\ loc'[p].op = "session_add"
          /\ loc' \in [Pids -> Locals]
      BY <1>2, <1>6, <3>1, MovesOn DEF At
    <3>4. AddingSession(p)'
      BY <1>2, <1>3, <1>5, <2>1, <3>1, <3>2, <3>3 DEF AddingSession, SameSess, AllInUse
    <3> QED  BY <1>2, <1>3, <2>1, <3>1, <3>3, <3>4 DEF Progress
  <2>3. CASE ~sess[i].in_use
    <3>1. sess' = [sess EXCEPT ![i] = entry] /\ Go(p, "unlock")
      BY <1>2, <1>3, <1>6, <2>1, <2>3 DEF AddSession, At
    <3>2. pc'[p] = "unlock" /\ loc' = loc
      BY <1>2, <3>1, MovesOn
    <3>3. AddingSession(p)'
      BY <1>2, <1>3, <1>4, <1>5, <2>1, <2>3, <3>1, <3>2
         DEF AddingSession, SameSess, AllInUse
    <3>4. sess' \in [Slots -> session_entry_t]
      BY <1>3, <1>4, <3>1
    <3> QED  BY <1>2, <1>3, <2>1, <3>2, <3>3, <3>4 DEF Progress
  <2> QED  BY <2>2, <2>3
<1>7. CASE At(p, "session_add") /\ i > sessCount
  <2>1. /\ SameSess /\ i = sessCount + 1 /\ AllInUse(sessCount) /\ SameReq
        /\ UNCHANGED sessCount
    BY <1>2, <1>3, <1>7 DEF AddingSession, At, AddSession
  <2>2. CASE sessCount = MAX_ENTRIES
    <3>1. UNCHANGED sess /\ Go(p, "unlock")
      BY <1>3, <1>7, <2>1, <2>2 DEF AddSession, At
    <3>2. pc'[p] = "unlock" /\ loc' = loc
      BY <1>2, <3>1, MovesOn
    <3>3. AddingSession(p)'
      BY <1>5, <2>1, <3>1, <3>2 DEF AddingSession, SameSess
    <3> QED  BY <1>2, <1>3, <2>1, <3>1, <3>2, <3>3 DEF Progress
  <2>3. CASE sessCount # MAX_ENTRIES
    <3>1. sess' = [sess EXCEPT ![i] = entry] /\ Go(p, "sess_count")
      BY <1>3, <1>7, <2>1, <2>3 DEF AddSession, At
    <3>2. pc'[p] = "sess_count" /\ loc' = loc
      BY <1>2, <3>1, MovesOn
    <3>3. AddingSession(p)'
      <4>1. sess' = [shown.sess EXCEPT ![sessCount' + 1] = NewSession(p)']
        BY <1>4, <1>5, <2>1, <3>1 DEF SameSess
      <4>2. sessCount' = shown'.sessCount /\ sessCount' < MAX_ENTRIES /\ AllInUse(sessCount)'
        BY <1>3, <2>1, <2>3 DEF SameSess, AllInUse
      <4> QED  BY <1>5, <2>1, <3>2, <4>1, <4>2 DEF AddingSession
    <3>4. sess' \in [Slots -> session_entry_t]
      BY <1>3, <1>4, <3>1
    <3> QED  BY <1>2, <1>3, <2>1, <3>2, <3>3, <3>4 DEF Progress
  <2> QED  BY <2>2, <2>3
<1>8. CASE pc[p] = "sess_count"
  <2>1. /\ sessCount = shown.sessCount /\ sessCount < MAX_ENTRIES /\ AllInUse(sessCount)
        /\ sess = [shown.sess EXCEPT ![sessCount + 1] = NewSession(p)] /\ SameReq
    BY <1>2, <1>8 DEF AddingSession
  <2>2. sessCount' = sessCount + 1 /\ UNCHANGED sess /\ Go(p, "unlock")
    BY <1>8 DEF AddSession, At
  <2>3. pc'[p] = "unlock" /\ loc' = loc
    BY <1>2, <2>2, MovesOn
  <2>4. AddingSession(p)'
    BY <1>3, <1>5, <2>1, <2>2, <2>3 DEF AddingSession, AllInUse
  <2> QED  BY <1>2, <1>3, <2>1, <2>2, <2>3, <2>4 DEF Progress
<1> QED  BY <1>6, <1>7, <1>8 DEF AddSession

(* shm_sessions_collect_stale: entries freed so far are of gone processes,   *)
(* and no entry that was passed is of a process that is found gone later.    *)
LEMMA CollectStep ==
  ASSUME AtomicInv, NEW p \in Pids, Collect(p), UNCHANGED shown
  PROVE  /\ sess' \in [Slots -> session_entry_t] /\ UNCHANGED <<sessCount, reqVars>>
         /\ loc' \in [Pids -> Locals]
         /\ Progress(p)' /\ loc'[p].op = loc[p].op
<1>0. PICK i : i = loc[p].i
  OBVIOUS
<1> DEFINE Dead == {q \in Pids : pc[q] = "gone"}
<1> USE DEF Places, Outside
<1>1. Inside(p)
  BY DEF Collect, At, Inside
<1>2. /\ loc[p] \in Locals /\ loc[p].op = "collect" /\ pc[p] = "scan" /\ Collecting(p)
      /\ pc \in [Pids -> Places] /\ loc \in [Pids -> Locals]
      /\ i \in Nat /\ UNCHANGED <<sessCount, reqVars>>
  <2>1. loc[p] \in Locals /\ loc[p].op = "collect" /\ pc[p] = "scan"
    BY <1>1, InsideParts DEF Collect, At
  <2>2. Collecting(p)
    BY <1>1, <2>1, InsideParts DEF Progress
  <2> QED  BY <1>0, <2>1, <2>2 DEF Locals, AtomicInv, SemInv, TypesInv, Collect
<1>3. /\ sess \in [Slots -> session_entry_t] /\ sessCount \in 0 .. MAX_ENTRIES
      /\ shown.sess \in [Slots -> session_entry_t] /\ sessCount = shown.sessCount
      /\ MAX_ENTRIES \in Nat /\ SameReq
  BY <1>2, Parts, ShmAssumption DEF AtomicInv, Collecting
<1>4. PICK gone \in SUBSET Dead : i \in 1 .. sessCount + 1 /\ Freed(gone, i - 1)
  BY <1>0, <1>2 DEF Collecting
<1>5. SameReq'
  BY <1>2, <1>3 DEF SameReq, reqVars
<1>6. CASE i > sessCount
  <2>1. UNCHANGED sess /\ Go(p, "unlock") /\ i - 1 = sessCount
    BY <1>0, <1>2, <1>3, <1>4, <1>6 DEF Collect
  <2>2. pc'[p] = "unlock" /\ loc' = loc
    BY <1>2, <2>1, MovesOn
  <2>3. gone \in SUBSET {q \in Pids : pc'[q] = "gone"}
    BY <1>2, <2>1 DEF Go
  <2>4. Freed(gone, sessCount)'
    BY <1>2, <1>4, <2>1 DEF Freed
  <2>5. Collecting(p)'
    BY <1>2, <1>3, <1>5, <2>2, <2>3, <2>4 DEF Collecting
  <2> QED  BY <1>2, <1>3, <2>1, <2>2, <2>5 DEF Progress
<1>7. CASE i <= sessCount
  <2>0. i \in Slots /\ i \in 1 .. sessCount
    BY <1>3, <1>4, <1>7 DEF Slots
  <2>1. /\ Again(p)
        /\ sess' = [sess EXCEPT ![i] = IF @.in_use /\ pc[@.pid] = "gone"
                                       THEN FreeSession ELSE @]
    BY <1>0, <1>2, <1>3, <1>7 DEF Collect
  <2>2. /\ pc' = pc /\ loc' \in [Pids -> Locals] /\ loc'[p].i = i + 1
        /\ loc'[p].op = "collect"
    BY <1>0, <1>2, <2>1, MovesOn
  <2>3. FreeSession \in session_entry_t
    BY DEF FreeSession, session_entry_t
  <2>4. sess[i] = shown.sess[i] /\ sess[i] \in session_entry_t
    BY <1>3, <1>4, <2>0 DEF Freed
  <2>5. sess' \in [Slots -> session_entry_t]
    BY <1>3, <2>0, <2>1, <2>3, <2>4
  <2>6. \E more \in SUBSET Dead : Freed(more, i)'
    <3>1. CASE sess[i].in_use /\ pc[sess[i].pid] = "gone"
      <4>0. PICK dead : dead = sess[i].pid
        OBVIOUS
      <4> DEFINE more == gone \cup {dead}
      <4>1. dead \in Pids
        BY <2>0, <3>1, <4>0 DEF AtomicInv, UniqueInv
      <4>2. more \in SUBSET Dead
        BY <3>1, <4>0, <4>1
      <4>3. ASSUME NEW k \in Slots, k <= i - 1, shown.sess[k].in_use,
                   shown.sess[k].pid = dead
            PROVE  dead \in gone
        <5>1. SUFFICES ASSUME dead \notin gone PROVE FALSE
          OBVIOUS
        <5>2. sess[k] = shown.sess[k]
          BY <1>4, <4>3, <5>1 DEF Freed
        <5>3. k \in 1 .. sessCount /\ k # i
          BY <2>0, <1>3, <4>3 DEF Slots
        <5> QED  BY <2>0, <3>1, <4>0, <4>3, <5>2, <5>3 DEF AtomicInv, UniqueInv
      <4>4. sess' = [sess EXCEPT ![i] = FreeSession]
        BY <2>1, <3>1
      <4>5. ASSUME NEW k \in Slots
            PROVE  sess'[k] = IF k <= i /\ shown.sess[k].in_use /\ shown.sess[k].pid \in more
                              THEN FreeSession ELSE shown.sess[k]
        <5>1. CASE k = i
          BY <1>3, <2>0, <2>4, <3>1, <4>0, <4>4, <5>1
        <5>2. CASE k # i
          <6>1. k <= i <=> k <= i - 1
            BY <1>2, <5>2 DEF Slots
          <6>2. sess'[k] = sess[k]
            BY <1>3, <4>4, <5>2
          <6> QED  BY <1>4, <4>3, <6>1, <6>2 DEF Freed
        <5> QED  BY <5>1, <5>2
      <4>6. Freed(more, i)'
        <5>1. sess' = [k \in Slots |-> sess'[k]]
          BY <2>5
        <5> HIDE DEF more
        <5> QED  BY <4>5, <5>1, <1>2 DEF Freed
      <4> QED  BY <4>2, <4>6
    <3>2. CASE ~(sess[i].in_use /\ pc[sess[i].pid] = "gone")
      <4>1. sess' = sess
        BY <1>3, <2>0, <2>1, <3>2
      <4>2. shown.sess[i].in_use => shown.sess[i].pid \notin gone
        BY <2>4, <3>2
      <4>3. \A k \in Slots : k <= i <=> k <= i - 1 \/ k = i
        BY <1>2 DEF Slots
      <4>4. Freed(gone, i)'
        BY <1>4, <4>1, <4>2, <4>3 DEF Freed
      <4> QED  BY <4>4
    <3> QED  BY <3>1, <3>2
  <2>7. Collecting(p)'
    <3>1. PICK more \in SUBSET Dead : Freed(more, i)'
      BY <2>6
    <3>2. more \in SUBSET {q \in Pids : pc'[q] = "gone"}
      BY <2>2
    <3>3. loc'[p].i \in 1 .. sessCount' + 1 /\ loc'[p].i - 1 = i
      BY <1>2, <1>3, <2>0, <2>2
    <3>4. Freed(more, loc[p].i - 1)'
      BY <3>1, <3>3 DEF Freed
    <3> QED  BY <1>2, <1>3, <1>5, <2>2, <3>2, <3>3, <3>4 DEF Collecting
  <2> QED  BY <1>2, <2>2, <2>5, <2>7 DEF Progress
<1> QED  BY <1>2, <1>3, <1>6, <1>7

(* What every step on the requests starts from.                              *)
LEMMA RequestParts ==
  ASSUME AtomicInv, NEW p \in Pids, Inside(p)
  PROVE  /\ loc[p] \in Locals /\ loc[p].i \in Nat /\ loc[p].id \in Nat
         /\ loc[p].u \in Users \cup {NoUser} /\ loc[p].v \in Users \cup {NoUser}
         /\ pc \in [Pids -> Places] /\ loc \in [Pids -> Locals]
         /\ req \in [Slots -> transfer_request_entry_t] /\ reqCount \in 0 .. MAX_ENTRIES
         /\ nextId \in Nat
         /\ shown.req \in [Slots -> transfer_request_entry_t]
         /\ shown.reqCount \in 0 .. MAX_ENTRIES /\ shown.nextId \in Nat
         /\ MAX_ENTRIES \in Nat
<1>1. loc[p] \in Locals
  BY InsideParts
<1> QED
  BY <1>1, Parts, ShmAssumption DEF AtomicInv, TypesInv, SemInv, Locals

(* shm_request_add: the first settled entry or a new one, filled in twice.   *)
LEMMA AddRequestStep ==
  ASSUME AtomicInv, NEW p \in Pids, AddRequest(p), UNCHANGED shown
  PROVE  /\ req' \in [Slots -> transfer_request_entry_t] /\ reqCount' \in 0 .. MAX_ENTRIES
         /\ nextId' \in Nat /\ UNCHANGED sessVars /\ loc' \in [Pids -> Locals]
         /\ Progress(p)' /\ loc'[p].op = loc[p].op
<1>0. PICK i : i = loc[p].i
  OBVIOUS
<1> USE DEF Places, Outside, Slots
<1>1. Inside(p)
  BY DEF AddRequest, At, Inside
<1>2. /\ loc[p] \in Locals /\ loc[p].op = "request_add" /\ AddingRequest(p)
      /\ pc \in [Pids -> Places] /\ loc \in [Pids -> Locals] /\ i \in Nat
      /\ UNCHANGED sessVars /\ SameSess'
  <2>1. loc[p].op = "request_add" /\ UNCHANGED sessVars
    BY <1>1, InsideParts DEF AddRequest, At
  <2>2. AddingRequest(p)
    BY <1>1, <2>1, InsideParts DEF Progress
  <2> QED  BY <1>0, <1>1, <2>1, <2>2, RequestParts DEF AddingRequest, SameSess, sessVars
<1>3. /\ req \in [Slots -> transfer_request_entry_t] /\ reqCount \in 0 .. MAX_ENTRIES
      /\ shown.req \in [Slots -> transfer_request_entry_t]
      /\ shown.reqCount \in 0 .. MAX_ENTRIES
      /\ nextId \in Nat /\ shown.nextId \in Nat /\ MAX_ENTRIES \in Nat
  BY <1>1, RequestParts
<1>4. CASE At(p, "request_add")
  <2>1. SameReq /\ i \in 1 .. reqCount + 1 /\ AllPending(i - 1) /\ pc[p] = "scan"
    BY <1>0, <1>2, <1>4 DEF AddingRequest, At
  <2>2. CASE i <= reqCount /\ req[i].status = "PENDING"
    <3>1. UNCHANGED reqVars /\ Again(p)
      BY <1>0, <1>2, <1>3, <1>4, <2>1, <2>2 DEF AddRequest, At
    <3>2. /\ pc'[p] = "scan" /\ loc'[p].i = i + 1 /\ loc'[p].op = "request_add"
          /\ loc' \in [Pids -> Locals]
      BY <1>0, <1>2, <2>1, <3>1, MovesOn
    <3>3. AllPending(i)
      BY <1>2, <2>1, <2>2 DEF AllPending, SameReq
    <3>4. AddingRequest(p)'
      BY <1>2, <1>3, <2>1, <2>2, <3>1, <3>2, <3>3
         DEF AddingRequest, SameReq, reqVars, AllPending
    <3> QED  BY <1>2, <1>3, <3>1, <3>2, <3>4 DEF Progress, reqVars
  <2>3. CASE i <= reqCount /\ req[i].status # "PENDING"
    <3>1. UNCHANGED reqVars /\ Go(p, "next_id")
      BY <1>0, <1>2, <1>3, <1>4, <2>1, <2>3 DEF AddRequest, At
    <3>2. pc'[p] = "next_id" /\ loc' = loc
      BY <1>2, <3>1, MovesOn
    <3>3. FoundSlot(i)'
      BY <1>2, <1>3, <2>1, <2>3, <3>1 DEF FoundSlot, SameReq, reqVars, AllPending
    <3>4. AddingRequest(p)'
      BY <1>0, <1>2, <2>1, <3>1, <3>2, <3>3 DEF AddingRequest, SameReq, reqVars
    <3> QED  BY <1>2, <1>3, <3>1, <3>2, <3>4 DEF Progress, reqVars
  <2>4. CASE i > reqCount /\ reqCount = MAX_ENTRIES
    <3>1. UNCHANGED reqVars /\ Go(p, "unlock")
      BY <1>0, <1>2, <1>3, <1>4, <2>1, <2>4 DEF AddRequest, At, FullPlace
    <3>2. pc'[p] = "unlock" /\ loc' = loc
      BY <1>2, <3>1, MovesOn
    <3>3. AddingRequest(p)'
      BY <1>2, <2>1, <3>1, <3>2 DEF AddingRequest, SameReq, reqVars
    <3> QED  BY <1>2, <1>3, <3>1, <3>2, <3>3 DEF Progress, reqVars
  <2>5. CASE i > reqCount /\ reqCount # MAX_ENTRIES
    <3>1. Go(p, "next_id") /\ reqCount' = reqCount + 1 /\ UNCHANGED <<req, nextId>>
      BY <1>0, <1>2, <1>3, <1>4, <2>1, <2>5 DEF AddRequest, At
    <3>2. pc'[p] = "next_id" /\ loc' = loc
      BY <1>2, <3>1, MovesOn
    <3>3. FoundSlot(i)'
      BY <1>2, <1>3, <2>1, <2>5, <3>1 DEF FoundSlot, SameReq, AllPending
    <3>4. AddingRequest(p)'
      BY <1>0, <1>2, <2>1, <3>1, <3>2, <3>3 DEF AddingRequest, SameReq
    <3> QED  BY <1>2, <1>3, <2>5, <3>1, <3>2, <3>4 DEF Progress
  <2> QED  BY <1>2, <1>3, <2>1, <2>2, <2>3, <2>4, <2>5
<1>5. CASE pc[p] = "next_id"
  <2>1. FoundSlot(i) /\ req = shown.req /\ nextId = shown.nextId
    BY <1>0, <1>2, <1>5 DEF AddingRequest
  <2>2. /\ loc' = [loc EXCEPT ![p].id = nextId] /\ pc' = [pc EXCEPT ![p] = "copy"]
        /\ nextId' = nextId + 1 /\ UNCHANGED <<req, reqCount>>
    BY <1>5 DEF AddRequest, At, FollowingId
  <2> DEFINE next == [loc[p] EXCEPT !.id = nextId]
  <2>3. next \in Locals /\ next.id = nextId /\ next.i = i /\ next.op = "request_add"
    BY <1>0, <1>2, <1>3 DEF Locals
  <2>4. loc' = [loc EXCEPT ![p] = next]
    BY <2>2
  <2>5. loc' \in [Pids -> Locals] /\ loc'[p] = next /\ pc'[p] = "copy"
    BY <1>2, <2>2, <2>3, <2>4
  <2>6. FoundSlot(i)'
    BY <2>1, <2>2 DEF FoundSlot, AllPending
  <2>7. req' = [shown.req EXCEPT ![i] = @]
    BY <1>3, <2>1, <2>2 DEF FoundSlot
  <2>8. AddingRequest(p)'
    <3>1. /\ pc'[p] = "copy" /\ loc'[p].i = i /\ loc'[p].id = shown'.nextId
          /\ nextId' = shown'.nextId + 1 /\ shown' = shown
      BY <2>1, <2>2, <2>3, <2>5
    <3> QED  BY <1>2, <2>6, <2>7, <3>1 DEF AddingRequest
  <2> QED  BY <1>2, <1>3, <2>2, <2>3, <2>5, <2>8 DEF Progress
<1>6. CASE pc[p] \in {"copy", "copy_rest"}
  <2>1. /\ FoundSlot(i) /\ loc[p].id = shown.nextId /\ nextId = shown.nextId + 1
        /\ i \in Slots /\ loc[p].id \in Nat
        /\ loc[p].u \in Users \cup {NoUser} /\ loc[p].v \in Users \cup {NoUser}
    BY <1>0, <1>1, <1>2, <1>6, RequestParts DEF AddingRequest, FoundSlot
  <2>2. shown.req[i] \in transfer_request_entry_t
    BY <1>3, <2>1
  <2>3. CASE pc[p] = "copy"
    <3>1. /\ req' = [req EXCEPT ![i] = [req[i] EXCEPT !.id = loc[p].id,
                                                     !.source_username = loc[p].u]]
          /\ Go(p, "copy_rest") /\ UNCHANGED <<reqCount, nextId>>
      BY <1>0, <2>3 DEF AddRequest, At, Store
    <3>2. pc'[p] = "copy_rest" /\ loc' = loc
      BY <1>2, <3>1, MovesOn
    <3>3. req = shown.req
      BY <1>0, <1>2, <1>3, <2>3 DEF AddingRequest
    <3> DEFINE entry == [shown.req[i] EXCEPT !.id = loc[p].id, !.source_username = loc[p].u]
    <3>4. entry \in transfer_request_entry_t
      BY <2>1, <2>2 DEF transfer_request_entry_t
    <3>5. req' = [shown.req EXCEPT ![i] = entry]
      BY <3>1, <3>3
    <3>6. req' \in [Slots -> transfer_request_entry_t]
      BY <1>3, <3>4, <3>5
    <3>7. AddingRequest(p)'
      <4>1. FoundSlot(i)' /\ loc'[p].i = i /\ loc'[p].id = shown'.nextId
        BY <1>0, <2>1, <3>1, <3>2 DEF FoundSlot, AllPending
      <4> QED  BY <1>2, <2>1, <3>1, <3>2, <3>5, <4>1 DEF AddingRequest
    <3> QED  BY <1>2, <1>3, <3>1, <3>2, <3>6, <3>7 DEF Progress
  <2>4. CASE pc[p] = "copy_rest"
    <3>1. /\ req' = [req EXCEPT ![i] = [req[i] EXCEPT !.dest_username = loc[p].v,
                                                     !.status = "PENDING"]]
          /\ Go(p, "unlock") /\ UNCHANGED <<reqCount, nextId>>
      BY <1>0, <2>4 DEF AddRequest, At, Store
    <3>2. pc'[p] = "unlock" /\ loc' = loc
      BY <1>2, <3>1, MovesOn
    <3>3. req = [shown.req EXCEPT ![i] = [@ EXCEPT !.id = loc[p].id,
                                                   !.source_username = loc[p].u]]
      BY <1>0, <1>2, <2>4 DEF AddingRequest
    <3> DEFINE entry == [id |-> loc[p].id, source_username |-> loc[p].u,
                         dest_username |-> loc[p].v, status |-> "PENDING"]
    <3>4. entry \in transfer_request_entry_t
      BY <2>1 DEF transfer_request_entry_t, request_status
    <3>5. [req[i] EXCEPT !.dest_username = loc[p].v, !.status = "PENDING"] = entry
      <4> DEFINE half == [shown.req[i] EXCEPT !.id = loc[p].id, !.source_username = loc[p].u]
      <4>1. /\ half \in transfer_request_entry_t
            /\ half.id = loc[p].id /\ half.source_username = loc[p].u
        BY <2>1, <2>2 DEF transfer_request_entry_t
      <4>2. req[i] = half
        BY <1>3, <2>1, <3>3
      <4> HIDE DEF half
      <4>3. [half EXCEPT !.dest_username = loc[p].v, !.status = "PENDING"] = entry
        <5> DEFINE done == [half EXCEPT !.dest_username = loc[p].v, !.status = "PENDING"]
        <5>1. /\ done \in transfer_request_entry_t
              /\ done.id = entry.id /\ done.source_username = entry.source_username
              /\ done.dest_username = entry.dest_username /\ done.status = entry.status
          BY <2>1, <4>1 DEF transfer_request_entry_t, request_status
        <5> HIDE DEF done, entry
        <5>2. \A r, s \in transfer_request_entry_t :
                /\ r.id = s.id /\ r.source_username = s.source_username
                /\ r.dest_username = s.dest_username /\ r.status = s.status
                => r = s
          BY DEF transfer_request_entry_t
        <5>3. done = entry
          BY <3>4, <5>1, <5>2
        <5> QED  BY <5>3 DEF done
      <4> QED  BY <4>2, <4>3
    <3>6. req' = [shown.req EXCEPT ![i] = entry]
      BY <1>3, <2>1, <3>1, <3>3, <3>5
    <3>7. req' \in [Slots -> transfer_request_entry_t]
      BY <1>3, <3>4, <3>6
    <3>8. AddingRequest(p)'
      <4>1. FoundSlot(i)' /\ loc'[p].i = i /\ loc'[p].id = shown'.nextId
        BY <1>0, <2>1, <3>1, <3>2 DEF FoundSlot, AllPending
      <4> QED  BY <1>2, <2>1, <3>1, <3>2, <3>6, <4>1 DEF AddingRequest
    <3> QED  BY <1>2, <1>3, <3>1, <3>2, <3>7, <3>8 DEF Progress
  <2> QED  BY <1>6, <2>3, <2>4
<1> QED  BY <1>4, <1>5, <1>6 DEF AddRequest, At

(* shm_request_take and shm_request_set: the first entry with the id.        *)
LEMMA TakeRequestStep ==
  ASSUME AtomicInv, NEW p \in Pids, TakeRequest(p), UNCHANGED shown
  PROVE  /\ req' \in [Slots -> transfer_request_entry_t] /\ reqCount' \in 0 .. MAX_ENTRIES
         /\ nextId' \in Nat /\ UNCHANGED sessVars /\ loc' \in [Pids -> Locals]
         /\ Progress(p)' /\ loc'[p].op = loc[p].op
<1>0. PICK i, op, id : i = loc[p].i /\ op = loc[p].op /\ id = loc[p].id
  OBVIOUS
<1> DEFINE new == IF op = "request_take" THEN "ACCEPTED" ELSE "FAILED"
<1> USE DEF Places, Outside, Slots
<1>1. Inside(p)
  BY DEF TakeRequest, At, Inside
<1>2. /\ pc[p] = "scan" /\ op \in {"request_take", "request_set"} /\ TakingRequest(p)
      /\ pc \in [Pids -> Places] /\ loc \in [Pids -> Locals] /\ i \in Nat
      /\ UNCHANGED sessVars /\ SameSess'
  <2>1. op \in {"request_take", "request_set"} /\ UNCHANGED sessVars /\ pc[p] = "scan"
    BY <1>0 DEF TakeRequest, At
  <2>2. TakingRequest(p)
    BY <1>0, <1>1, <2>1, InsideParts DEF Progress
  <2> QED  BY <1>0, <1>1, <2>1, <2>2, RequestParts DEF TakingRequest, SameSess, sessVars
<1>3. /\ req \in [Slots -> transfer_request_entry_t] /\ reqCount \in 0 .. MAX_ENTRIES
      /\ nextId \in Nat /\ MAX_ENTRIES \in Nat
  BY <1>1, RequestParts
<1>4. SameReq /\ i \in 1 .. reqCount + 1 /\ NoneHas(id, i - 1)
  BY <1>0, <1>2 DEF TakingRequest
<1>5. CASE i <= reqCount /\ req[i].id # loc[p].id
  <2>1. Again(p) /\ UNCHANGED reqVars
    BY <1>0, <1>5 DEF TakeRequest
  <2>2. /\ pc'[p] = "scan" /\ loc'[p].i = i + 1 /\ loc'[p].op = op
        /\ loc'[p].id = id /\ loc' \in [Pids -> Locals]
    BY <1>0, <1>2, <2>1, MovesOn
  <2>3. NoneHas(id, i)
    BY <1>0, <1>2, <1>4, <1>5 DEF NoneHas, SameReq
  <2>4. TakingRequest(p)'
    <3>1. SameReq' /\ i + 1 \in 1 .. reqCount' + 1 /\ i + 1 - 1 = i
      BY <1>2, <1>3, <1>4, <1>5, <2>1 DEF SameReq, reqVars
    <3>2. NoneHas(loc[p].id, loc[p].i - 1)'
      <4>1. loc'[p].id = id /\ loc'[p].i - 1 = i
        BY <1>2, <2>2
      <4> QED  BY <2>3, <4>1 DEF NoneHas
    <3> QED  BY <1>2, <2>2, <3>1, <3>2 DEF TakingRequest
  <2> QED  BY <1>0, <1>2, <1>3, <2>1, <2>2, <2>4 DEF Progress, reqVars
<1>6. CASE ~(i <= reqCount /\ req[i].id # loc[p].id)
  <2> DEFINE fits == /\ i <= reqCount
                     /\ op = "request_take" =>
                          req[i].dest_username = loc[p].v /\ req[i].status = "PENDING"
  <2>1. Go(p, "unlock") /\ IF fits THEN Store(i, [req[i] EXCEPT !.status = new])
                                  ELSE UNCHANGED reqVars
    BY <1>0, <1>6 DEF TakeRequest
  <2>2. pc'[p] = "unlock" /\ loc' = loc
    BY <1>2, <2>1, MovesOn
  <2>3. CASE fits
    <3>1. req' = [req EXCEPT ![i] = [req[i] EXCEPT !.status = new]]
          /\ UNCHANGED <<reqCount, nextId>>
      BY <2>1, <2>3 DEF Store
    <3>2. i \in 1 .. reqCount /\ req[i] \in transfer_request_entry_t
      BY <1>2, <1>3, <1>4, <2>3
    <3>3. [req[i] EXCEPT !.status = new] \in transfer_request_entry_t
      BY <3>2 DEF transfer_request_entry_t, request_status
    <3>4. req' \in [Slots -> transfer_request_entry_t]
      BY <1>3, <3>1, <3>3
    <3>5. TakingRequest(p)'
      <4>1. /\ reqCount' = shown'.reqCount /\ nextId' = shown'.nextId
            /\ loc'[p].i = i /\ loc'[p].op = op /\ i \in 1 .. reqCount'
            /\ NoneHas(id, i - 1)' /\ loc'[p].id = id
            /\ shown'.req[i].id = loc'[p].id
            /\ op = "request_take" => /\ shown'.req[i].dest_username = loc'[p].v
                                      /\ shown'.req[i].status = "PENDING"
        BY <1>0, <1>4, <1>6, <2>2, <2>3, <3>1, <3>2 DEF SameReq, NoneHas
      <4>2. req' = [shown'.req EXCEPT ![i].status = new]
        BY <1>4, <3>1 DEF SameReq
      <4> QED  BY <1>2, <2>2, <4>1, <4>2 DEF TakingRequest
    <3> QED  BY <1>0, <1>2, <1>3, <2>2, <3>1, <3>4, <3>5 DEF Progress
  <2>4. CASE ~fits
    <3>1. UNCHANGED reqVars
      BY <2>1, <2>4
    <3>2. TakingRequest(p)'
      BY <1>2, <1>4, <2>2, <3>1 DEF TakingRequest, SameReq, reqVars
    <3> QED  BY <1>0, <1>2, <1>3, <2>2, <3>1, <3>2 DEF Progress, reqVars
  <2> QED  BY <2>3, <2>4
<1> QED  BY <1>5, <1>6

(* shm_requests_set_failed: one pending request of the user after another.   *)
LEMMA FailRequestsStep ==
  ASSUME AtomicInv, NEW p \in Pids, FailRequests(p), UNCHANGED shown
  PROVE  /\ req' \in [Slots -> transfer_request_entry_t] /\ reqCount' \in 0 .. MAX_ENTRIES
         /\ nextId' \in Nat /\ UNCHANGED sessVars /\ loc' \in [Pids -> Locals]
         /\ Progress(p)' /\ loc'[p].op = loc[p].op
<1>0. PICK i, u : i = loc[p].i /\ u = loc[p].u
  OBVIOUS
<1> USE DEF Places, Outside, Slots
<1>1. Inside(p)
  BY DEF FailRequests, At, Inside
<1>2. /\ pc[p] = "scan" /\ loc[p].op = "set_failed" /\ Failing(p)
      /\ pc \in [Pids -> Places] /\ loc \in [Pids -> Locals] /\ i \in Nat
      /\ UNCHANGED sessVars /\ SameSess'
  <2>1. loc[p].op = "set_failed" /\ UNCHANGED sessVars /\ pc[p] = "scan"
    BY DEF FailRequests, At
  <2>2. Failing(p)
    BY <1>1, <2>1, InsideParts DEF Progress
  <2> QED  BY <1>0, <1>1, <2>1, <2>2, RequestParts DEF Failing, SameSess, sessVars
<1>3. /\ req \in [Slots -> transfer_request_entry_t] /\ reqCount \in 0 .. MAX_ENTRIES
      /\ shown.req \in [Slots -> transfer_request_entry_t]
      /\ nextId \in Nat /\ MAX_ENTRIES \in Nat
  BY <1>1, RequestParts
<1>4. /\ reqCount = shown.reqCount /\ nextId = shown.nextId
      /\ i \in 1 .. reqCount + 1 /\ Failed(u, i - 1)
  BY <1>0, <1>2 DEF Failing
<1>5. CASE i > reqCount
  <2>1. Go(p, "unlock") /\ UNCHANGED reqVars /\ i - 1 = reqCount
    BY <1>0, <1>2, <1>3, <1>4, <1>5 DEF FailRequests
  <2>2. pc'[p] = "unlock" /\ loc' = loc
    BY <1>2, <2>1, MovesOn
  <2>3. Failed(loc[p].u, reqCount)'
    BY <1>0, <1>4, <2>1, <2>2 DEF Failed, reqVars
  <2>4. Failing(p)'
    BY <1>2, <1>4, <2>1, <2>2, <2>3 DEF Failing, reqVars
  <2> QED  BY <1>2, <1>3, <2>1, <2>2, <2>4 DEF Progress, reqVars
<1>6. CASE i <= reqCount
  <2>0. i \in Slots /\ req[i] = shown.req[i] /\ req[i] \in transfer_request_entry_t
    BY <1>3, <1>4, <1>6 DEF Failed
  <2> DEFINE hit == req[i].status = "PENDING" /\ req[i].source_username = u
             failed == [req[i] EXCEPT !.status = "FAILED"]
  <2>1. /\ Again(p) /\ UNCHANGED <<reqCount, nextId>>
        /\ req' = IF hit THEN [req EXCEPT ![i] = failed] ELSE req
    BY <1>0, <1>2, <1>3, <1>6 DEF FailRequests, AfterFail, Store, reqVars
  <2>2. /\ pc'[p] = "scan" /\ loc'[p].i = i + 1 /\ loc'[p].op = "set_failed"
        /\ loc'[p].u = u /\ loc' \in [Pids -> Locals]
    BY <1>0, <1>2, <2>1, MovesOn
  <2>3. failed \in transfer_request_entry_t
    BY <2>0 DEF transfer_request_entry_t, request_status
  <2>4. req' \in [Slots -> transfer_request_entry_t]
    <3> HIDE DEF hit, failed
    <3> QED  BY <1>3, <2>1, <2>3
  <2>5. Failed(u, i)'
    <3>1. ASSUME NEW k \in Slots
          PROVE  req'[k] = IF /\ k <= i /\ shown.req[k].status = "PENDING"
                              /\ shown.req[k].source_username = u
                           THEN [shown.req[k] EXCEPT !.status = "FAILED"] ELSE shown.req[k]
      <4>1. CASE k = i
        BY <1>3, <2>0, <2>1, <4>1
      <4>2. CASE k # i
        <5>1. k <= i <=> k <= i - 1
          BY <1>2, <4>2
        <5>2. req'[k] = req[k]
          BY <1>3, <2>1, <4>2
        <5> QED  BY <1>4, <5>1, <5>2 DEF Failed
      <4> QED  BY <4>1, <4>2
    <3>2. req' = [k \in Slots |-> req'[k]]
      BY <2>4
    <3> QED  BY <3>1, <3>2 DEF Failed
  <2>6. Failing(p)'
    <3>1. Failed(loc[p].u, loc[p].i - 1)'
      <4>1. loc'[p].u = u /\ loc'[p].i - 1 = i
        BY <1>2, <2>2
      <4> QED  BY <2>5, <4>1 DEF Failed
    <3>2. loc'[p].i \in 1 .. reqCount' + 1
      BY <1>2, <1>3, <1>4, <1>6, <2>1, <2>2
    <3> QED  BY <1>2, <1>4, <2>1, <2>2, <3>1, <3>2 DEF Failing
  <2> QED  BY <1>2, <1>3, <2>1, <2>2, <2>4, <2>6 DEF Progress
<1> QED  BY <1>3, <1>4, <1>5, <1>6

(* A session is stored only where there is none of the process.              *)
LEMMA UniqueStep ==
  ASSUME AtomicInv, NEW p \in Pids, AddSession(p) \/ Collect(p), UNCHANGED shown
  PROVE  UniqueInv'
<1>0. PICK i : i = loc[p].i
  OBVIOUS
<1> USE DEF Places, Outside, Slots, At
<1>1. Inside(p)
  BY DEF AddSession, Collect, Inside
<1>2. /\ loc[p] \in Locals /\ pc \in [Pids -> Places] /\ loc \in [Pids -> Locals]
      /\ i \in Nat /\ UniqueInv /\ Progress(p) /\ MAX_ENTRIES \in Nat
      /\ sess \in [Slots -> session_entry_t] /\ sessCount \in 0 .. MAX_ENTRIES
      /\ shown.sess \in [Slots -> session_entry_t]
  BY <1>0, <1>1, RequestParts, InsideParts, Parts DEF AtomicInv
<1>3. \A q \in Pids : q # p => pc'[q] = pc[q] /\ loc'[q] = loc[q]
  BY <1>2 DEF AddSession, Collect, Go, Again
<1>4. /\ Adding(p)' => Adding(p)
      /\ \A q \in Pids : q # p => (Adding(q)' <=> Adding(q))
  <2>1. pc[p] = "sess_count" => loc[p].op = "session_add"
    BY <1>1, InsideParts
  <2>2. loc'[p].op = loc[p].op
    BY AddSessionStep, CollectStep
  <2>3. pc[p] \in {"scan", "sess_count"}
    BY DEF AddSession, Collect
  <2> QED  BY <1>3, <2>1, <2>2, <2>3 DEF Adding
<1>5. CASE Collect(p)
  <2>1. /\ UNCHANGED sessCount
        /\ \A j \in Slots : sess'[j] = sess[j] \/ sess'[j] = FreeSession
    BY <1>2, <1>5 DEF Collect
  <2>2. loc[p].op = "collect"
    BY <1>5 DEF Collect
  <2>3. \A q \in Pids : FreeSession.pid # q /\ ~FreeSession.in_use
    BY ShmAssumption DEF FreeSession
  <2>4. /\ \A j \in Slots : sess'[j].in_use => sess'[j] = sess[j]
        /\ \A j \in Slots : \A q \in Pids : sess'[j].pid = q => sess'[j] = sess[j]
    BY <2>1, <2>3
  <2>5. \A j \in 1 .. sessCount : j \in Slots
    BY <1>2
  <2>6. \A j \in Slots : sess'[j].in_use => sess'[j].pid \in Pids
    BY <1>2, <2>4 DEF UniqueInv
  <2>7. \A j, k \in 1 .. sessCount :
          sess'[j].in_use /\ sess'[k].in_use /\ sess'[j].pid = sess'[k].pid => j = k
    BY <1>2, <2>4, <2>5 DEF UniqueInv
  <2>8. \A q \in Pids : Adding(q)' => \A j \in 1 .. sessCount : sess'[j].pid # q
    BY <1>2, <1>4, <2>4, <2>5 DEF UniqueInv
  <2> QED  BY <2>1, <2>6, <2>7, <2>8 DEF UniqueInv
<1>6. CASE AddSession(p)
  <2>1. loc[p].op = "session_add" /\ AddingSession(p)
    <3>1. loc[p].op = "session_add"
      BY <1>1, <1>6, InsideParts DEF AddSession
    <3> QED  BY <1>2, <3>1 DEF Progress
  <2>2. \A j \in 1 .. sessCount : sess[j].pid # p
    BY <1>2, <1>6, <2>1 DEF UniqueInv, Adding, AddSession
  <2> DEFINE entry == [username |-> loc[p].u, pid |-> p, in_use |-> TRUE]
  <2>3. CASE UNCHANGED sess /\ UNCHANGED sessCount
    BY <1>2, <1>4, <2>3 DEF UniqueInv
  <2>4. CASE /\ i \in 1 .. sessCount /\ ~sess[i].in_use /\ UNCHANGED sessCount
             /\ sess' = [sess EXCEPT ![i] = entry] /\ Go(p, "unlock")
    <3>1. ~Adding(p)'
      <4>1. pc'[p] = "unlock"
        BY <1>2, <2>4, MovesOn
      <4> QED  BY <4>1 DEF Adding
    <3>2. sess'[i].pid = p /\ sess'[i].in_use /\ \A j \in Slots : j # i => sess'[j] = sess[j]
      BY <1>2, <2>4
    <3> QED  BY <1>2, <1>4, <2>2, <2>4, <3>1, <3>2 DEF UniqueInv
  <2>5. CASE /\ i = sessCount + 1 /\ UNCHANGED sessCount
             /\ sess' = [sess EXCEPT ![i] = entry]
    <3>1. /\ i \in Slots => sess'[i].pid = p
          /\ \A j \in Slots : j # i => sess'[j] = sess[j]
      BY <1>2, <2>5
    <3> QED  BY <1>2, <1>4, <2>5, <3>1 DEF UniqueInv
  <2>6. CASE /\ pc[p] = "sess_count" /\ sessCount' = sessCount + 1 /\ UNCHANGED sess
             /\ Go(p, "unlock")
    <3>1. ~Adding(p)'
      <4>1. pc'[p] = "unlock"
        BY <1>2, <2>6, MovesOn
      <4> QED  BY <4>1 DEF Adding
    <3>2. sess[sessCount + 1].pid = p
      BY <1>2, <2>1, <2>6 DEF AddingSession, NewSession
    <3> QED  BY <1>2, <1>4, <2>2, <2>6, <3>1, <3>2 DEF UniqueInv
  <2>7. /\ pc[p] \in {"scan", "sess_count"}
        /\ pc[p] = "scan" => i \in 1 .. sessCount + 1 /\ UNCHANGED sessCount
    BY <1>0, <1>2, <1>6, <2>1 DEF AddSession, AddingSession
  <2>8. CASE pc[p] = "scan"
    <3>1. CASE i <= sessCount
      <4>1. IF sess[i].in_use THEN UNCHANGED sess
            ELSE sess' = [sess EXCEPT ![i] = entry] /\ Go(p, "unlock")
        BY <1>0, <1>2, <1>6, <2>7, <2>8, <3>1 DEF AddSession
      <4>2. UNCHANGED sessCount /\ i \in 1 .. sessCount
        BY <1>2, <2>7, <2>8, <3>1
      <4>3. CASE sess[i].in_use
        BY <2>3, <4>1, <4>2, <4>3
      <4>4. CASE ~sess[i].in_use
        <5>1. sess' = [sess EXCEPT ![i] = entry] /\ Go(p, "unlock")
          BY <4>1, <4>4
        <5> HIDE DEF entry
        <5> QED  BY <2>4, <4>2, <4>4, <5>1
      <4> QED  BY <4>3, <4>4
    <3>2. CASE i > sessCount
      <4>1. UNCHANGED sess \/ sess' = [sess EXCEPT ![i] = entry]
        BY <1>0, <1>2, <1>6, <2>7, <2>8, <3>2 DEF AddSession
      <4>2. UNCHANGED sessCount /\ i = sessCount + 1
        BY <1>2, <2>7, <2>8, <3>2
      <4> HIDE DEF entry
      <4> QED  BY <2>3, <2>5, <4>1, <4>2
    <3> QED  BY <1>2, <3>1, <3>2
  <2>9. CASE pc[p] = "sess_count"
    BY <1>6, <2>6, <2>9 DEF AddSession
  <2> QED  BY <2>7, <2>8, <2>9
<1> QED  BY <1>5, <1>6

-----------------------------------------------------------------------------
(* The invariant is kept *)

(* Only the process inside moves.                                            *)
LEMMA SectionMovesOne ==
  ASSUME NEW p \in Pids, Section(p), pc \in [Pids -> Places], loc \in [Pids -> Locals]
  PROVE  \A q \in Pids : q # p => pc'[q] = pc[q] /\ loc'[q] = loc[q]
<1>1. \A place : Go(p, place) \/ Again(p) =>
        \A q \in Pids : q # p => pc'[q] = pc[q] /\ loc'[q] = loc[q]
  BY DEF Go, Again
<1>2. CASE AddSession(p) \/ Collect(p)
  BY <1>1, <1>2 DEF AddSession, Collect
<1>3. CASE AddRequest(p)
  BY <1>1, <1>3 DEF AddRequest
<1>4. CASE TakeRequest(p) \/ FailRequests(p)
  BY <1>1, <1>4 DEF TakeRequest, FailRequests, AfterFail
<1> QED  BY <1>2, <1>3, <1>4 DEF Section

(* A step of a section.                                                      *)
LEMMA SectionKeeps ==
  ASSUME AtomicInv, NEW p \in Pids, Section(p)
  PROVE  TypesInv' /\ ProgressInv' /\ UniqueInv'
<1>1. /\ UNCHANGED shown /\ Inside(p) /\ Inside(p)' /\ pc' \in [Pids -> Places]
      /\ \A q \in Pids : Inside(q)' <=> Inside(q)
      /\ \A q \in Pids : Inside(q) => q = p
      /\ \A q \in Pids : q # p => pc'[q] = pc[q] /\ loc'[q] = loc[q]
  <2>1. pc \in [Pids -> Places] /\ loc \in [Pids -> Locals]
    BY DEF AtomicInv, SemInv, TypesInv
  <2>2. Inside(p)
    <3> USE DEF At, Inside
    <3>1. CASE AddSession(p) \/ Collect(p)
      BY <3>1 DEF AddSession, Collect
    <3>2. CASE AddRequest(p)
      BY <3>2 DEF AddRequest
    <3>3. CASE TakeRequest(p) \/ FailRequests(p)
      BY <3>3 DEF TakeRequest, FailRequests
    <3> QED  BY <3>1, <3>2, <3>3 DEF Section
  <2>3. \A q \in Pids : Inside(q)' <=> Inside(q)
    BY <2>1, SectionStays
  <2> QED
    BY <2>1, <2>2, <2>3, SectionStays, SectionMovesOne
       DEF Section, AtomicInv, SemInv, OneInside
<1>2. /\ loc[p].op \in Ops /\ sess \in [Slots -> session_entry_t]
      /\ sessCount \in 0 .. MAX_ENTRIES
      /\ req \in [Slots -> transfer_request_entry_t] /\ reqCount \in 0 .. MAX_ENTRIES
      /\ nextId \in Nat
  BY <1>1, InsideParts, Parts DEF AtomicInv
<1>3. /\ sess' \in [Slots -> session_entry_t] /\ sessCount' \in 0 .. MAX_ENTRIES
      /\ req' \in [Slots -> transfer_request_entry_t] /\ reqCount' \in 0 .. MAX_ENTRIES
      /\ nextId' \in Nat /\ loc' \in [Pids -> Locals]
      /\ Progress(p)' /\ loc'[p].op = loc[p].op
  <2>1. CASE AddSession(p)
    BY <1>1, <1>2, <2>1, AddSessionStep DEF reqVars
  <2>2. CASE Collect(p)
    BY <1>1, <1>2, <2>2, CollectStep DEF reqVars
  <2>3. CASE AddRequest(p)
    BY <1>1, <1>2, <2>3, AddRequestStep DEF sessVars
  <2>4. CASE TakeRequest(p)
    BY <1>1, <1>2, <2>4, TakeRequestStep DEF sessVars
  <2>5. CASE FailRequests(p)
    BY <1>1, <1>2, <2>5, FailRequestsStep DEF sessVars
  <2> QED  BY <2>1, <2>2, <2>3, <2>4, <2>5 DEF Section
<1>4. TypesInv'
  <2>1. Memory' \in MemoryType /\ shown' \in MemoryType
    BY <1>1, <1>3 DEF Memory, MemoryType, AtomicInv, TypesInv
  <2>2. ASSUME NEW q \in Pids
        PROVE  /\ pc'[q] \notin {"idle", "gone"} => loc'[q].op \in Ops
               /\ pc'[q] = "wait" => loc'[q].i = 1
    BY <1>1, <1>2, <1>3 DEF AtomicInv, TypesInv, Inside
  <2> QED  BY <1>3, <2>1, <2>2 DEF TypesInv
<1>5. ProgressInv'
  BY <1>1, <1>3 DEF ProgressInv
<1>6. UniqueInv'
  <2>1. CASE AddSession(p) \/ Collect(p)
    BY <1>1, <2>1, UniqueStep
  <2>2. CASE AddRequest(p) \/ TakeRequest(p) \/ FailRequests(p)
    <3>1. UNCHANGED sessVars /\ loc[p].op # "session_add"
      BY <1>1, <2>2, InsideParts DEF AddRequest, TakeRequest, FailRequests, At
    <3>2. \A q \in Pids : Adding(q)' => Adding(q)
      BY <1>1, <1>3, <3>1 DEF Adding
    <3> QED  BY <3>1, <3>2 DEF AtomicInv, UniqueInv, sessVars
  <2> QED  BY <2>1, <2>2 DEF Section
<1> QED  BY <1>4, <1>5, <1>6

(* What a process has done so far stays done.                                *)
LEMMA ProgressStays ==
  ASSUME NEW q \in Pids, Progress(q), UNCHANGED <<shmVars, shown>>,
         pc'[q] = pc[q], loc'[q] = loc[q],
         \A r \in Pids : pc[r] = "gone" => pc'[r] = "gone"
  PROVE  Progress(q)'
<1> USE DEF shmVars
<1>1. SameSess' = SameSess /\ SameReq' = SameReq
  BY DEF SameSess, SameReq
<1>2. AddingSession(q) => AddingSession(q)'
  BY <1>1 DEF AddingSession, AllInUse, NewSession, SameSess
<1>3. AddingRequest(q) => AddingRequest(q)'
  BY <1>1 DEF AddingRequest, AllPending, FoundSlot, SameReq
<1>4. TakingRequest(q) => TakingRequest(q)'
  BY <1>1 DEF TakingRequest, NoneHas, SameReq
<1>5. Failing(q) => Failing(q)'
  BY <1>1 DEF Failing, Failed
<1>6. ASSUME Collecting(q)  PROVE Collecting(q)'
  <2>1. PICK gone \in SUBSET {r \in Pids : pc[r] = "gone"} :
          \/ /\ pc[q] = "scan" /\ loc[q].i \in 1 .. sessCount + 1
             /\ Freed(gone, loc[q].i - 1)
          \/ pc[q] = "unlock" /\ Freed(gone, sessCount)
    BY <1>6 DEF Collecting
  <2>2. gone \in SUBSET {r \in Pids : pc'[r] = "gone"}
    OBVIOUS
  <2>3. /\ Freed(gone, loc[q].i - 1) => Freed(gone, loc[q].i - 1)'
        /\ Freed(gone, sessCount) => Freed(gone, sessCount)'
    BY DEF Freed
  <2> QED  BY <1>1, <1>6, <2>1, <2>2, <2>3 DEF Collecting
<1> QED  BY <1>2, <1>3, <1>4, <1>5, <1>6 DEF Progress

(* A process outside does not disturb the one inside.                        *)
LEMMA OutsideKeeps ==
  ASSUME AtomicInv, NEW p \in Pids, UNCHANGED <<shmVars, shown>>,
         ~Inside(p), ~Inside(p)', pc[p] = "gone" => pc'[p] = "gone",
         \A q \in Pids : q # p => pc'[q] = pc[q] /\ loc'[q] = loc[q]
  PROVE  ProgressInv'
<1>1. \A q \in Pids : Inside(q)' <=> Inside(q)
  BY DEF Inside
<1>2. SameSess' = SameSess /\ SameReq' = SameReq
  BY DEF SameSess, SameReq, shmVars
<1>3. \A r \in Pids : pc[r] = "gone" => pc'[r] = "gone"
  OBVIOUS
<1>4. ASSUME NEW q \in Pids, Inside(q)  PROVE Progress(q)'
  <2>1. pc'[q] = pc[q] /\ loc'[q] = loc[q] /\ Progress(q)
    BY <1>4 DEF AtomicInv, ProgressInv
  <2> QED  BY <1>3, <2>1, ProgressStays
<1> QED  BY <1>1, <1>2, <1>4 DEF AtomicInv, ProgressInv

(* A process that calls, waits, ends or is killed outside a section.         *)
LEMMA OutsideTypes ==
  ASSUME AtomicInv, NEW p \in Pids, UNCHANGED shmVars, shown' \in {shown, Memory},
         NEW place \in {"idle", "wait", "gone"}, pc' = [pc EXCEPT ![p] = place],
         NEW call \in Locals, loc' = [loc EXCEPT ![p] = call],
         place = "wait" => call.op \in Ops /\ call.i = 1,
         place = "wait" /\ call.op = "session_add" => \A j \in 1 .. sessCount : sess[j].pid # p
  PROVE  /\ TypesInv' /\ UniqueInv'
         /\ \A q \in Pids : q # p => pc'[q] = pc[q] /\ loc'[q] = loc[q]
         /\ pc'[p] = place /\ ~Inside(p)'
<1> USE DEF shmVars
<1>1. pc \in [Pids -> Places] /\ loc \in [Pids -> Locals]
  BY DEF AtomicInv, SemInv, TypesInv
<1>2. /\ pc'[p] = place /\ loc'[p] = call /\ loc' \in [Pids -> Locals]
      /\ \A q \in Pids : q # p => pc'[q] = pc[q] /\ loc'[q] = loc[q]
  BY <1>1
<1>3. TypesInv'
  <2>1. Memory' = Memory /\ shown' \in MemoryType
    BY DEF Memory, AtomicInv, TypesInv
  <2> QED  BY <1>2, <2>1 DEF AtomicInv, TypesInv
<1>4. UniqueInv'
  <2>1. \A q \in Pids : q # p => Adding(q)' = Adding(q)
    BY <1>2 DEF Adding
  <2>2. Adding(p)' => \A j \in 1 .. sessCount : sess[j].pid # p
    BY <1>2 DEF Adding
  <2> QED  BY <2>1, <2>2 DEF AtomicInv, UniqueInv
<1> QED  BY <1>2, <1>3, <1>4 DEF Inside

(* What others see is what is in memory, once nobody is inside.              *)
LEMMA ShownAgain ==
  ASSUME UNCHANGED shmVars, shown' = Memory, \A q \in Pids : ~Inside(q)'
  PROVE  ProgressInv'
<1>1. SameSess' /\ SameReq'
  BY DEF SameSess, SameReq, Memory, shmVars
<1> QED  BY <1>1 DEF ProgressInv

(* The invariant of the sections.                                            *)
LEMMA AtomicInvKept ==
  ASSUME AtomicInv, [Next]_vars
  PROVE  AtomicInv'
<1>0. SemInv'
  BY SemInvKept DEF AtomicInv
<1>1. NoCall \in Locals /\ pc \in [Pids -> Places] /\ loc \in [Pids -> Locals]
  BY DEF NoCall, Locals, AtomicInv, SemInv, TypesInv
<1>2. ASSUME NEW p \in Pids, Section(p)  PROVE AtomicInv'
  BY <1>0, <1>2, SectionKeeps DEF AtomicInv
<1>3. ASSUME NEW p \in Pids, Call(p)  PROVE AtomicInv'
  <2>1. PICK c \in Calls :
          /\ c.op = "session_add" => \A j \in 1 .. sessCount : sess[j].pid # p
          /\ loc' = [loc EXCEPT ![p] = [op |-> c.op, u |-> c.u, v |-> c.v,
                                        id |-> c.id, i |-> 1]]
    BY <1>3 DEF Call
  <2> DEFINE call == [op |-> c.op, u |-> c.u, v |-> c.v, id |-> c.id, i |-> 1]
  <2>2. call \in Locals /\ call.op = c.op /\ call.op \in Ops /\ call.i = 1
    BY SectionsAssumption DEF Locals
  <2>3. /\ pc' = [pc EXCEPT ![p] = "wait"] /\ loc' = [loc EXCEPT ![p] = call]
        /\ pc[p] = "idle" /\ ~Inside(p) /\ UNCHANGED <<shmVars, shown>>
    BY <1>3, <2>1 DEF Call, Inside
  <2> HIDE DEF call
  <2>4. /\ TypesInv' /\ UniqueInv' /\ ~Inside(p)'
        /\ \A q \in Pids : q # p => pc'[q] = pc[q] /\ loc'[q] = loc[q]
    BY <2>1, <2>2, <2>3, OutsideTypes
  <2>5. ProgressInv'
    BY <2>3, <2>4, OutsideKeeps
  <2> QED  BY <1>0, <2>4, <2>5 DEF AtomicInv
<1>4. ASSUME NEW p \in Pids, sem_lock(p)  PROVE AtomicInv'
  <2>1. /\ UNCHANGED <<shmVars, shown, loc>> /\ pc[p] = "wait" /\ ~Inside(p)
        /\ loc' = [loc EXCEPT ![p] = loc[p]] /\ loc[p] \in Locals
    BY <1>1, <1>4 DEF sem_lock, Inside
  <2>2. CASE removed
    <3>1. pc' = [pc EXCEPT ![p] = "idle"]
      BY <1>4, <2>2 DEF sem_lock, AfterLockError
    <3>2. /\ TypesInv' /\ UniqueInv' /\ ~Inside(p)'
          /\ \A q \in Pids : q # p => pc'[q] = pc[q] /\ loc'[q] = loc[q]
      BY <2>1, <3>1, OutsideTypes
    <3>3. ProgressInv'
      BY <2>1, <3>2, OutsideKeeps
    <3> QED  BY <1>0, <3>2, <3>3 DEF AtomicInv
  <2>3. CASE ~removed
    <3>1. /\ pc' = [pc EXCEPT ![p] = "scan"] /\ semval > 0
          /\ \A q \in Pids : ~Inside(q)
      BY <1>4, <2>3 DEF sem_lock, AtomicInv, SemInv, SemConserved
    <3>2. /\ pc'[p] = "scan" /\ \A q \in Pids : q # p => pc'[q] = pc[q]
          /\ \A q \in Pids : Inside(q)' => q = p
      BY <1>1, <3>1 DEF Inside
    <3>3. SameSess /\ SameReq /\ SameSess' /\ SameReq'
      BY <2>1, <3>1 DEF AtomicInv, ProgressInv, SameSess, SameReq, shmVars
    <3>4. /\ loc[p].i = 1 /\ loc[p].op \in Ops
          /\ sess \in [Slots -> session_entry_t] /\ sessCount \in 0 .. MAX_ENTRIES
          /\ req \in [Slots -> transfer_request_entry_t] /\ reqCount \in 0 .. MAX_ENTRIES
      BY <2>1, Parts DEF AtomicInv, TypesInv
    <3>5. Progress(p)'
      <4>1. loc'[p] = loc[p] /\ 1 \in 1 .. sessCount' + 1 /\ 1 \in 1 .. reqCount' + 1
        BY <2>1, <3>4, ShmAssumption DEF shmVars
      <4>2. AddingSession(p)' /\ AddingRequest(p)' /\ TakingRequest(p)'
        BY <3>2, <3>3, <3>4, <4>1
           DEF AddingSession, AddingRequest, TakingRequest, AllInUse, AllPending, NoneHas
      <4>3. Freed({}, 0)' /\ Failed(loc[p].u, 0)'
        <5>1. sess = [k \in Slots |-> sess[k]] /\ req = [k \in Slots |-> req[k]]
          BY <3>4
        <5>2. \A k \in Slots : ~(k <= 0)
          BY ShmAssumption DEF Slots
        <5>3. sess' = shown'.sess /\ req' = shown'.req /\ sess' = sess /\ req' = req
          BY <2>1, <3>3 DEF SameSess, SameReq, shmVars
        <5>4. Freed({}, 0)'
          BY <5>1, <5>2, <5>3 DEF Freed
        <5>5. Failed(loc[p].u, 0)'
          BY <5>1, <5>2, <5>3 DEF Failed
        <5> QED  BY <5>4, <5>5
      <4>4. Collecting(p)'
        <5>1. {} \in SUBSET {q \in Pids : pc'[q] = "gone"}
          OBVIOUS
        <5>2. Freed({}, loc[p].i - 1)'
          <6>1. loc'[p].i - 1 = 0
            BY <2>1, <3>4
          <6> QED  BY <4>3, <6>1 DEF Freed
        <5> QED  BY <3>2, <3>3, <3>4, <4>1, <5>1, <5>2 DEF Collecting, SameSess
      <4>5. Failing(p)'
        <5>1. Failed(loc[p].u, loc[p].i - 1)'
          <6>1. loc'[p].i - 1 = 0
            BY <2>1, <3>4
          <6> QED  BY <4>3, <6>1 DEF Failed
        <5> QED  BY <3>2, <3>3, <3>4, <4>1, <5>1 DEF Failing, SameReq
      <4> QED  BY <4>2, <4>4, <4>5 DEF Progress
    <3>6. ProgressInv'
      BY <3>2, <3>3, <3>5 DEF ProgressInv
    <3>7. TypesInv'
      BY <2>1, <3>2, <3>4 DEF AtomicInv, TypesInv, Memory, shmVars
    <3>8. UniqueInv'
      BY <2>1, <3>2 DEF AtomicInv, UniqueInv, Adding, shmVars
    <3> QED  BY <1>0, <3>6, <3>7, <3>8 DEF AtomicInv
  <2> QED  BY <2>2, <2>3
<1>5. ASSUME NEW p \in Pids, sem_unlock(p) \/ (Kill(p) /\ Inside(p))  PROVE AtomicInv'
  <2>1. /\ UNCHANGED shmVars /\ shown' = Memory /\ Inside(p)
        /\ loc' = [loc EXCEPT ![p] = NoCall]
    BY <1>5 DEF sem_unlock, Kill, Inside
  <2>2. PICK place \in {"idle", "gone"} : pc' = [pc EXCEPT ![p] = place]
    BY <1>5 DEF sem_unlock, Kill
  <2>3. /\ TypesInv' /\ UniqueInv' /\ ~Inside(p)'
        /\ \A q \in Pids : q # p => pc'[q] = pc[q] /\ loc'[q] = loc[q]
    BY <1>1, <2>1, <2>2, OutsideTypes
  <2>4. \A q \in Pids : ~Inside(q)'
    BY <2>1, <2>3 DEF AtomicInv, SemInv, OneInside, Inside
  <2>5. ProgressInv'
    BY <2>1, <2>4, ShownAgain
  <2> QED  BY <1>0, <2>3, <2>5 DEF AtomicInv
<1>6. ASSUME NEW p \in Pids, End(p) \/ (Kill(p) /\ ~Inside(p))  PROVE AtomicInv'
  <2>1. /\ UNCHANGED <<shmVars, shown>> /\ ~Inside(p)
        /\ pc' = [pc EXCEPT ![p] = "gone"]
    BY <1>6 DEF End, Kill, Inside
  <2>2. PICK call \in Locals : loc' = [loc EXCEPT ![p] = call]
    <3>1. loc' = [loc EXCEPT ![p] = loc[p]] \/ loc' = [loc EXCEPT ![p] = NoCall]
      BY <1>1, <1>6 DEF End, Kill
    <3> QED  BY <1>1, <3>1
  <2>3. /\ TypesInv' /\ UniqueInv' /\ ~Inside(p)' /\ pc'[p] = "gone"
        /\ \A q \in Pids : q # p => pc'[q] = pc[q] /\ loc'[q] = loc[q]
    BY <2>1, <2>2, OutsideTypes
  <2>4. ProgressInv'
    BY <2>1, <2>3, OutsideKeeps
  <2> QED  BY <1>0, <2>3, <2>4 DEF AtomicInv
<1>7. CASE cleanup_shmem \/ UNCHANGED vars
  <2>1. UNCHANGED <<shmVars, shown, pc, loc>>
    BY <1>7 DEF cleanup_shmem, vars
  <2>2. TypesInv'
    BY <2>1 DEF AtomicInv, TypesInv, Memory, shmVars
  <2>3. UniqueInv'
    BY <2>1 DEF AtomicInv, UniqueInv, Adding, shmVars
  <2>4. ProgressInv'
    <3>1. \A q \in Pids : Inside(q)' <=> Inside(q)
      BY <2>1 DEF Inside
    <3>2. SameSess' = SameSess /\ SameReq' = SameReq
      BY <2>1 DEF SameSess, SameReq, shmVars
    <3>3. \A q \in Pids : Progress(q) => Progress(q)'
      BY <2>1, ProgressStays
    <3> QED  BY <3>1, <3>2, <3>3 DEF AtomicInv, ProgressInv
  <2> QED  BY <1>0, <2>2, <2>3, <2>4 DEF AtomicInv
<1> QED  BY <1>2, <1>3, <1>4, <1>5, <1>6, <1>7 DEF Next

-----------------------------------------------------------------------------
(* Sections are atomic *)

(* The first of a set of entries.                                            *)
LEMMA FirstIs ==
  ASSUME NEW S \in SUBSET Nat, NEW x \in S, \A y \in S : x <= y
  PROVE  S # {} /\ Tables!Min(S) = x
<1>1. \A z \in S : (\A y \in S : z <= y) => z = x
  OBVIOUS
<1> QED  BY <1>1 DEF Tables!Min

(* The end of shm_session_add, of a scan that stored an entry.               *)
LEMMA AddedSession ==
  ASSUME AtomicInv, NEW p \in Pids, loc[p].op = "session_add", AddingSession(p),
         pc[p] = "unlock", shown' = Memory, ~SameSess
  PROVE  Tables!shm_session_add(loc[p].u, p) /\ UNCHANGED Tables!reqVars
<1> DEFINE i == loc[p].i
<1>1. /\ shown'.sess = sess /\ shown'.sessCount = sessCount /\ shown'.req = shown.req
      /\ shown'.reqCount = shown.reqCount /\ shown'.nextId = shown.nextId
  BY DEF Memory, AddingSession, SameReq
<1>2. UNCHANGED Tables!reqVars
  BY <1>1 DEF Tables!reqVars
<1>3. shown.sessCount \in Nat
  BY Parts DEF AtomicInv
<1>4. CASE /\ i \in 1 .. sessCount /\ sessCount = shown.sessCount
           /\ AllInUse(i - 1) /\ ~shown.sess[i].in_use
           /\ sess = [shown.sess EXCEPT ![i] = NewSession(p)]
  <2>1. /\ Tables!FreeSessions \in SUBSET Nat /\ i \in Tables!FreeSessions
        /\ \A y \in Tables!FreeSessions : i <= y
    BY <1>3, <1>4 DEF Tables!FreeSessions, AllInUse
  <2>2. Tables!FreeSessions # {} /\ Tables!Min(Tables!FreeSessions) = i
    BY <2>1, FirstIs
  <2> QED  BY <1>1, <1>2, <1>4, <2>2 DEF Tables!shm_session_add, NewSession
<1>5. CASE /\ sessCount = shown.sessCount + 1 /\ AllInUse(shown.sessCount)
           /\ sess = [shown.sess EXCEPT ![sessCount] = NewSession(p)]
  <2>1. Tables!FreeSessions = {} /\ shown.sessCount < MAX_ENTRIES
    BY <1>3, <1>5, Parts, ShmAssumption DEF Tables!FreeSessions, AllInUse, AtomicInv
  <2> QED  BY <1>1, <1>2, <1>5, <2>1 DEF Tables!shm_session_add, NewSession
<1> QED  BY <1>4, <1>5 DEF AddingSession

(* The end of shm_request_add that found a slot.                             *)
LEMMA AddedRequest ==
  ASSUME AtomicInv, NEW p \in Pids, loc[p].op = "request_add", AddingRequest(p),
         pc[p] = "unlock", shown' = Memory, ~SameReq
  PROVE  Tables!shm_request_add(loc[p].u, loc[p].v) /\ UNCHANGED Tables!sessVars
<1> DEFINE i == loc[p].i
           entry == [id |-> shown.nextId, source_username |-> loc[p].u,
                     dest_username |-> loc[p].v, status |-> "PENDING"]
<1>1. /\ shown'.req = req /\ shown'.reqCount = reqCount /\ shown'.nextId = nextId
      /\ shown'.sess = shown.sess /\ shown'.sessCount = shown.sessCount
  BY DEF Memory, AddingRequest, SameSess
<1>2. UNCHANGED Tables!sessVars
  BY <1>1 DEF Tables!sessVars
<1>3. shown.reqCount \in 0 .. MAX_ENTRIES /\ MAX_ENTRIES \in Nat
  BY Parts, ShmAssumption DEF AtomicInv
<1>4. /\ FoundSlot(i) /\ nextId = shown.nextId + 1
      /\ req = [shown.req EXCEPT ![i] = entry]
  BY DEF AddingRequest
<1>5. CASE i <= shown.reqCount /\ shown.req[i].status # "PENDING" /\ reqCount = shown.reqCount
  <2>1. /\ Tables!ReusableRequests \in SUBSET Nat /\ i \in Tables!ReusableRequests
        /\ \A y \in Tables!ReusableRequests : i <= y
    BY <1>3, <1>4, <1>5 DEF Tables!ReusableRequests, AllPending, FoundSlot, Slots
  <2>2. Tables!ReusableRequests # {} /\ Tables!Min(Tables!ReusableRequests) = i
    BY <2>1, FirstIs
  <2> QED  BY <1>1, <1>2, <1>4, <1>5, <2>2 DEF Tables!shm_request_add
<1>6. CASE i = shown.reqCount + 1 /\ reqCount = i
  <2>1. Tables!ReusableRequests = {} /\ shown.reqCount < MAX_ENTRIES
    BY <1>3, <1>4, <1>6 DEF Tables!ReusableRequests, AllPending, FoundSlot, Slots
  <2> QED  BY <1>1, <1>2, <1>4, <1>6, <2>1 DEF Tables!shm_request_add
<1> QED  BY <1>4, <1>5, <1>6 DEF FoundSlot

(* The end of shm_request_take or shm_request_set that found the id.         *)
LEMMA TookRequest ==
  ASSUME AtomicInv, NEW p \in Pids, TakingRequest(p), pc[p] = "unlock", shown' = Memory,
         ~SameReq
  PROVE  /\ UNCHANGED Tables!sessVars
         /\ loc[p].op = "request_take" =>
               /\ Tables!CanTake(loc[p].id, loc[p].v)
               /\ Tables!shm_request_take(loc[p].id, "ACCEPTED")
         /\ loc[p].op # "request_take" => Tables!shm_request_set(loc[p].id, "FAILED")
<1> DEFINE i == loc[p].i
           take == loc[p].op = "request_take"
<1>1. /\ shown'.req = req /\ shown'.reqCount = reqCount /\ shown'.nextId = nextId
      /\ shown'.sess = shown.sess /\ shown'.sessCount = shown.sessCount
  BY DEF Memory, TakingRequest, SameSess
<1>2. UNCHANGED Tables!sessVars
  BY <1>1 DEF Tables!sessVars
<1>3. reqCount \in 0 .. MAX_ENTRIES /\ MAX_ENTRIES \in Nat
  BY Parts, ShmAssumption DEF AtomicInv
<1>4. /\ i \in 1 .. reqCount /\ NoneHas(loc[p].id, i - 1)
      /\ reqCount = shown.reqCount /\ nextId = shown.nextId
      /\ shown.req[i].id = loc[p].id
      /\ take => shown.req[i].dest_username = loc[p].v /\ shown.req[i].status = "PENDING"
      /\ req = [shown.req EXCEPT ![i].status = IF take THEN "ACCEPTED" ELSE "FAILED"]
  BY DEF TakingRequest
<1>5. /\ Tables!RequestsWithId(loc[p].id) \in SUBSET Nat
      /\ i \in Tables!RequestsWithId(loc[p].id)
      /\ \A y \in Tables!RequestsWithId(loc[p].id) : i <= y
  BY <1>3, <1>4 DEF Tables!RequestsWithId, NoneHas
<1>6. /\ Tables!RequestsWithId(loc[p].id) # {}
      /\ Tables!Min(Tables!RequestsWithId(loc[p].id)) = i
  BY <1>5, FirstIs
<1>7. CASE take
  BY <1>1, <1>2, <1>4, <1>6, <1>7 DEF Tables!CanTake, Tables!shm_request_take
<1>8. CASE ~take
  BY <1>1, <1>2, <1>4, <1>6, <1>8 DEF Tables!shm_request_set
<1> QED  BY <1>7, <1>8

(* A section that was not cut short is one whole call.                       *)
LEMMA UnlockIsWhole ==
  ASSUME AtomicInv, NEW p \in Pids, sem_unlock(p), shown' # shown
  PROVE  WholeCall(p, loc[p])
<1>1. /\ shown' = Memory /\ pc[p] = "unlock" /\ Inside(p)
  BY DEF sem_unlock, Inside
<1>2. Progress(p) /\ loc[p].op \in Ops
  BY <1>1, InsideParts
<1>3. ~(SameSess /\ SameReq)
  <2>1. shown \in MemoryType
    BY DEF AtomicInv, TypesInv
  <2>2. shown = [sess |-> shown.sess, sessCount |-> shown.sessCount, req |-> shown.req,
                 reqCount |-> shown.reqCount, nextId |-> shown.nextId]
    BY <2>1 DEF MemoryType
  <2> QED  BY <1>1, <2>2 DEF SameSess, SameReq, Memory
<1>4. CASE loc[p].op = "session_add"
  <2>1. AddingSession(p) /\ ~SameSess
    BY <1>2, <1>3, <1>4 DEF Progress, AddingSession
  <2> QED  BY <1>1, <1>4, <2>1, AddedSession DEF WholeCall
<1>5. CASE loc[p].op = "request_add"
  <2>1. AddingRequest(p) /\ ~SameReq
    BY <1>2, <1>3, <1>5 DEF Progress, AddingRequest
  <2> QED  BY <1>1, <1>5, <2>1, AddedRequest DEF WholeCall
<1>6. CASE loc[p].op \in {"request_take", "request_set"}
  <2>1. TakingRequest(p) /\ ~SameReq
    BY <1>2, <1>3, <1>6 DEF Progress, TakingRequest
  <2> QED  BY <1>1, <1>6, <2>1, TookRequest DEF WholeCall
<1>7. CASE loc[p].op = "collect"
  <2>1. Collecting(p)
    BY <1>2, <1>7 DEF Progress
  <2>2. PICK gone \in SUBSET {q \in Pids : pc[q] = "gone"} : Freed(gone, sessCount)
    BY <1>1, <2>1 DEF Collecting
  <2>3. /\ shown'.sess = sess /\ shown'.sessCount = shown.sessCount
        /\ shown'.req = shown.req /\ shown'.reqCount = shown.reqCount
        /\ shown'.nextId = shown.nextId /\ sessCount = shown.sessCount
    BY <1>1, <2>1 DEF Collecting, Memory, SameReq
  <2>4. Tables!shm_sessions_collect_stale(gone)
    BY <2>2, <2>3
       DEF Tables!shm_sessions_collect_stale, Tables!Slots, Tables!FreeSession, Freed, Slots,
           FreeSession
  <2>5. UNCHANGED Tables!reqVars
    BY <2>3 DEF Tables!reqVars
  <2> QED  BY <1>7, <2>2, <2>4, <2>5 DEF WholeCall
<1>8. CASE loc[p].op = "set_failed"
  <2>1. Failing(p)
    BY <1>2, <1>8 DEF Progress
  <2>2. /\ shown'.req = req /\ Failed(loc[p].u, shown.reqCount)
        /\ shown'.reqCount = shown.reqCount /\ shown'.nextId = shown.nextId
        /\ shown'.sess = shown.sess /\ shown'.sessCount = shown.sessCount
    BY <1>1, <2>1 DEF Failing, Memory, SameSess
  <2>3. Tables!shm_requests_set_failed(loc[p].u)
    BY <2>2 DEF Tables!shm_requests_set_failed, Tables!Slots, Failed, Slots
  <2>4. UNCHANGED Tables!sessVars
    BY <2>2 DEF Tables!sessVars
  <2> QED  BY <1>8, <2>3, <2>4 DEF WholeCall
<1> QED  BY <1>2, <1>4, <1>5, <1>6, <1>7, <1>8 DEF Ops

(* The invariant of the sections holds in every reachable state.             *)
LEMMA AtomicInvHolds == Spec => []AtomicInv
<1>1. ASSUME Init  PROVE AtomicInv
  <2> USE <1>1, ShmAssumption DEF Init, setup_shmem, Inside
  <2>1. SemInv
    BY DEF SemInv, OneInside, SemConserved, Places, Outside
  <2>2. FreeSession \in session_entry_t /\ ZeroRequest \in transfer_request_entry_t
    BY DEF FreeSession, ZeroRequest, session_entry_t, transfer_request_entry_t, request_status
  <2>3. Memory \in MemoryType
    BY <2>2 DEF Memory, MemoryType
  <2>4. NoCall \in Locals
    BY DEF NoCall, Locals
  <2>5. TypesInv
    BY <2>3, <2>4 DEF TypesInv
  <2>6. ProgressInv
    BY DEF ProgressInv, SameSess, SameReq, Memory
  <2>7. UniqueInv
    BY DEF UniqueInv, Adding, FreeSession
  <2> QED  BY <2>1, <2>5, <2>6, <2>7 DEF AtomicInv
<1>2. AtomicInv /\ [Next]_vars => AtomicInv'
  BY AtomicInvKept
<1> QED  BY <1>1, <1>2, PTL DEF Spec

(* What other processes see of a critical section is one whole call of       *)
(* ShmTables, unless its process is killed inside it: the steps of           *)
(* TransferRequests are those of the code (SectionsAtomic).                  *)
THEOREM SectionsAreAtomic == Spec => SectionsAtomic
<1>1. ASSUME AtomicInv, [Next]_vars, shown' # shown
      PROVE  \E p \in Pids : /\ Inside(p) /\ ~Inside(p)'
                             /\ pc'[p] = "gone" \/ WholeCall(p, loc[p])
  <2>1. \A p \in Pids : Section(p) => UNCHANGED shown
    BY DEF Section
  <2>2. PICK p \in Pids : sem_unlock(p) \/ (Kill(p) /\ Inside(p))
    BY <1>1, <2>1 DEF Next, vars, Call, sem_lock, End, Kill, cleanup_shmem
  <2>3. pc \in [Pids -> Places]
    BY <1>1 DEF AtomicInv, SemInv
  <2>4. CASE sem_unlock(p)
    <3>1. Inside(p) /\ ~Inside(p)'
      BY <2>3, <2>4 DEF sem_unlock, Inside
    <3> QED  BY <1>1, <2>4, <3>1, UnlockIsWhole
  <2>5. CASE Kill(p) /\ Inside(p)
    <3>1. pc'[p] = "gone" /\ ~Inside(p)'
      BY <2>3, <2>5 DEF Kill, Inside
    <3> QED  BY <2>5, <3>1
  <2> QED  BY <2>2, <2>4, <2>5
<1> QED  BY <1>1, AtomicInvHolds, PTL DEF Spec, SectionsAtomic

-----------------------------------------------------------------------------
(* What a kill inside a section costs *)

(* The ids in a request table r with n entries and the next id nx: none is   *)
(* given twice, and none was given to an entry that is not in use yet.       *)
IdsRight(r, n, nx) ==
    /\ nx > 0
    /\ \A j \in 1 .. n : r[j].id < nx
    /\ \A j, k \in 1 .. n : r[j].id = r[k].id => j = k \/ r[j].id = 0
    /\ \A j \in Slots : j > n => r[j].id = 0

LostIn(r, n) == {j \in 1 .. n : r[j].id = 0}

CostInv ==
    /\ kills \in Nat
    /\ IdsRight(shown.req, shown.reqCount, shown.nextId)
    /\ Cardinality(LostIn(shown.req, shown.reqCount)) <= kills

(* A set that takes in one element grows by one at most.                     *)
LEMMA OneMore ==
  ASSUME NEW S, NEW x, IsFiniteSet(S)
  PROVE  /\ Cardinality(S \cup {x}) <= Cardinality(S) + 1
         /\ Cardinality(S) \in Nat /\ Cardinality(S \cup {x}) \in Nat
<1>1. Cardinality(S) \in Nat
  BY FS_CardinalityType
<1>2. CASE x \in S
  <2>1. S \cup {x} = S
    BY <1>2
  <2> QED  BY <1>1, <2>1
<1>3. CASE x \notin S
  <2>1. Cardinality(S \cup {x}) = Cardinality(S) + 1
    BY <1>3, FS_AddElement
  <2> QED  BY <1>1, <2>1
<1> QED  BY <1>2, <1>3

(* The entries below a count are finitely many.                              *)
LEMMA LostFinite ==
  ASSUME NEW r, NEW n \in Nat
  PROVE  IsFiniteSet(LostIn(r, n)) /\ Cardinality(LostIn(r, n)) \in Nat
<1>1. IsFiniteSet(1 .. n)
  BY FS_Interval
<1>2. LostIn(r, n) \subseteq 1 .. n
  BY DEF LostIn
<1> QED  BY <1>1, <1>2, FS_Subset, FS_CardinalityType

(* Stores that leave the ids and the count alone.                            *)
LEMMA IdsStay ==
  ASSUME NEW n \in 0 .. MAX_ENTRIES, NEW nx \in Nat, NEW r, NEW s, IdsRight(r, n, nx),
         \A j \in Slots : s[j].id = r[j].id
  PROVE  IdsRight(s, n, nx) /\ LostIn(s, n) = LostIn(r, n)
<1>1. \A j \in 1 .. n : j \in Slots
  BY ShmAssumption DEF Slots
<1> QED  BY <1>1 DEF IdsRight, LostIn

(* The count has grown and the entry is not written to yet: it is lost if    *)
(* nothing follows.                                                          *)
LEMMA IdsCounted ==
  ASSUME NEW n \in 0 .. MAX_ENTRIES, NEW nx \in Nat, NEW my \in Nat, nx <= my,
         NEW r \in [Slots -> transfer_request_entry_t],
         IdsRight(r, n, nx), n + 1 \in Slots
  PROVE  IdsRight(r, n + 1, my) /\ LostIn(r, n + 1) = LostIn(r, n) \cup {n + 1}
<1>1. \A j \in Slots : r[j].id \in Nat
  BY DEF transfer_request_entry_t
<1>2. r[n + 1].id = 0
  BY ShmAssumption DEF IdsRight, Slots
<1>3. \A j \in 1 .. n + 1 : j \in Slots /\ (j \in 1 .. n \/ j = n + 1)
  BY ShmAssumption DEF Slots
<1>4. \A j \in 1 .. n : j \in 1 .. n + 1
  OBVIOUS
<1>5. \A j \in 1 .. n + 1 : r[j].id < my
  BY <1>1, <1>2, <1>3 DEF IdsRight
<1>6. \A j, k \in 1 .. n + 1 : r[j].id = r[k].id => j = k \/ r[j].id = 0
  BY <1>1, <1>2, <1>3 DEF IdsRight
<1>7. my > 0 /\ \A j \in Slots : j > n + 1 => r[j].id = 0
  BY DEF IdsRight, Slots
<1>8. LostIn(r, n + 1) = LostIn(r, n) \cup {n + 1}
  BY <1>2, <1>3, <1>4 DEF LostIn
<1> QED  BY <1>5, <1>6, <1>7, <1>8 DEF IdsRight

(* The id is read and next_id advanced, and nothing else.                    *)
LEMMA IdsAdvance ==
  ASSUME NEW n \in 0 .. MAX_ENTRIES, NEW nx \in Nat, NEW r,
         \A j \in 1 .. n : r[j].id \in Nat, IdsRight(r, n, nx)
  PROVE  IdsRight(r, n, nx + 1)
BY DEF IdsRight

(* The new id is stored, in an entry that is reused or counted.              *)
LEMMA IdsStored ==
  ASSUME TypesInv, NEW i \in Slots, FoundSlot(i),
         IdsRight(shown.req, shown.reqCount, shown.nextId),
         nextId = shown.nextId + 1, req[i].id = shown.nextId,
         \A j \in Slots : j # i => req[j].id = shown.req[j].id
  PROVE  /\ IdsRight(req, reqCount, nextId)
         /\ LostIn(req, reqCount) \subseteq LostIn(shown.req, shown.reqCount)
<1> DEFINE n == shown.reqCount
<1>0. /\ n \in 0 .. MAX_ENTRIES /\ reqCount \in 0 .. MAX_ENTRIES /\ MAX_ENTRIES \in Nat
      /\ shown.nextId \in Nat /\ \A j \in Slots : shown.req[j].id \in Nat
  BY Parts, ShmAssumption DEF transfer_request_entry_t
<1>1. (i <= n /\ reqCount = n) \/ (i = n + 1 /\ reqCount = i)
  BY DEF FoundSlot
<1>2. \A j \in 1 .. reqCount : j \in Slots /\ (j # i => j \in 1 .. n)
  BY <1>0, <1>1 DEF Slots
<1>3. \A j \in Slots : j > reqCount => j > n /\ j # i
  BY <1>0, <1>1 DEF Slots
<1>4. \A j \in 1 .. reqCount : j # i =>
         req[j].id = shown.req[j].id /\ shown.req[j].id < shown.nextId
  BY <1>2 DEF IdsRight
<1>5. shown.nextId > 0
  BY DEF IdsRight
<1>6. nextId > 0 /\ \A j \in 1 .. reqCount : req[j].id < nextId
  BY <1>0, <1>2, <1>4, <1>5
<1>7. \A j, k \in 1 .. reqCount : req[j].id = req[k].id => j = k \/ req[j].id = 0
  BY <1>0, <1>2, <1>4 DEF IdsRight
<1>8. \A j \in Slots : j > reqCount => req[j].id = 0
  BY <1>3 DEF IdsRight
<1>9. LostIn(req, reqCount) \subseteq LostIn(shown.req, n)
  BY <1>2, <1>4, <1>5 DEF LostIn
<1> QED  BY <1>6, <1>7, <1>8, <1>9 DEF IdsRight

(* What the tables would have lost if the process inside ended now: nothing  *)
(* at the end of its section, one entry at most before.                      *)
LEMMA CostInside ==
  ASSUME AtomicInv, CostInv, NEW p \in Pids, Inside(p)
  PROVE  /\ IdsRight(req, reqCount, nextId)
         /\ Cardinality(LostIn(req, reqCount)) <= kills + 1
         /\ pc[p] = "unlock" => Cardinality(LostIn(req, reqCount)) <= kills
<1> DEFINE i == loc[p].i
           n == shown.reqCount
<1>1. /\ loc[p] \in Locals /\ loc[p].op \in Ops /\ Progress(p) /\ pc[p] \in Places
  BY InsideParts
<1>2. /\ req \in [Slots -> transfer_request_entry_t] /\ reqCount \in 0 .. MAX_ENTRIES
      /\ shown.req \in [Slots -> transfer_request_entry_t] /\ n \in 0 .. MAX_ENTRIES
      /\ nextId \in Nat /\ shown.nextId \in Nat /\ MAX_ENTRIES \in Nat
      /\ n \in Nat /\ reqCount \in Nat
  BY Parts, ShmAssumption DEF AtomicInv
<1>3. /\ kills \in Nat /\ IdsRight(shown.req, n, shown.nextId)
      /\ Cardinality(LostIn(shown.req, n)) <= kills
      /\ IsFiniteSet(LostIn(shown.req, n)) /\ Cardinality(LostIn(shown.req, n)) \in Nat
  BY <1>2, LostFinite DEF CostInv
<1>4. CASE /\ reqCount = n /\ nextId = shown.nextId
           /\ \A j \in Slots : req[j].id = shown.req[j].id
  <2>0. /\ n \in 0 .. MAX_ENTRIES /\ shown.nextId \in Nat
        /\ IdsRight(shown.req, n, shown.nextId)
        /\ \A j \in Slots : req[j].id = shown.req[j].id
    BY <1>2, <1>3, <1>4
  <2>1. /\ IdsRight(req, n, shown.nextId)
        /\ LostIn(req, n) = LostIn(shown.req, n)
    BY <2>0, IdsStay
  <2> QED  BY <1>3, <1>4, <2>1
<1>5. CASE loc[p].op \in {"session_add", "collect"}
  BY <1>1, <1>4, <1>5 DEF Progress, AddingSession, Collecting, SameReq
<1>6. CASE loc[p].op \in {"request_take", "request_set"}
  <2>1. TakingRequest(p)
    BY <1>1, <1>6 DEF Progress
  <2>2. /\ reqCount = n /\ nextId = shown.nextId
        /\ \/ req = shown.req
           \/ req = [shown.req EXCEPT ![i].status =
                        IF loc[p].op = "request_take" THEN "ACCEPTED" ELSE "FAILED"]
    BY <2>1 DEF TakingRequest, SameReq
  <2>3. \A j \in Slots : req[j].id = shown.req[j].id
    BY <1>2, <2>2 DEF transfer_request_entry_t
  <2> QED  BY <1>4, <2>2, <2>3
<1>7. CASE loc[p].op = "set_failed"
  <2>1. Failing(p)
    BY <1>1, <1>7 DEF Progress
  <2>2. \A j \in Slots : req[j].id = shown.req[j].id
    BY <1>2, <2>1 DEF Failing, Failed, transfer_request_entry_t
  <2> QED  BY <1>4, <2>1, <2>2 DEF Failing
<1>8. CASE loc[p].op = "request_add"
  <2>1. AddingRequest(p)
    BY <1>1, <1>8 DEF Progress
  <2>2. CASE SameReq
    BY <1>4, <2>2 DEF SameReq
  <2>3. CASE /\ pc[p] = "next_id" \/ pc[p] = "copy"
             /\ FoundSlot(i) /\ req = shown.req
             /\ nextId = shown.nextId \/ nextId = shown.nextId + 1
    <3>1. \A j \in 1 .. n : shown.req[j].id \in Nat
      BY <1>2 DEF transfer_request_entry_t, Slots
    <3>2. CASE reqCount = n
      BY <1>2, <1>3, <2>3, <3>1, <3>2, IdsAdvance
    <3>3. CASE reqCount = n + 1 /\ n + 1 \in Slots
      <4>0. /\ n \in 0 .. MAX_ENTRIES /\ shown.nextId \in Nat /\ nextId \in Nat
            /\ shown.nextId <= nextId /\ n + 1 \in Slots
            /\ shown.req \in [Slots -> transfer_request_entry_t]
            /\ IdsRight(shown.req, n, shown.nextId)
        BY <1>2, <1>3, <2>3, <3>3
      <4>1. /\ IdsRight(shown.req, n + 1, nextId)
            /\ LostIn(shown.req, n + 1) = LostIn(shown.req, n) \cup {n + 1}
        BY <4>0, IdsCounted
      <4>2. /\ IdsRight(req, reqCount, nextId)
            /\ LostIn(req, reqCount) = LostIn(shown.req, n) \cup {n + 1}
        BY <2>3, <3>3, <4>1
      <4>3. /\ Cardinality(LostIn(shown.req, n) \cup {n + 1}) <= Cardinality(LostIn(shown.req, n)) + 1
            /\ Cardinality(LostIn(shown.req, n)) \in Nat
            /\ Cardinality(LostIn(shown.req, n) \cup {n + 1}) \in Nat
        <5>1. IsFiniteSet(LostIn(shown.req, n)) BY <1>3
        <5> QED BY <5>1, OneMore
      <4>4. Cardinality(LostIn(req, reqCount)) <= kills + 1
        <5>1. Cardinality(LostIn(shown.req, n)) <= kills /\ kills \in Nat
          BY <1>2, <1>3
        <5>2. Cardinality(LostIn(shown.req, n) \cup {n + 1}) <= kills + 1
          BY <4>3, <5>1
        <5> QED BY <4>2, <5>2
      <4> QED  BY <2>3, <4>2, <4>4
    <3> QED  BY <2>3, <3>2, <3>3 DEF FoundSlot
  <2>4. CASE /\ FoundSlot(i) /\ nextId = shown.nextId + 1
             /\ req[i].id = shown.nextId
             /\ \A j \in Slots : j # i => req[j].id = shown.req[j].id
    <3>1. /\ i \in Slots /\ i \in Nat
          /\ (i <= n /\ reqCount = n) \/ (i = n + 1 /\ reqCount = i)
      BY <2>4 DEF FoundSlot, Slots
    <3>2. /\ IdsRight(req, reqCount, nextId)
          /\ LostIn(req, reqCount) \subseteq LostIn(shown.req, n)
      BY <1>3, <2>4, <3>1, IdsStored DEF AtomicInv
    <3>3. Cardinality(LostIn(req, reqCount)) <= Cardinality(LostIn(shown.req, n))
      BY <1>3, <3>2, FS_Subset
    <3> QED  BY <1>2, <1>3, <2>4, <3>2, <3>3, LostFinite
  <2>5. CASE /\ pc[p] \in {"copy", "copy_rest", "unlock"} /\ FoundSlot(i)
             /\ loc[p].id = shown.nextId /\ nextId = shown.nextId + 1
             /\ req = [shown.req EXCEPT ![i] =
                   CASE pc[p] = "copy" -> @
                     [] pc[p] = "copy_rest" ->
                          [@ EXCEPT !.id = loc[p].id, !.source_username = loc[p].u]
                     [] OTHER ->
                          [id |-> loc[p].id, source_username |-> loc[p].u,
                           dest_username |-> loc[p].v, status |-> "PENDING"]]
    <3>1. i \in Slots
      BY <2>5 DEF FoundSlot
    <3>2. CASE pc[p] = "copy"
      <4>1. req = shown.req
        BY <1>2, <2>5, <3>1, <3>2
      <4> QED  BY <2>3, <2>5, <3>2, <4>1
    <3>3. CASE pc[p] # "copy"
      <4>1. req[i].id = shown.nextId /\ \A j \in Slots : j # i => req[j] = shown.req[j]
        BY <1>2, <2>5, <3>1, <3>3 DEF transfer_request_entry_t
      <4> QED  BY <2>4, <2>5, <4>1
    <3> QED  BY <3>2, <3>3
  <2> QED  BY <2>1, <2>2, <2>3, <2>5 DEF AddingRequest, SameReq
<1> QED  BY <1>1, <1>5, <1>6, <1>7, <1>8 DEF Ops

(* Only the end of a section shows the tables anew, and a kill inside is     *)
(* counted.                                                                  *)
LEMMA CostInvKept ==
  ASSUME AtomicInv, CostInv, [Next]_vars
  PROVE  CostInv'
<1>1. CASE UNCHANGED <<kills, shown>>
  BY <1>1 DEF CostInv
<1>2. ASSUME NEW p \in Pids, Inside(p), shown' = Memory,
             \/ kills' = kills + 1
             \/ kills' = kills /\ pc[p] = "unlock"
      PROVE  CostInv'
  <2>1. /\ shown'.req = req /\ shown'.reqCount = reqCount /\ shown'.nextId = nextId
    BY <1>2 DEF Memory
  <2>2. reqCount \in Nat /\ kills \in Nat
    BY Parts, ShmAssumption DEF AtomicInv, CostInv
  <2>3. kills' \in Nat
    BY <1>2, <2>2
  <2>4. IdsRight(req, reqCount, nextId)
    BY <1>2, CostInside
  <2>5. Cardinality(LostIn(req, reqCount)) <= kills'
    BY <1>2, <2>2, CostInside
  <2> QED  BY <2>1, <2>3, <2>4, <2>5 DEF CostInv, IdsRight, LostIn
<1>3. ASSUME NEW p \in Pids, sem_unlock(p)  PROVE CostInv'
  BY <1>2, <1>3 DEF sem_unlock, Inside
<1>4. ASSUME NEW p \in Pids, Kill(p)  PROVE CostInv'
  <2>1. CASE Inside(p)
    BY <1>2, <1>4, <2>1 DEF Kill
  <2>2. CASE ~Inside(p)
    <3>1. shown' = shown /\ kills' \in Nat /\ kills <= kills'
      BY <1>4, <2>2 DEF Kill, CostInv
    <3>2. Cardinality(LostIn(shown.req, shown.reqCount)) \in Nat
      BY Parts, LostFinite, ShmAssumption DEF AtomicInv
    <3> QED  BY <3>1, <3>2 DEF CostInv
  <2> QED  BY <2>1, <2>2
<1>5. ASSUME NEW p \in Pids, Call(p) \/ sem_lock(p) \/ Section(p) \/ End(p)
      PROVE  CostInv'
  BY <1>1, <1>5 DEF Call, sem_lock, Section, End
<1> QED  BY <1>1, <1>3, <1>4, <1>5 DEF Next, vars, cleanup_shmem

(* An id names one request whoever is killed where, and each kill costs at   *)
(* most one entry of the table: shm_request_add counts the entry before it   *)
(* stores the request.                                                       *)
THEOREM KillsCostOne == Spec => []KillsCost
<1>1. ASSUME Init  PROVE CostInv
  <2>1. /\ kills = 0 /\ shown.reqCount = 0 /\ shown.nextId = 1
        /\ \A j \in Slots : shown.req[j].id = 0
    BY <1>1 DEF Init, setup_shmem, Memory, ZeroRequest
  <2>2. LostIn(shown.req, shown.reqCount) = {}
    BY <2>1 DEF LostIn
  <2> QED  BY <2>1, <2>2, FS_EmptySet DEF CostInv, IdsRight
<1>2. AtomicInv /\ CostInv /\ [Next]_vars => CostInv'
  BY CostInvKept
<1>3. CostInv => KillsCost
  BY DEF CostInv, IdsRight, LostIn, KillsCost, Lost
<1> QED  BY <1>1, <1>2, <1>3, AtomicInvHolds, PTL DEF Spec
=============================================================================
