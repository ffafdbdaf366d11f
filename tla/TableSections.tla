---------------------------- MODULE TableSections ----------------------------
(***************************************************************************)
(* The critical sections of sh_mem.c, one store to shared memory per step, *)
(* and the System V semaphore around them with the kernel's undo value of  *)
(* every process.  ShmTables takes each shm_* function for one step; here  *)
(* a process may be killed between any two stores, and the semaphore may   *)
(* be removed by the shutdown of the server.                               *)
(***************************************************************************)
EXTENDS ShmTables

CONSTANTS
    Calls,    \* calls that processes make: [op, u, v, id]
    MaxReqs,  \* bound on the requests added
    MaxKills  \* bound on the processes killed

Ops == {"session_add", "collect", "request_add", "request_take", "request_set", "set_failed"}

ASSUME SectionsAssumption ==
    /\ Calls \subseteq [op : Ops, u : Users \cup {NoUser}, v : Users \cup {NoUser}, id : Nat]
    /\ MaxReqs \in Nat /\ MaxKills \in Nat

VARIABLES
    semval,   \* the semaphore's value
    removed,  \* IPC_RMID was called
    adj,      \* what the kernel adds to semval when the process ends
    pc,       \* idle; wait (in semop); a place of the section; gone
    loc,      \* the process's call and its loop variable i
    kills,    \* processes killed so far
    shown     \* ghost: the tables when the semaphore was last given back

semVars == <<semval, removed, adj>>
vars == <<shmVars, semval, removed, adj, pc, loc, kills, shown>>

Memory == [sess |-> sess, sessCount |-> sessCount, req |-> req,
           reqCount |-> reqCount, nextId |-> nextId]

NoCall ==
    [op |-> "none", u |-> NoUser, v |-> NoUser, id |-> 0, i |-> 0]

(* The process is between sem_lock and sem_unlock. *)
Inside(p) == pc[p] \notin {"idle", "wait", "gone"}

Init ==
    /\ setup_shmem
    /\ semval = 1 /\ removed = FALSE /\ adj = [p \in Pids |-> 0]
    /\ pc = [p \in Pids |-> "idle"]
    /\ loc = [p \in Pids |-> NoCall]
    /\ kills = 0
    /\ shown = Memory

-----------------------------------------------------------------------------
(* The semaphore *)

Call(p) ==
    /\ pc[p] = "idle"
    /\ \E c \in Calls :
        /\ c.op = "request_add" => nextId <= MaxReqs
        /\ c.op = "session_add" => \A i \in 1 .. sessCount : sess[i].pid # p
        /\ loc' = [loc EXCEPT ![p] = [op |-> c.op, u |-> c.u, v |-> c.v,
                                      id |-> c.id, i |-> 1]]
    /\ pc' = [pc EXCEPT ![p] = "wait"]
    /\ UNCHANGED <<shmVars, semVars, kills, shown>>

(* Fault: taken without SEM_UNDO, so that the undo value of the unlock is    *)
(* left over.                                                                *)
LockAdj(p) == adj

(* SEM_UNDO: the kernel remembers to add what was subtracted. *)
UndoLock(p) == [adj EXCEPT ![p] = @ + 1]

(* Fault: the error of sem_lock is not looked at.                            *)
AfterLockErrorOn == "scan"

AfterLockError == "idle"

(* semop(-1) waits, through EINTR, until the value is positive; it fails     *)
(* once the semaphore is removed, and the function returns its error.        *)
sem_lock(p) ==
    /\ pc[p] = "wait"
    /\ \/ /\ removed
          /\ pc' = [pc EXCEPT ![p] = AfterLockError]
          /\ UNCHANGED semVars
       \/ /\ ~removed /\ semval > 0
          /\ semval' = semval - 1
          /\ adj' = UndoLock(p)
          /\ pc' = [pc EXCEPT ![p] = "scan"]
          /\ UNCHANGED removed
    /\ UNCHANGED <<shmVars, loc, kills, shown>>

UndoUnlock(p) == [adj EXCEPT ![p] = @ - 1]

sem_unlock(p) ==
    /\ pc[p] = "unlock"
    /\ IF removed THEN UNCHANGED <<semval, adj>>
       ELSE semval' = semval + 1 /\ adj' = UndoUnlock(p)
    /\ pc' = [pc EXCEPT ![p] = "idle"]
    /\ loc' = [loc EXCEPT ![p] = NoCall]
    /\ shown' = Memory
    /\ UNCHANGED <<shmVars, removed, kills>>

(* The kernel's part in the end of a process. *)
Undo(p) ==
    /\ semval' = IF removed THEN semval ELSE semval + adj[p]
    /\ adj' = [adj EXCEPT ![p] = 0]
    /\ UNCHANGED removed

End(p) ==
    /\ pc[p] = "idle"
    /\ Undo(p)
    /\ pc' = [pc EXCEPT ![p] = "gone"]
    /\ UNCHANGED <<shmVars, loc, kills, shown>>

Kill(p) ==
    /\ pc[p] # "gone" /\ kills < MaxKills
    /\ Undo(p)
    /\ pc' = [pc EXCEPT ![p] = "gone"]
    /\ loc' = [loc EXCEPT ![p] = NoCall]
    /\ kills' = kills + 1
    /\ shown' = IF Inside(p) THEN Memory ELSE shown
    /\ UNCHANGED shmVars

(* cleanup_shmem; the segment lives on in the processes attached to it. *)
cleanup_shmem ==
    /\ ~removed
    /\ removed' = TRUE
    /\ UNCHANGED <<shmVars, semval, adj, pc, loc, kills, shown>>

-----------------------------------------------------------------------------
(* The sections.  A step reads, and stores at most once. *)

Go(p, place) == pc' = [pc EXCEPT ![p] = place] /\ UNCHANGED loc
Again(p) == loc' = [loc EXCEPT ![p].i = @ + 1] /\ UNCHANGED pc

(* Slot i of the loop; past the end of the table. *)
At(p, op) == pc[p] = "scan" /\ loc[p].op = op
Store(i, r) == req' = [req EXCEPT ![i] = r] /\ UNCHANGED <<reqCount, nextId>>

(* Fault: the table is full, and the semaphore is kept. *)
FullPlaceKept == "stuck"

FullPlace == "unlock"

(* Fault: next_id is read and not advanced. *)
SameId == nextId

FollowingId == nextId + 1

(* Fault: only the first request of the user is failed. *)
AfterFailBreak(p) == Go(p, "unlock")

AfterFail(p) == Again(p)

AddSession(p) ==
    LET i == loc[p].i
        entry == [username |-> loc[p].u, pid |-> p, in_use |-> TRUE]
    IN
    \/ /\ At(p, "session_add") /\ i <= sessCount
       /\ IF sess[i].in_use
          THEN UNCHANGED sess /\ Again(p)
          ELSE sess' = [sess EXCEPT ![i] = entry] /\ Go(p, "unlock")
       /\ UNCHANGED <<sessCount, reqVars>>
    \/ /\ At(p, "session_add") /\ i > sessCount
       /\ IF sessCount = MAX_ENTRIES
          THEN UNCHANGED sess /\ Go(p, "unlock")
          ELSE sess' = [sess EXCEPT ![i] = entry] /\ Go(p, "sess_count")
       /\ UNCHANGED <<sessCount, reqVars>>
    \/ /\ pc[p] = "sess_count"
       /\ sessCount' = sessCount + 1
       /\ Go(p, "unlock")
       /\ UNCHANGED <<sess, reqVars>>

Collect(p) ==
    /\ At(p, "collect")
    /\ LET i == loc[p].i IN
       IF i > sessCount
       THEN UNCHANGED sess /\ Go(p, "unlock")
       ELSE /\ sess' = [sess EXCEPT ![i] =
                          IF @.in_use /\ pc[@.pid] = "gone" THEN FreeSession ELSE @]
            /\ Again(p)
    /\ UNCHANGED <<sessCount, reqVars>>

(* The index found is kept in i. *)
AddRequest(p) ==
    LET i == loc[p].i IN
    /\ \/ /\ At(p, "request_add") /\ i <= reqCount
          /\ IF req[i].status = "PENDING" THEN Again(p) ELSE Go(p, "next_id")
          /\ UNCHANGED reqVars
       \/ /\ At(p, "request_add") /\ i > reqCount
          /\ IF reqCount = MAX_ENTRIES
             THEN Go(p, FullPlace) /\ UNCHANGED reqVars
             ELSE /\ Go(p, "next_id")
                  /\ reqCount' = reqCount + 1 /\ UNCHANGED <<req, nextId>>
       \/ /\ pc[p] = "next_id"
          /\ loc' = [loc EXCEPT ![p].id = nextId]
          /\ pc' = [pc EXCEPT ![p] = "copy"]
          /\ nextId' = FollowingId /\ UNCHANGED <<req, reqCount>>
       \/ /\ pc[p] = "copy"
          /\ Store(i, [req[i] EXCEPT !.id = loc[p].id, !.source_username = loc[p].u])
          /\ Go(p, "copy_rest")
       \/ /\ pc[p] = "copy_rest"
          /\ Store(i, [req[i] EXCEPT !.dest_username = loc[p].v, !.status = "PENDING"])
          /\ Go(p, "unlock")
    /\ UNCHANGED sessVars

(* shm_request_take and shm_request_set: the first entry with the id.        *)
TakeRequest(p) ==
    LET i == loc[p].i
        take == loc[p].op = "request_take"
    IN
    /\ At(p, "request_take") \/ At(p, "request_set")
    /\ IF i <= reqCount /\ req[i].id # loc[p].id
       THEN Again(p) /\ UNCHANGED reqVars
       ELSE /\ Go(p, "unlock")
            /\ IF /\ i <= reqCount
                  /\ take => req[i].dest_username = loc[p].v /\ req[i].status = "PENDING"
               THEN Store(i, [req[i] EXCEPT !.status = IF take THEN "ACCEPTED" ELSE "FAILED"])
               ELSE UNCHANGED reqVars
    /\ UNCHANGED sessVars

FailRequests(p) ==
    LET i == loc[p].i IN
    /\ At(p, "set_failed")
    /\ IF i > reqCount
       THEN Go(p, "unlock") /\ UNCHANGED reqVars
       ELSE IF req[i].status = "PENDING" /\ req[i].source_username = loc[p].u
            THEN AfterFail(p) /\ Store(i, [req[i] EXCEPT !.status = "FAILED"])
            ELSE Again(p) /\ UNCHANGED reqVars
    /\ UNCHANGED sessVars

Section(p) ==
    /\ AddSession(p) \/ Collect(p) \/ AddRequest(p) \/ TakeRequest(p) \/ FailRequests(p)
    /\ UNCHANGED <<semVars, kills, shown>>

-----------------------------------------------------------------------------

Next ==
    \/ \E p \in Pids : Call(p) \/ sem_lock(p) \/ Section(p) \/ sem_unlock(p)
                       \/ End(p) \/ Kill(p)
    \/ cleanup_shmem

Spec == Init /\ [][Next]_vars

(* A process goes on inside a section, and the kernel serves those that wait *)
(* for the semaphore in their order.                                         *)
FairSpec ==
    /\ Spec
    /\ \A p \in Pids : WF_vars(Section(p) \/ sem_unlock(p)) /\ SF_vars(sem_lock(p))

-----------------------------------------------------------------------------
(* Properties *)

(* One process at a time reads and writes the tables, whoever is killed      *)
(* where, and however often the semaphore is given back by the kernel.       *)
OneInside == \A p, q \in Pids : Inside(p) /\ Inside(q) => p = q

(* The semaphore counts who is inside, and is never lost or given twice:     *)
(* nothing is left to undo for a process outside.                            *)
SemConserved ==
    ~removed =>
        /\ semval = IF \E p \in Pids : Inside(p) THEN 0 ELSE 1
        /\ \A p \in Pids : adj[p] = IF Inside(p) THEN 1 ELSE 0

Tables == INSTANCE ShmTables WITH
    sess <- shown.sess, sessCount <- shown.sessCount, req <- shown.req,
    reqCount <- shown.reqCount, nextId <- shown.nextId

(* One whole call of ShmTables. *)
WholeCall(p, c) ==
    CASE c.op = "session_add" ->
            Tables!shm_session_add(c.u, p) /\ UNCHANGED Tables!reqVars
      [] c.op = "collect" ->
            /\ \E gone \in SUBSET {q \in Pids : pc[q] = "gone"} :
                   Tables!shm_sessions_collect_stale(gone)
            /\ UNCHANGED Tables!reqVars
      [] c.op = "request_add" ->
            Tables!shm_request_add(c.u, c.v) /\ UNCHANGED Tables!sessVars
      [] c.op = "request_take" ->
            /\ Tables!CanTake(c.id, c.v)
            /\ Tables!shm_request_take(c.id, "ACCEPTED")
            /\ UNCHANGED Tables!sessVars
      [] c.op = "request_set" ->
            Tables!shm_request_set(c.id, "FAILED") /\ UNCHANGED Tables!sessVars
      [] OTHER ->
            Tables!shm_requests_set_failed(c.u) /\ UNCHANGED Tables!sessVars

(* What other processes get to see changes by whole calls of ShmTables, as   *)
(* TransferRequests assumes, or when a process is killed inside its section. *)
SectionsAtomic ==
    [][shown' # shown =>
        \E p \in Pids :
            /\ Inside(p) /\ ~Inside(p)'
            /\ pc'[p] = "gone" \/ WholeCall(p, loc[p])]_vars

(* Entries that no request was written to, below count: they count as        *)
(* pending and are never used again.                                         *)
Lost == {i \in 1 .. shown.reqCount : shown.req[i].id = 0}

(* A killed process costs at most one entry, and no id is given twice.       *)
KillsCost ==
    /\ Cardinality(Lost) <= kills
    /\ \A i, j \in 1 .. shown.reqCount :
           shown.req[i].id = shown.req[j].id => i = j \/ shown.req[i].id = 0

(* Whoever waits for the semaphore gets it, or an error, also when others    *)
(* are killed while they hold it ("SEM_UNDO to deal with the possibility of  *)
(* a children being terminated while holding the semaphore", DESIGN).        *)
LockGranted == \A p \in Pids : (pc[p] = "wait") ~> (pc[p] # "wait")
=============================================================================
