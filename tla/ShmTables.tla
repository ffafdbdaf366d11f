------------------------------ MODULE ShmTables ------------------------------
(***************************************************************************)
(* The shared memory segment of the server (sh_mem/sh_mem.c): the table of *)
(* sessions and the table of transfer requests, with the operations that   *)
(* the child processes and the parent perform on them.                     *)
(*                                                                         *)
(* Every shm_* function takes the System V semaphore, runs to its end and  *)
(* gives the semaphore back, so each one is a single action (or, when it   *)
(* only reads, a state function) here.  What a caller does between two     *)
(* shm_* calls is not protected; those gaps are steps of the modules that  *)
(* extend this one.                                                        *)
(***************************************************************************)
EXTENDS Naturals, FiniteSetsExt

CONSTANTS
    Users,        \* login names
    Pids,         \* process ids of the server's children
    NoUser,       \* the empty user name of a zeroed entry
    NoPid,        \* the pid of a zeroed entry
    MAX_ENTRIES   \* capacity of each table

ASSUME ShmAssumption ==
    /\ MAX_ENTRIES \in Nat
    /\ NoUser \notin Users
    /\ NoPid \notin Pids

VARIABLES
    sess,       \* session_table.entries
    sessCount,  \* session_table.count
    req,        \* pending_requests_table.entries
    reqCount,   \* pending_requests_table.count
    nextId      \* pending_requests_table.next_id

sessVars == <<sess, sessCount>>
reqVars == <<req, reqCount, nextId>>
shmVars == <<sess, sessCount, req, reqCount, nextId>>

-----------------------------------------------------------------------------
Slots == 1 .. MAX_ENTRIES

request_status == {"PENDING", "ACCEPTED", "REJECTED", "FAILED"}

session_entry_t ==
    [username: Users \cup {NoUser}, pid: Pids \cup {NoPid}, in_use: BOOLEAN]

(* file_path_absolute is left out: it never changes after the request is    *)
(* added, so the id stands for the file.                                    *)
transfer_request_entry_t ==
    [id: Nat, source_username: Users \cup {NoUser},
     dest_username: Users \cup {NoUser}, status: request_status]

FreeSession == [username |-> NoUser, pid |-> NoPid, in_use |-> FALSE]

(* memset to 0: note that status 0 is PENDING. *)
ZeroRequest ==
    [id |-> 0, source_username |-> NoUser, dest_username |-> NoUser,
     status |-> "PENDING"]

ShmTypeOK ==
    /\ sess \in [Slots -> session_entry_t]
    /\ sessCount \in 0 .. MAX_ENTRIES
    /\ req \in [Slots -> transfer_request_entry_t]
    /\ reqCount \in 0 .. MAX_ENTRIES
    /\ nextId \in Nat \ {0}

setup_shmem ==
    /\ sess = [i \in Slots |-> FreeSession]
    /\ sessCount = 0
    /\ req = [i \in Slots |-> ZeroRequest]
    /\ reqCount = 0
    /\ nextId = 1

-----------------------------------------------------------------------------
(* Session table *)

(* Fault: the test of in_use is inverted. *)
FreeSessionsInverted == {i \in 1 .. sessCount : sess[i].in_use}

FreeSessions == {i \in 1 .. sessCount : ~sess[i].in_use}

SessionsFull == FreeSessions = {} /\ sessCount = MAX_ENTRIES

(* The first free entry below count is reused; otherwise the table grows;   *)
(* when it cannot, -ENOMEM and nothing changes.                             *)
shm_session_add(u, p) ==
    LET entry == [username |-> u, pid |-> p, in_use |-> TRUE] IN
    \/ /\ FreeSessions # {}
       /\ sess' = [sess EXCEPT ![Min(FreeSessions)] = entry]
       /\ UNCHANGED sessCount
    \/ /\ FreeSessions = {}
       /\ sessCount < MAX_ENTRIES
       /\ sess' = [sess EXCEPT ![sessCount + 1] = entry]
       /\ sessCount' = sessCount + 1
    \/ /\ SessionsFull
       /\ UNCHANGED sessVars

(* Fault: the lookup takes any session. *)
SessionsOfAnyone(u) == {i \in 1 .. sessCount : sess[i].in_use}

(* The lookup compares user names only and takes the first hit.             *)
SessionsOf(u) == {i \in 1 .. sessCount : sess[i].username = u}

NotFound == [found |-> FALSE, pid |-> NoPid, online |-> FALSE]

shm_session_find(u) ==
    IF SessionsOf(u) = {}
    THEN NotFound
    ELSE LET entry == sess[Min(SessionsOf(u))] IN
         [found |-> TRUE, pid |-> entry.pid, online |-> entry.in_use]

(* gone is the set of pids for which kill(pid, 0) fails with ESRCH.         *)
shm_sessions_collect_stale(gone) ==
    /\ sess' = [i \in Slots |->
                  IF i <= sessCount /\ sess[i].in_use /\ sess[i].pid \in gone
                  THEN FreeSession ELSE sess[i]]
    /\ UNCHANGED sessCount

-----------------------------------------------------------------------------
(* Request table *)

(* Fault: entries are reused while they are pending. *)
ReusableUnlessAccepted == {i \in 1 .. reqCount : req[i].status # "ACCEPTED"}

(* Any entry that is no longer pending may be overwritten.                  *)
ReusableRequests == {i \in 1 .. reqCount : req[i].status # "PENDING"}

RequestsFull == ReusableRequests = {} /\ reqCount = MAX_ENTRIES

(* Fault: next_id is not advanced. *)
shm_request_add_same_id(src, dst) ==
    LET entry == [id |-> nextId, source_username |-> src,
                  dest_username |-> dst, status |-> "PENDING"] IN
    /\ \/ /\ ReusableRequests # {}
          /\ req' = [req EXCEPT ![Min(ReusableRequests)] = entry]
          /\ UNCHANGED reqCount
       \/ /\ ReusableRequests = {}
          /\ reqCount < MAX_ENTRIES
          /\ req' = [req EXCEPT ![reqCount + 1] = entry]
          /\ reqCount' = reqCount + 1
    /\ UNCHANGED nextId

(* Fault: count grows although an entry is reused. *)
shm_request_add_count(src, dst) ==
    LET entry == [id |-> nextId, source_username |-> src,
                  dest_username |-> dst, status |-> "PENDING"] IN
    /\ req' = [req EXCEPT ![IF ReusableRequests # {}
                            THEN Min(ReusableRequests) ELSE reqCount + 1]
                  = entry]
    /\ reqCount' = reqCount + 1
    /\ nextId' = nextId + 1

(* Adds a request under the id nextId; the caller handles RequestsFull.     *)
shm_request_add(src, dst) ==
    LET entry == [id |-> nextId, source_username |-> src,
                  dest_username |-> dst, status |-> "PENDING"] IN
    /\ \/ /\ ReusableRequests # {}
          /\ req' = [req EXCEPT ![Min(ReusableRequests)] = entry]
          /\ UNCHANGED reqCount
       \/ /\ ReusableRequests = {}
          /\ reqCount < MAX_ENTRIES
          /\ req' = [req EXCEPT ![reqCount + 1] = entry]
          /\ reqCount' = reqCount + 1
    /\ nextId' = nextId + 1

RequestsWithId(id) == {i \in 1 .. reqCount : req[i].id = id}

(* Fault: a request may be taken again. *)
CanTakeAgain(id, dst) ==
    /\ RequestsWithId(id) # {}
    /\ req[Min(RequestsWithId(id))].dest_username = dst

(* The entry that shm_request_take(id, dst) acts on; any other case is an   *)
(* error (-ENOENT, -EACCES or -EALREADY) that leaves the table alone.       *)
CanTake(id, dst) ==
    /\ RequestsWithId(id) # {}
    /\ req[Min(RequestsWithId(id))].dest_username = dst
    /\ req[Min(RequestsWithId(id))].status = "PENDING"

shm_request_take(id, new_status) ==
    /\ req' = [req EXCEPT ![Min(RequestsWithId(id))].status = new_status]
    /\ UNCHANGED <<reqCount, nextId>>

shm_request_set(id, st) ==
    /\ IF RequestsWithId(id) = {}
       THEN UNCHANGED req
       ELSE req' = [req EXCEPT ![Min(RequestsWithId(id))].status = st]
    /\ UNCHANGED <<reqCount, nextId>>

(* Fault: the status is not looked at. *)
shm_requests_set_failed_all(u) ==
    /\ req' = [i \in Slots |->
                 IF i <= reqCount /\ req[i].source_username = u
                 THEN [req[i] EXCEPT !.status = "FAILED"] ELSE req[i]]
    /\ UNCHANGED <<reqCount, nextId>>

(* Fault: the destination is compared. *)
shm_requests_set_failed_dest(u) ==
    /\ req' = [i \in Slots |->
                 IF /\ i <= reqCount
                    /\ req[i].status = "PENDING"
                    /\ req[i].dest_username = u
                 THEN [req[i] EXCEPT !.status = "FAILED"] ELSE req[i]]
    /\ UNCHANGED <<reqCount, nextId>>

shm_requests_set_failed(u) ==
    /\ req' = [i \in Slots |->
                 IF /\ i <= reqCount
                    /\ req[i].status = "PENDING"
                    /\ req[i].source_username = u
                 THEN [req[i] EXCEPT !.status = "FAILED"] ELSE req[i]]
    /\ UNCHANGED <<reqCount, nextId>>

(* The snapshot of pending requests for u, as pairs that keep table order.  *)
shm_requests_for_dest(u) ==
    {[slot |-> i, id |-> req[i].id] :
        i \in {j \in 1 .. reqCount : /\ req[j].status = "PENDING"
                                     /\ req[j].dest_username = u}}
=============================================================================
