-------------------------- MODULE TransferRequests --------------------------
(***************************************************************************)
(* The transfer-request protocol: transfer_request, accept and reject, as  *)
(* run by the server's child processes (dispatch and handle_session in     *)
(* main-server.c), the notification FIFOs (notify_pid), the client's       *)
(* blocking wait for an answer (recv_response in main-client.c) and the    *)
(* parent's collection of dead sessions.                                   *)
(*                                                                         *)
(* One child process serves one connection, so a pid names both the child  *)
(* and its client.  A step of a child runs from one access to shared state *)
(* (a table of ShmTables, a FIFO) to the next: everything between two such *)
(* accesses is local.  Reading a command is joined with the first access.  *)
(***************************************************************************)
EXTENDS ShmTables, Sequences, FiniteSets

CONSTANTS
    LoginAs,     \* LoginAs[p]: the user names that the client of p may use
    Issues,      \* Issues[p]: the kinds of command that the client of p sends
    FifoCap,     \* notifications that fit in one FIFO
    MaxReqs,     \* bound: transfer requests that clients issue
    MayCrash     \* TRUE when a child may be killed by a signal

ASSUME TransferAssumption ==
    /\ LoginAs \in [Pids -> SUBSET Users]
    /\ Issues \in [Pids -> SUBSET {"login", "transfer", "accept", "reject",
                                   "other"}]
    /\ FifoCap \in Nat
    /\ MaxReqs \in Nat
    /\ MayCrash \in BOOLEAN

VARIABLES
    pc,         \* where each child is
    user,       \* session.user (NoUser until login succeeds)
    loc,        \* the local variables of the running command
    todo,       \* requests[] still to be announced during login
    fifo,       \* the content of each session's FIFO
    cli,        \* what each client is doing
    cmd,        \* the command sent on the socket and not yet read
    inbox,      \* the frames sent to the client and not yet read
    cleanup,    \* sessions_cleanup
    waitId,     \* ghost: the request id behind the client's blocking wait
    announced,  \* ghost: ids whose REQ notification reached a FIFO
    delivered   \* ghost: ids whose file was copied

childVars == <<pc, user, loc, todo>>
clientVars == <<cli, cmd, inbox, waitId>>
ghostVars == <<announced, delivered>>
vars == <<shmVars, childVars, clientVars, ghostVars, fifo, cleanup>>

-----------------------------------------------------------------------------
(* Data *)

PCs == {"none", "select", "login_add", "login_scan", "login_notify",
        "req_add", "req_notify", "acc_find", "acc_copy", "acc_set",
        "acc_notify", "rej_find", "rej_notify", "close_fail", "close_fifo",
        "dead", "reaped"}

(* A child from fork() to its exit. *)
Running(p) == pc[p] \notin {"none", "dead", "reaped"}

(* The commands, with the fields their handlers look at. *)
NoCmd == [op |-> "none", to |-> NoUser, id |-> 0]
Login(u) == [op |-> "login", to |-> u, id |-> 0]
Transfer(u) == [op |-> "transfer", to |-> u, id |-> 0]
Accept(i) == [op |-> "accept", to |-> NoUser, id |-> i]
Reject(i) == [op |-> "reject", to |-> NoUser, id |-> i]
Other == [op |-> "other", to |-> NoUser, id |-> 0]

Command == [op: {"none", "login", "transfer", "accept", "reject", "other"},
            to: Users \cup {NoUser}, id: Nat]

(* Frames to the client.  re is 0 in the answer that ends a command and the *)
(* id of the request in whatever a notification makes the child send.       *)
Frame == [type: {"RSP_OK", "RSP_ERR", "RSP_NOTIFY"}, re: Nat]

(* FIFO lines.  to is the user that the writer meant to reach.              *)
Notification == [kind: {"REQ", "ACCEPT", "REJECT", "FAIL"}, id: Nat,
                 to: Users \cup {NoUser}]

(* id: the request; peer: the other user; pid, online: what                 *)
(* shm_session_find said of the peer; ok: the result of the copy.           *)
Locals == [id: Nat, peer: Users \cup {NoUser}, pid: Pids \cup {NoPid},
           online: BOOLEAN, ok: BOOLEAN]
NoLocals == [id |-> 0, peer |-> NoUser, pid |-> NoPid, online |-> FALSE,
             ok |-> FALSE]

TypeOK ==
    /\ ShmTypeOK
    /\ pc \in [Pids -> PCs]
    /\ user \in [Pids -> Users \cup {NoUser}]
    /\ loc \in [Pids -> Locals]
    /\ todo \in [Pids -> SUBSET [slot: Slots, id: Nat]]
    /\ fifo \in [Pids -> Seq(Notification)]
    /\ cli \in [Pids -> {"idle", "waiting", "closed"}]
    /\ cmd \in [Pids -> Command]
    /\ inbox \in [Pids -> Seq(Frame)]
    /\ cleanup \in BOOLEAN
    /\ waitId \in [Pids -> Nat]
    /\ announced \in SUBSET Nat
    /\ delivered \in SUBSET Nat

Init ==
    /\ setup_shmem
    /\ pc = [p \in Pids |-> "none"]
    /\ user = [p \in Pids |-> NoUser]
    /\ loc = [p \in Pids |-> NoLocals]
    /\ todo = [p \in Pids |-> {}]
    /\ fifo = [p \in Pids |-> <<>>]
    /\ cli = [p \in Pids |-> "closed"]
    /\ cmd = [p \in Pids |-> NoCmd]
    /\ inbox = [p \in Pids |-> <<>>]
    /\ cleanup = FALSE
    /\ waitId = [p \in Pids |-> 0]
    /\ announced = {}
    /\ delivered = {}

-----------------------------------------------------------------------------
(* Building blocks of the handlers *)

(* send_ok, send_err, send_packet: SIGPIPE is ignored and the result is not *)
(* looked at, so what is sent to a closed socket is lost.                   *)
SendFrame(p, type, re) ==
    inbox' = IF cli[p] = "closed" THEN inbox
             ELSE [inbox EXCEPT ![p] = Append(@, [type |-> type, re |-> re])]

Goto(p, label) == pc' = [pc EXCEPT ![p] = label]

(* dispatch returns: the locals are gone and the child is back in select(). *)
Return(p) ==
    /\ Goto(p, "select")
    /\ loc' = [loc EXCEPT ![p] = NoLocals]

(* The FIFO of q exists and has a reader from handle_login to the end of    *)
(* handle_session.                                                          *)
FifoOpen(q) == q \in Pids /\ user[q] # NoUser /\ Running(q)

(* notify_pid fails with ENOENT or ENXIO without a reader and with EAGAIN   *)
(* when the FIFO is full.                                                   *)
CanNotify(q) == FifoOpen(q) /\ Len(fifo[q]) < FifoCap

notify_pid(q, kind, id, to) ==
    fifo' = IF CanNotify(q)
            THEN [fifo EXCEPT ![q] =
                    Append(@, [kind |-> kind, id |-> id, to |-> to])]
            ELSE fifo

-----------------------------------------------------------------------------
(* Connections and clients *)

(* The parent accepts a connection and forks. *)
Connect(p) ==
    /\ pc[p] = "none"
    /\ Goto(p, "select")
    /\ cli' = [cli EXCEPT ![p] = "idle"]
    /\ UNCHANGED <<shmVars, user, loc, todo, fifo, cmd, inbox, cleanup,
                   waitId, ghostVars>>

(* Transfers issued and not yet in the table, for the bound MaxReqs.        *)
IssuedTransfers ==
    Cardinality({p \in Pids : cmd[p].op = "transfer"})
      + Cardinality({p \in Pids : pc[p] = "req_add"})

Commands(p) ==
    {c \in {Login(u) : u \in LoginAs[p]} \cup {Transfer(u) : u \in Users}
             \cup {Accept(i) : i \in 1 .. MaxReqs}
             \cup {Reject(i) : i \in 1 .. MaxReqs} \cup {Other} :
        c.op \in Issues[p]}

(* The client sends a command and blocks in recv_response. *)
Send(p, c) ==
    /\ cli[p] = "idle"
    /\ cmd[p] = NoCmd
    /\ c.op = "transfer" => nextId + IssuedTransfers <= MaxReqs
    /\ cli' = [cli EXCEPT ![p] = "waiting"]
    /\ cmd' = [cmd EXCEPT ![p] = c]
    /\ UNCHANGED <<shmVars, childVars, fifo, inbox, cleanup, waitId,
                   ghostVars>>

(* recv_response: a notification is printed and the wait goes on; any other *)
(* frame is taken for the answer.                                           *)
recv_response(p) ==
    /\ cli[p] = "waiting"
    /\ inbox[p] # <<>>
    /\ inbox' = [inbox EXCEPT ![p] = Tail(@)]
    /\ IF Head(inbox[p]).type = "RSP_NOTIFY"
       THEN UNCHANGED <<cli, waitId>>
       ELSE /\ cli' = [cli EXCEPT ![p] = "idle"]
            /\ waitId' = [waitId EXCEPT ![p] = 0]
    /\ UNCHANGED <<shmVars, childVars, fifo, cmd, cleanup, ghostVars>>

(* The main loop of an idle client reads a frame: it prints a notification  *)
(* and drops anything else.                                                 *)
ReadUnsolicited(p) ==
    /\ cli[p] = "idle"
    /\ inbox[p] # <<>>
    /\ inbox' = [inbox EXCEPT ![p] = Tail(@)]
    /\ UNCHANGED <<shmVars, childVars, fifo, cli, cmd, cleanup, waitId,
                   ghostVars>>

(* exit at the prompt, the client killed while it waits, or the client's    *)
(* reaction to a connection closed by the server.                           *)
ClientClose(p) ==
    /\ cli[p] # "closed"
    /\ cli' = [cli EXCEPT ![p] = "closed"]
    /\ inbox' = [inbox EXCEPT ![p] = <<>>]
    /\ waitId' = [waitId EXCEPT ![p] = 0]
    /\ UNCHANGED <<shmVars, childVars, fifo, cmd, cleanup, ghostVars>>

-----------------------------------------------------------------------------
(* dispatch *)

(* The child, in select(), finds the command c on its socket. *)
Receive(p, op) ==
    /\ pc[p] = "select"
    /\ cmd[p].op = op
    /\ cmd' = [cmd EXCEPT ![p] = NoCmd]

(* Fault: an error path returns without an answer. *)
AnswerForgotten(p, type) ==
    UNCHANGED <<shmVars, childVars, fifo, cli, inbox, cleanup, waitId,
                ghostVars>>

(* A command answered at once, with nothing else changed. *)
AnswerOnly(p, type) ==
    /\ SendFrame(p, type, 0)
    /\ UNCHANGED <<shmVars, childVars, fifo, cli, cleanup, waitId, ghostVars>>

(* login: refused when already logged in, or when handle_login fails.       *)
LoginRefused(p) ==
    /\ Receive(p, "login")
    /\ AnswerOnly(p, "RSP_ERR")

(* handle_login succeeds: the FIFO exists and the client is told so before  *)
(* the session is recorded.                                                 *)
handle_login(p) ==
    /\ Receive(p, "login")
    /\ user[p] = NoUser
    /\ user' = [user EXCEPT ![p] = cmd[p].to]
    /\ SendFrame(p, "RSP_OK", 0)
    /\ Goto(p, "login_add")
    /\ UNCHANGED <<shmVars, loc, todo, fifo, cli, cleanup, waitId, ghostVars>>

LoginAdd(p) ==
    /\ pc[p] = "login_add"
    /\ shm_session_add(user[p], p)
    /\ Goto(p, "login_scan")
    /\ UNCHANGED <<reqVars, user, loc, todo, fifo, clientVars, cleanup,
                   ghostVars>>

LoginScan(p) ==
    /\ pc[p] = "login_scan"
    /\ todo' = [todo EXCEPT ![p] = shm_requests_for_dest(user[p])]
    /\ Goto(p, "login_notify")
    /\ UNCHANGED <<shmVars, user, loc, fifo, clientVars, cleanup, ghostVars>>

(* The child writes the REQ lines into its own FIFO, in table order; a      *)
(* failure is only logged.                                                  *)
LoginNotify(p) ==
    /\ pc[p] = "login_notify"
    /\ \/ /\ todo[p] = {}
          /\ Return(p)
          /\ UNCHANGED <<todo, fifo, announced>>
       \/ \E r \in todo[p] :
            /\ \A s \in todo[p] : r.slot <= s.slot
            /\ notify_pid(p, "REQ", r.id, user[p])
            /\ announced' = IF CanNotify(p) THEN announced \cup {r.id}
                            ELSE announced
            /\ todo' = [todo EXCEPT ![p] = @ \ {r}]
            /\ UNCHANGED <<pc, loc>>
    /\ UNCHANGED <<shmVars, user, clientVars, cleanup, delivered>>

(* Every other command needs a login. *)
LoginRequired(p) ==
    /\ \E op \in {"transfer", "accept", "reject", "other"} : Receive(p, op)
    /\ user[p] = NoUser
    /\ AnswerOnly(p, "RSP_ERR")

(* The commands on files answer once and touch no table or FIFO. *)
OtherCommand(p) ==
    /\ Receive(p, "other")
    /\ user[p] # NoUser
    /\ \E type \in {"RSP_OK", "RSP_ERR"} : AnswerOnly(p, type)

(* transfer_request: a bad path, or a destination that is offline and       *)
(* unknown or the sender itself.                                            *)
TransferRefused(p) ==
    /\ Receive(p, "transfer")
    /\ user[p] # NoUser
    /\ AnswerOnly(p, "RSP_ERR")

(* Where is the destination?  The sender is turned away only on the branch  *)
(* for a destination that is not online.                                    *)
TransferFind(p) ==
    /\ Receive(p, "transfer")
    /\ user[p] # NoUser
    /\ LET dst == cmd[p].to
           s == shm_session_find(dst) IN
       /\ ~s.online => dst # user[p]
       /\ loc' = [loc EXCEPT ![p] = [NoLocals EXCEPT !.peer = dst,
                                       !.pid = s.pid, !.online = s.online]]
    /\ Goto(p, "req_add")
    /\ UNCHANGED <<shmVars, user, todo, fifo, cli, inbox, cleanup, waitId,
                   ghostVars>>

(* The request enters the table; an offline destination ends the command    *)
(* without an answer.                                                       *)
TransferAdd(p) ==
    /\ pc[p] = "req_add"
    /\ IF RequestsFull
       THEN /\ SendFrame(p, "RSP_ERR", 0)
            /\ Return(p)
            /\ UNCHANGED <<shmVars, waitId>>
       ELSE /\ shm_request_add(user[p], loc[p].peer)
            /\ waitId' = IF cli[p] = "waiting"
                         THEN [waitId EXCEPT ![p] = nextId] ELSE waitId
            /\ IF loc[p].online
               THEN /\ Goto(p, "req_notify")
                    /\ loc' = [loc EXCEPT ![p].id = nextId]
               ELSE Return(p)
            /\ UNCHANGED <<sessVars, inbox>>
    /\ UNCHANGED <<user, todo, fifo, cli, cmd, cleanup, ghostVars>>

(* The destination is notified.  When that fails the client is told so and  *)
(* the request stays in the table.                                          *)
TransferNotify(p) ==
    /\ pc[p] = "req_notify"
    /\ notify_pid(loc[p].pid, "REQ", loc[p].id, loc[p].peer)
    /\ IF CanNotify(loc[p].pid)
       THEN /\ announced' = announced \cup {loc[p].id}
            /\ UNCHANGED inbox
       ELSE /\ SendFrame(p, "RSP_ERR", 0)
            /\ UNCHANGED announced
    /\ Return(p)
    /\ UNCHANGED <<shmVars, user, todo, cli, cmd, cleanup, waitId, delivered>>

(* accept and reject: the request is taken under the semaphore.             *)
TakeRequest(p, op, status, label) ==
    /\ Receive(p, op)
    /\ user[p] # NoUser
    /\ CanTake(cmd[p].id, user[p])
    /\ shm_request_take(cmd[p].id, status)
    /\ loc' = [loc EXCEPT ![p] = [NoLocals EXCEPT !.id = cmd[p].id,
                 !.peer = req[Min(RequestsWithId(cmd[p].id))].source_username]]
    /\ Goto(p, label)
    /\ UNCHANGED <<sessVars, user, todo, fifo, cli, inbox, cleanup, waitId,
                   ghostVars>>

AcceptTake(p) == TakeRequest(p, "accept", "ACCEPTED", "acc_find")

RejectTake(p) == TakeRequest(p, "reject", "REJECTED", "rej_find")

(* A bad path, or a request that is unknown, for someone else or no longer  *)
(* pending.                                                                 *)
AnswerRefused(p) ==
    /\ \/ Receive(p, "accept")
       \/ Receive(p, "reject") /\ ~CanTake(cmd[p].id, user[p])
    /\ user[p] # NoUser
    /\ AnswerOnly(p, "RSP_ERR")

(* The sender is looked up after the request was taken.                     *)
FindSource(p, label) ==
    LET s == shm_session_find(loc[p].peer) IN
    /\ IF s.found
       THEN /\ loc' = [loc EXCEPT ![p] = [@ EXCEPT !.pid = s.pid,
                                                   !.online = s.online]]
            /\ Goto(p, label)
            /\ UNCHANGED inbox
       ELSE /\ SendFrame(p, "RSP_ERR", 0)
            /\ Return(p)
    /\ UNCHANGED <<shmVars, user, todo, fifo, cli, cmd, cleanup, waitId,
                   ghostVars>>

AcceptFind(p) == pc[p] = "acc_find" /\ FindSource(p, "acc_copy")

RejectFind(p) == pc[p] = "rej_find" /\ FindSource(p, "rej_notify")

(* execute_transfer_copy succeeds or fails. *)
AcceptCopy(p) ==
    /\ pc[p] = "acc_copy"
    /\ \/ /\ loc' = [loc EXCEPT ![p].ok = TRUE]
          /\ delivered' = delivered \cup {loc[p].id}
          /\ Goto(p, "acc_notify")
       \/ /\ loc' = [loc EXCEPT ![p].ok = FALSE]
          /\ Goto(p, "acc_set")
          /\ UNCHANGED delivered
    /\ UNCHANGED <<shmVars, user, todo, fifo, clientVars, cleanup, announced>>

AcceptSet(p) ==
    /\ pc[p] = "acc_set"
    /\ shm_request_set(loc[p].id, "FAILED")
    /\ Goto(p, "acc_notify")
    /\ UNCHANGED <<sessVars, user, loc, todo, fifo, clientVars, cleanup,
                   ghostVars>>

(* The sender is unblocked through its FIFO, then the receiver is answered. *)
AnswerSource(p, kind, ok) ==
    LET reached == ~loc[p].online \/ CanNotify(loc[p].pid) IN
    /\ IF loc[p].online
       THEN notify_pid(loc[p].pid, kind, loc[p].id, loc[p].peer)
       ELSE UNCHANGED fifo
    /\ SendFrame(p, IF ok /\ reached THEN "RSP_OK" ELSE "RSP_ERR", 0)
    /\ Return(p)
    /\ UNCHANGED <<shmVars, user, todo, cli, cmd, cleanup, waitId, ghostVars>>

AcceptNotify(p) ==
    /\ pc[p] = "acc_notify"
    /\ AnswerSource(p, IF loc[p].ok THEN "ACCEPT" ELSE "FAIL", loc[p].ok)

RejectNotify(p) ==
    /\ pc[p] = "rej_notify"
    /\ AnswerSource(p, "REJECT", TRUE)

-----------------------------------------------------------------------------
(* The rest of handle_session *)

(* Fault: a rejection is forwarded as a mere notification. *)
FrameForQuiet(kind) == IF kind = "ACCEPT" THEN "RSP_OK" ELSE "RSP_NOTIFY"

(* A line on the FIFO is turned into a frame: REQ into a notification, the  *)
(* others into an answer.                                                   *)
FrameFor(kind) ==
    CASE kind = "REQ" -> "RSP_NOTIFY"
      [] kind = "ACCEPT" -> "RSP_OK"
      [] OTHER -> "RSP_ERR"

ReadNotification(p) ==
    /\ pc[p] = "select"
    /\ fifo[p] # <<>>
    /\ fifo' = [fifo EXCEPT ![p] = Tail(@)]
    /\ SendFrame(p, FrameFor(Head(fifo[p]).kind), Head(fifo[p]).id)
    /\ UNCHANGED <<shmVars, childVars, cli, cmd, cleanup, waitId, ghostVars>>

(* recv_packet fails once the client is gone.  What it had sent may still   *)
(* be read before, or be lost when the connection was reset.                *)
Eof(p) ==
    /\ pc[p] = "select"
    /\ cli[p] = "closed"
    /\ cmd' = [cmd EXCEPT ![p] = NoCmd]
    /\ Goto(p, IF user[p] = NoUser THEN "dead" ELSE "close_fail")
    /\ UNCHANGED <<shmVars, user, loc, todo, fifo, cli, inbox, cleanup,
                   waitId, ghostVars>>

(* Every pending request of the user, whichever session issued it.          *)
CloseFail(p) ==
    /\ pc[p] = "close_fail"
    /\ shm_requests_set_failed(user[p])
    /\ Goto(p, "close_fifo")
    /\ UNCHANGED <<sessVars, user, loc, todo, fifo, clientVars, cleanup,
                   ghostVars>>

(* The FIFO is closed and unlinked and the child exits. *)
CloseFifo(p) ==
    /\ pc[p] = "close_fifo"
    /\ Goto(p, "dead")
    /\ fifo' = [fifo EXCEPT ![p] = <<>>]
    /\ UNCHANGED <<shmVars, user, loc, todo, clientVars, cleanup, ghostVars>>

(* A child is killed by a signal: none of its clean-up runs.                *)
Crash(p) ==
    /\ MayCrash
    /\ Running(p)
    /\ Goto(p, "dead")
    /\ loc' = [loc EXCEPT ![p] = NoLocals]
    /\ todo' = [todo EXCEPT ![p] = {}]
    /\ fifo' = [fifo EXCEPT ![p] = <<>>]
    /\ cmd' = [cmd EXCEPT ![p] = NoCmd]
    /\ UNCHANGED <<shmVars, user, cli, inbox, cleanup, waitId, ghostVars>>

-----------------------------------------------------------------------------
(* The parent *)

(* SIGCHLD: waitpid reaps the zombie and the flag is raised. *)
handle_signals(p) ==
    /\ pc[p] = "dead"
    /\ Goto(p, "reaped")
    /\ cleanup' = TRUE
    /\ UNCHANGED <<shmVars, user, loc, todo, fifo, clientVars, ghostVars>>

(* The main loop sees the flag; a zombie still answers kill(pid, 0).  A       *)
(* child that is reaped while the table is scanned may be missed, and sets    *)
(* the flag again.                                                            *)
collect_stale_sessions ==
    LET reaped == {p \in Pids : pc[p] = "reaped"} IN
    /\ cleanup
    /\ \E gone \in SUBSET reaped :
           /\ shm_sessions_collect_stale(gone)
           /\ cleanup' = (gone # reaped)
    /\ UNCHANGED <<reqVars, childVars, fifo, clientVars, ghostVars>>

-----------------------------------------------------------------------------
(* A step of dispatch or handle_session that the child takes by itself.     *)
ChildStep(p) ==
    \/ LoginRefused(p) \/ handle_login(p)
    \/ LoginAdd(p) \/ LoginScan(p) \/ LoginNotify(p)
    \/ LoginRequired(p) \/ OtherCommand(p)
    \/ TransferRefused(p) \/ TransferFind(p)
    \/ TransferAdd(p) \/ TransferNotify(p)
    \/ AcceptTake(p) \/ RejectTake(p) \/ AnswerRefused(p)
    \/ AcceptFind(p) \/ AcceptCopy(p) \/ AcceptSet(p) \/ AcceptNotify(p)
    \/ RejectFind(p) \/ RejectNotify(p)
    \/ Eof(p) \/ CloseFail(p) \/ CloseFifo(p)

ClientStep(p) ==
    \/ \E c \in Commands(p) : Send(p, c)
    \/ recv_response(p) \/ ReadUnsolicited(p) \/ ClientClose(p)

Next ==
    \/ \E p \in Pids : \/ Connect(p) \/ ClientStep(p)
                       \/ ChildStep(p) \/ ReadNotification(p)
                       \/ Crash(p) \/ handle_signals(p)
    \/ collect_stale_sessions

Spec == Init /\ [][Next]_vars

(* A child that can run does, its select() serves both descriptors, and a   *)
(* client reads what arrives.  Nobody is forced to issue commands, and the  *)
(* parent is not assumed to leave its own select().                         *)
Fairness ==
    \A p \in Pids : /\ WF_vars(ChildStep(p))
                    /\ WF_vars(ReadNotification(p))
                    /\ WF_vars(recv_response(p))
                    /\ WF_vars(ReadUnsolicited(p))

FairSpec == Spec /\ Fairness

-----------------------------------------------------------------------------
(* Safety *)

(* Ids never repeat in the table and stay below next_id, so that an id given *)
(* to accept, reject or shm_request_set names one request.                   *)
UniqueIds ==
    \A i \in 1 .. reqCount :
        /\ req[i].id < nextId
        /\ \A j \in 1 .. reqCount : req[i].id = req[j].id => i = j

(* A child between shm_request_take and the end of its accept or reject.     *)
Holding(p) == pc[p] \in {"acc_find", "acc_copy", "acc_set", "acc_notify",
                         "rej_find", "rej_notify"}

(* README, Important: a request is accepted or rejected once.  Two children  *)
(* never work on the same request, not even two sessions of one user.        *)
SingleTaker ==
    \A p, q \in Pids :
        Holding(p) /\ Holding(q) /\ p # q => loc[p].id # loc[q].id

(* Once the file of a request was copied, the table never calls the request  *)
(* failed, rejected or pending: neither the clean-up of the sender's session *)
(* nor another answer touches it.                                            *)
DeliveredStaysAccepted ==
    \A i \in 1 .. reqCount :
        req[i].id \in delivered => req[i].status = "ACCEPTED"

(* A request stays pending only while its sender is connected (the promise   *)
(* of shm_requests_set_failed): otherwise its slot would never be reused.    *)
NoOrphanPending ==
    \A i \in 1 .. reqCount :
        req[i].status = "PENDING" =>
            \E p \in Pids : /\ user[p] = req[i].source_username
                            /\ Running(p)
                            /\ pc[p] # "close_fifo"

(* notify_pid writes only into FIFOs of the user it is meant for, although   *)
(* the pid was looked up earlier and its session may have ended since.       *)
FifoRightUser ==
    \A p \in Pids : \A n \in 1 .. Len(fifo[p]) : fifo[p][n].to = user[p]

(* While the table is large enough, a session that finished its login is     *)
(* found in it until it ends: collect_stale never evicts a live child.       *)
LiveSessionListed ==
    \A p \in Pids :
        user[p] # NoUser /\ Running(p) /\ pc[p] # "login_add" =>
            \E i \in 1 .. sessCount :
                sess[i] = [username |-> user[p], pid |-> p, in_use |-> TRUE]

(* An answer on its way to the client that waits for the request id.         *)
AnswerInFlight(p, id) ==
    \/ pc[p] \in {"req_add", "req_notify"}
    \/ \E q \in Pids : Holding(q) /\ loc[q].id = id
    \/ \E n \in 1 .. Len(fifo[p]) : fifo[p][n].id = id /\ fifo[p][n].kind # "REQ"
    \/ \E n \in 1 .. Len(inbox[p]) :
           inbox[p][n].type # "RSP_NOTIFY" /\ inbox[p][n].re \in {0, id}

(* The client of a transfer_request blocks without a timeout, so as long as  *)
(* it waits its request must be pending or its own answer on its way; that   *)
(* of an older request does not count.                                       *)
WaiterHasHope ==
    \A p \in Pids : cli[p] = "waiting" /\ waitId[p] # 0 =>
        \/ AnswerInFlight(p, waitId[p])
        \/ \E i \in 1 .. reqCount :
               req[i].id = waitId[p] /\ req[i].status = "PENDING"

(* A destination that is logged in has been told of every request pending    *)
(* for it (DESIGN, Transfer Request), once nobody is still about to tell it. *)
PendingAnnounced ==
    \A i \in 1 .. reqCount : \A q \in Pids :
        /\ req[i].status = "PENDING"
        /\ user[q] = req[i].dest_username
        /\ Running(q)
        /\ pc[q] \notin {"login_add", "login_scan", "login_notify"}
        /\ \A p \in Pids : pc[p] = "req_notify" => loc[p].id # req[i].id
        => req[i].id \in announced

-----------------------------------------------------------------------------
(* The inductive invariant behind UniqueIds, SingleTaker,                    *)
(* DeliveredStaysAccepted and RequestLife.                                   *)

(* Slots that were never used are as setup_shmem left them.                  *)
UnusedZero == \A i \in Slots : i > reqCount => req[i] = ZeroRequest

(* A request that a child works on was issued, and is not pending any more.  *)
HeldTaken ==
    \A p \in Pids : Holding(p) =>
        /\ loc[p].id < nextId
        /\ \A i \in 1 .. reqCount :
              req[i].id = loc[p].id => req[i].status # "PENDING"

(* Until its copy is made or reported as failed, an accepted request stays   *)
(* accepted and undelivered.                                                 *)
CopyOutstanding ==
    \A p \in Pids :
        pc[p] \in {"acc_find", "acc_copy", "acc_set"} =>
            /\ loc[p].id \notin delivered
            /\ \A i \in 1 .. reqCount :
                  req[i].id = loc[p].id => req[i].status = "ACCEPTED"

DeliveredIssued == \A id \in delivered : id < nextId

(* All of it together: what accept, reject and the clean-up of a session     *)
(* rely on when they work on the same request, crashes included.             *)
TransferInv ==
    /\ TypeOK
    /\ UniqueIds
    /\ UnusedZero
    /\ HeldTaken
    /\ SingleTaker
    /\ CopyOutstanding
    /\ DeliveredIssued
    /\ DeliveredStaysAccepted

-----------------------------------------------------------------------------
(* Action properties *)

(* The life of a table slot: a request leaves PENDING once, an accepted one  *)
(* may only turn failed and only when nothing was copied, and a slot is      *)
(* given away only by a request that is settled, to one with a larger id.    *)
SlotStep(i) ==
    \/ req'[i] = req[i]
    \/ /\ req'[i].id = req[i].id
       /\ \/ req[i].status = "PENDING"
          \/ /\ req[i].status = "ACCEPTED"
             /\ req'[i].status = "FAILED"
             /\ req[i].id \notin delivered
    \/ /\ req'[i].id > req[i].id
       /\ req[i].id = 0 \/ req[i].status # "PENDING"

RequestLife == [][\A i \in Slots : SlotStep(i)]_vars

-----------------------------------------------------------------------------
(* Liveness *)

(* Every command but transfer_request is answered, or its client goes away.  *)
CommandAnswered ==
    \A p \in Pids :
        (cli[p] = "waiting" /\ cmd[p].op \notin {"none", "transfer"})
            ~> (cli[p] # "waiting")

(* A sender is released once its request is settled.                         *)
SettledThenReleased ==
    \A p \in Pids : \A id \in 1 .. MaxReqs :
        (/\ cli[p] = "waiting" /\ waitId[p] = id
         /\ \E i \in 1 .. reqCount :
                req[i].id = id /\ req[i].status # "PENDING")
            ~> (waitId[p] # id)
=============================================================================
