--------------------------- MODULE TransferProofs ---------------------------
(***************************************************************************)
(* Proofs about TransferRequests, for any number of users, connections,    *)
(* table entries and requests, and with children that may be killed.       *)
(***************************************************************************)
EXTENDS TransferRequests, WellFoundedInduction, TLAPS

(* The least element, as the first hit of a loop over a table.               *)
LEMMA MinIn ==
  ASSUME NEW S \in SUBSET Nat, S # {}
  PROVE  Min(S) \in S /\ \A y \in S : Min(S) <= y
<1> DEFINE R == {ss \in Nat \X Nat : ss[1] < ss[2]}
<1>0. R = OpToRel(<, Nat)
  BY Zenon DEF OpToRel
<1>1. IsWellFoundedOn(R, Nat)
  BY <1>0, NatLessThanWellFounded, Zenon
<1> HIDE DEF R
<1>2. PICK x \in S : \A y \in S : ~(<<y, x>> \in R)
  BY <1>1, WFMin, Zenon
<1>3. ASSUME NEW y \in S PROVE x <= y
  <2>1. x \in Nat /\ y \in Nat
    OBVIOUS
  <2>2. ASSUME y < x PROVE <<y, x>> \in R
    <3>1. <<y, x>> \in Nat \X Nat
      BY <2>1
    <3> QED  BY <2>2, <3>1 DEF R
  <2> QED  BY <2>1, <2>2, <1>2
<1> QED  BY <1>3 DEF Min

USE DEF Slots

-----------------------------------------------------------------------------
(* The tables *)

(* A new session entry goes into a slot of the table.                        *)
LEMMA SessionAddType ==
  ASSUME ShmTypeOK, NEW u \in Users \cup {NoUser}, NEW p \in Pids,
         shm_session_add(u, p), UNCHANGED reqVars
  PROVE  ShmTypeOK'
<1> USE ShmAssumption
<1>1. FreeSessions # {} => Min(FreeSessions) \in 1 .. sessCount
  <2>1. FreeSessions \in SUBSET Nat
    BY DEF FreeSessions, ShmTypeOK
  <2> QED  BY <2>1, MinIn DEF FreeSessions
<1> DEFINE e == [username |-> u, pid |-> p, in_use |-> TRUE]
<1>2. e \in session_entry_t
  BY DEF session_entry_t
<1>3. /\ sess' \in [Slots -> session_entry_t]
      /\ sessCount' \in 0 .. MAX_ENTRIES
  <2> HIDE DEF e
  <2>1. CASE sess' = sess /\ sessCount' = sessCount
    BY <2>1 DEF ShmTypeOK
  <2>2. CASE /\ FreeSessions # {}
             /\ sess' = [sess EXCEPT ![Min(FreeSessions)] = e]
             /\ sessCount' = sessCount
    BY <2>2, <1>1, <1>2 DEF ShmTypeOK
  <2>3. CASE /\ sessCount < MAX_ENTRIES
             /\ sess' = [sess EXCEPT ![sessCount + 1] = e]
             /\ sessCount' = sessCount + 1
    BY <2>3, <1>2 DEF ShmTypeOK
  <2> QED  BY <2>1, <2>2, <2>3 DEF shm_session_add, e, sessVars
<1> QED  BY <1>3 DEF ShmTypeOK, reqVars

(* shm_session_find answers with a pid or with nothing.                      *)
LEMMA SessionFindType ==
  ASSUME ShmTypeOK, NEW u
  PROVE  /\ shm_session_find(u).pid \in Pids \cup {NoPid}
         /\ shm_session_find(u).online \in BOOLEAN
<1> USE ShmAssumption
<1>1. CASE SessionsOf(u) = {}
  BY <1>1 DEF shm_session_find, NotFound
<1>2. CASE SessionsOf(u) # {}
  <2>1. SessionsOf(u) \in SUBSET Nat
    BY DEF SessionsOf, ShmTypeOK
  <2>2. Min(SessionsOf(u)) \in Slots
    <3>1. Min(SessionsOf(u)) \in SessionsOf(u)
      BY <1>2, <2>1, MinIn
    <3> QED  BY <3>1 DEF SessionsOf, ShmTypeOK
  <2>3. sess[Min(SessionsOf(u))] \in session_entry_t
    BY <2>2 DEF ShmTypeOK
  <2> DEFINE e == sess[Min(SessionsOf(u))]
  <2>4. e.pid \in Pids \cup {NoPid} /\ e.in_use \in BOOLEAN
    BY <2>3 DEF session_entry_t
  <2>5. shm_session_find(u) = [found |-> TRUE, pid |-> e.pid,
                               online |-> e.in_use]
    BY <1>2, Zenon DEF shm_session_find
  <2> HIDE DEF e
  <2> QED  BY <2>4, <2>5
<1> QED  BY <1>1, <1>2

(* Freeing the sessions of reaped children keeps the tables typed.           *)
LEMMA CollectType ==
  ASSUME ShmTypeOK, NEW gone, shm_sessions_collect_stale(gone),
         UNCHANGED reqVars
  PROVE  ShmTypeOK'
<1>1. FreeSession \in session_entry_t
  BY DEF FreeSession, session_entry_t
<1>2. sess' \in [Slots -> session_entry_t]
  BY <1>1 DEF ShmTypeOK, shm_sessions_collect_stale
<1> QED  BY <1>2 DEF ShmTypeOK, shm_sessions_collect_stale, reqVars

(* Where shm_request_add puts the new request: the slot of a settled one, or *)
(* the first slot never used.                                                *)
LEMMA RequestAddSlot ==
  ASSUME ShmTypeOK, NEW u, NEW v, shm_request_add(u, v)
  PROVE  \E k \in Slots :
            /\ req' = [req EXCEPT ![k] =
                         [id |-> nextId, source_username |-> u,
                          dest_username |-> v, status |-> "PENDING"]]
            /\ nextId' = nextId + 1
            /\ reqCount' \in 0 .. MAX_ENTRIES
            /\ \/ /\ k \in 1 .. reqCount
                  /\ reqCount' = reqCount
                  /\ req[k].status # "PENDING"
               \/ k = reqCount + 1 /\ reqCount' = reqCount + 1
<1> USE ShmAssumption
<1>1. CASE ReusableRequests # {}
  <2>1. ReusableRequests \in SUBSET Nat
    BY DEF ReusableRequests, ShmTypeOK
  <2>2. Min(ReusableRequests) \in ReusableRequests
    BY <1>1, <2>1, MinIn
  <2>3. /\ Min(ReusableRequests) \in 1 .. reqCount
        /\ Min(ReusableRequests) \in Slots
        /\ req[Min(ReusableRequests)].status # "PENDING"
    BY <2>2 DEF ReusableRequests, ShmTypeOK
  <2>4. reqCount' = reqCount /\ reqCount \in 0 .. MAX_ENTRIES
    BY <1>1 DEF shm_request_add, ShmTypeOK
  <2> QED  BY <1>1, <2>3, <2>4 DEF shm_request_add
<1>2. CASE ReusableRequests = {}
  <2>1. /\ reqCount + 1 \in Slots
        /\ reqCount' = reqCount + 1
        /\ reqCount' \in 0 .. MAX_ENTRIES
    BY <1>2 DEF shm_request_add, ShmTypeOK
  <2> QED  BY <1>2, <2>1 DEF shm_request_add
<1> QED  BY <1>1, <1>2

(* A new request is an entry of the table, and count stays in its range.     *)
LEMMA RequestAddType ==
  ASSUME ShmTypeOK, NEW u \in Users \cup {NoUser},
         NEW v \in Users \cup {NoUser},
         shm_request_add(u, v), UNCHANGED sessVars
  PROVE  ShmTypeOK'
<1> USE ShmAssumption
<1> DEFINE e == [id |-> nextId, source_username |-> u, dest_username |-> v,
                 status |-> "PENDING"]
<1>1. e \in transfer_request_entry_t
  BY DEF ShmTypeOK, transfer_request_entry_t, request_status
<1>2. PICK k \in Slots : /\ req' = [req EXCEPT ![k] = e]
                         /\ nextId' = nextId + 1
                         /\ reqCount' \in 0 .. MAX_ENTRIES
  BY RequestAddSlot
<1> HIDE DEF e
<1>3. req' \in [Slots -> transfer_request_entry_t]
  BY <1>1, <1>2 DEF ShmTypeOK
<1> QED  BY <1>2, <1>3 DEF ShmTypeOK, sessVars

(* The entry of a request id: the first hit is a slot in use.                *)
LEMMA RequestSlot ==
  ASSUME ShmTypeOK, NEW id, RequestsWithId(id) # {}
  PROVE  /\ Min(RequestsWithId(id)) \in 1 .. reqCount
         /\ Min(RequestsWithId(id)) \in Slots
         /\ req[Min(RequestsWithId(id))].id = id
<1> USE ShmAssumption
<1>1. RequestsWithId(id) \in SUBSET Nat
  BY DEF RequestsWithId, ShmTypeOK
<1>2. Min(RequestsWithId(id)) \in RequestsWithId(id)
  BY <1>1, MinIn
<1> QED  BY <1>2 DEF RequestsWithId, ShmTypeOK

(* A request whose status alone is set is still a request.                   *)
LEMMA StatusType ==
  ASSUME ShmTypeOK, NEW k \in Slots, NEW st \in request_status
  PROVE  [req[k] EXCEPT !.status = st] \in transfer_request_entry_t
BY DEF ShmTypeOK, transfer_request_entry_t

(* Setting the status of one slot (shm_request_take, shm_request_set) keeps  *)
(* the tables typed.                                                         *)
LEMMA RequestSetType ==
  ASSUME ShmTypeOK, NEW k \in Slots, NEW st \in request_status,
         req' = [req EXCEPT ![k].status = st],
         UNCHANGED <<reqCount, nextId>>, UNCHANGED sessVars
  PROVE  ShmTypeOK'
<1>1. req' \in [Slots -> transfer_request_entry_t]
  BY StatusType DEF ShmTypeOK
<1> QED  BY <1>1 DEF ShmTypeOK, sessVars

(* So does the clean-up of a sender, shm_requests_set_failed.                *)
LEMMA SetFailedType ==
  ASSUME ShmTypeOK, NEW u, shm_requests_set_failed(u), UNCHANGED sessVars
  PROVE  ShmTypeOK'
<1>1. req' \in [Slots -> transfer_request_entry_t]
  BY StatusType DEF ShmTypeOK, shm_requests_set_failed, request_status
<1> QED  BY <1>1 DEF ShmTypeOK, sessVars, shm_requests_set_failed

-----------------------------------------------------------------------------
(* Type correctness *)

(* The locals of a child that runs no command.                               *)
LEMMA NoLocalsType == NoLocals \in Locals
BY DEF NoLocals, Locals

(* An empty socket.                                                          *)
LEMMA NoCmdType == NoCmd \in Command
BY DEF NoCmd, Command

(* What setup_shmem and an idle server start with is typed.                  *)
LEMMA InitType == Init => TypeOK
<1> USE ShmAssumption
<1> SUFFICES ASSUME Init PROVE TypeOK
  OBVIOUS
<1>1. ShmTypeOK
  BY DEF Init, setup_shmem, ShmTypeOK, FreeSession, ZeroRequest,
         session_entry_t, transfer_request_entry_t, request_status
<1>2. pc \in [Pids -> PCs]
  BY DEF Init, PCs
<1>3. /\ user \in [Pids -> Users \cup {NoUser}]
      /\ loc \in [Pids -> Locals]
      /\ cmd \in [Pids -> Command]
  BY NoLocalsType, NoCmdType DEF Init
<1>4. todo \in [Pids -> SUBSET [slot: Slots, id: Nat]]
  BY DEF Init
<1>5. /\ fifo \in [Pids -> Seq(Notification)]
      /\ inbox \in [Pids -> Seq(Frame)]
  <2>1. <<>> \in Seq(Notification) /\ <<>> \in Seq(Frame)
    OBVIOUS
  <2> QED  BY <2>1 DEF Init
<1>6. /\ cli \in [Pids -> {"idle", "waiting", "closed"}]
      /\ cleanup \in BOOLEAN
      /\ waitId \in [Pids -> Nat]
      /\ announced \in SUBSET Nat
      /\ delivered \in SUBSET Nat
  BY DEF Init
<1> QED  BY <1>1, <1>2, <1>3, <1>4, <1>5, <1>6 DEF TypeOK

(* The building blocks of the handlers keep their variables' types.          *)
LEMMA GotoType ==
  ASSUME TypeOK, NEW p \in Pids, NEW label \in PCs, Goto(p, label)
  PROVE  pc' \in [Pids -> PCs]
BY DEF TypeOK, Goto

(* The return from dispatch keeps the types of pc and of the locals.         *)
LEMMA ReturnType ==
  ASSUME TypeOK, NEW p \in Pids, Return(p)
  PROVE  pc' \in [Pids -> PCs] /\ loc' \in [Pids -> Locals]
<1>1. "select" \in PCs
  BY DEF PCs
<1>2. loc' \in [Pids -> Locals]
  BY NoLocalsType DEF TypeOK, Return
<1> QED  BY <1>1, <1>2, GotoType DEF Return

(* A frame sent to a client leaves its inbox a sequence of frames.           *)
LEMMA FrameType ==
  ASSUME TypeOK, NEW p \in Pids, NEW re \in Nat,
         NEW type \in {"RSP_OK", "RSP_ERR", "RSP_NOTIFY"},
         SendFrame(p, type, re)
  PROVE  inbox' \in [Pids -> Seq(Frame)]
<1> DEFINE f == [type |-> type, re |-> re]
<1>1. f \in Frame
  BY DEF Frame
<1>2. inbox \in [Pids -> Seq(Frame)]
  BY DEF TypeOK
<1>3. inbox' = inbox \/ inbox' = [inbox EXCEPT ![p] = Append(@, f)]
  BY DEF SendFrame
<1> HIDE DEF f
<1>4. Append(inbox[p], f) \in Seq(Frame)
  BY <1>1, <1>2
<1> QED  BY <1>2, <1>3, <1>4

(* notify_pid leaves the FIFOs sequences of notifications, written or not.   *)
LEMMA NotifyType ==
  ASSUME TypeOK, NEW q \in Pids \cup {NoPid}, NEW id \in Nat,
         NEW kind \in {"REQ", "ACCEPT", "REJECT", "FAIL"},
         NEW to \in Users \cup {NoUser},
         notify_pid(q, kind, id, to)
  PROVE  fifo' \in [Pids -> Seq(Notification)]
<1> DEFINE n == [kind |-> kind, id |-> id, to |-> to]
<1>1. n \in Notification
  BY DEF Notification
<1>2. fifo \in [Pids -> Seq(Notification)]
  BY DEF TypeOK
<1>3. \/ fifo' = fifo
      \/ q \in Pids /\ fifo' = [fifo EXCEPT ![q] = Append(@, n)]
  BY DEF notify_pid, CanNotify, FifoOpen
<1> HIDE DEF n
<1>4. q \in Pids => Append(fifo[q], n) \in Seq(Notification)
  BY <1>1, <1>2
<1> QED  BY <1>2, <1>3, <1>4

(* Reading a command leaves the socket empty.                                *)
LEMMA ReceiveType ==
  ASSUME TypeOK, NEW p \in Pids, NEW op, Receive(p, op)
  PROVE  cmd' \in [Pids -> Command]
BY NoCmdType DEF TypeOK, Receive

(* The variables of the clients and of the children, each with its type.     *)
LEMMA LocalsType ==
  ASSUME TypeOK, NEW p \in Pids
  PROVE  /\ loc[p].id \in Nat
         /\ loc[p].peer \in Users \cup {NoUser}
         /\ loc[p].pid \in Pids \cup {NoPid}
         /\ loc[p].online \in BOOLEAN
         /\ loc[p].ok \in BOOLEAN
         /\ cmd[p].to \in Users \cup {NoUser}
         /\ cmd[p].id \in Nat
         /\ user[p] \in Users \cup {NoUser}
<1>1. loc[p] \in Locals /\ cmd[p] \in Command
  BY DEF TypeOK
<1> QED  BY <1>1 DEF Locals, Command, TypeOK

USE DEF shmVars, sessVars, reqVars, childVars, clientVars, ghostVars

(* Connecting, sending, reading and closing keep the types.                  *)
LEMMA ClientType ==
  ASSUME TypeOK, NEW p \in Pids, Connect(p) \/ ClientStep(p)
  PROVE  TypeOK'
<1>1. CASE Connect(p)
  <2>1. pc' \in [Pids -> PCs]
    BY <1>1, GotoType DEF Connect, PCs
  <2>2. cli' \in [Pids -> {"idle", "waiting", "closed"}]
    BY <1>1 DEF Connect, TypeOK
  <2> QED  BY <1>1, <2>1, <2>2 DEF Connect, TypeOK, ShmTypeOK
<1>2. ASSUME NEW c \in Commands(p), Send(p, c) PROVE TypeOK'
  <2>1. c \in Command
    BY TransferAssumption
       DEF Commands, Command, Login, Transfer, Accept, Reject, Other
  <2>2. /\ cli' \in [Pids -> {"idle", "waiting", "closed"}]
        /\ cmd' \in [Pids -> Command]
    BY <1>2, <2>1 DEF Send, TypeOK
  <2> QED  BY <1>2, <2>2 DEF Send, TypeOK, ShmTypeOK
<1>3. CASE recv_response(p) \/ ReadUnsolicited(p)
  <2>1. inbox' \in [Pids -> Seq(Frame)]
    <3>1. inbox[p] \in Seq(Frame) /\ inbox[p] # <<>>
      BY <1>3 DEF TypeOK, recv_response, ReadUnsolicited
    <3>2. Tail(inbox[p]) \in Seq(Frame)
      BY <3>1
    <3>3. inbox' = [inbox EXCEPT ![p] = Tail(inbox[p])]
      BY <1>3 DEF recv_response, ReadUnsolicited
    <3>4. inbox \in [Pids -> Seq(Frame)]
      BY DEF TypeOK
    <3> QED  BY <3>2, <3>3, <3>4
  <2>2. /\ cli' \in [Pids -> {"idle", "waiting", "closed"}]
        /\ waitId' \in [Pids -> Nat]
    <3>1. CASE cli' = cli /\ waitId' = waitId
      BY <3>1 DEF TypeOK
    <3>2. CASE /\ cli' = [cli EXCEPT ![p] = "idle"]
               /\ waitId' = [waitId EXCEPT ![p] = 0]
      BY <3>2 DEF TypeOK
    <3> QED  BY <1>3, <3>1, <3>2, Zenon DEF recv_response, ReadUnsolicited
  <2>3. UNCHANGED <<shmVars, childVars, fifo, cmd, cleanup, ghostVars>>
    BY <1>3 DEF recv_response, ReadUnsolicited
  <2> QED  BY <2>1, <2>2, <2>3 DEF TypeOK, ShmTypeOK
<1>4. CASE ClientClose(p)
  <2>1. inbox' \in [Pids -> Seq(Frame)]
    <3>1. <<>> \in Seq(Frame)
      OBVIOUS
    <3> QED  BY <1>4, <3>1 DEF TypeOK, ClientClose
  <2>2. /\ cli' \in [Pids -> {"idle", "waiting", "closed"}]
        /\ waitId' \in [Pids -> Nat]
    BY <1>4 DEF TypeOK, ClientClose
  <2> QED  BY <1>4, <2>1, <2>2 DEF TypeOK, ShmTypeOK, ClientClose
<1> QED  BY <1>1, <1>2, <1>3, <1>4 DEF ClientStep

(* Commands that are answered at once.                                       *)
LEMMA AnswerOnlyType ==
  ASSUME TypeOK, NEW p \in Pids, NEW op, Receive(p, op),
         NEW type \in {"RSP_OK", "RSP_ERR"}, AnswerOnly(p, type)
  PROVE  TypeOK'
<1>1. inbox' \in [Pids -> Seq(Frame)]
  BY FrameType DEF AnswerOnly
<1>2. cmd' \in [Pids -> Command]
  BY ReceiveType
<1> QED  BY <1>1, <1>2 DEF AnswerOnly, TypeOK, ShmTypeOK

(* The commands that end with one answer keep the types.                     *)
LEMMA RefusedType ==
  ASSUME TypeOK, NEW p \in Pids,
         \/ LoginRefused(p) \/ LoginRequired(p) \/ OtherCommand(p)
         \/ TransferRefused(p) \/ AnswerRefused(p)
  PROVE  TypeOK'
<1>1. CASE LoginRefused(p)
  BY <1>1, AnswerOnlyType DEF LoginRefused
<1>2. CASE LoginRequired(p)
  BY <1>2, AnswerOnlyType DEF LoginRequired
<1>3. CASE OtherCommand(p)
  BY <1>3, AnswerOnlyType DEF OtherCommand
<1>4. CASE TransferRefused(p)
  BY <1>4, AnswerOnlyType DEF TransferRefused
<1>5. CASE AnswerRefused(p)
  BY <1>5, AnswerOnlyType DEF AnswerRefused
<1> QED  BY <1>1, <1>2, <1>3, <1>4, <1>5

(* The steps of a login keep the types.                                      *)
LEMMA LoginType ==
  ASSUME TypeOK, NEW p \in Pids,
         handle_login(p) \/ LoginAdd(p) \/ LoginScan(p) \/ LoginNotify(p)
  PROVE  TypeOK'
<1>0. {"login_add", "login_scan", "login_notify"} \subseteq PCs
  BY DEF PCs
<1>1. CASE handle_login(p)
  <2>1. inbox' \in [Pids -> Seq(Frame)]
    BY <1>1, FrameType DEF handle_login
  <2>2. cmd' \in [Pids -> Command]
    BY <1>1, ReceiveType DEF handle_login
  <2>3. pc' \in [Pids -> PCs]
    BY <1>0, <1>1, GotoType DEF handle_login
  <2>4. user' \in [Pids -> Users \cup {NoUser}]
    BY <1>1, LocalsType DEF handle_login, TypeOK
  <2> QED  BY <1>1, <2>1, <2>2, <2>3, <2>4 DEF handle_login, TypeOK, ShmTypeOK
<1>2. CASE LoginAdd(p)
  <2>1. ShmTypeOK'
    BY <1>2, SessionAddType, LocalsType DEF LoginAdd, TypeOK
  <2>2. pc' \in [Pids -> PCs]
    BY <1>0, <1>2, GotoType DEF LoginAdd
  <2> QED  BY <1>2, <2>1, <2>2 DEF LoginAdd, TypeOK
<1>3. CASE LoginScan(p)
  <2>1. shm_requests_for_dest(user[p]) \in SUBSET [slot: Slots, id: Nat]
    <3>1. ASSUME NEW i \in 1 .. reqCount
          PROVE  i \in Slots /\ req[i].id \in Nat
      BY ShmAssumption DEF TypeOK, ShmTypeOK, transfer_request_entry_t
    <3> QED  BY <3>1 DEF shm_requests_for_dest
  <2>2. todo' \in [Pids -> SUBSET [slot: Slots, id: Nat]]
    BY <1>3, <2>1 DEF LoginScan, TypeOK
  <2>3. pc' \in [Pids -> PCs]
    BY <1>0, <1>3, GotoType DEF LoginScan
  <2> QED  BY <1>3, <2>2, <2>3 DEF LoginScan, TypeOK, ShmTypeOK
<1>4. CASE LoginNotify(p)
  <2>1. CASE Return(p) /\ UNCHANGED <<todo, fifo, announced>>
    BY <1>4, <2>1, ReturnType DEF LoginNotify, TypeOK, ShmTypeOK
  <2>2. ASSUME NEW r \in todo[p],
               notify_pid(p, "REQ", r.id, user[p]),
               announced' = IF CanNotify(p) THEN announced \cup {r.id}
                            ELSE announced,
               todo' = [todo EXCEPT ![p] = @ \ {r}],
               UNCHANGED <<pc, loc>>
        PROVE  TypeOK'
    <3>1. r.id \in Nat
      BY DEF TypeOK
    <3>2. fifo' \in [Pids -> Seq(Notification)]
      BY <2>2, <3>1, NotifyType, LocalsType
    <3>3. announced' \in SUBSET Nat
      BY <2>2, <3>1 DEF TypeOK
    <3>4. todo' \in [Pids -> SUBSET [slot: Slots, id: Nat]]
      BY <2>2 DEF TypeOK
    <3> QED  BY <1>4, <2>2, <3>2, <3>3, <3>4 DEF LoginNotify, TypeOK, ShmTypeOK
  <2> QED  BY <1>4, <2>1, <2>2 DEF LoginNotify
<1> QED  BY <1>1, <1>2, <1>3, <1>4

(* The steps of transfer_request keep the types.                             *)
LEMMA TransferType ==
  ASSUME TypeOK, NEW p \in Pids,
         TransferFind(p) \/ TransferAdd(p) \/ TransferNotify(p)
  PROVE  TypeOK'
<1>0. {"req_add", "req_notify"} \subseteq PCs
  BY DEF PCs
<1>1. CASE TransferFind(p)
  <2> DEFINE s == shm_session_find(cmd[p].to)
             l == [NoLocals EXCEPT !.peer = cmd[p].to, !.pid = s.pid,
                                   !.online = s.online]
  <2>1. s.pid \in Pids \cup {NoPid} /\ s.online \in BOOLEAN
    BY SessionFindType DEF TypeOK
  <2>2. l \in Locals
    <3> HIDE DEF s
    <3> QED  BY <2>1, LocalsType DEF NoLocals, Locals
  <2>3. loc' = [loc EXCEPT ![p] = l]
    BY <1>1, Zenon DEF TransferFind
  <2> HIDE DEF l
  <2>4. loc' \in [Pids -> Locals]
    BY <2>2, <2>3 DEF TypeOK
  <2>5. pc' \in [Pids -> PCs] /\ cmd' \in [Pids -> Command]
    BY <1>0, <1>1, GotoType, ReceiveType DEF TransferFind
  <2> QED  BY <1>1, <2>4, <2>5 DEF TransferFind, TypeOK, ShmTypeOK
<1>2. CASE TransferAdd(p)
  <2>1. CASE RequestsFull
    <3>1. /\ SendFrame(p, "RSP_ERR", 0)
          /\ Return(p)
          /\ UNCHANGED <<shmVars, waitId>>
      BY <1>2, <2>1 DEF TransferAdd
    <3>2. inbox' \in [Pids -> Seq(Frame)]
      BY <3>1, FrameType
    <3> QED  BY <1>2, <3>1, <3>2, ReturnType DEF TransferAdd, TypeOK, ShmTypeOK
  <2>2. CASE ~RequestsFull
    <3>1. ShmTypeOK'
      BY <1>2, <2>2, RequestAddType, LocalsType DEF TransferAdd, TypeOK
    <3>2. nextId \in Nat
      BY DEF TypeOK, ShmTypeOK
    <3>3. waitId' \in [Pids -> Nat]
      BY <1>2, <2>2, <3>2 DEF TransferAdd, TypeOK
    <3>4. pc' \in [Pids -> PCs] /\ loc' \in [Pids -> Locals]
      <4>1. CASE Return(p)
        BY <4>1, ReturnType
      <4>2. CASE Goto(p, "req_notify") /\ loc' = [loc EXCEPT ![p].id = nextId]
        <5>1. pc' \in [Pids -> PCs]
          BY <1>0, <4>2, GotoType
        <5>2. [loc[p] EXCEPT !.id = nextId] \in Locals
          BY <3>2 DEF TypeOK, Locals
        <5>3. loc' \in [Pids -> Locals]
          BY <4>2, <5>2 DEF TypeOK
        <5> QED  BY <5>1, <5>3
      <4> QED  BY <1>2, <2>2, <4>1, <4>2 DEF TransferAdd
    <3> QED  BY <1>2, <2>2, <3>1, <3>3, <3>4 DEF TransferAdd, TypeOK
  <2> QED  BY <2>1, <2>2
<1>3. CASE TransferNotify(p)
  <2>1. fifo' \in [Pids -> Seq(Notification)]
    BY <1>3, NotifyType, LocalsType DEF TransferNotify
  <2>2. pc' \in [Pids -> PCs] /\ loc' \in [Pids -> Locals]
    BY <1>3, ReturnType DEF TransferNotify
  <2>3. inbox' \in [Pids -> Seq(Frame)] /\ announced' \in SUBSET Nat
    BY <1>3, FrameType, LocalsType DEF TransferNotify, TypeOK
  <2> QED  BY <1>3, <2>1, <2>2, <2>3 DEF TransferNotify, TypeOK, ShmTypeOK
<1> QED  BY <1>1, <1>2, <1>3

(* Taking a request by accept or reject keeps the types.                     *)
LEMMA TakeType ==
  ASSUME TypeOK, NEW p \in Pids, AcceptTake(p) \/ RejectTake(p)
  PROVE  TypeOK'
<1> DEFINE k == Min(RequestsWithId(cmd[p].id))
           l == [NoLocals EXCEPT !.id = cmd[p].id,
                                 !.peer = req[k].source_username]
<1>1. ASSUME NEW op, NEW st \in request_status, NEW label \in PCs,
             TakeRequest(p, op, st, label)
      PROVE  TypeOK'
  <2>1. k \in Slots
    BY <1>1, RequestSlot DEF TakeRequest, CanTake, TypeOK
  <2>2. ShmTypeOK'
    BY <1>1, <2>1, RequestSetType DEF TakeRequest, shm_request_take, TypeOK
  <2>3. l \in Locals
    <3>1. req[k].source_username \in Users \cup {NoUser}
      <4> HIDE DEF k
      <4> QED  BY <2>1 DEF TypeOK, ShmTypeOK, transfer_request_entry_t
    <3> HIDE DEF k
    <3> QED  BY <3>1, LocalsType DEF NoLocals, Locals
  <2>4. loc' = [loc EXCEPT ![p] = l]
    BY <1>1, Zenon DEF TakeRequest
  <2> HIDE DEF l
  <2>5. loc' \in [Pids -> Locals]
    BY <2>3, <2>4 DEF TypeOK
  <2>6. pc' \in [Pids -> PCs] /\ cmd' \in [Pids -> Command]
    BY <1>1, GotoType, ReceiveType DEF TakeRequest
  <2> QED  BY <1>1, <2>2, <2>5, <2>6 DEF TakeRequest, TypeOK
<1>2. {"acc_find", "rej_find"} \subseteq PCs
  BY DEF PCs
<1>3. {"ACCEPTED", "REJECTED"} \subseteq request_status
  BY DEF request_status
<1> QED  BY <1>1, <1>2, <1>3 DEF AcceptTake, RejectTake

(* Looking up the sender keeps the types.                                    *)
LEMMA FindType ==
  ASSUME TypeOK, NEW p \in Pids, AcceptFind(p) \/ RejectFind(p)
  PROVE  TypeOK'
<1> DEFINE s == shm_session_find(loc[p].peer)
           l == [loc[p] EXCEPT !.pid = s.pid, !.online = s.online]
<1>1. ASSUME NEW label \in PCs, FindSource(p, label)
      PROVE  TypeOK'
  <2>1. s.pid \in Pids \cup {NoPid} /\ s.online \in BOOLEAN
    BY SessionFindType DEF TypeOK
  <2>2. l \in Locals
    <3> HIDE DEF s
    <3> QED  BY <2>1 DEF TypeOK, Locals
  <2>3. UNCHANGED <<shmVars, user, todo, fifo, cli, cmd, cleanup, waitId,
                    ghostVars>>
    BY <1>1 DEF FindSource
  <2>4. CASE SendFrame(p, "RSP_ERR", 0) /\ Return(p)
    <3>1. inbox' \in [Pids -> Seq(Frame)]
      BY <2>4, FrameType
    <3> QED  BY <2>3, <2>4, <3>1, ReturnType DEF TypeOK, ShmTypeOK
  <2>5. CASE /\ loc' = [loc EXCEPT ![p] = l]
             /\ Goto(p, label)
             /\ UNCHANGED inbox
    <3> HIDE DEF l
    <3>1. loc' \in [Pids -> Locals]
      BY <2>2, <2>5 DEF TypeOK
    <3>2. pc' \in [Pids -> PCs]
      BY <2>5, GotoType
    <3> QED  BY <2>3, <2>5, <3>1, <3>2 DEF TypeOK, ShmTypeOK
  <2> QED  BY <1>1, <2>4, <2>5, Zenon DEF FindSource
<1>2. {"acc_copy", "rej_notify"} \subseteq PCs
  BY DEF PCs
<1> QED  BY <1>1, <1>2 DEF AcceptFind, RejectFind

(* Copying the file and answering the sender keep the types.                 *)
LEMMA AnswerType ==
  ASSUME TypeOK, NEW p \in Pids,
         AcceptCopy(p) \/ AcceptSet(p) \/ AcceptNotify(p) \/ RejectNotify(p)
  PROVE  TypeOK'
<1>0. {"acc_set", "acc_notify"} \subseteq PCs
  BY DEF PCs
<1>1. CASE AcceptCopy(p)
  <2>1. ASSUME NEW b \in BOOLEAN, loc' = [loc EXCEPT ![p].ok = b]
        PROVE  loc' \in [Pids -> Locals]
    <3>1. [loc[p] EXCEPT !.ok = b] \in Locals
      BY DEF TypeOK, Locals
    <3> QED  BY <2>1, <3>1 DEF TypeOK
  <2>2. loc' \in [Pids -> Locals]
    BY <1>1, <2>1 DEF AcceptCopy
  <2>3. pc' \in [Pids -> PCs]
    BY <1>0, <1>1, GotoType DEF AcceptCopy
  <2>4. delivered' \in SUBSET Nat
    <3>1. loc[p].id \in Nat /\ delivered \in SUBSET Nat
      BY LocalsType DEF TypeOK
    <3>2. delivered' = delivered \/ delivered' = delivered \cup {loc[p].id}
      BY <1>1, Zenon DEF AcceptCopy
    <3> QED  BY <3>1, <3>2
  <2> QED  BY <1>1, <2>2, <2>3, <2>4 DEF AcceptCopy, TypeOK, ShmTypeOK
<1>2. CASE AcceptSet(p)
  <2>1. ShmTypeOK'
    <3>1. CASE RequestsWithId(loc[p].id) = {}
      BY <1>2, <3>1 DEF AcceptSet, shm_request_set, TypeOK, ShmTypeOK
    <3>2. CASE RequestsWithId(loc[p].id) # {}
      <4>1. Min(RequestsWithId(loc[p].id)) \in Slots
        BY <3>2, RequestSlot DEF TypeOK
      <4>2. "FAILED" \in request_status
        BY DEF request_status
      <4> QED  BY <1>2, <3>2, <4>1, <4>2, RequestSetType
               DEF AcceptSet, shm_request_set, TypeOK
    <3> QED  BY <3>1, <3>2
  <2>2. pc' \in [Pids -> PCs]
    BY <1>0, <1>2, GotoType DEF AcceptSet
  <2> QED  BY <1>2, <2>1, <2>2 DEF AcceptSet, TypeOK
<1>3. ASSUME NEW kind \in {"ACCEPT", "REJECT", "FAIL"}, NEW ok,
             AnswerSource(p, kind, ok)
      PROVE  TypeOK'
  <2>1. fifo' \in [Pids -> Seq(Notification)]
    <3>1. CASE UNCHANGED fifo
      BY <3>1 DEF TypeOK
    <3>2. CASE notify_pid(loc[p].pid, kind, loc[p].id, loc[p].peer)
      <4>1. /\ loc[p].id \in Nat
            /\ loc[p].peer \in Users \cup {NoUser}
            /\ loc[p].pid \in Pids \cup {NoPid}
        BY LocalsType
      <4>2. kind \in {"REQ", "ACCEPT", "REJECT", "FAIL"}
        OBVIOUS
      <4> QED  BY <3>2, <4>1, <4>2, NotifyType
    <3> QED  BY <1>3, <3>1, <3>2 DEF AnswerSource
  <2>2. inbox' \in [Pids -> Seq(Frame)]
    <3>1. SendFrame(p, "RSP_OK", 0) \/ SendFrame(p, "RSP_ERR", 0)
      BY <1>3, Zenon DEF AnswerSource
    <3> QED  BY <3>1, FrameType
  <2>3. pc' \in [Pids -> PCs] /\ loc' \in [Pids -> Locals]
    BY <1>3, ReturnType DEF AnswerSource
  <2>4. UNCHANGED <<shmVars, user, todo, cli, cmd, cleanup, waitId, ghostVars>>
    BY <1>3 DEF AnswerSource
  <2> QED  BY <2>1, <2>2, <2>3, <2>4 DEF TypeOK, ShmTypeOK
<1>4. CASE AcceptNotify(p)
  <2>1. \/ AnswerSource(p, "ACCEPT", loc[p].ok)
        \/ AnswerSource(p, "FAIL", loc[p].ok)
    BY <1>4, Zenon DEF AcceptNotify
  <2> QED  BY <1>3, <2>1
<1>5. CASE RejectNotify(p)
  BY <1>3, <1>5 DEF RejectNotify
<1> QED  BY <1>1, <1>2, <1>4, <1>5

(* Forwarding a notification, and every way a child ends, keep the types.    *)
LEMMA EndType ==
  ASSUME TypeOK, NEW p \in Pids,
         \/ ReadNotification(p) \/ Eof(p) \/ CloseFail(p) \/ CloseFifo(p)
         \/ Crash(p) \/ handle_signals(p)
  PROVE  TypeOK'
<1>0. {"dead", "close_fail", "close_fifo", "reaped"} \subseteq PCs
  BY DEF PCs
<1>00. <<>> \in Seq(Notification)
  OBVIOUS
<1>1. CASE ReadNotification(p)
  <2>1. fifo[p] \in Seq(Notification) /\ fifo[p] # <<>>
    BY <1>1 DEF ReadNotification, TypeOK
  <2>2. /\ Tail(fifo[p]) \in Seq(Notification)
        /\ Head(fifo[p]) \in Notification
    BY <2>1
  <2>3. fifo' \in [Pids -> Seq(Notification)]
    BY <1>1, <2>2 DEF ReadNotification, TypeOK
  <2> DEFINE n == Head(fifo[p])
  <2>4. n.id \in Nat
    BY <2>2 DEF Notification
  <2>5. FrameFor(n.kind) \in {"RSP_OK", "RSP_ERR", "RSP_NOTIFY"}
    BY DEF FrameFor
  <2>6. SendFrame(p, FrameFor(n.kind), n.id)
    BY <1>1 DEF ReadNotification
  <2> HIDE DEF n
  <2>7. inbox' \in [Pids -> Seq(Frame)]
    BY <2>4, <2>5, <2>6, FrameType
  <2> QED  BY <1>1, <2>3, <2>7 DEF ReadNotification, TypeOK, ShmTypeOK
<1>2. CASE Eof(p)
  <2>1. pc' \in [Pids -> PCs]
    BY <1>0, <1>2, GotoType DEF Eof
  <2>2. cmd' \in [Pids -> Command]
    BY <1>2, NoCmdType DEF Eof, TypeOK
  <2> QED  BY <1>2, <2>1, <2>2 DEF Eof, TypeOK, ShmTypeOK
<1>3. CASE CloseFail(p)
  <2>1. pc' \in [Pids -> PCs]
    BY <1>0, <1>3, GotoType DEF CloseFail
  <2>2. ShmTypeOK'
    BY <1>3, SetFailedType DEF CloseFail, TypeOK
  <2> QED  BY <1>3, <2>1, <2>2 DEF CloseFail, TypeOK
<1>4. CASE CloseFifo(p)
  <2>1. pc' \in [Pids -> PCs]
    BY <1>0, <1>4, GotoType DEF CloseFifo
  <2>2. fifo' \in [Pids -> Seq(Notification)]
    BY <1>00, <1>4 DEF CloseFifo, TypeOK
  <2> QED  BY <1>4, <2>1, <2>2 DEF CloseFifo, TypeOK, ShmTypeOK
<1>5. CASE Crash(p)
  <2>1. pc' \in [Pids -> PCs]
    BY <1>0, <1>5, GotoType DEF Crash
  <2>2. fifo' \in [Pids -> Seq(Notification)]
    BY <1>00, <1>5 DEF Crash, TypeOK
  <2>3. /\ loc' \in [Pids -> Locals]
        /\ cmd' \in [Pids -> Command]
        /\ todo' \in [Pids -> SUBSET [slot: Slots, id: Nat]]
    BY <1>5, NoLocalsType, NoCmdType DEF Crash, TypeOK
  <2> QED  BY <1>5, <2>1, <2>2, <2>3 DEF Crash, TypeOK, ShmTypeOK
<1>6. CASE handle_signals(p)
  <2>1. pc' \in [Pids -> PCs]
    BY <1>0, <1>6, GotoType DEF handle_signals
  <2> QED  BY <1>6, <2>1 DEF handle_signals, TypeOK, ShmTypeOK
<1> QED  BY <1>1, <1>2, <1>3, <1>4, <1>5, <1>6

(* Every step keeps the types.                                               *)
LEMMA NextType == TypeOK /\ [Next]_vars => TypeOK'
<1> SUFFICES ASSUME TypeOK, [Next]_vars PROVE TypeOK'
  OBVIOUS
<1>1. ASSUME NEW p \in Pids, ChildStep(p) PROVE TypeOK'
  BY <1>1, RefusedType, LoginType, TransferType, TakeType, FindType,
     AnswerType, EndType DEF ChildStep
<1>2. CASE collect_stale_sessions
  <2>1. cleanup' \in BOOLEAN
    BY <1>2 DEF collect_stale_sessions
  <2>2. ShmTypeOK'
    BY <1>2, CollectType DEF collect_stale_sessions, TypeOK
  <2> QED  BY <1>2, <2>1, <2>2 DEF collect_stale_sessions, TypeOK
<1>3. CASE UNCHANGED vars
  BY <1>3 DEF vars, TypeOK, ShmTypeOK
<1>4. CASE Next
  BY <1>1, <1>2, <1>4, ClientType, EndType DEF Next
<1> QED  BY <1>3, <1>4

(* Type correctness: in every reachable state the tables, the FIFOs, the     *)
(* sockets and the locals of the children hold values of their types, and    *)
(* the counts of the tables stay within MAX_ENTRIES.                         *)
THEOREM TypeCorrect == Spec => []TypeOK
BY InitType, NextType, PTL DEF Spec

-----------------------------------------------------------------------------
(* The inductive invariant.  Five kinds of step touch what it speaks of: a   *)
(* request is added, taken, copied, set to FAILED after a failed copy, or    *)
(* set to FAILED by the end of the sender's session.  All other steps leave  *)
(* the request table alone and at most let a child go on with the request it *)
(* holds, or let go of it.                                                   *)

(* How q may change while the table and delivered stay as they are.          *)
GoesOn(q) ==
    Holding(q)' =>
        /\ Holding(q)
        /\ loc'[q].id = loc[q].id
        /\ pc'[q] \in {"acc_find", "acc_copy", "acc_set"} =>
              pc[q] \in {"acc_find", "acc_copy", "acc_set"}

(* With empty tables and no child the invariant holds.                       *)
LEMMA InitInv == Init => TransferInv
<1> SUFFICES ASSUME Init PROVE TransferInv
  OBVIOUS
<1>1. TypeOK
  BY InitType
<1>2. reqCount = 0 /\ delivered = {} /\ UnusedZero
  BY DEF Init, setup_shmem, UnusedZero
<1>3. \A p \in Pids : pc[p] = "none"
  BY DEF Init
<1>4. HeldTaken /\ SingleTaker /\ CopyOutstanding
  BY <1>3 DEF HeldTaken, SingleTaker, CopyOutstanding, Holding
<1> QED  BY <1>1, <1>2, <1>4
         DEF TransferInv, UniqueIds, DeliveredIssued, DeliveredStaysAccepted

(* The invariant survives every step of this kind.                           *)
LEMMA GoesOnInv ==
  ASSUME TransferInv, TypeOK', UNCHANGED <<req, reqCount, nextId, delivered>>,
         \A q \in Pids : GoesOn(q)
  PROVE  TransferInv'
<1>1. HeldTaken'
  BY DEF TransferInv, HeldTaken, GoesOn
<1>2. SingleTaker'
  BY DEF TransferInv, SingleTaker, GoesOn
<1>3. CopyOutstanding'
  BY DEF TransferInv, CopyOutstanding, GoesOn, Holding
<1>4. UniqueIds' /\ UnusedZero' /\ DeliveredIssued' /\ DeliveredStaysAccepted'
  BY DEF TransferInv, UniqueIds, UnusedZero, DeliveredIssued,
         DeliveredStaysAccepted
<1> QED  BY <1>1, <1>2, <1>3, <1>4 DEF TransferInv

(* A step that leaves a child outside accept and reject, and the others      *)
(* where they are.                                                           *)
LEMMA LetsGo ==
  ASSUME TypeOK, NEW p \in Pids,
         NEW label \in PCs \ {"acc_find", "acc_copy", "acc_set", "acc_notify",
                              "rej_find", "rej_notify"},
         Goto(p, label), \A q \in Pids : q # p => loc'[q] = loc[q]
  PROVE  \A q \in Pids : GoesOn(q)
BY DEF TypeOK, Goto, GoesOn, Holding

(* A step that moves no child.                                               *)
LEMMA StaysPut ==
  ASSUME TypeOK, UNCHANGED <<pc, loc>>
  PROVE  \A q \in Pids : GoesOn(q)
BY DEF GoesOn, Holding

(* The return from dispatch.                                                 *)
LEMMA ReturnLetsGo ==
  ASSUME TypeOK, NEW p \in Pids, Return(p)
  PROVE  \A q \in Pids : GoesOn(q)
<1>1. "select" \in PCs \ {"acc_find", "acc_copy", "acc_set", "acc_notify",
                          "rej_find", "rej_notify"}
  BY DEF PCs
<1>2. \A q \in Pids : q # p => loc'[q] = loc[q]
  BY DEF Return, TypeOK
<1> QED  BY <1>1, <1>2, LetsGo DEF Return

(* The steps that leave the table and delivered alone.                       *)
LEMMA QuietInv ==
  ASSUME TransferInv, TypeOK', NEW p \in Pids,
         \/ Connect(p) \/ ClientStep(p) \/ ReadNotification(p)
         \/ LoginRefused(p) \/ LoginRequired(p) \/ OtherCommand(p)
         \/ TransferRefused(p) \/ AnswerRefused(p)
         \/ handle_login(p) \/ LoginAdd(p) \/ LoginScan(p) \/ LoginNotify(p)
         \/ TransferFind(p) \/ TransferNotify(p)
         \/ AcceptNotify(p) \/ RejectNotify(p)
         \/ Eof(p) \/ CloseFifo(p) \/ Crash(p) \/ handle_signals(p)
  PROVE  TransferInv'
<1> DEFINE Free == PCs \ {"acc_find", "acc_copy", "acc_set", "acc_notify",
                          "rej_find", "rej_notify"}
<1>0. TypeOK
  BY DEF TransferInv
<1>1. {"select", "login_add", "login_scan", "login_notify", "req_add", "dead",
       "close_fail", "reaped"} \subseteq Free
  BY DEF PCs
<1> HIDE DEF Free
<1>2. CASE ClientStep(p) \/ ReadNotification(p)
  <2>1. UNCHANGED <<req, reqCount, nextId, delivered, pc, loc>>
    BY <1>2 DEF ClientStep, Send, recv_response, ReadUnsolicited, ClientClose,
                ReadNotification
  <2> QED  BY <1>0, <2>1, StaysPut, GoesOnInv
<1>3. CASE \/ LoginRefused(p) \/ LoginRequired(p) \/ OtherCommand(p)
           \/ TransferRefused(p) \/ AnswerRefused(p)
  <2>1. UNCHANGED <<req, reqCount, nextId, delivered, pc, loc>>
    BY <1>3 DEF LoginRefused, LoginRequired, OtherCommand, TransferRefused,
                AnswerRefused, AnswerOnly
  <2> QED  BY <1>0, <2>1, StaysPut, GoesOnInv
<1>4. CASE \/ Connect(p) \/ handle_login(p) \/ LoginAdd(p) \/ LoginScan(p)
           \/ CloseFifo(p) \/ handle_signals(p) \/ Eof(p)
  <2>1. UNCHANGED <<req, reqCount, nextId, delivered, loc>>
    BY <1>4 DEF Connect, handle_login, LoginAdd, LoginScan, CloseFifo,
                handle_signals, Eof
  <2>2. \E label \in Free : Goto(p, label)
    <3>1. CASE Eof(p)
      BY <1>1, <3>1 DEF Eof
    <3>2. CASE Connect(p) \/ handle_login(p) \/ LoginAdd(p) \/ LoginScan(p)
      BY <1>1, <3>2 DEF Connect, handle_login, LoginAdd, LoginScan
    <3>3. CASE CloseFifo(p) \/ handle_signals(p)
      BY <1>1, <3>3 DEF CloseFifo, handle_signals
    <3> QED  BY <1>4, <3>1, <3>2, <3>3
  <2>3. \A q \in Pids : GoesOn(q)
    BY <1>0, <2>1, <2>2, LetsGo DEF Free
  <2> QED  BY <2>1, <2>3, GoesOnInv
<1>5. CASE LoginNotify(p)
  <2>1. UNCHANGED <<req, reqCount, nextId, delivered>>
    BY <1>5 DEF LoginNotify
  <2>2. Return(p) \/ UNCHANGED <<pc, loc>>
    BY <1>5 DEF LoginNotify
  <2> QED  BY <1>0, <2>1, <2>2, ReturnLetsGo, StaysPut, GoesOnInv
<1>6. CASE TransferFind(p)
  <2>1. UNCHANGED <<req, reqCount, nextId, delivered>> /\ Goto(p, "req_add")
    BY <1>6 DEF TransferFind
  <2>2. \A q \in Pids : q # p => loc'[q] = loc[q]
    <3>1. PICK l : loc' = [loc EXCEPT ![p] = l]
      BY <1>6 DEF TransferFind
    <3> QED  BY <1>0, <3>1 DEF TypeOK
  <2> QED  BY <1>0, <1>1, <2>1, <2>2, LetsGo, GoesOnInv DEF Free
<1>7. CASE TransferNotify(p) \/ AcceptNotify(p) \/ RejectNotify(p)
  <2>1. UNCHANGED <<req, reqCount, nextId, delivered>> /\ Return(p)
    BY <1>7 DEF TransferNotify, AcceptNotify, RejectNotify, AnswerSource
  <2> QED  BY <1>0, <2>1, ReturnLetsGo, GoesOnInv
<1>8. CASE Crash(p)
  <2>1. UNCHANGED <<req, reqCount, nextId, delivered>> /\ Goto(p, "dead")
    BY <1>8 DEF Crash
  <2>2. \A q \in Pids : q # p => loc'[q] = loc[q]
    BY <1>0, <1>8 DEF Crash, TypeOK
  <2> QED  BY <1>0, <1>1, <2>1, <2>2, LetsGo, GoesOnInv DEF Free
<1> QED  BY <1>2, <1>3, <1>4, <1>5, <1>6, <1>7, <1>8

(* The lookup of the sender, which keeps the id of the request.              *)
LEMMA FindInv ==
  ASSUME TransferInv, TypeOK', NEW p \in Pids, AcceptFind(p) \/ RejectFind(p)
  PROVE  TransferInv'
<1>0. TypeOK
  BY DEF TransferInv
<1>1. UNCHANGED <<req, reqCount, nextId, delivered>>
  BY DEF AcceptFind, RejectFind, FindSource
<1>2. CASE Return(p)
  BY <1>0, <1>1, <1>2, ReturnLetsGo, GoesOnInv
<1>3. ASSUME NEW from, NEW label,
             <<from, label>> \in {<<"acc_find", "acc_copy">>,
                                  <<"rej_find", "rej_notify">>},
             pc[p] = from, FindSource(p, label), ~Return(p)
      PROVE  TransferInv'
  <2> DEFINE s == shm_session_find(loc[p].peer)
             l == [loc[p] EXCEPT !.pid = s.pid, !.online = s.online]
  <2>1. loc' = [loc EXCEPT ![p] = l] /\ Goto(p, label)
    BY <1>3, Zenon DEF FindSource
  <2>2. l.id = loc[p].id
    <3> HIDE DEF s
    <3> QED  BY <1>0 DEF TypeOK, Locals
  <2> HIDE DEF l
  <2>3. \A q \in Pids : GoesOn(q)
    <3>1. \A q \in Pids : loc'[q].id = loc[q].id
      BY <1>0, <2>1, <2>2 DEF TypeOK
    <3>2. \A q \in Pids : q # p => pc'[q] = pc[q]
      BY <1>0, <2>1 DEF TypeOK, Goto
    <3>3. pc'[p] = label
      BY <1>0, <2>1 DEF TypeOK, Goto
    <3> QED  BY <1>3, <3>1, <3>2, <3>3 DEF GoesOn, Holding
  <2> QED  BY <1>1, <2>3, GoesOnInv
<1> QED  BY <1>2, <1>3 DEF AcceptFind, RejectFind

(* A new request gets an id that nobody holds and that was never delivered.  *)
LEMMA AddInv ==
  ASSUME TransferInv, TypeOK', NEW p \in Pids, TransferAdd(p)
  PROVE  TransferInv'
<1>0. TypeOK /\ TypeOK'
  BY DEF TransferInv
<1>1. CASE RequestsFull
  <2>1. UNCHANGED <<req, reqCount, nextId, delivered>> /\ Return(p)
    BY <1>1 DEF TransferAdd
  <2> QED  BY <1>0, <2>1, ReturnLetsGo, GoesOnInv
<1>2. CASE ~RequestsFull
  <2> DEFINE e == [id |-> nextId, source_username |-> user[p],
                   dest_username |-> loc[p].peer, status |-> "PENDING"]
  <2>1. PICK k \in Slots :
           /\ req' = [req EXCEPT ![k] = e]
           /\ nextId' = nextId + 1
           /\ \/ k \in 1 .. reqCount /\ reqCount' = reqCount
              \/ k = reqCount + 1 /\ reqCount' = reqCount + 1
    <3>1. ShmTypeOK /\ shm_request_add(user[p], loc[p].peer)
      BY <1>0, <1>2 DEF TransferAdd, TypeOK
    <3> QED  BY <3>1, RequestAddSlot
  <2>2. e.id = nextId
    OBVIOUS
  <2> HIDE DEF e
  <2>3. /\ reqCount \in Nat /\ reqCount' \in Nat
        /\ reqCount <= MAX_ENTRIES /\ MAX_ENTRIES \in Nat
        /\ nextId \in Nat
    BY <1>0, ShmAssumption DEF TypeOK, ShmTypeOK
  <2>4. /\ req'[k].id = nextId
        /\ \A i \in Slots : i # k => req'[i] = req[i]
        /\ \A i \in 1 .. reqCount' : i # k => i \in 1 .. reqCount /\ i \in Slots
        /\ \A i \in Slots : req[i].id \in Nat
    <3>1. req \in [Slots -> transfer_request_entry_t]
      BY <1>0 DEF TypeOK, ShmTypeOK
    <3>2. /\ req'[k].id = nextId
          /\ \A i \in Slots : i # k => req'[i] = req[i]
      BY <2>1, <2>2, <3>1
    <3>3. \A i \in Slots : req[i].id \in Nat
      BY <3>1 DEF transfer_request_entry_t
    <3>4. \A i \in 1 .. reqCount' : i # k => i \in 1 .. reqCount /\ i \in Slots
      BY <2>1, <2>3
    <3> QED  BY <3>2, <3>3, <3>4
  <2>5. /\ delivered' = delivered
        /\ \A q \in Pids : GoesOn(q)
    <3>1. CASE Return(p)
      BY <1>0, <1>2, <3>1, ReturnLetsGo DEF TransferAdd
    <3>2. CASE /\ Goto(p, "req_notify")
               /\ loc' = [loc EXCEPT ![p].id = nextId]
      <4>1. \A q \in Pids : q # p => loc'[q] = loc[q]
        BY <1>0, <3>2 DEF TypeOK
      <4>2. "req_notify" \in PCs \ {"acc_find", "acc_copy", "acc_set",
                                    "acc_notify", "rej_find", "rej_notify"}
        BY DEF PCs
      <4> QED  BY <1>0, <1>2, <3>2, <4>1, <4>2, LetsGo DEF TransferAdd
    <3> QED  BY <1>2, <3>1, <3>2 DEF TransferAdd
  <2>6. \A q \in Pids : loc[q].id \in Nat
    BY <1>0, LocalsType
  <2>7. UniqueIds'
    <3>1. \A i \in 1 .. reqCount' : i # k => req'[i].id < nextId
      BY <2>3, <2>4 DEF TransferInv, UniqueIds
    <3>2. \A i \in 1 .. reqCount' : req'[i].id < nextId'
      BY <2>1, <2>3, <2>4, <3>1
    <3>3. ASSUME NEW i \in 1 .. reqCount', NEW j \in 1 .. reqCount',
                 req'[i].id = req'[j].id
          PROVE  i = j
      <4>1. CASE i = k \/ j = k
        BY <2>3, <2>4, <3>1, <3>3, <4>1
      <4>2. CASE i # k /\ j # k
        BY <2>4, <3>3, <4>2 DEF TransferInv, UniqueIds
      <4> QED  BY <4>1, <4>2
    <3> QED  BY <3>2, <3>3 DEF UniqueIds
  <2>8. UnusedZero'
    <3>1. ASSUME NEW i \in Slots, i > reqCount' PROVE i # k /\ i > reqCount
      BY <2>1, <2>3, <3>1
    <3> QED  BY <2>4, <3>1 DEF TransferInv, UnusedZero
  <2>9. HeldTaken'
    <3> SUFFICES ASSUME NEW q \in Pids, Holding(q)'
                 PROVE  /\ loc'[q].id < nextId'
                        /\ \A i \in 1 .. reqCount' :
                             req'[i].id = loc'[q].id => req'[i].status # "PENDING"
      BY DEF HeldTaken
    <3>1. Holding(q) /\ loc'[q].id = loc[q].id
      BY <2>5 DEF GoesOn
    <3>2. loc[q].id < nextId
      BY <3>1 DEF TransferInv, HeldTaken
    <3>3. loc'[q].id < nextId'
      BY <2>1, <2>3, <2>6, <3>1, <3>2
    <3>4. loc[q].id # nextId
      BY <2>3, <2>6, <3>2
    <3> QED  BY <2>4, <3>1, <3>3, <3>4 DEF TransferInv, HeldTaken
  <2>10. SingleTaker'
    BY <2>5 DEF TransferInv, SingleTaker, GoesOn
  <2>11. CopyOutstanding'
    <3> SUFFICES ASSUME NEW q \in Pids, Holding(q)',
                              pc'[q] \in {"acc_find", "acc_copy", "acc_set"}
                 PROVE  /\ loc'[q].id \notin delivered'
                        /\ \A i \in 1 .. reqCount' :
                             req'[i].id = loc'[q].id => req'[i].status = "ACCEPTED"
      BY DEF CopyOutstanding, Holding
    <3>1. Holding(q) /\ loc'[q].id = loc[q].id
      BY <2>5 DEF GoesOn
    <3>2. loc[q].id < nextId
      BY <3>1 DEF TransferInv, HeldTaken
    <3>3. loc[q].id # nextId
      BY <2>3, <2>6, <3>2
    <3> QED  BY <2>4, <2>5, <3>1, <3>3 DEF TransferInv, CopyOutstanding, GoesOn
  <2>12. DeliveredIssued' /\ DeliveredStaysAccepted'
    <3>1. \A id \in delivered : id \in Nat /\ id < nextId
      BY <1>0 DEF TransferInv, DeliveredIssued, TypeOK
    <3>2. \A id \in delivered : id < nextId' /\ id # nextId
      BY <2>1, <2>3, <3>1
    <3> QED  BY <2>4, <2>5, <3>2
             DEF TransferInv, DeliveredIssued, DeliveredStaysAccepted
  <2> QED  BY <1>0, <2>7, <2>8, <2>9, <2>10, <2>11, <2>12 DEF TransferInv
<1> QED  BY <1>1, <1>2

(* A step that sets the status of the request of one slot and moves on one   *)
(* child, with what the invariant needs of the two.                          *)
LEMMA StatusStep ==
  ASSUME TransferInv, NEW k \in 1 .. reqCount, NEW st \in request_status,
         req' = [req EXCEPT ![k].status = st], UNCHANGED <<reqCount, nextId>>
  PROVE  /\ k \in Slots
         /\ \A i \in Slots : req'[i].id = req[i].id
         /\ \A i \in Slots : i # k => req'[i] = req[i]
         /\ req'[k].status = st
         /\ \A i \in 1 .. reqCount : i \in Slots
         /\ UniqueIds'
         /\ UnusedZero'
<1>0. TypeOK
  BY DEF TransferInv
<1>1. reqCount \in Nat /\ reqCount <= MAX_ENTRIES /\ MAX_ENTRIES \in Nat
  BY <1>0, ShmAssumption DEF TypeOK, ShmTypeOK
<1>2. \A i \in 1 .. reqCount : i \in Slots
  BY <1>1
<1>3. /\ \A i \in Slots : i # k => req'[i] = req[i]
      /\ req'[k] = [req[k] EXCEPT !.status = st]
  BY <1>0, <1>2 DEF TypeOK, ShmTypeOK
<1>4. req[k] \in transfer_request_entry_t
  BY <1>0, <1>2 DEF TypeOK, ShmTypeOK
<1>5. req'[k].status = st /\ req'[k].id = req[k].id
  BY <1>3, <1>4 DEF transfer_request_entry_t
<1>6. \A i \in Slots : req'[i].id = req[i].id
  BY <1>3, <1>5
<1>7. UniqueIds'
  BY <1>2, <1>6 DEF TransferInv, UniqueIds
<1>8. UnusedZero'
  <2>1. \A i \in Slots : i > reqCount => i # k
    BY <1>1
  <2> QED  BY <2>1, <1>3 DEF TransferInv, UnusedZero
<1> QED  BY <1>2, <1>3, <1>5, <1>6, <1>7, <1>8

(* Only a pending request is taken, and nobody holds a pending request.      *)
LEMMA TakeInv ==
  ASSUME TransferInv, TypeOK', NEW p \in Pids, AcceptTake(p) \/ RejectTake(p)
  PROVE  TransferInv'
<1>0. TypeOK
  BY DEF TransferInv
<1> SUFFICES ASSUME NEW op, NEW st, NEW label,
                    <<st, label>> \in {<<"ACCEPTED", "acc_find">>,
                                       <<"REJECTED", "rej_find">>},
                    TakeRequest(p, op, st, label)
             PROVE  TransferInv'
  BY DEF AcceptTake, RejectTake
<1> DEFINE id == cmd[p].id
           k == Min(RequestsWithId(id))
<1>1. k \in 1 .. reqCount /\ req[k].id = id /\ req[k].status = "PENDING"
  BY <1>0, RequestSlot DEF TakeRequest, CanTake, TypeOK
<1>2. /\ req' = [req EXCEPT ![k].status = st]
      /\ UNCHANGED <<reqCount, nextId, delivered>>
  BY DEF TakeRequest, shm_request_take
<1>3. id \in Nat
  BY <1>0, LocalsType
<1>4. /\ loc'[p].id = id
      /\ \A q \in Pids : q # p => loc'[q] = loc[q]
  <2> DEFINE l == [NoLocals EXCEPT !.id = id, !.peer = req[k].source_username]
  <2>1. loc' = [loc EXCEPT ![p] = l]
    BY Zenon DEF TakeRequest
  <2>2. l.id = id
    <3> HIDE DEF k, id
    <3> QED  BY DEF NoLocals
  <2> HIDE DEF l, id, k
  <2> QED  BY <1>0, <2>1, <2>2 DEF TypeOK
<1>5. /\ pc'[p] = label
      /\ \A q \in Pids : q # p => pc'[q] = pc[q]
  BY <1>0 DEF TakeRequest, Goto, TypeOK
<1> HIDE DEF k, id
<1>6. st \in request_status /\ st # "PENDING"
  BY DEF request_status
<1>7. /\ k \in Slots
      /\ \A i \in Slots : req'[i].id = req[i].id
      /\ \A i \in Slots : i # k => req'[i] = req[i]
      /\ req'[k].status = st
      /\ \A i \in 1 .. reqCount : i \in Slots
      /\ UniqueIds'
      /\ UnusedZero'
  BY <1>1, <1>2, <1>6, StatusStep
<1>8. /\ \A i \in 1 .. reqCount : req[i].id = id => i = k
      /\ id < nextId
      /\ id \notin delivered
  BY <1>1 DEF TransferInv, UniqueIds, DeliveredStaysAccepted
<1>9. \A q \in Pids : Holding(q) => loc[q].id # id
  BY <1>1 DEF TransferInv, HeldTaken
<1>10. HeldTaken'
  BY <1>2, <1>4, <1>5, <1>6, <1>7, <1>8 DEF TransferInv, HeldTaken, Holding
<1>11. SingleTaker'
  BY <1>4, <1>5, <1>9 DEF TransferInv, SingleTaker, Holding
<1>12. CopyOutstanding'
  BY <1>1, <1>2, <1>4, <1>5, <1>7, <1>8, <1>9
     DEF TransferInv, CopyOutstanding, Holding
<1>13. DeliveredIssued' /\ DeliveredStaysAccepted'
  BY <1>1, <1>2, <1>7, <1>8
     DEF TransferInv, DeliveredIssued, DeliveredStaysAccepted
<1> QED  BY <1>7, <1>10, <1>11, <1>12, <1>13 DEF TransferInv

(* The copy is made by the only child that holds the request.                *)
LEMMA CopyInv ==
  ASSUME TransferInv, TypeOK', NEW p \in Pids, AcceptCopy(p)
  PROVE  TransferInv'
<1>0. TypeOK
  BY DEF TransferInv
<1>1. pc[p] = "acc_copy" /\ Holding(p)
  BY DEF AcceptCopy, Holding
<1>2. UNCHANGED <<req, reqCount, nextId>>
  BY DEF AcceptCopy
<1>3. \A q \in Pids : loc'[q].id = loc[q].id
  <2>1. ASSUME NEW b \in BOOLEAN, loc' = [loc EXCEPT ![p].ok = b]
        PROVE  \A q \in Pids : loc'[q].id = loc[q].id
    BY <1>0, <2>1 DEF TypeOK, Locals
  <2> QED  BY <2>1 DEF AcceptCopy
<1>4. CASE Goto(p, "acc_set") /\ UNCHANGED delivered
  <2>1. \A q \in Pids : GoesOn(q)
    BY <1>0, <1>1, <1>3, <1>4 DEF Goto, TypeOK, GoesOn, Holding
  <2> QED  BY <1>2, <1>4, <2>1, GoesOnInv
<1>5. CASE Goto(p, "acc_notify") /\ delivered' = delivered \cup {loc[p].id}
  <2>1. pc'[p] = "acc_notify" /\ \A q \in Pids : q # p => pc'[q] = pc[q]
    BY <1>0, <1>5 DEF Goto, TypeOK
  <2>2. HeldTaken' /\ SingleTaker'
    BY <1>1, <1>2, <1>3, <2>1 DEF TransferInv, HeldTaken, SingleTaker, Holding
  <2>3. \A q \in Pids : q # p /\ Holding(q) => loc[q].id # loc[p].id
    BY <1>1 DEF TransferInv, SingleTaker
  <2>4. CopyOutstanding'
    BY <1>2, <1>3, <1>5, <2>1, <2>3 DEF TransferInv, CopyOutstanding, Holding
  <2>5. /\ loc[p].id < nextId
        /\ \A i \in 1 .. reqCount :
              req[i].id = loc[p].id => req[i].status = "ACCEPTED"
    BY <1>1 DEF TransferInv, HeldTaken, CopyOutstanding
  <2>6. DeliveredIssued' /\ DeliveredStaysAccepted'
    BY <1>2, <1>5, <2>5 DEF TransferInv, DeliveredIssued, DeliveredStaysAccepted
  <2>7. UniqueIds' /\ UnusedZero'
    BY <1>2 DEF TransferInv, UniqueIds, UnusedZero
  <2> QED  BY <2>2, <2>4, <2>6, <2>7 DEF TransferInv
<1> QED  BY <1>4, <1>5 DEF AcceptCopy

(* A failed copy: the request was not delivered and is held by nobody else.  *)
LEMMA SetInv ==
  ASSUME TransferInv, TypeOK', NEW p \in Pids, AcceptSet(p)
  PROVE  TransferInv'
<1>0. TypeOK
  BY DEF TransferInv
<1> DEFINE k == Min(RequestsWithId(loc[p].id))
<1>1. pc[p] = "acc_set" /\ Holding(p)
  BY DEF AcceptSet, Holding
<1>2. UNCHANGED <<reqCount, nextId, delivered, loc>>
  BY DEF AcceptSet, shm_request_set
<1>3. pc'[p] = "acc_notify" /\ \A q \in Pids : q # p => pc'[q] = pc[q]
  BY <1>0 DEF AcceptSet, Goto, TypeOK
<1>4. CASE RequestsWithId(loc[p].id) = {}
  <2>1. \A q \in Pids : GoesOn(q)
    BY <1>1, <1>2, <1>3 DEF GoesOn, Holding
  <2>2. req' = req
    BY <1>4 DEF AcceptSet, shm_request_set
  <2> QED  BY <1>2, <2>1, <2>2, GoesOnInv
<1>5. CASE RequestsWithId(loc[p].id) # {}
  <2>1. k \in 1 .. reqCount /\ req[k].id = loc[p].id
    BY <1>0, <1>5, RequestSlot DEF TypeOK
  <2>2. req' = [req EXCEPT ![k].status = "FAILED"]
    BY <1>5 DEF AcceptSet, shm_request_set
  <2> HIDE DEF k
  <2>3. /\ k \in Slots
        /\ \A i \in Slots : req'[i].id = req[i].id
        /\ \A i \in Slots : i # k => req'[i] = req[i]
        /\ req'[k].status = "FAILED"
        /\ \A i \in 1 .. reqCount : i \in Slots
        /\ UniqueIds'
        /\ UnusedZero'
    BY <1>2, <2>1, <2>2, StatusStep DEF request_status
  <2>4. loc[p].id \notin delivered
    BY <1>1 DEF TransferInv, CopyOutstanding
  <2>5. \A q \in Pids : q # p /\ Holding(q) => loc[q].id # loc[p].id
    BY <1>1 DEF TransferInv, SingleTaker
  <2>6. HeldTaken'
    BY <1>1, <1>2, <1>3, <2>3 DEF TransferInv, HeldTaken, Holding
  <2>7. SingleTaker'
    BY <1>1, <1>2, <1>3 DEF TransferInv, SingleTaker, Holding
  <2>8. CopyOutstanding'
    BY <1>2, <1>3, <2>1, <2>3, <2>5 DEF TransferInv, CopyOutstanding, Holding
  <2>9. DeliveredIssued' /\ DeliveredStaysAccepted'
    BY <1>2, <2>1, <2>3, <2>4
       DEF TransferInv, DeliveredIssued, DeliveredStaysAccepted
  <2> QED  BY <2>3, <2>6, <2>7, <2>8, <2>9 DEF TransferInv
<1> QED  BY <1>4, <1>5

(* The end of a session changes pending requests only.                       *)
LEMMA CloseInv ==
  ASSUME TransferInv, TypeOK', NEW p \in Pids, CloseFail(p)
  PROVE  TransferInv'
<1>0. TypeOK
  BY DEF TransferInv
<1>1. UNCHANGED <<reqCount, nextId, delivered, loc>>
  BY DEF CloseFail, shm_requests_set_failed
<1>2. \A q \in Pids : GoesOn(q)
  <2>1. "close_fifo" \in PCs \ {"acc_find", "acc_copy", "acc_set",
                                "acc_notify", "rej_find", "rej_notify"}
    BY DEF PCs
  <2> QED  BY <1>0, <1>1, <2>1, LetsGo DEF CloseFail
<1>3. \A i \in Slots :
         \/ req'[i] = req[i]
         \/ /\ i <= reqCount
            /\ req[i].status = "PENDING"
            /\ req'[i].id = req[i].id
            /\ req'[i].status = "FAILED"
  <2> SUFFICES ASSUME NEW i \in Slots, req'[i] # req[i]
               PROVE  /\ i <= reqCount
                      /\ req[i].status = "PENDING"
                      /\ req'[i].id = req[i].id
                      /\ req'[i].status = "FAILED"
    OBVIOUS
  <2>1. /\ i <= reqCount
        /\ req[i].status = "PENDING"
        /\ req'[i] = [req[i] EXCEPT !.status = "FAILED"]
    BY DEF CloseFail, shm_requests_set_failed
  <2>2. req[i] \in transfer_request_entry_t
    BY <1>0 DEF TypeOK, ShmTypeOK
  <2> QED  BY <2>1, <2>2 DEF transfer_request_entry_t
<1>4. /\ \A i \in 1 .. reqCount : i \in Slots
      /\ \A i \in Slots : i > reqCount => ~(i <= reqCount)
  <2>1. reqCount \in Nat /\ reqCount <= MAX_ENTRIES /\ MAX_ENTRIES \in Nat
    BY <1>0, ShmAssumption DEF TypeOK, ShmTypeOK
  <2> QED  BY <2>1
<1>5. UniqueIds' /\ UnusedZero'
  BY <1>1, <1>3, <1>4 DEF TransferInv, UniqueIds, UnusedZero
<1>6. HeldTaken'
  BY <1>1, <1>2, <1>3, <1>4 DEF TransferInv, HeldTaken, GoesOn
<1>7. SingleTaker'
  BY <1>1, <1>2 DEF TransferInv, SingleTaker, GoesOn
<1>8. CopyOutstanding'
  BY <1>1, <1>2, <1>3, <1>4 DEF TransferInv, CopyOutstanding, GoesOn, Holding
<1>9. DeliveredIssued' /\ DeliveredStaysAccepted'
  BY <1>1, <1>3, <1>4 DEF TransferInv, DeliveredIssued, DeliveredStaysAccepted
<1> QED  BY <1>5, <1>6, <1>7, <1>8, <1>9 DEF TransferInv

(* Every step keeps the invariant.                                           *)
LEMMA NextInv == TransferInv /\ [Next]_vars => TransferInv'
<1> SUFFICES ASSUME TransferInv, [Next]_vars PROVE TransferInv'
  OBVIOUS
<1>0. TypeOK /\ TypeOK'
  BY NextType DEF TransferInv
<1>1. ASSUME NEW p \in Pids, ChildStep(p) PROVE TransferInv'
  BY <1>0, <1>1, QuietInv, FindInv, AddInv, TakeInv, CopyInv, SetInv, CloseInv
     DEF ChildStep
<1>2. CASE collect_stale_sessions \/ UNCHANGED vars
  <2>1. UNCHANGED <<req, reqCount, nextId, delivered, pc, loc>>
    BY <1>2 DEF collect_stale_sessions, vars
  <2> QED  BY <1>0, <2>1, StaysPut, GoesOnInv
<1>3. ASSUME NEW p \in Pids,
             \/ Connect(p) \/ ClientStep(p) \/ ReadNotification(p)
             \/ Crash(p) \/ handle_signals(p)
      PROVE  TransferInv'
  BY <1>0, <1>3, QuietInv
<1> QED  BY <1>1, <1>2, <1>3 DEF Next

(* The request protocol of accept, reject and the end of a session keeps its *)
(* inductive invariant, whatever child is killed at whatever point.          *)
THEOREM RequestsConsistent == Spec => []TransferInv
BY InitInv, NextInv, PTL DEF Spec

(* shm_request_add never gives out an id that is in the table, so an id      *)
(* names one request even after its slot was reused.                         *)
THEOREM IdsUnique == Spec => []UniqueIds
<1>1. TransferInv => UniqueIds
  BY DEF TransferInv
<1> QED  BY <1>1, RequestsConsistent, PTL

(* Only one session at a time accepts or rejects a request.                  *)
THEOREM OneTaker == Spec => []SingleTaker
<1>1. TransferInv => SingleTaker
  BY DEF TransferInv
<1> QED  BY <1>1, RequestsConsistent, PTL

(* A request whose file was copied is never recorded as failed or rejected.  *)
THEOREM DeliveredAccepted == Spec => []DeliveredStaysAccepted
<1>1. TransferInv => DeliveredStaysAccepted
  BY DEF TransferInv
<1> QED  BY <1>1, RequestsConsistent, PTL

-----------------------------------------------------------------------------
(* The life of a slot of the request table.                                  *)

(* Every step changes every slot of the request table as SlotStep allows.    *)
LEMMA SlotSteps == TransferInv /\ Next => \A i \in Slots : SlotStep(i)
<1> SUFFICES ASSUME TransferInv, Next, NEW i \in Slots PROVE SlotStep(i)
  OBVIOUS
<1>0. TypeOK
  BY DEF TransferInv
<1>1. CASE req' = req
  BY <1>1 DEF SlotStep
<1>2. ASSUME NEW p \in Pids, TransferAdd(p), ~RequestsFull PROVE SlotStep(i)
  <2> DEFINE e == [id |-> nextId, source_username |-> user[p],
                   dest_username |-> loc[p].peer, status |-> "PENDING"]
  <2>1. PICK k \in Slots :
           /\ req' = [req EXCEPT ![k] = e]
           /\ \/ k \in 1 .. reqCount /\ req[k].status # "PENDING"
              \/ k = reqCount + 1
    BY <1>0, <1>2, RequestAddSlot DEF TransferAdd, TypeOK
  <2>2. e.id = nextId
    OBVIOUS
  <2> HIDE DEF e
  <2>3. nextId \in Nat \ {0} /\ reqCount \in Nat
    BY <1>0, ShmAssumption DEF TypeOK, ShmTypeOK
  <2>4. i # k => req'[i] = req[i]
    BY <1>0, <2>1 DEF TypeOK, ShmTypeOK
  <2>5. req'[k].id = nextId
    BY <1>0, <2>1, <2>2 DEF TypeOK, ShmTypeOK
  <2>6. CASE k \in 1 .. reqCount /\ req[k].status # "PENDING"
    <3>1. req[k].id < nextId /\ req[k].id \in Nat
      BY <1>0, <2>6
         DEF TransferInv, UniqueIds, TypeOK, ShmTypeOK, transfer_request_entry_t
    <3>2. req'[k].id > req[k].id
      BY <2>3, <2>5, <3>1
    <3> QED  BY <2>4, <2>6, <3>2 DEF SlotStep
  <2>7. CASE k = reqCount + 1
    <3>1. req[k].id = 0
      <4>1. k > reqCount
        BY <2>3, <2>7
      <4> QED  BY <4>1 DEF TransferInv, UnusedZero, ZeroRequest
    <3>2. req'[k].id > req[k].id
      BY <2>3, <2>5, <3>1
    <3> QED  BY <2>4, <3>1, <3>2 DEF SlotStep
  <2> QED  BY <2>1, <2>6, <2>7
<1>3. ASSUME NEW p \in Pids, AcceptTake(p) \/ RejectTake(p) PROVE SlotStep(i)
  <2>1. PICK op, st, label : TakeRequest(p, op, st, label)
    BY <1>3 DEF AcceptTake, RejectTake
  <2> DEFINE k == Min(RequestsWithId(cmd[p].id))
  <2>2. k \in Slots /\ req[k].status = "PENDING"
    BY <1>0, <2>1, RequestSlot DEF TakeRequest, CanTake, TypeOK
  <2>3. req' = [req EXCEPT ![k].status = st]
    BY <2>1 DEF TakeRequest, shm_request_take
  <2> HIDE DEF k
  <2>4. req[k] \in transfer_request_entry_t
    BY <1>0, <2>2 DEF TypeOK, ShmTypeOK
  <2>5. req'[i] = req[i] \/ (i = k /\ req'[i].id = req[i].id)
    BY <1>0, <2>2, <2>3, <2>4 DEF TypeOK, ShmTypeOK, transfer_request_entry_t
  <2> QED  BY <2>2, <2>5 DEF SlotStep
<1>4. ASSUME NEW p \in Pids, AcceptSet(p), RequestsWithId(loc[p].id) # {}
      PROVE  SlotStep(i)
  <2> DEFINE k == Min(RequestsWithId(loc[p].id))
  <2>1. k \in 1 .. reqCount /\ k \in Slots /\ req[k].id = loc[p].id
    BY <1>0, <1>4, RequestSlot DEF TypeOK
  <2>2. req' = [req EXCEPT ![k].status = "FAILED"]
    BY <1>4 DEF AcceptSet, shm_request_set
  <2> HIDE DEF k
  <2>3. pc[p] = "acc_set" /\ Holding(p)
    BY <1>4 DEF AcceptSet, Holding
  <2>4. req[k].id \notin delivered
    BY <2>1, <2>3 DEF TransferInv, CopyOutstanding
  <2>5. req[k].status = "ACCEPTED"
    BY <2>1, <2>3 DEF TransferInv, CopyOutstanding
  <2>6. req[k] \in transfer_request_entry_t
    BY <1>0, <2>1 DEF TypeOK, ShmTypeOK
  <2>7. \/ req'[i] = req[i]
        \/ i = k /\ req'[i].id = req[i].id /\ req'[i].status = "FAILED"
    BY <1>0, <2>1, <2>2, <2>6 DEF TypeOK, ShmTypeOK, transfer_request_entry_t
  <2> QED  BY <2>4, <2>5, <2>7 DEF SlotStep
<1>5. ASSUME NEW p \in Pids, CloseFail(p) PROVE SlotStep(i)
  <2>1. \/ req'[i] = req[i]
        \/ /\ req[i].status = "PENDING"
           /\ req'[i] = [req[i] EXCEPT !.status = "FAILED"]
    BY <1>5 DEF CloseFail, shm_requests_set_failed
  <2>2. req[i] \in transfer_request_entry_t
    BY <1>0 DEF TypeOK, ShmTypeOK
  <2> QED  BY <2>1, <2>2 DEF SlotStep, transfer_request_entry_t
<1>6. ASSUME NEW p \in Pids, ChildStep(p) PROVE SlotStep(i)
  <2>1. CASE \/ LoginRefused(p) \/ handle_login(p)
             \/ LoginAdd(p) \/ LoginScan(p) \/ LoginNotify(p)
             \/ LoginRequired(p) \/ OtherCommand(p)
             \/ TransferRefused(p) \/ TransferFind(p) \/ TransferNotify(p)
    BY <1>1, <2>1 DEF LoginRefused, handle_login, LoginAdd, LoginScan,
       LoginNotify, LoginRequired, OtherCommand, TransferRefused, TransferFind,
       TransferNotify, AnswerOnly
  <2>2. CASE \/ AnswerRefused(p) \/ AcceptFind(p) \/ AcceptCopy(p)
             \/ AcceptNotify(p) \/ RejectFind(p) \/ RejectNotify(p)
             \/ Eof(p) \/ CloseFifo(p)
    BY <1>1, <2>2 DEF AnswerRefused, AnswerOnly, AcceptFind, AcceptCopy,
       AcceptNotify, RejectFind, RejectNotify, FindSource, AnswerSource, Eof,
       CloseFifo
  <2>3. CASE TransferAdd(p)
    BY <1>1, <1>2, <2>3 DEF TransferAdd
  <2>4. CASE AcceptSet(p)
    BY <1>1, <1>4, <2>4 DEF AcceptSet, shm_request_set
  <2> QED  BY <1>3, <1>5, <1>6, <2>1, <2>2, <2>3, <2>4 DEF ChildStep
<1>7. ASSUME NEW p \in Pids,
             \/ Connect(p) \/ ClientStep(p) \/ ReadNotification(p)
             \/ Crash(p) \/ handle_signals(p)
      PROVE  req' = req
  BY <1>7 DEF Connect, ClientStep, Send, recv_response, ReadUnsolicited,
     ClientClose, ReadNotification, Crash, handle_signals
<1>8. collect_stale_sessions => req' = req
  BY DEF collect_stale_sessions
<1> QED  BY <1>1, <1>6, <1>7, <1>8 DEF Next

(* The life of a request: it leaves PENDING once, an accepted one may turn   *)
(* FAILED only while nothing was copied, and its slot is given away only     *)
(* when it is settled, to a request with a larger id.                        *)
THEOREM RequestLifeHolds == Spec => RequestLife
<1>1. TransferInv /\ [Next]_vars => [\A i \in Slots : SlotStep(i)]_vars
  BY SlotSteps
<1> QED  BY <1>1, RequestsConsistent, PTL DEF Spec, RequestLife
=============================================================================
