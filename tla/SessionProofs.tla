---------------------------- MODULE SessionProofs ----------------------------
(***************************************************************************)
(* What holds between a session and the tables: every notification reaches *)
(* a session of the user it is meant for, a request stays pending only     *)
(* while a session of its sender is open, and a session keeps its entry in *)
(* the table as long as it lives; and what follows for the clients: their  *)
(* FIFOs have room, a sender that waits has an answer to come, and no      *)
(* other command is left without one.                                      *)
(***************************************************************************)
EXTENDS TransferProofs, FiniteSetTheorems

USE DEF Slots, shmVars, sessVars, reqVars, childVars, clientVars, ghostVars

-----------------------------------------------------------------------------
(* Notifications.  notify_pid is given a pid that was looked up in an earlier *)
(* critical section, and that session may have ended, or been killed, since. *)

(* The child q serves the user u.                                            *)
Serves(q, u) == q \in Pids /\ user[q] # NoUser /\ user[q] = u

(* A login names a user, and a child that records its session has one.       *)
LoginsNamed ==
    /\ \A p \in Pids : cmd[p].op = "login" => cmd[p].to \in Users
    /\ \A p \in Pids : pc[p] = "login_add" => user[p] # NoUser

(* An entry in use pairs a pid with the user that it serves or has served.   *)
SessionsRight ==
    \A i \in Slots : sess[i].in_use => Serves(sess[i].pid, sess[i].username)

(* What a child remembers of a lookup stays right after the semaphore is     *)
(* released.                                                                 *)
LookupsRight ==
    /\ \A p \in Pids : loc[p].online => Serves(loc[p].pid, loc[p].peer)
    /\ \A p \in Pids : pc[p] = "req_notify" => loc[p].online

(* There is no FIFO before the login.                                        *)
FifoAfterLogin == \A p \in Pids : user[p] = NoUser => fifo[p] = <<>>

(* The inductive invariant behind FifoRightUser.                             *)
AddressInv ==
    /\ TypeOK
    /\ LoginsNamed
    /\ SessionsRight
    /\ LookupsRight
    /\ FifoAfterLogin
    /\ FifoRightUser


(* Nobody is logged in, and the tables and FIFOs are empty.                  *)
LEMMA AddressInit == Init => AddressInv
<1> SUFFICES ASSUME Init PROVE AddressInv
  OBVIOUS
<1>1. TypeOK
  BY InitType
<1>2. LoginsNamed
  BY DEF Init, LoginsNamed, NoCmd
<1>3. SessionsRight
  BY DEF Init, setup_shmem, SessionsRight, FreeSession
<1>4. LookupsRight
  BY DEF Init, LookupsRight, NoLocals
<1>5. FifoAfterLogin /\ FifoRightUser
  BY DEF Init, FifoAfterLogin, FifoRightUser
<1> QED  BY <1>1, <1>2, <1>3, <1>4, <1>5 DEF AddressInv

-----------------------------------------------------------------------------
(* What a step may do to the variables of the invariant. *)

(* The socket of q carries what it did, or something else than a login, or   *)
(* the login of a user.                                                      *)
CmdStep(q) == cmd'[q] = cmd[q] \/ (cmd'[q].op = "login" => cmd'[q].to \in Users)

(* q keeps its user and does not begin to record a session.                  *)
UserStep(q) ==
    /\ user'[q] = user[q]
    /\ pc'[q] = "login_add" => pc[q] = "login_add"

(* q keeps the result of its lookup, or drops it.                            *)
LookupStep(q) ==
    \/ ~loc'[q].online /\ pc'[q] # "req_notify"
    \/ /\ loc'[q].online = loc[q].online
       /\ loc'[q].pid = loc[q].pid
       /\ loc'[q].peer = loc[q].peer
       /\ pc'[q] = "req_notify" => pc[q] = "req_notify" \/ loc[q].online

(* The FIFO of q loses its first line, or everything.                        *)
FifoStep(q) ==
    \/ fifo'[q] = fifo[q]
    \/ fifo'[q] = <<>>
    \/ fifo[q] # <<>> /\ fifo'[q] = Tail(fifo[q])

(* A user, once set, is kept: what was right of the past stays right.        *)
LEMMA ServesKept ==
  ASSUME \A q \in Pids : user[q] # NoUser => user'[q] = user[q], NEW q, NEW u,
         Serves(q, u)
  PROVE  Serves(q, u)'
BY DEF Serves

(* Lookups that are kept or dropped stay right.                              *)
LEMMA LookupsKept ==
  ASSUME LookupsRight, \A q \in Pids : user[q] # NoUser => user'[q] = user[q],
         \A q \in Pids : LookupStep(q)
  PROVE  LookupsRight'
BY ServesKept DEF LookupsRight, LookupStep, Serves

(* A FIFO that only shrinks holds no line for somebody else.                 *)
LEMMA FifosKept ==
  ASSUME AddressInv, UNCHANGED user, \A q \in Pids : FifoStep(q)
  PROVE  FifoAfterLogin' /\ FifoRightUser'
<1> SUFFICES ASSUME NEW q \in Pids
             PROVE  /\ user[q] = NoUser => fifo'[q] = <<>>
                    /\ \A n \in 1 .. Len(fifo'[q]) : fifo'[q][n].to = user[q]
  BY DEF FifoAfterLogin, FifoRightUser
<1>1. /\ fifo[q] \in Seq(Notification)
      /\ user[q] = NoUser => fifo[q] = <<>>
      /\ \A n \in 1 .. Len(fifo[q]) : fifo[q][n].to = user[q]
  BY DEF AddressInv, TypeOK, FifoAfterLogin, FifoRightUser
<1>2. CASE fifo'[q] = fifo[q] \/ fifo'[q] = <<>>
  BY <1>1, <1>2 DEF FifoStep
<1>3. CASE fifo[q] # <<>> /\ fifo'[q] = Tail(fifo[q])
  <2>1. /\ Len(fifo'[q]) = Len(fifo[q]) - 1
        /\ Len(fifo[q]) \in Nat
        /\ \A n \in 1 .. Len(fifo'[q]) : fifo'[q][n] = fifo[q][n + 1]
    BY <1>1, <1>3
  <2> QED  BY <1>1, <1>3, <2>1
<1> QED  BY <1>2, <1>3 DEF FifoStep

(* notify_pid adds a line for u to the FIFO of q, which serves u, or fails.  *)
LEMMA FifoNotified ==
  ASSUME AddressInv, UNCHANGED user, NEW q, NEW u, NEW kind, NEW id,
         q \in Pids => Serves(q, u),
         notify_pid(q, kind, id, u)
  PROVE  FifoAfterLogin' /\ FifoRightUser'
<1> DEFINE n == [kind |-> kind, id |-> id, to |-> u]
<1>1. CASE ~CanNotify(q)
  BY <1>1 DEF notify_pid, AddressInv, FifoAfterLogin, FifoRightUser
<1>2. CASE CanNotify(q)
  <2>1. /\ q \in Pids
        /\ user[q] = u
        /\ u # NoUser
        /\ fifo' = [fifo EXCEPT ![q] = Append(@, n)]
    BY <1>2 DEF notify_pid, CanNotify, FifoOpen, Serves
  <2>2. n.to = u
    OBVIOUS
  <2> HIDE DEF n
  <2>3. /\ fifo \in [Pids -> Seq(Notification)]
        /\ fifo[q] \in Seq(Notification)
    BY <2>1 DEF AddressInv, TypeOK
  <2>4. /\ fifo'[q] = Append(fifo[q], n)
        /\ \A r \in Pids : r # q => fifo'[r] = fifo[r]
    BY <2>1, <2>3
  <2>5. \A m \in 1 .. Len(fifo[q]) : fifo[q][m].to = u
    BY <2>1 DEF AddressInv, FifoRightUser
  <2>6. \A m \in 1 .. Len(fifo'[q]) : fifo'[q][m].to = u
    BY <2>2, <2>3, <2>4, <2>5
  <2> QED  BY <2>1, <2>4, <2>6 DEF AddressInv, FifoAfterLogin, FifoRightUser
<1> QED  BY <1>1, <1>2

(* A step that keeps users, sessions and lookups, and writes to no FIFO.     *)
LEMMA AddressFrame ==
  ASSUME AddressInv, TypeOK', UNCHANGED sess,
         \A q \in Pids : CmdStep(q) /\ UserStep(q) /\ LookupStep(q),
         FifoAfterLogin' /\ FifoRightUser'
  PROVE  AddressInv'
<1>1. LoginsNamed'
  BY DEF AddressInv, LoginsNamed, CmdStep, UserStep
<1>2. \A q \in Pids : user[q] # NoUser => user'[q] = user[q]
  BY DEF UserStep
<1>3. SessionsRight'
  BY <1>2, ServesKept DEF AddressInv, SessionsRight
<1>4. LookupsRight'
  BY <1>2, LookupsKept DEF AddressInv
<1> QED  BY <1>1, <1>3, <1>4 DEF AddressInv

(* A step of p alone: it goes to label and drops or keeps its lookup.        *)
LEMMA AddressMove ==
  ASSUME AddressInv, TypeOK', NEW p \in Pids,
         NEW label \in PCs \ {"login_add", "req_notify"},
         Goto(p, label), UNCHANGED <<user, sess>>,
         cmd' = cmd \/ cmd' = [cmd EXCEPT ![p] = NoCmd],
         \A q \in Pids : q # p => loc'[q] = loc[q],
         ~loc'[p].online \/ loc'[p] = [loc[p] EXCEPT !.ok = loc'[p].ok],
         FifoAfterLogin' /\ FifoRightUser'
  PROVE  AddressInv'
<1>0. TypeOK
  BY DEF AddressInv
<1>1. pc'[p] = label /\ \A q \in Pids : q # p => pc'[q] = pc[q]
  BY <1>0 DEF TypeOK, Goto
<1>2. \A q \in Pids : CmdStep(q)
  BY <1>0 DEF TypeOK, CmdStep, NoCmd
<1>3. \A q \in Pids : UserStep(q)
  BY <1>1 DEF UserStep
<1>4. LookupStep(p)
  <2>1. loc[p] \in Locals
    BY <1>0 DEF TypeOK
  <2>2. CASE loc'[p] = [loc[p] EXCEPT !.ok = loc'[p].ok]
    <3>1. /\ loc'[p].online = loc[p].online
          /\ loc'[p].pid = loc[p].pid
          /\ loc'[p].peer = loc[p].peer
      BY <2>1, <2>2 DEF Locals
    <3> QED  BY <1>1, <3>1 DEF LookupStep
  <2> QED  BY <1>1, <2>2 DEF LookupStep
<1>5. \A q \in Pids : LookupStep(q)
  BY <1>1, <1>4 DEF LookupStep
<1> QED  BY <1>2, <1>3, <1>5, AddressFrame

(* A step that moves no child.                                               *)
LEMMA AddressStay ==
  ASSUME AddressInv, TypeOK', UNCHANGED <<pc, loc, user, sess>>,
         \A q \in Pids : CmdStep(q) /\ FifoStep(q)
  PROVE  AddressInv'
<1>1. \A q \in Pids : UserStep(q) /\ LookupStep(q)
  BY DEF UserStep, LookupStep
<1>2. FifoAfterLogin' /\ FifoRightUser'
  BY FifosKept
<1> QED  BY <1>1, <1>2, AddressFrame

-----------------------------------------------------------------------------
(* The actions. *)

(* Clients, refused and simple commands, and lines taken from the FIFO.      *)
LEMMA AddressOutside ==
  ASSUME AddressInv, TypeOK', NEW p \in Pids,
         \/ ClientStep(p) \/ ReadNotification(p)
         \/ LoginRefused(p) \/ LoginRequired(p) \/ OtherCommand(p)
         \/ TransferRefused(p) \/ AnswerRefused(p)
  PROVE  AddressInv'
<1>0. TypeOK
  BY DEF AddressInv
<1>1. CASE ClientStep(p)
  <2>1. CASE \E c \in Commands(p) : Send(p, c)
    <3>1. PICK c \in Commands(p) : Send(p, c)
      BY <2>1
    <3>2. c.op = "login" => c.to \in Users
      BY TransferAssumption DEF Commands, Login, Transfer, Accept, Reject, Other
    <3>3. UNCHANGED <<pc, loc, user, sess, fifo>> /\ cmd' = [cmd EXCEPT ![p] = c]
      BY <3>1 DEF Send
    <3>4. \A q \in Pids : CmdStep(q) /\ FifoStep(q)
      BY <1>0, <3>2, <3>3 DEF TypeOK, CmdStep, FifoStep
    <3> QED  BY <3>3, <3>4, AddressStay
  <2>2. CASE recv_response(p) \/ ReadUnsolicited(p) \/ ClientClose(p)
    <3>1. UNCHANGED <<pc, loc, user, sess, fifo, cmd>>
      BY <2>2 DEF recv_response, ReadUnsolicited, ClientClose
    <3> QED  BY <3>1, AddressStay DEF CmdStep, FifoStep
  <2> QED  BY <1>1, <2>1, <2>2 DEF ClientStep
<1>2. CASE ReadNotification(p)
  <2>1. /\ UNCHANGED <<pc, loc, user, sess, cmd>>
        /\ fifo[p] # <<>>
        /\ fifo' = [fifo EXCEPT ![p] = Tail(@)]
    BY <1>2 DEF ReadNotification
  <2>2. \A q \in Pids : CmdStep(q) /\ FifoStep(q)
    BY <1>0, <2>1 DEF TypeOK, CmdStep, FifoStep
  <2> QED  BY <2>1, <2>2, AddressStay
<1>3. CASE \/ LoginRefused(p) \/ LoginRequired(p) \/ OtherCommand(p)
           \/ TransferRefused(p) \/ AnswerRefused(p)
  <2>1. /\ UNCHANGED <<pc, loc, user, sess, fifo>>
        /\ cmd' = [cmd EXCEPT ![p] = NoCmd]
    BY <1>3 DEF LoginRefused, LoginRequired, OtherCommand, TransferRefused,
                AnswerRefused, AnswerOnly, Receive
  <2>2. \A q \in Pids : CmdStep(q) /\ FifoStep(q)
    BY <1>0, <2>1 DEF TypeOK, CmdStep, FifoStep, NoCmd
  <2> QED  BY <2>1, <2>2, AddressStay
<1> QED  BY <1>1, <1>2, <1>3
(* The steps that move a child along and look nobody up.                     *)
LEMMA AddressQuiet ==
  ASSUME AddressInv, TypeOK', NEW p \in Pids,
         \/ Connect(p) \/ AcceptCopy(p) \/ AcceptSet(p) \/ AcceptTake(p)
         \/ RejectTake(p) \/ Eof(p) \/ CloseFail(p) \/ CloseFifo(p)
         \/ Crash(p) \/ handle_signals(p) \/ LoginScan(p)
  PROVE  AddressInv'
<1>0. /\ TypeOK
      /\ {"select", "login_notify", "acc_find", "rej_find", "acc_notify",
          "acc_set", "dead", "close_fail", "close_fifo", "reaped"}
            \subseteq PCs \ {"login_add", "req_notify"}
  BY DEF AddressInv, PCs
<1>1. CASE \/ Connect(p) \/ AcceptSet(p) \/ Eof(p) \/ CloseFail(p)
           \/ handle_signals(p) \/ LoginScan(p)
  <2>1. /\ UNCHANGED <<user, sess, loc, fifo>>
        /\ cmd' = cmd \/ cmd' = [cmd EXCEPT ![p] = NoCmd]
    BY <1>1 DEF Connect, AcceptSet, Eof, CloseFail, handle_signals, LoginScan
  <2>2. \/ Goto(p, "select") \/ Goto(p, "acc_notify") \/ Goto(p, "dead")
        \/ Goto(p, "close_fail") \/ Goto(p, "close_fifo")
        \/ Goto(p, "reaped") \/ Goto(p, "login_notify")
    BY <1>1 DEF Connect, AcceptSet, Eof, CloseFail, handle_signals, LoginScan
  <2>3. loc'[p] = [loc[p] EXCEPT !.ok = loc'[p].ok]
    BY <1>0, <2>1 DEF TypeOK, Locals
  <2>4. FifoAfterLogin' /\ FifoRightUser'
    BY <2>1, FifosKept DEF FifoStep
  <2> QED  BY <1>0, <2>1, <2>2, <2>3, <2>4, AddressMove
<1>2. CASE AcceptCopy(p)
  <2>1. /\ UNCHANGED <<user, sess, fifo, cmd>>
        /\ \E b \in BOOLEAN : loc' = [loc EXCEPT ![p].ok = b]
        /\ Goto(p, "acc_notify") \/ Goto(p, "acc_set")
    BY <1>2 DEF AcceptCopy
  <2>2. PICK b \in BOOLEAN : loc' = [loc EXCEPT ![p].ok = b]
    BY <2>1
  <2>3. /\ \A q \in Pids : q # p => loc'[q] = loc[q]
        /\ loc'[p] = [loc[p] EXCEPT !.ok = b]
    BY <1>0, <2>2 DEF TypeOK
  <2>4. loc'[p] = [loc[p] EXCEPT !.ok = loc'[p].ok]
    BY <1>0, <2>3 DEF TypeOK, Locals
  <2>5. FifoAfterLogin' /\ FifoRightUser'
    BY <2>1, FifosKept DEF FifoStep
  <2> QED  BY <1>0, <2>1, <2>3, <2>4, <2>5, AddressMove
<1>3. CASE AcceptTake(p) \/ RejectTake(p)
  <2> DEFINE l == [NoLocals EXCEPT !.id = cmd[p].id,
                !.peer = req[Min(RequestsWithId(cmd[p].id))].source_username]
  <2>1. /\ UNCHANGED <<user, sess, fifo>>
        /\ cmd' = [cmd EXCEPT ![p] = NoCmd]
        /\ loc' = [loc EXCEPT ![p] = l]
        /\ Goto(p, "acc_find") \/ Goto(p, "rej_find")
    BY <1>3 DEF AcceptTake, RejectTake, TakeRequest, Receive
  <2>2. ~l.online
    BY DEF NoLocals
  <2> HIDE DEF l
  <2>3. /\ \A q \in Pids : q # p => loc'[q] = loc[q]
        /\ ~loc'[p].online
    BY <1>0, <2>1, <2>2 DEF TypeOK
  <2>4. FifoAfterLogin' /\ FifoRightUser'
    BY <2>1, FifosKept DEF FifoStep
  <2> QED  BY <1>0, <2>1, <2>3, <2>4, AddressMove
<1>4. CASE CloseFifo(p) \/ Crash(p)
  <2>1. /\ UNCHANGED <<user, sess>>
        /\ cmd' = cmd \/ cmd' = [cmd EXCEPT ![p] = NoCmd]
        /\ loc' = loc \/ loc' = [loc EXCEPT ![p] = NoLocals]
        /\ fifo' = [fifo EXCEPT ![p] = <<>>]
        /\ Goto(p, "dead")
    BY <1>4 DEF CloseFifo, Crash
  <2>2. /\ \A q \in Pids : q # p => loc'[q] = loc[q]
        /\ ~loc'[p].online \/ loc'[p] = [loc[p] EXCEPT !.ok = loc'[p].ok]
    BY <1>0, <2>1 DEF TypeOK, Locals, NoLocals
  <2>3. \A q \in Pids : FifoStep(q)
    BY <1>0, <2>1 DEF TypeOK, FifoStep
  <2>4. FifoAfterLogin' /\ FifoRightUser'
    BY <2>1, <2>3, FifosKept
  <2> QED  BY <1>0, <2>1, <2>2, <2>4, AddressMove
<1> QED  BY <1>1, <1>2, <1>3, <1>4

(* The child that returns from dispatch forgets its lookup.                  *)
LEMMA AddressReturn ==
  ASSUME AddressInv, TypeOK', NEW p \in Pids, Return(p),
         UNCHANGED <<user, sess, cmd>>, FifoAfterLogin' /\ FifoRightUser'
  PROVE  AddressInv'
<1>0. TypeOK /\ "select" \in PCs \ {"login_add", "req_notify"}
  BY DEF AddressInv, PCs
<1>1. /\ \A q \in Pids : q # p => loc'[q] = loc[q]
      /\ ~loc'[p].online
      /\ Goto(p, "select")
  BY <1>0 DEF TypeOK, Return, NoLocals
<1> QED  BY <1>0, <1>1, AddressMove

(* The three places that call notify_pid: the pid of a lookup still serves   *)
(* the user that was looked up.                                              *)
LEMMA AddressNotify ==
  ASSUME AddressInv, TypeOK', NEW p \in Pids,
         \/ TransferNotify(p) \/ AcceptNotify(p) \/ RejectNotify(p)
  PROVE  AddressInv'
<1>1. loc[p].online => Serves(loc[p].pid, loc[p].peer)
  BY DEF AddressInv, LookupsRight
<1>2. UNCHANGED <<user, sess, cmd>> /\ Return(p)
  BY DEF TransferNotify, AcceptNotify, RejectNotify, AnswerSource
<1>3. FifoAfterLogin' /\ FifoRightUser'
  <2>1. CASE TransferNotify(p)
    <3>1. Serves(loc[p].pid, loc[p].peer)
      BY <1>1, <2>1 DEF AddressInv, LookupsRight, TransferNotify
    <3>2. notify_pid(loc[p].pid, "REQ", loc[p].id, loc[p].peer)
      BY <2>1 DEF TransferNotify
    <3> QED  BY <1>2, <3>1, <3>2, FifoNotified
  <2>2. CASE AcceptNotify(p) \/ RejectNotify(p)
    <3>1. CASE loc[p].online
      <4>1. \E kind \in {"ACCEPT", "FAIL", "REJECT"} :
               notify_pid(loc[p].pid, kind, loc[p].id, loc[p].peer)
        BY <2>2, <3>1 DEF AcceptNotify, RejectNotify, AnswerSource
      <4> QED  BY <1>1, <1>2, <3>1, <4>1, FifoNotified
    <3>2. CASE ~loc[p].online
      <4>1. UNCHANGED fifo
        BY <2>2, <3>2 DEF AcceptNotify, RejectNotify, AnswerSource
      <4> QED  BY <1>2, <4>1, FifosKept DEF FifoStep
    <3> QED  BY <3>1, <3>2
  <2> QED  BY <2>1, <2>2
<1> QED  BY <1>2, <1>3, AddressReturn

(* shm_session_find: an online answer names a pid that serves the user.      *)
LEMMA FindRight ==
  ASSUME TypeOK, SessionsRight, NEW u, shm_session_find(u).online
  PROVE  Serves(shm_session_find(u).pid, u)
<1>1. SessionsOf(u) # {}
  BY DEF shm_session_find, NotFound
<1> DEFINE k == Min(SessionsOf(u))
<1>2. sessCount \in Nat /\ sessCount <= MAX_ENTRIES /\ MAX_ENTRIES \in Nat
  BY ShmAssumption DEF TypeOK, ShmTypeOK
<1>3. SessionsOf(u) \in SUBSET Nat /\ SessionsOf(u) \subseteq Slots
  BY <1>2 DEF SessionsOf
<1>4. k \in SessionsOf(u)
  BY <1>1, <1>3, MinIn
<1>5. k \in Slots /\ sess[k].username = u
  BY <1>3, <1>4 DEF SessionsOf
<1> HIDE DEF k
<1>6. shm_session_find(u) = [found |-> TRUE, pid |-> sess[k].pid,
                             online |-> sess[k].in_use]
  BY <1>1 DEF shm_session_find, k
<1> QED  BY <1>5, <1>6 DEF SessionsRight
(* The lookups of transfer_request, accept and reject.                       *)
LEMMA AddressFind ==
  ASSUME AddressInv, TypeOK', NEW p \in Pids,
         TransferFind(p) \/ AcceptFind(p) \/ RejectFind(p)
  PROVE  AddressInv'
<1>0. TypeOK /\ SessionsRight
  BY DEF AddressInv
<1>1. /\ UNCHANGED <<user, sess, fifo>>
      /\ \A q \in Pids : CmdStep(q)
  <2>1. /\ UNCHANGED <<user, sess, fifo>>
        /\ cmd' = cmd \/ cmd' = [cmd EXCEPT ![p] = NoCmd]
    BY DEF TransferFind, AcceptFind, RejectFind, FindSource, Receive
  <2> QED  BY <1>0, <2>1 DEF TypeOK, CmdStep, NoCmd
<1>2. FifoAfterLogin' /\ FifoRightUser'
  BY <1>1, FifosKept DEF FifoStep
<1>3. ASSUME NEW u, NEW label \in {"req_add", "acc_copy", "rej_notify"},
             Goto(p, label), \A q \in Pids : q # p => loc'[q] = loc[q],
             loc'[p].peer = u, loc'[p].pid = shm_session_find(u).pid,
             loc'[p].online = shm_session_find(u).online
      PROVE  AddressInv'
  <2>1. pc'[p] = label /\ \A q \in Pids : q # p => pc'[q] = pc[q]
    BY <1>0, <1>3 DEF TypeOK, Goto
  <2>2. LoginsNamed'
    BY <1>1, <1>3, <2>1 DEF AddressInv, LoginsNamed, CmdStep
  <2>3. SessionsRight'
    BY <1>0, <1>1 DEF SessionsRight, Serves
  <2>4. loc'[p].online => Serves(loc'[p].pid, loc'[p].peer)
    BY <1>0, <1>3, FindRight
  <2>5. LookupsRight'
    BY <1>1, <1>3, <2>1, <2>4 DEF AddressInv, LookupsRight, Serves
  <2> QED  BY <1>2, <2>2, <2>3, <2>5 DEF AddressInv
<1>4. CASE TransferFind(p)
  <2> DEFINE s == shm_session_find(cmd[p].to)
             l == [NoLocals EXCEPT !.peer = cmd[p].to, !.pid = s.pid,
                                   !.online = s.online]
  <2>1. Goto(p, "req_add") /\ loc' = [loc EXCEPT ![p] = l]
    BY <1>4 DEF TransferFind
  <2>2. l.peer = cmd[p].to /\ l.pid = s.pid /\ l.online = s.online
    BY DEF NoLocals
  <2> HIDE DEF l
  <2>3. loc'[p] = l /\ \A q \in Pids : q # p => loc'[q] = loc[q]
    BY <1>0, <2>1 DEF TypeOK
  <2> QED  BY <1>3, <2>1, <2>2, <2>3
<1>5. ASSUME NEW label \in {"acc_copy", "rej_notify"}, FindSource(p, label)
      PROVE  AddressInv'
  <2> DEFINE s == shm_session_find(loc[p].peer)
             l == [loc[p] EXCEPT !.pid = s.pid, !.online = s.online]
  <2>1. CASE s.found
    <3>1. Goto(p, label) /\ loc' = [loc EXCEPT ![p] = l]
      BY <1>5, <2>1 DEF FindSource
    <3>2. loc[p] \in Locals
      BY <1>0 DEF TypeOK
    <3>3. l.peer = loc[p].peer /\ l.pid = s.pid /\ l.online = s.online
      BY <3>2 DEF Locals
    <3> HIDE DEF l
    <3>4. loc'[p] = l /\ \A q \in Pids : q # p => loc'[q] = loc[q]
      BY <1>0, <3>1 DEF TypeOK
    <3> QED  BY <1>3, <3>1, <3>3, <3>4
  <2>2. CASE ~s.found
    <3>1. Return(p) /\ UNCHANGED <<user, sess, cmd>>
      BY <1>5, <2>2 DEF FindSource
    <3> QED  BY <1>2, <3>1, AddressReturn
  <2> QED  BY <2>1, <2>2
<1> QED  BY <1>4, <1>5 DEF AcceptFind, RejectFind

(* transfer_request goes on to notify_pid only for an online destination.    *)
LEMMA AddressAdd ==
  ASSUME AddressInv, TypeOK', NEW p \in Pids, TransferAdd(p)
  PROVE  AddressInv'
<1>0. TypeOK
  BY DEF AddressInv
<1>1. UNCHANGED <<user, sess, fifo, cmd>>
  BY DEF TransferAdd
<1>2. FifoAfterLogin' /\ FifoRightUser'
  BY <1>1, FifosKept DEF FifoStep
<1>3. CASE Return(p)
  BY <1>1, <1>2, <1>3, AddressReturn
<1>4. CASE /\ loc[p].online
           /\ Goto(p, "req_notify")
           /\ loc' = [loc EXCEPT ![p].id = nextId]
  <2>1. /\ pc'[p] = "req_notify"
        /\ \A q \in Pids : q # p => pc'[q] = pc[q] /\ loc'[q] = loc[q]
    BY <1>0, <1>4 DEF TypeOK, Goto
  <2>2. loc[p] \in Locals /\ loc'[p] = [loc[p] EXCEPT !.id = nextId]
    BY <1>0, <1>4 DEF TypeOK
  <2>3. /\ loc'[p].online = loc[p].online
        /\ loc'[p].pid = loc[p].pid
        /\ loc'[p].peer = loc[p].peer
    BY <2>2 DEF Locals
  <2>4. \A q \in Pids : CmdStep(q) /\ UserStep(q) /\ LookupStep(q)
    BY <1>1, <1>4, <2>1, <2>3 DEF CmdStep, UserStep, LookupStep
  <2> QED  BY <1>1, <1>2, <2>4, AddressFrame
<1> QED  BY <1>3, <1>4 DEF TransferAdd

(* A login: the child gets its user once, then records the session under it  *)
(* and writes to its own FIFO.                                               *)
LEMMA AddressLogin ==
  ASSUME AddressInv, TypeOK', NEW p \in Pids,
         handle_login(p) \/ LoginAdd(p) \/ LoginNotify(p)
  PROVE  AddressInv'
<1>0. TypeOK
  BY DEF AddressInv
<1>1. CASE handle_login(p)
  <2>1. /\ UNCHANGED <<sess, loc, fifo>>
        /\ user[p] = NoUser
        /\ cmd[p].op = "login"
        /\ user' = [user EXCEPT ![p] = cmd[p].to]
        /\ cmd' = [cmd EXCEPT ![p] = NoCmd]
        /\ pc' = [pc EXCEPT ![p] = "login_add"]
    BY <1>1 DEF handle_login, Receive, Goto
  <2>2. cmd[p].to \in Users /\ NoUser \notin Users
    BY <2>1, ShmAssumption DEF AddressInv, LoginsNamed
  <2>3. /\ user'[p] # NoUser
        /\ \A q \in Pids : q # p => user'[q] = user[q]
        /\ pc'[p] = "login_add"
        /\ \A q \in Pids : q # p => pc'[q] = pc[q]
        /\ \A q \in Pids : cmd'[q] = cmd[q] \/ cmd'[q].op = "none"
    BY <1>0, <2>1, <2>2 DEF TypeOK, NoCmd
  <2>4. LoginsNamed'
    BY <2>3 DEF AddressInv, LoginsNamed
  <2>5. \A q \in Pids : user[q] # NoUser => user'[q] = user[q]
    BY <2>1, <2>3
  <2>6. SessionsRight'
    BY <2>1, <2>5, ServesKept DEF AddressInv, SessionsRight
  <2>7. \A q \in Pids : LookupStep(q)
    BY <2>1, <2>3 DEF LookupStep
  <2>8. LookupsRight'
    BY <2>5, <2>7, LookupsKept DEF AddressInv
  <2>9. fifo[p] = <<>>
    BY <2>1 DEF AddressInv, FifoAfterLogin
  <2>10. FifoAfterLogin' /\ FifoRightUser'
    BY <2>1, <2>3, <2>9 DEF AddressInv, FifoAfterLogin, FifoRightUser
  <2> QED  BY <2>4, <2>6, <2>8, <2>10 DEF AddressInv
<1>2. CASE LoginAdd(p)
  <2> DEFINE e == [username |-> user[p], pid |-> p, in_use |-> TRUE]
  <2>1. /\ UNCHANGED <<user, loc, fifo, cmd>>
        /\ pc[p] = "login_add"
        /\ pc' = [pc EXCEPT ![p] = "login_scan"]
        /\ shm_session_add(user[p], p)
    BY <1>2 DEF LoginAdd, Goto
  <2>2. Serves(e.pid, e.username)
    BY <2>1 DEF AddressInv, LoginsNamed, Serves
  <2>3. \A i \in Slots : sess'[i] = sess[i] \/ sess'[i] = e
    <3>1. sess \in [Slots -> session_entry_t]
      BY <1>0 DEF TypeOK, ShmTypeOK
    <3>2. sess' = sess \/ \E k \in Nat : sess' = [sess EXCEPT ![k] = e]
      <4>1. FreeSessions # {} => Min(FreeSessions) \in Nat
        <5>1. FreeSessions \in SUBSET Nat
          BY DEF FreeSessions
        <5> QED  BY <5>1, MinIn
      <4>2. sessCount + 1 \in Nat
        BY <1>0, ShmAssumption DEF TypeOK, ShmTypeOK
      <4> QED  BY <2>1, <4>1, <4>2 DEF shm_session_add
    <3> HIDE DEF e
    <3> QED  BY <3>1, <3>2
  <2> HIDE DEF e
  <2>4. SessionsRight'
    <3> SUFFICES ASSUME NEW i \in Slots, sess'[i].in_use
                 PROVE  Serves(sess'[i].pid, sess'[i].username)
      BY <2>1 DEF SessionsRight, Serves
    <3> QED  BY <2>2, <2>3 DEF AddressInv, SessionsRight
  <2>5. pc'[p] = "login_scan" /\ \A q \in Pids : q # p => pc'[q] = pc[q]
    BY <1>0, <2>1 DEF TypeOK
  <2>6. LoginsNamed'
    BY <2>1, <2>5 DEF AddressInv, LoginsNamed
  <2>7. LookupsRight'
    BY <2>1, <2>5 DEF AddressInv, LookupsRight, Serves
  <2>8. FifoAfterLogin' /\ FifoRightUser'
    BY <2>1, FifosKept DEF FifoStep
  <2> QED  BY <2>4, <2>6, <2>7, <2>8 DEF AddressInv
<1>3. CASE LoginNotify(p)
  <2>1. UNCHANGED <<user, sess, cmd>>
    BY <1>3 DEF LoginNotify
  <2>2. CASE Return(p) /\ UNCHANGED fifo
    <3>1. FifoAfterLogin' /\ FifoRightUser'
      BY <2>1, <2>2, FifosKept DEF FifoStep
    <3> QED  BY <2>1, <2>2, <3>1, AddressReturn
  <2>3. ASSUME NEW r \in todo[p], notify_pid(p, "REQ", r.id, user[p]),
               UNCHANGED <<pc, loc>>
        PROVE  AddressInv'
    <3>1. FifoAfterLogin' /\ FifoRightUser'
      <4>1. CASE user[p] = NoUser
        <5>1. UNCHANGED fifo
          BY <2>3, <4>1 DEF notify_pid, CanNotify, FifoOpen
        <5> QED  BY <2>1, <5>1, FifosKept DEF FifoStep
      <4>2. CASE user[p] # NoUser
        BY <2>1, <2>3, <4>2, FifoNotified DEF Serves
      <4> QED  BY <4>1, <4>2
    <3>2. \A q \in Pids : CmdStep(q) /\ UserStep(q) /\ LookupStep(q)
      BY <2>1, <2>3 DEF CmdStep, UserStep, LookupStep
    <3> QED  BY <2>1, <3>1, <3>2, AddressFrame
  <2> QED  BY <1>3, <2>2, <2>3 DEF LoginNotify
<1> QED  BY <1>1, <1>2, <1>3

(* The parent only frees entries.                                            *)
LEMMA AddressCollect ==
  ASSUME AddressInv, TypeOK', collect_stale_sessions
  PROVE  AddressInv'
<1>1. UNCHANGED <<pc, user, loc, fifo, cmd>>
  BY DEF collect_stale_sessions
<1>2. \A i \in Slots : sess'[i] = sess[i] \/ sess'[i] = FreeSession
  BY DEF collect_stale_sessions, shm_sessions_collect_stale
<1>3. SessionsRight'
  BY <1>1, <1>2 DEF AddressInv, SessionsRight, FreeSession, Serves
<1>4. LoginsNamed' /\ LookupsRight' /\ FifoAfterLogin' /\ FifoRightUser'
  BY <1>1 DEF AddressInv, LoginsNamed, LookupsRight, Serves, FifoAfterLogin,
              FifoRightUser
<1> QED  BY <1>3, <1>4 DEF AddressInv

(* Every step keeps the invariant, crashes included.                         *)
LEMMA AddressNext == AddressInv /\ [Next]_vars => AddressInv'
<1> SUFFICES ASSUME AddressInv, [Next]_vars PROVE AddressInv'
  OBVIOUS
<1>0. TypeOK'
  BY NextType DEF AddressInv
<1>1. ASSUME NEW p \in Pids, ChildStep(p) PROVE AddressInv'
  BY <1>0, <1>1, AddressOutside, AddressQuiet, AddressNotify, AddressFind,
     AddressAdd, AddressLogin DEF ChildStep
<1>2. CASE UNCHANGED vars
  <2>1. UNCHANGED <<pc, loc, user, sess, fifo, cmd>>
    BY <1>2 DEF vars
  <2> QED  BY <1>0, <2>1, AddressStay DEF CmdStep, FifoStep
<1>3. ASSUME NEW p \in Pids,
             \/ Connect(p) \/ ClientStep(p) \/ ReadNotification(p)
             \/ Crash(p) \/ handle_signals(p)
      PROVE  AddressInv'
  BY <1>0, <1>3, AddressOutside, AddressQuiet
<1> QED  BY <1>0, <1>1, <1>2, <1>3, AddressCollect DEF Next

(* No line ever stands in the FIFO of a user it was not written for, also    *)
(* when the session that was looked up has ended or its child was killed.    *)
THEOREM FifosRight == Spec => []FifoRightUser
<1>1. AddressInv => FifoRightUser
  BY DEF AddressInv
<1> QED  BY <1>1, AddressInit, AddressNext, PTL DEF Spec

-----------------------------------------------------------------------------
(* Pending requests.  A request stays pending only while a session of its     *)
(* sender is open, provided that no child is killed: the promise behind the   *)
(* call of shm_requests_set_failed at the end of handle_session.              *)

(* A child that still has its call of shm_requests_set_failed ahead of it.   *)
Serving(p) == Running(p) /\ pc[p] # "close_fifo"

(* Logging in gives a user name, every child past its login has one, and     *)
(* every request carries the one of its sender.                              *)
Identified ==
    /\ \A p \in Pids : cmd[p].op = "login" => cmd[p].to \in Users
    /\ \A p \in Pids :
          pc[p] \notin {"none", "select", "dead", "reaped"} => user[p] # NoUser
    /\ \A i \in 1 .. reqCount : req[i].source_username # NoUser

(* The inductive invariant behind NoOrphanPending.                           *)
OrphanInv == TypeOK /\ Identified /\ NoOrphanPending


(* With no request there is no orphan.                                       *)
LEMMA OrphanInit == Init => OrphanInv
<1> SUFFICES ASSUME Init PROVE OrphanInv
  OBVIOUS
<1>1. TypeOK
  BY InitType
<1>2. /\ reqCount = 0
      /\ \A p \in Pids : pc[p] = "none" /\ cmd[p].op = "none"
  BY DEF Init, setup_shmem, NoCmd
<1> QED  BY <1>1, <1>2 DEF OrphanInv, Identified, NoOrphanPending

(* A step that leaves the requests alone and takes no serving child away.    *)
LEMMA OrphanFrame ==
  ASSUME OrphanInv, TypeOK',
         UNCHANGED <<req, reqCount>>,
         \A q \in Pids : \/ cmd'[q] = cmd[q]
                         \/ cmd'[q].op = "login" => cmd'[q].to \in Users,
         \A q \in Pids :
            pc'[q] \notin {"none", "select", "dead", "reaped"} =>
               user'[q] # NoUser,
         \A q \in Pids : user[q] # NoUser /\ Serving(q) =>
            user'[q] = user[q] /\ Serving(q)'
  PROVE  OrphanInv'
<1>1. Identified'
  BY DEF OrphanInv, Identified
<1>2. NoOrphanPending'
  <2> SUFFICES ASSUME NEW i \in 1 .. reqCount, req[i].status = "PENDING"
               PROVE  \E q \in Pids : /\ user'[q] = req[i].source_username
                                      /\ Serving(q)'
    BY DEF NoOrphanPending, Serving
  <2>1. PICK q \in Pids : user[q] = req[i].source_username /\ Serving(q)
    BY DEF OrphanInv, NoOrphanPending, Serving
  <2>2. user[q] # NoUser
    BY <2>1 DEF OrphanInv, Identified
  <2> QED  BY <2>1, <2>2
<1> QED  BY <1>1, <1>2 DEF OrphanInv

(* The same for a step of one child that keeps its user.                     *)
LEMMA OrphanMove ==
  ASSUME OrphanInv, TypeOK', NEW p \in Pids, NEW label \in PCs,
         Goto(p, label), UNCHANGED <<user, req, reqCount>>,
         cmd' = cmd \/ cmd' = [cmd EXCEPT ![p] = NoCmd],
         label \in {"none", "select", "dead", "reaped"} \/ user[p] # NoUser,
         \/ label \notin {"none", "dead", "reaped", "close_fifo"}
         \/ user[p] = NoUser
         \/ ~Serving(p)
  PROVE  OrphanInv'
<1>0. TypeOK
  BY DEF OrphanInv
<1>1. \A q \in Pids : \/ cmd'[q] = cmd[q]
                      \/ cmd'[q].op = "login" => cmd'[q].to \in Users
  BY <1>0 DEF TypeOK, NoCmd
<1>2. pc'[p] = label /\ \A q \in Pids : q # p => pc'[q] = pc[q]
  BY <1>0 DEF TypeOK, Goto
<1>3. \A q \in Pids :
         pc'[q] \notin {"none", "select", "dead", "reaped"} =>
            user'[q] # NoUser
  BY <1>2 DEF OrphanInv, Identified
<1>4. \A q \in Pids : user[q] # NoUser /\ Serving(q) =>
         user'[q] = user[q] /\ Serving(q)'
  BY <1>2 DEF Serving, Running
<1> QED  BY <1>1, <1>3, <1>4, OrphanFrame

(* The same for a step that moves no child.                                  *)
LEMMA OrphanStay ==
  ASSUME OrphanInv, TypeOK', UNCHANGED <<pc, user, req, reqCount>>,
         \A q \in Pids : \/ cmd'[q] = cmd[q]
                         \/ cmd'[q].op = "login" => cmd'[q].to \in Users
  PROVE  OrphanInv'
<1>1. \A q \in Pids :
         pc'[q] \notin {"none", "select", "dead", "reaped"} =>
            user'[q] # NoUser
  BY DEF OrphanInv, Identified
<1>2. \A q \in Pids : user[q] # NoUser /\ Serving(q) =>
         user'[q] = user[q] /\ Serving(q)'
  BY DEF Serving, Running
<1> QED  BY <1>1, <1>2, OrphanFrame

(* A step of a client, or a forwarded notification.                          *)
LEMMA OrphanClient ==
  ASSUME OrphanInv, TypeOK', NEW p \in Pids,
         ClientStep(p) \/ ReadNotification(p)
  PROVE  OrphanInv'
<1>1. UNCHANGED <<pc, user, req, reqCount>>
  BY DEF ClientStep, Send, recv_response, ReadUnsolicited, ClientClose,
         ReadNotification
<1>2. CASE \E c \in Commands(p) : Send(p, c)
  <2>1. PICK c \in Commands(p) : Send(p, c)
    BY <1>2
  <2>2. c.op = "login" => c.to \in Users
    BY TransferAssumption
       DEF Commands, Login, Transfer, Accept, Reject, Other
  <2>3. \A q \in Pids : cmd'[q] = cmd[q] \/ cmd'[q] = c
    BY <2>1 DEF Send, OrphanInv, TypeOK
  <2> QED  BY <1>1, <2>2, <2>3, OrphanStay
<1>3. CASE cmd' = cmd
  BY <1>1, <1>3, OrphanStay
<1> QED  BY <1>2, <1>3 DEF ClientStep, recv_response, ReadUnsolicited,
                           ClientClose, ReadNotification

(* A command that ends with one answer.                                      *)
LEMMA OrphanRefused ==
  ASSUME OrphanInv, TypeOK', NEW p \in Pids,
         \/ LoginRefused(p) \/ LoginRequired(p) \/ OtherCommand(p)
         \/ TransferRefused(p) \/ AnswerRefused(p)
  PROVE  OrphanInv'
<1>1. UNCHANGED <<pc, user, req, reqCount>>
  BY DEF LoginRefused, LoginRequired, OtherCommand, TransferRefused,
         AnswerRefused, AnswerOnly
<1>2. cmd' = [cmd EXCEPT ![p] = NoCmd]
  BY DEF LoginRefused, LoginRequired, OtherCommand, TransferRefused,
         AnswerRefused, Receive
<1>3. \A q \in Pids : cmd'[q] = cmd[q] \/ cmd'[q].op = "none"
  BY <1>2 DEF OrphanInv, TypeOK, NoCmd
<1> QED  BY <1>1, <1>3, OrphanStay

(* A login gives the child a user; a child without one serves nobody.        *)
LEMMA OrphanLogin ==
  ASSUME OrphanInv, TypeOK', NEW p \in Pids,
         handle_login(p) \/ LoginAdd(p) \/ LoginScan(p) \/ LoginNotify(p)
  PROVE  OrphanInv'
<1>0. /\ TypeOK
      /\ {"select", "login_add", "login_scan", "login_notify"} \subseteq PCs
  BY DEF OrphanInv, PCs
<1>1. CASE handle_login(p)
  <2>1. /\ UNCHANGED <<req, reqCount>>
        /\ user[p] = NoUser
        /\ cmd[p].op = "login"
        /\ user' = [user EXCEPT ![p] = cmd[p].to]
        /\ cmd' = [cmd EXCEPT ![p] = NoCmd]
        /\ pc' = [pc EXCEPT ![p] = "login_add"]
    BY <1>1 DEF handle_login, Receive, Goto
  <2>2. cmd[p].to \in Users /\ NoUser \notin Users
    BY <2>1, ShmAssumption DEF OrphanInv, Identified
  <2>3. /\ user'[p] # NoUser
        /\ \A q \in Pids : q # p => user'[q] = user[q] /\ pc'[q] = pc[q]
    BY <1>0, <2>1, <2>2 DEF TypeOK
  <2>4. \A q \in Pids : cmd'[q] = cmd[q] \/ cmd'[q].op = "none"
    BY <1>0, <2>1 DEF TypeOK, NoCmd
  <2>5. \A q \in Pids :
           pc'[q] \notin {"none", "select", "dead", "reaped"} =>
              user'[q] # NoUser
    BY <2>3 DEF OrphanInv, Identified
  <2>6. \A q \in Pids : user[q] # NoUser /\ Serving(q) =>
           user'[q] = user[q] /\ Serving(q)'
    BY <2>1, <2>3 DEF Serving, Running
  <2> QED  BY <2>1, <2>4, <2>5, <2>6, OrphanFrame
<1>2. CASE LoginAdd(p) \/ LoginScan(p)
  <2>1. /\ UNCHANGED <<user, req, reqCount, cmd>>
        /\ pc[p] \in {"login_add", "login_scan"}
        /\ Goto(p, "login_scan") \/ Goto(p, "login_notify")
    BY <1>2 DEF LoginAdd, LoginScan
  <2>2. user[p] # NoUser
    BY <2>1 DEF OrphanInv, Identified
  <2> QED  BY <1>0, <2>1, <2>2, OrphanMove
<1>3. CASE LoginNotify(p)
  <2>1. UNCHANGED <<user, req, reqCount, cmd>>
    BY <1>3 DEF LoginNotify
  <2>2. Goto(p, "select") \/ UNCHANGED pc
    BY <1>3 DEF LoginNotify, Return
  <2> QED  BY <1>0, <2>1, <2>2, OrphanMove, OrphanStay
<1> QED  BY <1>1, <1>2, <1>3

(* The steps that move a child along without touching the requests.          *)
LEMMA OrphanQuiet ==
  ASSUME OrphanInv, TypeOK', NEW p \in Pids,
         \/ Connect(p) \/ TransferFind(p) \/ TransferNotify(p)
         \/ AcceptFind(p) \/ RejectFind(p) \/ AcceptCopy(p)
         \/ AcceptNotify(p) \/ RejectNotify(p)
         \/ Eof(p) \/ CloseFifo(p) \/ handle_signals(p)
  PROVE  OrphanInv'
<1>0. TypeOK /\ {"select", "req_add", "acc_copy", "acc_set", "acc_notify",
                 "rej_notify", "dead", "close_fail", "reaped"} \subseteq PCs
  BY DEF OrphanInv, PCs
<1>1. CASE Connect(p) \/ TransferNotify(p) \/ AcceptNotify(p) \/ RejectNotify(p)
  <2>1. Goto(p, "select") /\ UNCHANGED <<user, req, reqCount, cmd>>
    BY <1>1 DEF Connect, TransferNotify, AcceptNotify, RejectNotify,
                AnswerSource, Return
  <2> QED  BY <1>0, <2>1, OrphanMove
<1>2. CASE TransferFind(p)
  <2>1. /\ Goto(p, "req_add")
        /\ UNCHANGED <<user, req, reqCount>>
        /\ cmd' = [cmd EXCEPT ![p] = NoCmd]
        /\ user[p] # NoUser
    BY <1>2 DEF TransferFind, Receive
  <2> QED  BY <1>0, <2>1, OrphanMove
<1>3. CASE AcceptFind(p) \/ RejectFind(p) \/ AcceptCopy(p)
  <2>1. /\ pc[p] \in {"acc_find", "rej_find", "acc_copy"}
        /\ UNCHANGED <<user, req, reqCount, cmd>>
    BY <1>3 DEF AcceptFind, RejectFind, AcceptCopy, FindSource
  <2>2. \/ Goto(p, "select") \/ Goto(p, "acc_copy") \/ Goto(p, "acc_set")
        \/ Goto(p, "acc_notify") \/ Goto(p, "rej_notify")
    BY <1>3, Zenon DEF AcceptFind, RejectFind, AcceptCopy, FindSource, Return
  <2>3. user[p] # NoUser
    BY <2>1 DEF OrphanInv, Identified
  <2> QED  BY <1>0, <2>1, <2>2, <2>3, OrphanMove
<1>4. CASE Eof(p)
  <2>1. /\ UNCHANGED <<user, req, reqCount>>
        /\ cmd' = [cmd EXCEPT ![p] = NoCmd]
        /\ \/ user[p] = NoUser /\ Goto(p, "dead")
           \/ user[p] # NoUser /\ Goto(p, "close_fail")
    BY <1>4 DEF Eof
  <2> QED  BY <1>0, <2>1, OrphanMove
<1>5. CASE CloseFifo(p) \/ handle_signals(p)
  <2>1. /\ UNCHANGED <<user, req, reqCount, cmd>>
        /\ pc[p] \in {"close_fifo", "dead"}
        /\ Goto(p, "dead") \/ Goto(p, "reaped")
    BY <1>5 DEF CloseFifo, handle_signals
  <2>2. ~Serving(p)
    BY <2>1 DEF Serving, Running
  <2> QED  BY <1>0, <2>1, <2>2, OrphanMove
<1> QED  BY <1>1, <1>2, <1>3, <1>4, <1>5

(* A new request is pending while the child that adds it serves its sender.  *)
LEMMA OrphanAdd ==
  ASSUME OrphanInv, TypeOK', NEW p \in Pids, TransferAdd(p)
  PROVE  OrphanInv'
<1>0. TypeOK /\ {"select", "req_notify"} \subseteq PCs
  BY DEF OrphanInv, PCs
<1>1. /\ UNCHANGED <<user, cmd>>
      /\ Goto(p, "select") \/ Goto(p, "req_notify")
      /\ pc[p] = "req_add"
  BY DEF TransferAdd, Return
<1>2. user[p] # NoUser
  BY <1>1 DEF OrphanInv, Identified
<1>3. CASE RequestsFull
  <2>1. UNCHANGED <<req, reqCount>>
    BY <1>3 DEF TransferAdd
  <2> QED  BY <1>0, <1>1, <1>2, <2>1, OrphanMove
<1>4. CASE ~RequestsFull
  <2> DEFINE e == [id |-> nextId, source_username |-> user[p],
                   dest_username |-> loc[p].peer, status |-> "PENDING"]
  <2>1. PICK k \in Slots :
           /\ req' = [req EXCEPT ![k] = e]
           /\ \/ k \in 1 .. reqCount /\ reqCount' = reqCount
              \/ k = reqCount + 1 /\ reqCount' = reqCount + 1
    <3>1. ShmTypeOK /\ shm_request_add(user[p], loc[p].peer)
      BY <1>0, <1>4 DEF TransferAdd, TypeOK
    <3> QED  BY <3>1, RequestAddSlot
  <2>2. e.source_username = user[p]
    OBVIOUS
  <2> HIDE DEF e
  <2>3. reqCount \in Nat /\ reqCount <= MAX_ENTRIES /\ MAX_ENTRIES \in Nat
    BY <1>0, ShmAssumption DEF TypeOK, ShmTypeOK
  <2>4. \A i \in 1 .. reqCount' :
           \/ i = k
           \/ i \in 1 .. reqCount /\ i \in Slots
    BY <2>1, <2>3
  <2>5. /\ req'[k].source_username = user[p]
        /\ \A i \in Slots : i # k => req'[i] = req[i]
    BY <1>0, <2>1, <2>2 DEF TypeOK, ShmTypeOK
  <2>6. /\ pc'[p] \in {"select", "req_notify"}
        /\ \A q \in Pids : q # p => pc'[q] = pc[q]
    BY <1>0, <1>1 DEF TypeOK, Goto
  <2>7. \A q \in Pids : Serving(q) => Serving(q)'
    BY <2>6 DEF Serving, Running
  <2>8. Identified'
    <3>1. \A i \in 1 .. reqCount' : req'[i].source_username # NoUser
      BY <1>2, <2>4, <2>5 DEF OrphanInv, Identified
    <3>2. \A q \in Pids :
             pc'[q] \notin {"none", "select", "dead", "reaped"} =>
                user'[q] # NoUser
      BY <1>1, <1>2, <2>6 DEF OrphanInv, Identified
    <3> QED  BY <1>1, <3>1, <3>2 DEF OrphanInv, Identified
  <2>9. NoOrphanPending'
    <3> SUFFICES ASSUME NEW i \in 1 .. reqCount', req'[i].status = "PENDING"
                 PROVE  \E q \in Pids : /\ user[q] = req'[i].source_username
                                        /\ Serving(q)'
      BY <1>1 DEF NoOrphanPending, Serving
    <3>1. CASE i = k
      <4>1. Serving(p)
        BY <1>1 DEF Serving, Running
      <4> QED  BY <2>5, <2>7, <3>1, <4>1
    <3>2. CASE i # k
      <4>1. i \in 1 .. reqCount /\ req'[i] = req[i]
        BY <2>4, <2>5, <3>2
      <4>2. PICK q \in Pids : user[q] = req[i].source_username /\ Serving(q)
        BY <4>1 DEF OrphanInv, NoOrphanPending, Serving
      <4> QED  BY <2>7, <4>1, <4>2
    <3> QED  BY <3>1, <3>2
  <2> QED  BY <2>8, <2>9 DEF OrphanInv
<1> QED  BY <1>3, <1>4

(* Taking a request, and failing it, never makes a request pending.          *)
LEMMA OrphanTake ==
  ASSUME OrphanInv, TypeOK', NEW p \in Pids,
         AcceptTake(p) \/ RejectTake(p) \/ AcceptSet(p)
  PROVE  OrphanInv'
<1>0. TypeOK
  BY DEF OrphanInv
<1>1. /\ UNCHANGED <<user, reqCount>>
      /\ \A q \in Pids : cmd'[q] = cmd[q] \/ cmd'[q].op = "none"
      /\ user[p] # NoUser
      /\ \E label \in {"acc_find", "rej_find", "acc_notify"} : Goto(p, label)
      /\ Serving(p)
  <2>1. CASE AcceptTake(p) \/ RejectTake(p)
    <3>1. /\ UNCHANGED <<user, reqCount>>
          /\ cmd' = [cmd EXCEPT ![p] = NoCmd]
          /\ user[p] # NoUser
          /\ Goto(p, "acc_find") \/ Goto(p, "rej_find")
          /\ pc[p] = "select"
      BY <2>1 DEF AcceptTake, RejectTake, TakeRequest, Receive,
                  shm_request_take
    <3>2. \A q \in Pids : cmd'[q] = cmd[q] \/ cmd'[q].op = "none"
      BY <1>0, <3>1 DEF TypeOK, NoCmd
    <3> QED  BY <3>1, <3>2 DEF Serving, Running
  <2>2. CASE AcceptSet(p)
    <3>1. /\ UNCHANGED <<user, reqCount, cmd>>
          /\ Goto(p, "acc_notify")
          /\ pc[p] = "acc_set"
      BY <2>2 DEF AcceptSet, shm_request_set
    <3>2. user[p] # NoUser /\ Serving(p)
      BY <3>1 DEF OrphanInv, Identified, Serving, Running
    <3> QED  BY <3>1, <3>2
  <2> QED  BY <2>1, <2>2
<1>2. \/ req' = req
      \/ \E k \in Slots, st \in {"ACCEPTED", "REJECTED", "FAILED"} :
            req' = [req EXCEPT ![k].status = st]
  <2>1. CASE AcceptTake(p) \/ RejectTake(p)
    <3>1. PICK st \in {"ACCEPTED", "REJECTED"}, op \in {"accept", "reject"},
               label \in {"acc_find", "rej_find"} :
             TakeRequest(p, op, st, label)
      BY <2>1 DEF AcceptTake, RejectTake
    <3>2. Min(RequestsWithId(cmd[p].id)) \in Slots
      BY <1>0, <3>1, RequestSlot DEF TakeRequest, CanTake, TypeOK
    <3> QED  BY <3>1, <3>2 DEF TakeRequest, shm_request_take
  <2>2. CASE AcceptSet(p)
    <3>1. CASE RequestsWithId(loc[p].id) = {}
      BY <2>2, <3>1 DEF AcceptSet, shm_request_set
    <3>2. CASE RequestsWithId(loc[p].id) # {}
      <4>1. Min(RequestsWithId(loc[p].id)) \in Slots
        BY <1>0, <3>2, RequestSlot DEF TypeOK
      <4> QED  BY <2>2, <3>2, <4>1 DEF AcceptSet, shm_request_set
    <3> QED  BY <3>1, <3>2
  <2> QED  BY <2>1, <2>2
<1>3. \A i \in Slots : /\ req'[i].source_username = req[i].source_username
                       /\ req'[i].status = "PENDING" => req[i].status = "PENDING"
  <2>1. ASSUME NEW k \in Slots, NEW st \in {"ACCEPTED", "REJECTED", "FAILED"},
               req' = [req EXCEPT ![k].status = st],
               NEW i \in Slots
        PROVE  /\ req'[i].source_username = req[i].source_username
               /\ req'[i].status = "PENDING" => req[i].status = "PENDING"
    <3>1. req[k] \in transfer_request_entry_t
      BY <1>0 DEF TypeOK, ShmTypeOK
    <3>2. i # k => req'[i] = req[i]
      BY <1>0, <2>1 DEF TypeOK, ShmTypeOK
    <3>3. req'[k] = [req[k] EXCEPT !.status = st]
      BY <1>0, <2>1 DEF TypeOK, ShmTypeOK
    <3>4. /\ req'[k].source_username = req[k].source_username
          /\ req'[k].status = st
      BY <3>1, <3>3 DEF transfer_request_entry_t
    <3> QED  BY <3>2, <3>4
  <2> QED  BY <1>2, <2>1
<1>4. \A i \in 1 .. reqCount : i \in Slots
  <2>1. reqCount \in Nat /\ reqCount <= MAX_ENTRIES /\ MAX_ENTRIES \in Nat
    BY <1>0, ShmAssumption DEF TypeOK, ShmTypeOK
  <2> QED  BY <2>1
<1>5. \A q \in Pids : /\ pc'[q] = pc[q] \/ (q = p /\ pc'[q] \in
                           {"acc_find", "rej_find", "acc_notify"})
                      /\ Serving(q) => Serving(q)'
  <2>1. /\ pc'[p] \in {"acc_find", "rej_find", "acc_notify"}
        /\ \A q \in Pids : q # p => pc'[q] = pc[q]
    BY <1>0, <1>1 DEF TypeOK, Goto
  <2> QED  BY <2>1 DEF Serving, Running
<1>6. Identified'
  <2>1. \A i \in 1 .. reqCount' : req'[i].source_username # NoUser
    BY <1>1, <1>3, <1>4 DEF OrphanInv, Identified
  <2>2. \A q \in Pids :
           pc'[q] \notin {"none", "select", "dead", "reaped"} =>
              user'[q] # NoUser
    BY <1>1, <1>5 DEF OrphanInv, Identified
  <2>3. \A q \in Pids : cmd'[q].op = "login" => cmd'[q].to \in Users
    BY <1>1 DEF OrphanInv, Identified
  <2> QED  BY <2>1, <2>2, <2>3 DEF Identified
<1>7. NoOrphanPending'
  BY <1>1, <1>3, <1>4, <1>5 DEF OrphanInv, NoOrphanPending, Serving
<1> QED  BY <1>6, <1>7 DEF OrphanInv

(* The end of a session: its user's pending requests go before it does.      *)
LEMMA OrphanClose ==
  ASSUME OrphanInv, TypeOK', NEW p \in Pids, CloseFail(p)
  PROVE  OrphanInv'
<1>0. TypeOK
  BY DEF OrphanInv
<1>1. /\ UNCHANGED <<user, reqCount, cmd>>
      /\ Goto(p, "close_fifo")
      /\ pc[p] = "close_fail"
  BY DEF CloseFail, shm_requests_set_failed
<1>2. user[p] # NoUser
  BY <1>1 DEF OrphanInv, Identified
<1>3. /\ pc'[p] = "close_fifo"
      /\ \A q \in Pids : q # p => pc'[q] = pc[q]
  BY <1>0, <1>1 DEF TypeOK, Goto
<1>4. \A i \in 1 .. reqCount : i \in Slots /\ i <= reqCount
  <2>1. reqCount \in Nat /\ reqCount <= MAX_ENTRIES /\ MAX_ENTRIES \in Nat
    BY <1>0, ShmAssumption DEF TypeOK, ShmTypeOK
  <2> QED  BY <2>1
<1>5. ASSUME NEW i \in 1 .. reqCount
      PROVE  /\ req'[i].source_username = req[i].source_username
             /\ req'[i].status = "PENDING" =>
                  /\ req[i].status = "PENDING"
                  /\ req[i].source_username # user[p]
  <2>1. req[i] \in transfer_request_entry_t
    BY <1>0, <1>4 DEF TypeOK, ShmTypeOK
  <2>2. CASE req[i].status = "PENDING" /\ req[i].source_username = user[p]
    <3>1. req'[i] = [req[i] EXCEPT !.status = "FAILED"]
      BY <1>4, <2>2 DEF CloseFail, shm_requests_set_failed
    <3> QED  BY <2>1, <3>1 DEF transfer_request_entry_t
  <2>3. CASE ~(req[i].status = "PENDING" /\ req[i].source_username = user[p])
    BY <1>4, <2>3 DEF CloseFail, shm_requests_set_failed
  <2> QED  BY <2>2, <2>3
<1>6. Identified'
  BY <1>1, <1>2, <1>3, <1>5 DEF OrphanInv, Identified
<1>7. NoOrphanPending'
  <2> SUFFICES ASSUME NEW i \in 1 .. reqCount, req'[i].status = "PENDING"
               PROVE  \E q \in Pids : /\ user[q] = req'[i].source_username
                                      /\ Serving(q)'
    BY <1>1 DEF NoOrphanPending, Serving
  <2>1. PICK q \in Pids : user[q] = req[i].source_username /\ Serving(q)
    BY <1>5 DEF OrphanInv, NoOrphanPending, Serving
  <2>2. q # p
    BY <1>5, <2>1
  <2> QED  BY <1>3, <1>5, <2>1, <2>2 DEF Serving, Running
<1> QED  BY <1>6, <1>7 DEF OrphanInv

(* Without crashes every step keeps the invariant.                           *)
LEMMA OrphanNext ==
  ASSUME ~MayCrash
  PROVE  OrphanInv /\ [Next]_vars => OrphanInv'
<1> SUFFICES ASSUME OrphanInv, [Next]_vars PROVE OrphanInv'
  OBVIOUS
<1>0. TypeOK'
  BY NextType DEF OrphanInv
<1>1. ASSUME NEW p \in Pids, ChildStep(p) PROVE OrphanInv'
  BY <1>0, <1>1, OrphanRefused, OrphanLogin, OrphanQuiet, OrphanAdd,
     OrphanTake, OrphanClose DEF ChildStep
<1>2. CASE collect_stale_sessions \/ UNCHANGED vars
  <2>1. UNCHANGED <<pc, user, req, reqCount, cmd>>
    BY <1>2 DEF collect_stale_sessions, vars
  <2> QED  BY <1>0, <2>1, OrphanStay
<1>3. ASSUME NEW p \in Pids,
             \/ Connect(p) \/ ClientStep(p) \/ ReadNotification(p)
             \/ Crash(p) \/ handle_signals(p)
      PROVE  OrphanInv'
  BY <1>0, <1>3, OrphanClient, OrphanQuiet DEF Crash
<1> QED  BY <1>1, <1>2, <1>3 DEF Next

(* When children end by their own code only, a pending request always has a  *)
(* session of its sender that will fail it on its way out.                   *)
THEOREM NoOrphans == ASSUME ~MayCrash PROVE Spec => []NoOrphanPending
<1>1. OrphanInv /\ [Next]_vars => OrphanInv'
  BY OrphanNext
<1>2. OrphanInv => NoOrphanPending
  BY DEF OrphanInv
<1> QED  BY <1>1, <1>2, OrphanInit, PTL DEF Spec

-----------------------------------------------------------------------------
(* Entries of sessions.  A pid is recorded once, after its login, and only    *)
(* the collection of dead pids takes entries away.                            *)

(* The child p has recorded its session, as far as the table had room.       *)
LoggedIn(p) == user[p] # NoUser /\ Running(p) /\ pc[p] # "login_add"

Listed(p) ==
    \E i \in 1 .. sessCount :
        sess[i] = [username |-> user[p], pid |-> p, in_use |-> TRUE]

(* Nobody is logged in before the connection.                                *)
NotBefore == \A p \in Pids : pc[p] = "none" => user[p] = NoUser

(* A child that is about to record its session is not in the table, and no   *)
(* child is in it twice.                                                     *)
RecordedOnce ==
    /\ \A i \in 1 .. sessCount :
          sess[i].in_use => pc[sess[i].pid] # "login_add"
    /\ \A i, j \in 1 .. sessCount :
          sess[i].in_use /\ sess[j].in_use /\ sess[i].pid = sess[j].pid => i = j

(* The inductive invariant behind LiveSessionListed, for any table; the      *)
(* theorem adds that the table has room.                                     *)
RecordInv == AddressInv /\ NotBefore /\ RecordedOnce

(* What a step other than LoginAdd may do to q: log it in, move it on, or    *)
(* end it.                                                                   *)
SessionStep(q) ==
    /\ user[q] # NoUser => user'[q] = user[q]
    /\ pc'[q] = "login_add" => pc[q] = "login_add" \/ user[q] = NoUser
    /\ pc'[q] = "none" => pc[q] = "none" /\ user'[q] = user[q]
    /\ LoggedIn(q)' => LoggedIn(q)

(* A child that goes from one place of its own to another.                   *)
LEMMA SessionMove ==
  ASSUME TypeOK, NEW p \in Pids, NEW label, label \notin {"none", "login_add"},
         Goto(p, label), UNCHANGED user,
         \/ label \in {"dead", "reaped"}
         \/ Running(p) /\ pc[p] # "login_add"
         \/ user[p] = NoUser
  PROVE  \A q \in Pids : SessionStep(q)
BY DEF SessionStep, LoggedIn, Running, Goto, TypeOK

(* Every step but the recording of a session.                                *)
LEMMA SessionSteps ==
  ASSUME RecordInv, [Next]_vars, \A p \in Pids : ~LoginAdd(p)
  PROVE  \A q \in Pids : SessionStep(q)
<1>0. TypeOK
  BY DEF RecordInv, AddressInv
<1>1. ASSUME UNCHANGED <<pc, user>> PROVE \A q \in Pids : SessionStep(q)
  BY <1>1 DEF SessionStep, LoggedIn, Running
<1>2. ASSUME NEW p \in Pids, ClientStep(p) \/ ReadNotification(p)
      PROVE  UNCHANGED <<pc, user>>
  BY <1>2 DEF ClientStep, Send, recv_response, ReadUnsolicited, ClientClose,
              ReadNotification
<1>3. ASSUME NEW p \in Pids,
             \/ LoginRefused(p) \/ LoginRequired(p) \/ OtherCommand(p)
             \/ TransferRefused(p) \/ AnswerRefused(p)
      PROVE  UNCHANGED <<pc, user>>
  BY <1>3 DEF LoginRefused, LoginRequired, OtherCommand, TransferRefused,
              AnswerRefused, AnswerOnly, Receive
<1>4. ASSUME NEW p \in Pids, handle_login(p) PROVE \A q \in Pids : SessionStep(q)
  BY <1>0, <1>4 DEF handle_login, SessionStep, LoggedIn, Running, Goto, TypeOK
<1>5. ASSUME NEW p \in Pids, Connect(p) PROVE \A q \in Pids : SessionStep(q)
  <2>1. Goto(p, "select") /\ UNCHANGED user /\ user[p] = NoUser
    BY <1>5 DEF Connect, RecordInv, NotBefore
  <2> QED  BY <1>0, <2>1, SessionMove
<1>6. ASSUME NEW p \in Pids,
             Eof(p) \/ CloseFail(p) \/ CloseFifo(p) \/ Crash(p) \/ handle_signals(p)
      PROVE  \A q \in Pids : SessionStep(q)
  <2>1. UNCHANGED user
    BY <1>6 DEF Eof, CloseFail, CloseFifo, Crash, handle_signals
  <2>2. \/ Goto(p, "dead") \/ Goto(p, "reaped")
        \/ /\ Goto(p, "close_fail") \/ Goto(p, "close_fifo")
           /\ Running(p) /\ pc[p] # "login_add"
    BY <1>6 DEF Eof, CloseFail, CloseFifo, Crash, handle_signals, Running
  <2> QED  BY <1>0, <2>1, <2>2, SessionMove
<1>7. ASSUME NEW p \in Pids,
             \/ LoginScan(p) \/ LoginNotify(p) \/ TransferFind(p)
             \/ TransferAdd(p) \/ TransferNotify(p)
             \/ AcceptTake(p) \/ RejectTake(p) \/ AcceptFind(p) \/ AcceptCopy(p)
             \/ AcceptSet(p) \/ AcceptNotify(p) \/ RejectFind(p) \/ RejectNotify(p)
      PROVE  \A q \in Pids : SessionStep(q)
  <2>1. UNCHANGED user /\ Running(p) /\ pc[p] # "login_add"
    BY <1>7 DEF LoginScan, LoginNotify, TransferFind, TransferAdd,
       TransferNotify, AcceptTake, RejectTake, TakeRequest, Receive, AcceptFind,
       RejectFind, FindSource, AcceptCopy, AcceptSet, AcceptNotify,
       RejectNotify, AnswerSource, Running
  <2>2. \/ UNCHANGED pc
        \/ \E label \in {"login_notify", "select", "req_add", "req_notify",
                         "acc_find", "acc_copy", "acc_set", "acc_notify",
                         "rej_find", "rej_notify"} : Goto(p, label)
    BY <1>7 DEF LoginScan, LoginNotify, TransferFind, TransferAdd,
       TransferNotify, AcceptTake, RejectTake, TakeRequest, AcceptFind,
       RejectFind, FindSource, AcceptCopy, AcceptSet, AcceptNotify,
       RejectNotify, AnswerSource, Return
  <2> QED  BY <1>0, <1>1, <2>1, <2>2, SessionMove
<1>8. CASE collect_stale_sessions \/ UNCHANGED vars
  BY <1>1, <1>8 DEF collect_stale_sessions, vars
<1> QED
  BY <1>1, <1>2, <1>3, <1>4, <1>5, <1>6, <1>7, <1>8 DEF Next, ChildStep

(* The recording of a session: it takes a free entry of the table, or none.  *)
LEMMA SessionAdded ==
  ASSUME TypeOK, NEW u, NEW p, shm_session_add(u, p)
  PROVE  \/ SessionsFull /\ UNCHANGED <<sess, sessCount>>
         \/ \E k \in 1 .. sessCount' :
               /\ k \in 1 .. sessCount => ~sess[k].in_use
               /\ sess'[k] = [username |-> u, pid |-> p, in_use |-> TRUE]
               /\ \A i \in 1 .. sessCount' :
                     i # k => i \in 1 .. sessCount /\ sess'[i] = sess[i]
               /\ sessCount <= sessCount'
<1> DEFINE e == [username |-> u, pid |-> p, in_use |-> TRUE]
<1>1. /\ sess \in [Slots -> session_entry_t]
      /\ sessCount \in 0 .. MAX_ENTRIES /\ MAX_ENTRIES \in Nat
  BY ShmAssumption DEF TypeOK, ShmTypeOK
<1> HIDE DEF e
<1>2. CASE FreeSessions # {}
  <2>1. FreeSessions \in SUBSET Nat
    BY DEF FreeSessions
  <2>2. PICK k \in Nat : k = Min(FreeSessions) /\ k \in FreeSessions
    BY <1>2, <2>1, MinIn
  <2>3. sess' = [sess EXCEPT ![k] = e] /\ sessCount' = sessCount
    BY <1>2, <2>2 DEF shm_session_add, SessionsFull, e
  <2>4. k \in 1 .. sessCount /\ ~sess[k].in_use
    BY <2>2 DEF FreeSessions
  <2>5. sess'[k] = e /\ \A i \in 1 .. sessCount : i # k => sess'[i] = sess[i]
    BY <1>1, <2>3, <2>4
  <2> QED  BY <1>1, <2>3, <2>4, <2>5 DEF e
<1>3. CASE FreeSessions = {} /\ sessCount < MAX_ENTRIES
  <2>1. sess' = [sess EXCEPT ![sessCount + 1] = e] /\ sessCount' = sessCount + 1
    BY <1>1, <1>3 DEF shm_session_add, SessionsFull, e
  <2>2. sess'[sessCount + 1] = e /\ \A i \in 1 .. sessCount : sess'[i] = sess[i]
    BY <1>1, <1>3, <2>1
  <2>3. /\ sessCount + 1 \in 1 .. sessCount'
        /\ sessCount + 1 \notin 1 .. sessCount
        /\ \A i \in 1 .. sessCount' : i # sessCount + 1 => i \in 1 .. sessCount
        /\ sessCount <= sessCount'
    BY <1>1, <2>1
  <2> QED  BY <2>2, <2>3 DEF e
<1>4. CASE SessionsFull
  BY <1>1, <1>4 DEF shm_session_add, SessionsFull, sessVars
<1>5. FreeSessions # {} \/ sessCount < MAX_ENTRIES \/ SessionsFull
  BY <1>1 DEF SessionsFull
<1> QED  BY <1>2, <1>3, <1>4, <1>5

(* Only these steps touch the session table.                                 *)
LEMMA TableAlone ==
  ASSUME [Next]_vars, \A p \in Pids : ~LoginAdd(p), ~collect_stale_sessions
  PROVE  UNCHANGED <<sess, sessCount>>
<1>1. CASE \E q \in Pids : Connect(q) \/ ClientStep(q) \/ ReadNotification(q)
                           \/ Crash(q) \/ handle_signals(q)
  BY <1>1 DEF Connect, ClientStep, Send, recv_response, ReadUnsolicited,
     ClientClose, ReadNotification, Crash, handle_signals
<1>2. ASSUME NEW q \in Pids, ChildStep(q) PROVE UNCHANGED <<sess, sessCount>>
  BY <1>2 DEF ChildStep, LoginRefused, handle_login, LoginScan,
     LoginNotify, LoginRequired, OtherCommand, TransferRefused, TransferFind,
     TransferAdd, TransferNotify, AcceptTake, RejectTake, TakeRequest,
     AnswerRefused, AnswerOnly, AcceptFind, RejectFind, FindSource,
     AcceptCopy, AcceptSet, AcceptNotify, RejectNotify, AnswerSource, Eof,
     CloseFail, CloseFifo
<1>3. CASE UNCHANGED vars
  BY <1>3 DEF vars
<1> QED  BY <1>1, <1>2, <1>3 DEF Next

(* No step takes the entry of a session away while its child runs.           *)
LEMMA ListedStep ==
  ASSUME RecordInv, [Next]_vars, NEW p \in Pids, LoggedIn(p), Listed(p), Running(p)'
  PROVE  Listed(p)'
<1>0. /\ TypeOK /\ NoPid \notin Pids
      /\ sessCount \in Nat
  BY ShmAssumption DEF RecordInv, AddressInv, TypeOK, ShmTypeOK
<1>1. user'[p] = user[p]
  <2>1. CASE \E q \in Pids : LoginAdd(q)
    BY <2>1 DEF LoginAdd
  <2> QED  BY <2>1, SessionSteps DEF SessionStep, LoggedIn
<1>2. PICK i \in 1 .. sessCount :
          sess[i] = [username |-> user[p], pid |-> p, in_use |-> TRUE]
  BY DEF Listed
<1>3. ASSUME UNCHANGED <<sess, sessCount>> PROVE Listed(p)'
  BY <1>1, <1>3 DEF Listed
<1>4. ASSUME NEW q \in Pids, LoginAdd(q) PROVE Listed(p)'
  <2>1. shm_session_add(user[q], q)
    BY <1>4 DEF LoginAdd
  <2>2. CASE UNCHANGED <<sess, sessCount>>
    BY <1>3, <2>2
  <2>3. CASE ~UNCHANGED <<sess, sessCount>>
    <3>1. PICK k \in 1 .. sessCount' :
             /\ k \in 1 .. sessCount => ~sess[k].in_use
             /\ \A j \in 1 .. sessCount' : j # k => sess'[j] = sess[j]
             /\ sessCount <= sessCount'
      BY <1>0, <2>1, <2>3, SessionAdded
    <3>2. i # k
      BY <1>2, <3>1
    <3>3. sessCount' \in Nat
      BY <1>0, <2>1 DEF shm_session_add, sessVars
    <3>4. i \in 1 .. sessCount' /\ sess'[i] = sess[i]
      BY <1>0, <3>1, <3>2, <3>3
    <3> QED  BY <1>1, <1>2, <3>4 DEF Listed
  <2> QED  BY <2>2, <2>3
<1>5. CASE collect_stale_sessions
  <2>1. PICK gone \in SUBSET {q \in Pids : pc[q] = "reaped"} :
            shm_sessions_collect_stale(gone)
    BY <1>5 DEF collect_stale_sessions
  <2>2. p \notin gone
    BY DEF LoggedIn, Running
  <2>3. i \in Slots
    BY <1>0, ShmAssumption DEF TypeOK, ShmTypeOK
  <2>4. sess'[i] = sess[i] /\ sessCount' = sessCount
    BY <1>2, <2>1, <2>2, <2>3 DEF shm_sessions_collect_stale
  <2> QED  BY <1>1, <1>2, <2>4 DEF Listed
<1> QED  BY <1>3, <1>4, <1>5, TableAlone

(* Nobody is in the table.                                                   *)
LEMMA RecordInit == Init => RecordInv
<1> SUFFICES ASSUME Init PROVE RecordInv
  OBVIOUS
<1>1. AddressInv
  BY AddressInit
<1>2. NotBefore /\ RecordedOnce
  BY DEF Init, setup_shmem, NotBefore, RecordedOnce
<1> QED  BY <1>1, <1>2 DEF RecordInv

(* A session is recorded by the child that is about to do so, for the first  *)
(* time.                                                                     *)
LEMMA RecordAdd ==
  ASSUME RecordInv, NEW p \in Pids, LoginAdd(p)
  PROVE  NotBefore' /\ RecordedOnce'
<1>0. TypeOK
  BY DEF RecordInv, AddressInv
<1>1. /\ UNCHANGED user
      /\ pc[p] = "login_add"
      /\ pc'[p] = "login_scan"
      /\ \A q \in Pids : q # p => pc'[q] = pc[q]
      /\ shm_session_add(user[p], p)
  BY <1>0 DEF LoginAdd, Goto, TypeOK
<1>2. NotBefore'
  BY <1>1 DEF RecordInv, NotBefore
<1>3. \A i \in 1 .. sessCount : sess[i].in_use => sess[i].pid \in Pids \ {p}
  <2>1. \A i \in 1 .. sessCount : i \in Slots
    BY <1>0, ShmAssumption DEF TypeOK, ShmTypeOK
  <2> QED  BY <1>1, <2>1 DEF RecordInv, RecordedOnce, AddressInv, SessionsRight, Serves
<1>4. CASE UNCHANGED <<sess, sessCount>>
  <2>1. \A i \in 1 .. sessCount : sess[i].in_use => pc'[sess[i].pid] # "login_add"
    BY <1>1, <1>3 DEF RecordInv, RecordedOnce
  <2> QED  BY <1>2, <1>4, <2>1 DEF RecordInv, RecordedOnce
<1>5. CASE ~UNCHANGED <<sess, sessCount>>
  <2>1. PICK k \in 1 .. sessCount' :
           /\ sess'[k] = [username |-> user[p], pid |-> p, in_use |-> TRUE]
           /\ \A i \in 1 .. sessCount' :
                 i # k => i \in 1 .. sessCount /\ sess'[i] = sess[i]
    BY <1>0, <1>1, <1>5, SessionAdded
  <2>2. sess'[k].pid = p /\ pc'[p] # "login_add"
    BY <1>1, <2>1
  <2>3. \A i \in 1 .. sessCount' : sess'[i].in_use /\ i # k =>
           /\ i \in 1 .. sessCount /\ sess'[i] = sess[i]
           /\ sess'[i].pid \in Pids \ {p}
    BY <1>3, <2>1
  <2>4. \A i \in 1 .. sessCount' : sess'[i].in_use => pc'[sess'[i].pid] # "login_add"
    <3>1. \A i \in 1 .. sessCount : sess[i].in_use => pc[sess[i].pid] # "login_add"
      BY DEF RecordInv, RecordedOnce
    <3> QED  BY <1>1, <2>2, <2>3, <3>1
  <2>5. ASSUME NEW i \in 1 .. sessCount', NEW j \in 1 .. sessCount',
               sess'[i].in_use, sess'[j].in_use, sess'[i].pid = sess'[j].pid
        PROVE  i = j
    <3>1. i = k <=> j = k
      BY <2>2, <2>3, <2>5
    <3>2. CASE i # k
      <4>1. /\ i \in 1 .. sessCount /\ j \in 1 .. sessCount
            /\ sess[i].in_use /\ sess[j].in_use /\ sess[i].pid = sess[j].pid
        BY <2>3, <2>5, <3>1, <3>2
      <4> QED  BY <4>1 DEF RecordInv, RecordedOnce
    <3> QED  BY <3>1, <3>2
  <2> QED  BY <1>2, <2>4, <2>5 DEF RecordedOnce
<1> QED  BY <1>4, <1>5

(* Every step keeps the sessions recorded once.                              *)
LEMMA RecordNext == RecordInv /\ [Next]_vars => RecordInv'
<1> SUFFICES ASSUME RecordInv, [Next]_vars PROVE RecordInv'
  OBVIOUS
<1>0. AddressInv' /\ TypeOK
  BY AddressNext DEF RecordInv, AddressInv
<1>s. \A i \in 1 .. sessCount : i \in Slots
  BY <1>0, ShmAssumption DEF TypeOK, ShmTypeOK
<1>1. CASE \E p \in Pids : LoginAdd(p)
  BY <1>0, <1>1, RecordAdd DEF RecordInv
<1>2. CASE \A p \in Pids : ~LoginAdd(p)
  <2>1. \A q \in Pids : SessionStep(q)
    BY <1>2, SessionSteps
  <2>2. NotBefore'
    BY <2>1 DEF RecordInv, NotBefore, SessionStep
  <2>3. /\ sessCount' = sessCount
        /\ \A i \in 1 .. sessCount : sess'[i] = sess[i] \/ sess'[i] = FreeSession
    <3>1. CASE collect_stale_sessions
      BY <1>s, <3>1 DEF collect_stale_sessions, shm_sessions_collect_stale
    <3>2. CASE ~collect_stale_sessions
      BY <1>2, <3>2, TableAlone
    <3> QED  BY <3>1, <3>2
  <2>4. RecordedOnce'
    <3>1. \A i \in 1 .. sessCount : sess'[i].in_use =>
             /\ sess'[i] = sess[i] /\ sess[i].in_use
             /\ sess[i].pid \in Pids /\ user[sess[i].pid] # NoUser
      BY <1>s, <2>3 DEF FreeSession, RecordInv, AddressInv, SessionsRight, Serves
    <3> QED  BY <2>1, <2>3, <3>1 DEF RecordInv, RecordedOnce, SessionStep
  <2> QED  BY <1>0, <2>2, <2>4 DEF RecordInv
<1> QED  BY <1>1, <1>2

(* With as many entries as there are connections, each of which records its  *)
(* session once, a child finds room for its own.                             *)
LEMMA RoomForSession ==
  ASSUME RecordInv, IsFiniteSet(Pids), Cardinality(Pids) <= MAX_ENTRIES,
         NEW p \in Pids, pc[p] = "login_add"
  PROVE  ~SessionsFull
<1> SUFFICES ASSUME SessionsFull PROVE FALSE
  OBVIOUS
<1> DEFINE Others == Pids \ {p}
           f == [i \in 1 .. MAX_ENTRIES |-> sess[i].pid]
<1>1. MAX_ENTRIES \in Nat /\ sessCount = MAX_ENTRIES
  BY ShmAssumption DEF SessionsFull
<1>2. \A i \in 1 .. MAX_ENTRIES : sess[i].in_use
  BY <1>1 DEF SessionsFull, FreeSessions
<1>3. \A i \in 1 .. MAX_ENTRIES : sess[i].pid \in Others
  BY <1>1, <1>2 DEF RecordInv, RecordedOnce, AddressInv, SessionsRight, Serves
<1>4. f \in [1 .. MAX_ENTRIES -> Others]
  BY <1>3
<1>5. \A i, j \in 1 .. MAX_ENTRIES : i # j => f[i] # f[j]
  BY <1>1, <1>2 DEF RecordInv, RecordedOnce
<1>6. /\ IsFiniteSet(Others)
      /\ Cardinality(Others) = Cardinality(Pids) - 1
      /\ Cardinality(Pids) \in Nat
  BY FS_RemoveElement, FS_CardinalityType
<1>7. IsFiniteSet(1 .. MAX_ENTRIES) /\ Cardinality(1 .. MAX_ENTRIES) = MAX_ENTRIES
  BY <1>1, FS_Interval
<1> HIDE DEF f, Others
<1>8. Cardinality(Others) < Cardinality(1 .. MAX_ENTRIES)
  BY <1>1, <1>6, <1>7
<1>9. PICK i, j \in 1 .. MAX_ENTRIES : i # j /\ f[i] = f[j]
  BY <1>4, <1>6, <1>7, <1>8, FS_PigeonHole
<1> QED  BY <1>5, <1>9

(* An entry of the session table is never overwritten by another session,    *)
(* nor collected, while its child runs: whatever the size of the table, also *)
(* when children are killed.                                                 *)
THEOREM SessionsKept ==
  Spec => [][\A p \in Pids : LoggedIn(p) /\ Listed(p) /\ Running(p)' => Listed(p)']_vars
<1>1. RecordInv /\ [Next]_vars =>
        [\A p \in Pids : LoggedIn(p) /\ Listed(p) /\ Running(p)' => Listed(p)']_vars
  BY ListedStep
<1> QED  BY <1>1, RecordInit, RecordNext, PTL DEF Spec

(* While the table has room, so does every session that is logged in.        *)
LEMMA ListedNext ==
  ASSUME IsFiniteSet(Pids), Cardinality(Pids) <= MAX_ENTRIES,
         RecordInv, LiveSessionListed, [Next]_vars
  PROVE  LiveSessionListed'
<1> SUFFICES ASSUME NEW p \in Pids, LoggedIn(p)' PROVE Listed(p)'
  BY DEF LiveSessionListed, LoggedIn, Listed
<1>0. TypeOK
  BY DEF RecordInv, AddressInv
<1>1. CASE LoggedIn(p)
  <2>1. Listed(p)
    BY <1>1 DEF LiveSessionListed, LoggedIn, Listed
  <2> QED  BY <1>1, <2>1, ListedStep DEF LoggedIn
<1>2. CASE ~LoggedIn(p)
  <2>1. PICK q \in Pids : LoginAdd(q)
    BY <1>2, SessionSteps DEF SessionStep
  <2>2. q = p
    BY <1>0, <1>2, <2>1 DEF LoginAdd, Goto, TypeOK, LoggedIn, Running
  <2>3. /\ pc[p] = "login_add" /\ shm_session_add(user[p], p) /\ user' = user
    BY <2>1, <2>2 DEF LoginAdd
  <2>4. ~SessionsFull
    BY <2>3, RoomForSession
  <2>5. \E k \in 1 .. sessCount' :
           sess'[k] = [username |-> user[p], pid |-> p, in_use |-> TRUE]
    BY <1>0, <2>3, <2>4, SessionAdded
  <2> QED  BY <2>3, <2>5 DEF Listed
<1> QED  BY <1>1, <1>2

(* While the table is large enough for every connection, a child that is     *)
(* logged in is found in it until it ends.                                   *)
THEOREM SessionsListed ==
  ASSUME IsFiniteSet(Pids), Cardinality(Pids) <= MAX_ENTRIES
  PROVE  Spec => []LiveSessionListed
<1> DEFINE Inv == RecordInv /\ LiveSessionListed
<1>1. Init => Inv
  BY RecordInit DEF Init, LiveSessionListed, Running
<1>2. Inv /\ [Next]_vars => Inv'
  BY RecordNext, ListedNext
<1> QED  BY <1>1, <1>2, PTL DEF Spec

-----------------------------------------------------------------------------
(* Room in the FIFOs.  Each request makes the server write at most three      *)
(* lines into one FIFO: the REQ line of the child that added it, another one  *)
(* when its receiver logs in meanwhile, and the line that answers it.         *)

Issuing == {p \in Pids : cmd[p].op = "transfer"}
Adding == {p \in Pids : pc[p] = "req_add"}
Announcing == {p \in Pids : pc[p] = "req_notify"}
Answering == {p \in Pids : Holding(p)}
Pending == {i \in 1 .. reqCount : req[i].status = "PENDING"}

(* No FIFO is full.                                                          *)
FifosHaveRoom == \A q \in Pids : Len(fifo[q]) < FifoCap

(* Requests whose answer is still to be written.                             *)
Unanswered == Cardinality(Pending) + Cardinality(Answering)

(* Lines for q that stand in its FIFO, or that its login is about to write.  *)
Lines(q) == Len(fifo[q]) + Cardinality(todo[q])

(* The scan of the table is ahead of q.                                      *)
BeforeScan(q) == user[q] = NoUser \/ pc[q] \in {"login_add", "login_scan"}

(* What the login of q adds to its lines.                                    *)
Welcome(q) == IF BeforeScan(q) THEN 0 ELSE MaxReqs

(* The bound of Send, at the table and at each FIFO.                         *)
IssueBound ==
    nextId + Cardinality(Issuing) + Cardinality(Adding) <= MaxReqs + 1

AnswerBound == Unanswered + 1 <= nextId

LineBound ==
    \A q \in Pids :
        /\ IsFiniteSet(todo[q])
        /\ Lines(q) + Cardinality(Announcing) + Unanswered + 2
              <= Welcome(q) + 2 * nextId

(* A child past its login has a user.                                        *)
Named ==
    \A p \in Pids :
        pc[p] \notin {"none", "select", "dead", "reaped"} => user[p] # NoUser

(* The inductive invariant behind RoomInFifos.                               *)
RoomInv ==
    /\ TransferInv
    /\ AddressInv
    /\ Named
    /\ IssueBound
    /\ AnswerBound
    /\ LineBound

(* A subset is finite and not larger.                                        *)
LEMMA NoMore ==
  ASSUME NEW S, IsFiniteSet(S), NEW T, T \subseteq S
  PROVE  /\ IsFiniteSet(T)
         /\ Cardinality(T) \in Nat /\ Cardinality(S) \in Nat
         /\ Cardinality(T) <= Cardinality(S)
BY FS_Subset, FS_CardinalityType

(* One element more, at most.                                                *)
LEMMA OneMoreAtMost ==
  ASSUME NEW S, IsFiniteSet(S), NEW x, NEW T, T \subseteq S \cup {x}
  PROVE  /\ IsFiniteSet(T)
         /\ Cardinality(T) \in Nat /\ Cardinality(S) \in Nat
         /\ Cardinality(T) <= Cardinality(S) + 1
<1>1. /\ IsFiniteSet(S \cup {x})
      /\ Cardinality(S) \in Nat
      /\ Cardinality(S \cup {x}) <= Cardinality(S) + 1
      /\ Cardinality(S \cup {x}) \in Nat
  BY FS_AddElement, FS_CardinalityType
<1>2. /\ IsFiniteSet(T) /\ Cardinality(T) \in Nat
      /\ Cardinality(T) <= Cardinality(S \cup {x})
  BY <1>1, NoMore
<1> QED  BY <1>1, <1>2

(* One element less, at least.                                               *)
LEMMA OneLessAtLeast ==
  ASSUME NEW S, IsFiniteSet(S), NEW x \in S, NEW T, T \subseteq S \ {x}
  PROVE  /\ IsFiniteSet(T)
         /\ Cardinality(T) \in Nat /\ Cardinality(S) \in Nat
         /\ Cardinality(T) + 1 <= Cardinality(S)
<1>1. /\ IsFiniteSet(S \ {x})
      /\ Cardinality(S) \in Nat
      /\ Cardinality(S \ {x}) \in Nat
      /\ Cardinality(S \ {x}) = Cardinality(S) - 1
  BY FS_RemoveElement, FS_CardinalityType
<1>2. /\ IsFiniteSet(T) /\ Cardinality(T) \in Nat
      /\ Cardinality(T) <= Cardinality(S \ {x})
  BY <1>1, NoMore
<1> QED  BY <1>1, <1>2

(* All sets that are counted are finite.                                     *)
LEMMA Counts ==
  ASSUME TypeOK, IsFiniteSet(Pids)
  PROVE  /\ \A S \in {Issuing, Adding, Announcing, Answering, Pending} :
              IsFiniteSet(S) /\ Cardinality(S) \in Nat
         /\ nextId \in Nat /\ MaxReqs \in Nat /\ reqCount \in Nat
         /\ \A q \in Pids : Len(fifo[q]) \in Nat
<1>1. /\ Issuing \subseteq Pids /\ Adding \subseteq Pids
      /\ Announcing \subseteq Pids /\ Answering \subseteq Pids
  BY DEF Issuing, Adding, Announcing, Answering
<1>2. /\ nextId \in Nat /\ MaxReqs \in Nat /\ reqCount \in Nat
      /\ \A q \in Pids : Len(fifo[q]) \in Nat
  BY ShmAssumption, TransferAssumption DEF TypeOK, ShmTypeOK
<1>3. IsFiniteSet(1 .. reqCount) /\ Pending \subseteq 1 .. reqCount
  BY <1>2, FS_Interval DEF Pending
<1> QED  BY <1>1, <1>2, <1>3, NoMore

(* Who issues a transfer request, or is about to add one, did so before.     *)
IssueStep(q) ==
    /\ cmd'[q].op = "transfer" => cmd[q].op = "transfer"
    /\ pc'[q] = "req_add" => pc[q] = "req_add"

(* Every step but the three that take a request from its client to the table. *)
LEMMA IssueQuiet ==
  ASSUME TypeOK, [Next]_vars,
         \A p \in Pids : /\ \A c \in Commands(p) : ~Send(p, c)
                         /\ ~TransferFind(p)
                         /\ ~TransferAdd(p)
  PROVE  nextId' = nextId /\ \A q \in Pids : IssueStep(q)
<1>1. ASSUME NEW p \in Pids,
             cmd' = cmd \/ cmd' = [cmd EXCEPT ![p] = NoCmd],
             \/ UNCHANGED pc
             \/ \E label \in PCs \ {"req_add"} : Goto(p, label)
      PROVE  \A q \in Pids : IssueStep(q)
  <2>0. \A q \in Pids : cmd'[q] = cmd[q] \/ cmd'[q] = NoCmd
    BY <1>1 DEF TypeOK
  <2>1. \A q \in Pids : cmd'[q].op = "transfer" => cmd[q].op = "transfer"
    BY <2>0 DEF NoCmd
  <2>2. \A q \in Pids : pc'[q] = "req_add" => pc[q] = "req_add"
    BY <1>1 DEF TypeOK, Goto
  <2> QED  BY <2>1, <2>2 DEF IssueStep
<1>p. {"select", "login_add", "login_scan", "login_notify", "acc_find",
       "acc_copy", "acc_set", "acc_notify", "rej_find", "rej_notify",
       "req_notify", "close_fail", "close_fifo", "dead", "reaped"}
         \subseteq PCs \ {"req_add"}
  BY DEF PCs
<1>2. ASSUME NEW p \in Pids, ClientStep(p) \/ ReadNotification(p)
      PROVE  nextId' = nextId /\ \A q \in Pids : IssueStep(q)
  <2>1. UNCHANGED <<nextId, cmd, pc>>
    BY <1>2 DEF ClientStep, recv_response, ReadUnsolicited, ClientClose,
                ReadNotification
  <2> QED  BY <2>1 DEF IssueStep
<1>3. ASSUME NEW p \in Pids,
             \/ LoginRefused(p) \/ LoginRequired(p) \/ OtherCommand(p)
             \/ TransferRefused(p) \/ AnswerRefused(p)
      PROVE  nextId' = nextId /\ \A q \in Pids : IssueStep(q)
  <2>1. UNCHANGED <<nextId, pc>> /\ cmd' = [cmd EXCEPT ![p] = NoCmd]
    BY <1>3 DEF LoginRefused, LoginRequired, OtherCommand, TransferRefused,
                AnswerRefused, AnswerOnly, Receive
  <2> QED  BY <1>1, <2>1
<1>4. ASSUME NEW p \in Pids,
             \/ Connect(p) \/ handle_login(p) \/ LoginAdd(p) \/ LoginScan(p)
             \/ LoginNotify(p) \/ Eof(p) \/ CloseFail(p) \/ CloseFifo(p)
             \/ Crash(p) \/ handle_signals(p)
      PROVE  nextId' = nextId /\ \A q \in Pids : IssueStep(q)
  <2>1. nextId' = nextId /\ (cmd' = cmd \/ cmd' = [cmd EXCEPT ![p] = NoCmd])
    BY <1>4 DEF Connect, handle_login, Receive, LoginAdd, LoginScan,
       LoginNotify, Eof, CloseFail, shm_requests_set_failed, CloseFifo, Crash,
       handle_signals
  <2>2. \/ UNCHANGED pc
        \/ \E label \in {"select", "login_add", "login_scan", "login_notify",
                         "close_fail", "close_fifo", "dead", "reaped"} :
              Goto(p, label)
    BY <1>4 DEF Connect, handle_login, LoginAdd, LoginScan, LoginNotify,
       Return, Eof, CloseFail, CloseFifo, Crash, handle_signals
  <2> QED  BY <1>1, <1>p, <2>1, <2>2
<1>5. ASSUME NEW p \in Pids,
             \/ TransferNotify(p) \/ AcceptTake(p) \/ RejectTake(p)
             \/ AcceptFind(p) \/ RejectFind(p) \/ AcceptCopy(p) \/ AcceptSet(p)
             \/ AcceptNotify(p) \/ RejectNotify(p)
      PROVE  nextId' = nextId /\ \A q \in Pids : IssueStep(q)
  <2>1. nextId' = nextId /\ (cmd' = cmd \/ cmd' = [cmd EXCEPT ![p] = NoCmd])
    BY <1>5 DEF TransferNotify, AcceptTake, RejectTake, TakeRequest, Receive,
       shm_request_take, AcceptFind, RejectFind, FindSource, AcceptCopy,
       AcceptSet, shm_request_set, AcceptNotify, RejectNotify, AnswerSource
  <2>2. \E label \in {"select", "acc_find", "acc_copy", "acc_set",
                      "acc_notify", "rej_find", "rej_notify"} : Goto(p, label)
    BY <1>5 DEF TransferNotify, AcceptTake, RejectTake, TakeRequest,
       AcceptFind, RejectFind, FindSource, AcceptCopy, AcceptSet,
       AcceptNotify, RejectNotify, AnswerSource, Return
  <2> QED  BY <1>1, <1>p, <2>1, <2>2
<1>6. ASSUME collect_stale_sessions \/ UNCHANGED vars
      PROVE  nextId' = nextId /\ \A q \in Pids : IssueStep(q)
  <2>1. UNCHANGED <<nextId, cmd, pc>>
    BY <1>6 DEF collect_stale_sessions, vars
  <2> QED  BY <2>1 DEF IssueStep
<1> QED
  BY <1>2, <1>3, <1>4, <1>5, <1>6 DEF Next, ChildStep

(* A request counts once on its way from the client to the table.            *)
LEMMA IssueNext ==
  ASSUME IsFiniteSet(Pids), TypeOK, TypeOK', IssueBound, [Next]_vars
  PROVE  IssueBound'
<1>0. /\ IsFiniteSet(Issuing) /\ Cardinality(Issuing) \in Nat
      /\ IsFiniteSet(Adding) /\ Cardinality(Adding) \in Nat
      /\ nextId \in Nat /\ MaxReqs \in Nat
  BY Counts
<1>1. ASSUME NEW p \in Pids, NEW c \in Commands(p), Send(p, c)
      PROVE  IssueBound'
  <2>1. /\ cmd' = [cmd EXCEPT ![p] = c]
        /\ UNCHANGED <<pc, nextId>>
        /\ c.op = "transfer" => nextId + IssuedTransfers <= MaxReqs
    BY <1>1 DEF Send
  <2>2. \A q \in Pids : cmd'[q] = IF q = p THEN c ELSE cmd[q]
    BY <2>1 DEF TypeOK
  <2>3. Adding' = Adding
    BY <2>1 DEF Adding
  <2>4. CASE c.op = "transfer"
    <3>1. nextId + (Cardinality(Issuing) + Cardinality(Adding)) <= MaxReqs
      BY <2>1, <2>4 DEF IssuedTransfers, Issuing, Adding
    <3>2. Issuing' \subseteq Issuing \cup {p}
      BY <2>2 DEF Issuing
    <3>3. /\ Cardinality(Issuing') \in Nat
          /\ Cardinality(Issuing') <= Cardinality(Issuing) + 1
      BY <1>0, <3>2, OneMoreAtMost
    <3> QED  BY <1>0, <2>1, <2>3, <3>1, <3>3 DEF IssueBound
  <2>5. CASE c.op # "transfer"
    <3>1. Issuing' \subseteq Issuing
      BY <2>2, <2>5 DEF Issuing
    <3>2. /\ Cardinality(Issuing') \in Nat
          /\ Cardinality(Issuing') <= Cardinality(Issuing)
      BY <1>0, <3>1, NoMore
    <3> QED  BY <1>0, <2>1, <2>3, <3>2 DEF IssueBound
  <2> QED  BY <2>4, <2>5
<1>2. ASSUME NEW p \in Pids, TransferFind(p) PROVE IssueBound'
  <2>1. /\ cmd[p].op = "transfer"
        /\ cmd' = [cmd EXCEPT ![p] = NoCmd]
        /\ pc' = [pc EXCEPT ![p] = "req_add"]
        /\ nextId' = nextId
    BY <1>2 DEF TransferFind, Receive, Goto
  <2>2. /\ \A q \in Pids : cmd'[q] = IF q = p THEN NoCmd ELSE cmd[q]
        /\ \A q \in Pids : q # p => pc'[q] = pc[q]
        /\ NoCmd.op # "transfer"
    BY <2>1 DEF TypeOK, NoCmd
  <2>3. /\ p \in Issuing /\ Issuing' \subseteq Issuing \ {p}
        /\ Adding' \subseteq Adding \cup {p}
    BY <2>1, <2>2 DEF Issuing, Adding
  <2>4. /\ Cardinality(Issuing') \in Nat
        /\ Cardinality(Issuing') + 1 <= Cardinality(Issuing)
    BY <1>0, <2>3, OneLessAtLeast
  <2>5. /\ Cardinality(Adding') \in Nat
        /\ Cardinality(Adding') <= Cardinality(Adding) + 1
    BY <1>0, <2>3, OneMoreAtMost
  <2> QED  BY <1>0, <2>1, <2>4, <2>5 DEF IssueBound
<1>3. ASSUME NEW p \in Pids, TransferAdd(p) PROVE IssueBound'
  <2>1. /\ cmd' = cmd
        /\ pc[p] = "req_add"
        /\ \E label \in {"select", "req_notify"} : pc' = [pc EXCEPT ![p] = label]
        /\ nextId' = nextId \/ nextId' = nextId + 1
    BY <1>3 DEF TransferAdd, Goto, Return, shm_request_add
  <2>2. Issuing' = Issuing
    BY <2>1 DEF Issuing
  <2>3. p \in Adding /\ Adding' \subseteq Adding \ {p}
    BY <2>1 DEF Adding, TypeOK
  <2>4. /\ Cardinality(Adding') \in Nat
        /\ Cardinality(Adding') + 1 <= Cardinality(Adding)
    BY <1>0, <2>3, OneLessAtLeast
  <2> QED  BY <1>0, <2>1, <2>2, <2>4 DEF IssueBound
<1>4. CASE \A p \in Pids : /\ \A c \in Commands(p) : ~Send(p, c)
                           /\ ~TransferFind(p)
                           /\ ~TransferAdd(p)
  <2>1. nextId' = nextId /\ \A q \in Pids : IssueStep(q)
    BY <1>4, IssueQuiet
  <2>2. Issuing' \subseteq Issuing /\ Adding' \subseteq Adding
    BY <2>1 DEF IssueStep, Issuing, Adding
  <2>3. /\ Cardinality(Issuing') \in Nat
        /\ Cardinality(Issuing') <= Cardinality(Issuing)
    BY <1>0, <2>2, NoMore
  <2>4. /\ Cardinality(Adding') \in Nat
        /\ Cardinality(Adding') <= Cardinality(Adding)
    BY <1>0, <2>2, NoMore
  <2> QED  BY <1>0, <2>1, <2>3, <2>4 DEF IssueBound
<1> QED  BY <1>1, <1>2, <1>3, <1>4

(* What most steps do to q: nothing more is to be written, neither by q nor  *)
(* to q.                                                                     *)
LineStep(q) ==
    /\ Holding(q)' => Holding(q)
    /\ pc'[q] = "req_notify" => pc[q] = "req_notify"
    /\ todo'[q] \subseteq todo[q]
    /\ FifoStep(q)
    /\ BeforeScan(q)' => BeforeScan(q)

(* The FIFOs get no line in a step of this kind.                             *)
LEMMA FifoShorter ==
  ASSUME TypeOK, NEW q \in Pids, FifoStep(q)
  PROVE  Len(fifo'[q]) \in Nat /\ Len(fifo[q]) \in Nat /\ Len(fifo'[q]) <= Len(fifo[q])
<1>1. fifo[q] \in Seq(Notification)
  BY DEF TypeOK
<1>2. CASE fifo'[q] = fifo[q] \/ fifo'[q] = <<>>
  BY <1>1, <1>2
<1>3. CASE fifo[q] # <<>> /\ fifo'[q] = Tail(fifo[q])
  BY <1>1, <1>3
<1> QED  BY <1>2, <1>3 DEF FifoStep

(* The sum of the bound, when nothing grows but what is allowed.             *)
LEMMA LineSum ==
  ASSUME NEW l1 \in Nat, NEW a1 \in Nat, NEW u1 \in Nat, NEW w1 \in Nat,
         NEW l2 \in Nat, NEW a2 \in Nat, NEW u2 \in Nat, NEW w2 \in Nat,
         NEW n1 \in Nat, NEW n2 \in Nat,
         l1 + a1 + u1 + 2 <= w1 + 2 * n1,
         l2 + a2 + u2 + w1 + 2 * n1 <= l1 + a1 + u1 + w2 + 2 * n2
  PROVE  l2 + a2 + u2 + 2 <= w2 + 2 * n2
OBVIOUS

(* Such a step keeps the bounds, as long as no request gets pending.         *)
LEMMA LineKept ==
  ASSUME IsFiniteSet(Pids), TypeOK, AnswerBound, LineBound, nextId' = nextId,
         Pending' \subseteq Pending, \A q \in Pids : LineStep(q)
  PROVE  AnswerBound' /\ LineBound'
<1>0. /\ IsFiniteSet(Pending) /\ IsFiniteSet(Answering) /\ IsFiniteSet(Announcing)
      /\ nextId \in Nat /\ MaxReqs \in Nat
  BY Counts
<1>1. Answering' \subseteq Answering /\ Announcing' \subseteq Announcing
  BY DEF LineStep, Answering, Announcing
<1>2. /\ Cardinality(Pending') \in Nat /\ Cardinality(Pending) \in Nat
      /\ Cardinality(Pending') <= Cardinality(Pending)
  BY <1>0, NoMore
<1>3. /\ Cardinality(Answering') \in Nat /\ Cardinality(Answering) \in Nat
      /\ Cardinality(Answering') <= Cardinality(Answering)
  BY <1>0, <1>1, NoMore
<1>4. /\ Cardinality(Announcing') \in Nat /\ Cardinality(Announcing) \in Nat
      /\ Cardinality(Announcing') <= Cardinality(Announcing)
  BY <1>0, <1>1, NoMore
<1>5. AnswerBound'
  BY <1>0, <1>2, <1>3 DEF AnswerBound, Unanswered
<1>6. Unanswered' \in Nat /\ Unanswered \in Nat /\ Unanswered' <= Unanswered
  BY <1>2, <1>3 DEF Unanswered
<1>7. ASSUME NEW q \in Pids
      PROVE  /\ IsFiniteSet(todo'[q])
             /\ Lines(q)' + Cardinality(Announcing)' + Unanswered' + 2
                  <= Welcome(q)' + 2 * nextId'
  <2>1. /\ IsFiniteSet(todo[q])
        /\ Lines(q) + Cardinality(Announcing) + Unanswered + 2
              <= Welcome(q) + 2 * nextId
    BY DEF LineBound
  <2>2. /\ IsFiniteSet(todo'[q])
        /\ Cardinality(todo'[q]) \in Nat /\ Cardinality(todo[q]) \in Nat
        /\ Cardinality(todo'[q]) <= Cardinality(todo[q])
    BY <2>1, NoMore DEF LineStep
  <2>3. /\ Len(fifo'[q]) \in Nat /\ Len(fifo[q]) \in Nat
        /\ Len(fifo'[q]) <= Len(fifo[q])
    BY FifoShorter DEF LineStep
  <2>4. /\ Welcome(q)' \in Nat /\ Welcome(q) \in Nat
        /\ Welcome(q) <= Welcome(q)'
    <3>1. BeforeScan(q)' => BeforeScan(q)
      BY DEF LineStep
    <3>2. CASE BeforeScan(q)'
      BY <1>0, <3>1, <3>2 DEF Welcome
    <3>3. CASE ~BeforeScan(q)'
      BY <1>0, <3>3 DEF Welcome
    <3> QED  BY <3>2, <3>3
  <2>5. Lines(q)' \in Nat /\ Lines(q) \in Nat /\ Lines(q)' <= Lines(q)
    BY <2>2, <2>3 DEF Lines
  <2> QED  BY <1>0, <1>4, <1>6, <2>1, <2>2, <2>4, <2>5, LineSum
<1> QED  BY <1>5, <1>7 DEF LineBound

(* A child that goes on, ends or returns.                                    *)
LEMMA LineMove ==
  ASSUME TypeOK, NEW p \in Pids,
         NEW label \in PCs \ {"req_notify", "login_add", "login_scan"},
         Goto(p, label), UNCHANGED user,
         label \in {"acc_find", "acc_copy", "acc_set", "acc_notify",
                    "rej_find", "rej_notify"} => Holding(p),
         todo' = todo \/ todo' = [todo EXCEPT ![p] = {}],
         fifo' = fifo \/ fifo' = [fifo EXCEPT ![p] = <<>>]
  PROVE  \A q \in Pids : LineStep(q)
<1>1. pc'[p] = label /\ \A q \in Pids : q # p => pc'[q] = pc[q]
  BY DEF TypeOK, Goto
<1>2. \A q \in Pids : todo'[q] \subseteq todo[q] /\ FifoStep(q)
  BY DEF TypeOK, FifoStep
<1> QED  BY <1>1, <1>2 DEF LineStep, Holding, BeforeScan

(* The parts of the system that stay where they are.                         *)
LEMMA LineStay ==
  ASSUME TypeOK, UNCHANGED <<pc, user, todo>>, \A q \in Pids : FifoStep(q)
  PROVE  \A q \in Pids : LineStep(q)
BY DEF LineStep, Holding, BeforeScan

(* Every step but the ones that make or write lines.                         *)
LEMMA LineQuiet ==
  ASSUME TypeOK, NEW p \in Pids,
         \/ Connect(p) \/ ClientStep(p) \/ ReadNotification(p)
         \/ LoginRefused(p) \/ LoginRequired(p) \/ OtherCommand(p)
         \/ TransferRefused(p) \/ AnswerRefused(p)
         \/ handle_login(p) \/ LoginAdd(p) \/ TransferFind(p)
         \/ AcceptFind(p) \/ RejectFind(p) \/ AcceptCopy(p) \/ AcceptSet(p)
         \/ Eof(p) \/ CloseFail(p) \/ CloseFifo(p) \/ Crash(p)
         \/ handle_signals(p)
  PROVE  nextId' = nextId /\ \A q \in Pids : LineStep(q)
<1>1. {"select", "req_add", "acc_copy", "acc_set", "acc_notify", "rej_notify",
       "close_fail", "close_fifo", "dead", "reaped"}
         \subseteq PCs \ {"req_notify", "login_add", "login_scan"}
  BY DEF PCs
<1>2. CASE ClientStep(p)
  <2>1. UNCHANGED <<nextId, pc, user, todo, fifo>>
    BY <1>2 DEF ClientStep, Send, recv_response, ReadUnsolicited, ClientClose
  <2> QED  BY <2>1, LineStay DEF FifoStep
<1>3. CASE ReadNotification(p)
  <2>1. /\ UNCHANGED <<nextId, pc, user, todo>>
        /\ fifo[p] # <<>>
        /\ fifo' = [fifo EXCEPT ![p] = Tail(@)]
    BY <1>3 DEF ReadNotification
  <2>2. \A q \in Pids : FifoStep(q)
    BY <2>1 DEF TypeOK, FifoStep
  <2> QED  BY <2>1, <2>2, LineStay
<1>4. CASE \/ LoginRefused(p) \/ LoginRequired(p) \/ OtherCommand(p)
           \/ TransferRefused(p) \/ AnswerRefused(p)
  <2>1. UNCHANGED <<nextId, pc, user, todo, fifo>>
    BY <1>4 DEF LoginRefused, LoginRequired, OtherCommand, TransferRefused,
                AnswerRefused, AnswerOnly
  <2> QED  BY <2>1, LineStay DEF FifoStep
<1>5. CASE handle_login(p)
  <2>1. /\ UNCHANGED <<nextId, todo, fifo>>
        /\ user[p] = NoUser
        /\ user' = [user EXCEPT ![p] = cmd[p].to]
        /\ pc' = [pc EXCEPT ![p] = "login_add"]
    BY <1>5 DEF handle_login, Goto
  <2>2. /\ pc'[p] = "login_add"
        /\ \A q \in Pids : q # p => pc'[q] = pc[q] /\ user'[q] = user[q]
    BY <2>1 DEF TypeOK
  <2> QED  BY <2>1, <2>2 DEF LineStep, FifoStep, Holding, BeforeScan
<1>6. CASE LoginAdd(p)
  <2>1. /\ UNCHANGED <<nextId, user, todo, fifo>>
        /\ pc[p] = "login_add"
        /\ pc' = [pc EXCEPT ![p] = "login_scan"]
    BY <1>6 DEF LoginAdd, Goto
  <2>2. /\ pc'[p] = "login_scan"
        /\ \A q \in Pids : q # p => pc'[q] = pc[q]
    BY <2>1 DEF TypeOK
  <2> QED  BY <2>1, <2>2 DEF LineStep, FifoStep, Holding, BeforeScan
<1>7. CASE Connect(p) \/ TransferFind(p) \/ Eof(p) \/ CloseFail(p)
           \/ handle_signals(p)
  <2>1. UNCHANGED <<nextId, user, todo, fifo>>
    BY <1>7 DEF Connect, TransferFind, Eof, CloseFail, shm_requests_set_failed,
                handle_signals
  <2>2. \E label \in {"select", "req_add", "dead", "close_fail", "close_fifo",
                      "reaped"} : Goto(p, label)
    BY <1>7 DEF Connect, TransferFind, Eof, CloseFail, handle_signals
  <2>3. PICK label \in {"select", "req_add", "dead", "close_fail",
                        "close_fifo", "reaped"} : Goto(p, label)
    BY <2>2
  <2> QED  BY <1>1, <2>1, <2>3, LineMove
<1>8. CASE CloseFifo(p) \/ Crash(p)
  <2>1. /\ UNCHANGED <<nextId, user>> /\ Goto(p, "dead")
        /\ todo' = todo \/ todo' = [todo EXCEPT ![p] = {}]
        /\ fifo' = [fifo EXCEPT ![p] = <<>>]
    BY <1>8 DEF CloseFifo, Crash
  <2> QED  BY <1>1, <2>1, LineMove
<1>9. CASE AcceptFind(p) \/ RejectFind(p) \/ AcceptCopy(p) \/ AcceptSet(p)
  <2>1. UNCHANGED <<nextId, user, todo, fifo>> /\ Holding(p)
    BY <1>9 DEF AcceptFind, RejectFind, FindSource, AcceptCopy, AcceptSet,
                shm_request_set, Holding
  <2>2. \E label \in {"select", "acc_copy", "rej_notify", "acc_notify",
                      "acc_set"} : Goto(p, label)
    BY <1>9 DEF AcceptFind, RejectFind, FindSource, AcceptCopy, AcceptSet,
                Return
  <2>3. PICK label \in {"select", "acc_copy", "rej_notify", "acc_notify",
                        "acc_set"} : Goto(p, label)
    BY <2>2
  <2> QED  BY <1>1, <2>1, <2>3, LineMove
<1> QED  BY <1>2, <1>3, <1>4, <1>5, <1>6, <1>7, <1>8, <1>9

(* notify_pid makes a FIFO longer by one line at most.                       *)
LEMMA OneLine ==
  ASSUME TypeOK, NEW r, NEW kind, NEW id, NEW to,
         notify_pid(r, kind, id, to) \/ UNCHANGED fifo, TypeOK', NEW q \in Pids
  PROVE  /\ Len(fifo'[q]) \in Nat /\ Len(fifo[q]) \in Nat
         /\ Len(fifo'[q]) <= Len(fifo[q]) + 1
         /\ q # r => fifo'[q] = fifo[q]
<1> DEFINE n == [kind |-> kind, id |-> id, to |-> to]
<1>1. fifo[q] \in Seq(Notification) /\ fifo \in [Pids -> Seq(Notification)]
  BY DEF TypeOK
<1>2. UNCHANGED fifo \/ fifo' = [fifo EXCEPT ![r] = Append(@, n)]
  BY DEF notify_pid
<1> HIDE DEF n
<1>3. fifo'[q] = fifo[q] \/ (q = r /\ fifo'[q] = Append(fifo[q], n))
  BY <1>1, <1>2
<1> QED  BY <1>1, <1>3

(* Settling a request that was taken, and the end of a session, make no      *)
(* request pending.                                                          *)
LEMMA PendingLess ==
  ASSUME TransferInv, NEW p \in Pids, AcceptSet(p) \/ CloseFail(p)
  PROVE  Pending' \subseteq Pending
<1>0. TypeOK
  BY DEF TransferInv
<1>1. reqCount' = reqCount /\ \A i \in 1 .. reqCount : i \in Slots
  BY <1>0, ShmAssumption
     DEF AcceptSet, CloseFail, shm_request_set, shm_requests_set_failed,
         TypeOK, ShmTypeOK
<1>2. CASE AcceptSet(p)
  <2>1. CASE RequestsWithId(loc[p].id) = {}
    BY <1>1, <1>2, <2>1 DEF AcceptSet, shm_request_set, Pending
  <2>2. CASE RequestsWithId(loc[p].id) # {}
    <3>1. PICK k \in 1 .. reqCount : k = Min(RequestsWithId(loc[p].id))
      BY <1>0, <2>2, RequestSlot DEF TypeOK
    <3>2. req' = [req EXCEPT ![k].status = "FAILED"] /\ nextId' = nextId
      BY <1>2, <2>2, <3>1 DEF AcceptSet, shm_request_set
    <3>3. /\ \A i \in Slots : i # k => req'[i] = req[i]
          /\ req'[k].status = "FAILED"
      BY <1>1, <3>2, StatusStep DEF request_status
    <3> QED  BY <1>1, <3>3 DEF Pending
  <2> QED  BY <2>1, <2>2
<1>3. CASE CloseFail(p)
  <2>1. \A i \in Slots : \/ req'[i] = req[i]
                         \/ req[i].status = "PENDING"
    BY <1>3 DEF CloseFail, shm_requests_set_failed
  <2> QED  BY <1>1, <2>1 DEF Pending
<1> QED  BY <1>2, <1>3

(* The sum of those who wait, when none is added.                            *)
LEMMA AnswerSum ==
  ASSUME NEW u1 \in Nat, NEW u2 \in Nat, NEW n \in Nat,
         u1 + 1 <= n, u2 <= u1
  PROVE  u2 + 1 <= n
OBVIOUS

(* The sum of those who have a line to write, when one of them is through.   *)
LEMMA EitherSum ==
  ASSUME NEW n \in Nat, NEW a1 \in Nat, NEW a2 \in Nat, NEW h1 \in Nat,
         NEW h2 \in Nat, a2 <= a1, h2 <= h1, h2 + 1 <= h1 \/ a2 + 1 <= a1
  PROVE  /\ n + h2 \in Nat /\ n + h1 \in Nat /\ n + h2 <= n + h1
         /\ a2 + (n + h2) + 1 <= a1 + (n + h1)
OBVIOUS

(* A line is written in place of the announcement or the answer of p.        *)
LEMMA LineWritten ==
  ASSUME IsFiniteSet(Pids), TypeOK, AnswerBound, LineBound,
         NEW p \in Pids, pc[p] = "req_notify" \/ Holding(p), Return(p),
         UNCHANGED <<user, todo, req, reqCount, nextId>>,
         \A q \in Pids : /\ Len(fifo'[q]) \in Nat
                         /\ Len(fifo'[q]) <= Len(fifo[q]) + 1
  PROVE  AnswerBound' /\ LineBound'
<1>0. /\ IsFiniteSet(Pending) /\ IsFiniteSet(Answering) /\ IsFiniteSet(Announcing)
      /\ Cardinality(Pending) \in Nat
      /\ nextId \in Nat /\ MaxReqs \in Nat
      /\ \A q \in Pids : Len(fifo[q]) \in Nat
  BY Counts
<1>u. user' = user /\ todo' = todo /\ nextId' = nextId
  OBVIOUS
<1>f. \A q \in Pids : /\ Len(fifo[q]) \in Nat /\ Len(fifo'[q]) \in Nat
                      /\ Len(fifo'[q]) <= Len(fifo[q]) + 1
  BY <1>0
<1>1. pc'[p] = "select" /\ \A q \in Pids : q # p => pc'[q] = pc[q]
  BY DEF Return, Goto, TypeOK
<1>2. Pending' = Pending
  BY DEF Pending
<1>3. /\ Cardinality(Answering') \in Nat /\ Cardinality(Answering) \in Nat
      /\ Cardinality(Answering') <= Cardinality(Answering)
      /\ Holding(p) => Cardinality(Answering') + 1 <= Cardinality(Answering)
  <2>1. Answering' \subseteq Answering \ {p}
    BY <1>1 DEF Answering, Holding
  <2>2. Holding(p) => p \in Answering
    BY DEF Answering
  <2> QED  BY <1>0, <2>1, <2>2, NoMore, OneLessAtLeast
<1>4. /\ Cardinality(Announcing') \in Nat /\ Cardinality(Announcing) \in Nat
      /\ Cardinality(Announcing') <= Cardinality(Announcing)
      /\ pc[p] = "req_notify" =>
            Cardinality(Announcing') + 1 <= Cardinality(Announcing)
  <2>1. Announcing' \subseteq Announcing \ {p}
    BY <1>1 DEF Announcing
  <2>2. pc[p] = "req_notify" => p \in Announcing
    BY DEF Announcing
  <2> QED  BY <1>0, <2>1, <2>2, NoMore, OneLessAtLeast
<1>5. /\ Unanswered' \in Nat /\ Unanswered \in Nat
      /\ Unanswered' <= Unanswered
      /\ Cardinality(Announcing') + Unanswered' + 1
            <= Cardinality(Announcing) + Unanswered
  <2>1. /\ Unanswered = Cardinality(Pending) + Cardinality(Answering)
        /\ Unanswered' = Cardinality(Pending) + Cardinality(Answering')
    BY <1>2 DEF Unanswered
  <2>2. \/ Cardinality(Answering') + 1 <= Cardinality(Answering)
        \/ Cardinality(Announcing') + 1 <= Cardinality(Announcing)
    BY <1>3, <1>4
  <2> QED  BY <1>0, <1>3, <1>4, <2>1, <2>2, EitherSum
<1>6. AnswerBound'
  <2>1. Unanswered + 1 <= nextId
    BY DEF AnswerBound
  <2>2. Unanswered' + 1 <= nextId
    BY <1>0, <1>5, <2>1, AnswerSum
  <2> QED  BY <1>u, <2>2 DEF AnswerBound
<1>7. ASSUME NEW q \in Pids
      PROVE  /\ IsFiniteSet(todo'[q])
             /\ Lines(q)' + Cardinality(Announcing)' + Unanswered' + 2
                  <= Welcome(q)' + 2 * nextId'
  <2>1. /\ IsFiniteSet(todo[q])
        /\ Lines(q) + Cardinality(Announcing) + Unanswered + 2
              <= Welcome(q) + 2 * nextId
    BY DEF LineBound
  <2>2. Welcome(q)' = Welcome(q) /\ Welcome(q) \in Nat
    <3>1. BeforeScan(q)' <=> BeforeScan(q)
      BY <1>u, <1>1 DEF BeforeScan, Holding
    <3> QED  BY <1>0, <3>1 DEF Welcome
  <2>3. Lines(q)' \in Nat /\ Lines(q) \in Nat /\ Lines(q)' <= Lines(q) + 1
    <3>1. Cardinality(todo[q]) \in Nat /\ todo'[q] = todo[q]
      BY <1>u, <2>1, FS_CardinalityType
    <3>2. /\ Len(fifo[q]) \in Nat /\ Len(fifo'[q]) \in Nat
          /\ Len(fifo'[q]) <= Len(fifo[q]) + 1
      BY <1>f
    <3>3. /\ Lines(q) = Len(fifo[q]) + Cardinality(todo[q])
          /\ Lines(q)' = Len(fifo'[q]) + Cardinality(todo[q])
      BY <3>1 DEF Lines
    <3> DEFINE f1 == Len(fifo[q])  f2 == Len(fifo'[q])  t == Cardinality(todo[q])
    <3>4. t \in Nat /\ f1 \in Nat /\ f2 \in Nat /\ f2 <= f1 + 1
      BY <3>1, <3>2
    <3> HIDE DEF f1, f2, t
    <3>5. f1 + t \in Nat /\ f2 + t \in Nat /\ f2 + t <= (f1 + t) + 1
      BY <3>4
    <3> QED  BY <3>3, <3>5 DEF f1, f2, t
  <2> DEFINE l1 == Lines(q)                 l2 == Lines(q)'
             a1 == Cardinality(Announcing)  a2 == Cardinality(Announcing')
             u1 == Unanswered               u2 == Unanswered'
             w == Welcome(q)
  <2>3a. l1 \in Nat /\ l2 \in Nat /\ l2 <= l1 + 1 /\ w \in Nat /\ nextId \in Nat
    BY <1>0, <2>2, <2>3
  <2>3b. a1 \in Nat /\ a2 \in Nat
    BY <1>4
  <2>3c. u1 \in Nat /\ u2 \in Nat /\ a2 + u2 + 1 <= a1 + u1
    BY <1>5
  <2>3d. l1 + a1 + u1 + 2 <= w + 2 * nextId
    BY <2>1
  <2> HIDE DEF l1, l2, a1, a2, u1, u2, w
  <2>3e. l2 + a2 + u2 + 2 <= w + 2 * nextId
    BY <2>3a, <2>3b, <2>3c, <2>3d
  <2>4. Lines(q)' + Cardinality(Announcing') + Unanswered' + 2
          <= Welcome(q) + 2 * nextId
    BY <2>3e DEF l1, l2, a1, a2, u1, u2, w
  <2> QED  BY <1>u, <2>1, <2>2, <2>4
<1> QED  BY <1>6, <1>7 DEF LineBound

(* The announcements and answers of the commands.                            *)
LEMMA LineNotify ==
  ASSUME IsFiniteSet(Pids), TypeOK, TypeOK', AnswerBound, LineBound,
         NEW p \in Pids, TransferNotify(p) \/ AcceptNotify(p) \/ RejectNotify(p)
  PROVE  AnswerBound' /\ LineBound'
<1>1. /\ Return(p)
      /\ UNCHANGED <<user, todo, req, reqCount, nextId>>
      /\ pc[p] = "req_notify" \/ Holding(p)
  BY DEF TransferNotify, AcceptNotify, RejectNotify, AnswerSource, Holding
<1>2. \E kind \in {"REQ", "ACCEPT", "FAIL", "REJECT"} :
         \/ notify_pid(loc[p].pid, kind, loc[p].id, loc[p].peer)
         \/ UNCHANGED fifo
  BY DEF TransferNotify, AcceptNotify, RejectNotify, AnswerSource
<1>3. \A q \in Pids : /\ Len(fifo'[q]) \in Nat
                      /\ Len(fifo'[q]) <= Len(fifo[q]) + 1
  BY <1>2, OneLine
<1> QED  BY <1>1, <1>3, LineWritten

(* The two sums, when an id pays for what is added.                          *)
LEMMA GrownSum ==
  ASSUME NEW l \in Nat, NEW a1 \in Nat, NEW u1 \in Nat, NEW w \in Nat,
         NEW a2 \in Nat, NEW u2 \in Nat, NEW n \in Nat, NEW d \in Nat,
         l + a1 + u1 + 2 <= w + 2 * n, u2 <= u1 + d, a2 <= a1 + d
  PROVE  l + a2 + u2 + 2 <= w + 2 * (n + d)
OBVIOUS

(* The second of them.                                                       *)
LEMMA GrownAnswers ==
  ASSUME NEW u1 \in Nat, NEW u2 \in Nat, NEW n \in Nat, NEW d \in Nat,
         u1 + 1 <= n, u2 <= u1 + d
  PROVE  u2 + 1 <= n + d
OBVIOUS

(* Nothing is written: the sums grow with the ids alone.                     *)
LEMMA LinesSame ==
  ASSUME IsFiniteSet(Pids), TypeOK, AnswerBound, LineBound,
         NEW d \in Nat, nextId' = nextId + d, UNCHANGED <<user, todo, fifo>>,
         \A q \in Pids : BeforeScan(q)' <=> BeforeScan(q),
         Unanswered' \in Nat, Unanswered' <= Unanswered + d,
         Cardinality(Announcing') \in Nat,
         Cardinality(Announcing') <= Cardinality(Announcing) + d
  PROVE  AnswerBound' /\ LineBound'
<1>0. /\ Cardinality(Announcing) \in Nat
      /\ Cardinality(Pending) \in Nat /\ Cardinality(Answering) \in Nat
      /\ nextId \in Nat /\ MaxReqs \in Nat
      /\ \A q \in Pids : Len(fifo[q]) \in Nat
  BY Counts
<1>1. Unanswered \in Nat
  BY <1>0 DEF Unanswered
<1>2. AnswerBound'
  <2>1. Unanswered + 1 <= nextId
    BY DEF AnswerBound
  <2>2. Unanswered' + 1 <= nextId + d
    BY <1>0, <1>1, <2>1, GrownAnswers
  <2> QED  BY <2>2 DEF AnswerBound
<1>3. ASSUME NEW q \in Pids
      PROVE  /\ IsFiniteSet(todo'[q])
             /\ Lines(q)' + Cardinality(Announcing)' + Unanswered' + 2
                  <= Welcome(q)' + 2 * nextId'
  <2>1. /\ IsFiniteSet(todo[q])
        /\ Lines(q) + Cardinality(Announcing) + Unanswered + 2
              <= Welcome(q) + 2 * nextId
    BY DEF LineBound
  <2>2. Welcome(q)' = Welcome(q) /\ Welcome(q) \in Nat
    <3>1. BeforeScan(q)' <=> BeforeScan(q)
      OBVIOUS
    <3> QED  BY <1>0, <3>1 DEF Welcome
  <2>3. Lines(q)' = Lines(q) /\ Lines(q) \in Nat
    <3>1. /\ Cardinality(todo[q]) \in Nat /\ Len(fifo[q]) \in Nat
          /\ todo'[q] = todo[q] /\ fifo'[q] = fifo[q]
      BY <1>0, <2>1, FS_CardinalityType
    <3> QED  BY <3>1 DEF Lines
  <2>4. Lines(q) + Cardinality(Announcing') + Unanswered' + 2
          <= Welcome(q) + 2 * (nextId + d)
    BY <1>0, <1>1, <2>1, <2>2, <2>3, GrownSum
  <2> QED  BY <2>1, <2>2, <2>3, <2>4
<1> QED  BY <1>2, <1>3 DEF LineBound

(* A request is added: its id pays for its announcement and its answer.      *)
LEMMA LineAdd ==
  ASSUME IsFiniteSet(Pids), TypeOK, AnswerBound, LineBound, NEW p \in Pids,
         TransferAdd(p)
  PROVE  AnswerBound' /\ LineBound'
<1>0. /\ IsFiniteSet(Pending) /\ IsFiniteSet(Answering) /\ IsFiniteSet(Announcing)
      /\ nextId \in Nat
  BY Counts
<1>1. CASE RequestsFull
  <2>1. /\ UNCHANGED <<req, reqCount, nextId, user, todo, fifo>>
        /\ Goto(p, "select")
    BY <1>1 DEF TransferAdd, Return
  <2>2. "select" \in PCs \ {"req_notify", "login_add", "login_scan"}
    BY DEF PCs
  <2>3. \A q \in Pids : LineStep(q)
    BY <2>1, <2>2, LineMove
  <2>4. Pending' = Pending
    BY <2>1 DEF Pending
  <2> QED  BY <2>1, <2>3, <2>4, LineKept
<1>2. CASE ~RequestsFull
  <2>1. /\ shm_request_add(user[p], loc[p].peer)
        /\ UNCHANGED <<user, todo, fifo>>
        /\ pc[p] = "req_add"
        /\ \E label \in {"select", "req_notify"} : pc' = [pc EXCEPT ![p] = label]
    BY <1>2 DEF TransferAdd, Return, Goto
  <2>2. /\ pc'[p] \in {"select", "req_notify"}
        /\ \A q \in Pids : q # p => pc'[q] = pc[q]
    BY <2>1 DEF TypeOK
  <2>3. nextId' = nextId + 1
    BY <2>1 DEF shm_request_add
  <2>4. PICK k \in Slots :
           /\ req' = [req EXCEPT ![k] =
                        [id |-> nextId, source_username |-> user[p],
                         dest_username |-> loc[p].peer, status |-> "PENDING"]]
           /\ \/ k \in 1 .. reqCount /\ reqCount' = reqCount
              \/ k = reqCount + 1 /\ reqCount' = reqCount + 1
    <3>1. ShmTypeOK
      BY DEF TypeOK
    <3> QED  BY <2>1, <3>1, RequestAddSlot
  <2>5. Pending' \subseteq Pending \cup {k}
    <3>1. /\ \A i \in Slots : i # k => req'[i] = req[i]
          /\ \A i \in 1 .. reqCount' : i \in 1 .. reqCount \/ i = k
          /\ \A i \in 1 .. reqCount : i \in Slots
      BY <2>4, ShmAssumption DEF TypeOK, ShmTypeOK
    <3> QED  BY <3>1 DEF Pending
  <2>6. Answering' \subseteq Answering /\ Announcing' \subseteq Announcing \cup {p}
    BY <2>1, <2>2 DEF Answering, Announcing, Holding
  <2>7. \A q \in Pids : BeforeScan(q)' <=> BeforeScan(q)
    BY <2>1, <2>2 DEF BeforeScan
  <2>8. /\ Cardinality(Pending') \in Nat /\ Cardinality(Pending) \in Nat
        /\ Cardinality(Pending') <= Cardinality(Pending) + 1
    BY <1>0, <2>5, OneMoreAtMost
  <2>9. /\ Cardinality(Answering') \in Nat /\ Cardinality(Answering) \in Nat
        /\ Cardinality(Answering') <= Cardinality(Answering)
    BY <1>0, <2>6, NoMore
  <2>10. /\ Cardinality(Announcing') \in Nat
         /\ Cardinality(Announcing') <= Cardinality(Announcing) + 1
    BY <1>0, <2>6, OneMoreAtMost
  <2>11. Unanswered' \in Nat /\ Unanswered' <= Unanswered + 1
    BY <2>8, <2>9 DEF Unanswered
  <2> QED  BY <2>1, <2>3, <2>7, <2>10, <2>11, LinesSame
<1> QED  BY <1>1, <1>2

(* A request is taken: the child that holds it answers for it.               *)
LEMMA LineTake ==
  ASSUME IsFiniteSet(Pids), TransferInv, AnswerBound, LineBound, NEW p \in Pids,
         AcceptTake(p) \/ RejectTake(p)
  PROVE  AnswerBound' /\ LineBound'
<1>0. TypeOK
  BY DEF TransferInv
<1>1. /\ IsFiniteSet(Pending) /\ IsFiniteSet(Answering) /\ IsFiniteSet(Announcing)
      /\ nextId \in Nat
  BY <1>0, Counts
<1>2. PICK st \in request_status \ {"PENDING"}, label \in {"acc_find", "rej_find"} :
         \E op \in {"accept", "reject"} : TakeRequest(p, op, st, label)
  BY DEF AcceptTake, RejectTake, request_status
<1>3. /\ CanTake(cmd[p].id, user[p])
      /\ shm_request_take(cmd[p].id, st)
      /\ UNCHANGED <<user, todo, fifo>>
      /\ pc[p] = "select"
      /\ pc' = [pc EXCEPT ![p] = label]
  BY <1>2 DEF TakeRequest, Receive, Goto
<1>4. PICK k \in 1 .. reqCount : k = Min(RequestsWithId(cmd[p].id))
  BY <1>0, <1>3, RequestSlot DEF TypeOK, CanTake
<1>5. /\ req[k].status = "PENDING"
      /\ req' = [req EXCEPT ![k].status = st]
      /\ UNCHANGED <<reqCount, nextId>>
  BY <1>3, <1>4 DEF CanTake, shm_request_take
<1>6. k \in Pending /\ Pending' \subseteq Pending \ {k}
  <2>1. /\ \A i \in Slots : i # k => req'[i] = req[i]
        /\ req'[k].status = st
        /\ \A i \in 1 .. reqCount : i \in Slots
    BY <1>5, StatusStep
  <2> QED  BY <1>5, <2>1 DEF Pending
<1>7. /\ pc'[p] = label
      /\ \A q \in Pids : q # p => pc'[q] = pc[q]
  BY <1>0, <1>3 DEF TypeOK
<1>8. Answering' \subseteq Answering \cup {p} /\ Announcing' \subseteq Announcing
  BY <1>7 DEF Answering, Announcing, Holding
<1>9. \A q \in Pids : BeforeScan(q)' <=> BeforeScan(q)
  BY <1>3, <1>7 DEF BeforeScan
<1>10. /\ Cardinality(Pending') \in Nat /\ Cardinality(Pending) \in Nat
       /\ Cardinality(Pending') + 1 <= Cardinality(Pending)
  BY <1>1, <1>6, OneLessAtLeast
<1>11. /\ Cardinality(Answering') \in Nat /\ Cardinality(Answering) \in Nat
       /\ Cardinality(Answering') <= Cardinality(Answering) + 1
  BY <1>1, <1>8, OneMoreAtMost
<1>12. /\ Cardinality(Announcing') \in Nat
       /\ Cardinality(Announcing') <= Cardinality(Announcing) + 0
  BY <1>1, <1>8, NoMore
<1>13. Unanswered' \in Nat /\ Unanswered' <= Unanswered + 0
  BY <1>10, <1>11 DEF Unanswered
<1>14. nextId' = nextId + 0
  BY <1>1, <1>5
<1> QED  BY <1>0, <1>3, <1>9, <1>12, <1>13, <1>14, LinesSame

(* Every step keeps that.                                                    *)
LEMMA NamedNext ==
  ASSUME AddressInv, Named, [Next]_vars
  PROVE  Named'
<1>0. TypeOK /\ LoginsNamed /\ NoUser \notin Users
  BY ShmAssumption DEF AddressInv
<1>1. ASSUME UNCHANGED <<pc, user>> PROVE Named'
  BY <1>1 DEF Named
<1>2. ASSUME NEW p \in Pids, NEW label, Goto(p, label), UNCHANGED user,
             label \in {"select", "dead", "reaped"} \/ user[p] # NoUser
      PROVE  Named'
  BY <1>0, <1>2 DEF Named, Goto, TypeOK
<1>3. ASSUME NEW p \in Pids,
             \/ ClientStep(p) \/ ReadNotification(p) \/ LoginRefused(p)
             \/ LoginRequired(p) \/ OtherCommand(p) \/ TransferRefused(p)
             \/ AnswerRefused(p)
      PROVE  Named'
  <2>1. UNCHANGED <<pc, user>>
    BY <1>3 DEF ClientStep, Send, recv_response, ReadUnsolicited, ClientClose,
       ReadNotification, LoginRefused, LoginRequired, OtherCommand,
       TransferRefused, AnswerRefused, AnswerOnly
  <2> QED  BY <1>1, <2>1
<1>4. ASSUME NEW p \in Pids, handle_login(p) PROVE Named'
  <2>1. /\ cmd[p].to # NoUser
        /\ user' = [user EXCEPT ![p] = cmd[p].to]
        /\ pc' = [pc EXCEPT ![p] = "login_add"]
    BY <1>0, <1>4 DEF handle_login, Receive, Goto, LoginsNamed
  <2> QED  BY <1>0, <2>1 DEF Named, TypeOK
<1>5. ASSUME NEW p \in Pids,
             \/ Connect(p) \/ Eof(p) \/ CloseFifo(p) \/ Crash(p)
             \/ handle_signals(p) \/ LoginAdd(p) \/ LoginScan(p)
             \/ LoginNotify(p) \/ TransferFind(p) \/ TransferAdd(p)
             \/ TransferNotify(p) \/ AcceptTake(p) \/ RejectTake(p)
             \/ AcceptFind(p) \/ AcceptCopy(p) \/ AcceptSet(p)
             \/ AcceptNotify(p) \/ RejectFind(p) \/ RejectNotify(p)
             \/ CloseFail(p)
      PROVE  Named'
  <2>1. UNCHANGED user
    BY <1>5 DEF Connect, Eof, CloseFifo, Crash, handle_signals, LoginAdd,
       LoginScan, LoginNotify, TransferFind, TransferAdd, TransferNotify,
       AcceptTake, RejectTake, TakeRequest, AcceptFind, AcceptCopy, AcceptSet,
       AcceptNotify, RejectFind, RejectNotify, FindSource, AnswerSource,
       CloseFail
  <2>2. \/ UNCHANGED pc
        \/ \E label \in {"select", "dead", "reaped"} : Goto(p, label)
        \/ \E label \in PCs : Goto(p, label) /\ user[p] # NoUser
    <3>1. CASE \/ Connect(p) \/ CloseFifo(p) \/ Crash(p) \/ handle_signals(p)
               \/ TransferNotify(p) \/ AcceptNotify(p) \/ RejectNotify(p)
      BY <3>1 DEF Connect, CloseFifo, Crash, handle_signals, TransferNotify,
                  AcceptNotify, RejectNotify, AnswerSource, Return
    <3>2. CASE Eof(p) \/ TransferFind(p) \/ AcceptTake(p) \/ RejectTake(p)
      BY <3>2 DEF Eof, TransferFind, AcceptTake, RejectTake, TakeRequest, PCs
    <3>3. CASE \/ LoginAdd(p) \/ LoginScan(p) \/ LoginNotify(p)
               \/ TransferAdd(p) \/ AcceptFind(p) \/ AcceptCopy(p)
               \/ AcceptSet(p) \/ RejectFind(p) \/ CloseFail(p)
      <4>1. user[p] # NoUser
        BY <3>3 DEF Named, LoginAdd, LoginScan, LoginNotify, TransferAdd,
                    AcceptFind, AcceptCopy, AcceptSet, RejectFind, CloseFail
      <4>2. UNCHANGED pc \/ \E label \in PCs : Goto(p, label)
        BY <3>3 DEF LoginAdd, LoginScan, LoginNotify, TransferAdd, AcceptFind,
           AcceptCopy, AcceptSet, RejectFind, FindSource, CloseFail, Return, PCs
      <4> QED  BY <4>1, <4>2
    <3> QED  BY <1>5, <3>1, <3>2, <3>3
  <2> QED  BY <1>1, <1>2, <2>1, <2>2
<1>6. CASE collect_stale_sessions \/ UNCHANGED vars
  BY <1>1, <1>6 DEF collect_stale_sessions, vars
<1> QED  BY <1>3, <1>4, <1>5, <1>6 DEF Next, ChildStep

(* The sum at a scan, which pays in advance for every request there can be.  *)
LEMMA ScanSum ==
  ASSUME NEW f \in Nat, NEW t1 \in Nat, NEW a \in Nat, NEW u \in Nat,
         NEW t2 \in Nat, NEW m \in Nat, NEW n \in Nat,
         (f + t1) + a + u + 2 <= 0 + 2 * n, t2 <= m
  PROVE  (f + t2) + a + u + 2 <= m + 2 * n
OBVIOUS

(* A login adds at most as many lines as there are pending requests.         *)
LEMMA LineScan ==
  ASSUME IsFiniteSet(Pids), TypeOK, Named, IssueBound, AnswerBound, LineBound,
         NEW p \in Pids, LoginScan(p)
  PROVE  AnswerBound' /\ LineBound'
<1>0. /\ IsFiniteSet(Pending) /\ Cardinality(Pending) \in Nat
      /\ Cardinality(Answering) \in Nat /\ Cardinality(Announcing) \in Nat
      /\ Cardinality(Issuing) \in Nat /\ Cardinality(Adding) \in Nat
      /\ nextId \in Nat /\ MaxReqs \in Nat
      /\ \A q \in Pids : Len(fifo[q]) \in Nat
  BY Counts
<1>1. /\ UNCHANGED <<req, reqCount, nextId, user, fifo>>
      /\ pc[p] = "login_scan" /\ user[p] # NoUser
      /\ pc' = [pc EXCEPT ![p] = "login_notify"]
      /\ todo' = [todo EXCEPT ![p] = shm_requests_for_dest(user[p])]
  BY DEF LoginScan, Goto, Named
<1>2. /\ pc'[p] = "login_notify" /\ todo'[p] = shm_requests_for_dest(user[p])
      /\ \A q \in Pids : q # p => pc'[q] = pc[q] /\ todo'[q] = todo[q]
  BY <1>1 DEF TypeOK
<1>3. /\ Pending' = Pending /\ Answering' = Answering
      /\ Announcing' = Announcing /\ Unanswered' = Unanswered
  BY <1>1, <1>2 DEF Pending, Answering, Announcing, Holding, Unanswered
<1>4. IsFiniteSet(todo'[p]) /\ Cardinality(todo'[p]) \in Nat
      /\ Cardinality(todo'[p]) <= MaxReqs
  <2> DEFINE Told == {j \in 1 .. reqCount : /\ req[j].status = "PENDING"
                                            /\ req[j].dest_username = user[p]}
             T == {[slot |-> i, id |-> req[i].id] : i \in Told}
  <2>1. IsFiniteSet(Told) /\ Cardinality(Told) <= Cardinality(Pending)
        /\ Cardinality(Told) \in Nat
    <3>1. Told \subseteq Pending
      BY DEF Pending
    <3> HIDE DEF Told
    <3> QED  BY <1>0, <3>1, NoMore
  <2>2. todo'[p] = T
    BY <1>2 DEF shm_requests_for_dest
  <2>3. IsFiniteSet(T) /\ Cardinality(T) <= Cardinality(Told)
    <3> DEFINE g == [i \in Told |-> [slot |-> i, id |-> req[i].id]]
    <3>1. g \in Surjection(Told, T)
      BY DEF Surjection
    <3> HIDE DEF Told, T, g
    <3> QED  BY <2>1, <3>1, FS_Surjection
  <2> HIDE DEF Told, T
  <2>4. Cardinality(Pending) <= MaxReqs
    <3>1. Cardinality(Pending) + Cardinality(Answering) + 1 <= nextId
      BY DEF AnswerBound, Unanswered
    <3>2. nextId + Cardinality(Issuing) + Cardinality(Adding) <= MaxReqs + 1
      BY DEF IssueBound
    <3> QED  BY <1>0, <3>1, <3>2
  <2>5. Cardinality(T) \in Nat
    BY <2>3, FS_CardinalityType
  <2> QED  BY <1>0, <2>1, <2>2, <2>3, <2>4, <2>5
<1>5. AnswerBound'
  BY <1>1, <1>3 DEF AnswerBound
<1>6. ASSUME NEW q \in Pids
      PROVE  /\ IsFiniteSet(todo'[q])
             /\ Lines(q)' + Cardinality(Announcing)' + Unanswered' + 2
                  <= Welcome(q)' + 2 * nextId'
  <2>1. /\ IsFiniteSet(todo[q])
        /\ Lines(q) + Cardinality(Announcing) + Unanswered + 2
              <= Welcome(q) + 2 * nextId
    BY DEF LineBound
  <2>2. CASE q # p
    <3>1. BeforeScan(q)' <=> BeforeScan(q)
      BY <1>1, <1>2, <2>2 DEF BeforeScan
    <3>2. Welcome(q)' = Welcome(q) /\ Lines(q)' = Lines(q)
      BY <1>1, <1>2, <2>2, <3>1 DEF Welcome, Lines
    <3> QED  BY <1>1, <1>2, <1>3, <2>1, <2>2, <3>2
  <2>3. CASE q = p
    <3>1. Welcome(p) = 0 /\ Welcome(p)' = MaxReqs
      BY <1>1, <1>2 DEF Welcome, BeforeScan
    <3>2. /\ Cardinality(todo[p]) \in Nat /\ Unanswered \in Nat
          /\ Len(fifo[p]) \in Nat
      BY <1>0, <2>1, <2>3, FS_CardinalityType DEF Unanswered
    <3>3. /\ Lines(p) = Len(fifo[p]) + Cardinality(todo[p])
          /\ Lines(p)' = Len(fifo[p]) + Cardinality(todo'[p])
      BY <1>1 DEF Lines
    <3>4. (Len(fifo[p]) + Cardinality(todo[p])) + Cardinality(Announcing)
             + Unanswered + 2 <= 0 + 2 * nextId
      BY <2>1, <2>3, <3>1, <3>3
    <3>5. (Len(fifo[p]) + Cardinality(todo'[p])) + Cardinality(Announcing)
             + Unanswered + 2 <= MaxReqs + 2 * nextId
      BY <1>0, <1>4, <3>2, <3>4, ScanSum
    <3> QED  BY <1>1, <1>3, <1>4, <2>3, <3>1, <3>3, <3>5
  <2> QED  BY <2>2, <2>3
<1> QED  BY <1>5, <1>6 DEF LineBound

(* The sum when a FIFO and what is left to announce get no longer together.  *)
LEMMA KeptSum ==
  ASSUME NEW l1 \in Nat, NEW l2 \in Nat, NEW a \in Nat, NEW u \in Nat,
         NEW w \in Nat, NEW n \in Nat,
         l1 + a + u + 2 <= w + 2 * n, l2 <= l1
  PROVE  l2 + a + u + 2 <= w + 2 * n
OBVIOUS

(* The sum at its largest.                                                   *)
LEMMA FitSum ==
  ASSUME NEW f \in Nat, NEW t \in Nat, NEW a \in Nat, NEW u \in Nat,
         NEW w \in Nat, NEW n \in Nat, NEW m \in Nat,
         (f + t) + a + u + 2 <= w + 2 * n, w <= m, n <= m + 1
  PROVE  f <= 3 * m
OBVIOUS

(* The child of a login writes the lines it has collected.                   *)
LEMMA LineWelcome ==
  ASSUME IsFiniteSet(Pids), TypeOK, TypeOK', AnswerBound, LineBound,
         NEW p \in Pids, LoginNotify(p)
  PROVE  AnswerBound' /\ LineBound'
<1>1. UNCHANGED <<req, reqCount, nextId, user>> /\ pc[p] = "login_notify"
  BY DEF LoginNotify
<1>2. Pending' = Pending
  BY <1>1 DEF Pending
<1>3. CASE UNCHANGED <<todo, fifo>> /\ Return(p)
  <2>1. "select" \in PCs \ {"req_notify", "login_add", "login_scan"}
    BY DEF PCs
  <2>2. \A q \in Pids : LineStep(q)
    BY <1>1, <1>3, <2>1, LineMove DEF Return
  <2> QED  BY <1>1, <1>2, <2>2, LineKept
<1>4. ASSUME NEW r \in todo[p],
             notify_pid(p, "REQ", r.id, user[p]),
             todo' = [todo EXCEPT ![p] = @ \ {r}],
             UNCHANGED pc
      PROVE  AnswerBound' /\ LineBound'
  <2>1. todo'[p] = todo[p] \ {r} /\ \A q \in Pids : q # p => todo'[q] = todo[q]
    BY <1>4 DEF TypeOK
  <2>2. \A q \in Pids : /\ Len(fifo'[q]) \in Nat /\ Len(fifo[q]) \in Nat
                        /\ Len(fifo'[q]) <= Len(fifo[q]) + 1
                        /\ q # p => fifo'[q] = fifo[q]
    BY <1>4, OneLine
  <2>3. /\ Cardinality(Pending) \in Nat /\ Cardinality(Answering) \in Nat
        /\ Cardinality(Announcing) \in Nat
        /\ nextId \in Nat /\ MaxReqs \in Nat
    BY Counts
  <2>4. Answering' = Answering /\ Announcing' = Announcing /\ Unanswered' = Unanswered
    BY <1>2, <1>4 DEF Answering, Announcing, Holding, Unanswered
  <2>5. AnswerBound'
    BY <1>1, <2>4 DEF AnswerBound
  <2>6. ASSUME NEW q \in Pids
        PROVE  /\ IsFiniteSet(todo'[q])
               /\ Lines(q)' + Cardinality(Announcing)' + Unanswered' + 2
                    <= Welcome(q)' + 2 * nextId'
    <3>1. /\ IsFiniteSet(todo[q])
          /\ Lines(q) + Cardinality(Announcing) + Unanswered + 2
                <= Welcome(q) + 2 * nextId
      BY DEF LineBound
    <3>2. Welcome(q)' = Welcome(q) /\ Welcome(q) \in Nat
      <4>1. BeforeScan(q)' <=> BeforeScan(q)
        BY <1>1, <1>4 DEF BeforeScan
      <4> QED  BY <2>3, <4>1 DEF Welcome
    <3>3. /\ IsFiniteSet(todo'[q])
          /\ Lines(q)' \in Nat /\ Lines(q) \in Nat /\ Lines(q)' <= Lines(q)
      <4>1. CASE q # p
        <5>1. Cardinality(todo[q]) \in Nat /\ Len(fifo[q]) \in Nat
          BY <2>2, <3>1, FS_CardinalityType
        <5> QED  BY <2>1, <2>2, <3>1, <4>1, <5>1 DEF Lines
      <4>2. CASE q = p
        <5>1. /\ IsFiniteSet(todo'[p])
              /\ Cardinality(todo'[p]) \in Nat /\ Cardinality(todo[p]) \in Nat
              /\ Cardinality(todo'[p]) + 1 <= Cardinality(todo[p])
          BY <2>1, <3>1, <4>2, OneLessAtLeast
        <5>2. /\ Len(fifo'[p]) \in Nat /\ Len(fifo[p]) \in Nat
              /\ Len(fifo'[p]) <= Len(fifo[p]) + 1
          BY <2>2
        <5> QED  BY <4>2, <5>1, <5>2 DEF Lines
      <4> QED  BY <4>1, <4>2
    <3>4. Unanswered \in Nat
      BY <2>3 DEF Unanswered
    <3>5. Lines(q)' + Cardinality(Announcing) + Unanswered + 2
            <= Welcome(q) + 2 * nextId
      BY <2>3, <3>1, <3>2, <3>3, <3>4, KeptSum
    <3> QED  BY <1>1, <2>4, <3>2, <3>3, <3>5
  <2> QED  BY <2>5, <2>6 DEF LineBound
<1> QED  BY <1>3, <1>4 DEF LoginNotify

(* Nothing was issued and nothing is written.                                *)
LEMMA RoomInit ==
  ASSUME IsFiniteSet(Pids), Init
  PROVE  RoomInv
<1>1. TransferInv /\ AddressInv
  BY InitInv, AddressInit
<1>2. Named
  BY DEF Init, Named
<1>3. /\ Issuing = {} /\ Adding = {} /\ Announcing = {} /\ Answering = {}
      /\ Pending = {} /\ nextId = 1
      /\ \A q \in Pids : todo[q] = {} /\ Len(fifo[q]) = 0 /\ Welcome(q) = 0
  BY DEF Init, setup_shmem, Issuing, Adding, Announcing, Answering, Pending,
         Holding, Welcome, BeforeScan, NoCmd
<1>4. IsFiniteSet({}) /\ Cardinality({}) = 0 /\ MaxReqs \in Nat
  BY FS_EmptySet, TransferAssumption
<1>5. IssueBound
  BY <1>3, <1>4 DEF IssueBound
<1>6. Unanswered = 0
  BY <1>3, <1>4 DEF Unanswered
<1>7. AnswerBound
  BY <1>3, <1>6 DEF AnswerBound
<1>8. LineBound
  <2>1. ASSUME NEW q \in Pids
        PROVE  /\ IsFiniteSet(todo[q])
               /\ Lines(q) = 0 /\ Cardinality(Announcing) = 0 /\ Welcome(q) = 0
    <3>1. todo[q] = {} /\ Len(fifo[q]) = 0
      BY <1>3
    <3> QED  BY <1>3, <1>4, <3>1 DEF Lines
  <2> QED  BY <1>3, <1>6, <2>1 DEF LineBound
<1> QED  BY <1>1, <1>2, <1>5, <1>7, <1>8 DEF RoomInv

(* Every step keeps the bounds.                                              *)
LEMMA RoomNext ==
  ASSUME IsFiniteSet(Pids), RoomInv, [Next]_vars
  PROVE  RoomInv'
<1>1. TransferInv' /\ AddressInv' /\ Named'
  BY NextInv, AddressNext, NamedNext DEF RoomInv
<1>0. /\ TransferInv /\ TypeOK /\ TypeOK' /\ Named
      /\ IssueBound /\ AnswerBound /\ LineBound
  BY <1>1 DEF RoomInv, TransferInv
<1>2. IssueBound'
  BY <1>0, IssueNext
<1>3. ASSUME NEW p \in Pids,
             \/ Connect(p) \/ ClientStep(p) \/ ReadNotification(p)
             \/ LoginRefused(p) \/ LoginRequired(p) \/ OtherCommand(p)
             \/ TransferRefused(p) \/ AnswerRefused(p)
             \/ handle_login(p) \/ LoginAdd(p) \/ TransferFind(p)
             \/ AcceptFind(p) \/ RejectFind(p) \/ AcceptCopy(p) \/ AcceptSet(p)
             \/ Eof(p) \/ CloseFail(p) \/ CloseFifo(p) \/ Crash(p)
             \/ handle_signals(p)
      PROVE  AnswerBound' /\ LineBound'
  <2>1. nextId' = nextId /\ \A q \in Pids : LineStep(q)
    BY <1>0, <1>3, LineQuiet
  <2>2. Pending' \subseteq Pending
    <3>1. CASE AcceptSet(p) \/ CloseFail(p)
      BY <1>0, <3>1, PendingLess
    <3>2. CASE ~(AcceptSet(p) \/ CloseFail(p))
      <4>1. UNCHANGED <<req, reqCount>>
        BY <1>3, <3>2 DEF Connect, ClientStep, Send, recv_response,
           ReadUnsolicited, ClientClose, ReadNotification, LoginRefused,
           LoginRequired, OtherCommand, TransferRefused, AnswerRefused,
           AnswerOnly, handle_login, LoginAdd, TransferFind, AcceptFind,
           RejectFind, FindSource, AcceptCopy, Eof, CloseFifo, Crash,
           handle_signals
      <4> QED  BY <4>1 DEF Pending
    <3> QED  BY <3>1, <3>2
  <2> QED  BY <1>0, <2>1, <2>2, LineKept
<1>4. ASSUME NEW p \in Pids,
             \/ TransferAdd(p) \/ AcceptTake(p) \/ RejectTake(p)
             \/ LoginScan(p) \/ LoginNotify(p)
             \/ TransferNotify(p) \/ AcceptNotify(p) \/ RejectNotify(p)
      PROVE  AnswerBound' /\ LineBound'
  BY <1>0, <1>4, LineAdd, LineTake, LineScan, LineWelcome, LineNotify
<1>5. ASSUME collect_stale_sessions \/ UNCHANGED vars
      PROVE  AnswerBound' /\ LineBound'
  <2>1. UNCHANGED <<pc, user, todo, fifo, req, reqCount, nextId>>
    BY <1>5 DEF collect_stale_sessions, vars
  <2>2. \A q \in Pids : LineStep(q)
    BY <1>0, <2>1, LineStay DEF FifoStep
  <2>3. Pending' \subseteq Pending /\ nextId' = nextId
    BY <2>1 DEF Pending
  <2> QED  BY <1>0, <2>2, <2>3, LineKept
<1>6. AnswerBound' /\ LineBound'
  <2>1. ASSUME NEW p \in Pids, ChildStep(p) PROVE AnswerBound' /\ LineBound'
    BY <1>3, <1>4, <2>1 DEF ChildStep
  <2> QED  BY <1>3, <1>5, <2>1 DEF Next
<1> QED  BY <1>1, <1>2, <1>6 DEF RoomInv

(* What a FIFO holds, from the bounds.                                       *)
LEMMA LinesFit ==
  ASSUME IsFiniteSet(Pids), RoomInv, NEW q \in Pids
  PROVE  Len(fifo[q]) \in Nat /\ Len(fifo[q]) <= 3 * MaxReqs
<1>0. TypeOK /\ IssueBound /\ LineBound
  BY DEF RoomInv, TransferInv
<1>1. /\ Cardinality(Pending) \in Nat /\ Cardinality(Answering) \in Nat
      /\ Cardinality(Announcing) \in Nat
      /\ Cardinality(Issuing) \in Nat /\ Cardinality(Adding) \in Nat
      /\ nextId \in Nat /\ MaxReqs \in Nat /\ Len(fifo[q]) \in Nat
  BY <1>0, Counts
<1>2. /\ IsFiniteSet(todo[q])
      /\ Lines(q) + Cardinality(Announcing) + Unanswered + 2
            <= Welcome(q) + 2 * nextId
  BY <1>0 DEF LineBound
<1>3. Cardinality(todo[q]) \in Nat /\ Unanswered \in Nat
  BY <1>1, <1>2, FS_CardinalityType DEF Unanswered
<1>4. Welcome(q) \in Nat /\ Welcome(q) <= MaxReqs
  BY <1>1 DEF Welcome
<1>5. (Len(fifo[q]) + Cardinality(todo[q])) + Cardinality(Announcing)
         + Unanswered + 2 <= Welcome(q) + 2 * nextId
  BY <1>2 DEF Lines
<1>6. nextId <= MaxReqs + 1
  <2>1. nextId + Cardinality(Issuing) + Cardinality(Adding) <= MaxReqs + 1
    BY <1>0 DEF IssueBound
  <2> QED  BY <1>1, <2>1
<1> QED  BY <1>1, <1>3, <1>4, <1>5, <1>6, FitSum

(* No notification is ever refused for want of room in a FIFO that holds     *)
(* three lines for each request: the line of the child that added it, the    *)
(* one that a login adds, and the answer, which waits for none of the two to *)
(* be read.  This holds also when children are killed.                       *)
THEOREM RoomInFifos ==
  ASSUME IsFiniteSet(Pids), FifoCap > 3 * MaxReqs
  PROVE  Spec => []FifosHaveRoom
<1>1. RoomInv => FifosHaveRoom
  BY LinesFit, TransferAssumption DEF FifosHaveRoom
<1>2. Init => RoomInv
  BY RoomInit
<1>3. RoomInv /\ [Next]_vars => RoomInv'
  BY RoomNext
<1> QED  BY <1>1, <1>2, <1>3, PTL DEF Spec

-----------------------------------------------------------------------------
(* Waiting senders.  The client of a transfer_request blocks without a        *)
(* timeout; as long as it does, its request is pending, some child holds it,  *)
(* or the answer is in its own FIFO or on its own socket.                     *)

(* A user name is used on one connection only.                               *)
OneConnection == \A p, q \in Pids : p # q => LoginAs[p] \cap LoginAs[q] = {}

(* A client logs in under one of its own names.                              *)
OwnLogin ==
    \A p \in Pids : /\ user[p] \in LoginAs[p] \cup {NoUser}
                    /\ cmd[p].op = "login" => cmd[p].to \in LoginAs[p]

(* A collected entry keeps no name that a lookup could find.                 *)
FreeZero == \A i \in Slots : ~sess[i].in_use => sess[i].username = NoUser

(* The child of a client that is there does not end, and the client that     *)
(* waits for the request id was logged in when the request got that id.      *)
WaitersServed ==
    \A p \in Pids :
        /\ cli[p] # "closed" =>
              pc[p] \notin {"close_fail", "close_fifo", "dead", "reaped"}
        /\ waitId[p] # 0 =>
              /\ cli[p] = "waiting"
              /\ waitId[p] < nextId
              /\ user[p] # NoUser
              /\ pc[p] \notin {"none", "login_add", "login_scan", "login_notify"}

(* The request that p waits for names the user of p as its sender, and the   *)
(* child that settles it finds p under that name.                            *)
WaitersFound ==
    \A p \in Pids : waitId[p] # 0 =>
        /\ \A i \in 1 .. reqCount :
              req[i].id = waitId[p] => req[i].source_username = user[p]
        /\ \A q \in Pids : Holding(q) /\ loc[q].id = waitId[p] =>
              IF pc[q] \in {"acc_find", "rej_find"} THEN loc[q].peer = user[p]
              ELSE loc[q].online /\ loc[q].pid = p

(* Where the answer for the request id comes from.                           *)
PendingId(id) ==
    \E i \in 1 .. reqCount : req[i].id = id /\ req[i].status = "PENDING"
HeldId(id) == \E q \in Pids : Holding(q) /\ loc[q].id = id
LineId(p, id) ==
    \E n \in 1 .. Len(fifo[p]) : fifo[p][n].id = id /\ fifo[p][n].kind # "REQ"
FrameId(p, id) ==
    \E n \in 1 .. Len(inbox[p]) :
        inbox[p][n].type # "RSP_NOTIFY" /\ inbox[p][n].re \in {0, id}

WaitersHope ==
    \A p \in Pids : waitId[p] # 0 =>
        \/ PendingId(waitId[p]) \/ HeldId(waitId[p])
        \/ LineId(p, waitId[p]) \/ FrameId(p, waitId[p])

(* The inductive invariant behind WaiterHasHope.                             *)
HopeInv ==
    /\ RoomInv
    /\ RecordInv
    /\ LiveSessionListed
    /\ OwnLogin
    /\ FreeZero
    /\ WaitersServed
    /\ WaitersFound
    /\ WaitersHope

-----------------------------------------------------------------------------
(* Who changes what. *)

(* A line is added to the FIFO of one child only, and at its end.            *)
LEMMA Appended ==
  ASSUME TypeOK, NEW r, NEW kind, NEW id, NEW to,
         notify_pid(r, kind, id, to), NEW q \in Pids
  PROVE  \/ fifo'[q] = fifo[q]
         \/ \E n : fifo'[q] = Append(fifo[q], n)
<1> DEFINE n == [kind |-> kind, id |-> id, to |-> to]
<1>1. fifo \in [Pids -> Seq(Notification)]
  BY DEF TypeOK
<1>2. UNCHANGED fifo \/ fifo' = [fifo EXCEPT ![r] = Append(@, n)]
  BY DEF notify_pid
<1> HIDE DEF n
<1> QED  BY <1>1, <1>2

(* A FIFO gets a line more, or is read or closed by its own child.           *)
LEMMA FifoSteps ==
  ASSUME TypeOK, [Next]_vars, NEW q \in Pids
  PROVE  \/ fifo'[q] = fifo[q]
         \/ \E n : fifo'[q] = Append(fifo[q], n)
         \/ ReadNotification(q) \/ CloseFifo(q) \/ Crash(q)
<1> DEFINE Goal == \/ fifo'[q] = fifo[q]
                   \/ \E n : fifo'[q] = Append(fifo[q], n)
                   \/ ReadNotification(q) \/ CloseFifo(q) \/ Crash(q)
<1>0. fifo \in [Pids -> Seq(Notification)]
  BY DEF TypeOK
<1>1. ASSUME NEW p \in Pids, ReadNotification(p) \/ CloseFifo(p) \/ Crash(p)
      PROVE  Goal
  <2>1. p # q => fifo'[q] = fifo[q]
    BY <1>0, <1>1 DEF ReadNotification, CloseFifo, Crash
  <2> QED  BY <1>1, <2>1
<1>2. ASSUME NEW p \in Pids,
             \/ LoginNotify(p) \/ TransferNotify(p) \/ AcceptNotify(p)
             \/ RejectNotify(p)
      PROVE  Goal
  <2>1. \/ UNCHANGED fifo
        \/ \E r, kind, id, to : notify_pid(r, kind, id, to)
    BY <1>2 DEF LoginNotify, TransferNotify, AcceptNotify, RejectNotify, AnswerSource
  <2> QED  BY <2>1, Appended
<1>3. ASSUME NEW p \in Pids,
             \/ Connect(p) \/ ClientStep(p) \/ handle_signals(p)
             \/ LoginRefused(p) \/ handle_login(p) \/ LoginAdd(p) \/ LoginScan(p)
             \/ LoginRequired(p) \/ OtherCommand(p) \/ TransferRefused(p)
             \/ TransferFind(p) \/ TransferAdd(p) \/ AcceptTake(p)
             \/ RejectTake(p) \/ AnswerRefused(p) \/ AcceptFind(p)
             \/ AcceptCopy(p) \/ AcceptSet(p) \/ RejectFind(p) \/ Eof(p)
             \/ CloseFail(p)
      PROVE  Goal
  BY <1>3 DEF Connect, ClientStep, Send, recv_response, ReadUnsolicited,
     ClientClose, handle_signals, LoginRefused, handle_login, LoginAdd,
     LoginScan, LoginRequired, OtherCommand, TransferRefused, TransferFind,
     TransferAdd, AcceptTake, RejectTake, TakeRequest, AnswerRefused,
     AnswerOnly, AcceptFind, RejectFind, FindSource, AcceptCopy, AcceptSet,
     Eof, CloseFail
<1>4. CASE collect_stale_sessions \/ UNCHANGED vars
  BY <1>4 DEF collect_stale_sessions, vars
<1> HIDE DEF Goal
<1>5. ASSUME NEW p \in Pids, ChildStep(p) PROVE Goal
  BY <1>1, <1>2, <1>3, <1>5 DEF ChildStep
<1>6. Goal
  BY <1>1, <1>3, <1>4, <1>5 DEF Next, Goal
<1> QED  BY <1>6 DEF Goal

(* A frame is added at the end of what its client has to read.               *)
LEMMA FrameAppended ==
  ASSUME TypeOK, NEW r, NEW type, NEW re, SendFrame(r, type, re), NEW q \in Pids
  PROVE  \/ inbox'[q] = inbox[q]
         \/ \E f : inbox'[q] = Append(inbox[q], f)
<1> DEFINE f == [type |-> type, re |-> re]
<1>1. inbox \in [Pids -> Seq(Frame)]
  BY DEF TypeOK
<1>2. UNCHANGED inbox \/ inbox' = [inbox EXCEPT ![r] = Append(@, f)]
  BY DEF SendFrame
<1> HIDE DEF f
<1> QED  BY <1>1, <1>2

(* The frames of a client grow, or are read by itself, or it leaves.         *)
LEMMA InboxSteps ==
  ASSUME TypeOK, [Next]_vars, NEW q \in Pids
  PROVE  \/ inbox'[q] = inbox[q]
         \/ \E f : inbox'[q] = Append(inbox[q], f)
         \/ recv_response(q) \/ ReadUnsolicited(q) \/ ClientClose(q)
<1> DEFINE Goal == \/ inbox'[q] = inbox[q]
                   \/ \E f : inbox'[q] = Append(inbox[q], f)
                   \/ recv_response(q) \/ ReadUnsolicited(q) \/ ClientClose(q)
<1>0. inbox \in [Pids -> Seq(Frame)]
  BY DEF TypeOK
<1>1. ASSUME NEW p \in Pids, recv_response(p) \/ ReadUnsolicited(p) \/ ClientClose(p)
      PROVE  Goal
  <2>1. p # q => inbox'[q] = inbox[q]
    BY <1>0, <1>1 DEF recv_response, ReadUnsolicited, ClientClose
  <2> QED  BY <1>1, <2>1
<1>2. ASSUME NEW p \in Pids,
             \/ LoginRefused(p) \/ LoginRequired(p) \/ OtherCommand(p)
             \/ TransferRefused(p) \/ AnswerRefused(p) \/ handle_login(p)
             \/ TransferAdd(p) \/ TransferNotify(p) \/ AcceptFind(p)
             \/ RejectFind(p) \/ AcceptNotify(p) \/ RejectNotify(p)
             \/ ReadNotification(p)
      PROVE  Goal
  <2>1. \/ UNCHANGED inbox
        \/ \E type, re : SendFrame(p, type, re)
    BY <1>2 DEF LoginRefused, LoginRequired, OtherCommand, TransferRefused,
       AnswerRefused, AnswerOnly, handle_login, TransferAdd, TransferNotify,
       AcceptFind, RejectFind, FindSource, AcceptNotify, RejectNotify,
       AnswerSource, ReadNotification
  <2> QED  BY <2>1, FrameAppended
<1>3. ASSUME NEW p \in Pids,
             \/ Connect(p) \/ (\E c \in Commands(p) : Send(p, c))
             \/ handle_signals(p) \/ LoginAdd(p) \/ LoginScan(p)
             \/ LoginNotify(p) \/ TransferFind(p) \/ AcceptTake(p)
             \/ RejectTake(p) \/ AcceptCopy(p) \/ AcceptSet(p) \/ Eof(p)
             \/ CloseFail(p) \/ CloseFifo(p) \/ Crash(p)
      PROVE  Goal
  BY <1>3 DEF Connect, Send, handle_signals, LoginAdd, LoginScan, LoginNotify,
     TransferFind, AcceptTake, RejectTake, TakeRequest, AcceptCopy, AcceptSet,
     Eof, CloseFail, CloseFifo, Crash
<1>4. CASE collect_stale_sessions \/ UNCHANGED vars
  BY <1>4 DEF collect_stale_sessions, vars
<1> HIDE DEF Goal
<1>5. ASSUME NEW p \in Pids, ChildStep(p) \/ ClientStep(p) PROVE Goal
  BY <1>1, <1>2, <1>3, <1>5 DEF ChildStep, ClientStep
<1>6. Goal
  BY <1>2, <1>3, <1>4, <1>5 DEF Next, Goal
<1> QED  BY <1>6 DEF Goal

(* A child that neither holds a request nor takes one up.                    *)
LEMMA HoldsNothing ==
  ASSUME TypeOK, NEW p \in Pids, NEW q \in Pids,
         \/ UNCHANGED <<pc, loc>>
         \/ /\ ~Holding(p)
            /\ \/ UNCHANGED pc
               \/ \E label \in {"none", "select", "login_add", "login_scan",
                     "login_notify", "req_add", "req_notify", "close_fail",
                     "close_fifo", "dead", "reaped"} : Goto(p, label)
            /\ loc' = loc \/ \E l : loc' = [loc EXCEPT ![p] = l]
  PROVE  \/ pc'[q] = pc[q] /\ loc'[q] = loc[q]
         \/ ~Holding(q) /\ ~Holding(q)'
<1>1. CASE UNCHANGED <<pc, loc>>
  BY <1>1
<1>2. CASE /\ ~Holding(p)
           /\ \/ UNCHANGED pc
              \/ \E label \in {"none", "select", "login_add", "login_scan",
                    "login_notify", "req_add", "req_notify", "close_fail",
                    "close_fifo", "dead", "reaped"} : Goto(p, label)
           /\ loc' = loc \/ \E l : loc' = [loc EXCEPT ![p] = l]
  <2>1. q # p => pc'[q] = pc[q] /\ loc'[q] = loc[q]
    BY <1>2 DEF Goto, TypeOK
  <2>2. ~Holding(p)'
    BY <1>2 DEF Goto, TypeOK, Holding
  <2> QED  BY <1>2, <2>1, <2>2
<1> QED  BY <1>1, <1>2

(* Who holds a request goes on with it, and does so by itself.               *)
LEMMA HolderSteps ==
  ASSUME TypeOK, [Next]_vars, NEW q \in Pids
  PROVE  \/ pc'[q] = pc[q] /\ loc'[q] = loc[q]
         \/ ~Holding(q) /\ ~Holding(q)'
         \/ AcceptTake(q) \/ RejectTake(q) \/ AcceptFind(q) \/ RejectFind(q)
         \/ AcceptCopy(q) \/ AcceptSet(q) \/ AcceptNotify(q) \/ RejectNotify(q)
         \/ Crash(q)
<1> DEFINE Alone == \/ AcceptTake(q) \/ RejectTake(q) \/ AcceptFind(q)
                    \/ RejectFind(q) \/ AcceptCopy(q) \/ AcceptSet(q)
                    \/ AcceptNotify(q) \/ RejectNotify(q) \/ Crash(q)
           Goal == \/ pc'[q] = pc[q] /\ loc'[q] = loc[q]
                   \/ ~Holding(q) /\ ~Holding(q)'
                   \/ Alone
<1>1. ASSUME NEW p \in Pids,
             \/ AcceptTake(p) \/ RejectTake(p) \/ AcceptFind(p) \/ RejectFind(p)
             \/ AcceptCopy(p) \/ AcceptSet(p) \/ AcceptNotify(p)
             \/ RejectNotify(p) \/ Crash(p)
      PROVE  Goal
  <2>1. /\ \E label : pc' = [pc EXCEPT ![p] = label]
        /\ loc' = loc \/ \E l : loc' = [loc EXCEPT ![p] = l]
    BY <1>1 DEF AcceptTake, RejectTake, TakeRequest, AcceptFind, RejectFind,
       FindSource, AcceptCopy, AcceptSet, AcceptNotify, RejectNotify,
       AnswerSource, Crash, Return, Goto
  <2>2. p # q => pc'[q] = pc[q] /\ loc'[q] = loc[q]
    BY <2>1 DEF TypeOK
  <2> QED  BY <1>1, <2>2
<1>2. ASSUME NEW p \in Pids,
             \/ Connect(p) \/ ClientStep(p) \/ ReadNotification(p)
             \/ handle_signals(p) \/ LoginRefused(p) \/ handle_login(p)
             \/ LoginAdd(p) \/ LoginScan(p) \/ LoginNotify(p)
             \/ LoginRequired(p) \/ OtherCommand(p) \/ TransferRefused(p)
             \/ TransferFind(p) \/ TransferAdd(p) \/ TransferNotify(p)
             \/ AnswerRefused(p) \/ Eof(p) \/ CloseFail(p) \/ CloseFifo(p)
      PROVE  Goal
  <2>1. CASE \/ ClientStep(p) \/ ReadNotification(p) \/ LoginRefused(p)
             \/ LoginRequired(p) \/ OtherCommand(p) \/ TransferRefused(p)
             \/ AnswerRefused(p)
    <3>1. UNCHANGED <<pc, loc>>
      BY <2>1 DEF ClientStep, Send, recv_response, ReadUnsolicited,
         ClientClose, ReadNotification, LoginRefused, LoginRequired,
         OtherCommand, TransferRefused, AnswerRefused, AnswerOnly
    <3> QED  BY <3>1
  <2>2. CASE \/ Connect(p) \/ handle_signals(p) \/ handle_login(p)
             \/ LoginAdd(p) \/ LoginScan(p) \/ LoginNotify(p)
             \/ TransferFind(p) \/ TransferAdd(p) \/ TransferNotify(p)
             \/ Eof(p) \/ CloseFail(p) \/ CloseFifo(p)
    <3>1. ~Holding(p)
      BY <2>2 DEF Connect, handle_signals, handle_login, Receive, LoginAdd,
         LoginScan, LoginNotify, TransferFind, TransferAdd, TransferNotify,
         Eof, CloseFail, CloseFifo, Holding
    <3>2. \/ UNCHANGED pc
          \/ \E label \in {"none", "select", "login_add", "login_scan",
                "login_notify", "req_add", "req_notify", "close_fail",
                "close_fifo", "dead", "reaped"} : Goto(p, label)
      BY <2>2 DEF Connect, handle_signals, handle_login, LoginAdd,
         LoginScan, LoginNotify, TransferFind, TransferAdd, TransferNotify,
         Eof, CloseFail, CloseFifo, Return
    <3>3. loc' = loc \/ \E l : loc' = [loc EXCEPT ![p] = l]
      BY <2>2 DEF Connect, handle_signals, handle_login, LoginAdd,
         LoginScan, LoginNotify, TransferFind, TransferAdd, TransferNotify,
         Eof, CloseFail, CloseFifo, Return
    <3> QED  BY <3>1, <3>2, <3>3, HoldsNothing
  <2> QED  BY <1>2, <2>1, <2>2
<1>3. CASE collect_stale_sessions \/ UNCHANGED vars
  BY <1>3 DEF collect_stale_sessions, vars
<1> HIDE DEF Goal
<1>4. ASSUME NEW p \in Pids, ChildStep(p) PROVE Goal
  BY <1>1, <1>2, <1>4 DEF ChildStep
<1>5. Goal
  BY <1>1, <1>2, <1>3, <1>4 DEF Next, Goal
<1> QED  BY <1>5 DEF Goal

(* Only these steps touch the request table.                                 *)
LEMMA RequestsAlone ==
  ASSUME [Next]_vars,
         \A q \in Pids : /\ ~TransferAdd(q) /\ ~AcceptTake(q) /\ ~RejectTake(q)
                         /\ ~AcceptSet(q) /\ ~CloseFail(q)
  PROVE  UNCHANGED <<req, reqCount, nextId>>
<1>1. CASE \E q \in Pids : Connect(q) \/ ClientStep(q) \/ ReadNotification(q)
                           \/ Crash(q) \/ handle_signals(q)
  BY <1>1 DEF Connect, ClientStep, Send, recv_response, ReadUnsolicited,
     ClientClose, ReadNotification, Crash, handle_signals
<1>2. ASSUME NEW q \in Pids, ChildStep(q) PROVE UNCHANGED <<req, reqCount, nextId>>
  BY <1>2 DEF ChildStep, LoginRefused, handle_login, LoginAdd, LoginScan,
     LoginNotify, LoginRequired, OtherCommand, TransferRefused, TransferFind,
     TransferNotify, AnswerRefused, AnswerOnly, AcceptFind, RejectFind,
     FindSource, AcceptCopy, AcceptNotify, RejectNotify, AnswerSource, Eof,
     CloseFifo
<1>3. CASE collect_stale_sessions \/ UNCHANGED vars
  BY <1>3 DEF collect_stale_sessions, vars
<1> QED  BY <1>1, <1>2, <1>3 DEF Next

(* A client begins to wait for a request when the request is added, and ends *)
(* when it is answered or leaves.                                            *)
LEMMA WaitSteps ==
  ASSUME TypeOK, [Next]_vars, NEW q \in Pids
  PROVE  \/ waitId'[q] = waitId[q]
         \/ waitId'[q] = 0 /\ (recv_response(q) \/ ClientClose(q))
         \/ /\ TransferAdd(q) /\ ~RequestsFull /\ cli[q] = "waiting"
            /\ waitId'[q] = nextId
<1> DEFINE Goal == \/ waitId'[q] = waitId[q]
                   \/ waitId'[q] = 0 /\ (recv_response(q) \/ ClientClose(q))
                   \/ /\ TransferAdd(q) /\ ~RequestsFull /\ cli[q] = "waiting"
                      /\ waitId'[q] = nextId
<1>0. waitId \in [Pids -> Nat]
  BY DEF TypeOK
<1>1. ASSUME NEW p \in Pids, recv_response(p) \/ ClientClose(p) PROVE Goal
  <2>1. waitId' = waitId \/ waitId' = [waitId EXCEPT ![p] = 0]
    BY <1>1 DEF recv_response, ClientClose
  <2> QED  BY <1>0, <1>1, <2>1
<1>2. ASSUME NEW p \in Pids, TransferAdd(p) PROVE Goal
  <2>1. \/ waitId' = waitId
        \/ /\ ~RequestsFull /\ cli[p] = "waiting"
           /\ waitId' = [waitId EXCEPT ![p] = nextId]
    BY <1>2 DEF TransferAdd
  <2> QED  BY <1>0, <1>2, <2>1
<1>3. ASSUME NEW p \in Pids,
             \/ Connect(p) \/ (\E c \in Commands(p) : Send(p, c))
             \/ ReadUnsolicited(p) \/ ReadNotification(p) \/ Crash(p)
             \/ handle_signals(p) \/ LoginRefused(p) \/ handle_login(p)
             \/ LoginAdd(p) \/ LoginScan(p) \/ LoginNotify(p)
             \/ LoginRequired(p) \/ OtherCommand(p) \/ TransferRefused(p)
             \/ TransferFind(p) \/ TransferNotify(p) \/ AcceptTake(p)
             \/ RejectTake(p) \/ AnswerRefused(p) \/ AcceptFind(p)
             \/ AcceptCopy(p) \/ AcceptSet(p) \/ AcceptNotify(p)
             \/ RejectFind(p) \/ RejectNotify(p) \/ Eof(p) \/ CloseFail(p)
             \/ CloseFifo(p)
      PROVE  Goal
  BY <1>3 DEF Connect, Send, ReadUnsolicited, ReadNotification, Crash,
     handle_signals, LoginRefused, handle_login, LoginAdd, LoginScan,
     LoginNotify, LoginRequired, OtherCommand, TransferRefused, TransferFind,
     TransferNotify, AcceptTake, RejectTake, TakeRequest, AnswerRefused,
     AnswerOnly, AcceptFind, RejectFind, FindSource, AcceptCopy, AcceptSet,
     AcceptNotify, RejectNotify, AnswerSource, Eof, CloseFail, CloseFifo
<1>4. CASE collect_stale_sessions \/ UNCHANGED vars
  BY <1>4 DEF collect_stale_sessions, vars
<1> HIDE DEF Goal
<1>5. ASSUME NEW p \in Pids, ChildStep(p) \/ ClientStep(p) PROVE Goal
  BY <1>1, <1>2, <1>3, <1>5 DEF ChildStep, ClientStep
<1>6. Goal
  BY <1>3, <1>4, <1>5 DEF Next, Goal
<1> QED  BY <1>6 DEF Goal

-----------------------------------------------------------------------------
(* Who is found under a name. *)

(* Names are used by the connections that they belong to.                    *)
LEMMA OwnLoginNext ==
  ASSUME TypeOK, OwnLogin, [Next]_vars
  PROVE  OwnLogin'
<1>0. /\ user \in [Pids -> Users \cup {NoUser}] /\ cmd \in [Pids -> Command]
      /\ NoCmd.op # "login"
  BY DEF TypeOK, NoCmd
<1>1. ASSUME NEW p \in Pids, UNCHANGED user,
             cmd' = cmd \/ cmd' = [cmd EXCEPT ![p] = NoCmd]
      PROVE  OwnLogin'
  <2>1. \A q \in Pids : cmd'[q] = cmd[q] \/ cmd'[q] = NoCmd
    BY <1>0, <1>1
  <2> QED  BY <1>0, <1>1, <2>1 DEF OwnLogin
<1>2. ASSUME NEW p \in Pids, NEW c \in Commands(p), Send(p, c) PROVE OwnLogin'
  <2>1. UNCHANGED user /\ cmd' = [cmd EXCEPT ![p] = c]
    BY <1>2 DEF Send
  <2>2. c.op = "login" => c.to \in LoginAs[p]
    BY DEF Commands, Login, Transfer, Accept, Reject, Other
  <2>3. \A q \in Pids : cmd'[q] = IF q = p THEN c ELSE cmd[q]
    BY <1>0, <2>1
  <2> QED  BY <2>1, <2>2, <2>3 DEF OwnLogin
<1>3. ASSUME NEW p \in Pids, handle_login(p) PROVE OwnLogin'
  <2>1. /\ cmd[p].op = "login"
        /\ user' = [user EXCEPT ![p] = cmd[p].to]
        /\ cmd' = [cmd EXCEPT ![p] = NoCmd]
    BY <1>3 DEF handle_login, Receive
  <2>2. \A q \in Pids : /\ user'[q] = IF q = p THEN cmd[p].to ELSE user[q]
                        /\ cmd'[q] = IF q = p THEN NoCmd ELSE cmd[q]
    BY <1>0, <2>1
  <2> QED  BY <1>0, <2>1, <2>2 DEF OwnLogin
<1>4. ASSUME NEW p \in Pids,
             \/ Connect(p) \/ recv_response(p) \/ ReadUnsolicited(p)
             \/ ClientClose(p) \/ ReadNotification(p) \/ Crash(p)
             \/ handle_signals(p) \/ LoginRefused(p) \/ LoginAdd(p)
             \/ LoginScan(p) \/ LoginNotify(p) \/ LoginRequired(p)
             \/ OtherCommand(p) \/ TransferRefused(p) \/ TransferFind(p)
             \/ TransferAdd(p) \/ TransferNotify(p) \/ AcceptTake(p)
             \/ RejectTake(p) \/ AnswerRefused(p) \/ AcceptFind(p)
             \/ AcceptCopy(p) \/ AcceptSet(p) \/ AcceptNotify(p)
             \/ RejectFind(p) \/ RejectNotify(p) \/ Eof(p) \/ CloseFail(p)
             \/ CloseFifo(p)
      PROVE  OwnLogin'
  <2>1. UNCHANGED user /\ (cmd' = cmd \/ cmd' = [cmd EXCEPT ![p] = NoCmd])
    BY <1>4 DEF Connect, recv_response, ReadUnsolicited, ClientClose,
     ReadNotification, Crash, handle_signals, LoginRefused, LoginAdd,
     LoginScan, LoginNotify, LoginRequired, OtherCommand, TransferRefused,
     TransferFind, TransferAdd, TransferNotify, AcceptTake, RejectTake,
     TakeRequest, AnswerRefused, AnswerOnly, Receive, AcceptFind, AcceptCopy,
     AcceptSet, AcceptNotify, RejectFind, RejectNotify, FindSource,
     AnswerSource, Eof, CloseFail, CloseFifo
  <2> QED  BY <1>1, <2>1
<1>5. CASE collect_stale_sessions \/ UNCHANGED vars
  <2>1. UNCHANGED <<user, cmd>>
    BY <1>5 DEF collect_stale_sessions, vars
  <2> QED  BY <2>1 DEF OwnLogin
<1>6. ASSUME NEW p \in Pids, ChildStep(p) \/ ClientStep(p) PROVE OwnLogin'
  BY <1>2, <1>3, <1>4, <1>6 DEF ChildStep, ClientStep
<1> QED  BY <1>4, <1>5, <1>6 DEF Next

(* The table changes by the entry of a session that logs in, and by entries  *)
(* that are zeroed.                                                          *)
LEMMA FreeZeroNext ==
  ASSUME TypeOK, FreeZero, [Next]_vars
  PROVE  FreeZero'
<1>0. sess \in [Slots -> session_entry_t]
  BY DEF TypeOK, ShmTypeOK
<1>1. ASSUME NEW p \in Pids, LoginAdd(p) PROVE FreeZero'
  <2> DEFINE e == [username |-> user[p], pid |-> p, in_use |-> TRUE]
  <2>1. sess' = sess \/ \E k : sess' = [sess EXCEPT ![k] = e]
    BY <1>1 DEF LoginAdd, shm_session_add
  <2>2. e.in_use
    OBVIOUS
  <2> HIDE DEF e
  <2>3. \A i \in Slots : sess'[i] = sess[i] \/ sess'[i] = e
    BY <1>0, <2>1
  <2> QED  BY <2>2, <2>3 DEF FreeZero
<1>2. CASE collect_stale_sessions
  BY <1>2 DEF collect_stale_sessions, shm_sessions_collect_stale, FreeZero,
              FreeSession
<1>3. CASE UNCHANGED sess
  BY <1>3 DEF FreeZero
<1> QED  BY <1>1, <1>2, <1>3, TableAlone

(* A session that is logged in is the one that is found under its name.      *)
LEMMA FoundSession ==
  ASSUME AddressInv, LiveSessionListed, OwnLogin, FreeZero, OneConnection,
         NEW p \in Pids, LoggedIn(p)
  PROVE  shm_session_find(user[p]) = [found |-> TRUE, pid |-> p, online |-> TRUE]
<1>0. TypeOK /\ SessionsRight
  BY DEF AddressInv
<1>1. sessCount \in Nat /\ sessCount <= MAX_ENTRIES /\ MAX_ENTRIES \in Nat
  BY <1>0, ShmAssumption DEF TypeOK, ShmTypeOK
<1>2. PICK i \in 1 .. sessCount :
          sess[i] = [username |-> user[p], pid |-> p, in_use |-> TRUE]
  BY DEF LiveSessionListed, LoggedIn
<1>3. SessionsOf(user[p]) # {}
  BY <1>2 DEF SessionsOf
<1> DEFINE k == Min(SessionsOf(user[p]))
<1>4. SessionsOf(user[p]) \in SUBSET Nat /\ SessionsOf(user[p]) \subseteq Slots
  BY <1>1 DEF SessionsOf
<1>5. k \in SessionsOf(user[p])
  BY <1>3, <1>4, MinIn
<1>6. k \in Slots /\ sess[k].username = user[p]
  BY <1>4, <1>5 DEF SessionsOf
<1> HIDE DEF k
<1>7. sess[k].in_use
  BY <1>6 DEF FreeZero, LoggedIn
<1>8. sess[k].pid \in Pids /\ user[sess[k].pid] = user[p]
  BY <1>0, <1>6, <1>7 DEF SessionsRight, Serves
<1>9. sess[k].pid = p
  <2>1. user[p] \in LoginAs[p] /\ user[p] \in LoginAs[sess[k].pid]
    BY <1>8 DEF OwnLogin, LoggedIn
  <2> QED  BY <1>8, <2>1 DEF OneConnection
<1>10. sess[k].in_use = TRUE
  BY <1>0, <1>6, <1>7 DEF TypeOK, ShmTypeOK, session_entry_t
<1> QED  BY <1>3, <1>9, <1>10 DEF shm_session_find, k

-----------------------------------------------------------------------------
(* A client that is there is served. *)

(* A child that goes on while its client waits, or ends when it has left.    *)
LEMMA ServedMove ==
  ASSUME TypeOK, WaitersServed, NEW p \in Pids, NEW label, Goto(p, label),
         UNCHANGED <<user, cli, waitId, nextId>>,
         label \in {"close_fail", "close_fifo", "dead", "reaped"} =>
            cli[p] = "closed",
         label \in {"none", "login_add", "login_scan", "login_notify"} =>
            pc[p] \in {"login_add", "login_scan"}
  PROVE  WaitersServed'
<1>1. pc'[p] = label /\ \A q \in Pids : q # p => pc'[q] = pc[q]
  BY DEF TypeOK, Goto
<1> QED  BY <1>1 DEF WaitersServed

(* Every step, as long as no child is killed.                                *)
LEMMA ServedNext ==
  ASSUME ~MayCrash, TypeOK, TypeOK', Named, NotBefore, WaitersServed, [Next]_vars
  PROVE  WaitersServed'
<1>0. /\ cli \in [Pids -> {"idle", "waiting", "closed"}]
      /\ waitId \in [Pids -> Nat] /\ nextId \in Nat \ {0}
      /\ user \in [Pids -> Users \cup {NoUser}]
      /\ pc \in [Pids -> PCs]
  BY DEF TypeOK, ShmTypeOK
<1>1. ASSUME UNCHANGED <<pc, user, cli, waitId, nextId>> PROVE WaitersServed'
  BY <1>1 DEF WaitersServed
<1>2. ASSUME NEW p \in Pids, ClientStep(p) PROVE WaitersServed'
  <2>1. UNCHANGED <<pc, user, nextId>>
    BY <1>2 DEF ClientStep, Send, recv_response, ReadUnsolicited, ClientClose
  <2>2. \/ UNCHANGED <<cli, waitId>>
        \/ /\ cli[p] = "idle"
           /\ cli' = [cli EXCEPT ![p] = "waiting"] /\ waitId' = waitId
        \/ /\ \E c \in {"idle", "closed"} : cli' = [cli EXCEPT ![p] = c]
           /\ cli[p] # "closed"
           /\ waitId' = [waitId EXCEPT ![p] = 0]
    BY <1>2 DEF ClientStep, Send, recv_response, ReadUnsolicited, ClientClose
  <2>3. /\ \A q \in Pids : q # p => cli'[q] = cli[q] /\ waitId'[q] = waitId[q]
        /\ cli'[p] # "closed" => cli[p] # "closed"
        /\ waitId'[p] # 0 => cli[p] = "idle" \/ (cli'[p] = cli[p] /\ waitId'[p] = waitId[p])
        /\ cli[p] = "idle" => waitId'[p] \in {waitId[p], 0}
    BY <1>0, <2>2
  <2> QED  BY <2>1, <2>3 DEF WaitersServed
<1>3. ASSUME NEW p \in Pids, Connect(p) PROVE WaitersServed'
  <2>1. /\ UNCHANGED <<user, waitId, nextId>>
        /\ pc[p] = "none"
        /\ pc' = [pc EXCEPT ![p] = "select"]
        /\ cli' = [cli EXCEPT ![p] = "idle"]
    BY <1>3 DEF Connect, Goto
  <2>2. /\ pc'[p] = "select"
        /\ \A q \in Pids : q # p => pc'[q] = pc[q] /\ cli'[q] = cli[q]
    BY <1>0, <2>1
  <2> QED  BY <2>1, <2>2 DEF WaitersServed
<1>4. ASSUME NEW p \in Pids, handle_login(p) PROVE WaitersServed'
  <2>1. /\ UNCHANGED <<cli, waitId, nextId>>
        /\ pc[p] = "select" /\ user[p] = NoUser
        /\ pc' = [pc EXCEPT ![p] = "login_add"]
        /\ user' = [user EXCEPT ![p] = cmd[p].to]
    BY <1>4 DEF handle_login, Receive, Goto
  <2>2. /\ pc'[p] = "login_add"
        /\ \A q \in Pids : q # p => pc'[q] = pc[q] /\ user'[q] = user[q]
    BY <1>0, <2>1
  <2> QED  BY <2>1, <2>2 DEF WaitersServed
<1>5. ASSUME NEW p \in Pids, TransferAdd(p) PROVE WaitersServed'
  <2>1. /\ UNCHANGED <<cli, user>>
        /\ user[p] # NoUser
        /\ \E label \in {"select", "req_notify"} : pc' = [pc EXCEPT ![p] = label]
        /\ \/ UNCHANGED <<waitId, nextId>>
           \/ /\ nextId' = nextId + 1
              /\ \/ waitId' = waitId
                 \/ /\ cli[p] = "waiting"
                    /\ waitId' = [waitId EXCEPT ![p] = nextId]
    BY <1>5 DEF TransferAdd, Return, Goto, Named, shm_request_add
  <2>2. /\ pc'[p] \in {"select", "req_notify"}
        /\ nextId' = nextId \/ nextId' = nextId + 1
        /\ \A q \in Pids : q # p => pc'[q] = pc[q] /\ waitId'[q] = waitId[q]
        /\ \/ waitId'[p] = waitId[p]
           \/ cli[p] = "waiting" /\ waitId'[p] = nextId /\ nextId' = nextId + 1
    BY <1>0, <2>1
  <2>3. \A q \in Pids : waitId[q] # 0 => waitId[q] < nextId /\ waitId[q] < nextId'
    BY <1>0, <2>2 DEF WaitersServed
  <2>4. nextId' = nextId + 1 => nextId < nextId'
    BY <1>0
  <2> QED  BY <2>1, <2>2, <2>3, <2>4 DEF WaitersServed
<1>6. ASSUME NEW p \in Pids,
             \/ Eof(p) \/ CloseFail(p) \/ CloseFifo(p) \/ handle_signals(p)
      PROVE  WaitersServed'
  <2>1. UNCHANGED <<user, cli, waitId, nextId>> /\ cli[p] = "closed"
    BY <1>6 DEF Eof, CloseFail, shm_requests_set_failed, CloseFifo,
       handle_signals, WaitersServed
  <2>2. \E label \in {"close_fail", "close_fifo", "dead", "reaped"} : Goto(p, label)
    BY <1>6 DEF Eof, CloseFail, CloseFifo, handle_signals
  <2> QED  BY <2>1, <2>2, ServedMove
<1>7. ASSUME NEW p \in Pids,
             \/ LoginAdd(p) \/ LoginScan(p) \/ LoginNotify(p)
             \/ TransferFind(p) \/ TransferNotify(p) \/ AcceptTake(p)
             \/ RejectTake(p) \/ AcceptFind(p) \/ AcceptCopy(p) \/ AcceptSet(p)
             \/ AcceptNotify(p) \/ RejectFind(p) \/ RejectNotify(p)
      PROVE  WaitersServed'
  <2>1. UNCHANGED <<user, cli, waitId, nextId>>
    BY <1>7 DEF LoginAdd, LoginScan, LoginNotify, TransferFind,
       TransferNotify, AcceptTake, RejectTake, TakeRequest, shm_request_take,
       AcceptFind, AcceptCopy, AcceptSet, shm_request_set, AcceptNotify,
       RejectFind, RejectNotify, FindSource, AnswerSource
  <2>2. \/ UNCHANGED pc
        \/ \E label \in {"select", "req_add", "acc_find", "acc_copy",
              "acc_set", "acc_notify", "rej_find", "rej_notify"} : Goto(p, label)
        \/ /\ pc[p] \in {"login_add", "login_scan"}
           /\ \E label \in {"login_scan", "login_notify"} : Goto(p, label)
    BY <1>7 DEF LoginAdd, LoginScan, LoginNotify, TransferFind,
       TransferNotify, AcceptTake, RejectTake, TakeRequest, AcceptFind,
       AcceptCopy, AcceptSet, AcceptNotify, RejectFind, RejectNotify,
       FindSource, AnswerSource, Return
  <2> QED  BY <1>1, <2>1, <2>2, ServedMove
<1>8. ASSUME NEW p \in Pids,
             \/ ReadNotification(p) \/ LoginRefused(p) \/ LoginRequired(p)
             \/ OtherCommand(p) \/ TransferRefused(p) \/ AnswerRefused(p)
      PROVE  WaitersServed'
  <2>1. UNCHANGED <<pc, user, cli, waitId, nextId>>
    BY <1>8 DEF ReadNotification, LoginRefused, LoginRequired, OtherCommand,
       TransferRefused, AnswerRefused, AnswerOnly
  <2> QED  BY <1>1, <2>1
<1>9. CASE collect_stale_sessions \/ UNCHANGED vars
  BY <1>1, <1>9 DEF collect_stale_sessions, vars
<1>10. ASSUME NEW p \in Pids, ChildStep(p) PROVE WaitersServed'
  BY <1>4, <1>5, <1>6, <1>7, <1>8, <1>10 DEF ChildStep
<1>11. \A p \in Pids : ~Crash(p)
  BY DEF Crash
<1> QED  BY <1>2, <1>3, <1>6, <1>8, <1>9, <1>10, <1>11 DEF Next

-----------------------------------------------------------------------------
(* The way of a request. *)

(* Setting the status of an entry keeps its id and its sender.               *)
LEMMA StatusOnly ==
  ASSUME ShmTypeOK, NEW i \in Slots, NEW st
  PROVE  /\ [req[i] EXCEPT !.status = st].id = req[i].id
         /\ [req[i] EXCEPT !.status = st].source_username = req[i].source_username
BY DEF ShmTypeOK, transfer_request_entry_t

(* An entry keeps its id and its sender until a new request takes its slot.  *)
LEMMA SourceSteps ==
  ASSUME TypeOK, [Next]_vars, NEW i \in 1 .. reqCount'
  PROVE  \/ /\ i \in 1 .. reqCount
            /\ req'[i].id = req[i].id
            /\ req'[i].source_username = req[i].source_username
         \/ req'[i].id = nextId
<1> DEFINE Goal == \/ /\ i \in 1 .. reqCount
                      /\ req'[i].id = req[i].id
                      /\ req'[i].source_username = req[i].source_username
                   \/ req'[i].id = nextId
<1>0. /\ ShmTypeOK /\ reqCount \in Nat /\ reqCount <= MAX_ENTRIES
      /\ MAX_ENTRIES \in Nat /\ req \in [Slots -> transfer_request_entry_t]
  BY ShmAssumption DEF TypeOK, ShmTypeOK
<1>1. ASSUME UNCHANGED <<req, reqCount>> PROVE Goal
  BY <1>1
<1>2. ASSUME NEW p \in Pids, TransferAdd(p), ~RequestsFull PROVE Goal
  <2> DEFINE e == [id |-> nextId, source_username |-> user[p],
                   dest_username |-> loc[p].peer, status |-> "PENDING"]
  <2>1. PICK k \in Slots :
           /\ req' = [req EXCEPT ![k] = e]
           /\ \/ k \in 1 .. reqCount /\ reqCount' = reqCount
              \/ k = reqCount + 1 /\ reqCount' = reqCount + 1
    <3>1. shm_request_add(user[p], loc[p].peer)
      BY <1>2 DEF TransferAdd
    <3> QED  BY <1>0, <3>1, RequestAddSlot
  <2>2. e.id = nextId
    OBVIOUS
  <2> HIDE DEF e
  <2>3. i \in Slots /\ (i # k => i \in 1 .. reqCount)
    BY <1>0, <2>1
  <2> QED  BY <1>0, <2>1, <2>2, <2>3
<1>3. ASSUME NEW k \in Slots, NEW st, reqCount' = reqCount,
             req' = [req EXCEPT ![k].status = st]
      PROVE  Goal
  <2>1. i \in Slots /\ i \in 1 .. reqCount
    BY <1>0, <1>3
  <2>2. req'[i] = req[i] \/ req'[i] = [req[i] EXCEPT !.status = st]
    BY <1>0, <1>3, <2>1
  <2> QED  BY <1>0, <2>1, <2>2, StatusOnly
<1>4. ASSUME NEW p \in Pids, AcceptTake(p) \/ RejectTake(p) PROVE Goal
  <2>1. /\ CanTake(cmd[p].id, user[p])
        /\ reqCount' = reqCount
        /\ \E st : req' = [req EXCEPT ![Min(RequestsWithId(cmd[p].id))].status = st]
    BY <1>4 DEF AcceptTake, RejectTake, TakeRequest, shm_request_take
  <2>2. Min(RequestsWithId(cmd[p].id)) \in Slots
    BY <1>0, <2>1, RequestSlot DEF CanTake
  <2> QED  BY <1>3, <2>1, <2>2
<1>5. ASSUME NEW p \in Pids, AcceptSet(p) PROVE Goal
  <2>1. CASE RequestsWithId(loc[p].id) = {}
    BY <1>1, <1>5, <2>1 DEF AcceptSet, shm_request_set
  <2>2. CASE RequestsWithId(loc[p].id) # {}
    <3>1. /\ reqCount' = reqCount
          /\ req' = [req EXCEPT ![Min(RequestsWithId(loc[p].id))].status = "FAILED"]
      BY <1>5, <2>2 DEF AcceptSet, shm_request_set
    <3>2. Min(RequestsWithId(loc[p].id)) \in Slots
      BY <1>0, <2>2, RequestSlot
    <3> QED  BY <1>3, <3>1, <3>2
  <2> QED  BY <2>1, <2>2
<1>6. ASSUME NEW p \in Pids, CloseFail(p) PROVE Goal
  <2>1. reqCount' = reqCount /\ i \in Slots /\ i \in 1 .. reqCount
    BY <1>0, <1>6 DEF CloseFail, shm_requests_set_failed
  <2>2. req'[i] = req[i] \/ req'[i] = [req[i] EXCEPT !.status = "FAILED"]
    BY <1>6, <2>1 DEF CloseFail, shm_requests_set_failed
  <2> QED  BY <1>0, <2>1, <2>2, StatusOnly
<1>7. ASSUME NEW p \in Pids, TransferAdd(p), RequestsFull PROVE Goal
  <2>1. UNCHANGED <<req, reqCount>>
    BY <1>7 DEF TransferAdd
  <2> QED  BY <1>1, <2>1
<1> HIDE DEF Goal
<1>8. Goal
  BY <1>1, <1>2, <1>4, <1>5, <1>6, <1>7, RequestsAlone
<1> QED  BY <1>8 DEF Goal

(* A pending entry stays as it is until it is taken by its id, or its sender *)
(* leaves.                                                                   *)
LEMMA PendingSteps ==
  ASSUME TransferInv, [Next]_vars, NEW i \in 1 .. reqCount,
         req[i].status = "PENDING"
  PROVE  \/ i \in 1 .. reqCount' /\ req'[i] = req[i]
         \/ \E q \in Pids : /\ AcceptTake(q) \/ RejectTake(q)
                            /\ cmd[q].id = req[i].id
         \/ \E q \in Pids : CloseFail(q) /\ user[q] = req[i].source_username
<1> DEFINE Goal ==
       \/ i \in 1 .. reqCount' /\ req'[i] = req[i]
       \/ \E q \in Pids : /\ AcceptTake(q) \/ RejectTake(q)
                          /\ cmd[q].id = req[i].id
       \/ \E q \in Pids : CloseFail(q) /\ user[q] = req[i].source_username
<1>0. /\ TypeOK /\ ShmTypeOK /\ reqCount \in Nat /\ reqCount <= MAX_ENTRIES
      /\ MAX_ENTRIES \in Nat /\ req \in [Slots -> transfer_request_entry_t]
  BY ShmAssumption DEF TransferInv, TypeOK, ShmTypeOK
<1>s. i \in Slots
  BY <1>0
<1>1. ASSUME UNCHANGED <<req, reqCount>> PROVE Goal
  BY <1>1
<1>2. ASSUME NEW p \in Pids, TransferAdd(p), ~RequestsFull PROVE Goal
  <2> DEFINE e == [id |-> nextId, source_username |-> user[p],
                   dest_username |-> loc[p].peer, status |-> "PENDING"]
  <2>1. PICK k \in Slots :
           /\ req' = [req EXCEPT ![k] = e]
           /\ \/ /\ k \in 1 .. reqCount /\ reqCount' = reqCount
                 /\ req[k].status # "PENDING"
              \/ k = reqCount + 1 /\ reqCount' = reqCount + 1
    <3>1. shm_request_add(user[p], loc[p].peer)
      BY <1>2 DEF TransferAdd
    <3> QED  BY <1>0, <3>1, RequestAddSlot
  <2> HIDE DEF e
  <2>2. i # k /\ i \in 1 .. reqCount'
    BY <1>0, <2>1
  <2> QED  BY <1>0, <1>s, <2>1, <2>2
<1>3. ASSUME NEW p \in Pids, AcceptTake(p) \/ RejectTake(p) PROVE Goal
  <2> DEFINE k == Min(RequestsWithId(cmd[p].id))
  <2>1. /\ CanTake(cmd[p].id, user[p])
        /\ reqCount' = reqCount
        /\ \E st : req' = [req EXCEPT ![k].status = st]
    BY <1>3 DEF AcceptTake, RejectTake, TakeRequest, shm_request_take
  <2>2. k \in Slots /\ req[k].id = cmd[p].id
    BY <1>0, <2>1, RequestSlot DEF CanTake
  <2> HIDE DEF k
  <2>3. CASE i = k
    BY <1>3, <2>2, <2>3
  <2>4. CASE i # k
    BY <1>0, <1>s, <2>1, <2>4
  <2> QED  BY <2>3, <2>4
<1>4. ASSUME NEW p \in Pids, AcceptSet(p) PROVE Goal
  <2>1. CASE RequestsWithId(loc[p].id) = {}
    BY <1>1, <1>4, <2>1 DEF AcceptSet, shm_request_set
  <2>2. CASE RequestsWithId(loc[p].id) # {}
    <3> DEFINE k == Min(RequestsWithId(loc[p].id))
    <3>1. reqCount' = reqCount /\ req' = [req EXCEPT ![k].status = "FAILED"]
      BY <1>4, <2>2 DEF AcceptSet, shm_request_set
    <3>2. k \in 1 .. reqCount /\ req[k].id = loc[p].id
      BY <1>0, <2>2, RequestSlot
    <3> HIDE DEF k
    <3>3. i # k
      BY <1>4, <3>2 DEF TransferInv, HeldTaken, Holding, AcceptSet
    <3> QED  BY <1>0, <1>s, <3>1, <3>3
  <2> QED  BY <2>1, <2>2
<1>5. ASSUME NEW p \in Pids, CloseFail(p) PROVE Goal
  BY <1>0, <1>s, <1>5 DEF CloseFail, shm_requests_set_failed
<1>6. ASSUME NEW p \in Pids, TransferAdd(p), RequestsFull PROVE Goal
  <2>1. UNCHANGED <<req, reqCount>>
    BY <1>6 DEF TransferAdd
  <2> QED  BY <1>1, <2>1
<1> HIDE DEF Goal
<1>7. Goal
  BY <1>1, <1>2, <1>3, <1>4, <1>5, <1>6, RequestsAlone
<1> QED  BY <1>7 DEF Goal

(* Who takes a request holds it, and knows its sender.                       *)
LEMMA TakerHolds ==
  ASSUME TypeOK, NEW q \in Pids, AcceptTake(q) \/ RejectTake(q)
  PROVE  /\ Holding(q)' /\ loc'[q].id = cmd[q].id
         /\ pc'[q] \in {"acc_find", "rej_find"}
         /\ \E i \in 1 .. reqCount : /\ req[i].id = cmd[q].id
                                     /\ loc'[q].peer = req[i].source_username
<1> DEFINE k == Min(RequestsWithId(cmd[q].id))
           l == [NoLocals EXCEPT !.id = cmd[q].id, !.peer = req[k].source_username]
<1>1. /\ CanTake(cmd[q].id, user[q])
      /\ loc' = [loc EXCEPT ![q] = l]
      /\ \E label \in {"acc_find", "rej_find"} : Goto(q, label)
  BY DEF AcceptTake, RejectTake, TakeRequest
<1>2. k \in 1 .. reqCount /\ req[k].id = cmd[q].id
  BY <1>1, RequestSlot DEF TypeOK, CanTake
<1>3. l.id = cmd[q].id /\ l.peer = req[k].source_username
  BY DEF NoLocals
<1> HIDE DEF k, l
<1>4. loc'[q] = l /\ pc'[q] \in {"acc_find", "rej_find"}
  BY <1>1 DEF TypeOK, Goto
<1> QED  BY <1>2, <1>3, <1>4 DEF Holding

(* What stands behind the head of a sequence moves up by one.                *)
LEMMA TailShifts ==
  ASSUME NEW S, NEW s \in Seq(S), s # <<>>
  PROVE  /\ Len(Tail(s)) = Len(s) - 1 /\ Len(s) \in Nat
         /\ \A j \in 1 .. Len(Tail(s)) : Tail(s)[j] = s[j + 1]
OBVIOUS

(* The child that holds a request finds its sender, and writes the answer to *)
(* the FIFO of the sender, which has a reader and room.                      *)
LEMMA HolderGoes ==
  ASSUME ~MayCrash, HopeInv, OneConnection, [Next]_vars,
         \A r \in Pids : Len(fifo[r]) < FifoCap,
         NEW p \in Pids, waitId[p] # 0, NEW id, id = waitId[p],
         NEW q \in Pids, Holding(q), loc[q].id = id
  PROVE  \/ /\ Holding(q)' /\ loc'[q].id = id
            /\ IF pc'[q] \in {"acc_find", "rej_find"} THEN loc'[q].peer = user[p]
               ELSE loc'[q].online /\ loc'[q].pid = p
         \/ ~Holding(q)' /\ LineId(p, id)'
<1> DEFINE Goal ==
       \/ /\ Holding(q)' /\ loc'[q].id = id
          /\ IF pc'[q] \in {"acc_find", "rej_find"} THEN loc'[q].peer = user[p]
             ELSE loc'[q].online /\ loc'[q].pid = p
       \/ ~Holding(q)' /\ LineId(p, id)'
<1>0. /\ TypeOK /\ AddressInv /\ pc \in [Pids -> PCs] /\ loc \in [Pids -> Locals]
      /\ loc[q] \in Locals
  BY DEF HopeInv, RecordInv, AddressInv, TypeOK
<1>1. IF pc[q] \in {"acc_find", "rej_find"} THEN loc[q].peer = user[p]
      ELSE loc[q].online /\ loc[q].pid = p
  BY DEF HopeInv, WaitersFound
<1>2. /\ LoggedIn(p) /\ Running(p) /\ user[p] # NoUser
  BY DEF HopeInv, WaitersServed, LoggedIn, Running
<1>3. ASSUME pc'[q] = pc[q] /\ loc'[q] = loc[q] PROVE Goal
  BY <1>1, <1>3 DEF Holding
<1>4. ASSUME AcceptTake(q) \/ RejectTake(q) \/ Crash(q) PROVE Goal
  BY <1>4 DEF AcceptTake, RejectTake, TakeRequest, Receive, Crash, Holding
<1>5. ASSUME AcceptFind(q) \/ RejectFind(q) PROVE Goal
  <2> DEFINE l == [loc[q] EXCEPT !.pid = p, !.online = TRUE]
  <2>1. /\ \E label \in {"acc_copy", "rej_notify"} : FindSource(q, label)
        /\ loc[q].peer = user[p]
    BY <1>1, <1>5 DEF AcceptFind, RejectFind
  <2>2. shm_session_find(loc[q].peer) = [found |-> TRUE, pid |-> p, online |-> TRUE]
    BY <1>0, <1>2, <2>1, FoundSession DEF HopeInv
  <2>3. /\ loc' = [loc EXCEPT ![q] = l]
        /\ \E label \in {"acc_copy", "rej_notify"} : pc' = [pc EXCEPT ![q] = label]
    BY <2>1, <2>2 DEF FindSource, Goto
  <2>4. l.id = loc[q].id /\ l.pid = p /\ l.online
    BY <1>0 DEF Locals
  <2> HIDE DEF l
  <2>5. loc'[q] = l /\ pc'[q] \in {"acc_copy", "rej_notify"}
    BY <1>0, <2>3
  <2> QED  BY <2>4, <2>5 DEF Holding
<1>6. ASSUME AcceptCopy(q) PROVE Goal
  <2>1. PICK ok \in BOOLEAN : loc' = [loc EXCEPT ![q].ok = ok]
    BY <1>6 DEF AcceptCopy
  <2>2. /\ pc[q] = "acc_copy"
        /\ \E label \in {"acc_notify", "acc_set"} : pc' = [pc EXCEPT ![q] = label]
    BY <1>6 DEF AcceptCopy, Goto
  <2>3. loc'[q] = [loc[q] EXCEPT !.ok = ok] /\ pc'[q] \in {"acc_notify", "acc_set"}
    BY <1>0, <2>1, <2>2
  <2>4. loc'[q].id = id /\ loc'[q].pid = loc[q].pid /\ loc'[q].online = loc[q].online
    BY <1>0, <2>3 DEF Locals
  <2> QED  BY <1>1, <2>2, <2>3, <2>4 DEF Holding
<1>7. ASSUME AcceptSet(q) PROVE Goal
  <2>1. pc[q] = "acc_set" /\ pc' = [pc EXCEPT ![q] = "acc_notify"] /\ loc' = loc
    BY <1>7 DEF AcceptSet, Goto
  <2>2. pc'[q] = "acc_notify" /\ loc'[q] = loc[q]
    BY <1>0, <2>1
  <2> QED  BY <1>1, <2>1, <2>2 DEF Holding
<1>8. ASSUME AcceptNotify(q) \/ RejectNotify(q) PROVE Goal
  <2>1. /\ pc[q] \in {"acc_notify", "rej_notify"}
        /\ \E kind \in {"ACCEPT", "FAIL", "REJECT"}, ok \in BOOLEAN :
              AnswerSource(q, kind, ok)
    BY <1>0, <1>8 DEF AcceptNotify, RejectNotify, Locals
  <2>2. loc[q].online /\ loc[q].pid = p
    BY <1>1, <2>1
  <2>3. PICK kind \in {"ACCEPT", "FAIL", "REJECT"} :
            notify_pid(p, kind, id, loc[q].peer)
    BY <2>1, <2>2 DEF AnswerSource
  <2>4. CanNotify(p)
    BY <1>2 DEF CanNotify, FifoOpen
  <2> DEFINE n == [kind |-> kind, id |-> id, to |-> loc[q].peer]
  <2>5. fifo' = [fifo EXCEPT ![p] = Append(@, n)]
    BY <2>3, <2>4 DEF notify_pid
  <2>6. n.id = id /\ n.kind # "REQ"
    OBVIOUS
  <2> HIDE DEF n
  <2>7. fifo[p] \in Seq(Notification) /\ fifo'[p] = Append(fifo[p], n)
    BY <1>0, <2>5 DEF TypeOK
  <2>8. /\ Len(fifo'[p]) = Len(fifo[p]) + 1
        /\ fifo'[p][Len(fifo[p]) + 1] = n
        /\ Len(fifo[p]) \in Nat
    BY <2>7
  <2>9. Len(fifo[p]) + 1 \in 1 .. Len(fifo'[p])
    BY <2>8
  <2>10. LineId(p, id)'
    BY <2>6, <2>8, <2>9 DEF LineId
  <2>11. ~Holding(q)'
    <3>1. pc' = [pc EXCEPT ![q] = "select"]
      BY <2>1 DEF AnswerSource, Return, Goto
    <3> QED  BY <1>0, <3>1 DEF Holding
  <2> QED  BY <2>10, <2>11
<1> HIDE DEF Goal
<1>9. Goal
  <2>1. ~(~Holding(q) /\ ~Holding(q)')
    OBVIOUS
  <2> QED  BY <1>0, <1>3, <1>4, <1>5, <1>6, <1>7, <1>8, <2>1, HolderSteps
<1> QED  BY <1>9 DEF Goal

(* A line stays in the FIFO until its child sends the answer to the client.  *)
LEMMA LineGoes ==
  ASSUME ~MayCrash, HopeInv, [Next]_vars,
         NEW p \in Pids, waitId[p] # 0, NEW id, id = waitId[p], LineId(p, id)
  PROVE  LineId(p, id)' \/ FrameId(p, id)'
<1>0. TypeOK /\ fifo[p] \in Seq(Notification) /\ inbox[p] \in Seq(Frame)
  BY DEF HopeInv, RecordInv, AddressInv, TypeOK
<1>1. PICK n \in 1 .. Len(fifo[p]) : fifo[p][n].id = id /\ fifo[p][n].kind # "REQ"
  BY DEF LineId
<1>2. cli[p] = "waiting" /\ pc[p] # "close_fifo"
  BY DEF HopeInv, WaitersServed
<1>3. CASE fifo'[p] = fifo[p]
  BY <1>1, <1>3 DEF LineId
<1>4. ASSUME NEW l, fifo'[p] = Append(fifo[p], l) PROVE LineId(p, id)'
  <2>1. /\ Len(fifo'[p]) = Len(fifo[p]) + 1 /\ Len(fifo[p]) \in Nat
        /\ fifo'[p][n] = fifo[p][n]
    BY <1>0, <1>1, <1>4
  <2>2. n \in 1 .. Len(fifo'[p])
    BY <1>1, <2>1
  <2> QED  BY <1>1, <2>1, <2>2 DEF LineId
<1>5. CASE ReadNotification(p)
  <2> DEFINE f == [type |-> FrameFor(Head(fifo[p]).kind), re |-> Head(fifo[p]).id]
  <2>1. fifo' = [fifo EXCEPT ![p] = Tail(@)] /\ fifo[p] # <<>>
    BY <1>5 DEF ReadNotification
  <2>2. fifo'[p] = Tail(fifo[p])
    BY <1>0, <2>1 DEF TypeOK
  <2>3. inbox' = [inbox EXCEPT ![p] = Append(@, f)]
    BY <1>2, <1>5 DEF ReadNotification, SendFrame
  <2> HIDE DEF f
  <2>4. inbox'[p] = Append(inbox[p], f)
    BY <1>0, <2>3 DEF TypeOK
  <2>5. CASE n = 1
    <3>1. Head(fifo[p]) = fifo[p][1]
      BY <1>0, <2>1
    <3>2. f.re = id /\ f.type # "RSP_NOTIFY"
      BY <1>1, <2>5, <3>1 DEF f, FrameFor
    <3>3. /\ Len(inbox'[p]) = Len(inbox[p]) + 1 /\ Len(inbox[p]) \in Nat
          /\ inbox'[p][Len(inbox[p]) + 1] = f
      BY <1>0, <2>4
    <3>4. Len(inbox[p]) + 1 \in 1 .. Len(inbox'[p])
      BY <3>3
    <3>5. FrameId(p, id)'
      BY <3>2, <3>3, <3>4 DEF FrameId
    <3> QED  BY <3>5
  <2>6. CASE n # 1
    <3>1. /\ Len(fifo'[p]) = Len(fifo[p]) - 1 /\ Len(fifo[p]) \in Nat
          /\ \A j \in 1 .. Len(fifo'[p]) : fifo'[p][j] = fifo[p][j + 1]
      BY <1>0, <2>1, <2>2, TailShifts
    <3>2. n - 1 \in 1 .. Len(fifo'[p]) /\ (n - 1) + 1 = n
      BY <1>1, <2>6, <3>1
    <3>3. fifo'[p][n - 1] = fifo[p][n]
      BY <3>1, <3>2
    <3>4. LineId(p, id)'
      BY <1>1, <3>2, <3>3 DEF LineId
    <3> QED  BY <3>4
  <2> QED  BY <2>5, <2>6
<1>6. ~CloseFifo(p) /\ ~Crash(p)
  BY <1>2 DEF CloseFifo, Crash
<1> QED  BY <1>0, <1>3, <1>4, <1>5, <1>6, FifoSteps

(* An answer on the socket ends the wait when it is read, and not before.    *)
LEMMA FrameGoes ==
  ASSUME HopeInv, [Next]_vars,
         NEW p \in Pids, waitId[p] # 0, NEW id, id = waitId[p],
         waitId'[p] # 0, FrameId(p, id)
  PROVE  FrameId(p, id)'
<1>0. TypeOK /\ inbox[p] \in Seq(Frame)
  BY DEF HopeInv, RecordInv, AddressInv, TypeOK
<1>1. PICK n \in 1 .. Len(inbox[p]) :
          inbox[p][n].type # "RSP_NOTIFY" /\ inbox[p][n].re \in {0, id}
  BY DEF FrameId
<1>2. cli[p] = "waiting"
  BY DEF HopeInv, WaitersServed
<1>3. CASE inbox'[p] = inbox[p]
  BY <1>1, <1>3 DEF FrameId
<1>4. ASSUME NEW f, inbox'[p] = Append(inbox[p], f) PROVE FrameId(p, id)'
  <2>1. /\ Len(inbox'[p]) = Len(inbox[p]) + 1 /\ Len(inbox[p]) \in Nat
        /\ inbox'[p][n] = inbox[p][n]
    BY <1>0, <1>1, <1>4
  <2>2. n \in 1 .. Len(inbox'[p])
    BY <1>1, <2>1
  <2> QED  BY <1>1, <2>1, <2>2 DEF FrameId
<1>5. CASE recv_response(p)
  <2>1. inbox' = [inbox EXCEPT ![p] = Tail(@)] /\ inbox[p] # <<>>
    BY <1>5 DEF recv_response
  <2>2. inbox'[p] = Tail(inbox[p])
    BY <1>0, <2>1 DEF TypeOK
  <2>3. Head(inbox[p]).type = "RSP_NOTIFY"
    BY <1>0, <1>5 DEF recv_response, TypeOK
  <2>4. Head(inbox[p]) = inbox[p][1]
    BY <1>0, <2>1
  <2>5. n # 1
    BY <1>1, <2>3, <2>4
  <2>6. /\ Len(inbox'[p]) = Len(inbox[p]) - 1 /\ Len(inbox[p]) \in Nat
        /\ \A j \in 1 .. Len(inbox'[p]) : inbox'[p][j] = inbox[p][j + 1]
    BY <1>0, <2>1, <2>2, TailShifts
  <2>7. n - 1 \in 1 .. Len(inbox'[p]) /\ (n - 1) + 1 = n
    BY <1>1, <2>5, <2>6
  <2>8. inbox'[p][n - 1] = inbox[p][n]
    BY <2>6, <2>7
  <2> QED  BY <1>1, <2>7, <2>8 DEF FrameId
<1>6. ~ReadUnsolicited(p) /\ ~ClientClose(p)
  <2>1. ~ReadUnsolicited(p)
    BY <1>2 DEF ReadUnsolicited
  <2>2. ~ClientClose(p)
    BY <1>0 DEF ClientClose, TypeOK
  <2> QED  BY <2>1, <2>2
<1> QED  BY <1>0, <1>3, <1>4, <1>5, <1>6, InboxSteps

(* A child goes on with the request that it holds.                           *)
LEMMA HolderId ==
  ASSUME TypeOK, NEW q \in Pids, Holding(q)',
         \/ AcceptFind(q) \/ RejectFind(q) \/ AcceptCopy(q) \/ AcceptSet(q)
         \/ AcceptNotify(q) \/ RejectNotify(q) \/ Crash(q)
  PROVE  Holding(q) /\ loc'[q].id = loc[q].id
<1>0. pc \in [Pids -> PCs] /\ loc \in [Pids -> Locals] /\ loc[q] \in Locals
  BY DEF TypeOK
<1>1. CASE Crash(q) \/ AcceptNotify(q) \/ RejectNotify(q)
  <2>1. \E label \in {"dead", "select"} : pc' = [pc EXCEPT ![q] = label]
    BY <1>1 DEF Crash, AcceptNotify, RejectNotify, AnswerSource, Return, Goto
  <2> QED  BY <1>0, <2>1 DEF Holding
<1>2. CASE AcceptFind(q) \/ RejectFind(q)
  <2>1. Holding(q)
    BY <1>2 DEF AcceptFind, RejectFind, Holding
  <2>2. CASE Return(q)
    <3>1. pc' = [pc EXCEPT ![q] = "select"]
      BY <2>2 DEF Return, Goto
    <3> QED  BY <1>0, <3>1 DEF Holding
  <2>3. CASE \E s : loc' = [loc EXCEPT ![q] = [@ EXCEPT !.pid = s.pid,
                                                     !.online = s.online]]
    <3>1. PICK s : loc' = [loc EXCEPT ![q] = [@ EXCEPT !.pid = s.pid,
                                                     !.online = s.online]]
      BY <2>3
    <3>2. loc'[q] = [loc[q] EXCEPT !.pid = s.pid, !.online = s.online]
      BY <1>0, <3>1
    <3>3. loc'[q].id = loc[q].id
      BY <1>0, <3>2 DEF Locals
    <3> QED  BY <2>1, <3>3
  <2> QED  BY <1>2, <2>2, <2>3 DEF AcceptFind, RejectFind, FindSource
<1>3. CASE AcceptCopy(q)
  <2>1. PICK ok \in BOOLEAN : loc' = [loc EXCEPT ![q].ok = ok]
    BY <1>3 DEF AcceptCopy
  <2>2. loc'[q] = [loc[q] EXCEPT !.ok = ok]
    BY <1>0, <2>1
  <2>3. loc'[q].id = loc[q].id
    BY <1>0, <2>2 DEF Locals
  <2> QED  BY <1>3, <2>3 DEF AcceptCopy, Holding
<1>4. CASE AcceptSet(q)
  BY <1>4 DEF AcceptSet, Holding
<1> QED  BY <1>1, <1>2, <1>3, <1>4

(* A client that keeps waiting keeps its hope, and is found under its name.  *)
LEMMA HopeKept ==
  ASSUME ~MayCrash, HopeInv, OneConnection, [Next]_vars,
         \A r \in Pids : Len(fifo[r]) < FifoCap,
         NEW p \in Pids, waitId[p] # 0, NEW id, id = waitId[p],
         waitId'[p] # 0, user'[p] = user[p]
  PROVE  /\ \A i \in 1 .. reqCount' :
               req'[i].id = id => req'[i].source_username = user[p]
         /\ \A q \in Pids : Holding(q)' /\ loc'[q].id = id =>
               IF pc'[q] \in {"acc_find", "rej_find"} THEN loc'[q].peer = user[p]
               ELSE loc'[q].online /\ loc'[q].pid = p
         /\ \/ PendingId(id)' \/ HeldId(id)'
            \/ LineId(p, id)' \/ FrameId(p, id)'
<1>0. /\ TypeOK /\ TransferInv
      /\ id < nextId /\ id \in Nat /\ nextId \in Nat
      /\ user[p] # NoUser
      /\ pc[p] # "close_fail"
  <2>1. TypeOK /\ TransferInv
    BY DEF HopeInv, RoomInv, TransferInv
  <2>2. cli[p] # "closed" /\ id < nextId /\ user[p] # NoUser
    BY DEF HopeInv, WaitersServed
  <2>3. pc[p] # "close_fail"
    BY <2>2 DEF HopeInv, WaitersServed
  <2>4. id \in Nat /\ nextId \in Nat
    BY <2>1 DEF TypeOK, ShmTypeOK
  <2> QED  BY <2>1, <2>2, <2>3, <2>4
<1>1. \A i \in 1 .. reqCount : req[i].id = id => req[i].source_username = user[p]
  BY DEF HopeInv, WaitersFound
<1>2. ASSUME NEW i \in 1 .. reqCount', req'[i].id = id
      PROVE  req'[i].source_username = user[p]
  <2>1. req'[i].id # nextId
    BY <1>0, <1>2
  <2> QED  BY <1>0, <1>1, <1>2, <2>1, SourceSteps
<1>3. ASSUME NEW q \in Pids, Holding(q)', loc'[q].id = id
      PROVE  IF pc'[q] \in {"acc_find", "rej_find"} THEN loc'[q].peer = user[p]
             ELSE loc'[q].online /\ loc'[q].pid = p
  <2>1. CASE Holding(q) /\ loc[q].id = id
    BY <1>3, <2>1, HolderGoes
  <2>2. CASE ~(Holding(q) /\ loc[q].id = id)
    <3>1. ~(pc'[q] = pc[q] /\ loc'[q] = loc[q])
      BY <1>3, <2>2 DEF Holding
    <3>2. AcceptTake(q) \/ RejectTake(q)
      BY <1>0, <1>3, <2>2, <3>1, HolderSteps, HolderId
    <3> QED  BY <1>0, <1>1, <1>3, <3>2, TakerHolds
  <2> QED  BY <2>1, <2>2
<1>4. CASE PendingId(id)
  <2>1. PICK i \in 1 .. reqCount : req[i].id = id /\ req[i].status = "PENDING"
    BY <1>4 DEF PendingId
  <2>2. CASE i \in 1 .. reqCount' /\ req'[i] = req[i]
    <3>1. PendingId(id)'
      BY <2>1, <2>2 DEF PendingId
    <3> QED  BY <1>2, <1>3, <3>1
  <2>3. ASSUME NEW q \in Pids, AcceptTake(q) \/ RejectTake(q), cmd[q].id = id
        PROVE  HeldId(id)'
    <3>1. Holding(q)' /\ loc'[q].id = id
      BY <1>0, <2>3, TakerHolds
    <3> QED  BY <3>1 DEF HeldId
  <2>4. ASSUME NEW q \in Pids, CloseFail(q), user[q] = user[p] PROVE FALSE
    <3>1. q # p
      BY <1>0, <2>4 DEF CloseFail
    <3>2. user[p] \in LoginAs[p] /\ user[p] \in LoginAs[q]
      BY <1>0, <2>4 DEF HopeInv, OwnLogin
    <3> QED  BY <3>1, <3>2 DEF OneConnection
  <2>5. \/ i \in 1 .. reqCount' /\ req'[i] = req[i]
        \/ \E q \in Pids : /\ AcceptTake(q) \/ RejectTake(q)
                           /\ cmd[q].id = id
        \/ \E q \in Pids : CloseFail(q) /\ user[q] = user[p]
    BY <1>0, <1>1, <2>1, PendingSteps
  <2>6. i \in 1 .. reqCount' /\ req'[i] = req[i] => PendingId(id)'
    BY <2>1 DEF PendingId
  <2> QED  BY <1>2, <1>3, <2>3, <2>4, <2>5, <2>6
<1>5. CASE HeldId(id)
  <2>1. PICK q \in Pids : Holding(q) /\ loc[q].id = id
    BY <1>5 DEF HeldId
  <2>2. (Holding(q)' /\ loc'[q].id = id) \/ LineId(p, id)'
    BY <2>1, HolderGoes
  <2>3. Holding(q)' /\ loc'[q].id = id => HeldId(id)'
    BY DEF HeldId
  <2> QED  BY <1>2, <1>3, <2>2, <2>3
<1>6. CASE LineId(p, id)
  <2>1. LineId(p, id)' \/ FrameId(p, id)'
    BY <1>6, LineGoes
  <2> QED  BY <1>2, <1>3, <2>1
<1>7. CASE FrameId(p, id)
  <2>1. FrameId(p, id)'
    BY <1>7, FrameGoes
  <2> QED  BY <1>2, <1>3, <2>1
<1>8. PendingId(id) \/ HeldId(id) \/ LineId(p, id) \/ FrameId(p, id)
  BY DEF HopeInv, WaitersHope
<1> QED  BY <1>4, <1>5, <1>6, <1>7, <1>8

(* A client that begins to wait does so for a request that is pending and    *)
(* that nobody else knows.                                                   *)
LEMMA HopeBegins ==
  ASSUME HopeInv, [Next]_vars, NEW p \in Pids, TransferAdd(p), ~RequestsFull,
         NEW id, id = nextId
  PROVE  /\ \A i \in 1 .. reqCount' :
               req'[i].id = id => req'[i].source_username = user[p]
         /\ \A q \in Pids : ~(Holding(q)' /\ loc'[q].id = id)
         /\ PendingId(id)'
<1>0. /\ TypeOK /\ TransferInv /\ ShmTypeOK
      /\ nextId \in Nat /\ reqCount \in Nat /\ reqCount <= MAX_ENTRIES
      /\ MAX_ENTRIES \in Nat /\ req \in [Slots -> transfer_request_entry_t]
      /\ \A q \in Pids : loc[q].id \in Nat
      /\ \A i \in Slots : req[i].id \in Nat
  <2>1. TypeOK /\ TransferInv
    BY DEF HopeInv, RoomInv, TransferInv
  <2>2. ShmTypeOK /\ loc \in [Pids -> Locals]
    BY <2>1 DEF TypeOK
  <2>3. /\ nextId \in Nat /\ reqCount \in Nat /\ reqCount <= MAX_ENTRIES
        /\ MAX_ENTRIES \in Nat /\ req \in [Slots -> transfer_request_entry_t]
    BY <2>2, ShmAssumption DEF ShmTypeOK
  <2>4. \A q \in Pids : loc[q].id \in Nat
    BY <2>2 DEF Locals
  <2>5. \A i \in Slots : req[i].id \in Nat
    BY <2>3 DEF transfer_request_entry_t
  <2> QED  BY <2>1, <2>2, <2>3, <2>4, <2>5
<1> DEFINE e == [id |-> nextId, source_username |-> user[p],
                 dest_username |-> loc[p].peer, status |-> "PENDING"]
<1>1. PICK k \in Slots :
         /\ req' = [req EXCEPT ![k] = e]
         /\ \/ k \in 1 .. reqCount /\ reqCount' = reqCount
            \/ k = reqCount + 1 /\ reqCount' = reqCount + 1
  <2>1. shm_request_add(user[p], loc[p].peer)
    BY DEF TransferAdd
  <2> QED  BY <1>0, <2>1, RequestAddSlot
<1>2. e.id = nextId /\ e.source_username = user[p] /\ e.status = "PENDING"
  OBVIOUS
<1> HIDE DEF e
<1>3. req'[k] = e /\ k \in 1 .. reqCount'
  BY <1>0, <1>1
<1>4. \A i \in 1 .. reqCount' : i # k =>
         i \in 1 .. reqCount /\ i \in Slots /\ req'[i] = req[i]
  BY <1>0, <1>1
<1>5. \A i \in 1 .. reqCount : i \in Slots => req[i].id # nextId
  BY <1>0 DEF TransferInv, UniqueIds
<1>6. \A i \in 1 .. reqCount' :
         req'[i].id = id => req'[i].source_username = user[p]
  BY <1>2, <1>3, <1>4, <1>5
<1>7. PendingId(id)'
  BY <1>2, <1>3 DEF PendingId
<1>8. ASSUME NEW q \in Pids, Holding(q)', loc'[q].id = id PROVE FALSE
  <2>1. /\ pc[p] = "req_add"
        /\ \E label \in {"select", "req_notify"} : pc' = [pc EXCEPT ![p] = label]
        /\ loc' = [loc EXCEPT ![p] = NoLocals] \/ loc' = [loc EXCEPT ![p].id = nextId]
    BY DEF TransferAdd, Return, Goto
  <2>2. q # p
    BY <1>0, <1>8, <2>1 DEF TypeOK, Holding
  <2>3. Holding(q) /\ loc[q].id = nextId
    BY <1>0, <1>8, <2>1, <2>2 DEF TypeOK, Holding
  <2> QED  BY <1>0, <2>3 DEF TransferInv, HeldTaken
<1> QED  BY <1>6, <1>7, <1>8

(* Nobody waits.                                                             *)
LEMMA HopeInit ==
  ASSUME IsFiniteSet(Pids), Init
  PROVE  HopeInv
<1>1. RoomInv /\ RecordInv
  BY RoomInit, RecordInit
<1>2. LiveSessionListed /\ OwnLogin /\ FreeZero
  BY DEF Init, setup_shmem, LiveSessionListed, OwnLogin, FreeZero, FreeSession, NoCmd
<1>3. WaitersServed /\ WaitersFound /\ WaitersHope
  BY DEF Init, WaitersServed, WaitersFound, WaitersHope
<1> QED  BY <1>1, <1>2, <1>3 DEF HopeInv

(* Every step keeps the hope of those who wait.                              *)
LEMMA HopeNext ==
  ASSUME ~MayCrash, IsFiniteSet(Pids), Cardinality(Pids) <= MAX_ENTRIES,
         OneConnection, HopeInv, FifosHaveRoom, [Next]_vars
  PROVE  HopeInv'
<1>1. RoomInv' /\ RecordInv' /\ TypeOK /\ TypeOK'
  BY RoomNext, RecordNext DEF HopeInv, RoomInv, TransferInv
<1>2. LiveSessionListed'
  BY ListedNext DEF HopeInv
<1>3. OwnLogin' /\ FreeZero'
  BY <1>1, OwnLoginNext, FreeZeroNext DEF HopeInv
<1>4. WaitersServed'
  BY <1>1, ServedNext DEF HopeInv, RoomInv, RecordInv
<1>5. \A r \in Pids : Len(fifo[r]) < FifoCap
  BY DEF FifosHaveRoom
<1>6. ASSUME NEW p \in Pids, NEW id, id = waitId'[p], id # 0
      PROVE  /\ \A i \in 1 .. reqCount' :
                   req'[i].id = id => req'[i].source_username = user'[p]
             /\ \A q \in Pids : Holding(q)' /\ loc'[q].id = id =>
                   IF pc'[q] \in {"acc_find", "rej_find"}
                   THEN loc'[q].peer = user'[p]
                   ELSE loc'[q].online /\ loc'[q].pid = p
             /\ \/ PendingId(id)' \/ HeldId(id)'
                \/ LineId(p, id)' \/ FrameId(p, id)'
  <2>1. CASE waitId'[p] = waitId[p]
    <3>1. user[p] # NoUser
      BY <1>6, <2>1 DEF HopeInv, WaitersServed
    <3>2. user'[p] = user[p]
      <4>1. CASE \E q \in Pids : LoginAdd(q)
        BY <4>1 DEF LoginAdd
      <4>2. CASE \A q \in Pids : ~LoginAdd(q)
        BY <3>1, <4>2, SessionSteps DEF SessionStep, HopeInv
      <4> QED  BY <4>1, <4>2
    <3> QED  BY <1>5, <1>6, <2>1, <3>2, HopeKept
  <2>2. CASE TransferAdd(p) /\ ~RequestsFull /\ waitId'[p] = nextId
    <3>1. user'[p] = user[p]
      BY <2>2 DEF TransferAdd
    <3> QED  BY <1>6, <2>2, <3>1, HopeBegins
  <2> QED  BY <1>1, <1>6, <2>1, <2>2, WaitSteps
<1>7. WaitersFound'
  BY <1>6 DEF WaitersFound
<1>8. WaitersHope'
  <2> SUFFICES ASSUME NEW p \in Pids, waitId'[p] # 0
               PROVE  (\/ PendingId(waitId[p]) \/ HeldId(waitId[p])
                       \/ LineId(p, waitId[p]) \/ FrameId(p, waitId[p]))'
    BY DEF WaitersHope
  <2> QED  BY <1>6 DEF PendingId, HeldId, LineId, FrameId
<1> QED  BY <1>1, <1>2, <1>3, <1>4, <1>7, <1>8 DEF HopeInv

(* A client never waits for an answer that nobody will send: its request is  *)
(* pending, or held by a child that will find it, or the answer is on its    *)
(* way.  This needs that no child is killed (kill -9 runs no clean-up), that *)
(* the session table has an entry for every connection, that no user is      *)
(* logged in twice (the close of one session fails the requests of both),    *)
(* and that the write of an answer never meets a full FIFO; the number of    *)
(* requests does not matter.                                                 *)
THEOREM HopeWhileRoom ==
  ASSUME ~MayCrash, IsFiniteSet(Pids), Cardinality(Pids) <= MAX_ENTRIES,
         OneConnection
  PROVE  Spec /\ []FifosHaveRoom => []WaiterHasHope
<1>1. Init => HopeInv
  BY HopeInit
<1>2. HopeInv /\ FifosHaveRoom /\ [Next]_vars => HopeInv'
  BY HopeNext
<1>3. HopeInv => WaiterHasHope
  BY DEF HopeInv, WaitersHope, PendingId, HeldId, LineId, FrameId,
         WaiterHasHope, AnswerInFlight
<1> QED  BY <1>1, <1>2, <1>3, PTL DEF Spec

(* The same without the condition on the run, when a FIFO holds three lines  *)
(* for each request that is ever issued.                                     *)
THEOREM WaitersHaveHope ==
  ASSUME ~MayCrash, IsFiniteSet(Pids), Cardinality(Pids) <= MAX_ENTRIES,
         OneConnection, FifoCap > 3 * MaxReqs
  PROVE  Spec => []WaiterHasHope
BY HopeWhileRoom, RoomInFifos, PTL

-----------------------------------------------------------------------------
(* Clients that wait for anything else.  A child answers the command that it  *)
(* has read in the same step, or it is on its way to do so.                   *)

(* Something else than a notification is there to be read by the client.     *)
AnswerThere(p) == \E n \in 1 .. Len(inbox[p]) : inbox[p][n].type # "RSP_NOTIFY"

(* The child of p has read a command and not answered it yet.                *)
AtWork(p) == pc[p] = "req_add" \/ Holding(p)

(* What p waits for is known: its command has yet to be read, the child works *)
(* on it, the answer is there, or the child is no more and the client reads   *)
(* the end of the connection.                                                 *)
Attended(p) ==
    \/ cmd[p].op # "none" \/ AtWork(p) \/ AnswerThere(p)
    \/ pc[p] \in {"dead", "reaped"}

CommandsAttended ==
    \A p \in Pids : cli[p] = "waiting" /\ waitId[p] = 0 => Attended(p)

(* A frame for a client that is there is there to be read.                   *)
LEMMA FrameThere ==
  ASSUME TypeOK, NEW p \in Pids, NEW type, NEW re, SendFrame(p, type, re),
         cli[p] # "closed", type # "RSP_NOTIFY"
  PROVE  AnswerThere(p)'
<1> DEFINE f == [type |-> type, re |-> re]
<1>1. inbox' = [inbox EXCEPT ![p] = Append(@, f)]
  BY DEF SendFrame
<1>2. f.type # "RSP_NOTIFY"
  OBVIOUS
<1> HIDE DEF f
<1>3. inbox[p] \in Seq(Frame) /\ inbox'[p] = Append(inbox[p], f)
  BY <1>1 DEF TypeOK
<1>4. /\ inbox'[p][Len(inbox[p]) + 1] = f
      /\ Len(inbox[p]) + 1 \in 1 .. Len(inbox'[p])
  BY <1>3
<1> QED  BY <1>2, <1>4 DEF AnswerThere

(* It stays there until the client reads it, which ends the wait.            *)
LEMMA AnswerStays ==
  ASSUME TypeOK, [Next]_vars, NEW p \in Pids, cli[p] = "waiting",
         cli'[p] = "waiting", AnswerThere(p)
  PROVE  AnswerThere(p)'
<1>0. inbox[p] \in Seq(Frame)
  BY DEF TypeOK
<1>1. PICK n \in 1 .. Len(inbox[p]) : inbox[p][n].type # "RSP_NOTIFY"
  BY DEF AnswerThere
<1>2. CASE inbox'[p] = inbox[p]
  BY <1>1, <1>2 DEF AnswerThere
<1>3. ASSUME NEW f, inbox'[p] = Append(inbox[p], f) PROVE AnswerThere(p)'
  <2>1. /\ Len(inbox'[p]) = Len(inbox[p]) + 1 /\ Len(inbox[p]) \in Nat
        /\ inbox'[p][n] = inbox[p][n]
    BY <1>0, <1>1, <1>3
  <2>2. n \in 1 .. Len(inbox'[p])
    BY <1>1, <2>1
  <2> QED  BY <1>1, <2>1, <2>2 DEF AnswerThere
<1>4. CASE recv_response(p)
  <2>1. inbox' = [inbox EXCEPT ![p] = Tail(@)] /\ inbox[p] # <<>>
    BY <1>4 DEF recv_response
  <2>2. inbox'[p] = Tail(inbox[p])
    BY <1>0, <2>1 DEF TypeOK
  <2>3. Head(inbox[p]).type = "RSP_NOTIFY"
    BY <1>4 DEF recv_response, TypeOK
  <2>4. Head(inbox[p]) = inbox[p][1]
    BY <1>0, <2>1
  <2>5. n # 1
    BY <1>1, <2>3, <2>4
  <2>6. /\ Len(inbox'[p]) = Len(inbox[p]) - 1 /\ Len(inbox[p]) \in Nat
        /\ \A j \in 1 .. Len(inbox'[p]) : inbox'[p][j] = inbox[p][j + 1]
    BY <1>0, <2>1, <2>2, TailShifts
  <2>7. n - 1 \in 1 .. Len(inbox'[p]) /\ (n - 1) + 1 = n
    BY <1>1, <2>5, <2>6
  <2>8. inbox'[p][n - 1] = inbox[p][n]
    BY <2>6, <2>7
  <2> QED  BY <1>1, <2>7, <2>8 DEF AnswerThere
<1>5. ~ReadUnsolicited(p)
  BY DEF ReadUnsolicited
<1>6. ~ClientClose(p)
  BY DEF ClientClose, TypeOK
<1> QED  BY <1>2, <1>3, <1>4, <1>5, <1>6, InboxSteps

(* The child of q reads a command, or goes on with it.                       *)
Serve(q) ==
    \/ LoginRefused(q) \/ handle_login(q) \/ LoginRequired(q)
    \/ OtherCommand(q) \/ TransferRefused(q) \/ TransferFind(q)
    \/ TransferAdd(q) \/ AcceptTake(q) \/ RejectTake(q) \/ AnswerRefused(q)
    \/ AcceptFind(q) \/ AcceptCopy(q) \/ AcceptSet(q) \/ AcceptNotify(q)
    \/ RejectFind(q) \/ RejectNotify(q)

(* Such a step leaves the command to a later step of the child, or answers   *)
(* it, or begins the wait for the receiver of a transfer.                    *)
LEMMA ServeAttends ==
  ASSUME TypeOK, NEW p \in Pids, Serve(p), cli[p] = "waiting", waitId'[p] = 0
  PROVE  AtWork(p)' \/ AnswerThere(p)'
<1>0. /\ pc \in [Pids -> PCs] /\ waitId \in [Pids -> Nat] /\ nextId \in Nat \ {0}
      /\ loc[p] \in Locals
  BY DEF TypeOK, ShmTypeOK
<1>1. ASSUME NEW type \in {"RSP_OK", "RSP_ERR"}, NEW re, SendFrame(p, type, re)
      PROVE  AnswerThere(p)'
  BY <1>1, FrameThere
<1>2. CASE \/ LoginRefused(p) \/ handle_login(p) \/ LoginRequired(p)
           \/ OtherCommand(p) \/ TransferRefused(p) \/ AnswerRefused(p)
  BY <1>1, <1>2 DEF LoginRefused, handle_login, LoginRequired, OtherCommand,
     TransferRefused, AnswerRefused, AnswerOnly
<1>3. ASSUME NEW label \in {"req_add", "acc_find", "acc_copy", "acc_set",
               "acc_notify", "rej_find", "rej_notify"}, Goto(p, label)
      PROVE  AtWork(p)'
  BY <1>0, <1>3 DEF Goto, AtWork, Holding
<1>4. CASE TransferFind(p) \/ AcceptTake(p) \/ RejectTake(p) \/ AcceptCopy(p)
           \/ AcceptSet(p)
  BY <1>3, <1>4 DEF TransferFind, AcceptTake, RejectTake, TakeRequest,
     AcceptCopy, AcceptSet
<1>5. CASE TransferAdd(p)
  <2>1. CASE RequestsFull
    BY <1>1, <1>5, <2>1 DEF TransferAdd
  <2>2. CASE ~RequestsFull
    <3>1. waitId' = [waitId EXCEPT ![p] = nextId]
      BY <1>5, <2>2 DEF TransferAdd
    <3> QED  BY <1>0, <3>1
  <2> QED  BY <2>1, <2>2
<1>6. CASE AcceptFind(p) \/ RejectFind(p)
  BY <1>1, <1>3, <1>6 DEF AcceptFind, RejectFind, FindSource
<1>7. CASE AcceptNotify(p) \/ RejectNotify(p)
  <2>1. \E kind, ok : AnswerSource(p, kind, ok)
    BY <1>7 DEF AcceptNotify, RejectNotify
  <2>2. \E type \in {"RSP_OK", "RSP_ERR"} : SendFrame(p, type, 0)
    BY <2>1 DEF AnswerSource
  <2> QED  BY <1>1, <2>2
<1> QED  BY <1>2, <1>4, <1>5, <1>6, <1>7 DEF Serve

(* Any other step of the system leaves what p waits for as it is, but for    *)
(* the client itself and for the end of the child.                           *)
LEMMA OthersLeave ==
  ASSUME TypeOK, [Next]_vars, NEW p \in Pids, ~Serve(p)
  PROVE  /\ \/ cmd'[p] = cmd[p] /\ cli'[p] = cli[p]
            \/ ClientStep(p) \/ Connect(p) \/ Eof(p) \/ Crash(p)
         /\ \/ pc'[p] = pc[p]
            \/ pc'[p] \in {"dead", "reaped"}
            \/ ~AtWork(p) /\ pc[p] \notin {"dead", "reaped"}
<1> DEFINE Goal ==
       /\ \/ cmd'[p] = cmd[p] /\ cli'[p] = cli[p]
          \/ ClientStep(p) \/ Connect(p) \/ Eof(p) \/ Crash(p)
       /\ \/ pc'[p] = pc[p]
          \/ pc'[p] \in {"dead", "reaped"}
          \/ ~AtWork(p) /\ pc[p] \notin {"dead", "reaped"}
<1>0. /\ pc \in [Pids -> PCs] /\ cmd \in [Pids -> Command]
      /\ cli \in [Pids -> {"idle", "waiting", "closed"}]
  BY DEF TypeOK
<1>1. ASSUME NEW q \in Pids, q # p,
             Connect(q) \/ ClientStep(q) \/ ChildStep(q) \/ ReadNotification(q)
               \/ Crash(q) \/ handle_signals(q)
      PROVE  Goal
  <2>1. /\ cmd' = cmd \/ \E c : cmd' = [cmd EXCEPT ![q] = c]
        /\ cli' = cli \/ \E c : cli' = [cli EXCEPT ![q] = c]
        /\ pc' = pc \/ \E c : pc' = [pc EXCEPT ![q] = c]
    <3>1. CASE Connect(q) \/ ClientStep(q) \/ ReadNotification(q) \/ Crash(q)
               \/ handle_signals(q)
      BY <3>1 DEF Connect, ClientStep, Send, recv_response, ReadUnsolicited,
         ClientClose, ReadNotification, Crash, handle_signals, Goto
    <3>2. CASE ChildStep(q)
      BY <3>2 DEF ChildStep, LoginRefused, handle_login, LoginAdd, LoginScan,
         LoginNotify, LoginRequired, OtherCommand, TransferRefused,
         TransferFind, TransferAdd, TransferNotify, AcceptTake, RejectTake,
         TakeRequest, AnswerRefused, AnswerOnly, AcceptFind, RejectFind,
         FindSource, AcceptCopy, AcceptSet, AcceptNotify, RejectNotify,
         AnswerSource, Eof, CloseFail, CloseFifo, Receive, Return, Goto
    <3> QED  BY <1>1, <3>1, <3>2
  <2>2. cmd'[p] = cmd[p] /\ cli'[p] = cli[p] /\ pc'[p] = pc[p]
    BY <1>0, <1>1, <2>1
  <2> QED  BY <2>2
<1>2. ASSUME Connect(p) \/ ClientStep(p) \/ ReadNotification(p) \/ Crash(p)
               \/ handle_signals(p)
      PROVE  Goal
  <2>1. CASE ClientStep(p)
    <3>1. pc' = pc
      BY <2>1 DEF ClientStep, Send, recv_response, ReadUnsolicited, ClientClose
    <3> QED  BY <2>1, <3>1
  <2>2. CASE ReadNotification(p)
    BY <2>2 DEF ReadNotification
  <2>3. CASE Connect(p) \/ Crash(p)
    BY <1>0, <2>3 DEF Connect, Crash, Goto, AtWork, Holding
  <2>4. CASE handle_signals(p)
    BY <1>0, <2>4 DEF handle_signals, Goto
  <2> QED  BY <1>2, <2>1, <2>2, <2>3, <2>4
<1>3. ASSUME ChildStep(p) PROVE Goal
  <2>1. CASE Eof(p)
    BY <2>1 DEF Eof, AtWork, Holding
  <2>2. CASE \/ LoginAdd(p) \/ LoginScan(p) \/ LoginNotify(p)
             \/ TransferNotify(p) \/ CloseFail(p) \/ CloseFifo(p)
    <3>1. UNCHANGED <<cmd, cli>> /\ ~AtWork(p) /\ pc[p] \notin {"dead", "reaped"}
      BY <2>2 DEF LoginAdd, LoginScan, LoginNotify, TransferNotify, CloseFail,
         CloseFifo, AtWork, Holding
    <3> QED  BY <3>1
  <2> QED  BY <1>3, <2>1, <2>2 DEF ChildStep, Serve
<1>4. CASE collect_stale_sessions \/ UNCHANGED vars
  BY <1>4 DEF collect_stale_sessions, vars
<1> HIDE DEF Goal
<1>5. Goal
  <2>1. ASSUME NEW q \in Pids,
               Connect(q) \/ ClientStep(q) \/ ChildStep(q) \/ ReadNotification(q)
                 \/ Crash(q) \/ handle_signals(q)
        PROVE  Goal
    BY <1>1, <1>2, <1>3, <2>1
  <2> QED  BY <1>4, <2>1 DEF Next, Goal
<1> QED  BY <1>5 DEF Goal

(* No step forgets a client that waits for an answer other than to a request *)
(* of its own.                                                               *)
LEMMA AttendedNext ==
  ASSUME TypeOK, TypeOK', CommandsAttended, [Next]_vars
  PROVE  CommandsAttended'
<1> SUFFICES ASSUME NEW p \in Pids, cli'[p] = "waiting", waitId'[p] = 0
             PROVE  Attended(p)'
  BY DEF CommandsAttended
<1>0. /\ pc \in [Pids -> PCs] /\ cmd \in [Pids -> Command]
      /\ cli \in [Pids -> {"idle", "waiting", "closed"}]
      /\ nextId \in Nat \ {0}
  BY DEF TypeOK, ShmTypeOK
<1>1. CASE Serve(p)
  <2>1. cli' = cli
    BY <1>1 DEF Serve, LoginRefused, handle_login, LoginRequired, OtherCommand,
       TransferRefused, TransferFind, TransferAdd, AcceptTake, RejectTake,
       TakeRequest, AnswerRefused, AnswerOnly, AcceptFind, RejectFind,
       FindSource, AcceptCopy, AcceptSet, AcceptNotify, RejectNotify,
       AnswerSource
  <2> QED  BY <1>1, <2>1, ServeAttends DEF Attended
<1>2. ASSUME NEW c \in Commands(p), Send(p, c) PROVE Attended(p)'
  <2>1. c.op # "none"
    BY DEF Commands, Login, Transfer, Accept, Reject, Other
  <2>2. cmd'[p] = c
    BY <1>0, <1>2 DEF Send
  <2> QED  BY <2>1, <2>2 DEF Attended
<1>3. CASE ~Serve(p) /\ ~(\E c \in Commands(p) : Send(p, c))
  <2>1. ~Connect(p) /\ ~ClientClose(p) /\ ~ReadUnsolicited(p)
    BY <1>0 DEF Connect, ClientClose, ReadUnsolicited
  <2>2. ~Eof(p)
    BY DEF Eof
  <2>3. ClientStep(p) => recv_response(p)
    BY <1>3, <2>1 DEF ClientStep
  <2>4. recv_response(p) => UNCHANGED <<cmd, cli, waitId>>
    BY <1>0 DEF recv_response
  <2>5. Crash(p) => pc'[p] = "dead" /\ cli' = cli
    BY <1>0 DEF Crash, Goto
  <2>6. cli[p] = "waiting"
    BY <1>3, <2>1, <2>2, <2>3, <2>4, <2>5, OthersLeave
  <2>7. waitId[p] = 0
    <3>1. ~TransferAdd(p)
      BY <1>3 DEF Serve
    <3> QED  BY <2>1, <2>4, <3>1, WaitSteps
  <2>8. Attended(p)
    BY <2>6, <2>7 DEF CommandsAttended
  <2>9. CASE AnswerThere(p)
    BY <2>6, <2>9, AnswerStays DEF Attended
  <2>10. CASE AtWork(p) \/ pc[p] \in {"dead", "reaped"}
    <3>1. pc'[p] = pc[p] \/ pc'[p] \in {"dead", "reaped"}
      BY <1>3, <2>10, OthersLeave
    <3> QED  BY <2>10, <3>1 DEF Attended, AtWork, Holding
  <2>11. CASE cmd[p].op # "none"
    <3>1. cmd'[p] = cmd[p] \/ pc'[p] = "dead"
      BY <1>3, <2>1, <2>2, <2>3, <2>4, <2>5, OthersLeave
    <3> QED  BY <2>11, <3>1 DEF Attended
  <2> QED  BY <2>8, <2>9, <2>10, <2>11 DEF Attended
<1> QED  BY <1>1, <1>2, <1>3

(* A client that waits, but not for the receiver of its own transfer, waits  *)
(* for a command that its child has yet to read, is working on or has        *)
(* answered, or its connection has ended: no path of dispatch forgets the    *)
(* answer.  Crashes and every value of the constants are allowed.            *)
THEOREM NobodyForgotten == Spec => []CommandsAttended
<1>1. Init => TypeOK /\ CommandsAttended
  <2>1. Init => CommandsAttended
    BY DEF Init, CommandsAttended
  <2> QED  BY <2>1, InitType
<1>2. TypeOK /\ [Next]_vars => TypeOK'
  BY NextType
<1>3. TypeOK /\ CommandsAttended /\ [Next]_vars => TypeOK' /\ CommandsAttended'
  BY <1>2, AttendedNext
<1> QED  BY <1>1, <1>3, PTL DEF Spec
=============================================================================
