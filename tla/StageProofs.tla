----------------------------- MODULE StageProofs -----------------------------
(***************************************************************************)
(* TransferRequests implements TransferPromise, for every number of users, *)
(* connections, table entries and requests, and with children killed at    *)
(* any point.  Each action opens, takes, delivers or closes requests, or   *)
(* leaves all of their stages as they are.                                 *)
(***************************************************************************)
EXTENDS RequestStages, TransferProofs

Copying == {"acc_find", "acc_copy"}

(* Only the child p moves, and it does not begin to copy.                    *)
Aside(p) ==
    /\ \A q \in Pids : q # p => pc'[q] = pc[q] /\ loc'[q].id = loc[q].id
    /\ pc'[p] \in Copying => pc[p] \in Copying /\ loc'[p].id = loc[p].id

(* The stages of all requests but one are as before.                         *)
OthersKeep(id) == \A j \in RequestIds : j # id => StageOf(j)' = StageOf(j)

(* A move of one request in the abstract specification.                      *)
LEMMA OneMove ==
  ASSUME NEW id \in Nat, OthersKeep(id),
         id \in RequestIds =>
            \/ StageOf(id)' = StageOf(id)
            \/ StageOf(id) = "open" /\ StageOf(id)' \in {"taken", "closed"}
            \/ StageOf(id) = "taken" /\ StageOf(id)' \in {"delivered", "closed"}
  PROVE  [Promise!PromiseNext]_stages
<1>1. CASE id \notin RequestIds \/ StageOf(id)' = StageOf(id)
  <2>1. \A j \in RequestIds : StageOf(j)' = StageOf(j)
    BY <1>1 DEF OthersKeep
  <2> QED  BY <2>1 DEF stages, RequestIds
<1>2. CASE id \in RequestIds /\ StageOf(id)' # StageOf(id)
  <2> DEFINE to == StageOf(id)'
  <2>1. stages[id] = StageOf(id)
    BY <1>2 DEF stages
  <2>2. stages' = [stages EXCEPT ![id] = to]
    BY <1>2 DEF stages, OthersKeep, RequestIds
  <2>3. CASE StageOf(id) = "taken"
    <3>1. Promise!Deliver(id) \/ Promise!GiveUp(id)
      BY <1>2, <2>1, <2>2, <2>3
         DEF Promise!Deliver, Promise!GiveUp, Promise!Move
    <3> QED  BY <1>2, <3>1 DEF Promise!PromiseNext
  <2>4. CASE StageOf(id) = "open" /\ to = "taken"
    <3>1. Promise!Take(id)
      BY <2>1, <2>2, <2>4 DEF Promise!Take, Promise!Move
    <3> QED  BY <1>2, <3>1 DEF Promise!PromiseNext
  <2>5. CASE StageOf(id) = "open" /\ to = "closed"
    <3>1. Promise!Close({id})
      BY <1>2, <2>1, <2>2, <2>5 DEF Promise!Close, stages
    <3> QED  BY <1>2, <3>1 DEF Promise!PromiseNext
  <2> QED  BY <1>2, <2>3, <2>4, <2>5
<1> QED  BY <1>1, <1>2

(* A child that stops copying gives its request up, unless it was delivered. *)
LEMMA AsideStage ==
  ASSUME TransferInv, NEW p \in Pids, Aside(p), NEW id \in Nat, loc[p].id = id,
         UNCHANGED <<nextId, delivered>>,
         \A j \in Nat : StillPending(j)' = StillPending(j)
  PROVE  [Promise!PromiseNext]_stages
<1>1. \A j \in Nat : j # id => BeingCopied(j)' = BeingCopied(j)
  <2> SUFFICES ASSUME NEW j \in Nat, j # id
               PROVE  BeingCopied(j)' <=> BeingCopied(j)
    BY DEF BeingCopied
  <2>1. BeingCopied(j) => BeingCopied(j)'
    BY DEF BeingCopied, Aside, Copying
  <2>2. BeingCopied(j)' => BeingCopied(j)
    BY DEF BeingCopied, Aside, Copying
  <2> QED  BY <2>1, <2>2
<1>2. OthersKeep(id)
  <2> SUFFICES ASSUME NEW j \in RequestIds, j # id
               PROVE  StageOf(j)' = StageOf(j)
    BY DEF OthersKeep
  <2>1. j \in Nat
    BY TransferAssumption DEF RequestIds
  <2>2. BeingCopied(j)' = BeingCopied(j) /\ StillPending(j)' = StillPending(j)
    BY <1>1, <2>1
  <2> QED  BY <2>2 DEF StageOf
<1>3. BeingCopied(id)' => BeingCopied(id)
  BY DEF BeingCopied, Aside, Copying
<1>4. CASE BeingCopied(id)' = BeingCopied(id)
  <2>1. StageOf(id)' = StageOf(id)
    BY <1>4 DEF StageOf
  <2> QED  BY <1>2, <2>1, OneMove
<1>5. CASE BeingCopied(id) /\ ~BeingCopied(id)'
  <2>1. PICK q \in Pids : pc[q] \in Copying /\ loc[q].id = id
    BY <1>5 DEF BeingCopied, Copying
  <2>2. id \notin delivered
    BY <2>1 DEF TransferInv, CopyOutstanding, Copying
  <2>3. \/ StageOf(id)' = StageOf(id)
        \/ StageOf(id) = "taken" /\ StageOf(id)' = "closed"
    BY <1>5, <2>2 DEF StageOf
  <2> QED  BY <1>2, <2>3, OneMove
<1> QED  BY <1>3, <1>4, <1>5 DEF BeingCopied

(* The same for a step that leaves the request table alone.                  *)
LEMMA AsideTable ==
  ASSUME TransferInv, NEW p \in Pids, Aside(p),
         UNCHANGED <<req, reqCount, nextId, delivered>>
  PROVE  [Promise!PromiseNext]_stages
<1>1. TypeOK
  BY DEF TransferInv
<1>2. PICK id \in Nat : loc[p].id = id
  BY <1>1, LocalsType
<1>3. \A j \in Nat : StillPending(j)' = StillPending(j)
  BY DEF StillPending
<1> QED  BY <1>2, <1>3, AsideStage

(* A step that moves no child.                                               *)
LEMMA StayStage ==
  ASSUME UNCHANGED <<req, reqCount, nextId, delivered, pc, loc>>
  PROVE  [Promise!PromiseNext]_stages
<1>1. ASSUME NEW j \in RequestIds PROVE StageOf(j)' = StageOf(j)
  BY DEF StageOf, StillPending, BeingCopied
<1> QED  BY <1>1 DEF stages, RequestIds

(* A step that sends the child p to a label outside the copy.                *)
LEMMA GotoAside ==
  ASSUME TypeOK, NEW p \in Pids, NEW label \in PCs \ Copying, Goto(p, label),
         \A q \in Pids : q # p => loc'[q].id = loc[q].id
  PROVE  Aside(p)
BY DEF TypeOK, Goto, Aside

(* The return from dispatch.                                                 *)
LEMMA ReturnAside ==
  ASSUME TypeOK, NEW p \in Pids, Return(p)
  PROVE  Aside(p)
<1>1. "select" \in PCs \ Copying
  BY DEF PCs, Copying
<1>2. \A q \in Pids : q # p => loc'[q].id = loc[q].id
  BY DEF Return, TypeOK
<1> QED  BY <1>1, <1>2, GotoAside DEF Return

USE DEF Slots, sessVars, reqVars, shmVars, childVars, clientVars, ghostVars

(* The steps that leave the request table and delivered alone.               *)
LEMMA QuietStage ==
  ASSUME TransferInv, NEW p \in Pids,
         \/ Connect(p) \/ ClientStep(p) \/ ReadNotification(p)
         \/ LoginRefused(p) \/ LoginRequired(p) \/ OtherCommand(p)
         \/ TransferRefused(p) \/ AnswerRefused(p)
         \/ handle_login(p) \/ LoginAdd(p) \/ LoginScan(p) \/ LoginNotify(p)
         \/ TransferFind(p) \/ TransferNotify(p)
         \/ AcceptNotify(p) \/ RejectNotify(p)
         \/ Eof(p) \/ CloseFifo(p) \/ Crash(p) \/ handle_signals(p)
  PROVE  [Promise!PromiseNext]_stages
<1> DEFINE Free == PCs \ Copying
<1>0. TypeOK
  BY DEF TransferInv
<1>1. {"select", "login_add", "login_scan", "login_notify", "req_add", "dead",
       "close_fail", "close_fifo", "reaped"} \subseteq Free
  BY DEF PCs, Copying
<1> HIDE DEF Free
<1>2. CASE \/ ClientStep(p) \/ ReadNotification(p)
           \/ LoginRefused(p) \/ LoginRequired(p) \/ OtherCommand(p)
           \/ TransferRefused(p) \/ AnswerRefused(p)
  <2>1. UNCHANGED <<req, reqCount, nextId, delivered, pc, loc>>
    BY <1>2 DEF ClientStep, Send, recv_response, ReadUnsolicited, ClientClose,
       ReadNotification, LoginRefused, LoginRequired, OtherCommand,
       TransferRefused, AnswerRefused, AnswerOnly
  <2> QED  BY <2>1, StayStage
<1>3. CASE \/ Connect(p) \/ handle_login(p) \/ LoginAdd(p) \/ LoginScan(p)
           \/ CloseFifo(p) \/ handle_signals(p) \/ Eof(p)
  <2>1. UNCHANGED <<req, reqCount, nextId, delivered, loc>>
    BY <1>3 DEF Connect, handle_login, LoginAdd, LoginScan, CloseFifo,
                handle_signals, Eof
  <2>2. \E label \in Free : Goto(p, label)
    <3>1. CASE Eof(p)
      BY <1>1, <3>1 DEF Eof
    <3>2. CASE Connect(p) \/ handle_login(p) \/ LoginAdd(p) \/ LoginScan(p)
      BY <1>1, <3>2 DEF Connect, handle_login, LoginAdd, LoginScan
    <3>3. CASE CloseFifo(p) \/ handle_signals(p)
      BY <1>1, <3>3 DEF CloseFifo, handle_signals
    <3> QED  BY <1>3, <3>1, <3>2, <3>3
  <2>3. Aside(p)
    BY <1>0, <2>1, <2>2, GotoAside DEF Free
  <2> QED  BY <2>1, <2>3, AsideTable
<1>4. CASE LoginNotify(p)
  <2>1. UNCHANGED <<req, reqCount, nextId, delivered>>
    BY <1>4 DEF LoginNotify
  <2>2. Return(p) \/ UNCHANGED <<pc, loc>>
    BY <1>4 DEF LoginNotify
  <2> QED  BY <1>0, <2>1, <2>2, ReturnAside, AsideTable, StayStage
<1>5. CASE TransferFind(p)
  <2>1. UNCHANGED <<req, reqCount, nextId, delivered>> /\ Goto(p, "req_add")
    BY <1>5 DEF TransferFind
  <2>2. PICK l : loc' = [loc EXCEPT ![p] = l]
    BY <1>5 DEF TransferFind
  <2>3. \A q \in Pids : q # p => loc'[q].id = loc[q].id
    BY <1>0, <2>2 DEF TypeOK
  <2> QED  BY <1>0, <1>1, <2>1, <2>3, GotoAside, AsideTable DEF Free
<1>6. CASE TransferNotify(p) \/ AcceptNotify(p) \/ RejectNotify(p)
  <2>1. UNCHANGED <<req, reqCount, nextId, delivered>> /\ Return(p)
    BY <1>6 DEF TransferNotify, AcceptNotify, RejectNotify, AnswerSource
  <2> QED  BY <1>0, <2>1, ReturnAside, AsideTable
<1>7. CASE Crash(p)
  <2>1. UNCHANGED <<req, reqCount, nextId, delivered>> /\ Goto(p, "dead")
    BY <1>7 DEF Crash
  <2>2. \A q \in Pids : q # p => loc'[q].id = loc[q].id
    BY <1>0, <1>7 DEF Crash, TypeOK
  <2> QED  BY <1>0, <1>1, <2>1, <2>2, GotoAside, AsideTable DEF Free
<1> QED  BY <1>2, <1>3, <1>4, <1>5, <1>6, <1>7

(* The lookup of the sender, which ends the answer when nobody is found.     *)
LEMMA FindStage ==
  ASSUME TransferInv, NEW p \in Pids, AcceptFind(p) \/ RejectFind(p)
  PROVE  [Promise!PromiseNext]_stages
<1> DEFINE s == shm_session_find(loc[p].peer)
           l == [loc[p] EXCEPT !.pid = s.pid, !.online = s.online]
<1>0. TypeOK
  BY DEF TransferInv
<1>1. UNCHANGED <<req, reqCount, nextId, delivered>>
  BY DEF AcceptFind, RejectFind, FindSource
<1>2. CASE Return(p)
  BY <1>0, <1>1, <1>2, ReturnAside, AsideTable
<1>3. CASE ~Return(p)
  <2>1. /\ loc' = [loc EXCEPT ![p] = l]
        /\ \/ pc[p] = "acc_find" /\ Goto(p, "acc_copy")
           \/ Goto(p, "rej_notify")
    BY <1>3, Zenon DEF AcceptFind, RejectFind, FindSource
  <2>2. l.id = loc[p].id
    <3> HIDE DEF s
    <3> QED  BY <1>0 DEF TypeOK, Locals
  <2> HIDE DEF l
  <2>3. Aside(p)
    BY <1>0, <2>1, <2>2 DEF TypeOK, Goto, Aside, Copying
  <2> QED  BY <1>1, <2>3, AsideTable
<1> QED  BY <1>2, <1>3

(* shm_request_add opens the request nextId; a full table opens nothing.     *)
LEMMA AddStage ==
  ASSUME TransferInv, NEW p \in Pids, TransferAdd(p)
  PROVE  [Promise!PromiseNext]_stages
<1>0. TypeOK
  BY DEF TransferInv
<1>1. CASE RequestsFull
  <2>1. UNCHANGED <<req, reqCount, nextId, delivered>> /\ Return(p)
    BY <1>1 DEF TransferAdd
  <2> QED  BY <1>0, <2>1, ReturnAside, AsideTable
<1>2. CASE ~RequestsFull
  <2> DEFINE e == [id |-> nextId, source_username |-> user[p],
                   dest_username |-> loc[p].peer, status |-> "PENDING"]
  <2>1. PICK k \in Slots :
           /\ req' = [req EXCEPT ![k] = e]
           /\ nextId' = nextId + 1
           /\ \/ /\ k \in 1 .. reqCount
                 /\ reqCount' = reqCount
                 /\ req[k].status # "PENDING"
              \/ k = reqCount + 1 /\ reqCount' = reqCount + 1
    BY <1>0, <1>2, RequestAddSlot DEF TransferAdd, TypeOK
  <2>2. e.id = nextId /\ e.status = "PENDING"
    OBVIOUS
  <2> HIDE DEF e
  <2>3. PICK n \in Nat \ {0} : nextId = n
    BY <1>0 DEF TypeOK, ShmTypeOK
  <2>4. /\ reqCount \in Nat /\ reqCount <= MAX_ENTRIES /\ MAX_ENTRIES \in Nat
        /\ k \in 1 .. reqCount'
    BY <1>0, <2>1, ShmAssumption DEF TypeOK, ShmTypeOK
  <2>5. /\ req'[k].id = n /\ req'[k].status = "PENDING"
        /\ \A i \in Slots : i # k => req'[i] = req[i]
    BY <1>0, <2>1, <2>2, <2>3 DEF TypeOK, ShmTypeOK
  <2>6. /\ \A i \in 1 .. reqCount : i \in Slots
        /\ \A i \in 1 .. reqCount' : i # k => i \in 1 .. reqCount
        /\ \A i \in 1 .. reqCount : i \in 1 .. reqCount'
    <3>1. CASE reqCount' = reqCount
      BY <2>4, <3>1
    <3>2. CASE k = reqCount + 1 /\ reqCount' = reqCount + 1
      BY <2>4, <3>2
    <3> QED  BY <2>1, <3>1, <3>2
  <2>7. ASSUME NEW j \in RequestIds, j # n PROVE StageOf(j)' = StageOf(j)
    <3>1. j \in Nat
      BY TransferAssumption DEF RequestIds
    <3>2. (nextId' <= j) = (nextId <= j)
      BY <2>1, <2>3, <2>7, <3>1
    <3>3. StillPending(j) => StillPending(j)'
      <4> SUFFICES ASSUME NEW i \in 1 .. reqCount, req[i].id = j,
                          req[i].status = "PENDING"
                   PROVE  StillPending(j)'
        BY DEF StillPending
      <4>1. i # k
        BY <2>1, <2>4
      <4> QED  BY <2>5, <2>6, <4>1 DEF StillPending
    <3>4. StillPending(j)' => StillPending(j)
      BY <2>5, <2>6, <2>7 DEF StillPending
    <3>5. BeingCopied(j)' <=> BeingCopied(j)
      <4>1. Aside(p) /\ pc[p] \notin Copying /\ pc'[p] \notin Copying
        <5>1. pc'[p] \in {"select", "req_notify"}
          BY <1>0, <1>2 DEF TransferAdd, Return, Goto, TypeOK
        <5>2. \A q \in Pids : q # p => pc'[q] = pc[q] /\ loc'[q] = loc[q]
          BY <1>0, <1>2 DEF TransferAdd, Return, Goto, TypeOK
        <5> QED  BY <5>1, <5>2 DEF Aside, Copying, TransferAdd
      <4> QED  BY <4>1 DEF Aside, BeingCopied, Copying
    <3>6. delivered' = delivered
      BY DEF TransferAdd
    <3> QED  BY <3>2, <3>3, <3>4, <3>5, <3>6 DEF StageOf, StillPending
  <2>8. StageOf(n) = "none" /\ StageOf(n)' = "open"
    <3>1. StillPending(n)' /\ ~(nextId' <= n) /\ nextId <= n
      BY <2>1, <2>3, <2>4, <2>5 DEF StillPending
    <3> QED  BY <3>1 DEF StageOf
  <2>9. CASE n \notin RequestIds
    <3>1. \A j \in RequestIds : StageOf(j)' = StageOf(j)
      BY <2>7, <2>9
    <3> QED  BY <3>1 DEF stages, RequestIds
  <2>10. CASE n \in RequestIds
    <3>1. stages' = [stages EXCEPT ![n] = "open"] /\ stages[n] = "none"
      BY <2>7, <2>8, <2>10 DEF stages, RequestIds
    <3>2. \A j \in RequestIds : j < n => stages[j] # "none"
      <4> SUFFICES ASSUME NEW j \in RequestIds, j < n
                   PROVE  StageOf(j) # "none"
        BY DEF stages
      <4>1. ~(nextId <= j)
        BY <2>3, TransferAssumption DEF RequestIds
      <4> QED  BY <4>1 DEF StageOf
    <3>3. Promise!Open(n)
      BY <3>1, <3>2 DEF Promise!Open, Promise!Move
    <3> QED  BY <2>10, <3>3 DEF Promise!PromiseNext
  <2> QED  BY <2>9, <2>10
<1> QED  BY <1>1, <1>2

(* A step that sets the status of the request in slot k, with what it does   *)
(* to pending requests.                                                      *)
LEMMA StatusPending ==
  ASSUME TransferInv, NEW k \in 1 .. reqCount, NEW st \in request_status,
         st # "PENDING", NEW id, req[k].id = id,
         req' = [req EXCEPT ![k].status = st], UNCHANGED <<reqCount, nextId>>
  PROVE  /\ ~StillPending(id)'
         /\ \A j \in Nat : j # id => (StillPending(j)' <=> StillPending(j))
<1>1. /\ k \in Slots
      /\ \A i \in Slots : req'[i].id = req[i].id
      /\ \A i \in Slots : i # k => req'[i] = req[i]
      /\ req'[k].status = st
      /\ \A i \in 1 .. reqCount : i \in Slots
      /\ UniqueIds'
  BY StatusStep
<1>2. ~StillPending(id)'
  BY <1>1 DEF StillPending, UniqueIds
<1>3. \A j \in Nat : j # id => (StillPending(j)' <=> StillPending(j))
  BY <1>1 DEF StillPending
<1> QED  BY <1>2, <1>3

(* accept takes an open request; reject closes it.                           *)
LEMMA TakeStage ==
  ASSUME TransferInv, NEW p \in Pids, AcceptTake(p) \/ RejectTake(p)
  PROVE  [Promise!PromiseNext]_stages
<1>0. TypeOK
  BY DEF TransferInv
<1> SUFFICES ASSUME NEW op, NEW st, NEW label,
                    <<st, label>> \in {<<"ACCEPTED", "acc_find">>,
                                       <<"REJECTED", "rej_find">>},
                    TakeRequest(p, op, st, label)
             PROVE  [Promise!PromiseNext]_stages
  BY DEF AcceptTake, RejectTake
<1>1. PICK id \in Nat : cmd[p].id = id
  BY <1>0, LocalsType
<1> DEFINE k == Min(RequestsWithId(id))
<1>2. k \in 1 .. reqCount /\ req[k].id = id /\ req[k].status = "PENDING"
  BY <1>0, <1>1, RequestSlot DEF TakeRequest, CanTake, TypeOK
<1>3. /\ req' = [req EXCEPT ![k].status = st]
      /\ UNCHANGED <<reqCount, nextId, delivered>>
  BY <1>1 DEF TakeRequest, shm_request_take
<1>4. loc'[p].id = id /\ \A q \in Pids : q # p => loc'[q] = loc[q]
  <2> DEFINE l == [NoLocals EXCEPT !.id = id, !.peer = req[k].source_username]
  <2>1. loc' = [loc EXCEPT ![p] = l]
    BY <1>1, Zenon DEF TakeRequest
  <2>2. l.id = id
    <3> HIDE DEF k
    <3> QED  BY DEF NoLocals
  <2> HIDE DEF l, k
  <2> QED  BY <1>0, <2>1, <2>2 DEF TypeOK
<1>5. /\ pc[p] = "select"
      /\ pc'[p] = label
      /\ \A q \in Pids : q # p => pc'[q] = pc[q]
  BY <1>0 DEF TakeRequest, Receive, Goto, TypeOK
<1> HIDE DEF k
<1>6. st \in request_status /\ st # "PENDING"
  BY DEF request_status
<1>7. /\ ~StillPending(id)'
      /\ \A j \in Nat : j # id => (StillPending(j)' <=> StillPending(j))
  BY <1>2, <1>3, <1>6, StatusPending
<1>8. /\ StillPending(id)
      /\ id < nextId
      /\ nextId \in Nat
      /\ id \notin delivered
      /\ ~BeingCopied(id)
  BY <1>0, <1>2 DEF StillPending, TransferInv, UniqueIds, DeliveredStaysAccepted,
     HeldTaken, Holding, BeingCopied, TypeOK, ShmTypeOK
<1>9. OthersKeep(id)
  <2> SUFFICES ASSUME NEW j \in RequestIds, j # id
               PROVE  StageOf(j)' = StageOf(j)
    BY DEF OthersKeep
  <2>1. j \in Nat
    BY TransferAssumption DEF RequestIds
  <2>2. StillPending(j)' <=> StillPending(j)
    BY <1>7, <2>1
  <2>3. BeingCopied(j)' <=> BeingCopied(j)
    BY <1>4, <1>5 DEF BeingCopied
  <2> QED  BY <1>3, <2>2, <2>3 DEF StageOf, StillPending, BeingCopied
<1>10. StageOf(id) = "open" /\ ~(nextId <= id)
  BY <1>8 DEF StageOf
<1>11. StageOf(id)' \in {"taken", "closed"}
  BY <1>3, <1>7, <1>8, <1>10 DEF StageOf
<1> QED  BY <1>9, <1>10, <1>11, OneMove

(* The copy delivers a request that was taken, once.                         *)
LEMMA CopyStage ==
  ASSUME TransferInv, NEW p \in Pids, AcceptCopy(p)
  PROVE  [Promise!PromiseNext]_stages
<1>0. TypeOK
  BY DEF TransferInv
<1>1. PICK id \in Nat : loc[p].id = id
  BY <1>0, LocalsType
<1>2. pc[p] = "acc_copy" /\ Holding(p) /\ UNCHANGED <<req, reqCount, nextId>>
  BY DEF AcceptCopy, Holding
<1>3. \A q \in Pids : loc'[q].id = loc[q].id
  <2>1. ASSUME NEW b \in BOOLEAN, loc' = [loc EXCEPT ![p].ok = b]
        PROVE  \A q \in Pids : loc'[q].id = loc[q].id
    BY <1>0, <2>1 DEF TypeOK, Locals
  <2> QED  BY <2>1 DEF AcceptCopy
<1>4. pc'[p] \notin Copying /\ \A q \in Pids : q # p => pc'[q] = pc[q]
  BY <1>0 DEF AcceptCopy, Goto, TypeOK, Copying
<1>5. Aside(p)
  BY <1>3, <1>4 DEF Aside
<1>6. CASE UNCHANGED delivered
  BY <1>2, <1>5, <1>6, AsideTable
<1>7. CASE delivered' = delivered \cup {id}
  <2>1. \A j \in Nat : StillPending(j)' <=> StillPending(j)
    BY <1>2 DEF StillPending
  <2>2. OthersKeep(id)
    <3> SUFFICES ASSUME NEW j \in RequestIds, j # id
                 PROVE  StageOf(j)' = StageOf(j)
      BY DEF OthersKeep
    <3>1. j \in Nat
      BY TransferAssumption DEF RequestIds
    <3>2. BeingCopied(j)' <=> BeingCopied(j)
      <4>1. BeingCopied(j) => BeingCopied(j)'
        BY <1>1, <1>3, <1>4 DEF BeingCopied
      <4>2. BeingCopied(j)' => BeingCopied(j)
        BY <1>3, <1>4 DEF BeingCopied, Copying
      <4> QED  BY <4>1, <4>2
    <3>3. StillPending(j)' <=> StillPending(j)
      BY <2>1, <3>1
    <3> QED  BY <1>2, <1>7, <3>2, <3>3 DEF StageOf, StillPending, BeingCopied
  <2>3. BeingCopied(id) /\ ~StillPending(id) /\ id < nextId
    BY <1>1, <1>2
       DEF BeingCopied, TransferInv, HeldTaken, Holding, StillPending
  <2>4. ~BeingCopied(id)'
    <3>1. \A q \in Pids : q # p /\ Holding(q) => loc[q].id # id
      BY <1>1, <1>2 DEF TransferInv, SingleTaker
    <3> QED  BY <1>3, <1>4, <3>1 DEF BeingCopied, Holding, Copying
  <2>5. ~StillPending(id)'
    BY <2>1, <2>3
  <2>6. ~(nextId <= id) /\ ~(nextId' <= id)
    BY <1>0, <1>2, <2>3 DEF TypeOK, ShmTypeOK
  <2>7. StageOf(id) = "taken" /\ StageOf(id)' = "delivered"
    BY <1>7, <2>3, <2>4, <2>5, <2>6 DEF StageOf
  <2> QED  BY <2>2, <2>7, OneMove
<1> QED  BY <1>1, <1>6, <1>7 DEF AcceptCopy

(* shm_request_set after a failed copy closes nothing that was still open.   *)
LEMMA SetStage ==
  ASSUME TransferInv, NEW p \in Pids, AcceptSet(p)
  PROVE  [Promise!PromiseNext]_stages
<1>0. TypeOK
  BY DEF TransferInv
<1>1. PICK id \in Nat : loc[p].id = id
  BY <1>0, LocalsType
<1>2. pc[p] = "acc_set" /\ Holding(p)
      /\ UNCHANGED <<reqCount, nextId, delivered, loc>>
  BY DEF AcceptSet, shm_request_set, Holding
<1>3. Aside(p)
  BY <1>0, <1>2 DEF AcceptSet, Goto, TypeOK, Aside, Copying
<1>4. CASE RequestsWithId(id) = {}
  <2>1. req' = req
    BY <1>1, <1>4 DEF AcceptSet, shm_request_set
  <2> QED  BY <1>2, <1>3, <2>1, AsideTable
<1>5. CASE RequestsWithId(id) # {}
  <2> DEFINE k == Min(RequestsWithId(id))
  <2>1. k \in 1 .. reqCount /\ req[k].id = id
    BY <1>0, <1>5, RequestSlot DEF TypeOK
  <2>2. req' = [req EXCEPT ![k].status = "FAILED"]
    BY <1>1, <1>5 DEF AcceptSet, shm_request_set
  <2> HIDE DEF k
  <2>3. /\ ~StillPending(id)'
        /\ \A j \in Nat : j # id => (StillPending(j)' <=> StillPending(j))
    BY <1>2, <2>1, <2>2, StatusPending DEF request_status
  <2>4. ~StillPending(id)
    BY <1>1, <1>2 DEF TransferInv, HeldTaken, StillPending
  <2>5. \A j \in Nat : StillPending(j)' = StillPending(j)
    <3> SUFFICES ASSUME NEW j \in Nat PROVE StillPending(j)' <=> StillPending(j)
      BY DEF StillPending
    <3>1. CASE j = id
      BY <2>3, <2>4, <3>1
    <3>2. CASE j # id
      BY <2>3, <3>2
    <3> QED  BY <3>1, <3>2
  <2> QED  BY <1>1, <1>2, <1>3, <2>5, AsideStage
<1> QED  BY <1>4, <1>5

(* The end of a session closes the open requests of its user.                *)
LEMMA CloseStage ==
  ASSUME TransferInv, NEW p \in Pids, CloseFail(p)
  PROVE  [Promise!PromiseNext]_stages
<1>0. TypeOK
  BY DEF TransferInv
<1>1. UNCHANGED <<reqCount, nextId, delivered, loc>>
  BY DEF CloseFail, shm_requests_set_failed
<1>2. /\ pc[p] \notin Copying /\ pc'[p] \notin Copying
      /\ \A q \in Pids : q # p => pc'[q] = pc[q]
  BY <1>0 DEF CloseFail, Goto, TypeOK, Copying
<1>3. \A i \in Slots :
         req'[i] = req[i] \/ (req'[i].id = req[i].id /\ req'[i].status = "FAILED")
  <2> SUFFICES ASSUME NEW i \in Slots, req'[i] # req[i]
               PROVE  req'[i].id = req[i].id /\ req'[i].status = "FAILED"
    OBVIOUS
  <2>1. req'[i] = [req[i] EXCEPT !.status = "FAILED"]
    BY DEF CloseFail, shm_requests_set_failed
  <2>2. req[i] \in transfer_request_entry_t
    BY <1>0 DEF TypeOK, ShmTypeOK
  <2> QED  BY <2>1, <2>2 DEF transfer_request_entry_t
<1>4. \A i \in 1 .. reqCount : i \in Slots
  <2>1. reqCount \in Nat /\ reqCount <= MAX_ENTRIES /\ MAX_ENTRIES \in Nat
    BY <1>0, ShmAssumption DEF TypeOK, ShmTypeOK
  <2> QED  BY <2>1
<1> DEFINE S == {j \in RequestIds : StageOf(j) = "open" /\ StageOf(j)' # "open"}
<1>5. ASSUME NEW j \in RequestIds
      PROVE  \/ StageOf(j)' = StageOf(j)
             \/ StageOf(j) = "open" /\ StageOf(j)' = "closed"
  <2>1. StillPending(j)' => StillPending(j)
    BY <1>1, <1>3, <1>4 DEF StillPending
  <2>2. BeingCopied(j)' <=> BeingCopied(j)
    BY <1>1, <1>2 DEF BeingCopied, Copying
  <2>3. StillPending(j) => ~BeingCopied(j) /\ j \notin delivered
    BY DEF StillPending, BeingCopied, TransferInv, HeldTaken, Holding,
           DeliveredStaysAccepted
  <2> QED  BY <1>1, <2>1, <2>2, <2>3 DEF StageOf, StillPending, BeingCopied
<1>6. Promise!Close(S)
  <2>1. \A j \in S : stages[j] = "open"
    BY DEF stages
  <2>2. ASSUME NEW j \in RequestIds
        PROVE  StageOf(j)' = IF j \in S THEN "closed" ELSE StageOf(j)
    BY <1>5
  <2>3. \A j \in RequestIds : stages[j] = StageOf(j)
    BY DEF stages
  <2> HIDE DEF S
  <2>4. stages' = [j \in RequestIds |-> IF j \in S THEN "closed" ELSE stages[j]]
    BY <2>2, <2>3 DEF stages, RequestIds
  <2> QED  BY <2>1, <2>4 DEF Promise!Close
<1>7. S \in SUBSET RequestIds
  OBVIOUS
<1> HIDE DEF S
<1> QED  BY <1>6, <1>7 DEF Promise!PromiseNext

(* Every step is a step of the abstract specification, or none.              *)
LEMMA NextStage == TransferInv /\ [Next]_vars => [Promise!PromiseNext]_stages
<1> SUFFICES ASSUME TransferInv, [Next]_vars PROVE [Promise!PromiseNext]_stages
  OBVIOUS
<1>1. ASSUME NEW p \in Pids, ChildStep(p) PROVE [Promise!PromiseNext]_stages
  BY <1>1, QuietStage, FindStage, AddStage, TakeStage, CopyStage, SetStage,
     CloseStage DEF ChildStep
<1>2. CASE collect_stale_sessions \/ UNCHANGED vars
  <2>1. UNCHANGED <<req, reqCount, nextId, delivered, pc, loc>>
    BY <1>2 DEF collect_stale_sessions, vars
  <2> QED  BY <2>1, StayStage
<1>3. ASSUME NEW p \in Pids,
             \/ Connect(p) \/ ClientStep(p) \/ ReadNotification(p)
             \/ Crash(p) \/ handle_signals(p)
      PROVE  [Promise!PromiseNext]_stages
  BY <1>3, QuietStage
<1> QED  BY <1>1, <1>2, <1>3 DEF Next

(* The code that answers transfer requests keeps the promise: every request  *)
(* is opened once, taken by at most one answer, delivered at most once, and  *)
(* what was delivered, rejected or failed is never taken up again, although  *)
(* table entries are reused and children may be killed at any point.         *)
THEOREM RequestsKeepPromise == Spec => PromiseKept
<1>1. Init => Promise!PromiseInit
  <2> SUFFICES ASSUME Init PROVE Promise!PromiseInit
    OBVIOUS
  <2>1. nextId = 1 /\ reqCount = 0
    BY DEF Init, setup_shmem
  <2>2. \A j \in RequestIds : StageOf(j) = "none"
    BY <2>1, TransferAssumption DEF StageOf, RequestIds
  <2> QED  BY <2>2 DEF Promise!PromiseInit, stages
<1>2. Spec => Promise!PromiseInit /\ [][Promise!PromiseNext]_stages
  BY <1>1, NextStage, RequestsConsistent, PTL DEF Spec
<1> QED  BY <1>2 DEF PromiseKept, Promise!PromiseSpec
=============================================================================
