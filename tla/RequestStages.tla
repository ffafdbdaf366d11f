---------------------------- MODULE RequestStages ----------------------------
(***************************************************************************)
(* TransferRequests implements TransferPromise: the stage of a request is  *)
(* read off the request table, the children that answer it and the files   *)
(* that were copied.  An entry may be reused once its request is settled,  *)
(* so a request that is found nowhere any more is closed.                  *)
(***************************************************************************)
EXTENDS TransferRequests

(* An accepted request whose copy has not been made and may still be. *)
BeingCopied(id) ==
    \E p \in Pids : pc[p] \in {"acc_find", "acc_copy"} /\ loc[p].id = id

StillPending(id) ==
    \E i \in 1 .. reqCount : req[i].id = id /\ req[i].status = "PENDING"

StageOf(id) ==
    IF nextId <= id THEN "none"
    ELSE IF StillPending(id) THEN "open"
    ELSE IF BeingCopied(id) THEN "taken"
    ELSE IF id \in delivered THEN "delivered"
    ELSE "closed"

RequestIds == 1 .. MaxReqs

stages == [id \in RequestIds |-> StageOf(id)]

Promise == INSTANCE TransferPromise WITH Ids <- RequestIds, promise <- stages

(* accept, reject, the end of a session and the reuse of table entries,     *)
(* interleaved in any way and with children killed at any point, keep the   *)
(* promise of TransferPromise for every request.                            *)
PromiseKept == Promise!PromiseSpec
=============================================================================
