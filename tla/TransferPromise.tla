--------------------------- MODULE TransferPromise ---------------------------
(***************************************************************************)
(* What the server promises about a transfer request, whoever of its       *)
(* sessions, tables and FIFOs is involved: requests are opened in the      *)
(* order of their ids; an open request is taken by one answer or closed    *)
(* without one; a request that was taken is delivered at most once; and    *)
(* what was delivered or closed stays so.                                  *)
(***************************************************************************)
EXTENDS Naturals

CONSTANT Ids   \* request ids, natural numbers

VARIABLE promise   \* of each id: none, open, taken, delivered or closed

Move(i, from, to) ==
    /\ promise[i] = from
    /\ promise' = [promise EXCEPT ![i] = to]

(* transfer_request *)
Open(i) ==
    /\ \A j \in Ids : j < i => promise[j] # "none"
    /\ Move(i, "none", "open")

(* accept, before the copy *)
Take(i) == Move(i, "open", "taken")

(* accept, the copy *)
Deliver(i) == Move(i, "taken", "delivered")

(* accept whose copy fails or is never made *)
GiveUp(i) == Move(i, "taken", "closed")

(* reject, or the sender leaves and closes all that it has open             *)
Close(S) ==
    /\ \A i \in S : promise[i] = "open"
    /\ promise' = [i \in Ids |-> IF i \in S THEN "closed" ELSE promise[i]]

PromiseInit == promise = [i \in Ids |-> "none"]

PromiseNext ==
    \/ \E i \in Ids : Open(i) \/ Take(i) \/ Deliver(i) \/ GiveUp(i)
    \/ \E S \in SUBSET Ids : Close(S)

PromiseSpec == PromiseInit /\ [][PromiseNext]_promise
=============================================================================
