----------------------------- MODULE MCTransfer -----------------------------
(* Instances of TransferRequests, with its refinement, for TLC. *)
EXTENDS RequestStages, TLC

CONSTANTS u1, u2, p1, p2, p3

(* Who may log in on which connection.  p3 is a second connection of u1 (a   *)
(* reconnection, or the one that a background upload or download opens for   *)
(* itself), or of u2.                                                        *)
OneEach == p1 :> {u1} @@ p2 :> {u2}
TwoOfFirst == p1 :> {u1} @@ p2 :> {u2} @@ p3 :> {u1}
TwoOfSecond == p1 :> {u1} @@ p2 :> {u2} @@ p3 :> {u2}

Sender == {"login", "transfer"}
Receiver == {"login", "accept", "reject"}

(* One sends and rejects, the other sends and accepts.                       *)
Both == p1 :> Sender \cup {"reject"} @@ p2 :> Sender \cup {"accept"}

SenderAndReceivers == [p \in Pids |-> IF p = p1 THEN Sender \cup {"other"} ELSE Receiver]

(* p1 sends a request, p2 accepts it, p3 only logs in and out.               *)
Background == p1 :> Sender @@ p2 :> {"login", "accept"} @@ p3 :> {"login"}

ReceiversSymmetry == Permutations({p2, p3})
=============================================================================
