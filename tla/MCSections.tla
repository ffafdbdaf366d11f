----------------------------- MODULE MCSections -----------------------------
(* Instances of TableSections for TLC. *)
EXTENDS TableSections, TLC

CONSTANTS u1, u2, p1, p2

Base == [op |-> "collect", u |-> NoUser, v |-> NoUser, id |-> 0]

(* Sessions of u1, requests of u1 to u2.                                     *)
AllCalls ==
    {Base,
     [Base EXCEPT !.op = "session_add", !.u = u1],
     [Base EXCEPT !.op = "request_add", !.u = u1, !.v = u2],
     [Base EXCEPT !.op = "request_take", !.id = 1, !.v = u2],
     [Base EXCEPT !.op = "request_set", !.id = 2],
     [Base EXCEPT !.op = "set_failed", !.u = u1]}
=============================================================================
