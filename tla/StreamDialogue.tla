--------------------------- MODULE StreamDialogue ---------------------------
(***************************************************************************)
(* One connection: the client's commands, the data frames of uploads and   *)
(* downloads, the server's answers, and what it makes of the lines of its  *)
(* FIFO: notifications, and the outcomes of transfer requests, which look  *)
(* like answers.  Frames carry no command number in the code: both sides   *)
(* have to agree on which frame comes next, also after an error on either  *)
(* side.  The field no of a frame is a ghost; no guard of the client's or  *)
(* of dispatch reads it.                                                   *)
(***************************************************************************)
EXTENDS CommandLine

CONSTANTS
    Lines,        \* lines typed at the client
    MaxCmds,      \* bound on the commands sent
    MaxData,      \* bound on the data frames of one stream
    MaxNotes,     \* bound on the FIFO's lines on what others requested
    ChanCap,      \* frames that a direction holds before a send blocks
    NotifyFails,  \* the receiver of a new request may miss its REQ line
    Strangers     \* outcomes of another session's requests may come here

ASSUME DialogueAssumption ==
    /\ {MaxCmds, MaxData, MaxNotes} \subseteq Nat
    /\ ChanCap \in Nat \ {0}
    /\ {NotifyFails, Strangers} \subseteq BOOLEAN

VARIABLES
    up,      \* the connection
    c2s,     \* frames on their way to the server
    s2c,     \* frames on their way to the client
    cli,     \* client: place, number and kind of its command, its stream
    srv,     \* server: place, the command it works on, its stream
    notes,   \* lines on what others requested, so far
    due,     \* transfer requests of this connection without an outcome
    awaited, \* ghost: of these, the one that dispatch left unanswered
    stray,   \* ghost: an answer was sent that the client does not wait for
    stored   \* ghost: the last upload that was stored

requests == <<due, awaited, stray>>
vars == <<up, c2s, s2c, cli, srv, notes, requests, stored>>

Puts == {"put", "put_over"}

Frame(code, no, arg) == [code |-> code, no |-> no, arg |-> arg]

(* n counts the data frames sent or received, of them `written' were stored  *)
(* without error, and `total' were announced.                                *)
Init ==
    /\ up = TRUE /\ c2s = <<>> /\ s2c = <<>> /\ notes = 0
    /\ cli = [pc |-> "idle", no |-> 0, kind |-> "simple", n |-> 0,
              written |-> 0, total |-> 0, ok |-> FALSE]
    /\ srv = [pc |-> "select", no |-> 0, kind |-> "simple", n |-> 0,
              written |-> 0, out |-> "OK", then |-> "select"]
    /\ due = {} /\ awaited = {} /\ stray = FALSE
    /\ stored = [no |-> 0, n |-> 0]

(* send() blocks while the buffers are full; on a broken connection it fails *)
(* and what was to be sent is lost.                                          *)
CanSend(chan) == ~up \/ Len(chan) < ChanCap
Sent(chan, f) == IF up THEN Append(chan, f) ELSE chan

-----------------------------------------------------------------------------
(* The client *)

FirstPlace(kind) ==
    CASE kind \in {"simple", "transfer"} -> "answer"
      [] kind \in Puts -> "ready"
      [] OTHER -> "size"

(* The line itself is sent; the others are refused, or run, in the client.   *)
CliCommand ==
    /\ cli.pc = "idle" /\ cli.no < MaxCmds
    /\ CanSend(c2s)
    /\ \E line \in {l \in Lines : Sendable(l)} :
        /\ c2s' = Sent(c2s, Frame("CMD", cli.no + 1, line))
        /\ cli' = [cli EXCEPT !.pc = FirstPlace(Kind(line)), !.no = @ + 1,
                              !.kind = Kind(line), !.n = 0, !.written = 0,
                              !.ok = FALSE]
    /\ UNCHANGED <<up, s2c, srv, notes, requests, stored>>

(* What the client does after an OK in each of its places. *)
AfterOk(f) ==
    CASE cli.pc = "ready"  -> [cli EXCEPT !.pc = "sending"]
      [] cli.pc = "size"   -> [cli EXCEPT !.pc = "receiving", !.total = f.arg]
      [] cli.pc = "errack" -> [cli EXCEPT !.pc = "idle"]
      [] OTHER             -> [cli EXCEPT !.pc = "idle", !.ok = TRUE]

(* Notifications are printed and the wait goes on; everything else ends the  *)
(* command.                                                                  *)
recv_response(f) ==
    cli' = CASE f.code = "NOTIFY" -> cli
             [] f.code = "OK"     -> AfterOk(f)
             [] OTHER             -> [cli EXCEPT !.pc = "idle"]

CliResponse ==
    /\ cli.pc \in {"answer", "ready", "size", "result", "errack"}
    /\ s2c # <<>>
    /\ recv_response(Head(s2c))
    /\ s2c' = Tail(s2c)
    /\ UNCHANGED <<up, c2s, srv, notes, requests, stored>>

(* send_stream: data frames, then the end frame; when the local file cannot  *)
(* be read, RSP_ERR instead, and the answer to it is awaited.                *)
CliSend ==
    /\ cli.pc = "sending" /\ up
    /\ \E code \in {"DATA", "END", "ERR"} :
        LET f == Frame(code, cli.no, 0)
        IN  /\ code = "DATA" => cli.n < MaxData
            /\ CanSend(c2s)
            /\ c2s' = Sent(c2s, f)
            /\ cli' = CASE code = "DATA" -> [cli EXCEPT !.n = @ + 1]
                        [] code = "END"  -> [cli EXCEPT !.pc = "result"]
                        [] OTHER         -> [cli EXCEPT !.pc = "errack"]
    /\ UNCHANGED <<up, s2c, srv, notes, requests, stored>>

(* recv_stream in the client: after an error of the local file it goes on    *)
(* reading, and fails at the end, as it does when the sum is not the size    *)
(* that was announced.                                                       *)
CliReceive ==
    /\ cli.pc = "receiving" /\ s2c # <<>>
    /\ LET f == Head(s2c)
       IN  \E good \in BOOLEAN :
            cli' = CASE f.code = "DATA" ->
                            [cli EXCEPT !.n = @ + 1,
                                        !.written = IF good /\ @ = cli.n
                                                    THEN @ + 1 ELSE @]
                     [] f.code = "END" ->
                            [cli EXCEPT !.pc = "idle",
                                        !.ok = cli.written = cli.n /\ cli.n = cli.total]
                     [] OTHER -> [cli EXCEPT !.pc = "idle"]
    /\ s2c' = Tail(s2c)
    /\ UNCHANGED <<up, c2s, srv, notes, requests, stored>>

(* The main loop prints notifications and drops every other frame.           *)
CliUnasked ==
    /\ cli.pc = "idle" /\ s2c # <<>>
    /\ s2c' = Tail(s2c)
    /\ UNCHANGED <<up, c2s, cli, srv, notes, requests, stored>>

(* exit, or the end of its input. *)
CliExit ==
    /\ cli.pc = "idle"
    /\ cli' = [cli EXCEPT !.pc = "closed"]
    /\ up' = FALSE
    /\ UNCHANGED <<c2s, s2c, srv, notes, requests, stored>>

(* A send that fails is followed by the wait for an answer, and a receive    *)
(* that fails ends the command.                                              *)
CliBroken ==
    /\ ~up /\ cli.pc \notin {"idle", "closed"}
    /\ cli.pc = "sending" \/ s2c = <<>>
    /\ cli' = [cli EXCEPT !.pc = IF @ = "sending" THEN "errack" ELSE "idle"]
    /\ UNCHANGED <<up, c2s, s2c, srv, notes, requests, stored>>

(* "Server closed." *)
CliServerClosed ==
    /\ ~up /\ cli.pc = "idle" /\ s2c = <<>>
    /\ cli' = [cli EXCEPT !.pc = "closed"]
    /\ UNCHANGED <<up, c2s, s2c, srv, notes, requests, stored>>

-----------------------------------------------------------------------------
(* The child of the server *)

Answer(s, code, then) == [s EXCEPT !.pc = "answer", !.out = code, !.then = then]

(* A transfer request that was entered gets no answer but its outcome; when  *)
(* its receiver cannot be notified, an error at once, though the request     *)
(* stays and may still have its outcome.                                     *)
Requested(s, no) ==
    /\ due' = due \cup {no}
    /\ \/ srv' = s /\ awaited' = {no}
       \/ NotifyFails /\ srv' = Answer(s, "ERR", "select") /\ UNCHANGED awaited

(* dispatch: one answer; or, unless the command is refused at once, an OK    *)
(* that starts a stream.  A line that does not parse is refused, and what is *)
(* not a command is "not recognized".                                        *)
SrvCommand ==
    /\ srv.pc = "select" /\ c2s # <<>>
    /\ LET f == Head(c2s)
           s == [srv EXCEPT !.no = f.no, !.n = 0, !.written = 0,
                            !.kind = IF f.code = "CMD" /\ Parses(f.arg)
                                     THEN Kind(f.arg) ELSE "none"]
       IN  \/ /\ srv' \in {Answer(s, "ERR", "select")} \cup
                          CASE s.kind = "simple" -> {Answer(s, "OK", "select")}
                            [] s.kind \in Puts   -> {Answer(s, "OK", "recv")}
                            [] s.kind = "get"    -> {Answer(s, "OK", "stream")}
                            [] OTHER             -> {}
              /\ UNCHANGED <<due, awaited>>
           \/ s.kind = "transfer" /\ Requested(s, f.no)
    /\ c2s' = Tail(c2s)
    /\ UNCHANGED <<up, s2c, cli, notes, stray, stored>>

(* recv_stream returns at once when lseek() fails: the data frames that the  *)
(* client sends after "Ready" stay on the connection.                        *)
AfterAnswer ==
    IF srv.then = "recv" /\ srv.kind = "put_over"
    THEN Answer(srv, "ERR", "select")
    ELSE [srv EXCEPT !.pc = srv.then]

(* The answer to a read carries the size, to an upload the sum received.     *)
SrvAnswer ==
    /\ srv.pc = "answer"
    /\ \E n \in IF srv.then = "stream" THEN 0 .. MaxData ELSE {srv.n} :
        LET f == Frame(srv.out, srv.no, n)
        IN  CanSend(s2c) /\ s2c' = Sent(s2c, f)
    /\ srv' = AfterAnswer
    /\ UNCHANGED <<up, c2s, cli, notes, requests, stored>>

(* Fault: returns at the first error of write_all().                         *)
recv_stream_return(f, good) ==
    IF f.code = "DATA" /\ good
    THEN [srv EXCEPT !.n = @ + 1, !.written = @ + 1]
    ELSE Answer(srv, IF f.code = "END" THEN "OK" ELSE "ERR", "select")

(* Fault: the error of write_all() is overwritten.                           *)
recv_stream_forget(f, good) ==
    CASE f.code = "DATA" ->
            [srv EXCEPT !.n = @ + 1, !.written = IF good THEN @ + 1 ELSE @]
      [] f.code = "END" -> Answer(srv, "OK", "select")
      [] OTHER -> Answer(srv, "ERR", "select")

(* Fault: nothing is answered to the client's RSP_ERR.                       *)
recv_stream_silent(f, good) ==
    CASE f.code = "DATA" -> [srv EXCEPT !.n = @ + 1, !.written = @ + 1]
      [] f.code = "END" -> Answer(srv, "OK", "select")
      [] OTHER -> [srv EXCEPT !.pc = "select"]

(* recv_stream in the server: after a failed write it reads on to the end    *)
(* and then fails; RSP_ERR of the client ends it, and so would anything that *)
(* is not a data frame.  After the end, rename() and fchmod() may fail.      *)
recv_stream(f, good) ==
    CASE f.code = "DATA" ->
            [srv EXCEPT !.n = @ + 1,
                        !.written = IF good /\ @ = srv.n THEN @ + 1 ELSE @]
      [] f.code = "END" ->
            Answer(srv, IF good /\ srv.written = srv.n THEN "OK" ELSE "ERR", "select")
      [] OTHER -> Answer(srv, "ERR", "select")

SrvReceive ==
    /\ srv.pc = "recv" /\ c2s # <<>>
    /\ \E good \in BOOLEAN : srv' = recv_stream(Head(c2s), good)
    /\ c2s' = Tail(c2s)
    /\ stored' = IF Head(c2s).code = "END" /\ srv'.out = "OK"
                 THEN [no |-> srv.no, n |-> srv.written] ELSE stored
    /\ UNCHANGED <<up, s2c, cli, notes, requests>>

(* send_stream in the server; when the file cannot be read, or the           *)
(* connection is gone, an error instead of the end frame.                    *)
SrvStream ==
    /\ srv.pc = "stream"
    /\ \/ /\ up /\ srv.n < MaxData
          /\ CanSend(s2c)
          /\ s2c' = Sent(s2c, Frame("DATA", srv.no, 0))
          /\ srv' = [srv EXCEPT !.n = @ + 1]
       \/ /\ up
          /\ CanSend(s2c)
          /\ s2c' = Sent(s2c, Frame("END", srv.no, 0))
          /\ srv' = [srv EXCEPT !.pc = "select"]
       \/ /\ srv' = Answer(srv, "ERR", "select")
          /\ UNCHANGED s2c
    /\ UNCHANGED <<up, c2s, cli, notes, requests, stored>>

(* A line of the FIFO; only between commands.  REQ becomes a notification.   *)
(* ACCEPT becomes an OK, REJECT and FAIL an error: of a request of this      *)
(* connection, or, as the sender's session is looked up by its user, of one  *)
(* of another session.  A line that is none of these becomes an error too.   *)
SrvNotify ==
    /\ srv.pc = "select" /\ CanSend(s2c)
    /\ \/ \E code \in {"NOTIFY"} \cup (IF Strangers THEN {"OK", "ERR"} ELSE {}) :
            /\ notes < MaxNotes /\ notes' = notes + 1
            /\ s2c' = Sent(s2c, Frame(code, 0, 0))
            /\ stray' = (stray \/ (up /\ code # "NOTIFY"))
            /\ UNCHANGED <<due, awaited>>
       \/ \E no \in due, code \in {"OK", "ERR"} :
            /\ s2c' = Sent(s2c, Frame(code, no, 0))
            /\ due' = due \ {no}
            /\ awaited' = awaited \ {no}
            /\ stray' = (stray \/ (up /\ no \notin awaited))
            /\ UNCHANGED notes
    /\ UNCHANGED <<up, c2s, cli, srv, stored>>

(* Fault: the end of the connection goes unnoticed inside a stream.          *)
AfterEofIdle == IF srv.pc = "select" THEN [srv EXCEPT !.pc = "closed"] ELSE srv

(* recv() returns 0, in select or in a stream.                               *)
AfterEof ==
    CASE srv.pc = "select" -> [srv EXCEPT !.pc = "closed"]
      [] srv.pc = "recv"   -> Answer(srv, "ERR", "select")
      [] OTHER             -> srv

SrvBroken ==
    /\ ~up /\ c2s = <<>>
    /\ srv' = AfterEof /\ srv' # srv
    /\ UNCHANGED <<up, c2s, s2c, cli, notes, requests, stored>>

(* The connection breaks; what was under way may be lost from some frame on. *)
Break ==
    /\ up
    /\ up' = FALSE
    /\ \E i \in 0 .. Len(c2s) : c2s' = SubSeq(c2s, 1, i)
    /\ \E i \in 0 .. Len(s2c) : s2c' = SubSeq(s2c, 1, i)
    /\ UNCHANGED <<cli, srv, notes, requests, stored>>

-----------------------------------------------------------------------------

CliStep == CliResponse \/ CliSend \/ CliReceive \/ CliBroken
SrvStep == SrvCommand \/ SrvAnswer \/ SrvReceive \/ SrvStream \/ SrvBroken

Next ==
    \/ CliCommand \/ CliUnasked \/ CliExit \/ CliServerClosed \/ CliStep
    \/ SrvStep \/ SrvNotify \/ Break

Spec == Init /\ [][Next]_vars

(* Both sides go on when they can.  The user's input of `write' is assumed   *)
(* to end.                                                                   *)
FairSpec == Spec /\ WF_vars(CliStep) /\ WF_vars(SrvStep)

-----------------------------------------------------------------------------
(* Properties *)

(* Both sides agree on what comes next: the server finds a command when it   *)
(* expects one and frames of the stream when it receives one, and the next   *)
(* answer that the client reads belongs to its command ("continue to read    *)
(* the rest of the stream to avoid leaving the socket in an inconsistent     *)
(* state", recv_stream).  It ends with the first outcome of a transfer that  *)
(* the client does not wait for: recv_response takes it for its answer.      *)
InStep ==
    ~stray =>
        /\ c2s # <<>> =>
            /\ srv.pc = "select" => Head(c2s).code = "CMD"
            /\ srv.pc = "recv" =>
                  Head(c2s).code \in {"DATA", "END", "ERR"} /\ Head(c2s).no = srv.no
        /\ s2c # <<>> /\ Head(s2c).code # "NOTIFY" =>
            /\ cli.pc \notin {"idle", "sending"}
            /\ cli.pc # "closed" => Head(s2c).no = cli.no

(* When the client reports that an upload or a download has succeeded, every *)
(* frame that the other side sent for it has been stored; before a stray     *)
(* outcome, which may be taken for the upload's "Ready" and for its result.  *)
SuccessIsWhole ==
    ~stray /\ cli.ok =>
        /\ cli.kind \in Puts => stored = [no |-> cli.no, n |-> cli.n]
        /\ cli.kind = "get" => srv.no = cli.no /\ cli.written = srv.n

(* Every command comes to an end, except a transfer request that dispatch    *)
(* leaves to its receiver: neither side waits for the other, also when       *)
(* buffers are full, files fail, or the connection breaks.  After a stray    *)
(* outcome a client may send an upload to a server that answers every frame  *)
(* of it as a command, until both block.                                     *)
Answered ==
    (cli.pc # "idle") ~> (cli.pc \in {"idle", "closed"} \/ cli.no \in awaited \/ stray)

(* The server closes a connection that is gone, whatever it was doing.       *)
GoneClosed == ~up ~> (srv.pc = "closed")
=============================================================================
