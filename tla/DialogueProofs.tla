---------------------------- MODULE DialogueProofs ----------------------------
(***************************************************************************)
(* The two ends of a connection agree on the next frame, and success means *)
(* that everything was stored, for any number of commands, data frames and *)
(* lines of the FIFO, as long as nobody writes at an offset that lseek()   *)
(* refuses and no answer is sent that the client does not wait for.  While *)
(* the connection is up, a command is in one of ten stages, each of which  *)
(* says where both ends stand and which frames are under way; when it      *)
(* breaks, what is left of a stage is what each end can still read.  At    *)
(* the end, where the answers that nobody waits for can come from.         *)
(***************************************************************************)
EXTENDS StreamDialogue, SequenceTheorems, TLAPS

Codes == {"CMD", "DATA", "END", "OK", "ERR", "NOTIFY"}
Kinds == {"simple", "transfer", "get", "put", "put_over"}

AnyFrame == [code : Codes, no : Nat, arg : Lines \cup Nat]

CliState ==
    [pc : {"idle", "answer", "ready", "size", "result", "errack", "sending",
           "receiving", "closed"},
     no : Nat, kind : Kinds, n : Nat, written : Nat, total : Lines \cup Nat,
     ok : BOOLEAN]

SrvState ==
    [pc : {"select", "answer", "recv", "stream", "closed"},
     no : Nat, kind : Kinds \cup {"none"}, n : Nat, written : Nat,
     out : {"OK", "ERR"}, then : {"select", "recv", "stream"}]

DialogueTypes ==
    /\ up \in BOOLEAN
    /\ c2s \in Seq(AnyFrame) /\ s2c \in Seq(AnyFrame)
    /\ cli \in CliState /\ srv \in SrvState
    /\ due \in SUBSET Nat /\ awaited \in SUBSET Nat /\ stray \in BOOLEAN

(* What the client knows by its own place.                                   *)
ClientPlaces ==
    /\ cli.pc = "answer" => cli.kind \in {"simple", "transfer"}
    /\ cli.pc \in {"ready", "sending", "result", "errack"} => cli.kind = "put"
    /\ cli.pc \in {"size", "receiving"} => cli.kind = "get"
    /\ cli.pc \in {"answer", "ready", "size"} => cli.n = 0
    /\ cli.pc \notin {"idle", "closed"} => ~cli.ok
    /\ cli.pc = "closed" => ~up

-----------------------------------------------------------------------------
(* Frames under way *)

Quiet(s) == \A i \in 1 .. Len(s) : s[i].code = "NOTIFY"
QuietAfter(s, k) == \A i \in k + 1 .. Len(s) : s[i].code = "NOTIFY"

(* The first frame that is not a notification is an answer to no.            *)
Opens(s, k, no) ==
    /\ k \in 1 .. Len(s)
    /\ \A i \in 1 .. k - 1 : s[i].code = "NOTIFY"
    /\ s[k].code \in {"OK", "ERR"} /\ s[k].no = no

(* The frames after the first k, up to m, are data of no.                    *)
Data(s, k, m, no) == \A i \in k + 1 .. m : s[i].code = "DATA" /\ s[i].no = no

(* The stream of a download begins behind the first k frames.                *)
Started(k) ==
    \/ cli.pc = "receiving" /\ k = 0
    \/ cli.pc = "size" /\ Opens(s2c, k, cli.no) /\ s2c[k].code = "OK"

(* Every data frame of the command was stored.                               *)
Stored == stored = [no |-> cli.no, n |-> cli.n]

(* The server has nothing to do any more.                                    *)
Settled == c2s = <<>> /\ srv.pc \in {"select", "closed"}

-----------------------------------------------------------------------------
(* The stages of a command while the connection is up *)

Resting ==
    /\ cli.pc = "idle" /\ srv.pc = "select"
    /\ c2s = <<>> /\ Quiet(s2c)

Asked ==
    /\ cli.pc \in {"answer", "ready", "size"} /\ srv.pc = "select"
    /\ Len(c2s) = 1 /\ c2s[1].code = "CMD" /\ c2s[1].no = cli.no
    /\ Parses(c2s[1].arg) /\ Kind(c2s[1].arg) = cli.kind
    /\ Quiet(s2c)

Decided ==
    /\ cli.pc \in {"answer", "ready", "size"} /\ srv.pc = "answer"
    /\ srv.no = cli.no /\ srv.n = 0 /\ srv.kind = cli.kind
    /\ c2s = <<>> /\ Quiet(s2c)
    /\ \/ srv.then = "select" /\ (srv.out = "OK" => cli.pc = "answer")
       \/ srv.then = "recv" /\ srv.out = "OK" /\ cli.pc = "ready"
       \/ srv.then = "stream" /\ srv.out = "OK" /\ cli.pc = "size"

(* The last answer of the command is under way.                              *)
Finished ==
    /\ cli.pc \in {"answer", "ready", "size", "result", "errack"} /\ srv.pc = "select"
    /\ c2s = <<>>
    /\ \E k \in 1 .. Len(s2c) :
        /\ Opens(s2c, k, cli.no) /\ QuietAfter(s2c, k)
        /\ s2c[k].code = "OK" =>
              \/ cli.pc \in {"answer", "errack"}
              \/ cli.pc = "result" /\ Stored

ReadyToReceive ==
    /\ cli.pc = "ready" /\ srv.pc = "recv"
    /\ srv.no = cli.no /\ srv.n = 0
    /\ c2s = <<>>
    /\ \E k \in 1 .. Len(s2c) :
        Opens(s2c, k, cli.no) /\ QuietAfter(s2c, k) /\ s2c[k].code = "OK"

Uploading ==
    /\ cli.pc \in {"sending", "result", "errack"} /\ srv.pc = "recv"
    /\ srv.no = cli.no /\ Quiet(s2c)
    /\ IF cli.pc = "sending"
       THEN Data(c2s, 0, Len(c2s), cli.no) /\ srv.n + Len(c2s) = cli.n
       ELSE /\ Len(c2s) > 0 /\ Data(c2s, 0, Len(c2s) - 1, cli.no)
            /\ c2s[Len(c2s)].code = IF cli.pc = "result" THEN "END" ELSE "ERR"
            /\ c2s[Len(c2s)].no = cli.no
            /\ srv.n + Len(c2s) = cli.n + 1

Received ==
    /\ cli.pc \in {"result", "errack"} /\ srv.pc = "answer"
    /\ srv.no = cli.no /\ srv.then = "select"
    /\ c2s = <<>> /\ Quiet(s2c)
    /\ cli.pc = "result" /\ srv.out = "OK" => Stored

Downloading ==
    /\ srv.no = cli.no /\ c2s = <<>>
    /\ \/ srv.pc = "stream"
       \/ srv.pc = "answer" /\ srv.out = "ERR" /\ srv.then = "select"
    /\ \E k \in 0 .. Len(s2c) :
        /\ Started(k) /\ Data(s2c, k, Len(s2c), cli.no)
        /\ srv.n + k = cli.n + Len(s2c)

(* The end of a stream: b is its last frame.                                 *)
StreamEnds(k, b) ==
    /\ Started(k) /\ Data(s2c, k, b - 1, cli.no)
    /\ s2c[b].code \in {"END", "ERR"} /\ s2c[b].no = cli.no
    /\ QuietAfter(s2c, b)

Streamed ==
    /\ srv.no = cli.no /\ c2s = <<>> /\ srv.pc = "select"
    /\ \E k \in 0 .. Len(s2c) : \E b \in k + 1 .. Len(s2c) :
        /\ StreamEnds(k, b)
        /\ s2c[b].code = "END" => srv.n + k + 1 = cli.n + b

(* A transfer request is left to its receiver.                               *)
Waiting ==
    /\ cli.pc = "answer" /\ srv.pc = "select"
    /\ awaited = {cli.no}
    /\ c2s = <<>> /\ Quiet(s2c)

Working ==
    \/ Resting \/ Asked \/ Decided \/ Finished
    \/ ReadyToReceive \/ Uploading \/ Received
    \/ Downloading \/ Streamed

Stage == Waiting \/ (Working /\ awaited = {})

-----------------------------------------------------------------------------
(* What each end can still read, also on a broken connection *)

(* Notifications; an answer; or a stream as far as it came.                  *)
ClientReads ==
    \/ cli.pc = "closed"
    \/ Quiet(s2c)
    \/ /\ cli.pc \in {"answer", "ready", "size", "result", "errack"}
       /\ \E k \in 1 .. Len(s2c) :
            /\ Opens(s2c, k, cli.no) /\ QuietAfter(s2c, k)
            /\ s2c[k].code = "OK" /\ cli.pc \in {"answer", "result"} =>
                  Settled /\ (cli.pc = "result" => Stored)
    \/ \E k \in 0 .. Len(s2c) : \E b \in k + 1 .. Len(s2c) :
        /\ Started(k) /\ Data(s2c, k, b - 1, cli.no)
        /\ s2c[b].code \in {"DATA", "END", "ERR"} /\ s2c[b].no = cli.no
        /\ QuietAfter(s2c, b)
        /\ s2c[b].code = "END" =>
              Settled /\ srv.no = cli.no /\ srv.n + k + 1 = cli.n + b

(* Nothing; a command; or the frames of an upload as far as they came.       *)
ServerReads ==
    \/ c2s = <<>>
    \/ srv.pc = "select" /\ Len(c2s) = 1 /\ c2s[1].code = "CMD"
    \/ /\ srv.pc = "recv"
       /\ \A i \in 1 .. Len(c2s) :
            /\ c2s[i].code \in {"DATA", "END", "ERR"} /\ c2s[i].no = srv.no
            /\ i < Len(c2s) => c2s[i].code = "DATA"

(* A success that is reported stays true.                                    *)
Honest == (cli.ok => Settled) /\ SuccessIsWhole

DialogueInv ==
    /\ DialogueTypes /\ ClientPlaces
    /\ ~stray =>
        /\ Honest
        /\ up => Stage
        /\ ~up => ClientReads /\ ServerReads

-----------------------------------------------------------------------------
(* Frames at the head, at the tail, and in a prefix *)

LEMMA HeadAndTail ==
    ASSUME NEW s \in Seq(AnyFrame), s # <<>>
    PROVE  /\ Tail(s) \in Seq(AnyFrame) /\ Head(s) \in AnyFrame
           /\ Head(s) = s[1] /\ Len(s) \in Nat /\ Len(s) >= 1
           /\ Len(Tail(s)) = Len(s) - 1
           /\ \A i \in 1 .. Len(s) - 1 : Tail(s)[i] = s[i + 1]
  OBVIOUS

LEMMA Appended ==
    ASSUME NEW s \in Seq(AnyFrame), NEW f \in AnyFrame
    PROVE  /\ Append(s, f) \in Seq(AnyFrame)
           /\ Len(s) \in Nat /\ Len(Append(s, f)) = Len(s) + 1
           /\ \A i \in 1 .. Len(s) : Append(s, f)[i] = s[i]
           /\ Append(s, f)[Len(s) + 1] = f
  OBVIOUS

LEMMA Prefix ==
    ASSUME NEW s \in Seq(AnyFrame), NEW j \in 0 .. Len(s)
    PROVE  /\ SubSeq(s, 1, j) \in Seq(AnyFrame)
           /\ Len(s) \in Nat /\ Len(SubSeq(s, 1, j)) = j
           /\ \A i \in 1 .. j : SubSeq(s, 1, j)[i] = s[i]
  OBVIOUS

(* One frame fewer in front of the last one.                                 *)
LEMMA OneFewer ==
    \A x, y, k, b \in Nat : x + k + 1 = y + b => x + (k - 1) + 1 = y + (b - 1)
  OBVIOUS

LEMMA BothOneFewer ==
    \A x, y, k, l \in Nat : x + k = y + l => x + (k - 1) = y + (l - 1)
  OBVIOUS

LEMMA QuietTail ==
    ASSUME NEW s \in Seq(AnyFrame), s # <<>>, Quiet(s)
    PROVE  Quiet(Tail(s)) /\ Head(s).code = "NOTIFY"
  BY HeadAndTail DEF Quiet

(* Behind the head of a channel that opens with an answer.                   *)
LEMMA OpensTail ==
    ASSUME NEW s \in Seq(AnyFrame), NEW no, NEW k \in 1 .. Len(s), Opens(s, k, no)
    PROVE  /\ s # <<>>
           /\ k = 1 => Head(s).code \in {"OK", "ERR"} /\ Head(s).no = no
           /\ k # 1 => /\ Head(s).code = "NOTIFY" /\ k - 1 \in 1 .. Len(Tail(s))
                       /\ Opens(Tail(s), k - 1, no) /\ Tail(s)[k - 1] = s[k]
  <1>1. s # <<>> OBVIOUS
  <1>2. /\ Head(s) = s[1] /\ Len(s) \in Nat /\ Len(Tail(s)) = Len(s) - 1
        /\ \A i \in 1 .. Len(s) - 1 : Tail(s)[i] = s[i + 1]
    BY <1>1, HeadAndTail
  <1> QED BY <1>1, <1>2 DEF Opens

LEMMA QuietAfterTail ==
    ASSUME NEW s \in Seq(AnyFrame), NEW k \in 1 .. Len(s), QuietAfter(s, k)
    PROVE  QuietAfter(Tail(s), k - 1) /\ (k = 1 => Quiet(Tail(s)))
  BY HeadAndTail DEF QuietAfter, Quiet

LEMMA DataTail ==
    ASSUME NEW s \in Seq(AnyFrame), s # <<>>, NEW no, NEW k \in 0 .. Len(s),
           NEW m \in 0 .. Len(s), Data(s, k, m, no)
    PROVE  /\ k > 0 => Data(Tail(s), k - 1, m - 1, no)
           /\ k = 0 => Data(Tail(s), 0, m - 1, no)
  BY HeadAndTail DEF Data

LEMMA QuietAppend ==
    ASSUME NEW s \in Seq(AnyFrame), NEW f \in AnyFrame, Quiet(s)
    PROVE  /\ f.code = "NOTIFY" => Quiet(Append(s, f))
           /\ f.code \in {"OK", "ERR"} =>
                 /\ Opens(Append(s, f), Len(s) + 1, f.no)
                 /\ QuietAfter(Append(s, f), Len(s) + 1)
  BY Appended DEF Quiet, QuietAfter, Opens

LEMMA OpensAppend ==
    ASSUME NEW s \in Seq(AnyFrame), NEW f \in AnyFrame, NEW no,
           NEW k \in 1 .. Len(s), Opens(s, k, no)
    PROVE  Opens(Append(s, f), k, no) /\ Append(s, f)[k] = s[k]
  BY Appended DEF Opens

LEMMA QuietAfterAppend ==
    ASSUME NEW s \in Seq(AnyFrame), NEW f \in AnyFrame, f.code = "NOTIFY",
           NEW k \in 1 .. Len(s), QuietAfter(s, k)
    PROVE  QuietAfter(Append(s, f), k)
  BY Appended DEF QuietAfter

LEMMA DataAppend ==
    ASSUME NEW s \in Seq(AnyFrame), NEW f \in AnyFrame, NEW no,
           NEW k \in 0 .. Len(s), NEW m \in 0 .. Len(s), Data(s, k, m, no)
    PROVE  /\ Data(Append(s, f), k, m, no)
           /\ m = Len(s) /\ f.code = "DATA" /\ f.no = no =>
                 Data(Append(s, f), k, m + 1, no)
  BY Appended DEF Data

-----------------------------------------------------------------------------
(* Lines and types *)

(* Nobody writes at an offset that lseek() refuses.                          *)
NoOverseek == \A line \in Lines : Sendable(line) => Kind(line) # "put_over"

LEMMA LineKinds ==
    /\ \A line : Kind(line) \in Kinds
    /\ \A line : Sendable(line) => Parses(line)
  BY DEF Kind, Kinds, Sendable

LEMMA FrameTypes ==
    ASSUME NEW code \in Codes, NEW no \in Nat, NEW arg \in Lines \cup Nat
    PROVE  /\ Frame(code, no, arg) \in AnyFrame
           /\ Frame(code, no, arg).code = code /\ Frame(code, no, arg).no = no
           /\ Frame(code, no, arg).arg = arg
  BY DEF Frame, AnyFrame

LEMMA Fields ==
    ASSUME DialogueTypes
    PROVE  /\ cli.no \in Nat /\ cli.n \in Nat /\ cli.written \in Nat
           /\ cli.ok \in BOOLEAN /\ cli.kind \in Kinds
           /\ srv.no \in Nat /\ srv.n \in Nat /\ srv.written \in Nat
           /\ srv.out \in {"OK", "ERR"} /\ srv.then \in {"select", "recv", "stream"}
           /\ cli.pc \in {"idle", "answer", "ready", "size", "result", "errack",
                          "sending", "receiving", "closed"}
           /\ srv.pc \in {"select", "answer", "recv", "stream", "closed"}
  BY DEF DialogueTypes, CliState, SrvState

LEMMA SentTypes ==
    ASSUME NEW s \in Seq(AnyFrame), NEW f \in AnyFrame
    PROVE  Sent(s, f) \in Seq(AnyFrame)
  BY Appended DEF Sent

LEMMA TypesClient ==
    ASSUME DialogueTypes,
           \/ CliCommand \/ CliResponse \/ CliSend \/ CliReceive
           \/ CliUnasked \/ CliExit \/ CliBroken \/ CliServerClosed
    PROVE  DialogueTypes'
  <1> USE DEF DialogueTypes, requests
  <1>1. CASE CliCommand
    <2>1. PICK line \in {l \in Lines : Sendable(l)} :
            /\ c2s' = Sent(c2s, Frame("CMD", cli.no + 1, line))
            /\ cli' = [cli EXCEPT !.pc = FirstPlace(Kind(line)), !.no = @ + 1,
                                  !.kind = Kind(line), !.n = 0, !.written = 0,
                                  !.ok = FALSE]
      BY <1>1 DEF CliCommand
    <2>2. cli.no + 1 \in Nat BY Fields
    <2>3. c2s' \in Seq(AnyFrame)
      BY <2>1, <2>2, SentTypes, FrameTypes DEF Codes
    <2>4. Kind(line) \in Kinds BY LineKinds
    <2>5. FirstPlace(Kind(line)) \in {"answer", "ready", "size"} BY DEF FirstPlace
    <2>6. cli' \in CliState
      <3>1. [cli EXCEPT !.pc = FirstPlace(Kind(line)), !.no = @ + 1] \in CliState
        BY <2>2, <2>5 DEF CliState
      <3>2. \A c \in CliState : [c EXCEPT !.kind = Kind(line), !.n = 0, !.written = 0,
                                          !.ok = FALSE] \in CliState
        BY <2>4 DEF CliState
      <3> QED BY <2>1, <3>1, <3>2
    <2> QED BY <1>1, <2>3, <2>6 DEF CliCommand
  <1>2. CASE CliResponse
    <2>1. /\ s2c # <<>> /\ s2c' = Tail(s2c) /\ recv_response(Head(s2c))
          /\ UNCHANGED <<up, c2s, srv, due, awaited, stray>>
      BY <1>2 DEF CliResponse
    <2>2. s2c' \in Seq(AnyFrame) /\ Head(s2c) \in AnyFrame BY <2>1, HeadAndTail
    <2>3. Head(s2c).arg \in Lines \cup Nat BY <2>2 DEF AnyFrame
    <2>4. cli' \in CliState
      BY <2>1, <2>3 DEF recv_response, AfterOk, CliState
    <2> QED BY <2>1, <2>2, <2>4
  <1>3. CASE CliSend
    <2>1. PICK code \in {"DATA", "END", "ERR"} :
            /\ c2s' = Sent(c2s, Frame(code, cli.no, 0))
            /\ cli' = CASE code = "DATA" -> [cli EXCEPT !.n = @ + 1]
                        [] code = "END"  -> [cli EXCEPT !.pc = "result"]
                        [] OTHER         -> [cli EXCEPT !.pc = "errack"]
      BY <1>3 DEF CliSend
    <2>2. c2s' \in Seq(AnyFrame)
      BY <2>1, Fields, SentTypes, FrameTypes DEF Codes
    <2>3. cli.n + 1 \in Nat BY Fields
    <2>4. cli' \in CliState BY <2>1, <2>3 DEF CliState
    <2> QED BY <1>3, <2>2, <2>4 DEF CliSend
  <1>4. CASE CliReceive
    <2>1. PICK good \in BOOLEAN :
            cli' = CASE Head(s2c).code = "DATA" ->
                            [cli EXCEPT !.n = @ + 1,
                                        !.written = IF good /\ @ = cli.n
                                                    THEN @ + 1 ELSE @]
                     [] Head(s2c).code = "END" ->
                            [cli EXCEPT !.pc = "idle",
                                        !.ok = cli.written = cli.n /\ cli.n = cli.total]
                     [] OTHER -> [cli EXCEPT !.pc = "idle"]
      BY <1>4 DEF CliReceive
    <2>2. cli' \in CliState
      <3>1. CASE Head(s2c).code = "DATA"
        <4>1. (IF good /\ cli.written = cli.n THEN cli.written + 1 ELSE cli.written) \in Nat
              /\ cli.n + 1 \in Nat
          BY Fields
        <4> QED BY <2>1, <3>1, <4>1 DEF CliState
      <3>2. CASE Head(s2c).code = "END"
        <4>1. \A b \in BOOLEAN : [cli EXCEPT !.pc = "idle", !.ok = b] \in CliState
          BY DEF CliState
        <4>2. (cli.written = cli.n /\ cli.n = cli.total) \in BOOLEAN OBVIOUS
        <4> QED BY <2>1, <3>2, <4>1, <4>2
      <3>3. CASE Head(s2c).code \notin {"DATA", "END"}
        BY <2>1, <3>3 DEF CliState
      <3> QED BY <3>1, <3>2, <3>3
    <2>3. s2c' \in Seq(AnyFrame) BY <1>4, HeadAndTail DEF CliReceive
    <2> QED BY <1>4, <2>2, <2>3 DEF CliReceive
  <1>5. CASE CliUnasked BY <1>5, HeadAndTail DEF CliUnasked
  <1>6. CASE CliExit BY <1>6 DEF CliExit, CliState
  <1>7. CASE CliBroken BY <1>7 DEF CliBroken, CliState
  <1>8. CASE CliServerClosed BY <1>8 DEF CliServerClosed, CliState
  <1> QED BY <1>1, <1>2, <1>3, <1>4, <1>5, <1>6, <1>7, <1>8

LEMMA AnswerTypes ==
    ASSUME NEW s \in SrvState, NEW code \in {"OK", "ERR"},
           NEW then \in {"select", "recv", "stream"}
    PROVE  /\ Answer(s, code, then) \in SrvState
           /\ Answer(s, code, then) =
                [s EXCEPT !.pc = "answer", !.out = code, !.then = then]
  BY DEF Answer, SrvState

LEMMA CountTypes ==
    ASSUME NEW s \in SrvState
    PROVE  \A v, w \in Nat : [s EXCEPT !.n = v, !.written = w] \in SrvState
  BY DEF SrvState

LEMMA TypesServer ==
    ASSUME DialogueTypes,
           \/ SrvCommand \/ SrvAnswer \/ SrvReceive \/ SrvStream
           \/ SrvBroken \/ SrvNotify \/ Break
    PROVE  DialogueTypes'
  <1> USE DEF DialogueTypes, requests
  <1>1. CASE SrvCommand
    <2> DEFINE s == [srv EXCEPT !.no = Head(c2s).no, !.n = 0, !.written = 0,
                                !.kind = IF Head(c2s).code = "CMD" /\ Parses(Head(c2s).arg)
                                         THEN Kind(Head(c2s).arg) ELSE "none"]
    <2>1. c2s' \in Seq(AnyFrame) /\ Head(c2s) \in AnyFrame
      BY <1>1, HeadAndTail DEF SrvCommand
    <2>2. s \in SrvState
      BY <2>1, LineKinds DEF SrvState, AnyFrame
    <2>3. srv' \in {s, Answer(s, "ERR", "select"), Answer(s, "OK", "select"),
                    Answer(s, "OK", "recv"), Answer(s, "OK", "stream")}
      BY <1>1 DEF SrvCommand, Requested
    <2>5. Head(c2s).no \in Nat BY <2>1 DEF AnyFrame
    <2>6. due' \in SUBSET Nat /\ awaited' \in SUBSET Nat
      BY <1>1, <2>5 DEF SrvCommand, Requested
    <2> HIDE DEF s
    <2>4. srv' \in SrvState BY <2>2, <2>3, AnswerTypes
    <2> QED BY <1>1, <2>1, <2>4, <2>6 DEF SrvCommand
  <1>2. CASE SrvAnswer
    <2>1. PICK n \in IF srv.then = "stream" THEN 0 .. MaxData ELSE {srv.n} :
            s2c' = Sent(s2c, Frame(srv.out, srv.no, n))
      BY <1>2 DEF SrvAnswer
    <2>2. n \in Nat BY Fields, DialogueAssumption
    <2>3. s2c' \in Seq(AnyFrame)
      BY <2>1, <2>2, Fields, SentTypes, FrameTypes DEF Codes
    <2>4. srv' \in SrvState
      <3>1. Answer(srv, "ERR", "select") \in SrvState BY AnswerTypes
      <3>2. [srv EXCEPT !.pc = srv.then] \in SrvState BY DEF SrvState
      <3> QED BY <1>2, <3>1, <3>2 DEF SrvAnswer, AfterAnswer
    <2> QED BY <1>2, <2>3, <2>4 DEF SrvAnswer
  <1>3. CASE SrvReceive
    <2>1. PICK good \in BOOLEAN : srv' = recv_stream(Head(c2s), good)
      BY <1>3 DEF SrvReceive
    <2>2. srv' \in SrvState
      <3>1. Answer(srv, "ERR", "select") \in SrvState
            /\ Answer(srv, "OK", "select") \in SrvState
        BY AnswerTypes
      <3>2. \A v, w \in Nat : [srv EXCEPT !.n = v, !.written = w] \in SrvState
        BY CountTypes
      <3>4. srv.n + 1 \in Nat BY Fields
      <3>3. (IF good /\ srv.written = srv.n THEN srv.written + 1 ELSE srv.written) \in Nat
        BY Fields
      <3> QED BY <2>1, <3>1, <3>2, <3>3, <3>4 DEF recv_stream
    <2>3. c2s' \in Seq(AnyFrame) BY <1>3, HeadAndTail DEF SrvReceive
    <2> QED BY <1>3, <2>2, <2>3 DEF SrvReceive
  <1>4. CASE SrvStream
    <2>1. Frame("DATA", srv.no, 0) \in AnyFrame /\ Frame("END", srv.no, 0) \in AnyFrame
      BY Fields, FrameTypes DEF Codes
    <2>2. s2c' \in Seq(AnyFrame) BY <1>4, <2>1, SentTypes DEF SrvStream
    <2>3. srv' \in SrvState
      <3>1. Answer(srv, "ERR", "select") \in SrvState BY AnswerTypes
      <3>2. srv.n + 1 \in Nat BY Fields
      <3>3. [srv EXCEPT !.n = @ + 1] \in SrvState BY <3>2 DEF SrvState
      <3>4. [srv EXCEPT !.pc = "select"] \in SrvState BY DEF SrvState
      <3> QED BY <1>4, <3>1, <3>3, <3>4 DEF SrvStream
    <2> QED BY <1>4, <2>2, <2>3 DEF SrvStream
  <1>5. CASE SrvBroken
    <2>1. srv' \in SrvState
      <3>1. Answer(srv, "ERR", "select") \in SrvState BY AnswerTypes
      <3>2. [srv EXCEPT !.pc = "closed"] \in SrvState BY DEF SrvState
      <3> QED BY <1>5, <3>1, <3>2 DEF SrvBroken, AfterEof
    <2> QED BY <1>5, <2>1 DEF SrvBroken
  <1>6. CASE SrvNotify
    <2>1. PICK code \in {"NOTIFY", "OK", "ERR"}, no \in Nat :
            s2c' = Sent(s2c, Frame(code, no, 0))
      BY <1>6 DEF SrvNotify
    <2>2. Frame(code, no, 0) \in AnyFrame BY FrameTypes DEF Codes
    <2>3. s2c' \in Seq(AnyFrame) BY <2>1, <2>2, SentTypes
    <2>4. due' \in SUBSET Nat /\ awaited' \in SUBSET Nat /\ stray' \in BOOLEAN
      BY <1>6 DEF SrvNotify
    <2> QED BY <1>6, <2>3, <2>4 DEF SrvNotify
  <1>7. CASE Break BY <1>7, Prefix DEF Break
  <1> QED BY <1>1, <1>2, <1>3, <1>4, <1>5, <1>6, <1>7

-----------------------------------------------------------------------------
(* What a step does to the client, field by field *)

LEMMA CommandFields ==
    ASSUME DialogueTypes, NoOverseek, CliCommand
    PROVE  \E line \in Lines :
            /\ Parses(line) /\ Kind(line) \in {"simple", "transfer", "get", "put"}
            /\ c2s' = Sent(c2s, Frame("CMD", cli.no + 1, line))
            /\ cli'.pc = FirstPlace(Kind(line)) /\ cli'.no = cli.no + 1
            /\ cli'.kind = Kind(line) /\ cli'.n = 0 /\ cli'.ok = FALSE
  <1>1. PICK line \in {l \in Lines : Sendable(l)} :
            /\ c2s' = Sent(c2s, Frame("CMD", cli.no + 1, line))
            /\ cli' = [cli EXCEPT !.pc = FirstPlace(Kind(line)), !.no = @ + 1,
                                  !.kind = Kind(line), !.n = 0, !.written = 0,
                                  !.ok = FALSE]
    BY DEF CliCommand
  <1>2. Parses(line) /\ Kind(line) \in {"simple", "transfer", "get", "put"}
    BY <1>1, LineKinds DEF NoOverseek, Kinds
  <1>3. cli \in CliState BY DEF DialogueTypes
  <1>4. /\ cli'.pc = FirstPlace(Kind(line)) /\ cli'.no = cli.no + 1
        /\ cli'.kind = Kind(line) /\ cli'.n = 0 /\ cli'.ok = FALSE
    BY <1>1, <1>3 DEF CliState
  <1> QED BY <1>1, <1>2, <1>4

LEMMA ResponseFields ==
    ASSUME DialogueTypes, CliResponse
    PROVE  /\ cli'.no = cli.no /\ cli'.kind = cli.kind
           /\ cli'.n = cli.n /\ cli'.written = cli.written
           /\ Head(s2c).code = "NOTIFY" => cli' = cli
           /\ Head(s2c).code = "OK" =>
                /\ cli.pc = "ready" => cli'.pc = "sending" /\ cli'.ok = cli.ok
                /\ cli.pc = "size" => cli'.pc = "receiving" /\ cli'.ok = cli.ok
                /\ cli.pc = "errack" => cli'.pc = "idle" /\ cli'.ok = cli.ok
                /\ cli.pc \in {"answer", "result"} => cli'.pc = "idle" /\ cli'.ok = TRUE
           /\ Head(s2c).code \notin {"NOTIFY", "OK"} =>
                cli'.pc = "idle" /\ cli'.ok = cli.ok
  <1>1. cli \in CliState BY DEF DialogueTypes
  <1>2. recv_response(Head(s2c)) /\ cli.pc \in {"answer", "ready", "size", "result", "errack"}
    BY DEF CliResponse
  <1> QED BY <1>1, <1>2 DEF recv_response, AfterOk, CliState

LEMMA SendFields ==
    ASSUME DialogueTypes, CliSend
    PROVE  \E code \in {"DATA", "END", "ERR"} :
            /\ c2s' = Append(c2s, Frame(code, cli.no, 0))
            /\ cli'.no = cli.no /\ cli'.kind = cli.kind /\ cli'.ok = cli.ok
            /\ code = "DATA" => cli'.pc = "sending" /\ cli'.n = cli.n + 1
            /\ code = "END" => cli'.pc = "result" /\ cli'.n = cli.n
            /\ code = "ERR" => cli'.pc = "errack" /\ cli'.n = cli.n
  <1>1. cli \in CliState BY DEF DialogueTypes
  <1>2. PICK code \in {"DATA", "END", "ERR"} :
            /\ c2s' = Sent(c2s, Frame(code, cli.no, 0))
            /\ cli' = CASE code = "DATA" -> [cli EXCEPT !.n = @ + 1]
                        [] code = "END"  -> [cli EXCEPT !.pc = "result"]
                        [] OTHER         -> [cli EXCEPT !.pc = "errack"]
    BY DEF CliSend
  <1>3. c2s' = Append(c2s, Frame(code, cli.no, 0)) BY <1>2 DEF CliSend, Sent
  <1>4. cli.pc = "sending" BY DEF CliSend
  <1>5. /\ cli'.no = cli.no /\ cli'.kind = cli.kind /\ cli'.ok = cli.ok
        /\ code = "DATA" => cli'.pc = "sending" /\ cli'.n = cli.n + 1
        /\ code = "END" => cli'.pc = "result" /\ cli'.n = cli.n
        /\ code = "ERR" => cli'.pc = "errack" /\ cli'.n = cli.n
    BY <1>1, <1>2, <1>4 DEF CliState
  <1> QED BY <1>3, <1>5

LEMMA ReceiveFields ==
    ASSUME DialogueTypes, CliReceive
    PROVE  /\ cli'.no = cli.no /\ cli'.kind = cli.kind
           /\ Head(s2c).code = "DATA" =>
                cli'.pc = "receiving" /\ cli'.n = cli.n + 1 /\ cli'.ok = cli.ok
           /\ Head(s2c).code = "END" =>
                /\ cli'.pc = "idle" /\ cli'.n = cli.n /\ cli'.written = cli.written
                /\ cli'.ok => cli.written = cli.n
           /\ Head(s2c).code \notin {"DATA", "END"} =>
                cli'.pc = "idle" /\ cli'.ok = cli.ok
  <1>1. cli \in CliState /\ cli.pc = "receiving" BY DEF DialogueTypes, CliReceive
  <1>2. PICK good \in BOOLEAN :
            cli' = CASE Head(s2c).code = "DATA" ->
                            [cli EXCEPT !.n = @ + 1,
                                        !.written = IF good /\ @ = cli.n
                                                    THEN @ + 1 ELSE @]
                     [] Head(s2c).code = "END" ->
                            [cli EXCEPT !.pc = "idle",
                                        !.ok = cli.written = cli.n /\ cli.n = cli.total]
                     [] OTHER -> [cli EXCEPT !.pc = "idle"]
    BY DEF CliReceive
  <1>3. CASE Head(s2c).code = "DATA" BY <1>1, <1>2, <1>3 DEF CliState
  <1>4. CASE Head(s2c).code = "END" BY <1>1, <1>2, <1>4 DEF CliState
  <1>5. CASE Head(s2c).code \notin {"DATA", "END"} BY <1>1, <1>2, <1>5 DEF CliState
  <1> QED BY <1>3, <1>4, <1>5

LEMMA PlacesKept ==
    ASSUME DialogueTypes, ClientPlaces, NoOverseek, Next
    PROVE  ClientPlaces'
  <1> USE DEF ClientPlaces
  <1>1. CASE CliCommand
    <2>1. PICK line \in Lines :
            /\ Kind(line) \in {"simple", "transfer", "get", "put"}
            /\ cli'.pc = FirstPlace(Kind(line))
            /\ cli'.kind = Kind(line) /\ cli'.n = 0 /\ cli'.ok = FALSE
      BY <1>1, CommandFields
    <2> QED BY <2>1 DEF FirstPlace, Puts
  <1>2. CASE CliResponse
    <2>1. cli.pc \in {"answer", "ready", "size", "result", "errack"}
      BY <1>2 DEF CliResponse
    <2> QED BY <1>2, <2>1, ResponseFields
  <1>3. CASE CliSend
    <2>1. cli.pc = "sending" BY <1>3 DEF CliSend
    <2> QED BY <1>3, <2>1, SendFields
  <1>4. CASE CliReceive
    <2>1. cli.pc = "receiving" BY <1>4 DEF CliReceive
    <2> QED BY <1>4, <2>1, ReceiveFields
  <1>5. CASE CliExit \/ CliBroken \/ CliServerClosed
    <2>1. cli \in CliState BY DEF DialogueTypes
    <2> QED BY <1>5, <2>1 DEF CliExit, CliBroken, CliServerClosed, CliState
  <1>6. CASE CliUnasked BY <1>6 DEF CliUnasked
  <1>7. CASE SrvStep \/ SrvNotify \/ Break
    <2>1. UNCHANGED cli /\ (up' = up \/ up' = FALSE)
      BY <1>7 DEF SrvStep, SrvCommand, SrvAnswer, SrvReceive, SrvStream, SrvBroken,
                  SrvNotify, Break
    <2> QED BY <2>1
  <1> QED BY <1>1, <1>2, <1>3, <1>4, <1>5, <1>6, <1>7 DEF Next, CliStep

-----------------------------------------------------------------------------
(* What a step does to the server *)

LEMMA AnswerFields ==
    ASSUME DialogueTypes, up, SrvAnswer, ~(srv.then = "recv" /\ srv.kind = "put_over")
    PROVE  /\ \E n \in Nat : s2c' = Append(s2c, Frame(srv.out, srv.no, n))
           /\ srv'.pc = srv.then /\ srv'.no = srv.no /\ srv'.n = srv.n
  <1>1. PICK n \in IF srv.then = "stream" THEN 0 .. MaxData ELSE {srv.n} :
            s2c' = Sent(s2c, Frame(srv.out, srv.no, n))
    BY DEF SrvAnswer
  <1>2. n \in Nat BY Fields, DialogueAssumption
  <1>3. s2c' = Append(s2c, Frame(srv.out, srv.no, n)) BY <1>1 DEF Sent
  <1>4. srv' = [srv EXCEPT !.pc = srv.then] BY DEF SrvAnswer, AfterAnswer
  <1>5. srv \in SrvState BY DEF DialogueTypes
  <1>6. srv'.pc = srv.then /\ srv'.no = srv.no /\ srv'.n = srv.n
    BY <1>4, <1>5 DEF SrvState
  <1> QED BY <1>2, <1>3, <1>6

LEMMA AnswerIs ==
    ASSUME NEW s \in SrvState, NEW code, NEW then
    PROVE  LET a == Answer(s, code, then)
           IN  /\ a.pc = "answer" /\ a.out = code /\ a.then = then
               /\ a.no = s.no /\ a.n = s.n /\ a.kind = s.kind
  BY DEF Answer, SrvState

LEMMA RecvFields ==
    ASSUME DialogueTypes, SrvReceive
    PROVE  /\ srv'.no = srv.no
           /\ Head(c2s).code = "DATA" => srv'.pc = "recv" /\ srv'.n = srv.n + 1
           /\ Head(c2s).code # "DATA" => srv'.pc = "answer" /\ srv'.then = "select"
           /\ Head(c2s).code = "END" /\ srv'.out = "OK" =>
                stored' = [no |-> srv.no, n |-> srv.n]
  <1>1. srv \in SrvState /\ srv.pc = "recv" BY DEF DialogueTypes, SrvReceive
  <1>2. PICK good \in BOOLEAN : srv' = recv_stream(Head(c2s), good)
    BY DEF SrvReceive
  <1>3. CASE Head(c2s).code = "DATA"
    BY <1>1, <1>2, <1>3 DEF recv_stream, SrvState
  <1>4. CASE Head(c2s).code = "END"
    <2>1. srv' = Answer(srv, IF good /\ srv.written = srv.n THEN "OK" ELSE "ERR", "select")
      BY <1>2, <1>4 DEF recv_stream
    <2>2. /\ srv'.no = srv.no /\ srv'.pc = "answer" /\ srv'.then = "select"
          /\ srv'.out = IF good /\ srv.written = srv.n THEN "OK" ELSE "ERR"
      BY <1>1, <2>1, AnswerIs
    <2>3. srv'.out = "OK" => stored' = [no |-> srv.no, n |-> srv.written]
      BY <1>4 DEF SrvReceive
    <2> QED BY <1>4, <2>2, <2>3
  <1>5. CASE Head(c2s).code \notin {"DATA", "END"}
    <2>1. srv' = Answer(srv, "ERR", "select") BY <1>2, <1>5 DEF recv_stream
    <2> QED BY <1>1, <1>5, <2>1, AnswerIs
  <1> QED BY <1>3, <1>4, <1>5

(* The server decides about the command that is next on the connection.      *)
LEMMA CommandDecided ==
    ASSUME DialogueTypes, SrvCommand, Head(c2s).code = "CMD", Parses(Head(c2s).arg)
    PROVE  /\ srv'.no = Head(c2s).no /\ srv'.n = 0
           /\ srv'.kind = Kind(Head(c2s).arg)
           /\ \/ /\ srv'.pc = "answer" /\ awaited' = awaited
                 /\ \/ srv'.then = "select" /\ srv'.out = "ERR"
                    \/ srv'.then = "select" /\ srv'.out = "OK" /\ srv'.kind = "simple"
                    \/ srv'.then = "recv" /\ srv'.out = "OK" /\ srv'.kind \in Puts
                    \/ srv'.then = "stream" /\ srv'.out = "OK" /\ srv'.kind = "get"
              \/ /\ srv'.pc = "select" /\ srv'.kind = "transfer"
                 /\ awaited' = {Head(c2s).no}
  <1> DEFINE s == [srv EXCEPT !.no = Head(c2s).no, !.n = 0, !.written = 0,
                              !.kind = IF Head(c2s).code = "CMD" /\ Parses(Head(c2s).arg)
                                       THEN Kind(Head(c2s).arg) ELSE "none"]
  <1>1. \/ /\ srv' \in {Answer(s, "ERR", "select")} \cup
                     CASE s.kind = "simple" -> {Answer(s, "OK", "select")}
                       [] s.kind \in Puts   -> {Answer(s, "OK", "recv")}
                       [] s.kind = "get"    -> {Answer(s, "OK", "stream")}
                       [] OTHER             -> {}
           /\ awaited' = awaited
        \/ s.kind = "transfer" /\ srv' = s /\ awaited' = {Head(c2s).no}
        \/ srv' = Answer(s, "ERR", "select") /\ awaited' = awaited
    BY DEF SrvCommand, Requested
  <1>2. /\ s.no = Head(c2s).no /\ s.n = 0 /\ s.kind = Kind(Head(c2s).arg)
        /\ s.pc = "select" /\ s \in SrvState
    <2>1. srv \in SrvState /\ srv.pc = "select" /\ Head(c2s) \in AnyFrame
      BY HeadAndTail DEF DialogueTypes, SrvCommand
    <2>2. Head(c2s).no \in Nat BY <2>1 DEF AnyFrame
    <2>3. Kind(Head(c2s).arg) \in Kinds BY LineKinds
    <2> QED BY <2>1, <2>2, <2>3 DEF SrvState
  <1> HIDE DEF s
  <1>3. \/ /\ awaited' = awaited
           /\ \/ srv' = Answer(s, "ERR", "select")
              \/ s.kind = "simple" /\ srv' = Answer(s, "OK", "select")
              \/ s.kind \in Puts /\ srv' = Answer(s, "OK", "recv")
              \/ s.kind = "get" /\ srv' = Answer(s, "OK", "stream")
        \/ s.kind = "transfer" /\ srv' = s /\ awaited' = {Head(c2s).no}
    BY <1>1
  <1> QED BY <1>2, <1>3, AnswerIs

-----------------------------------------------------------------------------
(* What both ends read *)

LEMMA Lengths ==
    ASSUME DialogueTypes
    PROVE  /\ Len(s2c) \in Nat /\ Len(c2s) \in Nat
           /\ (s2c = <<>> <=> Len(s2c) = 0) /\ (c2s = <<>> <=> Len(c2s) = 0)
  BY DEF DialogueTypes

(* A stage says what is under way in both directions.                        *)
LEMMA StageReads ==
    ASSUME DialogueTypes, Stage
    PROVE  ClientReads /\ ServerReads
  <1> USE Lengths
  <1>1. CASE Waiting \/ Resting \/ Asked \/ Decided \/ Received
    BY <1>1 DEF Waiting, Resting, Asked, Decided, Received, ClientReads, ServerReads
  <1>2. CASE Finished
    BY <1>2 DEF Finished, Settled, ClientReads, ServerReads
  <1>3. CASE ReadyToReceive
    BY <1>3 DEF ReadyToReceive, ClientReads, ServerReads
  <1>4. CASE Uploading
    <2>1. ServerReads
      <3>1. CASE cli.pc = "sending"
        BY <1>4, <3>1 DEF Uploading, Data, ServerReads
      <3>2. CASE cli.pc # "sending"
        BY <1>4, <3>2 DEF Uploading, Data, ServerReads
      <3> QED BY <3>1, <3>2
    <2> QED BY <1>4, <2>1 DEF Uploading, ClientReads
  <1>5. CASE Downloading
    <2>1. PICK k \in 0 .. Len(s2c) : Started(k) /\ Data(s2c, k, Len(s2c), cli.no)
      BY <1>5 DEF Downloading
    <2>2. CASE k < Len(s2c)
      <3>1. /\ Len(s2c) \in k + 1 .. Len(s2c) /\ Data(s2c, k, Len(s2c) - 1, cli.no)
            /\ s2c[Len(s2c)].code = "DATA" /\ s2c[Len(s2c)].no = cli.no
            /\ QuietAfter(s2c, Len(s2c))
        BY <2>1, <2>2 DEF Data, QuietAfter
      <3> QED BY <1>5, <2>1, <3>1 DEF ClientReads, ServerReads, Downloading
    <2>3. CASE k = Len(s2c) /\ k = 0
      BY <1>5, <2>3 DEF Quiet, ClientReads, ServerReads, Downloading
    <2>4. CASE k = Len(s2c) /\ k # 0
      <3>1. /\ cli.pc = "size" /\ Opens(s2c, k, cli.no) /\ QuietAfter(s2c, k)
            /\ k \in 1 .. Len(s2c)
        BY <2>1, <2>4 DEF Started, QuietAfter
      <3> QED BY <1>5, <3>1 DEF ClientReads, ServerReads, Downloading
    <2> QED BY <2>1, <2>2, <2>3, <2>4
  <1>6. CASE Streamed
    <2>1. PICK k \in 0 .. Len(s2c) : \E b \in k + 1 .. Len(s2c) :
            /\ StreamEnds(k, b)
            /\ s2c[b].code = "END" => srv.n + k + 1 = cli.n + b
      BY <1>6 DEF Streamed
    <2> QED BY <1>6, <2>1 DEF Streamed, StreamEnds, Settled, ClientReads, ServerReads
  <1> QED BY <1>1, <1>2, <1>3, <1>4, <1>5, <1>6 DEF Stage, Working

LEMMA BothRead ==
    ASSUME DialogueInv, ~stray
    PROVE  ClientReads /\ ServerReads
  BY StageReads DEF DialogueInv, DialogueTypes

(* What is read is in step.                                                  *)
LEMMA ReadInStep ==
    ASSUME DialogueTypes, ClientReads, ServerReads
    PROVE  InStep
  <1> USE Lengths
  <1>1. ASSUME c2s # <<>>
        PROVE  /\ srv.pc = "select" => Head(c2s).code = "CMD"
               /\ srv.pc = "recv" =>
                    Head(c2s).code \in {"DATA", "END", "ERR"} /\ Head(c2s).no = srv.no
    <2>1. Head(c2s) = c2s[1] /\ 1 \in 1 .. Len(c2s)
      BY <1>1, HeadAndTail DEF DialogueTypes
    <2> QED BY <1>1, <2>1 DEF ServerReads
  <1>2. ASSUME s2c # <<>>, Head(s2c).code # "NOTIFY"
        PROVE  /\ cli.pc \notin {"idle", "sending"}
               /\ cli.pc # "closed" => Head(s2c).no = cli.no
    <2>1. Head(s2c) = s2c[1] /\ 1 \in 1 .. Len(s2c)
      BY <1>2, HeadAndTail DEF DialogueTypes
    <2>2. ~Quiet(s2c) BY <1>2, <2>1 DEF Quiet
    <2>3. \A k \in 1 .. Len(s2c) : Opens(s2c, k, cli.no) => s2c[1].no = cli.no
      BY <1>2, <2>1 DEF Opens
    <2>4. CASE cli.pc = "closed" BY <2>4
    <2>5. CASE /\ cli.pc \in {"answer", "ready", "size", "result", "errack"}
               /\ \E k \in 1 .. Len(s2c) : Opens(s2c, k, cli.no)
      BY <2>1, <2>3, <2>5
    <2>6. CASE \E k \in 0 .. Len(s2c) : \E b \in k + 1 .. Len(s2c) :
                  /\ Started(k) /\ Data(s2c, k, b - 1, cli.no)
                  /\ s2c[b].no = cli.no
      <3>1. PICK k \in 0 .. Len(s2c) : \E b \in k + 1 .. Len(s2c) :
                  /\ Started(k) /\ Data(s2c, k, b - 1, cli.no)
                  /\ s2c[b].no = cli.no
        BY <2>6
      <3>2. CASE k = 0
        <4>1. s2c[1].no = cli.no BY <3>1, <3>2 DEF Data
        <4>2. cli.pc = "receiving" BY <3>1, <3>2 DEF Started, Opens
        <4> QED BY <2>1, <4>1, <4>2
      <3>3. CASE k # 0 BY <2>1, <2>3, <3>1, <3>3 DEF Started
      <3> QED BY <3>2, <3>3
    <2> QED BY <2>2, <2>4, <2>5, <2>6 DEF ClientReads
  <1> QED BY <1>1, <1>2 DEF InStep

-----------------------------------------------------------------------------
(* The steps of the client on a connection that is up *)

LEMMA IdleRests ==
    ASSUME Working, cli.pc = "idle"
    PROVE  Resting
  BY DEF Working, Asked, Decided, Finished, ReadyToReceive, Uploading, Received,
         Downloading, Streamed, StreamEnds, Started

LEMMA StageCommand ==
    ASSUME DialogueTypes, NoOverseek, up, Working, CliCommand
    PROVE  Asked'
  <1>1. Resting BY IdleRests DEF CliCommand
  <1>2. PICK line \in Lines :
            /\ Parses(line) /\ Kind(line) \in {"simple", "transfer", "get", "put"}
            /\ c2s' = Sent(c2s, Frame("CMD", cli.no + 1, line))
            /\ cli'.pc = FirstPlace(Kind(line)) /\ cli'.no = cli.no + 1
            /\ cli'.kind = Kind(line) /\ cli'.n = 0 /\ cli'.ok = FALSE
    BY CommandFields
  <1> DEFINE f == Frame("CMD", cli.no + 1, line)
  <1>3. cli.no + 1 \in Nat BY Fields
  <1>4. f \in AnyFrame /\ f.code = "CMD" /\ f.no = cli.no + 1 /\ f.arg = line
    BY <1>3, FrameTypes DEF Codes
  <1> HIDE DEF f
  <1>5. c2s' = Append(c2s, f) /\ c2s = <<>> BY <1>1, <1>2 DEF Sent, Resting, f
  <1>6. Len(c2s') = 1 /\ c2s'[1] = f
    BY <1>4, <1>5
  <1>7. UNCHANGED <<srv, s2c>> BY DEF CliCommand
  <1>8. cli'.pc \in {"answer", "ready", "size"} BY <1>2 DEF FirstPlace, Puts
  <1> QED BY <1>1, <1>2, <1>4, <1>6, <1>7, <1>8 DEF Resting, Asked

LEMMA StartedTail ==
    ASSUME s2c \in Seq(AnyFrame), NEW k \in 1 .. Len(s2c), Started(k),
           s2c' = Tail(s2c), cli' = cli
    PROVE  /\ cli.pc = "size"
           /\ k = 1 => Head(s2c).code = "OK" /\ Head(s2c).no = cli.no
           /\ k # 1 => Head(s2c).code = "NOTIFY" /\ Started(k - 1)'
  <1>1. cli.pc = "size" /\ Opens(s2c, k, cli.no) /\ s2c[k].code = "OK"
    BY DEF Started
  <1>2. s2c # <<>> OBVIOUS
  <1>3. Head(s2c) = s2c[1] BY <1>2, HeadAndTail
  <1> QED BY <1>1, <1>3, OpensTail DEF Started

LEMMA StageResponse ==
    ASSUME DialogueTypes, ClientPlaces, Working, CliResponse
    PROVE  Working'
  <1>1. /\ s2c \in Seq(AnyFrame) /\ s2c # <<>> /\ s2c' = Tail(s2c)
        /\ cli.pc \in {"answer", "ready", "size", "result", "errack"}
        /\ UNCHANGED <<c2s, srv, stored>>
    BY DEF DialogueTypes, CliResponse
  <1>2. /\ Len(s2c) \in Nat /\ Len(s2c') = Len(s2c) - 1 /\ Head(s2c) = s2c[1]
        /\ \A i \in 1 .. Len(s2c) - 1 : s2c'[i] = s2c[i + 1]
    BY <1>1, HeadAndTail
  <1>3. CASE Quiet(s2c)
    <2>1. cli' = cli /\ Quiet(s2c') BY <1>1, <1>3, QuietTail, ResponseFields
    <2>2. CASE Asked BY <1>1, <2>1, <2>2 DEF Asked, Working
    <2>3. CASE Decided BY <1>1, <2>1, <2>3 DEF Decided, Working
    <2>4. CASE Received BY <1>1, <2>1, <2>4 DEF Received, Stored, Working
    <2>5. CASE Uploading BY <1>1, <2>1, <2>5 DEF Uploading, Working
    <2>6. CASE Finished \/ ReadyToReceive
      BY <1>3, <2>6 DEF Quiet, Opens, Finished, ReadyToReceive
    <2>7. CASE Downloading
      <3>1. PICK k \in 0 .. Len(s2c) :
                Started(k) /\ Data(s2c, k, Len(s2c), cli.no)
        BY <2>7 DEF Downloading
      <3> QED BY <1>1, <1>3, <3>1 DEF Started, Opens, Quiet
    <2>8. CASE Streamed
      <3>1. PICK k \in 0 .. Len(s2c) : Started(k)
        BY <2>8 DEF Streamed, StreamEnds
      <3> QED BY <1>1, <1>3, <3>1 DEF Started, Opens, Quiet
    <2> QED BY <1>1, <2>2, <2>3, <2>4, <2>5, <2>6, <2>7, <2>8 DEF Working, Resting
  <1>4. CASE Finished
    <2>1. PICK k \in 1 .. Len(s2c) :
            /\ Opens(s2c, k, cli.no) /\ QuietAfter(s2c, k)
            /\ s2c[k].code = "OK" =>
                  \/ cli.pc \in {"answer", "errack"}
                  \/ cli.pc = "result" /\ Stored
      BY <1>4 DEF Finished
    <2>2. CASE k = 1
      <3>1. cli'.pc = "idle"
        BY <1>1, <1>2, <2>1, <2>2, OpensTail, ResponseFields
      <3>2. Quiet(s2c') BY <1>1, <2>1, <2>2, QuietAfterTail
      <3> QED BY <1>1, <1>4, <3>1, <3>2 DEF Finished, Resting, Working
    <2>3. CASE k # 1
      <3>1. /\ Head(s2c).code = "NOTIFY" /\ k - 1 \in 1 .. Len(s2c')
            /\ Opens(s2c', k - 1, cli.no) /\ s2c'[k - 1] = s2c[k]
        BY <1>1, <2>1, <2>3, OpensTail
      <3>2. QuietAfter(s2c', k - 1) BY <1>1, <2>1, QuietAfterTail
      <3>3. cli' = cli BY <3>1, ResponseFields
      <3> QED BY <1>1, <1>4, <2>1, <3>1, <3>2, <3>3 DEF Finished, Stored, Working
    <2> QED BY <2>2, <2>3
  <1>5. CASE ReadyToReceive
    <2>1. PICK k \in 1 .. Len(s2c) :
            Opens(s2c, k, cli.no) /\ QuietAfter(s2c, k) /\ s2c[k].code = "OK"
      BY <1>5 DEF ReadyToReceive
    <2>2. CASE k = 1
      <3>1. cli'.pc = "sending" /\ cli'.no = cli.no /\ cli'.n = 0
        BY <1>2, <1>5, <2>1, <2>2, ResponseFields DEF ReadyToReceive, ClientPlaces
      <3>2. Quiet(s2c') BY <1>1, <2>1, <2>2, QuietAfterTail
      <3>3. c2s' = <<>> /\ Data(c2s', 0, Len(c2s'), cli'.no)
        BY <1>1, <1>5 DEF ReadyToReceive, Data
      <3> QED BY <1>1, <1>5, <3>1, <3>2, <3>3 DEF ReadyToReceive, Uploading, Working
    <2>3. CASE k # 1
      <3>1. /\ Head(s2c).code = "NOTIFY" /\ k - 1 \in 1 .. Len(s2c')
            /\ Opens(s2c', k - 1, cli.no) /\ s2c'[k - 1] = s2c[k]
        BY <1>1, <2>1, <2>3, OpensTail
      <3>2. QuietAfter(s2c', k - 1) BY <1>1, <2>1, QuietAfterTail
      <3>3. cli' = cli BY <3>1, ResponseFields
      <3> QED BY <1>1, <1>5, <2>1, <3>1, <3>2, <3>3 DEF ReadyToReceive, Working
    <2> QED BY <2>2, <2>3
  <1>6. CASE Downloading
    <2>1. PICK k \in 0 .. Len(s2c) :
            /\ Started(k) /\ Data(s2c, k, Len(s2c), cli.no)
            /\ srv.n + k = cli.n + Len(s2c)
      BY <1>6 DEF Downloading
    <2>2. cli.pc = "size" /\ k \in 1 .. Len(s2c) BY <1>1, <2>1 DEF Started, Opens
    <2>3. Data(s2c', k - 1, Len(s2c'), cli.no)
      BY <1>1, <1>2, <2>1, <2>2, DataTail
    <2>4. srv.n \in Nat /\ cli.n \in Nat BY Fields
    <2>5. CASE k = 1
      <3>1. cli'.pc = "receiving" /\ cli'.no = cli.no /\ cli'.n = cli.n
        BY <1>2, <2>1, <2>2, <2>5, ResponseFields DEF Started
      <3>2. Started(0)' BY <3>1 DEF Started
      <3>3. srv'.n + 0 = cli'.n + Len(s2c') /\ 0 \in 0 .. Len(s2c')
        <4>1. /\ srv'.n = srv.n /\ cli'.n = cli.n /\ Len(s2c) \in Nat
              /\ Len(s2c') = Len(s2c) - 1 /\ Len(s2c) >= 1
              /\ srv.n + 1 = cli.n + Len(s2c)
          BY <1>1, <1>2, <2>1, <2>2, <2>5, <3>1
        <4>2. srv.n + 0 = cli.n + (Len(s2c) - 1) BY <2>4, <4>1, BothOneFewer
        <4>3. 0 \in 0 .. Len(s2c') BY <4>1
        <4> QED BY <4>1, <4>2, <4>3
      <3>4. Data(s2c', 0, Len(s2c'), cli'.no) BY <2>3, <2>5, <3>1
      <3>5. \E j \in 0 .. Len(s2c') :
                /\ Started(j)' /\ Data(s2c', j, Len(s2c'), cli'.no)
                /\ srv'.n + j = cli'.n + Len(s2c')
        BY <3>2, <3>3, <3>4
      <3> QED BY <1>1, <1>6, <3>1, <3>5 DEF Downloading, Working
    <2>6. CASE k # 1
      <3>1. Head(s2c).code = "NOTIFY"
        BY <1>1, <2>1, <2>2, <2>6, OpensTail DEF Started
      <3>2. cli' = cli BY <3>1, ResponseFields
      <3>3. Started(k - 1)' BY <1>1, <2>1, <2>2, <2>6, <3>2, StartedTail
      <3>4. srv'.n + (k - 1) = cli'.n + Len(s2c') /\ k - 1 \in 0 .. Len(s2c')
        <4>1. /\ srv'.n = srv.n /\ cli'.n = cli.n /\ Len(s2c) \in Nat
              /\ Len(s2c') = Len(s2c) - 1
          BY <1>1, <1>2, <3>2
        <4>2. srv.n + k = cli.n + Len(s2c) BY <2>1
        <4>3. k \in Nat /\ k >= 1 /\ k <= Len(s2c) BY <2>2
        <4>4. k - 1 \in 0 .. Len(s2c') BY <4>1, <4>3
        <4>5. srv.n + (k - 1) = cli.n + (Len(s2c) - 1)
          <5>1. k \in Nat /\ Len(s2c) \in Nat /\ srv.n \in Nat /\ cli.n \in Nat
            BY <2>4, <4>1, <4>3, Zenon
          <5>2. srv.n + (k - 1) = (srv.n + k) - 1 BY <5>1
          <5>3. cli.n + (Len(s2c) - 1) = (cli.n + Len(s2c)) - 1 BY <5>1
          <5> QED BY <4>2, <5>2, <5>3
        <4> QED BY <4>1, <4>4, <4>5
      <3>5. \E j \in 0 .. Len(s2c') :
                /\ Started(j)' /\ Data(s2c', j, Len(s2c'), cli'.no)
                /\ srv'.n + j = cli'.n + Len(s2c')
        BY <2>3, <3>2, <3>3, <3>4
      <3> QED BY <1>1, <1>6, <3>2, <3>5 DEF Downloading, Working
    <2> QED BY <2>5, <2>6
  <1>7. CASE Streamed
    <2>1. PICK k \in Nat : k \in 0 .. Len(s2c) /\ \E b \in k + 1 .. Len(s2c) :
            /\ StreamEnds(k, b)
            /\ s2c[b].code = "END" => srv.n + k + 1 = cli.n + b
      BY <1>7 DEF Streamed
    <2>2. PICK b \in Nat :
            /\ b \in k + 1 .. Len(s2c) /\ StreamEnds(k, b)
            /\ s2c[b].code = "END" => srv.n + k + 1 = cli.n + b
      BY <2>1
    <2>3. cli.pc = "size" /\ k \in 1 .. Len(s2c) /\ Started(k)
      BY <1>1, <2>1, <2>2 DEF StreamEnds, Started, Opens
    <2>4. Data(s2c', k - 1, b - 2, cli.no)
      <3>1. k \in Nat /\ b \in Nat /\ k >= 1 /\ b <= Len(s2c) BY <2>2, <2>3
      <3>2. ASSUME NEW i \in (k - 1) + 1 .. b - 2
            PROVE  s2c'[i].code = "DATA" /\ s2c'[i].no = cli.no
        <4>1. i + 1 \in k + 1 .. b - 1 /\ i \in 1 .. Len(s2c) - 1
          BY <1>2, <3>1
        <4> QED BY <1>2, <2>2, <4>1 DEF StreamEnds, Data
      <3> QED BY <3>2 DEF Data
    <2>5. QuietAfter(s2c', b - 1) /\ s2c'[b - 1] = s2c[b] /\ b - 1 \in k .. Len(s2c')
      BY <1>1, <1>2, <2>2, <2>3, QuietAfterTail DEF StreamEnds
    <2>6. srv.n \in Nat /\ cli.n \in Nat BY Fields
    <2>7. s2c'[b - 1].code = "END" => srv.n + (k - 1) + 1 = cli.n + (b - 1)
      <3>1. s2c'[b - 1].code = "END" => srv.n + k + 1 = cli.n + b
        BY <2>2, <2>5
      <3>2. srv.n + k + 1 = cli.n + b => srv.n + (k - 1) + 1 = cli.n + (b - 1)
        <4>1. k \in Nat /\ b \in Nat BY <2>2
        <4> QED BY <2>6, <4>1, OneFewer
      <3> QED BY <3>1, <3>2
    <2>8. cli'.no = cli.no /\ cli'.n = cli.n BY ResponseFields
    <2>9. Started(k - 1)'
      <3>1. CASE k = 1
        BY <1>2, <2>3, <3>1, ResponseFields DEF Started
      <3>2. CASE k # 1
        <4>1. Head(s2c).code = "NOTIFY" BY <1>1, <2>3, <3>2, OpensTail DEF Started
        <4>2. cli' = cli BY <4>1, ResponseFields
        <4> QED BY <1>1, <2>3, <3>2, <4>2, StartedTail
      <3> QED BY <3>1, <3>2
    <2>10. StreamEnds(k - 1, b - 1)'
      BY <2>2, <2>4, <2>5, <2>8, <2>9 DEF StreamEnds
    <2>11. k - 1 \in 0 .. Len(s2c') /\ b - 1 \in (k - 1) + 1 .. Len(s2c')
      BY <1>2, <2>3, <2>5
    <2> QED BY <1>1, <1>7, <2>7, <2>8, <2>10, <2>11 DEF Streamed, Working
  <1> QED
    <2>1. Resting => Quiet(s2c) BY DEF Resting
    <2>2. Asked \/ Decided \/ Uploading \/ Received => Quiet(s2c)
      BY DEF Asked, Decided, Uploading, Received
    <2> QED BY <1>3, <1>4, <1>5, <1>6, <1>7, <2>1, <2>2 DEF Working

LEMMA StageSend ==
    ASSUME DialogueTypes, ClientPlaces, Working, CliSend
    PROVE  Uploading'
  <1>1. cli.pc = "sending" /\ UNCHANGED <<s2c, srv>> BY DEF CliSend
  <1>2. Uploading
    BY <1>1 DEF Working, Resting, Asked, Decided, Finished, ReadyToReceive, Received,
                Downloading, Streamed, StreamEnds, Started
  <1>3. PICK code \in {"DATA", "END", "ERR"} :
            /\ c2s' = Append(c2s, Frame(code, cli.no, 0))
            /\ cli'.no = cli.no /\ cli'.kind = cli.kind /\ cli'.ok = cli.ok
            /\ code = "DATA" => cli'.pc = "sending" /\ cli'.n = cli.n + 1
            /\ code = "END" => cli'.pc = "result" /\ cli'.n = cli.n
            /\ code = "ERR" => cli'.pc = "errack" /\ cli'.n = cli.n
    BY SendFields
  <1> DEFINE f == Frame(code, cli.no, 0)
  <1>4. f \in AnyFrame /\ f.code = code /\ f.no = cli.no
    <2>1. cli.no \in Nat BY Fields
    <2>2. code \in Codes BY DEF Codes
    <2> QED BY <2>1, <2>2, FrameTypes
  <1> HIDE DEF f
  <1>5. c2s' = Append(c2s, f) /\ c2s \in Seq(AnyFrame)
    BY <1>3 DEF f, DialogueTypes
  <1>6. /\ Len(c2s) \in Nat /\ Len(c2s') = Len(c2s) + 1
        /\ \A i \in 1 .. Len(c2s) : c2s'[i] = c2s[i]
        /\ c2s'[Len(c2s) + 1] = f
    BY <1>4, <1>5, Appended
  <1>7. Data(c2s, 0, Len(c2s), cli.no) /\ srv.n + Len(c2s) = cli.n
    BY <1>1, <1>2 DEF Uploading
  <1>8. Data(c2s', 0, Len(c2s), cli.no) BY <1>6, <1>7 DEF Data
  <1>9. srv.n \in Nat /\ cli.n \in Nat BY Fields
  <1>10. CASE code = "DATA"
    <2>1. Data(c2s', 0, Len(c2s'), cli.no)
      BY <1>4, <1>6, <1>8, <1>10 DEF Data
    <2>2. srv.n + Len(c2s') = cli.n + 1 BY <1>6, <1>7, <1>9
    <2> QED BY <1>1, <1>2, <1>3, <1>10, <2>1, <2>2 DEF Uploading
  <1>11. CASE code # "DATA"
    <2>1. /\ Len(c2s') > 0 /\ Data(c2s', 0, Len(c2s') - 1, cli.no)
          /\ c2s'[Len(c2s')].code = code /\ c2s'[Len(c2s')].no = cli.no
      BY <1>4, <1>6, <1>8
    <2>2. srv.n + Len(c2s') = cli.n + 1 BY <1>6, <1>7, <1>9
    <2> QED BY <1>1, <1>2, <1>3, <1>11, <2>1, <2>2 DEF Uploading
  <1> QED BY <1>10, <1>11

LEMMA StageReceive ==
    ASSUME DialogueTypes, Working, CliReceive
    PROVE  Working'
  <1>1. /\ s2c \in Seq(AnyFrame) /\ s2c # <<>> /\ s2c' = Tail(s2c)
        /\ cli.pc = "receiving" /\ UNCHANGED <<c2s, srv>>
    BY DEF DialogueTypes, CliReceive
  <1>2. /\ Len(s2c) \in Nat /\ Len(s2c) >= 1 /\ Len(s2c') = Len(s2c) - 1
        /\ Head(s2c) = s2c[1]
        /\ \A i \in 1 .. Len(s2c) - 1 : s2c'[i] = s2c[i + 1]
    BY <1>1, HeadAndTail
  <1>3. srv.n \in Nat /\ cli.n \in Nat BY Fields
  <1>4. CASE Downloading
    <2>1. Data(s2c, 0, Len(s2c), cli.no) /\ srv.n + 0 = cli.n + Len(s2c)
      BY <1>1, <1>4 DEF Downloading, Started
    <2>2. Head(s2c).code = "DATA" BY <1>2, <2>1 DEF Data
    <2>3. cli'.pc = "receiving" /\ cli'.n = cli.n + 1 /\ cli'.no = cli.no
      BY <2>2, ReceiveFields
    <2>4. Data(s2c', 0, Len(s2c'), cli.no) BY <1>2, <2>1 DEF Data
    <2>5. srv.n + 0 = (cli.n + 1) + Len(s2c') BY <1>2, <1>3, <2>1
    <2>6. Started(0)' /\ 0 \in 0 .. Len(s2c') BY <1>2, <2>3 DEF Started
    <2>7. \E j \in 0 .. Len(s2c') :
                /\ Started(j)' /\ Data(s2c', j, Len(s2c'), cli'.no)
                /\ srv'.n + j = cli'.n + Len(s2c')
      BY <1>1, <2>3, <2>4, <2>5, <2>6
    <2> QED BY <1>1, <1>4, <2>3, <2>7 DEF Downloading, Working
  <1>5. CASE Streamed
    <2>1. PICK b \in 1 .. Len(s2c) :
            /\ StreamEnds(0, b)
            /\ s2c[b].code = "END" => srv.n + 0 + 1 = cli.n + b
      BY <1>1, <1>5 DEF Streamed, StreamEnds, Started
    <2>2. CASE b = 1
      <3>1. cli'.pc = "idle" BY <1>2, <2>1, <2>2, ReceiveFields DEF StreamEnds
      <3>2. Quiet(s2c') BY <1>1, <2>1, <2>2, QuietAfterTail DEF StreamEnds
      <3> QED BY <1>1, <1>5, <3>1, <3>2 DEF Streamed, Resting, Working
    <2>3. CASE b # 1
      <3>1. Head(s2c).code = "DATA" BY <1>2, <2>1, <2>3 DEF StreamEnds, Data
      <3>2. cli'.pc = "receiving" /\ cli'.n = cli.n + 1 /\ cli'.no = cli.no
        BY <3>1, ReceiveFields
      <3>3. /\ b - 1 \in 0 + 1 .. Len(s2c') /\ s2c'[b - 1] = s2c[b]
            /\ QuietAfter(s2c', b - 1)
        BY <1>1, <1>2, <2>1, <2>3, QuietAfterTail DEF StreamEnds
      <3>4. Data(s2c', 0, (b - 1) - 1, cli.no)
        <4>1. b \in Nat /\ b >= 1 /\ b <= Len(s2c) BY <2>1
        <4>2. \A i \in 0 + 1 .. b - 1 : s2c[i].code = "DATA" /\ s2c[i].no = cli.no
          BY <2>1 DEF StreamEnds, Data
        <4>3. ASSUME NEW i \in 0 + 1 .. (b - 1) - 1
              PROVE  s2c'[i].code = "DATA" /\ s2c'[i].no = cli.no
          <5>1. i + 1 \in 0 + 1 .. b - 1 /\ i \in 1 .. Len(s2c) - 1
            BY <1>2, <4>1
          <5> QED BY <1>2, <4>2, <5>1
        <4> QED BY <4>3 DEF Data
      <3>5. s2c'[b - 1].code = "END" => srv.n + 0 + 1 = (cli.n + 1) + (b - 1)
        <4>1. s2c[b].code = "END" => srv.n + 0 + 1 = cli.n + b BY <2>1
        <4>2. b \in Nat BY <2>1
        <4>3. srv.n + 0 + 1 = cli.n + b => srv.n + 0 + 1 = (cli.n + 1) + (b - 1)
          BY <1>3, <4>2
        <4> QED BY <3>3, <4>1, <4>3
      <3>6. Started(0)' /\ 0 \in 0 .. Len(s2c') BY <1>2, <3>2 DEF Started
      <3>7. StreamEnds(0, b - 1)' BY <2>1, <3>2, <3>3, <3>4, <3>6 DEF StreamEnds
      <3>8. \E j \in 0 .. Len(s2c') : \E e \in j + 1 .. Len(s2c') :
                /\ StreamEnds(j, e)'
                /\ s2c'[e].code = "END" => srv'.n + j + 1 = cli'.n + e
        BY <1>1, <3>2, <3>3, <3>5, <3>6, <3>7
      <3> QED BY <1>1, <1>5, <3>2, <3>8 DEF Streamed, Working
    <2> QED BY <2>2, <2>3
  <1> QED
    BY <1>1, <1>4, <1>5 DEF Working, Resting, Asked, Decided, Finished,
                            ReadyToReceive, Uploading, Received

LEMMA StageUnasked ==
    ASSUME DialogueTypes, Working, CliUnasked
    PROVE  Resting'
  <1>1. Resting BY IdleRests DEF CliUnasked
  <1>2. Quiet(s2c')
    BY <1>1, QuietTail DEF CliUnasked, Resting, DialogueTypes
  <1> QED BY <1>1, <1>2 DEF CliUnasked, Resting

-----------------------------------------------------------------------------
(* The steps of the server on a connection that is up *)

LEMMA StartedAppend ==
    ASSUME s2c \in Seq(AnyFrame), NEW f \in AnyFrame, s2c' = Append(s2c, f),
           cli' = cli, NEW k \in 0 .. Len(s2c), Started(k)
    PROVE  Started(k)'
  <1>1. CASE cli.pc = "receiving" /\ k = 0 BY <1>1 DEF Started
  <1>2. CASE cli.pc = "size" /\ Opens(s2c, k, cli.no) /\ s2c[k].code = "OK"
    <2>1. k \in 1 .. Len(s2c) BY <1>2 DEF Opens
    <2> QED BY <1>2, <2>1, OpensAppend DEF Started
  <1> QED BY <1>1, <1>2 DEF Started

LEMMA StageDecide ==
    ASSUME DialogueTypes, ClientPlaces, Working, SrvCommand
    PROVE  \/ Decided' /\ awaited' = awaited
           \/ Waiting'
  <1>1. srv.pc = "select" /\ c2s # <<>> /\ c2s' = Tail(c2s) /\ UNCHANGED <<s2c, cli>>
    BY DEF SrvCommand
  <1>2. Asked
    BY <1>1 DEF Working, Resting, Decided, Finished, ReadyToReceive, Uploading, Received,
                Downloading, Streamed
  <1>3. /\ Len(c2s) = 1 /\ c2s \in Seq(AnyFrame) /\ Head(c2s) = c2s[1]
        /\ Len(c2s') = 0 /\ c2s' \in Seq(AnyFrame)
    BY <1>1, <1>2, HeadAndTail DEF Asked, DialogueTypes
  <1>4. c2s' = <<>> BY <1>3
  <1>5. /\ Head(c2s).code = "CMD" /\ Head(c2s).no = cli.no
        /\ Parses(Head(c2s).arg) /\ Kind(Head(c2s).arg) = cli.kind
        /\ cli.pc \in {"answer", "ready", "size"} /\ Quiet(s2c)
    BY <1>2, <1>3 DEF Asked
  <1>6. /\ srv'.no = cli.no /\ srv'.n = 0 /\ srv'.kind = cli.kind
        /\ \/ /\ srv'.pc = "answer" /\ awaited' = awaited
              /\ \/ srv'.then = "select" /\ srv'.out = "ERR"
                 \/ srv'.then = "select" /\ srv'.out = "OK" /\ srv'.kind = "simple"
                 \/ srv'.then = "recv" /\ srv'.out = "OK" /\ srv'.kind \in Puts
                 \/ srv'.then = "stream" /\ srv'.out = "OK" /\ srv'.kind = "get"
           \/ srv'.pc = "select" /\ srv'.kind = "transfer" /\ awaited' = {cli.no}
    BY <1>5, CommandDecided
  <1>7. /\ cli.kind \in {"simple", "transfer"} => cli.pc = "answer"
        /\ cli.kind \in Puts => cli.pc = "ready"
        /\ cli.kind = "get" => cli.pc = "size"
    BY <1>5 DEF ClientPlaces, Puts
  <1> QED BY <1>1, <1>4, <1>5, <1>6, <1>7 DEF Decided, Waiting

LEMMA StageAnswer ==
    ASSUME DialogueTypes, ClientPlaces, up, Working, SrvAnswer
    PROVE  Working'
  <1>1. /\ s2c \in Seq(AnyFrame) /\ srv.pc = "answer"
        /\ UNCHANGED <<c2s, cli, stored>>
    BY DEF DialogueTypes, SrvAnswer
  <1>2. Decided \/ Received \/ Downloading
    BY <1>1 DEF Working, Resting, Asked, Finished, ReadyToReceive, Uploading, Streamed
  <1>3. ~(srv.then = "recv" /\ srv.kind = "put_over")
    <2>1. CASE Decided BY <2>1 DEF Decided, ClientPlaces
    <2>2. CASE Received BY <2>2 DEF Received
    <2>3. CASE Downloading BY <1>1, <2>3 DEF Downloading
    <2> QED BY <1>2, <2>1, <2>2, <2>3
  <1>4. PICK n \in Nat : s2c' = Append(s2c, Frame(srv.out, srv.no, n))
    BY <1>3, AnswerFields
  <1>5. srv'.pc = srv.then /\ srv'.no = srv.no /\ srv'.n = srv.n
    BY <1>3, AnswerFields
  <1> DEFINE f == Frame(srv.out, srv.no, n)
  <1>6. f \in AnyFrame /\ f.code = srv.out /\ f.no = srv.no /\ f.code \in {"OK", "ERR"}
    <2>1. srv.out \in {"OK", "ERR"} /\ srv.no \in Nat BY Fields
    <2>2. srv.out \in Codes /\ n \in Lines \cup Nat BY <2>1 DEF Codes
    <2> QED BY <2>1, <2>2, FrameTypes
  <1>7. s2c' = Append(s2c, f) BY <1>4
  <1> HIDE DEF f
  <1>8. /\ Len(s2c) \in Nat /\ Len(s2c') = Len(s2c) + 1
        /\ \A i \in 1 .. Len(s2c) : s2c'[i] = s2c[i]
        /\ s2c'[Len(s2c) + 1] = f
    BY <1>1, <1>6, <1>7, Appended
  <1>9. ASSUME Quiet(s2c), srv.no = cli.no
        PROVE  \E k \in 1 .. Len(s2c') :
                /\ k = Len(s2c) + 1 /\ s2c'[k].code = srv.out
                /\ Opens(s2c', k, cli'.no) /\ QuietAfter(s2c', k)
    <2>1. Opens(s2c', Len(s2c) + 1, cli'.no) /\ QuietAfter(s2c', Len(s2c) + 1)
      BY <1>1, <1>6, <1>7, <1>9, QuietAppend
    <2>2. Len(s2c) + 1 \in 1 .. Len(s2c') BY <1>8
    <2> QED BY <1>6, <1>8, <2>1, <2>2
  <1>10. CASE Decided
    <2>1. PICK k \in 1 .. Len(s2c') :
                /\ k = Len(s2c) + 1 /\ s2c'[k].code = srv.out
                /\ Opens(s2c', k, cli'.no) /\ QuietAfter(s2c', k)
      BY <1>9, <1>10 DEF Decided
    <2>2. CASE srv.then = "select"
      <3>1. s2c'[k].code = "OK" => cli'.pc = "answer"
        BY <1>1, <1>10, <2>1, <2>2 DEF Decided
      <3> QED BY <1>1, <1>5, <1>10, <2>1, <2>2, <3>1 DEF Decided, Finished, Working
    <2>3. CASE srv.then = "recv"
      BY <1>1, <1>5, <1>10, <2>1, <2>3 DEF Decided, ReadyToReceive, Working
    <2>4. CASE srv.then = "stream"
      <3>1. cli.pc = "size" /\ srv.out = "OK" BY <1>10, <2>4 DEF Decided
      <3>2. Started(k)' /\ k \in 0 .. Len(s2c') BY <1>1, <2>1, <3>1 DEF Started
      <3>3. Data(s2c', k, Len(s2c'), cli'.no) BY <1>8, <2>1 DEF Data
      <3>4. srv'.n + k = cli'.n + Len(s2c')
        <4>1. srv'.n = 0 /\ cli'.n = 0
          BY <1>1, <1>5, <1>10, <3>1 DEF Decided, ClientPlaces
        <4> QED BY <1>8, <2>1, <4>1
      <3> QED
        BY <1>1, <1>5, <1>10, <2>4, <3>2, <3>3, <3>4 DEF Decided, Downloading, Working
    <2> QED BY <1>10, <2>2, <2>3, <2>4 DEF Decided
  <1>11. CASE Received
    <2>1. PICK k \in 1 .. Len(s2c') :
                /\ k = Len(s2c) + 1 /\ s2c'[k].code = srv.out
                /\ Opens(s2c', k, cli'.no) /\ QuietAfter(s2c', k)
      BY <1>9, <1>11 DEF Received
    <2>2. s2c'[k].code = "OK" =>
                \/ cli'.pc \in {"answer", "errack"}
                \/ cli'.pc = "result" /\ Stored'
      BY <1>1, <1>11, <2>1 DEF Received, Stored
    <2> QED BY <1>1, <1>5, <1>11, <2>1, <2>2 DEF Received, Finished, Working
  <1>12. CASE Downloading
    <2>1. PICK k \in 0 .. Len(s2c) :
            /\ Started(k) /\ Data(s2c, k, Len(s2c), cli.no)
            /\ srv.n + k = cli.n + Len(s2c)
      BY <1>12 DEF Downloading
    <2>2. srv.out = "ERR" /\ srv.then = "select" /\ srv.no = cli.no
      BY <1>1, <1>12 DEF Downloading
    <2>3. Started(k)' BY <1>1, <1>6, <1>7, <2>1, StartedAppend
    <2>4. Data(s2c', k, Len(s2c), cli.no) BY <1>8, <2>1 DEF Data
    <2> DEFINE b == Len(s2c')
    <2>5. /\ k \in 0 .. Len(s2c') /\ b \in k + 1 .. Len(s2c')
          /\ s2c'[b].code = "ERR" /\ s2c'[b].no = cli'.no
          /\ QuietAfter(s2c', b) /\ Data(s2c', k, b - 1, cli'.no)
      BY <1>1, <1>6, <1>8, <2>1, <2>2, <2>4 DEF QuietAfter
    <2> HIDE DEF b
    <2>6. \E j \in 0 .. Len(s2c') : \E e \in j + 1 .. Len(s2c') :
                /\ StreamEnds(j, e)'
                /\ s2c'[e].code = "END" => srv'.n + j + 1 = cli'.n + e
      BY <2>3, <2>5 DEF StreamEnds
    <2> QED BY <1>1, <1>5, <1>12, <2>2, <2>6 DEF Downloading, Streamed, Working
  <1> QED BY <1>2, <1>10, <1>11, <1>12

LEMMA StageStore ==
    ASSUME DialogueTypes, Working, SrvReceive
    PROVE  Working'
  <1>1. /\ srv.pc = "recv" /\ c2s # <<>> /\ c2s' = Tail(c2s) /\ c2s \in Seq(AnyFrame)
        /\ UNCHANGED <<s2c, cli>>
    BY DEF DialogueTypes, SrvReceive
  <1>2. Uploading
    BY <1>1 DEF Working, Resting, Asked, Decided, Finished, ReadyToReceive, Received,
                Downloading, Streamed
  <1>3. /\ Len(c2s) \in Nat /\ Len(c2s) >= 1 /\ Len(c2s') = Len(c2s) - 1
        /\ Head(c2s) = c2s[1]
        /\ \A i \in 1 .. Len(c2s) - 1 : c2s'[i] = c2s[i + 1]
    BY <1>1, HeadAndTail
  <1>4. srv.n \in Nat /\ cli.n \in Nat BY Fields
  <1>5. CASE cli.pc = "sending"
    <2>1. Data(c2s, 0, Len(c2s), cli.no) /\ srv.n + Len(c2s) = cli.n
      BY <1>2, <1>5 DEF Uploading
    <2>2. Head(c2s).code = "DATA" BY <1>3, <2>1 DEF Data
    <2>3. srv'.no = srv.no /\ srv'.pc = "recv" /\ srv'.n = srv.n + 1
      BY <2>2, RecvFields
    <2>4. Data(c2s', 0, Len(c2s'), cli.no)
      <3>1. ASSUME NEW i \in 0 + 1 .. Len(c2s')
            PROVE  c2s'[i].code = "DATA" /\ c2s'[i].no = cli.no
        <4>1. i + 1 \in 0 + 1 .. Len(c2s) /\ i \in 1 .. Len(c2s) - 1 BY <1>3
        <4> QED BY <1>3, <2>1, <4>1 DEF Data
      <3> QED BY <3>1 DEF Data
    <2>5. (srv.n + 1) + Len(c2s') = cli.n BY <1>3, <1>4, <2>1
    <2> QED BY <1>1, <1>2, <1>5, <2>3, <2>4, <2>5 DEF Uploading, Working
  <1>6. CASE cli.pc # "sending" /\ Len(c2s) > 1
    <2>1. /\ Data(c2s, 0, Len(c2s) - 1, cli.no) /\ srv.n + Len(c2s) = cli.n + 1
          /\ c2s[Len(c2s)].code = IF cli.pc = "result" THEN "END" ELSE "ERR"
          /\ c2s[Len(c2s)].no = cli.no
      BY <1>2, <1>6 DEF Uploading
    <2>2. Head(c2s).code = "DATA" BY <1>3, <1>6, <2>1 DEF Data
    <2>3. srv'.no = srv.no /\ srv'.pc = "recv" /\ srv'.n = srv.n + 1
      BY <2>2, RecvFields
    <2>4. Len(c2s') > 0 /\ c2s'[Len(c2s')] = c2s[Len(c2s)] BY <1>3, <1>6
    <2>5. Data(c2s', 0, Len(c2s') - 1, cli.no)
      <3>1. ASSUME NEW i \in 0 + 1 .. Len(c2s') - 1
            PROVE  c2s'[i].code = "DATA" /\ c2s'[i].no = cli.no
        <4>1. i + 1 \in 0 + 1 .. Len(c2s) - 1 /\ i \in 1 .. Len(c2s) - 1 BY <1>3
        <4> QED BY <1>3, <2>1, <4>1 DEF Data
      <3> QED BY <3>1 DEF Data
    <2>6. (srv.n + 1) + Len(c2s') = cli.n + 1 BY <1>3, <1>4, <2>1
    <2> QED BY <1>1, <1>2, <1>6, <2>1, <2>3, <2>4, <2>5, <2>6 DEF Uploading, Working
  <1>7. CASE cli.pc # "sending" /\ Len(c2s) = 1
    <2>1. /\ srv.n + 1 = cli.n + 1 /\ srv.no = cli.no
          /\ Head(c2s).code = IF cli.pc = "result" THEN "END" ELSE "ERR"
      BY <1>2, <1>3, <1>7 DEF Uploading
    <2>2. /\ srv'.no = srv.no /\ srv'.pc = "answer" /\ srv'.then = "select"
          /\ Head(c2s).code = "END" /\ srv'.out = "OK" =>
                stored' = [no |-> srv.no, n |-> srv.n]
      BY <2>1, RecvFields
    <2>3. c2s' = <<>>
      <3>1. Len(c2s') = 0 /\ c2s' \in Seq(AnyFrame) BY <1>1, <1>3, <1>7, HeadAndTail
      <3> QED BY <3>1
    <2>4. srv.n = cli.n BY <1>4, <2>1
    <2>5. cli'.pc = "result" /\ srv'.out = "OK" => Stored'
      BY <1>1, <2>1, <2>2, <2>4 DEF Stored
    <2> QED BY <1>1, <1>2, <1>7, <2>1, <2>2, <2>3, <2>5 DEF Uploading, Received, Working
  <1> QED BY <1>3, <1>5, <1>6, <1>7

LEMMA StageStream ==
    ASSUME DialogueTypes, up, Working, SrvStream
    PROVE  Working'
  <1>1. srv.pc = "stream" /\ s2c \in Seq(AnyFrame) /\ UNCHANGED <<c2s, cli>>
    BY DEF DialogueTypes, SrvStream
  <1>2. Downloading
    BY <1>1 DEF Working, Resting, Asked, Decided, Finished, ReadyToReceive, Uploading,
                Received, Streamed
  <1>3. PICK k \in 0 .. Len(s2c) :
            /\ Started(k) /\ Data(s2c, k, Len(s2c), cli.no)
            /\ srv.n + k = cli.n + Len(s2c)
    BY <1>2 DEF Downloading
  <1>4. srv.no = cli.no /\ c2s = <<>> BY <1>2 DEF Downloading
  <1>5. srv \in SrvState /\ srv.n \in Nat /\ cli.n \in Nat /\ srv.no \in Nat
    BY Fields DEF DialogueTypes
  <1>6. ASSUME NEW code \in {"DATA", "END"}, s2c' = Sent(s2c, Frame(code, srv.no, 0))
        PROVE  /\ Len(s2c) \in Nat /\ Len(s2c') = Len(s2c) + 1
               /\ \A i \in 1 .. Len(s2c) : s2c'[i] = s2c[i]
               /\ s2c'[Len(s2c) + 1].code = code /\ s2c'[Len(s2c) + 1].no = cli.no
               /\ Started(k)'
    <2> DEFINE f == Frame(code, srv.no, 0)
    <2>1. f \in AnyFrame /\ f.code = code /\ f.no = srv.no
      <3>1. code \in Codes BY DEF Codes
      <3> QED BY <1>5, <3>1, FrameTypes
    <2>2. s2c' = Append(s2c, f) BY <1>6 DEF Sent
    <2> HIDE DEF f
    <2>3. Started(k)' BY <1>1, <1>3, <2>1, <2>2, StartedAppend
    <2> QED BY <1>1, <1>4, <2>1, <2>2, <2>3, Appended
  <1>7. CASE s2c' = Sent(s2c, Frame("DATA", srv.no, 0)) /\ srv' = [srv EXCEPT !.n = @ + 1]
    <2>1. /\ Len(s2c) \in Nat /\ Len(s2c') = Len(s2c) + 1
          /\ \A i \in 1 .. Len(s2c) : s2c'[i] = s2c[i]
          /\ s2c'[Len(s2c) + 1].code = "DATA" /\ s2c'[Len(s2c) + 1].no = cli.no
          /\ Started(k)'
      BY <1>6, <1>7
    <2>2. srv'.pc = "stream" /\ srv'.no = srv.no /\ srv'.n = srv.n + 1
      BY <1>1, <1>5, <1>7 DEF SrvState
    <2>3. Data(s2c', k, Len(s2c'), cli.no)
      <3>1. ASSUME NEW i \in k + 1 .. Len(s2c')
            PROVE  s2c'[i].code = "DATA" /\ s2c'[i].no = cli.no
        <4>1. CASE i = Len(s2c) + 1 BY <2>1, <4>1
        <4>2. CASE i # Len(s2c) + 1
          <5>1. i \in k + 1 .. Len(s2c) /\ i \in 1 .. Len(s2c) BY <1>3, <2>1, <4>2
          <5> QED BY <1>3, <2>1, <5>1 DEF Data
        <4> QED BY <4>1, <4>2
      <3> QED BY <3>1 DEF Data
    <2>4. (srv.n + 1) + k = cli.n + Len(s2c')
      <3>1. k \in Nat /\ Len(s2c) \in Nat /\ Len(s2c') = Len(s2c) + 1 BY <2>1
      <3>2. srv.n + k = cli.n + Len(s2c) BY <1>3
      <3> QED BY <1>5, <3>1, <3>2
    <2>5. k \in 0 .. Len(s2c') BY <2>1
    <2> QED BY <1>1, <1>4, <2>1, <2>2, <2>3, <2>4, <2>5 DEF Downloading, Working
  <1>8. CASE s2c' = Sent(s2c, Frame("END", srv.no, 0)) /\ srv' = [srv EXCEPT !.pc = "select"]
    <2>1. /\ Len(s2c) \in Nat /\ Len(s2c') = Len(s2c) + 1
          /\ \A i \in 1 .. Len(s2c) : s2c'[i] = s2c[i]
          /\ s2c'[Len(s2c) + 1].code = "END" /\ s2c'[Len(s2c) + 1].no = cli.no
          /\ Started(k)'
      BY <1>6, <1>8
    <2>2. srv'.pc = "select" /\ srv'.no = srv.no /\ srv'.n = srv.n
      BY <1>1, <1>5, <1>8 DEF SrvState
    <2>3. Data(s2c', k, Len(s2c), cli.no)
      <3>1. ASSUME NEW i \in k + 1 .. Len(s2c)
            PROVE  s2c'[i].code = "DATA" /\ s2c'[i].no = cli.no
        BY <1>3, <2>1 DEF Data
      <3> QED BY <3>1 DEF Data
    <2>4. srv.n + k + 1 = cli.n + Len(s2c') BY <1>3, <1>5, <2>1
    <2> DEFINE b == Len(s2c')
    <2>5. /\ k \in 0 .. Len(s2c') /\ b \in k + 1 .. Len(s2c')
          /\ s2c'[b].code = "END" /\ s2c'[b].no = cli'.no
          /\ QuietAfter(s2c', b) /\ Data(s2c', k, b - 1, cli'.no)
          /\ srv'.n + k + 1 = cli'.n + b
      BY <1>1, <2>1, <2>2, <2>3, <2>4 DEF QuietAfter
    <2> HIDE DEF b
    <2>6. \E j \in 0 .. Len(s2c') : \E e \in j + 1 .. Len(s2c') :
                /\ StreamEnds(j, e)'
                /\ s2c'[e].code = "END" => srv'.n + j + 1 = cli'.n + e
      BY <2>1, <2>5 DEF StreamEnds
    <2> QED BY <1>1, <1>4, <2>2, <2>6 DEF Streamed, Working
  <1>9. CASE srv' = Answer(srv, "ERR", "select") /\ UNCHANGED s2c
    <2>1. /\ srv'.pc = "answer" /\ srv'.out = "ERR" /\ srv'.then = "select"
          /\ srv'.no = srv.no /\ srv'.n = srv.n
      BY <1>5, <1>9, AnswerIs
    <2> QED BY <1>1, <1>2, <1>9, <2>1 DEF Downloading, Started, Working
  <1> QED BY <1>7, <1>8, <1>9 DEF SrvStream

LEMMA StageNotify ==
    ASSUME DialogueTypes, up, Working, SrvNotify,
           s2c' = Append(s2c, Frame("NOTIFY", 0, 0))
    PROVE  Working'
  <1> DEFINE f == Frame("NOTIFY", 0, 0)
  <1>1. /\ s2c \in Seq(AnyFrame) /\ srv.pc = "select" /\ s2c' = Append(s2c, f)
        /\ UNCHANGED <<c2s, cli, srv, stored>>
    BY DEF DialogueTypes, SrvNotify
  <1>2. f \in AnyFrame /\ f.code = "NOTIFY" BY FrameTypes DEF Codes
  <1> HIDE DEF f
  <1>3. /\ Len(s2c) \in Nat /\ Len(s2c') = Len(s2c) + 1
        /\ \A i \in 1 .. Len(s2c) : s2c'[i] = s2c[i]
    BY <1>1, <1>2, Appended
  <1>4. Quiet(s2c) => Quiet(s2c') BY <1>1, <1>2, QuietAppend
  <1>5. CASE Resting BY <1>1, <1>4, <1>5 DEF Resting, Working
  <1>6. CASE Asked BY <1>1, <1>4, <1>6 DEF Asked, Working
  <1>7. CASE Finished
    <2>1. PICK k \in 1 .. Len(s2c) :
            /\ Opens(s2c, k, cli.no) /\ QuietAfter(s2c, k)
            /\ s2c[k].code = "OK" =>
                  \/ cli.pc \in {"answer", "errack"}
                  \/ cli.pc = "result" /\ Stored
      BY <1>7 DEF Finished
    <2>2. /\ Opens(s2c', k, cli.no) /\ QuietAfter(s2c', k)
          /\ s2c'[k] = s2c[k] /\ k \in 1 .. Len(s2c')
      BY <1>1, <1>2, <1>3, <2>1, OpensAppend, QuietAfterAppend
    <2> QED BY <1>1, <1>7, <2>1, <2>2 DEF Finished, Stored, Working
  <1>8. CASE Streamed
    <2>1. PICK k \in 0 .. Len(s2c) : \E b \in k + 1 .. Len(s2c) :
            /\ StreamEnds(k, b)
            /\ s2c[b].code = "END" => srv.n + k + 1 = cli.n + b
      BY <1>8 DEF Streamed
    <2>2. PICK b \in k + 1 .. Len(s2c) :
            /\ StreamEnds(k, b)
            /\ s2c[b].code = "END" => srv.n + k + 1 = cli.n + b
      BY <2>1
    <2>3. Started(k)' BY <1>1, <1>2, <2>2, StartedAppend DEF StreamEnds
    <2>4. b \in 1 .. Len(s2c) /\ b \in k + 1 .. Len(s2c') /\ k \in 0 .. Len(s2c')
      BY <1>3
    <2>5. s2c'[b] = s2c[b] BY <1>3, <2>4
    <2>6. QuietAfter(s2c', b)
      BY <1>1, <1>2, <2>2, <2>4, QuietAfterAppend DEF StreamEnds
    <2>7. Data(s2c', k, b - 1, cli.no)
      <3>1. ASSUME NEW i \in k + 1 .. b - 1
            PROVE  s2c'[i].code = "DATA" /\ s2c'[i].no = cli.no
        <4>1. i \in 1 .. Len(s2c) BY <1>3, <2>4
        <4> QED BY <1>3, <2>2, <4>1 DEF StreamEnds, Data
      <3> QED BY <3>1 DEF Data
    <2>8. StreamEnds(k, b)' BY <1>1, <2>2, <2>3, <2>5, <2>6, <2>7 DEF StreamEnds
    <2> QED BY <1>1, <1>8, <2>2, <2>4, <2>5, <2>8 DEF Streamed, Working
  <1>9. Resting \/ Asked \/ Finished \/ Streamed
    BY <1>1 DEF Working, Decided, ReadyToReceive, Uploading, Received, Downloading
  <1> QED BY <1>5, <1>6, <1>7, <1>8, <1>9

(* A line is a notification, or the outcome that is awaited, or stray.       *)
LEMMA LineSent ==
    ASSUME up, ~stray', SrvNotify
    PROVE  \/ s2c' = Append(s2c, Frame("NOTIFY", 0, 0)) /\ awaited' = awaited
           \/ \E no \in awaited, code \in {"OK", "ERR"} :
                /\ s2c' = Append(s2c, Frame(code, no, 0))
                /\ awaited' = awaited \ {no}
  BY DEF SrvNotify, Sent

(* A client that waits for the receiver gets notifications, or the outcome.  *)
LEMMA WaitingKept ==
    ASSUME DialogueTypes, Waiting, up, up', ~stray', Next
    PROVE  Stage'
  <1>1. /\ cli.pc = "answer" /\ srv.pc = "select" /\ awaited = {cli.no}
        /\ c2s = <<>> /\ Quiet(s2c) /\ s2c \in Seq(AnyFrame) /\ cli.no \in Nat
    BY Fields DEF Waiting, DialogueTypes
  <1>2. CliResponse \/ SrvNotify
    BY <1>1 DEF Next, CliStep, SrvStep, CliCommand, CliSend, CliReceive, CliUnasked,
           CliExit, CliBroken, CliServerClosed, SrvCommand, SrvAnswer, SrvReceive,
           SrvStream, SrvBroken, Break
  <1>3. CASE CliResponse
    <2>1. s2c # <<>> /\ s2c' = Tail(s2c) /\ UNCHANGED <<c2s, srv, awaited>>
      BY <1>3 DEF CliResponse, requests
    <2>2. Quiet(s2c') /\ cli' = cli BY <1>1, <1>3, <2>1, QuietTail, ResponseFields
    <2> QED BY <1>1, <2>1, <2>2 DEF Waiting, Stage
  <1>4. CASE SrvNotify
    <2>1. UNCHANGED <<c2s, cli, srv>> BY <1>4 DEF SrvNotify
    <2>2. CASE s2c' = Append(s2c, Frame("NOTIFY", 0, 0)) /\ awaited' = awaited
      <3>1. Quiet(s2c') BY <1>1, <2>2, FrameTypes, QuietAppend DEF Codes
      <3> QED BY <1>1, <2>1, <2>2, <3>1 DEF Waiting, Stage
    <2>3. CASE \E code \in {"OK", "ERR"} :
                /\ s2c' = Append(s2c, Frame(code, cli.no, 0))
                /\ awaited' = awaited \ {cli.no}
      <3>1. PICK code \in {"OK", "ERR"} : s2c' = Append(s2c, Frame(code, cli.no, 0))
        BY <2>3
      <3> DEFINE f == Frame(code, cli.no, 0)
      <3>2. f \in AnyFrame /\ f.code = code /\ f.no = cli.no
        BY <1>1, FrameTypes DEF Codes
      <3> HIDE DEF f
      <3>3. s2c' = Append(s2c, f) BY <3>1 DEF f
      <3>4. Len(s2c) + 1 \in 1 .. Len(s2c') BY <1>1, <3>2, <3>3, Appended
      <3>5. Opens(s2c', Len(s2c) + 1, cli.no) /\ QuietAfter(s2c', Len(s2c) + 1)
        BY <1>1, <3>2, <3>3, QuietAppend
      <3>6. Finished' BY <1>1, <2>1, <3>4, <3>5 DEF Finished
      <3> QED BY <1>1, <2>3, <3>6 DEF Stage, Working
    <2> QED BY <1>1, <1>4, <2>2, <2>3, LineSent
  <1> QED BY <1>2, <1>3, <1>4

-----------------------------------------------------------------------------
(* A connection that breaks, and the steps after that *)

(* What the client may read does not depend on a server that is still at     *)
(* work, nor on one that closes.                                             *)
LEMMA ReadsStay ==
    ASSUME ClientReads, UNCHANGED <<s2c, cli>>,
           \/ ~Settled
           \/ Settled' /\ srv'.no = srv.no /\ srv'.n = srv.n /\ stored' = stored
    PROVE  ClientReads'
  <1>1. CASE ~Settled BY <1>1 DEF ClientReads, Started
  <1>2. CASE Settled' /\ srv'.no = srv.no /\ srv'.n = srv.n /\ stored' = stored
    BY <1>2 DEF ClientReads, Started, Stored
  <1> QED BY <1>1, <1>2

LEMMA IdleQuiet ==
    ASSUME ClientReads, cli.pc \in {"idle", "sending"}
    PROVE  Quiet(s2c)
  BY DEF ClientReads, Started

LEMMA SettledBreak ==
    ASSUME DialogueTypes, Break, Settled
    PROVE  Settled'
  <1>1. Len(c2s) = 0 /\ UNCHANGED srv BY DEF Settled, Break
  <1>2. PICK i \in 0 .. Len(c2s) : c2s' = SubSeq(c2s, 1, i) BY DEF Break
  <1>3. c2s' \in Seq(AnyFrame) /\ Len(c2s') = 0
    BY <1>1, <1>2, Prefix DEF DialogueTypes
  <1> QED BY <1>1, <1>3 DEF Settled

LEMMA BreakClient ==
    ASSUME DialogueTypes, ClientReads, Break
    PROVE  ClientReads'
  <1>1. UNCHANGED <<cli, srv, stored>> /\ s2c \in Seq(AnyFrame)
    BY DEF Break, DialogueTypes
  <1>2. PICK j \in 0 .. Len(s2c) : s2c' = SubSeq(s2c, 1, j) BY DEF Break
  <1>3. /\ Len(s2c) \in Nat /\ Len(s2c') = j /\ j \in 0 .. Len(s2c)
        /\ \A i \in 1 .. j : s2c'[i] = s2c[i]
    BY <1>1, <1>2, Prefix
  <1>4. CASE cli.pc = "closed" BY <1>1, <1>4 DEF ClientReads
  <1>5. CASE Quiet(s2c)
    <2>1. Quiet(s2c') BY <1>3, <1>5 DEF Quiet
    <2> QED BY <2>1 DEF ClientReads
  <1>6. CASE /\ cli.pc \in {"answer", "ready", "size", "result", "errack"}
             /\ \E k \in 1 .. Len(s2c) :
                    /\ Opens(s2c, k, cli.no) /\ QuietAfter(s2c, k)
                    /\ s2c[k].code = "OK" /\ cli.pc \in {"answer", "result"} =>
                          Settled /\ (cli.pc = "result" => Stored)
    <2>1. PICK k \in 1 .. Len(s2c) :
                    /\ Opens(s2c, k, cli.no) /\ QuietAfter(s2c, k)
                    /\ s2c[k].code = "OK" /\ cli.pc \in {"answer", "result"} =>
                          Settled /\ (cli.pc = "result" => Stored)
      BY <1>6
    <2>2. CASE k <= j
      <3>1. Opens(s2c', k, cli.no) /\ QuietAfter(s2c', k) /\ s2c'[k] = s2c[k]
            /\ k \in 1 .. Len(s2c')
        BY <1>3, <2>1, <2>2 DEF Opens, QuietAfter
      <3> QED BY <1>1, <1>6, <2>1, <3>1, SettledBreak DEF ClientReads, Stored
    <2>3. CASE ~(k <= j)
      <3>1. Quiet(s2c') BY <1>3, <2>1, <2>3 DEF Opens, Quiet
      <3> QED BY <3>1 DEF ClientReads
    <2> QED BY <2>2, <2>3
  <1>7. CASE \E k \in 0 .. Len(s2c) : \E b \in k + 1 .. Len(s2c) :
                /\ Started(k) /\ Data(s2c, k, b - 1, cli.no)
                /\ s2c[b].code \in {"DATA", "END", "ERR"} /\ s2c[b].no = cli.no
                /\ QuietAfter(s2c, b)
                /\ s2c[b].code = "END" =>
                      Settled /\ srv.no = cli.no /\ srv.n + k + 1 = cli.n + b
    <2>1. PICK k \in 0 .. Len(s2c) : \E b \in k + 1 .. Len(s2c) :
                /\ Started(k) /\ Data(s2c, k, b - 1, cli.no)
                /\ s2c[b].code \in {"DATA", "END", "ERR"} /\ s2c[b].no = cli.no
                /\ QuietAfter(s2c, b)
                /\ s2c[b].code = "END" =>
                      Settled /\ srv.no = cli.no /\ srv.n + k + 1 = cli.n + b
      BY <1>7
    <2>2. PICK b \in k + 1 .. Len(s2c) :
                /\ Started(k) /\ Data(s2c, k, b - 1, cli.no)
                /\ s2c[b].code \in {"DATA", "END", "ERR"} /\ s2c[b].no = cli.no
                /\ QuietAfter(s2c, b)
                /\ s2c[b].code = "END" =>
                      Settled /\ srv.no = cli.no /\ srv.n + k + 1 = cli.n + b
      BY <2>1
    <2>3. k \in Nat /\ b \in Nat /\ k < b BY <2>2
    <2>4. CASE cli.pc = "size" /\ Opens(s2c, k, cli.no) /\ j < k
      <3>1. Quiet(s2c') BY <1>3, <2>4 DEF Opens, Quiet
      <3> QED BY <3>1 DEF ClientReads
    <2>5. CASE cli.pc = "size" /\ Opens(s2c, k, cli.no) /\ j = k
      <3>1. /\ Opens(s2c', k, cli.no) /\ QuietAfter(s2c', k) /\ k \in 1 .. Len(s2c')
        BY <1>3, <2>5 DEF Opens, QuietAfter
      <3> QED BY <1>1, <2>5, <3>1 DEF ClientReads
    <2>6. CASE k < j
      <3>1. Started(k)'
        <4>1. CASE cli.pc = "receiving" /\ k = 0 BY <1>1, <4>1 DEF Started
        <4>2. CASE cli.pc = "size" /\ Opens(s2c, k, cli.no) /\ s2c[k].code = "OK"
          BY <1>1, <1>3, <2>6, <4>2 DEF Started, Opens
        <4> QED BY <2>2, <4>1, <4>2 DEF Started
      <3>2. CASE b <= j
        <4>1. b \in 1 .. j BY <1>3, <2>3, <3>2
        <4>2. s2c'[b] = s2c[b] /\ QuietAfter(s2c', b) BY <1>3, <2>2, <4>1 DEF QuietAfter
        <4>3. Data(s2c', k, b - 1, cli.no)
          <5>1. ASSUME NEW i \in k + 1 .. b - 1
                PROVE  s2c'[i].code = "DATA" /\ s2c'[i].no = cli.no
            <6>1. i \in 1 .. j BY <2>3, <4>1
            <6> QED BY <1>3, <2>2, <6>1 DEF Data
          <5> QED BY <5>1 DEF Data
        <4>4. k \in 0 .. Len(s2c') /\ b \in k + 1 .. Len(s2c') BY <1>3, <2>3, <3>2
        <4>5. s2c'[b].code = "END" =>
                  Settled' /\ srv'.no = cli'.no /\ srv'.n + k + 1 = cli'.n + b
          BY <1>1, <2>2, <4>2, SettledBreak
        <4> QED BY <1>1, <2>2, <3>1, <4>2, <4>3, <4>4, <4>5 DEF ClientReads
      <3>3. CASE j < b
        <4>1. k \in 0 .. Len(s2c') /\ j \in k + 1 .. Len(s2c') /\ j \in 1 .. j
          BY <1>3, <2>3, <2>6
        <4>2. \A i \in k + 1 .. j : s2c[i].code = "DATA" /\ s2c[i].no = cli.no
          BY <1>3, <2>2, <2>3, <3>3 DEF Data
        <4>3. s2c'[j].code = "DATA" /\ s2c'[j].no = cli'.no
          BY <1>1, <1>3, <4>1, <4>2
        <4>4. Data(s2c', k, j - 1, cli'.no)
          <5>1. ASSUME NEW i \in k + 1 .. j - 1
                PROVE  s2c'[i].code = "DATA" /\ s2c'[i].no = cli.no
            <6>1. i \in 1 .. j /\ i \in k + 1 .. j BY <1>3, <2>3
            <6> QED BY <1>3, <4>2, <6>1
          <5> QED BY <1>1, <5>1 DEF Data
        <4>5. QuietAfter(s2c', j) BY <1>3 DEF QuietAfter
        <4> QED BY <3>1, <4>1, <4>3, <4>4, <4>5 DEF ClientReads
      <3> QED BY <1>3, <2>3, <3>2, <3>3
    <2>7. CASE cli.pc = "receiving" /\ k = 0 /\ j = 0
      <3>1. Quiet(s2c') BY <1>3, <2>7 DEF Quiet
      <3> QED BY <3>1 DEF ClientReads
    <2> QED BY <1>3, <2>2, <2>3, <2>4, <2>5, <2>6, <2>7 DEF Started
  <1> QED BY <1>4, <1>5, <1>6, <1>7 DEF ClientReads

LEMMA BreakServer ==
    ASSUME DialogueTypes, ServerReads, Break
    PROVE  ServerReads'
  <1>1. UNCHANGED srv /\ c2s \in Seq(AnyFrame)
    BY DEF Break, DialogueTypes
  <1>2. PICK j \in 0 .. Len(c2s) : c2s' = SubSeq(c2s, 1, j) BY DEF Break
  <1>3. /\ Len(c2s) \in Nat /\ Len(c2s') = j /\ j \in 0 .. Len(c2s)
        /\ \A i \in 1 .. j : c2s'[i] = c2s[i] /\ c2s' \in Seq(AnyFrame)
    BY <1>1, <1>2, Prefix
  <1>4. CASE j = 0
    <2>1. c2s' = <<>> BY <1>1, <1>2, <1>3, <1>4, Prefix
    <2> QED BY <2>1 DEF ServerReads
  <1>5. CASE j # 0 /\ srv.pc = "select" /\ Len(c2s) = 1 /\ c2s[1].code = "CMD"
    BY <1>1, <1>3, <1>5 DEF ServerReads
  <1>6. CASE /\ srv.pc = "recv"
             /\ \A i \in 1 .. Len(c2s) :
                    /\ c2s[i].code \in {"DATA", "END", "ERR"} /\ c2s[i].no = srv.no
                    /\ i < Len(c2s) => c2s[i].code = "DATA"
    BY <1>1, <1>3, <1>6 DEF ServerReads
  <1>7. CASE c2s = <<>> BY <1>3, <1>4, <1>7
  <1> QED BY <1>4, <1>5, <1>6, <1>7 DEF ServerReads

LEMMA BrokenResponse ==
    ASSUME DialogueTypes, ClientReads, CliResponse
    PROVE  ClientReads'
  <1>1. /\ s2c \in Seq(AnyFrame) /\ s2c # <<>> /\ s2c' = Tail(s2c)
        /\ cli.pc \in {"answer", "ready", "size", "result", "errack"}
        /\ UNCHANGED <<c2s, srv, stored>>
    BY DEF DialogueTypes, CliResponse
  <1>2. /\ Len(s2c) \in Nat /\ Len(s2c') = Len(s2c) - 1 /\ Head(s2c) = s2c[1]
        /\ \A i \in 1 .. Len(s2c) - 1 : s2c'[i] = s2c[i + 1]
    BY <1>1, HeadAndTail
  <1>3. CASE Quiet(s2c)
    <2>1. Quiet(s2c') BY <1>1, <1>3, QuietTail
    <2> QED BY <2>1 DEF ClientReads
  <1>4. CASE \E k \in 1 .. Len(s2c) :
                /\ Opens(s2c, k, cli.no) /\ QuietAfter(s2c, k)
                /\ s2c[k].code = "OK" /\ cli.pc \in {"answer", "result"} =>
                      Settled /\ (cli.pc = "result" => Stored)
    <2>1. PICK k \in 1 .. Len(s2c) :
                /\ Opens(s2c, k, cli.no) /\ QuietAfter(s2c, k)
                /\ s2c[k].code = "OK" /\ cli.pc \in {"answer", "result"} =>
                      Settled /\ (cli.pc = "result" => Stored)
      BY <1>4
    <2>2. CASE k = 1
      <3>1. Quiet(s2c') BY <1>1, <2>1, <2>2, QuietAfterTail
      <3> QED BY <3>1 DEF ClientReads
    <2>3. CASE k # 1
      <3>1. /\ Head(s2c).code = "NOTIFY" /\ k - 1 \in 1 .. Len(s2c')
            /\ Opens(s2c', k - 1, cli.no) /\ s2c'[k - 1] = s2c[k]
        BY <1>1, <2>1, <2>3, OpensTail
      <3>2. QuietAfter(s2c', k - 1) BY <1>1, <2>1, QuietAfterTail
      <3>3. cli' = cli BY <3>1, ResponseFields
      <3> QED BY <1>1, <2>1, <3>1, <3>2, <3>3 DEF ClientReads, Settled, Stored
    <2> QED BY <2>2, <2>3
  <1>5. CASE \E k \in 0 .. Len(s2c) : \E b \in k + 1 .. Len(s2c) :
                /\ Started(k) /\ Data(s2c, k, b - 1, cli.no)
                /\ s2c[b].code \in {"DATA", "END", "ERR"} /\ s2c[b].no = cli.no
                /\ QuietAfter(s2c, b)
                /\ s2c[b].code = "END" =>
                      Settled /\ srv.no = cli.no /\ srv.n + k + 1 = cli.n + b
    <2>1. PICK k \in Nat : k \in 0 .. Len(s2c) /\ \E b \in k + 1 .. Len(s2c) :
                /\ Started(k) /\ Data(s2c, k, b - 1, cli.no)
                /\ s2c[b].code \in {"DATA", "END", "ERR"} /\ s2c[b].no = cli.no
                /\ QuietAfter(s2c, b)
                /\ s2c[b].code = "END" =>
                      Settled /\ srv.no = cli.no /\ srv.n + k + 1 = cli.n + b
      BY <1>5
    <2>2. PICK b \in Nat :
                /\ b \in k + 1 .. Len(s2c) /\ Started(k) /\ Data(s2c, k, b - 1, cli.no)
                /\ s2c[b].code \in {"DATA", "END", "ERR"} /\ s2c[b].no = cli.no
                /\ QuietAfter(s2c, b)
                /\ s2c[b].code = "END" =>
                      Settled /\ srv.no = cli.no /\ srv.n + k + 1 = cli.n + b
      BY <2>1
    <2>3. cli.pc = "size" /\ k \in 1 .. Len(s2c) /\ Started(k)
      BY <1>1, <2>1, <2>2 DEF Started, Opens
    <2>4. Data(s2c', k - 1, b - 2, cli.no)
      <3>1. k \in Nat /\ b \in Nat /\ k >= 1 /\ b <= Len(s2c) BY <2>2, <2>3
      <3>2. ASSUME NEW i \in (k - 1) + 1 .. b - 2
            PROVE  s2c'[i].code = "DATA" /\ s2c'[i].no = cli.no
        <4>1. i + 1 \in k + 1 .. b - 1 /\ i \in 1 .. Len(s2c) - 1
          BY <1>2, <3>1
        <4> QED BY <1>2, <2>2, <4>1 DEF Data
      <3> QED BY <3>2 DEF Data
    <2>5. QuietAfter(s2c', b - 1) /\ s2c'[b - 1] = s2c[b] /\ b - 1 \in k .. Len(s2c')
      BY <1>1, <1>2, <2>2, <2>3, QuietAfterTail
    <2>6. srv.n \in Nat /\ cli.n \in Nat BY Fields
    <2>7. cli'.no = cli.no /\ cli'.n = cli.n BY ResponseFields
    <2>8. s2c'[b - 1].code = "END" =>
              Settled' /\ srv'.no = cli'.no /\ srv'.n + (k - 1) + 1 = cli'.n + (b - 1)
      <3>1. /\ s2c'[b - 1].code = "END" =>
                  Settled /\ srv.no = cli.no /\ srv.n + k + 1 = cli.n + b
        BY <2>2, <2>5
      <3>2. srv.n + k + 1 = cli.n + b => srv.n + (k - 1) + 1 = cli.n + (b - 1)
        <4>1. k \in Nat /\ b \in Nat BY <2>2
        <4> QED BY <2>6, <4>1, OneFewer
      <3> QED BY <1>1, <2>7, <3>1, <3>2 DEF Settled
    <2>9. Started(k - 1)'
      <3>1. CASE k = 1
        BY <1>2, <2>3, <3>1, ResponseFields DEF Started
      <3>2. CASE k # 1
        <4>1. Head(s2c).code = "NOTIFY" BY <1>1, <2>3, <3>2, OpensTail DEF Started
        <4>2. cli' = cli BY <4>1, ResponseFields
        <4> QED BY <1>1, <2>3, <3>2, <4>2, StartedTail
      <3> QED BY <3>1, <3>2
    <2>10. k - 1 \in 0 .. Len(s2c') /\ b - 1 \in (k - 1) + 1 .. Len(s2c')
      BY <1>2, <2>3, <2>5
    <2>11. Data(s2c', k - 1, (b - 1) - 1, cli'.no) BY <2>2, <2>4, <2>7
    <2> QED BY <2>2, <2>5, <2>7, <2>8, <2>9, <2>10, <2>11 DEF ClientReads
  <1> QED BY <1>1, <1>3, <1>4, <1>5 DEF ClientReads

LEMMA BrokenReceive ==
    ASSUME DialogueTypes, ClientReads, CliReceive
    PROVE  ClientReads'
  <1>1. /\ s2c \in Seq(AnyFrame) /\ s2c # <<>> /\ s2c' = Tail(s2c)
        /\ cli.pc = "receiving" /\ UNCHANGED <<c2s, srv>>
    BY DEF DialogueTypes, CliReceive
  <1>2. /\ Len(s2c) \in Nat /\ Len(s2c) >= 1 /\ Len(s2c') = Len(s2c) - 1
        /\ Head(s2c) = s2c[1]
        /\ \A i \in 1 .. Len(s2c) - 1 : s2c'[i] = s2c[i + 1]
    BY <1>1, HeadAndTail
  <1>3. CASE Quiet(s2c)
    <2>1. Quiet(s2c') BY <1>1, <1>3, QuietTail
    <2> QED BY <2>1 DEF ClientReads
  <1>4. CASE ~Quiet(s2c)
    <2>1. PICK b \in 1 .. Len(s2c) :
                /\ Data(s2c, 0, b - 1, cli.no)
                /\ s2c[b].code \in {"DATA", "END", "ERR"} /\ s2c[b].no = cli.no
                /\ QuietAfter(s2c, b)
                /\ s2c[b].code = "END" =>
                      Settled /\ srv.no = cli.no /\ srv.n + 0 + 1 = cli.n + b
      BY <1>1, <1>4 DEF ClientReads, Started
    <2>2. CASE b = 1
      <3>1. Quiet(s2c') BY <1>1, <2>1, <2>2, QuietAfterTail
      <3> QED BY <3>1 DEF ClientReads
    <2>3. CASE b # 1
      <3>1. Head(s2c).code = "DATA" BY <1>2, <2>1, <2>3 DEF Data
      <3>2. cli'.pc = "receiving" /\ cli'.n = cli.n + 1 /\ cli'.no = cli.no
        BY <3>1, ReceiveFields
      <3>3. /\ b - 1 \in 0 + 1 .. Len(s2c') /\ s2c'[b - 1] = s2c[b]
            /\ QuietAfter(s2c', b - 1)
        BY <1>1, <1>2, <2>1, <2>3, QuietAfterTail
      <3>4. Data(s2c', 0, (b - 1) - 1, cli'.no)
        <4>1. b \in Nat /\ b >= 1 /\ b <= Len(s2c) BY <2>1
        <4>2. ASSUME NEW i \in 0 + 1 .. (b - 1) - 1
              PROVE  s2c'[i].code = "DATA" /\ s2c'[i].no = cli.no
          <5>1. i + 1 \in 0 + 1 .. b - 1 /\ i \in 1 .. Len(s2c) - 1
            BY <1>2, <4>1
          <5> QED BY <1>2, <2>1, <5>1 DEF Data
        <4> QED BY <3>2, <4>2 DEF Data
      <3>5. s2c'[b - 1].code = "END" =>
                Settled' /\ srv'.no = cli'.no /\ srv'.n + 0 + 1 = cli'.n + (b - 1)
        <4>1. s2c[b].code = "END" =>
                  Settled /\ srv.no = cli.no /\ srv.n + 0 + 1 = cli.n + b
          BY <2>1
        <4>2. b \in Nat /\ srv.n \in Nat /\ cli.n \in Nat BY <2>1, Fields
        <4>3. srv.n + 0 + 1 = cli.n + b => srv.n + 0 + 1 = (cli.n + 1) + (b - 1)
          BY <4>2
        <4> QED BY <1>1, <3>2, <3>3, <4>1, <4>3 DEF Settled
      <3>6. Started(0)' /\ 0 \in 0 .. Len(s2c') BY <1>2, <3>2 DEF Started
      <3>7. s2c'[b - 1].code \in {"DATA", "END", "ERR"} /\ s2c'[b - 1].no = cli'.no
        BY <2>1, <3>2, <3>3
      <3> QED BY <3>3, <3>4, <3>5, <3>6, <3>7 DEF ClientReads
    <2> QED BY <2>2, <2>3
  <1> QED BY <1>3, <1>4

(* Every step on a broken connection, and the step that ends the client.     *)
LEMMA BrokenReads ==
    ASSUME DialogueTypes, ClientReads, ServerReads, Next, ~up \/ CliExit
    PROVE  ClientReads' /\ ServerReads'
  <1>1. CASE CliCommand /\ ~up
    <2>1. UNCHANGED <<c2s, s2c, srv>> /\ cli.pc = "idle"
      BY <1>1 DEF CliCommand, Sent
    <2>2. Quiet(s2c') BY <2>1, IdleQuiet
    <2> QED BY <2>1, <2>2 DEF ClientReads, ServerReads
  <1>2. CASE CliResponse
    BY <1>2, BrokenResponse DEF CliResponse, ServerReads
  <1>3. CASE CliReceive
    BY <1>3, BrokenReceive DEF CliReceive, ServerReads
  <1>4. CASE CliUnasked
    <2>1. Quiet(s2c) BY <1>4, IdleQuiet DEF CliUnasked
    <2>2. Quiet(s2c') BY <1>4, <2>1, QuietTail DEF CliUnasked, DialogueTypes
    <2> QED BY <1>4, <2>2 DEF CliUnasked, ClientReads, ServerReads
  <1>5. CASE CliExit
    <2>1. cli' = [cli EXCEPT !.pc = "closed"] /\ cli \in CliState
      BY <1>5 DEF CliExit, DialogueTypes
    <2>2. cli'.pc = "closed" BY <2>1 DEF CliState
    <2> QED BY <1>5, <2>2 DEF CliExit, ClientReads, ServerReads
  <1>6. CASE CliBroken \/ CliServerClosed
    <2>1. UNCHANGED <<c2s, s2c, srv>> /\ (cli.pc = "sending" \/ s2c = <<>>)
      BY <1>6 DEF CliBroken, CliServerClosed
    <2>2. Quiet(s2c') BY <2>1, IdleQuiet DEF Quiet
    <2> QED BY <2>1, <2>2 DEF ClientReads, ServerReads
  <1>7. CASE SrvCommand
    <2>1. /\ srv.pc = "select" /\ c2s # <<>> /\ c2s' = Tail(c2s)
          /\ UNCHANGED <<s2c, cli>> /\ c2s \in Seq(AnyFrame)
      BY <1>7 DEF SrvCommand, DialogueTypes
    <2>2. Len(c2s) = 1 BY <2>1 DEF ServerReads
    <2>3. c2s' = <<>>
      <3>1. Len(c2s') = 0 /\ c2s' \in Seq(AnyFrame) BY <2>1, <2>2, HeadAndTail
      <3> QED BY <3>1
    <2>4. ClientReads' BY <2>1, ReadsStay DEF Settled
    <2> QED BY <2>3, <2>4 DEF ServerReads
  <1>8. CASE SrvAnswer /\ ~up
    <2>1. srv.pc = "answer" /\ UNCHANGED <<c2s, s2c, cli>>
      BY <1>8 DEF SrvAnswer, Sent
    <2>2. ClientReads' BY <2>1, ReadsStay DEF Settled
    <2> QED BY <2>1, <2>2 DEF ServerReads
  <1>9. CASE SrvReceive
    <2>1. /\ srv.pc = "recv" /\ c2s # <<>> /\ c2s' = Tail(c2s)
          /\ UNCHANGED <<s2c, cli>> /\ c2s \in Seq(AnyFrame)
      BY <1>9 DEF SrvReceive, DialogueTypes
    <2>2. ClientReads' BY <2>1, ReadsStay DEF Settled
    <2>3. \A i \in 1 .. Len(c2s) :
            /\ c2s[i].code \in {"DATA", "END", "ERR"} /\ c2s[i].no = srv.no
            /\ i < Len(c2s) => c2s[i].code = "DATA"
      BY <2>1 DEF ServerReads
    <2>4. /\ Len(c2s) \in Nat /\ Len(c2s) >= 1 /\ Len(c2s') = Len(c2s) - 1
          /\ Head(c2s) = c2s[1] /\ c2s' \in Seq(AnyFrame)
          /\ \A i \in 1 .. Len(c2s) - 1 : c2s'[i] = c2s[i + 1]
      BY <2>1, HeadAndTail
    <2>5. CASE Len(c2s) = 1
      <3>1. c2s' = <<>>
        <4>1. Len(c2s') = 0 /\ c2s' \in Seq(AnyFrame) BY <2>4, <2>5
        <4> QED BY <4>1
      <3> QED BY <2>2, <3>1 DEF ServerReads
    <2>6. CASE Len(c2s) # 1
      <3>1. 1 \in 1 .. Len(c2s) /\ 1 < Len(c2s) BY <2>4, <2>6
      <3>2. Head(c2s).code = "DATA" BY <2>3, <2>4, <3>1
      <3>3. srv'.pc = "recv" /\ srv'.no = srv.no BY <1>9, <3>2, RecvFields
      <3>4. ASSUME NEW i \in 1 .. Len(c2s')
            PROVE  /\ c2s'[i].code \in {"DATA", "END", "ERR"} /\ c2s'[i].no = srv'.no
                   /\ i < Len(c2s') => c2s'[i].code = "DATA"
        <4>1. /\ i + 1 \in 1 .. Len(c2s) /\ i \in 1 .. Len(c2s) - 1
              /\ i < Len(c2s') => i + 1 < Len(c2s)
          BY <2>4
        <4> QED BY <2>3, <2>4, <3>3, <4>1
      <3> QED BY <2>2, <3>3, <3>4 DEF ServerReads
    <2> QED BY <2>5, <2>6
  <1>10. CASE SrvStream /\ ~up
    <2>1. srv.pc = "stream" /\ UNCHANGED <<c2s, s2c, cli>>
      BY <1>10 DEF SrvStream
    <2>2. ClientReads' BY <2>1, ReadsStay DEF Settled
    <2> QED BY <2>1, <2>2 DEF ServerReads
  <1>11. CASE SrvNotify /\ ~up
    <2>1. UNCHANGED <<c2s, s2c, cli, srv, stored>> BY <1>11 DEF SrvNotify, Sent
    <2> QED BY <2>1 DEF ClientReads, ServerReads, Started, Settled, Stored
  <1>12. CASE SrvBroken
    <2>1. c2s = <<>> /\ srv' = AfterEof /\ UNCHANGED <<c2s, s2c, cli, stored>>
      BY <1>12 DEF SrvBroken
    <2>2. CASE srv.pc = "select"
      <3>1. srv' = [srv EXCEPT !.pc = "closed"] /\ srv \in SrvState
        BY <2>1, <2>2 DEF AfterEof, DialogueTypes
      <3>2. srv'.pc = "closed" /\ srv'.no = srv.no /\ srv'.n = srv.n
        BY <3>1 DEF SrvState
      <3>3. ClientReads' BY <2>1, <3>2, ReadsStay DEF Settled
      <3> QED BY <2>1, <3>3 DEF ServerReads
    <2>3. CASE srv.pc # "select"
      <3>1. srv.pc # "closed" BY <1>12, <2>1, <2>3 DEF SrvBroken, AfterEof
      <3>2. ClientReads' BY <2>1, <2>3, <3>1, ReadsStay DEF Settled
      <3> QED BY <2>1, <3>2 DEF ServerReads
    <2> QED BY <2>2, <2>3
  <1>13. ~(CliSend /\ ~up) /\ ~(Break /\ ~up)
    BY DEF CliSend, Break
  <1>14. CliExit => UNCHANGED <<c2s, s2c, srv>> /\ cli.pc = "idle" BY DEF CliExit
  <1>15. CASE ~up
    BY <1>1, <1>2, <1>3, <1>4, <1>5, <1>6, <1>7, <1>8, <1>9, <1>10, <1>11, <1>12,
       <1>13, <1>15 DEF Next, CliStep, SrvStep
  <1> QED BY <1>5, <1>15

-----------------------------------------------------------------------------
(* Reports of success *)

LEMMA HonestClient ==
    ASSUME DialogueTypes, ClientPlaces, ~stray, Honest, ClientReads,
           \/ CliCommand \/ CliResponse \/ CliSend \/ CliReceive
           \/ CliUnasked \/ CliExit \/ CliBroken \/ CliServerClosed
    PROVE  Honest'
  <1>1. CASE CliCommand
    <2>1. cli'.ok = FALSE
      <3>1. cli \in CliState BY DEF DialogueTypes
      <3> QED BY <1>1, <3>1 DEF CliCommand, CliState
    <2> QED BY <2>1 DEF Honest, SuccessIsWhole
  <1>2. CASE CliResponse
    <2>1. /\ s2c \in Seq(AnyFrame) /\ s2c # <<>>
          /\ cli.pc \in {"answer", "ready", "size", "result", "errack"}
          /\ UNCHANGED <<c2s, srv, stored>>
      BY <1>2 DEF DialogueTypes, CliResponse
    <2>2. ~cli.ok BY <2>1 DEF ClientPlaces
    <2>3. cli'.no = cli.no /\ cli'.kind = cli.kind /\ cli'.n = cli.n
      BY <1>2, ResponseFields
    <2>4. CASE Head(s2c).code = "OK" /\ cli.pc \in {"answer", "result"}
      <3>1. ~Quiet(s2c)
        BY <2>1, <2>4, QuietTail
      <3>2. PICK k \in 1 .. Len(s2c) :
                /\ Opens(s2c, k, cli.no)
                /\ s2c[k].code = "OK" => Settled /\ (cli.pc = "result" => Stored)
        BY <2>4, <3>1 DEF ClientReads, Started
      <3>3. k = 1 /\ Head(s2c) = s2c[1]
        BY <2>1, <2>4, <3>2, OpensTail, HeadAndTail
      <3>4. Settled /\ (cli.pc = "result" => Stored) BY <2>4, <3>2, <3>3
      <3>5. cli.pc = "answer" => cli.kind \in {"simple", "transfer"}
        BY DEF ClientPlaces
      <3>6. cli.pc = "result" => cli.kind = "put" BY DEF ClientPlaces
      <3> QED BY <2>1, <2>3, <2>4, <3>4, <3>5, <3>6
              DEF Honest, SuccessIsWhole, Settled, Stored, Puts
    <2>5. CASE ~(Head(s2c).code = "OK" /\ cli.pc \in {"answer", "result"})
      <3>1. cli'.ok = cli.ok BY <1>2, <2>1, <2>5, ResponseFields
      <3> QED BY <2>2, <3>1 DEF Honest, SuccessIsWhole
    <2> QED BY <2>4, <2>5
  <1>3. CASE CliSend
    <2>1. ~cli.ok BY <1>3 DEF CliSend, ClientPlaces
    <2>2. cli'.ok = cli.ok BY <1>3, SendFields
    <2> QED BY <2>1, <2>2 DEF Honest, SuccessIsWhole
  <1>4. CASE CliReceive
    <2>1. /\ s2c \in Seq(AnyFrame) /\ s2c # <<>> /\ cli.pc = "receiving"
          /\ UNCHANGED <<c2s, srv>>
      BY <1>4 DEF DialogueTypes, CliReceive
    <2>2. ~cli.ok /\ cli.kind = "get" BY <2>1 DEF ClientPlaces
    <2>3. cli'.no = cli.no /\ cli'.kind = cli.kind BY <1>4, ReceiveFields
    <2>4. CASE Head(s2c).code = "END"
      <3>1. ~Quiet(s2c) BY <2>1, <2>4, QuietTail
      <3>2. PICK b \in 1 .. Len(s2c) :
                /\ Data(s2c, 0, b - 1, cli.no)
                /\ s2c[b].code = "END" =>
                      Settled /\ srv.no = cli.no /\ srv.n + 0 + 1 = cli.n + b
        BY <2>1, <3>1 DEF ClientReads, Started
      <3>3. Head(s2c) = s2c[1] BY <2>1, HeadAndTail
      <3>4. b = 1 BY <2>4, <3>2, <3>3 DEF Data
      <3>5. Settled /\ srv.no = cli.no /\ srv.n + 0 + 1 = cli.n + 1
        BY <2>4, <3>2, <3>3, <3>4
      <3>6. srv.n \in Nat /\ cli.n \in Nat BY Fields
      <3>7. srv.n = cli.n BY <3>5, <3>6
      <3>8. cli'.written = cli.written /\ (cli'.ok => cli.written = cli.n)
        BY <1>4, <2>4, ReceiveFields
      <3> QED BY <2>1, <2>2, <2>3, <3>5, <3>7, <3>8
              DEF Honest, SuccessIsWhole, Settled, Puts
    <2>5. CASE Head(s2c).code # "END"
      <3>1. cli'.ok = cli.ok BY <1>4, <2>5, ReceiveFields
      <3> QED BY <2>2, <3>1 DEF Honest, SuccessIsWhole
    <2> QED BY <2>4, <2>5
  <1>5. CASE CliUnasked \/ CliExit \/ CliBroken \/ CliServerClosed
    <2>1. UNCHANGED <<c2s, srv, stored>>
      BY <1>5 DEF CliUnasked, CliExit, CliBroken, CliServerClosed
    <2>2. cli \in CliState BY DEF DialogueTypes
    <2>3. /\ cli'.ok = cli.ok /\ cli'.no = cli.no /\ cli'.kind = cli.kind
          /\ cli'.n = cli.n /\ cli'.written = cli.written
      BY <1>5, <2>2 DEF CliUnasked, CliExit, CliBroken, CliServerClosed, CliState
    <2> QED BY <2>1, <2>3 DEF Honest, SuccessIsWhole, Settled
  <1> QED BY <1>1, <1>2, <1>3, <1>4, <1>5

LEMMA HonestServer ==
    ASSUME DialogueTypes, ~stray, Honest,
           \/ SrvCommand \/ SrvAnswer \/ SrvReceive \/ SrvStream
           \/ SrvBroken \/ SrvNotify \/ Break
    PROVE  Honest'
  <1>1. UNCHANGED cli
    BY DEF SrvCommand, SrvAnswer, SrvReceive, SrvStream, SrvBroken, SrvNotify, Break
  <1>2. CASE ~cli.ok BY <1>1, <1>2 DEF Honest, SuccessIsWhole
  <1>3. CASE cli.ok
    <2>1. Settled /\ SuccessIsWhole BY <1>3 DEF Honest
    <2>2. SrvBroken \/ SrvNotify \/ Break
      BY <2>1 DEF Settled, SrvCommand, SrvAnswer, SrvReceive, SrvStream
    <2>3. CASE SrvNotify
      BY <1>1, <2>1, <2>3 DEF SrvNotify, Honest, SuccessIsWhole, Settled
    <2>4. CASE SrvBroken
      <3>1. srv' = [srv EXCEPT !.pc = "closed"] /\ srv \in SrvState
        BY <2>1, <2>4 DEF SrvBroken, AfterEof, Settled, DialogueTypes
      <3>2. srv'.pc = "closed" /\ srv'.no = srv.no /\ srv'.n = srv.n
        BY <3>1 DEF SrvState
      <3>3. UNCHANGED <<c2s, stored>> BY <2>4 DEF SrvBroken
      <3> QED BY <1>1, <2>1, <3>2, <3>3 DEF Honest, SuccessIsWhole, Settled
    <2>5. CASE Break
      <3>1. Settled' BY <2>1, <2>5, SettledBreak
      <3>2. UNCHANGED <<srv, stored>> BY <2>5 DEF Break
      <3> QED BY <1>1, <2>1, <3>1, <3>2 DEF Honest, SuccessIsWhole
    <2> QED BY <2>2, <2>3, <2>4, <2>5
  <1> QED BY <1>2, <1>3

-----------------------------------------------------------------------------
(* The invariant *)

LEMMA StageKept ==
    ASSUME DialogueTypes, ClientPlaces, NoOverseek, Stage, up, up', ~stray', Next
    PROVE  Stage'
  <1> SUFFICES ASSUME Working, awaited = {}
               PROVE  Waiting' \/ (Working' /\ awaited' = {})
    BY WaitingKept DEF Stage
  <1>0. ASSUME \/ CliCommand \/ CliResponse \/ CliSend \/ CliReceive \/ CliUnasked
               \/ SrvAnswer \/ SrvReceive \/ SrvStream
        PROVE  awaited' = {}
    BY <1>0 DEF CliCommand, CliResponse, CliSend, CliReceive, CliUnasked, SrvAnswer,
                SrvReceive, SrvStream, requests
  <1>1. CASE CliCommand BY <1>0, <1>1, StageCommand DEF Working
  <1>2. CASE CliResponse BY <1>0, <1>2, StageResponse
  <1>3. CASE CliSend BY <1>0, <1>3, StageSend DEF Working
  <1>4. CASE CliReceive BY <1>0, <1>4, StageReceive
  <1>5. CASE CliUnasked BY <1>0, <1>5, StageUnasked DEF Working
  <1>6. CASE SrvCommand BY <1>6, StageDecide DEF Working
  <1>7. CASE SrvAnswer BY <1>0, <1>7, StageAnswer
  <1>8. CASE SrvReceive BY <1>0, <1>8, StageStore
  <1>9. CASE SrvStream BY <1>0, <1>9, StageStream
  <1>10. CASE SrvNotify BY <1>10, LineSent, StageNotify
  <1>11. ~CliExit /\ ~CliBroken /\ ~CliServerClosed /\ ~SrvBroken /\ ~Break
    BY DEF CliExit, CliBroken, CliServerClosed, SrvBroken, Break
  <1> QED BY <1>1, <1>2, <1>3, <1>4, <1>5, <1>6, <1>7, <1>8, <1>9, <1>10, <1>11
          DEF Next, CliStep, SrvStep

(* Only a line of the FIFO makes an answer that is not asked for.            *)
LEMMA OthersKeep ==
    ASSUME Next, ~SrvNotify
    PROVE  /\ up' => up
           /\ UNCHANGED stray
           /\ ~SrvCommand => UNCHANGED <<due, awaited>>
  <1>1. CASE CliCommand \/ CliResponse \/ CliSend \/ CliReceive \/ CliUnasked
    <2>1. UNCHANGED up /\ UNCHANGED requests
      BY <1>1 DEF CliCommand, CliResponse, CliSend, CliReceive, CliUnasked
    <2> QED BY <2>1 DEF requests
  <1>2. CASE CliExit \/ CliBroken \/ CliServerClosed
    <2>1. (up' = up \/ up' = FALSE) /\ UNCHANGED requests
      BY <1>2 DEF CliExit, CliBroken, CliServerClosed
    <2> QED BY <2>1 DEF requests
  <1>3. CASE SrvAnswer \/ SrvReceive \/ SrvStream \/ SrvBroken \/ Break
    BY <1>3 DEF SrvAnswer, SrvReceive, SrvStream, SrvBroken, Break, requests
  <1>4. CASE SrvCommand BY <1>4 DEF SrvCommand
  <1> QED BY <1>1, <1>2, <1>3, <1>4 DEF Next, CliStep, SrvStep

LEMMA DialogueKept ==
    ASSUME DialogueInv, NoOverseek, Next
    PROVE  DialogueInv'
  <1>1. DialogueTypes /\ ClientPlaces BY DEF DialogueInv
  <1>2. \/ \/ CliCommand \/ CliResponse \/ CliSend \/ CliReceive
           \/ CliUnasked \/ CliExit \/ CliBroken \/ CliServerClosed
        \/ \/ SrvCommand \/ SrvAnswer \/ SrvReceive \/ SrvStream
           \/ SrvBroken \/ SrvNotify \/ Break
    BY DEF Next, CliStep, SrvStep
  <1>3. DialogueTypes' BY <1>1, <1>2, TypesClient, TypesServer
  <1>4. ClientPlaces' BY <1>1, PlacesKept
  <1>5. (up' => up) /\ (stray => stray')
    <2>1. CASE SrvNotify
      <3>1. UNCHANGED up BY <2>1 DEF SrvNotify
      <3>2. stray => stray' BY <2>1, Zenon DEF SrvNotify
      <3> QED BY <3>1, <3>2
    <2>2. CASE ~SrvNotify BY <2>2, OthersKeep
    <2> QED BY <2>1, <2>2
  <1>6. ASSUME ~stray'
        PROVE  Honest' /\ (up' => Stage') /\ (~up' => ClientReads' /\ ServerReads')
    <2>1. ~stray /\ Honest BY <1>5, <1>6 DEF DialogueInv
    <2>2. ClientReads /\ ServerReads BY <2>1, BothRead
    <2>3. Honest' BY <1>1, <1>2, <2>1, <2>2, HonestClient, HonestServer
    <2>4. up' => Stage' BY <1>1, <1>5, <1>6, <2>1, StageKept DEF DialogueInv
    <2>5. ~up' => ClientReads' /\ ServerReads'
      <3>1. CASE ~up \/ CliExit BY <1>1, <2>2, <3>1, BrokenReads
      <3>2. CASE Break BY <1>1, <2>2, <3>2, BreakClient, BreakServer
      <3>3. CASE up /\ ~CliExit /\ ~Break
        <4>1. UNCHANGED up
          BY <1>2, <3>3 DEF CliCommand, CliResponse, CliSend, CliReceive, CliUnasked,
                 CliBroken, CliServerClosed, SrvCommand, SrvAnswer, SrvReceive,
                 SrvStream, SrvBroken, SrvNotify
        <4> QED BY <3>3, <4>1
      <3> QED BY <3>1, <3>2, <3>3
    <2> QED BY <2>3, <2>4, <2>5
  <1> QED BY <1>3, <1>4, <1>6 DEF DialogueInv

LEMMA DialogueStarts ==
    ASSUME Init
    PROVE  DialogueInv
  <1>1. DialogueTypes
    <2>1. /\ up \in BOOLEAN /\ c2s \in Seq(AnyFrame) /\ s2c \in Seq(AnyFrame)
          /\ due \in SUBSET Nat /\ awaited \in SUBSET Nat /\ stray \in BOOLEAN
      <3>1. {} \in SUBSET Nat /\ <<>> \in Seq(AnyFrame) OBVIOUS
      <3> QED BY <3>1 DEF Init
    <2>2. cli \in CliState /\ srv \in SrvState
      BY DEF Init, CliState, SrvState, Kinds
    <2> QED BY <2>1, <2>2 DEF DialogueTypes
  <1>2. Resting /\ awaited = {} BY DEF Init, Resting, Quiet
  <1>3. ClientPlaces /\ Honest
    BY DEF Init, ClientPlaces, Honest, SuccessIsWhole
  <1> QED BY <1>1, <1>2, <1>3 DEF DialogueInv, Stage, Working, Init

(* In every reachable state the connection is in one of the stages of a      *)
(* command, or broken with nothing on it but what each end expects, provided *)
(* that no line writes at an offset which lseek() refuses, and until the     *)
(* server sends an OK or an error that its client does not wait for: the     *)
(* outcome of another session's request (SrvNotify), or of one that was      *)
(* answered with an error because its receiver could not be notified.        *)
THEOREM DialogueStages ==
    ASSUME NoOverseek
    PROVE  Spec => []DialogueInv
  <1>1. Init => DialogueInv BY DialogueStarts
  <1>2. DialogueInv /\ [Next]_vars => DialogueInv'
    <2>1. CASE Next BY <2>1, DialogueKept
    <2>2. CASE UNCHANGED vars
      BY <2>2 DEF vars, requests, DialogueInv, DialogueTypes, ClientPlaces, Honest,
             SuccessIsWhole, Stage, Waiting, Working, Resting, Asked, Decided, Finished,
             ReadyToReceive, Uploading, Received, Downloading, Streamed, StreamEnds,
             Started, Stored, Settled, ClientReads, ServerReads
    <2> QED BY <2>1, <2>2
  <1> QED BY <1>1, <1>2, PTL DEF Spec

(* Both ends agree on what comes next, whatever commands follow each other,  *)
(* however long their streams, and wherever the connection breaks:           *)
(* recv_stream and recv_response never take a frame for what it is not, up   *)
(* to the first answer that the client does not wait for.  Without the       *)
(* hypothesis it is false: recv_stream returns at once when lseek() fails.   *)
THEOREM EndsInStep ==
    ASSUME NoOverseek
    PROVE  Spec => []InStep
  <1>1. DialogueInv => InStep
    <2> SUFFICES ASSUME DialogueInv, ~stray PROVE InStep BY DEF InStep
    <2> QED BY BothRead, ReadInStep DEF DialogueInv
  <1> QED BY <1>1, DialogueStages, PTL

(* When the client reports that an upload or a download has succeeded, every *)
(* data frame that the other end sent for it was stored, up to the next      *)
(* command: the file was neither cut short nor short of a failed write.      *)
(* Without the hypothesis the answers to the stray frames of a refused       *)
(* offset may be taken for those to a later command; and so may, later on,   *)
(* an answer that the client does not wait for, which ends the claim.        *)
THEOREM SuccessStored ==
    ASSUME NoOverseek
    PROVE  Spec => []SuccessIsWhole
  <1>1. DialogueInv => SuccessIsWhole BY DEF DialogueInv, Honest, SuccessIsWhole
  <1> QED BY <1>1, DialogueStages, PTL

-----------------------------------------------------------------------------
(* Where the answers that nobody waits for come from *)

(* Each request of the connection that has no outcome yet is waited for.     *)
OnlyAwaited == ~stray /\ (up => due \subseteq awaited)

LEMMA OnlyAwaitedKept ==
    ASSUME DialogueInv, OnlyAwaited, ~NotifyFails, ~Strangers, Next
    PROVE  OnlyAwaited'
  <1>1. CASE SrvCommand
    <2>1. UNCHANGED <<up, stray>> /\ c2s # <<>> BY <1>1 DEF SrvCommand
    <2>2. up => awaited = {} /\ due = {}
      BY <2>1 DEF OnlyAwaited, DialogueInv, Stage, Waiting
    <2>3. \/ UNCHANGED <<due, awaited>>
          \/ due' = due \cup {Head(c2s).no}
             /\ (awaited' = {Head(c2s).no} \/ NotifyFails)
      BY <1>1 DEF SrvCommand, Requested
    <2> QED BY <2>1, <2>2, <2>3 DEF OnlyAwaited
  <1>2. CASE SrvNotify
    <2>1. UNCHANGED up BY <1>2 DEF SrvNotify
    <2>2. CASE \E code \in {"NOTIFY"} : /\ stray' = (stray \/ (up /\ code # "NOTIFY"))
                                        /\ UNCHANGED <<due, awaited>>
      BY <2>1, <2>2 DEF OnlyAwaited
    <2>3. CASE \E no \in due : /\ due' = due \ {no} /\ awaited' = awaited \ {no}
                               /\ stray' = (stray \/ (up /\ no \notin awaited))
      <3>1. PICK no \in due : /\ due' = due \ {no} /\ awaited' = awaited \ {no}
                              /\ stray' = (stray \/ (up /\ no \notin awaited))
        BY <2>3
      <3>2. ~stray' BY <3>1 DEF OnlyAwaited
      <3> QED BY <2>1, <3>1, <3>2 DEF OnlyAwaited
    <2> QED BY <1>2, <2>2, <2>3 DEF SrvNotify
  <1>3. CASE ~SrvCommand /\ ~SrvNotify
    <2>1. (up' => up) /\ UNCHANGED stray /\ UNCHANGED <<due, awaited>>
      BY <1>3, OthersKeep
    <2> QED BY <2>1 DEF OnlyAwaited
  <1> QED BY <1>1, <1>2, <1>3

(* The failed notification of a receiver (dispatch answers with an error,    *)
(* and the request stays) and the requests of other sessions of the user are *)
(* the only sources of answers that the client does not wait for: without    *)
(* them, each outcome reaches a client that still waits for just this one.   *)
(* InStep and SuccessIsWhole then hold for as long as the program runs.      *)
THEOREM NoStray ==
    ASSUME NoOverseek, ~NotifyFails, ~Strangers
    PROVE  Spec => []OnlyAwaited
  <1>1. Init => OnlyAwaited BY DEF Init, OnlyAwaited
  <1>2. DialogueInv /\ OnlyAwaited /\ [Next]_vars => OnlyAwaited'
    <2>1. CASE UNCHANGED vars BY <2>1 DEF vars, requests, OnlyAwaited
    <2> QED BY <2>1, OnlyAwaitedKept
  <1> QED BY <1>1, <1>2, DialogueStages, PTL DEF Spec
=============================================================================
