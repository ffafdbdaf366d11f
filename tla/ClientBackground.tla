-------------------------- MODULE ClientBackground --------------------------
(***************************************************************************)
(* The client's loop on its terminal, its socket and the pipe, and the     *)
(* children that carry out `upload -b' and `download -b'.  The client      *)
(* learns that a child is done from the lines on the pipe only, and        *)
(* refuses to exit while it has counted more operations than lines.        *)
(***************************************************************************)
EXTENDS Integers, FiniteSets

CONSTANTS
    Kids,       \* background operations, each its own child process
    PipeCap,    \* lines that the pipe holds before a write blocks
    MaxKeys,    \* bound on the lines typed
    MaxFrames,  \* bound on the unsolicited frames of the server
    NameLens    \* lengths of the file names typed

ASSUME ClientAssumption ==
    /\ IsFiniteSet(Kids)
    /\ PipeCap \in Nat \ {0}
    /\ MaxKeys \in Nat /\ MaxFrames \in Nat
    /\ NameLens \subseteq Nat

VARIABLES
    cli,      \* the loop: select, busy (in a foreground command), exited, broken
    named,    \* username is set
    background_operations,
    keys,     \* lines typed so far, and those of them that are not read yet
    frames,   \* frames sent unasked so far, and those that are not read yet
    up,       \* the server holds the connection
    pipe,     \* complete lines in the pipe
    kid,      \* place of every child
    userOf,   \* the child was forked after a login
    told,     \* children that wrote their line
    sigchld   \* SIGCHLD is pending; signals do not queue

vars == <<cli, named, background_operations, keys, frames, up, pipe, kid,
          userOf, told, sigchld>>

(* The lengths of success_msg without the names, for upload and download.    *)
Prefix == {41, 43}

(* Fault: "%s".                                                              *)
CutNot(n) == n

(* "%.90s"                                                                   *)
Cut(n) == IF n < 90 THEN n ELSE 90

(* success_msg has 256 bytes; snprintf cuts what does not fit, its last      *)
(* character, the newline, first.                                            *)
Lines(pre, n1, n2) == IF pre + Cut(n1) + Cut(n2) <= 255 THEN 1 ELSE 0

Open == cli \in {"select", "busy"}

(* The child exists and has not written its line. *)
Working(k) == kid[k] \in {"connect", "login", "open", "stream"}

(* The child's place when it is of no more use. *)
Over(k) == kid[k] \in {"zombie", "reaped"}

Init ==
    /\ cli = "select" /\ named = FALSE /\ up = TRUE
    /\ background_operations = 0
    /\ keys = [typed |-> 0, ready |-> 0]
    /\ frames = [sent |-> 0, ready |-> 0]
    /\ pipe = 0
    /\ kid = [k \in Kids |-> "none"]
    /\ userOf = [k \in Kids |-> FALSE]
    /\ told = {} /\ sigchld = FALSE

-----------------------------------------------------------------------------
(* The surroundings *)

TypeLine ==
    /\ keys.typed < MaxKeys
    /\ keys' = [typed |-> keys.typed + 1, ready |-> keys.ready + 1]
    /\ UNCHANGED <<cli, named, background_operations, frames, up, pipe, kid,
                   userOf, told, sigchld>>

ServerSends ==
    /\ up /\ frames.sent < MaxFrames
    /\ frames' = [sent |-> frames.sent + 1, ready |-> frames.ready + 1]
    /\ UNCHANGED <<cli, named, background_operations, keys, up, pipe, kid,
                   userOf, told, sigchld>>

ServerCloses ==
    /\ up' = FALSE
    /\ UNCHANGED <<cli, named, background_operations, keys, frames, pipe, kid,
                   userOf, told, sigchld>>

-----------------------------------------------------------------------------
(* The loop of main *)

(* select() reports the terminal, which is looked at first. *)
ReadLine ==
    /\ cli = "select" /\ keys.ready > 0
    /\ keys' = [keys EXCEPT !.ready = @ - 1]
    /\ UNCHANGED <<frames, up, pipe, told, sigchld>>

(* A line that cannot be parsed, whose local file cannot be opened, or that  *)
(* asks for another command in the background.                               *)
LineRefused ==
    /\ ReadLine
    /\ UNCHANGED <<cli, named, background_operations, kid, userOf>>

(* Fault: the operation started last is forgotten. *)
MayExitEarly == background_operations <= 1

(* Refuses to exit while operations are counted. *)
MayExit == background_operations = 0

LineExit ==
    /\ ReadLine
    /\ cli' = IF MayExit THEN "exited" ELSE "select"
    /\ UNCHANGED <<named, background_operations, kid, userOf>>

(* Counted whether or not fork() succeeds. *)
spawn_background(k) ==
    /\ ReadLine
    /\ kid[k] = "none"
    /\ \E forked \in BOOLEAN :
           kid' = [kid EXCEPT ![k] = IF forked THEN "connect" ELSE "reaped"]
    /\ userOf' = [userOf EXCEPT ![k] = named]
    /\ background_operations' = background_operations + 1
    /\ UNCHANGED <<cli, named>>

LineForeground ==
    /\ ReadLine
    /\ cli' = "busy"
    /\ UNCHANGED <<named, background_operations, kid, userOf>>

(* The answer to a foreground command, which may be a login, or the failure  *)
(* of the connection.  Notifications that came before it were printed.       *)
ForegroundEnds ==
    /\ cli = "busy"
    /\ cli' = "select"
    /\ named' \in IF up THEN {named, TRUE} ELSE {named}
    /\ \E n \in 0 .. frames.ready : frames' = [frames EXCEPT !.ready = n]
    /\ UNCHANGED <<background_operations, keys, up, pipe, kid, userOf, told,
                   sigchld>>

(* End of file on the terminal leaves the loop without the test of exit. *)
EndOfInput ==
    /\ cli = "select" /\ keys.ready = 0
    /\ cli' = "broken"
    /\ UNCHANGED <<named, background_operations, keys, frames, up, pipe, kid,
                   userOf, told, sigchld>>

(* Fault: one read, one operation. *)
TakeLinesOnce ==
    \E n \in 1 .. pipe :
        /\ pipe' = pipe - n
        /\ background_operations' = background_operations - 1

(* Fault: the end of what was read counts as another line. *)
TakeLinesAndNul ==
    \E n \in 1 .. pipe :
        /\ pipe' = pipe - n
        /\ background_operations' = background_operations - (n + 1)

(* read() returns one line or more, as many as its buffer takes; each line   *)
(* counts.                                                                   *)
TakeLines ==
    \E n \in 1 .. pipe :
        /\ pipe' = pipe - n
        /\ background_operations' = background_operations - n

(* A notification starts the loop over; after any other frame, which is      *)
(* dropped, the pipe is looked at.                                           *)
ReadSocket ==
    /\ cli = "select" /\ keys.ready = 0
    /\ frames.ready > 0
    /\ frames' = [frames EXCEPT !.ready = @ - 1]
    /\ \/ UNCHANGED <<background_operations, pipe>>
       \/ TakeLines
    /\ UNCHANGED <<cli, named, keys, up, kid, userOf, told, sigchld>>

ServerClosed ==
    /\ cli = "select" /\ keys.ready = 0
    /\ frames.ready = 0 /\ ~up
    /\ cli' = "broken"
    /\ UNCHANGED <<named, background_operations, keys, frames, up, pipe, kid,
                   userOf, told, sigchld>>

ReadPipe ==
    /\ cli = "select" /\ keys.ready = 0
    /\ frames.ready = 0 /\ up
    /\ TakeLines
    /\ UNCHANGED <<cli, named, keys, frames, up, kid, userOf, told, sigchld>>

(* Fault: one waitpid() for every signal. *)
ReapedOne ==
    IF \E k \in Kids : kid[k] = "zombie"
    THEN [kid EXCEPT ![CHOOSE k \in Kids : kid[k] = "zombie"] = "reaped"]
    ELSE kid

(* The handler reaps every child that is dead, since one signal may stand    *)
(* for several.                                                              *)
Reaped == [k \in Kids |-> IF kid[k] = "zombie" THEN "reaped" ELSE kid[k]]

handle_signal_child ==
    /\ Open /\ sigchld
    /\ sigchld' = FALSE
    /\ kid' = Reaped
    /\ UNCHANGED <<cli, named, background_operations, keys, frames, up, pipe,
                   userOf, told>>

-----------------------------------------------------------------------------
(* The children *)

Move(k, place) ==
    /\ kid' = [kid EXCEPT ![k] = place]
    /\ UNCHANGED <<cli, named, background_operations, keys, frames, up, userOf>>

Die(k) ==
    /\ Move(k, "zombie")
    /\ sigchld' = TRUE
    /\ UNCHANGED <<pipe, told>>

(* Fault: waits for a reader that has gone. *)
CanWriteOpen == Open /\ pipe < PipeCap

(* bg_end_notify writes n lines.  It waits for room in the pipe, but not     *)
(* when nobody reads: SIGPIPE is ignored and so is the error of write().     *)
CanWrite == ~Open \/ pipe < PipeCap

bg_end_notify(k, n) ==
    /\ CanWrite
    /\ Move(k, "closing")
    /\ pipe' = IF Open THEN pipe + n ELSE pipe
    /\ told' = told \cup {k}
    /\ UNCHANGED sigchld

(* start_client() leaves the child, with exit(), when it cannot connect. *)
KidConnect(k) ==
    /\ kid[k] = "connect"
    /\ \/ Move(k, "login") /\ UNCHANGED <<pipe, told, sigchld>>
       \/ Die(k)

(* The login of the foreground is repeated with its name; without a name, or *)
(* when the server refuses, the operation fails.                             *)
KidLogin(k) ==
    /\ kid[k] = "login"
    /\ \/ userOf[k] /\ Move(k, "open") /\ UNCHANGED <<pipe, told, sigchld>>
       \/ bg_end_notify(k, 1)

KidOpen(k) ==
    /\ kid[k] = "open"
    /\ \/ Move(k, "stream") /\ UNCHANGED <<pipe, told, sigchld>>
       \/ bg_end_notify(k, 1)

KidStream(k) ==
    /\ kid[k] = "stream"
    /\ \/ bg_end_notify(k, 1)
       \/ \E pre \in Prefix : \E n1, n2 \in NameLens :
              bg_end_notify(k, Lines(pre, n1, n2))

KidExit(k) == kid[k] = "closing" /\ Die(k)

(* A signal kills a child. *)
Killed(k) == Working(k) /\ Die(k)

-----------------------------------------------------------------------------

Loop ==
    \/ LineRefused \/ LineExit \/ LineForeground \/ ForegroundEnds
    \/ \E k \in Kids : spawn_background(k)
    \/ EndOfInput \/ ReadSocket \/ ServerClosed \/ ReadPipe
    \/ handle_signal_child

KidStep(k) == KidConnect(k) \/ KidLogin(k) \/ KidOpen(k) \/ KidStream(k) \/ KidExit(k)

Next ==
    \/ TypeLine \/ ServerSends \/ ServerCloses
    \/ Loop
    \/ \E k \in Kids : KidStep(k) \/ Killed(k)

Spec == Init /\ [][Next]_vars

(* The loop blocks only in select() and in a foreground command, a child     *)
(* only on a full pipe and on its own connection, which is assumed to        *)
(* deliver or to break.                                                      *)
FairSpec ==
    /\ Spec
    /\ WF_vars(LineRefused \/ LineExit \/ LineForeground)
    /\ WF_vars(ReadSocket \/ ServerClosed \/ ReadPipe)
    /\ WF_vars(handle_signal_child)
    /\ \A k \in Kids : WF_vars(KidStep(k))

-----------------------------------------------------------------------------
(* Properties *)

Places ==
    {"none", "connect", "login", "open", "stream", "closing", "zombie", "reaped"}

(* Types; the pipe never holds more lines than fit.                          *)
TypeOK ==
    /\ cli \in {"select", "busy", "exited", "broken"}
    /\ named \in BOOLEAN /\ up \in BOOLEAN /\ sigchld \in BOOLEAN
    /\ background_operations \in Nat
    /\ keys \in [typed : Nat, ready : Nat]
    /\ frames \in [sent : Nat, ready : Nat]
    /\ pipe \in 0 .. PipeCap
    /\ kid \in [Kids -> Places]
    /\ userOf \in [Kids -> BOOLEAN]
    /\ told \subseteq Kids

(* Operations that were started and have written no line: at work, or lost   *)
(* because fork() failed, they could not connect, or were killed.            *)
Silent == {k \in Kids : kid[k] # "none"} \ told

(* While the client runs, its counter is what is at work or lost, and the    *)
(* lines that it has yet to read: no line is counted twice, cut off, or read *)
(* without being counted.                                                    *)
Counted == Open => background_operations = Cardinality(Silent) + pipe

(* "If there are any background processes working, termination will be       *)
(* refused" (README): exit leaves no operation unfinished.                   *)
ExitMeansDone == cli = "exited" => \A k \in Kids : ~Working(k)

(* In the end only operations that were lost keep exit from being permitted, *)
(* if the client comes back to its loop at all.                              *)
ExitPermitted ==
    <>[](cli = "select" => background_operations = Cardinality(Silent))

(* A child ends, also when the client has gone or the pipe is full, unless   *)
(* the client stays in a foreground command and never reads the pipe.        *)
KidEnds ==
    \A k \in Kids :
        Working(k) ~> (Over(k) \/ cli = "busy")

(* No child of a running client stays a zombie.                              *)
KidReaped ==
    \A k \in Kids : (kid[k] = "zombie" /\ Open) ~> (kid[k] = "reaped" \/ ~Open)
=============================================================================
