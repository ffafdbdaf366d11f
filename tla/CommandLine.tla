----------------------------- MODULE CommandLine -----------------------------
(***************************************************************************)
(* parse_command, which the client runs on the line that was typed and the *)
(* server once more on the payload, and what a command then makes the two  *)
(* sides do.  A line is the command's name and the words behind it; a word *)
(* is an argument, an option, or an -offset with its class of value: a     *)
(* number lseek() takes ("near"), one it refuses ("far"), or no number.    *)
(***************************************************************************)
EXTENDS Naturals, Sequences

(* name |-> arguments expected, Any for a variable number *)
Any == 99
CMDS ==
    [create |-> 2, chmod |-> 2, move |-> 2, delete |-> 1, cd |-> 1, read |-> 1,
     write |-> 1, list |-> Any, login |-> 1, create_user |-> 2, upload |-> 2,
     download |-> 2, transfer_request |-> 2, accept |-> 2, reject |-> 1, exit |-> Any]

Word(kind, value) == [kind |-> kind, value |-> value]
Line(name, words) == [name |-> name, words |-> words]

BadWord(w) ==
    \/ w.kind = "unknown option"
    \/ w.kind = "-offset" /\ w.value \in {"negative", "malformed"}

Arguments(line) == SelectSeq(line.words, LAMBDA w : w.kind = "argument")

(* buf and buf2 hold two arguments. *)
Parses(line) ==
    /\ line.name \in DOMAIN CMDS
    /\ \A i \in DOMAIN line.words : ~BadWord(line.words[i])
    /\ Len(Arguments(line)) <= 2
    /\ CMDS[line.name] \in {Any, Len(Arguments(line))}

HasOption(line, kind) == \E i \in DOMAIN line.words : line.words[i].kind = kind

(* The last -offset counts; without one there is none. *)
Offset(line) ==
    LET given == {i \in DOMAIN line.words : line.words[i].kind = "-offset"}
    IN  IF given = {} THEN "none"
        ELSE line.words[CHOOSE i \in given : \A j \in given : j <= i].value

(* get: a stream to the client; put: one to the server; put_over: one to be  *)
(* written at an offset that lseek() refuses; transfer: answered when the    *)
(* receiver decides; simple: one answer.                                     *)
Kind(line) ==
    CASE line.name \in {"read", "download", "list"} -> "get"
      [] line.name = "write" /\ Offset(line) = "far" -> "put_over"
      [] line.name \in {"write", "upload"} -> "put"
      [] line.name = "transfer_request" -> "transfer"
      [] OTHER -> "simple"

(* Lines that the client sends as they are: not exit, and -b only goes with  *)
(* upload and download, which then are sent by another process.              *)
Sendable(line) == Parses(line) /\ line.name # "exit" /\ ~HasOption(line, "-b")
=============================================================================
