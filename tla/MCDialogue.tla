----------------------------- MODULE MCDialogue -----------------------------
(* The lines typed in instances of StreamDialogue.                           *)
EXTENDS StreamDialogue

Arg == Word("argument", "x")

(* One line for each way a line is taken, refused or streamed.               *)
SomeLines ==
    {Line("cd", <<Arg>>),
     Line("upload", <<Arg, Arg>>),
     Line("write", <<Word("-offset", "far"), Arg, Word("-offset", "near")>>),
     Line("list", <<>>),
     Line("transfer_request", <<Arg, Arg>>),
     Line("upload", <<Arg, Word("-b", "")>>),
     Line("download", <<Arg, Arg, Word("-b", "")>>),
     Line("read", <<Word("-offset", "negative"), Arg>>),
     Line("move", <<Arg, Arg, Arg>>)}

(* write -offset=9223372036854775807 x *)
WithOverseek == SomeLines \cup {Line("write", <<Word("-offset", "far"), Arg>>)}
=============================================================================
