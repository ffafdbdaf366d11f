----------------------------- MODULE ClientProofs -----------------------------
(***************************************************************************)
(* The client's counter of background operations: what it counts in every  *)
(* state, and that exit is refused while a child is at work.  Silent, the  *)
(* operations that have written no line, grows by one with every operation *)
(* started and shrinks by one with every line; a child that is reaped or   *)
(* killed leaves it alone.                                                 *)
(***************************************************************************)
EXTENDS ClientBackground, FiniteSetTheorems, TLAPS

(* Only a child that has not come to the end of its work may still write its *)
(* line.                                                                     *)
WorkingSilent ==
    \A k \in Kids : (kid[k] = "none" \/ Working(k)) => k \notin told

ClientInv == TypeOK /\ Counted /\ WorkingSilent /\ ExitMeansDone

-----------------------------------------------------------------------------
(* The set that is counted *)

(* Whatever set of operations is silent, it is finite.                       *)
LEMMA SilentFinite ==
    IsFiniteSet(Silent) /\ Cardinality(Silent) \in Nat
  <1>1. Silent \subseteq Kids BY DEF Silent
  <1>2. IsFiniteSet(Silent) BY <1>1, ClientAssumption, FS_Subset
  <1> QED BY <1>2, FS_CardinalityType

(* An operation that is started makes one more silent.                       *)
LEMMA SilentGrows ==
    ASSUME TypeOK, WorkingSilent, NEW k \in Kids, kid[k] = "none",
           NEW place, place # "none", kid' = [kid EXCEPT ![k] = place],
           told' = told
    PROVE  Cardinality(Silent') = Cardinality(Silent) + 1
  <1>1. Silent' = Silent \cup {k} /\ k \notin Silent
    BY DEF Silent, TypeOK, WorkingSilent
  <1> QED BY <1>1, SilentFinite, FS_AddElement

(* A line makes one fewer silent.                                            *)
LEMMA SilentShrinks ==
    ASSUME TypeOK, WorkingSilent, NEW k \in Kids, Working(k),
           kid' = [kid EXCEPT ![k] = "closing"], told' = told \cup {k}
    PROVE  Cardinality(Silent') = Cardinality(Silent) - 1
  <1>1. k \in Silent BY DEF Silent, TypeOK, WorkingSilent, Working
  <1>2. Silent' = Silent \ {k}
    BY <1>1 DEF Silent, TypeOK
  <1> QED BY <1>1, <1>2, SilentFinite, FS_RemoveElement

(* A child that changes its place, and writes nothing, changes nothing.      *)
LEMMA SilentStays ==
    ASSUME TypeOK, kid' \in [Kids -> Places], told' = told,
           \A k \in Kids : kid'[k] = "none" <=> kid[k] = "none"
    PROVE  Silent' = Silent
  BY DEF Silent, TypeOK

(* The message that reports an upload or a download is one line, newline     *)
(* included, whatever names it carries: they are cut to 90 characters.       *)
LEMMA OneLine ==
    ASSUME NEW pre \in Prefix, NEW n1 \in NameLens, NEW n2 \in NameLens
    PROVE  Lines(pre, n1, n2) = 1
  <1>1. n1 \in Nat /\ n2 \in Nat BY ClientAssumption
  <1>2. Cut(n1) \in 0 .. 90 /\ Cut(n2) \in 0 .. 90 BY <1>1 DEF Cut
  <1>3. pre \in 0 .. 43 BY DEF Prefix
  <1> QED BY <1>2, <1>3 DEF Lines

-----------------------------------------------------------------------------
(* The steps *)

(* Reading lines of the pipe takes as much from the counter as from the      *)
(* pipe.                                                                     *)
LEMMA TakenCounted ==
    ASSUME ClientInv, cli = "select", TakeLines, UNCHANGED <<cli, kid, told>>
    PROVE  /\ background_operations' \in Nat /\ pipe' \in 0 .. PipeCap
           /\ Counted'
  <1>1. PICK n \in 1 .. pipe : /\ pipe' = pipe - n
                               /\ background_operations' = background_operations - n
    BY DEF TakeLines
  <1>2. Open /\ background_operations = Cardinality(Silent) + pipe
    BY DEF ClientInv, Counted, Open
  <1>3. Silent' = Silent BY DEF Silent
  <1>4. pipe \in 0 .. PipeCap /\ PipeCap \in Nat
    BY ClientAssumption DEF ClientInv, TypeOK
  <1> QED BY <1>1, <1>2, <1>3, <1>4, SilentFinite DEF Counted, Open

(* A child that writes its line moves one operation from those at work to    *)
(* those whose line the client has yet to read.                              *)
LEMMA NotifyInv ==
    ASSUME ClientInv, NEW k \in Kids, Working(k), bg_end_notify(k, 1)
    PROVE  ClientInv'
  <1> USE DEF ClientInv, bg_end_notify, Move
  <1>1. TypeOK'
    <2>1. pipe' \in 0 .. PipeCap BY ClientAssumption DEF TypeOK, CanWrite
    <2> QED BY <2>1 DEF TypeOK, Places
  <1>2. Counted'
    <2>1. Cardinality(Silent') = Cardinality(Silent) - 1 BY SilentShrinks
    <2> QED BY <2>1, SilentFinite DEF Counted, TypeOK, Open
  <1>3. WorkingSilent' BY DEF WorkingSilent, TypeOK, Working
  <1>4. ExitMeansDone' BY DEF ExitMeansDone, TypeOK, Working
  <1> QED BY <1>1, <1>2, <1>3, <1>4

(* Any other move of a child that exists: forward while it is at work, or    *)
(* out of its work.                                                          *)
LEMMA MoveInv ==
    ASSUME ClientInv, NEW k \in Kids, kid[k] # "none",
           NEW place \in Places, place # "none", Move(k, place),
           place \in {"closing", "zombie", "reaped"} \/ Working(k),
           UNCHANGED <<pipe, told>>, sigchld' \in BOOLEAN
    PROVE  ClientInv'
  <1> USE DEF ClientInv, Move
  <1>1. TypeOK' BY DEF TypeOK
  <1>2. Counted'
    <2>1. kid' \in [Kids -> Places] /\ \A j \in Kids : kid'[j] = "none" <=> kid[j] = "none"
      BY DEF TypeOK
    <2>2. Silent' = Silent BY <2>1, SilentStays
    <2> QED BY <2>2 DEF Counted, Open
  <1>3. WorkingSilent' BY DEF WorkingSilent, TypeOK, Working
  <1>4. ExitMeansDone' BY DEF ExitMeansDone, TypeOK, Working
  <1> QED BY <1>1, <1>2, <1>3, <1>4

(* Each step of a child.                                                     *)
LEMMA KidInv ==
    ASSUME ClientInv, NEW k \in Kids, KidStep(k) \/ Killed(k)
    PROVE  ClientInv'
  <1>1. ASSUME Die(k), kid[k] # "none" PROVE ClientInv'
    BY <1>1, MoveInv DEF Die, Places
  <1>2. CASE KidConnect(k)
    <2>1. Working(k) /\ kid[k] # "none" BY <1>2 DEF KidConnect, Working
    <2> QED BY <1>1, <1>2, <2>1, MoveInv DEF KidConnect, Places, ClientInv, TypeOK
  <1>3. CASE KidLogin(k)
    <2>1. Working(k) /\ kid[k] # "none" BY <1>3 DEF KidLogin, Working
    <2> QED BY <1>3, <2>1, MoveInv, NotifyInv DEF KidLogin, Places, ClientInv, TypeOK
  <1>4. CASE KidOpen(k)
    <2>1. Working(k) /\ kid[k] # "none" BY <1>4 DEF KidOpen, Working
    <2> QED BY <1>4, <2>1, MoveInv, NotifyInv DEF KidOpen, Places, ClientInv, TypeOK
  <1>5. CASE KidStream(k)
    <2>1. Working(k) BY <1>5 DEF KidStream, Working
    <2>2. bg_end_notify(k, 1) BY <1>5, OneLine DEF KidStream
    <2> QED BY <2>1, <2>2, NotifyInv
  <1>6. CASE KidExit(k)
    BY <1>1, <1>6 DEF KidExit
  <1>7. CASE Killed(k)
    BY <1>1, <1>7 DEF Killed, Working
  <1> QED BY <1>2, <1>3, <1>4, <1>5, <1>6, <1>7 DEF KidStep

(* A step that touches neither the children, nor the counter, nor the pipe:  *)
(* the loop may go on, become busy or leave without being asked to exit.     *)
LEMMA FrameInv ==
    ASSUME ClientInv, TypeOK',
           UNCHANGED <<background_operations, pipe, kid, told>>,
           cli' # cli => Open /\ cli' # "exited"
    PROVE  ClientInv'
  <1> USE DEF ClientInv
  <1>1. Silent' = Silent BY DEF Silent
  <1>2. Counted' BY <1>1 DEF Counted, Open
  <1>3. WorkingSilent' BY DEF WorkingSilent, Working
  <1>4. ExitMeansDone' BY DEF ExitMeansDone, Working
  <1> QED BY <1>2, <1>3, <1>4

(* Exit is granted only when nothing is counted, that is when no operation   *)
(* is silent, hence none at work.                                            *)
LEMMA ExitInv ==
    ASSUME ClientInv, LineExit
    PROVE  ClientInv'
  <1> USE DEF ClientInv, LineExit, ReadLine
  <1>1. TypeOK' BY DEF TypeOK
  <1>2. CASE ~MayExit
    BY <1>1, <1>2, FrameInv DEF TypeOK
  <1>3. CASE MayExit
    <2>1. Cardinality(Silent) + pipe = 0
      BY <1>3 DEF MayExit, Counted, Open
    <2>2. Cardinality(Silent) = 0
      BY <2>1, SilentFinite, ClientAssumption DEF TypeOK
    <2>3. Silent = {} BY <2>2, SilentFinite, FS_EmptySet
    <2>4. \A k \in Kids : ~Working(k)
      BY <2>3 DEF Silent, WorkingSilent, Working
    <2>5. ExitMeansDone' BY <2>4 DEF ExitMeansDone, Working
    <2>6. Counted' BY <1>3 DEF Counted, Open
    <2>7. WorkingSilent' BY DEF WorkingSilent, Working
    <2> QED BY <1>1, <2>5, <2>6, <2>7
  <1> QED BY <1>2, <1>3

(* An operation is counted when it is started, also when fork() fails.       *)
LEMMA SpawnInv ==
    ASSUME ClientInv, NEW k \in Kids, spawn_background(k)
    PROVE  ClientInv'
  <1> USE DEF ClientInv, spawn_background, ReadLine
  <1>1. PICK place \in {"connect", "reaped"} : kid' = [kid EXCEPT ![k] = place]
    OBVIOUS
  <1>2. Cardinality(Silent') = Cardinality(Silent) + 1
    BY <1>1, SilentGrows
  <1>3. TypeOK' BY <1>1 DEF TypeOK, Places
  <1>4. Counted' BY <1>2, SilentFinite, ClientAssumption DEF Counted, Open, TypeOK
  <1>5. WorkingSilent' BY <1>1 DEF WorkingSilent, Working, TypeOK
  <1>6. ExitMeansDone' BY DEF ExitMeansDone
  <1> QED BY <1>3, <1>4, <1>5, <1>6

(* The handler of SIGCHLD.                                                   *)
LEMMA ReapInv ==
    ASSUME ClientInv, handle_signal_child
    PROVE  ClientInv'
  <1> USE DEF ClientInv, handle_signal_child, Reaped
  <1>1. kid' \in [Kids -> Places] BY DEF TypeOK, Places
  <1>2. TypeOK' BY <1>1 DEF TypeOK
  <1>3. Silent' = Silent BY <1>1, SilentStays
  <1>4. Counted' BY <1>3 DEF Counted, Open
  <1>5. WorkingSilent' BY DEF WorkingSilent, Working
  <1>6. ExitMeansDone' BY DEF ExitMeansDone, Working
  <1> QED BY <1>2, <1>4, <1>5, <1>6

(* Reading the pipe, alone or after a frame was dropped.                     *)
LEMMA TakenInv ==
    ASSUME ClientInv, cli = "select", TakeLines, frames' \in [sent : Nat, ready : Nat],
           UNCHANGED <<cli, named, keys, up, kid, userOf, told, sigchld>>
    PROVE  ClientInv'
  <1> USE DEF ClientInv
  <1>1. TypeOK' /\ Counted' BY TakenCounted DEF TypeOK
  <1>2. WorkingSilent' BY DEF WorkingSilent, Working
  <1>3. ExitMeansDone' BY DEF ExitMeansDone, Working
  <1> QED BY <1>1, <1>2, <1>3

-----------------------------------------------------------------------------
(* The theorems *)

(* Nothing is started, nothing is counted.                                   *)
LEMMA ClientInit == Init => ClientInv
  <1> SUFFICES ASSUME Init PROVE ClientInv OBVIOUS
  <1> USE DEF Init
  <1>1. TypeOK
    <2>1. kid \in [Kids -> Places] /\ userOf \in [Kids -> BOOLEAN] BY DEF Places
    <2>2. pipe \in 0 .. PipeCap BY ClientAssumption
    <2>3. named \in BOOLEAN /\ up \in BOOLEAN /\ sigchld \in BOOLEAN OBVIOUS
    <2>4. /\ cli \in {"select", "busy", "exited", "broken"}
          /\ background_operations \in Nat /\ told \subseteq Kids
          /\ keys \in [typed : Nat, ready : Nat]
          /\ frames \in [sent : Nat, ready : Nat]
      OBVIOUS
    <2> QED BY <2>1, <2>2, <2>3, <2>4 DEF TypeOK
  <1>2. Silent = {} BY DEF Silent
  <1>3. Counted BY <1>2, FS_EmptySet DEF Counted
  <1>4. WorkingSilent /\ ExitMeansDone BY DEF WorkingSilent, ExitMeansDone
  <1> QED BY <1>1, <1>3, <1>4 DEF ClientInv

(* Every step keeps the count.                                               *)
LEMMA ClientNext == ClientInv /\ [Next]_vars => ClientInv'
  <1> SUFFICES ASSUME ClientInv, [Next]_vars PROVE ClientInv' OBVIOUS
  <1> USE DEF ClientInv
  <1>1. CASE TypeLine
    <2>1. TypeOK' BY <1>1 DEF TypeLine, TypeOK
    <2> QED BY <1>1, <2>1, FrameInv DEF TypeLine
  <1>2. CASE ServerSends
    <2>1. TypeOK' BY <1>2 DEF ServerSends, TypeOK
    <2> QED BY <1>2, <2>1, FrameInv DEF ServerSends
  <1>3. CASE ServerCloses
    <2>1. TypeOK' BY <1>3 DEF ServerCloses, TypeOK
    <2> QED BY <1>3, <2>1, FrameInv DEF ServerCloses
  <1>4. CASE LineRefused
    <2>1. TypeOK' BY <1>4 DEF LineRefused, ReadLine, TypeOK
    <2> QED BY <1>4, <2>1, FrameInv DEF LineRefused, ReadLine
  <1>5. CASE LineExit BY <1>5, ExitInv
  <1>6. CASE LineForeground
    <2>1. TypeOK' BY <1>6 DEF LineForeground, ReadLine, TypeOK
    <2> QED BY <1>6, <2>1, FrameInv DEF LineForeground, ReadLine, Open
  <1>7. CASE ForegroundEnds
    <2>1. frames' \in [sent : Nat, ready : Nat] BY <1>7 DEF ForegroundEnds, TypeOK
    <2>2. named' \in BOOLEAN BY <1>7 DEF ForegroundEnds, TypeOK
    <2>3. TypeOK' BY <1>7, <2>1, <2>2 DEF ForegroundEnds, TypeOK
    <2> QED BY <1>7, <2>3, FrameInv DEF ForegroundEnds, Open
  <1>8. ASSUME NEW k \in Kids, spawn_background(k) PROVE ClientInv'
    BY <1>8, SpawnInv
  <1>9. CASE EndOfInput
    <2>1. TypeOK' BY <1>9 DEF EndOfInput, TypeOK
    <2> QED BY <1>9, <2>1, FrameInv DEF EndOfInput, Open
  <1>10. CASE ReadSocket
    <2>1. frames' \in [sent : Nat, ready : Nat] BY <1>10 DEF ReadSocket, TypeOK
    <2>2. CASE UNCHANGED <<background_operations, pipe>>
      <3>1. TypeOK' BY <1>10, <2>1, <2>2 DEF ReadSocket, TypeOK
      <3> QED BY <1>10, <2>2, <3>1, FrameInv DEF ReadSocket
    <2>3. CASE TakeLines BY <1>10, <2>1, <2>3, TakenInv DEF ReadSocket
    <2> QED BY <1>10, <2>2, <2>3 DEF ReadSocket
  <1>11. CASE ServerClosed
    <2>1. TypeOK' BY <1>11 DEF ServerClosed, TypeOK
    <2> QED BY <1>11, <2>1, FrameInv DEF ServerClosed, Open
  <1>12. CASE ReadPipe BY <1>12, TakenInv DEF ReadPipe, TypeOK
  <1>13. CASE handle_signal_child BY <1>13, ReapInv
  <1>14. ASSUME NEW k \in Kids, KidStep(k) \/ Killed(k) PROVE ClientInv'
    BY <1>14, KidInv
  <1>15. CASE UNCHANGED vars
    <2>1. TypeOK' BY <1>15 DEF vars, TypeOK
    <2> QED BY <1>15, <2>1, FrameInv DEF vars
  <1> QED
    BY <1>1, <1>2, <1>3, <1>4, <1>5, <1>6, <1>7, <1>8, <1>9, <1>10, <1>11,
       <1>12, <1>13, <1>14, <1>15 DEF Next, Loop

(* The inductive invariant of the client.                                    *)
THEOREM ClientCorrect == Spec => []ClientInv
  BY ClientInit, ClientNext, PTL DEF Spec

(* The client's state is typed, and the pipe never holds more lines than     *)
(* fit: bg_end_notify waits for room.                                        *)
THEOREM ClientTypes == Spec => []TypeOK
  BY ClientCorrect, PTL DEF ClientInv

(* While the client runs, background_operations is the number of operations  *)
(* at work or lost and of lines in the pipe, for any number of operations    *)
(* and any file names: no line is cut off, counted twice, or read without    *)
(* being counted.                                                            *)
THEOREM OperationsCounted == Spec => []Counted
  BY ClientCorrect, PTL DEF ClientInv

(* exit is refused as long as a child of the client is at work.              *)
THEOREM ExitWaits == Spec => []ExitMeansDone
  BY ClientCorrect, PTL DEF ClientInv
=============================================================================
