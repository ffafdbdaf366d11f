---------------------------- MODULE ServerProofs ----------------------------
(***************************************************************************)
(* The invariants of ServerProcesses for every number of processes, users, *)
(* starts of the server and signals, and every failing system call.        *)
(***************************************************************************)
EXTENDS ServerProcesses, TLAPS

Places == {"gone", "forked", "select", "unlink", "dying", "mkfifo", "enter",
           "lookup", "adduser", "mkdir", "chown", "chmod"}

Euids == Users \cup {"root", "nobody"}

ChildType ==
    [pc : Places, run : 0 .. MaxRuns, euid : Euids,
     user : Users \cup {NoUser}, arg : Users \cup {NoUser}, orig : Euids]

(* TypeOK without the conjunct on pending, which reads the other parts.      *)
StateTypes ==
    /\ server \in [pc : {"loop", "wait", "dying", "down"}, run : 0 .. MaxRuns]
    /\ child \in [Pids -> ChildType]
    /\ signals \in 0 .. MaxSignals /\ ipc \subseteq 1 .. MaxRuns
    /\ fifo \in [Pids -> {"none", "own", "stale"}]
    /\ account \subseteq Users
    /\ home \in [Users -> {"none", "made", "owned", "ready"}]
    /\ created \in [Users -> Nat]

(* A signal is pending for processes that have not taken one yet.            *)
PendingInv ==
    pending \subseteq {p \in Pids : child[p].pc \notin {"gone", "dying"}}
                        \cup (IF server.pc = "loop" THEN {Server} ELSE {})

(* The identity a command leaves the child with when it ends.                *)
IdentityOf(p) == IF child[p].user = NoUser THEN "nobody" ELSE child[p].user

LoginPlaces == {"mkfifo", "enter"}

CreatePlaces == {"lookup", "adduser", "mkdir", "chown", "chmod"}

(* A command in progress has its user, create_user remembers the identity it *)
(* was entered with, and a session has its FIFO from mkfifo to its end.      *)
ChildInv(p) ==
    /\ child[p].pc \in LoginPlaces \cup {"forked", "gone"} => child[p].user = NoUser
    /\ child[p].pc \in LoginPlaces \cup CreatePlaces => child[p].arg \in Users
    /\ child[p].pc \in CreatePlaces => child[p].orig = IdentityOf(p)
    /\ child[p].pc = "select" => child[p].euid = IdentityOf(p)
    /\ child[p].pc = "enter" \/ child[p].user # NoUser => fifo[p] = "own"

CommandInv == \A p \in Pids : ChildInv(p)

(* The process that made a home directory is the only one that works on it.  *)
HomeInv ==
    /\ Foreign \subseteq account
    /\ \A p \in Pids :
        /\ child[p].pc \in {"mkdir", "chown", "chmod"} => child[p].arg \in account \ Foreign
        /\ child[p].pc = "chown" => home[child[p].arg] = "made"
        /\ child[p].pc = "chmod" => home[child[p].arg] = "owned"
        /\ \A q \in Pids :
              /\ child[p].pc \in {"chown", "chmod"}
              /\ child[q].pc \in {"chown", "chmod"}
              /\ child[p].arg = child[q].arg
              => p = q
    /\ \A u \in Users :
        /\ home[u] # "ready" => created[u] = 0
        /\ created[u] <= 1
        /\ created[u] = 1 => u \in account \ Foreign

ServerInv == StateTypes /\ PendingInv /\ CommandInv /\ SemaphoreKept /\ HomeInv

-----------------------------------------------------------------------------
(* Types *)

(* The record of a child and a changed pc, euid and arg are of their types.  *)
LEMMA ChildRecords ==
  ASSUME StateTypes, NEW p \in Pids
  PROVE  /\ Gone \in ChildType
         /\ child[p] \in ChildType
         /\ \A c \in Places : Goes(p, c) => child' \in [Pids -> ChildType]
         /\ \A e \in Euids : Back(p, e) => child' \in [Pids -> ChildType]
         /\ Restore(p) => child' \in [Pids -> ChildType]
         /\ Ends(p) => /\ child' \in [Pids -> ChildType]
                       /\ fifo' \in [Pids -> {"none", "own", "stale"}]
<1> USE ServerAssumption DEF StateTypes, Places, Euids
<1>1. Gone \in ChildType
  BY DEF Gone, ChildType
<1>2. child[p] \in ChildType
  OBVIOUS
<1>3. ASSUME NEW c \in Places, Goes(p, c)  PROVE child' \in [Pids -> ChildType]
  BY <1>2, <1>3 DEF Goes, ChildType
<1>4. ASSUME NEW e \in Euids, Back(p, e)  PROVE child' \in [Pids -> ChildType]
  BY <1>2, <1>4 DEF Back, ChildType
<1>5. child[p].orig \in Euids
  BY <1>2 DEF ChildType
<1>6. Ends(p) => /\ child' \in [Pids -> ChildType]
                 /\ fifo' \in [Pids -> {"none", "own", "stale"}]
  BY <1>1 DEF Ends
<1> QED  BY <1>1, <1>2, <1>3, <1>4, <1>5, <1>6 DEF Restore

(* Every step keeps the types.                                               *)
LEMMA StateTypesKept ==
  ASSUME StateTypes, CommandInv, [Next]_vars
  PROVE  StateTypes'
<1> USE ServerAssumption DEF StateTypes, procVars, diskVars, Euids
<1>0. CASE UNCHANGED vars
  BY <1>0 DEF vars
<1>1. CASE Main
  <2>1. CASE Start
    <3>1. server.run + 1 \in 1 .. MaxRuns
      BY <2>1 DEF Start
    <3>2. server' \in [pc : {"loop", "wait", "dying", "down"}, run : 0 .. MaxRuns]
      BY <2>1, <3>1 DEF Start
    <3> QED  BY <2>1, <3>1, <3>2 DEF Start
  <2>2. ASSUME NEW p \in Pids, Accept(p)  PROVE StateTypes'
    <3>1. [Gone EXCEPT !.pc = "forked", !.run = server.run] \in ChildType
      BY DEF Gone, ChildType, Places
    <3> QED  BY <2>2, <3>1 DEF Accept
  <2>3. CASE ExitCommand \/ StdinClosed \/ ExitDone
    BY <2>3 DEF ExitCommand, StdinClosed, ExitDone
  <2>4. CASE ServerTermination \/ ServerExitByTermination
    BY <2>4 DEF ServerTermination, ServerExitByTermination
  <2> QED  BY <1>1, <2>1, <2>2, <2>3, <2>4 DEF Main
<1>2. CASE Signal
  BY <1>2 DEF Signal
<1>3. CASE Kill
  <2>1. ASSUME NEW p \in Pids, Ends(p)
        PROVE /\ child' \in [Pids -> ChildType]
              /\ fifo' \in [Pids -> {"none", "own", "stale"}]
    BY <2>1, ChildRecords
  <2> QED  BY <1>3, <2>1 DEF Kill
<1>4. ASSUME NEW p \in Pids, Child(p)  PROVE StateTypes'
  <2>0. /\ Gone \in ChildType
        /\ child[p] \in ChildType
        /\ child[p].orig \in Euids
    BY ChildRecords DEF ChildType
  <2>g. \A c \in Places : Goes(p, c) => child' \in [Pids -> ChildType]
    BY ChildRecords
  <2>b. \A e \in Euids : Back(p, e) => child' \in [Pids -> ChildType]
    BY ChildRecords
  <2>e. Ends(p) => /\ child' \in [Pids -> ChildType]
                   /\ fifo' \in [Pids -> {"none", "own", "stale"}]
    BY ChildRecords
  <2>1. CASE DropPrivileges(p)
    BY <2>1, <2>b, <2>e DEF DropPrivileges
  <2>2. CASE EndSession(p)
    <3> DEFINE new == [child[p] EXCEPT !.pc = "unlink", !.euid = "root"]
    <3>1. new \in ChildType
      BY <2>0 DEF ChildType, Places
    <3>2. [child EXCEPT ![p].pc = "unlink", ![p].euid = "root"] = [child EXCEPT ![p] = new]
      OBVIOUS
    <3>3. [child EXCEPT ![p] = new] \in [Pids -> ChildType]
      BY <3>1
    <3> QED  BY <2>2, <2>e, <3>2, <3>3 DEF EndSession
  <2>3. CASE UnlinkFifo(p)
    BY <2>3, <2>0 DEF UnlinkFifo
  <2>4. CASE Login(p)
    <3>1. PICK u \in Users :
            child' = [child EXCEPT ![p].pc = "mkfifo", ![p].euid = "root", ![p].arg = u]
      BY <2>4 DEF Login
    <3> DEFINE new == [child[p] EXCEPT !.pc = "mkfifo", !.euid = "root", !.arg = u]
    <3>2. new \in ChildType
      BY <2>0 DEF ChildType, Places
    <3>3. child' = [child EXCEPT ![p] = new]
      BY <3>1
    <3>4. child' \in [Pids -> ChildType]
      BY <3>2, <3>3
    <3> QED  BY <2>4, <3>4 DEF Login
  <2>5. CASE MakeFifo(p)
    BY <2>5, <2>b, <2>g DEF MakeFifo, LoginFails, LoginErrorEuid, Places
  <2>6. CASE EnterHome(p)
    <3>1. CASE LoginFails(p) /\ UNCHANGED <<server, pending, signals, ipc, account, home, created>>
      BY <2>b, <3>1 DEF LoginFails, LoginErrorEuid
    <3>2. child[p].arg \in Users
      BY <2>6 DEF CommandInv, ChildInv, EnterHome, At, LoginPlaces
    <3> DEFINE new == [child[p] EXCEPT !.pc = "select", !.euid = child[p].arg,
                                       !.user = child[p].arg, !.arg = NoUser]
    <3>3. new \in ChildType
      BY <2>0, <3>2 DEF ChildType, Places
    <3>4. [child EXCEPT ![p].pc = "select", ![p].euid = child[p].arg,
                        ![p].user = child[p].arg, ![p].arg = NoUser]
             = [child EXCEPT ![p] = new]
      OBVIOUS
    <3>5. [child EXCEPT ![p] = new] \in [Pids -> ChildType]
      BY <3>3
    <3> QED  BY <2>6, <3>1, <3>4, <3>5 DEF EnterHome
  <2>7. CASE CreateUser(p)
    <3>1. PICK u \in Users :
            child' = [child EXCEPT ![p].pc = "lookup", ![p].arg = u,
                                   ![p].orig = child[p].euid, ![p].euid = "root"]
      BY <2>7 DEF CreateUser
    <3> DEFINE new == [child[p] EXCEPT !.pc = "lookup", !.arg = u,
                                       !.orig = child[p].euid, !.euid = "root"]
    <3>2. new \in ChildType
      BY <2>0 DEF ChildType, Places
    <3>3. child' = [child EXCEPT ![p] = new]
      BY <3>1
    <3>4. child' \in [Pids -> ChildType]
      BY <3>2, <3>3
    <3> QED  BY <2>7, <3>4 DEF CreateUser
  <2>r. Restore(p) => child' \in [Pids -> ChildType]
    BY <2>0, <2>b DEF Restore
  <2>8. CASE Lookup(p)
    BY <2>8, <2>g, <2>r DEF Lookup, Places
  <2>9. CASE RunAdduser(p)
    <3>1. child[p].arg \in Users
      BY <2>9 DEF CommandInv, ChildInv, RunAdduser, At, CreatePlaces
    <3> QED  BY <2>9, <2>g, <2>r, <3>1 DEF RunAdduser, Places
  <2>10. CASE MakeHome(p)
    BY <2>10, <2>g, <2>r DEF MakeHome, Places
  <2>11. CASE ChownHome(p)
    BY <2>11, <2>g, <2>r DEF ChownHome, Places
  <2>12. CASE ChmodHome(p)
    BY <2>12, <2>r DEF ChmodHome
  <2>13. CASE handle_termination(p)
    BY <2>13, <2>g DEF handle_termination, Places
  <2>14. CASE ExitByTermination(p)
    BY <2>14, <2>e DEF ExitByTermination
  <2> QED
    BY <1>4, <2>1, <2>2, <2>3, <2>4, <2>5, <2>6, <2>7, <2>8, <2>9, <2>10, <2>11, <2>12,
       <2>13, <2>14 DEF Child, Command
<1> QED  BY <1>0, <1>1, <1>2, <1>3, <1>4 DEF Next

-----------------------------------------------------------------------------
(* Identities and FIFOs *)

(* A step of a child, its creation and its end leave the others alone.       *)
LEMMA OthersStay ==
  ASSUME StateTypes, NEW p \in Pids,
         Child(p) \/ Accept(p) \/ (Ends(p) /\ UNCHANGED account), NEW q \in Pids, q # p
  PROVE  child'[q] = child[q] /\ fifo'[q] = fifo[q]
<1> USE DEF StateTypes, diskVars
<1>1. CASE Accept(p)
  BY <1>1 DEF Accept
<1>2. Ends(p) => child'[q] = child[q] /\ fifo'[q] = fifo[q]
  BY DEF Ends
<1>3. \A c, e : Goes(p, c) \/ Back(p, e) \/ Restore(p) => child'[q] = child[q]
  BY DEF Goes, Back, Restore
<1>4. CASE DropPrivileges(p) \/ EndSession(p) \/ UnlinkFifo(p)
  BY <1>2, <1>3, <1>4 DEF DropPrivileges, EndSession, UnlinkFifo
<1>5. CASE Login(p) \/ MakeFifo(p) \/ EnterHome(p)
  BY <1>3, <1>5 DEF Login, MakeFifo, EnterHome, LoginFails
<1>6. CASE CreateUser(p) \/ Lookup(p) \/ RunAdduser(p)
  BY <1>3, <1>6 DEF CreateUser, Lookup, RunAdduser
<1>7. CASE MakeHome(p) \/ ChownHome(p) \/ ChmodHome(p)
  BY <1>3, <1>7 DEF MakeHome, ChownHome, ChmodHome
<1>8. CASE handle_termination(p) \/ ExitByTermination(p)
  BY <1>2, <1>3, <1>8 DEF handle_termination, ExitByTermination
<1> QED  BY <1>1, <1>2, <1>4, <1>5, <1>6, <1>7, <1>8 DEF Child, Command

(* A child goes on with, leaves or ends its command under its invariant.     *)
LEMMA ChildStep ==
  ASSUME StateTypes, NEW p \in Pids, ChildInv(p), Child(p)
  PROVE  ChildInv(p)'
<1> USE ServerAssumption DEF StateTypes, ChildInv, IdentityOf, LoginPlaces, CreatePlaces, At
<1>0. child[p] \in ChildType
  OBVIOUS
<1>1. Ends(p) => ChildInv(p)'
  BY DEF Ends, Gone
<1>2. ASSUME NEW c, Goes(p, c)
      PROVE  /\ child'[p].pc = c /\ child'[p].user = child[p].user
             /\ child'[p].arg = child[p].arg /\ child'[p].orig = child[p].orig
  BY <1>0, <1>2 DEF Goes, ChildType
<1>3. ASSUME NEW e, Back(p, e)
      PROVE  /\ child'[p].pc = "select" /\ child'[p].user = child[p].user
             /\ child'[p].euid = e
  BY <1>0, <1>3 DEF Back, ChildType
<1>4. ASSUME Restore(p), child[p].pc \in CreatePlaces, UNCHANGED fifo
      PROVE  ChildInv(p)'
  BY <1>3, <1>4 DEF Restore
<1>5. ASSUME NEW c \in CreatePlaces, Goes(p, c), child[p].pc \in CreatePlaces, UNCHANGED fifo
      PROVE  ChildInv(p)'
  BY <1>2, <1>5
<1>6. CASE DropPrivileges(p)
  BY <1>1, <1>3, <1>6 DEF DropPrivileges
<1>7. CASE EndSession(p)
  <2>1. CASE Ends(p)
    BY <1>1, <2>1
  <2>2. CASE child' = [child EXCEPT ![p].pc = "unlink", ![p].euid = "root"] /\ UNCHANGED fifo
    <3>1. child'[p].pc = "unlink" /\ child'[p].user = child[p].user
      BY <1>0, <2>2 DEF ChildType
    <3> QED  BY <2>2, <3>1
  <2> QED  BY <1>7, <2>1, <2>2 DEF EndSession
<1>8. CASE UnlinkFifo(p)
  BY <1>8 DEF UnlinkFifo, Gone
<1>9. CASE Login(p)
  <2>1. PICK u \in Users :
          child' = [child EXCEPT ![p].pc = "mkfifo", ![p].euid = "root", ![p].arg = u]
    BY <1>9 DEF Login
  <2>2. child'[p].pc = "mkfifo" /\ child'[p].user = child[p].user /\ child'[p].arg = u
    BY <1>0, <2>1 DEF ChildType
  <2> QED  BY <1>9, <2>2 DEF Login
<1>10. CASE MakeFifo(p)
  BY <1>2, <1>3, <1>10 DEF MakeFifo, LoginFails, LoginErrorEuid
<1>11. CASE EnterHome(p)
  <2>1. CASE LoginFails(p)
    BY <1>3, <1>11, <2>1 DEF EnterHome, LoginFails, LoginErrorEuid
  <2>2. CASE /\ child' = [child EXCEPT ![p].pc = "select", ![p].euid = child[p].arg,
                                      ![p].user = child[p].arg, ![p].arg = NoUser]
             /\ UNCHANGED fifo
    <3>1. /\ child'[p].pc = "select" /\ child'[p].user = child[p].arg
          /\ child'[p].euid = child[p].arg
      BY <1>0, <2>2 DEF ChildType
    <3> QED  BY <1>11, <2>2, <3>1 DEF EnterHome
  <2> QED  BY <1>11, <2>1, <2>2 DEF EnterHome
<1>12. CASE CreateUser(p)
  <2>1. PICK u \in Users :
          child' = [child EXCEPT ![p].pc = "lookup", ![p].arg = u,
                                 ![p].orig = child[p].euid, ![p].euid = "root"]
    BY <1>12 DEF CreateUser
  <2>2. /\ child'[p].pc = "lookup" /\ child'[p].user = child[p].user /\ child'[p].arg = u
        /\ child'[p].orig = child[p].euid
    BY <1>0, <2>1 DEF ChildType
  <2> QED  BY <1>12, <2>2 DEF CreateUser, diskVars
<1>13. CASE Lookup(p)
  BY <1>4, <1>5, <1>13 DEF Lookup, diskVars
<1>14. CASE RunAdduser(p)
  BY <1>4, <1>5, <1>14 DEF RunAdduser
<1>15. CASE MakeHome(p)
  BY <1>4, <1>5, <1>15 DEF MakeHome
<1>16. CASE ChownHome(p)
  BY <1>4, <1>5, <1>16 DEF ChownHome
<1>17. CASE ChmodHome(p)
  BY <1>4, <1>17 DEF ChmodHome
<1>18. CASE handle_termination(p)
  BY <1>2, <1>18 DEF handle_termination, diskVars
<1>19. CASE ExitByTermination(p)
  BY <1>1, <1>19 DEF ExitByTermination
<1> QED
  BY <1>6, <1>7, <1>8, <1>9, <1>10, <1>11, <1>12, <1>13, <1>14, <1>15, <1>16, <1>17,
     <1>18, <1>19 DEF Child, Command

(* Every step keeps the invariant of every child.                            *)
LEMMA CommandInvKept ==
  ASSUME StateTypes, CommandInv, [Next]_vars
  PROVE  CommandInv'
<1> USE DEF CommandInv, procVars, diskVars
<1>0. ASSUME UNCHANGED <<child, fifo>>  PROVE CommandInv'
  BY <1>0 DEF ChildInv, IdentityOf
<1>1. ASSUME NEW p \in Pids, ChildInv(p)',
             \A q \in Pids : q # p => child'[q] = child[q] /\ fifo'[q] = fifo[q]
      PROVE  CommandInv'
  BY <1>1 DEF ChildInv, IdentityOf
<1>2. CASE Start
  <2>1. \A p \in Pids : Alive(p) => fifo'[p] = fifo[p]
    BY <1>2 DEF Start, StaleFifos, StateTypes
  <2>2. UNCHANGED child
    BY <1>2 DEF Start
  <2> QED
    BY <2>1, <2>2 DEF ChildInv, IdentityOf, Alive, LoginPlaces, CreatePlaces
<1>3. ASSUME NEW p \in Pids, Accept(p)  PROVE CommandInv'
  <2>1. child'[p].pc = "forked" /\ child'[p].user = NoUser
    BY <1>3 DEF Accept, Gone, StateTypes
  <2>2. ChildInv(p)'
    BY <2>1 DEF ChildInv, LoginPlaces, CreatePlaces
  <2> QED  BY <1>1, <1>3, <2>2, OthersStay
<1>4. ASSUME NEW p \in Pids, Child(p)  PROVE CommandInv'
  BY <1>1, <1>4, ChildStep, OthersStay
<1>5. CASE Kill
  <2>1. ASSUME NEW p \in Pids, Ends(p), UNCHANGED account  PROVE CommandInv'
    <3>1. ChildInv(p)'
      BY <2>1 DEF Ends, Gone, ChildInv, LoginPlaces, CreatePlaces, StateTypes
    <3> QED  BY <1>1, <2>1, <3>1, OthersStay
  <2> QED  BY <1>0, <1>5, <2>1 DEF Kill
<1>6. CASE Signal \/ UNCHANGED vars
  BY <1>0, <1>6 DEF Signal, vars
<1>7. CASE ExitCommand \/ ExitDone \/ StdinClosed \/ ServerTermination \/ ServerExitByTermination
  BY <1>0, <1>7
     DEF ExitCommand, ExitDone, StdinClosed, ServerTermination, ServerExitByTermination
<1> QED  BY <1>2, <1>3, <1>4, <1>5, <1>6, <1>7 DEF Next, Main

-----------------------------------------------------------------------------
(* Signals and the semaphore *)

(* The steps of a child but those of its signal handler.                     *)
Undisturbed(p) ==
    DropPrivileges(p) \/ Command(p) \/ EndSession(p) \/ UnlinkFifo(p)

(* They need that no signal is pending, and touch no other process.          *)
LEMMA UndisturbedStep ==
  ASSUME NEW p \in Pids, Undisturbed(p)
  PROVE  /\ p \notin pending /\ child[p].pc \notin {"gone", "dying"}
         /\ UNCHANGED <<server, pending, signals, ipc>>
<1> USE DEF At
<1>1. CASE DropPrivileges(p) \/ EndSession(p) \/ UnlinkFifo(p)
  BY <1>1 DEF DropPrivileges, EndSession, UnlinkFifo
<1>2. CASE Login(p) \/ MakeFifo(p) \/ EnterHome(p)
  BY <1>2 DEF Login, MakeFifo, EnterHome
<1>3. CASE CreateUser(p) \/ Lookup(p) \/ RunAdduser(p)
  BY <1>3 DEF CreateUser, Lookup, RunAdduser
<1>4. CASE MakeHome(p) \/ ChownHome(p) \/ ChmodHome(p)
  BY <1>4 DEF MakeHome, ChownHome, ChmodHome
<1> QED  BY <1>1, <1>2, <1>3, <1>4 DEF Undisturbed, Command

(* Every step keeps signals away from processes that do not take them.       *)
LEMMA PendingInvKept ==
  ASSUME StateTypes, PendingInv, [Next]_vars
  PROVE  PendingInv'
<1> USE ServerAssumption DEF StateTypes, PendingInv, procVars
<1>0. CASE UNCHANGED vars
  BY <1>0 DEF vars
<1>1. CASE Signal
  BY <1>1 DEF Signal, Alive
<1>2. CASE Kill
  BY <1>2 DEF Kill, Ends, Alive
<1>3. ASSUME NEW p \in Pids, Accept(p)  PROVE PendingInv'
  BY <1>3 DEF Accept, Alive, Gone
<1>4. CASE Start \/ ExitDone \/ StdinClosed \/ ServerTermination
  BY <1>4 DEF Start, ExitDone, StdinClosed, ServerTermination
<1>5. CASE ExitCommand
  BY <1>5 DEF ExitCommand, ExitSignals, Group, Children, Alive
<1>6. CASE ServerExitByTermination
  BY <1>6 DEF ServerExitByTermination, TerminationSignals, Group, Children, Alive
<1>7. ASSUME NEW p \in Pids, Child(p)  PROVE PendingInv'
  <2>1. \A q \in Pids : q # p => child'[q] = child[q]
    BY <1>7, OthersStay
  <2>2. CASE Undisturbed(p)
    BY <2>1, <2>2, UndisturbedStep
  <2>3. CASE handle_termination(p)
    BY <2>1, <2>3 DEF handle_termination
  <2>4. CASE ExitByTermination(p)
    BY <2>1, <2>4 DEF ExitByTermination, TerminationSignals, Group, Children, Alive
  <2> QED  BY <1>7, <2>2, <2>3, <2>4 DEF Child, Undisturbed
<1> QED  BY <1>0, <1>1, <1>2, <1>3, <1>4, <1>5, <1>6, <1>7 DEF Next, Main

(* Who removes the semaphore of a running server ends it too.                *)
LEMMA SemaphoreKeptKept ==
  ASSUME StateTypes, PendingInv, SemaphoreKept, [Next]_vars
  PROVE  SemaphoreKept'
<1> USE ServerAssumption DEF StateTypes, SemaphoreKept, Children, Alive
<1>0. CASE UNCHANGED vars
  BY <1>0 DEF vars, procVars
<1>1. CASE Signal
  BY <1>1 DEF Signal
<1>2. CASE Kill
  BY <1>2 DEF Kill, Ends
<1>3. ASSUME NEW p \in Pids, Accept(p)  PROVE SemaphoreKept'
  BY <1>3 DEF Accept
<1>4. CASE Start
  BY <1>4 DEF Start
<1>5. CASE ExitCommand \/ ExitDone \/ StdinClosed
  BY <1>5 DEF ExitCommand, ExitDone, StdinClosed
<1>6. CASE ServerTermination \/ ServerExitByTermination
  BY <1>6 DEF ServerTermination, ServerExitByTermination
<1>7. ASSUME NEW p \in Pids, Child(p)  PROVE SemaphoreKept'
  <2>1. \A q \in Pids : q # p => child'[q] = child[q]
    BY <1>7, OthersStay
  <2>2. CASE Undisturbed(p)
    BY <2>1, <2>2, UndisturbedStep
  <2>3. CASE handle_termination(p)
    <3>1. child'[p].pc = "dying" /\ child'[p].run = child[p].run
      BY <2>3 DEF handle_termination, Goes, ChildType
    <3>2. CASE child[p].run = server.run
      BY <2>3, <3>1, <3>2 DEF handle_termination
    <3>3. CASE child[p].run # server.run
      BY <2>1, <2>3, <3>3 DEF handle_termination
    <3> QED  BY <3>2, <3>3
  <2>4. CASE ExitByTermination(p)
    BY <2>1, <2>4 DEF ExitByTermination, TerminationSignals, Group
  <2> QED  BY <1>7, <2>2, <2>3, <2>4 DEF Child, Undisturbed
<1> QED  BY <1>0, <1>1, <1>2, <1>3, <1>4, <1>5, <1>6, <1>7 DEF Next, Main

-----------------------------------------------------------------------------
(* Home directories *)

HomePlaces == {"mkdir", "chown", "chmod"}

(* What outlives the processes stays, and no child begins to make a home.    *)
LEMMA HomesUntouched ==
  ASSUME StateTypes, HomeInv, UNCHANGED <<account, home, created>>,
         \A q \in Pids : child'[q].pc \in HomePlaces =>
             child'[q].pc = child[q].pc /\ child'[q].arg = child[q].arg
  PROVE  HomeInv'
  BY DEF HomeInv, HomePlaces, StateTypes

(* Every step of a child keeps to one maker of each home.                    *)
LEMMA HomeStep ==
  ASSUME StateTypes, CommandInv, HomeInv, NEW p \in Pids, Child(p)
  PROVE  HomeInv'
<1> USE ServerAssumption DEF StateTypes, At, HomePlaces, diskVars
<1>0. /\ child[p] \in ChildType
      /\ child[p].pc \in CreatePlaces => child[p].arg \in Users
      /\ \A q \in Pids : q # p => child'[q] = child[q]
  BY OthersStay DEF CommandInv, ChildInv
<1>1. Ends(p) => child'[p].pc = "gone"
  BY DEF Ends, Gone
<1>2. ASSUME NEW c, Goes(p, c)  PROVE child'[p].pc = c /\ child'[p].arg = child[p].arg
  BY <1>0, <1>2 DEF Goes, ChildType
<1>3. \A e : Back(p, e) => child'[p].pc = "select"
  BY <1>0 DEF Back, ChildType
<1>4. Restore(p) => child'[p].pc = "select"
  BY <1>3 DEF Restore
<1>5. ASSUME UNCHANGED <<account, home, created>>, child'[p].pc \notin HomePlaces
      PROVE  HomeInv'
  BY <1>0, <1>5, HomesUntouched
<1>6. CASE DropPrivileges(p) \/ EndSession(p) \/ UnlinkFifo(p)
  <2>1. child'[p].pc \in {"gone", "select", "unlink"}
    BY <1>0, <1>1, <1>3, <1>6 DEF DropPrivileges, EndSession, UnlinkFifo, Gone, ChildType
  <2>2. UNCHANGED <<account, home, created>>
    BY <1>6 DEF DropPrivileges, EndSession, UnlinkFifo
  <2> QED  BY <1>5, <2>1, <2>2
<1>7. CASE Login(p)
  <2>1. child'[p].pc = "mkfifo"
    BY <1>0, <1>7 DEF Login, ChildType
  <2> QED  BY <1>5, <1>7, <2>1 DEF Login
<1>8. CASE MakeFifo(p)
  BY <1>2, <1>3, <1>5, <1>8 DEF MakeFifo, LoginFails
<1>9. CASE EnterHome(p)
  <2>1. child'[p].pc = "select"
    BY <1>0, <1>3, <1>9 DEF EnterHome, LoginFails, ChildType
  <2> QED  BY <1>5, <1>9, <2>1 DEF EnterHome
<1>10. CASE CreateUser(p)
  <2>1. child'[p].pc = "lookup"
    BY <1>0, <1>10 DEF CreateUser, ChildType
  <2> QED  BY <1>5, <1>10, <2>1 DEF CreateUser
<1>11. CASE handle_termination(p) \/ ExitByTermination(p)
  <2>1. child'[p].pc \in {"dying", "gone"}
    BY <1>1, <1>2, <1>11 DEF handle_termination, ExitByTermination
  <2> QED  BY <1>5, <1>11, <2>1 DEF handle_termination, ExitByTermination
<1>12. CASE Lookup(p)
  <2>1. CASE Restore(p) \/ Goes(p, "adduser")
    BY <1>2, <1>4, <1>5, <1>12, <2>1 DEF Lookup
  <2>2. CASE child[p].arg \in account \ Foreign /\ Goes(p, "mkdir")
    BY <1>0, <1>2, <1>12, <2>2 DEF Lookup, HomeInv
  <2> QED  BY <1>12, <2>1, <2>2 DEF Lookup
<1>13. CASE RunAdduser(p)
  <2>1. CASE Restore(p) /\ UNCHANGED account
    BY <1>4, <1>5, <1>13, <2>1 DEF RunAdduser
  <2>2. CASE /\ child[p].arg \notin account
             /\ account' = account \cup {child[p].arg}
             /\ Goes(p, "mkdir")
    BY <1>0, <1>2, <1>13, <2>2 DEF RunAdduser, HomeInv
  <2> QED  BY <1>13, <2>1, <2>2 DEF RunAdduser
<1>14. CASE MakeHome(p)
  <2>1. CASE Restore(p) /\ UNCHANGED home
    BY <1>4, <1>5, <1>14, <2>1 DEF MakeHome
  <2>2. CASE /\ MayTakeDir(child[p].arg)
             /\ home' = [home EXCEPT ![child[p].arg] = "made"]
             /\ Goes(p, "chown")
    BY <1>0, <1>2, <1>14, <2>2 DEF MakeHome, MayTakeDir, HomeInv
  <2> QED  BY <1>14, <2>1, <2>2 DEF MakeHome
<1>15. CASE ChownHome(p)
  <2>1. CASE Restore(p) /\ UNCHANGED home
    BY <1>4, <1>5, <1>15, <2>1 DEF ChownHome
  <2>2. CASE home' = [home EXCEPT ![child[p].arg] = "owned"] /\ Goes(p, "chmod")
    BY <1>0, <1>2, <1>15, <2>2 DEF ChownHome, HomeInv
  <2> QED  BY <1>15, <2>1, <2>2 DEF ChownHome
<1>16. CASE ChmodHome(p)
  <2>1. CASE UNCHANGED <<home, created>>
    BY <1>4, <1>5, <1>16, <2>1 DEF ChmodHome
  <2>2. CASE /\ home' = [home EXCEPT ![child[p].arg] = "ready"]
             /\ created' = [created EXCEPT ![child[p].arg] = @ + 1]
    BY <1>0, <1>4, <1>16, <2>2 DEF ChmodHome, HomeInv, CreatePlaces
  <2> QED  BY <1>16, <2>1, <2>2 DEF ChmodHome
<1> QED
  BY <1>6, <1>7, <1>8, <1>9, <1>10, <1>11, <1>12, <1>13, <1>14, <1>15, <1>16
     DEF Child, Command

(* Every step keeps to one maker of each home.                               *)
LEMMA HomeInvKept ==
  ASSUME StateTypes, CommandInv, HomeInv, [Next]_vars
  PROVE  HomeInv'
<1> USE DEF StateTypes, HomePlaces, procVars, diskVars
<1>0. ASSUME UNCHANGED <<child, account, home, created>>  PROVE HomeInv'
  BY <1>0, HomesUntouched
<1>1. CASE UNCHANGED vars \/ Signal
  BY <1>0, <1>1 DEF vars, Signal
<1>2. CASE Kill
  <2>1. ASSUME NEW p \in Pids, Ends(p), UNCHANGED <<account, home, created>>  PROVE HomeInv'
    BY <2>1, HomesUntouched DEF Ends, Gone
  <2> QED  BY <1>0, <1>2, <2>1 DEF Kill
<1>3. ASSUME NEW p \in Pids, Accept(p)  PROVE HomeInv'
  BY <1>3, HomesUntouched DEF Accept, Gone
<1>4. CASE Start \/ ExitCommand \/ ExitDone \/ StdinClosed
  BY <1>0, <1>4 DEF Start, ExitCommand, ExitDone, StdinClosed
<1>5. CASE ServerTermination \/ ServerExitByTermination
  BY <1>0, <1>5 DEF ServerTermination, ServerExitByTermination
<1> QED  BY <1>1, <1>2, <1>3, <1>4, <1>5, HomeStep DEF Next, Main

-----------------------------------------------------------------------------
(* Theorems *)

(* All of it holds in the first state ...                                    *)
LEMMA ServerInvInit ==
  ASSUME Init
  PROVE  ServerInv
<1> USE ServerAssumption DEF Init
<1>1. Gone \in ChildType
  BY DEF Gone, ChildType, Places, Euids
<1>2. StateTypes
  BY <1>1 DEF StateTypes
<1>3. CommandInv
  BY DEF CommandInv, ChildInv, IdentityOf, Gone, LoginPlaces, CreatePlaces
<1>4. HomeInv
  BY DEF HomeInv, Gone
<1> QED  BY <1>2, <1>3, <1>4 DEF ServerInv, PendingInv, SemaphoreKept

(* ... and in every reachable one.                                           *)
LEMMA ServerInvHolds == Spec => []ServerInv
<1>1. Init => ServerInv
  BY ServerInvInit
<1>2. ServerInv /\ [Next]_vars => ServerInv'
  BY StateTypesKept, PendingInvKept, CommandInvKept, SemaphoreKeptKept, HomeInvKept
     DEF ServerInv
<1> QED  BY <1>1, <1>2, PTL DEF Spec

(* Processes, FIFOs, accounts and directories stay of their types, and a     *)
(* signal is pending only for a process that is there (TypeOK).              *)
THEOREM ServerTypes == Spec => []TypeOK
<1>1. ServerInv => TypeOK
  BY DEF ServerInv, StateTypes, PendingInv, TypeOK, ChildType, Places, Euids, Alive
<1> QED  BY <1>1, ServerInvHolds, PTL

(* login and create_user give back the identity they were entered with,      *)
(* whichever call failed.                                                    *)
THEOREM IdentityGivenBack == Spec => []IdleIdentity
<1>1. ServerInv => IdleIdentity
  BY DEF ServerInv, CommandInv, ChildInv, IdentityOf, IdleIdentity
<1> QED  BY <1>1, ServerInvHolds, PTL

(* The FIFO of a live session survives restarts of the server.               *)
THEOREM SessionKeepsFifo == Spec => []SessionFifo
<1>1. ServerInv => SessionFifo
  BY DEF ServerInv, CommandInv, ChildInv, SessionFifo
<1> QED  BY <1>1, ServerInvHolds, PTL

(* A server that takes connections has its semaphore, or is about to end.    *)
THEOREM SemaphoreStays == Spec => []SemaphoreKept
<1>1. ServerInv => SemaphoreKept
  BY DEF ServerInv
<1> QED  BY <1>1, ServerInvHolds, PTL

(* create_user makes a home once, however many sessions create it at a time. *)
THEOREM HomeMadeOnce == Spec => []HomeOnce
<1>1. ServerInv => HomeOnce
  BY DEF ServerInv, HomeInv, HomeOnce
<1> QED  BY <1>1, ServerInvHolds, PTL
=============================================================================
