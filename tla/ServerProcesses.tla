--------------------------- MODULE ServerProcesses ---------------------------
(***************************************************************************)
(* The server's processes and what outlives them: main() and its children, *)
(* their effective user ids, SIGTERM and the exits, the semaphore of every *)
(* start of the server, the FIFOs in .sessions, the accounts of the system *)
(* and the home directories.  login and create_user are taken one system   *)
(* call with an effect at a time; the other commands, which keep to all of *)
(* this, are in the other modules.                                         *)
(*                                                                         *)
(* The server is started with sudo: the real user id of all its processes  *)
(* is root, so that a set-id call made as root does not fail.              *)
(***************************************************************************)
EXTENDS Naturals, FiniteSets

CONSTANTS
    Pids,        \* process ids of children
    Users,       \* names given to login and create_user
    Foreign,     \* those of system accounts outside csap_group
    MaxRuns,     \* bound on the starts of the server
    MaxSignals   \* bound on the signals sent from outside

Server == "server"
NoUser == "none"

ASSUME ServerAssumption ==
    /\ Server \notin Pids /\ NoUser \notin Users
    /\ Foreign \subseteq Users
    /\ MaxRuns \in Nat /\ MaxSignals \in Nat

VARIABLES
    server,   \* pc: loop, wait (for the children), dying, down; run: its number
    child,    \* pid |-> pc, run, euid, user (logged in), arg (of the command), orig
    pending,  \* processes with a SIGTERM or SIGINT not handled yet
    signals,  \* signals sent from outside so far
    ipc,      \* the runs whose semaphore exists
    fifo,     \* pid |-> fifo_<pid>: none, own (of the live process), stale
    account,  \* users known to getpwnam
    home,     \* user |-> none, made (owned by root), owned, ready
    created   \* ghost: user |-> positive answers to create_user

procVars == <<server, child, pending, signals>>
diskVars == <<fifo, account, home, created>>
vars == <<server, child, pending, signals, ipc, fifo, account, home, created>>

Gone == [pc |-> "gone", run |-> 0, euid |-> "root", user |-> NoUser,
         arg |-> NoUser, orig |-> "root"]

Alive(p) == child[p].pc # "gone"
Children(r) == {p \in Pids : Alive(p) /\ child[p].run = r}

Init ==
    /\ server = [pc |-> "down", run |-> 0]
    /\ child = [p \in Pids |-> Gone]
    /\ pending = {} /\ signals = 0
    /\ ipc = {}
    /\ fifo = [p \in Pids |-> "none"]
    /\ account = Foreign
    /\ home = [u \in Users |-> "none"]
    /\ created = [u \in Users |-> 0]

-----------------------------------------------------------------------------
(* Starting, accepting *)

(* Fault: every FIFO found is removed.                                      *)
StaleFifosAll == Pids

(* kill(pid, 0) fails with ESRCH: no process has the id in the FIFO's name. *)
StaleFifos == {p \in Pids : ~Alive(p)}

(* main up to its loop: create_root_directory clears .sessions of an earlier *)
(* run, setup_shmem makes a new private segment and semaphore.               *)
Start ==
    /\ server.pc = "down" /\ server.run < MaxRuns
    /\ server' = [pc |-> "loop", run |-> server.run + 1]
    /\ ipc' = ipc \cup {server.run + 1}
    /\ fifo' = [p \in Pids |-> IF p \in StaleFifos THEN "none" ELSE fifo[p]]
    /\ UNCHANGED <<child, pending, signals, account, home, created>>

(* accept and fork; a process id is free once its process is gone. *)
Accept(p) ==
    /\ server.pc = "loop" /\ Server \notin pending /\ ~Alive(p)
    /\ child' = [child EXCEPT ![p] = [Gone EXCEPT !.pc = "forked", !.run = server.run]]
    /\ UNCHANGED <<server, pending, signals, ipc, diskVars>>

-----------------------------------------------------------------------------
(* The end of a process *)

(* The process is gone; its FIFO, if it made one, has no reader any more. *)
Ends(p) ==
    /\ child' = [child EXCEPT ![p] = Gone]
    /\ fifo' = [fifo EXCEPT ![p] = IF @ = "own" THEN "stale" ELSE @]

(* What the step of p leaves in child; the command is over at select.       *)
Goes(p, pc) == child' = [child EXCEPT ![p].pc = pc]
Back(p, euid) ==
    child' = [child EXCEPT ![p].pc = "select", ![p].euid = euid, ![p].arg = NoUser]

(* A step of p in its command, at place pc; a pending signal comes first.   *)
At(p, pc) == child[p].pc = pc /\ p \notin pending

(* drop_privileges right after the fork; when it fails the child exits. *)
DropPrivileges(p) ==
    /\ At(p, "forked")
    /\ \/ Back(p, "nobody") /\ UNCHANGED fifo
       \/ Ends(p)
    /\ UNCHANGED <<server, pending, signals, ipc, account, home, created>>

(* handle_session returns: the client is gone.  A session with a FIFO        *)
(* becomes root to remove it.                                                *)
EndSession(p) ==
    /\ At(p, "select")
    /\ \/ /\ child[p].user = NoUser
          /\ Ends(p)
       \/ /\ child[p].user # NoUser
          /\ child' = [child EXCEPT ![p].pc = "unlink", ![p].euid = "root"]
          /\ UNCHANGED fifo
    /\ UNCHANGED <<server, pending, signals, ipc, account, home, created>>

UnlinkFifo(p) ==
    /\ At(p, "unlink")
    /\ child' = [child EXCEPT ![p] = Gone]
    /\ fifo' = [fifo EXCEPT ![p] = "none"]
    /\ UNCHANGED <<server, pending, signals, ipc, account, home, created>>

-----------------------------------------------------------------------------
(* login *)

(* Refusals, which change nothing, are left out: already logged in, no       *)
(* account, an account outside the group, no home directory.                 *)
Login(p) ==
    /\ At(p, "select") /\ child[p].user = NoUser
    /\ \E u \in account \ Foreign :
        /\ home[u] # "none"
        /\ child' = [child EXCEPT ![p].pc = "mkfifo", ![p].euid = "root", ![p].arg = u]
    /\ UNCHANGED <<server, pending, signals, ipc, diskVars>>

(* Fault: the error paths return without dropping the privileges.            *)
LoginErrorEuidRoot == "root"

LoginErrorEuid == "nobody"

(* Every error path: unlink the FIFO, drop_privileges, return.               *)
LoginFails(p) ==
    /\ Back(p, LoginErrorEuid)
    /\ fifo' = [fifo EXCEPT ![p] = "none"]

(* unlink of a FIFO left by an earlier process of this id, then mkfifo. *)
MakeFifo(p) ==
    /\ At(p, "mkfifo")
    /\ \/ Goes(p, "enter") /\ fifo' = [fifo EXCEPT ![p] = "own"]
       \/ LoginFails(p)
    /\ UNCHANGED <<server, pending, signals, ipc, account, home, created>>

(* open, the two chowns, chdir and setegid, any of which may fail; seteuid;  *)
(* the session is filled in.                                                 *)
EnterHome(p) ==
    /\ At(p, "enter")
    /\ \/ /\ child' = [child EXCEPT ![p].pc = "select", ![p].euid = child[p].arg,
                                    ![p].user = child[p].arg, ![p].arg = NoUser]
          /\ UNCHANGED fifo
       \/ LoginFails(p)
    /\ UNCHANGED <<server, pending, signals, ipc, account, home, created>>

-----------------------------------------------------------------------------
(* create_user *)

(* seteuid(original_euid) on every way out. *)
Restore(p) == Back(p, child[p].orig)

CreateUser(p) ==
    /\ At(p, "select")
    /\ \E u \in Users :
        child' = [child EXCEPT ![p].pc = "lookup", ![p].arg = u,
                               ![p].orig = child[p].euid, ![p].euid = "root"]
    /\ UNCHANGED <<server, pending, signals, ipc, diskVars>>

(* An account of the group without a home goes on to the home directory: the *)
(* command can be repeated after a failure.                                  *)
Lookup(p) ==
    /\ At(p, "lookup")
    /\ \/ child[p].arg \notin account /\ Goes(p, "adduser")
       \/ child[p].arg \in Foreign /\ Restore(p)
       \/ child[p].arg \in account \ Foreign /\ Goes(p, "mkdir")
    /\ UNCHANGED <<server, pending, signals, ipc, diskVars>>

(* adduser fails if another process has added the account since. *)
RunAdduser(p) ==
    /\ At(p, "adduser")
    /\ \/ /\ child[p].arg \notin account
          /\ account' = account \cup {child[p].arg}
          /\ Goes(p, "mkdir")
       \/ Restore(p) /\ UNCHANGED account
    /\ UNCHANGED <<server, pending, signals, ipc, fifo, home, created>>

(* Fault: a directory that exists is taken for the one to be made.           *)
MayTakeDirAny(u) == TRUE

MayTakeDir(u) == home[u] = "none"

(* create_home_directory: mkdir fails with EEXIST, or for another reason. *)
MakeHome(p) ==
    /\ At(p, "mkdir")
    /\ \/ /\ MayTakeDir(child[p].arg)
          /\ home' = [home EXCEPT ![child[p].arg] = "made"]
          /\ Goes(p, "chown")
       \/ Restore(p) /\ UNCHANGED home
    /\ UNCHANGED <<server, pending, signals, ipc, fifo, account, created>>

ChownHome(p) ==
    /\ At(p, "chown")
    /\ \/ home' = [home EXCEPT ![child[p].arg] = "owned"] /\ Goes(p, "chmod")
       \/ Restore(p) /\ UNCHANGED home
    /\ UNCHANGED <<server, pending, signals, ipc, fifo, account, created>>

ChmodHome(p) ==
    /\ At(p, "chmod")
    /\ \/ /\ home' = [home EXCEPT ![child[p].arg] = "ready"]
          /\ created' = [created EXCEPT ![child[p].arg] = @ + 1]
       \/ UNCHANGED <<home, created>>
    /\ Restore(p)
    /\ UNCHANGED <<server, pending, signals, ipc, fifo, account>>

-----------------------------------------------------------------------------
(* Signals and the end of the server *)

(* kill(0, SIGTERM): the process group of run r, but those that ignore it.   *)
Group(r) ==
    {p \in Children(r) : child[p].pc # "dying"}
        \cup (IF server.run = r /\ server.pc = "loop" THEN {Server} ELSE {})

(* Fault: the group is not signalled.                                        *)
GroupNone(r) == {}

(* kill(0, SIGTERM) of handle_termination. *)
TerminationSignals(r) == Group(r)

(* IPC_RMID on the semaphore needs the effective user id of its owner, root. *)
MayRemoveIpc(euid) == euid = "root"

(* handle_termination, inherited by the children: cleanup_ipc, ...           *)
handle_termination(p) ==
    /\ Alive(p) /\ child[p].pc # "dying" /\ p \in pending
    /\ ipc' = IF MayRemoveIpc(child[p].euid) THEN ipc \ {child[p].run} ELSE ipc
    /\ Goes(p, "dying")
    /\ pending' = pending \ {p}
    /\ UNCHANGED <<server, signals, diskVars>>

(* ... SIGTERM ignored from here on, kill(0, SIGTERM) and _exit. *)
ExitByTermination(p) ==
    /\ child[p].pc = "dying"
    /\ pending' = pending \cup TerminationSignals(child[p].run)
    /\ Ends(p)
    /\ UNCHANGED <<server, signals, ipc, account, home, created>>

ServerTermination ==
    /\ server.pc = "loop" /\ Server \in pending
    /\ ipc' = ipc \ {server.run}
    /\ server' = [server EXCEPT !.pc = "dying"]
    /\ pending' = pending \ {Server}
    /\ UNCHANGED <<child, signals, diskVars>>

ServerExitByTermination ==
    /\ server.pc = "dying"
    /\ server' = [server EXCEPT !.pc = "down"]
    /\ pending' = pending \cup TerminationSignals(server.run)
    /\ UNCHANGED <<child, signals, ipc, diskVars>>

(* Fault: exit waits without telling the children.                           *)
ExitSignalsNone(r) == {}

(* Fault: the server does not ignore the signal it sends to its group.       *)
ExitSignalsAll(r) == Group(r)

ExitSignals(r) == Group(r) \ {Server}

(* "exit" on stdin: SIGTERM ignored, kill(0, SIGTERM), waitpid for all. *)
ExitCommand ==
    /\ server.pc = "loop" /\ Server \notin pending
    /\ server' = [server EXCEPT !.pc = "wait"]
    /\ pending' = pending \cup ExitSignals(server.run)
    /\ UNCHANGED <<child, signals, ipc, diskVars>>

AllReaped == Children(server.run) = {}

ExitDone ==
    /\ server.pc = "wait" /\ AllReaped
    /\ server' = [server EXCEPT !.pc = "down"]
    /\ ipc' = ipc \ {server.run}
    /\ UNCHANGED <<child, pending, signals, diskVars>>

(* End of file on stdin: out of the loop, the children go on. *)
StdinClosed ==
    /\ server.pc = "loop" /\ Server \notin pending
    /\ server' = [server EXCEPT !.pc = "down"]
    /\ ipc' = ipc \ {server.run}
    /\ UNCHANGED <<child, pending, signals, diskVars>>

(* SIGTERM or SIGINT to one process, from outside. *)
Signal ==
    /\ signals < MaxSignals
    /\ signals' = signals + 1
    /\ \/ \E p \in Pids : Alive(p) /\ child[p].pc # "dying" /\ pending' = pending \cup {p}
       \/ server.pc = "loop" /\ pending' = pending \cup {Server}
    /\ UNCHANGED <<server, child, ipc, diskVars>>

(* SIGKILL to one process that is not ending already. *)
Kill ==
    /\ signals < MaxSignals
    /\ signals' = signals + 1
    /\ \/ /\ \E p \in Pids :
                /\ Alive(p) /\ child[p].pc # "dying"
                /\ Ends(p) /\ pending' = pending \ {p}
          /\ UNCHANGED server
       \/ /\ server.pc = "loop"
          /\ server' = [server EXCEPT !.pc = "down"]
          /\ pending' = pending \ {Server}
          /\ UNCHANGED <<child, fifo>>
    /\ UNCHANGED <<ipc, account, home, created>>

-----------------------------------------------------------------------------

Command(p) ==
    \/ Login(p) \/ MakeFifo(p) \/ EnterHome(p)
    \/ CreateUser(p) \/ Lookup(p) \/ RunAdduser(p)
    \/ MakeHome(p) \/ ChownHome(p) \/ ChmodHome(p)

Child(p) ==
    \/ DropPrivileges(p) \/ Command(p) \/ EndSession(p) \/ UnlinkFifo(p)
    \/ handle_termination(p) \/ ExitByTermination(p)

Main ==
    \/ Start \/ ExitCommand \/ ExitDone \/ StdinClosed
    \/ ServerTermination \/ ServerExitByTermination
    \/ \E p \in Pids : Accept(p)

Next == Main \/ Signal \/ Kill \/ \E p \in Pids : Child(p)

Spec == Init /\ [][Next]_vars

(* Handlers run, and the last zombie ends the wait for the children.  No     *)
(* client has to leave and no operator has to type.                          *)
FairSpec ==
    /\ Spec
    /\ WF_vars(ExitDone) /\ WF_vars(ServerTermination) /\ WF_vars(ServerExitByTermination)
    /\ \A p \in Pids : WF_vars(handle_termination(p)) /\ WF_vars(ExitByTermination(p))

-----------------------------------------------------------------------------
(* Properties *)

(* The processes, FIFOs, accounts and directories stay of their types, and a *)
(* signal is pending only for a process that is there and does not ignore it.*)
TypeOK ==
    /\ server \in [pc : {"loop", "wait", "dying", "down"}, run : 0 .. MaxRuns]
    /\ child \in [Pids ->
         [pc : {"gone", "forked", "select", "unlink", "dying", "mkfifo", "enter", "lookup",
                "adduser", "mkdir", "chown", "chmod"},
          run : 0 .. MaxRuns, euid : Users \cup {"root", "nobody"},
          user : Users \cup {NoUser}, arg : Users \cup {NoUser},
          orig : Users \cup {"root", "nobody"}]]
    /\ pending \subseteq {p \in Pids : Alive(p)}
                           \cup (IF server.pc = "loop" THEN {Server} ELSE {})
    /\ signals \in 0 .. MaxSignals /\ ipc \subseteq 1 .. MaxRuns
    /\ fifo \in [Pids -> {"none", "own", "stale"}]
    /\ account \subseteq Users
    /\ home \in [Users -> {"none", "made", "owned", "ready"}]
    /\ created \in [Users -> Nat]

(* A child waiting for its client is nobody, or the user logged in: every    *)
(* way out of login and create_user, whichever call failed and whoever       *)
(* called, gives back the identity that the command was entered with.        *)
IdleIdentity ==
    \A p \in Pids : child[p].pc = "select" =>
        child[p].euid = IF child[p].user = NoUser THEN "nobody" ELSE child[p].user

(* The FIFO a session reads stays under the name others write to, through    *)
(* the end of file on the server's stdin, a restart of the server that       *)
(* clears .sessions, and sessions of earlier processes with the same id.     *)
SessionFifo ==
    \A p \in Pids : child[p].pc = "select" /\ child[p].user # NoUser => fifo[p] = "own"

(* While the server takes connections, its semaphore exists, unless a        *)
(* process that removed it is about to end the server as well.               *)
SemaphoreKept ==
    server.pc = "loop" =>
        \/ server.run \in ipc
        \/ Server \in pending
        \/ \E p \in Children(server.run) : child[p].pc = "dying"

(* create_user is answered positively once for a name, however many sessions *)
(* create it at a time, and then its account and home directory are there.   *)
HomeOnce ==
    \A u \in Users :
        /\ created[u] <= 1
        /\ created[u] = 1 => u \in account \ Foreign /\ home[u] = "ready"

RunOver(r) == Children(r) = {} /\ ~(server.run = r /\ server.pc # "down")

Stopping(r) ==
    \/ server.run = r /\ server.pc \in {"wait", "dying"}
    \/ \E p \in Children(r) : child[p].pc = "dying"

(* A server that is told to exit, or one process of it that takes a SIGTERM  *)
(* or SIGINT, takes all processes of the run along.                          *)
StopEndsAll == \A r \in 1 .. MaxRuns : Stopping(r) ~> RunOver(r)

=============================================================================
