# csap-project in TLA+

A verification development for the file server of this repository: a server
that forks one child per connection, children that share two tables in System V
shared memory and notify each other through FIFOs, and clients that upload,
download and edit files and hand files to each other with transfer requests.

* [Inventory of the system](#inventory-of-the-system)
* [Modules](#modules)
* [Runs](#runs)
* [Bounds](#bounds)
* [Fairness](#fairness)
* [Proofs](#proofs)
* [Disagreements found](#disagreements-found)
* [Not modelled](#not-modelled)
* [Plan](#plan)

To check a run: `tlc -config transfer_pair.cfg MCTransfer`. To check the proofs:
`tlapm M.tla` for `TransferProofs`, `SessionProofs`, `StageProofs`, `SectionProofs`,
`ServerProofs`, `FileProofs`, `DialogueProofs` and `ClientProofs`.

## Inventory of the system

| Component | State | Operations | Used by |
|---|---|---|---|
| Shared memory tables (`sh_mem/`) | session table, request table, `next_id`; one semaphore | `shm_session_add/find`, `shm_sessions_collect_stale`, `shm_request_add/take/set`, `shm_requests_set_failed`, `shm_requests_for_dest` | children, parent |
| Transfer requests (`main-server.c`, `session.c`) | one FIFO per session, the locals of a running command | login's announcements, `transfer_request`, `accept`, `reject`, end of session | tables, FIFOs, file copy |
| Files and locks (`transfer/`, `locks/`, `fsops/`, `main-server.c`) | directory tree, file contents, `fcntl` locks, `.tempXXXXXX` files | `read`, `download`, `upload`, `write`, `delete`, `move`, `create`, `chmod`, `cd`, `list`, copy of a transfer | children |
| Server processes (`main-server.c`) | listening socket, signal dispositions, semaphore and segment, `.sessions` | start, accept and fork, `exit`, end of file on the terminal, SIGTERM, SIGINT, SIGCHLD, collection of dead sessions | tables |
| Users and privileges (`session.c`, `fsops.c`) | accounts, home directories, effective ids | `create_user`, `handle_login`, raising and dropping privileges | children |
| Client (`main-client.c`) | socket, count of background operations, a pipe | command loop, `recv_response`, background upload and download | socket |
| Streams and answers (`network/`, `transfer/`) | what is on its way on a connection | `send_packet`, `recv_packet`, `send_stream`, `recv_stream` | client, children |
| Parsing (`protocol/`), paths (`paths/`), listing, helpers (`utils/`) | – | `parse_command`, `validate_path`, `list_directory`, buffers | client, children |

How they interact. A client sends one command at a time and blocks until a frame
that is not a notification arrives. The child runs the command in `dispatch` and
answers, except for `transfer_request`: there the answer is sent later, when the
receiver's child writes an `ACCEPT`, `REJECT` or `FAIL` line into the sender's
FIFO and the sender's child, back in `select`, turns that line into a frame. The
table operations are atomic (the semaphore), but a command performs several of
them, and uses between them what it read before. A background operation of a
client is a process with a connection, and so a session, of its own.

What is hard here, and hardly reached by a test:

* two children between two critical sections: a lookup, then an insertion; a
  take, a copy, then a status update;
* a process killed between two stores of a critical section;
* the pid of a session used after the session ended;
* several sessions of one user, which share the user's requests;
* the parent collecting entries late, and children killed by a signal;
* tables, FIFOs, pipes and socket buffers at their limit;
* a client that waits without a timeout for an answer that another client has to
  trigger;
* locks that belong to an inode while commands name paths, which `rename` and
  `unlink` detach from the inode;
* a connection that drops after any frame of an upload, and a file that fails on
  one side while the other side goes on;
* a server that is started again while children of an earlier one still run;
* one of many system calls failing while the process is root;
* signals that are inherited, merged, or arrive in the middle of a command.

What makes each part correct:

* *tables*: sections exclude each other, also after kills; ids are unique, a
  request is settled once, a slot is reused only when its request is settled, a
  live session stays listed;
* *transfer requests*: one taker per request; a delivered file belongs to an
  accepted request; no request outlives its sender; notifications reach the
  right user; a waiting client has something to wait for, and every settled
  request releases its sender;
* *files*: what is read or copied does not change meanwhile; uploads appear
  whole or not at all; nothing is left locked; every operation ends; files
  disappear only when asked for;
* *processes and users*: every command gives back the identity it was entered
  with; a live session keeps its FIFO and a live server its semaphore; a user's
  home is made once; a stop reaches every process and leaves nothing behind;
* *client and connection*: both ends agree on the next frame; success means that
  all was stored; nobody waits for good; `exit` waits for background operations
  and is not refused for ever.

`PROJECT.json` lists the hazards line by line with the properties that cover
them.

## Modules

| Module | Models |
|---|---|
| `ShmTables` | `sh_mem.c`: both tables, one operator per `shm_*` function |
| `TableSections`, `MCSections` | the inside of the writing `shm_*` functions, store by store, with the semaphore; shown to be `ShmTables` |
| `TransferRequests` | extends `ShmTables`: children, FIFOs, clients and the parent as far as they take part in transfer requests |
| `TransferPromise` | the abstract specification: what a user is promised of a request |
| `RequestStages` | the refinement mapping from `TransferRequests` to `TransferPromise` |
| `MCTransfer` | instances of the three |
| `FileAccess`, `MCFiles` | file commands, one system call per step, on paths, inodes and locks |
| `ServerProcesses` | starts and ends of the server and its children, signals, effective ids, `.sessions`, accounts and homes |
| `CommandLine` | `parse_command`, and what a command makes both sides do |
| `StreamDialogue`, `MCDialogue` | extends `CommandLine`: both ends of one connection, frame by frame |
| `ClientBackground` | the client's loop, pipe and background children |
| `TransferProofs`, `SessionProofs`, `StageProofs` | theorems about `TransferRequests` and its refinement |
| `SectionProofs`, `ServerProofs`, `FileProofs` | theorems about `TableSections`, `ServerProcesses` and `FileAccess` |
| `DialogueProofs`, `ClientProofs` | theorems about `StreamDialogue` and `ClientBackground` |

How they fit together: `TransferRequests` is composed of `ShmTables` and the
processes around it; that a call of `ShmTables` is one step is what
`TableSections` shows; what all of it amounts to is `TransferPromise`. A child
killed anywhere (`Crash` in `TransferRequests`) is where the signals of
`ServerProcesses` end. `FileAccess` and `StreamDialogue` take the two sides of
the same commands: the former the server's files with a connection that delivers
or drops, the latter the connection with files that work or fail. A background
child of `ClientBackground` is a client of `StreamDialogue` and a session of
`TransferRequests`.

### ShmTables

`sess`/`sessCount` and `req`/`reqCount`/`nextId` are the two tables. Every
`shm_*` function holds the semaphore from its first to its last access, so each
is one step. The operators keep the order of the code's searches (the first free
or reusable slot below `count`, the first match). `shm_session_find` compares the
user name only, as the code does, and a freed entry is zeroed. `status = 0` in a
zeroed entry is `PENDING`, also as in the code. `file_path_absolute` never
changes after the insertion and is represented by the request's id.

### TableSections

A process calls one of `Calls`, waits in `sem_lock`, runs through the loop of
the function with its index `loc[p].i`, and leaves through `sem_unlock`. A step
stores to the tables at most once; a `memset` or the copying of one entry's
strings is one store (two for a request, with the status in the second).
`semval` is the semaphore and `adj[p]` the kernel's undo value for the process,
which `Undo` adds when the process ends or is killed. `cleanup_shmem` is
`IPC_RMID`: after it `semop` fails, for those who wait also, and the function
returns its error without touching the tables. `shown` is a ghost: the tables at
the last moment when a process left its section. `shm_session_find` and
`shm_requests_for_dest` store nothing and are left out.

### TransferRequests

A pid names a child, its connection and its client. `pc[p]` is the child's place:

| `pc` | in the code |
|---|---|
| `select` | `handle_session` in `select` |
| `login_add`, `login_scan`, `login_notify` | `dispatch`, login: session entry, scan of the table, REQ lines to its own FIFO |
| `req_add`, `req_notify` | `transfer_request` after the lookup |
| `acc_find`, `acc_copy`, `acc_set`, `acc_notify` | `accept` after `shm_request_take` |
| `rej_find`, `rej_notify` | `reject` after `shm_request_take` |
| `close_fail`, `close_fifo` | `handle_session` after its loop |
| `dead`, `reaped` | zombie; waited for by the parent |

Between two places there is one access to shared state; what is local happens in
the same step. `Receive` joins reading the command with the first access. Error
paths that depend on data left out (bad paths, unknown users, a failing
`handle_login`) are nondeterministic: `LoginRefused`, `TransferRefused` and
`AcceptCopy`'s failure may always happen; `AnswerRefused` covers the errors of
`shm_request_take`, and the checks on the arguments before it. `notify_pid`
fails without a reader and when the FIFO is full, and the callers handle both
results as the code does. What is sent to a closed socket is lost, since SIGPIPE
is ignored and results of `send_*` are not looked at.

`waitId`, `announced`, `delivered`, the field `to` of FIFO lines and the field
`re` of frames are ghosts: no action reads them in a guard.

### TransferPromise and RequestStages

`TransferPromise` has one variable, the stage of every request: `none`, `open`,
`taken`, `delivered` or `closed`. Requests open in the order of their ids; an
open one is taken by one answer or closed without; a taken one is delivered once
or closed. `RequestStages` computes the stage from what `TransferRequests`
really has: a request is open while an entry with its id is pending, taken while
some child is between `shm_request_take` and the end of its copy, and a request
that is found nowhere any more, because its entry was reused, is closed unless it
was delivered. The end of a session closes several requests in one step, hence
`Close(S)`.

### FileAccess

`dir` maps paths to inodes, `content[i]` is a sequence of chunks tagged with the
operation that wrote them, `lock[i][p]` the `fcntl` lock. Each of `open`, `stat`,
`F_SETLK`, one frame or buffer, `rename`, `unlink` is a step. `upload` goes to a
temporary file; `write_at` (`write -offset`) writes over the file itself; `copy`
is `execute_transfer_copy`; `move_into` is a move whose destination is a
directory. `write` without an offset takes the path of `upload`. Reads with an
offset lock from the offset on; as every write lock covers the whole file, the
conflicts are the same. `inoNo` counts the files ever made, at most `MaxInodes`: a new
file (or, in `create`, `move_into` and `copy`, any `open` with `O_CREAT | O_EXCL`)
may be refused for want of space.

### ServerProcesses

`server.pc` is `main`: in its loop, waiting for the children after `exit`, in
`handle_termination`, or down; `server.run` numbers its starts. `child[p]` has
the place, the effective user id and the command's argument of every child.
`login` and `create_user` are split at every system call with an effect, and each
of those may fail: `mkfifo`, `enter` (the calls between `open` and `seteuid`),
`lookup`, `adduser`, `mkdir`, `chown`, `chmod`. The other commands neither change
the identity nor the FIFO and are `select`. Calls in a row whose failures lead to
the same error path with the same effect are one step.

`pending` holds the processes with an unhandled SIGTERM or SIGINT. The handler is
the children's too, and has two steps: `cleanup_ipc`, which succeeds only for a
process that is root at that moment, and `kill(0, SIGTERM)` with `_exit`.
`At(p, pc)` lets a pending signal come before the next step of a command. `ipc` is
the set of runs whose semaphore exists, `fifo` says of every pid whether a file
of its name stands in `.sessions` and whether the live process made it. Here
pids are reused.

`main` makes a process group of its own (`setpgid`), so a signal to the group
reaches the processes of one run only.

### CommandLine and StreamDialogue

A line is a name and words; words are arguments, options, or offsets of a class:
one that `lseek` takes (`near`), one that it refuses (`far`), a negative or a
malformed one. `Parses` is `parse_command` with the table `CMDS`; `Offset` the
last `-offset`, as the loop overwrites it; `Kind` says which stream follows, and
sets `transfer_request` apart, whose answer is not given by `dispatch`.

`StreamDialogue` has both ends of a connection and a bounded channel in each
direction. The client's places are the calls of `recv_response` and the streams
between them; the server's are `select`, the answer it is about to send (with
where it goes afterwards), and its two streams. `recv_stream` reads to the end
frame after a failed write, and `send_stream` ends with `RSP_ERR` when the file
cannot be read. `Break` cuts the connection and loses what was under way from some
frame on. The field `no` of frames and `stored` are ghosts.

Between commands `SrvNotify` turns a line of the FIFO into a frame: `REQ` into a
notification, `ACCEPT` into an `RSP_OK`, and `REJECT`, `FAIL` and unknown lines into
an `RSP_ERR`, whether or not the client waits for one (`main-server.c:1080`). A
`transfer_request` that is entered gets no answer from `dispatch` (548); when its
receiver cannot be notified it gets an error at once, and stays acceptable
(540-545). `Requested` has both. `due` holds the requests of this connection whose
outcome is still to come. Two ghosts say what the client may expect: `awaited` is the
request that `dispatch` left without an answer, and `stray` becomes true with the
first answer sent that no client waits for. `NotifyFails` allows the failed
notification. `Strangers` allows outcomes of requests that this connection did not
make, since `session/session.c:324` looks up the sender's session by user name and
a user may have another session (a background operation logs in as well), and
unknown lines.

### ClientBackground

The client is in `select`, busy with a foreground command, or over. The loop looks
at the terminal first, then the socket, then the pipe, as the code does, with its
`continue` after a notification. `spawn_background` counts the operation whether
or not `fork` succeeds. A child connects, repeats the login, opens its file,
streams, and writes its line to the pipe in `bg_end_notify`; it leaves without
one when `start_client` exits or a signal kills it. `Lines` says how many newlines
the message still has after the truncation of `snprintf`: one, because the code
cuts the names.

## Runs

Passing runs (the number of states is the number of distinct states):

| Run | States | Shows |
|---|---|---|
| `transfer_pair` | 123k | two users who issue everything: `LiveSessionListed`, `WaiterHasHope`, `NoOrphanPending`, `FifoRightUser`; under fairness `CommandAnswered` and `SettledThenReleased` |
| `transfer_receivers` | 1.9M | two sessions of the receiver: `SingleTaker`, `DeliveredStaysAccepted` |
| `transfer_full` | 455k | full tables and FIFOs, reused entries, children killed anywhere: `TypeOK`, `UniqueIds`, `RequestLife`, `TransferInv` (the invariant of the proofs), and `PromiseKept`, the refinement of `TransferPromise` |
| `files_pair` | 268k | any two operations on two paths: `TypeOK`, `ReaderStable`, `CopyFaithful`, `VisibleWhole`, `IdleHoldsNothing`, and `OperationEnds` under fairness |
| `critical_sections` | 289k | two processes that make any calls, one of them killed anywhere, the semaphore removed: `OneInside`, `SemConserved`, `KillsCost`, `SectionsAtomic`, and `LockGranted` under fairness |
| `server_life` | 228k | two starts of the server, two children that log in and create users, one signal from outside: `TypeOK`, `IdleIdentity`, `SessionFifo`, `SemaphoreKept`, `HomeOnce`, and `StopEndsAll` under fairness |
| `stream_dialogue` | 800k | three commands on a connection with notifications, outcomes of transfer requests that are awaited or stray, failing files and breaks: `InStep` and `SuccessIsWhole` until the first stray answer, and `Answered` and `GoneClosed` under fairness |
| `client_background` | 277k | three background operations on a pipe of two lines: `TypeOK`, `Counted`, `ExitMeansDone`, and `ExitPermitted`, `KidEnds`, `KidReaped` under fairness |

The runs that end in a violation are explained under
[Disagreements found](#disagreements-found).

Deadlock is not checked in any run: the system may really stop, when every
connection has been closed or the server is down, and a bounded instance also
stops when its commands are used up. That nobody is stuck is stated by the
liveness properties instead.

`PROJECT.json` names for every property a mutant: a definition (marked *Fault* in
the modules) that changes the model the way a plausible slip in the code would,
and that the run then refutes.

## Bounds

* `MAX_ENTRIES` is 1024 in the code and 1, 2 or 3 in the runs. One entry makes
  full tables and reuse frequent; in the other runs the session table has an
  entry for every connection, or (in `transfer_receivers`) one too few, so that
  `shm_session_add` fails for the last login. `critical_sections` takes two, so
  that a search passes over an entry, grows the table, or finds it full. The
  proofs hold for every value.
* `FifoCap` stands for the capacity of a pipe (64 KiB, some hundreds of lines).
  4 is never reached by the runs that use it, so their FIFOs are as good as
  unbounded; `transfer_full` uses 1. `transfer_pair` uses 7, which makes the run an
  instance of every hypothesis of `WaitersHaveHope`: three lines for each of two
  requests always fit.
* `MaxReqs` bounds the requests that clients issue. Each property speaks of one
  request, or of two that compete for an entry, an id or a waiting client.
* `Pids` of `TransferRequests`: a connection is used once; a client that
  reconnects is a new pid. Three connections are needed for two sessions of one
  user and one of the other.
* `Calls` of `TableSections` has one call of every kind; `MaxKills` is 1: a second
  kill meets a semaphore and a table that the first has already disturbed only in
  ways a third process would see, and the proofs cover any number.
* `Chunks` is 2 where a partly written file has to differ from a whole one.
* `MaxOps` bounds the operations issued. Every property of `FileAccess` speaks of
  one operation and another that interferes, so two operations on two paths are
  run in every combination. `MaxInodes` is 6: two paths, and two files that each of
  two operations makes at most (a temporary file and its target).
* `MaxRuns` is 2: what a start of the server may meet is one earlier run.
  `MaxSignals` is 1: one signal or kill from outside already sets off a signal to
  every process of its run. One user in the group and one account outside it.
* `MaxCmds` is 3: a frame left over by one command is met by the next, and its
  answer by the one after that. `MaxData` and `ChanCap` are 2, so that a stream
  blocks in the middle. `MaxNotes` bounds the FIFO lines on what others requested:
  1 in `stream_dialogue`, where each of the three commands may besides be a request
  whose outcome comes at any later time, so that up to three lines on own requests
  and one other stand before, between and behind the answers; 2 in `overseek`.
* `PipeCap` is 2 with three operations, so that the pipe fills up; `NameLens` has
  a short name and one longer than the buffer of the message. `MaxKeys` is 4 (three
  operations and an `exit`), `MaxFrames` 1.
* Symmetry is used only in `transfer_receivers`, which has no temporal property,
  for the two connections that have the same user and issue the same commands.

## Fairness

`TransferRequests`: weak fairness of each child's steps, of its reading of the
FIFO, and of its client's reading. A child is an ordinary process that blocks
only in `select`, which reports both descriptors and is followed by handling
each of them; the semaphore is held for a bounded time. A client that is blocked
reads what arrives. No client is assumed to issue a command, to close, to accept
or to reject, and the parent is not assumed to leave its own `select`
(a SIGCHLD just before it is noticed only at the next activity).
`CommandAnswered` leaves out `transfer_request` because its answer depends on
another user.

`FileAccess`: weak fairness of a child's step. No step waits for another child,
since locks are requested with `F_SETLK`. That a stream goes on or ends is the
assumption that its client sends, or that its connection drops: the code has no
timeout of its own, and a client that keeps the connection and sends nothing
keeps its lock.

`TableSections`: weak fairness inside a section, where a process only computes,
and strong fairness of `sem_lock`, since Linux serves the processes that wait for
a System V semaphore in the order of their arrival; with weak fairness alone a
process could starve between others.

`ServerProcesses`: weak fairness of the signal handlers and of the end of
`exit`'s wait. A handler runs at once, and does not block. No command is assumed
to go on, no client to leave and no operator to type: a stop reaches a process
wherever it is.

`StreamDialogue`: weak fairness of the client inside a command and of the server
with anything to read or to send. The user does not have to type, but the input
of a `write` is assumed to end. The connection need not break. No FIFO line is
assumed to come: `Answered` therefore excepts a client whose `transfer_request`
dispatch left to its receiver (`main-server.c:548`); when its outcome can be counted
on is `WaiterHasHope` and `SettledThenReleased` of `TransferRequests`. It also excepts
what follows a stray answer: a client that takes one for "Ready" sends an upload to
a server that answers each of its frames as a command, until both block in `send`.

`ClientBackground`: weak fairness of the handling of a typed line, of the loop's
reading, of the SIGCHLD handler and of each child. A foreground command need not
end (`transfer_request` may never), so `KidEnds` excepts a client that stays in
one: it does not read the pipe meanwhile.

## Proofs

All theorems hold for every value of the constants that satisfies the named
assumptions of the module that declares them: every set of users, processes and
connections, every size of tables and FIFOs, every bound. `ShmAssumption` says that
`MAX_ENTRIES` is a natural number and `NoUser` and `NoPid` are not real users and
pids; `TransferAssumption`, `SectionsAssumption`, `ServerAssumption`, `FileAssumption`,
`DialogueAssumption` and `ClientAssumption` give the types of the other constants.
A theorem that needs more says so: in its `ASSUME`, and below. The set-id calls of a process whose real user id is
root do not fail: the server is started with `sudo`.

`TransferProofs`:

* `TypeCorrect`: `Spec => []TypeOK`. Beyond types, it says that neither table
  outgrows its array, whatever is reused when.
* `RequestsConsistent`: `Spec => []TransferInv`, with children killed at any
  point when `MayCrash` holds. From it follow `IdsUnique`, `OneTaker`,
  `DeliveredAccepted` and, as an action property, `RequestLifeHolds`.

`SingleTaker` and `DeliveredStaysAccepted` are not inductive. That two children
never hold the same request needs that a request someone holds is not pending
(`HeldTaken`), because only pending requests can be taken. That a copied request
keeps its status needs that `shm_request_set(id, FAILED)` after a failed copy
hits a request that was not copied (`CopyOutstanding`), and that the id still
names the same request or none, since the entry may have been reused: `UniqueIds`,
and ids below `nextId` for requests that are held or delivered (`HeldTaken`,
`DeliveredIssued`). `UnusedZero` says that entries beyond `count` are untouched,
which makes growing the table a legal step of an entry's life. The invariant is
proved with one lemma per operation on the table (adding, taking, setting,
failing) and one for steps that leave the table alone; the actions are then
sorted into these classes.

`SessionProofs`, about what holds between sessions and the tables:

* `FifosRight`: `Spec => []FifoRightUser`, also with killed children. A lookup and
  the write that uses it are two steps, and the session may end in between. The
  strengthening (`AddressInv`) follows the pid: an entry in use pairs a pid with
  the user that it serves or has served (`SessionsRight`), what a child remembers
  of a lookup stays right because a child never changes its user
  (`LookupsRight`), and there is no line in a FIFO before its login
  (`FifoAfterLogin`). It rests on pids not being reused, see
  [Not modelled](#not-modelled).
* `NoOrphans`: if no child is killed, `Spec => []NoOrphanPending`. The
  strengthening records which children act for an identified user: a child that
  is about to add a request has a user and is running, and a request is added
  under the name of the child that adds it. The session of a user that closes
  fails all of its pending requests, so none is left to a later session; a
  child passes `close_fail` before `close_fifo`. The assumption is necessary: a
  killed child skips `close_fail`.
* `SessionsKept`: once a session is recorded it stays recorded for as long as its
  child runs, whatever the size of the table and whoever is killed: an entry is
  freed only for a pid that is gone or by its own child, and a new session takes
  only a free entry.
* `SessionsListed`: `Spec => []LiveSessionListed`, if `Pids` is finite and the
  table has an entry for every connection. With a smaller table it is false, as
  the code means it to be: the login goes on without an entry. The theorem adds
  to `SessionsKept` that `shm_session_add` finds room. Entries in use have
  different pids (`RecordedOnce`, which needs that a child records itself once,
  `NotBefore`), so a table in which none is free would hold every connection,
  and that of the child that logs in is not in it (`RoomForSession`).

* `RoomInFifos`: `Spec => []FifosHaveRoom`, if `Pids` is finite and a FIFO holds more
  than three lines for each of `MaxReqs` requests, also with killed children. The
  argument counts. A request makes at most two lines that announce it in one FIFO,
  that of the child that added it (`Announcing`) and that of a login that finds
  it pending (`todo`), and one that answers it (`Answering`). `LineBound` bounds
  the lines that stand in a FIFO, or that a login is about to write (`Lines`), with
  those that are still to come: together they grow only when an id is spent, or
  when a login scans the table (`Welcome`), and a login scans once. `AnswerBound`
  keeps the requests that are pending or held below the number of ids, and
  `IssueBound` is what the guard of `Send` promises: no id beyond `MaxReqs`.
* `WaitersHaveHope`: `Spec => []WaiterHasHope`, under the same bound on the FIFO, if
  no child is killed, the session table has an entry for every connection, and no
  name is used on two connections (`OneConnection`). `HopeWhileRoom` needs no bound
  on the requests: it proves `WaiterHasHope` of every run in which no FIFO is full.
  The inductive invariant (`HopeInv`) says where the answer to a waiting client
  comes from (`WaitersHope`), and why it arrives there (`WaitersFound`): the request
  names the client's user as its sender; the child that takes it carries that name
  until it looks the user up, and the client's pid after that. The lookup finds
  that pid because a session keeps its entry (`LiveSessionListed`), a free entry
  keeps no name (`FreeZero`), and a user has no second session. The child of a
  client that waits does not end (`WaitersServed`), so that nobody else fails the
  request or closes the FIFO. One lemma follows each of the four stations of an
  answer to the next: `PendingSteps`, `HolderGoes`, `LineGoes`, `FrameGoes`.
  Each hypothesis is needed. A killed child answers nobody; a session that is not
  in the table is not found; the end of one session fails what the other waits for
  (the run `background_session`); a line that does not fit is dropped.
* `NobodyForgotten`: `Spec => []CommandsAttended`: a client that waits for anything
  but the receiver of its own transfer has its command still to be read, its child
  at work on it, or the answer on its socket; or its child has ended. This is the
  safety half of `CommandAnswered`. No path of `dispatch` returns without an
  answer, except where the client goes on to wait for the receiver; that case
  is `WaitersHaveHope`. It needs no hypothesis, and children may be killed.

`StageProofs`:

* `RequestsKeepPromise`: `Spec => PromiseKept`, that is, `TransferRequests`
  implements `TransferPromise` under the mapping of `RequestStages`, killed
  children included. Every action is sorted by what it does to the stages: the
  steps that add, take, copy, give up, reject and fail each have a lemma that names
  the step of `TransferPromise`, and all others leave every stage as it is. That a
  reused entry changes no stage but the new request's needs `TransferInv`: the
  request it held was settled, and no child still holds it.

`SectionProofs`:

* `SectionsExclude`: `Spec => []OneInside`, and `SemaphoreConserved`:
  `Spec => []SemConserved`. They are inductive together: that the value counts
  who is inside keeps a second process out, and that the undo value of a process is
  1 exactly while it is inside makes a kill give the semaphore back once.
* `SectionsAreAtomic`: `Spec => SectionsAtomic`: what others see of a section is
  one whole call of `ShmTables`, unless its process was killed inside. This
  justifies the grain of `TransferRequests`. `ProgressInv` describes, for the one
  process inside, how far its section has come: the tables are those of the last
  moment nobody was inside (`shown`), changed by what the loop has done to the
  entries below its index. From the state before `sem_unlock` the whole call
  then follows. `UniqueInv`, that a process has one session entry at most, is needed
  for `shm_sessions_collect_stale`: processes end while the table is scanned, and
  only since no pid is met twice is there one set of pids that were found dead.
* `KillsCostOne`: `Spec => []KillsCost`, for any number of kills. The ids of the
  entries below `count` are distinct, below `nextId`, or 0 (`IdsRight`); while a
  process is inside `shm_request_add`, `ProgressInv` says which of the stores it
  has made, and a kill there leaves either the old table, one entry more with the
  id 0, or the request as added. So the entries that are lost grow by one at
  most when a process is killed, and by none in any other step (`CostInv`).

`ServerProofs`: from the invariant `ServerInv` follow

* `ServerTypes`: `Spec => []TypeOK`; besides types, a signal is pending only for a
  process that is there, though pids are reused.
* `IdentityGivenBack`: `Spec => []IdleIdentity`. The invariant says at each place
  of `login` and `create_user` who the process is and what it will go back to
  (`ChildInv`).
* `SessionKeepsFifo`: `Spec => []SessionFifo`, through any number of restarts.
* `SemaphoreStays`: `Spec => []SemaphoreKept`: a process that removes the semaphore
  signals the server before it ends.
* `HomeMadeOnce`: `Spec => []HomeOnce`. Needs that at most one process is between
  `mkdir` and `chmod` for one user, which `mkdir` decides (`HomeInv`).

`FileProofs`: from the invariant `FileInv` follow

* `FileTypes`: `Spec => []TypeOK`.
* `ReadersStable`: `Spec => []ReaderStable`.
* `CopiesFaithful`: `Spec => []CopyFaithful`.
* `VisibleAreWhole`: `Spec => []VisibleWhole`.
* `NothingLeft`: `Spec => []IdleHoldsNothing`.

`FileInv` has a part that belongs to each child (`Mine`: which descriptors it has at
its place, which locks it holds, how what it read or wrote compares with the files,
and that nobody else can reach its temporary file) and a part for each two children
(`Apart`: their locks on one file exclude each other, and neither has the other's
temporary file). `Effect(p)` says what a step of one child may do to the rest: it
writes only to a file it has locked for writing or to its own temporary file, takes
a lock only when `F_SETLK` would grant it, and gives names only to files that are
new, that had one, or that it received in full. `EffectKeeps` shows once that such a
step leaves every other child in order; each action is then shown to have such an
effect and to keep its own child's part. The theorems need the second part:
`ReaderStable` alone is not inductive, as nothing in it says that the reader still
has its lock.

`DialogueProofs`: from the invariant `DialogueInv` follow, if no line that is sent
writes at an offset that `lseek` refuses (`NoOverseek`),

* `EndsInStep`: `Spec => []InStep`, and `SuccessStored`: `Spec => []SuccessIsWhole`,
  for any number of commands, frames and FIFO lines and any capacity of the
  connection. Both properties end with the first answer the client does not wait
  for (`stray`).
* `DialogueStages`: `Spec => []DialogueInv` itself. While the connection is up and no
  such answer was sent, a command is in one of ten stages (`Stage`), each of which
  says where client and server stand, which frames are under way in both
  directions, and how many data frames have been read so far of those that were
  sent: notifications may stand before an answer or behind it, and never inside a
  stream. In the stage `Waiting` a transfer request is left to its receiver and
  nothing but its outcome can end it; in the nine others no outcome is awaited. A
  connection may break in any stage and lose a tail of either direction. What is
  left is not a stage any more, but what each end can still read (`ClientReads`,
  `ServerReads`): every stage implies it, and the steps on a broken connection
  keep it. An answer that ends a stream successfully is only ever on its way when
  the server has nothing left to do (`Settled`), which is why success means that
  all was stored also when the connection breaks at once.
* `NoStray`: without failed notifications and without lines that are no outcome of
  this connection's own requests, `stray` is never true and only the awaited request
  is due (`OnlyAwaited`). So these two are the only sources of stray answers, and
  where they are absent `EndsInStep` and `SuccessStored` hold throughout.

  The code lacks all three hypotheses. Without `NoOverseek`, `InStep` is false before
  any stray answer, as the run `overseek` shows; a notification can fail
  (`main-server.c:540`); and a user can have a second session, to which the outcome
  of a request of the first may go. `NoStray` is not about a property of a run: with
  the constants of `stream_dialogue`, where both sources exist, its conclusion is
  false.

`ClientProofs`: from the invariant `ClientInv` follow

* `ClientTypes`: `Spec => []TypeOK`.
* `OperationsCounted`: `Spec => []Counted`. The operations that have written no
  line are a set (`Silent`) which grows with a fork and shrinks with a line. That
  each message is exactly one line, long names included, is the lemma `OneLine`;
  that a child writes one message only needs that a child at work has written
  none (`WorkingSilent`).
* `ExitWaits`: `Spec => []ExitMeansDone`, which follows from the count: a client
  that leaves with the counter at zero has nothing at work and an empty pipe.

Model-checked only: the liveness properties, because the prover does not handle
fairness. Every safety invariant and every refinement that the passing runs check
is also a theorem.

## Disagreements found

Each is a run that TLC refutes; the run's trace is the scenario.

| Run | What happens | What the repository says |
|---|---|---|
| `lost_announcement` | The receiver logs in between the sender's lookup and the insertion of the request; neither side announces it. | a receiver that logs in learns of the pending requests (`DESIGN.md:39`) |
| `background_session` | The end of one session fails the requests that another session of the same user waits for; that client waits for good. | a request is removed if its source closes the connection (`README.md:347`) |
| `lost_upload` | An upload that fails unlinks the file that another upload completed meanwhile. | "If the connection drops, the old file is not modified." (`README.md:358`) |
| `overseek` | A `write` at an offset that `lseek` refuses is given up after the server said that it is ready; the data frames that follow are taken for commands. | "continue to read the rest of the stream to avoid leaving the socket in an inconsistent state" (`transfer.c:247`) |

More behaviours of the code that follow from the models, or were met while they
were written, and have no run:

* A user can send a request to itself and then waits for itself, although
  `transfer_request` answers "Cannot transfer a file to yourself" in another
  path (`main-server.c:522`). Two users who send each other a request wait for each
  other, and neither can accept.
* After a failed notification the sender is told of an error while the request
  stays acceptable (`main-server.c:540`); its outcome then reaches a client that does
  not wait for it. The same happens to the outcome of a request that another
  session of the user made. An idle client drops it; otherwise `recv_response`
  (`main-client.c:106`) takes it for the answer of the command at hand, also for
  "Ready" or for the result of an upload (219, 242), which is then reported before it
  is stored. The answer proper is then dropped, or taken for that of the next
  command.
  `StreamDialogue` has these behaviours; they begin where `stray` becomes true.
* After a rename, a second upload locks the new inode while another still streams
  into the old one (`transfer.c:451`); `README.md:368` says that `write` and `upload`
  exclude others.
* The pending requests of a killed child stay in the table after the parent's
  collection. A child killed inside `shm_request_add` may leave an entry below
  `count` that counts as pending and is never used again (`KillsCost`: one entry
  at most for each kill).
* A transfer whose copy is refused a lock leaves an empty file at the destination
  (`CopyLock`, `CopyLockDest`), where every later error path removes it.
* `create_user` accepts names of 32 characters (`README.md:126`), which `login`
  refuses as too long (`main-server.c:245`).
* A failing `chown` or `chmod` of a new home leaves the directory made, and
  `create_user` for that name is refused from then on.
* A background operation whose `fork` fails, that cannot connect, or that is
  killed, is counted for good, and `exit` is refused until the client is ended
  otherwise (`Silent` in `ExitPermitted`).
* A connection that breaks inside a frame's payload makes `recv_packet` and
  `handle_session` free the same buffer; the C library ends the child with
  `abort()`. For the others that is a killed child.

## Not modelled

* Path resolution (`validate_path`): a function of its argument and the directory
  tree, almost all of it `realpath()`, without state of its own. `FileAccess` takes
  what it returns; the commands it refuses change nothing.
* What `list` prints, permissions, `chmod` and `cd`, and operations on directories
  except as the destination of `move`: single system calls on what `validate_path`
  returned.
* Framing: frames arrive whole and in order or are lost with their connection.
  The loops of `recv_all` and `send_all` over partial reads, byte order and the
  limit on lengths are left out.
* `strtol` is taken for what it returns, in classes of offsets.
* In `TransferRequests`, pids are not given to a second process. In the code the
  entry of a dead session whose pid is reused before the collection would count
  as alive.
* The overflow of `next_id` after 2^31 requests.
* A SIGINT to the server while `exit` waits, which ends the server before its
  children, and a SIGKILL between the two steps of the handler.
* Lines that are longer than the client's buffer, and what the terminal shows.

## Plan

Written: the request protocol with its promise, the tables at the grain of stores,
the file operations, the server's processes with users and privileges, the
connection, and the client's background operations, with proofs about all of
them. What is left, in this order:

1. Pids that are reused, in `TransferRequests`: the theorems about FIFOs and
   lookups rest on a pid being the same child for good.
2. The sum of the frames of a stream against its announced size and partial reads,
   as operators checked against a reference definition.
