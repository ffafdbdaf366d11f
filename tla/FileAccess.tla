----------------------------- MODULE FileAccess -----------------------------
(***************************************************************************)
(* Concurrent operations of the server's children on the same files:       *)
(* download and read (send_file), upload and write (receive_into_file),    *)
(* delete, move and create (dispatch, fsops.c) and the copy of an accepted *)
(* transfer (execute_transfer_copy), with the non-blocking fcntl locks of  *)
(* locks.c.                                                                *)
(*                                                                         *)
(* A path names an inode, and a lock belongs to an inode and a process: an *)
(* operation that opened a path keeps its inode when the path is renamed   *)
(* over or unlinked.  Each system call on the shared file system is a step *)
(* of its own.                                                             *)
(***************************************************************************)
EXTENDS Naturals, Sequences, FiniteSets

CONSTANTS
    Procs,      \* children that run operations
    Paths,      \* names of regular files
    Kinds,      \* the operations that are issued
    Chunks,     \* frames in an uploaded file
    MaxOps,     \* bound: operations issued
    MaxInodes   \* bound: files ever made

ASSUME FileAssumption ==
    /\ Kinds \subseteq {"read", "upload", "write_at", "delete", "move",
                        "move_into", "create", "copy"}
    /\ Chunks \in Nat \ {0}
    /\ MaxOps \in Nat
    /\ MaxInodes \in Nat
    /\ IsFiniteSet(Paths) /\ Cardinality(Paths) \in 1 .. MaxInodes

Inodes == 1 .. MaxInodes

VARIABLES
    dir,        \* dir[x]: the inode that path x names, or 0
    content,    \* content[i]: the chunks of inode i, each tagged by its writer
    lock,       \* lock[i][p]: the fcntl lock of p on i
    temps,      \* inodes that a .tempXXXXXX name still points to
    inplace,    \* ghost: inodes written under their name (write -offset, copy)
    pc, op,     \* the operation each child runs, and its local variables
    opNo,       \* operations issued; the number of an operation is its tag
    inoNo       \* inodes allocated

vars == <<dir, content, lock, temps, inplace, pc, op, opNo, inoNo>>
fsVars == <<dir, content, temps, inplace, inoNo>>

-----------------------------------------------------------------------------
PCs == {"idle",
        "rd_open", "rd_lock", "rd_stat", "rd_data",
        "up_stat", "up_temp", "up_open", "up_lock", "up_data", "up_rename",
        "up_abort", "up_unlink",
        "del_stat", "del_open", "del_lock", "del_unlink",
        "mv_stat", "mv_open", "mv_lock", "mv_dest", "mv_open2", "mv_lock2",
        "mv_rename",
        "cp_open", "cp_dest", "cp_lock", "cp_lock2", "cp_data", "cp_unlink",
        "create", "release"}

(* no: the tag; path, dest: the arguments; existed: stat() found the target; *)
(* fd, fd2: locked inodes; temp: the temporary file; made: the inode the     *)
(* operation itself created at a path; size: what send_file announced; data: *)
(* the chunks read so far; sent: the chunks written so far.                  *)
Locals == [kind: {"none", "read", "upload", "write_at", "delete", "move",
                  "move_into", "create", "copy"},
           no: 0 .. MaxOps, path: Paths, dest: Paths, existed: BOOLEAN,
           fd: Inodes \cup {0}, fd2: Inodes \cup {0}, temp: Inodes \cup {0},
           made: Inodes \cup {0}, size: Nat, data: Seq(0 .. MaxOps),
           sent: 0 .. Chunks]

AnyPath == CHOOSE x \in Paths : TRUE

NoOp == [kind |-> "none", no |-> 0, path |-> AnyPath, dest |-> AnyPath,
         existed |-> FALSE, fd |-> 0, fd2 |-> 0, temp |-> 0, made |-> 0,
         size |-> 0, data |-> <<>>, sent |-> 0]

TypeOK ==
    /\ dir \in [Paths -> Inodes \cup {0}]
    /\ content \in [Inodes -> Seq(0 .. MaxOps)]
    /\ lock \in [Inodes -> [Procs -> {"none", "read", "write"}]]
    /\ temps \subseteq Inodes
    /\ inplace \subseteq Inodes
    /\ pc \in [Procs -> PCs]
    /\ op \in [Procs -> Locals]
    /\ opNo \in 0 .. MaxOps
    /\ inoNo \in 0 .. MaxInodes

(* Some paths exist, with whole files of tag 0.                              *)
Init ==
    /\ \E files \in SUBSET Paths :
        /\ inoNo = Cardinality(files)
        /\ dir \in [Paths -> 0 .. inoNo]
        /\ \A x \in Paths : dir[x] # 0 <=> x \in files
        /\ \A x, y \in files : dir[x] = dir[y] => x = y
        /\ content = [i \in Inodes |->
                        IF i <= inoNo THEN [c \in 1 .. Chunks |-> 0] ELSE <<>>]
    /\ lock = [i \in Inodes |-> [p \in Procs |-> "none"]]
    /\ temps = {}
    /\ inplace = {}
    /\ pc = [p \in Procs |-> "idle"]
    /\ op = [p \in Procs |-> NoOp]
    /\ opNo = 0

-----------------------------------------------------------------------------
(* locks.c *)

Goto(p, label) == pc' = [pc EXCEPT ![p] = label]

(* Fault: a read lock is granted next to a write lock. *)
CanReadLockAlways(p, i) == TRUE

(* Fault: a write lock is granted next to read locks. *)
CanWriteLockShared(p, i) == \A q \in Procs \ {p} : lock[i][q] # "write"

(* F_SETLK over the whole file.  (A read with an offset locks only from the  *)
(* offset on, but every write lock covers the whole file.)                   *)
CanReadLock(p, i) == \A q \in Procs \ {p} : lock[i][q] # "write"

CanWriteLock(p, i) == \A q \in Procs \ {p} : lock[i][q] = "none"

acquire_read_lock(p, i) == lock' = [lock EXCEPT ![i][p] = "read"]

acquire_write_lock(p, i) == lock' = [lock EXCEPT ![i][p] = "write"]

(* Fault: only the first descriptor is released. *)
release_lock_first(p) ==
    lock' = IF op[p].fd = 0 THEN lock ELSE [lock EXCEPT ![op[p].fd][p] = "none"]

(* release_lock and close of every descriptor of the operation: the child    *)
(* holds no lock any more, and is ready for the next command.                *)
release_lock(p) ==
    lock' = [i \in Inodes |->
               IF i \in {op[p].fd, op[p].fd2}
               THEN [lock[i] EXCEPT ![p] = "none"] ELSE lock[i]]

Finish(p) ==
    /\ release_lock(p)
    /\ Goto(p, "idle")
    /\ op' = [op EXCEPT ![p] = NoOp]

(* The end of an operation that leaves the file system as it is. *)
Refuse(p) == Finish(p) /\ UNCHANGED <<fsVars, opNo>>

(* The last step of delete, move, upload and write. *)
Release(p) == pc[p] = "release" /\ Refuse(p)

Label(kind) ==
    CASE kind = "read" -> "rd_open"
      [] kind \in {"upload", "write_at"} -> "up_stat"
      [] kind = "delete" -> "del_stat"
      [] kind \in {"move", "move_into"} -> "mv_stat"
      [] kind = "copy" -> "cp_open"
      [] kind = "create" -> "create"

(* dispatch reads a command on files. *)
Begin(p, kind, x, y) ==
    /\ pc[p] = "idle"
    /\ opNo < MaxOps
    /\ kind \in {"move", "move_into", "copy"} \/ y = x
    /\ kind \in {"move_into", "copy"} => y # x
    /\ opNo' = opNo + 1
    /\ op' = [op EXCEPT ![p] = [NoOp EXCEPT !.kind = kind, !.no = opNo + 1,
                                            !.path = x, !.dest = y]]
    /\ Goto(p, Label(kind))
    /\ UNCHANGED <<fsVars, lock>>

(* open(path) without O_CREAT, then the label; -ENOENT is an error answer.   *)
OpenExisting(p, x, label) ==
    \/ /\ dir[x] # 0
       /\ op' = [op EXCEPT ![p].fd = dir[x]]
       /\ Goto(p, label)
       /\ UNCHANGED <<fsVars, lock, opNo>>
    \/ dir[x] = 0 /\ Refuse(p)

(* A fresh, empty inode at path x. *)
NewFile(x) ==
    /\ inoNo < MaxInodes
    /\ inoNo' = inoNo + 1
    /\ dir' = [dir EXCEPT ![x] = inoNo + 1]
    /\ UNCHANGED <<content, temps, inplace>>

(* write() at chunk n, inside the file or at its end. *)
WriteAt(chunks, n, tag) ==
    IF n <= Len(chunks) THEN [chunks EXCEPT ![n] = tag] ELSE Append(chunks, tag)

-----------------------------------------------------------------------------
(* send_file: download and read *)

ReadOpen(p) == pc[p] = "rd_open" /\ OpenExisting(p, op[p].path, "rd_lock")

ReadLock(p) ==
    /\ pc[p] = "rd_lock"
    /\ \/ /\ CanReadLock(p, op[p].fd)
          /\ acquire_read_lock(p, op[p].fd)
          /\ Goto(p, "rd_stat")
          /\ UNCHANGED <<fsVars, op, opNo>>
       \/ ~CanReadLock(p, op[p].fd) /\ Refuse(p)

(* fstat: the number of bytes announced to the client. *)
ReadStat(p) ==
    /\ pc[p] = "rd_stat"
    /\ op' = [op EXCEPT ![p].size = Len(content[op[p].fd])]
    /\ Goto(p, "rd_data")
    /\ UNCHANGED <<fsVars, lock, opNo>>

(* send_stream: one frame; the end of the file or a lost client ends it.     *)
ReadData(p) ==
    /\ pc[p] = "rd_data"
    /\ LET n == Len(op[p].data) IN
       \/ /\ n < Len(content[op[p].fd])
          /\ op' = [op EXCEPT ![p].data = Append(@, content[op[p].fd][n + 1])]
          /\ UNCHANGED <<fsVars, lock, pc, opNo>>
       \/ Refuse(p)

-----------------------------------------------------------------------------
(* receive_into_file: upload and write *)

UploadStat(p) ==
    /\ pc[p] = "up_stat"
    /\ op' = [op EXCEPT ![p].existed = dir[op[p].path] # 0]
    /\ Goto(p, IF op[p].kind = "upload" THEN "up_temp" ELSE "up_open")
    /\ UNCHANGED <<fsVars, lock, opNo>>

(* open_temp_for_upload *)
UploadTemp(p) ==
    /\ pc[p] = "up_temp"
    /\ \/ /\ inoNo < MaxInodes
          /\ inoNo' = inoNo + 1
          /\ temps' = temps \cup {inoNo + 1}
          /\ op' = [op EXCEPT ![p].temp = inoNo + 1]
          /\ Goto(p, "up_open")
          /\ UNCHANGED <<dir, content, inplace>>
       \/ /\ Goto(p, "up_abort")
          /\ UNCHANGED <<fsVars, op>>
    /\ UNCHANGED <<lock, opNo>>

(* open(path, O_CREAT): the descriptor that carries the lock. *)
UploadOpen(p) ==
    /\ pc[p] = "up_open"
    /\ \/ /\ dir[op[p].path] = 0
          /\ NewFile(op[p].path)
          /\ op' = [op EXCEPT ![p].fd = inoNo + 1, ![p].made = inoNo + 1]
          /\ Goto(p, "up_lock")
       \/ /\ dir[op[p].path] # 0
          /\ op' = [op EXCEPT ![p].fd = dir[op[p].path]]
          /\ Goto(p, "up_lock")
          /\ UNCHANGED fsVars
       \/ /\ Goto(p, "up_abort")
          /\ UNCHANGED <<fsVars, op>>
    /\ UNCHANGED <<lock, opNo>>

UploadLock(p) ==
    /\ pc[p] = "up_lock"
    /\ IF CanWriteLock(p, op[p].fd)
       THEN acquire_write_lock(p, op[p].fd) /\ Goto(p, "up_data")
       ELSE Goto(p, "up_abort") /\ UNCHANGED lock
    /\ UNCHANGED <<fsVars, op, opNo>>

(* Fault: the end of the stream is not noticed. *)
UploadDataEndless(p) ==
    /\ pc[p] = "up_data"
    /\ \/ /\ LET i == IF op[p].temp # 0 THEN op[p].temp ELSE op[p].fd
                 n == op[p].sent + 1 IN
             /\ content' = [content EXCEPT ![i] = WriteAt(@, n, op[p].no)]
             /\ inplace' = IF op[p].temp # 0 THEN inplace
                           ELSE inplace \cup {i}
          /\ op' = [op EXCEPT ![p].sent = @ + 1]
          /\ UNCHANGED <<dir, temps, inoNo, pc>>
       \/ /\ op[p].sent = Chunks
          /\ Goto(p, IF op[p].temp # 0 THEN "up_rename" ELSE "release")
          /\ UNCHANGED <<fsVars, op>>
       \/ /\ Goto(p, "up_abort")
          /\ UNCHANGED <<fsVars, op>>
    /\ UNCHANGED <<lock, opNo>>

(* Fault: the result of recv_stream is not checked. *)
UploadDataUnchecked(p) ==
    /\ pc[p] = "up_data"
    /\ \/ /\ op[p].sent < Chunks
          /\ LET i == IF op[p].temp # 0 THEN op[p].temp ELSE op[p].fd
                 n == op[p].sent + 1 IN
             /\ content' = [content EXCEPT ![i] = WriteAt(@, n, op[p].no)]
             /\ inplace' = IF op[p].temp # 0 THEN inplace
                           ELSE inplace \cup {i}
          /\ op' = [op EXCEPT ![p].sent = @ + 1]
          /\ UNCHANGED <<dir, temps, inoNo, pc>>
       \/ /\ op[p].sent = Chunks
          /\ Goto(p, IF op[p].temp # 0 THEN "up_rename" ELSE "release")
          /\ UNCHANGED <<fsVars, op>>
       \/ /\ Goto(p, IF op[p].temp # 0 THEN "up_rename" ELSE "release")
          /\ UNCHANGED <<fsVars, op>>
    /\ UNCHANGED <<lock, opNo>>

(* recv_stream: a data frame is written to the temporary file, or over the   *)
(* target itself; the end frame leads to the rename; a lost connection, an   *)
(* RSP_ERR frame or a write error leads to the clean-up.                     *)
UploadData(p) ==
    /\ pc[p] = "up_data"
    /\ \/ /\ op[p].sent < Chunks
          /\ LET i == IF op[p].temp # 0 THEN op[p].temp ELSE op[p].fd
                 n == op[p].sent + 1 IN
             /\ content' = [content EXCEPT ![i] = WriteAt(@, n, op[p].no)]
             /\ inplace' = IF op[p].temp # 0 THEN inplace
                           ELSE inplace \cup {i}
          /\ op' = [op EXCEPT ![p].sent = @ + 1]
          /\ UNCHANGED <<dir, temps, inoNo, pc>>
       \/ /\ op[p].sent = Chunks
          /\ Goto(p, IF op[p].temp # 0 THEN "up_rename" ELSE "release")
          /\ UNCHANGED <<fsVars, op>>
       \/ /\ Goto(p, "up_abort")
          /\ UNCHANGED <<fsVars, op>>
    /\ UNCHANGED <<lock, opNo>>

(* fchmod, close and rename(temp, path); any of them may fail.               *)
UploadRename(p) ==
    /\ pc[p] = "up_rename"
    /\ \/ /\ dir' = [dir EXCEPT ![op[p].path] = op[p].temp]
          /\ temps' = temps \ {op[p].temp}
          /\ Goto(p, "release")
          /\ UNCHANGED <<content, inplace, inoNo>>
       \/ /\ Goto(p, "up_abort")
          /\ UNCHANGED fsVars
    /\ UNCHANGED <<lock, op, opNo>>

(* The clean-up of every error path: unlock and close, then unlink the       *)
(* temporary file, and the target if stat() had not found it.                *)
UploadAbort(p) ==
    /\ pc[p] = "up_abort"
    /\ release_lock(p)
    /\ Goto(p, "up_unlink")
    /\ UNCHANGED <<fsVars, op, opNo>>

UploadUnlink(p) ==
    /\ pc[p] = "up_unlink"
    /\ temps' = temps \ {op[p].temp}
    /\ dir' = IF op[p].existed THEN dir ELSE [dir EXCEPT ![op[p].path] = 0]
    /\ Finish(p)
    /\ UNCHANGED <<content, inplace, inoNo, opNo>>

-----------------------------------------------------------------------------
(* delete, create *)

DeleteStat(p) ==
    /\ pc[p] = "del_stat"
    /\ \/ /\ dir[op[p].path] # 0
          /\ Goto(p, "del_open")
          /\ UNCHANGED <<fsVars, lock, op, opNo>>
       \/ dir[op[p].path] = 0 /\ Refuse(p)

DeleteOpen(p) == pc[p] = "del_open" /\ OpenExisting(p, op[p].path, "del_lock")

DeleteLock(p) ==
    /\ pc[p] = "del_lock"
    /\ \/ /\ CanWriteLock(p, op[p].fd)
          /\ acquire_write_lock(p, op[p].fd)
          /\ Goto(p, "del_unlink")
          /\ UNCHANGED <<fsVars, op, opNo>>
       \/ ~CanWriteLock(p, op[p].fd) /\ Refuse(p)

(* unlink of whatever the path names by now. *)
delete_cmd(p) ==
    /\ pc[p] = "del_unlink"
    /\ dir' = [dir EXCEPT ![op[p].path] = 0]
    /\ Goto(p, "release")
    /\ UNCHANGED <<content, temps, inplace, inoNo, lock, op, opNo>>

(* open(path, O_CREAT | O_EXCL), which may also fail for want of space. *)
create_cmd(p) ==
    /\ pc[p] = "create"
    /\ \/ dir[op[p].path] = 0 /\ NewFile(op[p].path)
       \/ UNCHANGED fsVars
    /\ Finish(p)
    /\ UNCHANGED opNo

-----------------------------------------------------------------------------
(* move *)

MoveStat(p) ==
    /\ pc[p] = "mv_stat"
    /\ \/ /\ dir[op[p].path] # 0
          /\ Goto(p, "mv_open")
          /\ UNCHANGED <<fsVars, lock, op, opNo>>
       \/ dir[op[p].path] = 0 /\ Refuse(p)

MoveOpen(p) == pc[p] = "mv_open" /\ OpenExisting(p, op[p].path, "mv_lock")

MoveLock(p) ==
    /\ pc[p] = "mv_lock"
    /\ \/ /\ CanWriteLock(p, op[p].fd)
          /\ acquire_write_lock(p, op[p].fd)
          /\ Goto(p, "mv_dest")
          /\ UNCHANGED <<fsVars, op, opNo>>
       \/ ~CanWriteLock(p, op[p].fd) /\ Refuse(p)

(* Is there a destination?  A destination directory gets an empty file of    *)
(* the source's name, which must be new.                                     *)
MoveDest(p) ==
    /\ pc[p] = "mv_dest"
    /\ LET y == op[p].dest IN
       \/ /\ op[p].kind = "move"
          /\ Goto(p, IF dir[y] = 0 THEN "mv_rename" ELSE "mv_open2")
          /\ UNCHANGED <<fsVars, lock, op, opNo>>
       \/ /\ op[p].kind = "move_into"
          /\ dir[y] = 0
          /\ NewFile(y)
          /\ op' = [op EXCEPT ![p].fd2 = inoNo + 1, ![p].made = inoNo + 1]
          /\ Goto(p, "mv_lock2")
          /\ UNCHANGED <<lock, opNo>>
       \/ op[p].kind = "move_into" /\ Refuse(p)

MoveOpenDest(p) ==
    /\ pc[p] = "mv_open2"
    /\ \/ /\ dir[op[p].dest] # 0
          /\ op' = [op EXCEPT ![p].fd2 = dir[op[p].dest]]
          /\ Goto(p, "mv_lock2")
          /\ UNCHANGED <<fsVars, lock, opNo>>
       \/ dir[op[p].dest] = 0 /\ Refuse(p)

(* Fault: F_SETLKW, which waits for the lock. *)
MoveLockDestWait(p) ==
    /\ pc[p] = "mv_lock2"
    /\ CanWriteLock(p, op[p].fd2)
    /\ acquire_write_lock(p, op[p].fd2)
    /\ Goto(p, "mv_rename")
    /\ UNCHANGED <<fsVars, op, opNo>>

MoveLockDest(p) ==
    /\ pc[p] = "mv_lock2"
    /\ \/ /\ CanWriteLock(p, op[p].fd2)
          /\ acquire_write_lock(p, op[p].fd2)
          /\ Goto(p, "mv_rename")
          /\ UNCHANGED <<fsVars, op, opNo>>
       \/ ~CanWriteLock(p, op[p].fd2) /\ Refuse(p)

(* rename, which fails when the source has gone.                             *)
move_cmd(p) ==
    /\ pc[p] = "mv_rename"
    /\ LET x == op[p].path
           y == op[p].dest IN
       dir' = IF dir[x] = 0 \/ dir[x] = dir[y] THEN dir
              ELSE [dir EXCEPT ![y] = dir[x], ![x] = 0]
    /\ Goto(p, "release")
    /\ UNCHANGED <<content, temps, inplace, inoNo, lock, op, opNo>>

-----------------------------------------------------------------------------
(* execute_transfer_copy *)

CopyOpen(p) == pc[p] = "cp_open" /\ OpenExisting(p, op[p].path, "cp_dest")

(* open(dest, O_CREAT | O_EXCL), which may also fail for want of space. *)
CopyDest(p) ==
    /\ pc[p] = "cp_dest"
    /\ \/ /\ dir[op[p].dest] = 0
          /\ NewFile(op[p].dest)
          /\ op' = [op EXCEPT ![p].fd2 = inoNo + 1, ![p].made = inoNo + 1]
          /\ Goto(p, "cp_lock")
          /\ UNCHANGED <<lock, opNo>>
       \/ Refuse(p)

(* The file just made at the destination stays when a lock is refused.       *)
CopyLock(p) ==
    /\ pc[p] = "cp_lock"
    /\ \/ /\ CanReadLock(p, op[p].fd)
          /\ acquire_read_lock(p, op[p].fd)
          /\ Goto(p, "cp_lock2")
          /\ UNCHANGED <<fsVars, op, opNo>>
       \/ ~CanReadLock(p, op[p].fd) /\ Refuse(p)

CopyLockDest(p) ==
    /\ pc[p] = "cp_lock2"
    /\ \/ /\ CanWriteLock(p, op[p].fd2)
          /\ acquire_write_lock(p, op[p].fd2)
          /\ Goto(p, "cp_data")
          /\ UNCHANGED <<fsVars, op, opNo>>
       \/ ~CanWriteLock(p, op[p].fd2) /\ Refuse(p)

(* One buffer is copied, the source is at its end, or an I/O error leads to  *)
(* the removal of the destination, once the locks are released.              *)
CopyData(p) ==
    /\ pc[p] = "cp_data"
    /\ LET n == op[p].sent IN
       \/ /\ n < Len(content[op[p].fd])
          /\ content' = [content EXCEPT ![op[p].fd2] =
                           WriteAt(@, n + 1, content[op[p].fd][n + 1])]
          /\ inplace' = inplace \cup {op[p].fd2}
          /\ op' = [op EXCEPT ![p].sent = n + 1]
          /\ UNCHANGED <<dir, temps, inoNo, lock, pc>>
       \/ /\ n = Len(content[op[p].fd])
          /\ Finish(p)
          /\ UNCHANGED fsVars
       \/ /\ release_lock(p)
          /\ Goto(p, "cp_unlink")
          /\ UNCHANGED <<fsVars, op>>
    /\ UNCHANGED opNo

CopyUnlink(p) ==
    /\ pc[p] = "cp_unlink"
    /\ dir' = [dir EXCEPT ![op[p].dest] = 0]
    /\ Finish(p)
    /\ UNCHANGED <<content, temps, inplace, inoNo, opNo>>

-----------------------------------------------------------------------------
Step(p) ==
    \/ ReadOpen(p) \/ ReadLock(p) \/ ReadStat(p) \/ ReadData(p)
    \/ UploadStat(p) \/ UploadTemp(p) \/ UploadOpen(p) \/ UploadLock(p)
    \/ UploadData(p) \/ UploadRename(p) \/ UploadAbort(p) \/ UploadUnlink(p)
    \/ DeleteStat(p) \/ DeleteOpen(p) \/ DeleteLock(p) \/ delete_cmd(p)
    \/ MoveStat(p) \/ MoveOpen(p) \/ MoveLock(p) \/ MoveDest(p)
    \/ MoveOpenDest(p) \/ MoveLockDest(p) \/ move_cmd(p)
    \/ CopyOpen(p) \/ CopyDest(p) \/ CopyLock(p) \/ CopyLockDest(p)
    \/ CopyData(p) \/ CopyUnlink(p)
    \/ create_cmd(p) \/ Release(p)

Next ==
    \E p \in Procs :
        \/ Step(p)
        \/ \E kind \in Kinds, x, y \in Paths : Begin(p, kind, x, y)

Spec == Init /\ [][Next]_vars

(* A running operation goes on: no step waits for another client, and a      *)
(* stream ends or its connection drops.                                      *)
FairSpec == Spec /\ \A p \in Procs : WF_vars(Step(p))

-----------------------------------------------------------------------------
(* Properties *)

(* What a client downloads is the file as it was announced: while send_file  *)
(* streams an inode nobody changes it, and its size stays the one sent in    *)
(* the first OK, although the file may be replaced or deleted meanwhile.     *)
ReaderStable ==
    \A p \in Procs : pc[p] = "rd_data" =>
        /\ op[p].size = Len(content[op[p].fd])
        /\ op[p].data = SubSeq(content[op[p].fd], 1, Len(op[p].data))

(* What was copied so far for an accepted transfer is what the source holds: *)
(* no other operation writes to either file under its locks.                 *)
CopyFaithful ==
    \A p \in Procs : pc[p] = "cp_data" =>
        SubSeq(content[op[p].fd2], 1, op[p].sent)
            = SubSeq(content[op[p].fd], 1, op[p].sent)

Whole(i) ==
    \/ content[i] = <<>>
    \/ Len(content[i]) = Chunks /\ \A m, n \in 1 .. Chunks :
                                     content[i][m] = content[i][n]

(* "upload and write are atomical": a file under a name is empty or one      *)
(* upload in full, whatever was interrupted.  Excepted are files written     *)
(* under their name: by write -offset, and by the copy of a transfer.        *)
VisibleWhole ==
    \A x \in Paths : dir[x] # 0 => dir[x] \in inplace \/ Whole(dir[x])

(* Whichever of its many exits an operation takes, it leaves no lock and no  *)
(* temporary file behind.                                                    *)
IdleHoldsNothing ==
    /\ \A p \in Procs : pc[p] = "idle" =>
           \A i \in Inodes : lock[i][p] = "none"
    /\ \A i \in temps : \E p \in Procs : op[p].temp = i

(* "Locks are non-blocking": every operation ends, also two moves that cross *)
(* each other.                                                               *)
OperationEnds ==
    \A p \in Procs : (pc[p] # "idle") ~> (pc[p] = "idle")

(* A file that holds data disappears from its path only when a client asks   *)
(* to delete or move it, or with the failed operation that had made it.      *)
VanishOnRequest ==
    [][\A x \in Paths :
        /\ dir[x] # 0
        /\ content[dir[x]] # <<>>
        /\ dir'[x] = 0
        => \E p \in Procs :
               \/ pc[p] \in {"del_unlink", "mv_rename"} /\ op[p].path = x
               \/ pc[p] # "idle" /\ op[p].made = dir[x]]_vars

=============================================================================
