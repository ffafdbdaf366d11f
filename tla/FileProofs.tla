----------------------------- MODULE FileProofs -----------------------------
(***************************************************************************)
(* Theorems about FileAccess.  The invariant has one part that belongs to  *)
(* each child (where it is, what it holds and what it knows) and one that  *)
(* they share (locks exclude each other; inodes, temporary files).         *)
(***************************************************************************)
EXTENDS FileAccess, SequenceTheorems, FiniteSetTheorems, TLAPS

(* Places before anything was opened. *)
Starting == {"idle", "rd_open", "up_stat", "up_temp", "del_stat", "del_open",
             "mv_stat", "mv_open", "cp_open", "create"}

(* Places with a first descriptor, and with a second. *)
HasFirst == {"rd_lock", "rd_stat", "rd_data", "up_lock", "up_data", "up_rename",
             "del_lock", "mv_lock", "mv_dest", "mv_open2", "mv_lock2",
             "cp_dest", "cp_lock", "cp_lock2", "cp_data"}
HasSecond == {"mv_lock2", "cp_lock", "cp_lock2", "cp_data"}
MayHaveSecond == HasSecond \cup {"mv_rename", "cp_unlink", "release"}

Uploading == {"up_open", "up_lock", "up_data", "up_rename", "up_abort", "up_unlink"}

(* Places where nothing was written yet. *)
Unsent == PCs \ {"up_data", "up_rename", "up_abort", "up_unlink", "release",
                 "cp_data", "cp_unlink"}

(* The descriptors and the counters of a child at its place. *)
Shape(p) ==
    LET o == op[p] IN
    /\ o.fd <= inoNo /\ o.fd2 <= inoNo /\ o.temp <= inoNo
    /\ pc[p] \in Starting \cup {"up_open"} => o.fd = 0
    /\ pc[p] \in HasFirst => o.fd # 0
    /\ pc[p] \in HasSecond => o.fd2 # 0
    /\ pc[p] \notin MayHaveSecond => o.fd2 = 0
    /\ pc[p] \notin Uploading \cup {"release"} => o.temp = 0
    /\ pc[p] \in Unsent => o.sent = 0
    /\ pc[p] # "rd_data" => o.data = <<>>
    /\ pc[p] \in {"cp_lock", "cp_lock2", "cp_data"} => o.fd # o.fd2
    /\ pc[p] = "up_rename" => o.temp # 0 /\ o.sent = Chunks

(* Its locks. *)
Locking(p) ==
    LET o == op[p] IN
    /\ \A i \in Inodes : lock[i][p] # "none" => i \in {o.fd, o.fd2}
    /\ pc[p] \in {"up_unlink", "cp_unlink"} => \A i \in Inodes : lock[i][p] = "none"
    /\ pc[p] \in {"rd_stat", "rd_data", "cp_lock2", "cp_data"} => lock[o.fd][p] = "read"
    /\ pc[p] = "up_data" => lock[o.fd][p] = "write"
    /\ pc[p] = "cp_data" => lock[o.fd2][p] = "write"

(* What it has read and written. *)
Data(p) ==
    LET o == op[p] IN
    /\ pc[p] = "rd_data" =>
          /\ o.size = Len(content[o.fd])
          /\ Len(o.data) <= Len(content[o.fd])
          /\ \A k \in 1 .. Len(o.data) : o.data[k] = content[o.fd][k]
    /\ pc[p] = "cp_data" =>
          /\ o.sent <= Len(content[o.fd2])
          /\ o.sent <= Len(content[o.fd])
          /\ \A k \in 1 .. o.sent : content[o.fd2][k] = content[o.fd][k]

(* It alone knows its temporary file, which holds what was received so far.  *)
Private(p) == pc[p] \in {"up_open", "up_lock", "up_data", "up_rename"} /\ op[p].temp # 0

TempOf(p) ==
    LET i == op[p].temp IN
    /\ pc[p] \notin Uploading => i \notin temps
    /\ Private(p) =>
          /\ \A x \in Paths : dir[x] # i
          /\ Len(content[i]) = op[p].sent
          /\ \A k \in 1 .. op[p].sent : content[i][k] = op[p].no

Mine(p) == Shape(p) /\ Locking(p) /\ Data(p) /\ TempOf(p)

(* Two children: their locks on one file, and their temporary files. *)
Apart(p, q) ==
    /\ \A i \in Inodes : lock[i][p] = "write" => lock[i][q] = "none"
    /\ op[p].temp = op[q].temp => op[p].temp = 0
    /\ Private(p) => op[q].fd # op[p].temp /\ op[q].fd2 # op[p].temp

(* The file system. *)
Files ==
    /\ \A x \in Paths : dir[x] <= inoNo
    /\ \A i \in Inodes : Len(content[i]) <= Chunks /\ (inoNo < i => content[i] = <<>>)
    /\ \A i \in temps : \E p \in Procs : op[p].temp = i

FileInv ==
    /\ TypeOK
    /\ Files
    /\ VisibleWhole
    /\ \A p \in Procs : Mine(p)
    /\ \A p, q \in Procs : p # q => Apart(p, q)

-----------------------------------------------------------------------------
(* What a step of one child may do to the others *)

NewInode(i) == i = inoNo + 1 /\ inoNo' = i

OnlyMine(p) ==
    \A q \in Procs \ {p} :
        /\ pc'[q] = pc[q] /\ op'[q] = op[q]
        /\ \A i \in Inodes : lock'[i][q] = lock[i][q]

(* Locks are given up, or taken when they can be. *)
LockStep(p) ==
    \A i \in Inodes :
        \/ lock'[i][p] \in {lock[i][p], "none"}
        \/ lock'[i][p] = "read" /\ CanReadLock(p, i)
        \/ lock'[i][p] = "write" /\ CanWriteLock(p, i)

(* Contents change under a write lock, or in the temporary file. *)
OwnTemp(p, i) == pc[p] = "up_data" /\ op[p].temp = i

ContentStep(p) ==
    /\ inplace \subseteq inplace'
    /\ \A i \in Inodes :
        \/ content'[i] = content[i]
        \/ /\ Len(content'[i]) <= Chunks
           /\ OwnTemp(p, i) \/ (lock[i][p] = "write" /\ i \in inplace')

(* Names are removed, moved, given to new files and to received ones. *)
DirStep(p) ==
    /\ inoNo' \in {inoNo, inoNo + 1}
    /\ \A x \in Paths :
        \/ dir'[x] = 0
        \/ \E y \in Paths : dir'[x] = dir[y]
        \/ NewInode(dir'[x])
        \/ /\ pc[p] = "up_rename" /\ dir'[x] = op[p].temp
           /\ content' = content

TempStep(p) ==
    /\ \A i \in temps' : i \in temps \/ NewInode(i)
    /\ \A i \in temps' : op'[p].temp = i \/ (i \in temps /\ op[p].temp # i)
    /\ op'[p].temp \in {0, op[p].temp} \/ NewInode(op'[p].temp)
    /\ Private(p)' => \/ Private(p) /\ op'[p].temp = op[p].temp
                      \/ NewInode(op'[p].temp)

(* A descriptor is closed, kept, or opened on a path or a new file. *)
Opens(p, old, new) ==
    \/ new \in {0, old}
    \/ \E x \in Paths : new = dir[x]
    \/ NewInode(new) /\ op'[p].temp = op[p].temp

Effect(p) ==
    /\ OnlyMine(p) /\ LockStep(p) /\ ContentStep(p) /\ DirStep(p) /\ TempStep(p)
    /\ Opens(p, op[p].fd, op'[p].fd) /\ Opens(p, op[p].fd2, op'[p].fd2)

(* The types that the proofs need most often. *)
LEMMA Types ==
  ASSUME TypeOK, NEW p \in Procs
  PROVE  /\ op[p] \in Locals
         /\ op[p].fd \in 0 .. MaxInodes /\ op[p].fd2 \in 0 .. MaxInodes
         /\ op[p].temp \in 0 .. MaxInodes
         /\ op[p].sent \in 0 .. Chunks /\ op[p].no \in 0 .. MaxOps
         /\ op[p].data \in Seq(0 .. MaxOps) /\ Len(op[p].data) \in Nat
         /\ pc[p] \in PCs
         /\ inoNo \in 0 .. MaxInodes
         /\ \A x \in Paths : dir[x] \in 0 .. MaxInodes
         /\ \A i \in Inodes : content[i] \in Seq(0 .. MaxOps) /\ Len(content[i]) \in Nat
         /\ \A i \in Inodes : lock[i][p] \in {"none", "read", "write"}
         /\ MaxInodes \in Nat /\ Chunks \in Nat \ {0} /\ MaxOps \in Nat
<1>1. op[p] \in Locals
  BY DEF TypeOK
<1>2. /\ op[p].fd \in Inodes \cup {0} /\ op[p].fd2 \in Inodes \cup {0}
      /\ op[p].temp \in Inodes \cup {0}
      /\ op[p].sent \in 0 .. Chunks /\ op[p].no \in 0 .. MaxOps
  BY <1>1 DEF Locals
<1>3. Inodes \cup {0} = 0 .. MaxInodes
  BY FileAssumption DEF Inodes
<1>4. op[p].data \in Seq(0 .. MaxOps)
  BY <1>1 DEF Locals
<1>5. Len(op[p].data) \in Nat
  BY <1>4
<1>6. /\ \A x \in Paths : dir[x] \in Inodes \cup {0}
      /\ \A i \in Inodes : content[i] \in Seq(0 .. MaxOps)
      /\ \A i \in Inodes : lock[i][p] \in {"none", "read", "write"}
      /\ pc[p] \in PCs /\ inoNo \in 0 .. MaxInodes
  BY DEF TypeOK
<1>7. \A i \in Inodes : Len(content[i]) \in Nat
  BY <1>6
<1> QED
  BY <1>1, <1>2, <1>3, <1>4, <1>5, <1>6, <1>7, FileAssumption

(* The files that another child uses keep their contents. *)
LEMMA ContentsKept ==
  ASSUME FileInv, NEW p \in Procs, NEW q \in Procs, p # q, ContentStep(p), NEW i \in Inodes,
         lock[i][q] # "none" \/ (Private(q) /\ op[q].temp = i)
  PROVE  content'[i] = content[i]
<1>1. Apart(p, q) /\ Apart(q, p) /\ Mine(p) /\ Mine(q)
  BY DEF FileInv
<1>2. ~(lock[i][p] = "write")
  <2>1. CASE lock[i][q] # "none"
    BY <2>1, <1>1 DEF Apart
  <2>2. CASE Private(q) /\ op[q].temp = i
    BY <2>2, <1>1 DEF Apart, Mine, Locking
  <2> QED
    BY <2>1, <2>2
<1>3. ~OwnTemp(p, i)
  <2> SUFFICES ASSUME OwnTemp(p, i) PROVE FALSE
    OBVIOUS
  <2>0. i # 0
    BY FileAssumption DEF Inodes
  <2>1. Private(p)
    BY <2>0 DEF OwnTemp, Private
  <2>2. op[q].fd # i /\ op[q].fd2 # i /\ op[q].temp # i
    BY <1>1, <2>0, <2>1 DEF Apart, OwnTemp
  <2> QED
    BY <1>1, <2>2 DEF Mine, Locking
<1> QED
  BY <1>2, <1>3 DEF ContentStep

(* A step of p leaves what belongs to q in order. *)
LEMMA OtherKept ==
  ASSUME FileInv, TypeOK', NEW p \in Procs, NEW q \in Procs, p # q, Effect(p)
  PROVE  Mine(q)'
<1>1. pc'[q] = pc[q] /\ op'[q] = op[q] /\ \A i \in Inodes : lock'[i][q] = lock[i][q]
  BY DEF Effect, OnlyMine
<1>2. Mine(q) /\ Apart(p, q) /\ Apart(q, p)
  BY DEF FileInv
<1>3. TypeOK
  BY DEF FileInv
<1>4. inoNo <= inoNo'
  BY <1>3, Types DEF Effect, DirStep
<1>5. Shape(q)'
  <2>1. op'[q].fd <= inoNo' /\ op'[q].fd2 <= inoNo' /\ op'[q].temp <= inoNo'
    BY <1>1, <1>2, <1>3, <1>4, Types DEF Mine, Shape, Effect, DirStep
  <2> QED
    BY <2>1, <1>1, <1>2
       DEF Mine, Shape, HasFirst, HasSecond, MayHaveSecond, Starting, Uploading, Unsent, PCs
<1>6. Locking(q)'
  <2>1. /\ pc[q] \in HasFirst => op[q].fd \in Inodes
        /\ pc[q] \in HasSecond => op[q].fd2 \in Inodes
    BY <1>2, <1>3, Types DEF Mine, Shape, Inodes
  <2> QED
    BY <2>1, <1>1, <1>2 DEF Mine, Locking, HasFirst, HasSecond
<1>7. Data(q)'
  <2>1. ASSUME pc[q] = "rd_data" PROVE content'[op[q].fd] = content[op[q].fd]
    <3>1. op[q].fd \in Inodes
      BY <2>1, <1>2, <1>3, Types DEF Mine, Shape, HasFirst, Inodes
    <3>2. lock[op[q].fd][q] = "read"
      BY <2>1, <1>2 DEF Mine, Locking
    <3> QED
      BY <3>1, <3>2, ContentsKept DEF Effect
  <2>2. ASSUME pc[q] = "cp_data"
        PROVE  content'[op[q].fd] = content[op[q].fd] /\ content'[op[q].fd2] = content[op[q].fd2]
    <3>1. op[q].fd \in Inodes /\ op[q].fd2 \in Inodes
      BY <2>2, <1>2, <1>3, Types DEF Mine, Shape, HasFirst, HasSecond, Inodes
    <3>2. lock[op[q].fd][q] = "read" /\ lock[op[q].fd2][q] = "write"
      BY <2>2, <1>2 DEF Mine, Locking
    <3> QED
      BY <3>1, <3>2, ContentsKept DEF Effect
  <2> QED
    BY <2>1, <2>2, <1>1, <1>2 DEF Mine, Data
<1>8. TempOf(q)'
  <2>1. op[q].temp <= inoNo /\ op[q].temp \in 0 .. MaxInodes
    BY <1>2, <1>3, Types DEF Mine, Shape
  <2>2. ~NewInode(op[q].temp)
    BY <2>1, <1>3, Types DEF NewInode
  <2>3. pc[q] \notin Uploading => op[q].temp \notin temps'
    BY <2>2, <1>2 DEF Effect, TempStep, Mine, TempOf
  <2>4. ASSUME Private(q) PROVE content'[op[q].temp] = content[op[q].temp]
    <3>1. op[q].temp \in Inodes
      BY <2>1, <2>4 DEF Private, Inodes
    <3> QED
      BY <3>1, <2>4, ContentsKept DEF Effect
  <2>5. ASSUME Private(q), NEW x \in Paths PROVE dir'[x] # op[q].temp
    <3>1. op[q].temp # 0 /\ op[q].temp # op[p].temp /\ \A y \in Paths : dir[y] # op[q].temp
      BY <2>5, <1>2 DEF Private, Apart, Mine, TempOf
    <3> QED
      BY <3>1, <2>2 DEF Effect, DirStep
  <2> QED
    BY <2>3, <2>4, <2>5, <1>1, <1>2 DEF Mine, TempOf, Private
<1> QED
  BY <1>5, <1>6, <1>7, <1>8 DEF Mine

(* Two children stay apart when one of them takes a step. *)
LEMMA ApartKept ==
  ASSUME FileInv, TypeOK', NEW p \in Procs, NEW q \in Procs, p # q, Effect(p)
  PROVE  Apart(p, q)' /\ Apart(q, p)'
<1>1. pc'[q] = pc[q] /\ op'[q] = op[q] /\ \A i \in Inodes : lock'[i][q] = lock[i][q]
  BY DEF Effect, OnlyMine
<1>2. Mine(q) /\ Mine(p) /\ Apart(p, q) /\ Apart(q, p) /\ TypeOK
  BY DEF FileInv
<1>3. ASSUME NEW i \in Inodes
      PROVE  /\ lock'[i][p] = "write" => lock'[i][q] = "none"
             /\ lock'[i][q] = "write" => lock'[i][p] = "none"
  BY <1>1, <1>2 DEF Effect, LockStep, Apart, CanReadLock, CanWriteLock
<1>4. /\ op[q].temp <= inoNo /\ op[q].fd <= inoNo /\ op[q].fd2 <= inoNo
      /\ op[q].temp \in Nat /\ op[q].fd \in Nat /\ op[q].fd2 \in Nat /\ inoNo \in Nat
  BY <1>2, Types DEF Mine, Shape
<1>5. ~NewInode(op[q].temp) /\ ~NewInode(op[q].fd) /\ ~NewInode(op[q].fd2)
  BY <1>4 DEF NewInode
<1>6. op'[p].temp = op[q].temp => op[q].temp = 0
  BY <1>2, <1>5 DEF Effect, TempStep, Apart
<1>7. Private(p)' => op[q].fd # op'[p].temp /\ op[q].fd2 # op'[p].temp
  BY <1>2, <1>5 DEF Effect, TempStep, Apart
<1>8. ASSUME Private(q)
      PROVE  op'[p].fd # op[q].temp /\ op'[p].fd2 # op[q].temp
  <2>1. op[q].temp # 0 /\ \A y \in Paths : dir[y] # op[q].temp
    BY <1>8, <1>2 DEF Private, Mine, TempOf
  <2>2. op[p].fd # op[q].temp /\ op[p].fd2 # op[q].temp
    BY <1>8, <1>2 DEF Apart
  <2> QED
    BY <2>1, <2>2, <1>5 DEF Effect, Opens
<1>9. Private(q)' <=> Private(q)
  BY <1>1 DEF Private
<1> QED
  BY <1>1, <1>3, <1>6, <1>7, <1>8, <1>9 DEF Apart

(* The file system stays in order. *)
LEMMA FilesKept ==
  ASSUME FileInv, TypeOK', NEW p \in Procs, Effect(p)
  PROVE  Files' /\ VisibleWhole'
<1>1. TypeOK /\ Files /\ VisibleWhole /\ Mine(p)
  BY DEF FileInv
<1>2. ASSUME NEW i \in Inodes, inoNo < i PROVE content'[i] = content[i] /\ content[i] = <<>>
  <2>1. op[p].temp # i /\ op[p].fd # i /\ op[p].fd2 # i
    BY <1>1, <1>2, Types DEF Mine, Shape, Inodes
  <2>2. ~OwnTemp(p, i) /\ lock[i][p] # "write"
    BY <2>1, <1>1 DEF OwnTemp, Mine, Locking
  <2> QED
    BY <2>2, <1>1, <1>2 DEF Effect, ContentStep, Files
<1>3. inoNo <= inoNo' /\ inoNo \in Nat /\ inoNo' \in Nat
  BY <1>1, Types DEF Effect, DirStep
<1>4. Files'
  <2>1. ASSUME NEW x \in Paths PROVE dir'[x] <= inoNo'
    <3>1. op[p].temp \in Nat /\ op[p].temp <= inoNo /\ \A y \in Paths : dir[y] \in Nat
      BY <1>1, Types DEF Mine, Shape
    <3> QED
      BY <3>1, <1>1, <1>3 DEF Effect, DirStep, NewInode, Files
  <2>2. ASSUME NEW i \in Inodes
        PROVE  Len(content'[i]) <= Chunks /\ (inoNo' < i => content'[i] = <<>>)
    <3>1. Len(content'[i]) <= Chunks
      BY <1>1 DEF Effect, ContentStep, Files
    <3>2. inoNo' < i => content'[i] = <<>>
      BY <1>2, <1>3 DEF Inodes
    <3> QED
      BY <3>1, <3>2
  <2>3. ASSUME NEW i \in temps' PROVE \E q \in Procs : op'[q].temp = i
    <3>1. CASE op'[p].temp = i
      BY <3>1
    <3>2. CASE i \in temps /\ op[p].temp # i
      <4>1. PICK q \in Procs : op[q].temp = i
        BY <3>2, <1>1 DEF Files
      <4> QED
        BY <4>1, <3>2 DEF Effect, OnlyMine
    <3> QED
      BY <3>1, <3>2 DEF Effect, TempStep
  <2> QED
    BY <2>1, <2>2, <2>3 DEF Files
<1>5. ASSUME NEW x \in Paths, NEW i \in Inodes, dir'[x] = i
      PROVE  i \in inplace' \/ Whole(i)'
  <2>1. ASSUME NEW y \in Paths, i = dir[y] PROVE i \in inplace' \/ Whole(i)'
    <3>0. i # 0
      BY DEF Inodes
    <3>1. i \in inplace \/ Whole(i)
      BY <1>1, <2>1, <3>0 DEF VisibleWhole
    <3>2. CASE content'[i] = content[i]
      BY <3>1, <3>2 DEF Whole, Effect, ContentStep
    <3>3. CASE content'[i] # content[i]
      <4>1. ~OwnTemp(p, i)
        BY <1>1, <2>1, <3>0 DEF OwnTemp, Private, Mine, TempOf
      <4> QED
        BY <4>1, <3>3 DEF Effect, ContentStep
    <3> QED
      BY <3>2, <3>3
  <2>2. CASE NewInode(i)
    <3>1. inoNo < i
      BY <2>2, <1>3 DEF NewInode
    <3>2. content'[i] = <<>>
      BY <3>1, <1>2
    <3> QED
      BY <3>2 DEF Whole
  <2>3. CASE pc[p] = "up_rename" /\ i = op[p].temp /\ content' = content
    <3>1. Private(p) /\ op[p].sent = Chunks
      BY <2>3, <1>1 DEF Private, Mine, Shape
    <3>2. Len(content[i]) = Chunks /\ \A k \in 1 .. Chunks : content[i][k] = op[p].no
      BY <2>3, <3>1, <1>1 DEF Mine, TempOf
    <3> QED
      BY <2>3, <3>2 DEF Whole
  <2> QED
    BY <2>1, <2>2, <2>3, <1>5 DEF Effect, DirStep, Inodes
<1>6. VisibleWhole'
  <2> SUFFICES ASSUME NEW x \in Paths, dir'[x] # 0
               PROVE  dir'[x] \in inplace' \/ (Whole(dir[x]))'
    BY DEF VisibleWhole
  <2>1. dir'[x] \in Inodes
    BY DEF TypeOK, Inodes
  <2>2. PICK i \in Inodes : i = dir'[x]
    BY <2>1
  <2>3. i \in inplace' \/ Whole(i)'
    BY <1>5, <2>2
  <2> QED
    BY <2>2, <2>3 DEF Whole
<1> QED
  BY <1>4, <1>6

(* A step that keeps to its effects and leaves its own child in order keeps  *)
(* the invariant.                                                            *)
LEMMA EffectKeeps ==
  ASSUME FileInv, TypeOK', NEW p \in Procs, Effect(p), Mine(p)'
  PROVE  FileInv'
<1>1. \A q \in Procs : Mine(q)'
  BY OtherKept
<1>2. ASSUME NEW q \in Procs, NEW r \in Procs, q # r PROVE Apart(q, r)'
  <2>1. CASE q = p \/ r = p
    BY <2>1, <1>2, ApartKept
  <2>2. CASE q # p /\ r # p
    <3>1. Apart(q, r)
      BY <1>2 DEF FileInv
    <3>2. /\ pc'[q] = pc[q] /\ op'[q] = op[q] /\ \A i \in Inodes : lock'[i][q] = lock[i][q]
          /\ pc'[r] = pc[r] /\ op'[r] = op[r] /\ \A i \in Inodes : lock'[i][r] = lock[i][r]
      BY <2>2 DEF Effect, OnlyMine
    <3> QED
      BY <3>1, <3>2 DEF Apart, Private
  <2> QED
    BY <2>1, <2>2
<1> QED
  BY <1>1, <1>2, FilesKept DEF FileInv

-----------------------------------------------------------------------------
(* Kinds of steps *)

(* A child's new local variables are the only ones that change. *)
LEMMA OpOnly ==
  ASSUME TypeOK, NEW p \in Procs, NEW place \in PCs, NEW new \in Locals,
         pc' = [pc EXCEPT ![p] = place], op' = [op EXCEPT ![p] = new]
  PROVE  /\ pc' \in [Procs -> PCs] /\ op' \in [Procs -> Locals]
         /\ pc'[p] = place /\ op'[p] = new
         /\ \A q \in Procs \ {p} : pc'[q] = pc[q] /\ op'[q] = op[q]
  BY DEF TypeOK

(* Only the place of a child and its locks change. *)
LEMMA PlaceStep ==
  ASSUME FileInv, NEW p \in Procs, NEW place \in PCs, Goto(p, place),
         UNCHANGED <<fsVars, op, opNo>>,
         lock' \in [Inodes -> [Procs -> {"none", "read", "write"}]],
         \A q \in Procs \ {p} : \A i \in Inodes : lock'[i][q] = lock[i][q],
         LockStep(p), Private(p)' => Private(p), Mine(p)'
  PROVE  FileInv'
<1>1. TypeOK /\ Files
  BY DEF FileInv
<1>2. TypeOK'
  BY <1>1 DEF TypeOK, Goto, fsVars
<1>3. OnlyMine(p)
  BY <1>1 DEF OnlyMine, Goto, TypeOK
<1>4. ContentStep(p) /\ DirStep(p)
  BY DEF ContentStep, DirStep, fsVars
<1>5. TempStep(p)
  BY <1>1 DEF TempStep, fsVars, Files
<1>6. Opens(p, op[p].fd, op'[p].fd) /\ Opens(p, op[p].fd2, op'[p].fd2)
  BY DEF Opens
<1> QED
  BY <1>2, <1>3, <1>4, <1>5, <1>6, EffectKeeps DEF Effect

(* Only the place of a child and its local variables change. *)
LEMMA LocalStep ==
  ASSUME FileInv, NEW p \in Procs, NEW place \in PCs, NEW new \in Locals,
         pc' = [pc EXCEPT ![p] = place], op' = [op EXCEPT ![p] = new],
         UNCHANGED <<fsVars, lock>>, opNo' \in 0 .. MaxOps,
         new.temp = op[p].temp, Private(p)' => Private(p),
         new.fd = op[p].fd \/ \E x \in Paths : new.fd = dir[x],
         new.fd2 = op[p].fd2 \/ \E x \in Paths : new.fd2 = dir[x],
         Mine(p)'
  PROVE  FileInv'
<1>1. TypeOK /\ Files
  BY DEF FileInv
<1>2. /\ pc' \in [Procs -> PCs] /\ op' \in [Procs -> Locals] /\ op'[p] = new
      /\ \A q \in Procs \ {p} : pc'[q] = pc[q] /\ op'[q] = op[q]
  BY <1>1, OpOnly
<1>3. TypeOK'
  BY <1>1, <1>2 DEF TypeOK, fsVars
<1>4. OnlyMine(p)
  BY <1>2 DEF OnlyMine
<1>5. ContentStep(p) /\ DirStep(p) /\ LockStep(p)
  BY DEF ContentStep, DirStep, LockStep, fsVars
<1>6. TempStep(p)
  BY <1>1, <1>2 DEF TempStep, fsVars, Files
<1>7. Opens(p, op[p].fd, op'[p].fd) /\ Opens(p, op[p].fd2, op'[p].fd2)
  BY <1>2 DEF Opens
<1> QED
  BY <1>3, <1>4, <1>5, <1>6, <1>7, EffectKeeps DEF Effect

(* NoOp is a legal set of local variables. *)
LEMMA NoOpTypes ==
  /\ NoOp \in Locals
  /\ NoOp.fd = 0 /\ NoOp.fd2 = 0 /\ NoOp.temp = 0 /\ NoOp.sent = 0 /\ NoOp.data = <<>>
<1>1. Paths # {}
  BY FileAssumption, FS_EmptySet
<1>2. AnyPath \in Paths
  BY <1>1 DEF AnyPath
<1>3. <<>> \in Seq(0 .. MaxOps)
  BY EmptySeq
<1> QED
  BY <1>2, <1>3, FileAssumption DEF NoOp, Locals, Inodes

(* release_lock gives up the locks of p and no others. *)
LEMMA Released ==
  ASSUME FileInv, NEW p \in Procs, release_lock(p)
  PROVE  /\ lock' \in [Inodes -> [Procs -> {"none", "read", "write"}]]
         /\ \A i \in Inodes : lock'[i][p] = "none"
         /\ \A q \in Procs \ {p} : \A i \in Inodes : lock'[i][q] = lock[i][q]
         /\ LockStep(p)
<1>1. TypeOK /\ Locking(p)
  BY DEF FileInv, Mine
<1>2. ASSUME NEW i \in Inodes
      PROVE  /\ lock'[i] \in [Procs -> {"none", "read", "write"}]
             /\ lock'[i][p] = "none"
             /\ \A q \in Procs \ {p} : lock'[i][q] = lock[i][q]
  <2>1. lock[i] \in [Procs -> {"none", "read", "write"}]
    BY <1>1 DEF TypeOK
  <2>2. CASE i \in {op[p].fd, op[p].fd2}
    <3>1. lock'[i] = [lock[i] EXCEPT ![p] = "none"]
      BY <2>2 DEF release_lock
    <3> QED
      BY <3>1, <2>1
  <2>3. CASE i \notin {op[p].fd, op[p].fd2}
    <3>1. lock'[i] = lock[i]
      BY <2>3 DEF release_lock
    <3>2. lock[i][p] = "none"
      BY <1>1, <2>3 DEF Locking
    <3> QED
      BY <3>1, <3>2, <2>1
  <2> QED
    BY <2>2, <2>3
<1>3. lock' = [i \in Inodes |-> lock'[i]]
  BY DEF release_lock
<1> QED
  BY <1>2, <1>3 DEF LockStep

(* A child that has finished is in order, whatever its last step changed.    *)
LEMMA Finished ==
  ASSUME FileInv, NEW p \in Procs, Finish(p), inoNo' \in Nat
  PROVE  /\ pc' \in [Procs -> PCs] /\ op' \in [Procs -> Locals]
         /\ lock' \in [Inodes -> [Procs -> {"none", "read", "write"}]]
         /\ op'[p].temp = 0 /\ ~Private(p)'
         /\ OnlyMine(p) /\ LockStep(p)
         /\ Opens(p, op[p].fd, op'[p].fd) /\ Opens(p, op[p].fd2, op'[p].fd2)
         /\ 0 \notin temps' => Mine(p)'
<1>1. TypeOK
  BY DEF FileInv
<1>2. "idle" \in PCs
  BY DEF PCs
<1>3. /\ pc' \in [Procs -> PCs] /\ op' \in [Procs -> Locals]
      /\ pc'[p] = "idle" /\ op'[p] = NoOp
      /\ \A q \in Procs \ {p} : pc'[q] = pc[q] /\ op'[q] = op[q]
  BY <1>1, <1>2, NoOpTypes, OpOnly DEF Finish, Goto
<1>4. /\ lock' \in [Inodes -> [Procs -> {"none", "read", "write"}]]
      /\ \A i \in Inodes : lock'[i][p] = "none"
      /\ \A q \in Procs \ {p} : \A i \in Inodes : lock'[i][q] = lock[i][q]
      /\ LockStep(p)
  BY Released DEF Finish
<1>5. Shape(p)' /\ Locking(p)' /\ Data(p)'
  BY <1>3, <1>4, NoOpTypes DEF Shape, Locking, Data, HasFirst, HasSecond
<1>6. 0 \notin temps' => TempOf(p)'
  BY <1>3, NoOpTypes DEF TempOf, Private
<1> QED
  BY <1>3, <1>4, <1>5, <1>6, NoOpTypes DEF OnlyMine, Opens, Private, Mine

(* A child that leaves the command has no temporary file any more. *)
Cleaned(p) == pc[p] \notin Uploading

(* An operation that ends and leaves the file system as it is. *)
LEMMA RefuseStep ==
  ASSUME FileInv, NEW p \in Procs, Refuse(p), Cleaned(p)
  PROVE  FileInv'
<1>1. TypeOK /\ Files /\ TempOf(p)
  BY DEF FileInv, Mine
<1>2. Finish(p) /\ UNCHANGED <<fsVars, opNo>>
  BY DEF Refuse
<1>3. inoNo' \in Nat
  BY <1>1, <1>2 DEF TypeOK, fsVars
<1>4. TypeOK'
  BY <1>1, <1>2, <1>3, Finished DEF TypeOK, fsVars
<1>5. 0 \notin temps'
  BY <1>1, <1>2 DEF TypeOK, Inodes, fsVars
<1>6. ContentStep(p) /\ DirStep(p)
  BY <1>2 DEF ContentStep, DirStep, fsVars
<1>7. TempStep(p)
  <2>1. op[p].temp \notin temps
    BY <1>1 DEF Cleaned, TempOf
  <2> QED
    BY <2>1, <1>2, <1>3, Finished DEF TempStep, fsVars
<1> QED
  BY <1>2, <1>3, <1>4, <1>5, <1>6, <1>7, Finished, EffectKeeps DEF Effect

(* open of an existing path, before anything else was opened. *)
LEMMA OpenStep ==
  ASSUME FileInv, NEW p \in Procs, NEW x \in Paths, NEW place,
         OpenExisting(p, x, place),
         pc[p] \in {"rd_open", "del_open", "mv_open", "cp_open"},
         place \in {"rd_lock", "del_lock", "mv_lock", "cp_dest"}
  PROVE  FileInv'
<1>1. TypeOK /\ Mine(p) /\ Files
  BY DEF FileInv
<1>2. CASE dir[x] = 0 /\ Refuse(p)
  BY <1>2, RefuseStep DEF Cleaned, Uploading
<1>3. CASE /\ dir[x] # 0
           /\ op' = [op EXCEPT ![p].fd = dir[x]]
           /\ Goto(p, place)
           /\ UNCHANGED <<fsVars, lock, opNo>>
  <2>1. PICK new \in Locals :
          /\ op' = [op EXCEPT ![p] = new] /\ new.fd = dir[x] /\ new.fd2 = op[p].fd2
          /\ new.temp = op[p].temp /\ new.sent = op[p].sent /\ new.data = op[p].data
    <3> DEFINE o == [op[p] EXCEPT !.fd = dir[x]]
    <3>1. op[p] \in Locals /\ dir[x] \in Inodes \cup {0}
      BY <1>1 DEF TypeOK
    <3>2. /\ o \in Locals /\ o.fd = dir[x] /\ o.fd2 = op[p].fd2
          /\ o.temp = op[p].temp /\ o.sent = op[p].sent /\ o.data = op[p].data
      BY <3>1 DEF Locals
    <3>3. op' = [op EXCEPT ![p] = o]
      BY <1>3
    <3> QED
      BY <3>2, <3>3
  <2>2. place \in PCs /\ pc' = [pc EXCEPT ![p] = place]
    BY <1>3 DEF PCs, Goto
  <2>3. pc'[p] = place /\ op'[p] = new
    BY <2>1, <2>2, <1>1, OpOnly
  <2>4. /\ op[p].fd = 0 /\ op[p].fd2 = 0 /\ op[p].temp = 0 /\ op[p].sent = 0
        /\ op[p].data = <<>> /\ dir[x] <= inoNo
    BY <1>1 DEF Mine, Shape, Files, Starting, MayHaveSecond, HasSecond, Uploading, Unsent, PCs
  <2>5. Shape(p)'
    BY <1>1, <1>3, <2>1, <2>3, <2>4
       DEF Mine, Shape, HasFirst, HasSecond, MayHaveSecond, Starting, Uploading, Unsent, fsVars
  <2>6. \A i \in Inodes : lock[i][p] = "none"
    BY <1>1, <2>4 DEF Mine, Locking, Inodes
  <2>7. Locking(p)' /\ Data(p)'
    BY <1>3, <2>3, <2>6 DEF Locking, Data
  <2>8. TempOf(p)'
    BY <1>1, <1>3, <2>1, <2>3, <2>4 DEF TempOf, Private, fsVars, TypeOK, Inodes
  <2> QED
    BY <1>1, <1>3, <2>1, <2>2, <2>3, <2>4, <2>5, <2>7, <2>8, LocalStep
       DEF Mine, Private, TypeOK
<1> QED
  BY <1>2, <1>3 DEF OpenExisting

(* A lock is taken when it can be. *)
LEMMA Acquired ==
  ASSUME FileInv, NEW p \in Procs, NEW i \in Inodes, NEW m \in {"read", "write"},
         lock' = [lock EXCEPT ![i][p] = m],
         m = "read" => CanReadLock(p, i), m = "write" => CanWriteLock(p, i)
  PROVE  /\ lock' \in [Inodes -> [Procs -> {"none", "read", "write"}]]
         /\ lock'[i][p] = m
         /\ \A j \in Inodes : j # i => lock'[j][p] = lock[j][p]
         /\ \A q \in Procs \ {p} : \A j \in Inodes : lock'[j][q] = lock[j][q]
         /\ LockStep(p)
<1>1. lock \in [Inodes -> [Procs -> {"none", "read", "write"}]]
  BY DEF FileInv, TypeOK
<1>2. /\ lock' \in [Inodes -> [Procs -> {"none", "read", "write"}]]
      /\ lock'[i][p] = m
      /\ \A j \in Inodes : j # i => lock'[j][p] = lock[j][p]
      /\ \A q \in Procs \ {p} : \A j \in Inodes : lock'[j][q] = lock[j][q]
  BY <1>1
<1> QED
  BY <1>2 DEF LockStep

(* The places of a child that takes its first lock. *)
LEMMA FirstLock ==
  ASSUME FileInv, NEW p \in Procs, NEW place, NEW m,
         <<pc[p], place, m>> \in {<<"rd_lock", "rd_stat", "read">>,
                                  <<"up_lock", "up_data", "write">>,
                                  <<"del_lock", "del_unlink", "write">>,
                                  <<"mv_lock", "mv_dest", "write">>,
                                  <<"cp_lock", "cp_lock2", "read">>},
         m = "read" => CanReadLock(p, op[p].fd), m = "write" => CanWriteLock(p, op[p].fd),
         lock' = [lock EXCEPT ![op[p].fd][p] = m], Goto(p, place),
         UNCHANGED <<fsVars, op, opNo>>
  PROVE  FileInv'
<1>1. TypeOK /\ Mine(p)
  BY DEF FileInv
<1>2. /\ pc[p] \in HasFirst /\ place \in PCs /\ m \in {"read", "write"}
      /\ pc[p] # "cp_data" /\ pc[p] # "rd_data"
  BY DEF HasFirst, PCs
<1>3. op[p].fd \in Inodes
  BY <1>1, <1>2, Types DEF Mine, Shape, Inodes
<1>4. /\ lock' \in [Inodes -> [Procs -> {"none", "read", "write"}]]
      /\ lock'[op[p].fd][p] = m
      /\ \A j \in Inodes : j # op[p].fd => lock'[j][p] = lock[j][p]
      /\ \A q \in Procs \ {p} : \A j \in Inodes : lock'[j][q] = lock[j][q]
      /\ LockStep(p)
  BY <1>2, <1>3, Acquired
<1>5. pc'[p] = place
  BY <1>1 DEF Goto, TypeOK
<1>6. Shape(p)'
  BY <1>1, <1>5
     DEF Mine, Shape, HasFirst, HasSecond, MayHaveSecond, Starting, Uploading, Unsent, PCs, fsVars
<1>7. Locking(p)'
  BY <1>1, <1>4, <1>5 DEF Mine, Locking
<1>8. Data(p)'
  BY <1>5 DEF Data
<1>9. TempOf(p)' /\ (Private(p)' => Private(p))
  BY <1>1, <1>5 DEF Mine, TempOf, Private, Uploading, fsVars
<1> QED
  BY <1>2, <1>4, <1>6, <1>7, <1>8, <1>9, PlaceStep DEF Mine

(* The second lock, of a move or of a copy. *)
LEMMA SecondLock ==
  ASSUME FileInv, NEW p \in Procs, NEW place,
         \/ pc[p] = "mv_lock2" /\ place = "mv_rename"
         \/ pc[p] = "cp_lock2" /\ place = "cp_data",
         CanWriteLock(p, op[p].fd2),
         lock' = [lock EXCEPT ![op[p].fd2][p] = "write"], Goto(p, place),
         UNCHANGED <<fsVars, op, opNo>>
  PROVE  FileInv'
<1>1. TypeOK /\ Mine(p)
  BY DEF FileInv
<1>2. pc[p] \in HasSecond /\ pc[p] \in HasFirst /\ place \in PCs
  BY DEF HasFirst, HasSecond, PCs
<1>3. op[p].fd2 \in Inodes /\ op[p].fd \in Inodes
  BY <1>1, <1>2, Types DEF Mine, Shape, Inodes
<1>4. /\ lock' \in [Inodes -> [Procs -> {"none", "read", "write"}]]
      /\ lock'[op[p].fd2][p] = "write"
      /\ \A j \in Inodes : j # op[p].fd2 => lock'[j][p] = lock[j][p]
      /\ \A q \in Procs \ {p} : \A j \in Inodes : lock'[j][q] = lock[j][q]
      /\ LockStep(p)
  BY <1>3, Acquired
<1>5. pc'[p] = place
  BY <1>1 DEF Goto, TypeOK
<1>6. Shape(p)'
  BY <1>1, <1>5
     DEF Mine, Shape, HasFirst, HasSecond, MayHaveSecond, Starting, Uploading, Unsent, PCs, fsVars
<1>7. Locking(p)'
  BY <1>1, <1>3, <1>4, <1>5 DEF Mine, Locking, Shape
<1>8. Data(p)'
  <2>1. op[p].sent = 0
    BY <1>1 DEF Mine, Shape, Unsent, PCs
  <2>2. Len(content[op[p].fd]) \in Nat /\ Len(content[op[p].fd2]) \in Nat
    BY <1>1, <1>3, Types
  <2> QED
    BY <1>5, <2>1, <2>2 DEF Data, fsVars
<1>9. TempOf(p)' /\ (Private(p)' => Private(p))
  BY <1>1, <1>5 DEF Mine, TempOf, Private, Uploading, fsVars
<1> QED
  BY <1>2, <1>4, <1>6, <1>7, <1>8, <1>9, PlaceStep DEF Mine

(* A step that only moves on. *)
Moves ==
    {<<"up_temp", "up_abort">>, <<"up_open", "up_abort">>, <<"up_lock", "up_abort">>,
     <<"up_data", "up_abort">>, <<"up_rename", "up_abort">>,
     <<"del_stat", "del_open">>, <<"mv_stat", "mv_open">>,
     <<"mv_dest", "mv_rename">>, <<"mv_dest", "mv_open2">>}

LEMMA GotoStep ==
  ASSUME FileInv, NEW p \in Procs, NEW place, <<pc[p], place>> \in Moves, Goto(p, place),
         UNCHANGED <<fsVars, lock, op, opNo>>
  PROVE  FileInv'
<1>1. TypeOK /\ Mine(p)
  BY DEF FileInv
<1>2. place \in PCs /\ pc'[p] = place
  BY <1>1 DEF Goto, TypeOK, Moves, PCs
<1>3. Shape(p)'
  BY <1>1, <1>2
     DEF Mine, Shape, HasFirst, HasSecond, MayHaveSecond, Starting, Uploading, Unsent, PCs,
         fsVars, Moves
<1>4. Locking(p)' /\ Data(p)'
  BY <1>1, <1>2 DEF Mine, Locking, Data, Moves
<1>5. TempOf(p)' /\ (Private(p)' => Private(p))
  BY <1>1, <1>2 DEF Mine, TempOf, Private, Uploading, fsVars, Moves
<1>6. lock \in [Inodes -> [Procs -> {"none", "read", "write"}]] /\ LockStep(p)
  BY <1>1 DEF TypeOK, LockStep
<1> QED
  BY <1>2, <1>3, <1>4, <1>5, <1>6, PlaceStep DEF Mine

-----------------------------------------------------------------------------
(* Download and read *)

LEMMA ReadLockKeeps ==
  ASSUME FileInv, NEW p \in Procs, ReadLock(p)
  PROVE  FileInv'
<1>1. CASE Refuse(p)
  BY <1>1, RefuseStep DEF Cleaned, Uploading, ReadLock
<1>2. CASE ~Refuse(p)
  BY <1>2, FirstLock DEF ReadLock, acquire_read_lock
<1> QED
  BY <1>1, <1>2

LEMMA ReadStatKeeps ==
  ASSUME FileInv, NEW p \in Procs, ReadStat(p)
  PROVE  FileInv'
<1>1. TypeOK /\ Mine(p)
  BY DEF FileInv
<1>2. op[p].fd \in Inodes /\ Len(content[op[p].fd]) \in Nat
  BY <1>1, Types DEF ReadStat, Mine, Shape, HasFirst, Inodes
<1>3. PICK new \in Locals :
        /\ op' = [op EXCEPT ![p] = new] /\ new.size = Len(content[op[p].fd])
        /\ new.fd = op[p].fd /\ new.fd2 = op[p].fd2
        /\ new.temp = op[p].temp /\ new.sent = op[p].sent /\ new.data = op[p].data
  <2> DEFINE o == [op[p] EXCEPT !.size = Len(content[op[p].fd])]
  <2>1. op[p] \in Locals
    BY <1>1, Types
  <2>2. /\ o \in Locals /\ o.size = Len(content[op[p].fd])
        /\ o.fd = op[p].fd /\ o.fd2 = op[p].fd2
        /\ o.temp = op[p].temp /\ o.sent = op[p].sent /\ o.data = op[p].data
    BY <2>1, <1>2 DEF Locals
  <2>3. op' = [op EXCEPT ![p] = o]
    BY DEF ReadStat
  <2> QED
    BY <2>2, <2>3
<1>4. "rd_data" \in PCs /\ pc' = [pc EXCEPT ![p] = "rd_data"]
  BY DEF PCs, Goto, ReadStat
<1>5. pc'[p] = "rd_data" /\ op'[p] = new
  BY <1>1, <1>3, <1>4, OpOnly
<1>6. op[p].data = <<>>
  BY <1>1 DEF Mine, Shape, ReadStat
<1>7. Shape(p)'
  BY <1>1, <1>3, <1>5
     DEF Mine, Shape, HasFirst, HasSecond, MayHaveSecond, Starting, Uploading, Unsent, PCs,
         fsVars, ReadStat
<1>8. Locking(p)'
  BY <1>1, <1>3, <1>5 DEF Mine, Locking, ReadStat
<1>9. Data(p)' /\ TempOf(p)' /\ ~Private(p)'
  BY <1>1, <1>2, <1>3, <1>5, <1>6
     DEF Mine, Data, TempOf, Private, Uploading, fsVars, ReadStat
<1> QED
  BY <1>1, <1>3, <1>4, <1>7, <1>8, <1>9, LocalStep DEF Mine, TypeOK, ReadStat

LEMMA ReadDataKeeps ==
  ASSUME FileInv, NEW p \in Procs, ReadData(p)
  PROVE  FileInv'
<1>0. TypeOK /\ Mine(p) /\ pc[p] = "rd_data"
  BY DEF FileInv, ReadData
<1>1. CASE Refuse(p)
  BY <1>0, <1>1, RefuseStep DEF Cleaned, Uploading
<1>2. ASSUME Len(op[p].data) < Len(content[op[p].fd]),
             op' = [op EXCEPT ![p].data =
                      Append(@, content[op[p].fd][Len(op[p].data) + 1])],
             UNCHANGED <<fsVars, lock, pc, opNo>>
      PROVE  FileInv'
  <2>0. op[p].fd \in Inodes
    BY <1>0, Types DEF Mine, Shape, HasFirst, Inodes
  <2>1. op[p].data \in Seq(0 .. MaxOps) /\ content[op[p].fd] \in Seq(0 .. MaxOps)
    BY <2>0, <1>0, Types
  <2>2. PICK c \in 0 .. MaxOps : c = content[op[p].fd][Len(op[p].data) + 1]
    <3>1. Len(op[p].data) + 1 \in 1 .. Len(content[op[p].fd])
      BY <2>1, <1>2
    <3>2. content[op[p].fd][Len(op[p].data) + 1] \in 0 .. MaxOps
      BY <2>1, <3>1, ElementOfSeq
    <3> QED
      BY <3>2
  <2>3. PICK d \in Seq(0 .. MaxOps) :
          /\ d = Append(op[p].data, c) /\ Len(d) = Len(op[p].data) + 1
          /\ \A k \in 1 .. Len(op[p].data) : d[k] = op[p].data[k]
          /\ d[Len(d)] = c
    <3>1. /\ Append(op[p].data, c) \in Seq(0 .. MaxOps)
          /\ Len(Append(op[p].data, c)) = Len(op[p].data) + 1
          /\ \A k \in 1 .. Len(op[p].data) : Append(op[p].data, c)[k] = op[p].data[k]
          /\ Append(op[p].data, c)[Len(op[p].data) + 1] = c
      BY <2>1, <2>2, AppendProperties
    <3> QED
      BY <3>1
  <2>4. PICK new \in Locals :
          /\ op' = [op EXCEPT ![p] = new] /\ new.data = d /\ new.size = op[p].size
          /\ new.fd = op[p].fd /\ new.fd2 = op[p].fd2
          /\ new.temp = op[p].temp /\ new.sent = op[p].sent
    <3> DEFINE o == [op[p] EXCEPT !.data = d]
    <3>1. op[p] \in Locals
      BY <1>0, Types
    <3>2. /\ o \in Locals /\ o.data = d /\ o.size = op[p].size
          /\ o.fd = op[p].fd /\ o.fd2 = op[p].fd2
          /\ o.temp = op[p].temp /\ o.sent = op[p].sent
      BY <3>1 DEF Locals
    <3>3. op' = [op EXCEPT ![p] = o]
      BY <1>2, <2>2, <2>3
    <3> QED
      BY <3>2, <3>3
  <2>5. "rd_data" \in PCs /\ pc' = [pc EXCEPT ![p] = "rd_data"]
    BY <1>0, <1>2 DEF PCs, TypeOK
  <2>6. pc'[p] = "rd_data" /\ op'[p] = new
    BY <1>0, <2>4, <2>5, OpOnly
  <2>7. Shape(p)'
    BY <1>0, <1>2, <2>4, <2>6
       DEF Mine, Shape, HasFirst, HasSecond, MayHaveSecond, Starting, Uploading, Unsent, PCs,
           fsVars
  <2>8. Locking(p)'
    BY <1>0, <1>2, <2>4, <2>6 DEF Mine, Locking
  <2>9. Data(p)'
    <3>1. Len(op[p].data) \in Nat /\ Len(content[op[p].fd]) \in Nat
      BY <2>1
    <3>2. /\ op[p].size = Len(content[op[p].fd])
          /\ \A k \in 1 .. Len(op[p].data) : op[p].data[k] = content[op[p].fd][k]
      BY <1>0 DEF Mine, Data
    <3>3. \A k \in 1 .. Len(d) : d[k] = content[op[p].fd][k]
      BY <3>1, <3>2, <2>2, <2>3
    <3> QED
      BY <1>2, <2>3, <2>4, <2>6, <3>1, <3>2, <3>3 DEF Data, fsVars
  <2>10. TempOf(p)' /\ ~Private(p)'
    BY <1>0, <1>2, <2>4, <2>6 DEF Mine, TempOf, Private, Uploading, fsVars
  <2> QED
    BY <1>0, <1>2, <2>4, <2>5, <2>7, <2>8, <2>9, <2>10, LocalStep DEF Mine, TypeOK
<1> QED
  BY <1>1, <1>2 DEF ReadData

-----------------------------------------------------------------------------
(* Upload and write *)

(* A chunk written inside a file or at its end. *)
LEMMA Written ==
  ASSUME NEW s \in Seq(0 .. MaxOps), NEW n \in 1 .. Chunks, NEW tag \in 0 .. MaxOps,
         Len(s) <= Chunks
  PROVE  /\ WriteAt(s, n, tag) \in Seq(0 .. MaxOps)
         /\ Len(WriteAt(s, n, tag)) <= Chunks
         /\ Len(s) <= Len(WriteAt(s, n, tag))
         /\ \A k \in 1 .. Len(s) : k # n => WriteAt(s, n, tag)[k] = s[k]
         /\ n <= Len(s) + 1 => n <= Len(WriteAt(s, n, tag)) /\ WriteAt(s, n, tag)[n] = tag
         /\ n = Len(s) + 1 => Len(WriteAt(s, n, tag)) = n
<1>0. Chunks \in Nat /\ Len(s) \in Nat
  BY FileAssumption
<1>1. CASE n <= Len(s)
  <2>1. WriteAt(s, n, tag) = [s EXCEPT ![n] = tag]
    BY <1>1 DEF WriteAt
  <2>2. /\ [s EXCEPT ![n] = tag] \in Seq(0 .. MaxOps)
        /\ Len([s EXCEPT ![n] = tag]) = Len(s)
        /\ \A k \in 1 .. Len(s) : [s EXCEPT ![n] = tag][k] = IF k = n THEN tag ELSE s[k]
    BY <1>0, <1>1, ExceptSeq
  <2>3. PICK w : w = WriteAt(s, n, tag)
    OBVIOUS
  <2>4. /\ w \in Seq(0 .. MaxOps) /\ Len(w) = Len(s)
        /\ \A k \in 1 .. Len(s) : w[k] = IF k = n THEN tag ELSE s[k]
    BY <2>1, <2>2, <2>3
  <2>5. /\ \A k \in 1 .. Len(s) : k # n => w[k] = s[k]
        /\ w[n] = tag /\ n <= Len(w)
        /\ n # Len(s) + 1
    BY <1>0, <1>1, <2>4
  <2> QED
    BY <1>0, <1>1, <2>3, <2>4, <2>5
<1>2. CASE ~(n <= Len(s))
  <2>1. WriteAt(s, n, tag) = Append(s, tag)
    BY <1>2 DEF WriteAt
  <2>2. /\ Append(s, tag) \in Seq(0 .. MaxOps)
        /\ Len(Append(s, tag)) = Len(s) + 1
        /\ \A k \in 1 .. Len(s) : Append(s, tag)[k] = s[k]
        /\ Append(s, tag)[Len(s) + 1] = tag
    BY AppendProperties
  <2>3. Len(s) + 1 <= Chunks
    BY <1>0, <1>2
  <2> QED
    BY <1>0, <1>2, <2>1, <2>2, <2>3
<1> QED
  BY <1>1, <1>2

LEMMA UploadStatKeeps ==
  ASSUME FileInv, NEW p \in Procs, UploadStat(p)
  PROVE  FileInv'
<1>1. TypeOK /\ Mine(p) /\ Files
  BY DEF FileInv
<1>2. PICK place \in {"up_temp", "up_open"} : pc' = [pc EXCEPT ![p] = place]
  BY DEF UploadStat, Goto
<1>3. PICK new \in Locals :
        /\ op' = [op EXCEPT ![p] = new]
        /\ new.fd = op[p].fd /\ new.fd2 = op[p].fd2
        /\ new.temp = op[p].temp /\ new.sent = op[p].sent /\ new.data = op[p].data
  <2> DEFINE o == [op[p] EXCEPT !.existed = dir[op[p].path] # 0]
  <2>1. op[p] \in Locals
    BY <1>1, Types
  <2>2. /\ o \in Locals /\ o.fd = op[p].fd /\ o.fd2 = op[p].fd2
        /\ o.temp = op[p].temp /\ o.sent = op[p].sent /\ o.data = op[p].data
    BY <2>1 DEF Locals
  <2>3. op' = [op EXCEPT ![p] = o]
    BY DEF UploadStat
  <2> QED
    BY <2>2, <2>3
<1>4. place \in PCs
  BY DEF PCs
<1>5. pc'[p] = place /\ op'[p] = new
  BY <1>1, <1>2, <1>3, <1>4, OpOnly
<1>6. /\ op[p].fd = 0 /\ op[p].fd2 = 0 /\ op[p].temp = 0 /\ op[p].sent = 0
      /\ op[p].data = <<>>
  BY <1>1
     DEF Mine, Shape, Starting, MayHaveSecond, HasSecond, Uploading, Unsent, PCs, UploadStat
<1>7. Shape(p)' /\ Locking(p)' /\ Data(p)'
  BY <1>1, <1>3, <1>5, <1>6
     DEF Mine, Shape, Locking, Data, HasFirst, HasSecond, fsVars, UploadStat
<1>8. TempOf(p)' /\ ~Private(p)'
  BY <1>1, <1>3, <1>5, <1>6 DEF TempOf, Private, fsVars, UploadStat, TypeOK, Inodes
<1> QED
  BY <1>1, <1>2, <1>3, <1>4, <1>7, <1>8, LocalStep DEF Mine, TypeOK, UploadStat

LEMMA UploadTempKeeps ==
  ASSUME FileInv, NEW p \in Procs, UploadTemp(p)
  PROVE  FileInv'
<1>1. TypeOK /\ Mine(p) /\ Files /\ pc[p] = "up_temp"
  BY DEF FileInv, UploadTemp
<1>2. CASE Goto(p, "up_abort") /\ UNCHANGED <<fsVars, op>>
  BY <1>1, <1>2, GotoStep DEF Moves, UploadTemp
<1>3. ASSUME inoNo < MaxInodes, inoNo' = inoNo + 1, temps' = temps \cup {inoNo + 1},
             op' = [op EXCEPT ![p].temp = inoNo + 1], Goto(p, "up_open"),
             UNCHANGED <<dir, content, inplace, lock, opNo>>
      PROVE  FileInv'
  <2>0. inoNo \in Nat /\ inoNo + 1 \in Inodes
    BY <1>1, <1>3, FileAssumption DEF TypeOK, Inodes
  <2>1. PICK new \in Locals :
          /\ op' = [op EXCEPT ![p] = new] /\ new.temp = inoNo + 1
          /\ new.fd = op[p].fd /\ new.fd2 = op[p].fd2
          /\ new.sent = op[p].sent /\ new.data = op[p].data
    <3> DEFINE o == [op[p] EXCEPT !.temp = inoNo + 1]
    <3>1. op[p] \in Locals
      BY <1>1, Types
    <3>2. /\ o \in Locals /\ o.temp = inoNo + 1 /\ o.fd = op[p].fd /\ o.fd2 = op[p].fd2
          /\ o.sent = op[p].sent /\ o.data = op[p].data
      BY <3>1, <2>0 DEF Locals
    <3>3. op' = [op EXCEPT ![p] = o]
      BY <1>3
    <3> QED
      BY <3>2, <3>3
  <2>2. "up_open" \in PCs /\ pc' = [pc EXCEPT ![p] = "up_open"]
    BY <1>3 DEF PCs, Goto
  <2>3. /\ pc' \in [Procs -> PCs] /\ op' \in [Procs -> Locals]
        /\ pc'[p] = "up_open" /\ op'[p] = new
        /\ \A q \in Procs \ {p} : pc'[q] = pc[q] /\ op'[q] = op[q]
    BY <1>1, <2>1, <2>2, OpOnly
  <2>4. TypeOK'
    BY <1>1, <1>3, <2>0, <2>3 DEF TypeOK, Inodes
  <2>5. /\ op[p].fd = 0 /\ op[p].fd2 = 0 /\ op[p].temp = 0 /\ op[p].sent = 0
        /\ op[p].data = <<>>
    BY <1>1 DEF Mine, Shape, Starting, MayHaveSecond, HasSecond, Uploading, Unsent, PCs
  <2>6. NewInode(inoNo + 1)
    BY <1>3 DEF NewInode
  <2>7. OnlyMine(p) /\ LockStep(p) /\ ContentStep(p) /\ DirStep(p)
    BY <1>3, <2>3 DEF OnlyMine, LockStep, ContentStep, DirStep
  <2>8. TempStep(p)
    BY <1>1, <1>3, <2>0, <2>1, <2>3, <2>5, <2>6 DEF TempStep, TypeOK, Inodes
  <2>9. Opens(p, op[p].fd, op'[p].fd) /\ Opens(p, op[p].fd2, op'[p].fd2)
    BY <2>1, <2>3 DEF Opens
  <2>10. Shape(p)'
    BY <1>3, <2>0, <2>1, <2>3, <2>5
       DEF Shape, HasFirst, HasSecond, MayHaveSecond, Starting, Uploading, Unsent, PCs
  <2>11. Locking(p)' /\ Data(p)'
    BY <1>1, <1>3, <2>1, <2>3 DEF Mine, Locking, Data
  <2>12. TempOf(p)'
    <3>1. content[inoNo + 1] = <<>>
      BY <1>1, <2>0 DEF Files
    <3>2. \A x \in Paths : dir[x] # inoNo + 1
      BY <1>1, <2>0, Types DEF Files
    <3> QED
      BY <1>3, <2>1, <2>3, <2>5, <3>1, <3>2 DEF TempOf, Uploading
  <2> QED
    BY <2>4, <2>7, <2>8, <2>9, <2>10, <2>11, <2>12, EffectKeeps DEF Effect, Mine
<1> QED
  BY <1>1, <1>2, <1>3 DEF UploadTemp, fsVars

LEMMA UploadLockKeeps ==
  ASSUME FileInv, NEW p \in Procs, UploadLock(p)
  PROVE  FileInv'
<1>1. CASE CanWriteLock(p, op[p].fd)
  BY <1>1, FirstLock DEF UploadLock, acquire_write_lock
<1>2. CASE ~CanWriteLock(p, op[p].fd)
  BY <1>2, GotoStep DEF UploadLock, Moves
<1> QED
  BY <1>1, <1>2

(* The target is opened, and made if there is none. *)
LEMMA UploadOpenKeeps ==
  ASSUME FileInv, NEW p \in Procs, UploadOpen(p)
  PROVE  FileInv'
<1>1. TypeOK /\ Mine(p) /\ Files /\ pc[p] = "up_open"
  BY DEF FileInv, UploadOpen
<1>2. CASE Goto(p, "up_abort") /\ UNCHANGED <<fsVars, op>>
  BY <1>1, <1>2, GotoStep DEF Moves, UploadOpen
<1>3. ASSUME NEW i \in Inodes, NEW m \in Inodes \cup {0},
             op' = [op EXCEPT ![p].fd = i, ![p].made = m], Goto(p, "up_lock"),
             UNCHANGED <<content, temps, inplace, lock, opNo>>,
             \/ UNCHANGED <<dir, inoNo>> /\ \E x \in Paths : i = dir[x]
             \/ /\ NewInode(i) /\ inoNo < MaxInodes
                /\ \E x \in Paths : dir' = [dir EXCEPT ![x] = i]
      PROVE  FileInv'
  <2>0. op[p].fd = 0 /\ op[p].fd2 = 0 /\ op[p].sent = 0 /\ op[p].data = <<>>
    BY <1>1 DEF Mine, Shape, Starting, MayHaveSecond, HasSecond, Unsent, PCs
  <2>1. PICK new \in Locals :
          /\ op' = [op EXCEPT ![p] = new] /\ new.fd = i /\ new.fd2 = 0 /\ new.no = op[p].no
          /\ new.temp = op[p].temp /\ new.sent = 0 /\ new.data = <<>>
    <3> DEFINE o == [op[p] EXCEPT !.fd = i, !.made = m]
    <3>1. op[p] \in Locals
      BY <1>1, Types
    <3>2. /\ o \in Locals /\ o.fd = i /\ o.fd2 = 0 /\ o.no = op[p].no
          /\ o.temp = op[p].temp /\ o.sent = 0 /\ o.data = <<>>
      BY <3>1, <2>0 DEF Locals
    <3>3. op' = [op EXCEPT ![p] = o]
      BY <1>3
    <3> QED
      BY <3>2, <3>3
  <2>2. "up_lock" \in PCs /\ pc' = [pc EXCEPT ![p] = "up_lock"]
    BY <1>3 DEF PCs, Goto
  <2>3. /\ pc' \in [Procs -> PCs] /\ op' \in [Procs -> Locals]
        /\ pc'[p] = "up_lock" /\ op'[p] = new
        /\ \A q \in Procs \ {p} : pc'[q] = pc[q] /\ op'[q] = op[q]
    BY <1>1, <2>1, <2>2, OpOnly
  <2>4. inoNo \in Nat /\ inoNo' \in 0 .. MaxInodes /\ inoNo <= inoNo' /\ i <= inoNo' /\ i # 0
    BY <1>1, <1>3, FileAssumption, Types DEF NewInode, Inodes, Files
  <2>5. TypeOK'
    BY <1>1, <1>3, <2>3, <2>4 DEF TypeOK
  <2>6. DirStep(p)
    BY <1>1, <1>3 DEF DirStep, NewInode, TypeOK
  <2>7. OnlyMine(p) /\ LockStep(p) /\ ContentStep(p)
    BY <1>3, <2>3 DEF OnlyMine, LockStep, ContentStep
  <2>8. TempStep(p)
    BY <1>1, <1>3, <2>1, <2>3 DEF TempStep, Files, Private
  <2>9. Opens(p, op[p].fd, op'[p].fd) /\ Opens(p, op[p].fd2, op'[p].fd2)
    BY <1>3, <2>0, <2>1, <2>3 DEF Opens
  <2>10. Shape(p)'
    <3>1. op[p].temp \in Nat /\ op[p].temp <= inoNo
      BY <1>1, Types DEF Mine, Shape
    <3> QED
      BY <2>1, <2>3, <2>4, <3>1
         DEF Shape, HasFirst, HasSecond, MayHaveSecond, Starting, Uploading, Unsent, PCs
  <2>11. Locking(p)' /\ Data(p)'
    <3>1. \A j \in Inodes : lock[j][p] = "none"
      BY <1>1, <2>0 DEF Mine, Locking, Inodes
    <3> QED
      BY <1>3, <2>3, <3>1 DEF Locking, Data
  <2>12. TempOf(p)'
    <3>1. op[p].temp # 0 =>
            /\ Len(content[op[p].temp]) = 0 /\ \A x \in Paths : dir[x] # op[p].temp
            /\ op[p].temp <= inoNo
      BY <1>1, <2>0 DEF Mine, Shape, TempOf, Private
    <3>2. op[p].temp # 0 => \A x \in Paths : dir'[x] # op[p].temp
      BY <1>1, <1>3, <2>4, <3>1 DEF NewInode, TypeOK
    <3>3. \A k \in 1 .. 0 : FALSE
      OBVIOUS
    <3>4. /\ pc'[p] = "up_lock" /\ op'[p].temp = op[p].temp /\ op'[p].sent = 0
          /\ content' = content
      BY <1>3, <2>1, <2>3
    <3> QED
      BY <3>1, <3>2, <3>3, <3>4 DEF TempOf, Uploading, Private
  <2> QED
    BY <2>5, <2>6, <2>7, <2>8, <2>9, <2>10, <2>11, <2>12, EffectKeeps DEF Effect, Mine
<1>4. CASE /\ dir[op[p].path] = 0 /\ NewFile(op[p].path)
           /\ op' = [op EXCEPT ![p].fd = inoNo + 1, ![p].made = inoNo + 1]
           /\ Goto(p, "up_lock")
  <2>1. op[p].path \in Paths
    BY <1>1, Types DEF Locals
  <2>2. inoNo + 1 \in Inodes /\ NewInode(inoNo + 1)
    BY <1>1, <1>4, FileAssumption DEF NewFile, NewInode, TypeOK, Inodes
  <2> QED
    BY <1>3, <1>4, <2>1, <2>2 DEF NewFile, UploadOpen
<1>5. CASE /\ dir[op[p].path] # 0 /\ op' = [op EXCEPT ![p].fd = dir[op[p].path]]
           /\ Goto(p, "up_lock") /\ UNCHANGED fsVars
  <2>1. op[p] \in Locals /\ op[p].path \in Paths /\ dir[op[p].path] \in Inodes
    BY <1>1, <1>5, Types DEF Locals, Inodes
  <2>2. op' = [op EXCEPT ![p].fd = dir[op[p].path], ![p].made = op[p].made]
    <3>1. [op[p] EXCEPT !.fd = dir[op[p].path]]
            = [op[p] EXCEPT !.fd = dir[op[p].path], !.made = op[p].made]
      BY <2>1 DEF Locals
    <3> QED
      BY <1>1, <1>5, <3>1 DEF TypeOK
  <2>3. op[p].made \in Inodes \cup {0}
    BY <2>1 DEF Locals
  <2> QED
    BY <1>3, <1>5, <2>1, <2>2, <2>3 DEF fsVars, UploadOpen
<1> QED
  BY <1>2, <1>4, <1>5 DEF UploadOpen

(* A chunk is written, to the temporary file or under a write lock. *)
LEMMA WriteStep ==
  ASSUME FileInv, NEW p \in Procs, pc[p] \in {"up_data", "cp_data"},
         NEW i \in Inodes, NEW w \in Seq(0 .. MaxOps), Len(w) <= Chunks,
         content' = [content EXCEPT ![i] = w],
         op[p].sent < Chunks, op' = [op EXCEPT ![p].sent = op[p].sent + 1],
         UNCHANGED <<dir, temps, inoNo, lock, pc, opNo>>,
         inplace' \in {inplace, inplace \cup {i}},
         OwnTemp(p, i) \/ (lock[i][p] = "write" /\ i \in inplace'),
         Data(p)', TempOf(p)'
  PROVE  FileInv'
<1>1. TypeOK /\ Mine(p) /\ Files
  BY DEF FileInv
<1>2. PICK new \in Locals :
        /\ op' = [op EXCEPT ![p] = new] /\ new.sent = op[p].sent + 1
        /\ new.fd = op[p].fd /\ new.fd2 = op[p].fd2 /\ new.temp = op[p].temp
        /\ new.data = op[p].data
  <2> DEFINE o == [op[p] EXCEPT !.sent = op[p].sent + 1]
  <2>1. op[p] \in Locals /\ op[p].sent + 1 \in 0 .. Chunks
    BY <1>1, Types
  <2>2. /\ o \in Locals /\ o.sent = op[p].sent + 1 /\ o.fd = op[p].fd /\ o.fd2 = op[p].fd2
        /\ o.temp = op[p].temp /\ o.data = op[p].data
    BY <2>1 DEF Locals
  <2> QED
    BY <2>2
<1>4. /\ op' \in [Procs -> Locals] /\ op'[p] = new
      /\ \A q \in Procs \ {p} : pc'[q] = pc[q] /\ op'[q] = op[q]
  BY <1>1, <1>2 DEF TypeOK
<1>5. TypeOK'
  BY <1>1, <1>4 DEF TypeOK
<1>6. OnlyMine(p) /\ LockStep(p) /\ DirStep(p)
  BY <1>4 DEF OnlyMine, LockStep, DirStep
<1>7. ContentStep(p)
  BY <1>1 DEF ContentStep, TypeOK
<1>8. TempStep(p)
  BY <1>1, <1>2, <1>4 DEF TempStep, Private, Files
<1>9. Opens(p, op[p].fd, op'[p].fd) /\ Opens(p, op[p].fd2, op'[p].fd2)
  BY <1>2, <1>4 DEF Opens
<1>10. Shape(p)'
  BY <1>1, <1>2, <1>4
     DEF Mine, Shape, HasFirst, HasSecond, MayHaveSecond, Starting, Uploading, Unsent, PCs
<1>11. Locking(p)'
  BY <1>1, <1>2, <1>4 DEF Mine, Locking
<1> QED
  BY <1>5, <1>6, <1>7, <1>8, <1>9, <1>10, <1>11, EffectKeeps DEF Effect, Mine

LEMMA UploadDataKeeps ==
  ASSUME FileInv, NEW p \in Procs, UploadData(p)
  PROVE  FileInv'
<1>1. TypeOK /\ Mine(p) /\ Files /\ pc[p] = "up_data"
  BY DEF FileInv, UploadData
<1>2. CASE Goto(p, "up_abort") /\ UNCHANGED <<fsVars, op>>
  BY <1>1, <1>2, GotoStep DEF Moves, UploadData
<1>3. CASE /\ op[p].sent = Chunks /\ UNCHANGED <<fsVars, op>>
           /\ Goto(p, IF op[p].temp # 0 THEN "up_rename" ELSE "release")
  <2>1. PICK place \in PCs :
          place = IF op[p].temp # 0 THEN "up_rename" ELSE "release"
    BY DEF PCs
  <2>2. Goto(p, place) /\ pc'[p] = place /\ UNCHANGED <<fsVars, op, opNo, lock>>
    BY <1>1, <1>3, <2>1 DEF Goto, TypeOK, UploadData
  <2>3. Shape(p)'
    BY <1>1, <1>3, <2>1, <2>2
       DEF Mine, Shape, HasFirst, HasSecond, MayHaveSecond, Starting, Uploading, Unsent, PCs,
           fsVars
  <2>4. Locking(p)' /\ Data(p)'
    BY <1>1, <2>1, <2>2 DEF Mine, Locking, Data
  <2>5. TempOf(p)' /\ (Private(p)' => Private(p))
    BY <1>1, <2>1, <2>2 DEF Mine, TempOf, Private, Uploading, fsVars, TypeOK, Inodes
  <2>6. lock \in [Inodes -> [Procs -> {"none", "read", "write"}]] /\ LockStep(p)
    BY <1>1, <2>2 DEF TypeOK, LockStep
  <2> QED
    BY <2>2, <2>3, <2>4, <2>5, <2>6, PlaceStep DEF Mine
<1>4. ASSUME op[p].sent < Chunks,
             content' = [content EXCEPT ![IF op[p].temp # 0 THEN op[p].temp ELSE op[p].fd] =
                           WriteAt(@, op[p].sent + 1, op[p].no)],
             inplace' = IF op[p].temp # 0 THEN inplace
                        ELSE inplace \cup {IF op[p].temp # 0 THEN op[p].temp ELSE op[p].fd},
             op' = [op EXCEPT ![p].sent = @ + 1],
             UNCHANGED <<dir, temps, inoNo, pc, lock, opNo>>
      PROVE  FileInv'
  <2>0. /\ op[p].fd \in Inodes /\ op[p].temp \in Inodes \cup {0}
        /\ op[p].sent \in Nat /\ op[p].sent + 1 \in 1 .. Chunks /\ op[p].no \in 0 .. MaxOps
    <3>1. op[p].fd \in Inodes
      BY <1>1, Types DEF Mine, Shape, HasFirst, Inodes
    <3>2. op[p].temp \in Inodes \cup {0} /\ op[p].no \in 0 .. MaxOps
      BY <1>1, Types DEF Inodes
    <3>3. op[p].sent \in 0 .. Chunks /\ Chunks \in Nat
      BY <1>1, Types
    <3> QED
      BY <1>4, <3>1, <3>2, <3>3
  <2>1. PICK i \in Inodes : i = IF op[p].temp # 0 THEN op[p].temp ELSE op[p].fd
    BY <2>0
  <2>2. content[i] \in Seq(0 .. MaxOps) /\ Len(content[i]) <= Chunks
    BY <1>1, Types DEF Files
  <2>3. PICK w \in Seq(0 .. MaxOps) :
          /\ w = WriteAt(content[i], op[p].sent + 1, op[p].no)
          /\ Len(w) <= Chunks
          /\ op[p].sent + 1 = Len(content[i]) + 1 =>
                /\ Len(w) = op[p].sent + 1 /\ w[op[p].sent + 1] = op[p].no
                /\ \A k \in 1 .. op[p].sent : w[k] = content[i][k]
    <3>1. PICK s \in Seq(0 .. MaxOps) : s = content[i]
      BY <2>2
    <3>2. PICK n \in 1 .. Chunks : n = op[p].sent + 1
      BY <2>0
    <3>3. PICK tag \in 0 .. MaxOps : tag = op[p].no
      BY <2>0
    <3>4. PICK v : v = WriteAt(s, n, tag)
      OBVIOUS
    <3>5. Len(s) <= Chunks /\ Len(s) \in Nat
      BY <2>2, <3>1
    <3>6. /\ v \in Seq(0 .. MaxOps) /\ Len(v) <= Chunks
          /\ \A k \in 1 .. Len(s) : k # n => v[k] = s[k]
          /\ n <= Len(s) + 1 => v[n] = tag
          /\ n = Len(s) + 1 => Len(v) = n
      BY <3>4, <3>5, Written
    <3>7. n = Len(s) + 1 => \A k \in 1 .. op[p].sent : v[k] = s[k]
      <4> SUFFICES ASSUME n = Len(s) + 1, NEW k \in 1 .. op[p].sent PROVE v[k] = s[k]
        OBVIOUS
      <4>1. k \in 1 .. Len(s) /\ k # n
        BY <2>0, <3>2, <3>5
      <4> QED
        BY <3>6, <4>1
    <3>8. n = Len(s) + 1 => v[n] = tag
      BY <3>5, <3>6
    <3> QED
      BY <3>1, <3>2, <3>3, <3>4, <3>6, <3>7, <3>8
  <2>4. content' = [content EXCEPT ![i] = w]
    BY <1>4, <2>1, <2>3
  <2>5. op' = [op EXCEPT ![p].sent = op[p].sent + 1]
    BY <1>4
  <2>6. op'[p].temp = op[p].temp /\ op'[p].sent = op[p].sent + 1 /\ op'[p].no = op[p].no
    BY <2>5, <1>1 DEF TypeOK, Locals
  <2>7. content'[i] = w
    BY <2>4, <1>1 DEF TypeOK
  <2>8. TempOf(p)'
    <3>1. CASE op[p].temp = 0
      BY <3>1, <2>6, <1>1, <1>4 DEF TempOf, Private, Uploading
    <3>2. CASE op[p].temp # 0
      <4>1. Private(p) /\ i = op[p].temp
        BY <3>2, <1>1, <2>1 DEF Private
      <4>2. /\ \A x \in Paths : dir[x] # i
            /\ Len(content[i]) = op[p].sent
            /\ \A k \in 1 .. op[p].sent : content[i][k] = op[p].no
        BY <4>1, <1>1 DEF Mine, TempOf
      <4>3. Len(w) = op[p].sent + 1 /\ \A k \in 1 .. op[p].sent + 1 : w[k] = op[p].no
        BY <4>2, <2>0, <2>3
      <4> QED
        BY <4>1, <4>2, <4>3, <2>6, <2>7, <1>1, <1>4 DEF TempOf, Uploading, Private
    <3> QED
      BY <3>1, <3>2
  <2>9. Data(p)'
    BY <1>1, <1>4 DEF Data
  <2>10. OwnTemp(p, i) \/ (lock[i][p] = "write" /\ i \in inplace')
    <3>1. lock[op[p].fd][p] = "write"
      BY <1>1 DEF Mine, Locking
    <3> QED
      BY <1>1, <1>4, <2>1, <3>1 DEF OwnTemp
  <2>11. inplace' \in {inplace, inplace \cup {i}}
    BY <1>4, <2>1
  <2> QED
    BY <1>1, <1>4, <2>3, <2>4, <2>5, <2>8, <2>9, <2>10, <2>11, WriteStep
<1> QED
  BY <1>2, <1>3, <1>4 DEF UploadData

(* The received file gets its name. *)
LEMMA UploadRenameKeeps ==
  ASSUME FileInv, NEW p \in Procs, UploadRename(p)
  PROVE  FileInv'
<1>1. TypeOK /\ Mine(p) /\ Files /\ pc[p] = "up_rename"
  BY DEF FileInv, UploadRename
<1>2. CASE Goto(p, "up_abort") /\ UNCHANGED fsVars
  BY <1>1, <1>2, GotoStep DEF Moves, UploadRename
<1>3. CASE /\ dir' = [dir EXCEPT ![op[p].path] = op[p].temp]
           /\ temps' = temps \ {op[p].temp}
           /\ Goto(p, "release")
           /\ UNCHANGED <<content, inplace, inoNo>>
  <2>0. UNCHANGED <<lock, op, opNo>>
    BY DEF UploadRename
  <2>1. /\ "release" \in PCs /\ pc'[p] = "release" /\ pc' \in [Procs -> PCs]
        /\ \A q \in Procs \ {p} : pc'[q] = pc[q]
    BY <1>1, <1>3 DEF PCs, Goto, TypeOK
  <2>2. op[p].temp \in Inodes \cup {0} /\ op[p].path \in Paths
    BY <1>1, Types DEF Locals
  <2>3. TypeOK'
    BY <1>1, <1>3, <2>0, <2>1, <2>2 DEF TypeOK
  <2>4. OnlyMine(p) /\ LockStep(p) /\ ContentStep(p)
    BY <1>3, <2>0, <2>1 DEF OnlyMine, LockStep, ContentStep
  <2>5. DirStep(p)
    BY <1>1, <1>3 DEF DirStep, TypeOK
  <2>6. TempStep(p)
    BY <1>1, <1>3, <2>0, <2>1 DEF TempStep, Private
  <2>7. Opens(p, op[p].fd, op'[p].fd) /\ Opens(p, op[p].fd2, op'[p].fd2)
    BY <2>0 DEF Opens
  <2>8. Shape(p)'
    BY <1>1, <1>3, <2>0, <2>1
       DEF Mine, Shape, HasFirst, HasSecond, MayHaveSecond, Starting, Uploading, Unsent, PCs
  <2>9. Locking(p)' /\ Data(p)' /\ TempOf(p)'
    BY <1>1, <1>3, <2>0, <2>1 DEF Mine, Locking, Data, TempOf, Private
  <2> QED
    BY <2>3, <2>4, <2>5, <2>6, <2>7, <2>8, <2>9, EffectKeeps DEF Effect, Mine
<1> QED
  BY <1>2, <1>3 DEF UploadRename

LEMMA UploadAbortKeeps ==
  ASSUME FileInv, NEW p \in Procs, UploadAbort(p)
  PROVE  FileInv'
<1>1. TypeOK /\ Mine(p) /\ pc[p] = "up_abort"
  BY DEF FileInv, UploadAbort
<1>2. /\ "up_unlink" \in PCs /\ Goto(p, "up_unlink") /\ pc'[p] = "up_unlink"
      /\ UNCHANGED <<fsVars, op, opNo>>
  BY <1>1 DEF PCs, Goto, TypeOK, UploadAbort
<1>3. /\ lock' \in [Inodes -> [Procs -> {"none", "read", "write"}]]
      /\ \A i \in Inodes : lock'[i][p] = "none"
      /\ \A q \in Procs \ {p} : \A i \in Inodes : lock'[i][q] = lock[i][q]
      /\ LockStep(p)
  BY Released DEF UploadAbort
<1>4. Shape(p)'
  BY <1>1, <1>2
     DEF Mine, Shape, HasFirst, HasSecond, MayHaveSecond, Starting, Uploading, Unsent, PCs, fsVars
<1>5. Locking(p)' /\ Data(p)'
  BY <1>2, <1>3 DEF Locking, Data
<1>6. TempOf(p)' /\ (Private(p)' => Private(p))
  BY <1>1, <1>2 DEF Mine, TempOf, Private, Uploading, fsVars
<1> QED
  BY <1>2, <1>3, <1>4, <1>5, <1>6, PlaceStep DEF Mine

(* An operation that ends, and removes a name and its temporary file. *)
LEMMA UnlinkStep ==
  ASSUME FileInv, NEW p \in Procs, Finish(p), NEW x \in Paths,
         dir' \in {dir, [dir EXCEPT ![x] = 0]},
         temps' = temps \ {op[p].temp}, UNCHANGED <<content, inplace, inoNo, opNo>>
  PROVE  FileInv'
<1>1. TypeOK /\ Files
  BY DEF FileInv
<1>2. inoNo' \in Nat
  BY <1>1 DEF TypeOK
<1>3. TypeOK'
  BY <1>1, <1>2, Finished DEF TypeOK
<1>4. ContentStep(p) /\ DirStep(p)
  BY <1>1 DEF ContentStep, DirStep, TypeOK
<1>5. TempStep(p)
  BY <1>1, <1>2, Finished DEF TempStep
<1>6. Mine(p)'
  <2>1. 0 \notin temps'
    BY <1>1 DEF TypeOK, Inodes
  <2> QED
    BY <1>2, <2>1, Finished
<1> QED
  BY <1>2, <1>3, <1>4, <1>5, <1>6, Finished, EffectKeeps DEF Effect

LEMMA UploadUnlinkKeeps ==
  ASSUME FileInv, NEW p \in Procs, UploadUnlink(p)
  PROVE  FileInv'
<1>1. op[p].path \in Paths
  BY Types DEF FileInv, Locals
<1> QED
  BY <1>1, UnlinkStep DEF UploadUnlink

-----------------------------------------------------------------------------
(* Delete, create and move *)

(* Names are removed or given to other files, and the command is over. *)
LEMMA NameStep ==
  ASSUME FileInv, NEW p \in Procs, pc[p] \in {"del_unlink", "mv_rename"},
         Goto(p, "release"), dir' \in [Paths -> Inodes \cup {0}],
         \A x \in Paths : dir'[x] = 0 \/ \E y \in Paths : dir'[x] = dir[y],
         UNCHANGED <<content, temps, inplace, inoNo, lock, op, opNo>>
  PROVE  FileInv'
<1>1. TypeOK /\ Mine(p) /\ Files
  BY DEF FileInv
<1>2. /\ "release" \in PCs /\ pc'[p] = "release" /\ pc' \in [Procs -> PCs]
      /\ \A q \in Procs \ {p} : pc'[q] = pc[q]
  BY <1>1 DEF PCs, Goto, TypeOK
<1>3. TypeOK'
  BY <1>1, <1>2 DEF TypeOK
<1>4. OnlyMine(p) /\ LockStep(p) /\ ContentStep(p) /\ DirStep(p)
  BY <1>2 DEF OnlyMine, LockStep, ContentStep, DirStep
<1>5. TempStep(p)
  BY <1>1, <1>2 DEF TempStep, Private, Mine, TempOf, Uploading
<1>6. Opens(p, op[p].fd, op'[p].fd) /\ Opens(p, op[p].fd2, op'[p].fd2)
  BY DEF Opens
<1>7. Shape(p)'
  BY <1>1, <1>2
     DEF Mine, Shape, HasFirst, HasSecond, MayHaveSecond, Starting, Uploading, Unsent, PCs
<1>8. Locking(p)' /\ Data(p)' /\ TempOf(p)'
  BY <1>1, <1>2 DEF Mine, Locking, Data, TempOf, Private, Uploading
<1> QED
  BY <1>3, <1>4, <1>5, <1>6, <1>7, <1>8, EffectKeeps DEF Effect, Mine

LEMMA DeleteKeeps ==
  ASSUME FileInv, NEW p \in Procs,
         DeleteStat(p) \/ DeleteOpen(p) \/ DeleteLock(p) \/ delete_cmd(p)
  PROVE  FileInv'
<1>1. TypeOK /\ op[p].path \in Paths
  BY Types DEF FileInv, Locals
<1>2. CASE DeleteStat(p)
  <2>1. CASE Refuse(p)
    BY <1>2, <2>1, RefuseStep DEF Cleaned, Uploading, DeleteStat
  <2> QED
    BY <1>2, <2>1, GotoStep DEF DeleteStat, Moves
<1>3. CASE DeleteOpen(p)
  BY <1>1, <1>3, OpenStep DEF DeleteOpen
<1>4. CASE DeleteLock(p)
  <2>1. CASE Refuse(p)
    BY <1>4, <2>1, RefuseStep DEF Cleaned, Uploading, DeleteLock
  <2> QED
    BY <1>4, <2>1, FirstLock DEF DeleteLock, acquire_write_lock
<1>5. CASE delete_cmd(p)
  <2>1. /\ dir' \in [Paths -> Inodes \cup {0}]
        /\ \A x \in Paths : dir'[x] = 0 \/ \E y \in Paths : dir'[x] = dir[y]
    BY <1>1, <1>5 DEF TypeOK, delete_cmd
  <2> QED
    BY <1>5, <2>1, NameStep DEF delete_cmd
<1> QED
  BY <1>2, <1>3, <1>4, <1>5

(* A new file at a free path, by an operation that ends. *)
LEMMA CreateKeeps ==
  ASSUME FileInv, NEW p \in Procs, create_cmd(p)
  PROVE  FileInv'
<1>1. TypeOK /\ Mine(p) /\ Files /\ op[p].path \in Paths
  BY Types DEF FileInv, Locals
<1>2. CASE UNCHANGED fsVars
  BY <1>2, RefuseStep DEF create_cmd, Refuse, Cleaned, Uploading
<1>3. CASE NewFile(op[p].path)
  <2>1. inoNo + 1 \in Inodes /\ inoNo' = inoNo + 1 /\ inoNo' \in 0 .. MaxInodes
    BY <1>1, <1>3, FileAssumption DEF NewFile, TypeOK, Inodes
  <2>2. Finish(p) /\ UNCHANGED <<content, temps, inplace, opNo>> /\ inoNo' \in Nat
    BY <1>3, <2>1 DEF create_cmd, NewFile
  <2>3. TypeOK'
    BY <1>1, <1>3, <2>1, <2>2, Finished DEF TypeOK, NewFile
  <2>4. ContentStep(p)
    BY <2>2 DEF ContentStep
  <2>5. DirStep(p)
    BY <1>1, <1>3, <2>1 DEF DirStep, NewFile, NewInode, TypeOK
  <2>6. TempStep(p)
    <3>1. op[p].temp \notin temps
      BY <1>1 DEF create_cmd, Mine, TempOf, Uploading
    <3> QED
      BY <3>1, <2>2, Finished DEF TempStep
  <2>7. 0 \notin temps'
    BY <1>1, <2>2 DEF TypeOK, Inodes
  <2> QED
    BY <2>2, <2>3, <2>4, <2>5, <2>6, <2>7, Finished, EffectKeeps DEF Effect
<1> QED
  BY <1>2, <1>3 DEF create_cmd

(* A new file at a free destination becomes the second descriptor. *)
LEMMA NewDestStep ==
  ASSUME FileInv, NEW p \in Procs, NEW place, NEW x \in Paths,
         <<pc[p], place>> \in {<<"mv_dest", "mv_lock2">>, <<"cp_dest", "cp_lock">>},
         NewFile(x), Goto(p, place), UNCHANGED <<lock, opNo>>,
         op' = [op EXCEPT ![p].fd2 = inoNo + 1, ![p].made = inoNo + 1]
  PROVE  FileInv'
<1>1. TypeOK /\ Mine(p) /\ Files
  BY DEF FileInv
<1>2. PICK i \in Inodes : i = inoNo + 1 /\ NewInode(i) /\ inoNo' = i
  BY <1>1, FileAssumption DEF NewFile, TypeOK, Inodes, NewInode
<1>3. /\ inoNo \in Nat /\ inoNo' \in 0 .. MaxInodes /\ inoNo <= inoNo' /\ i # 0
      /\ op[p].fd <= inoNo /\ op[p].fd \in Nat
  BY <1>1, <1>2, FileAssumption, Types DEF Inodes, Mine, Shape
<1>4. /\ op[p].temp = 0 /\ op[p].sent = 0 /\ op[p].data = <<>> /\ op[p].fd2 = 0
      /\ op[p].fd # 0
  BY <1>1 DEF Mine, Shape, HasFirst, MayHaveSecond, HasSecond, Uploading, Unsent, PCs
<1>5. PICK new \in Locals :
        /\ op' = [op EXCEPT ![p] = new] /\ new.fd = op[p].fd /\ new.fd2 = i
        /\ new.temp = 0 /\ new.sent = 0 /\ new.data = <<>>
  <2> DEFINE o == [op[p] EXCEPT !.fd2 = i, !.made = i]
  <2>1. op[p] \in Locals
    BY <1>1, Types
  <2>2. /\ o \in Locals /\ o.fd = op[p].fd /\ o.fd2 = i
        /\ o.temp = 0 /\ o.sent = 0 /\ o.data = <<>>
    BY <2>1, <1>4 DEF Locals
  <2>3. op' = [op EXCEPT ![p] = o]
    BY <1>2
  <2> QED
    BY <2>2, <2>3
<1>6. place \in PCs /\ pc' = [pc EXCEPT ![p] = place]
  BY DEF PCs, Goto
<1>7. /\ pc' \in [Procs -> PCs] /\ op' \in [Procs -> Locals]
      /\ pc'[p] = place /\ op'[p] = new
      /\ \A q \in Procs \ {p} : pc'[q] = pc[q] /\ op'[q] = op[q]
  BY <1>1, <1>5, <1>6, OpOnly
<1>8. /\ dir' = [dir EXCEPT ![x] = i] /\ UNCHANGED <<content, temps, inplace>>
  BY <1>2 DEF NewFile
<1>9. TypeOK'
  BY <1>1, <1>3, <1>7, <1>8 DEF TypeOK
<1>10. OnlyMine(p) /\ LockStep(p) /\ ContentStep(p)
  BY <1>7, <1>8 DEF OnlyMine, LockStep, ContentStep
<1>11. DirStep(p)
  BY <1>1, <1>2, <1>8 DEF DirStep, TypeOK
<1>12. TempStep(p)
  BY <1>1, <1>4, <1>5, <1>7, <1>8 DEF TempStep, Private, TypeOK, Inodes
<1>13. Opens(p, op[p].fd, op'[p].fd) /\ Opens(p, op[p].fd2, op'[p].fd2)
  BY <1>2, <1>4, <1>5, <1>7 DEF Opens
<1>14. Shape(p)'
  BY <1>2, <1>3, <1>4, <1>5, <1>7
     DEF Shape, HasFirst, HasSecond, MayHaveSecond, Starting, Uploading, Unsent, PCs
<1>15. Locking(p)' /\ Data(p)'
  BY <1>1, <1>4, <1>5, <1>7 DEF Mine, Locking, Data, Inodes
<1>16. TempOf(p)'
  <2>1. 0 \notin temps
    BY <1>1 DEF TypeOK, Inodes
  <2>2. temps' = temps /\ op'[p].temp = 0
    BY <1>5, <1>7, <1>8
  <2> QED
    BY <2>1, <2>2 DEF TempOf, Private
<1> QED
  BY <1>9, <1>10, <1>11, <1>12, <1>13, <1>14, <1>15, <1>16, EffectKeeps DEF Effect, Mine

LEMMA MoveDestKeeps ==
  ASSUME FileInv, NEW p \in Procs, MoveDest(p)
  PROVE  FileInv'
<1>1. TypeOK /\ Mine(p) /\ Files /\ pc[p] = "mv_dest" /\ op[p].dest \in Paths
  BY Types DEF FileInv, Locals, MoveDest
<1>2. CASE Refuse(p)
  BY <1>1, <1>2, RefuseStep DEF Cleaned, Uploading
<1>3. CASE /\ Goto(p, IF dir[op[p].dest] = 0 THEN "mv_rename" ELSE "mv_open2")
           /\ UNCHANGED <<fsVars, lock, op, opNo>>
  <2>1. PICK place \in {"mv_rename", "mv_open2"} : Goto(p, place)
    BY <1>3
  <2> QED
    BY <1>1, <1>3, <2>1, GotoStep DEF Moves
<1>4. CASE /\ NewFile(op[p].dest)
           /\ op' = [op EXCEPT ![p].fd2 = inoNo + 1, ![p].made = inoNo + 1]
           /\ Goto(p, "mv_lock2")
           /\ UNCHANGED <<lock, opNo>>
  BY <1>1, <1>4, NewDestStep
<1> QED
  BY <1>2, <1>3, <1>4 DEF MoveDest

LEMMA MoveOpenDestKeeps ==
  ASSUME FileInv, NEW p \in Procs, MoveOpenDest(p)
  PROVE  FileInv'
<1>1. TypeOK /\ Mine(p) /\ Files /\ pc[p] = "mv_open2" /\ op[p].dest \in Paths
  BY Types DEF FileInv, Locals, MoveOpenDest
<1>2. CASE Refuse(p)
  BY <1>1, <1>2, RefuseStep DEF Cleaned, Uploading
<1>3. CASE /\ dir[op[p].dest] # 0
           /\ op' = [op EXCEPT ![p].fd2 = dir[op[p].dest]]
           /\ Goto(p, "mv_lock2")
           /\ UNCHANGED <<fsVars, lock, opNo>>
  <2>1. PICK i \in Inodes : i = dir[op[p].dest]
    BY <1>1, <1>3 DEF TypeOK, Inodes
  <2>2. /\ op[p].temp = 0 /\ op[p].sent = 0 /\ op[p].data = <<>> /\ op[p].fd2 = 0
        /\ op[p].fd # 0 /\ i <= inoNo
    BY <1>1, <2>1
       DEF Mine, Shape, Files, HasFirst, MayHaveSecond, HasSecond, Uploading, Unsent, PCs
  <2>3. PICK new \in Locals :
          /\ op' = [op EXCEPT ![p] = new] /\ new.fd = op[p].fd /\ new.fd2 = i
          /\ new.temp = 0 /\ new.sent = 0 /\ new.data = <<>>
    <3> DEFINE o == [op[p] EXCEPT !.fd2 = i]
    <3>1. op[p] \in Locals
      BY <1>1, Types
    <3>2. /\ o \in Locals /\ o.fd = op[p].fd /\ o.fd2 = i
          /\ o.temp = 0 /\ o.sent = 0 /\ o.data = <<>>
      BY <3>1, <2>2 DEF Locals
    <3>3. op' = [op EXCEPT ![p] = o]
      BY <1>3, <2>1
    <3> QED
      BY <3>2, <3>3
  <2>4. "mv_lock2" \in PCs /\ pc' = [pc EXCEPT ![p] = "mv_lock2"]
    BY <1>3 DEF PCs, Goto
  <2>5. pc'[p] = "mv_lock2" /\ op'[p] = new
    BY <1>1, <2>3, <2>4, OpOnly
  <2>6. Shape(p)'
    <3>1. op'[p].fd <= inoNo' /\ op'[p].fd2 <= inoNo' /\ op'[p].temp <= inoNo'
      BY <1>1, <1>3, <2>2, <2>3, <2>5 DEF Mine, Shape, fsVars
    <3>2. op'[p].fd # 0 /\ op'[p].fd2 # 0
      BY <2>2, <2>3, <2>5 DEF Inodes
    <3> QED
      BY <2>3, <2>5, <3>1, <3>2 DEF Shape, MayHaveSecond, HasSecond, Starting
  <2>7. Locking(p)' /\ Data(p)'
    BY <1>1, <1>3, <2>2, <2>3, <2>5 DEF Mine, Locking, Data, Inodes
  <2>8. TempOf(p)' /\ ~Private(p)'
    <3>1. 0 \notin temps
      BY <1>1 DEF TypeOK, Inodes
    <3>2. temps' = temps /\ op'[p].temp = 0
      BY <1>3, <2>3, <2>5 DEF fsVars
    <3> QED
      BY <3>1, <3>2 DEF TempOf, Private
  <2>9. UNCHANGED <<fsVars, lock>> /\ opNo' \in 0 .. MaxOps
    BY <1>1, <1>3 DEF TypeOK
  <2>10. /\ new.temp = op[p].temp /\ new.fd = op[p].fd
         /\ \E x \in Paths : new.fd2 = dir[x]
    BY <1>1, <2>1, <2>2, <2>3
  <2>11. Mine(p)' /\ (Private(p)' => Private(p))
    BY <2>6, <2>7, <2>8 DEF Mine
  <2> QED
    BY <2>3, <2>4, <2>9, <2>10, <2>11, LocalStep
<1> QED
  BY <1>2, <1>3 DEF MoveOpenDest

LEMMA MoveKeeps ==
  ASSUME FileInv, NEW p \in Procs,
         MoveStat(p) \/ MoveOpen(p) \/ MoveLock(p) \/ MoveLockDest(p) \/ move_cmd(p)
  PROVE  FileInv'
<1>1. TypeOK /\ op[p].path \in Paths /\ op[p].dest \in Paths
  BY Types DEF FileInv, Locals
<1>2. CASE MoveStat(p)
  <2>1. CASE Refuse(p)
    BY <1>2, <2>1, RefuseStep DEF Cleaned, Uploading, MoveStat
  <2> QED
    BY <1>2, <2>1, GotoStep DEF MoveStat, Moves
<1>3. CASE MoveOpen(p)
  BY <1>1, <1>3, OpenStep DEF MoveOpen
<1>4. CASE MoveLock(p)
  <2>1. CASE Refuse(p)
    BY <1>4, <2>1, RefuseStep DEF Cleaned, Uploading, MoveLock
  <2> QED
    BY <1>4, <2>1, FirstLock DEF MoveLock, acquire_write_lock
<1>5. CASE MoveLockDest(p)
  <2>1. CASE Refuse(p)
    BY <1>5, <2>1, RefuseStep DEF Cleaned, Uploading, MoveLockDest
  <2> QED
    BY <1>5, <2>1, SecondLock DEF MoveLockDest, acquire_write_lock
<1>6. CASE move_cmd(p)
  <2>1. PICK x \in Paths, y \in Paths : x = op[p].path /\ y = op[p].dest
    BY <1>1
  <2>2. dir' = IF dir[x] = 0 \/ dir[x] = dir[y] THEN dir
               ELSE [dir EXCEPT ![y] = dir[x], ![x] = 0]
    BY <1>6, <2>1 DEF move_cmd
  <2>3. /\ dir' \in [Paths -> Inodes \cup {0}]
        /\ \A z \in Paths : dir'[z] = 0 \/ \E w \in Paths : dir'[z] = dir[w]
    BY <1>1, <2>2 DEF TypeOK
  <2> QED
    BY <1>6, <2>3, NameStep DEF move_cmd
<1> QED
  BY <1>2, <1>3, <1>4, <1>5, <1>6

-----------------------------------------------------------------------------
(* The copy of an accepted transfer *)

LEMMA CopyDestKeeps ==
  ASSUME FileInv, NEW p \in Procs, CopyDest(p)
  PROVE  FileInv'
<1>1. pc[p] = "cp_dest" /\ op[p].dest \in Paths
  BY Types DEF FileInv, Locals, CopyDest
<1>2. CASE Refuse(p)
  BY <1>1, <1>2, RefuseStep DEF Cleaned, Uploading
<1>3. CASE ~Refuse(p)
  BY <1>1, <1>3, NewDestStep DEF CopyDest
<1> QED
  BY <1>2, <1>3

LEMMA CopyLocksKeep ==
  ASSUME FileInv, NEW p \in Procs, CopyOpen(p) \/ CopyLock(p) \/ CopyLockDest(p)
  PROVE  FileInv'
<1>1. op[p].path \in Paths
  BY Types DEF FileInv, Locals
<1>2. CASE CopyOpen(p)
  BY <1>1, <1>2, OpenStep DEF CopyOpen
<1>3. CASE CopyLock(p)
  <2>1. CASE Refuse(p)
    BY <1>3, <2>1, RefuseStep DEF Cleaned, Uploading, CopyLock
  <2> QED
    BY <1>3, <2>1, FirstLock DEF CopyLock, acquire_read_lock
<1>4. CASE CopyLockDest(p)
  <2>1. CASE Refuse(p)
    BY <1>4, <2>1, RefuseStep DEF Cleaned, Uploading, CopyLockDest
  <2>2. CASE ~Refuse(p)
    <3>1. /\ CanWriteLock(p, op[p].fd2) /\ pc[p] = "cp_lock2"
          /\ lock' = [lock EXCEPT ![op[p].fd2][p] = "write"]
          /\ Goto(p, "cp_data") /\ UNCHANGED <<fsVars, op, opNo>>
      BY <1>4, <2>2 DEF CopyLockDest, acquire_write_lock
    <3> QED
      BY <3>1, SecondLock
  <2> QED
    BY <2>1, <2>2
<1> QED
  BY <1>2, <1>3, <1>4

(* A buffer goes from a file under a read lock to one under a write lock. *)
LEMMA CopyDataKeeps ==
  ASSUME FileInv, NEW p \in Procs, CopyData(p)
  PROVE  FileInv'
<1>1. TypeOK /\ Mine(p) /\ Files /\ pc[p] = "cp_data"
  BY DEF FileInv, CopyData
<1>2. CASE Finish(p) /\ UNCHANGED fsVars
  BY <1>1, <1>2, RefuseStep DEF CopyData, Refuse, Cleaned, Uploading
<1>3. CASE release_lock(p) /\ Goto(p, "cp_unlink") /\ UNCHANGED <<fsVars, op>>
  <2>1. /\ "cp_unlink" \in PCs /\ Goto(p, "cp_unlink") /\ pc'[p] = "cp_unlink"
        /\ UNCHANGED <<fsVars, op, opNo>>
    BY <1>1, <1>3 DEF PCs, Goto, TypeOK, CopyData
  <2>2. /\ lock' \in [Inodes -> [Procs -> {"none", "read", "write"}]]
        /\ \A i \in Inodes : lock'[i][p] = "none"
        /\ \A q \in Procs \ {p} : \A i \in Inodes : lock'[i][q] = lock[i][q]
        /\ LockStep(p)
    BY <1>3, Released
  <2>3. Shape(p)'
    BY <1>1, <2>1
       DEF Mine, Shape, HasFirst, HasSecond, MayHaveSecond, Starting, Uploading, Unsent, PCs,
           fsVars
  <2>4. Locking(p)' /\ Data(p)'
    BY <2>1, <2>2 DEF Locking, Data
  <2>5. TempOf(p)' /\ (Private(p)' => Private(p))
    BY <1>1, <2>1 DEF Mine, TempOf, Private, Uploading, fsVars
  <2> QED
    BY <2>1, <2>2, <2>3, <2>4, <2>5, PlaceStep DEF Mine
<1>4. ASSUME op[p].sent < Len(content[op[p].fd]),
             content' = [content EXCEPT ![op[p].fd2] =
                           WriteAt(@, op[p].sent + 1, content[op[p].fd][op[p].sent + 1])],
             inplace' = inplace \cup {op[p].fd2},
             op' = [op EXCEPT ![p].sent = op[p].sent + 1],
             UNCHANGED <<dir, temps, inoNo, lock, pc, opNo>>
      PROVE  FileInv'
  <2>1. PICK i \in Inodes, j \in Inodes : i = op[p].fd2 /\ j = op[p].fd
    <3>1. op[p].fd # 0 /\ op[p].fd2 # 0
      BY <1>1 DEF Mine, Shape, HasFirst, HasSecond
    <3>2. op[p].fd \in Inodes /\ op[p].fd2 \in Inodes
      BY <3>1, <1>1, Types DEF Inodes
    <3> QED
      BY <3>2
  <2>2. i # j
    BY <1>1, <2>1 DEF Mine, Shape
  <2>3. PICK s \in Seq(0 .. MaxOps), r \in Seq(0 .. MaxOps) :
          s = content[i] /\ r = content[j]
    BY <1>1, Types
  <2>4. /\ Len(s) <= Chunks /\ Len(r) <= Chunks /\ Len(s) \in Nat /\ Len(r) \in Nat
        /\ Chunks \in Nat
    BY <1>1, <2>3, FileAssumption DEF Files
  <2>5. op[p].sent \in Nat /\ op[p].sent < Len(r)
    <3>1. op[p].sent \in 0 .. Chunks
      BY <1>1, Types
    <3> QED
      BY <3>1, <1>4, <2>1, <2>3, <2>4
  <2>6. PICK n \in 1 .. Chunks : n = op[p].sent + 1 /\ n \in 1 .. Len(r)
    BY <2>4, <2>5
  <2>7. PICK tag \in 0 .. MaxOps : tag = r[n]
    BY <2>6, ElementOfSeq
  <2>8. PICK w : w = WriteAt(s, n, tag)
    OBVIOUS
  <2>9. /\ op[p].sent <= Len(s)
        /\ \A k \in 1 .. op[p].sent : s[k] = r[k]
    BY <1>1, <2>1, <2>3 DEF Mine, Data
  <2>10. /\ w \in Seq(0 .. MaxOps) /\ Len(w) <= Chunks /\ Len(s) <= Len(w)
         /\ \A k \in 1 .. Len(s) : k # n => w[k] = s[k]
         /\ n <= Len(s) + 1 => n <= Len(w) /\ w[n] = tag
    BY <2>4, <2>8, Written
  <2>11. n <= Len(w) /\ w[n] = r[n]
    BY <2>4, <2>5, <2>6, <2>7, <2>9, <2>10
  <2>12. \A k \in 1 .. n : w[k] = r[k]
    <3> SUFFICES ASSUME NEW k \in 1 .. n, k # n PROVE w[k] = r[k]
      BY <2>11
    <3>1. k \in 1 .. op[p].sent /\ k \in 1 .. Len(s)
      BY <2>4, <2>5, <2>6, <2>9
    <3> QED
      BY <3>1, <2>9, <2>10
  <2>13. content' = [content EXCEPT ![i] = w]
    BY <1>4, <2>1, <2>3, <2>6, <2>7, <2>8
  <2>14. content'[i] = w /\ content'[j] = r
    BY <1>1, <2>2, <2>3, <2>13 DEF TypeOK
  <2>15. /\ op'[p].sent = n /\ op'[p].fd = j /\ op'[p].fd2 = i
         /\ op'[p].temp = op[p].temp /\ pc'[p] = pc[p]
    BY <1>1, <1>4, <2>1, <2>6 DEF TypeOK, Locals
  <2>16. Data(p)'
    BY <1>1, <2>6, <2>11, <2>12, <2>14, <2>15 DEF Data
  <2>17. TempOf(p)'
    BY <1>1, <1>4, <2>15 DEF Mine, TempOf, Private, Uploading
  <2>18. lock[i][p] = "write" /\ i \in inplace'
    BY <1>1, <1>4, <2>1 DEF Mine, Locking
  <2>19. inplace' \in {inplace, inplace \cup {i}}
    BY <1>4, <2>1
  <2>20. op[p].sent < Chunks
    BY <2>4, <2>5
  <2> QED
    BY <1>1, <1>4, <2>10, <2>13, <2>16, <2>17, <2>18, <2>19, <2>20, WriteStep
<1> QED
  BY <1>2, <1>3, <1>4 DEF CopyData

LEMMA CopyUnlinkKeeps ==
  ASSUME FileInv, NEW p \in Procs, CopyUnlink(p)
  PROVE  FileInv'
<1>1. op[p].dest \in Paths /\ TypeOK /\ Mine(p)
  BY Types DEF FileInv, Locals
<1>2. temps' = temps \ {op[p].temp}
  <2>1. op[p].temp \notin temps
    BY <1>1 DEF Mine, TempOf, Uploading, CopyUnlink
  <2> QED
    BY <2>1 DEF CopyUnlink
<1> QED
  BY <1>1, <1>2, UnlinkStep DEF CopyUnlink

-----------------------------------------------------------------------------
(* A command begins *)

LEMMA BeginKeeps ==
  ASSUME FileInv, NEW p \in Procs, NEW kind \in Kinds, NEW x \in Paths, NEW y \in Paths,
         Begin(p, kind, x, y)
  PROVE  FileInv'
<1>1. TypeOK /\ Mine(p) /\ Files /\ pc[p] = "idle"
  BY DEF FileInv, Begin
<1>2. PICK place \in {"rd_open", "up_stat", "del_stat", "mv_stat", "cp_open", "create"} :
        pc' = [pc EXCEPT ![p] = place]
  <2>1. kind \in {"read", "upload", "write_at", "delete", "move", "move_into", "create",
                  "copy"}
    BY FileAssumption
  <2>2. Label(kind) \in {"rd_open", "up_stat", "del_stat", "mv_stat", "cp_open", "create"}
    BY <2>1 DEF Label
  <2> QED
    BY <2>2 DEF Begin, Goto
<1>3. opNo' = opNo + 1 /\ opNo + 1 \in 0 .. MaxOps
  BY <1>1, FileAssumption DEF Begin, TypeOK
<1>4. PICK new \in Locals :
        /\ op' = [op EXCEPT ![p] = new] /\ new.fd = 0 /\ new.fd2 = 0
        /\ new.temp = 0 /\ new.sent = 0 /\ new.data = <<>>
  <2> DEFINE o == [NoOp EXCEPT !.kind = kind, !.no = opNo + 1, !.path = x, !.dest = y]
  <2>1. kind \in {"none", "read", "upload", "write_at", "delete", "move", "move_into",
                  "create", "copy"}
    BY FileAssumption
  <2>2. /\ o \in Locals /\ o.fd = 0 /\ o.fd2 = 0
        /\ o.temp = 0 /\ o.sent = 0 /\ o.data = <<>>
    BY <1>3, <2>1, NoOpTypes DEF Locals
  <2>3. op' = [op EXCEPT ![p] = o]
    BY DEF Begin
  <2> QED
    BY <2>2, <2>3
<1>5. place \in PCs /\ place \in Starting
  BY DEF PCs, Starting
<1>6. pc'[p] = place /\ op'[p] = new
  BY <1>1, <1>2, <1>4, <1>5, OpOnly
<1>7. op[p].fd = 0 /\ op[p].fd2 = 0 /\ op[p].temp = 0
  BY <1>1 DEF Mine, Shape, Starting, MayHaveSecond, HasSecond, Uploading
<1>8. Shape(p)'
  <2>1. 0 <= inoNo' /\ inoNo' = inoNo
    BY <1>1 DEF Begin, fsVars, TypeOK
  <2> QED
    BY <1>4, <1>6, <2>1 DEF Shape, HasFirst, HasSecond
<1>9. Locking(p)' /\ Data(p)'
  BY <1>1, <1>4, <1>6, <1>7 DEF Mine, Locking, Data, Inodes, Begin
<1>10. TempOf(p)' /\ ~Private(p)'
  <2>1. 0 \notin temps
    BY <1>1 DEF TypeOK, Inodes
  <2>2. temps' = temps /\ op'[p].temp = 0
    BY <1>4, <1>6 DEF fsVars, Begin
  <2> QED
    BY <2>1, <2>2 DEF TempOf, Private
<1>11. UNCHANGED <<fsVars, lock>> /\ opNo' \in 0 .. MaxOps
  BY <1>3 DEF Begin
<1>12. Mine(p)' /\ (Private(p)' => Private(p))
  BY <1>8, <1>9, <1>10 DEF Mine
<1> QED
  BY <1>2, <1>4, <1>5, <1>7, <1>11, <1>12, LocalStep

-----------------------------------------------------------------------------
(* The invariant *)

LEMMA FileInvInit == Init => FileInv
<1> SUFFICES ASSUME Init PROVE FileInv
  OBVIOUS
<1>1. PICK files \in SUBSET Paths :
        /\ inoNo = Cardinality(files)
        /\ dir \in [Paths -> 0 .. inoNo]
        /\ \A x \in Paths : dir[x] # 0 <=> x \in files
        /\ content = [i \in Inodes |->
                        IF i <= inoNo THEN [c \in 1 .. Chunks |-> 0] ELSE <<>>]
  BY DEF Init
<1>2. inoNo \in 0 .. MaxInodes
  <2>1. IsFiniteSet(Paths) /\ Cardinality(Paths) \in 1 .. MaxInodes
    BY FileAssumption
  <2>2. IsFiniteSet(files) /\ Cardinality(files) <= Cardinality(Paths)
    BY <2>1, FS_Subset
  <2>3. Cardinality(files) \in Nat
    BY <2>2, FS_CardinalityType
  <2> QED
    BY <1>1, <2>1, <2>2, <2>3, FileAssumption
<1>3. PICK whole \in Seq(0 .. MaxOps) :
        whole = [c \in 1 .. Chunks |-> 0] /\ Len(whole) = Chunks
        /\ \A k \in 1 .. Chunks : whole[k] = 0
  <2>1. Chunks \in Nat /\ 0 \in 0 .. MaxOps
    BY FileAssumption
  <2>2. [c \in 1 .. Chunks |-> 0] \in Seq(0 .. MaxOps)
    BY <2>1
  <2>3. Len([c \in 1 .. Chunks |-> 0]) = Chunks
    BY <2>1
  <2> QED
    BY <2>2, <2>3
<1>4. \A i \in Inodes : content[i] = IF i <= inoNo THEN whole ELSE <<>>
  BY <1>1, <1>3
<1>5. content \in [Inodes -> Seq(0 .. MaxOps)]
  <2>1. <<>> \in Seq(0 .. MaxOps)
    BY EmptySeq
  <2> QED
    BY <1>1, <1>3, <2>1
<1>6. TypeOK
  <2>1. "idle" \in PCs
    BY DEF PCs
  <2>2. dir \in [Paths -> Inodes \cup {0}]
    BY <1>1, <1>2, FileAssumption DEF Inodes
  <2>3. opNo \in 0 .. MaxOps
    BY FileAssumption DEF Init
  <2> QED
    BY <1>2, <1>5, <2>1, <2>2, <2>3, NoOpTypes DEF TypeOK, Init
<1>7. Files
  <2>1. ASSUME NEW i \in Inodes
        PROVE  Len(content[i]) <= Chunks /\ (inoNo < i => content[i] = <<>>)
    <3>1. Chunks \in Nat /\ Len(<<>>) = 0
      BY FileAssumption, EmptySeq
    <3> QED
      BY <1>2, <1>3, <1>4, <3>1 DEF Inodes
  <2>2. \A x \in Paths : dir[x] <= inoNo
    BY <1>1, <1>2
  <2> QED
    BY <2>1, <2>2 DEF Files, Init
<1>8. VisibleWhole
  <2> SUFFICES ASSUME NEW x \in Paths, dir[x] # 0 PROVE Whole(dir[x])
    BY DEF VisibleWhole
  <2>0. dir[x] \in 0 .. inoNo
    BY <1>1
  <2>1. dir[x] \in Inodes /\ dir[x] <= inoNo
    BY <1>2, <2>0, FileAssumption DEF Inodes
  <2>2. content[dir[x]] = whole
    BY <1>4, <2>1
  <2> QED
    BY <1>3, <2>2 DEF Whole
<1>9. ASSUME NEW p \in Procs PROVE Mine(p)
  <2>1. /\ pc[p] = "idle" /\ op[p] = NoOp /\ temps = {}
        /\ \A i \in Inodes : lock[i][p] = "none"
    BY DEF Init
  <2>2. 0 <= inoNo
    BY <1>2
  <2>3. Shape(p)
    BY <2>1, <2>2, NoOpTypes DEF Shape, HasFirst, HasSecond
  <2> QED
    BY <2>1, <2>3, NoOpTypes DEF Mine, Locking, Data, TempOf, Private
<1>10. ASSUME NEW p \in Procs, NEW q \in Procs PROVE Apart(p, q)
  BY NoOpTypes DEF Apart, Init, Private
<1> QED
  BY <1>6, <1>7, <1>8, <1>9, <1>10 DEF FileInv

LEMMA FileInvStep == FileInv /\ [Next]_vars => FileInv'
<1> SUFFICES ASSUME FileInv, [Next]_vars PROVE FileInv'
  OBVIOUS
<1>1. CASE UNCHANGED vars
  BY <1>1
     DEF vars, FileInv, TypeOK, Files, VisibleWhole, Whole, Mine, Shape, Locking, Data, TempOf,
         Private, Apart
<1>2. ASSUME NEW p \in Procs, Step(p) PROVE FileInv'
  <2>1. CASE ReadOpen(p)
    <3>1. op[p].path \in Paths
      BY Types DEF FileInv, Locals
    <3> QED
      BY <2>1, <3>1, OpenStep DEF ReadOpen
  <2>2. CASE ReadLock(p) \/ ReadStat(p) \/ ReadData(p)
    BY <2>2, ReadLockKeeps, ReadStatKeeps, ReadDataKeeps
  <2>3. CASE UploadStat(p) \/ UploadTemp(p) \/ UploadOpen(p) \/ UploadLock(p)
    BY <2>3, UploadStatKeeps, UploadTempKeeps, UploadOpenKeeps, UploadLockKeeps
  <2>4. CASE UploadData(p) \/ UploadRename(p) \/ UploadAbort(p) \/ UploadUnlink(p)
    BY <2>4, UploadDataKeeps, UploadRenameKeeps, UploadAbortKeeps, UploadUnlinkKeeps
  <2>5. CASE DeleteStat(p) \/ DeleteOpen(p) \/ DeleteLock(p) \/ delete_cmd(p)
    BY <2>5, DeleteKeeps
  <2>6. CASE MoveStat(p) \/ MoveOpen(p) \/ MoveLock(p) \/ MoveLockDest(p) \/ move_cmd(p)
    BY <2>6, MoveKeeps
  <2>7. CASE MoveDest(p) \/ MoveOpenDest(p)
    BY <2>7, MoveDestKeeps, MoveOpenDestKeeps
  <2>8. CASE CopyOpen(p) \/ CopyLock(p) \/ CopyLockDest(p)
    BY <2>8, CopyLocksKeep
  <2>9. CASE CopyDest(p) \/ CopyData(p) \/ CopyUnlink(p)
    BY <2>9, CopyDestKeeps, CopyDataKeeps, CopyUnlinkKeeps
  <2>10. CASE create_cmd(p)
    BY <2>10, CreateKeeps
  <2>11. CASE Release(p)
    BY <2>11, RefuseStep DEF Release, Cleaned, Uploading
  <2> QED
    BY <1>2, <2>1, <2>2, <2>3, <2>4, <2>5, <2>6, <2>7, <2>8, <2>9, <2>10, <2>11 DEF Step
<1> QED
  BY <1>1, <1>2, BeginKeeps DEF Next

LEMMA FileInvHolds == Spec => []FileInv
BY FileInvInit, FileInvStep, PTL DEF Spec

-----------------------------------------------------------------------------
(* Theorems *)

(* Two sequences that agree up to a place have the same prefix. *)
LEMMA SamePrefixes ==
  ASSUME NEW S, NEW s \in Seq(S), NEW w \in Seq(S), NEW n \in Nat,
         n <= Len(s), n <= Len(w), \A k \in 1 .. n : w[k] = s[k]
  PROVE  SubSeq(w, 1, n) = SubSeq(s, 1, n)
<1>1. /\ SubSeq(s, 1, n) \in Seq(S) /\ Len(SubSeq(s, 1, n)) = n
      /\ \A k \in 1 .. n : SubSeq(s, 1, n)[k] = s[k]
  BY SubSeqProperties
<1>2. /\ SubSeq(w, 1, n) \in Seq(S) /\ Len(SubSeq(w, 1, n)) = n
      /\ \A k \in 1 .. n : SubSeq(w, 1, n)[k] = w[k]
  BY SubSeqProperties
<1> QED
  BY <1>1, <1>2, SeqEqual

LEMMA Prefixes ==
  ASSUME NEW S, NEW s \in Seq(S), NEW d \in Seq(S), Len(d) <= Len(s),
         \A k \in 1 .. Len(d) : d[k] = s[k]
  PROVE  d = SubSeq(s, 1, Len(d))
<1>0. Len(d) \in Nat /\ Len(s) \in Nat
  OBVIOUS
<1>1. /\ SubSeq(s, 1, Len(d)) \in Seq(S) /\ Len(SubSeq(s, 1, Len(d))) = Len(d)
      /\ \A k \in 1 .. Len(d) : SubSeq(s, 1, Len(d))[k] = s[k]
  BY <1>0, SubSeqProperties
<1> QED
  BY <1>1, SeqEqual

(* Every variable keeps its type: no operation writes past the end of a file *)
(* or names a file that was never made.                                      *)
THEOREM FileTypes == Spec => []TypeOK
<1>1. FileInv => TypeOK
  BY DEF FileInv
<1> QED
  BY <1>1, FileInvHolds, PTL

(* What a client downloads is the file as it was announced, whatever the     *)
(* other children do to its path meanwhile.                                  *)
THEOREM ReadersStable == Spec => []ReaderStable
<1>1. FileInv => ReaderStable
  <2> SUFFICES ASSUME FileInv, NEW p \in Procs, pc[p] = "rd_data"
               PROVE  /\ op[p].size = Len(content[op[p].fd])
                      /\ op[p].data = SubSeq(content[op[p].fd], 1, Len(op[p].data))
    BY DEF ReaderStable
  <2>1. TypeOK /\ Mine(p)
    BY DEF FileInv
  <2>2. op[p].fd \in Inodes
    BY <2>1, Types DEF Mine, Shape, HasFirst, Inodes
  <2>3. PICK s \in Seq(0 .. MaxOps), d \in Seq(0 .. MaxOps) :
          s = content[op[p].fd] /\ d = op[p].data
    BY <2>1, <2>2, Types
  <2>4. /\ op[p].size = Len(s) /\ Len(d) <= Len(s)
        /\ \A k \in 1 .. Len(d) : d[k] = s[k]
    BY <2>1, <2>3 DEF Mine, Data
  <2>5. d = SubSeq(s, 1, Len(d))
    BY <2>4, Prefixes
  <2> QED
    BY <2>3, <2>4, <2>5
<1> QED
  BY <1>1, FileInvHolds, PTL

(* The copy made for an accepted transfer holds what its source holds: no    *)
(* operation writes to either file under the copy's locks.                   *)
THEOREM CopiesFaithful == Spec => []CopyFaithful
<1>1. FileInv => CopyFaithful
  <2> SUFFICES ASSUME FileInv, NEW p \in Procs, pc[p] = "cp_data"
               PROVE  SubSeq(content[op[p].fd2], 1, op[p].sent)
                        = SubSeq(content[op[p].fd], 1, op[p].sent)
    BY DEF CopyFaithful
  <2>1. TypeOK /\ Mine(p)
    BY DEF FileInv
  <2>2. op[p].fd # 0 /\ op[p].fd2 # 0
    BY <2>1 DEF Mine, Shape, HasFirst, HasSecond
  <2>3. op[p].fd \in Inodes /\ op[p].fd2 \in Inodes
    BY <2>1, <2>2, Types DEF Inodes
  <2>4. PICK s \in Seq(0 .. MaxOps), w \in Seq(0 .. MaxOps), n \in 0 .. Chunks :
          s = content[op[p].fd] /\ w = content[op[p].fd2] /\ n = op[p].sent
    BY <2>1, <2>3, Types
  <2>5. n <= Len(s) /\ n <= Len(w) /\ \A k \in 1 .. n : w[k] = s[k]
    BY <2>1, <2>4 DEF Mine, Data
  <2>6. SubSeq(w, 1, n) = SubSeq(s, 1, n)
    BY <2>5, SamePrefixes
  <2> QED
    BY <2>4, <2>6
<1> QED
  BY <1>1, FileInvHolds, PTL

(* A file under a name is empty or one upload in full, except those written  *)
(* under their name: an interrupted upload never shows.                      *)
THEOREM VisibleAreWhole == Spec => []VisibleWhole
<1>1. FileInv => VisibleWhole
  BY DEF FileInv
<1> QED
  BY <1>1, FileInvHolds, PTL

(* An idle child holds no lock, and every temporary file belongs to an       *)
(* operation that is still running.                                          *)
THEOREM NothingLeft == Spec => []IdleHoldsNothing
<1>1. FileInv => IdleHoldsNothing
  <2> SUFFICES ASSUME FileInv PROVE IdleHoldsNothing
    OBVIOUS
  <2>1. ASSUME NEW p \in Procs, pc[p] = "idle", NEW i \in Inodes PROVE lock[i][p] = "none"
    <3>1. Mine(p)
      BY DEF FileInv
    <3>2. op[p].fd = 0 /\ op[p].fd2 = 0
      BY <2>1, <3>1 DEF Mine, Shape, Starting, MayHaveSecond, HasSecond
    <3> QED
      BY <3>1, <3>2 DEF Mine, Locking, Inodes
  <2> QED
    BY <2>1 DEF FileInv, Files, IdleHoldsNothing
<1> QED
  BY <1>1, FileInvHolds, PTL
=============================================================================
