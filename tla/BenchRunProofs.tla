---------------------------- MODULE BenchRunProofs ---------------------------
(***************************************************************************)
(* Why a benchmark report can be relied on, for any number of clients, any *)
(* documents and any command lines.                                        *)
(*                                                                         *)
(* A report of success: what a client measured under is compared again     *)
(* after the last block, and what was lost in between stays lost           *)
(* (Observed); each block was judged (Measured); and the one report that   *)
(* says so is written as it is kept (Written).  The name: while a client   *)
(* that reserved it exclusively works, everything readable under it that   *)
(* such a client wrote is its own (Marked); and a checkpoint reaches the   *)
(* name as it was synced (Kept).                                           *)
(***************************************************************************)
EXTENDS BenchRun, FiniteSetTheorems, WellFoundedInduction, TLAPS

Saving    == {"temp", "fsync", "replace", "settle"}
Measuring == {"begin", "run", "load", "judge", "inputs"}
Reserving == {"parse", "open", "fill", "flush", "claim", "collect"}

\* Where a client is, or will be after the checkpoint it makes.
Where(c) == IF pc[c] \in Saving THEN then[c] ELSE pc[c]

Validated(c, b) ==
    ValidateResult(Disturbed(report[c].blocks[b].raw, args[c], b), args[c], b)

Good(c, b) ==
    /\ report[c].blocks[b].status = "success"
    /\ report[c].blocks[b].raw \in args[c].mishaps
    /\ Validated(c, b)

\* Good up to the n-th block.
GoodTo(c, n) == \A b \in 1 .. n : Good(c, b)

Measured(c) ==
    /\ Where(c) = "collect" => Latest(c) = 0
    /\ Where(c) = "begin" => GoodTo(c, Latest(c))
    /\ Where(c) \in {"run", "load", "judge"} => Latest(c) > 0 /\ GoodTo(c, Latest(c) - 1)
    /\ Where(c) = "judge" => report[c].blocks[Latest(c)].raw \in args[c].mishaps
    /\ Where(c) \in {"inputs", "git", "runtime"} => Latest(c) = args[c].blocks /\ GoodTo(c, Latest(c))

\* What the client recorded, beside the world that can only move on.
Recorded(c) ==
    /\ \E i \in 1 .. world.docs : BoundTo(args[c], i)
    /\ world.runtime >= args[c].runtime
    /\ args[c].commit # NoCommit => git[c].commit = args[c].commit
    /\ git[c].eligible = (world.checkout /\ ~git[c].dirty /\ ~args[c].allowDirty)
    /\ ~world.checkout => ~git[c].dirty /\ git[c].commit = args[c].commit
    /\ world.checkout =>
           /\ world.commit >= git[c].commit
           /\ world.commit = git[c].commit /\ git[c].dirty => world.dirty

\* What no later check accepts again.
DocsGone(c)    == ~BoundTo(args[c], world.docs)
GitGone(c)     == world.checkout /\ (world.commit > git[c].commit \/ (world.dirty /\ ~git[c].dirty))
RuntimeGone(c) == world.runtime > args[c].runtime

Observed(c) ==
    /\ Where(c) \in Reserving => ~stale[c]
    /\ Where(c) \in Measuring =>
           Recorded(c) /\ (stale[c] => DocsGone(c) \/ GitGone(c) \/ RuntimeGone(c))
    /\ Where(c) = "git" => Recorded(c) /\ (stale[c] => GitGone(c) \/ RuntimeGone(c))
    /\ Where(c) = "runtime" => Recorded(c) /\ (stale[c] => RuntimeGone(c))

Succeeded(c) == report[c].status = "success"

Earned(c) ==
    /\ Latest(c) = args[c].blocks /\ GoodTo(c, Latest(c))
    /\ ~stale[c]
    /\ report[c].eligible => git[c].eligible /\ ~git[c].dirty

Concluded(c) ==
    /\ Succeeded(c) => Earned(c) /\ Where(c) \in {"exit", "over", "dead"}
    /\ code[c] = 0 => Succeeded(c)
    /\ pc[c] \in Saving => then[c] # "none"
    /\ Where(c) \in {"exit"} \cup Measuring \cup {"collect", "git", "runtime"} => report[c].by = c

Course(c) == Measured(c) /\ Observed(c) /\ Concluded(c)

Entries(n)  == disk[n] \cup {dir[n]}
Contents(i) == safe[i] \cup {data[i]}

\* A file holds reports of clients, and of success only those they keep.
Written ==
    \A i \in Inodes : \A x \in Contents(i) \cap Reports :
        x.by \in Clients /\ (x.status = "success" => Succeeded(x.by) /\ x = report[x.by])

Given == \E s \in Scenarios : args = s.args

CourseInv == TypeOK /\ Given /\ Written /\ \A c \in Clients : Course(c)

------------------------------------------------------------------------------
(* The name. *)

Claims(c) == c \in Clients /\ ~args[c].overwrite

\* Everything that may ever be read under the name, of clients that claim it.
Marks == {x \in UNION {Contents(i) : i \in Entries(Out) \cap Inodes} : x \in Reports /\ Claims(x.by)}

Marked ==
    /\ \A x, y \in Marks : x.by = y.by
    /\ \A c \in Clients : Active(c) /\ Claims(c) => \A x \in Marks : x.by = c

\* Clients at work.
Apart ==
    /\ \A c, d \in Clients : c # d /\ Active(c) /\ Active(d) =>
           ~(Claims(c) /\ Claims(d)) /\ ~alone[c]
    /\ \A c \in Clients : Active(c) => dir[Out] \in Inodes
    /\ dir[Out] = NoInode => disk[Out] = {NoInode}

\* A temporary file is its client's own.
Private(c) ==
    pc[c] \in {"fsync", "replace"} =>
        /\ dir[c] \in Inodes /\ dir[c] # dir[Out]
        /\ \A d \in Clients : fd[d] # dir[c] /\ (d # c => dir[d] # dir[c])
        /\ \A m \in Names : m # c => dir[c] \notin disk[m]
        /\ data[dir[c]] = report[c] /\ safe[dir[c]] \subseteq {Blank, Torn, report[c]}

Kept(c) ==
    /\ pc[c] \in {"fill", "flush"} => fd[c] \in Inodes
    /\ pc[c] = "replace" => safe[dir[c]] = {report[c]}
    /\ pc[c] = "settle" /\ alone[c] => data[dir[Out]] = report[c] /\ safe[dir[Out]] = {report[c]}

NameInv == Marked /\ Apart /\ \A c \in Clients : Private(c) /\ Kept(c)

FilesInv == CourseInv /\ NameInv
------------------------------------------------------------------------------
(* What the calls of the operating system do to names and files. *)

Texts == Reports \cup {Blank, Torn}

FsTypeOK ==
    /\ dir \in [Names -> Inodes \cup {NoInode}]
    /\ disk \in [Names -> SUBSET (Inodes \cup {NoInode})]
    /\ data \in [Inodes -> Texts]
    /\ safe \in [Inodes -> SUBSET Texts]

LEMMA FsTypes == TypeOK => FsTypeOK
BY DEF TypeOK, FsTypeOK, Texts

LEMMA Words ==
    /\ Out \in Names /\ Out \notin Clients /\ NoInode \notin Inodes
    /\ \A c \in Clients : c \in Names /\ c # Out
    /\ \A n \in Names : n # Out => n \in Clients
    /\ Blank \notin Reports /\ Torn \notin Reports /\ Absent \notin Reports
    /\ Blank # Torn /\ Torn # Absent /\ Absent # Blank
BY BenchAssumption

\* The descriptors that are open.
Held == {fd[d] : d \in Clients}

LEMMA Fresh ==
    ASSUME NEW i, i = FreshInode(Held), Unused(Held) # {}
    PROVE  /\ i \in Inodes /\ \A d \in Clients : fd[d] # i
           /\ \A n \in Names : i # dir[n] /\ i \notin disk[n]
<1>1. i \in Unused(Held)
  BY DEF FreshInode
<1>2. QED
  BY <1>1 DEF Unused, Held

LEMMA CreateEffect ==
    ASSUME FsTypeOK, NEW n \in Names, NEW i \in Inodes, NEW c \in Texts,
           NEW may \in SUBSET Texts, CreateAs(n, i, c, may)
    PROVE  /\ FsTypeOK'
           /\ dir'[n] = i /\ disk'[n] = disk[n] \cup {i}
           /\ data'[i] = c /\ safe'[i] = may
           /\ \A m \in Names : m # n => dir'[m] = dir[m] /\ disk'[m] = disk[m]
           /\ \A j \in Inodes : j # i => data'[j] = data[j] /\ safe'[j] = safe[j]
BY DEF FsTypeOK, CreateAs

LEMMA WriteEffect ==
    ASSUME FsTypeOK, NEW i \in Inodes \cup {NoInode}, NEW c \in Texts, WriteFile(i, c)
    PROVE  /\ FsTypeOK'
           /\ dir' = dir /\ disk' = disk
           /\ \A j \in Inodes : j = i => data'[j] = c /\ safe'[j] = safe[j] \cup {c, Torn}
           /\ \A j \in Inodes : j # i => data'[j] = data[j] /\ safe'[j] = safe[j]
BY DEF FsTypeOK, WriteFile, Texts

LEMMA TruncateEffect ==
    ASSUME FsTypeOK, NEW n \in Names, NEW i \in Inodes, i = dir[n], Truncate(n)
    PROVE  /\ FsTypeOK'
           /\ dir' = dir /\ disk' = disk
           /\ data'[i] = Blank /\ safe'[i] = safe[i] \cup {Blank}
           /\ \A j \in Inodes : j # i => data'[j] = data[j] /\ safe'[j] = safe[j]
BY DEF FsTypeOK, Truncate, Texts

LEMMA SyncFileEffect ==
    ASSUME FsTypeOK, NEW i \in Inodes \cup {NoInode}, SyncFile(i)
    PROVE  /\ FsTypeOK'
           /\ dir' = dir /\ disk' = disk /\ data' = data
           /\ \A j \in Inodes : j = i => safe'[j] = {data[j]}
           /\ \A j \in Inodes : j # i => safe'[j] = safe[j]
BY ZenonT(30) DEF FsTypeOK, SyncFile

LEMMA ReplaceEffect ==
    ASSUME FsTypeOK, NEW old \in Names, NEW new \in Names, old # new, Replace(old, new)
    PROVE  /\ FsTypeOK'
           /\ data' = data /\ safe' = safe
           /\ dir'[new] = dir[old] /\ disk'[new] = disk[new] \cup {dir[old]}
           /\ dir'[old] = NoInode /\ disk'[old] = disk[old] \cup {NoInode}
           /\ \A m \in Names : m \notin {old, new} => dir'[m] = dir[m] /\ disk'[m] = disk[m]
<1>1. \A m \in Names :
          /\ dir'[m] = IF m = old THEN NoInode ELSE IF m = new THEN dir[old] ELSE dir[m]
          /\ disk'[m] = IF m = old THEN disk[m] \cup {NoInode}
                        ELSE IF m = new THEN disk[m] \cup {dir[old]} ELSE disk[m]
  BY DEF FsTypeOK, Replace
<1>2. FsTypeOK'
  BY DEF FsTypeOK, Replace
<1>3. QED
  BY <1>1, <1>2 DEF Replace

LEMMA UnlinkEffect ==
    ASSUME FsTypeOK, NEW n \in Names, Unlink(n)
    PROVE  /\ FsTypeOK'
           /\ data' = data /\ safe' = safe
           /\ dir'[n] = NoInode /\ disk'[n] = disk[n] \cup {NoInode}
           /\ \A m \in Names : m # n => dir'[m] = dir[m] /\ disk'[m] = disk[m]
BY DEF FsTypeOK, Unlink

LEMMA SyncDirEffect ==
    ASSUME FsTypeOK, SyncDir
    PROVE  /\ FsTypeOK'
           /\ dir' = dir /\ data' = data /\ safe' = safe
           /\ \A m \in Names : disk'[m] = {dir[m]}
BY DEF FsTypeOK, SyncDir

\* A crash leaves of every name and file one thing it could be.
LEMMA CrashEffect ==
    ASSUME FsTypeOK, HostCrash
    PROVE  /\ FsTypeOK'
           /\ \A n \in Names : dir'[n] \in Entries(n) /\ disk'[n] = {dir'[n]}
           /\ \A i \in Inodes : data'[i] \in Contents(i) /\ safe'[i] = {data'[i]}
<1> DEFINE loose == {n \in Names : disk[n] # {dir[n]}}
           unsaved == {i \in Inodes : safe[i] # {data[i]}}
<1>1. PICK e \in [loose -> UNION {disk[n] : n \in loose}],
           f \in [unsaved -> UNION {safe[i] : i \in unsaved}] :
        /\ \A n \in loose : e[n] \in disk[n]
        /\ \A i \in unsaved : f[i] \in safe[i]
        /\ dir' = [n \in Names |-> IF n \in loose THEN e[n] ELSE dir[n]]
        /\ data' = [i \in Inodes |-> IF i \in unsaved THEN f[i] ELSE data[i]]
        /\ disk' = [n \in Names |-> {dir'[n]}]
        /\ safe' = [i \in Inodes |-> {data'[i]}]
  BY DEF HostCrash
<1>2. ASSUME NEW n \in Names
      PROVE  dir'[n] \in Entries(n) /\ disk'[n] = {dir'[n]}
  BY <1>1 DEF Entries
<1>3. ASSUME NEW i \in Inodes
      PROVE  data'[i] \in Contents(i) /\ safe'[i] = {data'[i]}
  BY <1>1 DEF Contents
<1>4. /\ \A n \in Names : Entries(n) \subseteq Inodes \cup {NoInode}
      /\ \A i \in Inodes : Contents(i) \subseteq Texts
  BY DEF FsTypeOK, Entries, Contents
<1>5. dir' \in [Names -> Inodes \cup {NoInode}]
  <2>1. dir' = [n \in Names |-> dir'[n]]
    BY <1>1
  <2>2. \A n \in Names : dir'[n] \in Inodes \cup {NoInode}
    BY <1>2, <1>4
  <2>3. QED
    BY <2>1, <2>2
<1>6. data' \in [Inodes -> Texts]
  <2>1. data' = [i \in Inodes |-> data'[i]]
    BY <1>1
  <2>2. \A i \in Inodes : data'[i] \in Texts
    BY <1>3, <1>4
  <2>3. QED
    BY <2>1, <2>2
<1>7. /\ disk' \in [Names -> SUBSET (Inodes \cup {NoInode})]
      /\ safe' \in [Inodes -> SUBSET Texts]
  BY <1>1, <1>5, <1>6
<1>8. QED
  BY <1>2, <1>3, <1>5, <1>6, <1>7 DEF FsTypeOK
------------------------------------------------------------------------------
(* What a step does to the client that takes it. *)

Thens     == {"none", "begin", "run", "load", "judge", "exit"}
Statuses  == {-1, 0, 1, 2}
Checkouts == [commit : Nat, eligible : BOOLEAN, dirty : BOOLEAN]
Files     == Inodes \cup {NoInode}
Flags     == BOOLEAN

OthersSame(c) ==
    /\ args' = args
    /\ \A d \in Clients : d # c =>
           /\ pc'[d] = pc[d] /\ then'[d] = then[d] /\ fd'[d] = fd[d] /\ report'[d] = report[d]
           /\ git'[d] = git[d] /\ code'[d] = code[d] /\ stale'[d] = stale[d]

\* f has become g, at most in what it says of c.
Edits(g, f, c, T) == g \in [Clients -> T] /\ \A d \in Clients : d # c => g[d] = f[d]

LEMMA SetEdits ==
    \A T : \A f \in [Clients -> T] : \A c \in Clients : \A x \in T :
        \A g : g = [f EXCEPT ![c] = x] => Edits(g, f, c, T) /\ g[c] = x
BY DEF Edits

LEMMA SameEdits == \A T : \A f \in [Clients -> T] : \A c, g : g = f => Edits(g, f, c, T)
BY DEF Edits

ClientEdits(c) ==
    /\ Edits(pc', pc, c, Labels) /\ Edits(then', then, c, Thens)
    /\ Edits(fd', fd, c, Files) /\ Edits(report', report, c, Reports)
    /\ Edits(git', git, c, Checkouts) /\ Edits(code', code, c, Statuses)
    /\ Edits(stale', stale, c, Flags)

LEMMA Edited ==
    ASSUME TypeOK, FsTypeOK', args' = args, world' = world, NEW c \in Clients,
           ClientEdits(c), alone' \in [Clients -> BOOLEAN]
    PROVE  TypeOK' /\ OthersSame(c)
<1>1. OthersSame(c)
  BY DEF ClientEdits, Edits, OthersSame
<1>2. TypeOK'
  BY DEF ClientEdits, Edits, TypeOK, FsTypeOK, Texts, Thens, Checkouts, Statuses, Files, Flags
<1>3. QED
  BY <1>1, <1>2

LEMMA TypedEdits ==
    ASSUME TypeOK, NEW c
    PROVE  /\ UNCHANGED pc => Edits(pc', pc, c, Labels)
           /\ UNCHANGED then => Edits(then', then, c, Thens)
           /\ UNCHANGED fd => Edits(fd', fd, c, Files)
           /\ UNCHANGED report => Edits(report', report, c, Reports)
           /\ UNCHANGED git => Edits(git', git, c, Checkouts)
           /\ UNCHANGED code => Edits(code', code, c, Statuses)
           /\ UNCHANGED stale => Edits(stale', stale, c, Flags)
           /\ UNCHANGED alone => alone' \in [Clients -> BOOLEAN]
BY SameEdits DEF TypeOK, Thens, Checkouts, Statuses, Files, Flags

LEMMA StepEdits ==
    ASSUME TypeOK, NEW c \in Clients
    PROVE  /\ \A x \in Labels : pc' = [pc EXCEPT ![c] = x] => Edits(pc', pc, c, Labels) /\ pc'[c] = x
           /\ \A x \in Thens : then' = [then EXCEPT ![c] = x] => Edits(then', then, c, Thens) /\ then'[c] = x
           /\ \A x \in Files : fd' = [fd EXCEPT ![c] = x] =>
                  Edits(fd', fd, c, Files) /\ fd'[c] = x
           /\ \A x \in Reports : report' = [report EXCEPT ![c] = x] =>
                  Edits(report', report, c, Reports) /\ report'[c] = x
           /\ \A x \in Checkouts : git' = [git EXCEPT ![c] = x] => Edits(git', git, c, Checkouts) /\ git'[c] = x
           /\ \A x \in Statuses : code' = [code EXCEPT ![c] = x] => Edits(code', code, c, Statuses) /\ code'[c] = x
           /\ \A x \in Flags : stale' = [stale EXCEPT ![c] = x] => Edits(stale', stale, c, Flags)
                  /\ stale'[c] = x
<1>1. \A x \in Labels : pc' = [pc EXCEPT ![c] = x] => Edits(pc', pc, c, Labels) /\ pc'[c] = x
  BY SetEdits DEF TypeOK
<1>2. \A x \in Thens : then' = [then EXCEPT ![c] = x] => Edits(then', then, c, Thens) /\ then'[c] = x
  <2>1. then \in [Clients -> Thens]
    BY DEF TypeOK, Thens
  <2>2. QED
    BY <2>1, SetEdits
<1>3. \A x \in Files : fd' = [fd EXCEPT ![c] = x] => Edits(fd', fd, c, Files) /\ fd'[c] = x
  <2>1. fd \in [Clients -> Files]
    BY DEF TypeOK, Files
  <2>2. QED
    BY <2>1, SetEdits
<1>4. \A x \in Reports : report' = [report EXCEPT ![c] = x] => Edits(report', report, c, Reports) /\ report'[c] = x
  BY SetEdits DEF TypeOK
<1>5. \A x \in Checkouts : git' = [git EXCEPT ![c] = x] => Edits(git', git, c, Checkouts) /\ git'[c] = x
  <2>1. git \in [Clients -> Checkouts]
    BY DEF TypeOK, Checkouts
  <2>2. QED
    BY <2>1, SetEdits
<1>6. \A x \in Statuses : code' = [code EXCEPT ![c] = x] => Edits(code', code, c, Statuses) /\ code'[c] = x
  <2>1. code \in [Clients -> Statuses]
    BY DEF TypeOK, Statuses
  <2>2. QED
    BY <2>1, SetEdits
<1>7. \A x \in Flags : stale' = [stale EXCEPT ![c] = x] => Edits(stale', stale, c, Flags) /\ stale'[c] = x
  <2>1. stale \in [Clients -> Flags]
    BY DEF TypeOK, Flags
  <2>2. QED
    BY <2>1, SetEdits
<1>8. QED
  BY <1>1, <1>2, <1>3, <1>4, <1>5, <1>6, <1>7

Failed(c) == [report[c] EXCEPT !.status = "failed", !.blocks = FailedBlocks(c)]

LEMMA FailedReport ==
    ASSUME TypeOK, NEW c \in Clients
    PROVE  Failed(c) \in Reports /\ Failed(c).status = "failed" /\ Failed(c).by = report[c].by
<1>1. report[c] \in Reports /\ report[c].blocks \in Seq(Blocks)
  BY DEF TypeOK, Reports
<1>2. FailedBlocks(c) \in Seq(Blocks)
  <2>1. Latest(c) \in Nat /\ \A b \in 1 .. Latest(c) : report[c].blocks[b] \in Blocks
    BY <1>1 DEF Latest
  <2>2. \A x \in Blocks : [x EXCEPT !.status = "failed"] \in Blocks
    BY DEF Blocks
  <2>3. FailedBlocks(c) \in [1 .. Latest(c) -> Blocks]
    BY <2>1, <2>2 DEF FailedBlocks
  <2>4. QED
    BY <2>1, <2>3
<1>3. QED
  BY <1>1, <1>2 DEF Failed, Reports

LEMMA RaiseEffect ==
    ASSUME TypeOK, NEW c \in Clients, NEW n, Raise(c, n)
    PROVE  /\ report' = [report EXCEPT ![c] = Failed(c)]
           /\ code' = [code EXCEPT ![c] = n]
           /\ pc' = [pc EXCEPT ![c] = "temp"] /\ then' = [then EXCEPT ![c] = "exit"]
BY DEF Raise, Save, Goto, Failed, TypeOK

LEMMA SeqEdited ==
    ASSUME NEW S, NEW s \in Seq(S), NEW x \in S, NEW n \in 1 .. Len(s)
    PROVE  /\ [s EXCEPT ![n] = x] \in Seq(S) /\ Len([s EXCEPT ![n] = x]) = Len(s)
           /\ [s EXCEPT ![n] = x][n] = x
           /\ \A i \in 1 .. (n - 1) : [s EXCEPT ![n] = x][i] = s[i]
OBVIOUS

WithBlock(c, block) == [report[c] EXCEPT !.blocks = [report[c].blocks EXCEPT ![Latest(c)] = block]]

LEMMA BlockReport ==
    ASSUME TypeOK, NEW c \in Clients, Latest(c) > 0, NEW block \in Blocks,
           NEW r, r = WithBlock(c, block)
    PROVE  /\ r \in Reports /\ r.by = report[c].by /\ r.status = report[c].status
           /\ Len(r.blocks) = Latest(c) /\ r.blocks[Latest(c)] = block
           /\ \A b \in 1 .. (Latest(c) - 1) : r.blocks[b] = report[c].blocks[b]
<1>1. report[c] \in Reports /\ report[c].blocks \in Seq(Blocks)
  BY DEF TypeOK, Reports
<1>2. Latest(c) \in 1 .. Len(report[c].blocks)
  BY <1>1 DEF Latest
<1>3. PICK s : s = [report[c].blocks EXCEPT ![Latest(c)] = block]
  OBVIOUS
<1>4. /\ s \in Seq(Blocks) /\ Len(s) = Latest(c) /\ s[Latest(c)] = block
      /\ \A b \in 1 .. (Latest(c) - 1) : s[b] = report[c].blocks[b]
  BY <1>1, <1>2, <1>3, SeqEdited DEF Latest
<1>5. r = [report[c] EXCEPT !.blocks = s]
  BY <1>3 DEF WithBlock
<1>6. QED
  BY <1>1, <1>4, <1>5 DEF Reports

LEMMA EditEffect ==
    ASSUME TypeOK, NEW c \in Clients, NEW block, EditBlock(c, block)
    PROVE  report' = [report EXCEPT ![c] = WithBlock(c, block)]
BY DEF EditBlock, WithBlock, TypeOK

WithNext(c) == [report[c] EXCEPT !.blocks = Append(report[c].blocks, NewBlock)]

LEMMA NextReport ==
    ASSUME TypeOK, NEW c \in Clients, NEW r, r = WithNext(c)
    PROVE  /\ r \in Reports /\ r.by = report[c].by /\ r.status = report[c].status
           /\ Latest(c) \in Nat /\ Len(r.blocks) = Latest(c) + 1
           /\ \A b \in 1 .. Latest(c) : r.blocks[b] = report[c].blocks[b]
<1>1. report[c] \in Reports /\ report[c].blocks \in Seq(Blocks)
  BY DEF TypeOK, Reports
<1>2. NewBlock \in Blocks
  BY DEF NewBlock, Blocks, Disturbances
<1>3. PICK s : s = Append(report[c].blocks, NewBlock)
  OBVIOUS
<1>4. /\ s \in Seq(Blocks) /\ Latest(c) \in Nat /\ Len(s) = Latest(c) + 1
      /\ \A b \in 1 .. Latest(c) : s[b] = report[c].blocks[b]
  BY <1>1, <1>2, <1>3 DEF Latest
<1>5. r = [report[c] EXCEPT !.blocks = s]
  BY <1>3 DEF WithNext
<1>6. QED
  BY <1>1, <1>4, <1>5 DEF Reports

Success(c) == [report[c] EXCEPT !.status = "success", !.eligible = git[c].eligible]

LEMMA SuccessReport ==
    ASSUME TypeOK, NEW c \in Clients, NEW r, r = Success(c)
    PROVE  /\ r \in Reports /\ r.by = report[c].by /\ r.status = "success"
           /\ r.blocks = report[c].blocks /\ r.eligible = git[c].eligible
<1>1. report[c] \in Reports /\ git[c].eligible \in BOOLEAN
  BY DEF TypeOK
<1>2. QED
  BY <1>1 DEF Success, Reports

Starting(c, status) == [NoReport EXCEPT !.by = c, !.status = status]

LEMMA NewReport ==
    ASSUME NEW c \in Clients, NEW status \in {"reserved", "running"},
           NEW r, r = Starting(c, status)
    PROVE  r \in Reports /\ r.by = c /\ r.status = status /\ r.blocks = << >>
<1>1. r = [by |-> c, status |-> status, blocks |-> << >>, eligible |-> FALSE]
  BY DEF NoReport, Starting
<1>2. << >> \in Seq(Blocks)
  OBVIOUS
<1>3. QED
  BY <1>1, <1>2 DEF Reports
------------------------------------------------------------------------------
(* How a step moves the courses of the clients. *)

\* The files only get what c may write now.
Writes(c) ==
    \A i \in Inodes : \A x \in Contents(i)' \cap Reports :
        \/ x \in Contents(i)
        \/ x.by = c /\ x.status # "success"
        \/ x = report'[c] /\ x.by = c

LEMMA WrittenKeeps ==
    ASSUME Written, NEW c \in Clients, OthersSame(c), Writes(c),
           Succeeded(c) => report'[c] = report[c]
    PROVE  Written'
<1> SUFFICES ASSUME NEW i \in Inodes, NEW x \in Contents(i)' \cap Reports
             PROVE  /\ x.by \in Clients
                    /\ x.status = "success" => report'[x.by].status = "success" /\ x = report'[x.by]
  BY DEF Written, Succeeded
<1>1. CASE x \in Contents(i)
  <2>1. x.by \in Clients /\ (x.status = "success" => Succeeded(x.by) /\ x = report[x.by])
    BY <1>1 DEF Written
  <2>2. x.status = "success" => report'[x.by] = report[x.by]
    BY <2>1 DEF OthersSame
  <2>3. QED
    BY <2>1, <2>2 DEF Succeeded
<1>2. CASE x.by = c /\ x.status # "success"
  BY <1>2
<1>3. CASE x = report'[c] /\ x.by = c
  BY <1>3
<1>4. QED
  BY <1>1, <1>2, <1>3 DEF Writes

\* A course is a client's own.
LEMMA CourseStays ==
    ASSUME NEW d \in Clients, Course(d), args' = args, world' = world,
           pc'[d] = pc[d], then'[d] = then[d], report'[d] = report[d], git'[d] = git[d],
           code'[d] = code[d], stale'[d] = stale[d]
    PROVE  Course(d)'
<1>1. Where(d)' = Where(d) /\ Latest(d)' = Latest(d) /\ Succeeded(d)' = Succeeded(d)
  BY DEF Where, Latest, Succeeded
<1>2. \A n : GoodTo(d, n)' = GoodTo(d, n)
  BY DEF GoodTo, Good, Validated
<1>3. /\ Recorded(d)' = Recorded(d) /\ DocsGone(d)' = DocsGone(d) /\ GitGone(d)' = GitGone(d)
      /\ RuntimeGone(d)' = RuntimeGone(d)
  BY DEF Recorded, DocsGone, GitGone, RuntimeGone
<1>4. Measured(d)'
  BY <1>1, <1>2 DEF Course, Measured
<1>5. Observed(d)'
  BY <1>1, <1>3 DEF Course, Observed
<1>6. Concluded(d)'
  BY <1>1, <1>2 DEF Course, Concluded, Earned
<1>7. QED
  BY <1>4, <1>5, <1>6 DEF Course

LEMMA CourseStep ==
    ASSUME CourseInv, NEW c \in Clients, OthersSame(c), TypeOK', world' = world, Writes(c),
           Succeeded(c) => report'[c] = report[c],
           Course(c)'
    PROVE  CourseInv'
<1>1. Written'
  BY WrittenKeeps DEF CourseInv
<1>2. ASSUME NEW d \in Clients
      PROVE  Course(d)'
  BY CourseStays DEF CourseInv, OthersSame
<1>3. Given'
  BY DEF CourseInv, Given, OthersSame
<1>4. QED
  BY <1>1, <1>2, <1>3 DEF CourseInv

------------------------------------------------------------------------------
(* Kinds of steps. *)

\* A step that leaves the files as they are, or loses some of what they hold.
Loses == \A i \in Inodes : Contents(i)' \subseteq Contents(i)

LEMMA Untouched == UNCHANGED fsvars => FsTypeOK' = FsTypeOK /\ Loses
BY DEF fsvars, FsTypeOK, Loses, Contents

\* A step on the way to the claim, or to the end.
LEMMA Idles ==
    ASSUME NEW c \in Clients, Course(c), args' = args,
           report'[c] = report[c], git'[c] = git[c], stale'[c] = stale[c],
           code'[c] \in {code[c], 1, 2},
           \/ pc'[c] \in {"over", "dead"}
           \/ pc'[c] \in {"open", "fill", "flush", "claim"} /\ ~Succeeded(c) /\ ~stale[c]
    PROVE  Course(c)'
<1>1. /\ Where(c)' \in {"over", "dead", "open", "fill", "flush", "claim"}
      /\ Where(c)' \in {"over", "dead"} \/ (~Succeeded(c) /\ ~stale[c])
      /\ pc'[c] \notin Saving
  BY DEF Where, Saving
<1>2. Latest(c)' = Latest(c) /\ Succeeded(c)' = Succeeded(c)
  BY DEF Latest, Succeeded
<1>3. Earned(c)' = Earned(c)
  BY <1>2 DEF Earned, GoodTo, Good, Validated
<1>4. Measured(c)' /\ Observed(c)'
  BY <1>1 DEF Measured, Observed, Measuring, Reserving
<1>5. Concluded(c)'
  BY <1>1, <1>2, <1>3 DEF Course, Concluded, Measuring
<1>6. QED
  BY <1>4, <1>5 DEF Course

\* An exception: the report is marked failed and written once more.
LEMMA Raises ==
    ASSUME NEW c \in Clients, TypeOK, Course(c), NEW n \in {1, 2}, Raise(c, n),
           report[c].by = c, ~Succeeded(c)
    PROVE  /\ Edits(pc', pc, c, Labels) /\ Edits(then', then, c, Thens)
           /\ Edits(report', report, c, Reports) /\ Edits(code', code, c, Statuses)
           /\ pc'[c] = "temp" /\ report'[c].by = c /\ Course(c)'
<1>1. PICK r \in Reports : r = Failed(c) /\ r.status = "failed" /\ r.by = c
  BY FailedReport
<1>2. /\ Edits(pc', pc, c, Labels) /\ pc'[c] = "temp"
      /\ Edits(then', then, c, Thens) /\ then'[c] = "exit"
      /\ Edits(report', report, c, Reports) /\ report'[c] = r
      /\ Edits(code', code, c, Statuses) /\ code'[c] = n
  <2>1. "temp" \in Labels /\ "exit" \in Thens /\ n \in Statuses
    BY DEF Labels, Thens, Statuses
  <2>2. QED
    BY <1>1, <2>1, RaiseEffect, StepEdits
<1>3. Where(c)' = "exit" /\ ~Succeeded(c)'
  BY <1>1, <1>2 DEF Where, Saving, Succeeded
<1>4. Course(c)'
  BY <1>1, <1>2, <1>3 DEF Course, Measured, Observed, Concluded, Measuring, Saving, Reserving
<1>5. QED
  BY <1>1, <1>2, <1>4

\* A checkpoint goes on.
LEMMA Saves ==
    ASSUME NEW c \in Clients, Course(c), args' = args, world' = world,
           report'[c] = report[c], git'[c] = git[c], stale'[c] = stale[c], code'[c] = code[c],
           Where(c)' = Where(c), pc'[c] \in Saving => then'[c] # "none"
    PROVE  Course(c)'
<1>1. Latest(c)' = Latest(c) /\ Succeeded(c)' = Succeeded(c)
  BY DEF Latest, Succeeded
<1>2. \A n : GoodTo(c, n)' = GoodTo(c, n)
  BY DEF GoodTo, Good, Validated
<1>3. /\ Recorded(c)' = Recorded(c) /\ DocsGone(c)' = DocsGone(c) /\ GitGone(c)' = GitGone(c)
      /\ RuntimeGone(c)' = RuntimeGone(c)
  BY DEF Recorded, DocsGone, GitGone, RuntimeGone
<1>4. Measured(c)'
  BY <1>1, <1>2 DEF Course, Measured
<1>5. Observed(c)'
  BY <1>1, <1>3 DEF Course, Observed
<1>6. Concluded(c)'
  BY <1>1, <1>2 DEF Course, Concluded, Earned
<1>7. QED
  BY <1>4, <1>5, <1>6 DEF Course

\* The work goes on under the same world.
LEMMA Follows ==
    ASSUME NEW c \in Clients, Observed(c), args' = args, world' = world,
           git'[c] = git[c], stale'[c] = stale[c],
           \/ Where(c)' \in Measuring /\ Where(c) \in Measuring
           \/ Where(c)' = "git" /\ Where(c) = "inputs" /\ ~DocsGone(c)
           \/ Where(c)' = "runtime" /\ Where(c) = "git" /\ ~GitGone(c)
    PROVE  Observed(c)'
<1>1. /\ Recorded(c)' = Recorded(c) /\ DocsGone(c)' = DocsGone(c) /\ GitGone(c)' = GitGone(c)
      /\ RuntimeGone(c)' = RuntimeGone(c)
  BY DEF Recorded, DocsGone, GitGone, RuntimeGone
<1>2. QED
  BY <1>1 DEF Observed, Measuring, Reserving

LEMMA GoodStays ==
    ASSUME NEW c \in Clients, NEW n, args' = args, GoodTo(c, n),
           \A b \in 1 .. n : report'[c].blocks[b] = report[c].blocks[b]
    PROVE  GoodTo(c, n)'
BY DEF GoodTo, Good, Validated

LEMMA NotYet ==
    ASSUME NEW c \in Clients, Course(c), Where(c) \in Measuring \cup {"collect", "git", "runtime"}
    PROVE  ~Succeeded(c) /\ code[c] # 0 /\ report[c].by = c
BY DEF Course, Concluded, Measuring
------------------------------------------------------------------------------
(* The steps of a client keep every course. *)

LEMMA CourseTypes == CourseInv => TypeOK /\ FsTypeOK
BY FsTypes DEF CourseInv

LEMMA Moves ==
    ASSUME CourseInv, NEW c \in Clients, args' = args, world' = world,
           ClientEdits(c), alone' \in [Clients -> BOOLEAN], FsTypeOK', Writes(c),
           Succeeded(c) => report'[c] = report[c],
           Course(c)'
    PROVE  CourseInv'
<1>1. TypeOK' /\ OthersSame(c)
  BY Edited, CourseTypes
<1>2. QED
  BY <1>1, CourseStep

LEMMA LosesWrites == \A c : Loses => Writes(c)
BY DEF Loses, Writes

LEMMA NotStale ==
    ASSUME NEW c \in Clients, Course(c), pc[c] \in Reserving
    PROVE  ~stale[c]
BY DEF Course, Observed, Where, Saving, Reserving

\* On the way to the claim nothing is concluded.
LEMMA Underway ==
    ASSUME NEW c \in Clients, TypeOK, Course(c), pc[c] \notin Saving \cup {"over", "dead"}
    PROVE  ~Succeeded(c) /\ code[c] # 0
<1>1. pc[c] # "exit"
  BY DEF TypeOK, Labels
<1>2. QED
  BY <1>1 DEF Course, Concluded, Where

LEMMA IdleSteps ==
    ASSUME CourseInv, NEW c \in Clients, UNCHANGED fsvars, UNCHANGED <<then, args, report, git, stale, world>>,
           alone' = alone, NEW l, pc' = [pc EXCEPT ![c] = l],
           \/ l \in {"over", "dead"}
           \/ pc[c] = "parse" /\ l = "open",
           fd' \in {fd, [fd EXCEPT ![c] = NoInode]},
           \E n \in {1, 2} : code' \in {code, [code EXCEPT ![c] = n]}
    PROVE  CourseInv'
<1>1. TypeOK /\ FsTypeOK
  BY CourseTypes
<1>2. Edits(pc', pc, c, Labels) /\ pc'[c] = l
  <2>1. l \in Labels
    BY DEF Labels
  <2>2. QED
    BY <1>1, <2>1, StepEdits
<1>3. Edits(fd', fd, c, Files)
  <2>1. NoInode \in Files
    BY DEF Files
  <2>2. fd' = [fd EXCEPT ![c] = NoInode] => Edits(fd', fd, c, Files)
    BY <1>1, <2>1, StepEdits
  <2>3. QED
    BY <1>1, <2>2, TypedEdits
<1>4. Edits(code', code, c, Statuses) /\ code'[c] \in {code[c], 1, 2}
  <2>1. PICK n \in {1, 2} : code' \in {code, [code EXCEPT ![c] = n]}
    OBVIOUS
  <2>2. n \in Statuses
    BY DEF Statuses
  <2>3. code' = [code EXCEPT ![c] = n] => Edits(code', code, c, Statuses) /\ code'[c] = n
    BY <1>1, <2>2, StepEdits
  <2>4. code' = code => Edits(code', code, c, Statuses)
    BY <1>1, TypedEdits
  <2>5. QED
    BY <2>1, <2>3, <2>4
<1>5. ClientEdits(c) /\ alone' \in [Clients -> BOOLEAN]
  BY <1>1, <1>2, <1>3, <1>4, TypedEdits DEF ClientEdits
<1>6. FsTypeOK' /\ Writes(c)
  BY <1>1, Untouched, LosesWrites
<1>7. Course(c)'
  <2>1. Course(c)
    BY DEF CourseInv
  <2>2. l = "open" => ~Succeeded(c) /\ ~stale[c]
    BY <1>1, <2>1, Underway, NotStale DEF Saving, Reserving
  <2>3. QED
    BY <2>1, <2>2, <1>2, <1>4, Idles
<1>8. QED
  BY <1>5, <1>6, <1>7, Moves

LEMMA KeepsParse ==
    ASSUME CourseInv, NEW c \in Clients, Parse(c), world' = world
    PROVE  CourseInv'
<1>1. CASE ArgumentsAccepted(args[c], Docs)
  <2>1. pc' = [pc EXCEPT ![c] = "open"] /\ code' = code
    BY <1>1 DEF Parse, Goto
  <2>2. QED
    BY <2>1, IdleSteps DEF Parse
<1>2. CASE ~ArgumentsAccepted(args[c], Docs)
  <2>1. pc' = [pc EXCEPT ![c] = "over"] /\ code' = [code EXCEPT ![c] = 2]
    BY <1>2 DEF Parse, Exit, Goto
  <2>2. QED
    BY <2>1, IdleSteps DEF Parse
<1>3. QED
  BY <1>1, <1>2

LEMMA KeepsIdle ==
    ASSUME CourseInv, NEW c \in Clients,
           \/ Taken(c) /\ world' = world
           \/ ReserveFails(c) /\ world' = world
           \/ Kill(c)
    PROVE  CourseInv'
<1>1. CASE Taken(c) /\ world' = world
  BY <1>1, IdleSteps DEF Taken, Exit, Goto
<1>2. CASE ReserveFails(c) /\ world' = world
  BY <1>2, IdleSteps DEF ReserveFails, Exit, Goto
<1>3. CASE Kill(c)
  BY <1>3, IdleSteps DEF Kill, Goto
<1>4. QED
  BY <1>1, <1>2, <1>3
------------------------------------------------------------------------------
LEMMA KeepsOpen ==
    ASSUME CourseInv, NEW c \in Clients, Open(c), world' = world
    PROVE  CourseInv'
<1>1. TypeOK /\ FsTypeOK
  BY CourseTypes
<1>2. /\ FsTypeOK' /\ \E i \in Inodes : Edits(fd', fd, c, Files) /\ fd'[c] = i
      /\ \A j \in Inodes : Contents(j)' \subseteq Contents(j) \cup {Blank}
  <2>1. CASE /\ Unused(Held) # {}
             /\ Create(Out, FreshInode(Held)) /\ fd' = [fd EXCEPT ![c] = FreshInode(Held)]
    <3>1. PICK i : i = FreshInode(Held)
      OBVIOUS
    <3>2. i \in Inodes /\ Create(Out, i) /\ fd' = [fd EXCEPT ![c] = i]
      BY <2>1, <3>1, Fresh
    <3>3. CreateAs(Out, i, Blank, {Blank}) /\ Blank \in Texts /\ {Blank} \in SUBSET Texts /\ Out \in Names
      BY <3>2, Words DEF Create, Texts
    <3>4. /\ FsTypeOK' /\ data'[i] = Blank /\ safe'[i] = {Blank}
          /\ \A j \in Inodes : j # i => data'[j] = data[j] /\ safe'[j] = safe[j]
      BY <1>1, <3>2, <3>3, CreateEffect
    <3>5. \A j \in Inodes : Contents(j)' \subseteq Contents(j) \cup {Blank}
      BY <3>2, <3>4 DEF Contents
    <3>6. Edits(fd', fd, c, Files) /\ fd'[c] = i
      <4>1. i \in Files
        BY <3>2 DEF Files
      <4>2. QED
        BY <1>1, <3>2, <4>1, StepEdits
    <3>7. QED
      BY <3>2, <3>4, <3>5, <3>6
  <2>2. CASE Exists(Out) /\ Truncate(Out) /\ fd' = [fd EXCEPT ![c] = dir[Out]]
    <3>1. PICK i : i = dir[Out]
      OBVIOUS
    <3>2. i \in Inodes /\ Out \in Names
      BY <1>1, <2>2, <3>1, Words DEF Exists, FsTypeOK
    <3>3. /\ FsTypeOK' /\ data'[i] = Blank /\ safe'[i] = safe[i] \cup {Blank}
          /\ \A j \in Inodes : j # i => data'[j] = data[j] /\ safe'[j] = safe[j]
      BY <1>1, <2>2, <3>1, <3>2, TruncateEffect
    <3>4. \A j \in Inodes : Contents(j)' \subseteq Contents(j) \cup {Blank}
      BY <3>2, <3>3 DEF Contents
    <3>5. Edits(fd', fd, c, Files) /\ fd'[c] = i
      <4>1. i \in Files
        BY <3>2 DEF Files
      <4>2. QED
        BY <1>1, <2>2, <3>1, <4>1, StepEdits
    <3>6. QED
      BY <3>2, <3>3, <3>4, <3>5
  <2>3. QED
    BY <2>1, <2>2 DEF Open, Held
<1>3. Edits(pc', pc, c, Labels) /\ pc'[c] = "fill"
  <2>1. "fill" \in Labels /\ pc' = [pc EXCEPT ![c] = "fill"]
    BY DEF Labels, Open, Goto
  <2>2. QED
    BY <1>1, <2>1, StepEdits
<1>4. ClientEdits(c)
  BY <1>1, <1>2, <1>3, TypedEdits DEF ClientEdits, Open
<1>5. alone' \in [Clients -> BOOLEAN]
  BY <1>1 DEF Open, TypeOK, Active, Ended
<1>6. Writes(c)
  BY <1>2, Words DEF Writes
<1>7. Course(c)'
  <2>1. Course(c) /\ ~Succeeded(c) /\ ~stale[c]
    BY <1>1, Underway, NotStale DEF CourseInv, Open, Saving, Reserving
  <2>2. QED
    BY <2>1, <1>3, Idles DEF Open
<1>8. QED
  BY <1>2, <1>4, <1>5, <1>6, <1>7, Moves DEF Open

LEMMA KeepsFill ==
    ASSUME CourseInv, NEW c \in Clients, Fill(c), world' = world
    PROVE  CourseInv'
<1>1. TypeOK /\ FsTypeOK
  BY CourseTypes
<1>2. PICK i \in Files : i = fd[c]
  BY <1>1 DEF TypeOK, Files
<1>3. PICK r : r = Starting(c, "reserved") /\ r \in Reports /\ r.by = c /\ r.status = "reserved"
  BY NewReport
<1>4. WriteFile(i, r)
  BY <1>2, <1>3 DEF Fill, Starting
<1>5. /\ FsTypeOK'
      /\ \A j \in Inodes : j = i => data'[j] = r /\ safe'[j] = safe[j] \cup {r, Torn}
      /\ \A j \in Inodes : j # i => data'[j] = data[j] /\ safe'[j] = safe[j]
  BY <1>1, <1>3, <1>4, WriteEffect DEF Files, Texts
<1>6. Writes(c)
  <2>1. \A j \in Inodes : Contents(j)' \subseteq Contents(j) \cup {r, Torn}
    BY <1>5 DEF Contents
  <2>2. QED
    BY <2>1, <1>3, Words DEF Writes
<1>7. Edits(pc', pc, c, Labels) /\ pc'[c] = "flush"
  <2>1. "flush" \in Labels /\ pc' = [pc EXCEPT ![c] = "flush"]
    BY DEF Labels, Fill, Goto
  <2>2. QED
    BY <1>1, <2>1, StepEdits
<1>8. ClientEdits(c) /\ alone' \in [Clients -> BOOLEAN]
  BY <1>1, <1>7, TypedEdits DEF ClientEdits, Fill
<1>9. Course(c)'
  <2>1. Course(c) /\ ~Succeeded(c) /\ ~stale[c]
    BY <1>1, Underway, NotStale DEF CourseInv, Fill, Saving, Reserving
  <2>2. QED
    BY <2>1, <1>7, Idles DEF Fill
<1>10. QED
  BY <1>5, <1>6, <1>8, <1>9, Moves DEF Fill

LEMMA KeepsFlush ==
    ASSUME CourseInv, NEW c \in Clients, Flush(c), world' = world
    PROVE  CourseInv'
<1>1. TypeOK /\ FsTypeOK
  BY CourseTypes
<1>2. PICK i \in Files : i = fd[c]
  BY <1>1 DEF TypeOK, Files
<1>3. /\ FsTypeOK' /\ data' = data
      /\ \A j \in Inodes : j = i => safe'[j] = {data[j]}
      /\ \A j \in Inodes : j # i => safe'[j] = safe[j]
  BY <1>1, <1>2, SyncFileEffect DEF Files, Flush
<1>4. Writes(c)
  BY <1>3 DEF Writes, Contents
<1>5. Edits(pc', pc, c, Labels) /\ pc'[c] = "claim" /\ Edits(fd', fd, c, Files)
  <2>1. /\ "claim" \in Labels /\ pc' = [pc EXCEPT ![c] = "claim"]
        /\ NoInode \in Files /\ fd' = [fd EXCEPT ![c] = NoInode]
    BY DEF Labels, Files, Flush, Goto
  <2>2. QED
    BY <1>1, <2>1, StepEdits
<1>6. ClientEdits(c) /\ alone' \in [Clients -> BOOLEAN]
  BY <1>1, <1>5, TypedEdits DEF ClientEdits, Flush
<1>7. Course(c)'
  <2>1. Course(c) /\ ~Succeeded(c) /\ ~stale[c]
    BY <1>1, Underway, NotStale DEF CourseInv, Flush, Saving, Reserving
  <2>2. QED
    BY <2>1, <1>5, Idles DEF Flush
<1>8. QED
  BY <1>3, <1>4, <1>6, <1>7, Moves DEF Flush

LEMMA KeepsClaim ==
    ASSUME CourseInv, NEW c \in Clients, Claim(c), world' = world
    PROVE  CourseInv'
<1>1. TypeOK /\ FsTypeOK
  BY CourseTypes
<1>2. PICK r : r = Starting(c, "running") /\ r \in Reports /\ r.by = c /\ r.status = "running" /\ r.blocks = <<>>
  BY NewReport
<1>3. /\ Edits(pc', pc, c, Labels) /\ pc'[c] = "collect"
      /\ Edits(report', report, c, Reports) /\ report'[c] = r
  <2>1. /\ "collect" \in Labels /\ pc' = [pc EXCEPT ![c] = "collect"]
        /\ report' = [report EXCEPT ![c] = r]
    BY <1>2 DEF Labels, Claim, Goto, Starting
  <2>2. QED
    BY <1>1, <1>2, <2>1, StepEdits
<1>4. ClientEdits(c) /\ alone' \in [Clients -> BOOLEAN]
  BY <1>1, <1>3, TypedEdits DEF ClientEdits, Claim
<1>5. FsTypeOK' /\ Writes(c)
  BY <1>1, SyncDirEffect DEF Claim, Writes, Contents
<1>6. ~Succeeded(c) /\ code[c] # 0 /\ ~stale[c]
  BY <1>1, Underway, NotStale DEF CourseInv, Claim, Saving, Reserving
<1>7. Course(c)'
  <2>1. Where(c)' = "collect" /\ ~Succeeded(c)'
    BY <1>2, <1>3 DEF Where, Saving, Succeeded
  <2>2. code'[c] # 0 /\ ~stale'[c]
    BY <1>6 DEF Claim
  <2>3. Latest(c)' = 0
    BY <1>2, <1>3 DEF Latest
  <2>4. QED
    BY <2>1, <2>2, <2>3, <1>2, <1>3 DEF Course, Measured, Observed, Concluded, Measuring, Saving, Reserving
<1>8. QED
  BY <1>4, <1>5, <1>6, <1>7, Moves DEF Claim
------------------------------------------------------------------------------
(* The work: nothing is written, and the client goes on or raises. *)

LEMMA GivenTypes ==
    ASSUME Given, NEW c \in Clients
    PROVE  /\ args[c].codes \subseteq Codes /\ args[c].mishaps \subseteq Disturbances
           /\ args[c].commit \in Nat /\ args[c].runtime \in Nat
BY BenchAssumption DEF Given

LEMMA WorldTypes ==
    TypeOK => /\ world.docs \in 1 .. Len(Bundles) /\ world.docs \in Nat /\ Len(Bundles) \in Nat
              /\ world.commit \in Nat /\ world.runtime \in Nat
              /\ world.dirty \in BOOLEAN /\ world.checkout \in BOOLEAN
BY BenchAssumption DEF TypeOK

LEMMA Works ==
    ASSUME CourseInv, NEW c \in Clients, Unchanged(c), world' = world, ~Succeeded(c),
           Edits(pc', pc, c, Labels), Edits(then', then, c, Thens),
           Edits(report', report, c, Reports), Edits(git', git, c, Checkouts),
           Edits(code', code, c, Statuses), Edits(stale', stale, c, Flags),
           Course(c)'
    PROVE  CourseInv'
<1>1. TypeOK /\ FsTypeOK
  BY CourseTypes
<1>2. ClientEdits(c) /\ alone' \in [Clients -> BOOLEAN]
  BY <1>1, TypedEdits DEF ClientEdits, Unchanged
<1>3. FsTypeOK' /\ Writes(c)
  BY <1>1, Untouched, LosesWrites DEF Unchanged
<1>4. QED
  BY <1>2, <1>3, Moves DEF Unchanged

LEMMA AtWork ==
    ASSUME NEW c \in Clients, Course(c), pc[c] \in Measuring \cup {"collect", "git", "runtime"}
    PROVE  /\ Where(c) = pc[c] /\ ~Succeeded(c) /\ code[c] # 0 /\ report[c].by = c
<1>1. Where(c) = pc[c]
  BY DEF Where, Saving, Measuring
<1>2. QED
  BY <1>1, NotYet

LEMMA KeepsRaise ==
    ASSUME CourseInv, NEW c \in Clients, Unchanged(c), world' = world, NEW n \in {1, 2}, Raise(c, n),
           Edits(git', git, c, Checkouts), Edits(stale', stale, c, Flags),
           pc[c] \in Measuring \cup {"collect", "git", "runtime"}
    PROVE  CourseInv'
<1>1. TypeOK /\ Course(c) /\ ~Succeeded(c) /\ report[c].by = c
  BY AtWork DEF CourseInv
<1>2. QED
  BY <1>1, Raises, Works

\* What the client compares with its record, or what it lost of it.
LEMMA Compared ==
    ASSUME TypeOK, NEW c \in Clients, Given, Recorded(c)
    PROVE  /\ GitState(args[c]) # git[c] => GitGone(c)
           /\ ~GitRefused(args[c]) /\ GitState(args[c]) = git[c] => ~GitGone(c)
<1>1. /\ git[c] \in [commit : Nat, eligible : BOOLEAN, dirty : BOOLEAN]
      /\ world.commit \in Nat /\ world.dirty \in BOOLEAN /\ world.checkout \in BOOLEAN
      /\ args[c].commit \in Nat
  BY WorldTypes, GivenTypes DEF TypeOK
<1>2. ASSUME ~GitGone(c)
      PROVE  GitState(args[c]) = git[c]
  <2>1. GitState(args[c]).commit = git[c].commit
    BY <1>1, <1>2 DEF GitState, GitGone, Recorded, DetectedCommit, NoCommit
  <2>2. GitState(args[c]).dirty = git[c].dirty
    BY <1>1, <1>2 DEF GitState, GitGone, Recorded
  <2>3. GitState(args[c]).eligible = git[c].eligible
    BY <1>1, <1>2 DEF GitState, GitGone, Recorded
  <2>4. GitState(args[c]) = [commit |-> GitState(args[c]).commit, dirty |-> GitState(args[c]).dirty,
                             eligible |-> GitState(args[c]).eligible]
    BY DEF GitState
  <2>5. git[c] = [commit |-> git[c].commit, dirty |-> git[c].dirty, eligible |-> git[c].eligible]
    BY <1>1
  <2>6. QED
    BY <2>1, <2>2, <2>3, <2>4, <2>5
<1>3. ASSUME ~GitRefused(args[c]), GitState(args[c]) = git[c]
      PROVE  ~GitGone(c)
  <2>1. world.checkout => git[c].commit = world.commit /\ (git[c].dirty <=> world.dirty)
    BY <1>1, <1>3 DEF GitState, GitRefused, DetectedCommit
  <2>2. QED
    BY <1>1, <2>1 DEF GitGone
<1>4. QED
  BY <1>2, <1>3

LEMMA Lost ==
    ASSUME TypeOK, NEW c \in Clients, Given, Recorded(c), ~AsRecorded(c)
    PROVE  DocsGone(c) \/ GitGone(c) \/ RuntimeGone(c)
<1>1. ~BoundInputsHold(args[c], Docs) => DocsGone(c)
  BY DEF DocsGone, BoundTo, Docs
<1>2. world.runtime # args[c].runtime => RuntimeGone(c)
  BY WorldTypes, GivenTypes DEF Recorded, RuntimeGone
<1>3. QED
  BY <1>1, <1>2, Compared DEF AsRecorded

\* A collected record is one.
LEMMA Collected ==
    ASSUME TypeOK, NEW c \in Clients, Given, BoundInputsHold(args[c], Docs), ~GitRefused(args[c]),
           world.runtime = args[c].runtime, args' = args, world' = world, git'[c] = GitState(args[c])
    PROVE  Recorded(c)' /\ GitState(args[c]) \in Checkouts
<1>1. /\ world.commit \in Nat /\ world.dirty \in BOOLEAN /\ world.checkout \in BOOLEAN
      /\ world.runtime \in Nat /\ args[c].commit \in Nat
      /\ world.docs \in 1 .. world.docs
  BY WorldTypes, GivenTypes
<1>2. PICK g : g = git'[c]
  OBVIOUS
<1>3. /\ g.commit = IF args[c].commit # NoCommit THEN args[c].commit ELSE DetectedCommit
      /\ g.dirty = (world.checkout /\ world.dirty)
      /\ g.eligible = (world.checkout /\ ~world.dirty /\ ~args[c].allowDirty)
  BY <1>2 DEF GitState
<1>4. GitState(args[c]) \in Checkouts
  BY <1>1 DEF GitState, Checkouts, DetectedCommit, NoCommit
<1>5. \E i \in 1 .. world.docs : BoundTo(args[c], i)
  BY <1>1 DEF BoundTo, Docs
<1>6. /\ args[c].commit # NoCommit => g.commit = args[c].commit
      /\ ~world.checkout => ~g.dirty /\ g.commit = args[c].commit
      /\ world.checkout => g.commit = world.commit /\ (g.dirty <=> world.dirty)
  BY <1>1, <1>3 DEF GitRefused, DetectedCommit
<1>7. g.eligible = (world.checkout /\ ~g.dirty /\ ~args[c].allowDirty)
  BY <1>1, <1>3
<1>8. Recorded(c)'
  BY <1>1, <1>2, <1>5, <1>6, <1>7 DEF Recorded
<1>9. QED
  BY <1>4, <1>8
------------------------------------------------------------------------------
\* Where a step takes the client, with or without a checkpoint.
LEMMA GoesTo ==
    ASSUME TypeOK, NEW c \in Clients, NEW l
    PROVE  /\ Save(c, l) /\ l \in {"begin", "run", "load", "judge"} =>
                  /\ Edits(pc', pc, c, Labels) /\ Edits(then', then, c, Thens)
                  /\ pc'[c] = "temp" /\ then'[c] = l /\ Where(c)' = l
           /\ Goto(c, l) /\ then' = then /\ l \in {"begin", "inputs", "git", "runtime"} =>
                  /\ Edits(pc', pc, c, Labels) /\ Edits(then', then, c, Thens)
                  /\ pc'[c] = l /\ Where(c)' = l
<1>1. ASSUME Save(c, l), l \in {"begin", "run", "load", "judge"}
      PROVE  /\ Edits(pc', pc, c, Labels) /\ Edits(then', then, c, Thens)
             /\ pc'[c] = "temp" /\ then'[c] = l
  <2>1. /\ "temp" \in Labels /\ l \in Thens
        /\ pc' = [pc EXCEPT ![c] = "temp"] /\ then' = [then EXCEPT ![c] = l]
    BY <1>1 DEF Save, Goto, Labels, Thens
  <2>2. QED
    BY <2>1, StepEdits
<1>2. ASSUME Goto(c, l), then' = then, l \in {"begin", "inputs", "git", "runtime"}
      PROVE  /\ Edits(pc', pc, c, Labels) /\ Edits(then', then, c, Thens)
             /\ pc'[c] = l
  <2>1. l \in Labels /\ pc' = [pc EXCEPT ![c] = l]
    BY <1>2 DEF Goto, Labels
  <2>2. QED
    BY <1>2, <2>1, StepEdits, TypedEdits
<1>3. QED
  BY <1>1, <1>2 DEF Where, Saving

\* The client is still at it: nothing is concluded yet.
LEMMA Unconcluded ==
    ASSUME NEW c \in Clients, code'[c] # 0, ~Succeeded(c)', report'[c].by = c,
           pc'[c] \in Saving => then'[c] # "none"
    PROVE  Concluded(c)'
BY DEF Concluded, Succeeded

LEMMA KeepsCollect ==
    ASSUME CourseInv, NEW c \in Clients, Collect(c), world' = world
    PROVE  CourseInv'
<1>1. TypeOK /\ Given /\ Course(c)
  BY DEF CourseInv
<1>2. /\ Where(c) = "collect" /\ ~Succeeded(c) /\ code[c] # 0 /\ report[c].by = c
      /\ ~stale[c] /\ Latest(c) = 0
  BY <1>1, AtWork, NotStale DEF Collect, Reserving, Course, Measured
<1>3. Edits(stale', stale, c, Flags)
  BY <1>1, TypedEdits DEF Collect
<1>4. CASE Raise(c, 2) /\ UNCHANGED git
  <2>1. Edits(git', git, c, Checkouts)
    BY <1>1, <1>4, TypedEdits
  <2>2. QED
    BY <2>1, <1>3, <1>4, KeepsRaise DEF Collect
<1>5. CASE /\ BoundInputsHold(args[c], Docs) /\ ~GitRefused(args[c])
           /\ world.runtime = args[c].runtime
           /\ git' = [git EXCEPT ![c] = GitState(args[c])]
           /\ Save(c, "begin") /\ UNCHANGED <<report, code>>
  <2>1. /\ Edits(pc', pc, c, Labels) /\ Edits(then', then, c, Thens)
        /\ pc'[c] = "temp" /\ then'[c] = "begin" /\ Where(c)' = "begin"
    BY <1>1, <1>5, GoesTo
  <2>2. Edits(report', report, c, Reports) /\ Edits(code', code, c, Statuses)
    BY <1>1, <1>5, TypedEdits
  <2>3. git'[c] = GitState(args[c])
    BY <1>5 DEF CourseInv, TypeOK
  <2>4. Recorded(c)' /\ GitState(args[c]) \in Checkouts
    BY <1>1, <1>5, <2>3, Collected DEF Collect, Unchanged
  <2>5. Edits(git', git, c, Checkouts)
    BY <1>1, <1>5, <2>4, StepEdits
  <2>6. Observed(c)'
    BY <1>2, <2>1, <2>4 DEF Observed, Collect, Reserving
  <2>7. Concluded(c)'
    BY <1>2, <1>5, <2>1, Unconcluded DEF Succeeded
  <2>8. Measured(c)'
    BY <1>2, <1>5, <2>1 DEF Measured, GoodTo, Latest
  <2>9. QED
    BY <1>2, <1>3, <2>1, <2>2, <2>5, <2>6, <2>7, <2>8, Works DEF Collect, Course
<1>6. QED
  BY <1>4, <1>5 DEF Collect

LEMMA KeepsBegin ==
    ASSUME CourseInv, NEW c \in Clients, Begin(c), world' = world
    PROVE  CourseInv'
<1>1. TypeOK /\ Course(c)
  BY DEF CourseInv
<1>2. /\ Where(c) = "begin" /\ ~Succeeded(c) /\ code[c] # 0 /\ report[c].by = c
      /\ GoodTo(c, Latest(c))
  BY <1>1, AtWork DEF Begin, Measuring, Course, Measured
<1>3. /\ Edits(stale', stale, c, Flags) /\ Edits(git', git, c, Checkouts)
      /\ Unchanged(c) /\ args' = args /\ git' = git /\ stale' = stale
  BY <1>1, TypedEdits DEF Begin, Unchanged
<1>4. CASE Raise(c, 2)
  BY <1>3, <1>4, KeepsRaise DEF Begin, Measuring
<1>5. CASE /\ report' = [report EXCEPT ![c].blocks = Append(@, NewBlock)]
           /\ Save(c, "run") /\ UNCHANGED code
  <2>1. /\ Edits(pc', pc, c, Labels) /\ Edits(then', then, c, Thens)
        /\ pc'[c] = "temp" /\ then'[c] = "run" /\ Where(c)' = "run"
    BY <1>1, <1>5, GoesTo
  <2>2. report' = [report EXCEPT ![c] = WithNext(c)]
    BY <1>1, <1>5 DEF WithNext, TypeOK
  <2>3. PICK r : r = WithNext(c)
    OBVIOUS
  <2>4. /\ r \in Reports /\ r.by = c /\ r.status = report[c].status
        /\ Latest(c) \in Nat /\ Len(r.blocks) = Latest(c) + 1
        /\ \A b \in 1 .. Latest(c) : r.blocks[b] = report[c].blocks[b]
    BY <1>1, <1>2, <2>3, NextReport
  <2>5. Edits(report', report, c, Reports) /\ report'[c] = r /\ Edits(code', code, c, Statuses)
    <3>1. r \in Reports /\ report' = [report EXCEPT ![c] = r]
      BY <2>2, <2>3, <2>4
    <3>2. QED
      BY <1>1, <1>5, <3>1, StepEdits, TypedEdits
  <2>6. Latest(c)' > 0 /\ GoodTo(c, Latest(c) - 1)'
    <3>1. PICK n : n = Latest(c)
      OBVIOUS
    <3>2. Latest(c)' = n + 1
      BY <2>4, <2>5, <3>1 DEF Latest
    <3>3. GoodTo(c, n)'
      BY <1>2, <1>3, <2>4, <2>5, <3>1, GoodStays
    <3>4. QED
      BY <2>4, <3>1, <3>2, <3>3
  <2>8. Observed(c)'
    BY <1>1, <1>2, <1>3, <2>1, Follows DEF Course, Measuring
  <2>9. Concluded(c)'
    BY <1>2, <1>5, <2>1, <2>4, <2>5, Unconcluded DEF Succeeded
  <2>10. QED
    BY <1>2, <1>3, <2>1, <2>5, <2>6, <2>8, <2>9, Works DEF Course, Measured
<1>6. CASE Latest(c) = args[c].blocks /\ Goto(c, "inputs") /\ UNCHANGED <<then, report, code>>
  <2>1. /\ Edits(pc', pc, c, Labels) /\ Edits(then', then, c, Thens)
        /\ pc'[c] = "inputs" /\ Where(c)' = "inputs"
    BY <1>1, <1>6, GoesTo
  <2>2. Edits(report', report, c, Reports) /\ Edits(code', code, c, Statuses)
    BY <1>1, <1>6, TypedEdits
  <2>3. Latest(c)' = Latest(c) /\ GoodTo(c, Latest(c))'
    BY <1>2, <1>3, <1>6 DEF Latest, GoodTo, Good, Validated
  <2>4. Observed(c)'
    BY <1>1, <1>2, <1>3, <2>1, Follows DEF Course, Measuring
  <2>5. Concluded(c)'
    BY <1>2, <1>6, <2>1, Unconcluded DEF Succeeded, Saving
  <2>6. QED
    BY <1>2, <1>3, <1>6, <2>1, <2>2, <2>3, <2>4, <2>5, Works DEF Course, Measured
<1>7. QED
  BY <1>4, <1>5, <1>6 DEF Begin
------------------------------------------------------------------------------
\* A step that edits the block it is at.
LEMMA BlockEdits ==
    ASSUME TypeOK, NEW c \in Clients, Latest(c) > 0, NEW block \in Blocks, EditBlock(c, block),
           args' = args, GoodTo(c, Latest(c) - 1)
    PROVE  /\ Edits(report', report, c, Reports)
           /\ report'[c].by = report[c].by /\ report'[c].status = report[c].status
           /\ Latest(c)' = Latest(c) /\ report'[c].blocks[Latest(c)] = block
           /\ GoodTo(c, Latest(c) - 1)'
<1>1. PICK r : r = WithBlock(c, block)
  OBVIOUS
<1>2. PICK n : n = Latest(c)
  OBVIOUS
<1>3. /\ r \in Reports /\ r.by = report[c].by /\ r.status = report[c].status
      /\ Len(r.blocks) = n /\ r.blocks[n] = block
      /\ \A b \in 1 .. (n - 1) : r.blocks[b] = report[c].blocks[b]
  BY <1>1, <1>2, BlockReport
<1>4. report' = [report EXCEPT ![c] = r]
  BY <1>1, EditEffect
<1>5. Edits(report', report, c, Reports) /\ report'[c] = r
  BY <1>3, <1>4, StepEdits
<1>6. Latest(c)' = n
  BY <1>3, <1>5 DEF Latest
<1>7. GoodTo(c, n - 1)'
  BY <1>2, <1>3, <1>5, GoodStays
<1>8. QED
  BY <1>2, <1>3, <1>5, <1>6, <1>7

LEMMA KeepsRun ==
    ASSUME CourseInv, NEW c \in Clients, Run(c), world' = world
    PROVE  CourseInv'
<1>1. TypeOK /\ Given /\ Course(c)
  BY DEF CourseInv
<1>2. /\ Where(c) = "run" /\ ~Succeeded(c) /\ code[c] # 0 /\ report[c].by = c
      /\ Latest(c) > 0 /\ GoodTo(c, Latest(c) - 1)
      /\ Recorded(c) /\ (stale[c] => DocsGone(c) \/ GitGone(c) \/ RuntimeGone(c))
  BY <1>1, AtWork DEF Run, Measuring, Course, Measured, Observed
<1>3. Edits(git', git, c, Checkouts) /\ Unchanged(c) /\ args' = args /\ git' = git
  BY <1>1, TypedEdits DEF Run, Unchanged
<1>4. PICK late \in Flags : late = (stale[c] \/ ~AsRecorded(c))
  BY DEF Flags
<1>5. Edits(stale', stale, c, Flags) /\ stale'[c] = late
  <2>1. stale' = [stale EXCEPT ![c] = late]
    BY <1>4 DEF Run
  <2>2. QED
    BY <1>1, <2>1, StepEdits
<1>6. stale'[c] => DocsGone(c) \/ GitGone(c) \/ RuntimeGone(c)
  BY <1>1, <1>2, <1>4, <1>5, Lost
<1>7. PICK outcome \in args[c].codes :
          \/ /\ outcome \in {"cannotRun", "interrupt"}
             /\ Raise(c, IF outcome = "interrupt" THEN 1 ELSE 2)
          \/ /\ outcome \in {"ok", "error", "noFile"}
             /\ EditBlock(c, [NewBlock EXCEPT !.code = outcome])
             /\ Save(c, "load") /\ UNCHANGED code
  BY DEF Run
<1>8. CASE \E n \in {1, 2} : Raise(c, n)
  BY <1>3, <1>5, <1>8, KeepsRaise DEF Run, Measuring
<1>9. CASE /\ EditBlock(c, [NewBlock EXCEPT !.code = outcome])
           /\ Save(c, "load") /\ UNCHANGED code
  <2>1. /\ Edits(pc', pc, c, Labels) /\ Edits(then', then, c, Thens)
        /\ pc'[c] = "temp" /\ then'[c] = "load" /\ Where(c)' = "load"
    BY <1>1, <1>9, GoesTo
  <2>2. Edits(code', code, c, Statuses)
    BY <1>1, <1>9, TypedEdits
  <2>3. PICK block \in Blocks : block = [NewBlock EXCEPT !.code = outcome]
    <3>1. outcome \in Codes
      BY <1>1, <1>7, GivenTypes
    <3>2. QED
      BY <3>1 DEF NewBlock, Blocks, Disturbances
  <2>4. /\ Edits(report', report, c, Reports)
        /\ report'[c].by = c /\ report'[c].status = report[c].status
        /\ Latest(c)' = Latest(c) /\ GoodTo(c, Latest(c) - 1)'
    BY <1>1, <1>2, <1>3, <1>9, <2>3, BlockEdits
  <2>5. Recorded(c)' /\ (stale'[c] => (DocsGone(c) \/ GitGone(c) \/ RuntimeGone(c))')
    BY <1>2, <1>3, <1>6 DEF Recorded, DocsGone, GitGone, RuntimeGone
  <2>6. Observed(c)'
    BY <2>1, <2>5 DEF Observed, Reserving
  <2>7. Concluded(c)'
    BY <1>2, <1>9, <2>1, <2>4, Unconcluded DEF Succeeded
  <2>8. Measured(c)'
    BY <1>2, <2>1, <2>4 DEF Measured
  <2>9. QED
    BY <1>2, <1>3, <1>5, <2>1, <2>2, <2>4, <2>6, <2>7, <2>8, Works DEF Course
<1>10. QED
  BY <1>7, <1>8, <1>9

LEMMA KeepsLoad ==
    ASSUME CourseInv, NEW c \in Clients, Load(c), world' = world
    PROVE  CourseInv'
<1>1. TypeOK /\ Given /\ Course(c)
  BY DEF CourseInv
<1>2. /\ Where(c) = "load" /\ ~Succeeded(c) /\ code[c] # 0 /\ report[c].by = c
      /\ Latest(c) > 0 /\ GoodTo(c, Latest(c) - 1)
  BY <1>1, AtWork DEF Load, Measuring, Course, Measured
<1>3. /\ Edits(git', git, c, Checkouts) /\ Edits(stale', stale, c, Flags)
      /\ Unchanged(c) /\ args' = args /\ git' = git /\ stale' = stale
  BY <1>1, TypedEdits DEF Load, Unchanged
<1>4. CASE Raise(c, 2)
  BY <1>3, <1>4, KeepsRaise DEF Load, Measuring
<1>5. CASE /\ \E d \in args[c].mishaps : EditBlock(c, [report[c].blocks[Latest(c)] EXCEPT !.raw = d])
           /\ Save(c, "judge") /\ UNCHANGED code
  <2>1. /\ Edits(pc', pc, c, Labels) /\ Edits(then', then, c, Thens)
        /\ pc'[c] = "temp" /\ then'[c] = "judge" /\ Where(c)' = "judge"
    BY <1>1, <1>5, GoesTo
  <2>2. Edits(code', code, c, Statuses)
    BY <1>1, <1>5, TypedEdits
  <2>3. PICK d \in args[c].mishaps : EditBlock(c, [report[c].blocks[Latest(c)] EXCEPT !.raw = d])
    BY <1>5
  <2>4. PICK block : block = [report[c].blocks[Latest(c)] EXCEPT !.raw = d]
    OBVIOUS
  <2>5. block \in Blocks /\ block.raw = d
    <3>1. d \in Disturbances
      BY <1>1, <2>3, GivenTypes
    <3>2. report[c].blocks[Latest(c)] \in Blocks
      BY <1>1, <1>2 DEF TypeOK, Reports, Latest
    <3>3. QED
      BY <2>4, <3>1, <3>2 DEF Blocks
  <2>6. /\ Edits(report', report, c, Reports)
        /\ report'[c].by = c /\ report'[c].status = report[c].status
        /\ Latest(c)' = Latest(c) /\ report'[c].blocks[Latest(c)] = block
        /\ GoodTo(c, Latest(c) - 1)'
    BY <1>1, <1>2, <1>3, <2>3, <2>4, <2>5, BlockEdits
  <2>7. report'[c].blocks[Latest(c)'].raw \in args'[c].mishaps
    BY <1>3, <2>3, <2>5, <2>6
  <2>8. Observed(c)'
    BY <1>1, <1>2, <1>3, <2>1, Follows DEF Course, Measuring
  <2>9. Concluded(c)'
    BY <1>2, <1>5, <2>1, <2>6, Unconcluded DEF Succeeded
  <2>10. Measured(c)'
    BY <1>2, <2>1, <2>6, <2>7 DEF Measured
  <2>11. QED
    BY <1>2, <1>3, <2>1, <2>2, <2>6, <2>8, <2>9, <2>10, Works DEF Course
<1>6. QED
  BY <1>4, <1>5 DEF Load

LEMMA KeepsJudge ==
    ASSUME CourseInv, NEW c \in Clients, Judge(c), world' = world
    PROVE  CourseInv'
<1>1. TypeOK /\ Given /\ Course(c)
  BY DEF CourseInv
<1>2. /\ Where(c) = "judge" /\ ~Succeeded(c) /\ code[c] # 0 /\ report[c].by = c
      /\ Latest(c) > 0 /\ GoodTo(c, Latest(c) - 1)
      /\ report[c].blocks[Latest(c)].raw \in args[c].mishaps
  BY <1>1, AtWork DEF Judge, Measuring, Course, Measured
<1>3. /\ Edits(git', git, c, Checkouts) /\ Edits(stale', stale, c, Flags)
      /\ Unchanged(c) /\ args' = args /\ git' = git /\ stale' = stale
  BY <1>1, TypedEdits DEF Judge, Unchanged
<1>4. CASE Raise(c, 2)
  BY <1>3, <1>4, KeepsRaise DEF Judge, Measuring
<1>5. CASE /\ Validated(c, Latest(c))
           /\ EditBlock(c, [report[c].blocks[Latest(c)] EXCEPT !.status = "success"])
           /\ Goto(c, "begin") /\ UNCHANGED <<then, code>>
  <2>1. /\ Edits(pc', pc, c, Labels) /\ Edits(then', then, c, Thens)
        /\ pc'[c] = "begin" /\ Where(c)' = "begin"
    BY <1>1, <1>5, GoesTo
  <2>2. Edits(code', code, c, Statuses)
    BY <1>1, <1>5, TypedEdits
  <2>3. PICK block : block = [report[c].blocks[Latest(c)] EXCEPT !.status = "success"]
    OBVIOUS
  <2>4. /\ block \in Blocks /\ block.status = "success"
        /\ block.raw = report[c].blocks[Latest(c)].raw
    <3>1. report[c].blocks[Latest(c)] \in Blocks
      BY <1>1, <1>2 DEF TypeOK, Reports, Latest
    <3>2. QED
      BY <2>3, <3>1 DEF Blocks
  <2>5. /\ Edits(report', report, c, Reports)
        /\ report'[c].by = c /\ report'[c].status = report[c].status
        /\ Latest(c)' = Latest(c) /\ report'[c].blocks[Latest(c)] = block
        /\ GoodTo(c, Latest(c) - 1)'
    BY <1>1, <1>2, <1>3, <1>5, <2>3, <2>4, BlockEdits
  <2>6. GoodTo(c, Latest(c))'
    <3>1. PICK n \in Nat : n = Latest(c)
      BY <1>1 DEF TypeOK, Reports, Latest
    <3>2. Good(c, n)'
      BY <1>2, <1>3, <1>5, <2>4, <2>5, <3>1 DEF Good, Validated
    <3>3. GoodTo(c, n - 1)' /\ Latest(c)' = n
      BY <2>5, <3>1
    <3>4. GoodTo(c, n)'
      BY <3>1, <3>2, <3>3 DEF GoodTo
    <3>5. QED
      BY <3>3, <3>4
  <2>7. Observed(c)'
    BY <1>1, <1>2, <1>3, <2>1, Follows DEF Course, Measuring
  <2>8. Concluded(c)'
    BY <1>2, <1>5, <2>1, <2>5, Unconcluded DEF Succeeded, Saving
  <2>9. Measured(c)'
    BY <2>1, <2>6 DEF Measured
  <2>10. QED
    BY <1>2, <1>3, <2>1, <2>2, <2>5, <2>7, <2>8, <2>9, Works DEF Course
<1>6. QED
  BY <1>4, <1>5 DEF Judge, Validated
------------------------------------------------------------------------------
\* A check that passes.
LEMMA KeepsPass ==
    ASSUME CourseInv, NEW c \in Clients, Unchanged(c), world' = world, NEW l, Goto(c, l),
           UNCHANGED <<then, report, code, git, stale>>,
           \/ pc[c] = "inputs" /\ l = "git" /\ ~DocsGone(c)
           \/ pc[c] = "git" /\ l = "runtime" /\ ~GitGone(c)
    PROVE  CourseInv'
<1>1. TypeOK /\ Course(c)
  BY DEF CourseInv
<1>2. /\ Where(c) = pc[c] /\ ~Succeeded(c) /\ code[c] # 0 /\ report[c].by = c
      /\ Latest(c) = args[c].blocks /\ GoodTo(c, Latest(c))
  BY <1>1, AtWork DEF Measuring, Course, Measured
<1>3. /\ Edits(pc', pc, c, Labels) /\ Edits(then', then, c, Thens)
      /\ pc'[c] = l /\ Where(c)' = l
  BY <1>1, GoesTo
<1>4. /\ Edits(report', report, c, Reports) /\ Edits(git', git, c, Checkouts)
      /\ Edits(code', code, c, Statuses) /\ Edits(stale', stale, c, Flags)
  BY <1>1, TypedEdits
<1>5. args' = args
  BY DEF Unchanged
<1>6. Measured(c)'
  <2>1. Latest(c)' = Latest(c) /\ GoodTo(c, Latest(c))'
    BY <1>2, <1>5 DEF Latest, GoodTo, Good, Validated
  <2>2. QED
    BY <1>2, <1>3, <1>5, <2>1 DEF Measured
<1>7. Observed(c)'
  BY <1>1, <1>2, <1>3, <1>5, Follows DEF Course
<1>8. Concluded(c)'
  BY <1>2, <1>3, Unconcluded DEF Succeeded, Saving
<1>9. QED
  BY <1>2, <1>3, <1>4, <1>6, <1>7, <1>8, Works DEF Course

LEMMA KeepsChecks ==
    ASSUME CourseInv, NEW c \in Clients, CheckInputs(c) \/ CheckGit(c), world' = world
    PROVE  CourseInv'
<1>1. TypeOK /\ Given /\ Course(c)
  BY DEF CourseInv
<1>2. pc[c] \in {"inputs", "git"} /\ Unchanged(c) /\ UNCHANGED <<git, stale>>
  BY DEF CheckInputs, CheckGit
<1>3. Edits(git', git, c, Checkouts) /\ Edits(stale', stale, c, Flags)
  BY <1>1, <1>2, TypedEdits
<1>4. CASE Raise(c, 2)
  BY <1>2, <1>3, <1>4, KeepsRaise DEF Measuring
<1>5. CASE CheckInputs(c) /\ ~Raise(c, 2)
  <2>1. /\ pc[c] = "inputs" /\ ~DocsGone(c) /\ Goto(c, "git") /\ UNCHANGED <<then, report, code>>
    BY <1>5 DEF CheckInputs, DocsGone, BoundTo, Docs
  <2>2. QED
    BY <1>2, <2>1, KeepsPass
<1>6. CASE CheckGit(c) /\ ~Raise(c, 2)
  <2>1. /\ pc[c] = "git" /\ ~GitRefused(args[c]) /\ GitState(args[c]) = git[c]
        /\ Goto(c, "runtime") /\ UNCHANGED <<then, report, code>>
    BY <1>6 DEF CheckGit
  <2>2. Recorded(c)
    <3>1. Where(c) = "git"
      BY <1>1, <2>1, AtWork
    <3>2. QED
      BY <1>1, <3>1 DEF Course, Observed
  <2>3. ~GitGone(c)
    BY <1>1, <2>1, <2>2, Compared
  <2>4. QED
    BY <1>2, <2>1, <2>3, KeepsPass
<1>7. QED
  BY <1>4, <1>5, <1>6

\* The last comparison: what was recorded has been there throughout.
LEMMA KeepsConclude ==
    ASSUME CourseInv, NEW c \in Clients, Conclude(c), world' = world
    PROVE  CourseInv'
<1>1. TypeOK /\ Given /\ Course(c)
  BY DEF CourseInv
<1>2. /\ Where(c) = "runtime" /\ ~Succeeded(c) /\ code[c] # 0 /\ report[c].by = c
      /\ Latest(c) = args[c].blocks /\ GoodTo(c, Latest(c))
      /\ Recorded(c) /\ (stale[c] => RuntimeGone(c))
  BY <1>1, AtWork DEF Conclude, Measuring, Course, Measured, Observed
<1>3. /\ Edits(git', git, c, Checkouts) /\ Edits(stale', stale, c, Flags)
      /\ Unchanged(c) /\ args' = args /\ git' = git /\ stale' = stale
  BY <1>1, TypedEdits DEF Conclude, Unchanged
<1>4. CASE Raise(c, 2)
  BY <1>3, <1>4, KeepsRaise DEF Conclude
<1>5. CASE /\ world.runtime = args[c].runtime
           /\ report' = [report EXCEPT ![c].status = "success", ![c].eligible = git[c].eligible]
           /\ code' = [code EXCEPT ![c] = 0] /\ Save(c, "exit")
  <2>1. PICK r : r = Success(c)
    OBVIOUS
  <2>2. /\ r \in Reports /\ r.by = c /\ r.status = "success"
        /\ r.blocks = report[c].blocks /\ r.eligible = git[c].eligible
    BY <1>1, <1>2, <2>1, SuccessReport
  <2>3. report' = [report EXCEPT ![c] = r]
    BY <1>1, <1>5, <2>1 DEF Success, TypeOK
  <2>4. /\ Edits(pc', pc, c, Labels) /\ pc'[c] = "temp"
        /\ Edits(then', then, c, Thens) /\ then'[c] = "exit"
        /\ Edits(report', report, c, Reports) /\ report'[c] = r
        /\ Edits(code', code, c, Statuses) /\ code'[c] = 0
    <3>1. "temp" \in Labels /\ "exit" \in Thens /\ 0 \in Statuses
      BY DEF Labels, Thens, Statuses
    <3>2. /\ pc' = [pc EXCEPT ![c] = "temp"] /\ then' = [then EXCEPT ![c] = "exit"]
          /\ code' = [code EXCEPT ![c] = 0]
      BY <1>5 DEF Save, Goto
    <3>3. r \in Reports
      BY <2>2
    <3>4. QED
      BY <1>1, <2>3, <3>1, <3>2, <3>3, StepEdits
  <2>5. Where(c)' = "exit" /\ Succeeded(c)'
    BY <2>2, <2>4 DEF Where, Saving, Succeeded
  <2>6. ~stale[c]
    BY <1>1, <1>2, <1>5, WorldTypes, GivenTypes DEF RuntimeGone
  <2>7. Latest(c)' = Latest(c) /\ GoodTo(c, Latest(c))'
    BY <1>2, <1>3, <2>2, <2>4 DEF Latest, GoodTo, Good, Validated
  <2>8. git[c].eligible => ~git[c].dirty
    BY <1>2 DEF Recorded
  <2>9. Earned(c)'
    BY <1>2, <1>3, <2>2, <2>4, <2>6, <2>7, <2>8 DEF Earned
  <2>10. Course(c)'
    BY <2>2, <2>4, <2>5, <2>9 DEF Course, Measured, Observed, Concluded, Measuring, Reserving
  <2>11. QED
    BY <1>2, <1>3, <2>4, <2>10, Works
<1>6. QED
  BY <1>4, <1>5 DEF Conclude
------------------------------------------------------------------------------
(* A checkpoint keeps every course. *)

LEMMA WhileSaving ==
    ASSUME TypeOK, NEW c \in Clients, Course(c), pc[c] \in Saving
    PROVE  /\ Where(c) = then[c] /\ then[c] \in {"begin", "run", "load", "judge", "exit"}
           /\ report[c].by = c /\ (then[c] # "exit" => ~Succeeded(c))
<1>1. Where(c) = then[c]
  BY DEF Where
<1>2. then[c] \in {"begin", "run", "load", "judge", "exit"}
  BY DEF Course, Concluded, TypeOK
<1>3. QED
  BY <1>1, <1>2 DEF Course, Concluded, Measuring

LEMMA KeepsSave ==
    ASSUME CourseInv, NEW c \in Clients, world' = world, UNCHANGED <<args, fd, report, git, stale, alone>>,
           FsTypeOK', Writes(c), NEW l, Goto(c, l), UNCHANGED <<then, code>>, pc[c] \in Saving,
           \/ l \in Saving
           \/ l = IF then[c] = "exit" THEN "over" ELSE then[c]
    PROVE  CourseInv'
<1>1. TypeOK /\ Course(c)
  BY DEF CourseInv
<1>2. /\ Where(c) = then[c] /\ then[c] \in {"begin", "run", "load", "judge", "exit"}
  BY <1>1, WhileSaving
<1>3. Edits(pc', pc, c, Labels) /\ pc'[c] = l
  <2>1. l \in Labels /\ pc' = [pc EXCEPT ![c] = l]
    BY <1>2 DEF Goto, Labels, Saving
  <2>2. QED
    BY <1>1, <2>1, StepEdits
<1>4. ClientEdits(c) /\ alone' \in [Clients -> BOOLEAN]
  BY <1>1, <1>3, TypedEdits DEF ClientEdits
<1>5. Course(c)'
  <2>1. CASE l \in Saving
    <3>1. Where(c)' = Where(c)
      BY <1>2, <1>3, <2>1 DEF Where
    <3>2. QED
      BY <1>1, <1>2, <3>1, Saves
  <2>2. CASE then[c] # "exit" /\ l = then[c]
    <3>1. Where(c)' = Where(c) /\ pc'[c] \notin Saving
      BY <1>2, <1>3, <2>2 DEF Where, Saving
    <3>2. QED
      BY <1>1, <3>1, Saves
  <2>3. CASE l = "over"
    BY <1>1, <1>3, <2>3, Idles
  <2>4. QED
    BY <2>1, <2>2, <2>3
<1>6. QED
  BY <1>4, <1>5, Moves

LEMMA KeepsCheckpoint ==
    ASSUME CourseInv, NEW c \in Clients, Checkpoint(c), world' = world
    PROVE  CourseInv'
<1>1. TypeOK /\ FsTypeOK /\ Course(c)
  BY CourseTypes DEF CourseInv
<1>2. UNCHANGED <<args, fd, report, git, stale, alone>>
  BY DEF Checkpoint
<1>3. CASE SaveTemp(c)
  <2>1. PICK i : i = FreshInode(Held)
    OBVIOUS
  <2>2. PICK r : r = report[c]
    OBVIOUS
  <2>3. r \in Reports /\ r.by = c /\ report'[c] = r
    BY <1>1, <1>2, <1>3, <2>2, WhileSaving DEF TypeOK, SaveTemp, Saving
  <2>4. i \in Inodes /\ CreateAs(c, i, r, {Blank, Torn, r})
    <3>1. i \in Inodes
      BY <1>3, <2>1, Fresh DEF SaveTemp, Held
    <3>2. QED
      BY <1>3, <2>1, <2>2, <3>1 DEF SaveTemp, Held, CreateFilled
  <2>5. r \in Texts /\ {Blank, Torn, r} \in SUBSET Texts /\ c \in Names
    BY <2>3, Words DEF Texts
  <2>6. /\ FsTypeOK' /\ data'[i] = r /\ safe'[i] = {Blank, Torn, r}
        /\ \A j \in Inodes : j # i => data'[j] = data[j] /\ safe'[j] = safe[j]
    BY <1>1, <2>4, <2>5, CreateEffect
  <2>7. Writes(c)
    <3>1. \A j \in Inodes : Contents(j)' \subseteq Contents(j) \cup {Blank, Torn, r}
      BY <2>6 DEF Contents
    <3>2. QED
      BY <2>3, <3>1, Words DEF Writes
  <2>8. pc[c] = "temp" /\ Goto(c, "fsync") /\ UNCHANGED <<then, code>>
    BY <1>3 DEF SaveTemp
  <2>9. QED
    BY <1>2, <2>6, <2>7, <2>8, KeepsSave DEF Saving
<1>4. CASE SaveSync(c)
  <2>1. PICK i \in Files : i = dir[c]
    BY <1>1, Words DEF FsTypeOK, Files
  <2>2. /\ FsTypeOK' /\ data' = data
        /\ \A j \in Inodes : j = i => safe'[j] = {data[j]}
        /\ \A j \in Inodes : j # i => safe'[j] = safe[j]
    BY <1>1, <1>4, <2>1, SyncFileEffect DEF Files, SaveSync
  <2>3. Writes(c)
    BY <2>2 DEF Writes, Contents
  <2>4. pc[c] = "fsync" /\ Goto(c, "replace") /\ UNCHANGED <<then, code>>
    BY <1>4 DEF SaveSync
  <2>5. QED
    BY <1>2, <2>2, <2>3, <2>4, KeepsSave DEF Saving
<1>5. CASE SaveReplace(c)
  <2>1. FsTypeOK' /\ data' = data /\ safe' = safe
    BY <1>1, <1>5, Words, ReplaceEffect DEF SaveReplace
  <2>2. Writes(c)
    BY <2>1 DEF Writes, Contents
  <2>3. pc[c] = "replace" /\ Goto(c, "settle") /\ UNCHANGED <<then, code>>
    BY <1>5 DEF SaveReplace
  <2>4. QED
    BY <1>2, <2>1, <2>2, <2>3, KeepsSave DEF Saving
<1>6. CASE SaveSettle(c)
  <2>1. FsTypeOK' /\ data' = data /\ safe' = safe
    BY <1>1, <1>6, SyncDirEffect DEF SaveSettle
  <2>2. Writes(c)
    BY <2>1 DEF Writes, Contents
  <2>3. /\ pc[c] = "settle" /\ UNCHANGED <<then, code>>
        /\ Goto(c, IF then[c] = "exit" THEN "over" ELSE then[c])
    BY <1>6 DEF SaveSettle
  <2>4. QED
    BY <1>2, <2>1, <2>2, <2>3, KeepsSave DEF Saving
<1>7. QED
  BY <1>3, <1>4, <1>5, <1>6 DEF Checkpoint

LEMMA KeepsSaveFails ==
    ASSUME CourseInv, NEW c \in Clients, SaveFails(c), world' = world
    PROVE  CourseInv'
<1>1. TypeOK /\ FsTypeOK /\ Course(c) /\ pc[c] \in Saving
  BY CourseTypes DEF CourseInv, SaveFails, Saving
<1>2. UNCHANGED <<args, fd, git, stale, alone>>
  BY DEF SaveFails
<1>3. /\ Where(c) = then[c] /\ report[c].by = c
      /\ then[c] # "exit" => ~Succeeded(c)
  BY <1>1, WhileSaving
<1>4. FsTypeOK' /\ Writes(c)
  <2>1. CASE UNCHANGED fsvars
    BY <1>1, <2>1, Untouched, LosesWrites
  <2>2. CASE Unlink(c)
    <3>1. FsTypeOK' /\ data' = data /\ safe' = safe
      BY <1>1, <2>2, Words, UnlinkEffect
    <3>2. QED
      BY <3>1 DEF Writes, Contents
  <2>3. QED
    BY <2>1, <2>2 DEF SaveFails
<1>5. CASE Exit(c, 1) /\ UNCHANGED <<then, report>>
  <2>1. Edits(pc', pc, c, Labels) /\ pc'[c] = "over" /\ Edits(code', code, c, Statuses) /\ code'[c] = 1
    <3>1. "over" \in Labels /\ 1 \in Statuses
      BY DEF Labels, Statuses
    <3>2. QED
      BY <1>1, <1>5, <3>1, StepEdits DEF Exit, Goto
  <2>2. ClientEdits(c) /\ alone' \in [Clients -> BOOLEAN]
    BY <1>1, <1>2, <1>5, <2>1, TypedEdits DEF ClientEdits
  <2>3. Course(c)'
    BY <1>1, <1>2, <1>5, <2>1, Idles
  <2>4. QED
    BY <1>2, <1>4, <1>5, <2>2, <2>3, Moves
<1>6. CASE then[c] # "exit" /\ Raise(c, 1)
  <2>1. /\ Edits(pc', pc, c, Labels) /\ Edits(then', then, c, Thens)
        /\ Edits(report', report, c, Reports) /\ Edits(code', code, c, Statuses)
        /\ Course(c)'
    BY <1>1, <1>3, <1>6, Raises
  <2>2. ClientEdits(c) /\ alone' \in [Clients -> BOOLEAN]
    BY <1>1, <1>2, <2>1, TypedEdits DEF ClientEdits
  <2>3. QED
    BY <1>2, <1>3, <1>4, <1>6, <2>1, <2>2, Moves
<1>7. QED
  BY <1>5, <1>6 DEF SaveFails
------------------------------------------------------------------------------
(* The surroundings, and every step. *)

\* What a client lost stays lost.
LEMMA WorldMovesOn ==
    ASSUME TypeOK, Given, Change, NEW c \in Clients, Recorded(c)
    PROVE  /\ Recorded(c)'
           /\ DocsGone(c) => DocsGone(c)'
           /\ GitGone(c) => GitGone(c)'
           /\ RuntimeGone(c) => RuntimeGone(c)'
<1>1. /\ world.docs \in 1 .. Len(Bundles) /\ Len(Bundles) \in Nat /\ world.docs \in Nat
      /\ world.commit \in Nat /\ world.runtime \in Nat
      /\ world.dirty \in BOOLEAN /\ world.checkout \in BOOLEAN
      /\ world \in [docs : DOMAIN Bundles, commit : Nat, dirty : BOOLEAN, checkout : BOOLEAN, runtime : Nat]
      /\ args[c].runtime \in Nat /\ git[c].commit \in Nat
  BY WorldTypes, GivenTypes DEF TypeOK
<1>2. args' = args /\ git' = git
  BY DEF Change, client
<1>3. CASE world.docs < Len(Bundles) /\ world' = [world EXCEPT !.docs = @ + 1]
  <2>1. /\ world'.docs = world.docs + 1 /\ world'.commit = world.commit /\ world'.dirty = world.dirty
        /\ world'.checkout = world.checkout /\ world'.runtime = world.runtime
    BY <1>1, <1>3
  <2>2. Recorded(c)'
    BY <1>1, <1>2, <2>1 DEF Recorded
  <2>3. DocsGone(c) => DocsGone(c)'
    <3>1. SUFFICES ASSUME ~BoundTo(args[c], world.docs), BoundTo(args[c], world.docs + 1)
                   PROVE  FALSE
      BY <1>2, <2>1 DEF DocsGone
    <3>2. PICK i \in 1 .. world.docs : BoundTo(args[c], i)
      BY DEF Recorded
    <3>3. i < world.docs
      BY <1>1, <3>1, <3>2
    <3>4. /\ i \in DOMAIN Bundles /\ world.docs \in DOMAIN Bundles /\ world.docs + 1 \in DOMAIN Bundles
          /\ world.docs < world.docs + 1
      BY <1>1, <1>3, BenchAssumption
    <3>5. BoundTo(args[c], world.docs)
      <4>1. PICK s \in Scenarios : args = s.args
        BY DEF Given
      <4>2. \A a, b, k \in DOMAIN Bundles :
                a < b /\ b < k /\ BoundTo(s.args[c], a) /\ BoundTo(s.args[c], k) => BoundTo(s.args[c], b)
        BY BenchAssumption
      <4>3. QED
        BY <3>1, <3>2, <3>3, <3>4, <4>1, <4>2
    <3>6. QED
      BY <3>1, <3>5
  <2>4. QED
    BY <1>2, <2>1, <2>2, <2>3 DEF GitGone, RuntimeGone
<1>4. CASE world' = [world EXCEPT !.runtime = @ + 1]
  <2>1. /\ world'.runtime = world.runtime + 1 /\ world'.commit = world.commit /\ world'.dirty = world.dirty
        /\ world'.checkout = world.checkout /\ world'.docs = world.docs
    BY <1>1, <1>4
  <2>2. QED
    BY <1>1, <1>2, <2>1 DEF Recorded, DocsGone, GitGone, RuntimeGone
<1>5. CASE world.checkout /\ world' = [world EXCEPT !.commit = @ + 1, !.dirty = FALSE]
  <2>1. /\ world'.commit = world.commit + 1 /\ world'.dirty = FALSE /\ world'.runtime = world.runtime
        /\ world'.checkout = world.checkout /\ world'.docs = world.docs
    BY <1>1, <1>5
  <2>2. QED
    BY <1>1, <1>2, <1>5, <2>1 DEF Recorded, DocsGone, GitGone, RuntimeGone
<1>6. CASE world.checkout /\ ~world.dirty /\ world' = [world EXCEPT !.dirty = TRUE]
  <2>1. /\ world'.dirty = TRUE /\ world'.commit = world.commit /\ world'.runtime = world.runtime
        /\ world'.checkout = world.checkout /\ world'.docs = world.docs
    BY <1>1, <1>6
  <2>2. QED
    BY <1>1, <1>2, <1>6, <2>1 DEF Recorded, DocsGone, GitGone, RuntimeGone
<1>7. QED
  BY <1>3, <1>4, <1>5, <1>6 DEF Change

LEMMA KeepsChange == CourseInv /\ Change => CourseInv'
<1> SUFFICES ASSUME CourseInv, Change
             PROVE  CourseInv'
  OBVIOUS
<1>1. TypeOK /\ Given /\ Written /\ UNCHANGED <<fsvars, client>>
  BY DEF CourseInv, Change
<1>2. Written' /\ Given'
  BY <1>1 DEF Written, Given, Contents, Succeeded, fsvars, client
<1>3. TypeOK'
  <2>1. world' \in [docs : DOMAIN Bundles, commit : Nat, dirty : BOOLEAN, checkout : BOOLEAN, runtime : Nat]
    <3>1. /\ world \in [docs : DOMAIN Bundles, commit : Nat, dirty : BOOLEAN, checkout : BOOLEAN, runtime : Nat]
          /\ world.docs \in Nat /\ Len(Bundles) \in Nat /\ DOMAIN Bundles = 1 .. Len(Bundles)
      BY <1>1, WorldTypes, BenchAssumption DEF TypeOK
    <3>2. CASE world.docs < Len(Bundles) /\ world' = [world EXCEPT !.docs = @ + 1]
      <4>1. world.docs + 1 \in DOMAIN Bundles
        BY <3>1, <3>2
      <4>2. QED
        BY <3>1, <3>2, <4>1
    <3>3. CASE world' = [world EXCEPT !.runtime = @ + 1]
      BY <3>1, <3>3
    <3>4. CASE world' = [world EXCEPT !.commit = @ + 1, !.dirty = FALSE]
      <4>1. world' = [docs |-> world.docs, commit |-> world.commit + 1, dirty |-> FALSE,
                      checkout |-> world.checkout, runtime |-> world.runtime]
        BY <3>1, <3>4
      <4>2. world.commit + 1 \in Nat
        BY <3>1
      <4>3. QED
        BY <3>1, <4>1, <4>2
    <3>5. CASE world' = [world EXCEPT !.dirty = TRUE]
      BY <3>1, <3>5
    <3>6. QED
      BY <3>2, <3>3, <3>4, <3>5 DEF Change
  <2>2. QED
    BY <1>1, <2>1 DEF TypeOK, fsvars, client
<1>4. ASSUME NEW c \in Clients
      PROVE  Course(c)'
  <2>1. Course(c)
    BY DEF CourseInv
  <2>2. /\ Where(c)' = Where(c) /\ Latest(c)' = Latest(c) /\ Succeeded(c)' = Succeeded(c)
        /\ report' = report /\ args' = args /\ git' = git /\ stale' = stale /\ code' = code
        /\ pc' = pc /\ then' = then
    BY <1>1 DEF client, Where, Latest, Succeeded
  <2>3. \A n : GoodTo(c, n)' = GoodTo(c, n)
    BY <2>2 DEF GoodTo, Good, Validated
  <2>4. Measured(c)' /\ Concluded(c)'
    BY <2>1, <2>2, <2>3 DEF Course, Measured, Concluded, Earned
  <2>5. Observed(c)'
    <3>1. Recorded(c) => /\ Recorded(c)'
                         /\ DocsGone(c) => DocsGone(c)'
                         /\ GitGone(c) => GitGone(c)'
                         /\ RuntimeGone(c) => RuntimeGone(c)'
      BY <1>1, WorldMovesOn
    <3>2. QED
      BY <2>1, <2>2, <3>1 DEF Course, Observed
  <2>6. QED
    BY <2>4, <2>5 DEF Course
<1>5. QED
  BY <1>2, <1>3, <1>4 DEF CourseInv

LEMMA KeepsCrash == CourseInv /\ Crash => CourseInv'
<1> SUFFICES ASSUME CourseInv, Crash
             PROVE  CourseInv'
  OBVIOUS
<1>1. TypeOK /\ FsTypeOK /\ Given /\ Written
  BY CourseTypes DEF CourseInv
<1>2. UNCHANGED <<then, args, report, git, code, stale, alone, world>>
  BY DEF Crash
<1>3. /\ FsTypeOK'
      /\ \A i \in Inodes : data'[i] \in Contents(i) /\ safe'[i] = {data'[i]}
  BY <1>1, CrashEffect DEF Crash
<1>4. Written' /\ Given'
  <2>1. \A i \in Inodes : Contents(i)' \subseteq Contents(i)
    BY <1>3 DEF Contents
  <2>2. QED
    BY <1>1, <1>2, <2>1 DEF Written, Given, Succeeded
<1>5. \A c \in Clients : pc'[c] = IF Active(c) THEN "dead" ELSE pc[c]
  BY DEF Crash
<1>6. TypeOK'
  <2>1. pc' \in [Clients -> Labels]
    BY <1>1 DEF Crash, TypeOK, Labels
  <2>2. fd' \in [Clients -> Inodes \cup {NoInode}]
    BY DEF Crash
  <2>3. QED
    BY <1>1, <1>2, <1>3, <2>1, <2>2 DEF TypeOK, FsTypeOK, Texts
<1>7. ASSUME NEW c \in Clients
      PROVE  Course(c)'
  <2>1. Course(c)
    BY DEF CourseInv
  <2>2. CASE Active(c)
    BY <1>2, <1>5, <2>1, <2>2, Idles
  <2>3. CASE ~Active(c)
    BY <1>2, <1>5, <2>1, <2>3, CourseStays
  <2>4. QED
    BY <2>2, <2>3
<1>8. QED
  BY <1>4, <1>6, <1>7 DEF CourseInv

LEMMA KeepsUnchanged == CourseInv /\ UNCHANGED vars => CourseInv'
<1> SUFFICES ASSUME CourseInv, UNCHANGED vars
             PROVE  CourseInv'
  OBVIOUS
<1>1. UNCHANGED <<dir, disk, data, safe>> /\ UNCHANGED client /\ world' = world
  BY DEF vars, fsvars
<1>2. TypeOK' /\ Given' /\ Written'
  BY <1>1 DEF CourseInv, TypeOK, Given, Written, Contents, Succeeded, client
<1>3. \A c \in Clients : Course(c)'
  BY <1>1, CourseStays DEF CourseInv, client
<1>4. QED
  BY <1>2, <1>3 DEF CourseInv

LEMMA KeepsCourse ==
    ASSUME CourseInv, [Next]_vars
    PROVE  CourseInv'
<1>1. ASSUME NEW c \in Clients, Step(c), world' = world
      PROVE  CourseInv'
  BY <1>1, KeepsParse, KeepsIdle, KeepsOpen, KeepsFill, KeepsFlush, KeepsClaim, KeepsCollect,
     KeepsBegin, KeepsRun, KeepsLoad, KeepsJudge, KeepsChecks, KeepsConclude, KeepsCheckpoint,
     KeepsSaveFails DEF Step
<1>2. QED
  BY <1>1, KeepsIdle, KeepsChange, KeepsCrash, KeepsUnchanged DEF Next

LEMMA StartsCourse == Init => CourseInv
<1> SUFFICES ASSUME Init
             PROVE  CourseInv
  OBVIOUS
<1>1. PICK s \in Scenarios : args = s.args /\ world = s.world /\ left = s.left
  BY DEF Init
<1>2. Given
  BY <1>1 DEF Given
<1>3. TypeOK
  <2>1. world \in [docs : DOMAIN Bundles, commit : Nat, dirty : BOOLEAN, checkout : BOOLEAN, runtime : Nat]
    BY <1>1, BenchAssumption
  <2>2. NoReport \in Reports
    BY DEF NoReport, Reports
  <2>3. NoGit \in [commit : Nat, eligible : BOOLEAN, dirty : BOOLEAN]
    BY DEF NoGit, NoCommit
  <2>4. FsTypeOK
    BY DEF Init, FsInit, FsTypeOK, Texts
  <2>5. QED
    BY <2>1, <2>2, <2>3, <2>4 DEF Init, TypeOK, FsTypeOK, Texts, Labels
<1>4. Written
  BY BenchAssumption DEF Init, FsInit, Written, Contents
<1>5. ASSUME NEW c \in Clients
      PROVE  Course(c)
  <2>1. Where(c) = "parse" /\ ~stale[c] /\ ~Succeeded(c) /\ code[c] = -1 /\ pc[c] = "parse"
    BY DEF Init, Where, Saving, Succeeded, NoReport
  <2>2. QED
    BY <2>1 DEF Course, Measured, Observed, Concluded, Measuring, Reserving, Saving
<1>6. QED
  BY <1>2, <1>3, <1>4, <1>5 DEF CourseInv

LEMMA CourseAlways == Spec => []CourseInv
BY StartsCourse, KeepsCourse, PTL DEF Spec

\* Every variable keeps its type, whatever the command lines, the errors and
\* the crashes.
THEOREM TypeCorrect == Spec => []TypeOK
<1>1. CourseInv => TypeOK
  BY DEF CourseInv
<1>2. QED
  BY <1>1, CourseAlways, PTL
------------------------------------------------------------------------------
(* What is read under the name, live or after a crash. *)

LEMMA Readable ==
    ASSUME TypeOK, NEW r \in OnDisk(Out) \cup {Seen(Out)}, r \notin {Absent, Blank, Torn}
    PROVE  r \in Reports /\ \E i \in Entries(Out) \cap Inodes : r \in Contents(i)
<1>1. FsTypeOK /\ Out \in Names
  BY FsTypes, Words
<1>2. CASE r = Seen(Out)
  <2>1. Exists(Out) /\ r = data[dir[Out]]
    BY <1>2 DEF Seen
  <2>2. dir[Out] \in Inodes
    BY <1>1, <2>1 DEF Exists, FsTypeOK
  <2>3. r \in Texts
    BY <1>1, <2>1, <2>2 DEF FsTypeOK
  <2>4. QED
    BY <2>1, <2>2, <2>3 DEF Entries, Contents, Texts
<1>3. CASE r \in OnDisk(Out)
  <2>1. PICK i \in disk[Out] : r \in IF i = NoInode THEN {Absent} ELSE safe[i]
    BY <1>3 DEF OnDisk
  <2>2. i # NoInode /\ r \in safe[i]
    BY <2>1
  <2>3. i \in Inodes
    BY <1>1, <2>2 DEF FsTypeOK
  <2>4. r \in Texts
    BY <1>1, <2>2, <2>3 DEF FsTypeOK
  <2>5. QED
    BY <2>2, <2>3, <2>4 DEF Entries, Contents, Texts
<1>4. QED
  BY <1>2, <1>3

LEMMA CourseEarns == GatesSound /\ CourseInv => SuccessIsEarned
<1> SUFFICES ASSUME GatesSound, CourseInv,
                    NEW r \in OnDisk(Out) \cup {Seen(Out)},
                    r \notin {Absent, Blank, Torn}, r.status = "success"
             PROVE  /\ Len(r.blocks) = args[r.by].blocks
                    /\ ~stale[r.by]
                    /\ \A b \in DOMAIN r.blocks :
                           /\ r.blocks[b].status = "success"
                           /\ Disturbed(r.blocks[b].raw, args[r.by], b)
                                  \in {TrueResult(args[r.by], b), Disturbed("terminal", args[r.by], b)}
                    /\ r.eligible => git[r.by].eligible /\ ~git[r.by].dirty
  BY DEF SuccessIsEarned
<1>1. PICK i \in Inodes : r \in Contents(i) \cap Reports
  BY Readable DEF CourseInv
<1>2. PICK c \in Clients : c = r.by /\ Succeeded(c) /\ r = report[c]
  BY <1>1 DEF CourseInv, Written
<1>3. Earned(c)
  BY <1>2 DEF CourseInv, Course, Concluded
<1>4. /\ Len(r.blocks) = args[c].blocks /\ ~stale[c]
      /\ r.eligible => git[c].eligible /\ ~git[c].dirty
      /\ GoodTo(c, Len(r.blocks))
  BY <1>2, <1>3 DEF Earned, Latest
<1>5. DOMAIN r.blocks = 1 .. Len(r.blocks)
  BY <1>1 DEF Reports
<1>6. ASSUME NEW b \in DOMAIN r.blocks
      PROVE  /\ r.blocks[b].status = "success"
             /\ Disturbed(r.blocks[b].raw, args[c], b)
                    \in {TrueResult(args[c], b), Disturbed("terminal", args[c], b)}
  <2>1. Good(c, b)
    BY <1>4, <1>5 DEF GoodTo
  <2>2. PICK d : d = r.blocks[b].raw
    OBVIOUS
  <2>3. /\ r.blocks[b].status = "success" /\ d \in args[c].mishaps
        /\ ValidateResult(Disturbed(d, args[c], b), args[c], b)
    BY <1>2, <2>1, <2>2 DEF Good, Validated
  <2>4. PICK s \in Scenarios : args = s.args
    BY DEF CourseInv, Given
  <2>5. b \in 1 .. s.args[c].blocks
    BY <1>4, <1>5, <2>4
  <2>6. QED
    BY <2>2, <2>3, <2>4, <2>5 DEF GatesSound
<1>7. QED
  BY <1>2, <1>4, <1>6

\* A report of success is whole and was measured under what it names: for any
\* clients, documents and command lines the gates are sound for.
THEOREM SuccessEarned == GatesSound => (Spec => []SuccessIsEarned)
<1>1. ASSUME GatesSound
      PROVE  CourseInv => SuccessIsEarned
  BY <1>1, CourseEarns
<1>2. ASSUME GatesSound
      PROVE  Spec => []SuccessIsEarned
  BY <1>1, <1>2, CourseAlways, PTL
<1>3. QED
  BY <1>2
------------------------------------------------------------------------------
(* Who may be read under the name. *)

\* c changes at most file i, and moves at most it.
Handles(c, i) ==
    /\ \A j \in Inodes : j # i => data'[j] = data[j] /\ safe'[j] = safe[j]
    /\ \A n \in Names : /\ n \notin {c, Out} => dir'[n] = dir[n]
                        /\ dir'[n] \in {dir[n], i, NoInode}
                        /\ disk'[n] \subseteq disk[n] \cup {dir[n], i, NoInode}
    /\ fd'[c] \in {fd[c], i, NoInode}

HoldsTemp(d) == pc[d] \in {"fsync", "replace"}

\* Only c brings a report of its own under the name.
Brings(c) ==
    \A i \in Entries(Out)' \cap Inodes : \A x \in Contents(i)' \cap Reports :
        \/ \E j \in Entries(Out) \cap Inodes : x \in Contents(j)
        \/ x.by = c /\ Active(c)

\* Every new mark is c's own.
Grows(c) == \A y \in Marks' : y \in Marks \/ (y.by = c /\ Active(c) /\ Claims(c))

LEMMA MarksStep ==
    ASSUME NEW c \in Clients, args' = args, Brings(c)
    PROVE  Grows(c)
<1> SUFFICES ASSUME NEW y \in Marks'
             PROVE  y \in Marks \/ (y.by = c /\ Active(c) /\ Claims(c))
  BY DEF Grows
<1>1. PICK i \in Entries(Out)' \cap Inodes : y \in Contents(i)' \cap Reports
  BY DEF Marks
<1>2. Claims(y.by)
  BY DEF Marks, Claims
<1>3. CASE \E j \in Entries(Out) \cap Inodes : y \in Contents(j)
  BY <1>1, <1>2, <1>3 DEF Marks
<1>4. CASE y.by = c /\ Active(c)
  BY <1>2, <1>4
<1>5. QED
  BY <1>1, <1>3, <1>4 DEF Brings

LEMMA MarkedStays ==
    ASSUME NEW c \in Clients, args' = args, Brings(c), Marked, Apart,
           \A d \in Clients : Active(d)' => Active(d)
    PROVE  Marked'
<1>1. ASSUME NEW d \in Clients, Active(d), Claims(d), NEW y \in Marks'
      PROVE  y.by = d
  <2>1. CASE y \in Marks
    BY <1>1, <2>1 DEF Marked
  <2>2. CASE y.by = c /\ Active(c) /\ Claims(c)
    BY <1>1, <2>2 DEF Apart
  <2>3. QED
    BY <2>1, <2>2, MarksStep DEF Grows
<1>2. ASSUME NEW x \in Marks', NEW y \in Marks'
      PROVE  x.by = y.by
  <2>1. CASE x \in Marks /\ y \in Marks
    BY <2>1 DEF Marked
  <2>2. CASE Active(c) /\ Claims(c)
    BY <1>1, <2>2
  <2>3. QED
    BY <2>1, <2>2, MarksStep DEF Grows
<1>3. \A d : Claims(d)' = Claims(d)
  BY DEF Claims
<1>4. QED
  BY <1>1, <1>2, <1>3 DEF Marked

LEMMA ApartStays ==
    ASSUME Apart, args' = args, \A d \in Clients : Active(d)' => Active(d),
           \A d \in Clients : alone'[d] => alone[d],
           dir'[Out] = dir[Out] \/ dir'[Out] \in Inodes,
           NoInode \notin Inodes,
           dir'[Out] = NoInode => disk'[Out] \in {disk[Out], {dir[Out]}}
    PROVE  Apart'
<1>1. \A d : Claims(d)' = Claims(d)
  BY DEF Claims
<1>2. \A d, e \in Clients : d # e /\ Active(d)' /\ Active(e)' => ~(Claims(d) /\ Claims(e))' /\ ~alone'[d]
  BY <1>1 DEF Apart
<1>3. \A d \in Clients : Active(d)' => dir'[Out] \in Inodes
  BY DEF Apart
<1>4. dir'[Out] = NoInode => disk'[Out] = {NoInode}
  BY DEF Apart
<1>5. QED
  BY <1>2, <1>3, <1>4 DEF Apart

\* Another client's temporary file is left alone.
LEMMA OthersTemp ==
    ASSUME FsTypeOK, NEW c \in Clients, OthersSame(c), NEW i, Handles(c, i),
           \A d \in Clients : d # c /\ HoldsTemp(d) => dir[d] # i,
           NEW d \in Clients, d # c, Private(d)
    PROVE  /\ Private(d)'
           /\ pc[d] = "replace" /\ safe[dir[d]] = {report[d]} => safe'[dir'[d]] = {report'[d]}
<1>1. /\ pc'[d] = pc[d] /\ report'[d] = report[d]
      /\ d # Out /\ d \in Names /\ Out \in Names
      /\ \A e \in Clients : e \in Names
  BY Words DEF OthersSame
<1>2. CASE ~HoldsTemp(d)
  BY <1>1, <1>2 DEF Private, HoldsTemp
<1>3. CASE HoldsTemp(d)
  <2>1. PICK f : f = dir[d]
    OBVIOUS
  <2>2. /\ f \in Inodes /\ f # NoInode /\ f # i /\ f # dir[Out]
        /\ \A e \in Clients : fd[e] # f /\ (e # d => dir[e] # f)
        /\ \A m \in Names : m # d => f \notin disk[m]
        /\ data[f] = report[d] /\ safe[f] \subseteq {Blank, Torn, report[d]}
    BY <1>3, <2>1, Words DEF Private, HoldsTemp
  <2>3. dir'[d] = f
    BY <1>1, <2>1 DEF Handles
  <2>4. data'[f] = data[f] /\ safe'[f] = safe[f]
    BY <2>2 DEF Handles
  <2>5. \A e \in Clients : fd'[e] # f
    BY <2>2 DEF Handles, OthersSame
  <2>6. /\ \A e \in Clients : e # d => dir'[e] # f
        /\ dir'[Out] # f
        /\ \A m \in Names : m # d => f \notin disk'[m]
    <3>1. \A m \in Names : m # d => dir[m] # f
      BY <1>1, <2>2, Words
    <3>2. \A m \in Names : m # d => dir'[m] # f /\ f \notin disk'[m]
      BY <2>2, <3>1 DEF Handles
    <3>3. QED
      BY <1>1, <3>2
  <2>7. QED
    BY <1>1, <2>1, <2>2, <2>3, <2>4, <2>5, <2>6 DEF Private
<1>4. QED
  BY <1>2, <1>3

\* A step of c that leaves the name to those who had it.
LEMMA NameStep ==
    ASSUME FilesInv, NEW c \in Clients, OthersSame(c), NEW i, Handles(c, i), Brings(c),
           \A d \in Clients : d # c /\ HoldsTemp(d) => dir[d] # i,
           Active(c)' => Active(c),
           Active(c) \/ UNCHANGED <<dir, disk, data, safe>>,
           alone' = alone,
           dir'[Out] = dir[Out] \/ dir'[Out] \in Inodes,
           dir'[Out] = NoInode => disk'[Out] \in {disk[Out], {dir[Out]}},
           Private(c)', Kept(c)'
    PROVE  NameInv' /\ Grows(c)
<1>1. TypeOK /\ FsTypeOK /\ Marked /\ Apart
  BY CourseTypes DEF FilesInv, NameInv
<1>2. /\ args' = args
      /\ \A d \in Clients : d # c => pc'[d] = pc[d]
  BY DEF OthersSame
<1>3. \A d \in Clients : Active(d)' => Active(d)
  BY <1>2 DEF Active, Ended
<1>4. Marked' /\ Apart'
  BY <1>1, <1>2, <1>3, MarkedStays, ApartStays, Words
<1>5. ASSUME NEW d \in Clients, d # c
      PROVE  Private(d)' /\ Kept(d)'
  <2>1. Private(d) /\ Kept(d)
    BY DEF FilesInv, NameInv
  <2>2. /\ Private(d)'
        /\ pc[d] = "replace" /\ safe[dir[d]] = {report[d]} => safe'[dir'[d]] = {report'[d]}
    BY <1>1, <1>5, <2>1, OthersTemp
  <2>3. pc'[d] = pc[d] /\ fd'[d] = fd[d] /\ report'[d] = report[d]
    BY <1>5 DEF OthersSame
  <2>4. ASSUME pc[d] = "settle", alone[d]
        PROVE  data'[dir'[Out]] = report[d] /\ safe'[dir'[Out]] = {report[d]}
    <3>1. ~Active(c)
      BY <1>1, <1>5, <2>4 DEF Apart, Active, Ended
    <3>2. QED
      BY <2>1, <2>4, <3>1 DEF Kept
  <2>5. Kept(d)'
    BY <2>1, <2>2, <2>3, <2>4 DEF Kept
  <2>6. QED
    BY <2>2, <2>5
<1>6. Grows(c)
  BY <1>2, MarksStep
<1>7. QED
  BY <1>4, <1>5, <1>6 DEF NameInv
------------------------------------------------------------------------------
(* The steps of a client keep the name. *)

Domains ==
    /\ DOMAIN pc = Clients /\ DOMAIN then = Clients /\ DOMAIN fd = Clients
    /\ DOMAIN report = Clients /\ DOMAIN git = Clients /\ DOMAIN code = Clients
    /\ DOMAIN stale = Clients

LEMMA DomainsHold == TypeOK => Domains
BY DEF TypeOK, Domains

\* A client only moves itself.
LEMMA StepOthers ==
    ASSUME TypeOK, NEW c \in Clients, Step(c) \/ Kill(c)
    PROVE  OthersSame(c)
<1>1. Domains
  BY DomainsHold
<1>2. ASSUME NEW n, Raise(c, n), UNCHANGED <<args, fd, git>>,
             \A d \in Clients : d # c => stale'[d] = stale[d]
      PROVE  OthersSame(c)
  BY <1>1, <1>2 DEF Domains, Raise, Save, Goto, OthersSame
<1>3. CASE Parse(c) \/ Taken(c) \/ Open(c) \/ Fill(c) \/ Flush(c) \/ Claim(c)
  <2>1. CASE Parse(c)
    BY <1>1, <2>1 DEF Domains, Parse, Goto, Exit, OthersSame
  <2>2. CASE Taken(c)
    BY <1>1, <2>2 DEF Domains, Taken, Goto, Exit, OthersSame
  <2>3. CASE Open(c)
    <3>1. /\ \E i : fd' = [fd EXCEPT ![c] = i]
          /\ pc' = [pc EXCEPT ![c] = "fill"] /\ UNCHANGED <<then, args, report, git, code, stale>>
      BY <2>3 DEF Open, Goto
    <3>2. QED
      BY <1>1, <3>1 DEF Domains, OthersSame
  <2>4. CASE Fill(c)
    BY <1>1, <2>4 DEF Domains, Fill, Goto, OthersSame
  <2>5. CASE Flush(c)
    BY <1>1, <2>5 DEF Domains, Flush, Goto, OthersSame
  <2>6. CASE Claim(c)
    BY <1>1, <2>6 DEF Domains, Claim, Goto, OthersSame
  <2>7. QED
    BY <1>3, <2>1, <2>2, <2>3, <2>4, <2>5, <2>6
<1>4. CASE Collect(c) \/ Begin(c) \/ Run(c) \/ Load(c) \/ Judge(c)
  <2>1. CASE Collect(c)
    BY <1>1, <1>2, <2>1 DEF Domains, Collect, Unchanged, Save, Goto, OthersSame
  <2>2. CASE Begin(c)
    BY <1>1, <1>2, <2>2 DEF Domains, Begin, Unchanged, Save, Goto, OthersSame
  <2>3. CASE Run(c)
    <3>1. /\ \A d \in Clients : d # c => stale'[d] = stale[d]
          /\ UNCHANGED <<args, fd, git>>
      BY <1>1, <2>3 DEF Domains, Run, Unchanged
    <3>2. CASE \E n : Raise(c, n)
      BY <1>2, <3>1, <3>2
    <3>3. CASE \E block : EditBlock(c, block) /\ Save(c, "load") /\ UNCHANGED code
      BY <1>1, <3>1, <3>3 DEF Domains, EditBlock, Save, Goto, OthersSame
    <3>4. QED
      BY <2>3, <3>2, <3>3 DEF Run
  <2>4. CASE Load(c)
    <3>1. UNCHANGED <<args, fd, git, stale>>
      BY <2>4 DEF Load, Unchanged
    <3>2. CASE \E n : Raise(c, n)
      BY <1>2, <3>1, <3>2
    <3>3. CASE \E block : EditBlock(c, block) /\ Save(c, "judge") /\ UNCHANGED code
      BY <1>1, <3>1, <3>3 DEF Domains, EditBlock, Save, Goto, OthersSame
    <3>4. QED
      BY <2>4, <3>2, <3>3 DEF Load
  <2>5. CASE Judge(c)
    <3>1. UNCHANGED <<args, fd, git, stale>>
      BY <2>5 DEF Judge, Unchanged
    <3>2. CASE \E n : Raise(c, n)
      BY <1>2, <3>1, <3>2
    <3>3. CASE \E block : EditBlock(c, block) /\ Goto(c, "begin") /\ UNCHANGED <<then, code>>
      BY <1>1, <3>1, <3>3 DEF Domains, EditBlock, Goto, OthersSame
    <3>4. QED
      BY <2>5, <3>2, <3>3 DEF Judge
  <2>6. QED
    BY <1>4, <2>1, <2>2, <2>3, <2>4, <2>5
<1>5. CASE CheckInputs(c) \/ CheckGit(c) \/ Conclude(c)
  BY <1>1, <1>2, <1>5 DEF Domains, CheckInputs, CheckGit, Conclude, Unchanged, Save, Goto, OthersSame
<1>6. CASE Checkpoint(c)
  BY <1>1, <1>6 DEF Domains, Checkpoint, SaveTemp, SaveSync, SaveReplace, SaveSettle, Goto, OthersSame
<1>7. CASE ReserveFails(c) \/ Kill(c)
  BY <1>1, <1>7 DEF Domains, ReserveFails, Kill, Exit, Goto, OthersSame
<1>8. CASE SaveFails(c)
  BY <1>1, <1>2, <1>8 DEF Domains, SaveFails, Exit, Goto, OthersSame
<1>9. QED
  BY <1>3, <1>4, <1>5, <1>6, <1>7, <1>8 DEF Step
------------------------------------------------------------------------------
\* A step that leaves the directory alone and makes no claim on a file.
LEMMA PlainStep ==
    ASSUME FilesInv, NEW c \in Clients, OthersSame(c), UNCHANGED fsvars, alone' = alone,
           Active(c)' => Active(c), fd'[c] \in {fd[c], NoInode},
           pc'[c] \notin {"fill", "flush", "fsync", "replace", "settle"}
    PROVE  NameInv' /\ Grows(c)
<1>1. UNCHANGED <<dir, disk, data, safe>>
  BY DEF fsvars
<1>2. Handles(c, NoInode)
  BY <1>1 DEF Handles
<1>3. Brings(c)
  BY <1>1 DEF Brings, Entries, Contents
<1>4. \A d \in Clients : HoldsTemp(d) => dir[d] # NoInode
  BY Words DEF FilesInv, NameInv, Private, HoldsTemp
<1>5. Private(c)' /\ Kept(c)'
  BY DEF Private, Kept
<1>6. QED
  BY <1>1, <1>2, <1>3, <1>4, <1>5, NameStep

Plain(c) ==
    \/ Parse(c) \/ Taken(c) \/ ReserveFails(c) \/ Kill(c)
    \/ Collect(c) \/ Begin(c) \/ Run(c) \/ Load(c) \/ Judge(c)
    \/ CheckInputs(c) \/ CheckGit(c) \/ Conclude(c)

LEMMA PlainSteps ==
    ASSUME FilesInv, NEW c \in Clients, OthersSame(c), Plain(c)
    PROVE  NameInv' /\ Grows(c)
<1>1. Domains
  BY DomainsHold DEF FilesInv, CourseInv
<1>2. CASE Parse(c) \/ Taken(c) \/ ReserveFails(c) \/ Kill(c)
  <2>1. /\ UNCHANGED fsvars /\ alone' = alone
        /\ fd' = fd \/ fd' = [fd EXCEPT ![c] = NoInode]
        /\ pc'[c] \in {"open", "over", "dead"}
    BY <1>1, <1>2 DEF Parse, Taken, ReserveFails, Kill, Goto, Exit, Domains
  <2>2. fd'[c] \in {fd[c], NoInode}
    BY <1>1, <2>1 DEF Domains
  <2>3. QED
    BY <2>1, <2>2, PlainStep DEF Active, Ended
<1>3. CASE \/ Collect(c) \/ Begin(c) \/ Run(c) \/ Load(c) \/ Judge(c)
           \/ CheckInputs(c) \/ CheckGit(c) \/ Conclude(c)
  <2>1. /\ UNCHANGED fsvars /\ alone' = alone /\ fd' = fd
    BY <1>3 DEF Collect, Begin, Run, Load, Judge, CheckInputs, CheckGit, Conclude, Unchanged
  <2>2. pc[c] \in Measuring \cup {"collect", "git", "runtime"}
    BY <1>3 DEF Collect, Begin, Run, Load, Judge, CheckInputs, CheckGit, Conclude, Measuring
  <2>3. Active(c)
    BY <2>2 DEF Active, Ended, Measuring
  <2>4. \A l : Goto(c, l) => pc'[c] = l
    BY <1>1 DEF Goto, Domains
  <2>5. \/ \E l : Save(c, l)
        \/ Goto(c, "inputs") \/ Goto(c, "git") \/ Goto(c, "runtime") \/ Goto(c, "begin")
    <3>1. \A n : Raise(c, n) => Save(c, "exit")
      BY DEF Raise
    <3>2. CASE Collect(c) \/ Begin(c)
      BY <3>1, <3>2 DEF Collect, Begin
    <3>3. CASE Run(c)
      BY <3>1, <3>3 DEF Run
    <3>4. CASE Load(c) \/ Judge(c)
      BY <3>1, <3>4 DEF Load, Judge
    <3>5. CASE CheckInputs(c) \/ CheckGit(c) \/ Conclude(c)
      BY <3>1, <3>5 DEF CheckInputs, CheckGit, Conclude
    <3>6. QED
      BY <1>3, <3>2, <3>3, <3>4, <3>5
  <2>6. pc'[c] \in {"temp", "inputs", "git", "runtime", "begin"}
    BY <2>4, <2>5 DEF Save
  <2>7. QED
    BY <2>1, <2>3, <2>6, PlainStep
<1>4. QED
  BY <1>2, <1>3 DEF Plain

LEMMA NameTypes ==
    ASSUME FilesInv
    PROVE  /\ TypeOK /\ FsTypeOK /\ Domains /\ Marked /\ Apart
           /\ \A c \in Clients : Private(c) /\ Kept(c)
           /\ \A c \in Clients : HoldsTemp(c) => dir[c] \in Inodes /\ dir[c] # NoInode
BY CourseTypes, DomainsHold, Words DEF FilesInv, NameInv, Private, HoldsTemp

\* A client opens the name: nobody's mark goes there, and one that claims it
\* finds it new.
LEMMA NameOpen ==
    ASSUME FilesInv, NEW c \in Clients, OthersSame(c), Open(c)
    PROVE  NameInv' /\ Grows(c)
<1>1. /\ TypeOK /\ FsTypeOK /\ Domains /\ Marked /\ Apart
      /\ \A d \in Clients : Private(d) /\ Kept(d)
      /\ \A d \in Clients : HoldsTemp(d) => dir[d] \in Inodes /\ dir[d] # NoInode
  BY NameTypes
<1>2. PICK i \in Inodes :
          /\ fd'[c] = i /\ dir'[Out] = i
          /\ \A n \in Names : n # Out => dir'[n] = dir[n] /\ disk'[n] = disk[n]
          /\ disk'[Out] \subseteq disk[Out] \cup {i}
          /\ Contents(i)' \subseteq {Blank} \/ (i = dir[Out] /\ Contents(i)' \subseteq Contents(i) \cup {Blank})
          /\ \A j \in Inodes : j # i => data'[j] = data[j] /\ safe'[j] = safe[j]
          /\ \A d \in Clients : HoldsTemp(d) => dir[d] # i
          /\ Claims(c) => dir[Out] = NoInode /\ Contents(i)' \subseteq {Blank}
  <2>1. CASE /\ ~Exists(Out) /\ Unused(Held) # {}
             /\ Create(Out, FreshInode(Held)) /\ fd' = [fd EXCEPT ![c] = FreshInode(Held)]
    <3>1. PICK i : i = FreshInode(Held)
      OBVIOUS
    <3>2. /\ i \in Inodes /\ Create(Out, i) /\ fd' = [fd EXCEPT ![c] = i]
          /\ \A n \in Names : i # dir[n]
      BY <2>1, <3>1, Fresh
    <3>3. CreateAs(Out, i, Blank, {Blank}) /\ Blank \in Texts /\ {Blank} \in SUBSET Texts /\ Out \in Names
      BY <3>2, Words DEF Create, Texts
    <3>4. /\ dir'[Out] = i /\ disk'[Out] = disk[Out] \cup {i}
          /\ data'[i] = Blank /\ safe'[i] = {Blank}
          /\ \A m \in Names : m # Out => dir'[m] = dir[m] /\ disk'[m] = disk[m]
          /\ \A j \in Inodes : j # i => data'[j] = data[j] /\ safe'[j] = safe[j]
      BY <1>1, <3>2, <3>3, CreateEffect
    <3>5. fd'[c] = i /\ dir[Out] = NoInode /\ Contents(i)' \subseteq {Blank}
      BY <1>1, <2>1, <3>2, <3>4 DEF Domains, Exists, Contents
    <3>6. \A d \in Clients : dir[d] # i
      BY <3>2, Words
    <3>7. QED
      BY <3>2, <3>4, <3>5, <3>6
  <2>2. CASE Exists(Out) /\ args[c].overwrite /\ Truncate(Out) /\ fd' = [fd EXCEPT ![c] = dir[Out]]
    <3>1. PICK i : i = dir[Out]
      OBVIOUS
    <3>2. i \in Inodes /\ Out \in Names
      BY <1>1, <2>2, <3>1, Words DEF Exists, FsTypeOK
    <3>3. /\ dir' = dir /\ disk' = disk
          /\ data'[i] = Blank /\ safe'[i] = safe[i] \cup {Blank}
          /\ \A j \in Inodes : j # i => data'[j] = data[j] /\ safe'[j] = safe[j]
      BY <1>1, <2>2, <3>1, <3>2, TruncateEffect
    <3>4. fd'[c] = i /\ Contents(i)' \subseteq Contents(i) \cup {Blank}
      BY <1>1, <2>2, <3>1, <3>3 DEF Domains, Contents
    <3>5. \A d \in Clients : HoldsTemp(d) => dir[d] # i
      BY <1>1, <3>1 DEF Private, HoldsTemp
    <3>6. ~Claims(c)
      BY <2>2 DEF Claims
    <3>7. QED
      BY <3>1, <3>2, <3>3, <3>4, <3>5, <3>6
  <2>3. QED
    BY <2>1, <2>2 DEF Open, Held
<1>3. /\ pc[c] = "open" /\ pc'[c] = "fill" /\ args' = args
      /\ \A d \in Clients : d # c => pc'[d] = pc[d]
      /\ \A d \in Clients : Active(d) => d # c
      /\ \A d \in Clients : Active(d)' => Active(d) \/ d = c
  <2>1. pc[c] = "open" /\ pc'[c] = "fill"
    BY <1>1 DEF Open, Goto, Domains
  <2>2. args' = args /\ \A d \in Clients : d # c => pc'[d] = pc[d]
    BY DEF OthersSame
  <2>3. QED
    BY <2>1, <2>2 DEF Active, Ended
<1>4. /\ alone'[c] => \A e \in Clients \ {c} : ~Active(e)
      /\ \A d \in Clients : d # c => (alone'[d] => alone[d] /\ ~Active(d))
  BY DEF Open
<1>5. \A y \in Marks' : y \in Marks /\ ~Claims(c)
  <2>1. SUFFICES ASSUME NEW y \in Marks'
                 PROVE  y \in Marks /\ ~Claims(c)
    OBVIOUS
  <2>2. PICK j \in Inodes : j \in Entries(Out)' /\ y \in Contents(j)' /\ y \in Reports /\ Claims(y.by)
    BY <1>3 DEF Marks, Claims
  <2>3. y # Blank
    BY <2>2, Words
  <2>4. CASE j = i
    <3>1. i = dir[Out] /\ y \in Contents(i) /\ ~Claims(c)
      BY <1>2, <2>2, <2>3, <2>4, Words
    <3>2. QED
      BY <2>2, <3>1 DEF Marks, Entries
  <2>5. CASE j # i
    <3>1. j \in disk[Out] /\ y \in Contents(j)
      BY <1>2, <2>2, <2>5 DEF Entries, Contents
    <3>2. ~Claims(c)
      BY <1>1, <1>2, <2>2, <3>1, Words DEF Apart
    <3>3. QED
      BY <2>2, <3>1, <3>2 DEF Marks, Entries
  <2>6. QED
    BY <2>4, <2>5
<1>6. \A d : Claims(d)' = Claims(d)
  BY <1>3 DEF Claims
<1>7. Marked'
  BY <1>1, <1>3, <1>5, <1>6 DEF Marked
<1>8. Apart'
  <2>1. ASSUME NEW d \in Clients, NEW e \in Clients, d # e, Active(d)', Active(e)'
        PROVE  ~(Claims(d) /\ Claims(e))' /\ ~alone'[d]
    <3>1. ASSUME NEW b \in Clients, Active(b)
          PROVE  ~Claims(c)
      BY <1>1, <1>2, <3>1, Words DEF Apart
    <3>2. CASE d = c
      BY <1>3, <1>4, <1>6, <2>1, <3>1, <3>2
    <3>3. CASE e = c
      BY <1>3, <1>4, <1>6, <2>1, <3>1, <3>3
    <3>4. CASE d # c /\ e # c
      BY <1>1, <1>3, <1>4, <1>6, <2>1, <3>4 DEF Apart
    <3>5. QED
      BY <3>2, <3>3, <3>4
  <2>2. dir'[Out] \in Inodes /\ dir'[Out] # NoInode
    BY <1>2, Words
  <2>3. QED
    BY <2>1, <2>2 DEF Apart
<1>9. Handles(c, i)
  BY <1>2, Words DEF Handles
<1>10. ASSUME NEW d \in Clients, d # c
       PROVE  Private(d)' /\ Kept(d)'
  <2>1. /\ Private(d)'
        /\ pc[d] = "replace" /\ safe[dir[d]] = {report[d]} => safe'[dir'[d]] = {report'[d]}
    BY <1>1, <1>2, <1>9, <1>10, OthersTemp
  <2>2. pc'[d] = pc[d] /\ fd'[d] = fd[d] /\ report'[d] = report[d]
    BY <1>10 DEF OthersSame
  <2>3. pc[d] = "settle" => ~alone'[d]
    BY <1>4, <1>10 DEF Active, Ended
  <2>4. Kept(d)'
    BY <1>1, <2>1, <2>2, <2>3 DEF Kept
  <2>5. QED
    BY <2>1, <2>4
<1>11. Private(c)' /\ Kept(c)'
  BY <1>2, <1>3 DEF Private, Kept
<1>12. Grows(c)
  BY <1>5 DEF Grows
<1>13. QED
  BY <1>7, <1>8, <1>10, <1>11, <1>12 DEF NameInv
------------------------------------------------------------------------------
\* The mark of a client that reserves the name.
LEMMA NameFill ==
    ASSUME FilesInv, NEW c \in Clients, OthersSame(c), Fill(c)
    PROVE  NameInv' /\ Grows(c)
<1>1. /\ TypeOK /\ FsTypeOK /\ Domains /\ Marked /\ Apart
      /\ \A d \in Clients : Private(d) /\ Kept(d)
      /\ \A d \in Clients : HoldsTemp(d) => dir[d] \in Inodes /\ dir[d] # NoInode
  BY NameTypes
<1>2. pc[c] = "fill" /\ pc'[c] = "flush" /\ alone' = alone /\ fd' = fd /\ Active(c)
  BY <1>1 DEF Fill, Goto, Domains, Active, Ended
<1>3. PICK i \in Inodes : i = fd[c]
  BY <1>1, <1>2 DEF Kept
<1>4. PICK r : r = Starting(c, "reserved") /\ r \in Reports /\ r.by = c
  BY NewReport
<1>5. WriteFile(i, r)
  BY <1>3, <1>4 DEF Fill, Starting
<1>6. /\ dir' = dir /\ disk' = disk
      /\ data'[i] = r /\ safe'[i] = safe[i] \cup {r, Torn}
      /\ \A j \in Inodes : j # i => data'[j] = data[j] /\ safe'[j] = safe[j]
  BY <1>1, <1>4, <1>5, WriteEffect DEF Texts
<1>7. Handles(c, i)
  BY <1>2, <1>6 DEF Handles
<1>8. Brings(c)
  <2>1. \A j \in Inodes : Contents(j)' \subseteq Contents(j) \cup {r, Torn}
    BY <1>6 DEF Contents
  <2>2. Entries(Out)' = Entries(Out)
    BY <1>6 DEF Entries
  <2>3. QED
    BY <1>2, <1>4, <2>1, <2>2, Words DEF Brings
<1>9. \A d \in Clients : d # c /\ HoldsTemp(d) => dir[d] # i
  BY <1>1, <1>3 DEF Private, HoldsTemp
<1>10. Private(c)' /\ Kept(c)'
  BY <1>2, <1>3 DEF Private, Kept
<1>11. QED
  BY <1>2, <1>6, <1>7, <1>8, <1>9, <1>10, NameStep

LEMMA NameFlush ==
    ASSUME FilesInv, NEW c \in Clients, OthersSame(c), Flush(c)
    PROVE  NameInv' /\ Grows(c)
<1>1. /\ TypeOK /\ FsTypeOK /\ Domains /\ Marked /\ Apart
      /\ \A d \in Clients : Private(d) /\ Kept(d)
      /\ \A d \in Clients : HoldsTemp(d) => dir[d] \in Inodes /\ dir[d] # NoInode
  BY NameTypes
<1>2. pc[c] = "flush" /\ pc'[c] = "claim" /\ alone' = alone /\ fd'[c] = NoInode /\ Active(c)
  BY <1>1 DEF Flush, Goto, Domains, Active, Ended
<1>3. PICK i \in Inodes : i = fd[c]
  BY <1>1, <1>2 DEF Kept
<1>4. /\ dir' = dir /\ disk' = disk /\ data' = data
      /\ safe'[i] = {data[i]}
      /\ \A j \in Inodes : j # i => safe'[j] = safe[j]
  BY <1>1, <1>3, SyncFileEffect DEF Flush
<1>5. Handles(c, i)
  BY <1>2, <1>4 DEF Handles
<1>6. Brings(c)
  BY <1>4 DEF Brings, Entries, Contents
<1>7. \A d \in Clients : d # c /\ HoldsTemp(d) => dir[d] # i
  BY <1>1, <1>3 DEF Private, HoldsTemp
<1>8. Private(c)' /\ Kept(c)'
  BY <1>2 DEF Private, Kept
<1>9. QED
  BY <1>2, <1>4, <1>5, <1>6, <1>7, <1>8, NameStep

\* The directory is synced: a name keeps the file it has.
LEMMA NameSync ==
    ASSUME FilesInv, NEW c \in Clients, OthersSame(c), SyncDir, alone' = alone, fd' = fd,
           Active(c), pc'[c] \notin {"fill", "flush", "fsync", "replace", "settle"}
    PROVE  NameInv' /\ Grows(c)
<1>1. /\ TypeOK /\ FsTypeOK /\ \A d \in Clients : HoldsTemp(d) => dir[d] # NoInode
  BY NameTypes
<1>2. dir' = dir /\ data' = data /\ safe' = safe /\ \A m \in Names : disk'[m] = {dir[m]}
  BY <1>1, SyncDirEffect
<1>3. Handles(c, NoInode)
  BY <1>2 DEF Handles
<1>4. Brings(c)
  BY <1>2, Words DEF Brings, Entries, Contents
<1>5. Private(c)' /\ Kept(c)'
  BY DEF Private, Kept
<1>6. disk'[Out] = {dir[Out]}
  BY <1>2, Words
<1>7. QED
  BY <1>1, <1>2, <1>3, <1>4, <1>5, <1>6, NameStep

\* A temporary file is new, and no name but its own leads to it.
LEMMA NameTemp ==
    ASSUME FilesInv, NEW c \in Clients, OthersSame(c), SaveTemp(c), Checkpoint(c)
    PROVE  NameInv' /\ Grows(c)
<1>1. /\ TypeOK /\ FsTypeOK /\ Domains /\ Marked /\ Apart
      /\ \A d \in Clients : Private(d) /\ Kept(d)
      /\ \A d \in Clients : HoldsTemp(d) => dir[d] \in Inodes /\ dir[d] # NoInode
  BY NameTypes
<1>2. /\ pc[c] = "temp" /\ pc'[c] = "fsync" /\ alone' = alone /\ fd' = fd /\ report' = report
      /\ Active(c) /\ c \in Names /\ c # Out /\ Out \in Names
  BY <1>1, Words DEF SaveTemp, Checkpoint, Goto, Domains, Active, Ended
<1>3. PICK i : i = FreshInode(Held)
  OBVIOUS
<1>4. /\ i \in Inodes /\ \A d \in Clients : fd[d] # i
      /\ \A n \in Names : i # dir[n] /\ i \notin disk[n]
  BY <1>3, Fresh DEF SaveTemp, Held
<1>5. PICK r : r = report[c]
  OBVIOUS
<1>6. r \in Reports /\ CreateAs(c, i, r, {Blank, Torn, r})
  BY <1>1, <1>3, <1>5 DEF SaveTemp, Held, CreateFilled, TypeOK
<1>7. r \in Texts /\ {Blank, Torn, r} \in SUBSET Texts
  BY <1>6 DEF Texts
<1>8. /\ dir'[c] = i /\ disk'[c] = disk[c] \cup {i}
      /\ data'[i] = r /\ safe'[i] = {Blank, Torn, r}
      /\ \A m \in Names : m # c => dir'[m] = dir[m] /\ disk'[m] = disk[m]
      /\ \A j \in Inodes : j # i => data'[j] = data[j] /\ safe'[j] = safe[j]
  BY <1>1, <1>2, <1>4, <1>6, <1>7, CreateEffect
<1>9. Handles(c, i)
  BY <1>2, <1>8 DEF Handles
<1>10. Brings(c)
  <2>1. Entries(Out)' = Entries(Out) /\ i \notin Entries(Out)
    BY <1>2, <1>4, <1>8 DEF Entries
  <2>2. \A j \in Inodes : j # i => Contents(j)' = Contents(j)
    BY <1>8 DEF Contents
  <2>3. QED
    BY <2>1, <2>2 DEF Brings
<1>11. \A d \in Clients : dir[d] # i
  BY <1>4, Words
<1>12. Private(c)'
  <2>1. \A d \in Clients : fd'[d] # i /\ (d # c => dir'[d] # i)
    BY <1>2, <1>4, <1>8, <1>11, Words
  <2>2. \A m \in Names : m # c => i \notin disk'[m]
    BY <1>4, <1>8
  <2>3. dir'[Out] # i
    BY <1>2, <1>4, <1>8
  <2>4. QED
    BY <1>2, <1>4, <1>5, <1>8, <2>1, <2>2, <2>3 DEF Private
<1>13. Kept(c)'
  BY <1>2 DEF Kept
<1>14. QED
  BY <1>2, <1>8, <1>9, <1>10, <1>11, <1>12, <1>13, NameStep

LEMMA NameFsync ==
    ASSUME FilesInv, NEW c \in Clients, OthersSame(c), SaveSync(c), Checkpoint(c)
    PROVE  NameInv' /\ Grows(c)
<1>1. /\ TypeOK /\ FsTypeOK /\ Domains /\ Marked /\ Apart
      /\ \A d \in Clients : Private(d) /\ Kept(d)
      /\ \A d \in Clients : HoldsTemp(d) => dir[d] \in Inodes /\ dir[d] # NoInode
  BY NameTypes
<1>2. /\ pc[c] = "fsync" /\ pc'[c] = "replace" /\ alone' = alone /\ fd' = fd /\ report' = report
      /\ Active(c) /\ HoldsTemp(c)
  BY <1>1 DEF SaveSync, Checkpoint, Goto, Domains, Active, Ended, HoldsTemp
<1>3. PICK i \in Inodes : i = dir[c]
  BY <1>1, <1>2
<1>4. /\ dir' = dir /\ disk' = disk /\ data' = data
      /\ safe'[i] = {data[i]}
      /\ \A j \in Inodes : j # i => safe'[j] = safe[j]
  BY <1>1, <1>3, SyncFileEffect DEF SaveSync
<1>5. Handles(c, i)
  BY <1>2, <1>4 DEF Handles
<1>6. Brings(c)
  BY <1>4 DEF Brings, Entries, Contents
<1>7. \A d \in Clients : d # c /\ HoldsTemp(d) => dir[d] # i
  BY <1>1, <1>2, <1>3 DEF Private, HoldsTemp
<1>8. data[i] = report[c]
  BY <1>1, <1>2, <1>3 DEF Private
<1>9. Private(c)' /\ Kept(c)'
  BY <1>1, <1>2, <1>3, <1>4, <1>8 DEF Private, Kept
<1>10. QED
  BY <1>2, <1>4, <1>5, <1>6, <1>7, <1>9, NameStep

\* The checkpoint takes the name, as it was synced.
LEMMA NameReplace ==
    ASSUME FilesInv, NEW c \in Clients, OthersSame(c), SaveReplace(c), Checkpoint(c)
    PROVE  NameInv' /\ Grows(c)
<1>1. /\ TypeOK /\ FsTypeOK /\ Domains /\ Marked /\ Apart /\ Course(c)
      /\ \A d \in Clients : Private(d) /\ Kept(d)
      /\ \A d \in Clients : HoldsTemp(d) => dir[d] \in Inodes /\ dir[d] # NoInode
  BY NameTypes DEF FilesInv, CourseInv
<1>2. /\ pc[c] = "replace" /\ pc'[c] = "settle" /\ alone' = alone /\ fd' = fd /\ report' = report
      /\ Active(c) /\ HoldsTemp(c) /\ pc[c] \in Saving
      /\ c \in Names /\ c # Out /\ Out \in Names
  BY <1>1, Words DEF SaveReplace, Checkpoint, Goto, Domains, Active, Ended, HoldsTemp, Saving
<1>3. PICK i \in Inodes : i = dir[c]
  BY <1>1, <1>2
<1>4. /\ data' = data /\ safe' = safe
      /\ dir'[Out] = i /\ disk'[Out] = disk[Out] \cup {i}
      /\ dir'[c] = NoInode /\ disk'[c] = disk[c] \cup {NoInode}
      /\ \A m \in Names : m \notin {c, Out} => dir'[m] = dir[m] /\ disk'[m] = disk[m]
  BY <1>1, <1>2, <1>3, ReplaceEffect DEF SaveReplace
<1>5. Handles(c, i)
  <2>1. \A n \in Names : /\ dir'[n] \in {dir[n], i, NoInode}
                         /\ disk'[n] \subseteq disk[n] \cup {dir[n], i, NoInode}
    BY <1>2, <1>4
  <2>2. QED
    BY <1>2, <1>4, <2>1 DEF Handles
<1>6. data[i] = report[c] /\ safe[i] = {report[c]} /\ report[c].by = c
  BY <1>1, <1>2, <1>3, WhileSaving DEF Private, Kept
<1>7. Brings(c)
  <2>1. \A j \in Inodes : Contents(j)' = Contents(j)
    BY <1>4 DEF Contents
  <2>2. \A j \in Entries(Out)' : j \in Entries(Out) \/ j = i
    BY <1>4 DEF Entries
  <2>3. \A x \in Contents(i) : x.by = c
    BY <1>6 DEF Contents
  <2>4. QED
    BY <1>2, <2>1, <2>2, <2>3 DEF Brings
<1>8. \A d \in Clients : d # c /\ HoldsTemp(d) => dir[d] # i
  BY <1>1, <1>2, <1>3 DEF Private, HoldsTemp
<1>9. Private(c)' /\ Kept(c)'
  BY <1>2, <1>4, <1>6 DEF Private, Kept
<1>10. QED
  BY <1>2, <1>4, <1>5, <1>7, <1>8, <1>9, NameStep, Words

LEMMA NameSaveFails ==
    ASSUME FilesInv, NEW c \in Clients, OthersSame(c), SaveFails(c)
    PROVE  NameInv' /\ Grows(c)
<1>1. /\ TypeOK /\ FsTypeOK /\ Domains
      /\ \A d \in Clients : HoldsTemp(d) => dir[d] \in Inodes /\ dir[d] # NoInode
  BY NameTypes
<1>2. alone' = alone /\ fd' = fd /\ Active(c) /\ c \in Names /\ c # Out /\ Out \in Names
  BY Words DEF SaveFails, Active, Ended
<1>3. pc'[c] \in {"over", "temp"}
  BY <1>1 DEF SaveFails, Exit, Raise, Save, Goto, Domains
<1>4. CASE UNCHANGED fsvars
  BY <1>2, <1>3, <1>4, PlainStep
<1>5. CASE Unlink(c)
  <2>1. /\ data' = data /\ safe' = safe
        /\ dir'[c] = NoInode /\ disk'[c] = disk[c] \cup {NoInode}
        /\ \A m \in Names : m # c => dir'[m] = dir[m] /\ disk'[m] = disk[m]
    BY <1>1, <1>2, <1>5, UnlinkEffect
  <2>2. Handles(c, NoInode)
    BY <1>2, <2>1 DEF Handles
  <2>3. Brings(c)
    BY <1>2, <2>1 DEF Brings, Entries, Contents
  <2>4. Private(c)' /\ Kept(c)'
    BY <1>3 DEF Private, Kept
  <2>5. QED
    BY <1>1, <1>2, <2>1, <2>2, <2>3, <2>4, NameStep
<1>6. QED
  BY <1>4, <1>5 DEF SaveFails
------------------------------------------------------------------------------
(* Every step keeps the name. *)

LEMMA NameClient ==
    ASSUME FilesInv, NEW c \in Clients, Step(c) \/ Kill(c)
    PROVE  NameInv' /\ Grows(c)
<1>1. OthersSame(c)
  BY StepOthers, NameTypes
<1>2. Domains
  BY NameTypes
<1>3. CASE Plain(c)
  BY <1>1, <1>3, PlainSteps
<1>4. CASE Claim(c)
  <2>1. /\ SyncDir /\ alone' = alone /\ fd' = fd /\ Active(c) /\ pc'[c] = "collect"
    BY <1>2, <1>4 DEF Claim, Goto, Domains, Active, Ended
  <2>2. QED
    BY <1>1, <2>1, NameSync
<1>5. CASE Checkpoint(c)
  <2>1. CASE SaveSettle(c)
    <3>1. /\ SyncDir /\ alone' = alone /\ fd' = fd /\ Active(c) /\ pc[c] = "settle"
          /\ pc'[c] = IF then[c] = "exit" THEN "over" ELSE then[c]
      BY <1>2, <1>5, <2>1 DEF Checkpoint, SaveSettle, Goto, Domains, Active, Ended
    <3>2. then[c] \in {"begin", "run", "load", "judge", "exit"}
      BY <3>1, WhileSaving DEF FilesInv, CourseInv, Saving
    <3>3. QED
      BY <1>1, <3>1, <3>2, NameSync
  <2>2. QED
    BY <1>1, <1>5, <2>1, NameTemp, NameFsync, NameReplace DEF Checkpoint
<1>6. QED
  BY <1>1, <1>3, <1>4, <1>5, NameOpen, NameFill, NameFlush, NameSaveFails DEF Step, Plain

LEMMA NameStays ==
    ASSUME FilesInv, UNCHANGED <<fsvars, client>>
    PROVE  NameInv'
<1>1. /\ dir' = dir /\ disk' = disk /\ data' = data /\ safe' = safe
      /\ pc' = pc /\ args' = args /\ fd' = fd /\ report' = report /\ alone' = alone
  BY DEF fsvars, client
<1>2. Marked' /\ Apart'
  <2>1. Marks' = Marks
    BY <1>1 DEF Marks, Contents, Entries, Claims
  <2>2. \A d : Claims(d)' = Claims(d) /\ Active(d)' = Active(d)
    BY <1>1 DEF Claims, Active, Ended
  <2>3. QED
    BY <1>1, <2>1, <2>2 DEF FilesInv, NameInv, Marked, Apart
<1>3. ASSUME NEW d \in Clients
      PROVE  Private(d)' /\ Kept(d)'
  BY <1>1 DEF FilesInv, NameInv, Private, Kept
<1>4. QED
  BY <1>2, <1>3 DEF NameInv

\* After a crash nobody is at work, and nothing new can be read.
LEMMA NameCrash ==
    ASSUME FilesInv, Crash
    PROVE  NameInv' /\ Marks' \subseteq Marks
<1>1. FsTypeOK /\ Marked /\ Apart
  BY NameTypes
<1>2. /\ args' = args /\ \A c \in Clients : pc'[c] = IF Active(c) THEN "dead" ELSE pc[c]
  BY DEF Crash
<1>3. /\ \A n \in Names : dir'[n] \in Entries(n) /\ disk'[n] = {dir'[n]}
      /\ \A i \in Inodes : data'[i] \in Contents(i) /\ safe'[i] = {data'[i]}
  BY <1>1, CrashEffect DEF Crash
<1>4. \A c \in Clients : ~Active(c)' /\ pc'[c] \notin {"fill", "flush", "fsync", "replace", "settle"}
  BY <1>2 DEF Active, Ended
<1>5. Marks' \subseteq Marks
  <2>1. SUFFICES ASSUME NEW y \in Marks'
                 PROVE  y \in Marks
    OBVIOUS
  <2>2. PICK i \in Inodes : i \in Entries(Out)' /\ y \in Contents(i)' /\ y \in Reports /\ Claims(y.by)
    BY <1>2 DEF Marks, Claims
  <2>3. i \in Entries(Out) /\ y \in Contents(i)
    BY <1>3, <2>2, Words DEF Entries, Contents
  <2>4. QED
    BY <2>2, <2>3 DEF Marks
<1>6. Marked'
  BY <1>1, <1>4, <1>5 DEF Marked
<1>7. Apart'
  BY <1>3, <1>4, Words DEF Apart
<1>8. QED
  BY <1>4, <1>5, <1>6, <1>7 DEF NameInv, Private, Kept

LEMMA KeepsFiles ==
    ASSUME FilesInv, [Next]_vars
    PROVE  FilesInv'
<1>1. CourseInv'
  BY KeepsCourse DEF FilesInv
<1>2. NameInv'
  <2>1. CASE \E c \in Clients : Step(c) \/ Kill(c)
    BY <2>1, NameClient
  <2>2. CASE Change \/ UNCHANGED vars
    <3>1. UNCHANGED <<fsvars, client>>
      BY <2>2 DEF Change, vars
    <3>2. QED
      BY <3>1, NameStays
  <2>3. QED
    BY <2>1, <2>2, NameCrash DEF Next
<1>3. QED
  BY <1>1, <1>2 DEF FilesInv

LEMMA StartsFiles == Init => FilesInv
<1> SUFFICES ASSUME Init
             PROVE  FilesInv
  OBVIOUS
<1>1. CourseInv
  BY StartsCourse
<1>2. dir[Out] = NoInode /\ disk[Out] = {NoInode}
  BY Words DEF Init, FsInit
<1>3. \A c \in Clients : pc[c] = "parse"
  BY DEF Init
<1>4. Marks = {}
  BY <1>2, Words DEF Marks, Entries
<1>5. Marked /\ Apart
  BY <1>2, <1>3, <1>4 DEF Marked, Apart, Active
<1>6. QED
  BY <1>1, <1>3, <1>5 DEF FilesInv, NameInv, Private, Kept

LEMMA FilesAlways == Spec => []FilesInv
BY StartsFiles, KeepsFiles, PTL DEF Spec

------------------------------------------------------------------------------
(* The promises about the name. *)

LEMMA Same == UNCHANGED <<fsvars, client>> => Marks' = Marks
BY DEF fsvars, client, Marks, Contents, Entries, Claims

\* Only a client at work brings a mark.
LEMMA StepBrings ==
    ASSUME FilesInv, [Next]_vars, NEW y \in Marks'
    PROVE  y \in Marks \/ (y.by \in Clients /\ Active(y.by) /\ Claims(y.by))
<1>1. CASE \E c \in Clients : Step(c) \/ Kill(c)
  BY <1>1, NameClient DEF Grows
<1>2. CASE Change \/ UNCHANGED vars
  BY <1>2, Same DEF Change, vars
<1>3. QED
  BY <1>1, <1>2, NameCrash DEF Next

\* What is read of a client that claims the name is a mark.
SeenMarked ==
    Seen(Out) \notin {Absent, Blank, Torn} /\ Claims(Seen(Out).by) => Seen(Out) \in Marks

LEMMA SeenMarks == FilesInv => SeenMarked
BY Readable, NameTypes DEF SeenMarked, Marks

LEMMA StepArgs ==
    ASSUME FilesInv, [Next]_vars
    PROVE  args' = args
<1>1. CASE \E c \in Clients : Step(c) \/ Kill(c)
  BY <1>1, StepOthers, NameTypes DEF OthersSame
<1>2. CASE Change \/ Crash \/ UNCHANGED vars
  BY <1>2 DEF Change, Crash, vars, client
<1>3. QED
  BY <1>1, <1>2 DEF Next

\* The name is never taken from a client by another, when neither asked to
\* overwrite.
THEOREM NameRespected == Spec => ClaimRespected
<1>1. ASSUME FilesInv, SeenMarked, SeenMarked', [Next]_vars
      PROVE  \A c, d \in Clients :
                 /\ c # d /\ ~args[c].overwrite /\ ~args[d].overwrite
                 /\ Seen(Out) \notin {Absent, Blank, Torn} /\ Seen(Out).by = c
                 /\ (Seen(Out) \notin {Absent, Blank, Torn})'
                 => Seen(Out)'.by # d
  <2>1. SUFFICES ASSUME NEW c \in Clients, NEW d \in Clients,
                        c # d, ~args[c].overwrite, ~args[d].overwrite,
                        Seen(Out) \notin {Absent, Blank, Torn}, Seen(Out).by = c,
                        (Seen(Out) \notin {Absent, Blank, Torn})', Seen(Out)'.by = d
                 PROVE  FALSE
    OBVIOUS
  <2>2. args' = args /\ Marked
    BY <1>1, StepArgs DEF FilesInv, NameInv
  <2>3. PICK x \in Marks : x.by = c
    BY <1>1, <2>1 DEF Claims, SeenMarked
  <2>4. PICK y \in Marks' : y.by = d
    <3>1. Claims(Seen(Out).by)'
      BY <2>1, <2>2 DEF Claims
    <3>2. Seen(Out)' \in Marks'
      BY <1>1, <2>1, <3>1 DEF SeenMarked
    <3>3. QED
      BY <2>1, <3>2
  <2>5. CASE y \in Marks
    BY <2>1, <2>2, <2>3, <2>4, <2>5 DEF Marked
  <2>6. CASE Active(d) /\ Claims(d)
    BY <2>1, <2>2, <2>3, <2>6 DEF Marked
  <2>7. QED
    BY <1>1, <2>4, <2>5, <2>6, StepBrings
<1>2. QED
  BY <1>1, SeenMarks, FilesAlways, PTL DEF Spec, ClaimRespected

\* Exit status 0 is kept: of a client that had the name to itself, the report
\* is there in full after any crash.
THEOREM ZeroDurable == Spec => ZeroIsDurable
<1>1. ASSUME FilesInv, [Next]_vars
      PROVE  \A c \in Clients :
                 pc[c] # "over" /\ pc'[c] = "over" /\ code[c] = 0 /\ code'[c] = 0 /\ alone[c] =>
                     OnDisk(Out)' = {report[c]} /\ report[c].status = "success"
  <2>1. SUFFICES ASSUME NEW c \in Clients, pc[c] # "over", pc'[c] = "over",
                        code[c] = 0, code'[c] = 0, alone[c]
                 PROVE  OnDisk(Out)' = {report[c]} /\ report[c].status = "success"
    OBVIOUS
  <2>2. TypeOK /\ FsTypeOK /\ Domains /\ Apart /\ Kept(c) /\ Course(c)
    BY <1>1, NameTypes DEF FilesInv, CourseInv
  <2>3. Succeeded(c)
    BY <2>1, <2>2 DEF Course, Concluded
  <2>4. Step(c)
    <3>1. ASSUME NEW d \in Clients, d # c, Step(d) \/ Kill(d)
          PROVE  FALSE
      BY <2>1, <2>2, <3>1, StepOthers DEF OthersSame
    <3>2. ~Kill(c)
      BY <2>1, <2>2 DEF Kill, Goto, Domains
    <3>3. ~Change /\ ~UNCHANGED vars
      BY <2>1 DEF Change, vars, client
    <3>4. ~Crash
      BY <2>1 DEF Crash
    <3>5. QED
      BY <1>1, <3>1, <3>2, <3>3, <3>4 DEF Next
  <2>5. pc[c] \in Saving \cup {"dead"}
    BY <2>1, <2>2, <2>3, Underway
  <2>6. SaveSettle(c)
    <3>1. ~SaveFails(c)
      BY <2>1, <2>2 DEF SaveFails, Exit, Raise, Save, Goto, Domains
    <3>2. Checkpoint(c)
      BY <2>4, <2>5, <3>1 DEF Step, ReserveFails, Saving, Parse, Taken, Open, Fill, Flush, Claim,
         Collect, Begin, Run, Load, Judge, CheckInputs, CheckGit, Conclude
    <3>3. ~SaveTemp(c) /\ ~SaveSync(c) /\ ~SaveReplace(c)
      BY <2>1, <2>2 DEF SaveTemp, SaveSync, SaveReplace, Goto, Domains
    <3>4. QED
      BY <3>2, <3>3 DEF Checkpoint
  <2>7. dir[Out] \in Inodes /\ safe[dir[Out]] = {report[c]}
    BY <2>1, <2>2, <2>6 DEF SaveSettle, Kept, Apart, Active, Ended
  <2>8. disk'[Out] = {dir[Out]} /\ safe' = safe
    BY <2>2, <2>6, SyncDirEffect, Words DEF SaveSettle
  <2>9. OnDisk(Out)' = {report[c]}
    BY <2>7, <2>8, Words DEF OnDisk
  <2>10. QED
    BY <2>3, <2>9 DEF Succeeded
<1>2. QED
  BY <1>1, FilesAlways, PTL DEF Spec, ZeroIsDurable
------------------------------------------------------------------------------
(* Sums over finite sets, as the folds of the community modules define     *)
(* them: an element is chosen and taken away until none is left.           *)

LEMMA Least ==
    ASSUME NEW S \in SUBSET Nat, S # {}
    PROVE  \E k \in S : \A j \in S : k <= j
<1>1. PICK k \in S : \A j \in S : <<j, k>> \notin OpToRel(<, Nat)
  BY WFMin, NatLessThanWellFounded
<1>2. \A j \in S : ~(j < k)
  BY <1>1 DEF OpToRel
<1> QED BY <1>2

\* Induction, for a set of numbers.
LEMMA Induction ==
    ASSUME NEW S, 0 \in S, \A k \in Nat : k \in S => k + 1 \in S
    PROVE  Nat \subseteq S
<1> DEFINE T == Nat \ S
<1> SUFFICES ASSUME T # {} PROVE FALSE
  OBVIOUS
<1>1. PICK k \in T : \A j \in T : k <= j
  BY Least
<1>2. k # 0 /\ k - 1 \in Nat /\ k - 1 \notin T
  BY <1>1
<1>3. (k - 1) + 1 \in S
  BY <1>2
<1> QED BY <1>1, <1>3

First(u) == CHOOSE z \in u : TRUE

FoldsOver(F, g, U) ==
    F = [u \in U |-> IF u = {} THEN 0 ELSE F[u \ {First(u)}] + g[First(u)]]

\* F gives every part of S the sum of g over it.
Sums(F, g, S) ==
    /\ F \in [SUBSET S -> Int] /\ F[{}] = 0
    /\ \A u \in SUBSET S : \A y \in u : F[u] = F[u \ {y}] + g[y]

Small(S, k) == {u \in SUBSET S : Cardinality(u) <= k}

\* Taking an element away leaves a smaller part.
LEMMA Smaller ==
    ASSUME NEW S, IsFiniteSet(S), NEW k \in Nat, NEW u \in SUBSET S, NEW y \in u
    PROVE  /\ u \ {y} \in SUBSET S
           /\ Cardinality(u \ {y}) = Cardinality(u) - 1 /\ Cardinality(u) \in Nat
           /\ u \in Small(S, k + 1) => u \ {y} \in Small(S, k)
<1>1. IsFiniteSet(u)
  BY FS_Subset
<1>2. Cardinality(u) \in Nat /\ Cardinality(u \ {y}) = Cardinality(u) - 1
  BY <1>1, FS_CardinalityType, FS_RemoveElement
<1> QED BY <1>2 DEF Small

LEMMA FoldExists ==
    ASSUME NEW S, IsFiniteSet(S), NEW g
    PROVE  \E F : FoldsOver(F, g, SUBSET S)
<1> DEFINE N == {k \in Nat : \E F : FoldsOver(F, g, Small(S, k))}
<1>1. 0 \in N
  <2> DEFINE F == [u \in Small(S, 0) |-> 0]
  <2>1. \A u \in Small(S, 0) : u = {}
    BY FS_Subset, FS_EmptySet, FS_CardinalityType DEF Small
  <2>2. FoldsOver(F, g, Small(S, 0))
    BY <2>1 DEF FoldsOver
  <2> QED BY <2>2
<1>2. ASSUME NEW k \in Nat, k \in N PROVE k + 1 \in N
  <2>1. PICK G : FoldsOver(G, g, Small(S, k))
    BY <1>2
  <2> DEFINE next(u) == IF u = {} THEN 0 ELSE G[u \ {First(u)}] + g[First(u)]
             F == [u \in Small(S, k + 1) |-> next(u)]
  <2>2. \A u \in Small(S, k) : G[u] = next(u)
    BY <2>1 DEF FoldsOver
  <2>3. \A u \in Small(S, k) : u \in Small(S, k + 1)
    BY FS_Subset, FS_CardinalityType DEF Small
  <2>4. ASSUME NEW u \in Small(S, k + 1), u # {}
        PROVE  F[u \ {First(u)}] = G[u \ {First(u)}]
    <3>1. u \in SUBSET S /\ First(u) \in u
      BY <2>4 DEF Small, First
    <3>2. u \ {First(u)} \in Small(S, k)
      BY <3>1, Smaller
    <3> QED BY <2>2, <2>3, <3>2
  <2>5. \A u \in Small(S, k + 1) :
           next(u) = IF u = {} THEN 0 ELSE F[u \ {First(u)}] + g[First(u)]
    BY <2>4
  <2>6. FoldsOver(F, g, Small(S, k + 1))
    BY <2>5 DEF FoldsOver
  <2> QED BY <2>6
<1>3. Cardinality(S) \in N
  <2> HIDE DEF N
  <2> QED BY <1>1, <1>2, Induction, FS_CardinalityType
<1>4. Small(S, Cardinality(S)) = SUBSET S
  BY FS_Subset DEF Small
<1> QED BY <1>3, <1>4

\* It does not matter which element goes first.
LEMMA FoldSums ==
    ASSUME NEW S, IsFiniteSet(S), NEW g, \A x \in S : g[x] \in Int,
           NEW F, FoldsOver(F, g, SUBSET S)
    PROVE  Sums(F, g, S)
<1> DEFINE Adds(u) == F[u] \in Int /\ \A y \in u : F[u] = F[u \ {y}] + g[y]
           N == {k \in Nat : \A u \in Small(S, k) : Adds(u)}
<1>1. /\ \A u \in SUBSET S : F[u] = IF u = {} THEN 0 ELSE F[u \ {First(u)}] + g[First(u)]
      /\ F = [u \in SUBSET S |-> F[u]]
  <2> DEFINE f(u) == IF u = {} THEN 0 ELSE F[u \ {First(u)}] + g[First(u)]
  <2>1. F = [u \in SUBSET S |-> f(u)]
    BY DEF FoldsOver
  <2>2. \A u \in SUBSET S : F[u] = f(u)
    BY <2>1
  <2>3. DOMAIN F = SUBSET S
    BY <2>1
  <2> HIDE DEF f
  <2>4. F = [u \in SUBSET S |-> F[u]]
    BY <2>1, <2>2
  <2> QED BY <2>2, <2>4 DEF f
<1>2. F[{}] = 0 /\ Adds({})
  <2>1. F[{}] = 0
    BY <1>1
  <2> QED BY <2>1
<1>3. 0 \in N
  <2>1. \A u \in Small(S, 0) : u = {}
    BY FS_Subset, FS_EmptySet, FS_CardinalityType DEF Small
  <2>2. \A u \in Small(S, 0) : Adds(u)
    <3> HIDE DEF Adds
    <3> QED BY <1>2, <2>1
  <2> HIDE DEF Adds
  <2> QED BY <2>2
<1>4. ASSUME NEW k \in Nat, k \in N PROVE k + 1 \in N
  <2> SUFFICES \A u \in Small(S, k + 1) : Adds(u)
    <3> HIDE DEF Adds
    <3> QED OBVIOUS
  <2> SUFFICES ASSUME NEW u \in Small(S, k + 1), u # {} PROVE Adds(u)
    <3> HIDE DEF Adds
    <3> QED BY <1>2
  <2> DEFINE c == First(u)
  <2>1. u \in SUBSET S /\ c \in u
    BY DEF Small, First
  <2>2. \A y \in u : u \ {y} \in Small(S, k) /\ u \ {y} \in SUBSET S
    BY <2>1, Smaller
  <2>3. \A y \in u : Adds(u \ {y}) /\ g[y] \in Int
    BY <1>4, <2>1, <2>2
  <2>4. F[u] = F[u \ {c}] + g[c]
    BY <1>1, <2>1
  <2> HIDE DEF c
  <2>5. ASSUME NEW y \in u PROVE F[u] = F[u \ {y}] + g[y]
    <3>1. CASE y = c
      BY <2>4, <3>1
    <3>2. CASE y # c
      <4>1. y \in u \ {c} /\ c \in u \ {y} /\ (u \ {c}) \ {y} = (u \ {y}) \ {c}
        BY <2>1, <3>2
      <4> DEFINE r == F[(u \ {c}) \ {y}]
      <4>2. F[u \ {c}] = r + g[y]
        BY <2>1, <2>3, <4>1
      <4>3. F[u \ {y}] = r + g[c]
        BY <2>1, <2>3, <4>1
      <4>4. r \in Int
        <5>1. (u \ {c}) \ {y} \in Small(S, k)
          <6>1. Cardinality((u \ {c}) \ {y}) = Cardinality(u \ {c}) - 1 /\ Cardinality(u \ {c}) \in Nat
                /\ (u \ {c}) \ {y} \in SUBSET S
            BY <2>1, <2>2, <4>1, Smaller
          <6> QED BY <2>1, <2>2, <6>1 DEF Small
        <5> QED BY <1>4, <5>1
      <4> HIDE DEF r
      <4> QED BY <2>1, <2>3, <2>4, <4>2, <4>3, <4>4
    <3> QED BY <3>1, <3>2
  <2>6. F[u] \in Int
    <3>1. F[u \ {c}] \in Int /\ g[c] \in Int
      BY <2>1, <2>3
    <3> QED BY <2>4, <3>1
  <2> QED BY <2>5, <2>6
<1>5. Cardinality(S) \in N
  <2> HIDE DEF N
  <2> QED BY <1>3, <1>4, Induction, FS_CardinalityType
<1>6. Small(S, Cardinality(S)) = SUBSET S
  BY FS_Subset DEF Small
<1>7. \A u \in SUBSET S : Adds(u)
  <2> HIDE DEF Adds
  <2> QED BY <1>5, <1>6
<1>8. F \in [SUBSET S -> Int]
  BY <1>1, <1>7
<1> QED BY <1>2, <1>7, <1>8 DEF Sums

\* Nor what the elements are called.
LEMMA SumsMove ==
    ASSUME NEW S, NEW T, IsFiniteSet(S), NEW g, NEW h, NEW F, NEW G,
           Sums(F, g, S), Sums(G, h, T), NEW b \in [S -> T],
           \A x, y \in S : b[x] = b[y] => x = y,
           \A x \in S : h[b[x]] = g[x]
    PROVE  F[S] = G[{b[x] : x \in S}]
<1> DEFINE image(u) == {b[x] : x \in u}
           N == {k \in Nat : \A u \in Small(S, k) : F[u] = G[image(u)]}
<1>1. 0 \in N
  <2>1. \A u \in Small(S, 0) : u = {}
    BY FS_Subset, FS_EmptySet, FS_CardinalityType DEF Small
  <2>2. image({}) = {}
    OBVIOUS
  <2> QED BY <2>1, <2>2 DEF Sums
<1>2. ASSUME NEW k \in Nat, k \in N PROVE k + 1 \in N
  <2> SUFFICES ASSUME NEW u \in Small(S, k + 1) PROVE F[u] = G[image(u)]
    OBVIOUS
  <2>1. CASE u = {}
    <3>1. image(u) = {}
      BY <2>1
    <3> QED BY <2>1, <3>1 DEF Sums
  <2>2. CASE u # {}
    <3>1. PICK y \in u : TRUE
      BY <2>2
    <3>2. u \in SUBSET S /\ y \in S /\ u \ {y} \in Small(S, k)
      BY <3>1, Smaller DEF Small
    <3>3. image(u) \in SUBSET T /\ b[y] \in image(u) /\ image(u) \ {b[y]} = image(u \ {y})
      BY <3>1, <3>2
    <3>4. F[u \ {y}] = G[image(u \ {y})]
      BY <1>2, <3>2
    <3>5. F[u] = F[u \ {y}] + g[y]
      BY <3>1, <3>2 DEF Sums
    <3> HIDE DEF image
    <3>6. G[image(u)] = G[image(u) \ {b[y]}] + h[b[y]]
      BY <3>3 DEF Sums
    <3> QED BY <3>2, <3>3, <3>4, <3>5, <3>6
  <2> QED BY <2>1, <2>2
<1>3. Cardinality(S) \in N
  <2> HIDE DEF N
  <2> QED BY <1>1, <1>2, Induction, FS_CardinalityType
<1>4. S \in Small(S, Cardinality(S))
  BY FS_CardinalityType DEF Small
<1> QED BY <1>3, <1>4

\* The sum a document is checked by is that of its files, when they differ.
LEMMA TotalIsSum ==
    ASSUME NEW s, IsFiniteSet(DOMAIN s), \A i \in DOMAIN s : s[i].bytes \in Int,
           \A i, j \in DOMAIN s : s[i] = s[j] => i = j
    PROVE  FoldSeq(LAMBDA file, sum : sum + file.bytes, 0, s)
              = MapThenSumSet(LAMBDA f : f.bytes, ToSet(s))
<1> DEFINE S == DOMAIN s
           T == ToSet(s)
           g == [i \in S |-> s[i].bytes]
           h == [f \in T |-> f.bytes]
           b == [i \in S |-> s[i]]
           FF == CHOOSE F : F = [u \in SUBSET S |-> IF u = {} THEN 0
                    ELSE LET x == CHOOSE z \in u : TRUE IN F[u \ {x}] + s[x].bytes]
           GG == CHOOSE F : F = [u \in SUBSET T |-> IF u = {} THEN 0
                    ELSE LET x == CHOOSE z \in u : TRUE IN x.bytes + F[u \ {x}]]
<1>1. FoldSeq(LAMBDA file, sum : sum + file.bytes, 0, s) = FF[S]
  BY DEF FoldSeq, FoldFunction, FoldFunctionOnSet, MapThenFoldSet
<1>2. MapThenSumSet(LAMBDA f : f.bytes, T) = GG[T]
  BY DEF MapThenSumSet, MapThenFoldSet
<1>3. IsFiniteSet(T) /\ T = {b[i] : i \in S} /\ b \in [S -> T]
  <2>1. T = {b[i] : i \in S} /\ b \in [S -> T]
    BY DEF ToSet
  <2>2. b \in Surjection(S, T)
    BY <2>1 DEF Surjection
  <2> QED BY <2>1, <2>2, FS_Surjection
<1>4. Sums(FF, g, S)
  <2>1. PICK F : FoldsOver(F, g, SUBSET S)
    BY FoldExists
  <2> DEFINE gf(H, u) == IF u = {} THEN 0 ELSE H[u \ {First(u)}] + g[First(u)]
             sf(H, u) == IF u = {} THEN 0
                         ELSE LET x == CHOOSE z \in u : TRUE IN H[u \ {x}] + s[x].bytes
  <2>2. \A H : \A u \in SUBSET S : gf(H, u) = sf(H, u)
    <3>1. \A u \in SUBSET S : u # {} => g[First(u)] = s[First(u)].bytes
      BY DEF First
    <3> QED BY <3>1 DEF First
  <2>3. F = [u \in SUBSET S |-> gf(F, u)]
    BY <2>1 DEF FoldsOver
  <2>4. FF = CHOOSE H : H = [u \in SUBSET S |-> sf(H, u)]
    OBVIOUS
  <2>5. F = [u \in SUBSET S |-> sf(F, u)]
    <3> HIDE DEF gf, sf
    <3> QED BY <2>2, <2>3
  <2>6. FF = [u \in SUBSET S |-> sf(FF, u)]
    <3> HIDE DEF sf, FF
    <3> QED BY <2>5, <2>4
  <2>7. FoldsOver(FF, g, SUBSET S)
    <3>1. FF = [u \in SUBSET S |-> gf(FF, u)]
      <4> HIDE DEF FF, gf, sf
      <4> QED BY <2>6, <2>2
    <3> HIDE DEF FF
    <3> QED BY <3>1 DEF FoldsOver
  <2> HIDE DEF FF
  <2> QED BY <2>7, FoldSums
<1>5. Sums(GG, h, T)
  <2>1. \A f \in T : f.bytes \in Int
    BY DEF ToSet
  <2>2. PICK F : FoldsOver(F, h, SUBSET T)
    BY <1>3, FoldExists
  <2> DEFINE hf(H, u) == IF u = {} THEN 0 ELSE H[u \ {First(u)}] + h[First(u)]
             bf(H, u) == IF u = {} THEN 0
                         ELSE LET x == CHOOSE z \in u : TRUE IN x.bytes + H[u \ {x}]
  <2>3. ASSUME NEW H, NEW u \in SUBSET T, u # {} => H[u \ {First(u)}] \in Int
       PROVE  hf(H, u) = bf(H, u)
    <3>1. u # {} => /\ First(u) \in T /\ h[First(u)] = First(u).bytes
                    /\ First(u).bytes \in Int
      BY <2>1 DEF First
    <3> QED BY <2>3, <3>1 DEF First
  <2>4. F = [u \in SUBSET T |-> hf(F, u)]
    BY <2>2 DEF FoldsOver
  <2>5. GG = CHOOSE H : H = [u \in SUBSET T |-> bf(H, u)]
    OBVIOUS
  <2>6. Sums(F, h, T)
    BY <1>3, <2>1, <2>2, FoldSums
  <2>7. \A u \in SUBSET T : hf(F, u) = bf(F, u)
    <3>1. \A u \in SUBSET T : u \ {First(u)} \in SUBSET T /\ F[u \ {First(u)}] \in Int
      BY <2>6 DEF Sums
    <3> HIDE DEF hf, bf
    <3> QED BY <3>1, <2>3
  <2>8. F = [u \in SUBSET T |-> bf(F, u)]
    <3> HIDE DEF hf, bf
    <3> QED BY <2>4, <2>7
  <2>9. GG = [u \in SUBSET T |-> bf(GG, u)]
    <3> HIDE DEF bf, GG
    <3> QED BY <2>8, <2>5
  <2>10. /\ \A u \in SUBSET T : GG[u] = bf(GG, u)
        /\ GG[{}] = 0
    <3>1. \A u \in SUBSET T : GG[u] = bf(GG, u)
      <4> HIDE DEF bf, GG
      <4> QED BY <2>9
    <3>2. {} \in SUBSET T /\ bf(GG, {}) = 0
      OBVIOUS
    <3> HIDE DEF bf, GG
    <3> QED BY <3>1, <3>2
  <2>11. \A u \in SUBSET T : GG[u] \in Int
    <3> HIDE DEF GG
    <3> DEFINE N == {k \in Nat : \A u \in Small(T, k) : GG[u] \in Int}
    <3>1. 0 \in N
      <4>1. \A u \in Small(T, 0) : u = {}
        BY <1>3, FS_Subset, FS_EmptySet, FS_CardinalityType DEF Small
      <4> QED BY <2>10, <4>1
    <3>2. ASSUME NEW k \in Nat, k \in N PROVE k + 1 \in N
      <4>1. ASSUME NEW u \in Small(T, k + 1) PROVE GG[u] \in Int
        <5>1. CASE u = {}
          BY <2>10, <5>1
        <5>2. CASE u # {}
          <6>1. First(u) \in u /\ u \in SUBSET T
            BY <5>2 DEF First, Small
          <6>2. GG[u \ {First(u)}] \in Int /\ First(u).bytes \in Int
            BY <1>3, <2>1, <3>2, <6>1, Smaller
          <6>3. GG[u] = First(u).bytes + GG[u \ {First(u)}]
            BY <2>10, <5>2, <6>1 DEF First
          <6> QED BY <6>2, <6>3
        <5> QED BY <5>1, <5>2
      <4> QED BY <4>1
    <3>3. Cardinality(T) \in N
      <4> HIDE DEF N
      <4> QED BY <1>3, <3>1, <3>2, Induction, FS_CardinalityType
    <3> QED BY <1>3, <3>3, FS_Subset DEF Small
  <2>12. \A u \in SUBSET T : hf(GG, u) = bf(GG, u)
    <3>1. \A u \in SUBSET T : u \ {First(u)} \in SUBSET T /\ GG[u \ {First(u)}] \in Int
      <4> HIDE DEF GG
      <4> QED BY <2>11
    <3> HIDE DEF hf, bf, GG
    <3> QED BY <3>1, <2>3
  <2>13. GG = [u \in SUBSET T |-> hf(GG, u)]
    <3> HIDE DEF hf, bf, GG
    <3> QED BY <2>9, <2>12
  <2>14. FoldsOver(GG, h, SUBSET T)
    <3> HIDE DEF GG
    <3> QED BY <2>13 DEF FoldsOver
  <2> HIDE DEF GG
  <2> QED BY <1>3, <2>1, <2>14, FoldSums
<1> HIDE DEF FF, GG
<1>6. /\ \A x, y \in S : b[x] = b[y] => x = y
      /\ \A x \in S : h[b[x]] = g[x]
  <2>1. \A x \in S : b[x] \in T /\ b[x] = s[x]
    BY <1>3
  <2> QED BY <2>1
<1>7. FF[S] = GG[{b[x] : x \in S}]
  <2>1. IsFiniteSet(S)
    OBVIOUS
  <2> HIDE DEF S, T, g, h, b, FF, GG
  <2> QED BY <2>1, <1>3, <1>4, <1>5, <1>6, SumsMove
<1> QED BY <1>1, <1>2, <1>3, <1>7
------------------------------------------------------------------------------
(* What the gates of the documents come to.  A path is listed once, so the  *)
(* entries differ and their fold is the sum over the set of files.          *)

DocsCoherent(a) ==
    LET files == a.docs.inv.files
        units == [j \in DOMAIN a.docs.man.assignments |-> a.docs.man.assignments[j].unit]
        rungs == {a.docs.man.assignments[j].rung : j \in DOMAIN units}
    IN /\ a.bytes <= a.budget
       /\ a.bytes = MapThenSumSet(LAMBDA f : f.bytes, ToSet(files))
       /\ \A i, j \in DOMAIN units :
              i # j => \A leaf \in {units[i], units[j]} :
                  ~(IsPrefix(units[i], leaf) /\ IsPrefix(units[j], leaf))
       /\ Cardinality(rungs) > 1 <=> a.rung = "mixed"

LEMMA BytesAreSummed ==
    ASSUME NEW docs, IsDocument(docs), InventoryAccepted(docs.inv)
    PROVE  docs.inv.total = MapThenSumSet(LAMBDA f : f.bytes, ToSet(docs.inv.files))
<1> DEFINE files == docs.inv.files
<1>1. IsFiniteSet(DOMAIN files)
  <2>1. DOMAIN files = 1 .. Len(files) /\ Len(files) \in Nat
    BY DEF IsDocument
  <2> QED BY <2>1, FS_Interval
<1>2. \A i \in DOMAIN files : files[i].bytes \in Int
  BY DEF IsDocument, ToSet
<1>3. \A i, j \in DOMAIN files : files[i].path = files[j].path => i = j
  BY DEF IsDocument, InventoryAccepted
<1>4. docs.inv.total = FoldSeq(LAMBDA file, sum : sum + file.bytes, 0, files)
  BY DEF InventoryAccepted
<1>5. \A i, j \in DOMAIN files : files[i] = files[j] => i = j
  BY <1>3
<1> HIDE DEF files
<1>6. FoldSeq(LAMBDA file, sum : sum + file.bytes, 0, files)
         = MapThenSumSet(LAMBDA f : f.bytes, ToSet(files))
  BY <1>1, <1>2, <1>5, TotalIsSum
<1> QED BY <1>4, <1>6 DEF files

LEMMA UnitsApart ==
    ASSUME NEW s, s \in Seq(ToSet(s)), UnitsDisjoint(s),
           NEW i \in DOMAIN s, NEW j \in DOMAIN s, i # j
    PROVE  ~IsPrefix(s[i].unit, s[j].unit)
<1>1. i \in Int /\ j \in Int /\ (j < i => j \in 1 .. (i - 1)) /\ (i < j => i \in 1 .. (j - 1))
  OBVIOUS
<1> QED BY <1>1 DEF UnitsDisjoint

\* More than one value is declared as mixed, which no assignment says.
LEMMA MixedIsDeclared ==
    ASSUME NEW s, s \in Seq(ToSet(s)), s # <<>>, NEW declared,
           \A j \in DOMAIN s : s[j].rung # "mixed",
           DeclaredAs({s[j].rung : j \in DOMAIN s}, declared)
    PROVE  Cardinality({s[j].rung : j \in DOMAIN s}) > 1 <=> declared = "mixed"
<1> DEFINE rungs == {s[j].rung : j \in DOMAIN s}
<1>1. IsFiniteSet(rungs)
  <2> DEFINE b == [j \in DOMAIN s |-> s[j].rung]
  <2>1. DOMAIN s = 1 .. Len(s) /\ Len(s) \in Nat
    OBVIOUS
  <2>2. IsFiniteSet(DOMAIN s)
    BY <2>1, FS_Interval
  <2>3. b \in Surjection(DOMAIN s, rungs)
    BY DEF Surjection
  <2> QED BY <2>2, <2>3, FS_Surjection
<1>2. rungs # {}
  <2>1. 1 \in DOMAIN s
    OBVIOUS
  <2> QED BY <2>1
<1>3. Cardinality(rungs) \in Nat /\ Cardinality(rungs) # 0
  BY <1>1, <1>2, FS_CardinalityType, FS_EmptySet
<1>4. CASE Cardinality(rungs) = 1
  <2>1. rungs = {declared}
    BY <1>4 DEF DeclaredAs
  <2>2. declared # "mixed"
    BY <2>1
  <2> QED BY <1>4, <2>2
<1>5. CASE Cardinality(rungs) # 1
  <2>1. declared = "mixed"
    BY <1>5 DEF DeclaredAs
  <2>2. Cardinality(rungs) > 1
    BY <1>3, <1>5
  <2> QED BY <2>1, <2>2
<1> QED BY <1>4, <1>5

LEMMA AcceptedIsCoherent ==
    ASSUME NEW a, NEW docs, IsDocument(docs), ArgumentsAccepted(a, docs)
    PROVE  DocsCoherent(a)
<1>1. /\ a.docs.inv = docs.inv /\ a.docs.man = docs.man /\ a.bytes = docs.inv.total
      /\ a.bytes <= a.budget
      /\ InventoryAccepted(docs.inv) /\ ManifestAccepted(docs.man, docs.inv, a)
  BY DEF ArgumentsAccepted, BoundInputsHold, BudgetsDeclared
<1>2. a.bytes = MapThenSumSet(LAMBDA f : f.bytes, ToSet(a.docs.inv.files))
  BY <1>1, BytesAreSummed
<1> DEFINE s == a.docs.man.assignments
           units == [j \in DOMAIN s |-> s[j].unit]
<1>3. /\ s \in Seq(ToSet(s)) /\ s # <<>> /\ UnitsDisjoint(s)
      /\ \A j \in DOMAIN s : s[j].rung # "mixed"
      /\ DeclaredAs({s[j].rung : j \in DOMAIN s}, a.rung)
  BY <1>1 DEF IsDocument, ManifestAccepted
<1> HIDE DEF s
<1>4. \A i, j \in DOMAIN s : i # j => ~IsPrefix(s[i].unit, s[j].unit)
  BY <1>3, UnitsApart
<1>5. \A i, j \in DOMAIN units :
          i # j => \A leaf \in {units[i], units[j]} :
              ~(IsPrefix(units[i], leaf) /\ IsPrefix(units[j], leaf))
  BY <1>4
<1>6. DOMAIN units = DOMAIN s
  OBVIOUS
<1>7. Cardinality({s[j].rung : j \in DOMAIN units}) > 1 <=> a.rung = "mixed"
  BY <1>3, <1>6, MixedIsDeclared
<1> QED BY <1>1, <1>2, <1>5, <1>7 DEF DocsCoherent, s

------------------------------------------------------------------------------
(* Whoever is past parse_args, and whoever wrote what is on the disk, was   *)
(* accepted with documents that were there.                                 *)

Vetted(c) == \E j \in DOMAIN Bundles : ArgumentsAccepted(args[c], Bundles[j])

VettedInv ==
    /\ \A c \in Clients : pc[c] \notin {"parse", "over", "dead"} => Vetted(c)
    /\ \A i \in Inodes : \A x \in Contents(i) \cap Reports : Vetted(x.by)

LEMMA StartsVetted == Init => VettedInv
BY BenchAssumption DEF Init, FsInit, VettedInv, Contents

\* A file only gets what a client past parse_args writes as its own.
LEMMA StepWrites ==
    ASSUME CourseInv, NEW c \in Clients, Step(c) \/ Kill(c)
    PROVE  \/ Loses
           \/ /\ pc[c] \notin {"parse", "over", "dead"}
              /\ \A i \in Inodes : \A x \in Contents(i)' \cap Reports :
                     x \in Contents(i) \/ x.by = c
<1>1. TypeOK /\ FsTypeOK /\ Domains /\ Course(c)
  BY CourseTypes, DomainsHold DEF CourseInv
<1>2. c \in Names /\ c # Out /\ Out \in Names /\ Blank \notin Reports /\ Torn \notin Reports
  BY Words
<1>3. CASE UNCHANGED fsvars
  BY <1>3, Untouched
<1>4. CASE UNCHANGED <<data, safe>>
  BY <1>4 DEF Loses, Contents
<1>5. CASE Open(c)
  <2>1. CASE \E i : i = FreshInode(Held) /\ Unused(Held) # {} /\ Create(Out, i)
    <3>1. PICK i \in Inodes : Create(Out, i)
      BY <2>1, Fresh
    <3>2. /\ data'[i] = Blank /\ safe'[i] = {Blank}
          /\ \A j \in Inodes : j # i => data'[j] = data[j] /\ safe'[j] = safe[j]
      BY <1>1, <1>2, <3>1, CreateEffect DEF Create, Texts
    <3>3. \A j \in Inodes : \A x \in Contents(j)' \cap Reports : x \in Contents(j)
      BY <1>2, <3>2 DEF Contents
    <3> QED BY <1>5, <3>3 DEF Open
  <2>2. CASE Exists(Out) /\ Truncate(Out)
    <3>1. PICK i \in Inodes : i = dir[Out]
      BY <1>1, <1>2, <2>2 DEF Exists, FsTypeOK
    <3>2. /\ data'[i] = Blank /\ safe'[i] = safe[i] \cup {Blank}
          /\ \A j \in Inodes : j # i => data'[j] = data[j] /\ safe'[j] = safe[j]
      BY <1>1, <1>2, <2>2, <3>1, TruncateEffect
    <3>3. \A j \in Inodes : \A x \in Contents(j)' \cap Reports : x \in Contents(j)
      BY <1>2, <3>2 DEF Contents
    <3> QED BY <1>5, <3>3 DEF Open
  <2> QED BY <1>5, <2>1, <2>2 DEF Open, Held
<1>6. CASE Fill(c)
  <2> DEFINE x == Starting(c, "reserved")
  <2>1. x \in Reports /\ x.by = c
    BY NewReport
  <2>2. fd[c] \in Inodes \cup {NoInode} /\ x \in Texts
    BY <1>1, <2>1 DEF TypeOK, Texts
  <2> HIDE DEF x
  <2>3. WriteFile(fd[c], x)
    BY <1>6 DEF Fill, Starting, x
  <2>4. /\ \A j \in Inodes : j = fd[c] => data'[j] = x /\ safe'[j] = safe[j] \cup {x, Torn}
        /\ \A j \in Inodes : j # fd[c] => data'[j] = data[j] /\ safe'[j] = safe[j]
    BY <1>1, <2>2, <2>3, WriteEffect
  <2> QED BY <1>2, <1>6, <2>1, <2>4 DEF Contents, Fill
<1>7. CASE \E i \in Inodes \cup {NoInode} : SyncFile(i)
  BY <1>1, <1>7, SyncFileEffect DEF Loses, Contents
<1>8. CASE SaveTemp(c)
  <2>1. PICK i \in Inodes : CreateFilled(c, i, report[c])
    BY <1>8, Fresh DEF SaveTemp, Held
  <2>2. report[c].by = c /\ report[c] \in Reports
    <3>1. then[c] \in Thens /\ then[c] # "none" /\ Where(c) = then[c]
      BY <1>1, <1>8 DEF SaveTemp, Course, Concluded, Saving, Where, TypeOK, Thens
    <3> QED BY <1>1, <3>1 DEF Course, Concluded, Thens, Measuring, TypeOK
  <2>3. /\ data'[i] = report[c] /\ safe'[i] = {Blank, Torn, report[c]}
        /\ \A j \in Inodes : j # i => data'[j] = data[j] /\ safe'[j] = safe[j]
    BY <1>1, <1>2, <2>1, <2>2, CreateEffect DEF CreateFilled, Texts
  <2> QED BY <1>2, <1>8, <2>2, <2>3 DEF Contents, SaveTemp
<1> QED
  <2>1. CASE Flush(c) \/ SaveSync(c)
    BY <1>1, <1>2, <1>7, <2>1 DEF Flush, SaveSync, TypeOK
  <2>2. CASE SaveReplace(c) \/ SaveSettle(c) \/ SaveFails(c) \/ Claim(c)
    BY <1>4, <2>2 DEF SaveReplace, SaveSettle, SaveFails, Claim, Replace, SyncDir, Unlink, fsvars
  <2>3. CASE Plain(c)
    BY <1>3, <2>3 DEF Plain, Parse, Taken, ReserveFails, Kill, Collect, Begin, Run, Load, Judge,
       CheckInputs, CheckGit, Conclude, Unchanged
  <2> QED BY <1>5, <1>6, <1>8, <2>1, <2>2, <2>3 DEF Step, Plain, Checkpoint

LEMMA ParseVets ==
    ASSUME CourseInv, NEW c \in Clients, Step(c) \/ Kill(c), pc[c] \in {"parse", "over", "dead"}
    PROVE  pc'[c] = "over" \/ Vetted(c)
<1>1. Parse(c)
  BY DEF Step, Kill, Active, Ended, ReserveFails, SaveFails, Parse, Taken, Open, Fill, Flush, Claim,
     Collect, Begin, Run, Load, Judge, CheckInputs, CheckGit, Conclude,
     Checkpoint, SaveTemp, SaveSync, SaveReplace, SaveSettle
<1>2. Domains /\ world.docs \in DOMAIN Bundles
  BY DomainsHold DEF CourseInv, TypeOK
<1>3. CASE ArgumentsAccepted(args[c], Docs)
  BY <1>2, <1>3 DEF Vetted, Docs
<1>4. CASE ~ArgumentsAccepted(args[c], Docs)
  BY <1>1, <1>2, <1>4 DEF Parse, Exit, Goto, Domains
<1> QED BY <1>3, <1>4

LEMMA KeepsVetted ==
    ASSUME CourseInv, VettedInv, [Next]_vars
    PROVE  VettedInv'
<1>1. CASE \E c \in Clients : Step(c) \/ Kill(c)
  <2>1. PICK c \in Clients : Step(c) \/ Kill(c)
    BY <1>1
  <2>2. OthersSame(c)
    BY <2>1, StepOthers, CourseTypes
  <2>3. \A d : Vetted(d)' = Vetted(d)
    BY <2>2 DEF OthersSame, Vetted
  <2>4. ASSUME NEW d \in Clients, pc'[d] \notin {"parse", "over", "dead"}
        PROVE  Vetted(d)
    <3>1. CASE pc[d] \in {"parse", "over", "dead"}
      BY <2>1, <2>2, <2>4, <3>1, ParseVets DEF OthersSame
    <3> QED BY <3>1 DEF VettedInv
  <2>5. ASSUME NEW i \in Inodes, NEW x \in Contents(i)' \cap Reports
        PROVE  Vetted(x.by)
    <3>1. CASE x \in Contents(i)
      BY <3>1 DEF VettedInv
    <3>2. CASE x.by = c /\ pc[c] \notin {"parse", "over", "dead"}
      BY <3>2 DEF VettedInv
    <3> QED BY <2>1, <3>1, <3>2, StepWrites DEF Loses
  <2> QED BY <2>3, <2>4, <2>5 DEF VettedInv
<1>2. CASE Change \/ UNCHANGED vars
  BY <1>2 DEF Change, vars, fsvars, client, VettedInv, Vetted, Contents
<1>3. CASE Crash
  <2>1. args' = args /\ \A i \in Inodes : data'[i] \in Contents(i) /\ safe'[i] = {data'[i]}
    BY <1>3, CrashEffect, CourseTypes DEF Crash
  <2>2. \A d : Vetted(d)' = Vetted(d)
    BY <2>1 DEF Vetted
  <2>3. \A i \in Inodes : Contents(i)' \subseteq Contents(i)
    BY <2>1 DEF Contents
  <2>4. \A c \in Clients : pc'[c] \in {pc[c], "dead"}
    BY <1>3 DEF Crash
  <2> QED BY <2>2, <2>3, <2>4 DEF VettedInv
<1> QED BY <1>1, <1>2, <1>3 DEF Next

\* A report readable under the name, now or after any crash, names documents
\* that bind what it claims.
THEOREM EvidenceBinds == Spec => []EvidenceCoherent
<1>1. CourseInv /\ VettedInv => EvidenceCoherent
  <2> SUFFICES ASSUME CourseInv, VettedInv, NEW r \in OnDisk(Out) \cup {Seen(Out)},
                      r \notin {Absent, Blank, Torn}
               PROVE  DocsCoherent(args[r.by])
    BY DEF EvidenceCoherent, DocsCoherent
  <2>1. Vetted(r.by)
    BY Readable DEF CourseInv, VettedInv
  <2>2. PICK j \in DOMAIN Bundles : ArgumentsAccepted(args[r.by], Bundles[j])
    BY <2>1 DEF Vetted
  <2>3. IsDocument(Bundles[j])
    BY BenchAssumption
  <2> QED BY <2>2, <2>3, AcceptedIsCoherent
<1>2. Spec => []VettedInv
  <2>1. CourseInv /\ VettedInv /\ [Next]_vars => VettedInv'
    BY KeepsVetted
  <2> QED BY <2>1, StartsVetted, CourseAlways, PTL DEF Spec
<1> QED BY <1>1, <1>2, CourseAlways, PTL
==============================================================================
