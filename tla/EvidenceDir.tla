----------------------------- MODULE EvidenceDir -----------------------------
(***************************************************************************)
(* One directory of a POSIX file system, as the tools that keep evidence   *)
(* use it: exclusive creation, truncation in place, fsync of a file,       *)
(* rename over a name, fsync of the directory, unlink, and a host crash.   *)
(*                                                                         *)
(* "dir" and "data" are what running processes see; "disk" and "safe" are  *)
(* the entries and the contents a crash may leave behind.  The file system *)
(* is free to keep any mixture of the two until somebody syncs: names are  *)
(* taken to be independent, which allows every ordering a journal gives.   *)
(***************************************************************************)
EXTENDS Naturals, FiniteSets

CONSTANTS
    Names,      \* names inside the directory
    Inodes,     \* files the directory can hold at once (a bound)
    NoInode,    \* the entry of a name that does not exist
    Blank,      \* contents of a file nobody wrote
    Torn,       \* contents of a file written in part
    Absent      \* what a name that does not exist shows

VARIABLES
    dir,        \* dir[n]: the file n names now
    disk,       \* disk[n]: the files n may name after a host crash
    data,       \* data[i]: the contents of file i now
    safe        \* safe[i]: the contents file i may have after a host crash

fsvars == <<dir, disk, data, safe>>

FsInit ==
    /\ dir = [n \in Names |-> NoInode]
    /\ disk = [n \in Names |-> {NoInode}]
    /\ data = [i \in Inodes |-> Blank]
    /\ safe = [i \in Inodes |-> {Blank}]

Exists(n) == dir[n] # NoInode
Seen(n)   == IF Exists(n) THEN data[dir[n]] ELSE Absent

\* Everything n can show after a host crash.
OnDisk(n) ==
    UNION {IF i = NoInode THEN {Absent} ELSE safe[i] : i \in disk[n]}

\* A file no name, live or on disk, and no open descriptor refers to.
Unused(held) ==
    {i \in Inodes : /\ i \notin held
                    /\ \A n \in Names : i # dir[n] /\ i \notin disk[n]}

\* The file system picks one; without any, nothing can be created.
FreshInode(held) == CHOOSE i \in Unused(held) : TRUE

\* open(O_CREAT): file i appears under n, holding c.
CreateAs(n, i, c, may) ==
    /\ dir' = [dir EXCEPT ![n] = i]
    /\ disk' = [disk EXCEPT ![n] = @ \cup {i}]
    /\ data' = [data EXCEPT ![i] = c]
    /\ safe' = [safe EXCEPT ![i] = may]

Create(n, i) == CreateAs(n, i, Blank, {Blank})

\* A new file created and written under a name nobody else uses.
CreateFilled(n, i, c) == CreateAs(n, i, c, {Blank, Torn, c})

\* write() and open(O_TRUNC): the disk may keep the old contents.
WriteFile(i, c) ==
    /\ data' = [data EXCEPT ![i] = c]
    /\ safe' = [safe EXCEPT ![i] = @ \cup {c, Torn}]
    /\ UNCHANGED <<dir, disk>>

Truncate(n) ==
    /\ data' = [data EXCEPT ![dir[n]] = Blank]
    /\ safe' = [safe EXCEPT ![dir[n]] = @ \cup {Blank}]
    /\ UNCHANGED <<dir, disk>>

SyncFile(i) ==
    /\ safe' = [safe EXCEPT ![i] = {data[i]}]
    /\ UNCHANGED <<dir, disk, data>>

\* os.replace: one namespace operation, durable only after SyncDir.
Replace(old, new) ==
    /\ dir' = [dir EXCEPT ![new] = dir[old], ![old] = NoInode]
    /\ disk' = [disk EXCEPT ![new] = @ \cup {dir[old]}, ![old] = @ \cup {NoInode}]
    /\ UNCHANGED <<data, safe>>

Unlink(n) ==
    /\ dir' = [dir EXCEPT ![n] = NoInode]
    /\ disk' = [disk EXCEPT ![n] = @ \cup {NoInode}]
    /\ UNCHANGED <<data, safe>>

SyncDir ==
    /\ disk' = [n \in Names |-> {dir[n]}]
    /\ UNCHANGED <<dir, data, safe>>

\* The host stops: every name and every file falls back to something the
\* disk may hold.
HostCrash ==
    LET loose   == {n \in Names : disk[n] # {dir[n]}}
        unsaved == {i \in Inodes : safe[i] # {data[i]}}
    IN \E e \in [loose -> UNION {disk[n] : n \in loose}],
          f \in [unsaved -> UNION {safe[i] : i \in unsaved}] :
          /\ \A n \in loose : e[n] \in disk[n]
          /\ \A i \in unsaved : f[i] \in safe[i]
          /\ dir' = [n \in Names |-> IF n \in loose THEN e[n] ELSE dir[n]]
          /\ data' = [i \in Inodes |-> IF i \in unsaved THEN f[i] ELSE data[i]]
          /\ disk' = [n \in Names |-> {dir'[n]}]
          /\ safe' = [i \in Inodes |-> {data'[i]}]
==============================================================================
