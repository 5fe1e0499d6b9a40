------------------------------- MODULE BenchRun ------------------------------
(***************************************************************************)
(* Benchmark clients that keep their evidence under one name               *)
(* (gridbook/bench_serve.py: parse_args, run_benchmark and what it calls). *)
(*                                                                         *)
(* A client reserves the name, snapshots its provenance, and then rewrites *)
(* the whole report at every checkpoint: a temporary file, fsync, rename,  *)
(* fsync of the directory.  Meanwhile the documents it is bound to, the    *)
(* checkout and the vLLM client may change; calls of the operating system  *)
(* may fail; a client may be killed and the host may crash.                *)
(***************************************************************************)
EXTENDS EvidenceDir, BenchInputs, BenchResult

CONSTANTS
    Clients,        \* invocations of gridbook-bench-serve
    Out,            \* the name they all give their report
    Nobody,         \* the author of a file that is no report of theirs
    Bundles,        \* the documents at the bound paths, as they are edited
    Scenarios       \* command lines given together, the world they meet,
                    \* and bounds: how many changes, errors and crashes

\* A command line also carries what may befall its vLLM commands: how they
\* return ("codes") and what happens to their results ("mishaps").
Codes == {"ok", "error", "cannotRun", "interrupt", "noFile"}

Blocks  == [status : {"running", "failed", "success"}, code : Codes \cup {"none"}, raw : Disturbances]
Reports == [by : Clients \cup {Nobody}, status : {"none", "reserved", "running", "failed", "success"},
            blocks : Seq(Blocks), eligible : BOOLEAN]

\* The documents the command line binds are those of the j-th edit.
BoundTo(a, j) == BoundInputsHold(a, Bundles[j])

\* Edits are not taken back: what was bound once and is bound now has been
\* bound all the while.
ASSUME BenchAssumption ==
    /\ Names = Clients \cup {Out} /\ Out \notin Clients
    /\ Nobody \notin Clients /\ NoInode \notin Inodes
    /\ Blank # Torn /\ Torn # Absent /\ Absent # Blank
    /\ {Blank, Torn, Absent} \cap Reports = {}
    /\ Len(Bundles) \in Nat /\ DOMAIN Bundles = 1 .. Len(Bundles)
    /\ \A i \in DOMAIN Bundles : IsDocument(Bundles[i])
    /\ \A s \in Scenarios :
           /\ \A c \in Clients :
                  /\ s.args[c].codes \subseteq Codes /\ s.args[c].mishaps \subseteq Disturbances
                  /\ s.args[c].commit \in Nat /\ s.args[c].runtime \in Nat
                  /\ \A i, j, k \in DOMAIN Bundles :
                         i < j /\ j < k /\ BoundTo(s.args[c], i) /\ BoundTo(s.args[c], k)
                             => BoundTo(s.args[c], j)
           /\ s.world \in [docs : DOMAIN Bundles, commit : Nat, dirty : BOOLEAN,
                            checkout : BOOLEAN, runtime : Nat]
           /\ s.left \in [changes : Nat, errors : Nat, crashes : Nat]

NoCommit == 0
NoGit    == [commit |-> NoCommit, eligible |-> FALSE, dirty |-> FALSE]
NoReport == [by |-> Nobody, status |-> "none", blocks |-> <<>>, eligible |-> FALSE]
NewBlock == [status |-> "running", code |-> "none", raw |-> "none"]

VARIABLES
    pc,         \* where each client is
    then,       \* where its checkpoint returns to
    args,       \* its command line
    fd,         \* the file it opened to reserve the name
    report,     \* the report it keeps in memory
    git,        \* the checkout its metadata names
    code,       \* the status it will exit with, then the one it did
    world,      \* documents, checkout and vLLM client, as they are now
    stale,      \* a block ran while the world was not the recorded one
    alone,      \* nobody else used the name since it was reserved
    left        \* changes, errors and crashes the bounds still allow

client == <<pc, then, args, fd, report, git, code, stale, alone>>
vars   == <<fsvars, client, world, left>>

Ended(c)  == pc[c] \in {"over", "dead"}
Active(c) == ~Ended(c) /\ pc[c] \notin {"parse", "open"}

Goto(c, l)   == pc' = [pc EXCEPT ![c] = l]
Save(c, l)   == Goto(c, "temp") /\ then' = [then EXCEPT ![c] = l]
Exit(c, n)   == Goto(c, "over") /\ code' = [code EXCEPT ![c] = n]
Latest(c)      == Len(report[c].blocks)
Docs         == Bundles[world.docs]
Spend(what)  == left[what] > 0 /\ left' = [left EXCEPT ![what] = @ - 1]

\* The report of a checkout: refused when it is dirty, or is not the one the
\* command line names.
DetectedCommit == IF world.checkout THEN world.commit ELSE NoCommit
GitRefused(a) ==
    \/ world.checkout /\ world.dirty /\ ~a.allowDirty
    \/ /\ a.commit # NoCommit /\ world.checkout
       /\ a.commit # world.commit
GitState(a) ==
    [commit |-> IF a.commit # NoCommit THEN a.commit ELSE DetectedCommit,
     dirty |-> world.checkout /\ world.dirty,
     eligible |-> world.checkout /\ ~world.dirty /\ ~a.allowDirty]

Init ==
    /\ FsInit
    /\ pc = [c \in Clients |-> "parse"] /\ then = [c \in Clients |-> "none"]
    /\ \E s \in Scenarios : args = s.args /\ world = s.world /\ left = s.left
    /\ fd = [c \in Clients |-> NoInode]
    /\ report = [c \in Clients |-> NoReport]
    /\ git = [c \in Clients |-> NoGit] /\ code = [c \in Clients |-> -1]
    /\ stale = [c \in Clients |-> FALSE] /\ alone = [c \in Clients |-> FALSE]

-----------------------------------------------------------------------------
(* Reserving the name.  An exception here leaves whatever was created.     *)

Parse(c) ==
    /\ pc[c] = "parse"
    /\ IF ArgumentsAccepted(args[c], Docs)
       THEN Goto(c, "open") /\ UNCHANGED code
       ELSE Exit(c, 2)
    /\ UNCHANGED <<fsvars, then, args, fd, report, git, stale, alone>>

Taken(c) ==
    /\ pc[c] = "open" /\ Exists(Out) /\ ~args[c].overwrite
    /\ Exit(c, 2)
    /\ UNCHANGED <<fsvars, then, args, fd, report, git, stale, alone>>

\* mutant: the name is opened without O_EXCL
Open_NotExclusive(c) ==
    /\ pc[c] = "open"
    /\ IF Exists(Out)
       THEN Truncate(Out) /\ fd' = [fd EXCEPT ![c] = dir[Out]]
       ELSE LET i == FreshInode({fd[d] : d \in Clients})
            IN Create(Out, i) /\ fd' = [fd EXCEPT ![c] = i]
    /\ Goto(c, "fill")
    /\ alone' = [alone EXCEPT ![c] = FALSE]
    /\ UNCHANGED <<then, args, report, git, code, stale>>

Open(c) ==
    /\ pc[c] = "open"
    /\ \/ /\ ~Exists(Out) /\ Unused({fd[d] : d \in Clients}) # {}
          /\ LET i == FreshInode({fd[d] : d \in Clients})
             IN Create(Out, i) /\ fd' = [fd EXCEPT ![c] = i]
       \/ /\ Exists(Out) /\ args[c].overwrite
          /\ Truncate(Out) /\ fd' = [fd EXCEPT ![c] = dir[Out]]
    /\ Goto(c, "fill")
    /\ alone' = [d \in Clients |->
                    IF d = c THEN \A e \in Clients \ {c} : ~Active(e)
                             ELSE alone[d] /\ ~Active(d)]
    /\ UNCHANGED <<then, args, report, git, code, stale>>

Fill(c) ==
    /\ pc[c] = "fill"
    /\ WriteFile(fd[c], [NoReport EXCEPT !.by = c, !.status = "reserved"])
    /\ Goto(c, "flush")
    /\ UNCHANGED <<then, args, fd, report, git, code, stale, alone>>

Flush(c) ==
    /\ pc[c] = "flush"
    /\ SyncFile(fd[c])
    /\ Goto(c, "claim") /\ fd' = [fd EXCEPT ![c] = NoInode]
    /\ UNCHANGED <<then, args, report, git, code, stale, alone>>

Claim(c) ==
    /\ pc[c] = "claim"
    /\ SyncDir
    /\ Goto(c, "collect")
    /\ report' = [report EXCEPT ![c] = [NoReport EXCEPT !.by = c, !.status = "running"]]
    /\ UNCHANGED <<then, args, fd, git, code, stale, alone>>

ReserveFails(c) ==
    /\ pc[c] \in {"open", "fill", "flush", "claim"}
    /\ Spend("errors")
    /\ Exit(c, 1) /\ fd' = [fd EXCEPT ![c] = NoInode]
    /\ UNCHANGED <<fsvars, then, args, report, git, stale, alone>>

-----------------------------------------------------------------------------
(* The body.  An exception marks the running block and the report failed,  *)
(* writes the report a last time and leaves with status n.                 *)

\* A block whose first checkpoint raised is not yet inside its own handler:
\* it stays as it is.
Guarded(c) == pc[c] = "run" \/ then[c] # "run"

FailedBlocks(c) ==
    [b \in 1..Latest(c) |-> IF report[c].blocks[b].status = "running" /\ Guarded(c)
                          THEN [report[c].blocks[b] EXCEPT !.status = "failed"]
                          ELSE report[c].blocks[b]]

Raise(c, n) ==
    /\ report' = [report EXCEPT ![c].status = "failed", ![c].blocks = FailedBlocks(c)]
    /\ code' = [code EXCEPT ![c] = n]
    /\ Save(c, "exit")

EditBlock(c, block) ==
    report' = [report EXCEPT ![c].blocks[Latest(c)] = block]

Unchanged(c) == UNCHANGED <<fsvars, args, fd, alone>>

Collect(c) ==
    /\ pc[c] = "collect"
    /\ \/ /\ BoundInputsHold(args[c], Docs) /\ ~GitRefused(args[c])
          /\ world.runtime = args[c].runtime
          /\ git' = [git EXCEPT ![c] = GitState(args[c])]
          /\ Save(c, "begin") /\ UNCHANGED <<report, code>>
       \/ /\ \/ ~BoundInputsHold(args[c], Docs) \/ GitRefused(args[c])
             \/ world.runtime # args[c].runtime
          /\ Raise(c, 2) /\ UNCHANGED git
    /\ Unchanged(c) /\ UNCHANGED stale

\* The next block, or the checks that follow the last one.
Begin(c) ==
    /\ pc[c] = "begin"
    /\ \/ /\ git[c].commit = NoCommit
          /\ Raise(c, 2)
       \/ /\ git[c].commit # NoCommit /\ Latest(c) < args[c].blocks
          /\ report' = [report EXCEPT ![c].blocks = Append(@, NewBlock)]
          /\ Save(c, "run") /\ UNCHANGED code
       \/ /\ git[c].commit # NoCommit /\ Latest(c) = args[c].blocks
          /\ Goto(c, "inputs") /\ UNCHANGED <<then, report, code>>
    /\ Unchanged(c) /\ UNCHANGED <<git, stale>>

AsRecorded(c) ==
    /\ BoundInputsHold(args[c], Docs)
    /\ GitState(args[c]) = git[c] /\ world.runtime = args[c].runtime

Run(c) ==
    /\ pc[c] = "run"
    /\ stale' = [stale EXCEPT ![c] = @ \/ ~AsRecorded(c)]
    /\ \E outcome \in args[c].codes :
          \/ /\ outcome \in {"cannotRun", "interrupt"}
             /\ Raise(c, IF outcome = "interrupt" THEN 1 ELSE 2)
          \/ /\ outcome \in {"ok", "error", "noFile"}
             /\ EditBlock(c, [NewBlock EXCEPT !.code = outcome])
             /\ Save(c, "load") /\ UNCHANGED code
    /\ Unchanged(c) /\ UNCHANGED git

\* The sanitized result is on disk before anybody judges it.
Load(c) ==
    /\ pc[c] = "load"
    /\ LET block == report[c].blocks[Latest(c)]
       IN \/ /\ block.code # "ok" /\ Raise(c, 2)
          \/ /\ block.code = "ok"
             /\ \E d \in args[c].mishaps : EditBlock(c, [block EXCEPT !.raw = d])
             /\ Save(c, "judge") /\ UNCHANGED code
    /\ Unchanged(c) /\ UNCHANGED <<git, stale>>

Judge(c) ==
    /\ pc[c] = "judge"
    /\ LET block == report[c].blocks[Latest(c)]
       IN IF ValidateResult(Disturbed(block.raw, args[c], Latest(c)), args[c], Latest(c))
          THEN /\ EditBlock(c, [block EXCEPT !.status = "success"])
               /\ Goto(c, "begin") /\ UNCHANGED <<then, code>>
          ELSE Raise(c, 2)
    /\ Unchanged(c) /\ UNCHANGED <<git, stale>>

\* mutant: the documents are not read again after the last block
CheckInputs_Trusted(c) ==
    /\ pc[c] = "inputs"
    /\ Goto(c, "git") /\ UNCHANGED <<then, report, code>>
    /\ Unchanged(c) /\ UNCHANGED <<git, stale>>

CheckInputs(c) ==
    /\ pc[c] = "inputs"
    /\ IF BoundInputsHold(args[c], Docs)
       THEN Goto(c, "git") /\ UNCHANGED <<then, report, code>>
       ELSE Raise(c, 2)
    /\ Unchanged(c) /\ UNCHANGED <<git, stale>>

CheckGit(c) ==
    /\ pc[c] = "git"
    /\ IF ~GitRefused(args[c]) /\ GitState(args[c]) = git[c]
       THEN Goto(c, "runtime") /\ UNCHANGED <<then, report, code>>
       ELSE Raise(c, 2)
    /\ Unchanged(c) /\ UNCHANGED <<git, stale>>

Conclude(c) ==
    /\ pc[c] = "runtime"
    /\ IF world.runtime = args[c].runtime
       THEN /\ report' = [report EXCEPT ![c].status = "success",
                                        ![c].eligible = git[c].eligible]
            /\ code' = [code EXCEPT ![c] = 0]
            /\ Save(c, "exit")
       ELSE Raise(c, 2)
    /\ Unchanged(c) /\ UNCHANGED <<git, stale>>

-----------------------------------------------------------------------------
(* A checkpoint.  c itself names the temporary file of client c.           *)

SaveTemp(c) ==
    /\ pc[c] = "temp"
    /\ Unused({fd[d] : d \in Clients}) # {}
    /\ CreateFilled(c, FreshInode({fd[d] : d \in Clients}), report[c])
    /\ Goto(c, "fsync")
    /\ UNCHANGED <<then, code>>

SaveSync(c) ==
    /\ pc[c] = "fsync"
    /\ SyncFile(dir[c])
    /\ Goto(c, "replace")
    /\ UNCHANGED <<then, code>>

SaveReplace(c) ==
    /\ pc[c] = "replace"
    /\ Replace(c, Out)
    /\ Goto(c, "settle")
    /\ UNCHANGED <<then, code>>

\* mutant: the last checkpoint does not sync the directory
SaveSettle_LastUnsynced(c) ==
    /\ pc[c] = "settle"
    /\ IF then[c] = "exit" THEN UNCHANGED fsvars ELSE SyncDir
    /\ Goto(c, IF then[c] = "exit" THEN "over" ELSE then[c])
    /\ UNCHANGED <<then, code>>

\* The checkpoint is over: go on, or leave with the status decided.
SaveSettle(c) ==
    /\ pc[c] = "settle"
    /\ SyncDir
    /\ Goto(c, IF then[c] = "exit" THEN "over" ELSE then[c])
    /\ UNCHANGED <<then, code>>

Checkpoint(c) ==
    /\ SaveTemp(c) \/ SaveSync(c) \/ SaveReplace(c) \/ SaveSettle(c)
    /\ UNCHANGED <<args, fd, report, git, stale, alone>>

\* A call of it fails: the temporary file goes, if it still has its name.
SaveFails(c) ==
    /\ pc[c] \in {"temp", "fsync", "replace", "settle"}
    /\ Spend("errors")
    /\ IF Exists(c) THEN Unlink(c) ELSE UNCHANGED fsvars
    /\ IF then[c] = "exit" THEN Exit(c, 1) /\ UNCHANGED <<then, report>> ELSE Raise(c, 1)
    /\ UNCHANGED <<args, fd, git, stale, alone>>

-----------------------------------------------------------------------------
(* The surroundings.  What changes does not change back.                   *)

Change ==
    /\ Spend("changes")
    /\ \/ world.docs < Len(Bundles) /\ world' = [world EXCEPT !.docs = @ + 1]
       \/ world' = [world EXCEPT !.runtime = @ + 1]
       \/ world.checkout /\ world' = [world EXCEPT !.commit = @ + 1, !.dirty = FALSE]
       \/ world.checkout /\ ~world.dirty /\ world' = [world EXCEPT !.dirty = TRUE]
    /\ UNCHANGED <<fsvars, client>>

Kill(c) ==
    /\ Active(c) /\ Spend("crashes")
    /\ Goto(c, "dead") /\ fd' = [fd EXCEPT ![c] = NoInode]
    /\ UNCHANGED <<fsvars, then, args, report, git, code, stale, alone, world>>

Crash ==
    /\ Spend("crashes")
    /\ \E c \in Clients : Active(c)
    /\ HostCrash
    /\ pc' = [c \in Clients |-> IF Active(c) THEN "dead" ELSE pc[c]]
    /\ fd' = [c \in Clients |-> NoInode]
    /\ UNCHANGED <<then, args, report, git, code, stale, alone, world>>

Step(c) ==
    \/ /\ \/ Parse(c) \/ Taken(c) \/ Open(c) \/ Fill(c) \/ Flush(c) \/ Claim(c)
          \/ Collect(c) \/ Begin(c) \/ Run(c) \/ Load(c) \/ Judge(c)
          \/ CheckInputs(c) \/ CheckGit(c) \/ Conclude(c) \/ Checkpoint(c)
       /\ UNCHANGED left
    \/ ReserveFails(c)
    \/ SaveFails(c)

Next ==
    \/ \E c \in Clients : Step(c) /\ UNCHANGED world
    \/ \E c \in Clients : Kill(c)
    \/ Change
    \/ Crash

Spec == Init /\ [][Next]_vars

-----------------------------------------------------------------------------
(* What a reader of a report may rely on.                                  *)

Labels == {"parse", "open", "fill", "flush", "claim", "collect", "begin", "run", "load", "judge",
           "inputs", "git", "runtime", "temp", "fsync", "replace", "settle", "over", "dead"}

\* Every variable of the clients, the world and the directory has its type.
TypeOK ==
    /\ dir \in [Names -> Inodes \cup {NoInode}]
    /\ disk \in [Names -> SUBSET (Inodes \cup {NoInode})]
    /\ data \in [Inodes -> Reports \cup {Blank, Torn}]
    /\ safe \in [Inodes -> SUBSET (Reports \cup {Blank, Torn})]
    /\ pc \in [Clients -> Labels]
    /\ then \in [Clients -> {"none", "begin", "run", "load", "judge", "exit"}]
    /\ fd \in [Clients -> Inodes \cup {NoInode}]
    /\ report \in [Clients -> Reports]
    /\ git \in [Clients -> [commit : Nat, eligible : BOOLEAN, dirty : BOOLEAN]]
    /\ code \in [Clients -> {-1, 0, 1, 2}]
    /\ stale \in [Clients -> BOOLEAN] /\ alone \in [Clients -> BOOLEAN]
    /\ world \in [docs : DOMAIN Bundles, commit : Nat, dirty : BOOLEAN, checkout : BOOLEAN, runtime : Nat]

\* A report that says success, on disk now or after a crash, is whole: every
\* block ran while the recorded documents, checkout and vLLM client were in
\* place, and its result is the one an undisturbed run gives (run_benchmark,
\* validate_result).  Eligible for a release also means a clean checkout.
SuccessIsEarned ==
    \A r \in OnDisk(Out) \cup {Seen(Out)} :
        r \notin {Absent, Blank, Torn} /\ r.status = "success" =>
            /\ Len(r.blocks) = args[r.by].blocks
            /\ ~stale[r.by]
            /\ \A b \in DOMAIN r.blocks :
                   /\ r.blocks[b].status = "success"
                   /\ Disturbed(r.blocks[b].raw, args[r.by], b)
                          \in {TrueResult(args[r.by], b), Disturbed("terminal", args[r.by], b)}
            /\ r.eligible => git[r.by].eligible /\ ~git[r.by].dirty

\* The gates let through nothing that befalls a result but the terminal event
\* alone, which is no error (validate_result and the gates it calls).
GatesSound ==
    \A s \in Scenarios : \A c \in Clients : \A b \in 1 .. s.args[c].blocks :
        \A d \in s.args[c].mishaps :
            LET a == s.args[c]
                r == Disturbed(d, a, b)
            IN ValidateResult(r, a, b) => r \in {TrueResult(a, b), Disturbed("terminal", a, b)}

\* Every report names documents that bind what it claims: the bytes it gives
\* the artifact are those of distinct files and within the budget, and no
\* served unit is listed under two assignments (_validate_artifact_inventory,
\* _validate_execution_manifest, and the re-validation of both).
EvidenceCoherent ==
    \A r \in OnDisk(Out) \cup {Seen(Out)} :
        r \notin {Absent, Blank, Torn} /\ r.by # Nobody =>
            LET a     == args[r.by]
                files == a.docs.inv.files
                units == [j \in DOMAIN a.docs.man.assignments |-> a.docs.man.assignments[j].unit]
                rungs == {a.docs.man.assignments[j].rung : j \in DOMAIN units}
            IN /\ a.bytes <= a.budget
               /\ a.bytes = MapThenSumSet(LAMBDA f : f.bytes, ToSet(files))
               /\ \A i, j \in DOMAIN units :
                      i # j => \A leaf \in {units[i], units[j]} :
                          ~(IsPrefix(units[i], leaf) /\ IsPrefix(units[j], leaf))
               /\ Cardinality(rungs) > 1 <=> a.rung = "mixed"

\* Exit status 0 promises a report that survives a host crash (main).
ZeroIsDurable ==
    [][\A c \in Clients :
          pc[c] # "over" /\ pc'[c] = "over" /\ code[c] = 0 /\ code'[c] = 0 /\ alone[c] =>
              OnDisk(Out)' = {report[c]} /\ report[c].status = "success"]_vars

\* Nobody's report is replaced by a client that did not ask to overwrite
\* (_reserve_output: O_EXCL makes exactly one of them the owner), unless one
\* of the two did.
ClaimRespected ==
    [][\A c, d \in Clients :
          /\ c # d /\ ~args[c].overwrite /\ ~args[d].overwrite
          /\ Seen(Out) \notin {Absent, Blank, Torn} /\ Seen(Out).by = c
          /\ (Seen(Out) \notin {Absent, Blank, Torn})'
          => Seen(Out)'.by # d]_vars
==============================================================================
