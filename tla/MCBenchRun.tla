------------------------------ MODULE MCBenchRun ------------------------------
(***************************************************************************)
(* Two clients and one name.  The first is given every argument vector,    *)
(* sound or not; the second a plain or an overwriting one.                 *)
(***************************************************************************)
EXTENDS BenchRun

CONSTANTS c1, c2, out

MCClients == {c1, c2}
MCNames   == {c1, c2, out}

File(path, bytes) == [path |-> path, bytes |-> bytes, digest |-> TRUE]
Inv(files, total) ==
    [schema |-> "gridbook", files |-> files, total |-> total, recursive |-> TRUE]
Exported(files, total) ==
    [schema |-> "prismaquant", files |-> [j \in DOMAIN files |-> [files[j] EXCEPT !.digest = FALSE]],
     total |-> total, recursive |-> TRUE]
Man(inv, assignments) ==
    [inventory |-> inv, coverage |-> "all_serving_units", tp |-> 1,
     assignments |-> assignments]
Unit(unit, rung) == [unit |-> unit, rung |-> rung]
Bundle(inv, assignments, evidence) ==
    [inv |-> inv, man |-> Man(inv, assignments), evidence |-> [p \in {"log"} |-> evidence],
     declared |-> <<evidence>>]

Shards == <<File(<<"a">>, 2), File(<<"b">>, 3)>>
Layers == <<Unit(<<"l0">>, "fp4"), Unit(<<"l1">>, "fp8")>>

MCBundles ==
    << Bundle(Inv(Shards, 5), Layers, "v1"),
       Bundle(Inv(Shards, 5), Layers, "v2"),
       Bundle(Inv(Shards, 6), Layers, "v2"),
       Bundle(Inv(<<File(<<"a">>, 2), File(<<"a">>, 2)>>, 4), Layers, "v2"),
       Bundle(Inv(Shards, 5), <<Unit(<<"l0">>, "fp4"), Unit(<<"l0", "q">>, "fp8")>>, "v2"),
       Bundle(Inv(Shards, 5), <<Unit(<<"l0">>, "fp4")>>, "v2"),
       Bundle(Exported(Shards, 5), Layers, "v3") >>

Plain(j) ==
    [docs |-> MCBundles[j], evidence |-> <<"log">>, bytes |-> MCBundles[j].inv.total,
     budget |-> 5, payload |-> -1, tp |-> 1, rung |-> "mixed",
     prefix |-> "on", flags |-> {"enable"}, recorded |-> <<>>,
     label |-> "arm", model |-> "m", prompts |-> 2, conc |-> 1, rate |-> "inf",
     warmups |-> 1, minWarmups |-> 1, blocks |-> 1, minBlocks |-> 1,
     percentiles |-> {50, 95}, seed |-> 7, ranged |-> FALSE, lo |-> 3, hi |-> 3,
     lens |-> <<>>, outLen |-> 1, spec |-> 0,
     overwrite |-> FALSE, allowDirty |-> FALSE, commit |-> NoCommit, runtime |-> 1,
     codes |-> {"ok"}, mishaps |-> {"none"}]

Ranged(j, n) ==
    LET a == [Plain(j) EXCEPT !.ranged = TRUE, !.hi = 5, !.outLen = 3, !.spec = 2,
                              !.recorded = <<2>>, !.blocks = n]
    IN [a EXCEPT !.lens = [k \in 1..n |-> LensOf(a, Command(a, k).seed)]]

Unsound ==
    LET p == Plain(1)
    IN {[p EXCEPT !.budget = 4], [p EXCEPT !.bytes = 4], [p EXCEPT !.rung = "fp4"],
        [p EXCEPT !.flags = {"enable", "disable"}], [p EXCEPT !.recorded = <<2>>],
        [p EXCEPT !.percentiles = {50}], [p EXCEPT !.conc = 3], [p EXCEPT !.tp = 2],
        [p EXCEPT !.evidence = <<"log", "log">>], [p EXCEPT !.docs.declared = <<"v2">>]}
       \cup {Plain(j) : j \in 3..6}
       \cup {[Plain(5) EXCEPT !.rung = "mixed"], [Plain(6) EXCEPT !.rung = "mixed"]}

Beside(a, b) == [c \in MCClients |-> IF c = c1 THEN a ELSE b]
Over(a)      == [a EXCEPT !.overwrite = TRUE]
Anything(a)  == [a EXCEPT !.codes = Codes, !.mishaps = Disturbances]
Idle         == [Plain(1) EXCEPT !.budget = 4]


Clean  == [docs |-> 1, commit |-> 1, dirty |-> FALSE, checkout |-> TRUE, runtime |-> 1]
Dirty  == [Clean EXCEPT !.dirty = TRUE]
Wheel  == [Clean EXCEPT !.checkout = FALSE]

Left(changes, errors, crashes) ==
    [changes |-> changes, errors |-> errors, crashes |-> crashes]
Scene(a, b, w, l) == [args |-> Beside(a, b), world |-> w, left |-> l]

\* Unsound arguments meet the documents they declare; a client alone meets
\* everything; two clients share the name while one call or host fails.
MCScenarios ==
    {Scene(a, Idle, [Clean EXCEPT !.docs = CHOOSE j \in 1..Len(MCBundles) : MCBundles[j] = a.docs],
           Left(0, 0, 0)) : a \in {u \in Unsound : \E j \in 1..Len(MCBundles) : MCBundles[j] = u.docs}}
    \cup {Scene(a, Idle, Clean, Left(0, 0, 0)) : a \in Unsound}
    \cup {Scene(Anything(Ranged(1, 2)), Idle, Clean, l) : l \in {Left(1, 0, 1), Left(1, 1, 0)}}
    \cup {Scene([Plain(1) EXCEPT !.commit = 1, !.allowDirty = d], Idle, w, Left(1, 0, 0)) :
              d \in BOOLEAN, w \in {Clean, Dirty, Wheel}}
    \cup {Scene(Plain(1), Idle, w, Left(1, 0, 1)) : w \in {Clean, Wheel}}
    \cup {Scene(Plain(7), Idle, [Clean EXCEPT !.docs = 7], Left(0, 0, 0))}
    \cup {Scene(a, b, Clean, l) : a \in {Plain(1)}, b \in {Plain(1), Over(Plain(1))},
                                l \in {Left(0, 1, 0), Left(0, 0, 1)}}
    \cup {Scene(Over(Plain(1)), Over(Plain(1)), Clean, l) : l \in {Left(0, 1, 0), Left(0, 0, 1)}}

\* What the theorem about a report of success rests on, for these command lines.
ASSUME Gates == GatesSound
==============================================================================
