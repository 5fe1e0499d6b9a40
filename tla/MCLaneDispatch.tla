---------------------------- MODULE MCLaneDispatch ----------------------------
(***************************************************************************)
(* Instances of LaneDispatch: one or two layers, the hosts they load on,   *)
(* the flags of the process and the calls they get.                        *)
(***************************************************************************)
EXTENDS LaneDispatch

(* Hosts. *)
Ext(cap, symbols) == [cap |-> cap, has |-> symbols, rungs |-> {}, tiles |-> {}]
Built(cap) ==
    "main" :> Ext(cap, {})
    @@ "v2"    :> Ext(cap, {"expand", "gemv_v2"})
    @@ "bf16"  :> Ext(cap, {"sm120"})
    @@ "fp4v2" :> [Ext(cap, {"midm"}) EXCEPT !.rungs = {12, 16}]
    @@ "fp8"   :> [Ext(cap, {"out", "tile_m"}) EXCEPT !.rungs = {28, 32}, !.tiles = {64, 128}]
    @@ "fp4"   :> Ext(cap, {"dense", "grouped", "rows", "lsq"})
    @@ "pb"    :> [Ext(cap, {"prefill", "d2r"}) EXCEPT !.tiles = {1, 2, 4}]
    @@ "source8" :> Ext(cap, {"gemv", "expand"})
    @@ "mxfp8"   :> Ext(cap, {"dense_mm"})
    @@ "trellis" :> Ext(cap, {})
Host(cap) ==
    [cap |-> "gpu0" :> cap, smem |-> {"gpu0"}, ops |-> {"cutlass", "fp4_quant"}, ext |-> Built(cap),
     attention |-> {"FlashInferMLA"}]
Spark  == Host("12.1")
Ada    == Host("8.9")
\* Two kinds of devices, every module built for the first.
Mixed  == [Host("12.0") EXCEPT !.cap = "gpu0" :> "12.0" @@ "gpu1" :> "12.1", !.smem = {"gpu0", "gpu1"}]
Without(name)         == [Spark EXCEPT !.ext[name] = Absent]
Lacks(name, symbol)   == [Spark EXCEPT !.ext[name].has = @ \ {symbol}]
Unknown               == [Spark EXCEPT !.cap["gpu0"] = Absent]

(* Layers. *)
Role(book, rows) == [book |-> book, rows |-> rows]
Dense(grid, k, roles, widths, owner) ==
    [kind |-> "dense", dev |-> "gpu0", grid |-> grid, k |-> k,
     sub |-> IF grid = "fp4" THEN 2 ELSE 4, size |-> IF grid = "fp4" THEN (4 * k) + 9 ELSE 4 * k,
     v2 |-> grid = "fp4", static |-> TRUE, in |-> 256, sliced |-> 256, out |-> Total([i \in DOMAIN roles |-> roles[i].rows]),
     roles |-> roles, widths |-> widths, owner |-> owner, bmm |-> FALSE]
Plain(grid, k, roles) ==
    Dense(grid, k, roles, [i \in DOMAIN roles |-> roles[i].rows], [i \in DOMAIN roles |-> i])
OneRole(grid, k)  == Plain(grid, k, <<Role("A", 128)>>)
Shared           == Plain("fp4", 16, <<Role("A", 64), Role("A", 64)>>)
OnTile           == Plain("fp4", 16, <<Role("A", 128), Role("B", 64), Role("B", 64), Role("A", 64)>>)
OffTile          == Plain("fp4", 16, <<Role("A", 136), Role("B", 48), Role("A", 72)>>)
\* Two roles, four logical shards, two ranks.
Merged           == Dense("fp4", 16, <<Role("A", 256), Role("B", 128)>>, <<64, 32, 32, 64>>, <<1, 1, 1, 2>>)
MergedBadly      == Dense("fp4", 16, <<Role("A", 257), Role("B", 127)>>, <<64, 32, 32, 64>>, <<1, 1, 1, 2>>)
Fp8Split         == Plain("fp8", 28, <<Role("A", 64), Role("B", 64)>>)

Moe(grid, k, books) ==
    [kind |-> "moe", dev |-> "gpu0", grid |-> grid, k |-> k,
     sub |-> IF grid = "fp4" THEN 2 ELSE 4, size |-> IF grid = "fp4" THEN (4 * k) + 9 ELSE 4 * k,
     v2 |-> grid = "fp4", static |-> TRUE, hidden |-> 2048, inter |-> 512, books |-> books]
OneBook    == [r \in Roles |-> "A"]
SplitBooks == "gate" :> "A" @@ "up" :> "A" @@ "down" :> "B"
MoeFp4     == Moe("fp4", 16, OneBook)
MoeFp8     == Moe("fp8", 28, OneBook)
MoeSplit   == Moe("fp8", 28, SplitBooks)
On(dev, l) == [l EXCEPT !.dev = dev]

(* Environments. *)
Env == [f \in Flags \cup ModeVars |-> ""] @@ Cfg :> 0
Set(flag, value) == [Env EXCEPT ![flag] = value]
And(flags, flag, value) == [flags EXCEPT ![flag] = value]

(* Scenarios. *)
Still(host, flags, layers, asked) ==
    [host |-> host, env |-> flags, changes |-> {}, layers |-> layers, calls |-> asked,
     captures |-> {}, told |-> TRUE]
DenseRows == {<<8, "bf16">>, <<16, "bf16">>, <<17, "bf16">>, <<128, "fp16">>, <<129, "bf16">>, <<17, "fp32">>}
MoeRows   == {<<16, "bf16">>, <<17, "bf16">>, <<17, "fp16">>, <<300, "fp32">>}
Few       == {<<9, "bf16">>, <<128, "bf16">>}

FusedModes    == DOMAIN Spellings["FUSED_FP4"] \ {""}
FusedMoeModes == {"128", "256", "static_lsq256", "rowwise"}

\* Fused projections: where the books change, and what that lets a layer load.
Projections ==
    {Still(Spark, flags, <<l>>, {<<8, "bf16">>, <<17, "bf16">>, <<129, "bf16">>}) :
        l \in {Shared, OnTile, OffTile, Merged, MergedBadly, [Shared EXCEPT !.bmm = TRUE]},
        flags \in {Env, Set("FUSED_FP4", "1"), Set("FP4_FUSED_MIDM", "1"), Set("BF16_SM120", "1")}}

\* Every spelling of the dense flag, with and without the attested scalar.
DenseModes ==
    {Still(Spark, And(Set("FUSED_FP4", mode), "FP4_FUSED_MIDM", midm), <<l>>, DenseRows) :
        mode \in FusedModes, midm \in {"", "1"},
        l \in {OneRole("fp4", 16), [OneRole("fp4", 16) EXCEPT !.static = FALSE]}}

\* The default chain, and hosts that lack what a flag names.
DenseHosts ==
    {Still(host, flags, <<OneRole("fp4", 16)>>, Few) :
        host \in {Spark, Ada, Unknown, Lacks("bf16", "sm120"), Lacks("fp4v2", "midm"), Lacks("fp4", "lsq"),
                  Without("v2"), Without("main"), [Spark EXCEPT !.ops = {}], [Spark EXCEPT !.smem = {}]},
        flags \in {And(Set("BF16_SM120", "1"), "FP4_FUSED_MIDM", "1"), Set("BF16_SM120", "1"),
                 Set("FUSED_FP4", "static_lsq"), Set("FUSED_FP4", "1"), Set("FUSED_FP4", "on")}}
    \cup {Still(Spark, Set("FP4_FUSED_MIDM", "1"), <<OneRole("fp4", 20)>>, Few),
          Still(Spark, Env, <<[OneRole("fp4", 16) EXCEPT !.v2 = FALSE, !.size = 80]>>, Few)}

DenseFp8 ==
    {Still(host, Set("FUSED_MIDM", asked), <<l>>, {<<8, "bf16">>, <<9, "bf16">>, <<129, "bf16">>}) :
        host \in {Spark, Ada, Without("fp8"), [Spark EXCEPT !.ops = {}]},
        asked \in {"", "0", "1"},
        l \in {OneRole("fp8", 28), OneRole("fp8", 30), OneRole("fp8", 36), Fp8Split}}

RoutedStacks ==
    {Still(Spark, And(Set("FUSED_FP4_MOE", mode), "MOE_PERSISTENT_B", pb), <<l>>, MoeRows) :
        mode \in {""} \cup FusedMoeModes, pb \in {"", "require", "off"},
        l \in {MoeFp4, MoeFp8, MoeSplit, [MoeFp4 EXCEPT !.static = FALSE], [MoeFp4 EXCEPT !.books = SplitBooks]}}

RoutedHosts ==
    {Still(host, And(Set("MOE_PERSISTENT_B", pb), "BF16_SM120", sm120), <<l>>, MoeRows) :
        host \in {Ada, Unknown, Without("pb"), Without("fp8"), Lacks("pb", "prefill"), Lacks("v2", "gemv_v2"),
                  Lacks("fp8", "out"), Lacks("fp8", "tile_m"), [Spark EXCEPT !.smem = {}]},
        pb \in {"", "require"}, sm120 \in {"", "1"}, l \in {MoeFp4, MoeFp8, MoeSplit, Moe("fp8", 30, OneBook)}}

\* The tile override, the direct-to-register experiment, the GEMV selectors.
RoutedFlags ==
    {Still(Spark, And(And(Set("MOE_PERSISTENT_B_D2R", "1"), "MOE_PERSISTENT_B", pb), "FUSED_FP4_MOE", mode),
           <<l>>, MoeRows) :
        pb \in {"", "1", "0"}, mode \in {"", "128"}, l \in {MoeFp4, MoeFp8}}
    \cup {Still(Spark, And(Set("MOE_PERSISTENT_B", pb), Cfg, cfg), <<l>>, MoeRows) :
        pb \in {"", "0"}, cfg \in {1, 3, 4}, l \in {MoeFp4, Moe("fp8", 32, OneBook), Moe("fp8", 36, OneBook)}}
    \cup {Still(Spark, And(Set("CB_GEMV", gemv), "FP8_GEMV_V2", fp8), <<l>>, {<<16, "bf16">>, <<17, "bf16">>}) :
        gemv \in {"", "v2", "inherited", "v3"}, fp8 \in {"", "0", "1"},
        l \in {MoeFp4, Moe("fp4", 24, OneBook), [MoeFp8 EXCEPT !.inter = 4096], MoeFp8}}

\* Two devices, the modules built for one of them.
TwoDevices ==
    {Still(Mixed, flags, <<On(first, l), On(second, l)>>, {<<17, "bf16">>}) :
        flags \in {Env, Set("BF16_SM120", "1"), Set("FP4_FUSED_MIDM", "1"), Set("FUSED_MIDM", "1"),
                 Set("MOE_PERSISTENT_B", "require")},
        first \in {"gpu0", "gpu1"}, second \in {"gpu0", "gpu1"}, l \in {MoeFp4, OneRole("fp4", 16), OneRole("fp8", 28)}}

\* The environment changes between two loads, or between two calls.
Changing ==
    {[Still(Spark, flags, layers, {<<9, "bf16">>, <<17, "bf16">>}) EXCEPT !.changes = changes] :
        flags \in {Env, Set("FUSED_FP4", "1"), Set("MOE_PERSISTENT_B", "require")},
        layers \in {<<OneRole("fp4", 16), OneRole("fp4", 16)>>, <<OneRole("fp8", 28), OneRole("fp8", 28)>>,
                    <<MoeFp4, MoeFp4>>, <<OneRole("fp4", 16), MoeFp4>>},
        changes \in {{<<"FUSED_FP4", "rowwise">>, <<"FUSED_FP4", "">>},
                     {<<"FUSED_FP4_MOE", "1">>, <<"MOE_PERSISTENT_B", "off">>},
                     {<<"FP4_FUSED_MIDM", "1">>, <<"FUSED_MIDM", "0">>},
                     {<<"BF16_SM120", "1">>, <<"MOE_PERSISTENT_B_D2R", "1">>}}}

(* Source FP8: planes whole, sharded by columns, by rows, or both. *)
Source8(in, sliced, out, widths, rank) ==
    [kind |-> "source8", dev |-> "gpu0", in |-> in, sliced |-> sliced, out |-> out, widths |-> widths,
     rank |-> rank, groups |-> 0, typed |-> TRUE, class |-> ""]
Bmm(groups, sliced, out, share, rank) ==
    [Source8(sliced, sliced, out, <<share>>, rank) EXCEPT !.groups = groups, !.class = "FlashInferMLA"]

SourcePlanes ==
    {Source8(256, 256, 352, <<256, 96>>, 0), Source8(256, 256, 1024, <<256, 128, 128>>, 1),
     Source8(256, 256, 640, <<160, 160>>, 1), Source8(512, 128, 96, <<96>>, 2),
     Source8(384, 192, 128, <<128>>, 1), Source8(512, 256, 512, <<256>>, 1), Source8(300, 200, 128, <<128>>, 0),
     [Source8(256, 256, 128, <<128>>, 0) EXCEPT !.typed = FALSE], Source8(252, 252, 128, <<128>>, 0)}
SourceBmms ==
    {Bmm(8, 4096, 8192, 8192, 0), Bmm(4, 4096, 8192, 4096, 1), Bmm(2, 4096, 8192, 2048, 3),
     Bmm(8, 4096, 8192, 4096, 1), Bmm(3, 4096, 8192, 4096, 0)}

SourceFp8 ==
    {Still(host, Env, <<l>>, {<<8, "bf16">>, <<9, "bf16">>, <<9, "fp16">>}) :
        host \in {Spark, Ada, Without("source8"), Without("bf16"), [Spark EXCEPT !.attention = {}],
                  [Spark EXCEPT !.ext["source8"].cap = "12.0"]},
        l \in {Source8(256, 256, 352, <<256, 96>>, 0), Bmm(8, 4096, 8192, 8192, 0)}}
    \cup {Still(Spark, Env, <<l>>, Few) : l \in SourcePlanes \cup SourceBmms}

(* MXFP8, with and without captures. *)
Mxfp8(sliced, out, groups, tp) ==
    [kind |-> "mxfp8", dev |-> "gpu0", sliced |-> sliced, out |-> out, groups |-> groups, tp |-> tp,
     class |-> "FlashInferMLA"]
CapturedCalls(base, sizes, told) == [base EXCEPT !.captures = sizes, !.told = told]

Mxfp8Layers ==
    {CapturedCalls(Still(Spark, Set("MXFP8_DENSE", asked), layers, {<<1, "bf16">>, <<4, "bf16">>}), sizes, told) :
        asked \in {"", "1"}, sizes \in {{}, {1, 4}}, told \in BOOLEAN,
        layers \in {<<Mxfp8(64, 128, 0, 1)>>, <<Mxfp8(64, 4, 0, 1), Mxfp8(64, 1, 0, 1)>>,
                    <<Mxfp8(64, 8, 2, 1), Mxfp8(128, 4, 0, 1)>>}}
    \cup {Still(host, Set("MXFP8_DENSE", "1"), <<l>>, Few) :
        host \in {Ada, Unknown, Without("mxfp8"), Host("12.0"), [Spark EXCEPT !.ext["mxfp8"].cap = "12.0"],
                  [Spark EXCEPT !.attention = {"Other"}]},
        l \in {Mxfp8(64, 8, 2, 1), Mxfp8(64, 8, 0, 1)}}
    \cup {Still(Spark, Set("MXFP8_DENSE", "1"), <<l>>, Few) :
        l \in {Mxfp8(48, 8, 0, 1), Mxfp8(64, 8, 3, 1), Mxfp8(64, 8, 2, 2)}}

(* Trellis planes, small and deterministic, of every kind of schedule. *)
Codes(family, rate) ==
    LET every == FullAlphabet(family)
        apart == SelectSeq([i \in DOMAIN every |-> i],
                           LAMBDA i : \A h \in 1..(i - 1) : every[h] # every[i])
        size  == 2^(rate + 1)
    IN IF family = "e4m3" /\ rate = 7 THEN every
       ELSE [i \in 1..size |-> every[apart[1 + (((i - 1) * (Len(apart) - 1)) \div (size - 1))]]]
Planes(family, layout, rate, schedule, rows) ==
    LET width == Len(schedule)
    IN [family |-> family, layout |-> layout, rate |-> rate, schedule |-> schedule,
        u |-> [r \in 1..rows |-> [c \in 1..width |-> ((c * c) + (3 * r * c) + (c \div 3)) % 2]],
        point |-> [r \in 1..rows |-> [c \in 1..width |->
            IF schedule[c] = Terminal(family) THEN 0 ELSE ((5 * c) + r) % 2^(schedule[c] - 1)]],
        bypass |-> [r \in 1..rows |-> [c \in 1..width |-> (c + r) % Half(family)]],
        alphabets |-> [s \in {schedule[c] : c \in 1..width} \ {Terminal(family)} |-> Codes(family, s)],
        scales |-> [r \in 1..rows |-> [g \in 1..(IF family = "e2m1" THEN CeilDiv(width, GroupSize) ELSE 1) |->
                        1 + (((7 * r) + g) % 100)]],
        gsr |-> IF family = "e2m1" THEN 3 ELSE 1]

SchemeOf(p) ==
    [family |-> p.family, rate |-> p.rate, rows |-> Len(p.u), columns |-> Len(p.schedule),
     bytes |-> WireBytes(Pack(p))]
Trellis(p) ==
    [kind |-> "trellis", dev |-> "gpu0", planes |-> p, blob |-> Blob(Pack(p)), scheme |-> SchemeOf(p),
     in |-> Len(p.schedule), out |-> Len(p.u), gs |-> 1]
Damaged(l, wire) == [l EXCEPT !.blob = [Blob(wire) EXCEPT !.digest = l.blob.digest]]

\* Uniform, mixed, and with columns that store their native code; the last
\* block may be short.
E2m1Mixed  == Planes("e2m1", "fixed", 20, SpreadSchedule(20, 12), 2)
E2m1Bypass == Planes("e2m1", "tight", 19, [c \in 1..12 |-> IF c \in {2, 7, 10} THEN 4 ELSE 1 + (c % 3)], 3)
E2m1Tall   == Planes("e2m1", "fixed", 8, SpreadSchedule(8, 8), 9)
E4m3Mixed  == Planes("e4m3", "fixed", 36, SpreadSchedule(36, 11), 2)
E4m3Bypass == Planes("e4m3", "tight", 52, [c \in 1..12 |-> IF c % 4 = 0 THEN 8 ELSE 6], 2)
E4m3Full   == Planes("e4m3", "fixed", 56, SpreadSchedule(56, 8), 1)

Whole  == {Trellis(p) : p \in {E2m1Mixed, E2m1Bypass, E2m1Tall, E4m3Mixed, E4m3Bypass, E4m3Full}}
Broken ==
    LET e2m1 == Trellis(E2m1Mixed)  e4m3 == Trellis(E4m3Bypass)  w2 == e2m1.blob.wire  w4 == e4m3.blob.wire
    IN {Damaged(e2m1, [w2 EXCEPT !.payload[1][Len(w2.payload[1])] = 1]),
        Damaged(e2m1, [w2 EXCEPT !.offsets[2] = @ + 1]),
        Damaged(e2m1, [w2 EXCEPT !.scales[1][1] = 0]),
        Damaged(e2m1, [w2 EXCEPT !.gsr = 0]),
        Damaged(e2m1, [w2 EXCEPT !.alphabets[2] = Codes("e2m1", 1) \o Codes("e2m1", 1)]),
        [e2m1 EXCEPT !.blob.bytes = @ + 1], [e2m1 EXCEPT !.scheme.rate = 19], [e2m1 EXCEPT !.out = 3],
        [e2m1 EXCEPT !.gs = 0], Trellis([E2m1Mixed EXCEPT !.layout = "fixed", !.rate = 21]),
        Damaged(e4m3, [w4 EXCEPT !.payload[1] = [i \in DOMAIN @ |-> IF i <= w4.bodyBits THEN 1 ELSE 0]]),
        [e4m3 EXCEPT !.scheme.rate = 62]}

Decoded ==
    {Still(Spark, And(Set(TrellisFlag(l), "1"), ModeVar(l.scheme.family), mode), <<l>>, {<<8, "bf16">>}) :
        l \in Whole, mode \in {"resident", "streamed"}}
    \cup {Still(Spark, And(Set(TrellisFlag(l), asked), ModeVar(l.scheme.family), mode), <<l>>, {<<8, "bf16">>}) :
        l \in {Trellis(E2m1Mixed)}, asked \in {"", "0", "1", "yes"}, mode \in {"", "auto", "resident"}}
    \cup {Still(host, And(Set(TrellisFlag(l), "1"), ModeVar(l.scheme.family), "resident"), <<l>>, {<<8, "bf16">>}) :
        l \in Broken \cup {Trellis(E4m3Mixed)}, host \in {Spark, Without("trellis"), [Spark EXCEPT !.ops = {}]}}

\* The opt-in and the mode change between two constructions.
Rebuilt ==
    {[Still(Spark, And(Set("TRELLIS_E2M1", "1"), "TRELLIS_E2M1_MODE", "resident"),
            <<Trellis(E2m1Mixed), Trellis(E2m1Tall)>>, {<<8, "bf16">>})
        EXCEPT !.changes = {<<"TRELLIS_E2M1", "0">>, <<"TRELLIS_E2M1_MODE", "streamed">>}]}

\* A rate-1/2 code of memory three (13 and 17 in octal).
TapSets == <<{0, 1, 3}, {0, 1, 2, 3}>>

AllScenarios ==
    Projections \cup DenseModes \cup DenseHosts \cup DenseFp8 \cup RoutedStacks \cup RoutedHosts \cup RoutedFlags
        \cup TwoDevices \cup Changing \cup SourceFp8 \cup Mxfp8Layers \cup Decoded \cup Rebuilt
=============================================================================
