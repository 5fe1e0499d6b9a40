----------------------------- MODULE LaneDispatch ------------------------------
(***************************************************************************)
(* The choice of a kernel, from the construction of a model to the last    *)
(* call: layers are constructed one after the other, then finalized in the *)
(* same order; each pins the environment flags it reads and keeps the      *)
(* lanes it attested, and calls then take one of them (gridbook/linear.py, *)
(* moe.py, fp8_source_w8a16.py, mxfp8_dense_lane.py, the trellis lanes).   *)
(*                                                                         *)
(* The environment may change at any time, a probe of a device may fail at *)
(* random, and so may any launch.  A load that refuses ends the process.   *)
(***************************************************************************)
EXTENDS SourceLanes, MoELanes

CONSTANTS
    Scenarios,   \* [host, env, changes: the <<flag, spelling>> that may come, layers, calls: the <<rows, dtype>>
                 \*  of a call, captures: the row counts of graph captures, told: can load read them?]
    MaxFlips,    \* bound: changes of the environment
    MaxCalls     \* bound: calls

Cfg == "MOE_PERSISTENT_B_CFG"

\* What vLLM hands over: a fused projection is whole shards, each within the
\* rank's share of the role it belongs to; inner roles of a source plane fill
\* their scale blocks; grouped products stand in a known attention class.
ShardsOk(l) ==
    /\ l.out \in Nat \ {0} /\ l.widths \in Seq(Nat \ {0}) /\ l.widths # << >>
    /\ Len(l.roles) \in Nat \ {0} /\ DOMAIN l.roles = 1..Len(l.roles)
    /\ \A i \in DOMAIN l.roles : l.roles[i].rows \in Nat
    /\ l.owner \in [DOMAIN l.widths -> DOMAIN l.roles]
    /\ WidthsAgree(l) => \A j \in DOMAIN l.widths :
        /\ Upto(RoleWidths(l), l.owner[j] - 1) <= Upto(l.widths, j - 1)
        /\ Upto(l.widths, j) <= Upto(RoleWidths(l), l.owner[j])
PlaneOk(l) ==
    /\ l.in \in Nat \ {0} /\ l.sliced \in Nat \ {0} /\ l.out \in Nat \ {0} /\ l.rank \in Nat
    /\ l.widths \in Seq(Nat \ {0}) /\ l.widths # << >>
    /\ \A j \in 1..(Len(l.widths) - 1) : l.widths[j] % SourceBlock = 0 \/ ColDegree(l) > 1
LayerOk(host, l) ==
    /\ l.dev \in DOMAIN host.cap
    /\ \/ l.kind = "dense" /\ l.grid \in {"fp4", "fp8"} /\ ShardsOk(l)
       \/ l.kind = "moe" /\ l.grid \in {"fp4", "fp8"}
       \/ l.kind = "source8" /\ PlaneOk(l)
       \/ l.kind \in {"mxfp8", "trellis"}
    /\ l.kind \in {"source8", "mxfp8"} =>
        l.groups = 0 \/ Wrappable(host) = {} \/ l.class \in Wrappable(host)

ASSUME LanesAssumption ==
    /\ MaxFlips \in Nat /\ MaxCalls \in Nat
    /\ \A s \in Scenarios :
        /\ DOMAIN s.env = Flags \cup ModeVars \cup {Cfg}
        /\ Len(s.layers) \in Nat \ {0} /\ DOMAIN s.layers = 1..Len(s.layers)
        /\ \A i \in DOMAIN s.layers : LayerOk(s.host, s.layers[i])
        /\ \A call \in s.calls : call[1] \in Nat

VARIABLES scenario,
          env,             \* os.environ
          pinned,          \* the latches: the spelling each flag was first read with
          phase, next,     \* "constructing" | "loading" | "serving" | "refused"; the layer whose turn it is
          built,           \* what construction left on each layer: the residency mode of a trellis
          kept,            \* what load left on each layer
          v2ok,            \* _CB_GEMV_V2_OK
          offsets,         \* the keys of _OFFSETS
          wrapped,         \* the attention classes whose _o_proj is wrapped
          route,           \* the route record of each layer
          ran,             \* the last call of each layer: the launch, its rows, and did it return
          flips, calls     \* what the bounds count

processVars == <<v2ok, offsets, wrapped>>
servedVars  == <<route, ran, calls>>
vars == <<scenario, env, pinned, phase, next, built, kept, processVars, servedVars, flips>>

Layers  == scenario.layers
Devices == DOMAIN scenario.host.cap

Init ==
    /\ scenario \in Scenarios
    /\ env = scenario.env
    /\ pinned = [f \in Flags |-> Absent]
    /\ phase = "constructing" /\ next = 1
    /\ built = [i \in DOMAIN Layers |-> Absent]
    /\ kept = [i \in DOMAIN Layers |-> Absent]
    /\ v2ok = [d \in Devices |-> Absent]
    /\ offsets = {} /\ wrapped = {}
    /\ route = [i \in DOMAIN Layers |-> Absent]
    /\ ran = [i \in DOMAIN Layers |-> Absent]
    /\ flips = 0 /\ calls = 0

SetFlag ==
    /\ phase # "refused" /\ flips < MaxFlips
    /\ \E change \in scenario.changes :
        /\ env[change[1]] # change[2]
        /\ env' = [env EXCEPT ![change[1]] = change[2]]
    /\ flips' = flips + 1
    /\ UNCHANGED <<scenario, pinned, phase, next, built, kept, processVars, servedVars>>

Refuse ==
    /\ phase' = "refused"
    /\ UNCHANGED <<scenario, env, pinned, next, built, kept, processVars, servedVars, flips>>

AllReadable(flags) == \A f \in flags : Readable(env, pinned, f)

-----------------------------------------------------------------------------
(* The method of each layer is built and its parameters created. *)

\* The opt-in lanes read their flag here, the codebook lanes none.
FlagsBuilt(l) ==
    CASE l.kind = "mxfp8" -> {"MXFP8_DENSE"}
      [] l.kind = "trellis" -> {TrellisFlag(l)}
      [] l.kind \notin {"mxfp8", "trellis"} -> {}

OptedIn(l) == \A f \in FlagsBuilt(l) : Selected(env, f) = "on"

Builds(l) ==
    CASE l.kind = "dense" -> Constructs(l)
      [] l.kind = "moe" -> TRUE
      [] l.kind = "source8" -> Source8Constructs(l)
      [] l.kind = "mxfp8" -> Mxfp8Constructs(l, OptedIn(l))
      [] l.kind = "trellis" -> TrellisConstructs(l, OptedIn(l), env[ModeVar(l.scheme.family)])

Construct ==
    /\ phase = "constructing"
    /\ \E l \in {Layers[next]} :
        IF AllReadable(FlagsBuilt(l)) /\ Builds(l)
        THEN /\ built' = [built EXCEPT ![next] =
                    IF l.kind = "trellis" THEN env[ModeVar(l.scheme.family)] ELSE Absent]
             /\ pinned' = Pin(env, pinned, FlagsBuilt(l))
             /\ next' = IF next = Len(Layers) THEN 1 ELSE next + 1
             /\ phase' = IF next = Len(Layers) THEN "loading" ELSE "constructing"
             /\ UNCHANGED <<scenario, env, kept, processVars, servedVars, flips>>
        ELSE Refuse

-----------------------------------------------------------------------------
(* process_weights_after_loading *)

FlagsRead(l) ==
    CASE l.kind = "dense" -> LinearFlags(l)
      [] l.kind = "moe" -> MoEFlags(l)
      [] l.kind \notin {"dense", "moe"} -> {}

Keep(i, form) ==
    /\ kept' = [kept EXCEPT ![i] = form]
    /\ pinned' = Pin(env, pinned, FlagsRead(Layers[i]))
    /\ next' = i + 1
    /\ phase' = IF i = Len(Layers) THEN "serving" ELSE "loading"
    /\ UNCHANGED <<scenario, env, built, servedVars, flips>>

LoadLinear(i, l) ==
    \E form \in {Form(l)} :
        IF WidthsAgree(l) /\ AllReadable(FlagsRead(l)) /\ LinearLoads(scenario.host, l, form, env)
        THEN Keep(i, LinearKept(scenario.host, l, form, env)) /\ UNCHANGED processVars
        ELSE Refuse

\* A probe that fails leaves its verdict behind for the whole process.
LoadMoE(i, l) ==
    IF AllReadable(FlagsRead(l)) /\ MoELoads(scenario.host, l, env, env[Cfg])
    THEN \E asks \in {l.grid = "fp4" /\ l.v2 /\ WantsV2(Selected(env, "CB_GEMV"), l)} :
         \E answer \in {V2Verdict(scenario.host, v2ok, l.dev)}
                          \cup (IF asks /\ Probes(scenario.host, v2ok, l.dev) THEN {FALSE} ELSE {}) :
            /\ v2ok' = IF asks /\ Probes(scenario.host, v2ok, l.dev)
                       THEN [v2ok EXCEPT ![l.dev] = answer] ELSE v2ok
            /\ Keep(i, MoEKept(scenario.host, l, env, answer))
            /\ UNCHANGED <<offsets, wrapped>>
    ELSE Refuse

\* A grouped product marks its layer and wraps the attention around it.
Wrapping(l) == wrapped \cup (IF l.groups > 0 THEN Wrappable(scenario.host) ELSE {})

LoadSource8(i, l) ==
    IF Source8Loads(scenario.host, l)
    THEN Keep(i, [marked |-> l.groups > 0]) /\ wrapped' = Wrapping(l) /\ UNCHANGED <<v2ok, offsets>>
    ELSE Refuse

LoadMxfp8(i, l) ==
    IF Mxfp8Loads(scenario.host, l)
    THEN /\ Keep(i, [marked |-> l.groups > 0])
         /\ wrapped' = Wrapping(l)
         /\ offsets' = offsets \cup WarmedBy(l, IF scenario.told THEN scenario.captures ELSE {})
         /\ UNCHANGED v2ok
    ELSE Refuse

LoadTrellis(i, l) ==
    IF TrellisLoads(scenario.host, l)
    THEN Keep(i, TrellisKept(l, built[i])) /\ UNCHANGED processVars
    ELSE Refuse

Load ==
    /\ phase = "loading"
    /\ \E l \in {Layers[next]} :
        \/ l.kind = "dense"   /\ LoadLinear(next, l)
        \/ l.kind = "moe"     /\ LoadMoE(next, l)
        \/ l.kind = "source8" /\ LoadSource8(next, l)
        \/ l.kind = "mxfp8"   /\ LoadMxfp8(next, l)
        \/ l.kind = "trellis" /\ LoadTrellis(next, l)

-----------------------------------------------------------------------------
(* apply *)

Grouped(l) == l.kind \in {"source8", "mxfp8"} /\ l.groups > 0

\* A grouped product is reached through the attention layer around it, which
\* without the wrapper reads the parameters by itself.
LaunchOf(l, form, rows, dtype, captured) ==
    IF Grouped(l) /\ ProjectedBy(wrapped, l.class, form.marked) = "vllm"
    THEN Launch("fp8_einsum", "", "none", FALSE)
    ELSE CASE l.kind = "dense"   -> LinearLaunch(scenario.host, l, form, rows, dtype # "fp32")
           [] l.kind = "moe"     -> MoELaunch(scenario.host, l, form, rows, dtype)
           [] l.kind = "source8" -> Source8Launch(rows, dtype)
           [] l.kind = "mxfp8"   -> Mxfp8Launch(l, offsets, rows, captured)
           [] l.kind = "trellis" -> TrellisLaunch(scenario.host, l, form)

\* A dense call quantizes its activations before the record that announces
\* its kernel, except for the FP8 decode kernel, which takes them as they are:
\* what raises there leaves the old record.
Unannounced(l, launch) ==
    IF l.kind = "dense" /\ launch.writes = "twice" /\ launch.symbol # "cb_gemv_fp8"
    THEN {Refusal(FALSE)} ELSE {}
LaunchesOf(l, form, rows, dtype, captured) ==
    LET launch == LaunchOf(l, form, rows, dtype, captured)
    IN {launch} \cup Unannounced(l, launch)

\* A dense layer reads one flag again; a change raises before anything ran.
Reread(l, rows) == IF l.kind = "dense" THEN RereadFlags(l, rows) ELSE {}

Capturable(l, rows) == IF l.kind = "mxfp8" /\ rows \in scenario.captures THEN BOOLEAN ELSE {FALSE}

Call(i) ==
    /\ phase = "serving" /\ calls < MaxCalls
    /\ \E call \in scenario.calls : \E captured \in Capturable(Layers[i], call[1]) :
        \E launch \in LaunchesOf(Layers[i], kept[i], call[1], call[2], captured) : \E returned \in BOOLEAN :
        /\ \A f \in Reread(Layers[i], call[1]) : Readable(env, pinned, f)
        /\ launch.symbol = "" => ~returned
        /\ route' = [route EXCEPT ![i] = Recorded(@, launch, returned, call[1])]
        /\ ran' = [ran EXCEPT ![i] =
                [launch |-> launch, rows |-> call[1], captured |-> captured, returned |-> returned]]
        /\ offsets' = IF launch.symbol = "mxfp8_dense_mm"
                      THEN offsets \cup {OffsetKey(call[1], Layers[i], "a")} ELSE offsets
    /\ calls' = calls + 1
    /\ UNCHANGED <<scenario, env, pinned, phase, next, built, kept, v2ok, wrapped, flips>>

Next == SetFlag \/ Construct \/ Load \/ \E i \in DOMAIN Layers : Call(i)

Spec == Init /\ [][Next]_vars

-----------------------------------------------------------------------------
(* Properties. *)

Calls == {i \in DOMAIN Layers : ran[i] # Absent}
CallsOf(kind) == {i \in Calls : Layers[i].kind = kind}
Returned(kind, grid) == {i \in CallsOf(kind) : ran[i].returned /\ Layers[i].grid = grid}
Told(flag) == Selected(pinned, flag)

\* The codebook that row of a fused projection was exported with: that of the
\* role the logical shard belongs to, wherever load put the boundary.
OwnBook(l, row) == l.roles[l.owner[SpanAt(l.widths, row)]].book

\* The scale of a row and a column of this rank, by their places in the
\* checkpoint's tensors.
OwnScale(l, row, column) ==
    LET j     == SpanAt(l.widths, row + 1)
        above == IF ColDegree(l) > 1 THEN l.rank * l.widths[j] ELSE 0
        left  == IF RowDegree(l) > 1 THEN l.rank * l.sliced ELSE 0
    IN [rows   |-> [role |-> j, block |-> (above + row - Upto(l.widths, j - 1)) \div SourceBlock],
        column |-> (left + column) \div SourceBlock]

Corners(size) == {0, size - 1} \cup {n \in 0..(size - 1) : n % 32 = 0}

\* What the encoder meant is what the CPU reader and the operand of a call say.
DecodesAsMeant(l, form, row, c) ==
    /\ MeantCode(l.planes, row, c) = ReaderCode(l.blob.wire, row, c)
    /\ MeantCode(l.planes, row, c) = OperandCode(l.scheme.family, TrellisOperand(form), row, c)
    /\ TrellisScaleRead(l, form, row, c) =
           l.planes.scales[row][IF l.scheme.family = "e2m1" THEN ((c - 1) \div GroupSize) + 1 ELSE 1]

\* Linear layers decode each packed row with the codebook of its role: the
\* GEMVs and expanders that follow a row offset, the FP4 kernel that looks its
\* table up once per 128-row tile, the kernels that have no offset at all
\* (linear.py:584-676).
DenseOwnBooks ==
    \A i \in CallsOf("dense") : ran[i].launch.symbol # "" =>
        \A row \in 1..Total(Layers[i].widths) :
            DecodedAs(ran[i].launch.symbol, kept[i].form, row) = OwnBook(Layers[i], row)

\* Routed stacks decode each role with its own book, also on the lanes that
\* were never taught the split (moe.py:671-697, 2352-2398).
RoutedOwnBooks ==
    \A i \in CallsOf("moe") : ran[i].launch.symbol # "" =>
        \A role \in Roles : MoEDecodedAs(ran[i].launch.symbol, Layers[i], role) = Layers[i].books[role]

\* Source FP8 rows keep the block scales of their place in the checkpoint, on
\* every rank (fp8_source_w8a16.py:172-203).
SourceOwnScales ==
    \A i \in CallsOf("source8") :
        \A row \in Corners(Total(Layers[i].widths)) : \A column \in Corners(Layers[i].sliced) :
            LoadedScale(Layers[i], row, column) = OwnScale(Layers[i], row, column)

\* A trellis column yields the code the encoder walked to, resident or
\* streamed, by the device as by the CPU reader (trellis.py:663-837).
TrellisOwnCodes ==
    \A i \in CallsOf("trellis") :
        \A row \in 1..Layers[i].out : \A c \in 1..Layers[i].in : DecodesAsMeant(Layers[i], kept[i], row, c)

\* Whatever kernel a call ends in, every row is decoded with the tables it was
\* exported with: packed rows with the codebook of their role, source FP8 rows
\* with the block scales of their place, trellis columns with the encoder's
\* code.  A wrong table yields plausible numbers.
RowsOwnTables == DenseOwnBooks /\ RoutedOwnBooks /\ SourceOwnScales /\ TrellisOwnCodes

\* The dense chain of docs/PLUGIN.md:820, by what the process was told first.
DenseHonored(i) ==
    LET mode == Told("FUSED_FP4")
        rows == ran[i].rows
        used == ran[i].launch
        midm == Told("FP4_FUSED_MIDM") = "on" /\ rows \in MidM
    IN IF mode # NoMode /\ rows > 16 /\ (mode.midm => rows <= 128)
       THEN used.contract = FusedContract(mode.family)
       ELSE /\ used.contract = BridgeContract("fp4")
            /\ midm => used.symbol = "cb_fused_fp4v2_prefill_mm"
            /\ ~midm /\ rows > GemvMax /\ Told("BF16_SM120") = "on" =>
                used.symbol = "cb_bf16_grouped_mm_sm120_gather"

\* The routed chain of docs/PLUGIN.md:819, and the line printed at load.
RoutedHonored(i) ==
    LET mode == Told("FUSED_FP4_MOE")
        pb   == Told("MOE_PERSISTENT_B")
        used == ran[i].launch
        persistent == used.symbol \in {"cb_moe_persistent_b_prefill", "cb_moe_persistent_b_prefill_d2r"}
    IN ran[i].rows > DecodeMax =>
        IF mode # NoMode
        THEN used.contract = FusedContract(mode.family) /\ kept[i].announced \in {Absent, "fused"}
        ELSE /\ used.contract = BridgeContract("fp4")
             /\ pb = "require" => persistent
             /\ pb = "off" => ~persistent
             /\ Told("MOE_PERSISTENT_B_D2R") = "on" => used.symbol = "cb_moe_persistent_b_prefill_d2r"
             /\ kept[i].announced = "persistent_b" <=> persistent
             /\ Told("BF16_SM120") = "on" /\ ~persistent =>
                 used.symbol = "cb_bf16_grouped_mm_sm120_gather_out"

\* A flag that names a kernel is served or the load refuses: a call on an FP4
\* layer that returns took the lane the precedence tables give the first
\* spelling the process read, on every layer alike, whatever the environment
\* said since, and the lane announced at load is the one that serves; on FP8
\* layers a lane that was switched off never serves (docs/PLUGIN.md:797-820,
\* linear.py:752-822, moe.py:786-950).  A grouped projection is never left to
\* the attention layer's own product over the raw parameters, whatever layer
\* wrapped it (dsv4_woa.py).
SelectionServed ==
    /\ \A i \in Returned("dense", "fp4") : DenseHonored(i)
    /\ \A i \in Returned("moe", "fp4") : RoutedHonored(i)
    /\ \A i \in Returned("dense", "fp8") :
        Told("FUSED_MIDM") = "off" => ran[i].launch.symbol # "cb_fused_prefill_mm_scaled"
    /\ \A i \in Returned("moe", "fp8") :
        Told("MOE_PERSISTENT_B") = "off" => ran[i].launch.symbol # "cb_moe_persistent_b_prefill_fp8"
    /\ \A i \in CallsOf("source8") \cup CallsOf("mxfp8") : ran[i].launch.symbol # "fp8_einsum"

\* Is a call of this layer one the dispatch telemetry covers?
Covered(l, rows) ==
    \/ l.kind = "moe" /\ rows > DecodeMax
    \/ l.kind = "dense" /\ (l.grid = "fp8" \/ rows > GemvMax)
    \/ l.kind = "source8"

\* After a covered call that returned, the record of the layer names the
\* kernel that ran, its activation contract and its rows, also where a lane
\* above it declined and left a record of its own; after a call that was
\* refused or lost mid-launch by a two-phase lane, it does not say "served"
\* (docs/KERNELS.md:364-376, nvfp4_activation_contract.py:150-183).
RouteRecorded ==
    \A i \in Calls : \E used \in {ran[i].launch} :
        /\ ran[i].returned /\ Covered(Layers[i], ran[i].rows) =>
            route[i] = [symbol |-> used.symbol, contract |-> used.contract,
                        state |-> "served", rows |-> ran[i].rows]
        /\ ~ran[i].returned /\ (used.writes = "twice" \/ used.declined) => route[i].state # "served"

\* The lanes a layer keeps that run only on the architecture they were built
\* for, with the device they must have been attested on.
KeepsOnlyBuilt(host, l, form) ==
    /\ l.kind \in {"dense", "moe"} /\ form.sm120 => host.cap[l.dev] \in {Absent, host.ext["bf16"].cap}
    /\ l.kind = "dense" /\ l.grid = "fp4" /\ form.midm => Prepares(host, "fp4v2", l.dev)
    /\ l.kind = "moe" /\ form.pb => Prepares(host, "pb", l.dev)
    /\ l.kind = "moe" /\ l.grid = "fp4" /\ form.gemv # {} => v2ok[l.dev] = TRUE
    /\ l.kind \in {"source8", "mxfp8"} => host.cap[l.dev] \in {Absent, host.ext[l.kind].cap}

\* What the hot path must not discover is settled at load.  A layer keeps an
\* architecture-accelerated lane only if the module was built for the
\* capability of the layer's own device and answered there, also on a host
\* with two kinds of devices and after a probe that failed at random
\* (lane_select.py:161-249, moe_gemv_select.py:183-279); and a captured call
\* of a size load was told about is never refused for offsets that would have
\* to be copied from the host, whatever ran before it
\* (docs/KERNELS.md:1137-1146, mxfp8_dense_lane.py).
SetUpAtLoad ==
    \E host \in {scenario.host} :
        /\ \A d \in Devices : v2ok[d] = TRUE => Prepares(host, "v2", d)
        /\ \A i \in DOMAIN Layers : kept[i] # Absent => KeepsOnlyBuilt(host, Layers[i], kept[i])
        /\ \A i \in CallsOf("mxfp8") : ran[i].captured /\ scenario.told => ran[i].launch.symbol # ""

\* What the bit folds of a trellis owe a theorem about RowsOwnTables, layer by
\* layer: a wire that load accepts decodes to what the encoder meant.  A
\* statement about the constants, which names no state of the process.
TrellisSound ==
    \A s \in Scenarios : \A i \in DOMAIN s.layers : \A mode \in {"resident", "streamed"} :
        /\ s.layers[i].kind = "trellis"
        /\ TrellisConstructs(s.layers[i], TRUE, mode) /\ TrellisLoads(s.host, s.layers[i])
        => \A row \in 1..s.layers[i].out : \A c \in 1..s.layers[i].in :
               DecodesAsMeant(s.layers[i], TrellisKept(s.layers[i], mode), row, c)

=============================================================================
