------------------------------- MODULE MoELanes -------------------------------
(***************************************************************************)
(* The routed codebook stack: which codebook each role's rows are decoded  *)
(* with, which lanes model load resolves and announces, and which one a    *)
(* call takes (gridbook/moe.py, moe_persistent_b_lane.py).                 *)
(*                                                                         *)
(* A layer is [kind, dev, grid, k, sub, size, v2, static, hidden, inter,   *)
(* books: role -> codebook].  The rows of a stack and their placement are  *)
(* WeightLoad's and ExpertPlacement's; the routing is RoutedForward's.     *)
(***************************************************************************)
EXTENDS LaneSelect

Roles         == {"gate", "up", "down"}
Stacks        == {"w13", "w2"}
DecodeMax     == 16      \* MOE_PREFILL_M_THRESHOLD

Features(l, stack) == IF stack = "w13" THEN l.hidden ELSE l.inter
Aligned(l)         == l.hidden % 256 = 0 /\ l.inter % 256 = 0

-----------------------------------------------------------------------------
(* The codebooks of a stack. *)

\* The resolver names books per role only when they differ.
RoleSplit(l) == \E r \in Roles : l.books[r] # l.books["gate"]

\* _require_per_role_supported
PerRoleSupported(l) == l.grid = "fp8" /\ ~l.v2 /\ l.sub = 4

\* A split stack keeps no stacked book, so a lane that was not taught the
\* roles finds none.
StackBook(l) == IF RoleSplit(l) THEN Absent ELSE l.books["gate"]

\* The book the kernel behind a symbol decodes the rows of a role with.
MoEDecodedAs(symbol, l, role) ==
    IF symbol \in {"cb_fused_fp4_moe_grouped", "cb_moe_persistent_b_prefill",
                   "cb_moe_persistent_b_prefill_d2r", "cb_moe_persistent_b_prefill_fp8"}
    THEN StackBook(l)
    ELSE IF RoleSplit(l) THEN l.books[role] ELSE StackBook(l)

-----------------------------------------------------------------------------
(* What load resolves. *)

\* _cuda_moe_ok
DecodesNatively(l) ==
    \/ l.grid = "fp8" /\ l.sub = 4
    \/ l.grid = "fp4" /\ l.v2 /\ l.sub \in {1, 2}

\* _gf4_ok, for the activation family of a mode.
GroupedFp4Ok(host, l, family) ==
    /\ l.grid = "fp4" /\ l.v2 /\ l.k \in 12..24 /\ l.sub = 2 /\ l.size = (4 * l.k) + 9
    /\ family # "rowwise" => l.static
    /\ Aligned(l)
    /\ family = "static" => "fp4_quant" \in host.ops
    /\ Has(host, "fp4", "grouped")
    /\ family = "rowwise" => Has(host, "fp4", "rows")
    /\ family = "lsq" => Has(host, "fp4", "lsq")

\* _gf2_ok: the module is asked only on a device it can be built for.
GroupedFp8Ok(host, l) ==
    /\ l.grid = "fp8" /\ l.sub = 4 /\ l.size = 4 * l.k
    /\ Aligned(l)
    /\ host.cap[l.dev] \in Sm12x
    /\ RungEligible(host, l.k)

\* moe_persistent_b_lane.supports and supports_fp8
PbSupports(l) ==
    /\ Aligned(l)
    /\ \/ l.grid = "fp4" /\ l.v2 /\ l.sub = 2 /\ l.k \in 12..24 /\ l.size = (4 * l.k) + 9
       \/ l.grid = "fp8" /\ ~RoleSplit(l) /\ l.sub = 4 /\ l.k \in 28..48 /\ l.size = 4 * l.k

\* require_lane; probe_lane turns its refusal into a reason.
PbLane(host, dev) == Attested(host, "pb", "prefill", dev, TRUE)

\* resolve_cfg: 0 lets the kernel choose, anything else must be a tile this
\* build compiled that holds two CTAs at this layer's row size.
CfgResolves(host, l, cfg) ==
    \/ cfg = 0
    \/ /\ cfg \in host.ext["pb"].tiles
       /\ l.grid = "fp8" => (cfg = 1 => l.k <= 33) /\ (cfg = 4 => l.k <= 31)

\* Under auto nothing is attested for a layer the fused mode will serve.
PbConsidered(l, pb, mode) == pb # "off" /\ ~(pb = "auto" /\ mode # NoMode /\ l.grid = "fp4")
PbEngages(host, l, pb, mode) ==
    PbConsidered(l, pb, mode) /\ PbSupports(l) /\ PbLane(host, l.dev)

\* The direct-to-register experiment is refused wherever another kernel
\* would serve part of a run that carries its label.
D2rResolves(host, l, pb, mode) ==
    pb = "require" /\ l.grid = "fp4" /\ mode = NoMode /\ Attested(host, "pb", "d2r", l.dev, TRUE)

PbResolves(host, l, pb, d2r, mode, cfg) ==
    /\ pb = "require" => PbEngages(host, l, pb, mode)
    /\ PbEngages(host, l, pb, mode) => CfgResolves(host, l, cfg)
    /\ d2r => D2rResolves(host, l, pb, mode)

MoEFlags(l) ==
    {"FP8_GEMV_V2", "BF16_SM120", "MOE_PERSISTENT_B", "MOE_PERSISTENT_B_D2R", "FUSED_FP4_MOE"}
        \cup (IF l.grid = "fp4" /\ l.v2 THEN {"CB_GEMV"} ELSE {})

\* process_weights_after_loading, up to the optional lanes.
MoESound(host, l, env) ==
    /\ RoleSplit(l) => PerRoleSupported(l)
    /\ l.grid = "fp8" => ~Fp8V2Refuses(Selected(env, "FP8_GEMV_V2"), l)
    /\ l.hidden % 8 = 0 /\ l.inter % 8 = 0
    /\ Loaded(host, "main")
    /\ IF l.grid = "fp4" THEN Has(host, "v2", "expand") /\ Prepares(host, "v2", l.dev)
       ELSE "cutlass" \in host.ops
    /\ Loaded(host, "bf16")
    /\ DecodesNatively(l)

MoEResolves(host, l, sm120, pb, d2r, mode, cfg) ==
    /\ sm120 => Sm120Lane(host, l.dev)
    /\ PbResolves(host, l, pb, d2r, mode, cfg)
    /\ l.grid = "fp4" /\ mode # NoMode => GroupedFp4Ok(host, l, mode.family)

MoELoads(host, l, env, cfg) ==
    /\ MoESound(host, l, env)
    /\ MoEResolves(host, l, Selected(env, "BF16_SM120") = "on", Selected(env, "MOE_PERSISTENT_B"),
                   Selected(env, "MOE_PERSISTENT_B_D2R") = "on", Selected(env, "FUSED_FP4_MOE"), cfg)

\* The route the load announces for the prefill of a stack, if it prints one.
Announced(l, engages, pb, mode) ==
    CASE engages -> IF l.grid = "fp4" /\ mode # NoMode THEN "fused" ELSE "persistent_b"
      [] ~engages /\ pb = "auto" /\ PbConsidered(l, pb, mode) -> "bridge"
      [] ~engages /\ ~(pb = "auto" /\ PbConsidered(l, pb, mode)) -> Absent

\* What load leaves on the layer; v2: does the device answer for that GEMV?
MoEKept(host, l, env, v2) ==
    LET mode    == IF l.grid = "fp4" THEN Selected(env, "FUSED_FP4_MOE") ELSE NoMode
        pb      == Selected(env, "MOE_PERSISTENT_B")
        engages == PbEngages(host, l, pb, mode)
        wants   == l.grid = "fp4" /\ l.v2 /\ WantsV2(Selected(env, "CB_GEMV"), l)
    IN [mode      |-> mode,
        pb        |-> engages,
        d2r       |-> engages /\ Selected(env, "MOE_PERSISTENT_B_D2R") = "on",
        sm120     |-> Selected(env, "BF16_SM120") = "on",
        grouped   |-> GroupedFp8Ok(host, l),
        gemv      |-> {s \in Stacks : \/ wants /\ TakesV2(v2, l, Features(l, s))
                                      \/ /\ l.grid = "fp8" /\ Selected(env, "FP8_GEMV_V2") # "off"
                                         /\ OnCell(l, Features(l, s))},
        announced |-> Announced(l, engages, pb, mode)]

-----------------------------------------------------------------------------
(* What a call takes (_apply_inline). *)

\* _apply_grouped_decode leaves no record.
DecodeLaunch(l) == Launch("grouped_decode", BridgeContract(l.grid), "none", FALSE)

\* The two lanes that replace the expansion of _apply_prefill_native_bf16;
\* declined: the lane above it left a fallback record.
PersistentBLaunch(l, kept, declined) ==
    Launch(IF l.grid = "fp8" THEN "cb_moe_persistent_b_prefill_fp8"
           ELSE IF kept.d2r THEN "cb_moe_persistent_b_prefill_d2r"
           ELSE "cb_moe_persistent_b_prefill",
           BridgeContract(l.grid), "after", declined)
Sm120Launch(l, declined) ==
    Launch("cb_bf16_grouped_mm_sm120_gather_out", BridgeContract(l.grid), "after", declined)

\* _apply_prefill_native_bf16
Bf16Launch(l, kept, dtype, declined) ==
    CASE dtype # "bf16" -> [Refusal(declined) EXCEPT !.contract = BridgeContract(l.grid)]
      [] dtype = "bf16" /\ kept.pb -> PersistentBLaunch(l, kept, declined)
      [] dtype = "bf16" /\ ~kept.pb /\ kept.sm120 -> Sm120Launch(l, declined)
      [] dtype = "bf16" /\ ~kept.pb /\ ~kept.sm120 ->
            Launch("cb_bf16_grouped_mm_out", BridgeContract(l.grid), "after", declined)

\* _apply_prefill_grouped_fused_fp4
GroupedFp4Launch(kept, dtype) ==
    LET contract == FusedContract(kept.mode.family)
    IN IF dtype \in {"bf16", "fp16"} THEN Launch("cb_fused_fp4_moe_grouped", contract, "twice", FALSE)
       ELSE [Refusal(TRUE) EXCEPT !.contract = contract]

\* The compiled tiles, and the arguments this build's binding takes.
GroupedFp8Takes(host, l) ==
    /\ host.ext["fp8"].tiles # {}
    /\ IF RoleSplit(l) THEN Has(host, "fp8", "out")
       ELSE Has(host, "fp8", "tile_m") \/ Cardinality(host.ext["fp8"].tiles) = 1

\* _apply_prefill_grouped_fused_v2: whatever it cannot serve leaves a record
\* and goes to the bridge.
GroupedFp8Launch(host, l, kept, dtype) ==
    IF kept.grouped /\ GroupedFp8Takes(host, l)
    THEN Launch("cb_fused_moe_grouped", BridgeContract("fp8"), "twice", FALSE)
    ELSE Bf16Launch(l, kept, dtype, TRUE)

MoELaunch(host, l, kept, rows, dtype) ==
    CASE rows <= DecodeMax -> DecodeLaunch(l)
      [] rows > DecodeMax /\ l.grid = "fp4" /\ kept.mode # NoMode -> GroupedFp4Launch(kept, dtype)
      [] rows > DecodeMax /\ l.grid = "fp4" /\ kept.mode = NoMode -> Bf16Launch(l, kept, dtype, FALSE)
      [] rows > DecodeMax /\ l.grid = "fp8" -> GroupedFp8Launch(host, l, kept, dtype)
=============================================================================
