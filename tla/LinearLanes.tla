----------------------------- MODULE LinearLanes ------------------------------
(***************************************************************************)
(* The dense codebook layer: which dictionary each packed row is decoded   *)
(* with, which lanes model load resolves, and which one a call takes       *)
(* (gridbook/linear.py, fp4v2_fused_midm_lane.py, fp8_fused_lane.py).      *)
(*                                                                         *)
(* A layer is [kind, dev, grid, k, sub, size, v2: two-tier scales, static: *)
(* an attested activation scalar, in and out: its full sizes, sliced: this *)
(* rank's input size, widths: this rank's logical shards, roles: the       *)
(* checkpoint's tensors in order, [book, rows: of the whole tensor],       *)
(* owner: the role each logical shard belongs to, bmm].                    *)
(***************************************************************************)
EXTENDS LaneSelect

Superblock == 256
TileN      == 128      \* FP4_FUSED_TILE_N
GemvMax    == 8        \* CUDA_GEMV_M_MAX, FP8_CUDA_GEMV_M_MAX
MidM       == 9..128

\* The rows of the first n shards, and of all.
Ends(widths) == LET e[n \in 0..Len(widths)] == IF n = 0 THEN 0 ELSE e[n - 1] + widths[n] IN e
Upto(widths, n) == Ends(widths)[n]
Total(widths)   == Upto(widths, Len(widths))
RowQuantum(l)   == IF l.grid = "fp4" THEN 8 ELSE 16

\* _shard_degree, for the output axis.
Degree(l) == (l.out + Total(l.widths) - 1) \div Total(l.widths)

\* create_weights and _require_shard_group_alignment: a shard cuts no
\* superblock and, once sharded, no row quantum.
Constructs(l) ==
    /\ l.sliced % Superblock = 0
    /\ \A j \in DOMAIN l.widths : l.widths[j] % RowQuantum(l) = 0 \/ Total(l.widths) = l.out

-----------------------------------------------------------------------------
(* The dictionaries of a fused projection. *)

\* vLLM may merge more logical shards than there are roles; the boundaries
\* are then those of the checkpoint's tensors, divided among the ranks.
RoleWidths(l) ==
    IF Len(l.roles) = Len(l.widths) THEN l.widths
    ELSE [i \in DOMAIN l.roles |-> l.roles[i].rows \div Degree(l)]

\* _rank_local_role_widths and the assertion that the offsets cover the rows.
WidthsAgree(l) ==
    /\ Len(l.roles) # Len(l.widths) =>
        \A i \in DOMAIN l.roles : l.roles[i].rows % Degree(l) = 0
    /\ Total(RoleWidths(l)) = Total(l.widths)

\* Roles that name the same codebooks share one block, wherever they stand.
FirstWith(l, i) ==
    CHOOSE j \in 1..i : /\ l.roles[j].book = l.roles[i].book
                        /\ \A h \in 1..(j - 1) : l.roles[h].book # l.roles[i].book
Firsts(l) == {FirstWith(l, i) : i \in DOMAIN l.roles}

\* What load leaves on the layer: the interned blocks, each under the first
\* role that names it, and per role its rows and its block.
Form(l) ==
    LET widths == RoleWidths(l)
    IN [blocks |-> [b \in Firsts(l) |-> l.roles[b].book],
        spans  |-> [i \in DOMAIN l.roles |-> [rows |-> widths[i], block |-> FirstWith(l, i)]]]

SpanRows(form) == [i \in DOMAIN form.spans |-> form.spans[i].rows]
Rows(form)     == Total(SpanRows(form))
SpanAt(widths, row) == CHOOSE i \in DOMAIN widths : Upto(widths, i - 1) < row /\ row <= Upto(widths, i)
BlockAt(form, row)  == form.spans[SpanAt(SpanRows(form), row)].block

TileOf(row) == (row - 1) \div TileN

\* mutant: a boundary of the packed format is taken for one of the kernel.
TileSafe_RowQuantum(form) ==
    \A i \in 1..(Len(form.spans) - 1) :
        form.spans[i].block # form.spans[i + 1].block => Upto(SpanRows(form), i) % 8 = 0

\* Every 128-row tile of the native FP4 kernel lies in one block.
TileSafe(form) ==
    \A i \in 1..(Len(form.spans) - 1) :
        form.spans[i].block # form.spans[i + 1].block =>
            Upto(SpanRows(form), i) % TileN = 0

\* The contiguous runs of one block that the quality bridge expands, by the
\* roles they start with, and the block of the run a row lies in.
Segments(form) ==
    {i \in DOMAIN form.spans : i = 1 \/ form.spans[i - 1].block # form.spans[i].block}
SegmentBlock(form, row) ==
    LET begun == {i \in Segments(form) : Upto(SpanRows(form), i - 1) < row}
    IN form.spans[CHOOSE i \in begun : \A h \in begun : h <= i].block

OneBlock(form) == DOMAIN form.blocks = {1}

\* The codebook the kernel behind a symbol decodes a row with: by the row's
\* offset, by its tile, by its segment, or always from offset zero.
DecodedAs(symbol, form, row) ==
    CASE symbol \in {"cb_gemv_fp4_v2", "cb_gemv_fp8", "cb_expand_fp8+cutlass_scaled_mm"} ->
            form.blocks[BlockAt(form, row)]
      [] symbol = "cb_fused_fp4_prefill_mm_scaled" ->
            form.blocks[BlockAt(form, (TileOf(row) * TileN) + 1)]
      [] symbol \in {"cb_bf16_grouped_mm", "cb_bf16_grouped_mm_sm120_gather"} ->
            form.blocks[SegmentBlock(form, row)]
      [] symbol \in {"cb_fused_fp4v2_prefill_mm", "cb_fused_prefill_mm_scaled"} -> form.blocks[1]

-----------------------------------------------------------------------------
(* What load resolves. *)

ProductV2(l) == l.grid = "fp4" /\ l.v2 /\ l.sub = 2 /\ l.size = (4 * l.k) + 9

\* _cuda_gemv_ok
GemvOk(host, l) ==
    /\ \/ l.grid = "fp8" /\ l.sub = 4
       \/ l.grid = "fp4" /\ l.v2 /\ l.sub = 2
    /\ Loaded(host, "main")

\* _fused_fp4_ok, for the activation family of a mode.
FusedFp4Ok(host, l, form, family) ==
    /\ l.grid = "fp4"
    /\ family # "rowwise" => l.static
    /\ l.k \in 12..24 /\ l.sub = 2
    /\ l.sliced % Superblock = 0 /\ Rows(form) % 8 = 0
    /\ l.size = (4 * l.k) + (IF l.v2 THEN 9 ELSE 16)
    /\ TileSafe(form)
    /\ family = "static" => "fp4_quant" \in host.ops
    /\ Has(host, "fp4", "dense")
    /\ family = "rowwise" => Has(host, "fp4", "rows")
    /\ family = "lsq" => Has(host, "fp4", "lsq")

\* fp4v2_fused_midm_lane.supports
MidmSupports(host, l, form) ==
    /\ ProductV2(l)
    /\ l.k \in host.ext["fp4v2"].rungs
    /\ l.sliced % Superblock = 0 /\ Rows(form) % 8 = 0
    /\ OneBlock(form) /\ Segments(form) = {1}

MidmLane(host, dev) == Attested(host, "fp4v2", "midm", dev, TRUE)

LinearFlags(l) ==
    {"FUSED_FP4", "FP4_FUSED_MIDM", "BF16_SM120"} \cup (IF l.grid = "fp8" THEN {"FUSED_MIDM"} ELSE {})

\* _fp8_fused_midm_enabled, and the explicit requirement on the loader.
Fp8MidmRefused(host, l, asked) ==
    asked = "require" /\ (host.cap[l.dev] \notin Sm12x \/ ~Loaded(host, "fp8"))
Fp8Midm(host, l, asked) == asked # "off" /\ host.cap[l.dev] \in Sm12x

\* process_weights_after_loading, up to the lanes: the layer can be served.
LinearSound(host, l, form) ==
    /\ ~l.bmm /\ WidthsAgree(l)
    /\ Rows(form) % RowQuantum(l) = 0
    /\ Loaded(host, "main")

\* The lanes an FP4 layer needs, and those the operator asked for.
Fp4Resolves(host, l, form, mode, midm, sm120) ==
    /\ ProductV2(l)
    /\ Has(host, "v2", "expand") /\ Prepares(host, "v2", l.dev)
    /\ Loaded(host, "bf16")
    /\ sm120 => Sm120Lane(host, l.dev)
    /\ midm => MidmLane(host, l.dev) /\ MidmSupports(host, l, form)
    /\ mode # NoMode => FusedFp4Ok(host, l, form, mode.family)

Fp8Resolves(host, l, asked) ==
    /\ GemvOk(host, l) /\ "cutlass" \in host.ops
    /\ ~Fp8MidmRefused(host, l, asked)

LinearLoads(host, l, form, env) ==
    /\ LinearSound(host, l, form)
    /\ IF l.grid = "fp4"
       THEN Fp4Resolves(host, l, form, Selected(env, "FUSED_FP4"),
                        Selected(env, "FP4_FUSED_MIDM") = "on", Selected(env, "BF16_SM120") = "on")
       ELSE Fp8Resolves(host, l, Selected(env, "FUSED_MIDM"))

\* What load leaves on the layer.
LinearKept(host, l, form, env) ==
    LET fp4 == l.grid = "fp4"
    IN [form  |-> form,
        mode  |-> IF fp4 THEN Selected(env, "FUSED_FP4") ELSE NoMode,
        sm120 |-> fp4 /\ Selected(env, "BF16_SM120") = "on",
        midm  |-> IF fp4 THEN Selected(env, "FP4_FUSED_MIDM") = "on"
                  ELSE Fp8Midm(host, l, Selected(env, "FUSED_MIDM"))]

-----------------------------------------------------------------------------
(* What a call takes (apply, _apply_inline). *)

\* The flag a call reads again, to make a change loud.
RereadFlags(l, rows) ==
    IF l.grid = "fp4" THEN {"FUSED_FP4"} ELSE IF rows > GemvMax THEN {"FUSED_MIDM"} ELSE {}

UsesFusedFp4(kept, rows) ==
    kept.mode # NoMode /\ rows > 16 /\ (kept.mode.midm => rows <= 128)

\* _try_fused_fp4 on a layer that passed the load gate.  The quantizers of two
\* families take half precision only, and a call that cannot be quantized is
\* refused; vLLM's quantizer of the third refuses it by itself.
FusedFp4Launch(kept, half) ==
    LET family == kept.mode.family
    IN IF half THEN Launch("cb_fused_fp4_prefill_mm_scaled", FusedContract(family), "twice", FALSE)
       ELSE [Refusal(family # "static") EXCEPT !.contract = FusedContract(family)]

\* fp4v2_fused_midm_lane.eligible
MidmEligible(kept, rows) == kept.midm /\ rows \in MidM

Fp4Launch(kept, rows, half) ==
    LET bridge(symbol) == Launch(symbol, BridgeContract("fp4"), "after", FALSE)
    IN CASE UsesFusedFp4(kept, rows) -> FusedFp4Launch(kept, half)
         [] ~UsesFusedFp4(kept, rows) /\ rows <= GemvMax ->
                Launch("cb_gemv_fp4_v2", BridgeContract("fp4"), "none", FALSE)
         [] ~UsesFusedFp4(kept, rows) /\ MidmEligible(kept, rows) -> bridge("cb_fused_fp4v2_prefill_mm")
         [] ~UsesFusedFp4(kept, rows) /\ rows > GemvMax /\ ~MidmEligible(kept, rows) /\ kept.sm120 ->
                bridge("cb_bf16_grouped_mm_sm120_gather")
         [] ~UsesFusedFp4(kept, rows) /\ rows > GemvMax /\ ~MidmEligible(kept, rows) /\ ~kept.sm120 ->
                bridge("cb_bf16_grouped_mm")

\* _fused_fp8_lut_ok, and the rung.
Fp8FusedTakes(host, l, kept, rows) ==
    /\ kept.midm /\ rows \in MidM
    /\ l.sub = 4 /\ l.size = 4 * l.k
    /\ OneBlock(kept.form)
    /\ RungEligible(host, l.k)

Fp8Launch(host, l, kept, rows) ==
    LET exact(symbol) == Launch(symbol, BridgeContract("fp8"), "twice", FALSE)
    IN CASE rows <= GemvMax -> exact("cb_gemv_fp8")
         [] rows > GemvMax /\ Fp8FusedTakes(host, l, kept, rows) -> exact("cb_fused_prefill_mm_scaled")
         [] rows > GemvMax /\ ~Fp8FusedTakes(host, l, kept, rows) ->
                exact("cb_expand_fp8+cutlass_scaled_mm")

LinearLaunch(host, l, kept, rows, half) ==
    IF l.grid = "fp4" THEN Fp4Launch(kept, rows, half) ELSE Fp8Launch(host, l, kept, rows)
=============================================================================
