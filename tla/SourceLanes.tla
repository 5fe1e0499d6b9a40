----------------------------- MODULE SourceLanes ------------------------------
(***************************************************************************)
(* The dense layers that keep the bytes of the checkpoint: block-128       *)
(* source FP8 (fp8_source_w8a16.py), direct MXFP8 (mxfp8_dense_lane.py,    *)
(* source_passthrough.py) and the two trellis lanes (trellis_e2m1_lane.py, *)
(* trellis_e4m3_lane.py), with the attention adapter two of them need      *)
(* (dsv4_woa.py).                                                          *)
(*                                                                         *)
(* A source8 layer is [kind, dev, in, sliced, out, widths, rank, groups:   *)
(* of a batched product or 0, typed: the checkpoint's dtypes are the exact *)
(* ones]; an mxfp8 layer is [kind, dev, sliced, out, groups, tp]; a        *)
(* trellis layer is [kind, dev, planes, blob, scheme, in, out, gs: the     *)
(* loaded activation scale].                                               *)
(***************************************************************************)
EXTENDS LinearLanes, TrellisWire

SourceBlock == 128      \* DS_BLOCK, _TP_SHARD_ALIGNMENT
MxGroup     == 32       \* SFVEC
ModeVar(family) == IF family = "e2m1" THEN "TRELLIS_E2M1_MODE" ELSE "TRELLIS_E4M3_MODE"
ModeVars    == {"TRELLIS_E2M1_MODE", "TRELLIS_E4M3_MODE"}

-----------------------------------------------------------------------------
(* The attention adapter. *)

\* install_dsv4_woa_adapter: wraps the known classes that are loaded, and
\* refuses when there is none.
KnownAttention == {"FlashInferMLA", "FlashInferSM120", "FlashMLA"}
Wrappable(host) == host.attention \cap KnownAttention

\* The output projection of an attention layer of that class, around a
\* layer that carries the marker: _o_proj.
ProjectedBy(wrapped, class, marked) == IF class \in wrapped /\ marked THEN "gridbook" ELSE "vllm"

-----------------------------------------------------------------------------
(* Source FP8. *)

RowDegree(l) == l.in \div l.sliced
ColDegree(l) == l.out \div Total(l.widths)

\* create_weights: _resolve_shard_plan and _require_shard_alignment.
Source8Constructs(l) ==
    /\ l.in % l.sliced = 0 /\ l.out % Total(l.widths) = 0
    /\ RowDegree(l) = 1 \/ ColDegree(l) = 1
    /\ RowDegree(l) > 1 => l.sliced % SourceBlock = 0
    /\ ColDegree(l) > 1 => \A j \in DOMAIN l.widths : l.widths[j] % SourceBlock = 0

\* What vLLM's loader copies where (external): the scale rows of each role are
\* narrowed at its offset and this rank's share, both rounded up to blocks,
\* and the columns at this rank's share of them.
ScaleRole(l, row) ==
    LET s == row \div SourceBlock
        first(j) == CeilDiv(Upto(l.widths, j - 1), SourceBlock)
        size(j)  == CeilDiv(l.widths[j], SourceBlock)
        holders  == {j \in DOMAIN l.widths : first(j) <= s /\ s < first(j) + size(j)}
        j == CHOOSE h \in holders : \A o \in holders : o <= h
        share == IF ColDegree(l) > 1 THEN l.rank * size(j) ELSE 0
    IN [role |-> j, block |-> share + s - first(j)]
LoadedScale(l, row, column) ==
    LET share == IF RowDegree(l) > 1 THEN l.rank * CeilDiv(l.sliced, SourceBlock) ELSE 0
    IN [rows |-> ScaleRole(l, row), column |-> share + (column \div SourceBlock)]

\* Column-sharding a grouped plane divides the kernel's group count: each
\* degree is a qualification of its own.
QualifiedBmm == {<<8 \div d, 1024, 4096, d>> : d \in {1, 2, 4}}
GroupRows(l) == Total(l.widths) \div (IF l.groups = 0 THEN 1 ELSE l.groups)
BmmQualified(l) ==
    /\ Total(l.widths) % l.groups = 0
    /\ <<l.groups, GroupRows(l), l.sliced,
         IF RowDegree(l) > ColDegree(l) THEN RowDegree(l) ELSE ColDegree(l)>> \in QualifiedBmm

\* require_fp8_source_w8a16_ext: one capability, and built for it.
Source8Ext(host, dev) ==
    /\ Has(host, "source8", "gemv") /\ Has(host, "source8", "expand")
    /\ host.cap[dev] = "12.1" /\ host.ext["source8"].cap = "12.1"

\* The checked loaders, then process_weights_after_loading.
Source8Loads(host, l) ==
    /\ Source8Constructs(l) /\ l.typed
    /\ l.sliced % 8 = 0 /\ GroupRows(l) % 8 = 0
    /\ IF l.groups > 0 THEN BmmQualified(l)
       ELSE /\ ColDegree(l) > 1 => Total(l.widths) % SourceBlock = 0
            /\ RowDegree(l) > 1 => l.sliced % SourceBlock = 0
    /\ Source8Ext(host, l.dev) /\ Loaded(host, "bf16")
    /\ l.groups > 0 => Wrappable(host) # {}

\* _apply_inline
Source8Launch(rows, dtype) ==
    LET exact(symbol) == Launch(symbol, "bf16_preserved", "twice", FALSE)
    IN CASE dtype # "bf16" -> Refusal(FALSE)
         [] dtype = "bf16" /\ rows <= GemvMax -> exact("fp8_source_gemv")
         [] dtype = "bf16" /\ rows > GemvMax -> exact("fp8_source_expand_bf16+cb_bf16_grouped_mm")

-----------------------------------------------------------------------------
(* Direct MXFP8. *)

\* _require_mxfp8_opt_in and create_weights
Mxfp8Constructs(l, optedIn) == optedIn /\ l.sliced % MxGroup = 0

Mxfp8Loads(host, l) ==
    /\ Attested(host, "mxfp8", "dense_mm", l.dev, FALSE)
    /\ l.groups > 0 => l.out % l.groups = 0 /\ l.tp = 1 /\ Wrappable(host) # {}

\* A key of the offset cache.
OffsetKey(rows, l, side) == [rows |-> rows, k |-> l.sliced, side |-> side, dev |-> l.dev]

\* mutant: the capture sizes are warmed for the side of the weights.
WarmedBy_WeightSide(l, told) == {OffsetKey(rows, l, "b") : rows \in told}

\* What load computes: the weights' own offsets, and the activations' for
\* every capture size vLLM tells (_prewarm_activation_offsets).
WarmedBy(l, told) ==
    {OffsetKey(rows, l, "a") : rows \in told}
        \cup {OffsetKey(l.out \div (IF l.groups = 0 THEN 1 ELSE l.groups), l, "b")}

\* apply: a copy from the host is illegal inside a capture.
Mxfp8Launch(l, offsets, rows, captured) ==
    IF captured /\ OffsetKey(rows, l, "a") \notin offsets THEN Refusal(FALSE)
    ELSE Launch("mxfp8_dense_mm", "", "none", FALSE)

-----------------------------------------------------------------------------
(* The trellis lanes. *)

TrellisFlag(l) == IF l.scheme.family = "e2m1" THEN "TRELLIS_E2M1" ELSE "TRELLIS_E4M3"

\* build_trellis_*_method and create_weights; the mode has no default.
TrellisConstructs(l, optedIn, mode) ==
    /\ optedIn /\ mode \in {"resident", "streamed"}
    /\ RateInRange(l.scheme.family, l.scheme.rate)
    /\ l.scheme.family = "e2m1" => l.scheme.columns % GroupSize = 0
    /\ l.out = l.scheme.rows /\ l.in = l.scheme.columns

TrellisLoads(host, l) ==
    /\ ParsesAs(l.blob, l.scheme)
    /\ Loaded(host, "trellis") /\ DeviceAccepts(Prepared(l.blob.wire))
    /\ l.scheme.family = "e2m1" => l.gs > 0

\* Resident layers keep the decoded plane and drop the wire, streamed ones
\* keep the prepared wire and decode into the pool (Residency).
TrellisKept(l, mode) ==
    LET prepared == Prepared(l.blob.wire)
    IN [mode |-> mode,
        plane |-> IF mode = "resident" THEN DecodedPlane(prepared) ELSE Absent,
        prepared |-> IF mode = "streamed" THEN prepared ELSE Absent,
        scale |-> IF l.scheme.family = "e2m1" THEN BlockedScales(l.blob.wire.scales) ELSE l.blob.wire.scales]

\* apply; the quantizer of the activations is vLLM's.
TrellisLaunch(host, l, kept) ==
    IF (IF l.scheme.family = "e2m1" THEN "fp4_quant" ELSE "cutlass") \notin host.ops THEN Refusal(FALSE)
    ELSE Launch(IF kept.mode = "resident" THEN "_scaled_mm" ELSE "decode_native_packed_out+_scaled_mm",
                IF l.scheme.family = "e2m1" THEN "e2m1_group16_ue4m3_static" ELSE "fp8_per_token_dynamic",
                "none", FALSE)

\* The code and the scale a call multiplies at a row and a column.
TrellisOperand(kept) == IF kept.mode = "resident" THEN kept.plane ELSE DecodedPlane(kept.prepared)
TrellisScaleRead(l, kept, row, c) ==
    IF l.scheme.family = "e2m1"
    THEN kept.scale[ScaleAt(row, ((c - 1) \div GroupSize) + 1, CeilDiv(l.in, GroupSize))]
    ELSE kept.scale[row][1]
=============================================================================
