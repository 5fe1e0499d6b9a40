------------------------------ MODULE LaneSelect ------------------------------
(***************************************************************************)
(* What the dense and the routed codebook layers share when they choose a  *)
(* kernel: the process-stable environment flags, and the attestation of an *)
(* extension on the device of a layer (gridbook/lane_select.py,            *)
(* moe_gemv_select.py, bf16_grouped_lane.py, nvfp4_activation_contract.py).*)
(*                                                                         *)
(* A host is [cap: device -> compute capability or Absent, smem: the       *)
(* devices with 99 KiB of opt-in shared memory, ops: the native ops of     *)
(* vLLM it has, ext: extension -> Absent or the loaded module [cap: what   *)
(* it was built for, has: its symbols, rungs: the rungs it compiled,       *)
(* tiles: its tile sizes]].  How a module comes to be loaded is NativeExt. *)
(***************************************************************************)
EXTENDS Naturals, Sequences, FiniteSets, TLC

CONSTANT Absent

Sm12x == {"12.0", "12.1"}

-----------------------------------------------------------------------------
(* Flags. *)

Switch    == "" :> "off" @@ "0" :> "off" @@ "1" :> "on"
ThreeWay  == "" :> "auto" @@ "auto" :> "auto" @@ "1" :> "require" @@ "require" :> "require"
                @@ "0" :> "off" @@ "off" :> "off"
NoMode    == [family |-> "none", midm |-> FALSE, tile |-> 0]
Mode(family, midm, tile) == [family |-> family, midm |-> midm, tile |-> tile]

\* The spellings each flag accepts, and what each one selects.
Spellings == [
    FUSED_FP4 |-> "" :> NoMode
        @@ "1" :> Mode("static", FALSE, 128) @@ "midm" :> Mode("static", TRUE, 128)
        @@ "static_lsq" :> Mode("lsq", FALSE, 128) @@ "static_lsq_midm" :> Mode("lsq", TRUE, 128)
        @@ "rowwise" :> Mode("rowwise", FALSE, 128) @@ "rowwise_midm" :> Mode("rowwise", TRUE, 128),
    FUSED_FP4_MOE |-> "" :> NoMode
        @@ "1" :> Mode("static", FALSE, 128) @@ "128" :> Mode("static", FALSE, 128)
        @@ "256" :> Mode("static", FALSE, 256) @@ "static_lsq" :> Mode("lsq", FALSE, 128)
        @@ "static_lsq128" :> Mode("lsq", FALSE, 128) @@ "static_lsq256" :> Mode("lsq", FALSE, 256)
        @@ "rowwise" :> Mode("rowwise", FALSE, 128) @@ "rowwise128" :> Mode("rowwise", FALSE, 128)
        @@ "rowwise256" :> Mode("rowwise", FALSE, 256),
    FP4_FUSED_MIDM |-> Switch,
    BF16_SM120 |-> Switch,
    MOE_PERSISTENT_B_D2R |-> Switch,
    MXFP8_DENSE |-> Switch,
    TRELLIS_E2M1 |-> Switch,
    TRELLIS_E4M3 |-> Switch,
    FUSED_MIDM |-> "" :> "auto" @@ "0" :> "off" @@ "1" :> "require",
    MOE_PERSISTENT_B |-> ThreeWay,
    FP8_GEMV_V2 |-> ThreeWay,
    CB_GEMV |-> "" :> "auto" @@ "auto" :> "auto" @@ "v2" :> "v2" @@ "inherited" :> "inherited"]

Flags == DOMAIN Spellings

\* Absent is none of the values it stands for the lack of.
ASSUME AbsentAssumption ==
    /\ \A f \in Flags : Absent \notin DOMAIN Spellings[f]
    /\ Absent # TRUE /\ Absent # "persistent_b"

\* mutant: the latch is written but never compared.
Readable_NoLatch(env, pinned, flag) == env[flag] \in DOMAIN Spellings[flag]

\* latched_bool, latched_choice and their two siblings with a latch of their
\* own: a spelling nobody knows raises, and so does one that has changed.
Readable(env, pinned, flag) ==
    /\ env[flag] \in DOMAIN Spellings[flag]
    /\ pinned[flag] \in {Absent, env[flag]}

Pin(env, pinned, flags) == [f \in Flags |-> IF f \in flags THEN env[f] ELSE pinned[f]]

Selected(env, flag) == Spellings[flag][env[flag]]

-----------------------------------------------------------------------------
(* Extensions. *)

Loaded(host, name) == host.ext[name] # Absent
Has(host, name, symbol) == Loaded(host, name) /\ symbol \in host.ext[name].has

\* The attestation of a module on a device, cb_*_prepare: an
\* architecture-accelerated binary runs only where it was built for, and the
\* dynamic shared memory it asks for must exist.
Prepares(host, name, dev) ==
    host.ext[name].cap = host.cap[dev] /\ dev \in host.smem

\* fp8_fused_lane.rung_eligible: the law is a filter over what was compiled.
FusedKbits == {28, 32, 36, 40, 44, 48}
RungEligible(host, k) == k \in FusedKbits /\ Loaded(host, "fp8") /\ k \in host.ext["fp8"].rungs

\* mutant: any supported device will do, whatever the module was built for.
Attested_AnyBuild(host, name, symbol, dev, prepared) ==
    /\ Has(host, name, symbol)
    /\ host.cap[dev] # Absent => host.cap[dev] \in Sm12x

\* require_lane: the symbols, the capability of this device, the capability
\* of the build, and for two lanes the attestation.
Attested(host, name, symbol, dev, prepared) ==
    /\ Has(host, name, symbol)
    /\ host.cap[dev] # Absent =>
        host.cap[dev] \in Sm12x /\ host.ext[name].cap = host.cap[dev]
    /\ prepared => Prepares(host, name, dev)

\* bf16_grouped_lane.require_lane
Sm120Lane(host, dev) == Attested(host, "bf16", "sm120", dev, FALSE)

-----------------------------------------------------------------------------
(* The grouped GEMV of a routed stack (moe_gemv_select.py). *)

\* cb_gemv_v2_device_support
SupportsV2(host, dev) == host.cap[dev] \in Sm12x /\ dev \in host.smem

\* cb_gemv_v2_available: the verdict of a device, cached once it was probed.
\* A device that is not supported is not probed and leaves nothing behind.
Probes(host, v2ok, dev) == SupportsV2(host, dev) /\ v2ok[dev] = Absent
V2Verdict(host, v2ok, dev) ==
    IF ~SupportsV2(host, dev) THEN FALSE
    ELSE IF v2ok[dev] # Absent THEN v2ok[dev]
    ELSE Has(host, "v2", "gemv_v2") /\ Prepares(host, "v2", dev)

\* cb_gemv_choice: does a stack with this many input features take v2?
WantsV2(mode, l) == mode # "inherited" /\ l.sub = 2 /\ l.size = (4 * l.k) + 9
TakesV2(available, l, features) ==
    available /\ ~(l.k \in 22..24 /\ features >= 2048)

\* cb_fp8_gemv_v2_choice
OnCell(l, features) == l.k = 28 /\ l.sub = 4 /\ l.size = 112 /\ features \in {2048, 4096}
Fp8V2Refuses(mode, l) ==
    mode = "require" /\ \E f \in {l.hidden, l.inter} : ~OnCell(l, f)

-----------------------------------------------------------------------------
(* Route records (nvfp4_activation_contract.py). *)

\* fused_fp4_contract
FusedContract(family) ==
    CASE family = "rowwise" -> "nvfp4_rowwise"
      [] family = "lsq" -> "nvfp4_static_lsq"
      [] family = "static" -> "nvfp4_static_G"

\* bridge_contract
BridgeContract(grid) == IF grid = "fp4" THEN "fp4_group16_rtn" ELSE "fp8_per_token_dynamic"

\* A launch: the kernel a call ends in, how its record is written (before and
\* after, after only, or not at all), and what it wrote on the way if a lane
\* above it declined.
Launch(symbol, contract, writes, declined) ==
    [symbol |-> symbol, contract |-> contract, writes |-> writes, declined |-> declined]

\* A call that raises before any launch; declined: it left a fallback record.
Refusal(declined) == Launch("", "", "none", declined)

\* mutant: the record of a lane that declined outlives the lane that served.
Recorded_FallbackStays(old, call, returned, rows) ==
    CASE call.declined -> [symbol |-> "", contract |-> call.contract, state |-> "fallback", rows |-> rows]
      [] ~call.declined /\ (call.writes = "none" \/ (call.writes = "after" /\ ~returned)) -> old
      [] ~call.declined /\ call.writes # "none" /\ (call.writes = "twice" \/ returned) ->
            [symbol |-> call.symbol, contract |-> call.contract,
             state |-> IF returned THEN "served" ELSE "error", rows |-> rows]

\* emit_route, from what a call did.
Recorded(old, call, returned, rows) ==
    LET entry(symbol, state) ==
            [symbol |-> symbol, contract |-> call.contract, state |-> state, rows |-> rows]
        before == IF call.declined THEN entry("", "fallback") ELSE old
    IN CASE call.writes = "none" -> before
         [] call.writes # "none" /\ returned -> entry(call.symbol, "served")
         [] call.writes = "twice" /\ ~returned -> entry(call.symbol, "error")
         [] call.writes = "after" /\ ~returned -> before
=============================================================================
