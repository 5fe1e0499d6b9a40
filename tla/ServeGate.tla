------------------------------ MODULE ServeGate ------------------------------
(***************************************************************************)
(* What loading promises to the rest of the server, with none of the       *)
(* mechanism: a quantized module moves from "empty" to "filled" to         *)
(* "ready", never skips "filled", never falls back, and the model serves   *)
(* only when every module it has is ready.  WeightLoad implements this.    *)
(***************************************************************************)
CONSTANT Modules

VARIABLES
    gate,      \* gate[m]: how far module m has come
    open       \* TRUE once the model answers requests

gateVars == <<gate, open>>

GateTypeOK ==
    /\ gate \in [Modules -> {"absent", "empty", "filled", "ready"}]
    /\ open \in BOOLEAN

GateInit ==
    /\ gate \in [Modules -> {"absent", "empty"}]   \* "absent": never built
    /\ open = FALSE

\* Module m receives the last checkpoint plane it was waiting for.
Fill(m) ==
    /\ gate[m] = "empty"
    /\ gate' = [gate EXCEPT ![m] = "filled"]
    /\ UNCHANGED open

\* A filled module passes its post-load checks.
Admit(m) ==
    /\ gate[m] = "filled"
    /\ gate' = [gate EXCEPT ![m] = "ready"]
    /\ UNCHANGED open

Open ==
    /\ \A m \in Modules : gate[m] \in {"absent", "ready"}
    /\ open' = TRUE
    /\ UNCHANGED gate

GateNext == Open \/ \E m \in Modules : Fill(m) \/ Admit(m)

GateSpec == GateInit /\ [][GateNext]_gateVars
==============================================================================
