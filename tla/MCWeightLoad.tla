---------------------------- MODULE MCWeightLoad -----------------------------
(***************************************************************************)
(* Two composite modules (one of two sharded planes, one of a sharded and  *)
(* a replicated plane), one stacked FP8 expert layer and one mixed layer   *)
(* with a static activation scalar, on the second of two ranks.             *)
(***************************************************************************)
EXTENDS WeightLoad

MCGroups      == {"qkv", "gate_up"}
MCPlanes      == {"q.cb", "k.w", "gate.cb", "gate.sc"}
MCGroupOf     == [p \in MCPlanes |-> IF p \in {"q.cb", "k.w"}
                                     THEN "qkv" ELSE "gate_up"]
MCLayers      == {"experts", "split"}
MCMixedLayers == {"split"}
MCStacks      == {"w13", "split.w13"}
MCScales      == {"w13.sc"}
MCInputScales == {"split.in"}
MCLayerOf     == [p \in MCStacks \cup MCScales \cup MCInputScales |->
                    IF p \in {"w13", "w13.sc"} THEN "experts" ELSE "split"]
MCAttested    == [s \in MCInputScales |-> "a"]
MCReplicated  == {"gate.sc"}

T(to, part) == [to |-> to, via |-> "registered", part |-> part,
                dtype |-> "same", val |-> "a"]

\* The checkpoint as exported, a plane in its raw-byte spelling.
GoodWire ==
    {T(p, Whole) : p \in {"q.cb", "k.w", "gate.cb", "w13", "split.w13",
                          "w13.sc", "split.in"}}
    \cup {[T("gate.sc", Whole) EXCEPT !.dtype = "raw"]}

\* And what else a stream may bring.
FaultyWire ==
    {[T("q.cb", Whole) EXCEPT !.via = "construction", !.val = "b"],
     [T("k.w", Whole) EXCEPT !.via = "construction"],
     [T("gate.sc", Whole) EXCEPT !.dtype = "other"],
     T("gate.cb", Cut(0)), T("w13", Bad), T("w13", Cut(0)),
     [T("split.in", Whole) EXCEPT !.val = "b"],
     T("orphan", Whole)}

\* The row scale takes the same path as the stack beside it; it is left to the
\* run about unguarded parameters.
MCWire == (GoodWire \ {T("w13.sc", Whole)}) \cup FaultyWire
==============================================================================
