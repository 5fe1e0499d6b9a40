---------------------------- MODULE RoutedForward ----------------------------
(***************************************************************************)
(* The forward of one MoE layer (gridbook/moe.py) on every rank that holds *)
(* a share of its experts: neutralise the router's padding, map expert ids *)
(* to slots, lay the routed pairs out for the lane the layer was given,    *)
(* run the grouped products, and add the rows up per token.  vLLM then     *)
(* sums the ranks.  A forward runs eagerly, or is captured once into a     *)
(* CUDA graph and replayed with other routings: a replay repeats the       *)
(* device work, with the host's numbers as they were at capture.           *)
(*                                                                         *)
(* Numbers are abstracted to where they come from: a row of a product is   *)
(* the token it reads, the slot whose weights it meets, the pair whose     *)
(* router weight scales it, and the token it is added to.                  *)
(***************************************************************************)
EXTENDS ExpertPlacement

CONSTANTS
    NumExperts,  \* experts of the checkpoint
    TopK,        \* experts the router names per token
    Routes,      \* what the router may name: functions 0..TopK-1 -> expert id
    Sizes,       \* bound: numbers of tokens of a batch
    Threshold,   \* MOE_PREFILL_M_THRESHOLD: larger batches are prefill
    TileM,       \* rows of a tile of the padded layout
    Group,       \* tiles of a swizzle group
    NoMap,       \* the map of a layer without expert parallelism
    Deployments  \* how the layer may be served: see the variable deployment

Lanes  == {"fused", "bridge", "persistent_b", "sm120"}
Skip   == -1     \* the id vLLM gives the slots of a padding token

\* How vLLM distributes the experts: not at all, or each to one rank.  Whether
\* Gridbook accepts a rank's placement is decided when the layer is built.
AllOnOneRank(d) ==
    \E r \in DOMAIN d.place : /\ DOMAIN d.place = {r}
                              /\ d.place[r] = [map |-> NoMap, local |-> NumExperts]

SharedOut(d) ==
    /\ \A r \in DOMAIN d.place :
           /\ d.place[r].map \in [Slots(NumExperts) -> Int] \ {NoMap}
           /\ d.place[r].local \in Nat \ {0}
    /\ \A e \in Slots(NumExperts) : \E r \in DOMAIN d.place :
           \A q \in DOMAIN d.place : e \in Owned(d.place[q].map) <=> q = r

ASSUME ForwardAssumption ==
    /\ NumExperts \in Nat \ {0} /\ TopK \in Nat \ {0}
    /\ Sizes \subseteq Nat \ {0} /\ Threshold \in Nat
    /\ TileM \in Nat \ {0} /\ Group \in Nat \ {0}
    /\ \A d \in Deployments : /\ d.lane \in Lanes
                              /\ d.chunk \in Nat \ {0}
                              /\ d.trim \in BOOLEAN
    /\ Routes \subseteq [0..(TopK - 1) -> Slots(NumExperts) \cup {Skip}]
    \* vLLM pads whole tokens.
    /\ \A t \in Routes : (\E j \in DOMAIN t : t[j] = Skip) => \A j \in DOMAIN t : t[j] = Skip
    /\ \A d \in Deployments : AllOnOneRank(d) \/ SharedOut(d)

VARIABLES
    deployment,  \* fixed: place, each rank's [map, local] record; lane, what
                 \* the layer resolved for prefill at load; chunk, experts of
                 \* a launch; trim, PRISMAQUANT_CB_GROUPED_TRIM
    mode,        \* "load", "idle", the kind of step under way, or "failed"
    constructed, \* ranks whose layer was built
    moved,       \* ranks whose expert_map was registered again after load
    asked,       \* the routing of the step: a Route per token
    out,         \* out[r]: whether rank r is done, and the rows it added up
    graph        \* graph[r]: tiles launched by the graph of each batch size

forwardVars == <<deployment, mode, constructed, moved, asked, out, graph>>

World   == DOMAIN deployment.place
Pending == [done |-> FALSE, rows |-> {}]

LocalCount(r) == deployment.place[r].local
MapOf(r)      == deployment.place[r].map

Tokens == DOMAIN asked
Pairs  == {t * TopK + j : t \in Tokens, j \in 0..(TopK - 1)}
tokenOf == [p \in Pairs |-> p \div TopK]
NoToken == Cardinality(Tokens)    \* the throwaway row T

\* The ids as the router gave them.
Routed(p) == asked[p \div TopK][p % TopK]
Real      == {p \in Pairs : Routed(p) # Skip}

Batches == UNION {[0..(n - 1) -> Routes] : n \in Sizes}
NoRouting   == [t \in {} |-> {}]
NotCaptured == -1

Row(r) == [at : Nat, token : Tokens, slot : Slots(LocalCount(r)),
           pair : Pairs, live : BOOLEAN, dest : Tokens]

TypeOK ==
    /\ deployment \in Deployments
    /\ mode \in {"load", "idle", "eager", "capture", "replay", "failed"}
    /\ constructed \subseteq World /\ moved \subseteq World
    /\ asked = NoRouting \/ asked \in Batches
    /\ DOMAIN out = World
    /\ \A r \in World : /\ out[r].done \in BOOLEAN
                        /\ \A c \in out[r].rows : c \in Row(r)
    /\ graph \in [World -> [Sizes -> Nat \cup {NotCaptured}]]

ForwardInit ==
    /\ deployment \in Deployments
    /\ mode = "load" /\ constructed = {} /\ moved = {}
    /\ asked = NoRouting
    /\ out = [r \in World |-> Pending]
    /\ graph = [r \in World |-> [n \in Sizes |-> NotCaptured]]

------------------------------------------------------------------------------
(* Construction. *)

\* create_weights accepts the rank's placement, and the loader will gather
\* the checkpoint's stacks by it.
Build(r) ==
    /\ mode = "load" /\ r \in World \ constructed
    /\ MapOf(r) # NoMap => Accepted(MapOf(r), LocalCount(r))
    /\ constructed' = constructed \cup {r}
    /\ mode' = IF constructed' = World THEN "idle" ELSE "load"
    /\ UNCHANGED <<deployment, moved, asked, out, graph>>

RefusePlacement(r) ==
    /\ mode = "load" /\ r \in World \ constructed
    /\ MapOf(r) # NoMap /\ ~Accepted(MapOf(r), LocalCount(r))
    /\ mode' = "failed"
    /\ UNCHANGED <<deployment, constructed, moved, asked, out, graph>>

\* The expert whose weights lie in slot s of rank r.
Held(r, s) == IF MapOf(r) = NoMap THEN s
              ELSE GatherIndex(MapOf(r), LocalCount(r))[s]

\* Elastic expert parallelism registers a new map on a rank.
Reregister(r) ==
    /\ mode = "idle" /\ r \in World \ moved
    /\ MapOf(r) # NoMap
    /\ moved' = moved \cup {r}
    /\ UNCHANGED <<deployment, mode, constructed, asked, out, graph>>

------------------------------------------------------------------------------
(* Routing on a rank, inside the opaque op. *)

\* A padding pair goes to expert 0 with weight zero.
neutral == [p \in Pairs |-> IF Routed(p) = Skip THEN 0 ELSE Routed(p)]

SlotIds(r) == IF MapOf(r) = NoMap THEN neutral
              ELSE RemapIds(MapOf(r), neutral, tokenOf)

LivePairs(r) == IF MapOf(r) = NoMap THEN Real
                ELSE RemapLive(MapOf(r), neutral, Real)

LaneOf == IF Cardinality(Tokens) <= Threshold THEN "decode" ELSE deployment.lane

\* Rows are added per token; those of the throwaway row are sliced off.
RowOf(r, i, token, slot, pair, dest) ==
    [at |-> i, token |-> token, slot |-> slot, pair |-> pair,
     live |-> pair \in LivePairs(r), dest |-> dest]

\* A stable argsort of the pairs by key.
Order(key) ==
    [i \in DOMAIN key |->
        CHOOSE p \in DOMAIN key :
            Cardinality({q \in DOMAIN key : \/ key[q] < key[p]
                                            \/ key[q] = key[p] /\ q < p}) = i]

\* _apply_grouped_decode: token-major, experts ascending within a token.
DecodeRows(r) ==
    LET ids   == SlotIds(r)
        order == Order([p \in Pairs |-> tokenOf[p] * LocalCount(r) + ids[p]])
    IN  {RowOf(r, i, tokenOf[i], ids[order[i]], order[i], tokenOf[i]) :
            i \in Pairs}

Count(ids, e) == Cardinality({p \in DOMAIN ids : ids[p] = e})

\* Pairs of experts before e: pair_off[e], and expert_ends[e - 1].
Before(ids, e) == Cardinality({p \in DOMAIN ids : ids[p] < e})

\* The experts [c0, c1) of each launch.
Width(r)  == IF deployment.lane = "persistent_b" \/ LocalCount(r) < deployment.chunk
             THEN LocalCount(r) ELSE deployment.chunk
Starts(r) == {c \in Slots(LocalCount(r)) : c % Width(r) = 0}
End(r, c) == IF c + Width(r) < LocalCount(r) THEN c + Width(r)
             ELSE LocalCount(r)

\* _apply_prefill_native_bf16 and its persistent-B form: exact segments of the
\* sorted pairs, one per expert of each launch.
SegmentRows(r) ==
    LET ids   == SlotIds(r)
        order == Order(ids)
        Segment(e) == {i \in Pairs : Before(ids, e) <= i /\ i < Before(ids, e + 1)}
    IN  UNION {UNION {{RowOf(r, i, tokenOf[order[i]], e, order[i],
                             tokenOf[order[i]]) : i \in Segment(e)} :
                        e \in c..(End(r, c) - 1)} : c \in Starts(r)}

------------------------------------------------------------------------------
(* The padded layout: cb_grouped_pad_routing, cb_grouped_block_offsets. *)

NoExpert == -1

Blocks(ids, e) == (Count(ids, e) + (TileM - 1)) \div TileM

\* Tiles before each expert's, and after the last.
Offsets(ids, n) ==
    LET off[e \in 0..n] == IF e = 0 THEN 0 ELSE off[e - 1] + Blocks(ids, e - 1)
    IN  off

\* The static capacity, known from shapes alone.
Capacity(n) == Cardinality(Pairs) \div TileM + n

\* The expert that owns tile b; n past the last.
Owner(off, n, b) == Cardinality({e \in 1..n : off[e] <= b})

TileExpert(off, n, b) ==
    IF Owner(off, n, b) < n THEN Owner(off, n, b) ELSE NoExpert

\* Padded row i of the natural layout: whether it is padding, and the sorted
\* pair it gathers from.
PadRow(ids, off, n, i) ==
    LET b    == i \div TileM
        e    == IF Owner(off, n, b) < n THEN Owner(off, n, b) ELSE n - 1
        rank == i - off[e] * TileM
        pad  == Owner(off, n, b) = n \/ rank >= Count(ids, e)
    IN  [pad |-> pad, src |-> IF pad THEN 0 ELSE Before(ids, e) + rank]

\* pack_expert_blocks over experts c0..c1-1: the tiles placed before each.
\* The largest expert that fits what is left of the swizzle group goes first;
\* when none fits, the last of the list spills over.
Larger(ids, e, f) == \/ Blocks(ids, e) > Blocks(ids, f)
                     \/ Blocks(ids, e) = Blocks(ids, f) /\ e < f

Pick(ids, left, cap) ==
    LET fits == {e \in left : Blocks(ids, e) <= cap}
    IN  IF fits # {}
        THEN CHOOSE e \in fits : \A f \in fits \ {e} : Larger(ids, e, f)
        ELSE CHOOSE e \in left : \A f \in left \ {e} : Larger(ids, f, e)

Placing(ids, s) ==
    LET cap == IF s.cap = 0 THEN Group ELSE s.cap
        e   == Pick(ids, s.left, cap)
    IN  [left |-> s.left \ {e},
         cap  |-> (cap - Blocks(ids, e)) % Group,
         next |-> s.next + Blocks(ids, e),
         at   |-> [s.at EXCEPT ![e] = s.next]]

PackedAt(ids, c0, c1) ==
    LET busy == {e \in c0..(c1 - 1) : Count(ids, e) > 0}
        step[k \in 0..Cardinality(busy)] ==
          IF k = 0 THEN [left |-> busy, cap |-> 0, next |-> 0,
                         at |-> [e \in busy |-> 0]]
          ELSE Placing(ids, step[k - 1])
    IN  step[Cardinality(busy)].at

\* Where each tile of the natural layout goes: whole experts move, and only
\* within the launch that expands their weights.
NewTile(r, ids, off) ==
    LET n == LocalCount(r)
        first(e) == CHOOSE c \in Starts(r) : c <= e /\ e < End(r, c)
        at == [c \in Starts(r) |-> PackedAt(ids, c, End(r, c))]
    IN  [b \in 0..(off[n] - 1) |->
            LET e == Owner(off, n, b)
            IN  off[first(e)] + at[first(e)][e] + (b - off[e])]

\* The launch whose tile range holds tile b indexes its slice of the stack;
\* NoExpert when that is not an expert of the slice.
SliceExpert(r, off, b, e) ==
    IF \E c \in Starts(r) : /\ off[c] <= b /\ b < off[End(r, c)]
                            /\ c <= e /\ e < End(r, c)
    THEN e ELSE NoExpert

\* The rows of the first `tiles` tiles; at and slot give each tile's position
\* and slot in the lane.  Padding rows read and feed the throwaway row.
TileRows(r, tiles, at, slot) ==
    LET ids   == SlotIds(r)
        off   == Offsets(ids, LocalCount(r))
        order == Order(ids)
        row(b, j) ==
            LET pr   == PadRow(ids, off, LocalCount(r), b * TileM + j)
                pair == order[pr.src]
                dest == IF pr.pad THEN NoToken ELSE tokenOf[pair]
            IN  RowOf(r, at[b] * TileM + j, dest, slot[b], pair, dest)
    IN  {c \in {row(b, j) : b \in 0..(tiles - 1), j \in 0..(TileM - 1)} :
            c.dest # NoToken}

\* _apply_prefill_grouped_fused_v2 and its FP4 form: one launch over the whole
\* stack.
FusedRows(r, tiles) ==
    LET off  == Offsets(SlotIds(r), LocalCount(r))
        at   == [b \in 0..(tiles - 1) |-> b]
        slot == [b \in 0..(tiles - 1) |-> TileExpert(off, LocalCount(r), b)]
    IN  TileRows(r, tiles, at, slot)

\* _apply_prefill_native_bf16_sm120: packed tiles, a launch per expert chunk.
ChunkRows(r, tiles) ==
    LET off  == Offsets(SlotIds(r), LocalCount(r))
        at   == NewTile(r, SlotIds(r), off)
        slot == [b \in DOMAIN at |->
                    SliceExpert(r, off, at[b], TileExpert(off, LocalCount(r), b))]
    IN  TileRows(r, tiles, at, slot)

\* The host's number of tiles.  A capture may not read the device.
Tiles_Trimmed(r, capturing) ==
    IF LaneOf = "sm120" \/ deployment.trim
    THEN Offsets(SlotIds(r), LocalCount(r))[LocalCount(r)]
    ELSE Capacity(LocalCount(r))

Tiles(r, capturing) ==
    IF LaneOf = "sm120" \/ (deployment.trim /\ ~capturing)
    THEN Offsets(SlotIds(r), LocalCount(r))[LocalCount(r)]
    ELSE Capacity(LocalCount(r))

RowsOf(r, tiles) ==
    CASE LaneOf = "decode" -> DecodeRows(r)
      [] LaneOf = "fused"  -> FusedRows(r, tiles)
      [] LaneOf = "sm120"  -> ChunkRows(r, tiles)
      [] LaneOf \in {"bridge", "persistent_b"} -> SegmentRows(r)

------------------------------------------------------------------------------
(* Steps of the engine. *)

Captured(n) == \A r \in World : graph[r][n] # NotCaptured

\* A batch reaches the layer on every rank: eagerly, to record a graph, or to
\* replay the graph of its size.
Ask(kind) ==
    /\ mode = "idle"
    /\ asked' \in Batches
    /\ kind = "capture" => ~Captured(Cardinality(DOMAIN asked'))
    /\ kind = "replay"  => Captured(Cardinality(DOMAIN asked'))
    /\ mode' = kind
    /\ UNCHANGED <<deployment, constructed, moved, out, graph>>

Runs(r) == mode \in {"eager", "capture"} /\ r \in World /\ ~out[r].done

\* cb_moe_forward in Python.
Forward(r) ==
    /\ Runs(r) /\ r \notin moved
    /\ ~(mode = "capture" /\ LaneOf = "sm120")
    /\ LET tiles == Tiles(r, mode = "capture")
       IN  /\ out' = [out EXCEPT ![r] = [done |-> TRUE, rows |-> RowsOf(r, tiles)]]
           /\ graph' = IF mode = "capture"
                       THEN [graph EXCEPT ![r][NoToken] = tiles] ELSE graph
    /\ UNCHANGED <<deployment, mode, constructed, moved, asked>>

\* The graph's kernels, over the new routing.
Replay(r) ==
    /\ mode = "replay" /\ r \in World /\ ~out[r].done
    /\ out' = [out EXCEPT ![r] = [done |-> TRUE,
                                  rows |-> RowsOf(r, graph[r][NoToken])]]
    /\ UNCHANGED <<deployment, mode, constructed, moved, asked, graph>>

\* An exception ends the engine.
Fail == /\ mode' = "failed"
        /\ asked' = NoRouting
        /\ out' = [r \in World |-> Pending]
        /\ UNCHANGED <<deployment, constructed, moved, graph>>

RefuseMoved(r)   == Runs(r) /\ r \in moved /\ Fail
RefuseCapture(r) == /\ Runs(r) /\ r \notin moved
                    /\ mode = "capture" /\ LaneOf = "sm120"
                    /\ Fail

\* vLLM adds the ranks up and goes on.
Reduce ==
    /\ mode \in {"eager", "capture", "replay"}
    /\ \A r \in World : out[r].done
    /\ mode' = "idle" /\ asked' = NoRouting
    /\ out' = [r \in World |-> Pending]
    /\ UNCHANGED <<deployment, constructed, moved, graph>>

Stopped == mode = "failed" /\ UNCHANGED forwardVars

ForwardNext ==
    \/ Reduce \/ Stopped
    \/ \E kind \in {"eager", "capture", "replay"} : Ask(kind)
    \/ \E r \in World : \/ Build(r) \/ RefusePlacement(r) \/ Reregister(r)
                        \/ Forward(r) \/ Replay(r)
                        \/ RefuseMoved(r) \/ RefuseCapture(r)

ForwardSpec == ForwardInit /\ [][ForwardNext]_forwardVars

------------------------------------------------------------------------------
(* Properties. *)

Finished == mode \in {"eager", "capture", "replay"} /\ \A r \in World : out[r].done

LiveRows == UNION {{<<r, c>> : c \in {d \in out[r].rows : d.live}} : r \in World}

\* The ranks together add, for every pair the router named, exactly one
\* product: its token, through the weights of its expert, scaled by its own
\* router weight; and no rank lays two pairs on one row of its product.  This
\* holds whatever the lane, the packing, the chunking,
\* the placement, and the routing a graph was captured with.
EachPairOnce ==
    Finished =>
        /\ \A x \in LiveRows :
              LET r == x[1] c == x[2]
              IN  /\ c.token = tokenOf[c.pair] /\ c.dest = c.token
                  /\ Held(r, c.slot) = Routed(c.pair)
        /\ \A p \in Real : Cardinality({x \in LiveRows : x[2].pair = p}) = 1
        /\ \A r \in World : \A c, d \in out[r].rows : c.at = d.at => c = d

\* A row of weight zero meets only weights that its token meets with a weight
\* anyway, on every rank the token has an expert on: an aliased pair cannot
\* bring in a non-finite product of its own.
AliasAddsNoRead ==
    Finished => \A r \in World : \A c \in out[r].rows :
        LET own == {d.slot : d \in {e \in out[r].rows : e.live /\ e.dest = c.dest}}
        IN  own = {} \/ c.slot \in own
==============================================================================
