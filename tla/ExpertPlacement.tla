--------------------------- MODULE ExpertPlacement ---------------------------
(***************************************************************************)
(* Expert parallelism (gridbook/moe_ep.py): which expert of the checkpoint *)
(* lies in which slot of a rank's stacks, and how a forward turns the      *)
(* router's global expert ids into slots.  A placement is vLLM's           *)
(* expert_map: for each global expert its slot on this rank, or -1.        *)
(***************************************************************************)
EXTENDS Integers, FiniteSets

Slots(n) == 0..(n - 1)

Owned(map) == {g \in DOMAIN map : map[g] >= 0}

------------------------------------------------------------------------------
(* Load time: local_expert_gather_index. *)

Bijective(map, n) ==
    /\ Cardinality(Owned(map)) = n
    /\ {map[g] : g \in Owned(map)} = Slots(n)

Monotone(map) ==
    \A g, h \in Owned(map) : g < h => map[g] < map[h]

\* The placements Gridbook loads under.
Accepted(map, n) == Bijective(map, n) /\ Monotone(map)

\* The expert whose rows are gathered into each slot.
GatherIndex(map, n) ==
    [s \in Slots(n) |-> CHOOSE g \in Owned(map) : map[g] = s]

------------------------------------------------------------------------------
(* Forward time: remap_local_expert_ids.  A routed pair p is a (token, rank *)
(* of the top-k) slot; ids[p] is its expert, tok[p] its token.              *)

Local(map, ids, p) == map[ids[p]] >= 0

\* The slots a token routes to on this rank.
Reached(map, ids, tok, t) ==
    {map[ids[p]] : p \in {q \in DOMAIN ids : tok[q] = t /\ Local(map, ids, q)}}

\* A definition named X_Slip is X with one slip a maintainer could make.  No
\* behaviour uses it; it shows which property would notice.
Alias_Zero(map, ids, tok, t) == 0

\* Where a token's remote pairs are sent: its smallest local slot, or slot 0.
Alias(map, ids, tok, t) ==
    IF Reached(map, ids, tok, t) = {} THEN 0
    ELSE CHOOSE s \in Reached(map, ids, tok, t) :
            \A u \in Reached(map, ids, tok, t) : s <= u

\* The slot of each pair, and the pairs that keep their router weight; the
\* weight of the others is exactly zero.
RemapIds(map, ids, tok) ==
    [p \in DOMAIN ids |-> IF Local(map, ids, p) THEN map[ids[p]]
                          ELSE Alias(map, ids, tok, tok[p])]

RemapLive(map, ids, live) == {p \in live : Local(map, ids, p)}
==============================================================================
