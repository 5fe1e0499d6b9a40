--------------------------- MODULE QuantDeclaration --------------------------
(***************************************************************************)
(* What an artifact's quant_config.json declares and which declarations    *)
(* are refused while it is parsed (gridbook/config.py, per_expert_format,  *)
(* source_passthrough, embedding, trellis_scheme and                       *)
(* nvfp4_activation_contract).  Field types that are JSON's own are taken  *)
(* as right.                                                               *)
(***************************************************************************)
EXTENDS Namespaces, FiniteSets, TLC

CONSTANT Absent   \* an optional field that is not given

-----------------------------------------------------------------------------
(* Schemes of a config group.                                              *)

TrellisFamilies == {"tcq_e4m3_r256", "tcq_e2m1_r256"}
IsTrellis(s)    == "family" \in DOMAIN s /\ s.family \in TrellisFamilies

\* The reader domain of a family, in q256 per weight (trellis.RUNG_POLICIES).
TrellisRates(f) == IF f = "tcq_e4m3_r256" THEN 256 .. 2040 ELSE 256 .. 1016

TrellisOk(s) ==
    /\ {"rate", "rows", "columns", "bytes"} \subseteq DOMAIN s
    /\ s.rate \in TrellisRates(s.family)
    /\ s.rows > 0 /\ s.columns > 0 /\ s.bytes > 0
    /\ s.family = "tcq_e2m1_r256" => s.columns % 16 = 0

\* parse_wire_for_scheme: the loaded blob is what the scheme declares.
WireOk(s, w) == w = [family |-> s.family, rate |-> s.rate, rows |-> s.rows,
                     columns |-> s.columns, bytes |-> s.bytes]

Rungs(grid) == IF grid = "fp4" THEN 12 .. 24 ELSE 28 .. 48
SubBooks(grid) == IF grid = "fp4" THEN 2 ELSE 4

\* The resident bytes of a 256-weight superblock.
TypeSize(grid, k, coding) ==
    CASE grid = "fp8" -> 4 * k
      [] coding = "v1" -> (4 * k) + 16
      [] coding = "two_tier" -> (4 * k) + 9

CbSchemeOk(s) ==
    /\ s.grid \in {"fp4", "fp8"}
    /\ s.mode = "product"
    /\ s.k \in Rungs(s.grid)
    /\ s.sub = SubBooks(s.grid)
    /\ s.coding \in (IF s.grid = "fp8" THEN {"v1"} ELSE {"v1", "two_tier"})
    /\ s.size = TypeSize(s.grid, s.k, s.coding)

-----------------------------------------------------------------------------
(* The activation contract, and the scalars it attests.                    *)

Stages == <<"w13", "w2">>
StageSources(stage) ==
    {"target", "max_abs", "render"}
        \cup (IF stage = "w13" THEN {"parent", "module_input"} ELSE {"routed_replay"})

StagesOk(c) ==
    /\ c.stages.names = SetToSeq(DOMAIN c.stages.modules)
    /\ c.stages.count = Cardinality(DOMAIN c.stages.modules) /\ c.stages.count > 0
    /\ \A m \in DOMAIN c.stages.modules :
           /\ DOMAIN c.stages.modules[m] = ToSet(Stages)
           /\ \A s \in ToSet(Stages) :
                  LET e == c.stages.modules[m][s]
                  IN /\ e.stage = s
                     /\ Stem(e.target) = m
                     /\ e.target \in ToSet(c.names)
                     /\ e.policy = c.policy
                     /\ e.source \in StageSources(s)
    /\ c.stages.digest = c.stages.modules

ContractOk(c) ==
    /\ c.schema \in {1, 2}
    /\ c.policy \in {"legacy", "full_e4m3", "mse_grid"}
    /\ IsInjective(c.names)
    /\ Len(c.names) = c.count /\ c.count > 0
    /\ c.schema = 2 <=> c.stages # Absent
    /\ c.schema = 2 => StagesOk(c)

\* validate_payload: every scalar in storage, none other, with these values.
PayloadOk(c, scalars) ==
    /\ \A t \in DOMAIN scalars : scalars[t] > 0
    /\ Cardinality(DOMAIN scalars) = c.count
    /\ DOMAIN scalars = ToSet(c.names)
    /\ c.digest = [policy |-> c.policy, values |-> scalars]

\* load_codebooks: a declared provenance covers the tables exactly.
BooksOk(provenance, tables) == provenance # Absent => provenance = tables

\* The link of a CB scheme to the contract.
ActivationOk(s, c, physical) ==
    /\ s.link # Absent => s.grid = "fp4" /\ s.link = "nvfp4_w4a4" /\ c # Absent
    /\ s.link # Absent => physical \in ToSet(c.names)
    /\ c # Absent /\ s.grid = "fp4" => s.link # Absent

-----------------------------------------------------------------------------
(* DSpark: the layers a draft model builds, and the tensors that hold them. *)

BridgeOk(b, c) ==
    LET pairs == b.pairs
        physical == {pairs[n] : n \in DOMAIN pairs}
    IN /\ b.hidden > 0 /\ b.mtp > 0 /\ c # Absent /\ pairs # << >>
       /\ \A n \in DOMAIN pairs :
              /\ CanonicalPrefix(n) = n
              /\ Len(n) > 3 /\ SubSeq(n, 1, 2) = <<"model", "layers">>
              /\ Len(pairs[n]) > 2 /\ pairs[n][1] = "mtp"
              /\ \E stage \in 0 .. b.mtp - 1 :
                     pairs[n][2] = ToString(stage) /\ n[3] = ToString(b.hidden + stage)
              /\ Drop(n, 3) = Drop(pairs[n], 2)
       /\ Cardinality(physical) = Cardinality(DOMAIN pairs)
       /\ physical = ToSet(c.names)

BridgePairs(d) == IF d.bridge = Absent THEN << >> ELSE d.bridge.pairs

Lookup(f, n, default) == IF n \in DOMAIN f THEN f[n] ELSE default
Physical(d, n)        == Lookup(BridgePairs(d), CanonicalPrefix(n), n)

-----------------------------------------------------------------------------
(* Config groups, in the order of the document.                            *)

CanonicalSet(names) == {CanonicalPrefix(n) : n \in names}
Targets(g)          == CanonicalSet(ToSet(g.targets))

\* A group with a scheme is Gridbook's, a group of source-format units is
\* metadata, and every other group goes to compressed-tensors.
Vocabulary(g) ==
    CASE g.kind = "scheme" -> IF IsTrellis(g.content) THEN "trellis" ELSE "cb"
      [] OTHER -> g.kind

GroupsOf(d, v)  == {g \in ToSet(d.groups) : Vocabulary(g) = v}
TargetsOf(d, v) == UNION {Targets(g) : g \in GroupsOf(d, v)}

\* The last group that names a target decides.
ContentOf(d, v, n) ==
    LET naming == {i \in DOMAIN d.groups : Vocabulary(d.groups[i]) = v /\ n \in Targets(d.groups[i])}
    IN d.groups[CHOOSE i \in naming : \A j \in naming : j <= i].content

Declared(d, v) == [n \in TargetsOf(d, v) |-> ContentOf(d, v, n)]

CbNamed(d) == UNION {ToSet(g.targets) : g \in GroupsOf(d, "cb")}

GroupsOk(d) ==
    /\ \A g \in GroupsOf(d, "cb") :
           /\ CbSchemeOk(g.content)
           /\ \A n \in ToSet(g.targets) : ActivationOk(g.content, d.contract, Physical(d, n))
    /\ \A g \in GroupsOf(d, "trellis") : TrellisOk(g.content)
    /\ \A m, n \in UNION {ToSet(g.targets) : g \in {g \in GroupsOf(d, "cb") : g.content.link # Absent}} :
           CanonicalPrefix(m) = CanonicalPrefix(n) => Physical(d, m) = Physical(d, n)
    /\ DOMAIN BridgePairs(d) \subseteq UNION {Targets(g) : g \in ToSet(d.groups)}

\* The tensor that holds a contracted target's scalar.
PhysicalNames(d) ==
    LET linked == {n \in CbNamed(d) : ContentOf(d, "cb", CanonicalPrefix(n)).link # Absent}
    IN BridgePairs(d) @@ [n \in CanonicalSet(linked) |->
                              Physical(d, CHOOSE m \in linked : CanonicalPrefix(m) = n)]

-----------------------------------------------------------------------------
(* Source-format units and quantized embeddings.                           *)

SourceFormats == {"mxfp4_e2m1_ue8m0_g32", "fp8_e4m3_ue8m0_block128", "mxfp8_e4m3_e8m0_g32"}

UnitsOk(units, formats, cb) ==
    /\ DOMAIN units # {}
    /\ \A u \in DOMAIN units : units[u] \in formats /\ CanonicalPrefix(u) \notin cb

SourceOk(d, cb) ==
    d.source # Absent =>
        /\ d.source.version = 1
        /\ UnitsOk(d.source.units, SourceFormats, cb)
        /\ \A u, v \in DOMAIN d.source.units :
               CanonicalPrefix(u) = CanonicalPrefix(v) => d.source.units[u] = d.source.units[v]

EmbeddingOk(d, cb) ==
    d.embedding # Absent =>
        /\ d.embedding.version = 1
        /\ UnitsOk(d.embedding.units, {"nvfp4"}, cb)
        /\ \A u \in DOMAIN d.embedding.units : Leaf(CanonicalPrefix(u)) # "lm_head"

UnitMap(section) ==
    IF section = Absent THEN << >>
    ELSE [n \in CanonicalSet(DOMAIN section.units) |->
              section.units[CHOOSE u \in DOMAIN section.units : CanonicalPrefix(u) = n]]

-----------------------------------------------------------------------------
(* Expert partitions: per layer and family, which experts have which       *)
(* format, and the sub-stack that holds them.                              *)

Families == {"w13", "w2"}
Projection(family) == IF family = "w13" THEN "gate_up_proj" ELSE "down_proj"
SourceExperts == [grid |-> "source", k |-> 0]

FormatGroupOk(layer, family, g, schemes) ==
    /\ LayerOf(g.prefix) = layer
    /\ g.ids \in Seq(Nat) \ {<< >>} /\ \A i \in 1 .. Len(g.ids) - 1 : g.ids[i] <= g.ids[i + 1]
    /\ g.wire # SourceExperts =>
           LET n == CanonicalPrefix(g.prefix)
           IN /\ g.wire.k \in Rungs(g.wire.grid)
              /\ \E i \in 2 .. Len(g.prefix) - 1 :
                     g.prefix[i] = Projection(family) /\ g.prefix[i + 1] \in {"format_group_0", "format_group_1"}
              /\ n \in DOMAIN schemes
              /\ schemes[n].grid = g.wire.grid /\ schemes[n].k = g.wire.k

Ids(groups) == UNION {ToSet(groups[i].ids) : i \in DOMAIN groups}

\* A partition of exactly the experts 0 .. experts - 1.
FamilyOk(groups, experts) ==
    /\ \A i, j \in DOMAIN groups :
           i # j => groups[i].wire # groups[j].wire /\ ToSet(groups[i].ids) \cap ToSet(groups[j].ids) = {}
    /\ \A i \in DOMAIN groups : IsInjective(groups[i].ids)
    /\ Ids(groups) = 0 .. experts - 1

\* As many experts as the largest id of either family says.
ExpertCount(l) ==
    LET all == Ids(l["w13"]) \cup Ids(l["w2"])
    IN 1 + (CHOOSE e \in all : \A f \in all : f <= e)

PartitionsOk(d, schemes) ==
    d.experts # Absent =>
        /\ d.experts.version = 1 /\ DOMAIN d.experts.layers # {}
        /\ \A layer \in DOMAIN d.experts.layers :
               LET l == d.experts.layers[layer]
               IN /\ DOMAIN l = Families
                  /\ \A family \in Families :
                         /\ l[family] # << >>
                         /\ \A i \in DOMAIN l[family] : FormatGroupOk(layer, family, l[family][i], schemes)
                         /\ FamilyOk(l[family], ExpertCount(l))

\* mutant: an expert's row is its rank among all experts
IndexMap_GlobalRow(groups, experts) ==
    [e \in 0 .. experts - 1 |->
        <<CHOOSE i \in DOMAIN groups : e \in ToSet(groups[i].ids), e + 1>>]

\* expert -> the group that holds it and its place there.
PlaceOf(groups, experts, e) ==
    CHOOSE p \in (DOMAIN groups) \X (1 .. experts) :
        p[2] \in DOMAIN groups[p[1]].ids /\ groups[p[1]].ids[p[2]] = e
IndexMap(groups, experts) == [e \in 0 .. experts - 1 |-> PlaceOf(groups, experts, e)]

-----------------------------------------------------------------------------
(* The whole document: what _ensure_resolved accepts and keeps.            *)

\* With the names a shared expert of "names" may be asked for.
WithAliases(f, names) ==
    f @@ [a \in UNION {SharedAliases(n) : n \in names} |->
              f[CHOOSE n \in names : a \in SharedAliases(n)]]

Accepted(d) ==
    LET schemes == Declared(d, "cb")
    IN /\ d.contract # Absent => ContractOk(d.contract)
       /\ d.bridge # Absent => BridgeOk(d.bridge, d.contract)
       /\ GroupsOk(d)
       /\ SourceOk(d, DOMAIN schemes)
       /\ EmbeddingOk(d, DOMAIN schemes)
       /\ PartitionsOk(d, schemes)

Layers(d) == IF d.experts = Absent THEN << >> ELSE d.experts.layers

SubStacks(d) ==
    UNION {{g.prefix : g \in ToSet(Layers(d)[l][f])} : l \in DOMAIN Layers(d), f \in Families}

\* The tables a document becomes, and the attested scales.
Resolution(d, scales) ==
    LET ignored == CanonicalSet(ToSet(d.ignore))
        ignore  == ignored \cup UNION {SharedAliases(n) : n \in ignored}
        own     == Declared(d, "cb")
        scheme  == WithAliases(own, DOMAIN own)
        trellis == Declared(d, "trellis")
        stock   == Declared(d, "stock")
        source  == UnitMap(d.source)
        embed   == UnitMap(d.embedding)
        names   == PhysicalNames(d)
    IN [scheme   |-> scheme, trellis |-> trellis, source |-> source, embed |-> embed,
        stock    |-> stock, ignore |-> ignore, layers |-> Layers(d), scales |-> scales,
        physical |-> WithAliases(names, DOMAIN own \cap DOMAIN names),
        serving  |-> [p \in SubStacks(d) |-> CanonicalPrefix(p)],
        ct       |-> [groups |-> stock,
                      ignore |-> ignore \cup DOMAIN scheme \cup DOMAIN trellis
                                     \cup DOMAIN source \cup DOMAIN embed]]
==============================================================================
