----------------------------- MODULE QuantDispatch ---------------------------
(***************************************************************************)
(* Which method serves a module (gridbook/config.py: get_quant_method and  *)
(* the lookups it makes; delegated_preflight; source_passthrough).         *)
(*                                                                         *)
(* M is a resolved configuration (QuantDeclaration!Resolution, perhaps     *)
(* renamed by vLLM's mapper), P the model's packed_modules_mapping, w the  *)
(* worker: its tensor-parallel size, device capability, opt-ins, and what  *)
(* vLLM's own selection resolves to.                                       *)
(***************************************************************************)
EXTENDS QuantDeclaration

Refused == [kind |-> "refused"]
Bf16    == [kind |-> "bf16"]
NoMethod == [kind |-> "none"]

FallbackShards ==
    [qkv_proj      |-> <<"q_proj", "k_proj", "v_proj">>,
     gate_up_proj  |-> <<"gate_proj", "up_proj">>,
     in_proj_qkvz  |-> <<"in_proj_qkv", "in_proj_z">>,
     in_proj_ba    |-> <<"in_proj_b", "in_proj_a">>,
     fused_wqa_wkv |-> <<"wq_a", "wkv">>]

AlternateShards ==
    [gate_up_proj |-> <<"w1", "w3">>, gate_proj |-> <<"w1">>,
     up_proj |-> <<"w3">>, down_proj |-> <<"w2">>]

Fusions(P) == P @@ FallbackShards

\* The spellings of the shards of a module, each a sequence of names.
Spellings(P, base, fallback) ==
    LET leaf    == Leaf(base)
        primary == IF leaf \in DOMAIN Fusions(P) THEN <<Fusions(P)[leaf]>> ELSE << >>
        other   == IF leaf \in DOMAIN AlternateShards THEN <<AlternateShards[leaf]>> ELSE << >>
        plain   == IF primary = << >> /\ fallback THEN <<<<leaf>>>> ELSE << >>
        all     == primary \o other \o plain
    IN [i \in DOMAIN all |-> [j \in DOMAIN all[i] |-> Stem(base) \o <<all[i][j]>>]]

AllSpellings(P, n, fallback) ==
    FlattenSeq([i \in DOMAIN CandidateBases(n) |-> Spellings(P, CandidateBases(n)[i], fallback)])

\* The first element, or none.
FirstOf(s) == SubSeq(s, 1, Min({1, Len(s)}))

\* The value of the first name that has one, or none.
FirstHit(f, names) ==
    FirstOf(FlattenSeq([i \in DOMAIN names |-> IF names[i] \in DOMAIN f THEN <<f[names[i]]>> ELSE << >>]))

-----------------------------------------------------------------------------
(* Who owns the roles of a fused module.                                   *)

\* Every key naming a CB shard; a spelling with any hit wins whole.
ShardKeys(M, P, n, fallback) ==
    LET named(spelling) == SelectSeq(spelling, LAMBDA t : t \in DOMAIN M.scheme)
    IN FlattenSeq(FirstOf(SelectSeq([i \in DOMAIN AllSpellings(P, n, fallback) |->
                                        named(AllSpellings(P, n, fallback)[i])],
                                    LAMBDA keys : keys # << >>)))

SourceOf(M, n) ==
    LET bases == CandidateBases(n)
    IN FirstHit(M.source, FlattenSeq([i \in DOMAIN bases |-> <<bases[i]>> \o SourceAliases(bases[i])]))

EmbeddingOf(M, n) == FirstHit(M.embed, CandidateBases(n))

Owned(M, t)   == t \in DOMAIN M.scheme \/ SourceOf(M, t) # << >>
Clashes(M, t) == t \in DOMAIN M.scheme /\ SourceOf(M, t) # << >>

FusedSpellings(P, n) == SelectSeq(AllSpellings(P, n, FALSE), LAMBDA s : Len(s) > 1)
Complete(M, s)       == \A t \in ToSet(s) : Owned(M, t)

\* The roles of the first spelling, of those given, that is owned completely.
FusedRoles(M, spellings) ==
    FlattenSeq(FirstOf(SelectSeq(spellings, LAMBDA s : Complete(M, s))))

\* A role both vocabularies claim, met on the way.
RolesClash(M, s) ==
    \E i \in DOMAIN s :
        /\ \A h \in 1 .. i - 1 : ~Complete(M, s[h])
        /\ \E j \in DOMAIN s[i] :
               Clashes(M, s[i][j]) /\ \A k \in 1 .. j - 1 : Owned(M, s[i][k])

\* incomplete_fused_roles is not empty.
RolesMissing(M, n, s) ==
    /\ \A b \in ToSet(CandidateBases(n)) : ~Owned(M, b)
    /\ \A i \in DOMAIN s : ~Complete(M, s[i])
    /\ \E i \in DOMAIN s : \E t \in ToSet(s[i]) : Owned(M, t)

\* The fields one resident parameter set shares.
Packed(s) == [grid |-> s.grid, mode |-> s.mode, k |-> s.k, sub |-> s.sub,
              size |-> s.size, coding |-> s.coding, link |-> s.link]

\* activation_scales_for_targets: what is attested, or << >> when one is not.
ScalesOf(M, roles) ==
    IF \E t \in ToSet(roles) : t \notin DOMAIN M.physical \/ M.physical[t] \notin DOMAIN M.scales
    THEN << >> ELSE [i \in DOMAIN roles |-> M.scales[M.physical[roles[i]]]]

\* _fused_owners_share_single_method
OneMethod(M, roles) ==
    \/ /\ \A t \in ToSet(roles) : t \notin DOMAIN M.scheme
       /\ \A t, u \in ToSet(roles) : SourceOf(M, t) = SourceOf(M, u)
    \/ /\ \A t \in ToSet(roles) : t \in DOMAIN M.scheme
       /\ \A t, u \in ToSet(roles) : Packed(M.scheme[t]) = Packed(M.scheme[u])
       /\ M.scheme[roles[1]].link # Absent =>
              ScalesOf(M, roles) # << >> /\ Cardinality(ToSet(ScalesOf(M, roles))) = 1

\* The scheme the shards of a fusion share.
SharedScheme(M, shards) ==
    LET like(t) == [Packed(M.scheme[t]) EXCEPT !.coding = "any"]
    IN IF shards # << >> /\ \A t \in ToSet(shards) : like(t) = like(shards[1])
       THEN <<M.scheme[shards[1]]>> ELSE << >>

\* _scheme_for_prefix, once no fusion is owned in part or by two methods.
SchemeFor(M, P, n) ==
    FirstOf(FirstHit(M.scheme, CandidateBases(n)) \o SharedScheme(M, ShardKeys(M, P, n, FALSE)))

-----------------------------------------------------------------------------
(* Gates.                                                                  *)

OneRank(w) == w.tp \in {Absent, 1}

\* A device older than its format's activation contract is refused.
AtLeast(c, floor) == c[1] > floor[1] \/ (c[1] = floor[1] /\ c[2] >= floor[2])
CbDeviceOk(w, s) ==
    \/ w.cap = Absent
    \/ s.grid = "fp8" /\ AtLeast(w.cap, <<8, 9>>)
    \/ s.grid = "fp4" /\ w.cap \in {<<12, 0>>, <<12, 1>>}

EpAdmits(w, e) ==
    \/ OneRank(w)
    \/ /\ e # Absent /\ e.ep /\ e.tp = 1
       /\ ~e.all2all /\ ~e.eplb /\ ~e.unreduced

\* What a class vLLM resolved to may not be: reached through Triton; silent
\* about its kernel or unaudited, for a contract audited end to end; or one
\* that drops the activation scales the group declares.
DelegatedOk(group, b) ==
    /\ ~b.triton
    /\ group # << >> =>
           /\ group[1].acts => ~b.dropsScales
           /\ group[1].w4a4 => b.named /\ b.audited

SourceBackendOk(b) == ~b.triton /\ ~b.broken /\ b.named /\ b.audited

-----------------------------------------------------------------------------
(* Hand-overs.                                                             *)

\* _delegate_passthrough
ServeSource(w, layer, fmt) ==
    IF /\ fmt = "fp8_e4m3_ue8m0_block128" \/ OneRank(w)
       /\ w.cap = <<12, 1>>
       /\ fmt = "mxfp8_e4m3_e8m0_g32" => w.mxfp8
       /\ SourceBackendOk(layer.backend)
    THEN [kind |-> "source", format |-> fmt]
    ELSE Refused

ExpertSpellings == <<<<"0", "gate_proj">>, <<"0", "up_proj">>, <<"0", "down_proj">>,
                     <<"gate_up_proj">>, <<"gate_proj">>, <<"up_proj">>, <<"down_proj">>, << >>>>

\* What find_matched_target finds among literal targets (external).
Matched(f, P, n) ==
    IF n \in DOMAIN f THEN <<f[n]>>
    ELSE LET s == Spellings(P, n, FALSE)
         IN IF s # << >> /\ ToSet(s[1]) \subseteq DOMAIN f THEN <<f[s[1][1]]>> ELSE << >>

\* should_ignore_layer (external): a fusion is ignored shard by shard.
Shards(P, n)      == IF n # << >> /\ Leaf(n) \in DOMAIN Fusions(P)
                     THEN ToSet(Spellings(P, n, FALSE)[1]) ELSE {n}
Ignores(S, P, n)  == n \in S \/ Shards(P, n) \subseteq S
IgnoreSplits(S, P, n) == n \notin S /\ Shards(P, n) \cap S # {} /\ ~(Shards(P, n) \subseteq S)

\* What stock compressed-tensors makes of a name (external): the group that
\* names it, or an unquantized method.
CtMethod(M, P, n, suffixes) ==
    LET found == FlattenSeq([i \in DOMAIN suffixes |-> Matched(M.ct.groups, P, n \o suffixes[i])])
    IN IF Ignores(M.ct.ignore, P, n) \/ found = << >> THEN Bf16
       ELSE [kind |-> "ct", group |-> found[1].name]

\* mutant: a fusion is looked up by its own name only
DeclaredGroup_Exact(M, P, n, suffixes) == FirstHit(M.stock, CandidateBases(n))

\* _stock_group_for_prefix: the declaration the preflight judges by.
DeclaredGroup(M, P, n, suffixes) ==
    LET among(base) == FlattenSeq([j \in DOMAIN suffixes |-> Matched(M.stock, P, base \o suffixes[j])])
    IN FirstOf(FlattenSeq([i \in DOMAIN CandidateBases(n) |-> among(CandidateBases(n)[i])]))

\* What vLLM resolved is judged by what is declared.
Judged(layer, method, group) ==
    IF DelegatedOk(group, IF method.kind = "ct" THEN layer.backend ELSE layer.plain)
    THEN method ELSE Refused

\* _delegate
Delegate(M, P, w, layer, n, suffixes) ==
    IF IgnoreSplits(M.ct.ignore, P, n) \/ ~OneRank(w) THEN Refused
    ELSE Judged(layer, CtMethod(M, P, n, suffixes), DeclaredGroup(M, P, n, suffixes))

Plain == <<<< >>>>
HasCt(M) == DOMAIN M.ct.groups # {}

-----------------------------------------------------------------------------
(* Dense modules.                                                          *)

\* A CB method, unless the device is too old for it.
Cb(M, P, w, n, s) ==
    IF CbDeviceOk(w, s)
    THEN [kind |-> "cb", scheme |-> Packed(s), roles |-> ShardKeys(M, P, n, TRUE)]
    ELSE Refused

\* _build_trellis_method
ServeTrellis(M, w, n, s, wire) ==
    IF FusedRoles(M, s) # << >> \/ RolesClash(M, s) \/ RolesMissing(M, n, s) \/ ~OneRank(w)
    THEN Refused ELSE [kind |-> "trellis", wire |-> wire]

\* The method of one role of a composite, under the role's own name.
RoleMethod(M, P, w, layer, t) ==
    IF t \in DOMAIN M.scheme THEN Cb(M, P, w, t, M.scheme[t])
    ELSE ServeSource(w, layer, SourceOf(M, t)[1])

\* A composite keeps each role's own method, which only the loader can fill.
Composite(roles, methods, loader) ==
    IF loader /\ \A m \in ToSet(methods) : m # Refused
    THEN [kind |-> "mixed", targets |-> roles, methods |-> methods] ELSE Refused

\* The roles are complete: one merged method, or a composite.
ServeFused(M, P, w, layer, n, roles, loader) ==
    IF OneMethod(M, roles)
    THEN IF roles[1] \in DOMAIN M.scheme THEN Cb(M, P, w, n, M.scheme[roles[1]])
         ELSE ServeSource(w, layer, SourceOf(M, roles[1])[1])
    ELSE Composite(roles, [i \in DOMAIN roles |-> RoleMethod(M, P, w, layer, roles[i])], loader)

\* Nothing of Gridbook's is declared: ignored, or left to compressed-tensors.
ServePlain(M, P, w, layer, n) ==
    CASE \E b \in ToSet(CandidateBases(n)) : IgnoreSplits(M.ignore, P, b) -> Refused
      [] \E b \in ToSet(CandidateBases(n)) : Ignores(M.ignore, P, b) -> Bf16
      [] HasCt(M) -> Delegate(M, P, w, layer, CanonicalPrefix(n), Plain)
      [] OTHER -> Bf16

\* A module that is no trellis, its fused roles, scheme and source unit found.
ServeLinear(M, P, w, layer, loader, roles, missing, scheme, source) ==
    IF roles # << >> THEN ServeFused(M, P, w, layer, layer.prefix, roles, loader)
    ELSE IF missing THEN Refused
    ELSE IF scheme # << >> THEN Cb(M, P, w, layer.prefix, scheme[1])
    ELSE IF source # << >> THEN ServeSource(w, layer, source[1])
    ELSE ServePlain(M, P, w, layer, layer.prefix)

LinearWith(M, P, w, layer, loader, spellings, wire) ==
    IF wire # << >> THEN ServeTrellis(M, w, layer.prefix, spellings, wire[1])
    ELSE IF RolesClash(M, spellings) THEN Refused
    ELSE ServeLinear(M, P, w, layer, loader, FusedRoles(M, spellings),
                     RolesMissing(M, layer.prefix, spellings),
                     SchemeFor(M, P, layer.prefix), SourceOf(M, layer.prefix))

Linear(M, P, w, layer, loader) ==
    LinearWith(M, P, w, layer, loader, FusedSpellings(P, layer.prefix),
               FirstHit(M.trellis, CandidateBases(layer.prefix)))

\* A lookup table.  The output head is none.
ServeTable(M, P, w, layer, fmt) ==
    CASE fmt # << >> -> IF OneRank(w) THEN [kind |-> "embedding", format |-> fmt[1]] ELSE Refused
      [] fmt = << >> /\ HasCt(M) -> Delegate(M, P, w, layer, layer.prefix, Plain)
      [] OTHER -> Bf16
Embedding(M, P, w, layer) ==
    ServeTable(M, P, w, layer, IF layer.class = "head" THEN << >> ELSE EmbeddingOf(M, layer.prefix))

-----------------------------------------------------------------------------
(* Routed experts.                                                         *)

MoeRoles(leaf) == CASE leaf = "gate_up_proj" -> {"gate", "up"}
                    [] leaf = "gate_proj" -> {"gate"}
                    [] leaf = "up_proj" -> {"up"}
                    [] leaf = "down_proj" -> {"down"}
                    [] OTHER -> {}

Below(base, n) == \E b \in ToSet(CandidateBases(base)), v \in ToSet(CandidateBases(n)) : IsChild(b, v)

StackTargets(M, n) == {t \in DOMAIN M.scheme : MoeRoles(Leaf(t)) # {} /\ Below(n, t)}

\* A role's sub-stack of one format, which the uniform stack cannot serve.
SplitRoles(M, n) ==
    {t \in DOMAIN M.scheme :
        /\ Leaf(t) \in {"format_group_0", "format_group_1"}
        /\ Len(t) > 1 /\ MoeRoles(Leaf(Stem(t))) # {}
        /\ Below(n, t)}

\* mutant: the first target's book decodes the whole stack (as before 0.8.3)
Books_First(M, targets) ==
    LET first == CHOOSE t \in targets : Leaf(t) = "down_proj" \/ \A u \in targets : Leaf(u) # "down_proj"
    IN [r \in {"gate", "up", "down"} |-> M.scheme[first].ref]

\* _resolve_moe_codebook_roles: the book of each logical role; << >> when a
\* role has two or, of several books, none.
Books(M, targets) ==
    LET refs   == {M.scheme[t].ref : t \in targets}
        of(r)  == {M.scheme[t].ref : t \in {t \in targets : r \in MoeRoles(Leaf(t))}}
        roles  == {"gate", "up", "down"}
    IN CASE Cardinality(refs) = 1 -> [r \in roles |-> CHOOSE b \in refs : TRUE]
         [] Cardinality(refs) > 1 /\ \A r \in roles : Cardinality(of(r)) = 1 ->
                [r \in roles |-> CHOOSE b \in of(r) : TRUE]
         [] OTHER -> << >>

\* The partition of the stack under n: every sub-stack is below it, or none.
SubStackNames(M, layer) ==
    UNION {{g.prefix : g \in ToSet(M.layers[layer][f])} : f \in Families}
OfStack(M, n) == {p \in SubStackNames(M, LayerOf(n)) :
                     \E b \in ToSet(CandidateBases(n)), v \in ToSet(CandidateBases(M.serving[p])) :
                         IsPrefix(b, v)}
Partitioned(M, n)   == LayerOf(n) \in DOMAIN M.layers /\ OfStack(M, n) # {}
PartitionSplit(M, n) == Partitioned(M, n) /\ OfStack(M, n) # SubStackNames(M, LayerOf(n))

\* The mixed stack: each CB sub-stack has a scheme the device can serve.
ServePartition(M, w, layer) ==
    LET l    == M.layers[LayerOf(layer.prefix)]
        subs == {g \in ToSet(l["w13"]) \cup ToSet(l["w2"]) : g.wire # SourceExperts}
    IN IF /\ layer.experts = ExpertCount(l)
          /\ \A g \in subs : /\ M.serving[g.prefix] \in DOMAIN M.scheme
                             /\ CbDeviceOk(w, M.scheme[M.serving[g.prefix]])
          /\ OneRank(w)
       THEN [kind |-> "partition",
             maps |-> [f \in Families |-> IndexMap(l[f], layer.experts)],
             wires |-> [f \in Families |-> [i \in DOMAIN l[f] |-> l[f][i].wire]]]
       ELSE Refused

ServeStack(M, w, layer, targets, one, books) ==
    LET like(s) == [Packed(s) EXCEPT !.coding = "any"]
    IN IF /\ SplitRoles(M, layer.prefix) = {}
          /\ \A t \in targets : like(M.scheme[t]) = like(M.scheme[one])
          /\ books # << >>
          /\ CbDeviceOk(w, M.scheme[one])
          /\ EpAdmits(w, layer.ep)
       THEN [kind |-> "stack", scheme |-> Packed(M.scheme[one]), books |-> books]
       ELSE Refused
Uniform(M, w, layer, targets) ==
    ServeStack(M, w, layer, targets, CHOOSE t \in targets : TRUE, Books(M, targets))

\* A mixed stack; the uniform lookup still runs before it, and may refuse.
Mixed(M, w, layer, targets) ==
    IF targets # {} /\ Uniform(M, [w EXCEPT !.tp = 1, !.cap = Absent], layer, targets) = Refused
    THEN Refused ELSE ServePartition(M, w, layer)

ServeExperts(M, P, w, layer, targets, source) ==
    CASE PartitionSplit(M, layer.prefix) -> Refused
      [] source # << >> ->
             IF Partitioned(M, layer.prefix) \/ targets # {} THEN Refused
             ELSE ServeSource(w, layer, source[1])
      [] source = << >> /\ Partitioned(M, layer.prefix) -> Mixed(M, w, layer, targets)
      [] source = << >> /\ ~Partitioned(M, layer.prefix) /\ targets # {} -> Uniform(M, w, layer, targets)
      [] OTHER -> IF HasCt(M) THEN Delegate(M, P, w, layer, layer.prefix, ExpertSpellings) ELSE NoMethod
Experts(M, P, w, layer) ==
    ServeExperts(M, P, w, layer, StackTargets(M, layer.prefix), SourceOf(M, layer.prefix))

\* get_quant_method
QuantMethod(M, P, w, layer, loader) ==
    CASE layer.class = "linear" -> Linear(M, P, w, layer, loader)
      [] layer.class \in {"embedding", "head"} -> Embedding(M, P, w, layer)
      [] layer.class = "experts" -> Experts(M, P, w, layer)
      [] OTHER -> NoMethod
==============================================================================
