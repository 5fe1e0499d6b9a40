----------------------------- MODULE MCQuantConfig ----------------------------
(***************************************************************************)
(* Instances of QuantConfig: documents of one decoder layer or two, the    *)
(* modules vLLM builds from them, and the workers that serve them.         *)
(***************************************************************************)
EXTENDS QuantConfig

(* Names. *)
Layer0      == <<"model", "layers", "0">>
Attn(r)     == Layer0 \o <<"self_attn", r>>
Mlp(r)      == Layer0 \o <<"mlp", r>>
Expert(r)   == Layer0 \o <<"mlp", "experts", r>>
SubStack(r, g) == Layer0 \o <<"mlp", "experts", r, g>>
Experts0    == Layer0 \o <<"mlp", "experts">>
OutputHead        == <<"lm_head">>
Table       == <<"model", "embed_tokens">>
Draft(r)    == <<"model", "layers", "2", "ffn", r>>
Stage(r)    == <<"mtp", "0", "ffn", r>>
Wrapped(n)  == <<"language_model">> \o n
InWrapper(n) == <<"model", "language_model">> \o Drop(n, 1)

(* Schemes. *)
CbOf(grid, k, ref, link) ==
    [grid |-> grid, mode |-> "product", k |-> k, sub |-> SubBooks(grid), size |-> TypeSize(grid, k, "v1"),
     coding |-> "v1", link |-> link, ref |-> ref]
Fp8(k, ref)   == CbOf("fp8", k, ref, Absent)
Fp4(k, ref)   == CbOf("fp4", k, ref, Absent)
W4A4(k, ref)  == CbOf("fp4", k, ref, "nvfp4_w4a4")
Trellis(rate) == [family |-> "tcq_e4m3_r256", rate |-> rate, rows |-> 64, columns |-> 256, bytes |-> 4096]
Stock(name, w4a4) == [name |-> name, acts |-> w4a4, w4a4 |-> w4a4]

Group(targets, content) == [targets |-> targets, kind |-> "scheme", content |-> content]
StockGroup(targets, content) == [targets |-> targets, kind |-> "stock", content |-> content]
SourceGroup(targets) == [targets |-> targets, kind |-> "source", content |-> Absent]

Doc == [groups |-> << >>, ignore |-> <<OutputHead>>, contract |-> Absent, bridge |-> Absent,
        source |-> Absent, embedding |-> Absent, experts |-> Absent]
Units(f) == [version |-> 1, units |-> f]
Contract(names, values) ==
    [schema |-> 1, policy |-> "mse_grid", names |-> names, count |-> Len(names), stages |-> Absent,
     digest |-> [policy |-> "mse_grid", values |-> values]]

(* Repositories. *)
Rev(doc, tables) == [doc |-> doc, provenance |-> tables, tables |-> tables, scalars |-> << >>]
Local(rev)       == <<rev>>
NoRepo           == Local(Rev(Doc, << >>))

(* Modules. *)
Backend == [triton |-> FALSE, dropsScales |-> FALSE, named |-> TRUE, audited |-> TRUE, broken |-> FALSE]
Module(class, prefix, units) ==
    [class |-> class, prefix |-> prefix, units |-> units, backend |-> Backend, plain |-> Backend,
     experts |-> 0, ep |-> Absent, depth |-> 2, bare |-> FALSE]
Lin(prefix)         == Module("linear", prefix, <<prefix>>)
Qkv(base)           == Module("linear", base \o <<"self_attn", "qkv_proj">>,
                              <<Attn("q_proj"), Attn("k_proj"), Attn("v_proj")>>)
GateUp(base)        == Module("linear", base \o <<"mlp", "gate_up_proj">>, <<Mlp("gate_proj"), Mlp("up_proj")>>)
Stack(units)        == [Module("experts", Experts0, units) EXCEPT !.experts = 2]
BareTable           == [Module("embedding", Table, <<Table>>) EXCEPT !.bare = TRUE]
LmHead              == [Module("head", OutputHead, <<OutputHead>>) EXCEPT !.depth = 1]

(* Models and scenarios. *)
Dir   == [hub |-> FALSE, commit |-> Absent, requested |-> Absent, inline |-> FALSE]
Hub   == [hub |-> TRUE, commit |-> 1, requested |-> Absent, inline |-> FALSE]
Blackwell == [tp |-> 1, cap |-> <<12, 1>>, mxfp8 |-> FALSE]

Both(f) == [m \in {"target", "draft"} |-> f]
OneDoc(doc, tables, modules) ==
    [builds |-> <<"target">>, models |-> Both(Dir),
     repos |-> [target |-> Local(Rev(doc, tables)), draft |-> NoRepo],
     speculative |-> FALSE, frames |-> Both(<<"entry", "inner">>), inner |-> Both(<<"model">>),
     gated |-> TRUE, mapper |-> Both(Absent), layers |-> [target |-> modules, draft |-> << >>],
     packed |-> << >>, worker |-> Blackwell]

-----------------------------------------------------------------------------
(* Dense layers: q and k share a format with a codebook each, v has a      *)
(* format of its own; gate is left in its source's format; o is stock;     *)
(* down is a trellis.                                                      *)

DenseDoc ==
    [Doc EXCEPT !.groups = <<Group(<<Attn("q_proj")>>, Fp8(32, "q")), Group(<<Attn("k_proj")>>, Fp8(32, "k")),
                             Group(<<Attn("v_proj")>>, Fp8(40, "v")), Group(<<Mlp("up_proj")>>, Fp8(32, "up")),
                             Group(<<Mlp("down_proj")>>, Trellis(512)), SourceGroup(<<Mlp("gate_proj")>>),
                             StockGroup(<<Attn("o_proj")>>, Stock("group_1", TRUE))>>,
                !.source = Units(Mlp("gate_proj") :> "fp8_e4m3_ue8m0_block128")]
Tables == [q |-> 1, k |-> 2, v |-> 3, up |-> 4]
DenseModules(base, named(_)) ==
    <<BareTable, [Qkv(base) EXCEPT !.prefix = named(@)], [GateUp(base) EXCEPT !.prefix = named(@)],
      [Lin(Mlp("down_proj")) EXCEPT !.prefix = named(@)],
      [Lin(Attn("o_proj")) EXCEPT !.prefix = named(@)], LmHead>>
Same(n) == n

Dense == OneDoc(DenseDoc, Tables, DenseModules(Layer0, Same))

\* q, k and v of one format: one merged method, a codebook per role.
MergedDoc ==
    [Doc EXCEPT !.groups = <<Group(<<Attn("q_proj"), Attn("k_proj")>>, Fp8(32, "q")),
                             Group(<<Attn("v_proj")>>, Fp8(32, "v")),
                             Group(<<Mlp("gate_proj"), Mlp("up_proj")>>, Fp4(16, "up"))>>]
MergedModules(named(_)) ==
    <<[Qkv(Layer0) EXCEPT !.prefix = named(@)], [GateUp(Layer0) EXCEPT !.prefix = named(@)],
      [Lin(Attn("o_proj")) EXCEPT !.prefix = named(@)], LmHead>>
Merged == OneDoc(MergedDoc, Tables, MergedModules(Same))

\* A wrapper: vLLM's names carry its own prefix, and a mapper renames.
\* The composite of the wrapper is built by an entry inside an entry.  Its
\* document has no dense stock group (see MappedStock for one that does).
Renamed == [from |-> <<"model">>, to |-> <<"language_model", "model">>]
WrappedDoc == [DenseDoc EXCEPT !.groups = SelectSeq(@, LAMBDA g : g.kind # "stock"), !.ignore = @ \o <<Attn("o_proj")>>]
Nested(s) ==
    [s EXCEPT !.frames = Both(<<"entry", "entry", "inner">>),
              !.inner = Both(<<"language_model", "model">>),
              !.layers["target"] = [i \in DOMAIN @ |-> [@[i] EXCEPT !.depth = @ + 1]]]
InMapper == Nested([OneDoc(WrappedDoc, Tables, DenseModules(Layer0, Wrapped))
                        EXCEPT !.mapper["target"] = Renamed])
\* No mapper: the canonical spelling is a second lookup.
Unmapped == Nested(OneDoc(MergedDoc, Tables, MergedModules(Wrapped)))

\* The document names its tensors below model.language_model.
Vintage == OneDoc([MergedDoc EXCEPT !.groups = [i \in DOMAIN @ |->
                      [@[i] EXCEPT !.targets = [j \in DOMAIN @ |-> InWrapper(@[j])]]]],
                  Tables, MergedModules(Same))

\* A fusion of which one role is declared by nobody, and one that is ignored
\* in part.
PartialDoc == [MergedDoc EXCEPT !.groups = SelectSeq(@, LAMBDA g : Attn("v_proj") \notin ToSet(g.targets))]
Partial == OneDoc(PartialDoc, Tables, MergedModules(Same))

\* A loader that the wrapper does not see: no composite may be built.
Ungated == [Dense EXCEPT !.gated = FALSE]

\* A stock W4A4 group whose module resolves to a class that drops scales.
Dropping == [Dense EXCEPT !.layers["target"][5].backend.dropsScales = TRUE]
\* The same of a fusion, whose group is found by its shards.
StockFused ==
    LET doc == [Doc EXCEPT !.groups = <<StockGroup(<<Attn("q_proj"), Attn("k_proj"), Attn("v_proj")>>,
                                                   Stock("group_1", TRUE))>>]
    IN [OneDoc(doc, << >>, MergedModules(Same)) EXCEPT !.layers["target"][1].backend.audited = FALSE]

-----------------------------------------------------------------------------
(* Lookup tables and contracts.                                            *)

TableDoc == [MergedDoc EXCEPT !.embedding = Units(Table :> "nvfp4")]
Quantized == OneDoc(TableDoc, Tables, <<BareTable>> \o MergedModules(Same))

\* A contracted document: its two scalars are equal, or they are not.
ContractedDoc(values) ==
    [Doc EXCEPT !.groups = <<Group(<<Mlp("gate_proj"), Mlp("up_proj")>>, W4A4(16, "up"))>>,
                !.contract = Contract(<<Mlp("gate_proj"), Mlp("up_proj")>>, values)]
Values(a, b) == (Mlp("gate_proj") :> a) @@ (Mlp("up_proj") :> b)
Attested(values, stored) ==
    LET s == OneDoc(ContractedDoc(values), Tables, <<GateUp(Layer0), LmHead>>)
    IN [s EXCEPT !.repos["target"][1].scalars = stored]

-----------------------------------------------------------------------------
(* Routed experts.                                                         *)

StackUnits == <<Expert("gate_up_proj"), Expert("gate_up_proj"), Expert("down_proj")>>
StackDoc(w13, w2) ==
    [Doc EXCEPT !.groups = <<Group(<<Expert("gate_up_proj")>>, w13), Group(<<Expert("down_proj")>>, w2)>>]
StackOf(doc) == OneDoc(doc, Tables, <<Stack(StackUnits), LmHead>>)

\* Experts left to compressed-tensors, below a mapper: the declarations are
\* renamed, and experts are delegated by the name vLLM gives them.
StockExperts ==
    [Doc EXCEPT !.groups = MergedDoc.groups \o
        <<StockGroup(<<Expert("gate_up_proj"), Expert("down_proj")>>, Stock("group_1", TRUE))>>]
MappedExperts(backend) ==
    LET moe == [Stack(StackUnits) EXCEPT !.prefix = Wrapped(@), !.backend = backend]
    IN Nested([OneDoc(StockExperts, Tables, <<moe>> \o MergedModules(Wrapped))
                  EXCEPT !.mapper["target"] = Renamed])

TwoBooks == StackOf(StackDoc(Fp4(16, "up"), Fp4(16, "k")))
TwoFormats == StackOf(StackDoc(Fp4(16, "up"), Fp8(32, "k")))

Parallel(e) == [TwoBooks EXCEPT !.worker.tp = 2, !.layers["target"][1].ep = e]
Owner    == [ep |-> TRUE, tp |-> 1, all2all |-> FALSE, eplb |-> FALSE, unreduced |-> FALSE]
Slices   == [Owner EXCEPT !.tp = 2]

\* The experts of a family, in two formats: three of them in groups of two
\* and one; the down projection keeps its source's format for one of them.
MixedDoc ==
    LET up(g) == SubStack("gate_up_proj", g)
        down(g) == SubStack("down_proj", g)
        part(wire, ids, prefix) == [wire |-> wire, ids |-> ids, prefix |-> prefix]
        fp4 == [grid |-> "fp4", k |-> 16]
        fp8 == [grid |-> "fp8", k |-> 32]
    IN [Doc EXCEPT
          !.groups = <<Group(<<up("format_group_0"), down("format_group_0")>>, Fp4(16, "up")),
                       Group(<<up("format_group_1")>>, Fp8(32, "k"))>>,
          !.experts = [version |-> 1, layers |-> [l \in {"0"} |->
              [f \in Families |-> IF f = "w13"
                   THEN <<part(fp4, <<0, 2>>, up("format_group_0")), part(fp8, <<1>>, up("format_group_1"))>>
                   ELSE <<part(SourceExperts, <<1>>, down("source")), part(fp4, <<0, 2>>, down("format_group_0"))>>]]]]
MixedStack == [StackOf(MixedDoc) EXCEPT !.layers["target"][1].experts = 3]

-----------------------------------------------------------------------------
(* Drafts and tags.                                                        *)

\* A draft's two matrices live in the checkpoint below mtp.0 and are built as
\* layer 2.
DraftUnits == <<Draft("gate_proj"), Draft("up_proj")>>
DraftDoc(values) ==
    [Doc EXCEPT !.groups = <<Group(DraftUnits, W4A4(16, "up"))>>,
                !.contract = Contract(<<Stage("gate_proj"), Stage("up_proj")>>, values),
                !.bridge = [hidden |-> 2, mtp |-> 1,
                            pairs |-> (Draft("gate_proj") :> Stage("gate_proj"))
                                       @@ (Draft("up_proj") :> Stage("up_proj"))]]
DraftValues == (Stage("gate_proj") :> 3) @@ (Stage("up_proj") :> 3)
DraftModules == <<Module("linear", <<"model", "layers", "2", "ffn", "gate_up_proj">>, DraftUnits)>>
DraftRev(tables) ==
    [doc |-> DraftDoc(DraftValues), provenance |-> tables, tables |-> tables, scalars |-> DraftValues]

\* The target and then its draft, from the Hub, under tags that may move.
Speculative(inline, contracted) ==
    LET draft == IF contracted THEN DraftRev([up |-> 6])
                 ELSE [DraftRev([up |-> 6]) EXCEPT !.doc.groups[1].content = Fp4(16, "up"),
                                                   !.doc.contract = Absent, !.doc.bridge = Absent]
        moved == [draft EXCEPT !.tables = [up |-> 7], !.provenance = [up |-> 7]]
        \* an uncontracted document attests no codebooks either
        legacy(rev) == IF contracted THEN rev ELSE [rev EXCEPT !.provenance = Absent]
    IN [OneDoc(MergedDoc, Tables, MergedModules(Same))
          EXCEPT !.builds = <<"target", "draft">>, !.speculative = TRUE,
                 !.models = Both([Hub EXCEPT !.inline = inline]),
                 !.repos = [target |-> <<Rev(MergedDoc, Tables), Rev(DenseDoc, [Tables EXCEPT !.q = 9])>>,
                            draft |-> <<legacy(draft), legacy(moved)>>],
                 !.layers["draft"] = DraftModules]

Requested(s, commit, requested) ==
    [s EXCEPT !.models["target"].commit = commit, !.models["target"].requested = requested]

AllScenarios ==
    {Dense, Merged, InMapper, Unmapped, Vintage, Partial, Ungated, Dropping, StockFused, Quantized,
     Attested(Values(3, 3), Values(3, 3)), Attested(Values(3, 4), Values(3, 4)),
     Attested(Values(3, 3), Values(3, 5)),
     MappedExperts(Backend), MappedExperts([Backend EXCEPT !.audited = FALSE]),
     TwoBooks, TwoFormats, Parallel(Owner), Parallel(Slices), Parallel(Absent), MixedStack,
     [MixedStack EXCEPT !.worker.tp = 2],
     Speculative(FALSE, TRUE), Speculative(FALSE, FALSE), Speculative(TRUE, TRUE), Speculative(TRUE, FALSE),
     [Speculative(FALSE, TRUE) EXCEPT !.speculative = FALSE],
     Requested(Speculative(FALSE, TRUE), Absent, 1), Requested(Speculative(FALSE, TRUE), Absent, Absent)}

-----------------------------------------------------------------------------
(* Disagreements.                                                          *)

\* The roles of a fusion are trellises.
FusedTrellis ==
    {OneDoc([Doc EXCEPT !.groups = <<Group(<<Mlp("gate_proj"), Mlp("up_proj")>>, Trellis(512))>>],
            << >>, <<GateUp(Layer0), LmHead>>)}

\* A mapper, and a dense layer of a stock group.
MappedStock == {Nested([OneDoc(DenseDoc, Tables, DenseModules(Layer0, Wrapped))
                            EXCEPT !.mapper["target"] = Renamed])}

==============================================================================
