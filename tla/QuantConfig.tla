------------------------------ MODULE QuantConfig -----------------------------
(***************************************************************************)
(* The life of a quantization configuration while models are built: what   *)
(* it reads and from where, which method it hands to each module, and the  *)
(* construction contexts it is asked under (gridbook/config.py,            *)
(* moe_toplevel_loader.py, embedding_construction.py).                     *)
(*                                                                         *)
(* One engine builds the models of a scenario one after the other, each    *)
(* with a configuration of its own.  A published tag may move at any time; *)
(* a constructor may raise at any time.                                    *)
(***************************************************************************)
EXTENDS QuantDispatch

CONSTANT Scenarios
(* A scenario: [builds: the models to build, in order, each "target" or    *)
(* "draft"; models: their vLLM model_config [hub, commit, requested,       *)
(* inline]; repos: model -> revision -> [doc, provenance, tables,          *)
(* scalars]; speculative: is a draft configured; frames: model -> the      *)
(* constructors that enclose one another, outermost first; gated: does the *)
(* entry class load through the wrapper; mapper: model -> Absent or        *)
(* [from, to]; layers: model -> the modules it asks for, in order; packed; *)
(* worker; inner: model -> the prefix of its inner model].  A module is a    *)
(* QuantDispatch layer with the depth of the constructor that asks for it, *)
(* bare (a lookup table built without a configuration) and units: the      *)
(* checkpoint's names of what it loads; of a stack of experts, those of    *)
(* gate, up and down.  A local directory has the one revision 1.           *)

\* Only a lookup table is built without a configuration; a stack of experts
\* says how many they are.
ModuleOk(l) ==
    /\ {"class", "prefix"} \subseteq DOMAIN l
    /\ l.bare => l.class = "embedding"
    /\ l.class = "experts" => l.experts \in Nat

\* A draft has no mapper, and its entry class encloses every module it builds.
ASSUME ScenariosAssumption ==
    \A s \in Scenarios :
        /\ s.builds \in Seq({"target", "draft"}) \ {<< >>}
        /\ \A m \in ToSet(s.builds) : \A i \in DOMAIN s.layers[m] : ModuleOk(s.layers[m][i])
        /\ "draft" \in ToSet(s.builds) =>
               /\ s.mapper["draft"] = Absent
               /\ s.frames["draft"][1] = "entry"
               /\ \A i \in DOMAIN s.layers["draft"] : s.layers["draft"][i].depth \in Nat \ {0}

\* Absent is no model, and no source of a sidecar.
ASSUME AbsentAssumption ==
    /\ Absent \notin {"target", "draft"}
    /\ \A s \in Scenarios : \A m \in {"target", "draft"} :
           \A r \in {1, Absent, s.models[m].commit, s.models[m].requested} :
               [model |-> m, revision |-> r] # Absent

VARIABLES scenario, head,      \* head: model -> the revision its tag denotes
          build, phase,        \* the index of the build, and where it is
          config,              \* its PrismaQuantConfig
          stack,               \* the constructors that are running
          loader, authority, supplied, \* the two ContextVars; the patched VocabParallelEmbedding
          answers              \* the methods handed out: [layer, method]

vars == <<scenario, head, build, phase, config, stack, loader, authority, supplied, answers>>

Model == scenario.builds[build]

-----------------------------------------------------------------------------
(* Sidecars.                                                               *)

\* _sidecar_revision
Revision(m) ==
    LET c == scenario.models[m]
    IN CASE ~c.hub -> 1
         [] c.hub /\ c.commit # Absent -> c.commit
         [] c.hub /\ c.commit = Absent /\ c.requested # Absent -> c.requested
         [] OTHER -> Absent

\* The model_config in force: the draft's inside its construction only.
InForce == IF authority # Absent THEN authority ELSE "target"

\* _get_sidecar_source: the source of every sidecar, latched by the first read.
Source(c) ==
    IF c.source # Absent THEN c.source
    ELSE [model |-> InForce, revision |-> Revision(InForce)]

Unpinned(s) == s.revision = Absent
At(s)       == scenario.repos[s.model][s.revision]

Fresh == [source |-> Absent, doc |-> Absent, scalesFrom |-> Absent, booksFrom |-> Absent,
          M |-> Absent, resolved |-> FALSE, broken |-> FALSE]

\* mutant: an inline configuration is not pinned while its draft is built
Pin_PointerOnly(c) == c

\* An unresolved source is pinned while the draft's authority is in force.
Pin(c) == IF c.source = Absent /\ authority # Absent THEN [c EXCEPT !.source = Source(c)] ELSE c

\* The document: the raw configuration vLLM read with the model, or a sidecar.
Inline == scenario.models[Model].inline
DocOf(c) ==
    IF Inline THEN [model |-> Model, revision |-> Revision(Model)] ELSE Source(c)

Contracted(doc) == doc.contract # Absent

\* The scales of a contracted document are read from the source in force.
Attest(c, doc, scales) ==
    CASE ~Contracted(doc) -> [c EXCEPT !.M = [scales |-> << >>]]
      [] Contracted(doc) /\ ~Unpinned(scales) /\ PayloadOk(doc.contract, At(scales).scalars) ->
             [c EXCEPT !.source = scales, !.scalesFrom = scales, !.M = [scales |-> At(scales).scalars]]
      [] OTHER -> [c EXCEPT !.broken = TRUE]

\* The document is read and judged; a sidecar's source is kept.
Judge(c, doc) == IF Accepted(doc) THEN Attest(c, doc, Source(c)) ELSE [c EXCEPT !.broken = TRUE]
Read(c, from) ==
    IF Unpinned(from) THEN [c EXCEPT !.broken = TRUE]
    ELSE Judge([c EXCEPT !.doc = from, !.source = IF Inline THEN @ ELSE from], At(from).doc)

Indexed(c) ==
    IF c.broken THEN c ELSE [c EXCEPT !.M = Resolution(At(c.doc).doc, @.scales), !.resolved = TRUE]

\* _ensure_resolved
Settle(c)  == IF c.resolved THEN c ELSE Indexed(Read(c, DocOf(c)))
Resolve(c) == Settle(Pin(c))

\* vLLM's WeightsMapper on a name (external): a prefix replaced.
Mapped(r, n) == IF IsPrefix(r.from, n) THEN r.to \o Drop(n, Len(r.from)) ELSE n
MapKeys(r, f) ==
    [n \in {Mapped(r, k) : k \in DOMAIN f} |-> f[CHOOSE k \in DOMAIN f : Mapped(r, k) = n]]
MapSet(r, S) == {Mapped(r, n) : n \in S}

\* apply_vllm_mapper: every index moves into the serving namespace, except
\* the source-format units and the embeddings.
Rename(r, M) ==
    [M EXCEPT !.ignore = MapSet(r, @), !.scheme = MapKeys(r, @), !.physical = MapKeys(r, @),
              !.trellis = MapKeys(r, @),
              !.serving = [p \in DOMAIN @ |-> Mapped(r, @[p])],
              !.stock = MapKeys(r, @),
              !.ct = [groups |-> MapKeys(r, @.groups), ignore |-> MapSet(r, @.ignore)]]

-----------------------------------------------------------------------------
(* Construction.                                                           *)

Init ==
    /\ scenario \in Scenarios
    /\ head = [m \in DOMAIN scenario.models |-> 1]
    /\ build = 1 /\ phase = "new" /\ config = Fresh /\ stack = << >>
    /\ loader = FALSE /\ authority = Absent /\ supplied = Absent
    /\ answers = << >>

contexts == <<loader, authority, supplied>>

\* A tag is moved to a newer commit.
Publish(m) ==
    /\ scenario.models[m].hub /\ head[m] + 1 \in DOMAIN scenario.repos[m]
    /\ head' = [head EXCEPT ![m] = @ + 1]
    /\ UNCHANGED <<scenario, build, phase, config, stack, contexts, answers>>

\* vLLM hands over the model class's mapper before it constructs the model.
Configure ==
    /\ phase = "new"
    /\ IF scenario.mapper[Model] = Absent THEN config' = config /\ phase' = "building"
       ELSE \E c \in {Resolve(config)} :
                /\ config' = IF c.broken THEN c ELSE [c EXCEPT !.M = Rename(scenario.mapper[Model], @)]
                /\ phase' = IF c.broken THEN "failing" ELSE "building"
    /\ UNCHANGED <<scenario, head, build, stack, contexts, answers>>

Frames   == scenario.frames[Model]
Modules  == scenario.layers[Model]
Finished == Len(answers) + 1 \notin DOMAIN Modules
NextModule == Modules[Len(answers) + 1]

\* The constructor that asks for the next module; none when all are built.
Depth == IF Finished THEN 0 ELSE NextModule.depth

Raise == phase' = "failing" /\ UNCHANGED <<stack, contexts>>

Frame(kind) == [kind |-> kind, loader |-> loader, authority |-> authority, supplied |-> supplied]
Push(kind)  == stack' = Append(stack, Frame(kind)) /\ UNCHANGED phase

\* The construction gate of an entry class.
EnterEntry ==
    /\ phase = "building" /\ Depth > Len(stack) /\ Frames[Len(stack) + 1] = "entry"
    /\ IF ~scenario.gated \/ (Model = "draft" /\ ~scenario.speculative) THEN Raise
       ELSE /\ Push("entry")
            /\ loader' = TRUE
            /\ authority' = IF Model = "draft" THEN "draft" ELSE authority
            /\ UNCHANGED supplied
    /\ UNCHANGED <<scenario, head, build, config, answers>>

\* The inner model: a declared lookup table is supplied to its constructor.
EmbeddingPrefix == scenario.inner[Model] \o <<"embed_tokens">>

EnterInner ==
    /\ phase = "building" /\ Depth > Len(stack) /\ Frames[Len(stack) + 1] = "inner"
    /\ \E c \in {Resolve(config)} :
          /\ config' = c
          /\ IF c.broken THEN Raise
             ELSE /\ Push("inner")
                  /\ supplied' = IF EmbeddingOf(c.M, EmbeddingPrefix) # << >> THEN EmbeddingPrefix ELSE supplied
                  /\ UNCHANGED <<loader, authority>>
    /\ UNCHANGED <<scenario, head, build, answers>>

Answer(layer, method) == answers' = Append(answers, [layer |-> layer, method |-> method])

\* A lookup table built without a configuration is not asked for, unless one
\* is supplied.
Silent(layer) == layer.bare /\ supplied = Absent

Asked(layer)  == IF layer.bare THEN [layer EXCEPT !.prefix = supplied] ELSE layer

\* get_quant_method for the next module.
Method(M) == QuantMethod(M, scenario.packed, scenario.worker, Asked(NextModule), loader)

Ask ==
    /\ phase = "building" /\ ~Finished /\ Depth = Len(stack)
    /\ IF Silent(NextModule) THEN Answer(NextModule, Bf16) /\ UNCHANGED <<config, phase, stack, contexts>>
       ELSE \E c \in {Resolve(config)} :
                /\ config' = c
                /\ \E method \in IF c.broken THEN {Refused} ELSE {Method(c.M)} :
                       IF method = Refused THEN Raise /\ UNCHANGED answers
                       ELSE Answer(NextModule, method) /\ UNCHANGED <<phase, stack, contexts>>
    /\ UNCHANGED <<scenario, head, build>>

\* Anything else a constructor does may raise.
Fail ==
    /\ phase = "building" /\ stack # << >>
    /\ Raise
    /\ UNCHANGED <<scenario, head, build, config, answers>>

\* mutant: a reset clears the context instead of restoring it
Pop_Clears ==
    /\ stack' = Front(stack)
    /\ loader' = (IF Last(stack).kind = "entry" THEN FALSE ELSE loader)
    /\ authority' = (IF Last(stack).kind = "entry" THEN Absent ELSE authority)
    /\ supplied' = Last(stack).supplied

\* The finally clauses of a constructor's wrapper.
Pop ==
    /\ stack' = Front(stack)
    /\ loader' = Last(stack).loader /\ authority' = Last(stack).authority
    /\ supplied' = Last(stack).supplied

\* A constructor returns.
Leave ==
    /\ phase = "building" /\ stack # << >> /\ Depth < Len(stack)
    /\ Pop
    /\ phase' = IF Len(stack) = 1 THEN "loading" ELSE phase
    /\ UNCHANGED <<scenario, head, build, config, answers>>

\* An exception passes through a constructor.
Unwind ==
    /\ phase = "failing" /\ stack # << >>
    /\ Pop
    /\ UNCHANGED <<scenario, head, build, phase, config, answers>>

Decoders == {"cb", "mixed", "stack", "partition"}

\* The books of a resolved configuration are read from the source in force.
BooksFrom(c, from) ==
    IF ~Unpinned(from) /\ BooksOk(At(c.doc).provenance, At(from).tables)
    THEN [c EXCEPT !.source = from, !.booksFrom = from] ELSE [c EXCEPT !.source = from]

\* process_weights_after_loading: get_codebooks.
PostLoad ==
    /\ phase = "loading"
    /\ IF ~\E i \in DOMAIN answers : answers[i].method.kind \in Decoders
       THEN phase' = "served" /\ UNCHANGED config
       ELSE \E c \in {Resolve(config)} :
                /\ config' = BooksFrom(c, Source(c))
                /\ phase' = IF config'.booksFrom # Absent THEN "served" ELSE "failing"
    /\ UNCHANGED <<scenario, head, build, stack, contexts, answers>>

\* The next model is built, whether this one is served or its error is caught.
NextBuild ==
    /\ phase \in {"served", "failing"} /\ stack = << >> /\ build < Len(scenario.builds)
    /\ build' = build + 1 /\ phase' = "new" /\ config' = Fresh /\ answers' = << >>
    /\ UNCHANGED <<scenario, head, stack, contexts>>

Next ==
    \/ \E m \in DOMAIN head : Publish(m)
    \/ Configure \/ EnterEntry \/ EnterInner \/ Ask \/ Fail \/ Leave \/ Unwind
    \/ PostLoad \/ NextBuild

Spec == Init /\ [][Next]_vars

-----------------------------------------------------------------------------
(* Properties.                                                             *)

\* Every file a configuration was resolved or served from is of one revision
\* of the model being built, whichever was in force and wherever the tag
\* pointed when it was first needed.
SidecarsAgree ==
    \A from \in {config.doc, config.scalesFrom, config.booksFrom} \ {Absent} :
        from = [model |-> Model, revision |-> Revision(Model)]

\* A context is in force exactly while a constructor that set it runs, across
\* nested constructors, returns and exceptions.
ContextsRestored ==
    LET kinds == {stack[i].kind : i \in DOMAIN stack}
    IN /\ loader = ("entry" \in kinds)
       /\ authority = IF "entry" \in kinds /\ Model = "draft" THEN "draft" ELSE Absent
       /\ supplied = IF "inner" \in kinds /\ EmbeddingOf(config.M, EmbeddingPrefix) # << >>
                     THEN EmbeddingPrefix ELSE Absent

Declaration == At(config.doc).doc

\* What the document says of a tensor, under its own name.
DeclaredAs(unit) ==
    LET d == Declaration
    IN CASE unit \in TargetsOf(d, "cb") ->
                [as |-> "cb", what |-> Packed(Declared(d, "cb")[unit]), book |-> Declared(d, "cb")[unit].ref]
         [] unit \in TargetsOf(d, "trellis") -> [as |-> "trellis", what |-> Declared(d, "trellis")[unit]]
         [] unit \in DOMAIN UnitMap(d.source) -> [as |-> "source", what |-> UnitMap(d.source)[unit]]
         [] unit \in DOMAIN UnitMap(d.embedding) -> [as |-> "embedding", what |-> UnitMap(d.embedding)[unit]]
         [] unit \in TargetsOf(d, "stock") -> [as |-> "stock", what |-> Declared(d, "stock")[unit].name]
         [] OTHER -> [as |-> "plain"]

\* What a method makes of its i-th tensor.
Decodes(method, i) ==
    CASE method.kind = "cb" ->
             [as |-> "cb", what |-> method.scheme, book |-> config.M.scheme[method.roles[i]].ref]
      [] method.kind = "stack" ->
             [as |-> "cb", what |-> method.scheme, book |-> method.books[<<"gate", "up", "down">>[i]]]
      [] method.kind = "trellis" -> [as |-> "trellis", what |-> method.wire]
      [] method.kind = "source" -> [as |-> "source", what |-> method.format]
      [] method.kind = "embedding" -> [as |-> "embedding", what |-> method.format]
      [] method.kind = "ct" -> [as |-> "stock", what |-> method.group]
      [] OTHER -> [as |-> "plain"]
ServedAs(method, i) ==
    IF method.kind = "mixed" THEN Decodes(method.methods[i], 1) ELSE Decodes(method, i)

Sub(method, family, e) ==
    LET place == method.maps[family][e]
    IN [wire |-> method.wires[family][place[1]], row |-> place[2]]

\* Every tensor of a module that was handed a method is decoded as the
\* document declares it, in its own format and with its own codebook: nothing
\* declared is served as plain weights, and nothing plain is decoded.
DeclaredIsServed ==
    \A i \in DOMAIN answers :
        LET a == answers[i]
        IN a.method.kind # "partition" =>
               \A j \in DOMAIN a.layer.units :
                   LET served == ServedAs(a.method, j)
                       declared == DeclaredAs(a.layer.units[j])
                   IN served.as = declared.as /\ served = declared

\* Every expert of a mixed stack is decoded by the wire its group declares,
\* from the row of the sub-stack that the producer gave it.
ExpertsAsDeclared ==
    \A i \in DOMAIN answers :
        LET a == answers[i]
        IN a.method.kind = "partition" =>
               \A family \in Families :
                   LET groups == Declaration.experts.layers[LayerOf(a.layer.prefix)][family]
                   IN \A e \in 0 .. a.layer.experts - 1 : \E g \in ToSet(groups) :
                          LET s == Sub(a.method, family, e)
                          IN s.wire = g.wire /\ s.row \in DOMAIN g.ids /\ g.ids[s.row] = e

\* A module left to compressed-tensors was judged by what the document
\* declares of it: its backend drops no activation scales the group has, and
\* is named and audited when the group is W4A4.
DelegationJudged ==
    \A i \in DOMAIN answers :
        LET a == answers[i]
        IN a.method.kind = "ct" =>
               \A j \in DOMAIN a.layer.units :
                   LET group == Declared(Declaration, "stock")[a.layer.units[j]]
                   IN /\ group.acts => ~a.layer.backend.dropsScales
                      /\ group.w4a4 => a.layer.backend.named /\ a.layer.backend.audited

==============================================================================
