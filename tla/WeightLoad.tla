----------------------------- MODULE WeightLoad ------------------------------
(***************************************************************************)
(* Streaming a checkpoint into the quantized modules of one model, on one  *)
(* rank, up to the moment the model may serve.                             *)
(*                                                                         *)
(*  - gridbook/moe_toplevel_loader.py wraps the architecture's             *)
(*    load_weights: it stages the planes of composite ("mixed fused")      *)
(*    modules and commits a module only as a whole, copies stacked expert  *)
(*    tensors into their parameters, refuses orphans, and yields the rest  *)
(*    to the original loader.                                              *)
(*  - gridbook/moe.py and moe_mixed.py hook the per-layer load_weights for *)
(*    architectures whose own loader delegates to it.                      *)
(*  - process_weights_after_loading then admits or refuses each module.    *)
(*                                                                         *)
(* A parameter is a name; a checkpoint tensor is a record saying which     *)
(* parameter it resolves to and what is true of its bytes.                 *)
(***************************************************************************)
EXTENDS Naturals, FiniteSets

CONSTANTS
    Groups,       \* composite fused modules
    Planes,       \* their parameters, one per role and plane
    GroupOf,      \* GroupOf[p]: the module plane p belongs to
    Layers,       \* routed-expert layers
    MixedLayers,  \* those built by the per-expert-format method
    Stacks,       \* packed expert stacks (cb_qweight), fill-guarded
    Scales,       \* FP8 row scales (weight_scale), created uninitialized
    InputScales,  \* static activation scalars, created as NaN
    LayerOf,      \* LayerOf[p]: the layer an expert parameter belongs to
    Attested,     \* Attested[s]: the activation scale the manifest attests
    Replicated,   \* planes with no column axis
    Degree,       \* how many ranks share a module
    Rank,         \* which of them this is
    Depth,        \* wrapped load_weights methods nested in one another
    Wire,         \* the tensors the checkpoint may hold
    MaxCalls      \* bound: load_weights calls before finalization

NaN     == "nan"
Garbage == "garbage"      \* what torch.empty leaves behind
Values  == {"a", "b"}

(***************************************************************************)
(* The part of the exported tensor that some tensor carries, in units of   *)
(* one rank's share: where it starts and how much of it there is.          *)
(***************************************************************************)
Share(first, count) == [first |-> first, count |-> count]
Whole  == Share(0, Degree)   \* as the checkpoint stores it
Cut(r) == Share(r, 1)        \* what rank r keeps of it
Bad    == Share(0, 0)        \* of no acceptable extent

ExpertParams == Stacks \cup Scales \cup InputScales
Params       == Planes \cup ExpertParams
Modules      == Groups \cup Layers
Parts        == {Whole, Bad} \cup {Cut(r) : r \in 0..(Degree - 1)}

(***************************************************************************)
(* to: the parameter the name resolves to, or why it resolves to none;     *)
(* via: the spelling (a role has a construction and a registered name);    *)
(* part: the whole tensor, one already cut to some rank, or a wrong extent.*)
(***************************************************************************)
Tensor == [to    : Params \cup {"orphan", "ambiguous"},
           via   : {"registered", "construction"},
           part  : Parts,
           dtype : {"same", "raw", "other"},
           val   : Values \cup {NaN}]

NoTensor == [to |-> "none", via |-> "none", part |-> Bad,
             dtype |-> "other", val |-> NaN]

ExpertTensors == {t \in Wire : t.to \in ExpertParams}

ASSUME LoadAssumption ==
    /\ GroupOf \in [Planes -> Groups]
    /\ \A g \in Groups : \E p \in Planes : GroupOf[p] = g
    /\ LayerOf \in [ExpertParams -> Layers]
    /\ \A l \in Layers : \E p \in Stacks : LayerOf[p] = l
    /\ Attested \in [InputScales -> Values]
    /\ MixedLayers \subseteq Layers
    /\ Replicated \subseteq Planes
    /\ Planes \cap ExpertParams = {}
    /\ Groups \cap Layers = {}
    /\ Stacks \cap (Scales \cup InputScales) = {}
    /\ Scales \cap InputScales = {}
    /\ Params \cap {"orphan", "ambiguous"} = {}
    /\ Degree \in Nat \ {0} /\ Rank \in 0..(Degree - 1)
    /\ Depth \in Nat \ {0}
    /\ MaxCalls \in Nat \ {0}
    /\ Wire \subseteq Tensor

VARIABLES
    route,       \* what stands between the stream and the expert parameters
    phase,       \* of the load, see Phases
    calls,       \* load_weights calls started
    level,       \* nested wrapper whose finish() runs next
    heard,       \* tensors streamed in this call
    ever,        \* expert tensors streamed in any call
    pending,     \* pending[p]: the staged tensor of plane p, or NoTensor
    committed,   \* committed[d]: groups the wrapper at depth d has committed
    tocopy,      \* planes of the committing group not yet copied
    content,     \* content[p]: what parameter p holds and since which call
    filled,      \* the fill sentinels
    status       \* status[m]: constructed or ready

streamVars == <<heard, ever>>
stageVars  == <<pending, committed, tocopy>>
paramVars  == <<content, filled>>
callVars   == <<phase, calls, level>>
vars == <<route, callVars, streamVars, stageVars, paramVars, status>>

Phases == {"streaming", "committing", "finishing", "returned",
           "refused",    \* Gridbook raised: the stream breaks its contract
           "broken",     \* something else raised: a copy, a file, the model
           "serving"}

Content == [val : Values \cup {NaN, Garbage}, part : Parts, call : 0..MaxCalls]

(***************************************************************************)
(* "wrapper": the model class carries the top-level wrapper; "hook": it    *)
(* does not, and its own loader hands expert tensors to the layer's        *)
(* load_weights; "none": neither.                                          *)
(***************************************************************************)
Live        == IF route = "wrapper" THEN Groups ELSE {}
PlanesOf(g) == {p \in Planes : GroupOf[p] = g}
LivePlanes  == {p \in Planes : GroupOf[p] \in Live}
GuardedBy(m) == PlanesOf(m) \cup {p \in Stacks : LayerOf[p] = m}
ScalesOf(l)  == {p \in InputScales : LayerOf[p] = l}

TypeOK ==
    /\ route \in {"wrapper", "hook", "none"}
    /\ phase \in Phases
    /\ calls \in 1..MaxCalls
    /\ level \in IF phase = "finishing" THEN 1..Depth ELSE 0..Depth
    /\ heard \subseteq Wire /\ ever \subseteq ExpertTensors
    /\ pending \in [Planes -> Tensor \cup {NoTensor}]
    /\ committed \in [1..Depth -> SUBSET Groups]
    /\ tocopy \subseteq Planes
    /\ content \in [Params -> Content]
    /\ filled \in [Params -> BOOLEAN]
    /\ status \in [Modules -> {"absent", "constructed", "ready"}]

(***************************************************************************)
(* Without the wrapper the construction gate refuses to build a composite  *)
(* module, so such a model only has expert layers.                         *)
(***************************************************************************)
Init ==
    /\ route \in {"wrapper", "hook", "none"}
    /\ phase = "streaming" /\ calls = 1 /\ level = 0
    /\ heard = {} /\ ever = {}
    /\ pending = [p \in Planes |-> NoTensor]
    /\ committed = [d \in 1..Depth |-> {}]
    /\ tocopy = {}
    /\ content = [p \in Params |->
                    [val  |-> IF p \in InputScales THEN NaN ELSE Garbage,
                     part |-> Bad, call |-> 0]]
    /\ filled = [p \in Params |-> FALSE]
    /\ status = [m \in Modules |-> IF m \in Live \cup Layers
                                   THEN "constructed" ELSE "absent"]

Hear(t) ==
    /\ phase = "streaming"
    /\ t \in Wire \ heard
    /\ heard' = heard \cup {t}
    /\ ever' = ever \cup ({t} \cap ExpertTensors)
    /\ UNCHANGED <<route, calls, level>>

Refuse ==
    /\ phase' = "refused"
    /\ UNCHANGED <<stageVars, paramVars, status>>

------------------------------------------------------------------------------
(* Composite modules: stage every plane, commit the module as a whole. *)

(***************************************************************************)
(* A definition named X_Slip is X with one slip a maintainer could make.   *)
(* No behaviour uses it; it is there to show which property would notice.  *)
(***************************************************************************)
Narrow_TakesCut(p, t) ==
    IF Degree = 1 \/ p \in Replicated THEN t.part
    ELSE IF t.part.count = Degree THEN Share(t.part.first + Rank, 1) ELSE t.part

\* What this rank keeps of t.  A plane with a column axis must arrive with the
\* columns of every rank, and the rank takes its own by their position.
Narrow(p, t) ==
    IF Degree = 1 \/ p \in Replicated THEN t.part
    ELSE IF t.part.count = Degree THEN Share(t.part.first + Rank, 1) ELSE Bad

\* Parameters cut to this rank's share: planes with a column axis, and stacks
\* cut to the rank's experts.  The per-expert-format method refuses expert
\* parallelism, so its parameters hold every expert.
Sharded(p) ==
    /\ Degree > 1
    /\ \/ p \in Planes \ Replicated
       \/ p \in Stacks \cup Scales /\ LayerOf[p] \notin MixedLayers

\* The shape gate: what is to be copied has the extent of the parameter.
Fits(p, part) == part.count = IF Sharded(p) THEN 1 ELSE Degree

StageRefused_Recommit(t) == pending[t.to] # NoTensor \/ ~Fits(t.to, Narrow(t.to, t))
\* Why stage() raises before it retains anything.
StageRefused(t) ==
    \/ GroupOf[t.to] \in committed[1]
    \/ pending[t.to] # NoTensor
    \/ ~Fits(t.to, Narrow(t.to, t))

\* The group t belongs to, with every plane present once t is staged.
Completes(t) ==
    \A p \in PlanesOf(GroupOf[t.to]) : p # t.to => pending[p] # NoTensor

DtypesOK_NoRaw(t) ==
    \A p \in PlanesOf(GroupOf[t.to]) :
        (IF p = t.to THEN t ELSE pending[p]).dtype = "same"

\* The dtype pass over the whole group, before any destination changes.
DtypesOK(t) ==
    \A p \in PlanesOf(GroupOf[t.to]) :
        (IF p = t.to THEN t ELSE pending[p]).dtype \in {"same", "raw"}

CommitSet_ArrivedOnly(t) == {t.to}

\* The copy loop covers every plane of the group.
CommitSet(t) == PlanesOf(GroupOf[t.to])

Keep(t) == pending' = [pending EXCEPT
                         ![t.to] = [t EXCEPT !.part = Narrow(t.to, t)]]

StagePlane(t) ==
    /\ Hear(t)
    /\ t.to \in LivePlanes
    /\ ~StageRefused(t) /\ ~Completes(t)
    /\ Keep(t)
    /\ UNCHANGED <<phase, committed, tocopy, paramVars, status>>

RefusePlane(t) ==
    /\ Hear(t)
    /\ t.to \in LivePlanes
    /\ \/ StageRefused(t)
       \/ Completes(t) /\ ~DtypesOK(t)
    /\ Refuse

BeginCommit(t) ==
    /\ Hear(t)
    /\ t.to \in LivePlanes
    /\ ~StageRefused(t) /\ Completes(t) /\ DtypesOK(t)
    /\ Keep(t)
    /\ phase' = "committing"
    /\ tocopy' = CommitSet(t)
    /\ UNCHANGED <<committed, paramVars, status>>

CopyPlane_NoReturn(p) ==
    /\ phase = "committing"
    /\ p \in tocopy
    /\ content' = [content EXCEPT ![p] = [val  |-> pending[p].val,
                                          part |-> pending[p].part,
                                          call |-> calls]]
    /\ filled' = [filled EXCEPT ![p] = TRUE]
    /\ tocopy' = tocopy \ {p}
    /\ UNCHANGED <<route, callVars, streamVars, committed, pending, status>>

\* One turn of the copy loop.  The last one marks the group committed and
\* drops its staged tensors.
CopyPlane(p) ==
    /\ phase = "committing"
    /\ p \in tocopy
    /\ content' = [content EXCEPT ![p] = [val  |-> pending[p].val,
                                          part |-> pending[p].part,
                                          call |-> calls]]
    /\ filled' = [filled EXCEPT ![p] = TRUE]
    /\ tocopy' = tocopy \ {p}
    /\ IF tocopy = {p}
       THEN /\ phase' = "streaming"
            /\ committed' = [committed EXCEPT ![1] = @ \cup {GroupOf[p]}]
            /\ pending' = [q \in Planes |-> IF GroupOf[q] = GroupOf[p]
                                            THEN NoTensor ELSE pending[q]]
       ELSE UNCHANGED <<phase, committed, pending>>
    /\ UNCHANGED <<route, calls, level, streamVars, status>>

------------------------------------------------------------------------------
(* Expert layers, through the top-level wrapper or the layer's own hook. *)

\* A whole stack is gathered down to this rank's experts; any other tensor is
\* handed on as it is, and the shape gate takes one that was already cut.
Gather(p, t) ==
    IF Sharded(p) /\ t.part.count = Degree THEN Share(t.part.first + Rank, 1)
    ELSE t.part

Loads(t) == Fits(t.to, Gather(t.to, t))

Placed(p, t) == [val |-> t.val, part |-> Gather(p, t), call |-> calls]

\* An activation scalar that already holds a number is compared, not copied.
Held(p)  == p \in InputScales /\ content[p].val # NaN
Agree_Never(t) == TRUE

Agree(t) == Held(t.to) => t.val = content[t.to].val

CopyExpert(t) ==
    /\ content' = [content EXCEPT
                     ![t.to] = IF Held(t.to) THEN @ ELSE Placed(t.to, t)]
    /\ filled' = [filled EXCEPT ![t.to] = @ \/ t.to \in Stacks]
    /\ UNCHANGED <<phase, stageVars, status>>

TopLevelExpert(t) ==
    /\ Hear(t)
    /\ route = "wrapper" /\ t.to \in ExpertParams
    /\ IF Loads(t) /\ Agree(t) THEN CopyExpert(t) ELSE Refuse

\* The wrapper raises on a name with two targets, and on a codebook tensor
\* whose module was built as a plain Linear.
RefuseName(t) ==
    /\ Hear(t)
    /\ route = "wrapper" /\ t.to \in {"orphan", "ambiguous"}
    /\ Refuse

\* The per-expert-format hook compares a scalar that is already there.
MixedHookExpert(t) ==
    /\ Hear(t)
    /\ route = "hook"
    /\ t.to \in ExpertParams /\ LayerOf[t.to] \in MixedLayers
    /\ IF Loads(t) /\ Agree(t) THEN CopyExpert(t) ELSE Refuse

\* The stacked hook gathers, and the last copy of a scalar wins.
StackedHookExpert(t) ==
    /\ Hear(t)
    /\ route = "hook"
    /\ t.to \in ExpertParams /\ LayerOf[t.to] \notin MixedLayers
    /\ IF ~Loads(t)
       THEN Refuse
       ELSE /\ content' = [content EXCEPT ![t.to] = Placed(t.to, t)]
            /\ filled' = [filled EXCEPT ![t.to] = @ \/ t.to \in Stacks]
            /\ UNCHANGED <<phase, stageVars, status>>

\* The architecture's own loader has no mapping for the name and passes it
\* over (when it raises instead, that is Break).  The tensors it does place,
\* which touch no parameter of ours, are left out of Wire.
PassOver(t) ==
    /\ Hear(t)
    /\ \/ route # "wrapper" /\ t.to \in {"orphan", "ambiguous"}
       \/ route = "none" /\ t.to \in ExpertParams
    /\ UNCHANGED <<phase, stageVars, paramVars, status>>

------------------------------------------------------------------------------
(* The end of a call, and what follows it. *)

\* A copy, a file read or the architecture's loader raises.
Break ==
    /\ phase \in {"streaming", "committing"}
    /\ phase' = "broken"
    /\ UNCHANGED <<route, calls, level, streamVars, stageVars, paramVars,
                   status>>

\* The original load_weights returns; the stream may hold nothing more, or
\* the original loader may have stopped pulling from it.
OriginalReturns ==
    /\ phase = "streaming"
    /\ phase' = "finishing"
    /\ level' = Depth
    /\ UNCHANGED <<route, calls, streamVars, stageVars, paramVars, status>>

\* finish() of the wrapper at this depth, innermost first.
Finish ==
    /\ phase = "finishing"
    /\ IF committed[level] # Live
       THEN phase' = "refused" /\ UNCHANGED level
       ELSE /\ phase' = IF level = 1 THEN "returned" ELSE "finishing"
            /\ level' = level - 1
    /\ UNCHANGED <<route, calls, streamVars, stageVars, paramVars, status>>

\* load_weights runs again: a reload, or an enclosing loader that calls the
\* model once per run of consecutive names.  Transactions are per call.
CallAgain ==
    /\ phase = "returned"
    /\ calls < MaxCalls
    /\ \A m \in Modules : status[m] # "ready"
    /\ phase' = "streaming"
    /\ calls' = calls + 1
    /\ heard' = {}
    /\ pending' = [p \in Planes |-> NoTensor]
    /\ committed' = [d \in 1..Depth |-> {}]
    /\ UNCHANGED <<route, level, ever, tocopy, paramVars, status>>

Admissible_NoFillGuard(m) ==
    \A s \in ScalesOf(m) : content[s].val = Attested[s]

\* What process_weights_after_loading demands of module m.
Admissible(m) ==
    /\ \A p \in GuardedBy(m) : filled[p]
    /\ \A s \in ScalesOf(m) : content[s].val = Attested[s]

Finalize(m) ==
    /\ phase = "returned"
    /\ status[m] = "constructed"
    /\ IF Admissible(m)
       THEN status' = [status EXCEPT ![m] = "ready"] /\ UNCHANGED phase
       ELSE phase' = "refused" /\ UNCHANGED status
    /\ UNCHANGED <<route, calls, level, streamVars, stageVars, paramVars>>

Serve_Early ==
    /\ phase = "returned"
    /\ \E m \in Modules : status[m] # "constructed"
    /\ phase' = "serving"
    /\ UNCHANGED <<route, calls, level, streamVars, stageVars, paramVars,
                   status>>

Serve ==
    /\ phase = "returned"
    /\ \A m \in Modules : status[m] # "constructed"
    /\ phase' = "serving"
    /\ UNCHANGED <<route, calls, level, streamVars, stageVars, paramVars,
                   status>>

Ended == phase \in {"refused", "broken", "serving"} /\ UNCHANGED vars

------------------------------------------------------------------------------
HearSome ==
    \E t \in Wire :
        \/ StagePlane(t) \/ RefusePlane(t) \/ BeginCommit(t)
        \/ TopLevelExpert(t) \/ RefuseName(t)
        \/ MixedHookExpert(t) \/ StackedHookExpert(t) \/ PassOver(t)

Progress ==
    \/ HearSome \/ OriginalReturns \/ Finish \/ Serve
    \/ \E p \in Planes : CopyPlane(p)
    \/ \E m \in Modules : Finalize(m)

Next == Progress \/ Break \/ CallAgain \/ Ended

Spec == Init /\ [][Next]_vars

\* One Python thread runs the load to its end: any step it can take, it takes.
FairSpec == Spec /\ WF_vars(Progress)

------------------------------------------------------------------------------
(* Properties. *)

Stamp(p) == content[p].call

\* All planes of a composite module hold bytes of one and the same
\* load_weights call, or none was ever loaded: no stream, however truncated,
\* repeated or malformed, leaves one role new and its sibling old.  Only the
\* copy loop itself, or an exception out of it, may be caught in between.
GroupAtomic ==
    phase \notin {"committing", "broken"} =>
        \A p, q \in Planes : GroupOf[p] = GroupOf[q] => Stamp(p) = Stamp(q)

\* A module that passed its post-load gate holds checkpoint bytes in every
\* guarded parameter, whatever order, call or path they came through.
ReadyIsFilled ==
    \A m \in Modules : status[m] = "ready" =>
        \A p \in GuardedBy(m) : Stamp(p) # 0 /\ content[p].val # Garbage

\* The share of the exported tensor that is due to this rank.
Due(p) == IF Sharded(p) THEN Cut(Rank) ELSE Whole

\* A parameter that was loaded holds this rank's own share of the exported
\* tensor: never a sibling's, never the whole of what is cut or a cut of what
\* is not, whichever spelling, call or order it came in, and after any
\* refusal.  Only a stack of experts may hold another share, and only one that
\* the stream brought already cut.
OwnSlice ==
    \A p \in Params : Stamp(p) # 0 =>
        \/ content[p].part = Due(p)
        \/ /\ p \in ExpertParams
           /\ \E t \in ever : t.to = p /\ t.part # Whole /\ t.part = content[p].part

\* Under the wrapper every copy of an activation scalar that was accepted
\* carries the one value the parameter holds.
ScalesAgree ==
    route = "wrapper" /\ phase # "refused" =>
        \A t \in ever : t.to \in InputScales /\ t.val # NaN =>
            content[t.to].val = t.val

\* Within one call a plane is written at most once.
CommittedOnce ==
    [][\A p \in Planes : content'[p] # content[p] => Stamp(p) < calls]_vars

\* What may be held against a stream, said without the transactions.
Malformed(t) ==
    \/ t.to \in {"orphan", "ambiguous"}
    \/ t.part = Bad
    \/ t.to \in Planes /\ t.dtype = "other"
    \/ t.part # Whole /\ ~(t.to \in ExpertParams /\ Sharded(t.to))
Respelled  == \E t, u \in heard : t # u /\ t.to = u.to /\ t.to \in Planes
Contradicts == \E t, u \in ever : t.to \in InputScales /\ t.to = u.to
                                  /\ t.val # u.val
Unheard(p) == \A t \in ever : t.to # p
StreamFault == Respelled \/ Contradicts \/ \E t \in heard : Malformed(t)
MissingPlane == \E p \in LivePlanes : \A t \in heard : t.to # p
MissingExpert(l) ==
    \/ route = "none"
    \/ \E p \in Stacks \cup InputScales : LayerOf[p] = l /\ Unheard(p)
    \/ \E t \in ever : t.to \in ScalesOf(l) /\ t.val # Attested[t.to]

\* Gridbook never turns away a checkpoint that is complete and well formed:
\* each refusal has a reason that can be named from the stream alone.  After
\* the last call only an expert layer can still be found wanting: a composite
\* module was filled by the call that finished.
NoFalseRefusal ==
    [][phase' = "refused" /\ phase # "refused" =>
         CASE phase = "streaming" -> StreamFault'
           [] phase = "finishing" -> MissingPlane
           [] phase = "returned"  -> \E l \in Layers : /\ status[l] = "constructed"
                                                       /\ MissingExpert(l)
           [] OTHER -> FALSE]_vars

\* Every parameter of a serving model was written from the checkpoint.
ServedInitialized ==
    phase = "serving" => \A p \in ExpertParams \cup LivePlanes : Stamp(p) # 0

\* A load never hangs: it serves, refuses or breaks.
LoadEnds == <>(phase \in {"serving", "refused", "broken"})

\* The load implements the gate: m is filled once each guarded parameter is.
Gate == INSTANCE ServeGate WITH
    gate <- [m \in Modules |->
                IF status[m] # "constructed" THEN status[m]
                ELSE IF \A p \in GuardedBy(m) : filled[p]
                     THEN "filled" ELSE "empty"],
    open <- phase = "serving"
GateSpec == Gate!GateSpec
==============================================================================
