-------------------------- MODULE WeightLoadProofs ---------------------------
(***************************************************************************)
(* What holds of WeightLoad for every set of modules and parameters, every *)
(* sharding degree, every nesting depth, every checkpoint and any number   *)
(* of load_weights calls.                                                  *)
(*                                                                         *)
(* GroupAtomic is not inductive: inside the copy loop a module is half     *)
(* new.  IInv says what the loop keeps meanwhile: the planes already       *)
(* copied carry this call's number, the others still share an older one.   *)
(***************************************************************************)
EXTENDS WeightLoad, TLAPS

\* All planes of group g were written by the same call.
Even(g) == \A p, q \in PlanesOf(g) : Stamp(p) = Stamp(q)

\* A group not committed in this call was last written by an earlier one.
Fresh(g) == g \notin committed[1] => \A p \in PlanesOf(g) : Stamp(p) < calls

\* The copy loop is part way through group g.
Copying(g) ==
    /\ tocopy # {} /\ tocopy \subseteq PlanesOf(g)
    /\ g \notin committed[1]
    /\ \A p \in tocopy : pending[p] # NoTensor /\ Stamp(p) < calls
    /\ \A p, q \in tocopy : Stamp(p) = Stamp(q)
    /\ \A p \in PlanesOf(g) \ tocopy : Stamp(p) = calls

GroupsInv ==
    /\ phase \notin {"committing", "broken"} =>
          \A g \in Groups : Even(g) /\ Fresh(g)
    /\ phase = "committing" =>
          \E g \in Groups : /\ Copying(g)
                            /\ \A h \in Groups \ {g} : Even(h) /\ Fresh(h)

\* What is staged is what this rank is due.
PendingCut == \A p \in Planes : pending[p] # NoTensor => pending[p].part = Due(p)

StampsBounded == \A p \in Params : Stamp(p) <= calls

FilledIsLoaded ==
    \A p \in Params : filled[p] => Stamp(p) # 0 /\ content[p].val # Garbage

ReadyWasFilled ==
    \A m \in Modules : status[m] = "ready" => \A p \in GuardedBy(m) : filled[p]

IInv ==
    /\ TypeOK /\ PendingCut /\ StampsBounded
    /\ FilledIsLoaded /\ ReadyWasFilled /\ OwnSlice /\ GroupsInv

------------------------------------------------------------------------------
(* Facts about the constants and the helpers. *)

\* A streamed tensor is never mistaken for an empty staging slot.
LEMMA WireIsReal ==
    ASSUME NEW t \in Wire
    PROVE  /\ t \in Tensor
           /\ \A x \in Parts : [t EXCEPT !.part = x] # NoTensor
PROOF BY LoadAssumption DEF Tensor, NoTensor

LEMMA PartsAre ==
    /\ Whole \in Parts /\ Bad \in Parts /\ Cut(Rank) \in Parts
    /\ \A x \in Parts : x.count = Degree => x = Whole
    /\ \A x \in Parts : Degree > 1 /\ x.count = Degree =>
           Share(x.first + Rank, 1) = Cut(Rank)
    /\ Bad.count # 1 /\ Bad.count # Degree
PROOF BY LoadAssumption DEF Parts, Share, Whole, Bad, Cut

LEMMA DueType == ASSUME NEW p \in Params PROVE Due(p) \in Parts
PROOF BY PartsAre DEF Due

\* A plane that passes the shape gate is this rank's own share: cut here from
\* the whole when it has a column axis, and the whole otherwise.
LEMMA FitIsDue ==
    ASSUME NEW t \in Wire, NEW p \in Planes, Fits(p, Narrow(p, t))
    PROVE  Narrow(p, t) = Due(p)
<1>1. t.part \in Parts
  BY LoadAssumption DEF Tensor
<1>2. Degree > 1 \/ Degree = 1
  BY LoadAssumption
<1>3. CASE Sharded(p)
  BY <1>1, <1>3, PartsAre, LoadAssumption DEF Fits, Narrow, Due, Sharded, ExpertParams
<1>4. CASE ~Sharded(p)
  BY <1>1, <1>2, <1>4, PartsAre DEF Fits, Narrow, Due, Sharded
<1>5. QED
  BY <1>3, <1>4

\* An expert tensor that passes the shape gate is gathered to this rank's
\* share, or was cut before it came.
LEMMA LoadsIsDue ==
    ASSUME NEW t \in Wire, Loads(t)
    PROVE  /\ Gather(t.to, t) \in Parts
           /\ \/ Gather(t.to, t) = Due(t.to)
              \/ t.part # Whole /\ Gather(t.to, t) = t.part
<1>1. t.part \in Parts
  BY LoadAssumption DEF Tensor
<1>2. CASE Sharded(t.to) /\ t.part.count = Degree
  BY <1>1, <1>2, PartsAre DEF Gather, Due, Sharded
<1>3. CASE Sharded(t.to) /\ t.part.count # Degree
  BY <1>1, <1>3 DEF Gather, Whole, Share
<1>4. CASE ~Sharded(t.to)
  BY <1>1, <1>4, PartsAre DEF Loads, Fits, Gather, Due
<1>5. QED
  BY <1>2, <1>3, <1>4

\* Hearing more changes nothing about what is held already.
LEMMA OwnSliceKept ==
    ASSUME OwnSlice, content' = content, ever \subseteq ever'
    PROVE  OwnSlice'
PROOF BY DEF OwnSlice, Stamp

------------------------------------------------------------------------------
(* The invariant holds initially and every action keeps it. *)

LEMMA InitIInv == Init => IInv
<1> SUFFICES ASSUME Init PROVE IInv
  OBVIOUS
<1> USE LoadAssumption
<1>1. TypeOK
  BY PartsAre DEF Init, TypeOK, Content, Phases, Params, Modules, Live, NaN, Garbage
<1>2. PendingCut
  BY DEF Init, PendingCut
<1>3. StampsBounded /\ OwnSlice
  BY DEF Init, StampsBounded, OwnSlice, Stamp, Params
<1>4. FilledIsLoaded /\ ReadyWasFilled
  BY DEF Init, FilledIsLoaded, ReadyWasFilled
<1>5. GroupsInv
  BY DEF Init, GroupsInv, Even, Fresh, PlanesOf, Stamp, Params
<1>6. QED
  BY <1>1, <1>2, <1>3, <1>4, <1>5 DEF IInv

\* A step that stores nothing, stages nothing and does not start to copy.
LEMMA QuietStep ==
    ASSUME IInv, TypeOK', UNCHANGED <<stageVars, paramVars, status, calls>>,
           phase' # "committing",
           phase \in {"committing", "broken"} => phase' = "broken",
           ever \subseteq ever'
    PROVE  IInv'
<1>1. PendingCut' /\ StampsBounded' /\ OwnSlice'
  BY OwnSliceKept DEF IInv, PendingCut, StampsBounded, Stamp, stageVars, paramVars
<1>2. FilledIsLoaded' /\ ReadyWasFilled'
  BY DEF IInv, FilledIsLoaded, ReadyWasFilled, Stamp, paramVars
<1>3. GroupsInv'
  BY DEF IInv, GroupsInv, Even, Fresh, Stamp, stageVars, paramVars
<1>4. QED
  BY <1>1, <1>2, <1>3 DEF IInv

LEMMA StreamType ==
    ASSUME TypeOK, NEW t \in Wire, Hear(t)
    PROVE  /\ heard' \subseteq Wire /\ ever' \subseteq ExpertTensors
           /\ route' = route /\ calls' = calls /\ level' = level
           /\ ever \subseteq ever'
PROOF BY DEF TypeOK, Hear

LEMMA RefuseIInv ==
    ASSUME IInv, NEW t \in Wire, Hear(t), Refuse
    PROVE  IInv'
<1>1. TypeOK'
  BY StreamType DEF IInv, TypeOK, Refuse, Phases, stageVars, paramVars
<1>2. QED
  BY <1>1, QuietStep, StreamType DEF IInv, Hear, Refuse

LEMMA KeepType ==
    ASSUME IInv, NEW t \in Wire, t.to \in Planes, Keep(t), ~StageRefused(t)
    PROVE  /\ pending' \in [Planes -> Tensor \cup {NoTensor}]
           /\ PendingCut'
           /\ pending'[t.to] # NoTensor
           /\ \A p \in Planes : p # t.to => pending'[p] = pending[p]
<1> DEFINE kept == [t EXCEPT !.part = Narrow(t.to, t)]
<1>1. kept \in Tensor /\ kept # NoTensor /\ kept.part = Narrow(t.to, t)
  BY WireIsReal, FitIsDue, DueType DEF StageRefused, Tensor, Params
<1>2. pending' = [pending EXCEPT ![t.to] = kept]
  BY DEF Keep
<1> HIDE DEF kept
<1>3. pending \in [Planes -> Tensor \cup {NoTensor}]
  BY DEF IInv, TypeOK
<1>4. /\ pending' \in [Planes -> Tensor \cup {NoTensor}]
      /\ pending'[t.to] = kept
      /\ \A p \in Planes : p # t.to => pending'[p] = pending[p]
  BY <1>1, <1>2, <1>3
<1>5. PendingCut'
  BY <1>1, <1>4, FitIsDue DEF IInv, PendingCut, StageRefused
<1>6. QED
  BY <1>1, <1>4, <1>5

LEMMA StagePlaneIInv ==
    ASSUME IInv, NEW t \in Wire, StagePlane(t)
    PROVE  IInv'
<1> USE DEF StagePlane
<1>1. t.to \in Planes /\ phase = "streaming"
  BY DEF LivePlanes, Hear
<1>2. TypeOK' /\ PendingCut'
  BY <1>1, KeepType, StreamType DEF IInv, TypeOK, paramVars
<1>3. StampsBounded' /\ OwnSlice' /\ FilledIsLoaded' /\ ReadyWasFilled'
  BY StreamType, OwnSliceKept DEF IInv, StampsBounded, FilledIsLoaded,
                                  ReadyWasFilled, Stamp, paramVars
<1>4. GroupsInv'
  BY <1>1, StreamType DEF IInv, GroupsInv, Even, Fresh, Stamp, paramVars
<1>5. QED
  BY <1>2, <1>3, <1>4 DEF IInv

LEMMA BeginCommitIInv ==
    ASSUME IInv, NEW t \in Wire, BeginCommit(t)
    PROVE  IInv'
<1> USE DEF BeginCommit
<1> DEFINE g == GroupOf[t.to]
<1>1. t.to \in PlanesOf(g) /\ phase = "streaming" /\ g \in Groups
  BY LoadAssumption DEF LivePlanes, Hear, PlanesOf
<1>2. TypeOK' /\ PendingCut'
  BY <1>1, KeepType, StreamType
  DEF IInv, TypeOK, paramVars, Phases, CommitSet, PlanesOf
<1>3. StampsBounded' /\ OwnSlice' /\ FilledIsLoaded' /\ ReadyWasFilled'
  BY StreamType, OwnSliceKept DEF IInv, StampsBounded, FilledIsLoaded,
                                  ReadyWasFilled, Stamp, paramVars
<1>4. \A h \in Groups : Even(h) /\ Fresh(h)
  BY <1>1 DEF IInv, GroupsInv
<1>5. \A h \in Groups : Even(h)' /\ Fresh(h)'
  BY <1>4, StreamType DEF IInv, Even, Fresh, Stamp, paramVars
<1>6. Copying(g)'
  <2>1. \A p \in PlanesOf(g) : pending'[p] # NoTensor
    BY <1>1, KeepType DEF Completes, PlanesOf
  <2>2. g \notin committed[1]
    BY DEF StageRefused
  <2>3. tocopy' = PlanesOf(g) /\ committed' = committed
    BY DEF CommitSet
  <2>4. QED
    BY <1>1, <1>5, <2>1, <2>2, <2>3 DEF Copying, Even, Fresh
<1>7. GroupsInv'
  BY <1>1, <1>5, <1>6 DEF GroupsInv
<1>8. QED
  BY <1>2, <1>3, <1>7 DEF IInv

(***************************************************************************)
(* One turn of the copy loop.  Plane p gets this call's number; when it is *)
(* the last, the whole group has it and counts as committed.               *)
(***************************************************************************)
LEMMA CopyPlaneIInv ==
    ASSUME IInv, NEW p \in Planes, CopyPlane(p)
    PROVE  IInv'
<1> USE DEF CopyPlane
<1> DEFINE new == [val |-> pending[p].val, part |-> pending[p].part,
                   call |-> calls]
<1>1. PICK g \in Groups : /\ Copying(g)
                          /\ \A h \in Groups \ {g} : Even(h) /\ Fresh(h)
  BY DEF IInv, GroupsInv
<1>2. p \in PlanesOf(g) /\ GroupOf[p] = g
  BY <1>1 DEF Copying, PlanesOf
<1>3. /\ pending[p] # NoTensor /\ pending[p] \in Tensor
      /\ pending[p].part = Due(p) /\ Due(p) \in Parts
      /\ pending[p].val \in Values \cup {NaN}
  BY <1>1, DueType DEF Copying, IInv, TypeOK, PendingCut, Tensor, Params
<1>4. calls \in Nat /\ calls # 0 /\ calls \in 0..MaxCalls
  BY LoadAssumption DEF IInv, TypeOK
<1>5. new \in Content /\ new.call = calls /\ new.part = pending[p].part
      /\ new.val # Garbage
  BY <1>3, <1>4 DEF Content, Values, NaN, Garbage
<1>6. p \in Params /\ content \in [Params -> Content]
      /\ filled \in [Params -> BOOLEAN]
  BY DEF Params, IInv, TypeOK
<1>7. content' = [content EXCEPT ![p] = new]
      /\ filled' = [filled EXCEPT ![p] = TRUE]
  OBVIOUS
<1> HIDE DEF new
<1>8. /\ content'[p] = new
      /\ \A q \in Params : q # p => content'[q] = content[q]
      /\ filled'[p] = TRUE
      /\ \A q \in Params : q # p => filled'[q] = filled[q]
  BY <1>6, <1>7
<1>9. /\ Stamp(p)' = calls /\ calls' = calls
      /\ \A q \in Planes : q # p => Stamp(q)' = Stamp(q)
  BY <1>5, <1>8 DEF Stamp, Params
<1>10. \A h \in Groups \ {g} : /\ h \in committed[1] => h \in committed'[1]
                               /\ \A q \in PlanesOf(h) : Stamp(q)' = Stamp(q)
  BY <1>2, <1>9, LoadAssumption DEF IInv, TypeOK, PlanesOf
<1>11. /\ PendingCut'
       /\ pending' \in [Planes -> Tensor \cup {NoTensor}]
  BY DEF IInv, TypeOK, PendingCut
<1>12. TypeOK'
  <2>1. content' \in [Params -> Content] /\ filled' \in [Params -> BOOLEAN]
    BY <1>5, <1>6, <1>7
  <2>2. phase' \in Phases
    BY DEF IInv, TypeOK, Phases
  <2>3. committed' \in [1..Depth -> SUBSET Groups]
    <3>1. committed \in [1..Depth -> SUBSET Groups]
      BY DEF IInv, TypeOK
    <3>2. committed' = committed
          \/ committed' = [committed EXCEPT ![1] = @ \cup {g}]
      BY <1>2
    <3>3. QED
      BY <3>1, <3>2
  <2>4. QED
    BY <1>11, <2>1, <2>2, <2>3 DEF IInv, TypeOK, streamVars
<1>13. StampsBounded'
  BY <1>4, <1>5, <1>8, <1>9 DEF IInv, StampsBounded, Stamp
<1>14. OwnSlice'
  BY <1>3, <1>5, <1>8 DEF IInv, OwnSlice, Stamp, streamVars
<1>15. FilledIsLoaded'
  BY <1>4, <1>5, <1>8 DEF IInv, FilledIsLoaded, Stamp
<1>16. ReadyWasFilled'
  BY <1>8 DEF IInv, ReadyWasFilled, GuardedBy, PlanesOf, Params, ExpertParams
<1>17. GroupsInv'
  <2>1. \A h \in Groups \ {g} : Even(h)' /\ Fresh(h)'
    BY <1>1, <1>9, <1>10 DEF Even, Fresh
  <2>2. CASE tocopy = {p}
    <3>1. \A q \in PlanesOf(g) : Stamp(q)' = calls
      BY <1>1, <1>9, <2>2 DEF Copying, PlanesOf
    <3>2. g \in committed'[1]
      BY <1>2, <2>2, LoadAssumption DEF IInv, TypeOK
    <3>3. Even(g)' /\ Fresh(g)'
      BY <3>1, <3>2 DEF Even, Fresh
    <3>4. QED
      BY <2>1, <2>2, <3>3 DEF GroupsInv
  <2>3. CASE tocopy # {p}
    <3>1. committed' = committed /\ pending' = pending
          /\ phase' = "committing"
      BY <2>3
    <3>2. \A q \in tocopy' : Stamp(q)' = Stamp(q) /\ q \in tocopy
      BY <1>1, <1>9 DEF Copying, PlanesOf
    <3>3. \A q \in PlanesOf(g) \ tocopy' : Stamp(q)' = calls
      BY <1>1, <1>9 DEF Copying, PlanesOf
    <3>4. tocopy' # {} /\ tocopy' \subseteq PlanesOf(g)
      BY <1>1, <2>3 DEF Copying
    <3>5. Copying(g)'
      BY <1>1, <1>9, <3>1, <3>2, <3>3, <3>4 DEF Copying
    <3>6. QED
      BY <2>1, <3>1, <3>5 DEF GroupsInv
  <2>4. QED
    BY <2>2, <2>3
<1>18. QED
  BY <1>11, <1>12, <1>13, <1>14, <1>15, <1>16, <1>17 DEF IInv

(***************************************************************************)
(* Storing one expert tensor.  x is what the parameter then holds.         *)
(***************************************************************************)
LEMMA StoreIInv ==
    ASSUME IInv, NEW t \in Wire, Hear(t), t.to \in ExpertParams,
           NEW x, x \in Content, x.val # Garbage, x.call \in 1..calls,
           x.part = Due(t.to) \/ (t.part # Whole /\ x.part = t.part),
           content' = [content EXCEPT ![t.to] = x],
           filled' = [filled EXCEPT ![t.to] = @ \/ t.to \in Stacks],
           UNCHANGED <<phase, stageVars, status>>
    PROVE  IInv'
<1>1. t.to \in Params /\ t.to \notin Planes /\ phase = "streaming"
  BY LoadAssumption DEF Params, Hear
<1>2. content \in [Params -> Content] /\ filled \in [Params -> BOOLEAN]
  BY DEF IInv, TypeOK
<1>3. /\ content'[t.to] = x
      /\ \A q \in Params : q # t.to => content'[q] = content[q]
      /\ \A q \in Params : filled[q] => filled'[q]
      /\ \A q \in Params : q # t.to => filled'[q] = filled[q]
  BY <1>1, <1>2
<1>4. /\ calls' = calls /\ calls \in 1..MaxCalls
      /\ \A q \in Planes : content'[q] = content[q]
  BY <1>1, <1>3, StreamType DEF IInv, TypeOK, Params
<1>5. TypeOK'
  <2>1. content' \in [Params -> Content] /\ filled' \in [Params -> BOOLEAN]
    BY <1>1, <1>2
  <2>2. QED
    BY <2>1, StreamType DEF IInv, TypeOK, stageVars
<1>6. StampsBounded' /\ PendingCut'
  BY <1>3, <1>4 DEF IInv, StampsBounded, PendingCut, Stamp, stageVars
<1>7. OwnSlice'
  <2>1. ever \subseteq ever' /\ t \in ever'
    BY DEF Hear, ExpertTensors
  <2>2. \A q \in Params \ {t.to} : Stamp(q)' = Stamp(q) /\ content'[q] = content[q]
    BY <1>3 DEF Stamp
  <2>3. QED
    BY <1>3, <2>1, <2>2 DEF IInv, OwnSlice
<1>8. FilledIsLoaded'
  BY <1>3, <1>4 DEF IInv, FilledIsLoaded, Stamp
<1>9. ReadyWasFilled'
  BY <1>3 DEF IInv, ReadyWasFilled, GuardedBy, PlanesOf, Params, ExpertParams,
              stageVars
<1>10. GroupsInv'
  BY <1>1, <1>4 DEF IInv, GroupsInv, Even, Fresh, PlanesOf, Stamp, stageVars
<1>11. QED
  BY <1>5, <1>6, <1>7, <1>8, <1>9, <1>10 DEF IInv

\* A tensor placed as it is or gathered, but never of a bad extent.
LEMMA PlacedType ==
    ASSUME IInv, NEW t \in Wire, Loads(t)
    PROVE  LET x == Placed(t.to, t) IN
           /\ x \in Content /\ x.val # Garbage /\ x.call \in 1..calls
           /\ x.part = Due(t.to) \/ (t.part # Whole /\ x.part = t.part)
<1>1. calls \in 1..MaxCalls /\ MaxCalls \in Nat
  BY LoadAssumption DEF IInv, TypeOK
<1>2. t.val \in Values \cup {NaN}
  BY LoadAssumption DEF Tensor
<1>3. QED
  BY <1>1, <1>2, LoadsIsDue DEF Placed, Content, Values, NaN, Garbage

LEMMA CopyExpertIInv ==
    ASSUME IInv, NEW t \in Wire, Hear(t), t.to \in ExpertParams,
           Loads(t), CopyExpert(t)
    PROVE  IInv'
<1>1. CASE ~Held(t.to)
  <2>1. /\ content' = [content EXCEPT ![t.to] = Placed(t.to, t)]
        /\ filled' = [filled EXCEPT ![t.to] = @ \/ t.to \in Stacks]
        /\ UNCHANGED <<phase, stageVars, status>>
    BY <1>1 DEF CopyExpert
  <2>2. QED
    BY <2>1, PlacedType, StoreIInv
<1>2. CASE Held(t.to)
  <2>1. content \in [Params -> Content] /\ filled \in [Params -> BOOLEAN]
        /\ t.to \in Params /\ t.to \notin Stacks
    BY <1>2, LoadAssumption DEF IInv, TypeOK, Params, Held
  <2>2. UNCHANGED <<content, filled>>
    BY <1>2, <2>1 DEF CopyExpert
  <2>3. TypeOK'
    BY <2>2, StreamType DEF IInv, TypeOK, CopyExpert, stageVars
  <2>4. QED
    BY <2>2, <2>3, QuietStep, StreamType
    DEF IInv, CopyExpert, Hear, paramVars
<1>3. QED
  BY <1>1, <1>2

LEMMA HearIInv == ASSUME IInv, HearSome PROVE IInv'
<1>1. PICK t \in Wire :
        \/ StagePlane(t) \/ RefusePlane(t) \/ BeginCommit(t)
        \/ TopLevelExpert(t) \/ RefuseName(t)
        \/ MixedHookExpert(t) \/ StackedHookExpert(t) \/ PassOver(t)
  BY DEF HearSome
<1>2. CASE StagePlane(t)
  BY <1>2, StagePlaneIInv
<1>3. CASE RefusePlane(t)
  BY <1>3, RefuseIInv DEF RefusePlane
<1>4. CASE BeginCommit(t)
  BY <1>4, BeginCommitIInv
<1>5. CASE TopLevelExpert(t)
  BY <1>5, RefuseIInv, CopyExpertIInv DEF TopLevelExpert
<1>6. CASE RefuseName(t)
  BY <1>6, RefuseIInv DEF RefuseName
<1>7. CASE MixedHookExpert(t)
  BY <1>7, RefuseIInv, CopyExpertIInv DEF MixedHookExpert
<1>8. CASE StackedHookExpert(t)
  <2>1. Hear(t) /\ t.to \in ExpertParams
    BY <1>8 DEF StackedHookExpert
  <2>2. CASE ~Loads(t)
    BY <1>8, <2>1, <2>2, RefuseIInv DEF StackedHookExpert
  <2>3. CASE Loads(t)
    <3>1. /\ content' = [content EXCEPT ![t.to] = Placed(t.to, t)]
          /\ filled' = [filled EXCEPT ![t.to] = @ \/ t.to \in Stacks]
          /\ UNCHANGED <<phase, stageVars, status>>
      BY <1>8, <2>3 DEF StackedHookExpert
    <3>2. QED
      BY <2>1, <2>3, <3>1, PlacedType, StoreIInv
  <2>4. QED
    BY <2>2, <2>3
<1>9. CASE PassOver(t)
  <2>1. Hear(t) /\ UNCHANGED <<phase, stageVars, paramVars, status>>
    BY <1>9 DEF PassOver
  <2>2. TypeOK'
    BY <2>1, StreamType DEF IInv, TypeOK, stageVars, paramVars
  <2>3. QED
    BY <2>1, <2>2, QuietStep, StreamType DEF IInv, Hear
<1>10. QED
  BY <1>1, <1>2, <1>3, <1>4, <1>5, <1>6, <1>7, <1>8, <1>9

------------------------------------------------------------------------------
(* The steps between calls and after the load. *)

LEMMA BreakIInv == ASSUME IInv, Break PROVE IInv'
<1>1. TypeOK'
  BY DEF IInv, TypeOK, Break, Phases, streamVars, stageVars, paramVars
<1>2. QED
  BY <1>1, QuietStep DEF Break, streamVars

LEMMA ReturnIInv == ASSUME IInv, OriginalReturns PROVE IInv'
<1>1. TypeOK'
  BY LoadAssumption DEF IInv, TypeOK, OriginalReturns, Phases, streamVars,
                        stageVars, paramVars
<1>2. QED
  BY <1>1, QuietStep DEF OriginalReturns, streamVars

LEMMA FinishIInv == ASSUME IInv, Finish PROVE IInv'
<1>1. TypeOK'
  BY LoadAssumption DEF IInv, TypeOK, Finish, Phases, streamVars, stageVars,
                        paramVars
<1>2. QED
  BY <1>1, QuietStep DEF Finish, streamVars

LEMMA ServeIInv == ASSUME IInv, Serve PROVE IInv'
<1>1. TypeOK'
  BY DEF IInv, TypeOK, Serve, Phases, streamVars, stageVars, paramVars
<1>2. QED
  BY <1>1, QuietStep DEF Serve, streamVars

\* A new call starts with empty transactions: every stamp is an older one.
LEMMA CallAgainIInv == ASSUME IInv, CallAgain PROVE IInv'
<1> USE DEF CallAgain
<1>1. calls' = calls + 1 /\ calls' \in 1..MaxCalls /\ calls \in Nat
  BY LoadAssumption DEF IInv, TypeOK
<1>2. TypeOK'
  BY <1>1, LoadAssumption DEF IInv, TypeOK, Phases, paramVars
<1>3. content \in [Params -> Content] /\ \A p \in Params : Stamp(p) \in Nat
  BY LoadAssumption DEF IInv, TypeOK, Content, Stamp
<1>4. PendingCut' /\ OwnSlice' /\ FilledIsLoaded' /\ ReadyWasFilled'
  BY OwnSliceKept DEF IInv, PendingCut, FilledIsLoaded, ReadyWasFilled, Stamp,
                      paramVars
<1>5. StampsBounded'
  BY <1>1, <1>3 DEF IInv, StampsBounded, Stamp, paramVars
<1>6. GroupsInv'
  <2>1. \A g \in Groups : Even(g)'
    BY DEF IInv, GroupsInv, Even, Stamp, paramVars
  <2>2. \A g \in Groups : \A p \in PlanesOf(g) : Stamp(p)' < calls'
    BY <1>1, <1>3 DEF IInv, StampsBounded, PlanesOf, Params, Stamp, paramVars
  <2>3. QED
    BY <2>1, <2>2 DEF GroupsInv, Fresh
<1>7. QED
  BY <1>2, <1>4, <1>5, <1>6 DEF IInv

\* Only a module whose guarded parameters are all filled becomes ready.
LEMMA FinalizeIInv == ASSUME IInv, NEW m \in Modules, Finalize(m) PROVE IInv'
<1> USE DEF Finalize
<1>1. TypeOK'
  BY DEF IInv, TypeOK, Phases, streamVars, stageVars, paramVars
<1>2. CASE Admissible(m)
  <2>1. ReadyWasFilled'
    BY <1>2 DEF IInv, TypeOK, ReadyWasFilled, Admissible, paramVars
  <2>2. PendingCut' /\ OwnSlice' /\ FilledIsLoaded' /\ StampsBounded'
    BY OwnSliceKept DEF IInv, PendingCut, FilledIsLoaded, StampsBounded, Stamp,
                        streamVars, stageVars, paramVars
  <2>3. GroupsInv'
    BY <1>2 DEF IInv, GroupsInv, Even, Fresh, Stamp, stageVars, paramVars
  <2>4. QED
    BY <1>1, <2>1, <2>2, <2>3 DEF IInv
<1>3. CASE ~Admissible(m)
  BY <1>1, <1>3, QuietStep DEF streamVars
<1>4. QED
  BY <1>2, <1>3

LEMMA StutterIInv == ASSUME IInv, UNCHANGED vars PROVE IInv'
<1> USE DEF vars, callVars, streamVars, stageVars, paramVars
<1>1. TypeOK'
  BY DEF IInv, TypeOK
<1>2. PendingCut' /\ StampsBounded' /\ OwnSlice' /\ FilledIsLoaded'
      /\ ReadyWasFilled'
  BY DEF IInv, PendingCut, StampsBounded, OwnSlice, FilledIsLoaded,
         ReadyWasFilled, Stamp
<1>3. GroupsInv'
  BY DEF IInv, GroupsInv, Even, Fresh, Copying, Stamp
<1>4. QED
  BY <1>1, <1>2, <1>3 DEF IInv

LEMMA StepIInv == IInv /\ [Next]_vars => IInv'
<1> SUFFICES ASSUME IInv, [Next]_vars PROVE IInv'
  OBVIOUS
<1>1. CASE HearSome
  BY <1>1, HearIInv
<1>2. CASE OriginalReturns \/ Finish \/ Serve \/ Break \/ CallAgain
  BY <1>2, ReturnIInv, FinishIInv, ServeIInv, BreakIInv, CallAgainIInv
<1>3. CASE \E p \in Planes : CopyPlane(p)
  BY <1>3, CopyPlaneIInv
<1>4. CASE \E m \in Modules : Finalize(m)
  BY <1>4, FinalizeIInv
<1>5. CASE Ended \/ UNCHANGED vars
  BY <1>5, StutterIInv DEF Ended
<1>6. QED
  BY <1>1, <1>2, <1>3, <1>4, <1>5 DEF Next, Progress

------------------------------------------------------------------------------
(* The theorems. *)

\* The inductive invariant holds throughout every load.
THEOREM Invariance == Spec => []IInv
<1>1. Init => IInv
  BY InitIInv
<1>2. IInv /\ [Next]_vars => IInv'
  BY StepIInv
<1>3. QED
  BY <1>1, <1>2, PTL DEF Spec

\* Every variable of the load keeps its type.
THEOREM TypeCorrect == Spec => []TypeOK
<1>1. IInv => TypeOK
  BY DEF IInv
<1>2. QED
  BY <1>1, Invariance, PTL

\* No stream, of whatever order and content, and no number of calls, leaves a
\* composite module with planes of two different calls.
THEOREM GroupsAreAtomic == Spec => []GroupAtomic
<1>1. IInv => GroupAtomic
  <2> SUFFICES ASSUME IInv, phase \notin {"committing", "broken"},
                      NEW p \in Planes, NEW q \in Planes,
                      GroupOf[p] = GroupOf[q]
               PROVE  Stamp(p) = Stamp(q)
    BY DEF GroupAtomic
  <2>1. GroupOf[p] \in Groups /\ Even(GroupOf[p])
    BY LoadAssumption DEF IInv, GroupsInv
  <2>2. QED
    BY <2>1 DEF Even, PlanesOf
<1>2. QED
  BY <1>1, Invariance, PTL

\* A module past its post-load gate holds checkpoint bytes in every guarded
\* parameter.
THEOREM ReadyModulesAreFilled == Spec => []ReadyIsFilled
<1>1. IInv => ReadyIsFilled
  BY DEF IInv, ReadyWasFilled, FilledIsLoaded, ReadyIsFilled, GuardedBy,
         PlanesOf, Params, ExpertParams
<1>2. QED
  BY <1>1, Invariance, PTL

\* Every rank of every degree holds its own share of whatever is cut and the
\* whole of whatever is not, but for stacks that came already cut.
THEOREM RanksKeepTheirSlice == Spec => []OwnSlice
<1>1. IInv => OwnSlice
  BY DEF IInv
<1>2. QED
  BY <1>1, Invariance, PTL

\* Streaming a tensor writes no plane of a composite module.
LEMMA HearingKeepsPlanes ==
    ASSUME IInv, HearSome, NEW p \in Planes
    PROVE  content'[p] = content[p]
<1>1. content \in [Params -> Content] /\ p \in Params /\ p \notin ExpertParams
  BY LoadAssumption DEF IInv, TypeOK, Params
<1>2. PICK t \in Wire :
        \/ UNCHANGED content
        \/ t.to \in ExpertParams
           /\ \E x : content' = [content EXCEPT ![t.to] = x]
  BY DEF HearSome, StagePlane, RefusePlane, BeginCommit, TopLevelExpert,
         RefuseName, MixedHookExpert, StackedHookExpert, PassOver, Refuse,
         CopyExpert, paramVars
<1>3. QED
  BY <1>1, <1>2

\* Within one load_weights call no plane is written twice: a duplicate, under
\* either spelling, is refused before it reaches the parameter.
THEOREM PlanesAreCommittedOnce == Spec => CommittedOnce
<1> DEFINE Once == \A p \in Planes :
                      content'[p] # content[p] => Stamp(p) < calls
<1>1. IInv /\ [Next]_vars => Once
  <2> SUFFICES ASSUME IInv, [Next]_vars, NEW p \in Planes,
                      content'[p] # content[p]
               PROVE  Stamp(p) < calls
    OBVIOUS
  <2>1. CASE HearSome
    BY <2>1, HearingKeepsPlanes
  <2>2. CASE \E q \in Planes : CopyPlane(q)
    <3>1. PICK q \in Planes : CopyPlane(q)
      BY <2>2
    <3>2. content' = [content EXCEPT ![q] = content'[q]] /\ q \in tocopy
          /\ phase = "committing"
      BY <3>1 DEF CopyPlane, IInv, TypeOK, Params
    <3>3. p = q
      BY <3>2 DEF IInv, TypeOK, Params
    <3>4. QED
      BY <3>2, <3>3 DEF IInv, GroupsInv, Copying
  <2>3. CASE UNCHANGED content
    BY <2>3
  <2>4. QED
    BY <2>1, <2>2, <2>3
    DEF Next, Progress, OriginalReturns, Finish, Serve, Break, CallAgain,
        Finalize, Ended, vars, paramVars
<1>2. QED
  BY <1>1, Invariance, PTL DEF Spec, CommittedOnce

------------------------------------------------------------------------------
(* Activation scalars under the wrapper.  ScalesAgree is inductive over    *)
(* IInv: a scalar that holds a number is compared and never copied again,  *)
(* and one that holds NaN has had no number accepted yet.                  *)

\* A tensor for some other parameter leaves the scalars and what was heard
\* of them alone.
LEMMA ScalesUntouched ==
    ASSUME IInv, ScalesAgree, route' = route, phase # "refused",
           \A s \in InputScales : content'[s] = content[s],
           \A t \in ever' : t.to \in InputScales => t \in ever
    PROVE  ScalesAgree'
PROOF BY DEF ScalesAgree

\* A copy the wrapper accepts agrees with every copy accepted before.
LEMMA AcceptedCopyAgrees ==
    ASSUME IInv, ScalesAgree, NEW t \in Wire, TopLevelExpert(t),
           phase' # "refused"
    PROVE  ScalesAgree'
<1>1. /\ t.to \in ExpertParams /\ t.to \in Params
      /\ content \in [Params -> Content] /\ route = "wrapper"
      /\ phase # "refused" /\ ever' \subseteq ever \cup {t}
  BY DEF TopLevelExpert, Hear, IInv, TypeOK, Params
<1>2. Agree(t) /\ CopyExpert(t)
  BY DEF TopLevelExpert, Refuse
<1>3. \A p \in Params : p # t.to => content'[p] = content[p]
  BY <1>1, <1>2 DEF CopyExpert
<1>4. \A u \in ever : u.to \in InputScales => u.to \in Params
  BY DEF Params, ExpertParams
<1>5. CASE Held(t.to)
  <2>1. content'[t.to] = content[t.to] /\ content[t.to].val = t.val
    BY <1>1, <1>2, <1>5 DEF CopyExpert, Agree
  <2>2. QED
    BY <1>1, <1>3, <1>4, <2>1 DEF ScalesAgree
<1>6. CASE ~Held(t.to)
  <2>1. content'[t.to].val = t.val
    BY <1>1, <1>2, <1>6 DEF CopyExpert, Placed
  <2>2. \A u \in ever : u.to = t.to /\ u.to \in InputScales => u.val = NaN
    BY <1>1, <1>6 DEF ScalesAgree, Held
  <2>3. QED
    BY <1>1, <1>3, <1>4, <2>1, <2>2 DEF ScalesAgree
<1>7. QED
  BY <1>5, <1>6

LEMMA HearingKeepsScales ==
    ASSUME IInv, ScalesAgree, HearSome PROVE ScalesAgree'
<1>1. phase = "streaming" /\ route' = route
  BY DEF HearSome, StagePlane, RefusePlane, BeginCommit, TopLevelExpert,
         RefuseName, MixedHookExpert, StackedHookExpert, PassOver, Hear
<1>2. CASE route # "wrapper" \/ phase' = "refused"
  BY <1>1, <1>2 DEF ScalesAgree
<1>3. CASE route = "wrapper" /\ phase' # "refused"
  <2>1. PICK t \in Wire : StagePlane(t) \/ BeginCommit(t) \/ TopLevelExpert(t)
    BY <1>3 DEF HearSome, RefusePlane, RefuseName, MixedHookExpert,
                StackedHookExpert, PassOver, Refuse
  <2>2. CASE TopLevelExpert(t)
    BY <1>3, <2>2, AcceptedCopyAgrees
  <2>3. CASE StagePlane(t) \/ BeginCommit(t)
    <3>1. content' = content /\ t.to \in Planes /\ Hear(t)
      BY <2>3 DEF StagePlane, BeginCommit, LivePlanes, paramVars
    <3>2. ever' = ever
      BY <3>1, LoadAssumption DEF Hear, ExpertTensors
    <3>3. QED
      BY <1>1, <3>1, <3>2, ScalesUntouched
  <2>4. QED
    BY <2>1, <2>2, <2>3
<1>4. QED
  BY <1>2, <1>3

\* However often a checkpoint repeats an activation scale, and over however
\* many calls, the copies the wrapper accepts all carry the one value that is
\* attested and served.
THEOREM ScalesStayAgreed == Spec => []ScalesAgree
<1>1. Init => ScalesAgree
  BY DEF Init, ScalesAgree
<1>2. IInv /\ ScalesAgree /\ [Next]_vars => ScalesAgree'
  <2> SUFFICES ASSUME IInv, ScalesAgree, [Next]_vars PROVE ScalesAgree'
    OBVIOUS
  <2>1. CASE HearSome
    BY <2>1, HearingKeepsScales
  <2>2. CASE \E q \in Planes : CopyPlane(q)
    <3>1. PICK q \in Planes : CopyPlane(q)
      BY <2>2
    <3>2. /\ content \in [Params -> Content] /\ q \in Params
          /\ q \notin InputScales
          /\ \A s \in InputScales : s \in Params
      BY LoadAssumption DEF IInv, TypeOK, Params, ExpertParams
    <3>3. /\ phase = "committing" /\ route' = route /\ ever' = ever
          /\ content' = [content EXCEPT ![q] = content'[q]]
      BY <3>1, <3>2 DEF CopyPlane, streamVars
    <3>4. \A s \in InputScales : content'[s] = content[s]
      BY <3>2, <3>3
    <3>5. QED
      BY <3>3, <3>4, ScalesUntouched
  <2>3. CASE OriginalReturns \/ Finish \/ Serve \/ Break \/ CallAgain
             \/ \E m \in Modules : Finalize(m)
    <3>1. phase # "refused" /\ UNCHANGED <<route, ever, content>>
      BY <2>3 DEF OriginalReturns, Finish, Serve, Break, CallAgain, Finalize,
                  streamVars, paramVars
    <3>2. QED
      BY <3>1, ScalesUntouched
  <2>4. CASE Ended \/ UNCHANGED vars
    BY <2>4 DEF Ended, vars, callVars, streamVars, paramVars, ScalesAgree
  <2>5. QED
    BY <2>1, <2>2, <2>3, <2>4 DEF Next, Progress
<1>3. QED
  BY <1>1, <1>2, Invariance, PTL DEF Spec

------------------------------------------------------------------------------
(* Why Gridbook refuses.  The transactions remember of the stream exactly  *)
(* what a refusal needs: what is staged or committed was heard, and what   *)
(* was heard for a composite module is staged or committed.                *)

WasHeard(p) == \E u \in heard : u.to = p

StagedHeard ==
    \A p \in Planes : pending[p] # NoTensor =>
        \E u \in heard : u.to = p /\ u.dtype = pending[p].dtype

CommittedHeard ==
    \A g \in committed[1] :
        g \in Live /\ \A p \in PlanesOf(g) : WasHeard(p) /\ filled[p]

CopyingHeard ==
    /\ phase # "committing" => tocopy = {}
    /\ \A p \in tocopy : /\ GroupOf[p] \in Live
                         /\ \A q \in PlanesOf(GroupOf[p]) :
                                WasHeard(q) /\ (q \in tocopy \/ filled[q])

\* A module that is neither committed nor being copied lacks a plane.
LeftOpen ==
    \A g \in Live \ committed[1] :
        tocopy \cap PlanesOf(g) = {} => \E p \in PlanesOf(g) : pending[p] = NoTensor

NoneDropped ==
    \A t \in heard : t.to \in LivePlanes =>
        pending[t.to] # NoTensor \/ GroupOf[t.to] \in committed[1]

PlanesHeard == StagedHeard /\ CommittedHeard /\ CopyingHeard /\ LeftOpen /\ NoneDropped

\* An expert tensor that was heard is held, a scalar with a value it came with.
ExpertsHeard ==
    route # "none" =>
        /\ \A t \in ever : t.to \in Stacks => filled[t.to]
        /\ \A s \in InputScales :
              \/ Unheard(s) /\ content[s].val = NaN
              \/ \E u \in ever : u.to = s /\ u.val = content[s].val

\* One wrapped load_weights that returned has committed every module.
ReturnedWhole == Depth = 1 /\ phase = "returned" => committed[1] = Live

Going == phase \notin {"refused", "broken"}

HeardInv ==
    /\ \A m \in Modules : status[m] = "constructed" => m \in Live \cup Layers
    /\ Going => PlanesHeard /\ ExpertsHeard /\ ReturnedWhole

LEMMA InitHeardInv == Init => HeardInv
<1> SUFFICES ASSUME Init PROVE HeardInv
  OBVIOUS
<1> USE LoadAssumption
<1>1. StagedHeard /\ CommittedHeard /\ CopyingHeard /\ NoneDropped /\ ReturnedWhole
  BY DEF Init, StagedHeard, CommittedHeard, CopyingHeard, NoneDropped, ReturnedWhole
<1>2. LeftOpen
  BY DEF Init, LeftOpen, Live, PlanesOf
<1>3. ExpertsHeard
  BY DEF Init, ExpertsHeard, Unheard, Params, ExpertParams
<1>4. \A m \in Modules : status[m] = "constructed" => m \in Live \cup Layers
  BY DEF Init
<1> QED BY <1>1, <1>2, <1>3, <1>4 DEF HeardInv, PlanesHeard

\* Hearing only adds to what was heard.
LEMMA HearingAdds ==
    ASSUME NEW t \in Wire, Hear(t)
    PROVE  /\ heard' = heard \cup {t} /\ heard \subseteq heard' /\ t \notin heard
           /\ ever' = ever \cup ({t} \cap ExpertTensors) /\ ever \subseteq ever'
           /\ Live' = Live /\ LivePlanes' = LivePlanes
           /\ \A g : PlanesOf(g)' = PlanesOf(g)
           /\ phase = "streaming" /\ route' = route
BY DEF Hear, Live, LivePlanes, PlanesOf

\* Refusing or failing asks nothing more of the transactions.
LEMMA StoppingHeard ==
    ASSUME HeardInv, phase' \in {"refused", "broken"}, status' = status, route' = route
    PROVE  HeardInv'
BY DEF HeardInv, Going, Live

\* A step of the stream that touches no plane: the tensor is none of a
\* composite module's.
LEMMA PlanesKeepHeard ==
    ASSUME HeardInv, Going, NEW t \in Wire, Hear(t), t.to \notin LivePlanes,
           UNCHANGED <<phase, stageVars>>,
           \A p \in Planes : filled'[p] = filled[p]
    PROVE  PlanesHeard'
<1>0. PlanesHeard
  BY DEF HeardInv
<1>1. StagedHeard'
  BY <1>0, HearingAdds DEF PlanesHeard, StagedHeard, stageVars
<1>2. CommittedHeard' /\ CopyingHeard'
  BY <1>0, HearingAdds DEF PlanesHeard, CommittedHeard, CopyingHeard, WasHeard, PlanesOf, stageVars
<1>3. LeftOpen' /\ NoneDropped'
  BY <1>0, HearingAdds DEF PlanesHeard, LeftOpen, NoneDropped, stageVars
<1> QED BY <1>1, <1>2, <1>3 DEF PlanesHeard

\* stage() keeps the tensor beside those of its module.
LEMMA StagingHeard ==
    ASSUME IInv, HeardInv, NEW t \in Wire, Hear(t), t.to \in LivePlanes,
           ~StageRefused(t), Keep(t), committed' = committed, filled' = filled
    PROVE  /\ StagedHeard' /\ CommittedHeard' /\ NoneDropped'
           /\ \A g \in Live \ committed[1] : g # GroupOf[t.to]
                 => \E p \in PlanesOf(g) : pending'[p] = NoTensor
<1> DEFINE kept == [t EXCEPT !.part = Narrow(t.to, t)]
<1>1. t.to \in Planes /\ phase = "streaming"
  BY DEF LivePlanes, Hear
<1>2. PlanesHeard /\ tocopy = {}
  BY <1>1 DEF HeardInv, Going, PlanesHeard, CopyingHeard
<1>3. /\ pending'[t.to] # NoTensor
      /\ \A p \in Planes : p # t.to => pending'[p] = pending[p]
  BY <1>1, KeepType
<1>4. kept.dtype = t.dtype
  BY WireIsReal DEF Tensor
<1>5. pending'[t.to] = kept
  BY <1>1 DEF Keep, IInv, TypeOK
<1> HIDE DEF kept
<1>6. StagedHeard'
  BY <1>1, <1>2, <1>3, <1>4, <1>5, HearingAdds DEF PlanesHeard, StagedHeard
<1>7. CommittedHeard'
  BY <1>2, HearingAdds DEF PlanesHeard, CommittedHeard, WasHeard
<1>8. NoneDropped'
  BY <1>2, <1>3, HearingAdds DEF PlanesHeard, NoneDropped, LivePlanes
<1>9. \A g \in Live \ committed[1] : g # GroupOf[t.to]
          => \E p \in PlanesOf(g) : pending'[p] = NoTensor
  BY <1>2, <1>3 DEF PlanesHeard, LeftOpen, PlanesOf
<1> QED BY <1>6, <1>7, <1>8, <1>9

LEMMA StagePlaneHeard ==
    ASSUME IInv, HeardInv, NEW t \in Wire, StagePlane(t)
    PROVE  PlanesHeard'
<1>1. /\ Hear(t) /\ t.to \in LivePlanes /\ ~StageRefused(t) /\ ~Completes(t) /\ Keep(t)
      /\ phase' = phase /\ committed' = committed /\ tocopy' = tocopy /\ filled' = filled
  BY DEF StagePlane, paramVars
<1>2. t.to \in Planes /\ phase = "streaming" /\ tocopy = {}
  BY <1>1 DEF LivePlanes, Hear, HeardInv, Going, PlanesHeard, CopyingHeard
<1>3. PICK p \in PlanesOf(GroupOf[t.to]) : p # t.to /\ pending[p] = NoTensor
  BY <1>1 DEF Completes
<1>4. pending'[p] = NoTensor
  BY <1>1, <1>2, <1>3, KeepType DEF PlanesOf
<1>5. LeftOpen'
  BY <1>1, <1>3, <1>4, StagingHeard, HearingAdds DEF LeftOpen
<1>6. CopyingHeard'
  BY <1>1, <1>2 DEF CopyingHeard
<1> QED BY <1>1, <1>5, <1>6, StagingHeard DEF PlanesHeard

LEMMA BeginCommitHeard ==
    ASSUME IInv, HeardInv, NEW t \in Wire, BeginCommit(t)
    PROVE  PlanesHeard'
<1> DEFINE g == GroupOf[t.to]
<1>1. /\ Hear(t) /\ t.to \in LivePlanes /\ ~StageRefused(t) /\ Completes(t) /\ Keep(t)
      /\ phase' = "committing" /\ committed' = committed /\ filled' = filled
      /\ tocopy' = PlanesOf(g)
  BY DEF BeginCommit, paramVars, CommitSet
<1>2. /\ t.to \in PlanesOf(g) /\ g \in Live /\ StagedHeard
  BY <1>1 DEF LivePlanes, PlanesOf, Hear, HeardInv, Going, PlanesHeard
<1>3. \A p \in PlanesOf(g) : \E u \in heard' : u.to = p
  BY <1>1, <1>2, HearingAdds DEF Completes, StagedHeard, PlanesOf
<1>4. CopyingHeard'
  BY <1>1, <1>2, <1>3, HearingAdds DEF CopyingHeard, WasHeard, PlanesOf
<1>5. LeftOpen'
  BY <1>1, <1>2, StagingHeard, HearingAdds DEF LeftOpen
<1> QED BY <1>1, <1>4, <1>5, StagingHeard DEF PlanesHeard

\* The last turn of the copy loop commits a module whose planes were all heard
\* and are all filled.
LEMMA CopyPlaneHeard ==
    ASSUME IInv, HeardInv, NEW p \in Planes, CopyPlane(p)
    PROVE  PlanesHeard'
<1> DEFINE g == GroupOf[p]
<1>1. /\ phase = "committing" /\ p \in tocopy /\ tocopy' = tocopy \ {p}
      /\ heard' = heard /\ route' = route
      /\ filled' = [filled EXCEPT ![p] = TRUE]
  BY DEF CopyPlane, streamVars
<1>2. PlanesHeard
  BY <1>1 DEF HeardInv, Going
<1>3. PICK h \in Groups : Copying(h)
  BY <1>1 DEF IInv, GroupsInv
<1>4. /\ h = g /\ tocopy \subseteq PlanesOf(g) /\ g \in Groups /\ g \notin committed[1]
      /\ p \in PlanesOf(g)
  BY <1>1, <1>3 DEF Copying, PlanesOf
<1>5. /\ filled'[p] /\ \A q \in Planes : q # p => filled'[q] = filled[q]
      /\ \A q \in Planes : filled[q] => filled'[q]
  BY <1>1 DEF IInv, TypeOK, Params
<1>6. Live' = Live /\ LivePlanes' = LivePlanes /\ \A x : PlanesOf(x)' = PlanesOf(x)
  BY <1>1 DEF Live, LivePlanes, PlanesOf
<1>7. g \in Live /\ \A q \in PlanesOf(g) : WasHeard(q) /\ (q \in tocopy \/ filled[q])
  BY <1>1, <1>2 DEF PlanesHeard, CopyingHeard
<1>8. \A x, y : x # y => PlanesOf(x) \cap PlanesOf(y) = {}
  BY DEF PlanesOf
<1>9. CASE tocopy = {p}
  <2>1. /\ phase' = "streaming" /\ tocopy' = {}
        /\ committed' = [committed EXCEPT ![1] = @ \cup {g}]
        /\ pending' = [q \in Planes |-> IF GroupOf[q] = g THEN NoTensor ELSE pending[q]]
    BY <1>1, <1>9 DEF CopyPlane
  <2>2. committed'[1] = committed[1] \cup {g}
    BY <2>1, LoadAssumption DEF IInv, TypeOK
  <2>3. StagedHeard'
    BY <1>1, <1>2, <2>1 DEF PlanesHeard, StagedHeard
  <2>4. \A q \in PlanesOf(g) : WasHeard(q)' /\ filled'[q]
    BY <1>1, <1>5, <1>7, <1>9 DEF WasHeard, PlanesOf
  <2>5. CommittedHeard'
    <3>1. \A x \in committed[1] : x \in Live /\ \A q \in PlanesOf(x) : WasHeard(q)' /\ filled'[q]
      BY <1>1, <1>2, <1>5 DEF PlanesHeard, CommittedHeard, WasHeard, PlanesOf
    <3> QED BY <1>6, <1>7, <2>2, <2>4, <3>1 DEF CommittedHeard
  <2>6. CopyingHeard'
    BY <2>1 DEF CopyingHeard
  <2>7. LeftOpen'
    <3>1. ASSUME NEW x \in Live \ committed'[1]
          PROVE  \E q \in PlanesOf(x) : pending'[q] = NoTensor
      <4>1. x \in Live \ committed[1] /\ x # g
        BY <2>2
      <4>2. tocopy \cap PlanesOf(x) = {}
        BY <1>4, <1>8, <4>1
      <4>3. PICK q \in PlanesOf(x) : pending[q] = NoTensor
        BY <1>2, <4>1, <4>2 DEF PlanesHeard, LeftOpen
      <4> QED BY <2>1, <4>3 DEF PlanesOf
    <3> QED BY <1>6, <3>1 DEF LeftOpen
  <2>8. NoneDropped'
    <3>1. ASSUME NEW t \in heard, t.to \in LivePlanes
          PROVE  pending'[t.to] # NoTensor \/ GroupOf[t.to] \in committed'[1]
      <4>1. pending[t.to] # NoTensor \/ GroupOf[t.to] \in committed[1]
        BY <1>2, <3>1 DEF PlanesHeard, NoneDropped
      <4> QED BY <2>1, <2>2, <3>1, <4>1 DEF LivePlanes
    <3> QED BY <1>1, <1>6, <3>1 DEF NoneDropped
  <2> QED BY <2>3, <2>5, <2>6, <2>7, <2>8 DEF PlanesHeard
<1>10. CASE tocopy # {p}
  <2>1. phase' = "committing" /\ committed' = committed /\ pending' = pending
    BY <1>1, <1>10 DEF CopyPlane
  <2>2. StagedHeard' /\ NoneDropped'
    BY <1>1, <1>2, <1>6, <2>1 DEF PlanesHeard, StagedHeard, NoneDropped
  <2>3. CommittedHeard'
    BY <1>1, <1>2, <1>5, <1>6, <2>1 DEF PlanesHeard, CommittedHeard, WasHeard, PlanesOf
  <2>4. CopyingHeard'
    <3>1. ASSUME NEW q \in tocopy'
          PROVE  /\ GroupOf[q] \in Live
                 /\ \A x \in PlanesOf(GroupOf[q]) : WasHeard(x)' /\ (x \in tocopy' \/ filled'[x])
      <4>1. GroupOf[q] = g
        BY <1>1, <1>4, <3>1 DEF PlanesOf
      <4> QED BY <1>1, <1>5, <1>7, <4>1 DEF WasHeard, PlanesOf
    <3> QED BY <1>6, <2>1, <3>1 DEF CopyingHeard
  <2>5. tocopy' # {}
    BY <1>1, <1>10
  <2>6. LeftOpen'
    <3>1. ASSUME NEW x \in Live \ committed[1], tocopy' \cap PlanesOf(x) = {}
          PROVE  \E q \in PlanesOf(x) : pending[q] = NoTensor
      <4>1. x # g
        BY <1>1, <1>4, <2>5, <3>1
      <4>2. tocopy \cap PlanesOf(x) = {}
        BY <1>4, <1>8, <4>1
      <4> QED BY <1>2, <3>1, <4>2 DEF PlanesHeard, LeftOpen
    <3> QED BY <1>6, <2>1, <3>1 DEF LeftOpen
  <2> QED BY <2>2, <2>3, <2>4, <2>6 DEF PlanesHeard
<1> QED BY <1>9, <1>10

\* Storing an expert tensor, or finding the scalar it repeats there already.
LEMMA ExpertStored ==
    ASSUME IInv, HeardInv, Going, NEW t \in Wire, Hear(t), t.to \in ExpertParams,
           \/ content' = [content EXCEPT ![t.to] = Placed(t.to, t)]
           \/ content' = content /\ Held(t.to),
           filled' = [filled EXCEPT ![t.to] = @ \/ t.to \in Stacks]
    PROVE  ExpertsHeard' /\ \A p \in Planes : filled'[p] = filled[p]
<1>1. t.to \in Params /\ t.to \notin Planes /\ t \in ever'
      /\ ever' = ever \cup {t} /\ route' = route
  BY LoadAssumption DEF Params, Hear, ExpertTensors
<1>2. content \in [Params -> Content] /\ filled \in [Params -> BOOLEAN]
  BY DEF IInv, TypeOK
<1>3. /\ \A q \in Params : q # t.to => content'[q] = content[q] /\ filled'[q] = filled[q]
      /\ \A q \in Params : filled[q] => filled'[q]
      /\ t.to \in Stacks => filled'[t.to]
  BY <1>1, <1>2
<1>4. \/ content'[t.to] = Placed(t.to, t)
      \/ content'[t.to] = content[t.to] /\ Held(t.to)
  BY <1>1, <1>2
<1>5. ASSUME route # "none" PROVE \A u \in ever' : u.to \in Stacks => filled'[u.to]
  BY <1>1, <1>3, <1>5 DEF HeardInv, ExpertsHeard, Params, ExpertParams
<1>6. ASSUME route # "none", NEW s \in InputScales
      PROVE  \/ Unheard(s)' /\ content'[s].val = NaN
             \/ \E u \in ever' : u.to = s /\ u.val = content'[s].val
  <2>1. s \in Params /\ (\/ Unheard(s) /\ content[s].val = NaN
                         \/ \E u \in ever : u.to = s /\ u.val = content[s].val)
    BY <1>6 DEF HeardInv, ExpertsHeard, Params, ExpertParams
  <2>2. CASE s # t.to
    BY <1>1, <1>3, <2>1, <2>2 DEF Unheard
  <2>3. CASE s = t.to /\ content'[s] = Placed(t.to, t)
    BY <1>1, <2>3 DEF Placed
  <2>4. CASE s = t.to /\ content'[s] = content[s] /\ Held(s)
    BY <1>1, <2>1, <2>4 DEF Held
  <2> QED BY <1>4, <2>2, <2>3, <2>4
<1>7. ExpertsHeard'
  BY <1>1, <1>5, <1>6 DEF ExpertsHeard
<1> QED BY <1>1, <1>3, <1>7 DEF Params

LEMMA CopyExpertHeard ==
    ASSUME IInv, HeardInv, Going, NEW t \in Wire, Hear(t), t.to \in ExpertParams,
           filled' = [filled EXCEPT ![t.to] = @ \/ t.to \in Stacks],
           \/ content' = [content EXCEPT ![t.to] = Placed(t.to, t)]
           \/ content' = content /\ Held(t.to),
           UNCHANGED <<phase, stageVars, status>>
    PROVE  HeardInv'
<1>1. t.to \notin LivePlanes
  BY LoadAssumption DEF LivePlanes
<1>2. ExpertsHeard' /\ PlanesHeard'
  BY <1>1, ExpertStored, PlanesKeepHeard
<1>3. phase = "streaming" /\ phase' = phase /\ status' = status /\ Live' = Live
  BY HearingAdds
<1> QED BY <1>2, <1>3 DEF HeardInv, ReturnedWhole

LEMMA HearKeepsHeard == ASSUME IInv, HeardInv, HearSome PROVE HeardInv'
<1>1. PICK t \in Wire :
        \/ StagePlane(t) \/ RefusePlane(t) \/ BeginCommit(t)
        \/ TopLevelExpert(t) \/ RefuseName(t)
        \/ MixedHookExpert(t) \/ StackedHookExpert(t) \/ PassOver(t)
  BY DEF HearSome
<1>2. Hear(t)
  BY <1>1 DEF StagePlane, RefusePlane, BeginCommit, TopLevelExpert, RefuseName,
              MixedHookExpert, StackedHookExpert, PassOver
<1>3. /\ phase = "streaming" /\ Going /\ route' = route /\ Live' = Live
      /\ PlanesHeard /\ ExpertsHeard
  BY <1>2, HearingAdds DEF Going, HeardInv
<1>4. CASE phase' = "refused" /\ status' = status
  BY <1>3, <1>4, StoppingHeard
<1>5. CASE StagePlane(t) \/ BeginCommit(t)
  <2>1. status' = status /\ content' = content /\ filled' = filled
        /\ phase' \in {"streaming", "committing"} /\ t.to \in Planes
    BY <1>3, <1>5 DEF StagePlane, BeginCommit, paramVars, LivePlanes
  <2>2. ever' = ever
    BY <1>2, <2>1, LoadAssumption DEF Hear, ExpertTensors
  <2>3. ExpertsHeard'
    BY <1>3, <2>1, <2>2 DEF ExpertsHeard, Unheard
  <2>4. PlanesHeard'
    BY <1>5, StagePlaneHeard, BeginCommitHeard
  <2> QED BY <1>3, <2>1, <2>3, <2>4 DEF HeardInv, ReturnedWhole
<1>6. CASE TopLevelExpert(t) \/ MixedHookExpert(t)
  <2>1. t.to \in ExpertParams /\ (Refuse \/ CopyExpert(t))
    BY <1>6 DEF TopLevelExpert, MixedHookExpert
  <2>2. CASE CopyExpert(t)
    <3>1. \/ content' = [content EXCEPT ![t.to] = Placed(t.to, t)]
          \/ content' = content /\ Held(t.to)
      <4>1. content \in [Params -> Content] /\ t.to \in Params
        BY <2>1 DEF IInv, TypeOK, Params
      <4> QED BY <2>2, <4>1 DEF CopyExpert
    <3> QED BY <1>2, <1>3, <2>1, <2>2, <3>1, CopyExpertHeard DEF CopyExpert
  <2> QED BY <1>4, <2>1, <2>2 DEF Refuse
<1>7. CASE StackedHookExpert(t)
  <2>1. t.to \in ExpertParams
    BY <1>7 DEF StackedHookExpert
  <2>2. CASE Loads(t)
    BY <1>2, <1>3, <1>7, <2>1, <2>2, CopyExpertHeard DEF StackedHookExpert
  <2> QED BY <1>4, <1>7, <2>2 DEF StackedHookExpert, Refuse
<1>8. CASE PassOver(t)
  <2>1. /\ UNCHANGED <<phase, stageVars, paramVars, status>>
        /\ \/ route # "wrapper" /\ t.to \in {"orphan", "ambiguous"}
           \/ route = "none" /\ t.to \in ExpertParams
    BY <1>8 DEF PassOver
  <2>2. t.to \notin LivePlanes
    BY <2>1, LoadAssumption DEF LivePlanes, Params
  <2>3. PlanesHeard'
    BY <1>2, <1>3, <2>1, <2>2, PlanesKeepHeard DEF paramVars
  <2>4. ExpertsHeard'
    <3>1. route # "none" => ever' = ever
      BY <1>2, <2>1, LoadAssumption DEF Hear, ExpertTensors, Params
    <3> QED BY <1>3, <2>1, <3>1 DEF ExpertsHeard, Unheard, paramVars
  <2> QED BY <1>3, <2>1, <2>3, <2>4 DEF HeardInv, ReturnedWhole
<1> QED
  BY <1>1, <1>4, <1>5, <1>6, <1>7, <1>8 DEF RefusePlane, RefuseName, Refuse

\* The steps that change neither the stream nor what was stored.
LEMMA QuietHeard ==
    ASSUME HeardInv, UNCHANGED <<route, heard, ever, stageVars, paramVars>>,
           Going' => \/ phase \notin {"refused", "broken", "committing"} /\ phase' # "committing"
                     \/ phase' = phase,
           ReturnedWhole',
           \A m \in Modules : status'[m] = "constructed" => status[m] = "constructed"
    PROVE  HeardInv'
<1>1. Live' = Live /\ LivePlanes' = LivePlanes /\ \A g : PlanesOf(g)' = PlanesOf(g)
  BY DEF Live, LivePlanes, PlanesOf
<1>2. ASSUME Going' PROVE PlanesHeard' /\ ExpertsHeard'
  <2>1. PlanesHeard /\ ExpertsHeard
    BY <1>2 DEF HeardInv, Going
  <2>2. StagedHeard' /\ CommittedHeard' /\ LeftOpen' /\ NoneDropped'
    BY <1>1, <2>1 DEF PlanesHeard, StagedHeard, CommittedHeard, WasHeard,
                      LeftOpen, NoneDropped, stageVars, paramVars
  <2>3. CopyingHeard'
    BY <1>1, <1>2, <2>1 DEF PlanesHeard, CopyingHeard, WasHeard, stageVars, paramVars
  <2>4. ExpertsHeard'
    BY <2>1 DEF ExpertsHeard, Unheard, paramVars
  <2> QED BY <2>2, <2>3, <2>4 DEF PlanesHeard
<1> QED BY <1>1, <1>2 DEF HeardInv

LEMMA FinishKeepsHeard == ASSUME IInv, HeardInv, Finish PROVE HeardInv'
<1>1. Depth = 1 => level = 1
  BY DEF IInv, TypeOK, Finish
<1>2. ReturnedWhole'
  BY <1>1, LoadAssumption DEF Finish, ReturnedWhole, Live, stageVars
<1> QED
  BY <1>2, QuietHeard DEF Finish, Going, streamVars

LEMMA CopyKeepsHeard ==
    ASSUME IInv, HeardInv, NEW p \in Planes, CopyPlane(p) PROVE HeardInv'
<1>1. /\ phase = "committing" /\ phase' \in {"streaming", "committing"}
      /\ route' = route /\ ever' = ever /\ status' = status
      /\ content' = [content EXCEPT ![p] = [val |-> pending[p].val,
                                            part |-> pending[p].part, call |-> calls]]
      /\ filled' = [filled EXCEPT ![p] = TRUE]
  BY DEF CopyPlane, streamVars
<1>2. ExpertsHeard
  BY <1>1 DEF HeardInv, Going
<1>3. \A q \in ExpertParams : content'[q] = content[q] /\ filled'[q] = filled[q]
  <2>1. content \in [Params -> Content] /\ filled \in [Params -> BOOLEAN]
    BY DEF IInv, TypeOK
  <2>2. \A q \in ExpertParams : q \in Params /\ q # p
    BY LoadAssumption DEF Params
  <2> QED BY <1>1, <2>1, <2>2
<1>4. ExpertsHeard'
  <2>1. \A q \in Stacks : filled'[q] = filled[q]
    BY <1>3 DEF ExpertParams
  <2>2. \A q \in InputScales : content'[q] = content[q] /\ Unheard(q)' = Unheard(q)
    BY <1>1, <1>3 DEF ExpertParams, Unheard
  <2> QED BY <1>1, <1>2, <2>1, <2>2 DEF ExpertsHeard
<1> QED
  BY <1>1, <1>4, CopyPlaneHeard DEF HeardInv, ReturnedWhole, Live

\* A new call starts to hear, and has nothing staged.
LEMMA CallAgainKeepsHeard == ASSUME IInv, HeardInv, CallAgain PROVE HeardInv'
<1>1. /\ phase = "returned" /\ phase' = "streaming" /\ heard' = {} /\ ever' = ever
      /\ pending' = [p \in Planes |-> NoTensor] /\ committed'[1] = {}
      /\ tocopy' = tocopy /\ route' = route /\ status' = status
      /\ content' = content /\ filled' = filled
  BY LoadAssumption DEF CallAgain, paramVars
<1>2. PlanesHeard /\ ExpertsHeard /\ tocopy = {}
  BY <1>1 DEF HeardInv, Going, PlanesHeard, CopyingHeard
<1>3. StagedHeard' /\ CommittedHeard' /\ CopyingHeard' /\ NoneDropped'
  BY <1>1, <1>2 DEF StagedHeard, CommittedHeard, CopyingHeard, NoneDropped
<1>4. LeftOpen'
  BY <1>1, LoadAssumption DEF LeftOpen, Live, PlanesOf
<1>5. ExpertsHeard'
  BY <1>1, <1>2 DEF ExpertsHeard, Unheard
<1> QED
  BY <1>1, <1>3, <1>4, <1>5 DEF HeardInv, PlanesHeard, ReturnedWhole, Live

LEMMA FinalizeKeepsHeard ==
    ASSUME IInv, HeardInv, NEW m \in Modules, Finalize(m) PROVE HeardInv'
<1>1. /\ phase = "returned" /\ UNCHANGED <<route, heard, ever, stageVars, paramVars>>
      /\ \/ status' = [status EXCEPT ![m] = "ready"] /\ phase' = phase
         \/ status' = status /\ phase' = "refused"
  BY DEF Finalize, streamVars
<1>2. \A x \in Modules : status'[x] = "constructed" => status[x] = "constructed"
  BY <1>1 DEF IInv, TypeOK
<1>3. ReturnedWhole'
  BY <1>1 DEF HeardInv, Going, ReturnedWhole, Live, stageVars
<1> QED BY <1>1, <1>2, <1>3, QuietHeard DEF Going

LEMMA StepHeardInv == IInv /\ HeardInv /\ [Next]_vars => HeardInv'
<1> SUFFICES ASSUME IInv, HeardInv, [Next]_vars PROVE HeardInv'
  OBVIOUS
<1>1. CASE HearSome
  BY <1>1, HearKeepsHeard
<1>2. CASE Break
  BY <1>2, StoppingHeard DEF Break
<1>3. CASE OriginalReturns
  BY <1>3, QuietHeard DEF OriginalReturns, ReturnedWhole, streamVars
<1>4. CASE Serve
  BY <1>4, QuietHeard DEF Serve, ReturnedWhole, streamVars
<1>5. CASE UNCHANGED vars \/ Ended
  <2>1. ReturnedWhole' \/ ~Going
    BY <1>5 DEF HeardInv, ReturnedWhole, Live, Ended, vars, callVars, stageVars
  <2>2. CASE Going
    BY <1>5, <2>1, <2>2, QuietHeard
    DEF Ended, vars, callVars, streamVars
  <2>3. CASE ~Going
    BY <1>5, <2>3, StoppingHeard DEF Going, Ended, vars, callVars
  <2> QED BY <2>2, <2>3
<1>6. CASE Finish \/ CallAgain
  BY <1>6, FinishKeepsHeard, CallAgainKeepsHeard
<1>7. CASE (\E p \in Planes : CopyPlane(p)) \/ \E m \in Modules : Finalize(m)
  BY <1>7, CopyKeepsHeard, FinalizeKeepsHeard
<1> QED
  BY <1>1, <1>2, <1>3, <1>4, <1>5, <1>6, <1>7 DEF Next, Progress

\* A second spelling of a plane was heard already.
LEMMA RefusedPlaneFaults ==
    ASSUME IInv, HeardInv, NEW t \in Wire, RefusePlane(t)
    PROVE  StreamFault'
<1>1. Hear(t) /\ t.to \in LivePlanes /\ (StageRefused(t) \/ (Completes(t) /\ ~DtypesOK(t)))
  BY DEF RefusePlane
<1>2. /\ t.to \in Planes /\ t \in heard' /\ heard \subseteq heard' /\ t \notin heard
      /\ StagedHeard /\ CommittedHeard
  BY <1>1, HearingAdds DEF LivePlanes, HeardInv, Going, PlanesHeard
<1>3. CASE WasHeard(t.to)
  BY <1>2, <1>3 DEF WasHeard, StreamFault, Respelled
<1>4. CASE ~Fits(t.to, Narrow(t.to, t))
  <2>1. t.part \in Parts /\ t.to \in Planes
    BY <1>2, LoadAssumption DEF Tensor
  <2>2. t.part # Whole
    BY <1>4, <2>1, LoadAssumption, PartsAre
    DEF Fits, Narrow, Sharded, ExpertParams, Whole, Share
  <2>3. Malformed(t)
    BY <2>1, <2>2, LoadAssumption DEF Malformed
  <2> QED BY <1>2, <2>3 DEF StreamFault, Malformed
<1>5. CASE StageRefused(t)
  BY <1>2, <1>3, <1>4, <1>5 DEF StageRefused, CommittedHeard, StagedHeard, WasHeard, PlanesOf
<1>6. CASE Completes(t) /\ ~DtypesOK(t)
  <2>1. PICK p \in PlanesOf(GroupOf[t.to]) :
           (IF p = t.to THEN t ELSE pending[p]).dtype \notin {"same", "raw"}
    BY <1>6 DEF DtypesOK
  <2>2. PICK u \in heard' : u.to = p /\ u.dtype \notin {"same", "raw"}
    BY <1>2, <1>6, <2>1 DEF Completes, StagedHeard, PlanesOf
  <2>3. u \in Tensor
    BY <1>1, <2>2, LoadAssumption, HearingAdds DEF IInv, TypeOK
  <2>4. u.dtype = "other" /\ u.to \in Planes
    BY <2>1, <2>2, <2>3 DEF Tensor, PlanesOf
  <2> QED BY <2>2, <2>4 DEF StreamFault, Malformed
<1> QED BY <1>1, <1>5, <1>6

\* An expert tensor is turned away for its extent, or because another copy of
\* the scalar says otherwise.
LEMMA RefusedExpertFaults ==
    ASSUME IInv, HeardInv, NEW t \in Wire, Hear(t), t.to \in ExpertParams,
           route # "none", ~Loads(t) \/ ~Agree(t)
    PROVE  StreamFault'
<1>1. t \in heard' /\ t \in ever' /\ ever \subseteq ever' /\ ExpertsHeard
  BY HearingAdds DEF HeardInv, Going, ExpertTensors
<1>2. CASE ~Loads(t)
  <2>1. t.part \in Parts
    BY LoadAssumption DEF Tensor
  <2>2. t.part = Bad \/ (t.part # Whole /\ ~Sharded(t.to))
    <3>1. CASE Sharded(t.to)
      BY <1>2, <2>1, <3>1, LoadAssumption DEF Loads, Fits, Gather, Parts, Cut, Whole, Share
    <3>2. CASE ~Sharded(t.to)
      BY <1>2, <3>2 DEF Loads, Fits, Gather, Whole, Share
    <3> QED BY <3>1, <3>2
  <2>3. Malformed(t)
    BY <2>2 DEF Malformed
  <2> QED BY <1>1, <2>3 DEF StreamFault, Malformed
<1>3. CASE ~Agree(t)
  <2>1. t.to \in InputScales /\ content[t.to].val # NaN /\ t.val # content[t.to].val
    BY <1>3 DEF Agree, Held
  <2>2. PICK u \in ever : u.to = t.to /\ u.val = content[t.to].val
    BY <1>1, <2>1 DEF ExpertsHeard
  <2>3. Contradicts'
    BY <1>1, <2>1, <2>2 DEF Contradicts
  <2> QED BY <2>3 DEF StreamFault
<1> QED BY <1>2, <1>3

\* What is missing when finish() refuses: no tensor came for some plane.
LEMMA RefusedFinishMisses ==
    ASSUME IInv, HeardInv, Depth = 1, Finish, phase' = "refused"
    PROVE  MissingPlane
<1>1. level = 1 /\ phase = "finishing" /\ committed[1] # Live /\ PlanesHeard
  BY DEF Finish, IInv, TypeOK, HeardInv, Going
<1>2. committed[1] \subseteq Live /\ tocopy = {}
  BY <1>1 DEF PlanesHeard, CommittedHeard, CopyingHeard
<1>3. PICK g \in Live \ committed[1] : TRUE
  BY <1>1, <1>2
<1>4. PICK p \in PlanesOf(g) : pending[p] = NoTensor
  BY <1>1, <1>2 DEF PlanesHeard, LeftOpen
<1>5. p \in LivePlanes /\ GroupOf[p] = g
  BY <1>3 DEF PlanesOf, LivePlanes
<1>6. \A t \in heard : t.to # p
  BY <1>1, <1>4, <1>5 DEF PlanesHeard, NoneDropped
<1> QED BY <1>5, <1>6 DEF MissingPlane

\* What is missing when a module is not admitted: never a plane, and of a
\* layer a stack, a scalar or the attested value.
LEMMA RefusedModuleMisses ==
    ASSUME IInv, HeardInv, Depth = 1, NEW m \in Modules, Finalize(m), phase' = "refused"
    PROVE  m \in Layers /\ status[m] = "constructed" /\ MissingExpert(m)
<1>1. phase = "returned" /\ status[m] = "constructed" /\ ~Admissible(m)
  BY DEF Finalize
<1>2. PlanesHeard /\ ExpertsHeard /\ committed[1] = Live /\ m \in Live \cup Layers
  BY <1>1 DEF HeardInv, Going, ReturnedWhole
<1>3. Live \subseteq Groups
  BY DEF Live
<1>4. CASE m \in Live
  <2>1. GuardedBy(m) = PlanesOf(m) /\ ScalesOf(m) = {}
    BY <1>3, <1>4, LoadAssumption DEF GuardedBy, ScalesOf, ExpertParams
  <2> QED BY <1>1, <1>2, <1>4, <2>1 DEF Admissible, PlanesHeard, CommittedHeard
<1>5. CASE m \in Layers
  <2>1. PlanesOf(m) = {}
    BY <1>5, LoadAssumption DEF PlanesOf
  <2>2. CASE route = "none"
    BY <1>1, <1>5, <2>2 DEF MissingExpert
  <2>3. CASE route # "none" /\ \E p \in GuardedBy(m) : ~filled[p]
    <3>1. PICK p \in Stacks : LayerOf[p] = m /\ ~filled[p]
      BY <2>1, <2>3 DEF GuardedBy
    <3>2. Unheard(p)
      BY <1>2, <2>3, <3>1 DEF ExpertsHeard, Unheard
    <3> QED BY <1>1, <1>5, <3>1, <3>2 DEF MissingExpert
  <2>4. CASE route # "none" /\ \E s \in ScalesOf(m) : content[s].val # Attested[s]
    <3>1. PICK s \in ScalesOf(m) : content[s].val # Attested[s]
      BY <2>4
    <3>2. s \in InputScales /\ LayerOf[s] = m
      BY <3>1 DEF ScalesOf
    <3>3. Unheard(s) \/ \E u \in ever : u.to = s /\ u.val # Attested[s]
      BY <1>2, <2>4, <3>1, <3>2 DEF ExpertsHeard
    <3> QED BY <1>1, <1>5, <3>1, <3>2, <3>3 DEF MissingExpert
  <2> QED BY <1>1, <2>2, <2>3, <2>4 DEF Admissible
<1> QED BY <1>2, <1>4, <1>5

\* One wrapped load_weights never turns away a checkpoint that is complete and
\* well formed, over any number of calls: a tensor it refuses is malformed, a
\* second spelling or contradicts another; a call it refuses left a plane out;
\* and after it only an expert layer can be found wanting.
THEOREM RefusalsHaveReasons == Depth = 1 /\ Spec => NoFalseRefusal
<1> SUFFICES ASSUME Depth = 1 PROVE Spec => NoFalseRefusal
  OBVIOUS
<1> DEFINE Reason == phase' = "refused" /\ phase # "refused" =>
         CASE phase = "streaming" -> StreamFault'
           [] phase = "finishing" -> MissingPlane
           [] phase = "returned"  -> \E l \in Layers : /\ status[l] = "constructed"
                                                       /\ MissingExpert(l)
           [] OTHER -> FALSE
<1>1. ASSUME IInv, HeardInv, [Next]_vars PROVE Reason
  <2> SUFFICES ASSUME phase' = "refused", phase # "refused"
               PROVE  \/ phase = "streaming" /\ StreamFault'
                      \/ phase = "finishing" /\ MissingPlane
                      \/ phase = "returned" /\ \E l \in Layers : /\ status[l] = "constructed"
                                                                 /\ MissingExpert(l)
    OBVIOUS
  <2>1. HearSome \/ Finish \/ \E m \in Modules : Finalize(m)
    BY <1>1 DEF Next, Progress, OriginalReturns, Serve, CopyPlane, Break, CallAgain,
                Ended, vars, callVars
  <2>2. CASE HearSome
    <3>1. PICK t \in Wire : \/ RefusePlane(t) \/ RefuseName(t) \/ TopLevelExpert(t)
                            \/ MixedHookExpert(t) \/ StackedHookExpert(t)
      BY <2>2 DEF HearSome, StagePlane, BeginCommit, PassOver, Hear
    <3>2. Hear(t) /\ phase = "streaming"
      BY <3>1 DEF RefusePlane, RefuseName, TopLevelExpert, MixedHookExpert,
                  StackedHookExpert, Hear
    <3>3. CASE RefusePlane(t)
      BY <1>1, <3>2, <3>3, RefusedPlaneFaults
    <3>4. CASE RefuseName(t)
      BY <3>2, <3>4, HearingAdds DEF RefuseName, StreamFault, Malformed
    <3>5. CASE TopLevelExpert(t) \/ MixedHookExpert(t) \/ StackedHookExpert(t)
      <4>1. /\ t.to \in ExpertParams /\ route # "none"
            /\ ~Loads(t) \/ ~Agree(t)
        BY <3>2, <3>5 DEF TopLevelExpert, MixedHookExpert, StackedHookExpert, CopyExpert
      <4> QED BY <1>1, <3>2, <4>1, RefusedExpertFaults
    <3> QED BY <3>1, <3>3, <3>4, <3>5
  <2>3. CASE Finish
    BY <1>1, <2>3, RefusedFinishMisses DEF Finish
  <2>4. CASE \E m \in Modules : Finalize(m)
    BY <1>1, <2>4, RefusedModuleMisses DEF Finalize
  <2> QED BY <2>1, <2>2, <2>3, <2>4
<1>2. Spec => [](IInv /\ HeardInv)
  <2>1. Init => IInv /\ HeardInv
    BY InitIInv, InitHeardInv
  <2>2. IInv /\ HeardInv /\ [Next]_vars => (IInv /\ HeardInv)'
    BY StepIInv, StepHeardInv
  <2> QED BY <2>1, <2>2, PTL DEF Spec
<1>3. IInv /\ HeardInv /\ [Next]_vars => [Reason]_vars
  BY <1>1
<1> QED
  BY <1>2, <1>3, PTL DEF Spec, NoFalseRefusal

------------------------------------------------------------------------------
(* The load implements the abstract gate. *)

\* What the refinement mapping shows of module m.
GateOf(m) == IF status[m] # "constructed" THEN status[m]
             ELSE IF \A p \in GuardedBy(m) : filled[p] THEN "filled"
             ELSE "empty"

\* A guarded parameter answers to one module, and every module has one.
LEMMA GuardedApart ==
    /\ \A m \in Modules : GuardedBy(m) # {} /\ GuardedBy(m) \subseteq Params
    /\ \A m, n \in Modules : m # n => GuardedBy(m) \cap GuardedBy(n) = {}
<1>1. \A m \in Modules : GuardedBy(m) # {}
  BY LoadAssumption DEF GuardedBy, PlanesOf, Modules
<1>2. \A m \in Modules : GuardedBy(m) \subseteq Params
  BY DEF GuardedBy, PlanesOf, Params, ExpertParams
<1>3. \A m, n \in Modules : m # n => GuardedBy(m) \cap GuardedBy(n) = {}
  BY LoadAssumption DEF GuardedBy, PlanesOf, ExpertParams
<1>4. QED
  BY <1>1, <1>2, <1>3

\* Filling one parameter moves at most one module, from empty to filled.
LEMMA FillOne ==
    ASSUME IInv, NEW p \in Params, status' = status, phase # "serving",
           phase' # "serving",
           \A q \in Params : q # p => filled'[q] = filled[q],
           \A q \in Params : filled[q] => filled'[q]
    PROVE  [Gate!GateNext]_Gate!gateVars
<1> DEFINE gate == [m \in Modules |-> GateOf(m)]
<1>1. \A m \in Modules : p \notin GuardedBy(m) => GateOf(m)' = GateOf(m)
  BY GuardedApart DEF GateOf
<1>2. CASE \A m \in Modules : GateOf(m)' = GateOf(m)
  BY <1>2 DEF Gate!gateVars, GateOf
<1>3. CASE \E m \in Modules : GateOf(m)' # GateOf(m)
  <2>1. PICK m \in Modules : GateOf(m)' # GateOf(m)
    BY <1>3
  <2>2. p \in GuardedBy(m)
    BY <1>1, <2>1
  <2>3. \A n \in Modules : n # m => GateOf(n)' = GateOf(n)
    BY <1>1, <2>2, GuardedApart
  <2>4. GateOf(m) = "empty" /\ GateOf(m)' = "filled"
    BY <2>1, GuardedApart DEF GateOf
  <2>5. gate' = [gate EXCEPT ![m] = "filled"] /\ gate[m] = "empty"
    BY <2>3, <2>4
  <2>6. Gate!Fill(m)
    BY <2>5 DEF Gate!Fill, GateOf
  <2>7. QED
    BY <2>6 DEF Gate!GateNext
<1>4. QED
  BY <1>2, <1>3

LEMMA GateStutters ==
    ASSUME UNCHANGED <<filled, status>>, phase # "serving", phase' # "serving"
    PROVE  UNCHANGED Gate!gateVars
PROOF BY DEF Gate!gateVars

LEMMA HearingFillsOne ==
    ASSUME IInv, HearSome
    PROVE  [Gate!GateNext]_Gate!gateVars
<1>1. filled \in [Params -> BOOLEAN]
  BY DEF IInv, TypeOK
<1>2. PICK t \in Wire :
        /\ Hear(t) /\ status' = status
        /\ phase' \in {"streaming", "committing", "refused"}
        /\ \/ UNCHANGED filled
           \/ /\ t.to \in ExpertParams
              /\ filled' = [filled EXCEPT ![t.to] = @ \/ t.to \in Stacks]
  BY DEF HearSome, StagePlane, RefusePlane, BeginCommit, TopLevelExpert,
         RefuseName, MixedHookExpert, StackedHookExpert, PassOver, Refuse,
         CopyExpert, paramVars, Hear
<1>3. phase # "serving" /\ phase' # "serving"
  BY <1>2 DEF Hear
<1>4. CASE UNCHANGED filled
  BY <1>2, <1>3, <1>4, GateStutters
<1>5. CASE /\ t.to \in ExpertParams
           /\ filled' = [filled EXCEPT ![t.to] = @ \/ t.to \in Stacks]
  <2>1. t.to \in Params
    BY <1>5 DEF Params
  <2>2. \A q \in Params : q # t.to => filled'[q] = filled[q]
    BY <1>1, <1>5
  <2>3. \A q \in Params : filled[q] => filled'[q]
    BY <1>1, <1>5
  <2>4. QED
    BY <1>2, <1>3, <2>1, <2>2, <2>3, FillOne
<1>6. QED
  BY <1>2, <1>4, <1>5

LEMMA CopyingFillsOne ==
    ASSUME IInv, NEW p \in Planes, CopyPlane(p)
    PROVE  [Gate!GateNext]_Gate!gateVars
<1>1. filled \in [Params -> BOOLEAN] /\ p \in Params
  BY DEF IInv, TypeOK, Params
<1>2. /\ filled' = [filled EXCEPT ![p] = TRUE] /\ status' = status
      /\ phase # "serving" /\ phase' # "serving"
  BY DEF CopyPlane
<1>3. /\ \A q \in Params : q # p => filled'[q] = filled[q]
      /\ \A q \in Params : filled[q] => filled'[q]
  BY <1>1, <1>2
<1>4. QED
  BY <1>1, <1>2, <1>3, FillOne

\* A module that passes process_weights_after_loading was filled before.
LEMMA FinalizingAdmits ==
    ASSUME IInv, NEW m \in Modules, Finalize(m)
    PROVE  [Gate!GateNext]_Gate!gateVars
<1> USE DEF Finalize
<1>1. filled' = filled /\ phase # "serving" /\ phase' # "serving"
  BY DEF paramVars
<1>2. CASE ~Admissible(m)
  BY <1>1, <1>2, GateStutters
<1>3. CASE Admissible(m)
  <2> DEFINE gate == [n \in Modules |-> GateOf(n)]
  <2>1. status \in [Modules -> {"absent", "constructed", "ready"}]
        /\ status' = [status EXCEPT ![m] = "ready"]
    BY <1>3 DEF IInv, TypeOK
  <2>2. GateOf(m) = "filled" /\ GateOf(m)' = "ready"
    BY <1>1, <1>3, <2>1 DEF GateOf, Admissible
  <2>3. \A n \in Modules : n # m => GateOf(n)' = GateOf(n)
    BY <1>1, <2>1 DEF GateOf
  <2>4. gate[m] = "filled" /\ gate' = [gate EXCEPT ![m] = "ready"]
    BY <2>2, <2>3
  <2>5. Gate!Admit(m)
    BY <1>1, <2>4 DEF Gate!Admit, GateOf
  <2>6. QED
    BY <2>5 DEF Gate!GateNext
<1>4. QED
  BY <1>2, <1>3

LEMMA ServingOpens ==
    ASSUME IInv, Serve
    PROVE  [Gate!GateNext]_Gate!gateVars
<1>1. /\ UNCHANGED <<filled, status>> /\ phase' = "serving"
      /\ \A m \in Modules : status[m] \in {"absent", "ready"}
  BY DEF Serve, IInv, TypeOK, paramVars
<1>2. Gate!Open
  BY <1>1 DEF Gate!Open
<1>3. QED
  BY <1>2 DEF Gate!GateNext

\* Loading keeps the promise of ServeGate: a module is filled before it is
\* ready, never falls back, and nothing serves before every module is ready.
THEOREM LoadImplementsGate == Spec => GateSpec
<1>1. Init => Gate!GateInit
  <2> SUFFICES ASSUME Init PROVE Gate!GateInit
    OBVIOUS
  <2>1. \A m \in Modules : \E p \in GuardedBy(m) : ~filled[p]
    BY GuardedApart DEF Init
  <2>2. \A m \in Modules : status[m] \in {"absent", "constructed"}
    BY DEF Init
  <2>3. QED
    BY <2>1, <2>2 DEF Gate!GateInit, Init
<1>2. IInv /\ [Next]_vars => [Gate!GateNext]_Gate!gateVars
  <2> SUFFICES ASSUME IInv, [Next]_vars
               PROVE  [Gate!GateNext]_Gate!gateVars
    OBVIOUS
  <2>1. CASE HearSome
    BY <2>1, HearingFillsOne
  <2>2. CASE \E p \in Planes : CopyPlane(p)
    BY <2>2, CopyingFillsOne
  <2>3. CASE \E m \in Modules : Finalize(m)
    BY <2>3, FinalizingAdmits
  <2>4. CASE Serve
    BY <2>4, ServingOpens
  <2>5. CASE OriginalReturns \/ Finish \/ Break \/ CallAgain
    BY <2>5, GateStutters
    DEF OriginalReturns, Finish, Break, CallAgain, paramVars
  <2>6. CASE Ended \/ UNCHANGED vars
    BY <2>6 DEF Ended, vars, callVars, paramVars, Gate!gateVars
  <2>7. QED
    BY <2>1, <2>2, <2>3, <2>4, <2>5, <2>6 DEF Next, Progress
<1>3. QED
  BY <1>1, <1>2, Invariance, PTL DEF Spec, GateSpec, Gate!GateSpec
==============================================================================
