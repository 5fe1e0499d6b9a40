------------------------------ MODULE Residency ------------------------------
(***************************************************************************)
(* What the models of one process leave behind in module-level state while *)
(* they are loaded, captured, dropped and collected:                       *)
(*                                                                         *)
(*  - the registry of compiled-dispatch targets (gridbook/ops.py): a       *)
(*    custom op carries an integer id, the registry holds weak references  *)
(*    to the layer and its method, and a callback removes dead entries;    *)
(*  - the decode pool (gridbook/trellis_decode_pool.py): every streamed    *)
(*    trellis layer of a device decodes into a view of one storage, which  *)
(*    grows to the largest tile and is then bound to every client again.   *)
(*                                                                         *)
(* One Python thread loads and runs the models; the garbage collector may  *)
(* take an unreachable object between any two of its steps.                *)
(***************************************************************************)
EXTENDS Integers, Sequences, FiniteSets

CONSTANTS
    Models,      \* engines this process ever loads
    Dispatch,    \* layers reached through a compiled-dispatch id
    Streamed,    \* trellis layers in streamed mode
    ModelOf,     \* ModelOf[l]: the model layer l belongs to
    Size         \* Size[l]: rows * columns of streamed layer l

Layers == Dispatch \cup Streamed

ASSUME ResidencyAssumption ==
    /\ Dispatch \cap Streamed = {}
    /\ ModelOf \in [Layers -> Models]
    /\ Size \in [Streamed -> Nat \ {0}]

VARIABLES
    engine,      \* engine[m]: how far model m has come
    alive,       \* layer objects that exist
    methods,     \* layers whose method object exists
    registry,    \* _LAYER_REGISTRY, as pairs <<id, layer>>
    nextId,      \* what _LAYER_IDS yields next
    sites,       \* pairs <<id, layer>>: the id layer's compiled calls carry
    due,         \* ids whose weak-reference callback has yet to run
    storages,    \* sizes of the pool's storages, the current one last
    clients,     \* the pool's client list
    growing,     \* clients the growth loop has yet to bind
    broken,      \* storages whose growth loop raised
    buf,         \* buf[l]: the storage decode_buf views, 0 before reserve
    graph        \* graph[m]: pairs <<layer, storage>> m's capture recorded

registryVars == <<registry, nextId, sites, due>>
poolVars     == <<storages, clients, growing, broken, buf>>
objectVars   == <<alive, methods>>
vars == <<engine, objectVars, registryVars, poolVars, graph>>

LayersOf(m) == {l \in Layers : ModelOf[l] = m}
Current     == Len(storages)
Room        == IF storages = <<>> THEN 0 ELSE storages[Current]

TypeOK ==
    /\ engine \in [Models -> {"absent", "loading", "ready", "dropped"}]
    /\ alive \subseteq Layers /\ methods \subseteq Dispatch
    /\ nextId \in Nat
    /\ sites \subseteq (0..(nextId - 1)) \X Dispatch
    /\ registry \subseteq sites
    /\ due \subseteq 0..(nextId - 1)
    /\ storages \in Seq(Nat \ {0})
    /\ clients \subseteq Streamed /\ growing \subseteq clients
    /\ broken \subseteq 0..Current
    /\ buf \in [Streamed -> 0..Current]
    /\ graph \in [Models -> SUBSET (Streamed \X (0..Current))]

Init ==
    /\ engine = [m \in Models |-> "absent"]
    /\ alive = {} /\ methods = {}
    /\ registry = {} /\ nextId = 0 /\ sites = {} /\ due = {}
    /\ storages = <<>> /\ clients = {} /\ growing = {} /\ broken = {}
    /\ buf = [l \in Streamed |-> 0]
    /\ graph = [m \in Models |-> {}]

\* The thread is not inside the growth loop.
Free == growing = {}

HasId(l)     == \E s \in sites : s[2] = l
Finalized(l) == IF l \in Dispatch THEN HasId(l) ELSE buf[l] # 0

\* One thread loads one model at a time.
Load(m) ==
    /\ Free /\ engine[m] = "absent"
    /\ \A n \in Models : engine[n] # "loading"
    /\ engine' = [engine EXCEPT ![m] = "loading"]
    /\ alive' = alive \cup LayersOf(m)
    /\ methods' = methods \cup (LayersOf(m) \cap Dispatch)
    /\ UNCHANGED <<registryVars, poolVars, graph>>

\* process_weights_after_loading is about to run for layer l.
Finalizes(l) ==
    /\ Free /\ engine[ModelOf[l]] = "loading"
    /\ ~Finalized(l)

------------------------------------------------------------------------------
(* The registry. *)

\* A definition named X_Slip is X with one slip a maintainer could make.  No
\* behaviour uses it; it shows which property would notice.
FreshId_Length == Cardinality(registry)
FreshId        == nextId

\* The store under a key, as a dictionary does it.
Stored(id, l) == {e \in registry : e[1] # id} \cup {<<id, l>>}
Popped(id)    == {e \in registry : e[1] # id}

Register(l) ==
    /\ l \in Dispatch /\ Finalizes(l)
    /\ registry' = Stored(FreshId, l)
    /\ sites' = sites \cup {<<FreshId, l>>}
    /\ nextId' = nextId + 1
    /\ UNCHANGED <<engine, objectVars, due, poolVars, graph>>

Live(l) == l \in alive /\ l \in methods

Expire_BothDead(id) ==
    /\ id \in due
    /\ \A e \in registry : e[1] = id => e[2] \notin alive \cup methods
    /\ due' = due \ {id}
    /\ registry' = Popped(id)
    /\ UNCHANGED <<engine, objectVars, nextId, sites, poolVars, graph>>

\* The callback of either reference removes the entry of the id it was made
\* for.
Expire(id) ==
    /\ id \in due
    /\ due' = due \ {id}
    /\ registry' = Popped(id)
    /\ UNCHANGED <<engine, objectVars, nextId, sites, poolVars, graph>>

\* A compiled call reaches its id after an object died and before the
\* callback ran: the lookup removes the entry itself, and raises.  Lookups
\* that find the entry alive, or none, change nothing.
LookupExpired(id) ==
    /\ Free
    /\ \E s \in sites : s[1] = id
    /\ \E e \in registry : e[1] = id /\ ~Live(e[2])
    /\ registry' = Popped(id)
    /\ UNCHANGED <<engine, objectVars, nextId, sites, due, poolVars, graph>>

------------------------------------------------------------------------------
(* The decode pool. *)

Grows_ToFit(l) == Room # Size[l]
Grows(l)       == Room < Size[l]

\* The client list once the dead are pruned and l is appended.
Listed(l) == (clients \cap alive) \cup {l}

Rebound_Newest(l) == {l}
Rebound(l)        == Listed(l)

\* The tile fits: l gets its view.
ReserveFits(l) ==
    /\ l \in Streamed /\ Finalizes(l)
    /\ ~Grows(l)
    /\ clients' = Listed(l)
    /\ buf' = [buf EXCEPT ![l] = Current]
    /\ UNCHANGED <<engine, objectVars, registryVars, storages, growing, broken,
                   graph>>

\* It does not: a larger storage replaces the current one.
ReserveGrows(l) ==
    /\ l \in Streamed /\ Finalizes(l)
    /\ Grows(l)
    /\ clients' = Listed(l)
    /\ storages' = Append(storages, Size[l])
    /\ growing' = Rebound(l)
    /\ UNCHANGED <<engine, objectVars, registryVars, broken, buf, graph>>

\* An exception leaves process_weights_after_loading and ends the load.
LoadRaises ==
    engine' = [m \in Models |-> IF engine[m] = "loading" THEN "dropped"
                               ELSE engine[m]]

\* The allocation raises, after the client was listed.
ReserveFails(l) ==
    /\ l \in Streamed /\ Finalizes(l)
    /\ Grows(l)
    /\ clients' = Listed(l)
    /\ LoadRaises
    /\ UNCHANGED <<objectVars, registryVars, storages, growing, broken, buf,
                   graph>>

\* One turn of the growth loop, which visits the list in order (any order
\* here); a client that has died is passed over.
Rebind(l) ==
    /\ l \in growing
    /\ l \in alive => Size[l] <= Room
    /\ growing' = growing \ {l}
    /\ buf' = IF l \in alive THEN [buf EXCEPT ![l] = Current] ELSE buf
    /\ UNCHANGED <<engine, objectVars, registryVars, storages, clients, broken,
                   graph>>

\* A client larger than the new storage cannot view it: the reservation that
\* listed it failed.  The others keep what they view.
RebindRaises(l) ==
    /\ l \in growing \cap alive
    /\ Size[l] > Room
    /\ growing' = {}
    /\ broken' = broken \cup {Current}
    /\ LoadRaises
    /\ UNCHANGED <<objectVars, registryVars, storages, clients, buf, graph>>

------------------------------------------------------------------------------
(* The life of a model. *)

Serve(m) ==
    /\ Free /\ engine[m] = "loading"
    /\ \A l \in LayersOf(m) : Finalized(l)
    /\ engine' = [engine EXCEPT ![m] = "ready"]
    /\ UNCHANGED <<objectVars, registryVars, poolVars, graph>>

\* A CUDA graph records the addresses its kernels decode into.
Capture(m) ==
    /\ Free /\ engine[m] = "ready"
    /\ graph' = [graph EXCEPT ![m] = {<<l, buf[l]>> :
                                        l \in LayersOf(m) \cap Streamed}]
    /\ graph' # graph
    /\ UNCHANGED <<engine, objectVars, registryVars, poolVars>>

\* The last reference to a model goes away, also from a load that failed.
Drop(m) ==
    /\ Free /\ engine[m] \in {"loading", "ready"}
    /\ engine' = [engine EXCEPT ![m] = "dropped"]
    /\ UNCHANGED <<objectVars, registryVars, poolVars, graph>>

\* The collector clears the weak references to an object and queues the
\* callbacks of those that still exist.
Notified(l) == {e[1] : e \in {r \in registry : r[2] = l}}

CollectLayer(l) ==
    /\ engine[ModelOf[l]] = "dropped"
    /\ l \in alive
    /\ alive' = alive \ {l}
    /\ due' = due \cup Notified(l)
    /\ UNCHANGED <<engine, methods, registry, nextId, sites, poolVars, graph>>

CollectMethod(l) ==
    /\ engine[ModelOf[l]] = "dropped"
    /\ l \in methods
    /\ methods' = methods \ {l}
    /\ due' = due \cup Notified(l)
    /\ UNCHANGED <<engine, alive, registry, nextId, sites, poolVars, graph>>

\* Every model has come and gone, and so have its objects.
AllGone ==
    /\ \A m \in Models : engine[m] = "dropped"
    /\ alive = {} /\ methods = {} /\ due = {} /\ Free
    /\ UNCHANGED vars

Next ==
    \/ \E m \in Models : Load(m) \/ Serve(m) \/ Capture(m) \/ Drop(m)
    \/ \E l \in Dispatch : Register(l) \/ CollectMethod(l)
    \/ \E l \in Streamed : \/ ReserveFits(l) \/ ReserveGrows(l)
                           \/ ReserveFails(l) \/ Rebind(l)
                           \/ RebindRaises(l)
    \/ \E l \in Layers : CollectLayer(l)
    \/ \E id \in 0..nextId : Expire(id) \/ LookupExpired(id)
    \/ AllGone

Spec == Init /\ [][Next]_vars

\* The interpreter runs the callbacks it has queued.  Nothing obliges it to
\* collect, or the program to load, run or drop a model.
FairSpec == Spec /\ \A id \in 0..Cardinality(Dispatch) : WF_vars(Expire(id))

------------------------------------------------------------------------------
(* Properties. *)

\* What a compiled call that carries id runs: nothing means that it raises.
Resolve(id) == {l \in Layers : <<id, l>> \in registry /\ Live(l)}

\* A compiled call runs its own layer as long as that exists, and raises
\* afterwards; no load, unload or late callback makes it run another layer or
\* costs a live layer its entry.
SitesResolve ==
    \A s \in sites : Resolve(s[1]) = IF Live(s[2]) THEN {s[2]} ELSE {}

\* Outside the growth loop every live streamed layer views the newest storage,
\* which holds its tile: one tile per device, and no view into a storage that
\* was replaced.  Only a growth that raised may be newer than the view.
OneTile ==
    Free => \A l \in Streamed \cap alive :
                buf[l] # 0 => /\ (buf[l] + 1)..Current \subseteq broken
                              /\ Size[l] <= storages[buf[l]]

\* Some reference keeps storage g allocated.  A graph keeps none.
Allocated(g) == g = Current \/ \E l \in Streamed \cap alive : buf[l] = g

\* A captured graph keeps decoding into the pool's storage until some layer
\* needs a tile larger than any of its model's: loads that fit leave it alone.
GraphsOutliveLoadsThatFit ==
    \A m \in Models : \A c \in graph[m] :
        c[2] = Current \/ \A l \in LayersOf(m) \cap Streamed : Size[l] < Room

\* The registry does not outlive the models: once a layer has died its entry
\* goes, also while its method is kept.
EntriesExpire ==
    \A l \in Dispatch :
        (HasId(l) /\ l \notin alive) ~> (\A e \in registry : e[2] # l)

==============================================================================
