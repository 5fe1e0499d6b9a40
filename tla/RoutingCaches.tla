---------------------------- MODULE RoutingCaches ----------------------------
(***************************************************************************)
(* The row-offset constants of gridbook/moe_routing.py.  Each layer keeps  *)
(* the tensors it uses in a dictionary that is created on first use; layers *)
(* of one shape share a tensor through a process-wide pool that only       *)
(* refers to it weakly, so that the last layer to go takes it along.       *)
(* Several threads may reach an untouched layer together.                  *)
(*                                                                         *)
(* A captured graph keeps the address of a tensor it was handed, not the   *)
(* tensor: what must not change is which one the layer keeps.              *)
(***************************************************************************)
EXTENDS Naturals

CONSTANTS
    Threads,
    RoutedLayers,
    Keys,        \* (device, rows)
    MaxLookups   \* bound: lookups each thread makes

Unlocked == "free"   \* a lock nobody holds

ASSUME CachesAssumption ==
    /\ RoutedLayers # {} /\ Keys # {} /\ Unlocked \notin Threads
    /\ MaxLookups \in Nat

None == 0        \* no object; dictionaries and tensors are numbered from 1

VARIABLES
    loaded,      \* layers that exist
    cacheOf,     \* cacheOf[l]: the dictionary layer l keeps, or None
    slot,        \* slot[d]: what dictionary d maps each key to
    pool,        \* _ROW_OFFSET_POOL: the tensor each key refers to, weakly
    made,        \* objects made so far
    initLock,    \* who holds _LAYER_CACHE_INIT_LOCK
    poolLock,    \* who holds _ROW_OFFSET_POOL_LOCK
    pc, lay, key,
    mine, val,   \* the dictionary and the tensor a call holds
    lookups,     \* what the bound counts
    handed       \* <<layer, key, tensor>> a caller was given

lockVars  == <<initLock, poolLock>>
cacheVars == <<loaded, cacheOf, slot, pool, made>>
localVars == <<lay, key, mine, val, lookups>>
routingVars == <<cacheVars, lockVars, pc, localVars, handed>>

Objects == 1..made

CachesTypeOK ==
    /\ loaded \subseteq RoutedLayers
    /\ made \in Nat
    /\ cacheOf \in [RoutedLayers -> Objects \cup {None}]
    /\ slot \in [Objects -> [Keys -> Objects \cup {None}]]
    /\ pool \in [Keys -> Objects \cup {None}]
    /\ initLock \in Threads \cup {Unlocked} /\ poolLock \in Threads \cup {Unlocked}
    /\ pc \in [Threads -> {"idle", "attr", "init", "create", "get",
                           "lock", "pool", "alloc", "put"}]
    /\ lay \in [Threads -> RoutedLayers] /\ key \in [Threads -> Keys]
    /\ mine \in [Threads -> Objects \cup {None}]
    /\ val \in [Threads -> Objects \cup {None}]
    /\ lookups \in [Threads -> 0..MaxLookups]
    /\ handed \subseteq RoutedLayers \X Keys \X Objects

CachesInit ==
    /\ loaded = RoutedLayers
    /\ cacheOf = [l \in RoutedLayers |-> None]
    /\ slot = [d \in {} |-> [k \in Keys |-> None]]
    /\ pool = [k \in Keys |-> None]
    /\ made = 0
    /\ initLock = Unlocked /\ poolLock = Unlocked
    /\ pc = [t \in Threads |-> "idle"]
    /\ lay = [t \in Threads |-> CHOOSE l \in RoutedLayers : TRUE]
    /\ key = [t \in Threads |-> CHOOSE k \in Keys : TRUE]
    /\ mine = [t \in Threads |-> None] /\ val = [t \in Threads |-> None]
    /\ lookups = [t \in Threads |-> 0]
    /\ handed = {}

Goto(t, from, to) == pc[t] = from /\ pc' = [pc EXCEPT ![t] = to]

\* A new object; a dictionary starts empty, and a tensor is never looked into.
Make == /\ made' = made + 1
        /\ slot' = [d \in 1..(made + 1) |-> IF d \in Objects THEN slot[d]
                                            ELSE [k \in Keys |-> None]]
New == made + 1

------------------------------------------------------------------------------
(* cb_cached_row_offsets, for a layer the caller keeps alive. *)

Lookup(t) ==
    /\ Goto(t, "idle", "attr")
    /\ lookups[t] < MaxLookups
    /\ lookups' = [lookups EXCEPT ![t] = @ + 1]
    /\ \E l \in loaded : lay' = [lay EXCEPT ![t] = l]
    /\ \E k \in Keys : key' = [key EXCEPT ![t] = k]
    /\ UNCHANGED <<cacheVars, lockVars, mine, val, handed>>

\* _layer_tensor_cache looks without the lock first.
LookAttr(t) ==
    /\ Goto(t, "attr", IF cacheOf[lay[t]] = None THEN "init" ELSE "get")
    /\ mine' = [mine EXCEPT ![t] = cacheOf[lay[t]]]
    /\ UNCHANGED <<cacheVars, lockVars, lay, key, val, lookups, handed>>

LockInit(t) ==
    /\ Goto(t, "init", "create")
    /\ initLock = Unlocked
    /\ initLock' = t
    /\ UNCHANGED <<cacheVars, poolLock, localVars, handed>>

\* A definition named X_Slip is X with one slip a maintainer could make.  No
\* behaviour uses it; it shows which property would notice.
Create_NoRecheck(t) ==
    /\ Goto(t, "create", "get")
    /\ Make
    /\ cacheOf' = [cacheOf EXCEPT ![lay[t]] = New]
    /\ mine' = [mine EXCEPT ![t] = New]
    /\ initLock' = Unlocked
    /\ UNCHANGED <<loaded, pool, poolLock, lay, key, val, lookups, handed>>

\* Looks again, and creates the dictionary if it is still missing.
Create(t) ==
    /\ Goto(t, "create", "get")
    /\ IF cacheOf[lay[t]] # None
       THEN /\ mine' = [mine EXCEPT ![t] = cacheOf[lay[t]]]
            /\ UNCHANGED <<made, slot, cacheOf>>
       ELSE /\ Make
            /\ cacheOf' = [cacheOf EXCEPT ![lay[t]] = New]
            /\ mine' = [mine EXCEPT ![t] = New]
    /\ initLock' = Unlocked
    /\ UNCHANGED <<loaded, pool, poolLock, lay, key, val, lookups, handed>>

\* The call returns tensor x and lets go of what it holds.
Return(t, x) ==
    /\ handed' = handed \cup {<<lay[t], key[t], x>>}
    /\ mine' = [mine EXCEPT ![t] = None]
    /\ val' = [val EXCEPT ![t] = None]
    /\ UNCHANGED <<lay, key, lookups>>

Found(t) ==
    /\ Goto(t, "get", "idle")
    /\ slot[mine[t]][key[t]] # None
    /\ Return(t, slot[mine[t]][key[t]])
    /\ UNCHANGED <<cacheVars, lockVars>>

Missed(t) ==
    /\ Goto(t, "get", "lock")
    /\ slot[mine[t]][key[t]] = None
    /\ UNCHANGED <<cacheVars, lockVars, localVars, handed>>

LockPool_NotTaken(t) ==
    /\ Goto(t, "lock", "pool")
    /\ UNCHANGED <<cacheVars, lockVars, localVars, handed>>

LockPool(t) ==
    /\ Goto(t, "lock", "pool")
    /\ poolLock = Unlocked
    /\ poolLock' = t
    /\ UNCHANGED <<cacheVars, initLock, localVars, handed>>

\* Tensor x is alive: a call holds it, or a dictionary that a layer keeps or a
\* call holds.
Alive(x) ==
    \/ \E t \in Threads : val[t] = x
    \/ \E d \in Objects : /\ \E k \in Keys : slot[d][k] = x
                          /\ \/ \E l \in loaded : cacheOf[l] = d
                             \/ \E t \in Threads : mine[t] = d

\* What the weak dictionary answers for key k.
Pooled(k) == IF pool[k] # None /\ Alive(pool[k]) THEN pool[k] ELSE None

\* get() of the pool; the lock is kept for as long as something is missing.
LookPool(t) ==
    /\ Goto(t, "pool", IF Pooled(key[t]) = None THEN "alloc" ELSE "put")
    /\ val' = [val EXCEPT ![t] = Pooled(key[t])]
    /\ poolLock' = IF Pooled(key[t]) = None THEN poolLock ELSE Unlocked
    /\ UNCHANGED <<cacheVars, initLock, lay, key, mine, lookups, handed>>

Alloc(t) ==
    /\ Goto(t, "alloc", "put")
    /\ Make
    /\ val' = [val EXCEPT ![t] = New]
    /\ pool' = [pool EXCEPT ![key[t]] = New]
    /\ poolLock' = Unlocked
    /\ UNCHANGED <<loaded, cacheOf, initLock, lay, key, mine, lookups, handed>>

AllocRaises_LockKept(t) ==
    /\ Goto(t, "alloc", "idle")
    /\ mine' = [mine EXCEPT ![t] = None]
    /\ UNCHANGED <<cacheVars, lockVars, lay, key, val, lookups, handed>>

\* No memory: the exception releases the lock and ends the call.
AllocRaises(t) ==
    /\ Goto(t, "alloc", "idle")
    /\ mine' = [mine EXCEPT ![t] = None]
    /\ poolLock' = Unlocked
    /\ UNCHANGED <<cacheVars, initLock, lay, key, val, lookups, handed>>

\* What setdefault answers, and stores.
Settled(t) == IF slot[mine[t]][key[t]] # None THEN slot[mine[t]][key[t]]
              ELSE val[t]

Put(t) ==
    /\ Goto(t, "put", "idle")
    /\ slot' = [slot EXCEPT ![mine[t]][key[t]] = Settled(t)]
    /\ Return(t, Settled(t))
    /\ UNCHANGED <<loaded, cacheOf, pool, made, lockVars>>

\* A layer no call is using goes away with the dictionary it keeps.
Unload(l) ==
    /\ l \in loaded
    /\ \A t \in Threads : pc[t] # "idle" => lay[t] # l
    /\ loaded' = loaded \ {l}
    /\ UNCHANGED <<cacheOf, slot, pool, made, lockVars, pc, localVars, handed>>

------------------------------------------------------------------------------
Step(t) ==
    \/ LookAttr(t) \/ LockInit(t) \/ Create(t) \/ Found(t) \/ Missed(t)
    \/ LockPool(t) \/ LookPool(t) \/ Alloc(t) \/ AllocRaises(t) \/ Put(t)

\* Nobody calls any more.
Quiet == /\ \A t \in Threads : pc[t] = "idle"
         /\ UNCHANGED routingVars

CachesNext ==
    \/ Quiet
    \/ \E t \in Threads : Lookup(t) \/ Step(t)
    \/ \E l \in RoutedLayers : Unload(l)

CachesSpec == CachesInit /\ [][CachesNext]_routingVars

\* Threads that can run do run; nobody has to call, or to unload.
CachesFairSpec == CachesSpec /\ \A t \in Threads : WF_routingVars(Step(t))

------------------------------------------------------------------------------
(* Properties. *)

Kept(l, k) == IF cacheOf[l] = None THEN None ELSE slot[cacheOf[l]][k]

\* Every tensor a layer was ever handed is the one it keeps: as long as the
\* layer exists, no graph points at a tensor that was replaced or freed.
HandedIsKept ==
    \A h \in handed : h[1] \in loaded => Kept(h[1], h[2]) = h[3]

\* Layers that exist together share one tensor per shape, whatever was
\* unloaded or ran out of memory while they were filled.
OneConstant ==
    \A l, m \in loaded, k \in Keys :
        Kept(l, k) # None /\ Kept(m, k) # None => Kept(l, k) = Kept(m, k)

\* Every call ends, with a tensor or an exception.
CallsEnd == \A t \in Threads : pc[t] = "attr" ~> pc[t] = "idle"
==============================================================================
