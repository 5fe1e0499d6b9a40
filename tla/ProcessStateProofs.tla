-------------------------- MODULE ProcessStateProofs --------------------------
(***************************************************************************)
(* What holds of the two process-wide stores that captured graphs point    *)
(* into, each by itself, for any number of layers, models and threads.     *)
(*                                                                         *)
(* Residency: the registry of compiled-call ids and the trellis pool, for  *)
(* any tile sizes and every order of loads, failures, collections and      *)
(* callbacks.                                                              *)
(*                                                                         *)
(* RoutingCaches: why a layer keeps every tensor it handed out and why the *)
(* layers of one shape share theirs: the pool names, for each key, the     *)
(* only tensor that a layer keeps or a call is about to store, and it is   *)
(* replaced only under its lock and only when there is no such tensor.     *)
(***************************************************************************)
EXTENDS Residency, RoutingCaches, TLAPS


------------------------------------------------------------------------------
(* The inductive invariant. *)

\* An id names one layer for ever.
IdsAreNames == \A s, t \in sites : s[1] = t[1] => s = t

\* A live layer keeps its entry, and no callback for it is due.
LiveHasEntry ==
    /\ \A s \in sites : Live(s[2]) => s \in registry
    /\ \A s \in sites : s[1] \in due => ~Live(s[2])

\* A model that was never loaded has left no trace.
AbsentIsNew ==
    /\ \A s \in sites : engine[ModelOf[s[2]]] # "absent"
    /\ \A l \in Streamed : engine[ModelOf[l]] = "absent" =>
                              buf[l] = 0 /\ l \notin clients

RegistryInv == IdsAreNames /\ LiveHasEntry

\* How far client l must have followed the pool's growth.
Due(l) == IF l \in growing THEN Current - 1 ELSE Current

Bound(l) ==
    /\ Size[l] <= storages[buf[l]] /\ Size[l] <= Room
    /\ l \in alive => /\ l \in clients
                      /\ (buf[l] + 1)..Due(l) \subseteq broken

PoolInv == \A l \in Streamed : buf[l] # 0 => Bound(l)

IInv == TypeOK /\ AbsentIsNew /\ RegistryInv /\ PoolInv

------------------------------------------------------------------------------
LEMMA InitIInv == Init => IInv
PROOF
  <1> SUFFICES ASSUME Init PROVE IInv
    OBVIOUS
  <1>1. Current = 0
    BY DEF Init, Current
  <1>2. TypeOK
    BY <1>1 DEF Init, TypeOK
  <1>3. AbsentIsNew /\ RegistryInv /\ PoolInv
    BY DEF Init, AbsentIsNew, RegistryInv, IdsAreNames, LiveHasEntry, PoolInv
  <1> QED BY <1>2, <1>3 DEF IInv

LEMMA LayerFacts ==
    /\ \A l \in Layers : ModelOf[l] \in Models
    /\ \A l \in Streamed : Size[l] \in Nat \ {0} /\ l \in Layers
    /\ \A l \in Dispatch : l \in Layers /\ l \notin Streamed
PROOF BY ResidencyAssumption DEF Layers

\* Room is the size of the storage in use.
LEMMA RoomIsCurrent ==
    ASSUME TypeOK
    PROVE  /\ Current \in Nat
           /\ Room \in Nat
           /\ Current = 0 => Room = 0
           /\ Current # 0 => Room = storages[Current]
           /\ \A i \in 1..Current : storages[i] \in Nat \ {0}
PROOF
  <1>1. storages \in Seq(Nat \ {0})
    BY DEF TypeOK
  <1>2. Current \in Nat /\ \A i \in 1..Current : storages[i] \in Nat \ {0}
    BY <1>1 DEF Current
  <1>3. storages = <<>> <=> Current = 0
    BY <1>1 DEF Current
  <1> QED BY <1>2, <1>3 DEF Room

\* Growth appends a storage larger than the current one.
LEMMA GrowthFacts ==
    ASSUME TypeOK, NEW l \in Streamed, ReserveGrows(l)
    PROVE  /\ storages' \in Seq(Nat \ {0})
           /\ Current' = Current + 1
           /\ Room' = Size[l] /\ Room < Size[l]
           /\ \A i \in 1..Current : storages'[i] = storages[i]
PROOF
  <1>1. storages \in Seq(Nat \ {0}) /\ Size[l] \in Nat \ {0}
    BY LayerFacts DEF TypeOK
  <1>2. storages' = Append(storages, Size[l]) /\ Room < Size[l]
    BY DEF ReserveGrows, Grows
  <1>3. /\ storages' \in Seq(Nat \ {0})
        /\ Len(storages') = Len(storages) + 1
        /\ \A i \in 1..Len(storages) : storages'[i] = storages[i]
        /\ storages'[Len(storages) + 1] = Size[l]
    BY <1>1, <1>2
  <1>4. storages' # <<>>
    BY <1>1, <1>3
  <1> QED BY <1>2, <1>3, <1>4 DEF Current, Room

------------------------------------------------------------------------------
(* Every step keeps it: types first. *)

LEMMA TypeStep ==
    ASSUME TypeOK, [Next]_vars
    PROVE  TypeOK'
PROOF
  <1> USE LayerFacts, RoomIsCurrent
  <1>1. ASSUME UNCHANGED vars PROVE TypeOK'
    BY <1>1 DEF vars, objectVars, registryVars, poolVars, TypeOK, Current
  <1>2. ASSUME NEW m \in Models, Load(m) PROVE TypeOK'
    BY <1>2 DEF Load, TypeOK, LayersOf, Layers, registryVars, poolVars, Current
  <1>3. ASSUME NEW m \in Models, Serve(m) PROVE TypeOK'
    BY <1>3 DEF Serve, TypeOK, objectVars, registryVars, poolVars, Current
  <1>4. ASSUME NEW m \in Models, Capture(m) PROVE TypeOK'
    <2>1. \A l \in LayersOf(m) \cap Streamed : buf[l] \in 0..Current
      BY DEF TypeOK
    <2>2. {<<l, buf[l]>> : l \in LayersOf(m) \cap Streamed}
              \in SUBSET (Streamed \X (0..Current))
      BY <2>1
    <2> QED BY <1>4, <2>2 DEF Capture, TypeOK, objectVars, registryVars,
                                poolVars, Current
  <1>5. ASSUME NEW m \in Models, Drop(m) PROVE TypeOK'
    BY <1>5 DEF Drop, TypeOK, objectVars, registryVars, poolVars, Current
  <1>6. ASSUME NEW l \in Dispatch, Register(l) PROVE TypeOK'
    <2>1. sites' \subseteq (0..(nextId' - 1)) \X Dispatch /\ nextId' \in Nat
      BY <1>6 DEF Register, FreshId, TypeOK
    <2>2. registry' \subseteq sites'
      BY <1>6 DEF Register, FreshId, Stored, TypeOK
    <2>3. due' \subseteq 0..(nextId' - 1)
      BY <1>6 DEF Register, TypeOK
    <2> QED BY <1>6, <2>1, <2>2, <2>3 DEF Register, TypeOK, objectVars,
                                          poolVars, Current
  <1>7. ASSUME NEW l \in Dispatch, CollectMethod(l) PROVE TypeOK'
    <2>1. Notified(l) \subseteq 0..(nextId - 1)
      BY DEF Notified, TypeOK
    <2> QED BY <1>7, <2>1 DEF CollectMethod, TypeOK, poolVars, Current
  <1>8. ASSUME NEW l \in Layers, CollectLayer(l) PROVE TypeOK'
    <2>1. Notified(l) \subseteq 0..(nextId - 1)
      BY DEF Notified, TypeOK
    <2> QED BY <1>8, <2>1 DEF CollectLayer, TypeOK, poolVars, Current
  <1>9. ASSUME NEW l \in Streamed, ReserveFits(l) PROVE TypeOK'
    BY <1>9 DEF ReserveFits, Listed, TypeOK, objectVars, registryVars, Current,
                Finalizes, Free
  <1>10. ASSUME NEW l \in Streamed, ReserveGrows(l) PROVE TypeOK'
    <2>1. storages' \in Seq(Nat \ {0}) /\ Current' = Current + 1
      BY <1>10, GrowthFacts
    <2>2. clients' \subseteq Streamed /\ growing' \subseteq clients'
      BY <1>10 DEF ReserveGrows, Listed, Rebound, TypeOK
    <2>3. /\ broken' \subseteq 0..Current'
          /\ buf' \in [Streamed -> 0..Current']
          /\ graph' \in [Models -> SUBSET (Streamed \X (0..Current'))]
      <3>1. 0..Current \subseteq 0..Current'
        BY <2>1
      <3>2. SUBSET (Streamed \X (0..Current))
                \subseteq SUBSET (Streamed \X (0..Current'))
        BY <3>1
      <3> QED BY <1>10, <3>1, <3>2 DEF ReserveGrows, TypeOK
    <2> QED BY <1>10, <2>1, <2>2, <2>3 DEF ReserveGrows, TypeOK, objectVars,
                                           registryVars
  <1>11. ASSUME NEW l \in Streamed, ReserveFails(l) PROVE TypeOK'
    BY <1>11 DEF ReserveFails, LoadRaises, Listed, TypeOK, objectVars,
                 registryVars, Current, Finalizes, Free
  <1>12. ASSUME NEW l \in Streamed, Rebind(l) PROVE TypeOK'
    BY <1>12 DEF Rebind, TypeOK, objectVars, registryVars, Current
  <1>13. ASSUME NEW l \in Streamed, RebindRaises(l) PROVE TypeOK'
    <2>1. Current \in 0..Current
      OBVIOUS
    <2> QED BY <1>13, <2>1 DEF RebindRaises, LoadRaises, TypeOK, objectVars,
                               registryVars, Current
  <1>14. ASSUME NEW id \in 0..nextId, Expire(id) PROVE TypeOK'
    BY <1>14 DEF Expire, Popped, TypeOK, objectVars, poolVars, Current
  <1>15. ASSUME NEW id \in 0..nextId, LookupExpired(id) PROVE TypeOK'
    BY <1>15 DEF LookupExpired, Popped, TypeOK, objectVars, poolVars, Current
  <1> QED BY <1>1, <1>2, <1>3, <1>4, <1>5, <1>6, <1>7, <1>8, <1>9, <1>10,
             <1>11, <1>12, <1>13, <1>14, <1>15 DEF Next, AllGone

LEMMA AbsentStep ==
    ASSUME TypeOK, AbsentIsNew, [Next]_vars
    PROVE  AbsentIsNew'
PROOF
  <1> USE LayerFacts DEF AbsentIsNew
  <1>1. ASSUME UNCHANGED vars PROVE AbsentIsNew'
    BY <1>1 DEF vars, registryVars, poolVars
  <1>2. ASSUME NEW m \in Models, Load(m) PROVE AbsentIsNew'
    BY <1>2 DEF Load, registryVars, poolVars, TypeOK
  <1>3. ASSUME NEW m \in Models, Serve(m) \/ Capture(m) \/ Drop(m)
        PROVE AbsentIsNew'
    BY <1>3 DEF Serve, Capture, Drop, registryVars, poolVars, TypeOK
  <1>4. ASSUME NEW l \in Dispatch, Register(l) PROVE AbsentIsNew'
    BY <1>4 DEF Register, Finalizes, poolVars
  <1>5. ASSUME NEW l \in Layers, CollectMethod(l) \/ CollectLayer(l)
        PROVE AbsentIsNew'
    BY <1>5 DEF CollectMethod, CollectLayer, poolVars
  <1>6. ASSUME NEW l \in Streamed,
               ReserveFits(l) \/ ReserveGrows(l) \/ ReserveFails(l)
        PROVE AbsentIsNew'
    <2>1. engine[ModelOf[l]] = "loading"
      BY <1>6 DEF ReserveFits, ReserveGrows, ReserveFails, Finalizes
    <2> QED BY <1>6, <2>1 DEF ReserveFits, ReserveGrows, ReserveFails, Listed,
                              LoadRaises, registryVars, TypeOK
  <1>7. ASSUME NEW l \in Streamed, Rebind(l) \/ RebindRaises(l)
        PROVE AbsentIsNew'
    BY <1>7 DEF Rebind, RebindRaises, LoadRaises, registryVars, TypeOK
  <1>8. ASSUME NEW id \in 0..nextId, Expire(id) \/ LookupExpired(id)
        PROVE AbsentIsNew'
    BY <1>8 DEF Expire, LookupExpired, poolVars
  <1> QED BY <1>1, <1>2, <1>3, <1>4, <1>5, <1>6, <1>7, <1>8
          DEF Next, AllGone, Layers

LEMMA RegistryStep ==
    ASSUME TypeOK, AbsentIsNew, RegistryInv, [Next]_vars
    PROVE  RegistryInv'
PROOF
  <1> USE LayerFacts DEF RegistryInv
  <1>r. /\ registry \subseteq sites
        /\ \A s \in sites : /\ s = <<s[1], s[2]>> /\ s[1] \in 0..(nextId - 1)
                            /\ s[2] \in Dispatch
    BY DEF TypeOK
  <1>1. ASSUME UNCHANGED <<alive, methods, registryVars>> PROVE RegistryInv'
    BY <1>1 DEF registryVars, IdsAreNames, LiveHasEntry, Live
  <1>2. ASSUME NEW m \in Models, Load(m) PROVE RegistryInv'
    <2>1. \A s \in sites : s[2] \notin LayersOf(m)
      BY <1>r, <1>2 DEF AbsentIsNew, Load, LayersOf
    <2>2. \A s \in sites : Live(s[2])' <=> Live(s[2])
      BY <1>2, <2>1 DEF Load, Live
    <2> QED BY <1>2, <2>2 DEF Load, registryVars, IdsAreNames, LiveHasEntry
  <1>3. ASSUME NEW l \in Dispatch, Register(l) PROVE RegistryInv'
    <2> DEFINE new == <<nextId, l>>
    <2>1. sites' = sites \cup {new} /\ nextId \in Nat
      BY <1>3 DEF Register, FreshId, TypeOK
    <2>2. \A s \in sites : s[1] # nextId
      BY <1>r, <2>1
    <2>3. nextId \notin due /\ UNCHANGED due
      BY <1>3, <2>1 DEF Register, TypeOK
    <2>4. registry' = registry \cup {new}
      BY <1>3, <1>r, <2>2 DEF Register, FreshId, Stored
    <2>5. IdsAreNames'
      BY <2>1, <2>2 DEF IdsAreNames
    <2>6. \A k : Live(k)' <=> Live(k)
      BY <1>3 DEF Register, objectVars, Live
    <2>7. LiveHasEntry'
      BY <2>1, <2>3, <2>4, <2>6 DEF LiveHasEntry
    <2> QED BY <2>5, <2>7
  <1>4. ASSUME NEW l \in Layers, CollectMethod(l) \/ CollectLayer(l)
        PROVE RegistryInv'
    <2>1. /\ UNCHANGED <<registry, sites>>
          /\ due' = due \cup Notified(l)
          /\ ~Live(l)'
          /\ \A k : Live(k)' => Live(k)
      BY <1>4 DEF CollectMethod, CollectLayer, Live
    <2>2. \A s \in sites : s[1] \in Notified(l) => s[2] = l
      BY <1>r DEF Notified, IdsAreNames
    <2> QED BY <2>1, <2>2 DEF IdsAreNames, LiveHasEntry
  <1>5. ASSUME NEW id \in 0..nextId, Expire(id) PROVE RegistryInv'
    <2>1. /\ registry' = Popped(id) /\ id \in due /\ due' = due \ {id}
          /\ UNCHANGED <<alive, methods, sites>>
      BY <1>5 DEF Expire, objectVars
    <2> QED BY <1>r, <2>1 DEF Popped, IdsAreNames, LiveHasEntry, Live
  <1>6. ASSUME NEW id \in 0..nextId, LookupExpired(id) PROVE RegistryInv'
    <2>1. /\ registry' = Popped(id)
          /\ \E e \in registry : e[1] = id /\ ~Live(e[2])
          /\ UNCHANGED <<alive, methods, sites, due>>
      BY <1>6 DEF LookupExpired, objectVars
    <2>2. \A s \in sites : s[1] = id => ~Live(s[2])
      BY <1>r, <2>1 DEF IdsAreNames
    <2> QED BY <1>r, <2>1, <2>2 DEF Popped, IdsAreNames, LiveHasEntry, Live
  <1>7. ASSUME NEW m \in Models, Serve(m) \/ Capture(m) \/ Drop(m)
        PROVE RegistryInv'
    BY <1>1, <1>7 DEF Serve, Capture, Drop, objectVars
  <1>8. ASSUME NEW l \in Streamed,
               \/ ReserveFits(l) \/ ReserveGrows(l) \/ ReserveFails(l)
               \/ Rebind(l) \/ RebindRaises(l)
        PROVE RegistryInv'
    BY <1>1, <1>8 DEF ReserveFits, ReserveGrows, ReserveFails, Rebind,
                      RebindRaises, objectVars
  <1>9. ASSUME UNCHANGED vars PROVE RegistryInv'
    BY <1>1, <1>9 DEF vars, objectVars
  <1> QED BY <1>2, <1>3, <1>4, <1>5, <1>6, <1>7, <1>8, <1>9
          DEF Next, AllGone, Layers

\* Steps that leave the pool alone and bring no client back to life.
LEMMA PoolFrame ==
    ASSUME PoolInv, UNCHANGED poolVars,
           \A l \in Streamed : l \in alive' => l \in alive \/ buf[l] = 0
    PROVE  PoolInv'
PROOF BY DEF PoolInv, Bound, Due, Current, Room, poolVars

LEMMA PoolStep ==
    ASSUME TypeOK, AbsentIsNew, PoolInv, [Next]_vars
    PROVE  PoolInv'
PROOF
  <1> USE LayerFacts, RoomIsCurrent
  <1>t. /\ Current \in Nat /\ buf \in [Streamed -> 0..Current]
        /\ growing \subseteq clients
    BY DEF TypeOK
  <1>1. ASSUME UNCHANGED vars PROVE PoolInv'
    BY <1>1, PoolFrame DEF vars, objectVars
  <1>2. ASSUME NEW m \in Models, Load(m) PROVE PoolInv'
    <2>1. \A l \in Streamed : l \in LayersOf(m) => buf[l] = 0
      BY <1>2 DEF Load, AbsentIsNew, LayersOf
    <2> QED BY <1>2, <2>1, PoolFrame DEF Load
  <1>3. ASSUME NEW m \in Models, Serve(m) \/ Capture(m) \/ Drop(m)
        PROVE PoolInv'
    BY <1>3, PoolFrame DEF Serve, Capture, Drop, objectVars
  <1>4. ASSUME NEW l \in Layers,
               Register(l) \/ CollectMethod(l) \/ CollectLayer(l)
        PROVE PoolInv'
    BY <1>4, PoolFrame DEF Register, CollectMethod, CollectLayer, objectVars
  <1>5. ASSUME NEW id \in 0..nextId, Expire(id) \/ LookupExpired(id)
        PROVE PoolInv'
    BY <1>5, PoolFrame DEF Expire, LookupExpired, objectVars
  <1>6. ASSUME NEW l \in Streamed, ReserveFits(l) PROVE PoolInv'
    <2>1. /\ UNCHANGED <<storages, growing, broken, alive>> /\ growing = {}
          /\ clients' = (clients \cap alive) \cup {l}
          /\ buf' = [buf EXCEPT ![l] = Current]
          /\ Size[l] <= Room
      BY <1>6 DEF ReserveFits, Listed, Grows, objectVars, Finalizes, Free
    <2>2. UNCHANGED <<Current, Room>>
      BY <2>1 DEF Current, Room
    <2>3. ASSUME NEW k \in Streamed, buf'[k] # 0 PROVE Bound(k)'
      <3>1. CASE k = l
        BY <1>t, <2>1, <2>2, <3>1 DEF Bound, Due
      <3>2. CASE k # l
        BY <1>t, <2>1, <2>2, <2>3, <3>2 DEF PoolInv, Bound, Due
      <3> QED BY <3>1, <3>2
    <2> QED BY <2>3 DEF PoolInv
  <1>7. ASSUME NEW l \in Streamed, ReserveGrows(l) PROVE PoolInv'
    <2>1. /\ UNCHANGED <<buf, broken, alive>> /\ growing = {} /\ buf[l] = 0
          /\ clients' = (clients \cap alive) \cup {l}
          /\ growing' = (clients \cap alive) \cup {l}
      BY <1>7 DEF ReserveGrows, Listed, Rebound, objectVars, Finalizes,
                  Finalized, Free
    <2>2. /\ Current' = Current + 1 /\ Room' = Size[l] /\ Room < Size[l]
          /\ \A i \in 1..Current : storages'[i] = storages[i]
      BY <1>7, GrowthFacts
    <2>3. ASSUME NEW k \in Streamed, buf'[k] # 0 PROVE Bound(k)'
      <3>1. Bound(k) /\ buf[k] \in 1..Current
        BY <1>t, <2>1, <2>3 DEF PoolInv
      <3>2. Size[k] <= storages'[buf'[k]] /\ Size[k] <= Room'
        BY <2>1, <2>2, <3>1 DEF Bound
      <3>3. ASSUME k \in alive'
            PROVE k \in clients' /\ (buf'[k] + 1)..Due(k)' \subseteq broken'
        <4>1. k \in clients /\ (buf[k] + 1)..Current \subseteq broken
          BY <2>1, <3>1, <3>3 DEF Bound, Due
        <4>2. k \in growing'
          BY <2>1, <3>3, <4>1
        <4>3. Due(k)' = Current
          BY <1>t, <2>2, <4>2 DEF Due
        <4> QED BY <2>1, <3>3, <4>1, <4>3
      <3> QED BY <3>2, <3>3 DEF Bound
    <2> QED BY <2>3 DEF PoolInv
  <1>8. ASSUME NEW l \in Streamed, ReserveFails(l) PROVE PoolInv'
    <2>1. /\ UNCHANGED <<storages, growing, broken, alive, buf>>
          /\ clients' = (clients \cap alive) \cup {l}
      BY <1>8 DEF ReserveFails, Listed, objectVars
    <2> QED BY <2>1 DEF PoolInv, Bound, Due, Current, Room
  <1>9. ASSUME NEW l \in Streamed, Rebind(l) PROVE PoolInv'
    <2>1. /\ UNCHANGED <<storages, clients, broken, alive>>
          /\ l \in growing /\ growing' = growing \ {l}
          /\ l \in alive => Size[l] <= Room
          /\ buf' = IF l \in alive THEN [buf EXCEPT ![l] = Current] ELSE buf
      BY <1>9 DEF Rebind, objectVars
    <2>2. UNCHANGED <<Current, Room>>
      BY <2>1 DEF Current, Room
    <2>3. ASSUME NEW k \in Streamed, buf'[k] # 0 PROVE Bound(k)'
      <3>1. CASE k = l /\ l \in alive
        BY <1>t, <2>1, <2>2, <2>3, <3>1 DEF Bound, Due
      <3>2. CASE k = l /\ l \notin alive
        BY <1>t, <2>1, <2>2, <2>3, <3>2 DEF PoolInv, Bound, Due
      <3>3. CASE k # l
        BY <1>t, <2>1, <2>2, <2>3, <3>3 DEF PoolInv, Bound, Due
      <3> QED BY <3>1, <3>2, <3>3
    <2> QED BY <2>3 DEF PoolInv
  <1>10. ASSUME NEW l \in Streamed, RebindRaises(l) PROVE PoolInv'
    <2>1. /\ UNCHANGED <<storages, clients, alive, buf>>
          /\ growing' = {} /\ broken' = broken \cup {Current}
      BY <1>10 DEF RebindRaises, objectVars
    <2>2. UNCHANGED <<Current, Room>>
      BY <2>1 DEF Current, Room
    <2>3. ASSUME NEW k \in Streamed, buf[k] # 0, k \in alive
          PROVE  (buf[k] + 1)..Current \subseteq broken \cup {Current}
      <3>1. (buf[k] + 1)..Due(k) \subseteq broken /\ buf[k] \in 0..Current
        BY <1>t, <2>3 DEF PoolInv, Bound
      <3> QED BY <1>t, <3>1 DEF Due
    <2> QED BY <2>1, <2>2, <2>3 DEF PoolInv, Bound, Due
  <1> QED BY <1>1, <1>2, <1>3, <1>4, <1>5, <1>6, <1>7, <1>8, <1>9, <1>10
          DEF Next, AllGone, Layers

THEOREM Invariance == Spec => []IInv
PROOF
  <1>1. IInv /\ [Next]_vars => IInv'
    BY TypeStep, AbsentStep, RegistryStep, PoolStep DEF IInv
  <1> QED BY InitIInv, <1>1, PTL DEF Spec

\* The ids, entries and storages are always of the kind declared, and an entry
\* is only ever the pair a registration made.
THEOREM TypeCorrect == Spec => []TypeOK
PROOF
  <1>1. IInv => TypeOK
    BY DEF IInv
  <1> QED BY Invariance, <1>1, PTL

\* A compiled call runs its own layer while that exists and raises afterwards,
\* whatever was registered, collected or expired in between.
THEOREM CallsRunTheirLayer == Spec => []SitesResolve
PROOF
  <1>1. IInv => SitesResolve
    <2> SUFFICES ASSUME IInv, NEW s \in sites
                 PROVE  Resolve(s[1]) = IF Live(s[2]) THEN {s[2]} ELSE {}
      BY DEF SitesResolve
    <2>1. registry \subseteq sites /\ s = <<s[1], s[2]>> /\ s[2] \in Layers
      BY LayerFacts DEF IInv, TypeOK
    <2>2. \A l : <<s[1], l>> \in registry => l = s[2]
      BY <2>1 DEF IInv, RegistryInv, IdsAreNames
    <2>3. Live(s[2]) => <<s[1], s[2]>> \in registry
      BY <2>1 DEF IInv, RegistryInv, LiveHasEntry
    <2> QED BY <2>1, <2>2, <2>3 DEF Resolve
  <1> QED BY Invariance, <1>1, PTL

\* Every live streamed layer follows the pool, except past a growth that
\* raised.
THEOREM LayersShareOneTile == Spec => []OneTile
PROOF
  <1>1. IInv => OneTile
    BY DEF IInv, PoolInv, Bound, Due, OneTile, Free
  <1> QED BY Invariance, <1>1, PTL

------------------------------------------------------------------------------
(***************************************************************************)
(* A graph may record a storage that is already superseded, if a growth    *)
(* that raised had rebound only part of the model.  So GraphInv follows    *)
(* the model from its load on: while it loads its layers keep up with the  *)
(* pool, and once it is ready a layer can only fall behind a storage that  *)
(* no tile of the model needs.                                             *)
(***************************************************************************)
StreamedOf(m) == LayersOf(m) \cap Streamed
Outgrown(m)   == \A l \in StreamedOf(m) : Size[l] < Room

LoadingFollows ==
    \A l \in Streamed : engine[ModelOf[l]] = "loading" =>
        /\ l \in alive
        /\ buf[l] # 0 => buf[l] = Due(l)

ReadyFollows ==
    \A m \in Models : engine[m] = "ready" =>
        \A l \in StreamedOf(m) : buf[l] # 0 /\ (buf[l] = Current \/ Outgrown(m))

GraphsFollow ==
    \A m \in Models : \A c \in graph[m] :
        /\ engine[m] \in {"ready", "dropped"}
        /\ \A l \in StreamedOf(m) : buf[l] # 0
        /\ c[2] = Current \/ Outgrown(m)

GraphInv == LoadingFollows /\ ReadyFollows /\ GraphsFollow
GInv == IInv /\ GraphInv

LEMMA InitGraphInv == Init => GraphInv
PROOF BY LayerFacts DEF Init, GraphInv, LoadingFollows, ReadyFollows,
         GraphsFollow

LEMMA LoadingStep ==
    ASSUME IInv, LoadingFollows, [Next]_vars
    PROVE  LoadingFollows'
PROOF
  <1> USE LayerFacts DEF LoadingFollows
  <1>t. TypeOK /\ Current \in Nat
    BY RoomIsCurrent DEF IInv
  <1>1. ASSUME UNCHANGED <<poolVars, alive>>,
               \A m \in Models : engine'[m] = "loading" => engine[m] = "loading"
        PROVE  LoadingFollows'
    BY <1>1 DEF poolVars, Due, Current
  <1>2. ASSUME NEW m \in Models, Load(m) PROVE LoadingFollows'
    <2>1. \A l \in Streamed : ModelOf[l] = m => buf[l] = 0
      BY <1>2 DEF Load, IInv, AbsentIsNew
    <2>2. \A l \in Streamed : ModelOf[l] = m => l \in alive'
      BY <1>2 DEF Load, LayersOf
    <2> QED BY <1>1, <1>2, <1>t, <2>1, <2>2
            DEF Load, poolVars, TypeOK, Due, Current
  <1>3. ASSUME NEW m \in Models, Serve(m) \/ Capture(m) \/ Drop(m)
        PROVE  LoadingFollows'
    BY <1>1, <1>3, <1>t DEF Serve, Capture, Drop, objectVars, TypeOK
  <1>4. ASSUME NEW l \in Dispatch, Register(l) \/ CollectMethod(l)
        PROVE  LoadingFollows'
    BY <1>1, <1>4 DEF Register, CollectMethod, objectVars
  <1>5. ASSUME NEW l \in Layers, CollectLayer(l) PROVE LoadingFollows'
    BY <1>5 DEF CollectLayer, poolVars, Due, Current
  <1>6. ASSUME NEW id \in 0..nextId, Expire(id) \/ LookupExpired(id)
        PROVE  LoadingFollows'
    BY <1>1, <1>6 DEF Expire, LookupExpired, objectVars
  <1>7. ASSUME NEW l \in Streamed, ReserveFits(l) PROVE LoadingFollows'
    BY <1>7, <1>t DEF ReserveFits, objectVars, Finalizes, Free, Due, Current,
                      TypeOK
  <1>8. ASSUME NEW l \in Streamed, ReserveGrows(l) PROVE LoadingFollows'
    <2>1. /\ UNCHANGED <<engine, buf, alive>> /\ growing = {} /\ buf[l] = 0
          /\ growing' = (clients \cap alive) \cup {l}
      BY <1>8 DEF ReserveGrows, Listed, Rebound, objectVars, Finalizes,
                  Finalized, Free
    <2>2. Current' = Current + 1
      BY <1>8, <1>t, GrowthFacts
    <2>3. ASSUME NEW k \in Streamed, engine[ModelOf[k]] = "loading", buf[k] # 0
          PROVE  buf[k] = Due(k)'
      <3>1. buf[k] = Current /\ k \in alive
        BY <2>1, <2>3 DEF Due
      <3>2. k \in growing'
        BY <2>1, <2>3, <3>1 DEF IInv, PoolInv, Bound
      <3> QED BY <1>t, <2>2, <3>1, <3>2 DEF Due
    <2> QED BY <2>1, <2>3
  <1>9. ASSUME NEW l \in Streamed, ReserveFails(l) \/ RebindRaises(l)
        PROVE  LoadingFollows'
    <2>1. \A m \in Models : engine'[m] # "loading"
      BY <1>9 DEF ReserveFails, RebindRaises, LoadRaises
    <2> QED BY <2>1
  <1>10. ASSUME NEW l \in Streamed, Rebind(l) PROVE LoadingFollows'
    <2>1. /\ UNCHANGED <<engine, storages, alive>> /\ growing' = growing \ {l}
          /\ buf' = IF l \in alive THEN [buf EXCEPT ![l] = Current] ELSE buf
      BY <1>10 DEF Rebind, objectVars
    <2>2. UNCHANGED Current
      BY <2>1 DEF Current
    <2>3. ASSUME NEW k \in Streamed, engine[ModelOf[k]] = "loading",
                 buf'[k] # 0
          PROVE  k \in alive /\ buf'[k] = Due(k)'
      <3>1. CASE k = l
        BY <1>t, <2>1, <2>2, <2>3, <3>1 DEF Due, TypeOK
      <3>2. CASE k # l
        BY <1>t, <2>1, <2>2, <2>3, <3>2 DEF Due, TypeOK
      <3> QED BY <3>1, <3>2
    <2> QED BY <2>1, <2>3
  <1>11. ASSUME UNCHANGED vars PROVE LoadingFollows'
    BY <1>1, <1>11 DEF vars, objectVars
  <1> QED BY <1>2, <1>3, <1>4, <1>5, <1>6, <1>7, <1>8, <1>9, <1>10, <1>11
          DEF Next, AllGone

LEMMA GraphsStep ==
    ASSUME IInv, GraphInv, [Next]_vars
    PROVE  ReadyFollows' /\ GraphsFollow'
PROOF
  <1> USE LayerFacts
  <1>t. TypeOK /\ Current \in Nat /\ Room \in Nat
    BY RoomIsCurrent DEF IInv
  <1>s. \A m \in Models : \A l \in StreamedOf(m) :
            l \in Streamed /\ l \in Layers /\ ModelOf[l] = m
    BY DEF StreamedOf, LayersOf
  \* A model in service stays within the pool it was bound to.
  <1>1. ASSUME UNCHANGED <<storages, graph>>,
               \A l \in Streamed : buf'[l] # buf[l] => buf'[l] = Current,
               \A l \in Streamed : buf[l] # 0 => buf'[l] # 0,
               \A m \in Models : engine'[m] = "ready" => engine[m] = "ready",
               \A m \in Models : engine[m] \in {"ready", "dropped"} =>
                                     engine'[m] \in {"ready", "dropped"}
        PROVE  ReadyFollows' /\ GraphsFollow'
    <2>1. UNCHANGED <<Current, Room>>
      BY <1>1 DEF Current, Room
    <2>2. \A m \in Models : Outgrown(m)' <=> Outgrown(m)
      BY <2>1 DEF Outgrown, StreamedOf
    <2>3. ReadyFollows'
      BY <1>1, <1>s, <2>1, <2>2 DEF GraphInv, ReadyFollows, StreamedOf
    <2>4. GraphsFollow'
      BY <1>1, <1>s, <2>1, <2>2 DEF GraphInv, GraphsFollow, StreamedOf
    <2> QED BY <2>3, <2>4
  <1>2. ASSUME NEW m \in Models, Load(m) PROVE ReadyFollows' /\ GraphsFollow'
    BY <1>1, <1>2, <1>t DEF Load, poolVars, TypeOK
  <1>3. ASSUME NEW m \in Models, Drop(m) PROVE ReadyFollows' /\ GraphsFollow'
    BY <1>1, <1>3, <1>t DEF Drop, poolVars, TypeOK
  <1>4. ASSUME NEW l \in Layers,
               Register(l) \/ CollectMethod(l) \/ CollectLayer(l)
        PROVE  ReadyFollows' /\ GraphsFollow'
    BY <1>1, <1>4 DEF Register, CollectMethod, CollectLayer, poolVars
  <1>5. ASSUME NEW id \in 0..nextId, Expire(id) \/ LookupExpired(id)
        PROVE  ReadyFollows' /\ GraphsFollow'
    BY <1>1, <1>5 DEF Expire, LookupExpired, poolVars
  <1>6. ASSUME NEW l \in Streamed, ReserveFits(l)
        PROVE  ReadyFollows' /\ GraphsFollow'
    <2>1. /\ UNCHANGED <<engine, storages, graph>> /\ buf[l] = 0
          /\ buf' = [buf EXCEPT ![l] = Current]
      BY <1>6 DEF ReserveFits, Finalizes, Finalized
    <2> QED BY <1>1, <1>t, <2>1 DEF TypeOK
  <1>7. ASSUME NEW l \in Streamed, ReserveFails(l) \/ RebindRaises(l)
        PROVE  ReadyFollows' /\ GraphsFollow'
    <2>1. /\ UNCHANGED <<storages, buf, graph>>
          /\ LoadRaises
      BY <1>7 DEF ReserveFails, RebindRaises
    <2> QED BY <1>1, <1>t, <2>1 DEF LoadRaises, TypeOK
  <1>8. ASSUME NEW l \in Streamed, Rebind(l)
        PROVE  ReadyFollows' /\ GraphsFollow'
    <2>1. /\ UNCHANGED <<engine, storages, graph>>
          /\ buf' = IF l \in alive THEN [buf EXCEPT ![l] = Current] ELSE buf
          /\ l \in alive => Size[l] <= Room
      BY <1>8 DEF Rebind
    <2>2. l \in alive => Current # 0
      BY <1>t, <2>1, RoomIsCurrent
    <2> QED BY <1>1, <1>t, <2>1, <2>2 DEF TypeOK
  \* Growth leaves behind exactly what has been outgrown.
  <1>9. ASSUME NEW l \in Streamed, ReserveGrows(l)
        PROVE  ReadyFollows' /\ GraphsFollow'
    <2>1. /\ UNCHANGED <<engine, buf, graph>>
          /\ Room' = Size[l] /\ Room < Size[l]
      BY <1>9, <1>t, GrowthFacts DEF ReserveGrows
    <2>2. ASSUME NEW m \in Models, \A k \in StreamedOf(m) : buf[k] # 0
          PROVE  Outgrown(m)'
      <3>1. \A k \in StreamedOf(m) : Size[k] <= Room
        BY <1>s, <2>2 DEF IInv, PoolInv, Bound
      <3> QED BY <1>s, <1>t, <2>1, <3>1 DEF Outgrown, StreamedOf
    <2>3. ReadyFollows'
      BY <2>1, <2>2 DEF GraphInv, ReadyFollows, StreamedOf
    <2>4. GraphsFollow'
      BY <2>1, <2>2 DEF GraphInv, GraphsFollow, StreamedOf
    <2> QED BY <2>3, <2>4
  <1>10. ASSUME NEW m \in Models, Serve(m)
         PROVE  ReadyFollows' /\ GraphsFollow'
    <2>1. /\ UNCHANGED <<storages, buf, graph>> /\ growing = {}
          /\ engine[m] = "loading" /\ engine' = [engine EXCEPT ![m] = "ready"]
          /\ \A l \in StreamedOf(m) : buf[l] # 0
      BY <1>10 DEF Serve, poolVars, Free, Finalized, StreamedOf
    <2>2. UNCHANGED <<Current, Room>>
      BY <2>1 DEF Current, Room
    <2>3. \A l \in StreamedOf(m) : buf[l] = Current
      BY <1>s, <2>1 DEF GraphInv, LoadingFollows, Due
    <2>4. \A n \in Models : Outgrown(n)' <=> Outgrown(n)
      BY <2>2 DEF Outgrown, StreamedOf
    <2>5. ReadyFollows'
      BY <1>t, <2>1, <2>2, <2>3, <2>4
         DEF GraphInv, ReadyFollows, StreamedOf, TypeOK
    <2>6. GraphsFollow'
      BY <1>t, <2>1, <2>2, <2>4 DEF GraphInv, GraphsFollow, StreamedOf, TypeOK
    <2> QED BY <2>5, <2>6
  <1>11. ASSUME NEW m \in Models, Capture(m)
         PROVE  ReadyFollows' /\ GraphsFollow'
    <2>1. /\ UNCHANGED <<engine, storages, buf>> /\ engine[m] = "ready"
          /\ graph' = [graph EXCEPT ![m] = {<<l, buf[l]>> : l \in StreamedOf(m)}]
      BY <1>11 DEF Capture, poolVars, StreamedOf
    <2>2. UNCHANGED <<Current, Room>>
      BY <2>1 DEF Current, Room
    <2>3. \A n \in Models : Outgrown(n)' <=> Outgrown(n)
      BY <2>2 DEF Outgrown, StreamedOf
    <2>4. ReadyFollows'
      BY <2>1, <2>2, <2>3 DEF GraphInv, ReadyFollows, StreamedOf
    <2>5. ASSUME NEW n \in Models, NEW c \in graph'[n]
          PROVE  /\ engine[n] \in {"ready", "dropped"}
                 /\ \A l \in StreamedOf(n) : buf[l] # 0
                 /\ c[2] = Current \/ Outgrown(n)
      <3>1. CASE n = m
        <4>1. PICK l \in StreamedOf(m) : c = <<l, buf[l]>>
          BY <1>t, <2>1, <2>5, <3>1 DEF TypeOK
        <4> QED BY <2>1, <3>1, <4>1 DEF GraphInv, ReadyFollows
      <3>2. CASE n # m
        BY <1>t, <2>1, <2>5, <3>2 DEF GraphInv, GraphsFollow, TypeOK
      <3> QED BY <3>1, <3>2
    <2>6. GraphsFollow'
      BY <2>1, <2>2, <2>3, <2>5 DEF GraphsFollow, StreamedOf
    <2> QED BY <2>4, <2>6
  <1>12. ASSUME UNCHANGED vars PROVE ReadyFollows' /\ GraphsFollow'
    BY <1>1, <1>12 DEF vars, poolVars
  <1> QED BY <1>2, <1>3, <1>4, <1>5, <1>6, <1>7, <1>8, <1>9, <1>10, <1>11,
             <1>12 DEF Next, AllGone, Layers

\* A captured graph's storage is only ever superseded by a tile larger than
\* every tile of the captured model.
THEOREM GraphsSurviveLoadsThatFit == Spec => []GraphsOutliveLoadsThatFit
PROOF
  <1>1. Init => GInv
    BY InitIInv, InitGraphInv DEF GInv
  <1>2. GInv /\ [Next]_vars => GInv'
    BY TypeStep, AbsentStep, RegistryStep, PoolStep, LoadingStep, GraphsStep
       DEF GInv, IInv, GraphInv
  <1>3. GInv => GraphsOutliveLoadsThatFit
    BY DEF GInv, GraphInv, GraphsFollow, GraphsOutliveLoadsThatFit, Outgrown,
           StreamedOf
  <1> QED BY <1>1, <1>2, <1>3, PTL DEF Spec

------------------------------------------------------------------------------
(* The routing caches. *)


Holders == {"get", "lock", "pool", "alloc", "put"}

\* A call works on a layer that exists, through the dictionary it keeps.
Grounded ==
    \A t \in Threads :
        /\ pc[t] # "idle" => lay[t] \in loaded
        /\ pc[t] \in Holders => /\ mine[t] = cacheOf[lay[t]]
                                /\ mine[t] # None

PoolHeld == \A t \in Threads : pc[t] \in {"pool", "alloc"} => poolLock = t

\* What is kept, and what is about to be kept, is what the pool names.
KeptIsPooled ==
    \A l \in loaded, k \in Keys : Kept(l, k) \in {None, pool[k]}

StoredIsPooled ==
    \A t \in Threads : pc[t] = "put" => /\ val[t] = pool[key[t]]
                                        /\ val[t] # None

\* A tensor is made only while nobody keeps or is about to keep another.
NothingPooled ==
    \A t \in Threads : pc[t] = "alloc" =>
        /\ \A l \in loaded : Kept(l, key[t]) = None
        /\ \A s \in Threads : pc[s] = "put" => key[s] # key[t]

CachesInv ==
    /\ CachesTypeOK /\ Grounded /\ PoolHeld
    /\ KeptIsPooled /\ StoredIsPooled /\ NothingPooled
    /\ HandedIsKept

------------------------------------------------------------------------------
(* What the objects hold. *)

LEMMA KeptType ==
    ASSUME CachesTypeOK, NEW l \in RoutedLayers, NEW k \in Keys
    PROVE  /\ cacheOf[l] \in Objects \cup {None}
           /\ Kept(l, k) \in Objects \cup {None}
BY DEF CachesTypeOK, Kept

\* A new object is in no dictionary, and its own dictionary is empty.
LEMMA MadeKeeps ==
    ASSUME CachesTypeOK, Make, NEW l \in RoutedLayers, NEW k \in Keys
    PROVE  /\ New \in Objects' /\ New # None /\ New \notin Objects
           /\ Objects \subseteq Objects' /\ made' \in Nat
           /\ slot' \in [Objects' -> [Keys -> Objects' \cup {None}]]
           /\ slot'[New] = [j \in Keys |-> None]
           /\ cacheOf[l] # None => slot'[cacheOf[l]] = slot[cacheOf[l]]
PROOF
  <1> USE DEF CachesTypeOK, Objects, None
  <1>1. /\ made \in Nat /\ made' = made + 1 /\ New = made + 1
        /\ 1..made \subseteq 1..(made + 1)
    BY DEF Make, New
  <1>2. slot' = [d \in 1..(made + 1) |-> IF d \in 1..made THEN slot[d]
                                         ELSE [j \in Keys |-> None]]
    BY DEF Make
  <1>3. ASSUME NEW d \in 1..(made + 1)
        PROVE  slot'[d] \in [Keys -> 1..(made + 1) \cup {0}]
    <2>1. CASE d \in 1..made
      <3>1. slot'[d] = slot[d] /\ slot[d] \in [Keys -> 1..made \cup {0}]
        BY <1>2, <2>1
      <3> QED BY <3>1, <1>1
    <2>2. CASE d \notin 1..made
      BY <1>2, <2>2
    <2> QED BY <2>1, <2>2
  <1>4. slot' \in [1..(made + 1) -> [Keys -> 1..(made + 1) \cup {0}]]
    BY <1>2, <1>3
  <1>5. cacheOf[l] # None => cacheOf[l] \in 1..made
    BY DEF CachesTypeOK
  <1>6. New \notin 1..made /\ New \in 1..(made + 1)
    BY <1>1
  <1>7. slot'[New] = [j \in Keys |-> None]
    BY <1>2, <1>6, <1>1
  <1>8. cacheOf[l] # None => slot'[cacheOf[l]] = slot[cacheOf[l]]
    BY <1>1, <1>2, <1>5
  <1> QED BY <1>1, <1>4, <1>6, <1>7, <1>8

LEMMA PooledIs ==
    ASSUME NEW k \in Keys
    PROVE  Pooled(k) \in {None, pool[k]}
BY DEF Pooled

\* The pool answers for a tensor that a layer keeps or a call is to store.
LEMMA PooledInUse ==
    ASSUME CachesTypeOK, KeptIsPooled, StoredIsPooled, NEW k \in Keys,
           Pooled(k) = None
    PROVE  /\ \A l \in loaded : Kept(l, k) = None
           /\ \A s \in Threads : pc[s] = "put" => key[s] # k
PROOF
  <1>1. ASSUME NEW l \in loaded, Kept(l, k) # None
        PROVE  FALSE
    <2>1. Kept(l, k) = pool[k] /\ pool[k] # None
      BY <1>1 DEF KeptIsPooled
    <2>2. cacheOf[l] \in Objects /\ slot[cacheOf[l]][k] = pool[k]
      BY <1>1, <2>1 DEF Kept, CachesTypeOK
    <2>3. Alive(pool[k])
      BY <2>2 DEF Alive
    <2> QED BY <2>1, <2>3 DEF Pooled
  <1>2. ASSUME NEW s \in Threads, pc[s] = "put", key[s] = k
        PROVE  FALSE
    <2>1. val[s] = pool[k] /\ pool[k] # None
      BY <1>2 DEF StoredIsPooled
    <2>2. Alive(pool[k])
      BY <2>1 DEF Alive
    <2> QED BY <2>1, <2>2 DEF Pooled
  <1> QED BY <1>1, <1>2

------------------------------------------------------------------------------
(* Types. *)

LEMMA InitInv == CachesInit => CachesInv
PROOF
  <1> SUFFICES ASSUME CachesInit PROVE CachesInv
    OBVIOUS
  <1>1. (CHOOSE l \in RoutedLayers : TRUE) \in RoutedLayers /\ (CHOOSE k \in Keys : TRUE) \in Keys
    BY CachesAssumption
  <1>2. CachesTypeOK
    <2>1. Objects = {}
      BY DEF CachesInit, Objects
    <2>2. slot \in [Objects -> [Keys -> Objects \cup {None}]]
      BY <2>1 DEF CachesInit
    <2> QED BY <1>1, <2>2, CachesAssumption DEF CachesInit, CachesTypeOK
  <1>3. \A l \in loaded, k \in Keys : Kept(l, k) = None
    BY DEF CachesInit, Kept
  <1>4. Grounded /\ PoolHeld /\ StoredIsPooled /\ NothingPooled
    BY DEF CachesInit, Grounded, PoolHeld, StoredIsPooled, NothingPooled, Holders
  <1>5. KeptIsPooled /\ HandedIsKept
    BY <1>3 DEF KeptIsPooled, HandedIsKept, CachesInit
  <1> QED BY <1>2, <1>4, <1>5 DEF CachesInv

LEMMA NextTypes == CachesInv /\ [CachesNext]_routingVars => CachesTypeOK'
PROOF
  <1> SUFFICES ASSUME CachesInv, [CachesNext]_routingVars PROVE CachesTypeOK'
    OBVIOUS
  <1>a. CachesTypeOK /\ Grounded
    BY DEF CachesInv
  <1> USE DEF Goto, cacheVars, lockVars, localVars
  <1>1. CASE UNCHANGED routingVars
    BY <1>1, <1>a DEF routingVars, CachesTypeOK, Objects
  <1>2. ASSUME NEW t \in Threads, Lookup(t) PROVE CachesTypeOK'
    <2>1. lookups[t] + 1 \in 0..MaxLookups
      BY <1>2, <1>a, CachesAssumption DEF Lookup, CachesTypeOK
    <2> QED BY <1>2, <1>a, <2>1 DEF Lookup, CachesTypeOK, Objects
  <1>3. ASSUME NEW t \in Threads, LookAttr(t) PROVE CachesTypeOK'
    BY <1>3, <1>a DEF LookAttr, CachesTypeOK, Objects
  <1>4. ASSUME NEW t \in Threads, LockInit(t) PROVE CachesTypeOK'
    BY <1>4, <1>a DEF LockInit, CachesTypeOK, Objects
  <1>5. ASSUME NEW t \in Threads, Create(t) PROVE CachesTypeOK'
    <2>1. CASE cacheOf[lay[t]] # None
      BY <1>5, <1>a, <2>1 DEF Create, CachesTypeOK, Objects
    <2>2. CASE cacheOf[lay[t]] = None
      <3>1. PICK k \in Keys : TRUE
        BY CachesAssumption
      <3>2. Make
        BY <1>5, <2>2 DEF Create
      <3>3. lay[t] \in RoutedLayers
        BY <1>a DEF CachesTypeOK
      <3>4. /\ New \in Objects' /\ Objects \subseteq Objects' /\ made' \in Nat
            /\ slot' \in [Objects' -> [Keys -> Objects' \cup {None}]]
        BY <1>a, <3>1, <3>2, <3>3, MadeKeeps
      <3>5. /\ cacheOf' \in [RoutedLayers -> Objects' \cup {None}]
            /\ mine' \in [Threads -> Objects' \cup {None}]
            /\ val' \in [Threads -> Objects' \cup {None}]
            /\ pool' \in [Keys -> Objects' \cup {None}]
            /\ handed' \subseteq RoutedLayers \X Keys \X Objects'
        BY <1>5, <1>a, <2>2, <3>4 DEF Create, CachesTypeOK
      <3>6. /\ loaded' \subseteq RoutedLayers
            /\ initLock' \in Threads \cup {Unlocked} /\ poolLock' \in Threads \cup {Unlocked}
            /\ pc' \in [Threads -> {"idle", "attr", "init", "create", "get",
                                    "lock", "pool", "alloc", "put"}]
            /\ lay' \in [Threads -> RoutedLayers] /\ key' \in [Threads -> Keys]
            /\ lookups' \in [Threads -> 0..MaxLookups]
        BY <1>5, <1>a, <2>2 DEF Create, CachesTypeOK
      <3> QED BY <3>4, <3>5, <3>6 DEF CachesTypeOK
    <2> QED BY <2>1, <2>2
  <1>6. ASSUME NEW t \in Threads, Found(t) PROVE CachesTypeOK'
    <2>1. slot[mine[t]][key[t]] \in Objects
      BY <1>6, <1>a DEF Found, CachesTypeOK, Grounded, Holders
    <2>2. <<lay[t], key[t], slot[mine[t]][key[t]]>> \in RoutedLayers \X Keys \X Objects
      BY <2>1, <1>a DEF CachesTypeOK
    <2> QED BY <1>6, <1>a, <2>2 DEF Found, Return, CachesTypeOK, Objects
  <1>7. ASSUME NEW t \in Threads, Missed(t) PROVE CachesTypeOK'
    BY <1>7, <1>a DEF Missed, CachesTypeOK, Objects
  <1>8. ASSUME NEW t \in Threads, LockPool(t) PROVE CachesTypeOK'
    BY <1>8, <1>a DEF LockPool, CachesTypeOK, Objects
  <1>9. ASSUME NEW t \in Threads, LookPool(t) PROVE CachesTypeOK'
    <2>1. Pooled(key[t]) \in Objects \cup {None}
      BY <1>a, PooledIs DEF CachesTypeOK
    <2> QED BY <1>9, <1>a, <2>1 DEF LookPool, CachesTypeOK, Objects
  <1>10. ASSUME NEW t \in Threads, Alloc(t) PROVE CachesTypeOK'
    <2>1. Make /\ key[t] \in Keys /\ lay[t] \in RoutedLayers
      BY <1>10, <1>a DEF Alloc, CachesTypeOK
    <2>2. /\ New \in Objects' /\ Objects \subseteq Objects' /\ made' \in Nat
          /\ slot' \in [Objects' -> [Keys -> Objects' \cup {None}]]
      BY <1>a, <2>1, MadeKeeps
    <2>3. /\ cacheOf' \in [RoutedLayers -> Objects' \cup {None}]
          /\ mine' \in [Threads -> Objects' \cup {None}]
          /\ val' \in [Threads -> Objects' \cup {None}]
          /\ pool' \in [Keys -> Objects' \cup {None}]
          /\ handed' \subseteq RoutedLayers \X Keys \X Objects'
      BY <1>10, <1>a, <2>1, <2>2 DEF Alloc, CachesTypeOK
    <2>4. /\ loaded' \subseteq RoutedLayers
          /\ initLock' \in Threads \cup {Unlocked} /\ poolLock' \in Threads \cup {Unlocked}
          /\ pc' \in [Threads -> {"idle", "attr", "init", "create", "get",
                                  "lock", "pool", "alloc", "put"}]
          /\ lay' \in [Threads -> RoutedLayers] /\ key' \in [Threads -> Keys]
          /\ lookups' \in [Threads -> 0..MaxLookups]
      BY <1>10, <1>a DEF Alloc, CachesTypeOK
    <2> QED BY <2>2, <2>3, <2>4 DEF CachesTypeOK
  <1>11. ASSUME NEW t \in Threads, AllocRaises(t) PROVE CachesTypeOK'
    BY <1>11, <1>a DEF AllocRaises, CachesTypeOK, Objects
  <1>12. ASSUME NEW t \in Threads, Put(t) PROVE CachesTypeOK'
    <2>1. Settled(t) \in Objects /\ mine[t] \in Objects
      <3>1. mine[t] \in Objects /\ val[t] \in Objects
        BY <1>12, <1>a DEF Put, CachesTypeOK, Grounded, Holders, CachesInv, StoredIsPooled
      <3> QED BY <3>1, <1>a DEF Settled, CachesTypeOK
    <2>2. slot' \in [Objects -> [Keys -> Objects \cup {None}]]
      BY <1>12, <1>a, <2>1 DEF Put, CachesTypeOK
    <2>3. <<lay[t], key[t], Settled(t)>> \in RoutedLayers \X Keys \X Objects
      BY <2>1, <1>a DEF CachesTypeOK
    <2> QED BY <1>12, <1>a, <2>2, <2>3 DEF Put, Return, CachesTypeOK, Objects
  <1>13. ASSUME NEW l \in RoutedLayers, Unload(l) PROVE CachesTypeOK'
    BY <1>13, <1>a DEF Unload, CachesTypeOK, Objects
  <1>14. ASSUME NEW t \in Threads, Step(t) PROVE CachesTypeOK'
    BY <1>14, <1>3, <1>4, <1>5, <1>6, <1>7, <1>8, <1>9, <1>10, <1>11, <1>12 DEF Step
  <1> QED BY <1>1, <1>2, <1>13, <1>14 DEF CachesNext, Quiet

------------------------------------------------------------------------------
(* What a layer keeps changes only when a tensor is put into its dictionary. *)

LEMMA CreateKeeps ==
    ASSUME CachesTypeOK, NEW t \in Threads, Create(t),
           NEW l \in RoutedLayers, NEW k \in Keys
    PROVE  Kept(l, k)' = Kept(l, k)
PROOF
  <1>1. CASE cacheOf[lay[t]] # None
    BY <1>1 DEF Create, Kept
  <1>2. CASE cacheOf[lay[t]] = None
    <2>1. Make /\ cacheOf' = [cacheOf EXCEPT ![lay[t]] = New] /\ lay[t] \in RoutedLayers
      BY <1>2 DEF Create, CachesTypeOK
    <2>2. /\ New # None /\ slot'[New] = [j \in Keys |-> None]
          /\ cacheOf[l] # None => slot'[cacheOf[l]] = slot[cacheOf[l]]
      BY <2>1, MadeKeeps
    <2>3. cacheOf'[l] = IF l = lay[t] THEN New ELSE cacheOf[l]
      BY <2>1 DEF CachesTypeOK
    <2> QED BY <1>2, <2>2, <2>3 DEF Kept
  <1> QED BY <1>1, <1>2

LEMMA AllocKeeps ==
    ASSUME CachesTypeOK, NEW t \in Threads, Alloc(t),
           NEW l \in RoutedLayers, NEW k \in Keys
    PROVE  Kept(l, k)' = Kept(l, k)
PROOF
  <1>1. Make /\ cacheOf' = cacheOf
    BY DEF Alloc
  <1>2. cacheOf[l] # None => slot'[cacheOf[l]] = slot[cacheOf[l]]
    BY <1>1, MadeKeeps
  <1> QED BY <1>1, <1>2 DEF Kept

LEMMA PutKeeps ==
    ASSUME CachesTypeOK, Grounded, NEW t \in Threads, Put(t),
           NEW l \in RoutedLayers, NEW k \in Keys
    PROVE  /\ mine[t] \in Objects /\ mine[t] # None
           /\ Kept(l, k)' = IF cacheOf[l] = mine[t] /\ k = key[t]
                            THEN Settled(t) ELSE Kept(l, k)
PROOF
  <1>1. mine[t] \in Objects /\ mine[t] # None
    BY DEF Put, Goto, Grounded, Holders, CachesTypeOK
  <1>2. slot' = [slot EXCEPT ![mine[t]][key[t]] = Settled(t)] /\ cacheOf' = cacheOf
    BY DEF Put
  <1>3. ASSUME cacheOf[l] # None
        PROVE  slot'[cacheOf[l]][k] = IF cacheOf[l] = mine[t] /\ k = key[t]
                                      THEN Settled(t) ELSE slot[cacheOf[l]][k]
    <2>1. cacheOf[l] \in Objects /\ slot \in [Objects -> [Keys -> Objects \cup {None}]]
      BY <1>3 DEF CachesTypeOK
    <2>2. slot[mine[t]] \in [Keys -> Objects \cup {None}]
      BY <1>1, <2>1
    <2> QED BY <1>1, <1>2, <2>1, <2>2
  <1> QED BY <1>1, <1>2, <1>3 DEF Kept

\* The tensor a call settles on is the pool's, and what its layer keeps.
LEMMA SettledIs ==
    ASSUME CachesInv, NEW t \in Threads, Put(t)
    PROVE  /\ Settled(t) = pool[key[t]] /\ Settled(t) # None
           /\ cacheOf[lay[t]] = mine[t]
           /\ Kept(lay[t], key[t]) \in {None, Settled(t)}
PROOF
  <1>1. /\ cacheOf[lay[t]] = mine[t] /\ mine[t] # None /\ lay[t] \in loaded
        /\ key[t] \in Keys /\ val[t] = pool[key[t]] /\ val[t] # None
    BY DEF CachesInv, Grounded, StoredIsPooled, Put, Goto, Holders, CachesTypeOK
  <1>2. Kept(lay[t], key[t]) = slot[mine[t]][key[t]]
    BY <1>1 DEF Kept
  <1>3. Kept(lay[t], key[t]) \in {None, pool[key[t]]}
    BY <1>1 DEF CachesInv, KeptIsPooled
  <1> QED BY <1>1, <1>2, <1>3 DEF Settled

\* What a layer keeps of key k after a tensor was put away.
LEMMA PutKept ==
    ASSUME CachesInv, NEW t \in Threads, Put(t),
           NEW l \in loaded, NEW k \in Keys
    PROVE  /\ Kept(l, k)' \in {Kept(l, k), pool[k]}
           /\ k # key[t] => Kept(l, k)' = Kept(l, k)
           /\ Kept(l, k) # None => Kept(l, k)' = Kept(l, k)
           /\ l = lay[t] /\ k = key[t] => Kept(l, k)' = Settled(t)
PROOF
  <1>1. CachesTypeOK /\ Grounded /\ KeptIsPooled /\ l \in RoutedLayers
        /\ lay[t] \in RoutedLayers /\ key[t] \in Keys
    BY DEF CachesInv, CachesTypeOK
  <1>2. Settled(t) = pool[key[t]] /\ cacheOf[lay[t]] = mine[t]
    BY SettledIs
  <1>3. Kept(l, k)' = IF cacheOf[l] = mine[t] /\ k = key[t]
                      THEN Settled(t) ELSE Kept(l, k)
    BY <1>1, PutKeeps
  <1>4. Kept(l, k) \in {None, pool[k]}
    BY <1>1 DEF KeptIsPooled
  <1> QED BY <1>2, <1>3, <1>4

------------------------------------------------------------------------------
(* Each action keeps the rest of the invariant. *)

Rest == Grounded /\ PoolHeld /\ KeptIsPooled /\ StoredIsPooled
        /\ NothingPooled /\ HandedIsKept

LEMMA KeptSame ==
    ASSUME cacheOf' = cacheOf, slot' = slot, NEW l, NEW k
    PROVE  Kept(l, k)' = Kept(l, k)
BY DEF Kept

\* An action that touches neither a dictionary nor the pool, hands nothing
\* out, and whose thread s does not begin to hold a tensor.
LEMMA QuietStep ==
    ASSUME CachesInv, CachesTypeOK', cacheOf' = cacheOf, slot' = slot, pool' = pool,
           handed' = handed, loaded' \subseteq loaded, Grounded', PoolHeld',
           \A s \in Threads :
               /\ key'[s] = key[s] \/ pc'[s] \notin {"alloc", "put"}
               /\ pc'[s] = "alloc" => pc[s] = "alloc"
               /\ pc'[s] = "put" => pc[s] = "put" /\ val'[s] = val[s]
    PROVE  Rest'
PROOF
  <1>1. \A l, k : Kept(l, k)' = Kept(l, k)
    BY KeptSame
  <1>2. KeptIsPooled' /\ HandedIsKept'
    BY <1>1 DEF CachesInv, KeptIsPooled, HandedIsKept
  <1>3. StoredIsPooled'
    BY DEF CachesInv, StoredIsPooled
  <1>4. NothingPooled'
    BY <1>1 DEF CachesInv, NothingPooled
  <1> QED BY <1>2, <1>3, <1>4 DEF Rest

LEMMA NextRest == CachesInv /\ CachesTypeOK' /\ [CachesNext]_routingVars => Rest'
PROOF
  <1> SUFFICES ASSUME CachesInv, CachesTypeOK', [CachesNext]_routingVars PROVE Rest'
    OBVIOUS
  <1>a. CachesTypeOK /\ Grounded /\ PoolHeld
    BY DEF CachesInv
  <1> USE DEF Goto, cacheVars, lockVars, localVars
  <1>1. CASE UNCHANGED routingVars
    <2>1. Grounded' /\ PoolHeld'
      BY <1>1, <1>a DEF routingVars, Grounded, PoolHeld
    <2> QED BY <1>1, <2>1, QuietStep DEF routingVars
  <1>2. ASSUME NEW t \in Threads, Lookup(t) PROVE Rest'
    <2>1. Grounded' /\ PoolHeld'
      BY <1>2, <1>a DEF Lookup, CachesTypeOK, Grounded, PoolHeld, Holders
    <2>2. \A s \in Threads :
               /\ key'[s] = key[s] \/ pc'[s] \notin {"alloc", "put"}
               /\ pc'[s] = "alloc" => pc[s] = "alloc"
               /\ pc'[s] = "put" => pc[s] = "put" /\ val'[s] = val[s]
      BY <1>2, <1>a DEF Lookup, CachesTypeOK
    <2> QED BY <1>2, <2>1, <2>2, QuietStep DEF Lookup
  <1>3. ASSUME NEW t \in Threads, LookAttr(t) PROVE Rest'
    <2>1. Grounded' /\ PoolHeld'
      BY <1>3, <1>a DEF LookAttr, CachesTypeOK, Grounded, PoolHeld, Holders
    <2>2. \A s \in Threads :
               /\ pc'[s] = "alloc" => pc[s] = "alloc"
               /\ pc'[s] = "put" => pc[s] = "put" /\ val'[s] = val[s]
      BY <1>3, <1>a DEF LookAttr, CachesTypeOK
    <2> QED BY <1>3, <2>1, <2>2, QuietStep DEF LookAttr
  <1>4. ASSUME NEW t \in Threads, LockInit(t) PROVE Rest'
    <2>1. Grounded' /\ PoolHeld'
      BY <1>4, <1>a DEF LockInit, CachesTypeOK, Grounded, PoolHeld, Holders
    <2>2. \A s \in Threads :
               /\ pc'[s] = "alloc" => pc[s] = "alloc"
               /\ pc'[s] = "put" => pc[s] = "put" /\ val'[s] = val[s]
      BY <1>4, <1>a DEF LockInit, CachesTypeOK
    <2> QED BY <1>4, <2>1, <2>2, QuietStep DEF LockInit
  <1>5. ASSUME NEW t \in Threads, Create(t) PROVE Rest'
    <2>1. \A l \in RoutedLayers, k \in Keys : Kept(l, k)' = Kept(l, k)
      BY <1>5, <1>a, CreateKeeps
    <2>2. /\ loaded' = loaded /\ pool' = pool /\ poolLock' = poolLock
          /\ handed' = handed /\ val' = val /\ key' = key /\ lay' = lay
          /\ pc[t] = "create" /\ pc' = [pc EXCEPT ![t] = "get"]
          /\ pc \in [Threads -> {"idle", "attr", "init", "create", "get",
                                 "lock", "pool", "alloc", "put"}]
      BY <1>5, <1>a DEF Create, CachesTypeOK
    <2>3. /\ lay[t] \in RoutedLayers /\ mine'[t] = cacheOf'[lay[t]] /\ mine'[t] # None
          /\ \A s \in Threads : s # t => mine'[s] = mine[s]
          /\ \A l \in RoutedLayers : cacheOf[l] # None => cacheOf'[l] = cacheOf[l]
      <3>1. CASE cacheOf[lay[t]] # None
        BY <1>5, <1>a, <3>1 DEF Create, CachesTypeOK
      <3>2. CASE cacheOf[lay[t]] = None
        <4>1. New # None
          BY <1>a DEF New, CachesTypeOK, None
        <4> QED BY <1>5, <1>a, <3>2, <4>1 DEF Create, CachesTypeOK
      <3> QED BY <3>1, <3>2
    <2>4. Grounded'
      BY <2>2, <2>3, <1>a DEF Grounded, Holders, CachesTypeOK
    <2>5. PoolHeld'
      BY <2>2, <1>a DEF PoolHeld
    <2>6. KeptIsPooled'
      BY <2>1, <2>2, <1>a DEF CachesInv, KeptIsPooled, CachesTypeOK
    <2>7. StoredIsPooled'
      BY <2>2 DEF CachesInv, StoredIsPooled
    <2>8. NothingPooled'
      BY <2>1, <2>2, <1>a DEF CachesInv, NothingPooled, CachesTypeOK
    <2>9. HandedIsKept'
      BY <2>1, <2>2, <1>a DEF CachesInv, HandedIsKept, CachesTypeOK
    <2> QED BY <2>4, <2>5, <2>6, <2>7, <2>8, <2>9 DEF Rest
  <1>6. ASSUME NEW t \in Threads, Found(t) PROVE Rest'
    <2>1. Grounded' /\ PoolHeld'
      BY <1>6, <1>a DEF Found, Return, CachesTypeOK, Grounded, PoolHeld, Holders
    <2>2. \A l, k : Kept(l, k)' = Kept(l, k)
      BY <1>6, KeptSame DEF Found
    <2>3. slot[mine[t]][key[t]] = Kept(lay[t], key[t])
      BY <1>6, <1>a DEF Found, Grounded, Holders, Kept
    <2>4. HandedIsKept'
      BY <1>6, <2>2, <2>3 DEF CachesInv, HandedIsKept, Found, Return
    <2>5. KeptIsPooled'
      BY <1>6, <2>2 DEF CachesInv, KeptIsPooled, Found
    <2>6. StoredIsPooled'
      BY <1>6, <1>a DEF CachesInv, StoredIsPooled, Found, Return, CachesTypeOK
    <2>7. NothingPooled'
      BY <1>6, <1>a, <2>2 DEF CachesInv, NothingPooled, Found, Return, CachesTypeOK
    <2> QED BY <2>1, <2>4, <2>5, <2>6, <2>7 DEF Rest
  <1>7. ASSUME NEW t \in Threads, Missed(t) PROVE Rest'
    <2>1. Grounded' /\ PoolHeld'
      BY <1>7, <1>a DEF Missed, CachesTypeOK, Grounded, PoolHeld, Holders
    <2>2. \A s \in Threads :
               /\ pc'[s] = "alloc" => pc[s] = "alloc"
               /\ pc'[s] = "put" => pc[s] = "put" /\ val'[s] = val[s]
      BY <1>7, <1>a DEF Missed, CachesTypeOK
    <2> QED BY <1>7, <2>1, <2>2, QuietStep DEF Missed
  <1>8. ASSUME NEW t \in Threads, LockPool(t) PROVE Rest'
    <2>1. \A s \in Threads : pc[s] \notin {"pool", "alloc"}
      BY <1>8, <1>a, CachesAssumption DEF LockPool, PoolHeld
    <2>2. Grounded' /\ PoolHeld'
      BY <1>8, <1>a, <2>1 DEF LockPool, CachesTypeOK, Grounded, PoolHeld, Holders
    <2>3. \A s \in Threads :
               /\ pc'[s] = "alloc" => pc[s] = "alloc"
               /\ pc'[s] = "put" => pc[s] = "put" /\ val'[s] = val[s]
      BY <1>8, <1>a DEF LockPool, CachesTypeOK
    <2> QED BY <1>8, <2>2, <2>3, QuietStep DEF LockPool
  <1>9. ASSUME NEW t \in Threads, LookPool(t) PROVE Rest'
    <2>1. /\ pc[t] = "pool" /\ key[t] \in Keys /\ poolLock = t
          /\ \A s \in Threads : s # t => pc[s] \notin {"pool", "alloc"}
      BY <1>9, <1>a DEF LookPool, PoolHeld, CachesTypeOK
    <2>2. \A l, k : Kept(l, k)' = Kept(l, k)
      BY <1>9, KeptSame DEF LookPool
    <2>3. Grounded' /\ PoolHeld'
      BY <1>9, <1>a, <2>1 DEF LookPool, CachesTypeOK, Grounded, PoolHeld, Holders
    <2>4. Pooled(key[t]) \in {None, pool[key[t]]}
      BY <2>1, PooledIs
    <2>5. KeptIsPooled' /\ HandedIsKept'
      BY <1>9, <2>2 DEF CachesInv, KeptIsPooled, HandedIsKept, LookPool
    <2>6. StoredIsPooled'
      BY <1>9, <1>a, <2>1, <2>4 DEF CachesInv, StoredIsPooled, LookPool, CachesTypeOK
    <2>7. NothingPooled'
      <3>1. CASE Pooled(key[t]) = None
        <4>1. /\ \A l \in loaded : Kept(l, key[t]) = None
              /\ \A s \in Threads : pc[s] = "put" => key[s] # key[t]
          BY <1>a, <2>1, <3>1, PooledInUse DEF CachesInv
        <4> QED BY <1>9, <1>a, <2>1, <2>2, <3>1, <4>1 DEF NothingPooled, LookPool, CachesTypeOK
      <3>2. CASE Pooled(key[t]) # None
        BY <1>9, <1>a, <2>1, <3>2 DEF NothingPooled, LookPool, CachesTypeOK
      <3> QED BY <3>1, <3>2
    <2> QED BY <2>3, <2>5, <2>6, <2>7 DEF Rest
  <1>10. ASSUME NEW t \in Threads, Alloc(t) PROVE Rest'
    <2>1. /\ pc[t] = "alloc" /\ key[t] \in Keys /\ poolLock = t
          /\ \A s \in Threads : s # t => pc[s] \notin {"pool", "alloc"}
          /\ \A l \in loaded : Kept(l, key[t]) = None
          /\ \A s \in Threads : pc[s] = "put" => key[s] # key[t]
      BY <1>10, <1>a DEF Alloc, PoolHeld, CachesTypeOK, CachesInv, NothingPooled
    <2>2. /\ loaded' = loaded /\ cacheOf' = cacheOf /\ handed' = handed
          /\ lay' = lay /\ key' = key /\ mine' = mine /\ poolLock' = Unlocked
          /\ val' = [val EXCEPT ![t] = New] /\ pool' = [pool EXCEPT ![key[t]] = New]
          /\ pc' = [pc EXCEPT ![t] = "put"] /\ New # None
      BY <1>10, <1>a DEF Alloc, New, None, CachesTypeOK
    <2>3. \A l \in RoutedLayers, k \in Keys : Kept(l, k)' = Kept(l, k)
      BY <1>10, <1>a, AllocKeeps
    <2>4. /\ \A s \in Threads : pc'[s] = IF s = t THEN "put" ELSE pc[s]
          /\ \A s \in Threads : val'[s] = IF s = t THEN New ELSE val[s]
          /\ \A k \in Keys : pool'[k] = IF k = key[t] THEN New ELSE pool[k]
      BY <2>2, <1>a DEF CachesTypeOK
    <2>5. Grounded'
      BY <2>1, <2>2, <2>4, <1>a DEF Grounded, Holders
    <2>6. PoolHeld' /\ NothingPooled'
      BY <2>1, <2>4 DEF PoolHeld, NothingPooled
    <2>7. KeptIsPooled'
      BY <2>1, <2>2, <2>3, <2>4, <1>a DEF CachesInv, KeptIsPooled, CachesTypeOK
    <2>8. StoredIsPooled'
      <3>1. \A s \in Threads : key[s] \in Keys
        BY <1>a DEF CachesTypeOK
      <3> QED BY <2>1, <2>2, <2>4, <3>1 DEF CachesInv, StoredIsPooled
    <2>9. HandedIsKept'
      BY <2>2, <2>3, <1>a DEF CachesInv, HandedIsKept, CachesTypeOK
    <2> QED BY <2>5, <2>6, <2>7, <2>8, <2>9 DEF Rest
  <1>11. ASSUME NEW t \in Threads, AllocRaises(t) PROVE Rest'
    <2>1. \A s \in Threads : s # t => pc[s] \notin {"pool", "alloc"}
      BY <1>11, <1>a DEF AllocRaises, PoolHeld
    <2>2. Grounded' /\ PoolHeld'
      BY <1>11, <1>a, <2>1 DEF AllocRaises, CachesTypeOK, Grounded, PoolHeld, Holders
    <2>3. \A s \in Threads :
               /\ pc'[s] = "alloc" => pc[s] = "alloc"
               /\ pc'[s] = "put" => pc[s] = "put" /\ val'[s] = val[s]
      BY <1>11, <1>a DEF AllocRaises, CachesTypeOK
    <2> QED BY <1>11, <2>2, <2>3, QuietStep DEF AllocRaises
  <1>12. ASSUME NEW t \in Threads, Put(t) PROVE Rest'
    <2>1. /\ loaded' = loaded /\ cacheOf' = cacheOf /\ pool' = pool
          /\ poolLock' = poolLock /\ lay' = lay /\ key' = key
          /\ pc' = [pc EXCEPT ![t] = "idle"] /\ mine' = [mine EXCEPT ![t] = None]
          /\ val' = [val EXCEPT ![t] = None] /\ pc[t] = "put"
          /\ handed' = handed \cup {<<lay[t], key[t], Settled(t)>>}
      BY <1>12 DEF Put, Return
    <2>2. \A s \in Threads :
               /\ pc'[s] = IF s = t THEN "idle" ELSE pc[s]
               /\ mine'[s] = IF s = t THEN None ELSE mine[s]
               /\ val'[s] = IF s = t THEN None ELSE val[s]
      BY <2>1, <1>a DEF CachesTypeOK
    <2>3. \A l \in loaded, k \in Keys :
               /\ Kept(l, k)' \in {Kept(l, k), pool[k]}
               /\ k # key[t] => Kept(l, k)' = Kept(l, k)
               /\ Kept(l, k) # None => Kept(l, k)' = Kept(l, k)
      BY <1>12, PutKept
    <2>4. /\ lay[t] \in loaded /\ key[t] \in Keys
          /\ \A l \in loaded, k \in Keys :
                 l = lay[t] /\ k = key[t] => Kept(l, k)' = Settled(t)
      <3>1. lay[t] \in loaded /\ key[t] \in Keys
        BY <2>1, <1>a DEF Grounded, CachesTypeOK
      <3> QED BY <1>12, <3>1, PutKept
    <2>5. Grounded' /\ PoolHeld'
      BY <2>1, <2>2, <1>a DEF Grounded, PoolHeld, Holders
    <2>6. KeptIsPooled'
      BY <2>1, <2>3 DEF CachesInv, KeptIsPooled
    <2>7. StoredIsPooled'
      BY <2>1, <2>2 DEF CachesInv, StoredIsPooled
    <2>8. NothingPooled'
      <3>1. \A s \in Threads : key[s] \in Keys
        BY <1>a DEF CachesTypeOK
      <3> QED BY <2>1, <2>2, <2>3, <3>1 DEF CachesInv, NothingPooled
    <2>9. HandedIsKept'
      <3>1. ASSUME NEW h \in handed, h[1] \in loaded
            PROVE  Kept(h[1], h[2])' = h[3]
        <4>1. Kept(h[1], h[2]) = h[3] /\ h[2] \in Keys /\ h[3] # None
          BY <3>1, <1>a DEF CachesInv, HandedIsKept, CachesTypeOK, Objects, None
        <4> QED BY <2>3, <3>1, <4>1
      <3> QED BY <2>1, <2>4, <3>1 DEF HandedIsKept
    <2> QED BY <2>5, <2>6, <2>7, <2>8, <2>9 DEF Rest
  <1>13. ASSUME NEW l \in RoutedLayers, Unload(l) PROVE Rest'
    <2>1. Grounded' /\ PoolHeld'
      BY <1>13, <1>a DEF Unload, CachesTypeOK, Grounded, PoolHeld, Holders
    <2> QED BY <1>13, <2>1, QuietStep DEF Unload
  <1>14. ASSUME NEW t \in Threads, Step(t) PROVE Rest'
    BY <1>14, <1>3, <1>4, <1>5, <1>6, <1>7, <1>8, <1>9, <1>10, <1>11, <1>12 DEF Step
  <1> QED BY <1>1, <1>2, <1>13, <1>14 DEF CachesNext, Quiet

------------------------------------------------------------------------------
(* The theorems. *)

LEMMA CachesInvariance == CachesSpec => []CachesInv
PROOF
  <1>1. CachesInv /\ [CachesNext]_routingVars => CachesInv'
    BY NextTypes, NextRest DEF CachesInv, Rest
  <1> QED BY InitInv, <1>1, PTL DEF CachesSpec

\* The caches of gridbook/moe_routing.py are well formed in every state.
THEOREM CachesTypeCorrect == CachesSpec => []CachesTypeOK
PROOF
  <1>1. CachesInv => CachesTypeOK
    BY DEF CachesInv
  <1> QED BY CachesInvariance, <1>1, PTL

\* cb_cached_row_offsets: a tensor a caller was handed, whose address a graph
\* may have captured, stays the one the layer keeps for as long as it exists.
THEOREM HandedOutIsKept == CachesSpec => []HandedIsKept
PROOF
  <1>1. CachesInv => HandedIsKept
    BY DEF CachesInv
  <1> QED BY CachesInvariance, <1>1, PTL

\* _ROW_OFFSET_POOL: layers that exist together share one tensor per shape.
THEOREM LayersShareTheConstant == CachesSpec => []OneConstant
PROOF
  <1>1. CachesInv => OneConstant
    BY DEF CachesInv, KeptIsPooled, OneConstant
  <1> QED BY CachesInvariance, <1>1, PTL
==============================================================================
