------------------------ MODULE RoutedForwardProofs ------------------------
(***************************************************************************)
(* The forward of a routed layer, for any number of experts, slots, ranks, *)
(* tokens and batches, any routing and any deployment.  In this order:     *)
(*   - the gather at load and the remap at a forward, and that they agree; *)
(*   - the pairs of a batch, and a stable argsort of them;                 *)
(*   - the padded layout: how many pairs and tiles lie before an expert's, *)
(*     which expert owns a tile, and that the static capacity suffices;    *)
(*   - the launches, and the packing of tiles within one;                  *)
(*   - the rows each lane computes, and the invariant of the engine.       *)
(***************************************************************************)
EXTENDS RoutedForward, WellFoundedInduction, FiniteSetTheorems,
        FunctionTheorems, TLAPS

------------------------------------------------------------------------------
(* Placement. *)

\* A placement of experts 0..k-1, as vLLM's expert_map.
Placement(k) == [Slots(k) -> Int]

\* Under an accepted placement no two experts share a slot.
LEMMA DistinctSlots ==
    ASSUME NEW k \in Nat, NEW map \in Placement(k), Monotone(map),
           NEW g \in Owned(map), NEW h \in Owned(map), map[g] = map[h]
    PROVE  g = h
<1>1. g \in Int /\ h \in Int
  BY DEF Owned, Placement, Slots
<1>2. map[g] \in Int
  BY DEF Owned, Placement
<1>3. ~(g < h) /\ ~(h < g)
  BY <1>2 DEF Monotone
<1> QED
  BY <1>1, <1>3

\* Under a placement that is accepted, every slot is filled with the expert
\* the placement puts there, and every expert the rank owns fills its slot:
\* no slot is left, and no expert's rows are loaded twice or not at all
\* (local_expert_gather_index).
THEOREM GatherInvertsPlacement ==
    ASSUME NEW k \in Nat, NEW map \in Placement(k), NEW n \in Nat,
           Accepted(map, n)
    PROVE  /\ GatherIndex(map, n) \in [Slots(n) -> Owned(map)]
           /\ \A s \in Slots(n) : map[GatherIndex(map, n)[s]] = s
           /\ \A g \in Owned(map) : GatherIndex(map, n)[map[g]] = g
<1>1. \A s \in Slots(n) : \E g \in Owned(map) : map[g] = s
  BY DEF Accepted, Bijective
<1>2. \A s \in Slots(n) : /\ GatherIndex(map, n)[s] \in Owned(map)
                          /\ map[GatherIndex(map, n)[s]] = s
  <2> TAKE s \in Slots(n)
  <2>1. PICK g \in Owned(map) : map[g] = s
    BY <1>1
  <2>2. GatherIndex(map, n)[s] = CHOOSE h \in Owned(map) : map[h] = s
    BY DEF GatherIndex
  <2> QED
    BY <2>1, <2>2
<1>3. GatherIndex(map, n) \in [Slots(n) -> Owned(map)]
  BY <1>2 DEF GatherIndex
<1>4. ASSUME NEW g \in Owned(map)
      PROVE  GatherIndex(map, n)[map[g]] = g
  <2>1. map[g] \in Slots(n)
    BY DEF Accepted, Bijective
  <2>2. /\ GatherIndex(map, n)[map[g]] \in Owned(map)
        /\ map[GatherIndex(map, n)[map[g]]] = map[g]
    BY <2>1, <1>2
  <2> QED
    BY <2>2, DistinctSlots DEF Accepted
<1> QED
  BY <1>2, <1>3, <1>4

\* The rank's rows keep the checkpoint's order of experts, the law under which
\* a rank adds its experts up as a single rank would.
THEOREM GatherKeepsOrder ==
    ASSUME NEW k \in Nat, NEW map \in Placement(k), NEW n \in Nat,
           Accepted(map, n),
           NEW s \in Slots(n), NEW u \in Slots(n), s < u
    PROVE  GatherIndex(map, n)[s] < GatherIndex(map, n)[u]
<1> DEFINE g == GatherIndex(map, n)[s]
           h == GatherIndex(map, n)[u]
<1>1. g \in Owned(map) /\ h \in Owned(map) /\ map[g] = s /\ map[h] = u
  BY GatherInvertsPlacement
<1>2. g \in Int /\ h \in Int
  BY <1>1 DEF Owned, Placement, Slots
<1>3. s \in Int /\ u \in Int
  BY DEF Slots
<1>4. ~(h < g)
  <2> SUFFICES ASSUME h < g PROVE FALSE
    OBVIOUS
  <2>1. map[h] < map[g]
    BY <1>1 DEF Accepted, Monotone
  <2> QED
    BY <2>1, <1>1, <1>3
<1>5. g # h
  BY <1>1, <1>3
<1> QED
  BY <1>2, <1>4, <1>5

------------------------------------------------------------------------------
\* A slot a token reaches is a slot of the rank.
LEMMA ReachedAreSlots ==
    ASSUME NEW k \in Nat, NEW map \in Placement(k), NEW n \in Nat,
           Accepted(map, n), NEW P, NEW ids \in [P -> Slots(k)], NEW tok, NEW t
    PROVE  Reached(map, ids, tok, t) \subseteq Slots(n)
<1>1. ASSUME NEW p \in P, Local(map, ids, p)
      PROVE  map[ids[p]] \in Slots(n)
  <2>1. ids[p] \in Owned(map)
    BY <1>1 DEF Local, Owned, Placement
  <2> QED
    BY <2>1 DEF Accepted, Bijective
<1> QED
  BY <1>1 DEF Reached

\* An aliased pair is sent to a slot its own token reads, if there is one.
LEMMA AliasIsReached ==
    ASSUME NEW k \in Nat, NEW map \in Placement(k), NEW n \in Nat,
           Accepted(map, n), NEW P, NEW ids \in [P -> Slots(k)], NEW tok, NEW t,
           Reached(map, ids, tok, t) # {}
    PROVE  Alias(map, ids, tok, t) \in Reached(map, ids, tok, t)
<1> DEFINE S == Reached(map, ids, tok, t)
<1>1. S \subseteq Nat
  BY ReachedAreSlots DEF Slots
<1>2. PICK s \in S : \A u \in S : s <= u
  <2>1. PICK s \in S : \A u \in S : <<u, s>> \notin OpToRel(<, Nat)
    BY <1>1, WFMin, NatLessThanWellFounded
  <2>2. \A u \in S : ~(u < s)
    BY <1>1, <2>1 DEF OpToRel
  <2> QED
    BY <1>1, <2>2
<1> HIDE DEF S
<1>3. (CHOOSE x \in S : \A u \in S : x <= u) \in S
  BY <1>2
<1> QED
  BY <1>3 DEF S, Alias

\* Whatever the router asks for, every pair lies in a slot of the rank, so no
\* kernel indexes outside the stacks (remap_local_expert_ids).
THEOREM RemapStaysLocal ==
    ASSUME NEW k \in Nat, NEW map \in Placement(k), NEW n \in Nat \ {0},
           Accepted(map, n), NEW P, NEW ids \in [P -> Slots(k)], NEW tok
    PROVE  RemapIds(map, ids, tok) \in [P -> Slots(n)]
<1>1. ASSUME NEW p \in P, Local(map, ids, p)
      PROVE  map[ids[p]] \in Slots(n)
  <2>1. ids[p] \in Owned(map)
    BY <1>1 DEF Local, Owned, Placement
  <2> QED
    BY <2>1 DEF Accepted, Bijective
<1>2. ASSUME NEW p \in P
      PROVE  Alias(map, ids, tok, tok[p]) \in Slots(n)
  <2>1. CASE Reached(map, ids, tok, tok[p]) = {}
    BY <2>1 DEF Alias, Slots
  <2>2. CASE Reached(map, ids, tok, tok[p]) # {}
    BY <2>2, AliasIsReached, ReachedAreSlots
  <2> QED
    BY <2>1, <2>2
<1> QED
  BY <1>1, <1>2 DEF RemapIds

\* The forward reads what the load put there: a pair that keeps its weight
\* meets the weights of the expert the router named.
THEOREM LivePairsMeetTheirExpert ==
    ASSUME NEW k \in Nat, NEW map \in Placement(k), NEW n \in Nat,
           Accepted(map, n), NEW P, NEW ids \in [P -> Slots(k)], NEW tok,
           NEW live \in SUBSET P, NEW p \in RemapLive(map, ids, live)
    PROVE  GatherIndex(map, n)[RemapIds(map, ids, tok)[p]] = ids[p]
<1>1. p \in P /\ Local(map, ids, p)
  BY DEF RemapLive
<1>2. ids[p] \in Owned(map)
  BY <1>1 DEF Local, Owned, Placement
<1>3. RemapIds(map, ids, tok)[p] = map[ids[p]]
  BY <1>1 DEF RemapIds
<1> QED
  BY <1>2, <1>3, GatherInvertsPlacement

\* A pair of weight zero, on a rank its token has an expert on, meets weights
\* the token reads anyway.
THEOREM AliasStaysWithToken ==
    ASSUME NEW k \in Nat, NEW map \in Placement(k), NEW n \in Nat,
           Accepted(map, n), NEW P, NEW ids \in [P -> Slots(k)], NEW tok,
           NEW p \in P, NEW q \in P, tok[q] = tok[p], Local(map, ids, q)
    PROVE  RemapIds(map, ids, tok)[p] \in Reached(map, ids, tok, tok[p])
<1>1. map[ids[q]] \in Reached(map, ids, tok, tok[p])
  BY DEF Reached
<1>2. CASE Local(map, ids, p)
  BY <1>2 DEF RemapIds, Reached
<1>3. CASE ~Local(map, ids, p)
  <2>1. RemapIds(map, ids, tok)[p] = Alias(map, ids, tok, tok[p])
    BY <1>3 DEF RemapIds
  <2> QED
    BY <2>1, <1>1, AliasIsReached
<1> QED
  BY <1>2, <1>3

\* When the ranks share the experts out, every pair that has a weight keeps it
\* on exactly one of them, and adds zero on the others.
THEOREM PairsLiveOnce ==
    ASSUME NEW k \in Nat, NEW R, NEW maps \in [R -> Placement(k)],
           \A g \in Slots(k) : \E r \in R : g \in Owned(maps[r]),
           \A r, q \in R : r # q => Owned(maps[r]) \cap Owned(maps[q]) = {},
           NEW P, NEW ids \in [P -> Slots(k)],
           NEW live \in SUBSET P, NEW p \in live
    PROVE  \E r \in R : \A q \in R :
              p \in RemapLive(maps[q], ids, live) <=> q = r
<1>1. ids[p] \in Slots(k)
  OBVIOUS
<1>2. \A q \in R : p \in RemapLive(maps[q], ids, live)
                      <=> ids[p] \in Owned(maps[q])
  BY <1>1 DEF RemapLive, Local, Owned, Placement
<1>3. PICK r \in R : ids[p] \in Owned(maps[r])
  BY <1>1
<1> WITNESS r \in R
<1> QED
  BY <1>2, <1>3

\* As many ids lie below n as n says.
LEMMA CountUpTo ==
    ASSUME NEW n \in Nat
    PROVE  IsFiniteSet(Slots(n)) /\ Cardinality(Slots(n)) = n
BY FS_Interval DEF Slots

\* Pair t * k + j is the j-th of token t.
LEMMA Divided ==
    ASSUME NEW k \in Nat \ {0}, NEW p \in Nat
    PROVE  /\ p \div k \in Nat /\ p % k \in 0..(k - 1)
           /\ p = (p \div k) * k + (p % k)
OBVIOUS

\* Token and place within it are what division gives back.
LEMMA DividedOnce ==
    ASSUME NEW k \in Nat \ {0}, NEW t \in Nat, NEW j \in 0..(k - 1)
    PROVE  (t * k + j) \div k = t /\ (t * k + j) % k = j
<1> DEFINE p == t * k + j
           q == p \div k
           r == p % k
<1>1. p \in Nat
  OBVIOUS
<1>2. q \in Nat /\ r \in 0..(k - 1) /\ p = q * k + r
  BY <1>1, Divided
<1>3. p = t * k + j
  OBVIOUS
<1> HIDE DEF p, q, r
<1>4. ~(q < t)
  <2> SUFFICES ASSUME q < t PROVE FALSE
    OBVIOUS
  <2>1. (q + 1) * k <= t * k
    BY <1>2
  <2>2. (q + 1) * k = q * k + k
    BY <1>2
  <2> QED BY <2>1, <2>2, <1>2, <1>3
<1>5. ~(t < q)
  <2> SUFFICES ASSUME t < q PROVE FALSE
    OBVIOUS
  <2>1. (t + 1) * k <= q * k
    BY <1>2
  <2>2. (t + 1) * k = t * k + k
    OBVIOUS
  <2> QED BY <2>1, <2>2, <1>2, <1>3
<1>6. q = t
  BY <1>2, <1>4, <1>5
<1> QED BY <1>6, <1>2, <1>3 DEF p, q, r

\* Blocks are ordered as their numbers are.
LEMMA MultiplyKeepsOrder ==
    ASSUME NEW a \in Int, NEW b \in Int, NEW k \in Nat, a <= b
    PROVE  a * k <= b * k
OBVIOUS

------------------------------------------------------------------------------
(* A stable argsort is a permutation of the pairs. *)

Preceding(key, p) ==
    {q \in DOMAIN key : \/ key[q] < key[p]
                        \/ key[q] = key[p] /\ q < p}
Rank(key, p) == Cardinality(Preceding(key, p))

\* The rank of an element, the number of those before it, is a position.
LEMMA RankIsPosition ==
    ASSUME NEW n \in Nat, NEW key \in [Slots(n) -> Int], NEW p \in Slots(n)
    PROVE  /\ Rank(key, p) \in Slots(n)
           /\ IsFiniteSet(Preceding(key, p))
<1>1. Preceding(key, p) \subseteq Slots(n) \ {p}
  BY DEF Preceding, Slots
<1>2. IsFiniteSet(Slots(n)) /\ Cardinality(Slots(n)) = n
  BY CountUpTo
<1>3. IsFiniteSet(Slots(n) \ {p}) /\ Cardinality(Slots(n) \ {p}) = n - 1
  BY <1>2, FS_RemoveElement
<1>4. IsFiniteSet(Preceding(key, p)) /\ Rank(key, p) <= n - 1
  BY <1>1, <1>3, FS_Subset DEF Rank
<1>5. Rank(key, p) \in Nat
  BY <1>4, FS_CardinalityType DEF Rank
<1> QED BY <1>4, <1>5 DEF Slots

\* An element that comes before another has the smaller rank.
LEMMA RanksDiffer ==
    ASSUME NEW n \in Nat, NEW key \in [Slots(n) -> Int],
           NEW p \in Slots(n), NEW q \in Slots(n), p \in Preceding(key, q)
    PROVE  Rank(key, p) < Rank(key, q)
<1>1. Preceding(key, p) \subseteq Preceding(key, q)
  BY DEF Preceding, Slots
<1>2. p \notin Preceding(key, p)
  BY DEF Preceding, Slots
<1>3. IsFiniteSet(Preceding(key, q)) /\ Rank(key, q) \in Nat /\ Rank(key, p) \in Nat
  BY RankIsPosition DEF Slots
<1>4. Rank(key, p) <= Rank(key, q) /\ (Rank(key, q) = Rank(key, p) => Preceding(key, q) = Preceding(key, p))
  BY <1>1, <1>3, FS_Subset DEF Rank
<1> QED BY <1>2, <1>3, <1>4

\* No two elements have the same rank.
LEMMA RanksApart ==
    ASSUME NEW n \in Nat, NEW key \in [Slots(n) -> Int],
           NEW p \in Slots(n), NEW q \in Slots(n), Rank(key, p) = Rank(key, q)
    PROVE  p = q
<1> SUFFICES ASSUME p # q PROVE FALSE
  OBVIOUS
<1>1. p \in Preceding(key, q) \/ q \in Preceding(key, p)
  BY DEF Preceding, Slots
<1>2. Rank(key, p) \in Int
  BY RankIsPosition DEF Slots
<1> QED BY <1>1, <1>2, RanksDiffer

\* Every position is the rank of an element: n distinct ranks fill n positions.
LEMMA RankReaches ==
    ASSUME NEW n \in Nat, NEW key \in [Slots(n) -> Int], NEW i \in Slots(n)
    PROVE  \E p \in Slots(n) : Rank(key, p) = i
<1> DEFINE f == [p \in Slots(n) |-> Rank(key, p)]
<1>1. f \in [Slots(n) -> Slots(n)]
  BY RankIsPosition
<1>2. \A p, q \in Slots(n) : f[p] = f[q] => p = q
  BY RanksApart
<1>3. f \in Injection(Slots(n), Slots(n))
  BY <1>1, <1>2 DEF Injection, IsInjective
<1>4. f \in Surjection(Slots(n), Slots(n))
  BY <1>3, CountUpTo, FS_Injection
<1> QED BY <1>4 DEF Surjection

\* argsort(stable=True): position i holds the pair of rank i.
LEMMA OrderIs ==
    ASSUME NEW n \in Nat, NEW key \in [Slots(n) -> Int]
    PROVE  /\ Order(key) \in [Slots(n) -> Slots(n)]
           /\ \A i \in Slots(n) : Rank(key, Order(key)[i]) = i
           /\ \A p \in Slots(n) : Order(key)[Rank(key, p)] = p
<1>1. \A i \in Slots(n) : Order(key)[i] = CHOOSE p \in Slots(n) : Rank(key, p) = i
  BY DEF Order, Rank, Preceding
<1>2. \A i \in Slots(n) : Order(key)[i] \in Slots(n) /\ Rank(key, Order(key)[i]) = i
  BY <1>1, RankReaches
<1>3. Order(key) = [i \in Slots(n) |-> Order(key)[i]]
  BY DEF Order
<1>4. ASSUME NEW p \in Slots(n) PROVE Order(key)[Rank(key, p)] = p
  <2>1. Rank(key, p) \in Slots(n)
    BY RankIsPosition
  <2> QED BY <2>1, <1>2, RanksApart
<1> QED BY <1>2, <1>3, <1>4

------------------------------------------------------------------------------
(* Tokens and pairs of a batch. *)

Batch(n) == n \in Nat \ {0} /\ Tokens = Slots(n)

\* The pairs of n tokens are numbered 0..n*TopK-1, a token after the other.
LEMMA PairsAre ==
    ASSUME NEW n \in Nat, Batch(n)
    PROVE  /\ NoToken = n /\ Pairs = Slots(n * TopK) /\ n * TopK \in Nat
           /\ \A p \in Pairs : /\ p \in Nat
                               /\ p \div TopK \in Tokens /\ p % TopK \in Slots(TopK)
                               /\ p = (p \div TopK) * TopK + (p % TopK)
                               /\ tokenOf[p] = p \div TopK
<1>1. TopK \in Nat \ {0}
  BY ForwardAssumption
<1>2. NoToken = n
  BY CountUpTo DEF NoToken, Batch
<1>3. ASSUME NEW t \in Tokens, NEW j \in Slots(TopK)
      PROVE  t * TopK + j \in Slots(n * TopK)
  <2>1. t \in Nat /\ j \in Nat /\ t + 1 <= n /\ j <= TopK - 1
    BY <1>1 DEF Batch, Slots
  <2>2. (t + 1) * TopK <= n * TopK /\ (t + 1) * TopK = t * TopK + TopK
    BY <1>1, <2>1, MultiplyKeepsOrder
  <2>3. t * TopK \in Nat /\ n * TopK \in Nat
    BY <1>1, <2>1
  <2> QED BY <1>1, <2>1, <2>2, <2>3 DEF Slots
<1>4. ASSUME NEW p \in Slots(n * TopK)
      PROVE  /\ p \in Nat
             /\ p \div TopK \in Tokens /\ p % TopK \in Slots(TopK)
             /\ p = (p \div TopK) * TopK + (p % TopK)
  <2> DEFINE t == p \div TopK
             j == p % TopK
  <2>1. p \in Nat /\ p < n * TopK /\ n * TopK \in Nat
    BY <1>1 DEF Slots
  <2>2. t \in Nat /\ j \in 0..(TopK - 1) /\ p = t * TopK + j
    BY <1>1, <2>1, Divided
  <2> HIDE DEF t, j
  <2>3. ~(n <= t)
    <3> SUFFICES ASSUME n <= t PROVE FALSE
      OBVIOUS
    <3>1. n * TopK <= t * TopK
      BY <1>1, <2>2, MultiplyKeepsOrder
    <3>2. t * TopK \in Nat
      BY <1>1, <2>2
    <3> QED BY <3>1, <3>2, <2>1, <2>2
  <2>4. t \in Slots(n)
    BY <2>2, <2>3 DEF Slots
  <2> QED BY <2>1, <2>2, <2>4 DEF t, j, Slots, Batch
<1>5. Pairs = Slots(n * TopK)
  <2>1. Pairs \subseteq Slots(n * TopK)
    BY <1>3 DEF Pairs, Slots
  <2>2. ASSUME NEW p \in Slots(n * TopK) PROVE p \in Pairs
    BY <1>4, <2>2 DEF Pairs, Slots
  <2> QED BY <2>1, <2>2
<1>6. n * TopK \in Nat
  BY <1>1
<1>7. \A p \in Pairs : tokenOf[p] = p \div TopK
  BY DEF tokenOf
<1> QED BY <1>2, <1>4, <1>5, <1>6, <1>7

\* The j-th pair of a token.
LEMMA PairOfToken ==
    ASSUME NEW n \in Nat, Batch(n), NEW t \in Tokens, NEW j \in Slots(TopK)
    PROVE  /\ t * TopK + j \in Pairs
           /\ tokenOf[t * TopK + j] = t /\ (t * TopK + j) % TopK = j
<1>1. t * TopK + j \in Pairs
  BY DEF Pairs, Slots
<1>2. t \in Nat /\ j \in 0..(TopK - 1) /\ TopK \in Nat \ {0}
  BY ForwardAssumption DEF Batch, Slots
<1>3. (t * TopK + j) \div TopK = t /\ (t * TopK + j) % TopK = j
  BY <1>2, DividedOnce
<1> QED BY <1>1, <1>3 DEF tokenOf

\* Blocks of k numbers, in order.
LEMMA BlockOrder ==
    ASSUME NEW k \in Nat \ {0}, NEW t \in Nat, NEW u \in Nat, NEW j \in Nat, j < k
    PROVE  /\ u < t <=> u * k + j < t * k
           /\ u <= t <=> u * k + j < (t + 1) * k
<1> DEFINE a == t * k
           b == u * k
<1>1. a \in Nat /\ b \in Nat /\ (t + 1) * k = a + k /\ (u + 1) * k = b + k
  OBVIOUS
<1>2. (u < t => (u + 1) * k <= a) /\ (t <= u => a <= b) /\ (t < u => (t + 1) * k <= b) /\ (u <= t => b <= a)
  BY MultiplyKeepsOrder
<1>3. (u < t => b + k <= a) /\ (t < u => a + k <= b) /\ (t <= u => a <= b) /\ (u <= t => b <= a)
  BY <1>1, <1>2
<1> HIDE DEF a, b
<1>4. (u < t <=> b + j < a) /\ (u <= t <=> b + j < a + k)
  BY <1>1, <1>3
<1> QED BY <1>1, <1>4 DEF a, b

------------------------------------------------------------------------------
(* Decode: token-major order keeps a token's positions with the token. *)

\* Sorted by token and slot, a pair stays among the positions of its token.
LEMMA DecodeOrder ==
    ASSUME NEW n \in Nat, Batch(n), NEW m \in Nat \ {0}, NEW ids \in [Pairs -> Slots(m)],
           NEW p \in Pairs
    PROVE  LET key == [q \in Pairs |-> tokenOf[q] * m + ids[q]]
           IN  /\ key \in [Pairs -> Int]
               /\ tokenOf[Rank(key, p)] = tokenOf[p]
<1> DEFINE key == [q \in Pairs |-> tokenOf[q] * m + ids[q]]
           t == tokenOf[p]
<1>1. /\ Pairs = Slots(n * TopK) /\ n * TopK \in Nat /\ TopK \in Nat \ {0}
      /\ \A q \in Pairs : tokenOf[q] \in Nat /\ q \in Nat /\ ids[q] \in Nat /\ ids[q] <= m - 1
  <2>1. /\ Pairs = Slots(n * TopK) /\ n * TopK \in Nat
        /\ \A q \in Pairs : q \in Nat /\ tokenOf[q] \in Slots(n)
    BY PairsAre DEF Batch
  <2>2. \A q \in Pairs : ids[q] \in 0..(m - 1) /\ tokenOf[q] \in Nat
    BY <2>1 DEF Slots
  <2>3. \A q \in Pairs : ids[q] \in Nat /\ ids[q] <= m - 1
    BY <2>2
  <2> QED BY <2>1, <2>2, <2>3, ForwardAssumption
<1>2. key \in [Pairs -> Int]
  <2> SUFFICES ASSUME NEW q \in Pairs PROVE tokenOf[q] * m + ids[q] \in Int
    OBVIOUS
  <2>1. tokenOf[q] \in Nat /\ ids[q] \in Nat /\ m \in Nat
    BY <1>1
  <2> QED BY <2>1
<1>3. \A q \in Pairs : tokenOf[q] < t => key[q] < key[p]
  <2> SUFFICES ASSUME NEW q \in Pairs, tokenOf[q] < t PROVE key[q] < key[p]
    OBVIOUS
  <2>1. (tokenOf[q] + 1) * m <= t * m /\ (tokenOf[q] + 1) * m = tokenOf[q] * m + m
    BY <1>1, MultiplyKeepsOrder
  <2>2. tokenOf[q] * m \in Int /\ t * m \in Int
    BY <1>1
  <2> QED BY <1>1, <2>1, <2>2
<1>4. \A q \in Pairs : t < tokenOf[q] => key[p] < key[q]
  <2> SUFFICES ASSUME NEW q \in Pairs, t < tokenOf[q] PROVE key[p] < key[q]
    OBVIOUS
  <2>1. (t + 1) * m <= tokenOf[q] * m /\ (t + 1) * m = t * m + m
    BY <1>1, MultiplyKeepsOrder
  <2>2. tokenOf[q] * m \in Int /\ t * m \in Int
    BY <1>1
  <2> QED BY <1>1, <2>1, <2>2
<1> HIDE DEF key
<1>5. DOMAIN key = Pairs
  BY DEF key
<1>6. t \in Nat /\ t \in Tokens /\ t * TopK \in Nat /\ (t + 1) * TopK = t * TopK + TopK
  BY <1>1, PairsAre
<1>7. t = tokenOf[p]
  OBVIOUS
<1> HIDE DEF t
\* Positions and tokens.
<1>8. \A q \in Pairs : /\ tokenOf[q] < t <=> q < t * TopK
                       /\ tokenOf[q] <= t <=> q < (t + 1) * TopK
  <2> SUFFICES ASSUME NEW q \in Pairs
               PROVE  /\ tokenOf[q] < t <=> q < t * TopK
                      /\ tokenOf[q] <= t <=> q < (t + 1) * TopK
    OBVIOUS
  <2>1. PICK u \in Nat, j \in Nat : u = tokenOf[q] /\ j < TopK /\ q = u * TopK + j
    <3>1. /\ tokenOf[q] \in Nat /\ q % TopK \in 0..(TopK - 1)
          /\ q = tokenOf[q] * TopK + (q % TopK)
      BY <1>1, PairsAre DEF Slots
    <3>2. q % TopK \in Nat /\ q % TopK < TopK
      BY <3>1, <1>1
    <3> QED BY <3>1, <3>2
  <2> QED BY <2>1, <1>1, <1>6, BlockOrder
<1>9. t * TopK <= Rank(key, p)
  <2>1. Slots(t * TopK) \subseteq Preceding(key, p)
    <3> SUFFICES ASSUME NEW q \in Slots(t * TopK) PROVE q \in Preceding(key, p)
      OBVIOUS
    <3>1. ~(p < t * TopK) /\ p \in Nat
      BY <1>1, <1>6, <1>8, <1>7
    <3>2. q \in Pairs /\ q < t * TopK
      BY <1>1, <1>6, <3>1 DEF Slots
    <3> QED BY <3>2, <1>6, <1>8, <1>3, <1>5 DEF Preceding, Slots
  <2>2. IsFiniteSet(Preceding(key, p)) /\ Rank(key, p) \in Slots(n * TopK)
    BY <1>1, <1>2, RankIsPosition
  <2> QED BY <2>1, <2>2, <1>6, FS_Subset, CountUpTo DEF Rank
<1>10. Rank(key, p) < (t + 1) * TopK
  <2>1. Preceding(key, p) \subseteq Slots((t + 1) * TopK) \ {p}
    <3> SUFFICES ASSUME NEW q \in Preceding(key, p) PROVE q \in Slots((t + 1) * TopK) /\ q # p
      OBVIOUS
    <3>1. q \in Pairs /\ (key[q] < key[p] \/ (key[q] = key[p] /\ q < p))
      BY <1>5 DEF Preceding
    <3>2. key[q] \in Int /\ key[p] \in Int
      BY <1>2, <3>1
    <3>3. ~(t < tokenOf[q])
      BY <3>1, <3>2, <1>4
    <3>4. q < (t + 1) * TopK /\ q \in Nat
      BY <1>1, <1>6, <1>8, <3>1, <3>3
    <3>5. q # p
      BY <3>1, <3>2, <1>1
    <3> QED BY <3>4, <3>5, <1>6, <1>1 DEF Slots
  <2>2. (t + 1) * TopK \in Nat
    BY <1>1, <1>6
  <2>3. p \in Slots((t + 1) * TopK)
    BY <1>1, <1>6, <1>8, <1>7, <2>2, SMTT(30) DEF Slots
  <2>4. /\ IsFiniteSet(Slots((t + 1) * TopK) \ {p})
        /\ Cardinality(Slots((t + 1) * TopK) \ {p}) = (t + 1) * TopK - 1
    BY <2>2, <2>3, CountUpTo, FS_RemoveElement
  <2>5. Rank(key, p) <= (t + 1) * TopK - 1
    BY <2>1, <2>4, FS_Subset DEF Rank
  <2>6. Rank(key, p) \in Nat
    BY <1>1, <1>2, RankIsPosition DEF Slots
  <2> QED BY <2>2, <2>5, <2>6
<1>11. Rank(key, p) \in Pairs
  BY <1>1, <1>2, RankIsPosition
<1>12. tokenOf[Rank(key, p)] = t
  <2> DEFINE i == Rank(key, p)
  <2>1. tokenOf[i] \in Nat /\ i \in Nat
    BY <1>11, <1>1
  <2>2. ~(tokenOf[i] < t) /\ tokenOf[i] <= t
    BY <1>11, <1>8, <1>9, <1>10, <1>6, <2>1
  <2> QED BY <2>1, <2>2, <1>6
<1> QED BY <1>2, <1>12, <1>7 DEF key

------------------------------------------------------------------------------
(* Exact segments: sorted by expert, the pairs of an expert lie together. *)

Earlier(ids, e) == {p \in DOMAIN ids : ids[p] < e}
At(ids, e)      == {p \in DOMAIN ids : ids[p] = e}

\* The pairs before expert e + 1 are those before e and those of e.
LEMMA Counted ==
    ASSUME NEW n \in Nat, NEW ids \in [Slots(n) -> Int], NEW e \in Int
    PROVE  /\ IsFiniteSet(Earlier(ids, e)) /\ IsFiniteSet(At(ids, e))
           /\ Before(ids, e) = Cardinality(Earlier(ids, e)) /\ Before(ids, e) \in 0..n
           /\ Count(ids, e) = Cardinality(At(ids, e)) /\ Count(ids, e) \in Nat
           /\ Before(ids, e + 1) = Before(ids, e) + Count(ids, e)
           /\ \A f \in Int : e <= f => Before(ids, e) <= Before(ids, f)
<1>1. \A f \in Int : IsFiniteSet(Earlier(ids, f)) /\ Cardinality(Earlier(ids, f)) \in 0..n
  <2> SUFFICES ASSUME NEW f \in Int
               PROVE  IsFiniteSet(Earlier(ids, f)) /\ Cardinality(Earlier(ids, f)) \in 0..n
    OBVIOUS
  <2>1. Earlier(ids, f) \in SUBSET Slots(n)
    BY DEF Earlier
  <2>2. IsFiniteSet(Earlier(ids, f)) /\ Cardinality(Earlier(ids, f)) <= n
    BY <2>1, CountUpTo, FS_Subset
  <2> QED BY <2>2, FS_CardinalityType
<1>2. At(ids, e) \in SUBSET Slots(n)
  BY DEF At
<1>3. IsFiniteSet(At(ids, e))
  BY <1>2, CountUpTo, FS_Subset
<1>4. Cardinality(At(ids, e)) \in Nat
  BY <1>3, FS_CardinalityType
<1>5. \A f : Before(ids, f) = Cardinality(Earlier(ids, f))
  BY DEF Before, Earlier
<1>6. Count(ids, e) = Cardinality(At(ids, e))
  BY DEF Count, At
<1>7. Before(ids, e + 1) = Before(ids, e) + Count(ids, e)
  <2>1. Earlier(ids, e + 1) = Earlier(ids, e) \cup At(ids, e)
    BY DEF Earlier, At
  <2>2. Earlier(ids, e) \cap At(ids, e) = {}
    BY DEF Earlier, At
  <2>3. Cardinality(Earlier(ids, e) \cap At(ids, e)) = 0
    BY <2>2, FS_EmptySet
  <2>4. Cardinality(Earlier(ids, e + 1)) = Cardinality(Earlier(ids, e)) + Cardinality(At(ids, e)) - 0
    BY <1>1, <1>3, <2>1, <2>3, FS_Union
  <2> QED BY <2>4, <1>1, <1>4, <1>5, <1>6
<1>8. ASSUME NEW f \in Int, e <= f PROVE Before(ids, e) <= Before(ids, f)
  <2>1. Earlier(ids, e) \in SUBSET Earlier(ids, f)
    BY <1>8 DEF Earlier
  <2> QED BY <2>1, <1>1, <1>5, FS_Subset
<1> QED BY <1>1, <1>3, <1>4, <1>5, <1>6, <1>7, <1>8

\* No pair lies before the first slot, every pair before the end.
LEMMA CountedAll ==
    ASSUME NEW n \in Nat, NEW m \in Nat, NEW ids \in [Slots(n) -> Slots(m)]
    PROVE  Before(ids, 0) = 0 /\ Before(ids, m) = n
<1>1. Earlier(ids, 0) = {} /\ Earlier(ids, m) = Slots(n)
  BY DEF Earlier, Slots
<1>2. ids \in [Slots(n) -> Int]
  BY DEF Slots
<1>3. 0 \in Int /\ m \in Int
  OBVIOUS
<1>4. Before(ids, 0) = Cardinality(Earlier(ids, 0)) /\ Before(ids, m) = Cardinality(Earlier(ids, m))
  BY <1>2, <1>3, Counted
<1> QED BY <1>1, <1>4, CountUpTo, FS_EmptySet

\* Sorted by slot, a pair lies in the segment of its slot.
LEMMA RankInSegment ==
    ASSUME NEW n \in Nat, NEW ids \in [Slots(n) -> Int], NEW p \in Slots(n)
    PROVE  Before(ids, ids[p]) <= Rank(ids, p) /\ Rank(ids, p) < Before(ids, ids[p] + 1)
<1>1. ids[p] \in Int /\ Rank(ids, p) \in Nat /\ IsFiniteSet(Preceding(ids, p))
  BY RankIsPosition DEF Slots
<1>2. Earlier(ids, ids[p]) \in SUBSET Preceding(ids, p)
  BY DEF Earlier, Preceding
<1>3. Before(ids, ids[p]) <= Rank(ids, p)
  BY <1>1, <1>2, Counted, FS_Subset DEF Rank
<1> DEFINE E == Earlier(ids, ids[p] + 1)
<1>4. Preceding(ids, p) \in SUBSET (E \ {p}) /\ p \in E
  BY <1>1 DEF Earlier, Preceding, Slots
<1>5. IsFiniteSet(E) /\ Cardinality(E) = Before(ids, ids[p] + 1) /\ Before(ids, ids[p] + 1) \in Nat
  BY <1>1, Counted
<1>6. IsFiniteSet(E \ {p}) /\ Cardinality(E \ {p}) = Cardinality(E) - 1
  BY <1>4, <1>5, FS_RemoveElement
<1>7. Rank(ids, p) <= Cardinality(E) - 1
  BY <1>4, <1>6, FS_Subset DEF Rank
<1> QED BY <1>1, <1>3, <1>5, <1>7

\* expert_ends delimits, for each expert, exactly the positions of its pairs.
LEMMA SegmentIsExpert ==
    ASSUME NEW n \in Nat, NEW ids \in [Slots(n) -> Int], NEW i \in Slots(n), NEW e \in Int
    PROVE  Before(ids, e) <= i /\ i < Before(ids, e + 1) <=> ids[Order(ids)[i]] = e
<1> DEFINE p == Order(ids)[i]
<1>1. p \in Slots(n) /\ Rank(ids, p) = i /\ ids[p] \in Int /\ i \in Int
  BY OrderIs DEF Slots
<1> HIDE DEF p
<1>2. Before(ids, ids[p]) <= i /\ i < Before(ids, ids[p] + 1)
  BY <1>1, RankInSegment
<1>3. e < ids[p] => Before(ids, e + 1) <= Before(ids, ids[p])
  BY <1>1, Counted
<1>4. ids[p] < e => Before(ids, ids[p] + 1) <= Before(ids, e)
  BY <1>1, Counted
<1>5. /\ Before(ids, e) \in Int /\ Before(ids, e + 1) \in Int
      /\ Before(ids, ids[p]) \in Int /\ Before(ids, ids[p] + 1) \in Int
  <2>1. \A f \in Int : Before(ids, f) \in 0..n
    BY Counted
  <2>2. e + 1 \in Int /\ ids[p] + 1 \in Int
    BY <1>1
  <2>3. \A f \in Int : Before(ids, f) \in Int
    BY <2>1
  <2> QED BY <1>1, <2>2, <2>3
<1>6. Before(ids, e) <= i /\ i < Before(ids, e + 1) <=> ids[p] = e
  BY <1>1, <1>2, <1>3, <1>4, <1>5
<1> QED BY <1>6 DEF p

------------------------------------------------------------------------------
(* Tiles. *)

\* Every set of numbers has a least one.
LEMMA Least ==
    ASSUME NEW S \in SUBSET Nat, S # {}
    PROVE  \E k \in S : \A j \in S : k <= j
<1>1. PICK k \in S : \A j \in S : <<j, k>> \notin OpToRel(<, Nat)
  BY WFMin, NatLessThanWellFounded
<1>2. \A j \in S : ~(j < k)
  BY <1>1 DEF OpToRel
<1> QED BY <1>2

\* Induction, for a set of numbers.
LEMMA Induction ==
    ASSUME NEW S, 0 \in S, \A k \in Nat : k \in S => k + 1 \in S
    PROVE  Nat \subseteq S
<1> DEFINE T == Nat \ S
<1> SUFFICES ASSUME T # {} PROVE FALSE
  OBVIOUS
<1>1. PICK k \in T : \A j \in T : k <= j
  BY Least
<1>2. k # 0 /\ k - 1 \in Nat /\ k - 1 \notin T
  BY <1>1
<1>3. (k - 1) + 1 \in S
  BY <1>2
<1> QED BY <1>1, <1>3

\* The tiles of an expert hold its pairs, and less than a tile more.
LEMMA BlocksCover ==
    ASSUME NEW n \in Nat, NEW ids \in [Slots(n) -> Int], NEW e \in Int
    PROVE  LET b == Blocks(ids, e)
           IN  /\ b \in Nat
               /\ Count(ids, e) <= b * TileM
               /\ b * TileM <= Count(ids, e) + (TileM - 1)
<1> DEFINE c == Count(ids, e)
           b == (c + (TileM - 1)) \div TileM
           r == (c + (TileM - 1)) % TileM
<1>1. c \in Nat /\ TileM \in Nat \ {0}
  BY Counted, ForwardAssumption
<1> HIDE DEF c
<1>2. c + (TileM - 1) \in Nat
  BY <1>1
<1>3. b \in Nat /\ r \in 0..(TileM - 1) /\ c + (TileM - 1) = b * TileM + r
  BY <1>1, <1>2, Divided
<1> HIDE DEF b, r
<1>4. b * TileM \in Nat
  BY <1>1, <1>3
<1>5. c <= b * TileM /\ b * TileM <= c + (TileM - 1)
  BY <1>1, <1>3, <1>4
<1>6. Blocks(ids, e) = b
  BY DEF Blocks, b, c
<1> QED BY <1>3, <1>5, <1>6 DEF c

\* Sums of the numbers before.
IsSum(f, n, d) == f = [e \in 0..n |-> IF e = 0 THEN 0 ELSE f[e - 1] + d[e - 1]]

\* A running sum exists: what the recursive definition of Offsets names.
LEMMA SumExists ==
    ASSUME NEW d, NEW n \in Nat
    PROVE  \E f : IsSum(f, n, d)
<1> DEFINE S == {k \in Nat : \E f : IsSum(f, k, d)}
<1>1. 0 \in S
  <2> DEFINE f == [e \in 0..0 |-> 0]
  <2>1. IsSum(f, 0, d)
    BY DEF IsSum
  <2> QED BY <2>1
<1>2. ASSUME NEW k \in Nat, k \in S PROVE k + 1 \in S
  <2>1. PICK g : IsSum(g, k, d)
    BY <1>2
  <2> DEFINE f == [e \in 0..(k + 1) |-> IF e = k + 1 THEN g[k] + d[k] ELSE g[e]]
  <2>2. \A e \in 0..k : g[e] = IF e = 0 THEN 0 ELSE g[e - 1] + d[e - 1]
    BY <2>1 DEF IsSum
  <2>3. \A e \in 0..(k + 1) : f[e] = IF e = 0 THEN 0 ELSE f[e - 1] + d[e - 1]
    <3> SUFFICES ASSUME NEW e \in 0..(k + 1)
                 PROVE  f[e] = IF e = 0 THEN 0 ELSE f[e - 1] + d[e - 1]
      OBVIOUS
    <3>1. CASE e = k + 1
      <4>1. f[e] = g[k] + d[k] /\ f[k] = g[k] /\ e - 1 = k /\ e # 0
        BY <3>1
      <4> QED BY <4>1
    <3>2. CASE e # k + 1 /\ e # 0
      <4>1. e \in 0..k /\ e - 1 \in 0..k /\ f[e] = g[e] /\ f[e - 1] = g[e - 1]
        BY <3>2
      <4> QED BY <4>1, <2>2, <3>2
    <3>3. CASE e = 0
      <4>1. e \in 0..k /\ f[e] = g[e]
        BY <3>3
      <4> QED BY <4>1, <2>2, <3>3
    <3> QED BY <3>1, <3>2, <3>3
  <2>4. IsSum(f, k + 1, d)
    BY <2>3 DEF IsSum
  <2> QED BY <2>4
<1> HIDE DEF S
<1>3. n \in S
  BY <1>1, <1>2, Induction
<1> QED BY <1>3 DEF S

\* The offsets start at zero and grow by the tiles of each expert.
LEMMA OffsetsAre ==
    ASSUME NEW n \in Nat, NEW m \in Nat, NEW ids \in [Slots(n) -> Int]
    PROVE  LET off == Offsets(ids, m)
           IN  /\ off \in [0..m -> Nat] /\ off[0] = 0
               /\ \A e \in Slots(m) : off[e + 1] = off[e] + Blocks(ids, e)
<1> DEFINE off == Offsets(ids, m)
           d == [e \in Slots(m) |-> Blocks(ids, e)]
<1>1. IsSum(off, m, d)
  <2>1. \A f : IsSum(f, m, d) <=> f = [e \in 0..m |-> IF e = 0 THEN 0 ELSE f[e - 1] + Blocks(ids, e - 1)]
    <3> TAKE f
    <3>1. [e \in 0..m |-> IF e = 0 THEN 0 ELSE f[e - 1] + d[e - 1]]
            = [e \in 0..m |-> IF e = 0 THEN 0 ELSE f[e - 1] + Blocks(ids, e - 1)]
      <4>1. \A e \in 0..m : e # 0 => d[e - 1] = Blocks(ids, e - 1)
        BY DEF Slots
      <4> HIDE DEF d
      <4> QED BY <4>1
    <3> QED BY <3>1 DEF IsSum
  <2>2. PICK f : f = [e \in 0..m |-> IF e = 0 THEN 0 ELSE f[e - 1] + Blocks(ids, e - 1)]
    BY <2>1, SumExists
  <2>3. off = [e \in 0..m |-> IF e = 0 THEN 0 ELSE off[e - 1] + Blocks(ids, e - 1)]
    BY <2>2 DEF Offsets
  <2> HIDE DEF off
  <2> QED BY <2>1, <2>3
<1> HIDE DEF off
<1>2. \A e \in 0..m : off[e] = IF e = 0 THEN 0 ELSE off[e - 1] + d[e - 1]
  BY <1>1 DEF IsSum
<1>3. off[0] = 0
  <2>1. 0 \in 0..m
    OBVIOUS
  <2> QED BY <2>1, <1>2
<1>4. \A e \in Slots(m) : off[e + 1] = off[e] + Blocks(ids, e)
  <2> SUFFICES ASSUME NEW e \in Slots(m) PROVE off[e + 1] = off[e] + Blocks(ids, e)
    OBVIOUS
  <2>1. e + 1 \in 0..m /\ e + 1 # 0 /\ (e + 1) - 1 = e
    BY DEF Slots
  <2> QED BY <2>1, <1>2
<1>5. \A e \in 0..m : off[e] \in Nat
  <2> DEFINE S == {k \in Nat : k <= m => off[k] \in Nat}
  <2>1. 0 \in S
    BY <1>3
  <2>2. ASSUME NEW k \in Nat, k \in S PROVE k + 1 \in S
    <3> SUFFICES ASSUME k + 1 <= m PROVE off[k + 1] \in Nat
      OBVIOUS
    <3>1. k \in Slots(m) /\ off[k] \in Nat /\ k \in Int
      BY <2>2 DEF Slots
    <3> QED BY <3>1, <1>4, BlocksCover
  <2> HIDE DEF S
  <2>3. Nat \subseteq S
    BY <2>1, <2>2, Induction
  <2> QED BY <2>3 DEF S
<1>6. off \in [0..m -> Nat]
  BY <1>1, <1>5 DEF IsSum
<1> QED BY <1>3, <1>4, <1>6 DEF off

\* Offsets never decrease.
LEMMA OffsetsGrow ==
    ASSUME NEW n \in Nat, NEW m \in Nat, NEW ids \in [Slots(n) -> Int],
           NEW e \in 0..m, NEW f \in 0..m, e <= f
    PROVE  Offsets(ids, m)[e] <= Offsets(ids, m)[f]
<1> DEFINE off == Offsets(ids, m)
           S == {k \in Nat : e + k <= m => off[e] <= off[e + k]}
<1>1. /\ off \in [0..m -> Nat]
      /\ \A x \in Slots(m) : off[x + 1] = off[x] + Blocks(ids, x)
  BY OffsetsAre
<1> HIDE DEF off
<1>2. 0 \in S
  BY <1>1
<1>3. ASSUME NEW k \in Nat, k \in S PROVE k + 1 \in S
  <2> SUFFICES ASSUME e + (k + 1) <= m PROVE off[e] <= off[e + (k + 1)]
    OBVIOUS
  <2>1. e + k \in Slots(m) /\ e + k \in Int /\ e + (k + 1) = (e + k) + 1 /\ e + k \in 0..m
    BY DEF Slots
  <2>2. Blocks(ids, e + k) \in Nat
    BY <2>1, BlocksCover
  <2>3. off[e] <= off[e + k] /\ off[e] \in Nat /\ off[e + k] \in Nat
    BY <1>1, <1>3, <2>1
  <2>4. off[e + (k + 1)] = off[e + k] + Blocks(ids, e + k)
    BY <1>1, <2>1
  <2> QED BY <2>2, <2>3, <2>4
<1> HIDE DEF S
<1>4. f - e \in S
  BY <1>2, <1>3, Induction
<1> QED BY <1>4 DEF S, off

\* As many numbers lie from 1 to n as n says.
LEMMA IntervalFromOne ==
    ASSUME NEW n \in Nat
    PROVE  Cardinality(1..n) = n
<1>1. Cardinality(1..n) = IF 1 > n THEN 0 ELSE n - 1 + 1
  BY FS_Interval
<1> QED BY <1>1

\* The device finds a tile's expert by comparing it with all the offsets.
LEMMA OwnerIs ==
    ASSUME NEW n \in Nat, NEW m \in Nat, NEW ids \in [Slots(n) -> Int], NEW b \in Nat
    PROVE  LET off == Offsets(ids, m)
           IN  /\ \A e \in Slots(m) : off[e] <= b /\ b < off[e + 1] => Owner(off, m, b) = e
               /\ off[m] <= b => Owner(off, m, b) = m
               /\ b < off[m] => \E e \in Slots(m) : off[e] <= b /\ b < off[e + 1]
<1> DEFINE off == Offsets(ids, m)
<1>1. off \in [0..m -> Nat] /\ off[0] = 0
  BY OffsetsAre
<1>2. \A e, f \in 0..m : e <= f => off[e] <= off[f]
  BY OffsetsGrow
<1> HIDE DEF off
<1>3. ASSUME NEW e \in Slots(m), off[e] <= b, b < off[e + 1] PROVE Owner(off, m, b) = e
  <2>1. {x \in 1..m : off[x] <= b} = 1..e
    <3>1. e \in 0..m /\ e + 1 \in 0..m /\ e \in Nat
      BY DEF Slots
    <3>2. ASSUME NEW x \in 1..m PROVE off[x] <= b <=> x <= e
      <4>1. x \in 0..m /\ off[x] \in Nat /\ off[e] \in Nat /\ off[e + 1] \in Nat
        BY <1>1, <3>1
      <4>2. x <= e => off[x] <= off[e]
        BY <1>2, <3>1, <4>1
      <4>3. e + 1 <= x => off[e + 1] <= off[x]
        BY <1>2, <3>1, <4>1
      <4> QED BY <1>3, <3>1, <4>1, <4>2, <4>3
    <3> QED BY <3>1, <3>2
  <2>2. e \in Nat
    BY DEF Slots
  <2>3. Cardinality(1..e) = e
    BY <2>2, IntervalFromOne
  <2> QED BY <2>1, <2>3 DEF Owner
<1>4. ASSUME off[m] <= b PROVE Owner(off, m, b) = m
  <2>1. {x \in 1..m : off[x] <= b} = 1..m
    <3> SUFFICES ASSUME NEW x \in 1..m PROVE off[x] <= b
      OBVIOUS
    <3>1. x \in 0..m /\ m \in 0..m /\ x <= m
      OBVIOUS
    <3>2. off[x] <= off[m] /\ off[x] \in Nat /\ off[m] \in Nat
      BY <1>1, <1>2, <3>1
    <3> QED BY <3>2, <1>4
  <2>2. Cardinality(1..m) = m
    BY IntervalFromOne
  <2> QED BY <2>1, <2>2 DEF Owner
<1>5. ASSUME b < off[m] PROVE \E e \in Slots(m) : off[e] <= b /\ b < off[e + 1]
  <2> DEFINE S == {x \in 0..m : b < off[x]}
  <2>1. S \in SUBSET Nat /\ S # {}
    BY <1>5
  <2>2. PICK x \in S : \A y \in S : x <= y
    BY <2>1, Least
  <2>3. x # 0 /\ x - 1 \in Slots(m) /\ (x - 1) + 1 = x /\ x - 1 \in 0..m
    BY <1>1, <2>2 DEF Slots
  <2>4. ~(b < off[x - 1])
    BY <2>2, <2>3
  <2>5. off[x - 1] \in Nat
    BY <1>1, <2>3
  <2> QED BY <2>2, <2>3, <2>4, <2>5
<1> QED BY <1>3, <1>4, <1>5 DEF off

\* The static capacity is enough, whatever the routing
\* (cb_grouped_block_offsets).
THEOREM CapacityHolds ==
    ASSUME NEW n \in Nat, Batch(n), NEW m \in Nat, NEW ids \in [Pairs -> Slots(m)]
    PROVE  Capacity(m) \in Nat /\ Offsets(ids, m)[m] <= Capacity(m)
<1> DEFINE N == n * TopK
           off == Offsets(ids, m)
           T == TileM
           S == {e \in Nat : e <= m => off[e] * T <= Before(ids, e) + e * (T - 1)}
<1>1. N \in Nat /\ Pairs = Slots(N) /\ ids \in [Slots(N) -> Int] /\ T \in Nat \ {0}
  BY PairsAre, ForwardAssumption DEF Slots
<1>2. /\ off \in [0..m -> Nat] /\ off[0] = 0
      /\ \A e \in Slots(m) : off[e + 1] = off[e] + Blocks(ids, e)
  BY <1>1, OffsetsAre
<1> HIDE DEF N, off, T
<1>3. 0 \in S
  BY <1>1, <1>2, Counted, CountedAll
<1>4. ASSUME NEW e \in Nat, e \in S PROVE e + 1 \in S
  <2> SUFFICES ASSUME e + 1 <= m
               PROVE  off[e + 1] * T <= Before(ids, e + 1) + (e + 1) * (T - 1)
    OBVIOUS
  <2>1. e \in Slots(m) /\ e \in Int /\ e \in 0..m
    BY DEF Slots
  <2> DEFINE o == off[e] B == Blocks(ids, e) c == Count(ids, e) x == Before(ids, e)
  <2>2. o \in Nat /\ off[e + 1] = o + B
    BY <1>2, <2>1
  <2>3. B \in Nat /\ B * T <= c + (T - 1)
    BY <1>1, <2>1, BlocksCover DEF T
  <2>4. x \in Nat /\ c \in Nat /\ Before(ids, e + 1) = x + c
    BY <1>1, <2>1, Counted
  <2>5. o * T <= x + e * (T - 1)
    BY <1>4, <2>1
  <2> HIDE DEF o, B, c, x
  <2>6. (o + B) * T = o * T + B * T /\ o * T \in Nat /\ B * T \in Nat
    BY <1>1, <2>2, <2>3
  <2>7. (e + 1) * (T - 1) = e * (T - 1) + (T - 1) /\ e * (T - 1) \in Nat
    BY <1>1
  <2> QED BY <1>1, <2>2, <2>3, <2>4, <2>5, <2>6, <2>7
<1> HIDE DEF S
<1>5. m \in S
  BY <1>3, <1>4, Induction
<1>6. Before(ids, m) = N
  BY <1>1, CountedAll
<1> DEFINE q == N \div T
           r == N % T
           o == off[m]
<1>7. q \in Nat /\ r \in 0..(T - 1) /\ N = q * T + r
  BY <1>1, Divided
<1>8. Capacity(m) = q + m
  BY <1>1, CountUpTo DEF Capacity, T
<1>9. o \in Nat /\ o * T <= N + m * (T - 1)
  BY <1>2, <1>5, <1>6 DEF S
<1> HIDE DEF q, r, o
<1>10. ~(q + m < o)
  <2> SUFFICES ASSUME q + m < o PROVE FALSE
    OBVIOUS
  <2>1. (q + m + 1) * T <= o * T
    BY <1>1, <1>7, <1>9, MultiplyKeepsOrder
  <2>2. (q + m + 1) * T = q * T + m * T + T /\ m * (T - 1) = m * T - m
    BY <1>1, <1>7
  <2>3. q * T \in Nat /\ m * T \in Nat /\ o * T \in Nat
    BY <1>1, <1>7, <1>9
  <2> QED BY <1>1, <1>7, <1>9, <2>1, <2>2, <2>3
<1> QED BY <1>7, <1>8, <1>9, <1>10 DEF o, off

------------------------------------------------------------------------------
(* Launches: each expert of the stack is in exactly one. *)

\* Each expert of the stack is in exactly one launch.
LEMMA Launched ==
    ASSUME NEW r, LocalCount(r) \in Nat \ {0}, deployment.chunk \in Nat \ {0}
    PROVE  /\ \A e \in Slots(LocalCount(r)) :
                  \E c \in Starts(r) : c <= e /\ e < End(r, c)
           /\ \A e \in Slots(LocalCount(r)) : \A c, d \in Starts(r) :
                  c <= e /\ e < End(r, c) /\ d <= e /\ e < End(r, d) => c = d
           /\ \A c \in Starts(r) : c \in Slots(LocalCount(r)) /\ End(r, c) \in 1..LocalCount(r)
<1> DEFINE L == LocalCount(r)
           W == Width(r)
<1>1. L \in Nat \ {0} /\ W \in Nat \ {0}
  BY DEF Width
<1>2. \A c : c \in Starts(r) <=> c \in 0..(L - 1) /\ c % W = 0
  BY DEF Starts, Slots
<1>3. \A c : End(r, c) = IF c + W < L THEN c + W ELSE L
  BY DEF End
<1> HIDE DEF L, W
<1>4. ASSUME NEW c \in Starts(r), NEW e \in 0..(L - 1), c <= e, e < End(r, c)
      PROVE  c = (e \div W) * W
  <2> DEFINE t == c \div W
             u == e \div W
             j == e % W
  <2>1. c \in Nat /\ c % W = 0 /\ e \in Nat
    BY <1>2
  <2>2. t \in Nat /\ c = t * W + (c % W)
    BY <1>1, <2>1, Divided
  <2>3. u \in Nat /\ j \in 0..(W - 1) /\ e = u * W + j
    BY <1>1, <2>1, Divided
  <2>4. e < c + W
    BY <1>1, <1>3, <1>4, <2>1
  <2> HIDE DEF t, u, j
  <2>5. t * W \in Nat /\ c = t * W /\ (t + 1) * W = t * W + W
    BY <1>1, <2>1, <2>2
  <2>6. (u < t <=> e < t * W) /\ (u <= t <=> e < (t + 1) * W)
    BY <1>1, <2>2, <2>3, BlockOrder
  <2>7. u = t
    BY <1>1, <1>4, <2>1, <2>2, <2>3, <2>4, <2>5, <2>6
  <2> QED BY <2>5, <2>7 DEF u
<1>5. ASSUME NEW e \in 0..(L - 1)
      PROVE  \E c \in Starts(r) : c <= e /\ e < End(r, c)
  <2> DEFINE u == e \div W
             j == e % W
  <2>1. e \in Nat /\ e < L
    BY <1>1
  <2>2. u \in Nat /\ j \in 0..(W - 1) /\ e = u * W + j
    BY <1>1, <2>1, Divided
  <2> HIDE DEF u, j
  <2> DEFINE c == u * W
  <2>3. (u * W + 0) % W = 0 /\ c \in Nat
    BY <1>1, <2>2, DividedOnce
  <2>4. c % W = 0 /\ c <= e /\ e < c + W
    BY <1>1, <2>2, <2>3
  <2> HIDE DEF c
  <2>5. c \in Starts(r)
    BY <1>1, <1>2, <2>1, <2>3, <2>4
  <2>6. e < End(r, c)
    BY <1>1, <1>3, <2>1, <2>3, <2>4
  <2> QED BY <2>4, <2>5, <2>6
<1>6. \A c \in Starts(r) : c \in 0..(L - 1) /\ End(r, c) \in 1..L
  <2> SUFFICES ASSUME NEW c \in Starts(r) PROVE c \in 0..(L - 1) /\ End(r, c) \in 1..L
    OBVIOUS
  <2>1. c \in 0..(L - 1)
    BY <1>2
  <2> QED BY <2>1, <1>1, <1>3
<1> QED BY <1>4, <1>5, <1>6 DEF L, Slots

------------------------------------------------------------------------------
(* Packing. *)

\* There is a largest expert among any, and a smallest.
LEMMA Extremes ==
    ASSUME NEW n \in Nat, NEW ids \in [Slots(n) -> Int], NEW m \in Nat,
           NEW X \in SUBSET Slots(m), X # {}
    PROVE  /\ \E e \in X : \A f \in X \ {e} : Larger(ids, e, f)
           /\ \E e \in X : \A f \in X \ {e} : Larger(ids, f, e)
<1> DEFINE B(e) == Blocks(ids, e)
           top == n + TileM
<1>1. \A e \in X : e \in Nat /\ e <= m /\ B(e) \in Nat /\ B(e) <= top
  <2> SUFFICES ASSUME NEW e \in X PROVE e \in Nat /\ e <= m /\ B(e) \in Nat /\ B(e) <= top
    OBVIOUS
  <2>1. e \in Nat /\ e <= m /\ e \in Int /\ TileM \in Nat \ {0}
    BY ForwardAssumption DEF Slots
  <2> DEFINE b == Blocks(ids, e)
             c == Count(ids, e)
  <2>2. b \in Nat /\ b * TileM <= c + (TileM - 1)
    BY <2>1, BlocksCover
  <2>3. /\ c \in Nat /\ Before(ids, e) \in 0..n
        /\ Before(ids, e + 1) = Before(ids, e) + c
    BY <2>1, Counted
  <2>4. Before(ids, e + 1) \in 0..n
    BY <2>1, Counted
  <2> HIDE DEF b, c
  <2>5. c <= n
    BY <2>3, <2>4
  <2>6. b * 1 <= b * TileM /\ b * 1 = b /\ b * TileM \in Nat
    BY <2>1, <2>2
  <2>7. b <= top
    BY <2>1, <2>2, <2>3, <2>5, <2>6
  <2> QED BY <2>1, <2>2, <2>7 DEF b
<1>2. top \in Nat
  BY ForwardAssumption
<1> HIDE DEF B, top
<1>3. PICK x \in X : \A f \in X : B(f) <= B(x)
  <2> DEFINE S == {top - B(e) : e \in X}
  <2>1. S \in SUBSET Nat /\ S # {}
    BY <1>1, <1>2
  <2>2. PICK s \in S : \A z \in S : s <= z
    BY <2>1, Least
  <2>3. PICK x \in X : s = top - B(x)
    BY <2>2
  <2>4. \A f \in X : top - B(x) <= top - B(f)
    BY <2>2, <2>3
  <2> QED BY <2>4, <1>1, <1>2
<1>4. PICK y \in X : \A f \in X : B(y) <= B(f)
  <2> DEFINE S == {B(e) : e \in X}
  <2>1. S \in SUBSET Nat /\ S # {}
    BY <1>1
  <2>2. PICK s \in S : \A z \in S : s <= z
    BY <2>1, Least
  <2> QED BY <2>2
<1>5. PICK e \in X : B(e) = B(x) /\ \A f \in X : B(f) = B(x) => e <= f
  <2> DEFINE S == {f \in X : B(f) = B(x)}
  <2>1. S \in SUBSET Nat /\ S # {}
    BY <1>1
  <2> QED BY <2>1, Least
<1>6. PICK g \in X : B(g) = B(y) /\ \A f \in X : B(f) = B(y) => f <= g
  <2> DEFINE S == {m - f : f \in {h \in X : B(h) = B(y)}}
  <2>1. S \in SUBSET Nat /\ S # {}
    BY <1>1
  <2>2. PICK s \in S : \A z \in S : s <= z
    BY <2>1, Least
  <2>3. PICK g \in X : B(g) = B(y) /\ s = m - g
    BY <2>2
  <2>4. \A f \in X : B(f) = B(y) => m - g <= m - f
    BY <2>2, <2>3
  <2> QED BY <2>3, <2>4, <1>1
<1>7. \A f \in X \ {e} : Larger(ids, e, f)
  BY <1>1, <1>3, <1>5 DEF Larger, B
<1>8. \A f \in X \ {g} : Larger(ids, f, g)
  BY <1>1, <1>4, <1>6 DEF Larger, B
<1> QED BY <1>7, <1>8

\* Packing picks an expert that is not placed yet.
LEMMA PickIsLeft ==
    ASSUME NEW n \in Nat, NEW ids \in [Slots(n) -> Int], NEW m \in Nat,
           NEW left \in SUBSET Slots(m), left # {}, NEW cap
    PROVE  Pick(ids, left, cap) \in left
<1> DEFINE fits == {e \in left : Blocks(ids, e) <= cap}
<1>1. CASE fits # {}
  <2>1. \E e \in fits : \A f \in fits \ {e} : Larger(ids, e, f)
    BY <1>1, Extremes
  <2>2. Pick(ids, left, cap) = CHOOSE e \in fits : \A f \in fits \ {e} : Larger(ids, e, f)
    BY <1>1 DEF Pick
  <2> HIDE DEF fits
  <2>3. Pick(ids, left, cap) \in fits
    BY <2>1, <2>2
  <2> QED BY <2>3 DEF fits
<1>2. CASE fits = {}
  <2>1. \E e \in left : \A f \in left \ {e} : Larger(ids, f, e)
    BY Extremes
  <2>2. Pick(ids, left, cap) = CHOOSE e \in left : \A f \in left \ {e} : Larger(ids, f, e)
    BY <1>2 DEF Pick
  <2> QED BY <2>1, <2>2
<1> QED BY <1>1, <1>2

\* The tiles of some experts, in the natural layout.
TilesOf(ids, m, X) ==
    {b \in Slots(Offsets(ids, m)[m]) : Owner(Offsets(ids, m), m, b) \in X}

\* Taking an expert out of a set takes its tiles out of the count.
LEMMA TilesCounted ==
    ASSUME NEW n \in Nat, NEW ids \in [Slots(n) -> Int], NEW m \in Nat,
           NEW X \in SUBSET Slots(m)
    PROVE  /\ IsFiniteSet(TilesOf(ids, m, X)) /\ Cardinality(TilesOf(ids, m, X)) \in Nat
           /\ \A e \in X : Cardinality(TilesOf(ids, m, X))
                              = Cardinality(TilesOf(ids, m, X \ {e})) + Blocks(ids, e)
<1> DEFINE off == Offsets(ids, m)
<1>1. /\ off \in [0..m -> Nat]
      /\ \A e \in Slots(m) : off[e + 1] = off[e] + Blocks(ids, e)
  BY OffsetsAre
<1>2. \A Y : IsFiniteSet(TilesOf(ids, m, Y)) /\ Cardinality(TilesOf(ids, m, Y)) \in Nat
  <2> TAKE Y
  <2>1. off[m] \in Nat
    BY <1>1
  <2>2. TilesOf(ids, m, Y) \in SUBSET Slots(off[m])
    BY DEF TilesOf
  <2>3. IsFiniteSet(TilesOf(ids, m, Y))
    BY <2>1, <2>2, CountUpTo, FS_Subset
  <2> QED BY <2>3, FS_CardinalityType
<1>3. ASSUME NEW e \in X
      PROVE  Cardinality(TilesOf(ids, m, X)) = Cardinality(TilesOf(ids, m, X \ {e})) + Blocks(ids, e)
  <2>1. e \in Slots(m) /\ e \in Nat /\ e + 1 \in 0..m /\ e \in 0..m /\ m \in 0..m
    BY DEF Slots
  <2>2. off[e] \in Nat /\ off[e + 1] \in Nat /\ off[e + 1] <= off[m] /\ off[m] \in Nat
    BY <1>1, <2>1, OffsetsGrow, SMTT(30)
  <2>3. TilesOf(ids, m, {e}) = off[e]..(off[e + 1] - 1)
    <3>1. ASSUME NEW b \in off[e]..(off[e + 1] - 1) PROVE b \in TilesOf(ids, m, {e})
      <4>1. b \in Nat /\ off[e] <= b /\ b < off[e + 1] /\ b \in Slots(off[m])
        BY <2>2 DEF Slots
      <4>2. Owner(off, m, b) = e
        BY <4>1, <2>1, OwnerIs
      <4> QED BY <4>1, <4>2 DEF TilesOf
    <3>2. ASSUME NEW b \in TilesOf(ids, m, {e}) PROVE b \in off[e]..(off[e + 1] - 1)
      <4>1. b \in Slots(off[m]) /\ Owner(off, m, b) = e
        BY DEF TilesOf
      <4>2. b \in Nat /\ b < off[m]
        BY <4>1, <2>2 DEF Slots
      <4>3. PICK f \in Slots(m) : off[f] <= b /\ b < off[f + 1]
        BY <4>2, OwnerIs
      <4>4. Owner(off, m, b) = f
        BY <4>2, <4>3, OwnerIs
      <4> QED BY <4>1, <4>2, <4>3, <4>4, <2>2
    <3> QED BY <3>1, <3>2
  <2>4. Cardinality(TilesOf(ids, m, {e})) = Blocks(ids, e)
    <3>1. e \in Int /\ off[e + 1] = off[e] + Blocks(ids, e)
      BY <1>1, <2>1
    <3>2. off[e + 1] = off[e] + Blocks(ids, e) /\ Blocks(ids, e) \in Nat
      BY <3>1, BlocksCover
    <3> DEFINE x == off[e]
               y == off[e + 1] - 1
    <3>3. x \in Int /\ y \in Int
      BY <2>2
    <3>4. TilesOf(ids, m, {e}) = x..y
      BY <2>3
    <3> HIDE DEF x, y
    <3>5. Cardinality(x..y) = IF x > y THEN 0 ELSE y - x + 1
      BY <3>3, FS_Interval
    <3>6. Cardinality(TilesOf(ids, m, {e})) = IF x > y THEN 0 ELSE y - x + 1
      BY <3>4, <3>5
    <3>7. y = x + Blocks(ids, e) - 1
      BY <2>2, <3>2 DEF x, y
    <3> QED BY <3>2, <3>3, <3>6, <3>7
  <2>5. /\ TilesOf(ids, m, X) = TilesOf(ids, m, X \ {e}) \cup TilesOf(ids, m, {e})
        /\ TilesOf(ids, m, X \ {e}) \cap TilesOf(ids, m, {e}) = {}
    BY DEF TilesOf
  <2>6. Cardinality(TilesOf(ids, m, X \ {e}) \cap TilesOf(ids, m, {e})) = 0
    BY <2>5, FS_EmptySet
  <2>7. Cardinality(TilesOf(ids, m, X))
          = Cardinality(TilesOf(ids, m, X \ {e})) + Cardinality(TilesOf(ids, m, {e})) - 0
    BY <1>2, <2>5, <2>6, FS_Union
  <2>8. Blocks(ids, e) \in Nat
    BY <2>1, BlocksCover
  <2> QED BY <1>2, <2>4, <2>7, <2>8
<1> QED BY <1>2, <1>3

Turns(f, n, ids, start) == f = [k \in 0..n |-> IF k = 0 THEN start ELSE Placing(ids, f[k - 1])]

\* The turns of the packing exist: what the recursive step of PackedAt names.
LEMMA TurnsExist ==
    ASSUME NEW ids, NEW start, NEW n \in Nat
    PROVE  \E f : Turns(f, n, ids, start)
<1> DEFINE S == {k \in Nat : \E f : Turns(f, k, ids, start)}
<1>1. 0 \in S
  <2> DEFINE f == [k \in 0..0 |-> start]
  <2>1. Turns(f, 0, ids, start)
    BY DEF Turns
  <2> QED BY <2>1
<1>2. ASSUME NEW k \in Nat, k \in S PROVE k + 1 \in S
  <2>1. PICK g : Turns(g, k, ids, start)
    BY <1>2
  <2> DEFINE f == [e \in 0..(k + 1) |-> IF e = k + 1 THEN Placing(ids, g[k]) ELSE g[e]]
  <2>2. \A e \in 0..k : g[e] = IF e = 0 THEN start ELSE Placing(ids, g[e - 1])
    BY <2>1 DEF Turns
  <2>3. \A e \in 0..(k + 1) : f[e] = IF e = 0 THEN start ELSE Placing(ids, f[e - 1])
    <3> SUFFICES ASSUME NEW e \in 0..(k + 1)
                 PROVE  f[e] = IF e = 0 THEN start ELSE Placing(ids, f[e - 1])
      OBVIOUS
    <3>1. CASE e = k + 1
      <4>1. f[e] = Placing(ids, g[k]) /\ f[k] = g[k] /\ e - 1 = k /\ e # 0
        BY <3>1
      <4> QED BY <4>1
    <3>2. CASE e # k + 1 /\ e # 0
      <4>1. e \in 0..k /\ e - 1 \in 0..k /\ f[e] = g[e] /\ f[e - 1] = g[e - 1]
        BY <3>2
      <4> QED BY <4>1, <2>2, <3>2
    <3>3. CASE e = 0
      <4>1. e \in 0..k /\ f[e] = g[e]
        BY <3>3
      <4> QED BY <4>1, <2>2, <3>3
    <3> QED BY <3>1, <3>2, <3>3
  <2>4. Turns(f, k + 1, ids, start)
    BY <2>3 DEF Turns
  <2> QED BY <2>4
<1> HIDE DEF S
<1>3. n \in S
  BY <1>1, <1>2, Induction
<1> QED BY <1>3 DEF S

Disjoint(ids, at, e, f) ==
    at[e] + Blocks(ids, e) <= at[f] \/ at[f] + Blocks(ids, f) <= at[e]

\* What a turn of the packing leaves true: the experts placed so far lie one
\* after the other, and with those that are left they make up the launch.
Packed(ids, m, busy, s) ==
    /\ s.left \in SUBSET busy /\ s.next \in Nat
    /\ s.at \in [busy -> Nat]
    /\ s.next + Cardinality(TilesOf(ids, m, s.left)) = Cardinality(TilesOf(ids, m, busy))
    /\ \A e \in busy \ s.left : s.at[e] + Blocks(ids, e) <= s.next
    /\ \A e, f \in busy \ s.left : e # f => Disjoint(ids, s.at, e, f)

PlacesOne(ids, s) == \E e \in s.left : Placing(ids, s).left = s.left \ {e}

\* A turn of the packing places one expert and keeps what was true.
LEMMA PlacingPacks ==
    ASSUME NEW n \in Nat, NEW ids \in [Slots(n) -> Int], NEW m \in Nat,
           NEW busy \in SUBSET Slots(m), NEW s, Packed(ids, m, busy, s), s.left # {}
    PROVE  /\ Packed(ids, m, busy, Placing(ids, s))
           /\ PlacesOne(ids, s)
<1> DEFINE cap == IF s.cap = 0 THEN Group ELSE s.cap
           e == Pick(ids, s.left, cap)
           t == Placing(ids, s)
           b == Blocks(ids, e)
<1>1. /\ t.left = s.left \ {e} /\ t.next = s.next + b
      /\ t.at = [s.at EXCEPT ![e] = s.next]
  BY DEF Placing
<1>2. s.left \in SUBSET busy /\ s.next \in Nat /\ s.at \in [busy -> Nat]
  BY DEF Packed
<1>3. e \in s.left
  <2> DEFINE X == s.left
  <2>1. X \in SUBSET Slots(m) /\ X # {}
    BY <1>2
  <2> HIDE DEF X
  <2>2. Pick(ids, X, cap) \in X
    BY <2>1, PickIsLeft
  <2> QED BY <2>2 DEF X
<1> HIDE DEF e, t
<1>4. e \in busy /\ e \in Slots(m) /\ e \in Int /\ s.left \in SUBSET Slots(m)
  <2>1. e \in busy /\ e \in Slots(m) /\ s.left \in SUBSET Slots(m)
    BY <1>2, <1>3
  <2>2. \A x \in Slots(m) : x \in Int
    BY DEF Slots
  <2> QED BY <2>1, <2>2
<1>5. b \in Nat
  BY <1>4, BlocksCover
<1>6. t.left \in SUBSET busy /\ t.next \in Nat /\ t.at \in [busy -> Nat]
  <2>1. b \in Nat
    BY <1>5
  <2> HIDE DEF b
  <2>2. s.left \ {e} \in SUBSET busy /\ s.next + b \in Nat
    BY <1>2, <2>1
  <2>3. [s.at EXCEPT ![e] = s.next] \in [busy -> Nat]
    BY <1>2
  <2> QED BY <1>1, <2>2, <2>3
<1>7. t.next + Cardinality(TilesOf(ids, m, t.left)) = Cardinality(TilesOf(ids, m, busy))
  <2>1. /\ Cardinality(TilesOf(ids, m, s.left)) = Cardinality(TilesOf(ids, m, s.left \ {e})) + b
        /\ Cardinality(TilesOf(ids, m, s.left)) \in Nat
    BY <1>3, <1>4, TilesCounted
  <2>2. Cardinality(TilesOf(ids, m, s.left \ {e})) \in Nat
    <3>1. s.left \ {e} \in SUBSET Slots(m)
      BY <1>4
    <3> QED BY <3>1, TilesCounted
  <2>3. s.next + Cardinality(TilesOf(ids, m, s.left)) = Cardinality(TilesOf(ids, m, busy))
    BY DEF Packed
  <2> HIDE DEF b
  <2> QED BY <1>1, <1>2, <1>5, <2>1, <2>2, <2>3
<1>8. ASSUME NEW f \in busy \ t.left PROVE t.at[f] + Blocks(ids, f) <= t.next
  <2>1. CASE f = e
    <3>1. t.at[f] = s.next
      BY <1>1, <1>2, <1>4, <2>1
    <3> QED BY <3>1, <2>1, <1>1, <1>2, <1>5
  <2>2. CASE f # e
    <3>1. f \in busy \ s.left /\ t.at[f] = s.at[f]
      BY <1>1, <1>2, <2>2
    <3>2. s.at[f] + Blocks(ids, f) <= s.next
      BY <3>1 DEF Packed
    <3>3. f \in Int /\ s.at[f] \in Nat
      BY <3>1, <1>2 DEF Slots
    <3>4. Blocks(ids, f) \in Nat
      BY <3>3, BlocksCover
    <3> QED BY <3>1, <3>2, <3>3, <3>4, <1>1, <1>2, <1>5
  <2> QED BY <2>1, <2>2
<1>9. ASSUME NEW f \in busy \ t.left, NEW g \in busy \ t.left, f # g
      PROVE  Disjoint(ids, t.at, f, g)
  <2>1. ASSUME NEW x \in busy \ t.left, x # e
        PROVE  /\ x \in busy \ s.left /\ t.at[x] = s.at[x]
               /\ s.at[x] + Blocks(ids, x) <= s.next
    <3>1. x \in busy \ s.left /\ t.at[x] = s.at[x]
      BY <1>1, <1>2, <2>1
    <3> QED BY <3>1 DEF Packed
  <2>2. t.at[e] = s.next
    BY <1>1, <1>2, <1>4
  <2>3. CASE f # e /\ g # e
    <3>1. Disjoint(ids, s.at, f, g)
      BY <1>9, <2>1, <2>3 DEF Packed
    <3> QED BY <2>1, <2>3, <3>1 DEF Disjoint
  <2>4. CASE f = e
    BY <1>9, <2>1, <2>2, <2>4 DEF Disjoint
  <2>5. CASE g = e
    BY <1>9, <2>1, <2>2, <2>5 DEF Disjoint
  <2> QED BY <2>3, <2>4, <2>5
<1> QED BY <1>1, <1>3, <1>6, <1>7, <1>8, <1>9 DEF Packed, PlacesOne, t

\* Packing moves whole experts, only within their launch, and never onto one
\* another (pack_expert_blocks).
THEOREM PackingIsInside ==
    ASSUME NEW n \in Nat, NEW ids \in [Slots(n) -> Int], NEW m \in Nat,
           NEW c0 \in 0..m, NEW c1 \in 0..m,
           NEW e \in c0..(c1 - 1), Count(ids, e) > 0
    PROVE  LET off == Offsets(ids, m)
           IN  /\ PackedAt(ids, c0, c1)[e] \in Nat
               /\ PackedAt(ids, c0, c1)[e] + Blocks(ids, e) <= off[c1] - off[c0]
               /\ \A f \in c0..(c1 - 1) : Count(ids, f) > 0 /\ f # e
                     => Disjoint(ids, PackedAt(ids, c0, c1), e, f)
<1> DEFINE off == Offsets(ids, m)
           busy == {x \in c0..(c1 - 1) : Count(ids, x) > 0}
           start == [left |-> busy, cap |-> 0, next |-> 0, at |-> [x \in busy |-> 0]]
           N == Cardinality(busy)
<1>1. busy \in SUBSET Slots(m) /\ e \in busy
  BY DEF Slots
<1>2. \A f \in c0..(c1 - 1) : Count(ids, f) > 0 => f \in busy
  OBVIOUS
<1>3. IsFiniteSet(busy) /\ N \in Nat
  BY <1>1, CountUpTo, FS_Subset, FS_CardinalityType
<1>4. PICK step : /\ Turns(step, N, ids, start)
                  /\ PackedAt(ids, c0, c1) = step[N].at
  <2> DEFINE F == CHOOSE f : Turns(f, N, ids, start)
  <2>1. Turns(F, N, ids, start)
    BY <1>3, TurnsExist
  <2>2. PackedAt(ids, c0, c1) = F[N].at
    BY DEF PackedAt, Turns
  <2> QED BY <2>1, <2>2
<1> HIDE DEF start, N
<1>5. \A k \in 0..N : step[k] = IF k = 0 THEN start ELSE Placing(ids, step[k - 1])
  BY <1>4 DEF Turns
<1>6. Packed(ids, m, busy, start) /\ start.left = busy
  <2>1. /\ start.left = busy /\ start.next = 0 /\ start.at = [x \in busy |-> 0]
    BY DEF start
  <2>2. Cardinality(TilesOf(ids, m, busy)) \in Nat
    BY <1>1, TilesCounted
  <2>3. busy \ start.left = {}
    BY <2>1
  <2> HIDE DEF busy
  <2> QED BY <2>1, <2>2, <2>3 DEF Packed
<1> HIDE DEF busy
<1> DEFINE S == {k \in Nat : k <= N =>
                    /\ Packed(ids, m, busy, step[k])
                    /\ IsFiniteSet(step[k].left)
                    /\ Cardinality(step[k].left) = N - k}
<1>7. 0 \in S
  <2>1. 0 \in 0..N
    BY <1>3
  <2>2. step[0] = start
    BY <1>5, <2>1
  <2> QED BY <2>2, <1>3, <1>6 DEF N
<1>8. ASSUME NEW k \in Nat, k \in S PROVE k + 1 \in S
  <2> SUFFICES ASSUME k + 1 <= N
               PROVE  /\ Packed(ids, m, busy, step[k + 1])
                      /\ IsFiniteSet(step[k + 1].left)
                      /\ Cardinality(step[k + 1].left) = N - (k + 1)
    OBVIOUS
  <2>1. k <= N /\ k + 1 \in 0..N /\ k + 1 # 0 /\ (k + 1) - 1 = k
    BY <1>3
  <2>2. step[k + 1] = Placing(ids, step[k])
    BY <2>1, <1>5
  <2>3. /\ Packed(ids, m, busy, step[k]) /\ IsFiniteSet(step[k].left)
        /\ Cardinality(step[k].left) = N - k
    BY <1>8, <2>1
  <2>4. step[k].left # {}
    BY <2>1, <2>3, <1>3, FS_EmptySet
  <2>5. /\ Packed(ids, m, busy, step[k + 1])
        /\ \E x \in step[k].left : step[k + 1].left = step[k].left \ {x}
    <3> DEFINE u == step[k]
               v == step[k + 1]
    <3>1. v = Placing(ids, u) /\ Packed(ids, m, busy, u) /\ u.left # {}
      BY <2>2, <2>3, <2>4
    <3>2. busy \in SUBSET Slots(m)
      BY <1>1
    <3> HIDE DEF u, v
    <3>3. Packed(ids, m, busy, Placing(ids, u))
      BY <3>1, <3>2, PlacingPacks
    <3>4. PlacesOne(ids, u)
      BY <3>1, <3>2, PlacingPacks
    <3>5. Packed(ids, m, busy, v) /\ \E x \in u.left : v.left = u.left \ {x}
      BY <3>1, <3>3, <3>4 DEF PlacesOne
    <3> QED BY <3>5 DEF u, v
  <2>6. PICK x \in step[k].left : step[k + 1].left = step[k].left \ {x}
    BY <2>5
  <2>7. /\ IsFiniteSet(step[k + 1].left)
        /\ Cardinality(step[k + 1].left) = Cardinality(step[k].left) - 1
    <3> DEFINE X == step[k].left
    <3>1. x \in X /\ IsFiniteSet(X)
      BY <2>3
    <3> HIDE DEF X
    <3>2. IsFiniteSet(X \ {x}) /\ Cardinality(X \ {x}) = Cardinality(X) - 1
      BY <3>1, FS_RemoveElement
    <3> QED BY <3>2, <2>6 DEF X
  <2>8. (N - k) - 1 = N - (k + 1)
    BY <1>3
  <2> QED BY <2>3, <2>5, <2>7, <2>8
<1> HIDE DEF S
<1>9. N \in S
  BY <1>3, <1>7, <1>8, Induction
<1> DEFINE s == step[N]
<1>10. Packed(ids, m, busy, s) /\ s.left = {}
  <2>1. Packed(ids, m, busy, s) /\ IsFiniteSet(s.left) /\ Cardinality(s.left) = N - N
    BY <1>3, <1>9 DEF S
  <2> QED BY <2>1, <1>3, FS_EmptySet
<1> HIDE DEF s
<1>11. s.at[e] \in Nat /\ s.at[e] + Blocks(ids, e) <= s.next /\ s.next \in Nat
  BY <1>1, <1>10 DEF Packed
<1>12. \A f \in c0..(c1 - 1) : Count(ids, f) > 0 /\ f # e => Disjoint(ids, s.at, e, f)
  BY <1>1, <1>10, <1>2 DEF Packed
<1>13. s.next = Cardinality(TilesOf(ids, m, busy))
  <2>1. TilesOf(ids, m, {}) = {}
    BY DEF TilesOf
  <2>2. s.next + Cardinality(TilesOf(ids, m, {})) = Cardinality(TilesOf(ids, m, busy))
    BY <1>10 DEF Packed
  <2> QED BY <2>1, <2>2, <1>11, FS_EmptySet
<1> DEFINE first == off[c0]
           last == off[c1]
<1>14. Cardinality(TilesOf(ids, m, busy)) <= last - first
  <2>1. /\ off \in [0..m -> Nat] /\ first <= last
        /\ first \in Nat /\ last \in Nat /\ off[m] \in Nat
    <3>1. off \in [0..m -> Nat] /\ m \in 0..m
      BY OffsetsAre
    <3>2. c0 <= c1
      OBVIOUS
    <3>3. off[c0] <= off[c1]
      BY <3>2, OffsetsGrow
    <3> HIDE DEF off
    <3> QED BY <3>1, <3>3
  <2>2. TilesOf(ids, m, busy) \in SUBSET (first..(last - 1))
    <3> SUFFICES ASSUME NEW b \in TilesOf(ids, m, busy)
                 PROVE  b \in first..(last - 1)
      OBVIOUS
    <3>1. b \in Slots(off[m]) /\ Owner(off, m, b) \in busy
      BY DEF TilesOf
    <3>2. b \in Nat /\ b < off[m]
      BY <3>1, <2>1 DEF Slots
    <3>3. PICK f \in Slots(m) : off[f] <= b /\ b < off[f + 1]
      BY <3>2, OwnerIs
    <3>4. Owner(off, m, b) = f
      BY <3>2, <3>3, OwnerIs
    <3>5. c0 <= f /\ f + 1 <= c1 /\ f \in 0..m /\ f + 1 \in 0..m
      BY <3>1, <3>3, <3>4 DEF busy, Slots
    <3> DEFINE x == off[f]
               y == off[f + 1]
    <3>6. first <= x /\ y <= last
      BY <3>5, OffsetsGrow
    <3>7. x \in Nat /\ y \in Nat /\ x <= b /\ b < y
      BY <2>1, <3>3, <3>5
    <3> HIDE DEF x, y, first, last
    <3> QED BY <2>1, <3>2, <3>6, <3>7
  <2>3. first \in Int /\ last - 1 \in Int /\ first <= last /\ last \in Int
    BY <2>1
  <2> HIDE DEF first, last
  <2>4. /\ IsFiniteSet(first..(last - 1))
        /\ Cardinality(first..(last - 1)) = IF first > last - 1 THEN 0 ELSE (last - 1) - first + 1
    BY <2>3, FS_Interval
  <2>5. Cardinality(first..(last - 1)) = last - first
    BY <2>3, <2>4
  <2> QED BY <2>2, <2>4, <2>5, FS_Subset
<1>15. off[c1] - off[c0] \in Int /\ Blocks(ids, e) \in Nat
  <2>1. off \in [0..m -> Nat] /\ e \in Int
    BY OffsetsAre
  <2> QED BY <2>1, BlocksCover, SMTT(30)
<1> HIDE DEF off
<1>16. s.at[e] + Blocks(ids, e) <= off[c1] - off[c0]
  BY <1>11, <1>13, <1>14, <1>15
<1> QED BY <1>4, <1>11, <1>16, <1>12 DEF s, off

------------------------------------------------------------------------------
(* The rows of a rank. *)

\* What is known of a rank that was constructed, for the batch in hand.
Ready(r, n) ==
    /\ Batch(n) /\ r \in World
    /\ LocalCount(r) \in Nat \ {0} /\ deployment.chunk \in Nat \ {0}
    /\ SlotIds(r) \in [Pairs -> Slots(LocalCount(r))]

\* Row c is pair p's: its own token, through the slot of its expert.
Serves(r, c, p) ==
    /\ c = RowOf(r, c.at, tokenOf[p], SlotIds(r)[p], p, tokenOf[p])
    /\ c.pair = p /\ c.token = tokenOf[p] /\ c.dest = tokenOf[p]
    /\ c.slot = SlotIds(r)[p] /\ c.live = (p \in LivePairs(r))

\* Every pair has one row, and no row is anything else.
Exact(r, rows) ==
    /\ \A c \in rows : \E p \in Pairs : Serves(r, c, p)
    /\ \A p \in Pairs : \E c \in rows : c.pair = p /\ \A d \in rows : d.pair = p => d = c
    /\ \A c \in rows : c.at \in Nat
    /\ \A c, d \in rows : c.at = d.at => c = d

\* What a row says when it is laid out for a pair.
LEMMA RowServes ==
    ASSUME NEW r, NEW i, NEW t, NEW s, NEW p, NEW d
    PROVE  LET c == RowOf(r, i, t, s, p, d)
           IN  /\ c.pair = p /\ c.dest = d /\ c.token = t /\ c.at = i
               /\ t = tokenOf[p] /\ d = tokenOf[p] /\ s = SlotIds(r)[p] => Serves(r, c, p)
BY DEF RowOf, Serves

\* What is known of a batch on a rank that was constructed.
LEMMA ReadyIs ==
    ASSUME NEW r, NEW n \in Nat, Ready(r, n)
    PROVE  /\ NoToken = n /\ Pairs = Slots(n * TopK) /\ n * TopK \in Nat
           /\ LocalCount(r) \in Nat \ {0} /\ deployment.chunk \in Nat \ {0}
           /\ SlotIds(r) \in [Pairs -> Slots(LocalCount(r))]
           /\ SlotIds(r) \in [Slots(n * TopK) -> Int]
           /\ \A p \in Pairs : tokenOf[p] \in Slots(n)
<1>1. /\ NoToken = n /\ Pairs = Slots(n * TopK) /\ n * TopK \in Nat
      /\ \A p \in Pairs : p \div TopK \in Tokens /\ tokenOf[p] = p \div TopK
  BY PairsAre DEF Ready
<1>2. Slots(LocalCount(r)) \subseteq Int
  BY DEF Slots, Ready
<1> QED BY <1>1, <1>2 DEF Ready, Batch

\* _apply_grouped_decode.
LEMMA DecodeIsExact ==
    ASSUME NEW r, NEW n \in Nat, Ready(r, n)
    PROVE  Exact(r, DecodeRows(r))
<1> DEFINE L == LocalCount(r)
           ids == SlotIds(r)
           N == n * TopK
           key == [p \in Pairs |-> tokenOf[p] * L + ids[p]]
           order == Order(key)
           row(i) == RowOf(r, i, tokenOf[i], ids[order[i]], order[i], tokenOf[i])
<1>1. Pairs = Slots(N) /\ N \in Nat
  BY ReadyIs
<1>2. key \in [Slots(N) -> Int] /\ \A p \in Pairs : tokenOf[Rank(key, p)] = tokenOf[p]
  <2>1. \A p \in Pairs : key \in [Pairs -> Int] /\ tokenOf[Rank(key, p)] = tokenOf[p]
    BY DecodeOrder DEF Ready
  <2>2. ASSUME Pairs = {} PROVE key \in [Pairs -> Int]
    BY <2>2
  <2> QED BY <2>1, <2>2, <1>1
<1>3. /\ order \in [Slots(N) -> Slots(N)]
      /\ \A i \in Slots(N) : Rank(key, order[i]) = i
      /\ \A p \in Slots(N) : order[Rank(key, p)] = p /\ Rank(key, p) \in Slots(N)
  BY <1>1, <1>2, OrderIs, RankIsPosition
<1>4. DecodeRows(r) = {row(i) : i \in Pairs}
  BY DEF DecodeRows
<1> HIDE DEF key, order
<1>5. ASSUME NEW i \in Pairs
      PROVE  order[i] \in Pairs /\ row(i).pair = order[i] /\ Serves(r, row(i), order[i])
  <2>1. order[i] \in Pairs /\ tokenOf[i] = tokenOf[order[i]]
    BY <1>1, <1>2, <1>3
  <2> QED BY <2>1, RowServes
<1>6. ASSUME NEW p \in Pairs
      PROVE  \E c \in DecodeRows(r) : c.pair = p /\ \A d \in DecodeRows(r) : d.pair = p => d = c
  <2> DEFINE i == Rank(key, p)
  <2>1. i \in Pairs /\ order[i] = p
    BY <1>1, <1>3
  <2> HIDE DEF i
  <2>2. ASSUME NEW k \in Pairs, order[k] = p PROVE k = i
    BY <2>1, <2>2, <1>1, <1>3
  <2>3. row(i) \in DecodeRows(r)
    BY <2>1, <1>4
  <2>4. row(i).pair = p
    BY <2>1, <1>5
  <2>5. ASSUME NEW d \in DecodeRows(r), d.pair = p PROVE d = row(i)
    <3>1. PICK k \in Pairs : d = row(k)
      BY <1>4
    <3>2. order[k] = p
      BY <3>1, <2>5, <1>5
    <3> QED BY <3>1, <3>2, <2>2
  <2> QED BY <2>4, <2>5, <2>3
<1>7. ASSUME NEW c \in DecodeRows(r) PROVE \E p \in Pairs : Serves(r, c, p)
  <2>1. PICK i \in Pairs : c = row(i)
    BY <1>4
  <2> QED BY <2>1, <1>5
<1>8. \A c \in DecodeRows(r) : c.at \in Nat
  BY <1>1, <1>4, RowServes DEF Slots
<1>9. ASSUME NEW c \in DecodeRows(r), NEW d \in DecodeRows(r), c.at = d.at PROVE c = d
  <2>1. PICK i \in Pairs : c = row(i)
    BY <1>4
  <2>2. PICK k \in Pairs : d = row(k)
    BY <1>4
  <2> QED BY <1>9, <2>1, <2>2, RowServes
<1> QED BY <1>6, <1>7, <1>8, <1>9 DEF Exact

\* _apply_prefill_native_bf16.
LEMMA SegmentsAreExact ==
    ASSUME NEW r, NEW n \in Nat, Ready(r, n)
    PROVE  Exact(r, SegmentRows(r))
<1> DEFINE L == LocalCount(r)
           ids == SlotIds(r)
           N == n * TopK
           order == Order(ids)
           row(e, i) == RowOf(r, i, tokenOf[order[i]], e, order[i], tokenOf[order[i]])
           Segment(e) == {i \in Pairs : Before(ids, e) <= i /\ i < Before(ids, e + 1)}
<1>1. Pairs = Slots(N) /\ N \in Nat /\ ids \in [Slots(N) -> Int] /\ ids \in [Slots(N) -> Slots(L)]
  BY ReadyIs
<1>2. /\ order \in [Slots(N) -> Slots(N)]
      /\ \A i \in Slots(N) : Rank(ids, order[i]) = i
      /\ \A p \in Slots(N) : order[Rank(ids, p)] = p /\ Rank(ids, p) \in Slots(N)
  BY <1>1, OrderIs, RankIsPosition
<1>3. \A e \in Int : \A i \in Pairs : i \in Segment(e) <=> ids[order[i]] = e
  BY <1>1, SegmentIsExpert
<1>4. \A c : c \in SegmentRows(r) <=>
         \E s \in Starts(r) : \E e \in s..(End(r, s) - 1) : \E i \in Segment(e) : c = row(e, i)
  BY DEF SegmentRows
<1>5. \A s \in Starts(r) : s \in Int /\ End(r, s) \in Int
  BY ReadyIs, Launched DEF Slots
<1> HIDE DEF order, Segment
<1>6. ASSUME NEW c \in SegmentRows(r)
      PROVE  \E i \in Pairs : /\ order[i] \in Pairs /\ c = row(ids[order[i]], i)
                              /\ c.pair = order[i] /\ c.at = i
                              /\ Serves(r, c, order[i])
  <2>1. PICK s \in Starts(r) :
           \E e \in s..(End(r, s) - 1) : \E i \in Segment(e) : c = row(e, i)
    BY <1>4
  <2>2. PICK e \in s..(End(r, s) - 1) : \E i \in Segment(e) : c = row(e, i)
    BY <2>1
  <2>3. PICK i \in Segment(e) : c = row(e, i)
    BY <2>2
  <2>4. i \in Pairs /\ e \in Int
    BY <1>5 DEF Segment
  <2>5. ids[order[i]] = e /\ order[i] \in Pairs
    BY <2>4, <1>1, <1>2, <1>3
  <2>6. c.pair = order[i] /\ c.at = i /\ Serves(r, c, order[i])
    BY <2>3, <2>5, RowServes
  <2> QED BY <2>3, <2>4, <2>5, <2>6
<1>7. ASSUME NEW p \in Pairs
      PROVE  \E c \in SegmentRows(r) : c.pair = p /\ \A d \in SegmentRows(r) : d.pair = p => d = c
  <2> DEFINE i == Rank(ids, p)
             e == ids[p]
  <2>1. i \in Pairs /\ order[i] = p /\ e \in Slots(L) /\ e \in Int
    BY <1>1, <1>2
  <2>2. i \in Segment(e)
    BY <2>1, <1>3
  <2>3. PICK s \in Starts(r) : s <= e /\ e < End(r, s)
    BY <2>1, ReadyIs, Launched
  <2>4. e \in s..(End(r, s) - 1)
    BY <2>1, <2>3, <1>5
  <2> HIDE DEF i, e
  <2>5. row(e, i) \in SegmentRows(r)
    BY <2>2, <2>4, <1>4
  <2>6. row(e, i).pair = p
    BY <2>1, RowServes
  <2>7. ASSUME NEW d \in SegmentRows(r), d.pair = p PROVE d = row(e, i)
    <3>1. PICK k \in Pairs : order[k] \in Pairs /\ d = row(ids[order[k]], k) /\ d.pair = order[k]
      BY <1>6
    <3>2. order[k] = p /\ Rank(ids, order[k]) = k
      BY <3>1, <2>7, <1>1, <1>2
    <3> QED BY <3>1, <3>2 DEF i, e
  <2> QED BY <2>5, <2>6, <2>7
<1>8. ASSUME NEW c \in SegmentRows(r) PROVE \E p \in Pairs : Serves(r, c, p)
  BY <1>6
<1>9. \A c \in SegmentRows(r) : c.at \in Nat
  BY <1>1, <1>6 DEF Slots
<1>10. \A c, d \in SegmentRows(r) : c.at = d.at => c = d
  BY <1>6
<1> QED BY <1>7, <1>8, <1>9, <1>10 DEF Exact

------------------------------------------------------------------------------
(* The padded layout. *)

\* What a row of the padded layout gathers: in the tiles of expert e the
\* pairs of e in order, then padding; past the last tile only padding.
LEMMA PadRowIs ==
    ASSUME NEW n \in Nat, NEW ids \in [Slots(n) -> Int], NEW m \in Nat,
           NEW b \in Nat, NEW j \in Slots(TileM)
    PROVE  LET off == Offsets(ids, m)
               pr  == PadRow(ids, off, m, b * TileM + j)
           IN  /\ off[m] <= b => pr.pad
               /\ \A e \in Slots(m) : off[e] <= b /\ b < off[e + 1] =>
                     LET k == (b - off[e]) * TileM + j
                     IN  /\ k \in Nat
                         /\ pr.pad <=> Count(ids, e) <= k
                         /\ ~pr.pad => pr.src = Before(ids, e) + k
<1> DEFINE off == Offsets(ids, m)
           i == b * TileM + j
           pr == PadRow(ids, off, m, i)
<1>1. TileM \in Nat \ {0} /\ j \in Nat /\ j \in 0..(TileM - 1)
  BY ForwardAssumption DEF Slots
<1>2. i \div TileM = b
  BY <1>1, DividedOnce
<1>3. off \in [0..m -> Nat]
  BY OffsetsAre
<1>4. ASSUME off[m] <= b PROVE pr.pad
  <2>1. Owner(off, m, b) = m
    BY <1>4, OwnerIs
  <2> HIDE DEF off, i
  <2> QED BY <1>2, <2>1 DEF PadRow
<1>5. ASSUME NEW e \in Slots(m), off[e] <= b, b < off[e + 1]
      PROVE  LET k == (b - off[e]) * TileM + j
             IN  /\ k \in Nat
                 /\ pr.pad <=> Count(ids, e) <= k
                 /\ ~pr.pad => pr.src = Before(ids, e) + k
  <2>1. Owner(off, m, b) = e
    BY <1>5, OwnerIs
  <2>2. e # m /\ e < m /\ e \in Int /\ off[e] \in Nat
    BY <1>3 DEF Slots
  <2> DEFINE o == off[e]
             k == i - o * TileM
  <2>3. k = (b - o) * TileM + j /\ k \in Nat
    <3>1. o \in Nat /\ o <= b
      BY <2>2, <1>5
    <3> HIDE DEF o, off
    <3>2. i - o * TileM = (b - o) * TileM + j
      BY <3>1, <1>1
    <3>3. b - o \in Nat
      BY <3>1
    <3>4. (b - o) * TileM \in Nat
      BY <3>3, <1>1
    <3> QED BY <3>2, <3>4, <1>1
  <2>4. Count(ids, e) \in Nat
    BY <2>2, Counted
  <2> HIDE DEF off, i
  <2>5. /\ pr.pad = (e = m \/ k >= Count(ids, e))
        /\ pr.src = IF (e = m \/ k >= Count(ids, e)) THEN 0 ELSE Before(ids, e) + k
    BY <1>2, <2>1, <2>2 DEF PadRow
  <2> HIDE DEF pr, k
  <2>6. (pr.pad <=> Count(ids, e) <= k) /\ (~pr.pad => pr.src = Before(ids, e) + k)
    BY <2>2, <2>3, <2>4, <2>5
  <2> QED BY <2>3, <2>6 DEF o, off, pr, i
<1> QED BY <1>4, <1>5

\* The rows of padded tiles: as many tiles as the routing fills, or more, each
\* through its expert's slot, wherever the lane puts it.
LEMMA TilesAreExact ==
    ASSUME NEW r, NEW n \in Nat, Ready(r, n), NEW tiles \in Nat, NEW at, NEW slot,
           Offsets(SlotIds(r), LocalCount(r))[LocalCount(r)] <= tiles,
           \A b \in Nat : \A e \in Slots(LocalCount(r)) :
               /\ Offsets(SlotIds(r), LocalCount(r))[e] <= b
               /\ b < Offsets(SlotIds(r), LocalCount(r))[e + 1]
               => slot[b] = e /\ at[b] \in Nat,
           \A b, d \in Nat : /\ b < Offsets(SlotIds(r), LocalCount(r))[LocalCount(r)]
                            /\ d < Offsets(SlotIds(r), LocalCount(r))[LocalCount(r)]
                            /\ at[b] = at[d]
                            => b = d
    PROVE  Exact(r, TileRows(r, tiles, at, slot))
<1> DEFINE L == LocalCount(r)
           ids == SlotIds(r)
           N == n * TopK
           off == Offsets(ids, L)
           order == Order(ids)
           rows == TileRows(r, tiles, at, slot)
           Pad(b, j) == PadRow(ids, off, L, b * TileM + j)
           pair(b, j) == order[Pad(b, j).src]
           dest(b, j) == IF Pad(b, j).pad THEN NoToken ELSE tokenOf[pair(b, j)]
           row(b, j) == RowOf(r, at[b] * TileM + j, dest(b, j), slot[b], pair(b, j), dest(b, j))
<1>1. /\ Pairs = Slots(N) /\ N \in Nat /\ L \in Nat /\ L \in Nat \ {0} /\ NoToken = n
      /\ ids \in [Slots(N) -> Int] /\ ids \in [Slots(N) -> Slots(L)]
      /\ \A p \in Pairs : tokenOf[p] \in Slots(n)
  BY ReadyIs
<1>2. /\ order \in [Slots(N) -> Slots(N)]
      /\ \A i \in Slots(N) : Rank(ids, order[i]) = i
      /\ \A p \in Slots(N) : order[Rank(ids, p)] = p /\ Rank(ids, p) \in Slots(N)
  BY <1>1, OrderIs, RankIsPosition
<1>3. TileM \in Nat \ {0}
  BY ForwardAssumption
<1>4. \A e \in Slots(L) : e \in Int /\ Count(ids, e) \in Nat
  <2>1. \A e \in Slots(L) : e \in Int
    BY DEF Slots
  <2> QED BY <2>1, <1>1, Counted
<1>5. 0..(TileM - 1) = Slots(TileM)
  BY DEF Slots
<1>6. \A c : c \in rows <=>
        c.dest # NoToken /\ \E b \in 0..(tiles - 1), j \in 0..(TileM - 1) : c = row(b, j)
  BY DEF TileRows
<1> DEFINE Held_(b, j, e) == off[e] <= b /\ b < off[e + 1] /\ (b - off[e]) * TileM + j < Count(ids, e)
           src(b, j, e) == Before(ids, e) + ((b - off[e]) * TileM + j)
<1>7. ASSUME NEW b \in Nat, NEW j \in 0..(TileM - 1), NEW e \in Slots(L), Held_(b, j, e)
      PROVE  /\ src(b, j, e) \in Slots(N) /\ pair(b, j) = order[src(b, j, e)]
             /\ pair(b, j) \in Pairs /\ ids[pair(b, j)] = e
             /\ row(b, j).pair = pair(b, j) /\ Serves(r, row(b, j), pair(b, j))
             /\ row(b, j).dest # NoToken
  <2> DEFINE k == (b - off[e]) * TileM + j
             pr == Pad(b, j)
  <2>1. k \in Nat /\ ~pr.pad /\ pr.src = Before(ids, e) + k /\ k < Count(ids, e)
    <3>1. /\ k \in Nat /\ (pr.pad <=> Count(ids, e) <= k)
          /\ (~pr.pad => pr.src = Before(ids, e) + k)
      <4>1. off[e] <= b /\ b < off[e + 1] /\ j \in Slots(TileM)
        BY <1>7, <1>5
      <4> QED BY <4>1, <1>1, PadRowIs
    <3>2. Count(ids, e) \in Nat
      BY <1>4
    <3>3. k < Count(ids, e)
      BY <1>7
    <3> HIDE DEF k, pr
    <3> QED BY <3>1, <3>2, <3>3
  <2>2. e \in Int /\ Before(ids, e) \in 0..N /\ Before(ids, e + 1) \in 0..N
        /\ Before(ids, e + 1) = Before(ids, e) + Count(ids, e) /\ Count(ids, e) \in Nat
    <3>1. e \in Int /\ e + 1 \in Int
      BY DEF Slots
    <3> QED BY <3>1, <1>1, Counted
  <2>3. src(b, j, e) = Before(ids, e) + k /\ pr.src = src(b, j, e)
    BY <2>1
  <2> DEFINE s == src(b, j, e)
  <2>4. s \in Slots(N) /\ Before(ids, e) <= s /\ s < Before(ids, e + 1)
    <3>1. s = Before(ids, e) + k
      BY <2>3
    <3>2. k \in Nat /\ k < Count(ids, e)
      BY <2>1
    <3> DEFINE B0 == Before(ids, e)
               B1 == Before(ids, e + 1)
               C == Count(ids, e)
    <3>3. B0 \in 0..N /\ B1 \in 0..N /\ B1 = B0 + C /\ C \in Nat
      BY <2>2
    <3>4. N \in Nat
      BY <1>1
    <3>5. s = B0 + k /\ k < C
      BY <3>1, <3>2
    <3> HIDE DEF s, k, B0, B1, C, N
    <3>6. s \in Slots(N) /\ B0 <= s /\ s < B1
      BY <3>2, <3>3, <3>4, <3>5 DEF Slots
    <3> QED BY <3>6 DEF B0, B1
  <2>5. pair(b, j) = order[s]
    BY <2>3
  <2> HIDE DEF s
  <2>6. ids[order[s]] = e /\ order[s] \in Pairs
    BY <2>2, <2>4, <1>1, <1>2, SegmentIsExpert
  <2>7. slot[b] = e
    BY <1>7
  <2>8. dest(b, j) = tokenOf[pair(b, j)]
    BY <2>1
  <2> HIDE DEF off, Pad, order
  <2>9. row(b, j).pair = pair(b, j) /\ row(b, j).dest = dest(b, j) /\ Serves(r, row(b, j), pair(b, j))
    BY <2>5, <2>6, <2>7, <2>8, RowServes
  <2>10. dest(b, j) # NoToken
    BY <2>5, <2>6, <2>8, <1>1 DEF Slots
  <2> QED BY <2>4, <2>5, <2>6, <2>9, <2>10 DEF s
\* What is not padding lies in a tile of an expert, at a rank below its count.
<1>8. ASSUME NEW b \in Nat, NEW j \in 0..(TileM - 1), row(b, j).dest # NoToken
      PROVE  \E e \in Slots(L) : Held_(b, j, e)
  <2> DEFINE pr == Pad(b, j)
  <2>1. ~pr.pad
    <3>1. row(b, j).dest = dest(b, j)
      BY RowServes
    <3> QED BY <3>1, <1>8
  <2>2. off[L] \in Nat
    <3>1. off \in [0..L -> Nat] /\ L \in 0..L
      BY <1>1, OffsetsAre
    <3> QED BY <3>1
  <2>3. ~(off[L] <= b)
    BY <2>1, <1>1, <1>5, PadRowIs
  <2>4. PICK e \in Slots(L) : off[e] <= b /\ b < off[e + 1]
    BY <2>2, <2>3, <1>1, OwnerIs
  <2> DEFINE k == (b - off[e]) * TileM + j
  <2>5. k \in Nat /\ (pr.pad <=> Count(ids, e) <= k)
    BY <2>4, <1>1, <1>5, PadRowIs
  <2>6. Count(ids, e) \in Nat
    BY <1>4
  <2> HIDE DEF pr, k
  <2>7. k < Count(ids, e)
    BY <2>1, <2>5, <2>6
  <2> QED BY <2>4, <2>7 DEF k
<1>9. ASSUME NEW c \in rows
      PROVE  \E b \in 0..(tiles - 1), j \in 0..(TileM - 1), e \in Slots(L) :
                c = row(b, j) /\ Held_(b, j, e)
  <2>1. PICK b \in 0..(tiles - 1), j \in 0..(TileM - 1) : c = row(b, j)
    BY <1>6
  <2>2. c.dest # NoToken /\ b \in Nat
    BY <1>6
  <2>3. PICK e \in Slots(L) : Held_(b, j, e)
    BY <2>1, <2>2, <1>8
  <2> QED BY <2>1, <2>3
<1> HIDE DEF off, order, rows, Pad
<1>10. ASSUME NEW c \in rows PROVE \E p \in Pairs : Serves(r, c, p)
  <2>1. PICK b \in 0..(tiles - 1), j \in 0..(TileM - 1), e \in Slots(L) :
           c = row(b, j) /\ Held_(b, j, e)
    BY <1>9
  <2>2. b \in Nat
    OBVIOUS
  <2>3. pair(b, j) \in Pairs /\ Serves(r, row(b, j), pair(b, j))
    BY <2>1, <2>2, <1>7
  <2> QED BY <2>1, <2>3
<1>11. ASSUME NEW p \in Pairs
       PROVE  \E c \in rows : c.pair = p /\ \A d \in rows : d.pair = p => d = c
  <2> DEFINE e == ids[p]
             k == Rank(ids, p) - Before(ids, e)
             j == k % TileM
             b == off[e] + (k \div TileM)
  <2>1. e \in Slots(L) /\ e \in Nat /\ e \in Int
    BY <1>1, SMTT(30) DEF Slots
  <2>2. /\ k \in Nat /\ k < Count(ids, e) /\ Rank(ids, p) = Before(ids, e) + k
        /\ Before(ids, e) \in Nat
    <3>1. /\ Before(ids, e) <= Rank(ids, p) /\ Rank(ids, p) < Before(ids, e + 1)
          /\ Rank(ids, p) \in Nat
      <4>1. Before(ids, e) <= Rank(ids, p) /\ Rank(ids, p) < Before(ids, e + 1)
        BY <1>1, RankInSegment
      <4>2. Rank(ids, p) \in Slots(N)
        BY <1>1, RankIsPosition
      <4> QED BY <4>1, <4>2, <1>1 DEF Slots
    <3>2. Before(ids, e + 1) = Before(ids, e) + Count(ids, e) /\ Before(ids, e) \in 0..N
          /\ Count(ids, e) \in Nat
      BY <1>1, <2>1, Counted
    <3> HIDE DEF e
    <3> QED BY <3>1, <3>2
  <2>3. /\ off \in [0..L -> Nat] /\ off[e + 1] = off[e] + Blocks(ids, e)
        /\ off[e] \in Nat /\ off[e + 1] \in Nat /\ off[e + 1] <= off[L] /\ off[L] \in Nat
    <3>1. off \in [0..L -> Nat] /\ off[e + 1] = off[e] + Blocks(ids, e)
      BY <1>1, <2>1, OffsetsAre DEF off
    <3>2. e \in 0..L /\ e + 1 \in 0..L /\ L \in 0..L
      BY <2>1, <1>1 DEF Slots
    <3>3. off[e + 1] <= off[L]
      BY <3>2, <1>1, OffsetsGrow DEF off
    <3> QED BY <3>1, <3>2, <3>3
  <2>4. Blocks(ids, e) \in Nat /\ Count(ids, e) <= Blocks(ids, e) * TileM
    BY <2>1, <1>1, BlocksCover
  <2> HIDE DEF e, k
  <2>5. /\ j \in 0..(TileM - 1) /\ k \div TileM \in Nat
        /\ k = (k \div TileM) * TileM + j
    BY <2>2, <1>3, Divided
  <2> DEFINE q == k \div TileM
  <2> HIDE DEF j
  <2>6. q < Blocks(ids, e)
    <3>1. Count(ids, e) \in Nat
      BY <2>1, <1>1, Counted
    <3> DEFINE B == Blocks(ids, e)
    <3>2. k < B * TileM
      <4>1. B * TileM \in Nat
        BY <2>4, <1>3
      <4> HIDE DEF B
      <4> QED BY <3>1, <4>1, <2>2, <2>4 DEF B
    <3>3. j < TileM /\ j \in Nat
      BY <2>5, <1>3
    <3> HIDE DEF B, q
    <3>4. q * TileM + j < B * TileM
      BY <3>2, <2>5 DEF q
    <3>5. B \in Nat /\ q \in Nat
      BY <2>4, <2>5 DEF B, q
    <3>6. q < B
      BY <3>3, <3>4, <3>5, <1>3, BlockOrder
    <3> QED BY <3>6 DEF B
  <2>7. /\ b \in Nat /\ off[e] <= b /\ b < off[e + 1] /\ b - off[e] = q /\ b \in 0..(tiles - 1)
    <3> DEFINE o == off[e]
               B == Blocks(ids, e)
               z == off[L]
    <3>1. o \in Nat /\ B \in Nat /\ z \in Nat /\ q \in Nat /\ q < B /\ off[e + 1] = o + B /\ o + B <= z
      BY <2>3, <2>4, <2>5, <2>6
    <3>2. z <= tiles
      BY DEF off
    <3>3. b = o + q
      OBVIOUS
    <3> HIDE DEF o, B, z, q, b
    <3>4. b \in Nat /\ o <= b /\ b < o + B /\ b - o = q /\ b \in 0..(tiles - 1)
      BY <3>1, <3>2, <3>3
    <3> QED BY <3>1, <3>4 DEF o
  <2> HIDE DEF b, q
  <2>8. (b - off[e]) * TileM + j = k
    BY <2>5, <2>7 DEF q
  <2>9. Held_(b, j, e) /\ src(b, j, e) = Rank(ids, p)
    BY <2>2, <2>7, <2>8
  <2>10. pair(b, j) = p /\ row(b, j).pair = p /\ row(b, j).dest # NoToken
    BY <2>1, <2>5, <2>7, <2>9, <1>1, <1>2, <1>7
  <2>11. row(b, j) \in rows
    BY <2>5, <2>7, <2>10, <1>6
  <2>12. ASSUME NEW d \in rows, d.pair = p PROVE d = row(b, j)
    <3>1. PICK b1 \in 0..(tiles - 1), j1 \in 0..(TileM - 1), f \in Slots(L) :
             d = row(b1, j1) /\ Held_(b1, j1, f)
      BY <1>9
    <3>2. b1 \in Nat
      OBVIOUS
    <3>3. /\ src(b1, j1, f) \in Slots(N) /\ pair(b1, j1) = order[src(b1, j1, f)]
          /\ ids[pair(b1, j1)] = f /\ row(b1, j1).pair = pair(b1, j1)
      BY <3>1, <3>2, <1>7
    <3>4. pair(b1, j1) = p
      BY <3>1, <3>3, <2>12
    <3>5. f = e /\ src(b1, j1, f) = Rank(ids, p)
      <4>1. f = e
        BY <3>3, <3>4 DEF e
      <4>2. Rank(ids, order[src(b1, j1, f)]) = src(b1, j1, f)
        BY <3>3, <1>2
      <4>3. order[src(b1, j1, f)] = p
        BY <3>3, <3>4
      <4> QED BY <4>1, <4>2, <4>3
    <3>6. Before(ids, e) + ((b1 - off[e]) * TileM + j1) = Before(ids, e) + k
      BY <3>5, <2>2
    <3> DEFINE u == b1 - off[e]
    <3>7. u \in Nat
      BY <3>1, <3>2, <3>5, <2>3
    <3> HIDE DEF u
    <3>8. u * TileM + j1 = k
      <4>1. u * TileM \in Nat
        BY <3>7, <1>3
      <4>2. Before(ids, e) + (u * TileM + j1) = Before(ids, e) + k
        BY <3>6 DEF u
      <4> QED BY <4>1, <4>2, <2>2, <1>3
    <3>9. k \div TileM = u /\ k % TileM = j1
      BY <3>7, <3>8, <1>3, DividedOnce
    <3>10. j1 = j /\ u = q
      BY <3>9 DEF j, q
    <3>11. b1 = b
      BY <3>10, <3>2, <2>3, <2>7 DEF u
    <3> QED BY <3>1, <3>10, <3>11
  <2> QED BY <2>10, <2>11, <2>12
\* A tile in use lies before the last offset.
<1>12. ASSUME NEW b \in Nat, NEW j \in 0..(TileM - 1), NEW e \in Slots(L), Held_(b, j, e)
       PROVE  b < off[L] /\ at[b] \in Nat /\ row(b, j).at = at[b] * TileM + j
  <2>1. off[e + 1] <= off[L]
    <3>1. e + 1 \in 0..L /\ L \in 0..L /\ e + 1 <= L
      BY <1>1 DEF Slots
    <3> QED BY <3>1, <1>1, OffsetsGrow DEF off
  <2>2. off[e + 1] \in Nat /\ off[L] \in Nat
    <3>1. off \in [0..L -> Nat]
      BY <1>1, OffsetsAre DEF off
    <3>2. e + 1 \in 0..L /\ L \in 0..L
      BY <1>1 DEF Slots
    <3> QED BY <3>1, <3>2
  <2>3. b < off[L]
    BY <1>12, <2>1, <2>2
  <2>4. at[b] \in Nat
    BY <1>12 DEF off
  <2>5. row(b, j).at = at[b] * TileM + j
    BY RowServes
  <2> QED BY <2>3, <2>4, <2>5
<1>13. ASSUME NEW c \in rows PROVE c.at \in Nat
  <2>1. PICK b \in 0..(tiles - 1), j \in 0..(TileM - 1), e \in Slots(L) :
           c = row(b, j) /\ Held_(b, j, e)
    BY <1>9
  <2>2. b \in Nat
    OBVIOUS
  <2>3. c.at = at[b] * TileM + j /\ at[b] \in Nat
    BY <1>12, <2>1, <2>2
  <2> DEFINE x == at[b]
  <2>4. x * TileM \in Nat
    <3>1. x \in Nat
      BY <2>3
    <3> HIDE DEF x
    <3> QED BY <3>1, <1>3
  <2> HIDE DEF x
  <2>5. x * TileM + j \in Nat
    BY <2>4, <1>3
  <2> QED BY <2>3, <2>5 DEF x
<1>14. ASSUME NEW c \in rows, NEW d \in rows, c.at = d.at PROVE c = d
  <2>1. PICK b \in 0..(tiles - 1), j \in 0..(TileM - 1), e \in Slots(L) :
           c = row(b, j) /\ Held_(b, j, e)
    BY <1>9
  <2>2. PICK b1 \in 0..(tiles - 1), j1 \in 0..(TileM - 1), f \in Slots(L) :
           d = row(b1, j1) /\ Held_(b1, j1, f)
    BY <1>9
  <2>3. b \in Nat /\ b1 \in Nat
    OBVIOUS
  <2>4. /\ b < off[L] /\ at[b] \in Nat /\ c.at = at[b] * TileM + j
        /\ b1 < off[L] /\ at[b1] \in Nat /\ d.at = at[b1] * TileM + j1
    BY <1>12, <2>1, <2>2, <2>3
  <2>5. /\ c.at \div TileM = at[b] /\ c.at % TileM = j
        /\ d.at \div TileM = at[b1] /\ d.at % TileM = j1
    <3> DEFINE x == at[b]
               y == at[b1]
    <3>1. x \in Nat /\ y \in Nat /\ c.at = x * TileM + j /\ d.at = y * TileM + j1
      BY <2>4
    <3> HIDE DEF x, y
    <3>2. /\ (x * TileM + j) \div TileM = x /\ (x * TileM + j) % TileM = j
          /\ (y * TileM + j1) \div TileM = y /\ (y * TileM + j1) % TileM = j1
      BY <3>1, <1>3, DividedOnce
    <3>3. c.at \div TileM = x /\ c.at % TileM = j /\ d.at \div TileM = y /\ d.at % TileM = j1
      BY <3>1, <3>2
    <3> QED BY <3>3 DEF x, y
  <2>6. at[b] = at[b1] /\ j = j1
    BY <1>14, <2>5
  <2>7. b = b1
    BY <2>3, <2>4, <2>6 DEF off
  <2> QED BY <2>1, <2>2, <2>6, <2>7
<1>15. Exact(r, rows)
  BY <1>10, <1>11, <1>13, <1>14 DEF Exact
<1> QED BY <1>15 DEF rows

\* _apply_prefill_grouped_fused_v2: whole experts, one after the other.
LEMMA FusedIsExact ==
    ASSUME NEW r, NEW n \in Nat, Ready(r, n), NEW tiles \in Nat,
           Offsets(SlotIds(r), LocalCount(r))[LocalCount(r)] <= tiles
    PROVE  Exact(r, FusedRows(r, tiles))
<1> DEFINE L == LocalCount(r)
           ids == SlotIds(r)
           off == Offsets(ids, L)
           at == [b \in 0..(tiles - 1) |-> b]
           slot == [b \in 0..(tiles - 1) |-> TileExpert(off, L, b)]
<1>1. L \in Nat \ {0} /\ L \in Nat /\ n * TopK \in Nat /\ ids \in [Slots(n * TopK) -> Int]
  BY ReadyIs
<1>2. ASSUME NEW b \in Nat, NEW e \in Slots(L), off[e] <= b, b < off[e + 1]
      PROVE  slot[b] = e
  <2>1. Owner(off, L, b) = e
    BY <1>1, <1>2, OwnerIs
  <2>2. e < L /\ e \in 0..L /\ e + 1 \in 0..L /\ L \in 0..L
    BY <1>1 DEF Slots
  <2>3. off[e + 1] <= off[L] /\ off[e + 1] \in Nat /\ off[L] \in Nat
    <3>1. off[e + 1] <= off[L]
      <4>1. e + 1 <= L
        BY <1>1, <2>2
      <4> QED BY <1>1, <2>2, <4>1, OffsetsGrow
    <3>2. off \in [0..L -> Nat]
      BY <1>1, OffsetsAre
    <3> HIDE DEF off
    <3> QED BY <3>1, <3>2, <2>2
  <2> HIDE DEF off
  <2>4. b \in 0..(tiles - 1)
    <3>1. off[L] <= tiles
      BY DEF off
    <3> QED BY <1>2, <2>3, <3>1
  <2>5. slot[b] = TileExpert(off, L, b)
    BY <2>4
  <2> QED BY <2>1, <2>2, <2>5 DEF TileExpert
<1>3. \A b \in Nat : b < off[L] => at[b] = b
  <2>1. off[L] <= tiles /\ off[L] \in Nat
    <3>1. off \in [0..L -> Nat] /\ L \in 0..L
      BY <1>1, OffsetsAre
    <3>2. off[L] <= tiles
      OBVIOUS
    <3> HIDE DEF off
    <3> QED BY <3>1, <3>2
  <2> HIDE DEF off
  <2> QED BY <2>1
<1>4. ASSUME NEW b \in Nat, NEW e \in Slots(L), off[e] <= b, b < off[e + 1]
      PROVE  at[b] = b
  <2>1. e + 1 \in 0..L /\ L \in 0..L /\ e + 1 <= L
    BY <1>1 DEF Slots
  <2>2. off[e + 1] <= off[L]
    BY <2>1, <1>1, OffsetsGrow
  <2>3. off \in [0..L -> Nat]
    BY <1>1, OffsetsAre
  <2> HIDE DEF off, at
  <2>4. b < off[L]
    BY <1>4, <2>1, <2>2, <2>3
  <2> QED BY <2>4, <1>3
<1>5. FusedRows(r, tiles) = TileRows(r, tiles, at, slot)
  BY DEF FusedRows
<1> HIDE DEF at, slot
<1>6. Exact(r, TileRows(r, tiles, at, slot))
  <2>1. \A b \in Nat : \A e \in Slots(L) :
           off[e] <= b /\ b < off[e + 1] => slot[b] = e /\ at[b] \in Nat
    BY <1>2, <1>4
  <2>2. \A b, d \in Nat : b < off[L] /\ d < off[L] /\ at[b] = at[d] => b = d
    BY <1>3
  <2> QED BY <2>1, <2>2, TilesAreExact
<1> QED BY <1>5, <1>6

\* Where a tile goes: inside its launch, at its place behind the first tile of
\* its expert.
LEMMA TileMoves ==
    ASSUME NEW r, NEW n \in Nat, Ready(r, n),
           NEW e \in Slots(LocalCount(r)), NEW b \in Nat,
           Offsets(SlotIds(r), LocalCount(r))[e] <= b,
           b < Offsets(SlotIds(r), LocalCount(r))[e + 1]
    PROVE  LET off == Offsets(SlotIds(r), LocalCount(r))
               at  == NewTile(r, SlotIds(r), off)
           IN  /\ b \in DOMAIN at /\ at[b] \in Nat
               /\ Count(SlotIds(r), e) > 0 /\ Blocks(SlotIds(r), e) \in Nat
               /\ \E c \in Starts(r) :
                     /\ c <= e /\ e < End(r, c)
                     /\ off[c] <= at[b] /\ at[b] < off[End(r, c)]
                     /\ PackedAt(SlotIds(r), c, End(r, c))[e] \in Nat
                     /\ at[b] = off[c] + PackedAt(SlotIds(r), c, End(r, c))[e] + (b - off[e])
<1> DEFINE L == LocalCount(r)
           ids == SlotIds(r)
           off == Offsets(ids, L)
           tiles == off[L]
           at == NewTile(r, ids, off)
<1>1. /\ L \in Nat \ {0} /\ L \in Nat /\ n * TopK \in Nat /\ ids \in [Slots(n * TopK) -> Int]
     /\ deployment.chunk \in Nat \ {0}
  BY ReadyIs
<1>2. off \in [0..L -> Nat] /\ \A x \in Slots(L) : off[x + 1] = off[x] + Blocks(ids, x)
  BY <1>1, OffsetsAre
<1>3. tiles \in Nat
  <2>1. L \in 0..L
    BY <1>1
  <2> HIDE DEF off
  <2> QED BY <2>1, <1>2
<1>4. off[e] <= b /\ b < off[e + 1]
  OBVIOUS
<1>5. Owner(off, L, b) = e
  BY <1>1, <1>4, OwnerIs
<1>6. e < L /\ e \in Int /\ e \in 0..L /\ e + 1 \in 0..L /\ L \in 0..L
  BY <1>1 DEF Slots
<1>7. off[e + 1] <= off[L] /\ off[e + 1] \in Nat /\ off[L] \in Nat /\ off[e] \in Nat
  <2>1. off[e + 1] <= off[L]
    <3>1. e + 1 <= L
      BY <1>1, <1>6
    <3> QED BY <1>1, <1>6, <3>1, OffsetsGrow
  <2> HIDE DEF off
  <2> QED BY <2>1, <1>2, <1>6
<1> DEFINE first == CHOOSE c \in Starts(r) : c <= e /\ e < End(r, c)
           c1 == End(r, first)
           packed == PackedAt(ids, first, c1)[e]
<1>8. first \in Starts(r) /\ first <= e /\ e < c1
  <2>1. \E c \in Starts(r) : c <= e /\ e < End(r, c)
    BY <1>1, Launched
  <2> QED BY <2>1
<1>9. first \in 0..L /\ c1 \in 0..L /\ e \in first..(c1 - 1)
  <2>1. first \in Slots(L) /\ c1 \in 1..L
    BY <1>1, <1>8, Launched
  <2> HIDE DEF first, c1
  <2> QED BY <2>1, <1>6, <1>8, <1>1 DEF Slots
<1>10. Count(ids, e) > 0
  <2> DEFINE B == Blocks(ids, e)
             C == Count(ids, e)
  <2>1. B \in Nat /\ C <= B * TileM /\ B * TileM <= C + (TileM - 1)
    BY <1>1, <1>6, BlocksCover
  <2>2. C \in Nat
    BY <1>1, <1>6, Counted
  <2>3. off[e + 1] = off[e] + B
    BY <1>2
  <2>4. TileM \in Nat \ {0}
    BY ForwardAssumption
  <2> HIDE DEF B, C, off
  <2>5. B > 0
    BY <2>1, <2>3, <1>7, <1>4
  <2>6. B * TileM >= TileM
    BY <2>5, <2>1, <2>4
  <2>7. C > 0
    BY <2>6, <2>1, <2>2, <2>4
  <2> QED BY <2>7 DEF C
<1> HIDE DEF first, c1
<1>11. /\ packed \in Nat
       /\ packed + Blocks(ids, e) <= off[c1] - off[first]
  BY <1>9, <1>10, <1>1, PackingIsInside
<1>12. b \in 0..(off[L] - 1)
  <2> HIDE DEF off
  <2> QED BY <1>4, <1>7
<1>13. at[b] = off[first] + packed + (b - off[e]) /\ b \in DOMAIN at
  <2> DEFINE fst(x) == CHOOSE c \in Starts(r) : c <= x /\ x < End(r, c)
             pk == [c \in Starts(r) |-> PackedAt(ids, c, End(r, c))]
             tile(x) == LET y == Owner(off, L, x)
                        IN  off[fst(y)] + pk[fst(y)][y] + (x - off[y])
  <2>1. at = [x \in 0..(off[L] - 1) |-> tile(x)]
    BY DEF NewTile
  <2>2. fst(e) = first
    BY DEF first
  <2>3. pk[first] = PackedAt(ids, first, c1)
    BY <1>8 DEF c1
  <2> HIDE DEF off, ids, pk, fst
  <2>4. tile(b) = off[first] + packed + (b - off[e])
    BY <1>5, <2>2, <2>3
  <2> HIDE DEF tile, at
  <2> QED BY <1>12, <2>1, <2>4
<1>14. off[first] <= at[b] /\ at[b] < off[c1]
  <2> DEFINE x == off[first]
             y == off[c1]
             o == off[e]
             B == Blocks(ids, e)
             p == packed
             a == at[b]
  <2>1. x \in Nat /\ y \in Nat /\ o \in Nat
    BY <1>2, <1>9, <1>6
  <2>2. B \in Nat
    BY <1>1, <1>6, BlocksCover
  <2>3. b < o + B /\ o <= b
    BY <1>2, <1>4
  <2>4. p \in Nat /\ p + B <= y - x
    BY <1>11
  <2>5. a = x + p + (b - o)
    BY <1>13
  <2> HIDE DEF x, y, o, B, p, a
  <2>6. x <= a /\ a < y
    BY <2>1, <2>2, <2>3, <2>4, <2>5
  <2> QED BY <2>6 DEF x, y, a
<1>15. at[b] \in Nat /\ Blocks(ids, e) \in Nat
  <2>1. off[first] \in Nat
    BY <1>9, <1>2
  <2>2. packed \in Nat /\ off[e] \in Nat /\ off[e] <= b
    BY <1>7, <1>11, <1>4
  <2>3. Blocks(ids, e) \in Nat
    BY <1>1, <1>6, BlocksCover
  <2> HIDE DEF off, packed, at
  <2> QED BY <2>1, <2>2, <2>3, <1>13
<1> HIDE DEF off, at
<1>16. \E c \in Starts(r) :
         /\ c <= e /\ e < End(r, c)
         /\ off[c] <= at[b] /\ at[b] < off[End(r, c)]
         /\ PackedAt(ids, c, End(r, c))[e] \in Nat
         /\ at[b] = off[c] + PackedAt(ids, c, End(r, c))[e] + (b - off[e])
  BY <1>8, <1>11, <1>13, <1>14 DEF c1
<1> QED BY <1>10, <1>13, <1>15, <1>16 DEF at, off

\* Two launches have no tile in common.
LEMMA LaunchesApart ==
    ASSUME NEW r, NEW n \in Nat, Ready(r, n), NEW c \in Starts(r), NEW d \in Starts(r),
           NEW x \in Nat,
           Offsets(SlotIds(r), LocalCount(r))[c] <= x,
           x < Offsets(SlotIds(r), LocalCount(r))[End(r, c)],
           Offsets(SlotIds(r), LocalCount(r))[d] <= x,
           x < Offsets(SlotIds(r), LocalCount(r))[End(r, d)]
    PROVE  c = d
<1> DEFINE L == LocalCount(r)
           ids == SlotIds(r)
           off == Offsets(ids, L)
<1>1. /\ L \in Nat \ {0} /\ L \in Nat /\ n * TopK \in Nat /\ ids \in [Slots(n * TopK) -> Int]
      /\ deployment.chunk \in Nat \ {0}
  BY ReadyIs
<1>2. off \in [0..L -> Nat]
  BY <1>1, OffsetsAre
<1>3. /\ \A e \in Slots(L) : \A f, g \in Starts(r) :
            f <= e /\ e < End(r, f) /\ g <= e /\ e < End(r, g) => f = g
      /\ \A f \in Starts(r) : f \in 0..L /\ End(r, f) \in 0..L
  <2>1. \A f \in Starts(r) : f \in Slots(L) /\ End(r, f) \in 1..L
    BY <1>1, Launched
  <2>2. \A f \in Starts(r) : f \in 0..L /\ End(r, f) \in 0..L
    BY <2>1, <1>1 DEF Slots
  <2> QED BY <2>2, <1>1, Launched
<1>4. x < off[L]
  <2>1. End(r, c) \in 0..L /\ L \in 0..L /\ End(r, c) <= L
    BY <1>1, <1>3
  <2>2. off[End(r, c)] <= off[L]
    BY <2>1, <1>1, OffsetsGrow
  <2>3. x < off[End(r, c)]
    OBVIOUS
  <2> HIDE DEF off
  <2> QED BY <2>1, <2>2, <2>3, <1>2
<1>5. PICK e \in Slots(L) : off[e] <= x /\ x < off[e + 1]
  BY <1>1, <1>4, OwnerIs
<1>6. ASSUME NEW f \in Starts(r), off[f] <= x, x < off[End(r, f)]
      PROVE  f <= e /\ e < End(r, f)
  <2>1. /\ e \in 0..L /\ e + 1 \in 0..L /\ f \in 0..L /\ End(r, f) \in 0..L
        /\ e \in Int /\ f \in Int /\ End(r, f) \in Int
    BY <1>1, <1>3 DEF Slots
  <2>2. e + 1 <= f => off[e + 1] <= off[f]
    BY <2>1, <1>1, OffsetsGrow
  <2>3. End(r, f) <= e => off[End(r, f)] <= off[e]
    BY <2>1, <1>1, OffsetsGrow
  <2> HIDE DEF off
  <2>4. ~(e + 1 <= f)
    BY <2>1, <2>2, <1>2, <1>5, <1>6
  <2>5. ~(End(r, f) <= e)
    BY <2>1, <2>3, <1>2, <1>5, <1>6
  <2> QED BY <2>1, <2>4, <2>5
<1>7. /\ off[c] <= x /\ x < off[End(r, c)]
      /\ off[d] <= x /\ x < off[End(r, d)]
  OBVIOUS
<1> QED BY <1>3, <1>6, <1>7

\* _apply_prefill_native_bf16_sm120: packing keeps every tile inside the launch
\* that expands its expert, and apart from every other.
LEMMA ChunkedIsExact ==
    ASSUME NEW r, NEW n \in Nat, Ready(r, n)
    PROVE  LET L == LocalCount(r)
               tiles == Offsets(SlotIds(r), L)[L]
           IN  tiles \in Nat /\ Exact(r, ChunkRows(r, tiles))
<1> DEFINE L == LocalCount(r)
           ids == SlotIds(r)
           off == Offsets(ids, L)
           tiles == off[L]
           at == NewTile(r, ids, off)
           slot == [b \in DOMAIN at |->
                      SliceExpert(r, off, at[b], TileExpert(off, L, b))]
<1>1. /\ L \in Nat \ {0} /\ L \in Nat /\ n * TopK \in Nat /\ ids \in [Slots(n * TopK) -> Int]
      /\ deployment.chunk \in Nat \ {0}
  BY ReadyIs
<1>2. off \in [0..L -> Nat] /\ \A x \in Slots(L) : off[x + 1] = off[x] + Blocks(ids, x)
  BY <1>1, OffsetsAre
<1>3. tiles \in Nat
  <2>1. L \in 0..L
    BY <1>1
  <2> HIDE DEF off
  <2> QED BY <2>1, <1>2
<1>4. ASSUME NEW b \in Nat, NEW e \in Slots(L), off[e] <= b, b < off[e + 1]
      PROVE  slot[b] = e /\ at[b] \in Nat
  <2>1. Owner(off, L, b) = e
    BY <1>1, <1>4, OwnerIs
  <2>2. e < L
    BY <1>1 DEF Slots
  <2>3. /\ b \in DOMAIN at /\ at[b] \in Nat
        /\ \E c \in Starts(r) : /\ c <= e /\ e < End(r, c)
                               /\ off[c] <= at[b] /\ at[b] < off[End(r, c)]
    BY <1>4, TileMoves
  <2> HIDE DEF off, at
  <2>4. TileExpert(off, L, b) = e
    BY <2>1, <2>2 DEF TileExpert
  <2>5. slot[b] = SliceExpert(r, off, at[b], e)
    BY <2>3, <2>4
  <2>6. SliceExpert(r, off, at[b], e) = e
    BY <2>3 DEF SliceExpert
  <2> QED BY <2>3, <2>5, <2>6
<1>5. ASSUME NEW b \in Nat, NEW d \in Nat, b < off[L], d < off[L], at[b] = at[d]
      PROVE  b = d
  <2>1. PICK e \in Slots(L) : off[e] <= b /\ b < off[e + 1]
    BY <1>1, <1>5, OwnerIs
  <2>2. PICK f \in Slots(L) : off[f] <= d /\ d < off[f + 1]
    BY <1>1, <1>5, OwnerIs
  <2>3. /\ at[b] \in Nat /\ Count(ids, e) > 0 /\ Blocks(ids, e) \in Nat
        /\ Count(ids, f) > 0 /\ Blocks(ids, f) \in Nat
    BY <2>1, <2>2, TileMoves
  <2>4. PICK c \in Starts(r) :
           /\ c <= e /\ e < End(r, c)
           /\ off[c] <= at[b] /\ at[b] < off[End(r, c)]
           /\ PackedAt(ids, c, End(r, c))[e] \in Nat
           /\ at[b] = off[c] + PackedAt(ids, c, End(r, c))[e] + (b - off[e])
    BY <2>1, TileMoves
  <2>5. PICK g \in Starts(r) :
           /\ g <= f /\ f < End(r, g)
           /\ off[g] <= at[d] /\ at[d] < off[End(r, g)]
           /\ PackedAt(ids, g, End(r, g))[f] \in Nat
           /\ at[d] = off[g] + PackedAt(ids, g, End(r, g))[f] + (d - off[f])
    BY <2>2, TileMoves
  <2>6. g = c
    BY <1>5, <2>3, <2>4, <2>5, LaunchesApart
  <2> DEFINE c1 == End(r, c)
             place == PackedAt(ids, c, c1)
  <2>7. /\ c \in 0..L /\ c1 \in 0..L /\ e \in c..(c1 - 1) /\ f \in c..(c1 - 1)
    <3>1. c \in Slots(L) /\ c1 \in 1..L
      BY <1>1, Launched
    <3>2. c <= e /\ e < c1 /\ c <= f /\ f < c1
      BY <2>4, <2>5, <2>6
    <3> HIDE DEF c1
    <3> QED BY <3>1, <3>2, <1>1 DEF Slots
  <2>8. f # e => Disjoint(ids, place, e, f)
    <3> HIDE DEF c1
    <3> QED BY <2>3, <2>7, <1>1, PackingIsInside
  <2> DEFINE x == off[c]
             oe == off[e]
             of == off[f]
             pe == place[e]
             pf == place[f]
             be == Blocks(ids, e)
             bf == Blocks(ids, f)
  <2>9. /\ x + pe + (b - oe) = x + pf + (d - of)
        /\ pe \in Nat /\ pf \in Nat
    BY <1>5, <2>4, <2>5, <2>6
  <2>10. /\ x \in Nat /\ oe \in Nat /\ of \in Nat /\ be \in Nat /\ bf \in Nat
         /\ oe <= b /\ b < oe + be /\ of <= d /\ d < of + bf
    <3>1. e \in 0..L /\ f \in 0..L
      BY <1>1 DEF Slots
    <3>2. off[e + 1] = oe + be /\ off[f + 1] = of + bf
      BY <1>2
    <3> HIDE DEF off
    <3> QED BY <3>1, <3>2, <1>2, <2>1, <2>2, <2>3, <2>7
  <2>11. f = e => oe = of
    OBVIOUS
  <2>12. f # e => pe + be <= pf \/ pf + bf <= pe
    BY <2>8 DEF Disjoint
  <2>13. f = e => pe = pf
    OBVIOUS
  <2> HIDE DEF x, oe, of, pe, pf, be, bf
  <2>14. f = e
    BY <2>9, <2>10, <2>12
  <2> QED BY <2>9, <2>10, <2>11, <2>13, <2>14
<1>6. ChunkRows(r, tiles) = TileRows(r, tiles, at, slot)
  BY DEF ChunkRows
<1> HIDE DEF at, slot
<1>7. Exact(r, TileRows(r, tiles, at, slot))
  <2>1. tiles <= tiles
    BY <1>3
  <2>2. \A b \in Nat : \A e \in Slots(L) :
           off[e] <= b /\ b < off[e + 1] => slot[b] = e /\ at[b] \in Nat
    BY <1>4
  <2>3. \A b, d \in Nat : b < off[L] /\ d < off[L] /\ at[b] = at[d] => b = d
    BY <1>5
  <2> QED BY <1>3, <2>1, <2>2, <2>3, TilesAreExact
<1> QED BY <1>3, <1>6, <1>7

------------------------------------------------------------------------------
(* The tiles the host launches. *)

\* The host launches tiles for the routing it sees, or for the worst one.
Enough(r, tiles) ==
    /\ tiles \in Nat
    /\ LaneOf = "fused" => Offsets(SlotIds(r), LocalCount(r))[LocalCount(r)] <= tiles
    /\ LaneOf = "sm120" => Offsets(SlotIds(r), LocalCount(r))[LocalCount(r)] = tiles

\* Whatever the lane, the rows of a rank are exact.
LEMMA RowsAreExact ==
    ASSUME NEW r, NEW n \in Nat, Ready(r, n), NEW tiles, Enough(r, tiles),
           deployment.lane \in Lanes
    PROVE  Exact(r, RowsOf(r, tiles))
<1>1. LaneOf \in {"decode", "fused", "bridge", "persistent_b", "sm120"}
  BY DEF LaneOf, Lanes
<1>2. CASE LaneOf = "decode"
  <2>1. RowsOf(r, tiles) = DecodeRows(r)
    BY <1>2 DEF RowsOf
  <2> QED BY <2>1, DecodeIsExact
<1>3. CASE LaneOf = "fused"
  <2>1. RowsOf(r, tiles) = FusedRows(r, tiles)
    BY <1>3 DEF RowsOf
  <2> QED BY <1>3, <2>1, FusedIsExact DEF Enough
<1>4. CASE LaneOf = "sm120"
  <2>1. RowsOf(r, tiles) = ChunkRows(r, tiles)
    BY <1>4 DEF RowsOf
  <2> QED BY <1>4, <2>1, ChunkedIsExact DEF Enough
<1>5. CASE LaneOf \in {"bridge", "persistent_b"}
  <2>1. RowsOf(r, tiles) = SegmentRows(r)
    BY <1>5 DEF RowsOf
  <2> QED BY <2>1, SegmentsAreExact
<1> QED BY <1>1, <1>2, <1>3, <1>4, <1>5

\* The capacity a capture launches depends on the batch size alone, and is
\* enough for every routing.
LEMMA CapacityIsEnough ==
    ASSUME NEW r, NEW n \in Nat, Ready(r, n)
    PROVE  /\ Capacity(LocalCount(r)) = ((n * TopK) \div TileM) + LocalCount(r)
           /\ LaneOf # "sm120" => Enough(r, Capacity(LocalCount(r)))
<1>1. Pairs = Slots(n * TopK) /\ n * TopK \in Nat
  BY ReadyIs
<1>2. Cardinality(Pairs) = n * TopK
  BY <1>1, CountUpTo
<1>3. /\ Capacity(LocalCount(r)) \in Nat
      /\ Offsets(SlotIds(r), LocalCount(r))[LocalCount(r)] <= Capacity(LocalCount(r))
  <2>1. LocalCount(r) \in Nat
    BY DEF Ready
  <2> QED BY <2>1, CapacityHolds DEF Ready
<1> QED BY <1>2, <1>3 DEF Capacity, Enough

\* The number of tiles the host launches is enough.
LEMMA TilesAreEnough ==
    ASSUME NEW r, NEW n \in Nat, Ready(r, n), NEW capturing
    PROVE  Enough(r, Tiles(r, capturing))
<1> DEFINE L == LocalCount(r)
           z == Offsets(SlotIds(r), L)[L]
<1>1. CASE LaneOf = "sm120" \/ (deployment.trim /\ ~capturing)
  <2>1. Tiles(r, capturing) = z
    BY <1>1 DEF Tiles
  <2>2. z \in Nat
    BY ChunkedIsExact
  <2> HIDE DEF z
  <2>3. z <= z
    BY <2>2
  <2> QED BY <2>1, <2>2, <2>3 DEF Enough, z
<1>2. CASE ~(LaneOf = "sm120" \/ (deployment.trim /\ ~capturing))
  <2>1. Tiles(r, capturing) = Capacity(L)
    BY <1>2 DEF Tiles
  <2> QED BY <1>2, <2>1, CapacityIsEnough
<1> QED BY <1>1, <1>2

------------------------------------------------------------------------------
(* The invariant. *)

LaneAt(n) == IF n <= Threshold THEN "decode" ELSE deployment.lane

Running == mode \in {"eager", "capture", "replay"}

\* Only placements that load are served.
PlacedInv ==
    /\ deployment \in Deployments /\ constructed \subseteq World /\ moved \subseteq World
    /\ mode \in {"load", "idle", "failed"} \/ Running
    /\ mode \notin {"load", "failed"} => constructed = World
    /\ \A r \in constructed : MapOf(r) # NoMap => Accepted(MapOf(r), LocalCount(r))

\* A replay is of a size whose graph every rank has.
AskedInv ==
    /\ asked = NoRouting \/ asked \in Batches
    /\ Running => asked \in Batches
    /\ mode = "replay" => Captured(NoToken)

OutInv ==
    /\ DOMAIN out = World
    /\ \A r \in World : /\ out[r].done \in BOOLEAN
                        /\ out[r].done => Running /\ Exact(r, out[r].rows)
                        /\ ~out[r].done => out[r].rows = {}

\* A graph holds the worst number of tiles of its batch size.
GraphInv ==
    /\ graph \in [World -> [Sizes -> Nat \cup {NotCaptured}]]
    /\ \A r \in World, n \in Sizes :
          \/ graph[r][n] = NotCaptured
          \/ /\ LaneAt(n) # "sm120"
             /\ graph[r][n] = ((n * TopK) \div TileM) + LocalCount(r)

IInv == PlacedInv /\ AskedInv /\ OutInv /\ GraphInv

\* What a deployment may be.
LEMMA PlacedIs ==
    ASSUME NEW r \in World, PlacedInv, constructed = World
    PROVE  /\ deployment.lane \in Lanes /\ deployment.chunk \in Nat \ {0}
           /\ LocalCount(r) \in Nat \ {0}
           /\ \/ /\ World = {r} /\ MapOf(r) = NoMap /\ LocalCount(r) = NumExperts
              \/ /\ MapOf(r) # NoMap /\ MapOf(r) \in Placement(NumExperts)
                 /\ Accepted(MapOf(r), LocalCount(r)) /\ SharedOut(deployment)
<1>1. /\ deployment.lane \in Lanes /\ deployment.chunk \in Nat \ {0}
      /\ NumExperts \in Nat \ {0}
      /\ AllOnOneRank(deployment) \/ SharedOut(deployment)
  BY ForwardAssumption DEF PlacedInv
<1>2. CASE AllOnOneRank(deployment)
  <2>1. World = {r} /\ deployment.place[r] = [map |-> NoMap, local |-> NumExperts]
    BY <1>2 DEF AllOnOneRank, World
  <2> QED BY <1>1, <2>1 DEF MapOf, LocalCount
<1>3. CASE SharedOut(deployment)
  <2>1. /\ MapOf(r) \in [Slots(NumExperts) -> Int] \ {NoMap}
        /\ LocalCount(r) \in Nat \ {0}
    BY <1>3 DEF SharedOut, World, MapOf, LocalCount
  <2> QED BY <1>1, <1>3, <2>1 DEF PlacedInv, Placement
<1> QED BY <1>1, <1>2, <1>3

\* A batch of the engine is a batch of some size.
LEMMA BatchIs ==
    ASSUME asked \in Batches
    PROVE  \E n \in Sizes : n \in Nat /\ Batch(n) /\ asked \in [Slots(n) -> Routes]
<1>1. PICK n \in Sizes : asked \in [0..(n - 1) -> Routes]
  BY DEF Batches
<1>2. n \in Nat \ {0}
  BY ForwardAssumption
<1> QED BY <1>1, <1>2 DEF Batch, Tokens, Slots

\* What the router names.
LEMMA RoutedIs ==
    ASSUME asked \in Batches
    PROVE  /\ neutral \in [Pairs -> Slots(NumExperts)]
           /\ \A p \in Pairs : p \in Real <=> Routed(p) # Skip
           /\ \A p \in Real : p \in Pairs /\ neutral[p] = Routed(p)
           /\ \A p, q \in Pairs : tokenOf[p] = tokenOf[q] /\ p \in Real => q \in Real
<1>1. PICK n \in Sizes : n \in Nat /\ Batch(n) /\ asked \in [Slots(n) -> Routes]
  BY BatchIs
<1>2. \A p \in Pairs : /\ p \div TopK \in Tokens /\ p % TopK \in Slots(TopK)
                       /\ tokenOf[p] = p \div TopK
  BY <1>1, PairsAre
<1>3. \A p \in Pairs : asked[p \div TopK] \in Routes /\ asked[tokenOf[p]] = asked[p \div TopK]
  BY <1>1, <1>2 DEF Batch
<1>4. \A t \in Routes : t \in [Slots(TopK) -> Slots(NumExperts) \cup {Skip}]
  BY ForwardAssumption DEF Slots
<1>5. \A p \in Pairs : Routed(p) \in Slots(NumExperts) \cup {Skip}
  BY <1>2, <1>3, <1>4 DEF Routed
<1>6. 0 \in Slots(NumExperts) /\ NumExperts \in Nat \ {0}
  BY ForwardAssumption DEF Slots
<1>7. neutral \in [Pairs -> Slots(NumExperts)]
  BY <1>5, <1>6 DEF neutral
<1>8. ASSUME NEW p \in Pairs, NEW q \in Pairs, tokenOf[p] = tokenOf[q], p \in Real
      PROVE  q \in Real
  <2> DEFINE t == asked[p \div TopK]
  <2>1. t \in Routes /\ t = asked[q \div TopK]
    BY <1>2, <1>3, <1>8
  <2>2. t[p % TopK] # Skip
    BY <1>8 DEF Real, Routed
  <2>3. p % TopK \in DOMAIN t /\ q % TopK \in DOMAIN t
    BY <1>2, <1>4, <2>1
  <2>4. t[q % TopK] # Skip
    <3> HIDE DEF t
    <3> QED BY <2>1, <2>2, <2>3, ForwardAssumption
  <2> QED BY <2>1, <2>4 DEF Real, Routed
<1>9. \A p \in Pairs : p \in Real <=> Routed(p) # Skip
  BY DEF Real
<1>10. \A p \in Real : p \in Pairs /\ neutral[p] = Routed(p)
  BY DEF Real, neutral
<1> QED BY <1>7, <1>8, <1>9, <1>10

\* A rank that was constructed is ready for any batch.
LEMMA BuiltIsReady ==
    ASSUME NEW r \in World, PlacedInv, constructed = World, asked \in Batches,
           NEW n \in Nat, Batch(n)
    PROVE  Ready(r, n)
<1>1. neutral \in [Pairs -> Slots(NumExperts)] /\ NumExperts \in Nat
  BY RoutedIs, ForwardAssumption
<1>2. /\ deployment.chunk \in Nat \ {0} /\ LocalCount(r) \in Nat \ {0}
      /\ \/ MapOf(r) = NoMap /\ LocalCount(r) = NumExperts
         \/ /\ MapOf(r) # NoMap /\ MapOf(r) \in Placement(NumExperts)
            /\ Accepted(MapOf(r), LocalCount(r))
  BY PlacedIs
<1>3. SlotIds(r) \in [Pairs -> Slots(LocalCount(r))]
  <2>1. CASE MapOf(r) = NoMap
    BY <1>1, <1>2, <2>1 DEF SlotIds
  <2>2. CASE MapOf(r) # NoMap
    <3>1. RemapIds(MapOf(r), neutral, tokenOf) \in [Pairs -> Slots(LocalCount(r))]
      BY <1>1, <1>2, <2>2, RemapStaysLocal
    <3> QED BY <3>1, <2>2 DEF SlotIds
  <2> QED BY <2>1, <2>2
<1> QED BY <1>2, <1>3 DEF Ready

------------------------------------------------------------------------------
(* The invariant is kept. *)

\* Whether rows are exact is a matter of the batch and the deployment alone.
LEMMA ExactStays ==
    ASSUME deployment' = deployment, asked' = asked,
           NEW r, NEW rows, Exact(r, rows)
    PROVE  Exact(r, rows)'
<1>1. Pairs' = Pairs /\ tokenOf' = tokenOf
  BY DEF Pairs, Tokens, tokenOf
<1>2. neutral' = neutral /\ Real' = Real
  BY <1>1 DEF neutral, Real, Routed
<1>3. SlotIds(r)' = SlotIds(r) /\ LivePairs(r)' = LivePairs(r)
  BY <1>1, <1>2 DEF SlotIds, LivePairs, MapOf
<1> QED BY <1>1, <1>3 DEF Exact, Serves, RowOf

\* When a rank finishes with tiles enough, what it computed is exact.
LEMMA RankDone ==
    ASSUME IInv, NEW r \in World, Running, NEW tiles,
           \A n \in Sizes : n \in Nat /\ Batch(n) => Enough(r, tiles),
           out' = [out EXCEPT ![r] = [done |-> TRUE, rows |-> RowsOf(r, tiles)]],
           UNCHANGED <<deployment, mode, constructed, moved, asked>>
    PROVE  OutInv'
<1>1. World' = World /\ Running'
  BY DEF World, Running
<1>2. DOMAIN out = World /\ DOMAIN out' = World
  BY DEF IInv, OutInv
<1>3. ASSUME NEW q \in World, out'[q].done
      PROVE  \E rows : out'[q].rows = rows /\ Exact(q, rows)
  <2>1. CASE q = r
    <3>1. out'[q].rows = RowsOf(r, tiles)
      BY <2>1, <1>2
    <3>2. constructed = World /\ deployment.lane \in Lanes /\ asked \in Batches /\ PlacedInv
      BY PlacedIs DEF IInv, PlacedInv, AskedInv, Running
    <3>3. PICK n \in Sizes : n \in Nat /\ Batch(n)
      BY <3>2, BatchIs
    <3>4. Ready(r, n)
      BY <3>2, <3>3, BuiltIsReady
    <3>5. Enough(r, tiles)
      BY <3>3
    <3>6. Exact(r, RowsOf(r, tiles))
      BY <3>2, <3>3, <3>4, <3>5, RowsAreExact
    <3> QED BY <2>1, <3>1, <3>6
  <2>2. CASE q # r
    <3>1. out'[q] = out[q]
      BY <2>2, <1>2
    <3> QED BY <3>1, <1>3 DEF IInv, OutInv
  <2> QED BY <2>1, <2>2
<1>4. ASSUME NEW q \in World', out'[q].done PROVE Exact(q, out[q].rows)'
  <2>1. PICK rows : out'[q].rows = rows /\ Exact(q, rows)
    BY <1>1, <1>3, <1>4
  <2>2. Exact(q, rows)'
    BY <2>1, ExactStays
  <2> QED BY <2>1, <2>2 DEF Exact, Serves
<1>5. ASSUME NEW q \in World
      PROVE  out'[q].done \in BOOLEAN /\ (~out'[q].done => out'[q].rows = {})
  <2>1. CASE q = r
    BY <2>1, <1>2
  <2>2. CASE q # r
    <3>1. out'[q] = out[q]
      BY <2>2, <1>2
    <3> QED BY <3>1 DEF IInv, OutInv
  <2> QED BY <2>1, <2>2
<1> QED BY <1>1, <1>2, <1>4, <1>5 DEF OutInv

\* The invariant holds at first, and every step keeps it.
LEMMA InitInv == ForwardInit => IInv
<1> SUFFICES ASSUME ForwardInit PROVE IInv
  OBVIOUS
<1>1. PlacedInv /\ AskedInv
  BY DEF ForwardInit, PlacedInv, AskedInv, Running
<1>2. OutInv
  BY DEF ForwardInit, OutInv, Pending
<1>3. GraphInv
  BY DEF ForwardInit, GraphInv, NotCaptured
<1> QED BY <1>1, <1>2, <1>3 DEF IInv

LEMMA NextInv == IInv /\ [ForwardNext]_forwardVars => IInv'
<1> SUFFICES ASSUME IInv, [ForwardNext]_forwardVars PROVE IInv'
  OBVIOUS
<1> USE DEF World, MapOf, LocalCount
<1>1. ASSUME deployment' = deployment, mode' = mode, constructed' = constructed,
             asked' = asked, out' = out, graph' = graph, moved' \subseteq World
      PROVE  IInv'
  <2>1. PlacedInv' /\ AskedInv' /\ GraphInv'
    BY <1>1 DEF IInv, PlacedInv, AskedInv, GraphInv, Running, LaneAt, Captured, NoToken, Tokens
  <2>2. DOMAIN out' = World' /\ \A q \in World' :
           out'[q].done \in BOOLEAN /\ (~out'[q].done => out'[q].rows = {})
    BY <1>1 DEF IInv, OutInv
  <2>3. ASSUME NEW q \in World', out'[q].done PROVE Running' /\ Exact(q, out[q].rows)'
    <3>1. PICK rows : out'[q].rows = rows /\ Exact(q, rows) /\ Running
      BY <1>1, <2>3 DEF IInv, OutInv
    <3>2. Exact(q, rows)'
      BY <1>1, <3>1, ExactStays
    <3> QED BY <1>1, <3>1, <3>2 DEF Exact, Serves, Running
  <2>4. OutInv'
    BY <2>3, <2>2 DEF OutInv
  <2> QED BY <2>1, <2>4 DEF IInv
\* No rank has finished outside a step of the engine.
<1>2. ASSUME PlacedInv', AskedInv', GraphInv', deployment' = deployment,
             out' = out \/ out' = [r \in World |-> Pending], ~Running
      PROVE  IInv'
  <2>1. DOMAIN out = World /\ \A q \in World : out[q].done = FALSE /\ out[q].rows = {}
    BY <1>2 DEF IInv, OutInv
  <2>2. DOMAIN out' = World' /\ \A q \in World' : out'[q].done = FALSE /\ out'[q].rows = {}
    BY <1>2, <2>1 DEF Pending
  <2>3. OutInv'
    BY <2>2 DEF OutInv
  <2> QED BY <1>2, <2>3 DEF IInv
<1>3. ASSUME NEW r \in World, Build(r) PROVE IInv'
  <2>1. PlacedInv'
    BY <1>3 DEF Build, IInv, PlacedInv, Running
  <2>2. AskedInv' /\ GraphInv' /\ ~Running
    BY <1>3 DEF Build, IInv, AskedInv, GraphInv, Running, LaneAt, Captured, NoToken, Tokens
  <2> QED BY <1>2, <1>3, <2>1, <2>2 DEF Build
<1>4. ASSUME NEW r \in World, RefusePlacement(r) PROVE IInv'
  <2>1. PlacedInv'
    BY <1>4 DEF RefusePlacement, IInv, PlacedInv, Running
  <2>2. AskedInv' /\ GraphInv' /\ ~Running
    BY <1>4 DEF RefusePlacement, IInv, AskedInv, GraphInv, Running, LaneAt, Captured, NoToken, Tokens
  <2> QED BY <1>2, <1>4, <2>1, <2>2 DEF RefusePlacement
<1>5. ASSUME NEW kind \in {"eager", "capture", "replay"}, Ask(kind) PROVE IInv'
  <2>1. PlacedInv'
    BY <1>5 DEF Ask, IInv, PlacedInv, Running
  <2>2. AskedInv' /\ GraphInv' /\ ~Running
    BY <1>5 DEF Ask, IInv, AskedInv, GraphInv, Running, LaneAt, Captured, NoToken, Tokens
  <2> QED BY <1>2, <1>5, <2>1, <2>2 DEF Ask
<1>6. ASSUME NEW r \in World, Forward(r) PROVE IInv'
  <2> DEFINE tiles == Tiles(r, mode = "capture")
  <2>1. /\ Running /\ PlacedInv /\ constructed = World /\ asked \in Batches
        /\ UNCHANGED <<deployment, mode, constructed, moved, asked>>
        /\ out' = [out EXCEPT ![r] = [done |-> TRUE, rows |-> RowsOf(r, tiles)]]
    BY <1>6 DEF Forward, Runs, IInv, PlacedInv, AskedInv, Running
  <2>2. ASSUME NEW n \in Sizes, n \in Nat, Batch(n) PROVE Ready(r, n)
    BY <2>1, <2>2, BuiltIsReady
  <2>3. ASSUME NEW n \in Sizes, n \in Nat, Batch(n) PROVE Enough(r, tiles)
    BY <2>2, <2>3, TilesAreEnough
  <2>4. OutInv'
    <3> HIDE DEF tiles, World
    <3> QED BY <2>1, <2>3, RankDone
  <2>5. PlacedInv' /\ AskedInv'
    <3>1. mode = "replay" => graph' = graph
      BY <1>6 DEF Forward
    <3> QED BY <2>1, <3>1 DEF IInv, PlacedInv, AskedInv, Running, Captured, NoToken, Tokens
  <2>6. GraphInv'
    <3>1. CASE mode # "capture"
      BY <1>6, <2>1, <3>1 DEF Forward, IInv, GraphInv, LaneAt
    <3>2. CASE mode = "capture"
      <4>1. PICK n \in Sizes : n \in Nat /\ Batch(n)
        BY <2>1, BatchIs
      <4>2. NoToken = n /\ LaneAt(n) = LaneOf
        BY <4>1, PairsAre DEF LaneAt, LaneOf, NoToken
      <4>3. LaneOf # "sm120" /\ graph' = [graph EXCEPT ![r][n] = tiles]
        BY <1>6, <3>2, <4>2 DEF Forward
      <4>4. tiles = Capacity(LocalCount(r))
        BY <3>2, <4>3 DEF Tiles
      <4>5. /\ Capacity(LocalCount(r)) = ((n * TopK) \div TileM) + LocalCount(r)
            /\ Enough(r, Capacity(LocalCount(r)))
        BY <2>2, <4>1, <4>3, CapacityIsEnough
      <4>6. tiles = ((n * TopK) \div TileM) + LocalCount(r) /\ tiles \in Nat
        BY <4>4, <4>5 DEF Enough
      <4>7. /\ graph \in [World -> [Sizes -> Nat \cup {NotCaptured}]]
            /\ \A q \in World, k \in Sizes :
                  \/ graph[q][k] = NotCaptured
                  \/ /\ LaneAt(k) # "sm120"
                     /\ graph[q][k] = ((k * TopK) \div TileM) + LocalCount(q)
        BY DEF IInv, GraphInv
      <4> HIDE DEF tiles
      <4>8. graph' \in [World -> [Sizes -> Nat \cup {NotCaptured}]]
        BY <4>3, <4>6, <4>7
      <4>9. ASSUME NEW q \in World, NEW k \in Sizes
            PROVE  \/ graph'[q][k] = NotCaptured
                   \/ /\ LaneAt(k) # "sm120"
                      /\ graph'[q][k] = ((k * TopK) \div TileM) + LocalCount(q)
        <5>1. CASE q = r /\ k = n
          <6>1. graph'[q][k] = tiles
            BY <5>1, <4>3, <4>7
          <6> QED BY <5>1, <6>1, <4>2, <4>3, <4>6
        <5>2. CASE ~(q = r /\ k = n)
          <6>1. graph'[q][k] = graph[q][k]
            BY <5>2, <4>3, <4>7
          <6> QED BY <6>1, <4>7
        <5> QED BY <5>1, <5>2
      <4>10. LaneAt(0)' = LaneAt(0) /\ \A k : LaneAt(k)' = LaneAt(k)
        BY <2>1 DEF LaneAt
      <4> QED BY <2>1, <4>8, <4>9, <4>10 DEF GraphInv
    <3> QED BY <3>1, <3>2
  <2> QED BY <2>4, <2>5, <2>6 DEF IInv
<1>7. ASSUME NEW r \in World, Replay(r) PROVE IInv'
  <2> DEFINE tiles == graph[r][NoToken]
  <2>1. /\ Running /\ PlacedInv /\ constructed = World /\ asked \in Batches
        /\ UNCHANGED <<deployment, mode, constructed, moved, asked, graph>>
        /\ out' = [out EXCEPT ![r] = [done |-> TRUE, rows |-> RowsOf(r, tiles)]]
        /\ tiles # NotCaptured
    BY <1>7 DEF Replay, IInv, PlacedInv, AskedInv, Running, Captured
  <2>2. ASSUME NEW n \in Sizes, n \in Nat, Batch(n) PROVE Enough(r, tiles)
    <3>1. Ready(r, n)
      BY <2>1, <2>2, BuiltIsReady
    <3>2. NoToken = n /\ LaneAt(n) = LaneOf
      BY <2>2, PairsAre DEF LaneAt, LaneOf, NoToken
    <3>3. LaneOf # "sm120" /\ tiles = ((n * TopK) \div TileM) + LocalCount(r)
      BY <2>1, <3>2 DEF IInv, GraphInv
    <3> QED BY <2>2, <3>1, <3>3, CapacityIsEnough
  <2>3. OutInv'
    <3> HIDE DEF tiles, World
    <3> QED BY <2>1, <2>2, RankDone
  <2>4. PlacedInv' /\ AskedInv' /\ GraphInv'
    BY <2>1 DEF IInv, PlacedInv, AskedInv, GraphInv, Running, Captured, NoToken,
                Tokens, LaneAt
  <2> QED BY <2>3, <2>4 DEF IInv
\* The end of a step, one way or the other.
<1>8. ASSUME mode' \in {"idle", "failed"}, mode # "load", mode # "failed",
             UNCHANGED <<deployment, constructed, moved, graph>>, asked' = NoRouting,
             out' = [r \in World |-> Pending]
      PROVE  IInv'
  <2>1. PlacedInv' /\ AskedInv' /\ GraphInv'
    BY <1>8 DEF IInv, PlacedInv, AskedInv, GraphInv, Running, LaneAt
  <2>2. OutInv'
    BY <1>8 DEF OutInv, Pending
  <2> QED BY <2>1, <2>2 DEF IInv
<1>9. CASE UNCHANGED forwardVars
  BY <1>1, <1>9 DEF forwardVars, IInv, PlacedInv
<1>10. CASE Reduce
  BY <1>8, <1>10 DEF Reduce
<1>11. CASE Stopped
  BY <1>1, <1>11 DEF Stopped, forwardVars, IInv, PlacedInv
<1>12. ASSUME NEW r \in World, Reregister(r) PROVE IInv'
  BY <1>1, <1>12 DEF Reregister, IInv, PlacedInv
<1>13. ASSUME NEW r \in World, RefuseMoved(r) \/ RefuseCapture(r) PROVE IInv'
  BY <1>8, <1>13 DEF RefuseMoved, RefuseCapture, Runs, Fail
<1> QED
  BY <1>3, <1>4, <1>5, <1>6, <1>7, <1>9, <1>10, <1>11, <1>12, <1>13 DEF ForwardNext

LEMMA Inductive == ForwardSpec => []IInv
BY InitInv, NextInv, PTL DEF ForwardSpec

------------------------------------------------------------------------------
(* What follows from the invariant. *)

\* A set of one element counts one.
LEMMA OnceCounted ==
    ASSUME NEW S, NEW x, S = {x} PROVE Cardinality(S) = 1
BY FS_Singleton

\* One rank, and only one, keeps the weight of a pair the router named.
LEMMA OneRankServes ==
    ASSUME IInv, Running, NEW p \in Real
    PROVE  \E r \in World : \A q \in World : p \in LivePairs(q) <=> q = r
<1>1. constructed = World /\ asked \in Batches /\ PlacedInv
  BY DEF IInv, PlacedInv, AskedInv, Running
<1>2. neutral \in [Pairs -> Slots(NumExperts)] /\ p \in Pairs
  BY <1>1, RoutedIs
<1>3. \/ \E r \in World : World = {r} /\ MapOf(r) = NoMap
      \/ SharedOut(deployment)
  BY ForwardAssumption DEF IInv, PlacedInv, AllOnOneRank, World, MapOf
<1>4. ASSUME NEW r \in World, World = {r}, MapOf(r) = NoMap
      PROVE  \E s \in World : \A q \in World : p \in LivePairs(q) <=> q = s
  BY <1>4 DEF LivePairs
<1>5. CASE SharedOut(deployment)
  <2>1. \A q \in World : MapOf(q) # NoMap /\ MapOf(q) \in Placement(NumExperts)
    BY <1>5 DEF SharedOut, World, MapOf, Placement
  <2>2. \A q \in World : p \in LivePairs(q) <=> neutral[p] \in Owned(MapOf(q))
    BY <1>2, <2>1 DEF LivePairs, RemapLive, Local, Owned, Placement
  <2>3. PICK r \in World : \A q \in World : neutral[p] \in Owned(MapOf(q)) <=> q = r
    BY <1>2, <1>5 DEF SharedOut, World, MapOf
  <2> QED BY <2>2, <2>3
<1> QED BY <1>3, <1>4, <1>5

\* A pair that keeps its weight meets the weights of the expert the router named.
LEMMA LiveSlotHolds ==
    ASSUME IInv, Running, NEW r \in World, NEW p \in LivePairs(r)
    PROVE  p \in Real /\ Held(r, SlotIds(r)[p]) = Routed(p)
<1>1. constructed = World /\ asked \in Batches /\ PlacedInv
  BY DEF IInv, PlacedInv, AskedInv, Running
<1>2. p \in Real
  BY DEF LivePairs, RemapLive
<1>3. /\ neutral \in [Pairs -> Slots(NumExperts)] /\ neutral[p] = Routed(p)
      /\ Real \subseteq Pairs /\ NumExperts \in Nat
  BY <1>1, <1>2, RoutedIs, ForwardAssumption
<1>4. CASE MapOf(r) = NoMap
  BY <1>2, <1>3, <1>4 DEF Held, SlotIds
<1>5. CASE MapOf(r) # NoMap
  <2>1. /\ MapOf(r) \in Placement(NumExperts) /\ Accepted(MapOf(r), LocalCount(r))
        /\ LocalCount(r) \in Nat
    BY <1>1, <1>5, PlacedIs
  <2>2. p \in RemapLive(MapOf(r), neutral, Real)
    BY <1>5 DEF LivePairs
  <2>3. GatherIndex(MapOf(r), LocalCount(r))[RemapIds(MapOf(r), neutral, tokenOf)[p]]
          = neutral[p]
    BY <1>3, <2>1, <2>2, LivePairsMeetTheirExpert
  <2> QED BY <1>2, <1>3, <1>5, <2>3 DEF Held, SlotIds
<1> QED BY <1>2, <1>4, <1>5

\* From the invariant, each property.
LEMMA EachPairOnceInv == IInv => EachPairOnce
<1> SUFFICES ASSUME IInv, Finished PROVE EachPairOnce
  BY DEF EachPairOnce
<1>1. Running /\ \A r \in World : Exact(r, out[r].rows)
  BY DEF Finished, Running, IInv, OutInv
<1>2. \A x : x \in LiveRows <=>
         \E r \in World : \E c \in out[r].rows : c.live /\ x = <<r, c>>
  BY DEF LiveRows
<1>3. ASSUME NEW r \in World, NEW c \in out[r].rows, c.live
      PROVE  /\ c.pair \in LivePairs(r) /\ c.token = tokenOf[c.pair] /\ c.dest = c.token
             /\ Held(r, c.slot) = Routed(c.pair)
  <2>1. PICK p \in Pairs : Serves(r, c, p)
    BY <1>1 DEF Exact
  <2>2. p \in LivePairs(r) /\ c.pair = p /\ c.slot = SlotIds(r)[p]
        /\ c.token = tokenOf[p] /\ c.dest = tokenOf[p]
    BY <1>3, <2>1 DEF Serves
  <2> QED BY <1>1, <2>2, LiveSlotHolds
<1>4. ASSUME NEW x \in LiveRows
      PROVE  LET r == x[1] c == x[2]
             IN  /\ c.token = tokenOf[c.pair] /\ c.dest = c.token
                 /\ Held(r, c.slot) = Routed(c.pair)
  <2>1. PICK r \in World : \E c \in out[r].rows : c.live /\ x = <<r, c>>
    BY <1>2
  <2>2. PICK c \in out[r].rows : c.live /\ x = <<r, c>>
    BY <2>1
  <2> QED BY <1>3, <2>2
<1>5. ASSUME NEW p \in Real
      PROVE  Cardinality({x \in LiveRows : x[2].pair = p}) = 1
  <2>1. PICK r \in World : \A q \in World : p \in LivePairs(q) <=> q = r
    BY <1>1, OneRankServes
  <2>2. p \in Pairs
    BY DEF Real
  <2>3. PICK c \in out[r].rows : c.pair = p /\ \A d \in out[r].rows : d.pair = p => d = c
    BY <1>1, <2>2 DEF Exact
  <2>4. c.live
    <3>1. PICK q \in Pairs : Serves(r, c, q)
      BY <1>1 DEF Exact
    <3>2. q = p /\ p \in LivePairs(r)
      BY <2>1, <2>3, <3>1 DEF Serves
    <3> QED BY <3>1, <3>2 DEF Serves
  <2>5. \A q \in World : \A d \in out[q].rows : d.live /\ d.pair = p => q = r /\ d = c
    BY <1>3, <2>1, <2>3
  <2>6. {x \in LiveRows : x[2].pair = p} = {<<r, c>>}
    <3>1. <<r, c>> \in LiveRows /\ <<r, c>>[2].pair = p
      BY <1>2, <2>3, <2>4
    <3>2. ASSUME NEW x \in LiveRows, x[2].pair = p PROVE x = <<r, c>>
      <4>1. PICK q \in World : \E d \in out[q].rows : d.live /\ x = <<q, d>>
        BY <1>2
      <4>2. PICK d \in out[q].rows : d.live /\ x = <<q, d>>
        BY <4>1
      <4> QED BY <2>5, <3>2, <4>2
    <3> QED BY <3>1, <3>2
  <2> QED BY <2>6, OnceCounted
<1>6. \A r \in World : \A c, d \in out[r].rows : c.at = d.at => c = d
  BY <1>1 DEF Exact
<1> QED BY <1>4, <1>5, <1>6 DEF EachPairOnce

LEMMA AliasInv == IInv => AliasAddsNoRead
<1> SUFFICES ASSUME IInv, Finished, NEW r \in World, NEW c \in out[r].rows,
                    NEW d \in out[r].rows, d.live, d.dest = c.dest
             PROVE  \E e \in out[r].rows : e.live /\ e.dest = c.dest /\ e.slot = c.slot
  BY DEF AliasAddsNoRead
<1>1. Running /\ Exact(r, out[r].rows)
  BY DEF Finished, Running, IInv, OutInv
<1>2. constructed = World /\ asked \in Batches /\ PlacedInv
  BY <1>1 DEF IInv, PlacedInv, AskedInv, Running
<1>3. /\ neutral \in [Pairs -> Slots(NumExperts)] /\ NumExperts \in Nat
      /\ \A p, q \in Pairs : tokenOf[p] = tokenOf[q] /\ p \in Real => q \in Real
  BY <1>2, RoutedIs, ForwardAssumption
<1>4. PICK p \in Pairs : Serves(r, c, p)
  BY <1>1 DEF Exact
<1>5. PICK q \in Pairs : Serves(r, d, q)
  BY <1>1 DEF Exact
<1>6. q \in LivePairs(r) /\ q \in Real /\ tokenOf[q] = tokenOf[p]
  BY <1>4, <1>5 DEF Serves, LivePairs, RemapLive
<1>7. CASE MapOf(r) = NoMap
  <2>1. p \in LivePairs(r)
    BY <1>3, <1>6, <1>7 DEF LivePairs
  <2>2. c.live
    BY <1>4, <2>1 DEF Serves
  <2> QED BY <2>2
<1>8. CASE MapOf(r) # NoMap
  <2> DEFINE map == MapOf(r)
  <2>1. map \in Placement(NumExperts) /\ Accepted(map, LocalCount(r)) /\ LocalCount(r) \in Nat
    BY <1>2, <1>8, PlacedIs
  <2>2. Local(map, neutral, q)
    BY <1>6, <1>8 DEF LivePairs, RemapLive
  <2>3. RemapIds(map, neutral, tokenOf)[p] \in Reached(map, neutral, tokenOf, tokenOf[p])
    <3> HIDE DEF map
    <3> QED BY <1>3, <1>6, <2>1, <2>2, AliasStaysWithToken
  <2>4. PICK s \in Pairs : /\ tokenOf[s] = tokenOf[p] /\ Local(map, neutral, s)
                           /\ RemapIds(map, neutral, tokenOf)[p] = map[neutral[s]]
    BY <1>3, <2>3 DEF Reached
  <2>5. s \in LivePairs(r)
    BY <1>3, <1>6, <1>8, <2>4 DEF LivePairs, RemapLive
  <2>6. SlotIds(r)[s] = SlotIds(r)[p]
    BY <1>3, <1>8, <2>4 DEF SlotIds, RemapIds
  <2>7. PICK e \in out[r].rows : e.pair = s
    BY <1>1 DEF Exact
  <2>8. Serves(r, e, s)
    BY <1>1, <2>7 DEF Exact, Serves
  <2> QED BY <1>4, <2>4, <2>5, <2>6, <2>8 DEF Serves
<1> QED BY <1>7, <1>8

LEMMA TypeInv == IInv => TypeOK
<1> SUFFICES ASSUME IInv PROVE TypeOK
  OBVIOUS
<1>1. ASSUME NEW r \in World, NEW c \in out[r].rows PROVE c \in Row(r)
  <2>1. Running /\ Exact(r, out[r].rows)
    BY <1>1 DEF IInv, OutInv
  <2>2. constructed = World /\ asked \in Batches /\ PlacedInv
    BY <2>1 DEF IInv, PlacedInv, AskedInv, Running
  <2>3. PICK n \in Sizes : n \in Nat /\ Batch(n)
    BY <2>2, BatchIs
  <2>4. Ready(r, n)
    BY <2>2, <2>3, BuiltIsReady
  <2>5. PICK p \in Pairs : Serves(r, c, p)
    BY <2>1 DEF Exact
  <2>6. SlotIds(r)[p] \in Slots(LocalCount(r)) /\ c.at \in Nat
    BY <2>1, <2>4 DEF Exact, Ready
  <2>7. tokenOf[p] \in Tokens
    BY <2>3, PairsAre
  <2> DEFINE live == p \in LivePairs(r)
             at == c.at
             s == SlotIds(r)[p]
             t == tokenOf[p]
  <2>8. live \in BOOLEAN /\ at \in Nat /\ s \in Slots(LocalCount(r)) /\ t \in Tokens
    BY <2>6, <2>7
  <2>9. c = [at |-> at, token |-> t, slot |-> s, pair |-> p, live |-> live, dest |-> t]
    BY <2>5 DEF Serves, RowOf
  <2> HIDE DEF live, at, s, t
  <2> QED BY <2>8, <2>9 DEF Row
<1>2. mode \in {"load", "idle", "eager", "capture", "replay", "failed"}
  BY DEF IInv, PlacedInv, Running
<1> QED BY <1>1, <1>2 DEF IInv, PlacedInv, AskedInv, OutInv, GraphInv, TypeOK

\* Every state is well typed: what a rank has added up are rows of its own
\* slots, and every graph holds a number of tiles.
THEOREM TypeCorrect == ForwardSpec => []TypeOK
BY Inductive, TypeInv, PTL

\* For any deployment vLLM can serve, any lane, routing and order of eager,
\* captured and replayed batches, the ranks together add each pair the router
\* named exactly once, through the weights of its expert, and lay no two pairs
\* on one row.
THEOREM EveryPairOnce == ForwardSpec => []EachPairOnce
BY Inductive, EachPairOnceInv, PTL

\* For any such deployment a row of weight zero meets only weights its token
\* meets with a weight anyway (remap_local_expert_ids).
THEOREM AliasesReadNothingNew == ForwardSpec => []AliasAddsNoRead
BY Inductive, AliasInv, PTL
==============================================================================
