-------------------------- MODULE LaneDispatchProofs ---------------------------
(***************************************************************************)
(* The choice of kernels, for any hosts, layers, environments and calls.   *)
(* In this order:                                                          *)
(*   - the rows of fused shards, and the shard a row lies in;              *)
(*   - the codebook each dense kernel decodes a row with;                  *)
(*   - the block scales of a source plane, on any rank;                    *)
(*   - what each lane's launch records and decodes;                        *)
(*   - the latches, what load settles on a layer, and the invariant;       *)
(*   - the four properties of the run.                                     *)
(***************************************************************************)
EXTENDS LaneDispatch, WellFoundedInduction, TLAPS

------------------------------------------------------------------------------
(* The rows of fused shards. *)

\* Every set of numbers has a least one.
LEMMA Least ==
    ASSUME NEW S \in SUBSET Nat, S # {}
    PROVE  \E k \in S : \A j \in S : k <= j
<1>1. PICK k \in S : \A j \in S : <<j, k>> \notin OpToRel(<, Nat)
  BY WFMin, NatLessThanWellFounded
<1>2. \A j \in S : ~(j < k)
  BY <1>1 DEF OpToRel
<1> QED BY <1>2

\* Induction, for a set of numbers.
LEMMA Induction ==
    ASSUME NEW S, 0 \in S, \A k \in Nat : k \in S => k + 1 \in S
    PROVE  Nat \subseteq S
<1> DEFINE T == Nat \ S
<1> SUFFICES ASSUME T # {} PROVE FALSE
  OBVIOUS
<1>1. PICK k \in T : \A j \in T : k <= j
  BY Least
<1>2. k # 0 /\ k - 1 \in Nat /\ k - 1 \notin T
  BY <1>1
<1>3. (k - 1) + 1 \in S
  BY <1>2
<1> QED BY <1>1, <1>3

IsEnds(f, n, w) == f = [m \in 0..n |-> IF m = 0 THEN 0 ELSE f[m - 1] + w[m]]

\* A running sum exists: what the recursive definition of Ends names.
LEMMA EndsExist ==
    ASSUME NEW w, NEW n \in Nat
    PROVE  \E f : IsEnds(f, n, w)
<1> DEFINE S == {k \in Nat : \E f : IsEnds(f, k, w)}
<1>1. 0 \in S
  <2> DEFINE f == [m \in 0..0 |-> 0]
  <2>1. IsEnds(f, 0, w)
    BY DEF IsEnds
  <2> QED BY <2>1
<1>2. ASSUME NEW k \in Nat, k \in S PROVE k + 1 \in S
  <2>1. PICK g : IsEnds(g, k, w)
    BY <1>2
  <2> DEFINE f == [m \in 0..(k + 1) |-> IF m = k + 1 THEN g[k] + w[k + 1] ELSE g[m]]
  <2>2. \A m \in 0..k : g[m] = IF m = 0 THEN 0 ELSE g[m - 1] + w[m]
    BY <2>1 DEF IsEnds
  <2>3. \A m \in 0..(k + 1) : f[m] = IF m = 0 THEN 0 ELSE f[m - 1] + w[m]
    <3> SUFFICES ASSUME NEW m \in 0..(k + 1)
                 PROVE  f[m] = IF m = 0 THEN 0 ELSE f[m - 1] + w[m]
      OBVIOUS
    <3>1. CASE m = k + 1
      <4>1. f[m] = g[k] + w[k + 1] /\ f[k] = g[k] /\ m - 1 = k /\ m # 0
        BY <3>1
      <4> QED BY <4>1, <3>1
    <3>2. CASE m # k + 1 /\ m # 0
      <4>1. m \in 0..k /\ m - 1 \in 0..k /\ f[m] = g[m] /\ f[m - 1] = g[m - 1]
        BY <3>2
      <4> QED BY <4>1, <2>2, <3>2
    <3>3. CASE m = 0
      <4>1. m \in 0..k /\ f[m] = g[m]
        BY <3>3
      <4> QED BY <4>1, <2>2, <3>3
    <3> QED BY <3>1, <3>2, <3>3
  <2>4. IsEnds(f, k + 1, w)
    BY <2>3 DEF IsEnds
  <2> QED BY <2>4
<1> HIDE DEF S
<1>3. n \in S
  BY <1>1, <1>2, Induction
<1> QED BY <1>3 DEF S

\* Widths, as any function on 1..n.
Widths(w) == Len(w) \in Nat /\ DOMAIN w = 1..Len(w) /\ \A j \in DOMAIN w : w[j] \in Nat

\* The ends start at zero and grow by each width.
LEMMA EndsAre ==
    ASSUME NEW w, Widths(w)
    PROVE  /\ Upto(w, 0) = 0
           /\ \A j \in 1..Len(w) : Upto(w, j) = Upto(w, j - 1) + w[j]
           /\ \A n \in 0..Len(w) : Upto(w, n) \in Nat
<1> DEFINE n == Len(w)
           e == Ends(w)
<1>1. n \in Nat
  BY DEF Widths
<1>2. IsEnds(e, n, w)
  <2>1. PICK f : f = [m \in 0..n |-> IF m = 0 THEN 0 ELSE f[m - 1] + w[m]]
    BY <1>1, EndsExist DEF IsEnds
  <2>2. e = [m \in 0..n |-> IF m = 0 THEN 0 ELSE e[m - 1] + w[m]]
    BY <2>1 DEF Ends
  <2> HIDE DEF e
  <2> QED BY <2>2 DEF IsEnds
<1> HIDE DEF e
<1>3. \A m \in 0..n : e[m] = IF m = 0 THEN 0 ELSE e[m - 1] + w[m]
  BY <1>2 DEF IsEnds
<1>4. e[0] = 0
  <2>1. 0 \in 0..n
    BY <1>1
  <2> QED BY <2>1, <1>3
<1>5. \A j \in 1..n : e[j] = e[j - 1] + w[j]
  BY <1>1, <1>3
<1>6. \A m \in 0..n : e[m] \in Nat
  <2> DEFINE S == {k \in Nat : k <= n => e[k] \in Nat}
  <2>1. 0 \in S
    BY <1>4
  <2>2. ASSUME NEW k \in Nat, k \in S PROVE k + 1 \in S
    <3> SUFFICES ASSUME k + 1 <= n PROVE e[k + 1] \in Nat
      OBVIOUS
    <3>1. k + 1 \in 1..n /\ (k + 1) - 1 = k /\ e[k] \in Nat
      BY <1>1, <2>2
    <3>2. w[k + 1] \in Nat
      BY <3>1 DEF Widths
    <3>3. e[k + 1] = e[k] + w[k + 1]
      BY <1>5, <3>1
    <3> QED BY <3>1, <3>2, <3>3
  <2> HIDE DEF S
  <2>3. Nat \subseteq S
    BY <2>1, <2>2, Induction
  <2> QED BY <2>3, <1>1 DEF S
<1> QED BY <1>4, <1>5, <1>6 DEF e, Upto

LEMMA TotalIs ==
    ASSUME NEW w, Widths(w)
    PROVE  Len(w) \in 0..Len(w) /\ Total(w) \in Nat
<1>1. Len(w) \in 0..Len(w)
  BY DEF Widths
<1> QED BY <1>1, EndsAre DEF Total

\* The ends never decrease.
LEMMA EndsGrow ==
    ASSUME NEW w, Widths(w), NEW i \in 0..Len(w), NEW j \in 0..Len(w), i <= j
    PROVE  Upto(w, i) <= Upto(w, j)
<1> DEFINE n == Len(w)
           u(m) == Upto(w, m)
           S == {k \in Nat : i + k <= n => u(i) <= u(i + k)}
<1>1. n \in Nat /\ \A m \in 0..n : u(m) \in Nat
  BY EndsAre DEF Widths
<1>2. 0 \in S
  BY <1>1
<1>3. ASSUME NEW k \in Nat, k \in S PROVE k + 1 \in S
  <2> SUFFICES ASSUME i + (k + 1) <= n PROVE u(i) <= u(i + (k + 1))
    OBVIOUS
  <2>1. i + (k + 1) \in 1..n /\ (i + (k + 1)) - 1 = i + k /\ i + k \in 0..n /\ i + (k + 1) \in 0..n
    BY <1>1
  <2>2. u(i + (k + 1)) = u(i + k) + w[i + (k + 1)]
    BY <2>1, EndsAre
  <2>3. w[i + (k + 1)] \in Nat
    BY <2>1 DEF Widths
  <2>4. u(i) <= u(i + k) /\ u(i) \in Nat /\ u(i + k) \in Nat
    BY <1>1, <1>3, <2>1
  <2> HIDE DEF u
  <2> QED BY <2>2, <2>3, <2>4
<1> HIDE DEF S
<1>4. j - i \in Nat /\ i + (j - i) = j
  BY <1>1
<1>5. j - i \in S
  BY <1>2, <1>3, <1>4, Induction
<1> QED BY <1>1, <1>4, <1>5 DEF S

\* Shards have rows.
LEMMA TotalPositive ==
    ASSUME NEW w \in Seq(Nat \ {0}), w # << >>
    PROVE  Widths(w) /\ Total(w) \in Nat \ {0}
<1>1. Widths(w) /\ 1 \in 1..Len(w) /\ w[1] # 0 /\ w[1] \in Nat
  BY DEF Widths
<1>2. Upto(w, 1) = Upto(w, 0) + w[1] /\ Upto(w, 0) = 0
  BY <1>1, EndsAre
<1>3. 1 \in 0..Len(w) /\ Len(w) \in 0..Len(w) /\ 1 <= Len(w)
  BY <1>1 DEF Widths
<1>4. Upto(w, 1) <= Total(w) /\ Total(w) \in Nat
  BY <1>1, <1>3, EndsGrow, TotalIs DEF Total
<1> QED BY <1>1, <1>2, <1>4

\* Every row lies in a shard.
LEMMA RowHasSpan ==
    ASSUME NEW w, Widths(w), NEW row \in Nat, 0 < row, row <= Total(w)
    PROVE  \E j \in DOMAIN w : Upto(w, j - 1) < row /\ row <= Upto(w, j)
<1> DEFINE n == Len(w)
           S == {m \in 0..n : row <= Upto(w, m)}
<1>1. n \in Nat /\ n \in S /\ S \in SUBSET Nat
  BY DEF Widths, Total
<1>2. PICK j \in S : \A m \in S : j <= m
  <2> HIDE DEF S
  <2> QED BY <1>1, Least
<1>3. \A m \in 0..n : Upto(w, m) \in Nat
  BY EndsAre
<1>4. j # 0
  BY <1>2, EndsAre
<1>5. j - 1 \in 0..n /\ j - 1 \notin S /\ j \in 1..n
  BY <1>1, <1>2, <1>4
<1>6. Upto(w, j - 1) < row
  BY <1>3, <1>5
<1> QED BY <1>2, <1>5, <1>6 DEF Widths

\* The shard of a row is the one it lies in.
LEMMA SpanIs ==
    ASSUME NEW w, Widths(w), NEW row \in Nat, NEW j \in DOMAIN w,
           Upto(w, j - 1) < row, row <= Upto(w, j)
    PROVE  SpanAt(w, row) = j
<1> DEFINE In(i) == Upto(w, i - 1) < row /\ row <= Upto(w, i)
<1>1. ASSUME NEW i \in DOMAIN w, In(i) PROVE i = j
  <2>1. /\ i \in 1..Len(w) /\ j \in 1..Len(w) /\ Len(w) \in Nat
        /\ i - 1 \in 0..Len(w) /\ j - 1 \in 0..Len(w) /\ i \in 0..Len(w) /\ j \in 0..Len(w)
    BY DEF Widths
  <2>2. /\ Upto(w, i) \in Nat /\ Upto(w, j) \in Nat
        /\ Upto(w, i - 1) \in Nat /\ Upto(w, j - 1) \in Nat
    BY <2>1, EndsAre
  <2>3. i <= j - 1 => Upto(w, i) <= Upto(w, j - 1)
    BY <2>1, EndsGrow
  <2>4. j <= i - 1 => Upto(w, j) <= Upto(w, i - 1)
    BY <2>1, EndsGrow
  <2>5. ~(i <= j - 1)
    BY <1>1, <2>2, <2>3
  <2>6. ~(j <= i - 1)
    BY <1>1, <2>2, <2>4
  <2> QED BY <2>1, <2>5, <2>6
<1> HIDE DEF In
<1>2. In(j)
  BY DEF In
<1>3. SpanAt(w, row) = CHOOSE i \in DOMAIN w : In(i)
  BY DEF SpanAt, In
<1> QED BY <1>1, <1>2, <1>3

------------------------------------------------------------------------------
(* The codebook each dense kernel decodes a row with. *)

\* A quotient and a remainder.
LEMMA Divided ==
    ASSUME NEW a \in Nat, NEW d \in Nat \ {0}
    PROVE  a \div d \in Nat /\ a % d \in 0..(d - 1) /\ a = d * (a \div d) + (a % d)
OBVIOUS

\* The roles' rows on this rank are widths, one for each role.
LEMMA RoleWidthsAre ==
    ASSUME NEW l, ShardsOk(l)
    PROVE  /\ Widths(l.widths) /\ Widths(RoleWidths(l))
           /\ DOMAIN RoleWidths(l) = DOMAIN l.roles
           /\ Len(RoleWidths(l)) = Len(l.roles)
           /\ RoleWidths(l) = [i \in DOMAIN l.roles |-> RoleWidths(l)[i]]
<1>1. Widths(l.widths) /\ Len(l.widths) # 0 /\ \A j \in DOMAIN l.widths : l.widths[j] # 0
  BY DEF Widths, ShardsOk
<1>2. Len(l.roles) \in Nat /\ DOMAIN l.roles = 1..Len(l.roles)
  BY DEF ShardsOk
<1>3. CASE Len(l.roles) = Len(l.widths)
  <2>1. RoleWidths(l) = l.widths
    BY <1>3 DEF RoleWidths
  <2>2. l.widths = [j \in 1..Len(l.widths) |-> l.widths[j]]
    BY DEF ShardsOk
  <2> QED BY <1>1, <1>2, <1>3, <2>1, <2>2 DEF Widths
<1>4. CASE Len(l.roles) # Len(l.widths)
  <2> DEFINE t == Total(l.widths)
             d == Degree(l)
             r == [i \in DOMAIN l.roles |-> l.roles[i].rows \div d]
  <2>1. t \in Nat \ {0}
    BY TotalPositive DEF ShardsOk
  <2>2. d \in Nat \ {0}
    <3>1. l.out \in Nat \ {0} /\ (l.out + t - 1) \in Nat
      BY <2>1 DEF ShardsOk
    <3>2. d = (l.out + t - 1) \div t
      BY DEF Degree
    <3> HIDE DEF t, d
    <3>3. d \in Nat /\ (l.out + t - 1) % t \in 0..(t - 1) /\ l.out + t - 1 = t * d + ((l.out + t - 1) % t)
      BY <2>1, <3>1, <3>2, Divided
    <3>4. d = 0 => t * d = 0
      BY <2>1
    <3> QED BY <2>1, <3>1, <3>3, <3>4
  <2> HIDE DEF d
  <2>3. \A i \in DOMAIN l.roles : l.roles[i].rows \div d \in Nat
    BY <2>2, Divided DEF ShardsOk
  <2>4. RoleWidths(l) = r
    BY <1>4 DEF RoleWidths, d
  <2>5. DOMAIN r = 1..Len(l.roles) /\ r \in Seq(Nat)
    BY <1>2, <2>3
  <2>6. Len(r) = Len(l.roles)
    BY <1>2, <2>5
  <2> QED BY <1>1, <1>2, <2>3, <2>4, <2>5, <2>6 DEF Widths
<1> QED BY <1>3, <1>4

Book(l, p) == l.roles[p].book

\* The role a row lies in, by the boundaries load keeps, is the one its
\* logical shard belongs to.
LEMMA OwnRole ==
    ASSUME NEW l, ShardsOk(l), WidthsAgree(l), NEW row \in 1..Total(l.widths)
    PROVE  row \in Nat /\ 0 < row /\ \E p \in DOMAIN l.roles :
               /\ Upto(RoleWidths(l), p - 1) < row /\ row <= Upto(RoleWidths(l), p)
               /\ OwnBook(l, row) = Book(l, p)
<1> DEFINE w == l.widths
           r == RoleWidths(l)
<1>1. Widths(w) /\ Widths(r) /\ DOMAIN r = DOMAIN l.roles
  BY RoleWidthsAre
<1>2. row \in Nat /\ 0 < row /\ row <= Total(w)
  <2>1. Total(w) \in Nat
    BY <1>1, TotalIs
  <2> QED BY <2>1
<1>3. PICK j \in DOMAIN w : Upto(w, j - 1) < row /\ row <= Upto(w, j)
  BY <1>1, <1>2, RowHasSpan
<1>4. SpanAt(w, row) = j
  BY <1>1, <1>2, <1>3, SpanIs
<1>5. l.owner[j] \in DOMAIN l.roles
  BY DEF ShardsOk
<1> DEFINE p == l.owner[j]
<1>6. Upto(r, p - 1) <= Upto(w, j - 1) /\ Upto(w, j) <= Upto(r, p)
  BY DEF ShardsOk
<1>7. /\ Upto(w, j - 1) \in Nat /\ Upto(w, j) \in Nat
      /\ Upto(r, p - 1) \in Nat /\ Upto(r, p) \in Nat
  <2>1. j - 1 \in 0..Len(w) /\ j \in 0..Len(w)
    BY <1>1 DEF Widths
  <2>2. p \in DOMAIN r
    BY <1>1, <1>5
  <2> HIDE DEF p, r, w
  <2>3. p - 1 \in 0..Len(r) /\ p \in 0..Len(r)
    BY <1>1, <2>2 DEF Widths
  <2> QED BY <1>1, <2>1, <2>3, EndsAre
<1>8. Upto(r, p - 1) < row /\ row <= Upto(r, p)
  <2> HIDE DEF r, w, p
  <2> QED BY <1>2, <1>3, <1>6, <1>7
<1>9. OwnBook(l, row) = Book(l, p)
  BY <1>4 DEF OwnBook, Book
<1> QED BY <1>2, <1>5, <1>8, <1>9

\* What load left: the boundaries, and a block that holds the role's book.
LEMMA FormIs ==
    ASSUME NEW l, ShardsOk(l)
    PROVE  /\ SpanRows(Form(l)) = RoleWidths(l)
           /\ DOMAIN Form(l).spans = 1..Len(l.roles) /\ Len(Form(l).spans) = Len(l.roles)
           /\ \A p \in DOMAIN l.roles :
                /\ Form(l).spans[p].block \in 1..p
                /\ Form(l).spans[p].block \in DOMAIN Form(l).blocks
                /\ Form(l).blocks[Form(l).spans[p].block] = Book(l, p)
<1> DEFINE n == Len(l.roles)
           w == RoleWidths(l)
           sp == [i \in DOMAIN l.roles |-> [rows |-> w[i], block |-> FirstWith(l, i)]]
           bl == [b \in Firsts(l) |-> l.roles[b].book]
<1>1. n \in Nat /\ DOMAIN l.roles = 1..n /\ w = [i \in 1..n |-> w[i]]
  BY RoleWidthsAre DEF ShardsOk
<1>2. Form(l).spans = sp /\ Form(l).blocks = bl
  BY DEF Form
<1>3. \A p \in 1..n : FirstWith(l, p) \in 1..p /\ Book(l, FirstWith(l, p)) = Book(l, p)
  <2> SUFFICES ASSUME NEW p \in 1..n
               PROVE  FirstWith(l, p) \in 1..p /\ Book(l, FirstWith(l, p)) = Book(l, p)
    OBVIOUS
  <2> DEFINE S == {j \in 1..p : Book(l, j) = Book(l, p)}
  <2>1. p \in S /\ S \in SUBSET Nat
    BY <1>1
  <2>2. PICK j \in S : \A h \in S : j <= h
    <3> HIDE DEF S
    <3> QED BY <2>1, Least
  <2>3. \A h \in 1..(j - 1) : Book(l, h) # Book(l, p)
    <3> SUFFICES ASSUME NEW h \in 1..(j - 1), Book(l, h) = Book(l, p) PROVE FALSE
      OBVIOUS
    <3>1. h \in S /\ ~(j <= h)
      BY <2>2
    <3> QED BY <3>1, <2>2
  <2>4. \E k \in 1..p : Book(l, k) = Book(l, p) /\ \A h \in 1..(k - 1) : Book(l, h) # Book(l, p)
    BY <2>2, <2>3
  <2> HIDE DEF S
  <2> QED BY <2>4 DEF FirstWith, Book
<1>4. SpanRows(Form(l)) = w
  BY <1>1, <1>2 DEF SpanRows
<1>5. DOMAIN sp = 1..n /\ Len(sp) = n
  <2>1. DOMAIN sp = 1..n
    BY <1>1
  <2>2. sp \in Seq({sp[i] : i \in 1..n})
    BY <1>1
  <2> HIDE DEF sp
  <2> QED BY <1>1, <2>1, <2>2
<1>6. ASSUME NEW p \in DOMAIN l.roles
      PROVE  /\ sp[p].block \in 1..p /\ sp[p].block \in DOMAIN bl /\ bl[sp[p].block] = Book(l, p)
  BY <1>1, <1>3 DEF Firsts, Book
<1> QED BY <1>2, <1>4, <1>5, <1>6

\* Kernels that follow the row's offset.
LEMMA ByOffset ==
    ASSUME NEW l, ShardsOk(l), NEW row \in Nat, NEW p \in DOMAIN l.roles,
           Upto(RoleWidths(l), p - 1) < row, row <= Upto(RoleWidths(l), p)
    PROVE  /\ BlockAt(Form(l), row) = Form(l).spans[p].block
           /\ Form(l).blocks[BlockAt(Form(l), row)] = Book(l, p)
<1>1. SpanAt(SpanRows(Form(l)), row) = p
  BY FormIs, RoleWidthsAre, SpanIs
<1>2. BlockAt(Form(l), row) = Form(l).spans[p].block
  BY <1>1 DEF BlockAt
<1> QED BY <1>2, FormIs

\* Spans between two that never change their block share it.
LEMMA SameBlock ==
    ASSUME NEW b, NEW p \in Nat, NEW q \in Nat, p <= q,
           \A i \in p..(q - 1) : b[i] = b[i + 1]
    PROVE  b[p] = b[q]
<1> DEFINE S == {k \in Nat : p + k <= q => b[p] = b[p + k]}
<1>1. 0 \in S
  OBVIOUS
<1>2. ASSUME NEW k \in Nat, k \in S PROVE k + 1 \in S
  <2> SUFFICES ASSUME p + (k + 1) <= q PROVE b[p] = b[p + (k + 1)]
    OBVIOUS
  <2>1. p + k \in p..(q - 1) /\ p + (k + 1) = (p + k) + 1
    OBVIOUS
  <2> QED BY <1>2, <2>1
<1> HIDE DEF S
<1>3. q - p \in Nat /\ p + (q - p) = q
  OBVIOUS
<1>4. q - p \in S
  BY <1>1, <1>2, <1>3, Induction
<1> QED BY <1>3, <1>4 DEF S

\* The kernel that looks its table up once per tile: no boundary inside a tile
\* separates two blocks.
LEMMA ByTile ==
    ASSUME NEW l, ShardsOk(l), TileSafe(Form(l)), NEW row \in Nat, 0 < row, NEW p \in DOMAIN l.roles,
           Upto(RoleWidths(l), p - 1) < row, row <= Upto(RoleWidths(l), p)
    PROVE  Form(l).blocks[BlockAt(Form(l), (TileOf(row) * TileN) + 1)] = Book(l, p)
<1> DEFINE r == RoleWidths(l)
           n == Len(l.roles)
           t == (row - 1) \div 128
           first == (t * 128) + 1
           b == [i \in 1..n |-> Form(l).spans[i].block]
<1>1. Widths(r) /\ DOMAIN r = DOMAIN l.roles /\ DOMAIN r = 1..n /\ n \in Nat /\ Len(r) = n
  BY RoleWidthsAre DEF ShardsOk
<1>2. \A i \in 0..n : Upto(r, i) \in Nat
  BY <1>1, EndsAre
<1>3. t \in Nat /\ first \in Nat /\ 0 < first /\ first <= row /\ row <= first + 127
  BY Divided
<1>4. p \in 1..n /\ p \in 0..n /\ p - 1 \in 0..n /\ n \in 0..n /\ p <= n
      /\ Upto(r, p - 1) < row /\ row <= Upto(r, p)
  BY <1>1
<1>grow. \A i, j \in 0..n : i <= j => Upto(r, i) <= Upto(r, j)
  BY <1>1, EndsGrow
<1>form. SpanRows(Form(l)) = r /\ Len(Form(l).spans) = n
  BY FormIs
<1> HIDE DEF r, n
<1>5. first <= Total(r)
  <2>1. Upto(r, p) <= Upto(r, n)
    BY <1>4, <1>grow
  <2> HIDE DEF first
  <2> QED BY <1>1, <1>2, <1>3, <1>4, <2>1 DEF Total
<1>6. PICK q \in 1..n : Upto(r, q - 1) < first /\ first <= Upto(r, q)
  <2> HIDE DEF first
  <2> QED BY <1>1, <1>3, <1>5, RowHasSpan
<1>7. q <= p
  <2>1. q \in 0..n /\ q - 1 \in 0..n
    BY <1>1
  <2>2. p <= q - 1 => Upto(r, p) <= Upto(r, q - 1)
    BY <1>4, <1>grow, <2>1
  <2> HIDE DEF first
  <2> QED BY <1>2, <1>3, <1>4, <1>6, <2>1, <2>2
<1>8. ASSUME NEW i \in q..(p - 1) PROVE b[i] = b[i + 1]
  <2>1. i \in 1..(n - 1) /\ i \in 0..n /\ i \in 1..n /\ i + 1 \in 1..n /\ q \in 0..n /\ q <= i /\ i <= p - 1
    BY <1>1, <1>4
  <2>2. Upto(r, q) <= Upto(r, i) /\ Upto(r, i) <= Upto(r, p - 1)
    BY <1>4, <1>grow, <2>1
  <2>3. first <= Upto(r, i) /\ Upto(r, i) <= first + 126
    <3> HIDE DEF first
    <3> QED BY <1>2, <1>3, <1>4, <1>6, <2>1, <2>2
  <2>4. Upto(r, i) % 128 # 0
    <3> DEFINE u == Upto(r, i)
    <3>1. u \in Nat
      BY <1>2, <2>1
    <3> HIDE DEF u, t
    <3> QED BY <1>3, <2>3, <3>1 DEF u
  <2>5. /\ i \in 1..(Len(Form(l).spans) - 1)
        /\ SpanRows(Form(l)) = r
    BY <1>form, <2>1
  <2>6. Form(l).spans[i].block = Form(l).spans[i + 1].block
    BY <2>4, <2>5 DEF TileSafe, TileN
  <2> QED BY <2>1, <2>6
<1>9. b[q] = b[p]
  <2>1. q \in Nat /\ p \in Nat
    BY <1>1
  <2> HIDE DEF b
  <2> QED BY <1>7, <1>8, <2>1, SameBlock
<1>10. BlockAt(Form(l), first) = Form(l).spans[q].block
  <2>1. q \in DOMAIN l.roles
    BY <1>1
  <2> HIDE DEF first
  <2> QED BY <1>3, <1>6, <2>1, ByOffset DEF r
<1>11. (TileOf(row) * TileN) + 1 = first
  BY DEF TileOf, TileN
<1>12. Form(l).spans[q].block = Form(l).spans[p].block
  BY <1>4, <1>9
<1> QED BY <1>10, <1>11, <1>12, FormIs

\* The quality bridge expands each run of one block with that block.
LEMMA ByRun ==
    ASSUME NEW l, ShardsOk(l), NEW row \in Nat, 0 < row, NEW p \in DOMAIN l.roles,
           Upto(RoleWidths(l), p - 1) < row, row <= Upto(RoleWidths(l), p)
    PROVE  Form(l).blocks[SegmentBlock(Form(l), row)] = Book(l, p)
<1> DEFINE r == RoleWidths(l)
           n == Len(l.roles)
           b == [i \in 1..n |-> Form(l).spans[i].block]
           G == Segments(Form(l))
           begun == {i \in G : Upto(r, i - 1) < row}
           S == {k \in Nat : k <= p - 1 /\ (p - k) \in G}
<1>1. Widths(r) /\ DOMAIN r = DOMAIN l.roles /\ DOMAIN l.roles = 1..n /\ n \in Nat /\ Len(r) = n
  BY RoleWidthsAre DEF ShardsOk
<1>2. \A i \in 0..n : Upto(r, i) \in Nat
  BY <1>1, EndsAre
<1>3. p \in 1..n /\ p - 1 \in 0..n /\ p \in 0..n /\ Upto(r, p - 1) < row /\ row <= Upto(r, p)
  BY <1>1
<1>grow. \A i, j \in 0..n : i <= j => Upto(r, i) <= Upto(r, j)
  BY <1>1, EndsGrow
<1>4. G = {i \in 1..n : i = 1 \/ b[i - 1] # b[i]}
  <2>1. DOMAIN Form(l).spans = 1..n
    BY FormIs
  <2>2. \A i \in 1..n : i # 1 => i - 1 \in 1..n
    BY <1>1
  <2> QED BY <2>1, <2>2 DEF Segments
<1>form. SpanRows(Form(l)) = r
  BY FormIs
<1> HIDE DEF G, n, r
<1>5. PICK k \in S : \A j \in S : k <= j
  <2>1. p - 1 \in S
    <3>1. 1 \in G
      BY <1>1, <1>3, <1>4
    <3>2. p - 1 \in Nat /\ p - (p - 1) = 1
      BY <1>3
    <3> QED BY <3>1, <3>2
  <2>2. S \in SUBSET Nat
    OBVIOUS
  <2> HIDE DEF S
  <2> QED BY <2>1, <2>2, Least
<1> DEFINE q == p - k
<1>6. q \in 1..p /\ q \in G /\ q \in 1..n
  <2>1. k \in Nat /\ k <= p - 1 /\ p - k \in G
    BY <1>5
  <2>2. p - k \in 1..p
    BY <1>3, <2>1
  <2> QED BY <1>4, <2>1, <2>2
<1>7. \A i \in (q + 1)..p : i \notin G
  <2> SUFFICES ASSUME NEW i \in (q + 1)..p, i \in G PROVE FALSE
    OBVIOUS
  <2>1. p - i \in S /\ ~(k <= p - i)
    BY <1>3, <1>6
  <2> QED BY <1>5, <2>1
<1> HIDE DEF q, S
<1>8. \A i \in q..(p - 1) : b[i] = b[i + 1]
  <2> SUFFICES ASSUME NEW i \in q..(p - 1) PROVE b[i] = b[i + 1]
    OBVIOUS
  <2>1. i + 1 \in (q + 1)..p /\ i + 1 \in 1..n /\ (i + 1) - 1 = i /\ i + 1 # 1
    BY <1>1, <1>3, <1>6
  <2> HIDE DEF b
  <2> QED BY <1>4, <1>7, <2>1
<1>9. b[q] = b[p]
  <2>1. q \in Nat /\ p \in Nat /\ q <= p
    BY <1>1, <1>3, <1>6
  <2> HIDE DEF b
  <2> QED BY <1>8, <2>1, SameBlock
<1>10. \A i \in 1..n : Upto(r, i - 1) < row <=> i <= p
  <2> SUFFICES ASSUME NEW i \in 1..n PROVE Upto(r, i - 1) < row <=> i <= p
    OBVIOUS
  <2>1. i - 1 \in 0..n
    BY <1>1
  <2>2. i <= p => Upto(r, i - 1) <= Upto(r, p - 1)
    BY <1>3, <1>grow, <2>1
  <2>3. p <= i - 1 => Upto(r, p) <= Upto(r, i - 1)
    BY <1>3, <1>grow, <2>1
  <2>4. Upto(r, i - 1) \in Nat /\ Upto(r, p) \in Nat /\ Upto(r, p - 1) \in Nat
    BY <1>2, <1>3, <2>1
  <2> QED BY <1>3, <2>2, <2>3, <2>4
<1>11. q \in begun /\ \A i \in begun : i <= q
  <2>1. q \in begun
    BY <1>3, <1>6, <1>10
  <2>2. ASSUME NEW i \in begun PROVE i <= q
    <3>1. i \in 1..n /\ i <= p /\ i \in G
      BY <1>4, <1>10
    <3> QED BY <1>3, <1>6, <1>7, <3>1
  <2> QED BY <2>1, <2>2
<1>12. (CHOOSE i \in begun : \A h \in begun : h <= i) = q
  <2>1. \A i \in begun : i \in 1..n
    BY <1>4
  <2> HIDE DEF begun
  <2>2. \A i \in begun : (\A h \in begun : h <= i) => i = q
    BY <1>6, <1>11, <2>1
  <2> QED BY <1>11, <2>2
<1>13. SegmentBlock(Form(l), row) = Form(l).spans[q].block
  BY <1>12, <1>form DEF SegmentBlock, G
<1>14. Form(l).spans[q].block = Form(l).spans[p].block
  BY <1>3, <1>6, <1>9
<1> QED BY <1>13, <1>14, FormIs

\* Where there is one block, kernels without an offset read it for every row.
LEMMA ByFirst ==
    ASSUME NEW l, ShardsOk(l), OneBlock(Form(l)), NEW p \in DOMAIN l.roles
    PROVE  Form(l).blocks[1] = Book(l, p)
BY FormIs DEF OneBlock

------------------------------------------------------------------------------
(* Dense launches. *)

\* What the record of a call can be written from: a covered call that reaches
\* a kernel leaves one.
Records(launch, covered) ==
    /\ launch.writes \in {"none", "after", "twice"}
    /\ covered /\ launch.symbol # "" => launch.writes # "none"

\* Each dense kernel is taken only by a layer it can decode.
LinearCanDecode(symbol, form) ==
    \/ symbol \in {"", "cb_gemv_fp4_v2", "cb_gemv_fp8", "cb_expand_fp8+cutlass_scaled_mm",
                   "cb_bf16_grouped_mm", "cb_bf16_grouped_mm_sm120_gather"}
    \/ symbol = "cb_fused_fp4_prefill_mm_scaled" /\ TileSafe(form)
    \/ symbol \in {"cb_fused_fp4v2_prefill_mm", "cb_fused_prefill_mm_scaled"} /\ OneBlock(form)

\* Which lane an FP4 layer takes, as alternatives.
LEMMA Fp4Lanes ==
    ASSUME NEW kept1, NEW rows \in Nat, NEW half
    PROVE  LET u == Fp4Launch(kept1, rows, half)
               bridge(symbol) == Launch(symbol, BridgeContract("fp4"), "after", FALSE)
           IN  \/ UsesFusedFp4(kept1, rows) /\ u = FusedFp4Launch(kept1, half)
               \/ /\ ~UsesFusedFp4(kept1, rows) /\ rows <= GemvMax
                  /\ u = Launch("cb_gemv_fp4_v2", BridgeContract("fp4"), "none", FALSE)
               \/ /\ ~UsesFusedFp4(kept1, rows) /\ MidmEligible(kept1, rows)
                  /\ u = bridge("cb_fused_fp4v2_prefill_mm")
               \/ /\ ~UsesFusedFp4(kept1, rows) /\ rows > GemvMax /\ ~MidmEligible(kept1, rows)
                  /\ \/ kept1.sm120 /\ u = bridge("cb_bf16_grouped_mm_sm120_gather")
                     \/ ~kept1.sm120 /\ u = bridge("cb_bf16_grouped_mm")
<1> DEFINE U == UsesFusedFp4(kept1, rows)
           E == MidmEligible(kept1, rows)
<1>1. E => rows > GemvMax
  BY DEF MidmEligible, MidM, GemvMax
<1>2. rows <= GemvMax <=> ~(rows > GemvMax)
  BY DEF GemvMax
<1> HIDE DEF U, E
<1> QED BY <1>1, <1>2 DEF Fp4Launch, U, E

\* What an FP4 layer records, and which kernels it ends in.
LEMMA Fp4LaunchIs ==
    ASSUME NEW host, NEW l, NEW form, NEW flags, l.grid = "fp4", LinearLoads(host, l, form, flags),
           NEW rows \in Nat, NEW half \in BOOLEAN
    PROVE  LET u == Fp4Launch(LinearKept(host, l, form, flags), rows, half)
           IN  Records(u, rows > GemvMax) /\ LinearCanDecode(u.symbol, form)
<1> DEFINE k == LinearKept(host, l, form, flags)
           u == Fp4Launch(k, rows, half)
           mode == Selected(flags, "FUSED_FP4")
           midm == Selected(flags, "FP4_FUSED_MIDM") = "on"
           sm120 == Selected(flags, "BF16_SM120") = "on"
<1> SUFFICES Records(u, rows > GemvMax) /\ LinearCanDecode(u.symbol, form)
  OBVIOUS
<1>1. k.mode = mode /\ k.midm = midm /\ k.sm120 = sm120
  BY DEF LinearKept
<1>2. Fp4Resolves(host, l, form, mode, midm, sm120)
  BY DEF LinearLoads
<1>3. mode # NoMode => TileSafe(form)
  BY <1>2 DEF Fp4Resolves, FusedFp4Ok
<1>4. midm => OneBlock(form)
  BY <1>2 DEF Fp4Resolves, MidmSupports
<1> HIDE DEF k, mode, midm, sm120
<1>5. CASE UsesFusedFp4(k, rows) /\ u = FusedFp4Launch(k, half)
  <2>1. TileSafe(form)
    BY <1>1, <1>3, <1>5 DEF UsesFusedFp4
  <2>2. half => u.symbol = "cb_fused_fp4_prefill_mm_scaled" /\ u.writes = "twice"
    BY <1>5 DEF FusedFp4Launch, Launch
  <2>3. ~half => u.symbol = "" /\ u.writes = "none"
    BY <1>5 DEF FusedFp4Launch, Launch, Refusal
  <2> HIDE DEF u
  <2> QED BY <2>1, <2>2, <2>3 DEF Records, LinearCanDecode
<1>6. CASE ~UsesFusedFp4(k, rows) /\ MidmEligible(k, rows)
           /\ u = Launch("cb_fused_fp4v2_prefill_mm", BridgeContract("fp4"), "after", FALSE)
  <2>1. OneBlock(form)
    BY <1>1, <1>4, <1>6 DEF MidmEligible
  <2>2. u.symbol = "cb_fused_fp4v2_prefill_mm" /\ u.writes = "after"
    BY <1>6 DEF Launch
  <2> HIDE DEF u
  <2> QED BY <2>1, <2>2 DEF Records, LinearCanDecode
<1>7. CASE \E s \in {"cb_bf16_grouped_mm", "cb_bf16_grouped_mm_sm120_gather"} :
               u = Launch(s, BridgeContract("fp4"), "after", FALSE)
  <2> HIDE DEF u
  <2>1. u.symbol \in {"cb_bf16_grouped_mm", "cb_bf16_grouped_mm_sm120_gather"} /\ u.writes = "after"
    BY <1>7 DEF Launch
  <2> QED BY <2>1 DEF Records, LinearCanDecode
<1>8. CASE rows <= GemvMax /\ u = Launch("cb_gemv_fp4_v2", BridgeContract("fp4"), "none", FALSE)
  <2> HIDE DEF u
  <2> QED BY <1>8 DEF Records, LinearCanDecode, Launch, GemvMax
<1> HIDE DEF u
<1> QED BY <1>5, <1>6, <1>7, <1>8, Fp4Lanes DEF u

\* The same for an FP8 layer.
LEMMA Fp8LaunchIs ==
    ASSUME NEW host, NEW l, NEW kept1, NEW rows \in Nat
    PROVE  LET u == Fp8Launch(host, l, kept1, rows)
           IN  /\ u.writes = "twice"
               /\ LinearCanDecode(u.symbol, kept1.form)
               /\ u.symbol = "cb_fused_prefill_mm_scaled" => kept1.midm
<1> DEFINE F == Fp8FusedTakes(host, l, kept1, rows)
           u == Fp8Launch(host, l, kept1, rows)
           exact(symbol) == Launch(symbol, BridgeContract("fp8"), "twice", FALSE)
<1> SUFFICES /\ u.writes = "twice"
             /\ LinearCanDecode(u.symbol, kept1.form)
             /\ u.symbol = "cb_fused_prefill_mm_scaled" => kept1.midm
  OBVIOUS
<1>1. rows <= GemvMax <=> ~(rows > GemvMax)
  BY DEF GemvMax
<1>2. \/ u = exact("cb_gemv_fp8")
      \/ F /\ u = exact("cb_fused_prefill_mm_scaled")
      \/ u = exact("cb_expand_fp8+cutlass_scaled_mm")
  <2> HIDE DEF F
  <2> QED BY <1>1 DEF Fp8Launch, F
<1>3. F => OneBlock(kept1.form) /\ kept1.midm
  BY DEF Fp8FusedTakes
<1> HIDE DEF u, F
<1>4. /\ u.writes = "twice"
      /\ \/ u.symbol \in {"cb_gemv_fp8", "cb_expand_fp8+cutlass_scaled_mm"}
         \/ F /\ u.symbol = "cb_fused_prefill_mm_scaled"
  BY <1>2 DEF Launch
<1> QED BY <1>3, <1>4 DEF LinearCanDecode

\* Both.
LEMMA LinearLaunchIs ==
    ASSUME NEW host, NEW l, NEW flags, l.grid \in {"fp4", "fp8"}, LinearLoads(host, l, Form(l), flags),
           NEW rows \in Nat, NEW half \in BOOLEAN
    PROVE  LET u == LinearLaunch(host, l, LinearKept(host, l, Form(l), flags), rows, half)
           IN  /\ Records(u, l.grid = "fp8" \/ rows > GemvMax)
               /\ LinearCanDecode(u.symbol, Form(l))
<1> DEFINE k == LinearKept(host, l, Form(l), flags)
<1>1. CASE l.grid = "fp4"
  BY <1>1, Fp4LaunchIs DEF LinearLaunch
<1>2. CASE l.grid = "fp8"
  <2>1. k.form = Form(l)
    BY DEF LinearKept
  <2> HIDE DEF k
  <2>2. LinearLaunch(host, l, k, rows, half) = Fp8Launch(host, l, k, rows)
    BY <1>2 DEF LinearLaunch
  <2> QED BY <1>2, <2>1, <2>2, Fp8LaunchIs DEF Records, k
<1> QED BY <1>1, <1>2

\* The kernel a dense layer ends in decodes each row with the book of its role.
LEMMA DenseDecodes ==
    ASSUME NEW l, ShardsOk(l), WidthsAgree(l), NEW symbol, symbol # "",
           LinearCanDecode(symbol, Form(l)), NEW row \in 1..Total(l.widths)
    PROVE  DecodedAs(symbol, Form(l), row) = OwnBook(l, row)
<1>1. PICK p \in DOMAIN l.roles :
          /\ Upto(RoleWidths(l), p - 1) < row /\ row <= Upto(RoleWidths(l), p)
          /\ OwnBook(l, row) = Book(l, p)
  BY OwnRole
<1>2. row \in Nat /\ 0 < row
  BY OwnRole
<1>3. Form(l).blocks[BlockAt(Form(l), row)] = Book(l, p)
  BY <1>1, <1>2, ByOffset
<1>4. Form(l).blocks[SegmentBlock(Form(l), row)] = Book(l, p)
  BY <1>1, <1>2, ByRun
<1>5. TileSafe(Form(l)) => Form(l).blocks[BlockAt(Form(l), (TileOf(row) * TileN) + 1)] = Book(l, p)
  BY <1>1, <1>2, ByTile
<1>6. OneBlock(Form(l)) => Form(l).blocks[1] = Book(l, p)
  BY ByFirst
<1>7. CASE symbol \in {"cb_gemv_fp4_v2", "cb_gemv_fp8", "cb_expand_fp8+cutlass_scaled_mm"}
  BY <1>1, <1>3, <1>7 DEF DecodedAs
<1>8. CASE symbol \in {"cb_bf16_grouped_mm", "cb_bf16_grouped_mm_sm120_gather"}
  BY <1>1, <1>4, <1>8 DEF DecodedAs
<1>9. CASE symbol = "cb_fused_fp4_prefill_mm_scaled" /\ TileSafe(Form(l))
  BY <1>1, <1>5, <1>9 DEF DecodedAs
<1>10. CASE symbol \in {"cb_fused_fp4v2_prefill_mm", "cb_fused_prefill_mm_scaled"} /\ OneBlock(Form(l))
  BY <1>1, <1>6, <1>10 DEF DecodedAs
<1> QED BY <1>7, <1>8, <1>9, <1>10 DEF LinearCanDecode

------------------------------------------------------------------------------
(* The block scales of a source plane. *)

LEMMA BlockOfRow ==
    ASSUME NEW a \in Nat, NEW q \in Int, 128 * q <= a, a < (128 * q) + 128
    PROVE  a \div 128 = q
OBVIOUS

LEMMA BlocksAdd ==
    ASSUME NEW a \in Nat, NEW b \in Nat, a % 128 = 0, b % 128 = 0
    PROVE  (a + b) % 128 = 0
OBVIOUS

LEMMA CeilIs ==
    ASSUME NEW a \in Nat
    PROVE  LET c == CeilDiv(a, SourceBlock)
           IN  /\ c \in Nat /\ a <= 128 * c /\ 128 * c < a + 128
               /\ a % 128 = 0 => a = 128 * c
BY DEF CeilDiv, SourceBlock

\* Where every role but the last fills its blocks, roles begin with a block.
LEMMA RolesBeginBlocks ==
    ASSUME NEW w, Widths(w), \A j \in 1..(Len(w) - 1) : w[j] % 128 = 0,
           NEW j \in 1..Len(w)
    PROVE  Upto(w, j - 1) % 128 = 0
<1> DEFINE n == Len(w)
           S == {k \in Nat : k < n => Upto(w, k) % 128 = 0}
<1>1. n \in Nat
  BY DEF Widths
<1>2. 0 \in S
  BY EndsAre
<1>3. ASSUME NEW k \in Nat, k \in S PROVE k + 1 \in S
  <2> SUFFICES ASSUME k + 1 < n PROVE Upto(w, k + 1) % 128 = 0
    OBVIOUS
  <2>1. k + 1 \in 1..(n - 1) /\ k + 1 \in 1..n /\ k \in 0..n /\ (k + 1) - 1 = k /\ k + 1 \in DOMAIN w
    BY <1>1 DEF Widths
  <2>2. w[k + 1] \in Nat /\ w[k + 1] % 128 = 0
    BY <2>1 DEF Widths
  <2>3. Upto(w, k) \in Nat /\ Upto(w, k) % 128 = 0 /\ Upto(w, k + 1) = Upto(w, k) + w[k + 1]
    BY <1>1, <1>3, <2>1, EndsAre
  <2>4. (Upto(w, k) + w[k + 1]) % 128 = 0
    BY <2>2, <2>3, BlocksAdd
  <2> QED BY <2>3, <2>4
<1> HIDE DEF S
<1>4. j - 1 \in Nat /\ j - 1 < n
  BY <1>1
<1>5. j - 1 \in S
  BY <1>2, <1>3, <1>4, Induction
<1> QED BY <1>4, <1>5 DEF S

\* The scale rows a rank loaded are those of its rows.
LEMMA OwnScaleRows ==
    ASSUME NEW l, PlaneOk(l), Source8Constructs(l), NEW row \in 0..(Total(l.widths) - 1), NEW column
    PROVE  ScaleRole(l, row) = OwnScale(l, row, column).rows
<1> DEFINE w == l.widths
           n == Len(w)
           s == row \div SourceBlock
           first(i) == CeilDiv(Upto(w, i - 1), SourceBlock)
           size(i) == CeilDiv(w[i], SourceBlock)
           holders == {i \in DOMAIN w : first(i) <= s /\ s < first(i) + size(i)}
           j == SpanAt(w, row + 1)
<1>1. Widths(w) /\ Total(w) \in Nat \ {0} /\ n \in Nat /\ DOMAIN w = 1..n
  BY TotalPositive DEF PlaneOk, Widths
<1>3. ColDegree(l) > 1 => \A i \in 1..n : w[i] % 128 = 0
  BY <1>1 DEF Source8Constructs, SourceBlock
<1>2. \A i \in 1..(n - 1) : w[i] % 128 = 0
  <2> TAKE i \in 1..(n - 1)
  <2>1. w[i] % 128 = 0 \/ ColDegree(l) > 1
    BY DEF PlaneOk, SourceBlock
  <2>2. i \in 1..n
    BY <1>1
  <2> HIDE DEF w
  <2> QED BY <1>3, <2>1, <2>2
<1>4. row \in Nat /\ row + 1 \in Nat /\ 0 < row + 1 /\ row + 1 <= Total(w)
  BY <1>1
<1>5. j \in 1..n /\ Upto(w, j - 1) <= row /\ row < Upto(w, j)
  <2>1. PICK k \in DOMAIN w : Upto(w, k - 1) < row + 1 /\ row + 1 <= Upto(w, k)
    BY <1>1, <1>4, RowHasSpan
  <2>2. j = k
    BY <1>1, <1>4, <2>1, SpanIs
  <2>3. k - 1 \in 0..n /\ k \in 0..n
    BY <1>1
  <2>4. Upto(w, k - 1) \in Nat /\ Upto(w, k) \in Nat
    BY <1>1, <2>3, EndsAre
  <2> HIDE DEF j, w
  <2> QED BY <1>1, <1>4, <2>1, <2>2, <2>4
<1>6. s \in Nat /\ 128 * s <= row /\ row < (128 * s) + 128
  BY <1>4, Divided DEF SourceBlock
<1>7. \A i \in 1..n : /\ Upto(w, i - 1) \in Nat /\ Upto(w, i) \in Nat /\ w[i] \in Nat
                      /\ Upto(w, i) = Upto(w, i - 1) + w[i]
  <2> TAKE i \in 1..n
  <2>1. i - 1 \in 0..n /\ i \in 0..n
    BY <1>1
  <2> HIDE DEF w
  <2> QED BY <1>1, <2>1, EndsAre DEF Widths, n
<1>8. \A i \in 1..n : first(i) \in Nat /\ Upto(w, i - 1) = 128 * first(i)
  <2> TAKE i \in 1..n
  <2>1. \A k \in 1..(Len(w) - 1) : w[k] % 128 = 0
    BY <1>2
  <2> HIDE DEF w
  <2>2. Upto(w, i - 1) % 128 = 0
    BY <1>1, <2>1, RolesBeginBlocks
  <2>3. Upto(w, i - 1) \in Nat
    BY <1>7
  <2> QED BY <2>2, <2>3, CeilIs
<1>9. \A i \in 1..n : /\ size(i) \in Nat /\ w[i] <= 128 * size(i)
                      /\ w[i] % 128 = 0 => w[i] = 128 * size(i)
  <2> HIDE DEF w
  <2> QED BY <1>7, CeilIs
<1> HIDE DEF s, first, size, w, j
<1>10. holders = {j}
  <2> DEFINE fj == first(j) cj == size(j) uj == Upto(w, j - 1) wj == w[j]
  <2>4. /\ fj \in Nat /\ cj \in Nat /\ wj \in Nat /\ uj = 128 * fj /\ wj <= 128 * cj
        /\ uj <= row /\ row < uj + wj
    BY <1>5, <1>7, <1>8, <1>9
  <2> HIDE DEF fj, cj, uj, wj
  <2>5. fj <= s /\ s < fj + cj
    BY <1>4, <1>6, <2>4
  <2>1. first(j) <= s /\ s < first(j) + size(j)
    BY <2>5 DEF fj, cj
  <2>2. ASSUME NEW i \in 1..n, i < j PROVE ~(s < first(i) + size(i))
    <3>1. i \in 1..(n - 1) /\ i \in 0..n /\ j - 1 \in 0..n /\ i <= j - 1
      BY <1>1, <1>5, <2>2
    <3>2. Upto(w, i) <= Upto(w, j - 1)
      BY <1>1, <3>1, EndsGrow
    <3>3. w[i] = 128 * size(i)
      BY <1>2, <1>9, <3>1
    <3> DEFINE fi == first(i) ci == size(i) ui == Upto(w, i)
    <3>4. fi \in Nat /\ ci \in Nat /\ ui = (128 * fi) + (128 * ci) /\ ui <= uj /\ ui \in Nat
      BY <1>7, <1>8, <1>9, <3>2, <3>3 DEF uj
    <3> HIDE DEF fi, ci, ui
    <3>5. ~(s < fi + ci)
      BY <1>4, <1>6, <2>4, <3>4
    <3> QED BY <3>5 DEF fi, ci
  <2>3. ASSUME NEW i \in 1..n, i > j PROVE ~(first(i) <= s)
    <3>1. i - 1 \in 0..n /\ j \in 0..n /\ j <= i - 1
      BY <1>1, <1>5, <2>3
    <3>2. Upto(w, j) <= Upto(w, i - 1)
      BY <1>1, <3>1, EndsGrow
    <3> DEFINE fi == first(i) top == Upto(w, j)
    <3>3. fi \in Nat /\ top \in Nat /\ top <= 128 * fi /\ row < top
      BY <1>5, <1>7, <1>8, <3>2
    <3> HIDE DEF fi, top
    <3>4. ~(fi <= s)
      BY <1>4, <1>6, <3>3
    <3> QED BY <3>4 DEF fi
  <2> QED BY <1>1, <1>5, <2>1, <2>2, <2>3
<1>11. (CHOOSE h \in holders : \A o \in holders : o <= h) = j
  <2> HIDE DEF holders
  <2> QED BY <1>1, <1>5, <1>10
<1> DEFINE share == IF ColDegree(l) > 1 THEN l.rank * size(j) ELSE 0
           above == IF ColDegree(l) > 1 THEN l.rank * w[j] ELSE 0
<1>12. share \in Nat /\ above = 128 * share
  <2>1. l.rank \in Nat /\ size(j) \in Nat /\ (ColDegree(l) > 1 => w[j] = 128 * size(j))
    BY <1>3, <1>5, <1>9 DEF PlaneOk
  <2>2. \A a, b \in Nat : a * b \in Nat /\ a * (128 * b) = 128 * (a * b)
    OBVIOUS
  <2> QED BY <2>1, <2>2
<1>13. (above + row - Upto(w, j - 1)) \div 128 = share + s - first(j)
  <2> HIDE DEF share, above
  <2>1. Upto(w, j - 1) = 128 * first(j) /\ first(j) \in Nat
    BY <1>5, <1>8
  <2>2. above + row - Upto(w, j - 1) \in Nat
    BY <1>4, <1>5, <1>12, <2>1
  <2> QED BY <1>4, <1>6, <1>12, <2>1, <2>2, BlockOfRow
<1>14. ScaleRole(l, row) = [role |-> j, block |-> share + s - first(j)]
  <2> DEFINE h == CHOOSE x \in holders : \A o \in holders : o <= x
  <2>1. ScaleRole(l, row)
          = [role |-> h, block |-> (IF ColDegree(l) > 1 THEN l.rank * size(h) ELSE 0) + s - first(h)]
    BY DEF ScaleRole, s, first, size, w
  <2>2. h = j
    BY <1>11
  <2> HIDE DEF h
  <2> QED BY <2>1, <2>2
<1>15. OwnScale(l, row, column).rows = [role |-> j, block |-> (above + row - Upto(w, j - 1)) \div 128]
  BY DEF OwnScale, SourceBlock, j, w
<1> QED BY <1>13, <1>14, <1>15

\* And the scale columns those of its columns.
LEMMA OwnScaleColumn ==
    ASSUME NEW l, PlaneOk(l), Source8Constructs(l), NEW row, NEW column \in Nat
    PROVE  LoadedScale(l, row, column).column = OwnScale(l, row, column).column
<1> DEFINE c == CeilDiv(l.sliced, SourceBlock)
           share == IF RowDegree(l) > 1 THEN l.rank * c ELSE 0
           left == IF RowDegree(l) > 1 THEN l.rank * l.sliced ELSE 0
<1>1. l.rank \in Nat /\ c \in Nat /\ (RowDegree(l) > 1 => l.sliced = 128 * c)
  <2>1. l.rank \in Nat /\ l.sliced \in Nat
    BY DEF PlaneOk
  <2>2. RowDegree(l) > 1 => l.sliced % 128 = 0
    BY DEF Source8Constructs, SourceBlock
  <2> QED BY <2>1, <2>2, CeilIs
<1>2. share \in Nat /\ left = 128 * share
  <2>1. \A a, b \in Nat : a * b \in Nat /\ a * (128 * b) = 128 * (a * b)
    OBVIOUS
  <2> HIDE DEF c
  <2> QED BY <1>1, <2>1
<1>3. LoadedScale(l, row, column).column = share + (column \div 128)
  BY DEF LoadedScale, SourceBlock
<1>4. OwnScale(l, row, column).column = (left + column) \div 128
  BY DEF OwnScale, SourceBlock
<1> HIDE DEF share, left
<1>5. (left + column) \div 128 = share + (column \div 128)
  BY <1>2
<1> QED BY <1>3, <1>4, <1>5

\* Both.
LEMMA OwnScales ==
    ASSUME NEW l, PlaneOk(l), Source8Constructs(l),
           NEW row \in Corners(Total(l.widths)), NEW column \in Corners(l.sliced)
    PROVE  LoadedScale(l, row, column) = OwnScale(l, row, column)
<1>1. \A size \in Nat \ {0} : Corners(size) \subseteq 0..(size - 1)
  BY DEF Corners
<1>2. row \in 0..(Total(l.widths) - 1) /\ column \in Nat
  <2>1. Total(l.widths) \in Nat \ {0} /\ l.sliced \in Nat \ {0}
    BY TotalPositive DEF PlaneOk
  <2> QED BY <1>1, <2>1
<1>3. /\ LoadedScale(l, row, column) = [rows |-> ScaleRole(l, row), column |-> LoadedScale(l, row, column).column]
      /\ OwnScale(l, row, column)
           = [rows |-> OwnScale(l, row, column).rows, column |-> OwnScale(l, row, column).column]
  BY DEF LoadedScale, OwnScale
<1> QED BY <1>2, <1>3, OwnScaleRows, OwnScaleColumn

------------------------------------------------------------------------------
(* Routed launches, and the lanes over source bytes. *)

\* A routed stack decodes each role with its own book: a split one loads only
\* where every lane it can take was taught the roles.
MoECanDecode(symbol, l) ==
    \/ ~RoleSplit(l)
    \/ symbol \notin {"cb_fused_fp4_moe_grouped", "cb_moe_persistent_b_prefill",
                      "cb_moe_persistent_b_prefill_d2r", "cb_moe_persistent_b_prefill_fp8"}

LEMMA MoEDecodes ==
    ASSUME NEW l, NEW symbol, MoECanDecode(symbol, l), NEW role \in Roles
    PROVE  MoEDecodedAs(symbol, l, role) = l.books[role]
<1>1. CASE ~RoleSplit(l)
  <2>1. l.books[role] = l.books["gate"]
    BY <1>1 DEF RoleSplit
  <2> QED BY <1>1, <2>1 DEF MoEDecodedAs, StackBook
<1>2. CASE RoleSplit(l)
  BY <1>2 DEF MoEDecodedAs, MoECanDecode
<1> QED BY <1>1, <1>2

\* The bridge of a routed layer: what it records, and the lane it takes.
LEMMA Bf16LaunchIs ==
    ASSUME NEW l, NEW kept1, NEW dtype, NEW declined
    PROVE  LET u == Bf16Launch(l, kept1, dtype, declined)
           IN  \/ u = [Refusal(declined) EXCEPT !.contract = BridgeContract(l.grid)]
               \/ kept1.pb /\ u = PersistentBLaunch(l, kept1, declined)
               \/ ~kept1.pb /\ kept1.sm120 /\ u = Sm120Launch(l, declined)
               \/ /\ ~kept1.pb /\ ~kept1.sm120
                  /\ u = Launch("cb_bf16_grouped_mm_out", BridgeContract(l.grid), "after", declined)
BY DEF Bf16Launch

\* The kernels and records of a routed layer.
LEMMA MoELaunchIs ==
    ASSUME NEW host, NEW l, l.grid \in {"fp4", "fp8"}, NEW flags, NEW v2,
           MoELoads(host, l, flags, 0), NEW rows \in Nat, NEW dtype
    PROVE  LET u == MoELaunch(host, l, MoEKept(host, l, flags, v2), rows, dtype)
           IN  Records(u, rows > DecodeMax) /\ MoECanDecode(u.symbol, l)
<1> DEFINE k == MoEKept(host, l, flags, v2)
           u == MoELaunch(host, l, k, rows, dtype)
<1> SUFFICES Records(u, rows > DecodeMax) /\ MoECanDecode(u.symbol, l)
  OBVIOUS
<1>1. l.grid = "fp4" => ~RoleSplit(l)
  BY DEF MoELoads, MoESound, PerRoleSupported
<1>2. k.pb /\ l.grid = "fp8" => ~RoleSplit(l)
  BY DEF MoEKept, PbEngages, PbSupports
<1> HIDE DEF k
<1>3. CASE rows <= DecodeMax /\ u = DecodeLaunch(l)
  <2>1. u.symbol = "grouped_decode" /\ u.writes = "none" /\ ~(rows > DecodeMax)
    BY <1>3 DEF DecodeLaunch, Launch, DecodeMax
  <2> HIDE DEF u
  <2> QED BY <2>1 DEF Records, MoECanDecode
<1>lanes. \/ rows <= DecodeMax /\ u = DecodeLaunch(l)
          \/ l.grid = "fp4" /\ u = GroupedFp4Launch(k, dtype)
          \/ u = Bf16Launch(l, k, dtype, FALSE)
          \/ u = GroupedFp8Launch(host, l, k, dtype)
  <2>1. u = MoELaunch(host, l, k, rows, dtype) /\ (rows <= DecodeMax <=> ~(rows > DecodeMax))
    BY DEF DecodeMax
  <2> HIDE DEF u
  <2> QED BY <2>1 DEF MoELaunch
<1>4. CASE l.grid = "fp4" /\ u = GroupedFp4Launch(k, dtype)
  <2> HIDE DEF u
  <2>1. \/ u.symbol = "cb_fused_fp4_moe_grouped" /\ u.writes = "twice"
        \/ u.symbol = "" /\ u.writes = "none"
    BY <1>4 DEF GroupedFp4Launch, Launch, Refusal
  <2> QED BY <1>1, <1>4, <2>1 DEF Records, MoECanDecode
<1>5. CASE \E declined : u = Bf16Launch(l, k, dtype, declined)
  <2>1. PICK declined : u = Bf16Launch(l, k, dtype, declined)
    BY <1>5
  <2> HIDE DEF u
  <2>2. CASE u = [Refusal(declined) EXCEPT !.contract = BridgeContract(l.grid)]
    <3>1. u.symbol = "" /\ u.writes = "none"
      BY <2>2 DEF Refusal, Launch
    <3> QED BY <3>1 DEF Records, MoECanDecode
  <2>3. CASE k.pb /\ u = PersistentBLaunch(l, k, declined)
    <3>1. u.symbol # "" /\ u.writes = "after"
      BY <2>3 DEF PersistentBLaunch, Launch
    <3> QED BY <1>1, <1>2, <2>3, <3>1 DEF Records, MoECanDecode
  <2>4. CASE u = Sm120Launch(l, declined)
    <3>1. u.symbol = "cb_bf16_grouped_mm_sm120_gather_out" /\ u.writes = "after"
      BY <2>4 DEF Sm120Launch, Launch
    <3> QED BY <3>1 DEF Records, MoECanDecode
  <2>5. CASE u = Launch("cb_bf16_grouped_mm_out", BridgeContract(l.grid), "after", declined)
    <3>1. u.symbol = "cb_bf16_grouped_mm_out" /\ u.writes = "after"
      BY <2>5 DEF Launch
    <3> QED BY <3>1 DEF Records, MoECanDecode
  <2> QED BY <2>1, <2>2, <2>3, <2>4, <2>5, Bf16LaunchIs
<1>6. CASE u = GroupedFp8Launch(host, l, k, dtype)
  <2>1. CASE u = Launch("cb_fused_moe_grouped", BridgeContract("fp8"), "twice", FALSE)
    <3>1. u.symbol = "cb_fused_moe_grouped" /\ u.writes = "twice"
      BY <2>1 DEF Launch
    <3> HIDE DEF u
    <3> QED BY <3>1 DEF Records, MoECanDecode
  <2>2. CASE u = Bf16Launch(l, k, dtype, TRUE)
    BY <1>5, <2>2
  <2> QED BY <1>6, <2>1, <2>2 DEF GroupedFp8Launch
<1> HIDE DEF u
<1> QED BY <1>3, <1>4, <1>5, <1>6, <1>lanes

\* Source FP8 records every launch; the other two lanes none, and decline
\* nothing.
LEMMA Source8LaunchIs ==
    ASSUME NEW rows \in Nat, NEW dtype
    PROVE  LET u == Source8Launch(rows, dtype)
           IN  Records(u, TRUE) /\ u.symbol # "fp8_einsum"
<1> DEFINE u == Source8Launch(rows, dtype)
<1>1. rows <= GemvMax <=> ~(rows > GemvMax)
  BY DEF GemvMax
<1>2. \/ u.symbol = "" /\ u.writes = "none"
      \/ u.symbol \in {"fp8_source_gemv", "fp8_source_expand_bf16+cb_bf16_grouped_mm"} /\ u.writes = "twice"
  BY <1>1 DEF Source8Launch, Launch, Refusal
<1> SUFFICES Records(u, TRUE) /\ u.symbol # "fp8_einsum"
  OBVIOUS
<1> HIDE DEF u
<1> QED BY <1>2 DEF Records

LEMMA Mxfp8LaunchIs ==
    ASSUME NEW l, NEW set, NEW rows, NEW captured
    PROVE  LET u == Mxfp8Launch(l, set, rows, captured)
           IN  /\ u.writes = "none" /\ u.declined = FALSE /\ u.symbol # "fp8_einsum"
               /\ u.symbol = "" => captured /\ OffsetKey(rows, l, "a") \notin set
BY DEF Mxfp8Launch, Launch, Refusal

LEMMA TrellisLaunchIs ==
    ASSUME NEW host, NEW l, NEW kept1
    PROVE  LET u == TrellisLaunch(host, l, kept1)
           IN  u.writes = "none" /\ u.declined = FALSE
BY DEF TrellisLaunch, Launch, Refusal

\* The record of a call, from its launch.
TrueRecord(launch, returned, rows, covered, entry) ==
    /\ returned /\ covered =>
        entry = [symbol |-> launch.symbol, contract |-> launch.contract, state |-> "served", rows |-> rows]
    /\ ~returned /\ (launch.writes = "twice" \/ launch.declined) => entry.state # "served"

LEMMA RecordedIs ==
    ASSUME NEW old, NEW launch, NEW returned \in BOOLEAN, NEW rows, NEW covered, Records(launch, covered),
           launch.symbol = "" => ~returned
    PROVE  TrueRecord(launch, returned, rows, covered, Recorded(old, launch, returned, rows))
<1>1. CASE launch.writes = "none"
  <2>1. ~(returned /\ covered)
    BY <1>1 DEF Records
  <2>2. launch.declined => Recorded(old, launch, returned, rows).state = "fallback"
    BY <1>1 DEF Recorded
  <2> QED BY <1>1, <2>1, <2>2 DEF TrueRecord
<1>2. CASE launch.writes # "none" /\ returned
  <2>1. Recorded(old, launch, returned, rows)
          = [symbol |-> launch.symbol, contract |-> launch.contract, state |-> "served", rows |-> rows]
    BY <1>2 DEF Recorded
  <2> QED BY <1>2, <2>1 DEF TrueRecord
<1>3. CASE launch.writes = "twice" /\ ~returned
  <2>1. Recorded(old, launch, returned, rows).state = "error"
    BY <1>3 DEF Recorded
  <2> QED BY <1>3, <2>1 DEF TrueRecord
<1>4. CASE launch.writes = "after" /\ ~returned
  <2>1. launch.declined => Recorded(old, launch, returned, rows).state = "fallback"
    BY <1>4 DEF Recorded
  <2> QED BY <1>4, <2>1 DEF TrueRecord
<1> QED BY <1>1, <1>2, <1>3, <1>4 DEF Records

------------------------------------------------------------------------------
(* What load settles: the invariant behind every property of a call.        *)

Machine == scenario.host
Latched(flags) == \A f \in flags : pinned[f] \in DOMAIN Spellings[f]
AsksV2(l, flags) == l.grid = "fp4" /\ l.v2 /\ WantsV2(Selected(flags, "CB_GEMV"), l)

\* A layer whose load returned: the flags it read are pinned, and what it
\* keeps is what those spellings and its machine say, for good.
SettledLinear(i, l) ==
    /\ Latched(LinearFlags(l)) /\ WidthsAgree(l)
    /\ LinearLoads(Machine, l, Form(l), pinned)
    /\ kept[i] = LinearKept(Machine, l, Form(l), pinned)
SettledMoE(i, l) ==
    /\ Latched(MoEFlags(l))
    /\ MoELoads(Machine, l, pinned, 0)
    /\ \E v2 \in BOOLEAN :
        /\ kept[i] = MoEKept(Machine, l, pinned, v2)
        /\ AsksV2(l, pinned) /\ v2 => v2ok[l.dev] = TRUE
SettledWrap(i, l) ==
    /\ kept[i] = [marked |-> l.groups > 0]
    /\ l.groups > 0 => Wrappable(Machine) \subseteq wrapped
SettledSource8(i, l) == SettledWrap(i, l) /\ Source8Loads(Machine, l)
SettledMxfp8(i, l) ==
    /\ SettledWrap(i, l) /\ Mxfp8Loads(Machine, l)
    /\ scenario.told => WarmedBy(l, scenario.captures) \subseteq offsets
SettledTrellis(i, l) ==
    /\ TrellisConstructs(l, TRUE, built[i]) /\ TrellisLoads(Machine, l)
    /\ kept[i] = TrellisKept(l, built[i])
Settled(i, l) ==
    \/ l.kind = "dense"   /\ SettledLinear(i, l)
    \/ l.kind = "moe"     /\ SettledMoE(i, l)
    \/ l.kind = "source8" /\ SettledSource8(i, l)
    \/ l.kind = "mxfp8"   /\ SettledMxfp8(i, l)
    \/ l.kind = "trellis" /\ SettledTrellis(i, l)

TypeInv ==
    /\ scenario \in Scenarios
    /\ phase \in {"constructing", "loading", "serving", "refused"}
    /\ next \in Nat /\ (phase \in {"constructing", "loading"} => next \in DOMAIN Layers)
    /\ built = [i \in DOMAIN Layers |-> built[i]] /\ kept = [i \in DOMAIN Layers |-> kept[i]]
    /\ route = [i \in DOMAIN Layers |-> route[i]] /\ ran = [i \in DOMAIN Layers |-> ran[i]]
    /\ v2ok \in [Devices -> BOOLEAN \cup {Absent}]
    /\ \A f \in Flags : pinned[f] = Absent \/ pinned[f] \in DOMAIN Spellings[f]

\* A cached verdict that a device runs the second GEMV was attested there.
VerdictInv == \A d \in Devices : v2ok[d] = TRUE => Prepares(Machine, "v2", d)

\* A trellis that was constructed kept a mode it accepts.
BuiltInv ==
    \A i \in DOMAIN Layers :
        /\ Layers[i].kind = "trellis"
        /\ phase \in {"loading", "serving"} \/ (phase = "constructing" /\ i < next)
        => TrellisConstructs(Layers[i], TRUE, built[i])

\* Layers are loaded in turn, and the server starts when all are.
Loadable(i) == phase = "serving" \/ (phase = "loading" /\ i < next)
LoadInv ==
    \A i \in DOMAIN Layers :
        \/ Settled(i, Layers[i]) /\ (Loadable(i) \/ phase = "refused")
        \/ kept[i] = Absent /\ ~Loadable(i)

\* What the last call of a layer was: the launch the kept lanes give it, and a
\* record written from that launch.  The offsets a call found are those its
\* load had warmed, or more.
LaunchAs(l, form, entry) ==
    \/ l.kind = "dense" /\ \E half \in BOOLEAN :
           entry.launch \in {LinearLaunch(Machine, l, form, entry.rows, half), Refusal(FALSE)}
    \/ l.kind = "moe" /\ \E dtype : entry.launch = MoELaunch(Machine, l, form, entry.rows, dtype)
    \/ l.kind = "source8" /\ \E dtype : entry.launch = Source8Launch(entry.rows, dtype)
    \/ l.kind = "mxfp8" /\ \E set :
           /\ scenario.told => WarmedBy(l, scenario.captures) \subseteq set
           /\ entry.captured => entry.rows \in scenario.captures
           /\ entry.launch = Mxfp8Launch(l, set, entry.rows, entry.captured)
    \/ l.kind = "trellis" /\ entry.launch = TrellisLaunch(Machine, l, form)
Served(i) ==
    /\ phase = "serving"
    /\ ran[i].rows \in Nat /\ ran[i].returned \in BOOLEAN
    /\ LaunchAs(Layers[i], kept[i], ran[i])
    /\ ran[i].launch.symbol = "" => ~ran[i].returned
    /\ \E old : route[i] = Recorded(old, ran[i].launch, ran[i].returned, ran[i].rows)
CallInv == \A i \in DOMAIN Layers : ran[i] = Absent \/ Served(i)

DispatchInv == TypeInv /\ VerdictInv /\ BuiltInv /\ LoadInv /\ CallInv

LEMMA LayerFacts ==
    ASSUME TypeInv
    PROVE  /\ DOMAIN Layers = 1..Len(Layers) /\ Len(Layers) \in Nat \ {0}
           /\ \A i \in DOMAIN Layers : i \in Nat /\ LayerOk(Machine, Layers[i]) /\ Layers[i].dev \in Devices
           /\ \A call \in scenario.calls : call[1] \in Nat
<1>1. DOMAIN Layers = 1..Len(Layers) /\ Len(Layers) \in Nat \ {0}
  BY LanesAssumption DEF TypeInv, Layers
<1>2. ASSUME NEW i \in DOMAIN Layers
      PROVE  i \in Nat /\ LayerOk(Machine, Layers[i]) /\ Layers[i].dev \in Devices
  <2>1. LayerOk(Machine, Layers[i])
    BY LanesAssumption DEF TypeInv, Layers, Machine
  <2> QED BY <1>1, <2>1 DEF LayerOk, Devices, Machine
<1>3. \A call \in scenario.calls : call[1] \in Nat
  BY LanesAssumption DEF TypeInv
<1> QED BY <1>1, <1>2, <1>3

LEMMA FlagNames ==
    ASSUME NEW l
    PROVE  LinearFlags(l) \subseteq Flags /\ MoEFlags(l) \subseteq Flags
<1>1. Flags = {"FUSED_FP4", "FUSED_FP4_MOE", "FP4_FUSED_MIDM", "BF16_SM120", "MOE_PERSISTENT_B_D2R",
               "MXFP8_DENSE", "TRELLIS_E2M1", "TRELLIS_E4M3", "FUSED_MIDM", "MOE_PERSISTENT_B",
               "FP8_GEMV_V2", "CB_GEMV"}
  BY DEF Flags, Spellings
<1> QED BY <1>1 DEF LinearFlags, MoEFlags

\* A layer reads its own flags and no others.
LEMMA SameLinear ==
    ASSUME NEW host, NEW l, l.grid \in {"fp4", "fp8"}, NEW form, NEW a, NEW b,
           \A f \in LinearFlags(l) : a[f] = b[f]
    PROVE  /\ LinearLoads(host, l, form, a) <=> LinearLoads(host, l, form, b)
           /\ LinearKept(host, l, form, a) = LinearKept(host, l, form, b)
<1>1. /\ Selected(a, "FUSED_FP4") = Selected(b, "FUSED_FP4")
      /\ Selected(a, "FP4_FUSED_MIDM") = Selected(b, "FP4_FUSED_MIDM")
      /\ Selected(a, "BF16_SM120") = Selected(b, "BF16_SM120")
      /\ l.grid = "fp8" => Selected(a, "FUSED_MIDM") = Selected(b, "FUSED_MIDM")
  BY DEF LinearFlags, Selected
<1>2. LinearLoads(host, l, form, a) <=> LinearLoads(host, l, form, b)
  BY <1>1 DEF LinearLoads
<1>3. LinearKept(host, l, form, a) = LinearKept(host, l, form, b)
  BY <1>1 DEF LinearKept
<1> QED BY <1>2, <1>3

LEMMA SameMoE ==
    ASSUME NEW host, NEW l, NEW a, NEW b, NEW v2, \A f \in MoEFlags(l) : a[f] = b[f]
    PROVE  /\ MoELoads(host, l, a, 0) <=> MoELoads(host, l, b, 0)
           /\ MoEKept(host, l, a, v2) = MoEKept(host, l, b, v2)
           /\ AsksV2(l, a) <=> AsksV2(l, b)
<1>1. /\ Selected(a, "FP8_GEMV_V2") = Selected(b, "FP8_GEMV_V2")
      /\ Selected(a, "BF16_SM120") = Selected(b, "BF16_SM120")
      /\ Selected(a, "MOE_PERSISTENT_B") = Selected(b, "MOE_PERSISTENT_B")
      /\ Selected(a, "MOE_PERSISTENT_B_D2R") = Selected(b, "MOE_PERSISTENT_B_D2R")
      /\ Selected(a, "FUSED_FP4_MOE") = Selected(b, "FUSED_FP4_MOE")
      /\ l.grid = "fp4" /\ l.v2 => Selected(a, "CB_GEMV") = Selected(b, "CB_GEMV")
  BY DEF MoEFlags, Selected
<1>2. MoELoads(host, l, a, 0) <=> MoELoads(host, l, b, 0)
  BY <1>1 DEF MoELoads, MoESound
<1>3. AsksV2(l, a) <=> AsksV2(l, b)
  BY <1>1 DEF AsksV2
<1>4. MoEKept(host, l, a, v2) = MoEKept(host, l, b, v2)
  <2>1. (l.grid = "fp4" /\ l.v2 /\ WantsV2(Selected(a, "CB_GEMV"), l))
          <=> (l.grid = "fp4" /\ l.v2 /\ WantsV2(Selected(b, "CB_GEMV"), l))
    BY <1>1
  <2> QED BY <1>1, <2>1 DEF MoEKept
<1> QED BY <1>2, <1>3, <1>4

\* The tile an operator asks for decides whether a stack loads, and nothing
\* that is kept.
LEMMA CfgFree ==
    ASSUME NEW host, NEW l, NEW flags, NEW cfg, MoELoads(host, l, flags, cfg)
    PROVE  MoELoads(host, l, flags, 0)
BY DEF MoELoads, MoEResolves, PbResolves, CfgResolves

\* A flag is latched by its first reader, and every later reader found it so.
LEMMA PinKeeps ==
    ASSUME TypeInv, NEW flags \in SUBSET Flags, AllReadable(flags)
    PROVE  LET p == Pin(env, pinned, flags)
           IN  /\ \A f \in flags : p[f] = env[f] /\ p[f] \in DOMAIN Spellings[f]
               /\ \A f \in Flags : pinned[f] \in DOMAIN Spellings[f] => p[f] = pinned[f]
               /\ \A f \in Flags : p[f] = Absent \/ p[f] \in DOMAIN Spellings[f]
<1> DEFINE p == Pin(env, pinned, flags)
<1> SUFFICES /\ \A f \in flags : p[f] = env[f] /\ p[f] \in DOMAIN Spellings[f]
             /\ \A f \in Flags : pinned[f] \in DOMAIN Spellings[f] => p[f] = pinned[f]
             /\ \A f \in Flags : p[f] = Absent \/ p[f] \in DOMAIN Spellings[f]
  OBVIOUS
<1>1. \A f \in Flags : p[f] = IF f \in flags THEN env[f] ELSE pinned[f]
  BY DEF Pin
<1>2. \A f \in flags : env[f] \in DOMAIN Spellings[f] /\ pinned[f] \in {Absent, env[f]}
  BY DEF AllReadable, Readable
<1>3. \A f \in Flags : Absent \notin DOMAIN Spellings[f]
  BY AbsentAssumption
<1>4. \A f \in Flags : pinned[f] = Absent \/ pinned[f] \in DOMAIN Spellings[f]
  BY DEF TypeInv
<1> HIDE DEF p
<1> QED BY <1>1, <1>2, <1>3, <1>4

\* What may change around a loaded layer without unsettling it.
Steady(i) ==
    /\ scenario' = scenario /\ built'[i] = built[i] /\ kept'[i] = kept[i]
    /\ \A f \in Flags : pinned[f] \in DOMAIN Spellings[f] => pinned'[f] = pinned[f]
    /\ \A d \in Devices : v2ok[d] = TRUE => v2ok'[d] = TRUE
    /\ offsets \subseteq offsets' /\ wrapped \subseteq wrapped'

LEMMA SettledStays ==
    ASSUME TypeInv, NEW i \in DOMAIN Layers, Settled(i, Layers[i]), Steady(i)
    PROVE  Settled(i, Layers[i])'
<1> DEFINE l == Layers[i]
<1>1. l' = l /\ Machine' = Machine /\ scenario' = scenario
  BY DEF Steady, Layers, Machine
<1>2. LayerOk(Machine, l) /\ l.dev \in Devices
  BY LayerFacts
<1>3. CASE l.kind = "dense" /\ SettledLinear(i, l)
  <2>1. l.grid \in {"fp4", "fp8"}
    BY <1>2, <1>3 DEF LayerOk
  <2>2. \A f \in LinearFlags(l) : pinned'[f] = pinned[f] /\ pinned'[f] \in DOMAIN Spellings[f]
    BY <1>3, FlagNames DEF Steady, SettledLinear, Latched
  <2>3. /\ LinearLoads(Machine, l, Form(l), pinned')
        /\ kept'[i] = LinearKept(Machine, l, Form(l), pinned')
    <3>1. /\ LinearLoads(Machine, l, Form(l), pinned) /\ kept[i] = LinearKept(Machine, l, Form(l), pinned)
          /\ kept'[i] = kept[i]
      BY <1>3 DEF SettledLinear, Steady
    <3>2. \A f \in LinearFlags(l) : pinned[f] = pinned'[f]
      BY <2>2
    <3> HIDE DEF l
    <3> QED BY <2>1, <3>1, <3>2, SameLinear
  <2> HIDE DEF l
  <2>4. SettledLinear(i, l)'
    BY <1>1, <1>3, <2>2, <2>3 DEF SettledLinear, Latched
  <2> USE DEF l
  <2> QED BY <1>1, <1>3, <2>4 DEF Settled
<1>4. CASE l.kind = "moe" /\ SettledMoE(i, l)
  <2>1. \A f \in MoEFlags(l) : pinned'[f] = pinned[f] /\ pinned'[f] \in DOMAIN Spellings[f]
    BY <1>4, FlagNames DEF Steady, SettledMoE, Latched
  <2>2. PICK v2 \in BOOLEAN : kept[i] = MoEKept(Machine, l, pinned, v2) /\ (AsksV2(l, pinned) /\ v2 => v2ok[l.dev] = TRUE)
    BY <1>4 DEF SettledMoE
  <2>3. /\ MoELoads(Machine, l, pinned', 0) /\ kept'[i] = MoEKept(Machine, l, pinned', v2)
        /\ AsksV2(l, pinned') => AsksV2(l, pinned)
    <3>1. MoELoads(Machine, l, pinned, 0) /\ kept'[i] = kept[i]
      BY <1>4 DEF SettledMoE, Steady
    <3>2. \A f \in MoEFlags(l) : pinned[f] = pinned'[f]
      BY <2>1
    <3> HIDE DEF l
    <3> QED BY <2>2, <3>1, <3>2, SameMoE
  <2>4. AsksV2(l, pinned') /\ v2 => v2ok'[l.dev] = TRUE
    BY <1>2, <2>2, <2>3 DEF Steady
  <2>5. Latched(MoEFlags(l))' /\ AsksV2(l, pinned)' = AsksV2(l, pinned')
    BY <1>1, <2>1 DEF Latched, AsksV2
  <2> HIDE DEF l
  <2>6. SettledMoE(i, l)'
    BY <1>1, <2>3, <2>4, <2>5 DEF SettledMoE
  <2> USE DEF l
  <2> QED BY <1>1, <1>4, <2>6 DEF Settled
<1>5. ASSUME SettledWrap(i, l) PROVE SettledWrap(i, l)'
  BY <1>1, <1>5 DEF SettledWrap, Steady
<1>6. CASE l.kind = "source8" /\ SettledSource8(i, l)
  <2>1. SettledSource8(i, l)'
    BY <1>1, <1>5, <1>6 DEF SettledSource8
  <2> QED BY <1>1, <1>6, <2>1 DEF Settled
<1>7. CASE l.kind = "mxfp8" /\ SettledMxfp8(i, l)
  <2>1. SettledMxfp8(i, l)'
    BY <1>1, <1>5, <1>7 DEF SettledMxfp8, Steady
  <2> QED BY <1>1, <1>7, <2>1 DEF Settled
<1>8. CASE l.kind = "trellis" /\ SettledTrellis(i, l)
  <2>1. SettledTrellis(i, l)'
    BY <1>1, <1>8 DEF SettledTrellis, Steady
  <2> QED BY <1>1, <1>8, <2>1 DEF Settled
<1> QED BY <1>3, <1>4, <1>6, <1>7, <1>8 DEF Settled

------------------------------------------------------------------------------
(* One lemma per step.                                                      *)

LEMMA InitHolds == Init => DispatchInv
<1> SUFFICES ASSUME Init PROVE DispatchInv
  OBVIOUS
<1>1. TypeInv
  BY LanesAssumption DEF Init, TypeInv, Layers, Devices, Flags
<1>2. VerdictInv
  BY AbsentAssumption DEF Init, VerdictInv
<1>3. BuiltInv
  <2>1. next = 1 /\ phase = "constructing" /\ \A i \in DOMAIN Layers : ~(i < next)
    BY <1>1, LayerFacts DEF Init
  <2> QED BY <2>1 DEF BuiltInv
<1>4. LoadInv /\ CallInv
  BY DEF Init, LoadInv, Loadable, CallInv
<1> QED BY <1>1, <1>2, <1>3, <1>4 DEF DispatchInv

\* What a call left depends on its own layer alone.
LEMMA ServedStays ==
    ASSUME NEW i, Served(i), scenario' = scenario, phase' = phase,
           kept'[i] = kept[i], ran'[i] = ran[i], route'[i] = route[i]
    PROVE  Served(i)'
<1>1. Layers' = Layers /\ Machine' = Machine
  BY DEF Layers, Machine
<1>2. LaunchAs(Layers[i], kept[i], ran[i])'
  BY <1>1 DEF Served, LaunchAs
<1> QED BY <1>2 DEF Served

\* The environment is no part of what was settled: only the latches are.
LEMMA Untouched ==
    ASSUME DispatchInv, UNCHANGED <<scenario, pinned, phase, next, built, kept, processVars, servedVars>>
    PROVE  DispatchInv'
<1>1. TypeInv' /\ VerdictInv' /\ BuiltInv'
  BY DEF DispatchInv, TypeInv, VerdictInv, BuiltInv, Layers, Devices, Machine, processVars, servedVars
<1>2. LoadInv'
  <2>1. \A i \in DOMAIN Layers : Steady(i)
    BY DEF Steady, processVars
  <2>2. \A i \in DOMAIN Layers : Settled(i, Layers[i]) => Settled(i, Layers[i])'
    BY <2>1, SettledStays DEF DispatchInv
  <2>3. Layers' = Layers /\ \A i \in DOMAIN Layers : Loadable(i)' = Loadable(i) /\ kept'[i] = kept[i]
    BY DEF Layers, Loadable
  <2> QED BY <2>2, <2>3 DEF DispatchInv, LoadInv
<1>3. CallInv'
  BY ServedStays DEF DispatchInv, CallInv, Layers, servedVars
<1> QED BY <1>1, <1>2, <1>3 DEF DispatchInv

LEMMA FlagSet == DispatchInv /\ SetFlag => DispatchInv'
BY Untouched DEF SetFlag

LEMMA Stuttered == DispatchInv /\ UNCHANGED vars => DispatchInv'
BY Untouched DEF vars

\* Nothing was called before the server started.
LEMMA Quiet ==
    ASSUME DispatchInv, phase # "serving"
    PROVE  \A i \in DOMAIN Layers : ran[i] = Absent
BY DEF DispatchInv, CallInv, Served

LEMMA Refused ==
    ASSUME DispatchInv, Refuse, phase # "serving"
    PROVE  DispatchInv'
<1>1. TypeInv' /\ VerdictInv' /\ BuiltInv'
  BY DEF Refuse, DispatchInv, TypeInv, VerdictInv, BuiltInv, Layers, Devices, Machine, processVars, servedVars
<1>2. LoadInv'
  <2>1. \A i \in DOMAIN Layers : Steady(i)
    BY DEF Refuse, Steady, processVars
  <2>2. \A i \in DOMAIN Layers : Settled(i, Layers[i]) => Settled(i, Layers[i])'
    BY <2>1, SettledStays DEF DispatchInv
  <2>3. Layers' = Layers /\ phase' = "refused" /\ \A i \in DOMAIN Layers : ~Loadable(i)' /\ kept'[i] = kept[i]
    BY DEF Refuse, Layers, Loadable
  <2> QED BY <2>2, <2>3 DEF DispatchInv, LoadInv
<1>3. CallInv'
  <2>1. Layers' = Layers /\ ran' = ran
    BY DEF Refuse, Layers, servedVars
  <2> QED BY <2>1, Quiet DEF CallInv
<1> QED BY <1>1, <1>2, <1>3 DEF DispatchInv

\* A layer that is constructed pins its opt-in and keeps its mode.
LEMMA Constructed ==
    ASSUME DispatchInv, Construct
    PROVE  DispatchInv'
<1> DEFINE l == Layers[next]
<1>1. phase = "constructing" /\ next \in DOMAIN Layers /\ next \in Nat /\ next \in 1..Len(Layers)
  BY LayerFacts DEF Construct, DispatchInv, TypeInv
<1>2. CASE Refuse
  BY <1>1, <1>2, Refused
<1>3. CASE /\ AllReadable(FlagsBuilt(l)) /\ Builds(l)
           /\ built' = [built EXCEPT ![next] =
                    IF l.kind = "trellis" THEN env[ModeVar(l.scheme.family)] ELSE Absent]
           /\ pinned' = Pin(env, pinned, FlagsBuilt(l))
           /\ next' = IF next = Len(Layers) THEN 1 ELSE next + 1
           /\ phase' = IF next = Len(Layers) THEN "loading" ELSE "constructing"
           /\ UNCHANGED <<scenario, env, kept, processVars, servedVars, flips>>
  <2>1. FlagsBuilt(l) \in SUBSET Flags
    <3>1. "MXFP8_DENSE" \in Flags /\ TrellisFlag(l) \in Flags
      BY DEF TrellisFlag, Flags, Spellings
    <3>2. FlagsBuilt(l) \in {{"MXFP8_DENSE"}, {TrellisFlag(l)}, {}}
      BY DEF FlagsBuilt
    <3> QED BY <3>1, <3>2
  <2>2. \A f \in Flags : pinned'[f] = Absent \/ pinned'[f] \in DOMAIN Spellings[f]
    BY <1>3, <2>1, PinKeeps DEF DispatchInv
  <2>3. Layers' = Layers /\ Devices' = Devices /\ Machine' = Machine
    BY <1>3 DEF Layers, Devices, Machine
  <2>4. next' \in DOMAIN Layers /\ next' \in Nat
    BY <1>1, <1>3, LayerFacts DEF DispatchInv
  <2>5. TypeInv'
    BY <1>3, <2>2, <2>3, <2>4 DEF DispatchInv, TypeInv, processVars, servedVars
  <2>6. VerdictInv' /\ CallInv'
    BY <1>1, <1>3, <2>3, Quiet DEF DispatchInv, VerdictInv, CallInv, processVars, servedVars
  <2>7. BuiltInv'
    <3> SUFFICES ASSUME NEW i \in DOMAIN Layers, Layers[i].kind = "trellis",
                        phase' \in {"loading", "serving"} \/ (phase' = "constructing" /\ i < next')
                 PROVE  TrellisConstructs(Layers[i], TRUE, built'[i])
      BY <2>3 DEF BuiltInv
    <3>1. i <= next /\ i \in Nat
      BY <1>1, <1>3, LayerFacts DEF DispatchInv
    <3>2. CASE i = next
      <4>1. built'[i] = env[ModeVar(l.scheme.family)]
        BY <1>1, <1>3, <3>2 DEF DispatchInv, TypeInv
      <4>2. TrellisConstructs(l, OptedIn(l), env[ModeVar(l.scheme.family)])
        BY <1>3, <3>2 DEF Builds
      <4>3. TrellisConstructs(l, TRUE, env[ModeVar(l.scheme.family)])
        BY <4>2 DEF TrellisConstructs
      <4> QED BY <3>2, <4>1, <4>3
    <3>3. CASE i # next
      <4>1. i < next
        BY <1>1, <3>1, <3>3
      <4>2. built'[i] = built[i]
        BY <1>3, <3>3 DEF DispatchInv, TypeInv
      <4> QED BY <1>1, <4>1, <4>2 DEF DispatchInv, BuiltInv
    <3> QED BY <3>2, <3>3
  <2>8. LoadInv'
    <3>1. \A i \in DOMAIN Layers : kept[i] = Absent
      BY <1>1 DEF DispatchInv, LoadInv, Loadable
    <3>2. \A i \in DOMAIN Layers : ~Loadable(i)'
      BY <1>1, <1>3, <2>3, LayerFacts DEF Loadable, DispatchInv
    <3> QED BY <1>3, <2>3, <3>1, <3>2 DEF LoadInv
  <2> QED BY <2>5, <2>6, <2>7, <2>8 DEF DispatchInv
<1> QED BY <1>1, <1>2, <1>3 DEF Construct

\* A load that returns settles its layer and leaves every other as it was.
LEMMA KeptOne ==
    ASSUME DispatchInv, phase = "loading", NEW form, NEW j, j = next, Keep(j, form), AllReadable(FlagsRead(Layers[next])),
           v2ok' \in [Devices -> BOOLEAN \cup {Absent}], VerdictInv',
           \A d \in Devices : v2ok[d] = TRUE => v2ok'[d] = TRUE,
           offsets \subseteq offsets', wrapped \subseteq wrapped',
           Settled(j, Layers[j])'
    PROVE  DispatchInv'
<1>1. next \in DOMAIN Layers /\ DOMAIN Layers = 1..Len(Layers) /\ Len(Layers) \in Nat
  BY LayerFacts DEF DispatchInv, TypeInv
<1>2. Layers' = Layers /\ Devices' = Devices /\ Machine' = Machine
  BY DEF Keep, Layers, Devices, Machine
<1>3. FlagsRead(Layers[next]) \in SUBSET Flags
  BY FlagNames DEF FlagsRead
<1>4. /\ \A f \in Flags : pinned'[f] = Absent \/ pinned'[f] \in DOMAIN Spellings[f]
      /\ \A f \in Flags : pinned[f] \in DOMAIN Spellings[f] => pinned'[f] = pinned[f]
  BY <1>3, PinKeeps DEF DispatchInv, Keep
<1>5. next' = next + 1 /\ phase' = IF next = Len(Layers) THEN "serving" ELSE "loading"
  BY DEF Keep
<1>6. TypeInv'
  <2>1. next' \in Nat /\ (phase' = "loading" => next' \in DOMAIN Layers)
    BY <1>1, <1>5
  <2> QED BY <1>2, <1>4, <1>5, <2>1 DEF Keep, DispatchInv, TypeInv, servedVars
<1>7. BuiltInv'
  BY <1>2, <1>5 DEF DispatchInv, BuiltInv, Keep
<1>8. LoadInv'
  <2> SUFFICES ASSUME NEW i \in DOMAIN Layers
               PROVE  \/ Settled(i, Layers[i])' /\ (Loadable(i)' \/ phase' = "refused")
                      \/ kept'[i] = Absent /\ ~Loadable(i)'
    BY <1>2 DEF LoadInv
  <2>1. CASE i = next
    BY <1>1, <1>5, <2>1 DEF Loadable
  <2>2. CASE i < next
    <3>1. Settled(i, Layers[i])
      BY <2>2 DEF DispatchInv, LoadInv, Loadable
    <3>2. built'[i] = built[i] /\ kept'[i] = kept[i]
      BY <1>1, <2>2 DEF Keep, DispatchInv, TypeInv
    <3>3. Steady(i)
      BY <1>4, <3>2 DEF Steady, Keep
    <3>4. Settled(i, Layers[i])'
      BY <3>1, <3>3, SettledStays DEF DispatchInv
    <3>5. Loadable(i)'
      BY <1>1, <1>5, <2>2 DEF Loadable
    <3> QED BY <3>4, <3>5
  <2>3. CASE i > next
    <3>1. kept[i] = Absent
      BY <1>1, <2>3 DEF DispatchInv, LoadInv, Loadable
    <3>2. kept'[i] = kept[i]
      BY <1>1, <2>3 DEF Keep, DispatchInv, TypeInv
    <3>3. ~Loadable(i)'
      BY <1>1, <1>5, <2>3 DEF Loadable
    <3> QED BY <3>1, <3>2, <3>3
  <2> QED BY <1>1, <2>1, <2>2, <2>3
<1>9. CallInv'
  BY <1>2, Quiet DEF CallInv, Keep, servedVars
<1> QED BY <1>6, <1>7, <1>8, <1>9 DEF DispatchInv

LEMMA LinearLoaded ==
    ASSUME DispatchInv, phase = "loading", NEW l, l = Layers[next], l.kind = "dense", NEW j, j = next,
           LoadLinear(j, l)
    PROVE  DispatchInv'
<1> DEFINE form == Form(l)
<1>1. next \in DOMAIN Layers /\ LayerOk(Machine, l)
  BY LayerFacts DEF DispatchInv, TypeInv
<1>2. CASE Refuse
  BY <1>2, Refused
<1>3. CASE /\ WidthsAgree(l) /\ AllReadable(FlagsRead(l)) /\ LinearLoads(Machine, l, form, env)
           /\ Keep(j, LinearKept(Machine, l, form, env)) /\ UNCHANGED processVars
  <2>1. l.grid \in {"fp4", "fp8"} /\ FlagsRead(l) = LinearFlags(l) /\ LinearFlags(l) \in SUBSET Flags
    BY <1>1, FlagNames DEF LayerOk, FlagsRead
  <2>2. /\ \A f \in LinearFlags(l) : pinned'[f] = env[f] /\ pinned'[f] \in DOMAIN Spellings[f]
        /\ Layers' = Layers /\ Machine' = Machine
    BY <1>3, <2>1, PinKeeps DEF Keep, DispatchInv, Layers, Machine
  <2>3. /\ LinearLoads(Machine, l, form, pinned')
        /\ LinearKept(Machine, l, form, env) = LinearKept(Machine, l, form, pinned')
    <3>1. \A f \in LinearFlags(l) : env[f] = pinned'[f]
      BY <2>2
    <3> HIDE DEF form
    <3> QED BY <1>3, <2>1, <3>1, SameLinear
  <2>4. kept'[j] = LinearKept(Machine, l, form, pinned')
    BY <1>1, <1>3, <2>3 DEF Keep, DispatchInv, TypeInv
  <2>5. Settled(j, Layers[j])'
    <3>1. SettledLinear(j, Layers[j])'
      BY <1>3, <2>2, <2>3, <2>4 DEF SettledLinear, Latched, Keep
    <3> QED BY <2>2, <3>1 DEF Settled, Keep
  <2>6. v2ok' = v2ok /\ offsets' = offsets /\ wrapped' = wrapped /\ Devices' = Devices
    BY <1>3 DEF processVars, Keep, Devices
  <2>7. VerdictInv' /\ v2ok' \in [Devices -> BOOLEAN \cup {Absent}]
    BY <2>2, <2>6 DEF VerdictInv, DispatchInv, TypeInv
  <2> HIDE DEF form
  <2> QED BY <1>3, <2>5, <2>6, <2>7, KeptOne
<1> QED BY <1>2, <1>3 DEF LoadLinear, Machine

\* A verdict that is cached, or was there before, is an attestation.
LEMMA MoELoaded ==
    ASSUME DispatchInv, phase = "loading", NEW l, l = Layers[next], l.kind = "moe", NEW j, j = next,
           LoadMoE(j, l)
    PROVE  DispatchInv'
<1>1. next \in DOMAIN Layers /\ LayerOk(Machine, l) /\ l.dev \in Devices
  BY LayerFacts DEF DispatchInv, TypeInv
<1>2. CASE Refuse
  BY <1>2, Refused
<1>3. CASE ~Refuse
  <2> DEFINE asks == AsksV2(l, env)
             probed == asks /\ Probes(Machine, v2ok, l.dev)
  <2>1. AllReadable(FlagsRead(l)) /\ MoELoads(Machine, l, env, env[Cfg])
    BY <1>3 DEF LoadMoE, Machine
  <2>2. PICK answer \in {V2Verdict(Machine, v2ok, l.dev)} \cup (IF probed THEN {FALSE} ELSE {}) :
            /\ v2ok' = IF probed THEN [v2ok EXCEPT ![l.dev] = answer] ELSE v2ok
            /\ Keep(j, MoEKept(Machine, l, env, answer))
            /\ UNCHANGED <<offsets, wrapped>>
    BY <1>3, <2>1 DEF LoadMoE, Machine, AsksV2
  <2>3. FlagsRead(l) = MoEFlags(l) /\ MoEFlags(l) \in SUBSET Flags
    BY FlagNames DEF FlagsRead
  <2>4. /\ \A f \in MoEFlags(l) : pinned'[f] = env[f] /\ pinned'[f] \in DOMAIN Spellings[f]
        /\ Layers' = Layers /\ Machine' = Machine /\ Devices' = Devices
    BY <2>1, <2>2, <2>3, PinKeeps DEF Keep, DispatchInv, Layers, Machine, Devices
  <2>5. /\ MoELoads(Machine, l, pinned', 0)
        /\ MoEKept(Machine, l, env, answer) = MoEKept(Machine, l, pinned', answer)
        /\ AsksV2(l, pinned') <=> AsksV2(l, env)
    <3>1. \A f \in MoEFlags(l) : env[f] = pinned'[f]
      BY <2>4
    <3> QED BY <2>1, <3>1, CfgFree, SameMoE
  <2>6. answer \in BOOLEAN /\ (answer /\ probed => Prepares(Machine, "v2", l.dev))
    <3>1. v2ok[l.dev] \in BOOLEAN \cup {Absent}
      BY <1>1 DEF DispatchInv, TypeInv
    <3>2. V2Verdict(Machine, v2ok, l.dev) \in BOOLEAN
      BY <3>1 DEF V2Verdict, Has, Loaded, Prepares
    <3>3. probed /\ V2Verdict(Machine, v2ok, l.dev) => Prepares(Machine, "v2", l.dev)
      BY <3>1 DEF V2Verdict, Probes
    <3> QED BY <2>2, <3>2, <3>3
  <2>7. v2ok' \in [Devices -> BOOLEAN \cup {Absent}]
    BY <1>1, <2>2, <2>6 DEF DispatchInv, TypeInv
  <2>8. VerdictInv' /\ \A d \in Devices : v2ok[d] = TRUE => v2ok'[d] = TRUE
    <3>1. CASE ~probed
      BY <2>2, <2>4, <3>1 DEF DispatchInv, VerdictInv
    <3>2. CASE probed
      <4>1. v2ok[l.dev] = Absent /\ Absent # TRUE
        BY <3>2, AbsentAssumption DEF Probes
      <4>2. \A d \in Devices : v2ok'[d] = IF d = l.dev THEN answer ELSE v2ok[d]
        BY <1>1, <2>2, <3>2 DEF DispatchInv, TypeInv
      <4> QED BY <2>4, <2>6, <3>2, <4>1, <4>2 DEF DispatchInv, VerdictInv
    <3> QED BY <3>1, <3>2
  <2>9. AsksV2(l, pinned') /\ answer => v2ok'[l.dev] = TRUE
    <3>1. CASE probed
      BY <1>1, <2>2, <2>6, <3>1 DEF DispatchInv, TypeInv
    <3>2. CASE asks /\ ~probed
      <4>1. answer = V2Verdict(Machine, v2ok, l.dev) /\ ~Probes(Machine, v2ok, l.dev)
        BY <2>2, <3>2
      <4>2. v2ok[l.dev] \in BOOLEAN \cup {Absent} /\ v2ok' = v2ok
        BY <1>1, <2>2, <3>2 DEF DispatchInv, TypeInv
      <4> QED BY <4>1, <4>2 DEF V2Verdict, Probes
    <3> QED BY <2>5, <3>1, <3>2
  <2>10. kept'[j] = MoEKept(Machine, l, pinned', answer)
    BY <1>1, <2>2, <2>5 DEF Keep, DispatchInv, TypeInv
  <2>11. Settled(j, Layers[j])'
    <3> HIDE DEF asks, probed
    <3>1. Latched(MoEFlags(l))' /\ (AsksV2(l, pinned)' <=> AsksV2(l, pinned'))
      BY <2>4 DEF Latched, AsksV2, Keep
    <3>2. l' = l
      BY <2>4, <2>2 DEF Keep
    <3>3. SettledMoE(j, l)'
      BY <2>4, <2>5, <2>6, <2>9, <2>10, <3>1 DEF SettledMoE
    <3> QED BY <2>4, <3>3 DEF Settled
  <2> HIDE DEF asks, probed
  <2> QED BY <2>1, <2>2, <2>7, <2>8, <2>11, KeptOne
<1> QED BY <1>2, <1>3

\* A layer of source bytes reads no flag any more; a grouped one wraps the
\* attention around it before it counts as loaded.
LEMMA Source8Loaded ==
    ASSUME DispatchInv, phase = "loading", NEW l, l = Layers[next], l.kind = "source8", NEW j, j = next,
           LoadSource8(j, l)
    PROVE  DispatchInv'
<1>1. j \in DOMAIN Layers
  BY DEF DispatchInv, TypeInv
<1>2. CASE Refuse
  BY <1>2, Refused
<1>3. CASE /\ Source8Loads(Machine, l) /\ Keep(j, [marked |-> l.groups > 0])
           /\ wrapped' = Wrapping(l) /\ UNCHANGED <<v2ok, offsets>>
  <2>1. Layers' = Layers /\ Machine' = Machine /\ Devices' = Devices
    BY <1>3 DEF Keep, Layers, Machine, Devices
  <2>2. kept'[j] = [marked |-> l.groups > 0]
    BY <1>1, <1>3 DEF Keep, DispatchInv, TypeInv
  <2>3. l.groups > 0 => Wrappable(Machine) \subseteq wrapped'
    BY <1>3 DEF Wrapping, Machine
  <2>4. Settled(j, Layers[j])'
    BY <1>3, <2>1, <2>2, <2>3 DEF Settled, SettledSource8, SettledWrap
  <2>5. AllReadable(FlagsRead(Layers[next])) /\ wrapped \subseteq wrapped'
    BY <1>3 DEF AllReadable, FlagsRead, Wrapping
  <2>6. VerdictInv' /\ v2ok' \in [Devices -> BOOLEAN \cup {Absent}]
    BY <1>3, <2>1 DEF VerdictInv, DispatchInv, TypeInv
  <2> QED BY <1>3, <2>4, <2>5, <2>6, KeptOne
<1> QED BY <1>2, <1>3 DEF LoadSource8, Machine

\* Load warms the offsets of every capture size it is told of.
LEMMA Mxfp8Loaded ==
    ASSUME DispatchInv, phase = "loading", NEW l, l = Layers[next], l.kind = "mxfp8", NEW j, j = next,
           LoadMxfp8(j, l)
    PROVE  DispatchInv'
<1>1. j \in DOMAIN Layers
  BY DEF DispatchInv, TypeInv
<1>2. CASE Refuse
  BY <1>2, Refused
<1>3. CASE /\ Mxfp8Loads(Machine, l) /\ Keep(j, [marked |-> l.groups > 0])
           /\ wrapped' = Wrapping(l)
           /\ offsets' = offsets \cup WarmedBy(l, IF scenario.told THEN scenario.captures ELSE {})
           /\ UNCHANGED v2ok
  <2>1. Layers' = Layers /\ Machine' = Machine /\ Devices' = Devices /\ scenario' = scenario
    BY <1>3 DEF Keep, Layers, Machine, Devices
  <2>2. kept'[j] = [marked |-> l.groups > 0]
    BY <1>1, <1>3 DEF Keep, DispatchInv, TypeInv
  <2>3. l.groups > 0 => Wrappable(Machine) \subseteq wrapped'
    BY <1>3 DEF Wrapping, Machine
  <2>4. scenario.told => WarmedBy(l, scenario.captures) \subseteq offsets'
    BY <1>3
  <2>5. Settled(j, Layers[j])'
    BY <1>3, <2>1, <2>2, <2>3, <2>4 DEF Settled, SettledMxfp8, SettledWrap
  <2>6. AllReadable(FlagsRead(Layers[next])) /\ wrapped \subseteq wrapped' /\ offsets \subseteq offsets'
    BY <1>3 DEF AllReadable, FlagsRead, Wrapping
  <2>7. VerdictInv' /\ v2ok' \in [Devices -> BOOLEAN \cup {Absent}]
    BY <1>3, <2>1 DEF VerdictInv, DispatchInv, TypeInv
  <2> QED BY <1>3, <2>5, <2>6, <2>7, KeptOne
<1> QED BY <1>2, <1>3 DEF LoadMxfp8, Machine

LEMMA TrellisLoaded ==
    ASSUME DispatchInv, phase = "loading", NEW l, l = Layers[next], l.kind = "trellis", NEW j, j = next,
           LoadTrellis(j, l)
    PROVE  DispatchInv'
<1>1. j \in DOMAIN Layers /\ TrellisConstructs(l, TRUE, built[j])
  BY DEF DispatchInv, TypeInv, BuiltInv
<1>2. CASE Refuse
  BY <1>2, Refused
<1>3. CASE TrellisLoads(Machine, l) /\ Keep(j, TrellisKept(l, built[j])) /\ UNCHANGED processVars
  <2>1. Layers' = Layers /\ Machine' = Machine /\ Devices' = Devices /\ built' = built
    BY <1>3 DEF Keep, Layers, Machine, Devices
  <2>2. kept'[j] = TrellisKept(l, built[j])
    BY <1>1, <1>3 DEF Keep, DispatchInv, TypeInv
  <2>3. Settled(j, Layers[j])'
    BY <1>1, <1>3, <2>1, <2>2 DEF Settled, SettledTrellis
  <2>4. AllReadable(FlagsRead(Layers[next]))
    BY DEF AllReadable, FlagsRead
  <2>5. v2ok' = v2ok /\ offsets' = offsets /\ wrapped' = wrapped
    BY <1>3 DEF processVars
  <2>6. VerdictInv' /\ v2ok' \in [Devices -> BOOLEAN \cup {Absent}]
    BY <2>1, <2>5 DEF VerdictInv, DispatchInv, TypeInv
  <2> QED BY <1>3, <2>3, <2>4, <2>5, <2>6, KeptOne
<1> QED BY <1>2, <1>3 DEF LoadTrellis, Machine

LEMMA LoadedAny == DispatchInv /\ Load => DispatchInv'
BY LinearLoaded, MoELoaded, Source8Loaded, Mxfp8Loaded, TrellisLoaded DEF Load

\* A grouped product always finds the attention around it wrapped.
LEMMA Projected ==
    ASSUME DispatchInv, phase = "serving", NEW i \in DOMAIN Layers
    PROVE  ~(Grouped(Layers[i]) /\ ProjectedBy(wrapped, Layers[i].class, kept[i].marked) = "vllm")
<1> DEFINE l == Layers[i]
<1> SUFFICES ASSUME Grouped(l) PROVE ProjectedBy(wrapped, l.class, kept[i].marked) # "vllm"
  OBVIOUS
<1>1. Settled(i, l) /\ LayerOk(Machine, l)
  BY LayerFacts DEF DispatchInv, LoadInv, Loadable
<1>2. l.kind \in {"source8", "mxfp8"} /\ l.groups > 0
  BY DEF Grouped
<1>3. SettledWrap(i, l) /\ Wrappable(Machine) # {}
  BY <1>1, <1>2 DEF Settled, SettledSource8, SettledMxfp8, Source8Loads, Mxfp8Loads
<1>4. kept[i].marked /\ Wrappable(Machine) \subseteq wrapped
  <2>1. (l.groups > 0) = TRUE
    BY <1>2
  <2>2. kept[i] = [marked |-> TRUE]
    BY <1>3, <2>1, Zenon DEF SettledWrap
  <2>3. Wrappable(Machine) \subseteq wrapped
    BY <1>2, <1>3, Zenon DEF SettledWrap
  <2> QED BY <2>2, <2>3
<1>5. l.groups # 0
  BY <1>2
<1>6. l.class \in Wrappable(Machine)
  BY <1>1, <1>2, <1>3, <1>5 DEF LayerOk
<1>7. l.class \in wrapped /\ kept[i].marked
  BY <1>4, <1>6
<1> HIDE DEF l
<1>8. ProjectedBy(wrapped, l.class, kept[i].marked) = "gridbook"
  BY <1>7 DEF ProjectedBy
<1> QED BY <1>8

\* What a call writes, for its arguments and its outcome.
Made(i, call, captured, launch, returned) ==
    /\ \A f \in Reread(Layers[i], call[1]) : Readable(env, pinned, f)
    /\ launch.symbol = "" => ~returned
    /\ route' = [route EXCEPT ![i] = Recorded(@, launch, returned, call[1])]
    /\ ran' = [ran EXCEPT ![i] =
            [launch |-> launch, rows |-> call[1], captured |-> captured, returned |-> returned]]
    /\ offsets' = IF launch.symbol = "mxfp8_dense_mm"
                  THEN offsets \cup {OffsetKey(call[1], Layers[i], "a")} ELSE offsets

LEMMA CalledOnce ==
    ASSUME DispatchInv, NEW i \in DOMAIN Layers, Call(i)
    PROVE  DispatchInv'
<1> DEFINE l == Layers[i]
<1>call. PICK call \in scenario.calls : \E captured \in Capturable(Layers[i], call[1]) :
            \E launch \in LaunchesOf(Layers[i], kept[i], call[1], call[2], captured) : \E returned \in BOOLEAN :
                Made(i, call, captured, launch, returned)
  BY Zenon DEF Call, Made
<1>captured. PICK captured \in Capturable(Layers[i], call[1]) :
            \E launch \in LaunchesOf(Layers[i], kept[i], call[1], call[2], captured) : \E returned \in BOOLEAN :
                Made(i, call, captured, launch, returned)
  BY <1>call
<1>launch. PICK launch \in LaunchesOf(Layers[i], kept[i], call[1], call[2], captured) :
            \E returned \in BOOLEAN : Made(i, call, captured, launch, returned)
  BY <1>captured
<1>returned. PICK returned \in BOOLEAN : Made(i, call, captured, launch, returned)
  BY <1>launch
<1>1. /\ launch \in LaunchesOf(l, kept[i], call[1], call[2], captured) /\ captured \in Capturable(l, call[1])
      /\ launch.symbol = "" => ~returned
      /\ route' = [route EXCEPT ![i] = Recorded(@, launch, returned, call[1])]
      /\ ran' = [ran EXCEPT ![i] =
              [launch |-> launch, rows |-> call[1], captured |-> captured, returned |-> returned]]
      /\ offsets' = IF launch.symbol = "mxfp8_dense_mm"
                    THEN offsets \cup {OffsetKey(call[1], l, "a")} ELSE offsets
  BY <1>returned DEF Made
<1>2. phase = "serving" /\ UNCHANGED <<scenario, pinned, phase, next, built, kept, v2ok, wrapped>>
  BY DEF Call
<1>3. Layers' = Layers /\ Machine' = Machine /\ Devices' = Devices
  BY <1>2 DEF Layers, Machine, Devices
<1>4. call[1] \in Nat
  BY LayerFacts DEF DispatchInv
<1>5. TypeInv' /\ VerdictInv' /\ BuiltInv'
  BY <1>1, <1>2, <1>3 DEF DispatchInv, TypeInv, VerdictInv, BuiltInv
<1>6. LoadInv'
  <2>1. \A j \in DOMAIN Layers : Steady(j)
    BY <1>1, <1>2 DEF Steady
  <2>2. \A j \in DOMAIN Layers : Settled(j, Layers[j]) => Settled(j, Layers[j])'
    BY <2>1, SettledStays DEF DispatchInv
  <2>3. \A j \in DOMAIN Layers : Loadable(j)' = Loadable(j) /\ kept'[j] = kept[j]
    BY <1>2 DEF Loadable
  <2> QED BY <1>2, <1>3, <2>2, <2>3 DEF DispatchInv, LoadInv
<1>7. CallInv'
  <2> SUFFICES ASSUME NEW j \in DOMAIN Layers PROVE ran'[j] = Absent \/ Served(j)'
    BY <1>3 DEF CallInv
  <2>1. CASE j # i
    <3>1. ran'[j] = ran[j] /\ route'[j] = route[j]
      BY <1>1, <2>1 DEF DispatchInv, TypeInv
    <3>2. ran[j] = Absent \/ Served(j)
      BY <1>3 DEF DispatchInv, CallInv
    <3> QED BY <1>2, <3>1, <3>2, ServedStays
  <2>2. CASE j = i
    <3>1. /\ ran'[i] = [launch |-> launch, rows |-> call[1], captured |-> captured, returned |-> returned]
          /\ route'[i] = Recorded(route[i], launch, returned, call[1])
      BY <1>1 DEF DispatchInv, TypeInv
    <3> DEFINE entry == [launch |-> launch, rows |-> call[1], captured |-> captured, returned |-> returned]
    <3>2. /\ entry.launch = launch /\ entry.rows = call[1] /\ entry.captured = captured
          /\ entry.returned = returned /\ ran'[i] = entry
      BY <3>1
    <3>3. LaunchAs(l, kept[i], entry)
      <4> DEFINE u == LaunchOf(l, kept[i], call[1], call[2], captured)
      <4>a. launch = u \/ (l.kind = "dense" /\ launch = Refusal(FALSE))
        BY <1>1 DEF LaunchesOf, Unannounced
      <4>b. u = CASE l.kind = "dense"   -> LinearLaunch(Machine, l, kept[i], call[1], call[2] # "fp32")
                  [] l.kind = "moe"     -> MoELaunch(Machine, l, kept[i], call[1], call[2])
                  [] l.kind = "source8" -> Source8Launch(call[1], call[2])
                  [] l.kind = "mxfp8"   -> Mxfp8Launch(l, offsets, call[1], captured)
                  [] l.kind = "trellis" -> TrellisLaunch(Machine, l, kept[i])
        BY <1>1, <1>2, Projected DEF LaunchOf, Machine
      <4>2. Settled(i, l)
        BY <1>2 DEF DispatchInv, LoadInv, Loadable
      <4>3. captured => call[1] \in scenario.captures
        BY DEF Capturable
      <4>4. (call[2] # "fp32") \in BOOLEAN
        OBVIOUS
      <4> HIDE DEF l, entry, u
      <4>5. l.kind = "dense" => LaunchAs(l, kept[i], entry)
        BY <3>2, <4>a, <4>b, <4>4 DEF LaunchAs
      <4>6. l.kind = "moe" => LaunchAs(l, kept[i], entry)
        BY <3>2, <4>a, <4>b DEF LaunchAs
      <4>7. l.kind = "source8" => LaunchAs(l, kept[i], entry)
        BY <3>2, <4>a, <4>b DEF LaunchAs
      <4>8. l.kind = "mxfp8" => LaunchAs(l, kept[i], entry)
        <5>1. l.kind = "mxfp8" => SettledMxfp8(i, l)
          BY <4>2 DEF Settled
        <5> QED BY <3>2, <4>a, <4>b, <4>3, <5>1 DEF LaunchAs, SettledMxfp8
      <4>9. l.kind = "trellis" => LaunchAs(l, kept[i], entry)
        BY <3>2, <4>a, <4>b DEF LaunchAs
      <4> QED BY <4>2, <4>5, <4>6, <4>7, <4>8, <4>9 DEF Settled
    <3> HIDE DEF entry
    <3> QED BY <1>1, <1>2, <1>3, <1>4, <2>2, <3>1, <3>2, <3>3 DEF Served, LaunchAs
  <2> QED BY <2>1, <2>2
<1> QED BY <1>5, <1>6, <1>7 DEF DispatchInv

LEMMA NextKeeps == DispatchInv /\ [Next]_vars => DispatchInv'
BY FlagSet, Constructed, LoadedAny, CalledOnce, Stuttered DEF Next

\* The inductive invariant.
THEOREM DispatchInvariant == Spec => []DispatchInv
BY InitHolds, NextKeeps, PTL DEF Spec

------------------------------------------------------------------------------
(* The properties.                                                          *)

\* The lanes load keeps, field by field.
LEMMA LinearKeptIs ==
    ASSUME NEW host, NEW l, NEW form, NEW flags
    PROVE  LET k == LinearKept(host, l, form, flags)
           IN  /\ k.form = form
               /\ k.sm120 <=> l.grid = "fp4" /\ Selected(flags, "BF16_SM120") = "on"
               /\ l.grid = "fp4" => k.mode = Selected(flags, "FUSED_FP4")
               /\ l.grid = "fp4" => (k.midm <=> Selected(flags, "FP4_FUSED_MIDM") = "on")
               /\ l.grid # "fp4" => (k.midm <=> Fp8Midm(host, l, Selected(flags, "FUSED_MIDM")))
BY DEF LinearKept

MoEMode(l, flags) == IF l.grid = "fp4" THEN Selected(flags, "FUSED_FP4_MOE") ELSE NoMode
LEMMA MoEKeptIs ==
    ASSUME NEW host, NEW l, NEW flags, NEW v2
    PROVE  LET k == MoEKept(host, l, flags, v2)
               pb == Selected(flags, "MOE_PERSISTENT_B")
               mode == MoEMode(l, flags)
           IN  /\ k.mode = mode
               /\ k.pb <=> PbEngages(host, l, pb, mode)
               /\ k.d2r <=> (PbEngages(host, l, pb, mode) /\ Selected(flags, "MOE_PERSISTENT_B_D2R") = "on")
               /\ k.sm120 <=> Selected(flags, "BF16_SM120") = "on"
               /\ l.grid = "fp4" /\ k.gemv # {} => AsksV2(l, flags) /\ v2
               /\ k.announced = Announced(l, PbEngages(host, l, pb, mode), pb, mode)
<1> DEFINE k == MoEKept(host, l, flags, v2)
<1>1. l.grid = "fp4" /\ k.gemv # {} => AsksV2(l, flags) /\ v2
  <2> SUFFICES ASSUME l.grid = "fp4", NEW s \in k.gemv PROVE AsksV2(l, flags) /\ v2
    OBVIOUS
  <2>1. k.gemv = {t \in Stacks : \/ /\ l.grid = "fp4" /\ l.v2 /\ WantsV2(Selected(flags, "CB_GEMV"), l)
                                    /\ TakesV2(v2, l, Features(l, t))
                                 \/ /\ l.grid = "fp8" /\ Selected(flags, "FP8_GEMV_V2") # "off"
                                    /\ OnCell(l, Features(l, t))}
    BY DEF MoEKept
  <2> HIDE DEF k
  <2> QED BY <2>1 DEF AsksV2, TakesV2
<1>2. k.announced = Announced(l, PbEngages(host, l, Selected(flags, "MOE_PERSISTENT_B"), MoEMode(l, flags)),
                              Selected(flags, "MOE_PERSISTENT_B"), MoEMode(l, flags))
  BY DEF MoEKept, MoEMode
<1>3. /\ k.mode = MoEMode(l, flags)
      /\ k.pb <=> PbEngages(host, l, Selected(flags, "MOE_PERSISTENT_B"), MoEMode(l, flags))
      /\ k.d2r <=> /\ PbEngages(host, l, Selected(flags, "MOE_PERSISTENT_B"), MoEMode(l, flags))
                   /\ Selected(flags, "MOE_PERSISTENT_B_D2R") = "on"
      /\ k.sm120 <=> Selected(flags, "BF16_SM120") = "on"
  BY DEF MoEKept, MoEMode
<1> HIDE DEF k
<1> QED BY <1>1, <1>2, <1>3 DEF k

LEMMA CallFacts ==
    ASSUME DispatchInv, NEW i \in Calls
    PROVE  /\ i \in DOMAIN Layers /\ Served(i) /\ Settled(i, Layers[i]) /\ LayerOk(Machine, Layers[i])
           /\ Layers[i].dev \in Devices
BY LayerFacts DEF Calls, DispatchInv, CallInv, LoadInv, Loadable, Served

\* Every launch writes its record in a way that its coverage is kept.
LEMMA LaunchRecords ==
    ASSUME DispatchInv, NEW i \in Calls
    PROVE  Records(ran[i].launch, Covered(Layers[i], ran[i].rows))
<1> DEFINE l == Layers[i]
           u == ran[i].launch
           rows == ran[i].rows
<1>1. Served(i) /\ Settled(i, l) /\ LayerOk(Machine, l)
  BY CallFacts
<1>2. rows \in Nat /\ LaunchAs(l, kept[i], ran[i])
  BY <1>1 DEF Served
<1>3. CASE l.kind = "dense"
  <2>1. SettledLinear(i, l) /\ l.grid \in {"fp4", "fp8"}
    BY <1>1, <1>3 DEF Settled, LayerOk
  <2>2. PICK half \in BOOLEAN : u \in {LinearLaunch(Machine, l, kept[i], rows, half), Refusal(FALSE)}
    BY <1>2, <1>3 DEF LaunchAs
  <2>3. Covered(l, rows) <=> (l.grid = "fp8" \/ rows > GemvMax)
    BY <1>3 DEF Covered
  <2> HIDE DEF l, u, rows
  <2>4. Records(u, l.grid = "fp8" \/ rows > GemvMax)
    <3>1. CASE u = LinearLaunch(Machine, l, kept[i], rows, half)
      BY <1>2, <2>1, <3>1, LinearLaunchIs DEF SettledLinear
    <3>2. CASE u = Refusal(FALSE)
      BY <3>2 DEF Records, Refusal, Launch
    <3> QED BY <2>2, <3>1, <3>2
  <2>5. Records(u, Covered(l, rows))
    BY <2>3, <2>4 DEF Records
  <2> USE DEF l, u, rows
  <2> QED BY <2>5
<1>4. CASE l.kind = "moe"
  <2>1. SettledMoE(i, l) /\ l.grid \in {"fp4", "fp8"}
    BY <1>1, <1>4 DEF Settled, LayerOk
  <2>2. PICK v2 \in BOOLEAN : kept[i] = MoEKept(Machine, l, pinned, v2)
    BY <2>1 DEF SettledMoE
  <2>3. PICK dtype : u = MoELaunch(Machine, l, kept[i], rows, dtype)
    BY <1>2, <1>4 DEF LaunchAs
  <2>4. Covered(l, rows) <=> rows > DecodeMax
    BY <1>4 DEF Covered
  <2> HIDE DEF l, u, rows
  <2>5. Records(u, rows > DecodeMax)
    BY <1>2, <2>1, <2>2, <2>3, MoELaunchIs DEF SettledMoE
  <2>6. Records(u, Covered(l, rows))
    BY <2>4, <2>5 DEF Records
  <2> USE DEF l, u, rows
  <2> QED BY <2>6
<1>5. CASE l.kind = "source8"
  <2>1. PICK dtype : u = Source8Launch(rows, dtype)
    BY <1>2, <1>5 DEF LaunchAs
  <2>2. Covered(l, rows)
    BY <1>5 DEF Covered
  <2> HIDE DEF l, u, rows
  <2>3. Records(u, TRUE)
    BY <1>2, <2>1, Source8LaunchIs
  <2>4. Records(u, Covered(l, rows))
    BY <2>2, <2>3 DEF Records
  <2> USE DEF l, u, rows
  <2> QED BY <2>4
<1>6. CASE l.kind \in {"mxfp8", "trellis"}
  <2>1. (\E set, captured : u = Mxfp8Launch(l, set, rows, captured)) \/ u = TrellisLaunch(Machine, l, kept[i])
    BY <1>2, <1>6 DEF LaunchAs
  <2>m. \A set, captured : Mxfp8Launch(l, set, rows, captured).writes = "none"
    BY DEF Mxfp8Launch, Launch, Refusal
  <2>t. TrellisLaunch(Machine, l, kept[i]).writes = "none"
    BY TrellisLaunchIs
  <2> HIDE DEF u, l, rows
  <2>w. u.writes = "none"
    BY <2>1, <2>m, <2>t
  <2> USE DEF u, l, rows
  <2>2. ~Covered(l, rows)
    BY <1>6 DEF Covered
  <2> QED BY <2>w, <2>2 DEF Records
<1> QED BY <1>1, <1>3, <1>4, <1>5, <1>6 DEF Settled

LEMMA RouteFollows == DispatchInv => RouteRecorded
<1> SUFFICES ASSUME DispatchInv, NEW i \in Calls
             PROVE  \E used \in {ran[i].launch} :
                /\ ran[i].returned /\ Covered(Layers[i], ran[i].rows) =>
                    route[i] = [symbol |-> used.symbol, contract |-> used.contract,
                                state |-> "served", rows |-> ran[i].rows]
                /\ ~ran[i].returned /\ (used.writes = "twice" \/ used.declined) => route[i].state # "served"
  BY DEF RouteRecorded
<1> DEFINE covered == Covered(Layers[i], ran[i].rows)
<1>1. Served(i)
  BY CallFacts
<1>2. PICK old : route[i] = Recorded(old, ran[i].launch, ran[i].returned, ran[i].rows)
  BY <1>1 DEF Served
<1>3. /\ ran[i].returned \in BOOLEAN /\ (ran[i].launch.symbol = "" => ~ran[i].returned)
      /\ Records(ran[i].launch, covered)
  BY <1>1, LaunchRecords DEF Served
<1> DEFINE rows == ran[i].rows launch == ran[i].launch returned == ran[i].returned
<1> HIDE DEF covered, rows, launch, returned
<1>4. TrueRecord(launch, returned, rows, covered, Recorded(old, launch, returned, rows))
  BY <1>3, RecordedIs DEF launch, returned
<1>5. TrueRecord(launch, returned, rows, covered, route[i])
  BY <1>2, <1>4 DEF rows, launch, returned
<1> QED BY <1>5 DEF TrueRecord, covered, rows, launch, returned

\* After a covered call that returned, a layer's record names the kernel that
\* ran, its contract and its rows, whatever a lane above it left; after a call
\* that was refused or lost mid-launch it does not say "served".
THEOREM RouteIsRecorded == Spec => []RouteRecorded
BY DispatchInvariant, RouteFollows, PTL

\* The verdict, the attested lanes and the warmed offsets of a state.
LEMMA SetUpFollows == DispatchInv => SetUpAtLoad
<1> SUFFICES ASSUME DispatchInv PROVE SetUpAtLoad
  OBVIOUS
<1>1. \A d \in Devices : v2ok[d] = TRUE => Prepares(Machine, "v2", d)
  BY DEF DispatchInv, VerdictInv
<1>2. ASSUME NEW i \in DOMAIN Layers, kept[i] # Absent
      PROVE  KeepsOnlyBuilt(Machine, Layers[i], kept[i])
  <2> DEFINE l == Layers[i]
  <2>1. Settled(i, l) /\ LayerOk(Machine, l) /\ l.dev \in Devices
    BY <1>2, LayerFacts DEF DispatchInv, LoadInv
  <2>2. CASE l.kind = "dense"
    <3>1. SettledLinear(i, l) /\ l.grid \in {"fp4", "fp8"}
      BY <2>1, <2>2 DEF Settled, LayerOk
    <3>2. /\ kept[i].sm120 => l.grid = "fp4" /\ Selected(pinned, "BF16_SM120") = "on"
          /\ l.grid = "fp4" /\ kept[i].midm => Selected(pinned, "FP4_FUSED_MIDM") = "on"
      BY <3>1, LinearKeptIs DEF SettledLinear
    <3>3. kept[i].sm120 => Sm120Lane(Machine, l.dev)
      BY <3>1, <3>2 DEF SettledLinear, LinearLoads, Fp4Resolves
    <3>4. l.grid = "fp4" /\ kept[i].midm => MidmLane(Machine, l.dev)
      BY <3>1, <3>2 DEF SettledLinear, LinearLoads, Fp4Resolves
    <3> HIDE DEF l
    <3>5. KeepsOnlyBuilt(Machine, l, kept[i])
      BY <2>2, <3>3, <3>4 DEF KeepsOnlyBuilt, Sm120Lane, MidmLane, Attested
    <3> USE DEF l
    <3> QED BY <3>5
  <2>3. CASE l.kind = "moe"
    <3>1. SettledMoE(i, l)
      BY <2>1, <2>3 DEF Settled
    <3>2. PICK v2 \in BOOLEAN : /\ kept[i] = MoEKept(Machine, l, pinned, v2)
                                /\ AsksV2(l, pinned) /\ v2 => v2ok[l.dev] = TRUE
      BY <3>1 DEF SettledMoE
    <3>3. kept[i].sm120 => Sm120Lane(Machine, l.dev)
      BY <3>1, <3>2, MoEKeptIs DEF SettledMoE, MoELoads, MoEResolves
    <3>4. kept[i].pb => PbLane(Machine, l.dev)
      BY <3>2, MoEKeptIs DEF PbEngages
    <3>5. l.grid = "fp4" /\ kept[i].gemv # {} => v2ok[l.dev] = TRUE
      <4> HIDE DEF l
      <4>1. l.grid = "fp4" /\ kept[i].gemv # {} => AsksV2(l, pinned) /\ v2
        BY <3>2, MoEKeptIs
      <4> QED BY <3>2, <4>1
    <3> HIDE DEF l
    <3>6. KeepsOnlyBuilt(Machine, l, kept[i])
      BY <2>3, <3>3, <3>4, <3>5 DEF KeepsOnlyBuilt, Sm120Lane, PbLane, Attested
    <3> USE DEF l
    <3> QED BY <3>6
  <2>4. CASE l.kind = "source8"
    <3>1. Source8Ext(Machine, l.dev)
      BY <2>1, <2>4 DEF Settled, SettledSource8, Source8Loads
    <3> QED BY <2>4, <3>1 DEF KeepsOnlyBuilt, Source8Ext
  <2>5. CASE l.kind = "mxfp8"
    <3>1. Attested(Machine, "mxfp8", "dense_mm", l.dev, FALSE)
      BY <2>1, <2>5 DEF Settled, SettledMxfp8, Mxfp8Loads
    <3> QED BY <2>5, <3>1 DEF KeepsOnlyBuilt, Attested
  <2>6. CASE l.kind = "trellis"
    BY <2>6 DEF KeepsOnlyBuilt
  <2> QED BY <2>1, <2>2, <2>3, <2>4, <2>5, <2>6 DEF Settled
<1>3. ASSUME NEW i \in CallsOf("mxfp8"), ran[i].captured, scenario.told
      PROVE  ran[i].launch.symbol # ""
  <2> DEFINE l == Layers[i]
  <2>1. i \in Calls /\ l.kind = "mxfp8"
    BY DEF CallsOf
  <2>2. Served(i)
    BY <2>1, CallFacts
  <2>3. PICK set : /\ WarmedBy(l, scenario.captures) \subseteq set
                   /\ ran[i].rows \in scenario.captures
                   /\ ran[i].launch = Mxfp8Launch(l, set, ran[i].rows, ran[i].captured)
    BY <1>3, <2>1, <2>2 DEF Served, LaunchAs
  <2>4. OffsetKey(ran[i].rows, l, "a") \in set
    BY <2>3 DEF WarmedBy
  <2> HIDE DEF l
  <2>5. Mxfp8Launch(l, set, ran[i].rows, ran[i].captured).symbol # ""
    BY <2>4, Mxfp8LaunchIs
  <2> QED BY <2>3, <2>5
<1> QED BY <1>1, <1>2, <1>3 DEF SetUpAtLoad, Machine

\* A layer keeps only lanes that were attested on its own device, and a
\* captured call of a size load was told about is never refused for offsets.
THEOREM LanesAreSetUp == Spec => []SetUpAtLoad
BY DispatchInvariant, SetUpFollows, PTL

\* A dense call that reached a kernel took the launch its kept lanes give it.
LEMMA DenseLaunch ==
    ASSUME NEW i, Served(i), Layers[i].kind = "dense", ran[i].launch.symbol # ""
    PROVE  \E half \in BOOLEAN :
              ran[i].launch = LinearLaunch(Machine, Layers[i], kept[i], ran[i].rows, half)
<1>1. PICK half \in BOOLEAN :
         ran[i].launch \in {LinearLaunch(Machine, Layers[i], kept[i], ran[i].rows, half), Refusal(FALSE)}
  BY DEF Served, LaunchAs
<1>2. Refusal(FALSE).symbol = ""
  BY DEF Refusal, Launch
<1>3. ran[i].launch = LinearLaunch(Machine, Layers[i], kept[i], ran[i].rows, half)
  BY <1>1, <1>2
<1> QED BY <1>3

\* The dense chain.
LEMMA DenseFollows ==
    ASSUME DispatchInv, NEW i \in Returned("dense", "fp4")
    PROVE  DenseHonored(i)
<1> DEFINE l == Layers[i]
           k == kept[i]
           rows == ran[i].rows
           used == ran[i].launch
           mode == Told("FUSED_FP4")
           midm == Told("FP4_FUSED_MIDM") = "on"
           sm120 == Told("BF16_SM120") = "on"
           fused == mode # NoMode /\ rows > 16 /\ (mode.midm => rows <= 128)
<1>1. i \in Calls /\ l.kind = "dense" /\ l.grid = "fp4" /\ ran[i].returned
  BY DEF Returned, CallsOf
<1>2. Served(i) /\ SettledLinear(i, l)
  BY <1>1, CallFacts DEF Settled
<1>3. rows \in Nat /\ used.symbol # ""
  BY <1>1, <1>2 DEF Served
<1>4. PICK half \in BOOLEAN : used = Fp4Launch(k, rows, half)
  <2>1. PICK half \in BOOLEAN : used = LinearLaunch(Machine, l, k, rows, half)
    BY <1>1, <1>2, <1>3, DenseLaunch
  <2> QED BY <1>1, <2>1 DEF LinearLaunch
<1>5. k.mode = mode /\ (k.midm <=> midm) /\ (k.sm120 <=> sm120)
  BY <1>1, <1>2, LinearKeptIs DEF SettledLinear, Told
<1> HIDE DEF k, rows, used, mode, midm, sm120
<1>6. UsesFusedFp4(k, rows) <=> fused
  BY <1>5 DEF UsesFusedFp4
<1>7. MidmEligible(k, rows) <=> midm /\ rows \in MidM
  BY <1>5 DEF MidmEligible
<1>8. /\ fused => used.contract = FusedContract(mode.family)
      /\ ~fused => /\ used.contract = BridgeContract("fp4")
                   /\ midm /\ rows \in MidM => used.symbol = "cb_fused_fp4v2_prefill_mm"
                   /\ ~(midm /\ rows \in MidM) /\ rows > GemvMax /\ sm120 =>
                          used.symbol = "cb_bf16_grouped_mm_sm120_gather"
  <2> HIDE DEF fused
  <2>1. CASE UsesFusedFp4(k, rows) /\ used = FusedFp4Launch(k, half)
    <3>1. used.contract = FusedContract(k.mode.family)
      BY <2>1 DEF FusedFp4Launch, Launch, Refusal
    <3> QED BY <1>5, <1>6, <2>1, <3>1
  <2>2. CASE /\ ~UsesFusedFp4(k, rows) /\ rows <= GemvMax
             /\ used = Launch("cb_gemv_fp4_v2", BridgeContract("fp4"), "none", FALSE)
    <3>1. ~(rows \in MidM) /\ ~(rows > GemvMax)
      <4>1. rows \in Nat /\ rows <= GemvMax
        BY <1>3, <2>2
      <4> QED BY <4>1 DEF MidM, GemvMax
    <3> QED BY <1>6, <2>2, <3>1 DEF Launch
  <2>3. CASE /\ ~UsesFusedFp4(k, rows) /\ MidmEligible(k, rows)
             /\ used = Launch("cb_fused_fp4v2_prefill_mm", BridgeContract("fp4"), "after", FALSE)
    BY <1>6, <1>7, <2>3 DEF Launch
  <2>4. CASE /\ ~UsesFusedFp4(k, rows) /\ rows > GemvMax /\ ~MidmEligible(k, rows)
             /\ \/ /\ k.sm120
                   /\ used = Launch("cb_bf16_grouped_mm_sm120_gather", BridgeContract("fp4"), "after", FALSE)
                \/ ~k.sm120 /\ used = Launch("cb_bf16_grouped_mm", BridgeContract("fp4"), "after", FALSE)
    BY <1>5, <1>6, <1>7, <2>4 DEF Launch
  <2> QED BY <1>3, <1>4, <2>1, <2>2, <2>3, <2>4, Fp4Lanes
<1> QED BY <1>8 DEF DenseHonored, rows, used, mode, midm, sm120

\* The routed chain.
LEMMA PersistentLanes ==
    ASSUME NEW l, NEW kept1, NEW declined
    PROVE  LET u == PersistentBLaunch(l, kept1, declined)
           IN  /\ u.contract = BridgeContract(l.grid)
               /\ u.symbol = IF l.grid = "fp8" THEN "cb_moe_persistent_b_prefill_fp8"
                             ELSE IF kept1.d2r THEN "cb_moe_persistent_b_prefill_d2r"
                             ELSE "cb_moe_persistent_b_prefill"
BY DEF PersistentBLaunch, Launch

LEMMA RoutedFollows ==
    ASSUME DispatchInv, NEW i \in Returned("moe", "fp4")
    PROVE  RoutedHonored(i)
<1> DEFINE l == Layers[i]
           k == kept[i]
           rows == ran[i].rows
           used == ran[i].launch
           mode == Told("FUSED_FP4_MOE")
           pb == Told("MOE_PERSISTENT_B")
           d2r == Told("MOE_PERSISTENT_B_D2R") = "on"
           sm120 == Told("BF16_SM120") = "on"
           engages == PbEngages(Machine, l, pb, mode)
           persistent == used.symbol \in {"cb_moe_persistent_b_prefill", "cb_moe_persistent_b_prefill_d2r"}
<1>1. i \in Calls /\ l.kind = "moe" /\ l.grid = "fp4" /\ ran[i].returned
  BY DEF Returned, CallsOf
<1>2. Served(i) /\ SettledMoE(i, l)
  BY <1>1, CallFacts DEF Settled
<1>3. rows \in Nat /\ used.symbol # ""
  BY <1>1, <1>2 DEF Served
<1>4. PICK dtype : used = MoELaunch(Machine, l, k, rows, dtype)
  BY <1>1, <1>2 DEF Served, LaunchAs
<1>5. PICK v2 \in BOOLEAN : k = MoEKept(Machine, l, pinned, v2)
  BY <1>2 DEF SettledMoE
<1>6. /\ k.mode = mode /\ (k.pb <=> engages) /\ (k.d2r <=> engages /\ d2r) /\ (k.sm120 <=> sm120)
      /\ k.announced = Announced(l, engages, pb, mode)
  <2>1. MoEMode(l, pinned) = mode
    BY <1>1 DEF MoEMode, Told
  <2> HIDE DEF l, k
  <2> QED BY <1>5, <2>1, MoEKeptIs DEF Told
<1>7. PbResolves(Machine, l, pb, d2r, mode, 0)
  BY <1>2 DEF SettledMoE, MoELoads, MoEResolves, Told
<1>8. /\ pb = "require" => engages
      /\ pb = "off" => ~engages
      /\ d2r => engages /\ mode = NoMode
      /\ mode # NoMode => ~(pb = "auto" /\ PbConsidered(l, pb, mode))
  BY <1>1, <1>7 DEF PbResolves, D2rResolves, PbEngages, PbConsidered
<1>9. /\ mode # NoMode => k.announced \in {Absent, "fused"}
      /\ mode = NoMode => (k.announced = "persistent_b" <=> engages)
  <2> HIDE DEF engages, mode, pb, l
  <2>1. CASE engages
    BY <1>1, <1>6, <2>1 DEF Announced
  <2>2. CASE ~engages
    <3>1. \/ pb = "auto" /\ PbConsidered(l, pb, mode) /\ k.announced = "bridge"
          \/ k.announced = Absent
      BY <1>6, <2>2 DEF Announced
    <3> QED BY <1>8, <2>2, <3>1, AbsentAssumption
  <2> QED BY <2>1, <2>2
<1> SUFFICES ASSUME rows > DecodeMax
             PROVE  IF mode # NoMode
                    THEN used.contract = FusedContract(mode.family) /\ k.announced \in {Absent, "fused"}
                    ELSE /\ used.contract = BridgeContract("fp4")
                         /\ pb = "require" => persistent
                         /\ pb = "off" => ~persistent
                         /\ d2r => used.symbol = "cb_moe_persistent_b_prefill_d2r"
                         /\ k.announced = "persistent_b" <=> persistent
                         /\ sm120 /\ ~persistent => used.symbol = "cb_bf16_grouped_mm_sm120_gather_out"
  BY DEF RoutedHonored
<1>10. used = IF mode # NoMode THEN GroupedFp4Launch(k, dtype) ELSE Bf16Launch(l, k, dtype, FALSE)
  <2> HIDE DEF rows, mode, l, k, used
  <2>0. rows \in Nat /\ rows > DecodeMax
    BY <1>3
  <2>1. ~(rows <= DecodeMax)
    BY <2>0 DEF DecodeMax
  <2> QED BY <1>1, <1>4, <1>6, <2>1 DEF MoELaunch
<1> HIDE DEF rows, mode, l, k, used, pb, d2r, sm120, engages
<1>11. CASE mode # NoMode
  <2>1. used.contract = FusedContract(mode.family)
    BY <1>6, <1>10, <1>11 DEF GroupedFp4Launch, Launch, Refusal
  <2> QED BY <1>9, <1>11, <2>1
<1>12. CASE mode = NoMode
  <2>1. used = Bf16Launch(l, k, dtype, FALSE)
    BY <1>10, <1>12
  <2>2. used # [Refusal(FALSE) EXCEPT !.contract = BridgeContract(l.grid)]
    BY <1>3 DEF Refusal, Launch
  <2>3. CASE k.pb /\ used = PersistentBLaunch(l, k, FALSE)
    <3>1. /\ used.contract = BridgeContract("fp4")
          /\ used.symbol = IF k.d2r THEN "cb_moe_persistent_b_prefill_d2r" ELSE "cb_moe_persistent_b_prefill"
      BY <1>1, <2>3, PersistentLanes
    <3> QED BY <1>6, <1>8, <1>9, <1>12, <2>3, <3>1
  <2>4. CASE ~k.pb /\ k.sm120 /\ used = Sm120Launch(l, FALSE)
    <3>1. used.contract = BridgeContract("fp4") /\ used.symbol = "cb_bf16_grouped_mm_sm120_gather_out"
      BY <1>1, <2>4 DEF Sm120Launch, Launch
    <3> QED BY <1>6, <1>8, <1>9, <1>12, <2>4, <3>1
  <2>5. CASE /\ ~k.pb /\ ~k.sm120
             /\ used = Launch("cb_bf16_grouped_mm_out", BridgeContract(l.grid), "after", FALSE)
    <3>1. used.contract = BridgeContract("fp4") /\ used.symbol = "cb_bf16_grouped_mm_out"
      BY <1>1, <2>5 DEF Launch
    <3> QED BY <1>6, <1>8, <1>9, <1>12, <2>5, <3>1
  <2> QED BY <2>1, <2>2, <2>3, <2>4, <2>5, Bf16LaunchIs
<1> QED BY <1>11, <1>12

\* The FP8 kernels of the lanes that can be switched off.
LEMMA OffStaysOff ==
    ASSUME DispatchInv
    PROVE  /\ \A i \in Returned("dense", "fp8") :
                Told("FUSED_MIDM") = "off" => ran[i].launch.symbol # "cb_fused_prefill_mm_scaled"
           /\ \A i \in Returned("moe", "fp8") :
                Told("MOE_PERSISTENT_B") = "off" => ran[i].launch.symbol # "cb_moe_persistent_b_prefill_fp8"
<1>1. ASSUME NEW i \in Returned("dense", "fp8"), Told("FUSED_MIDM") = "off"
      PROVE  ran[i].launch.symbol # "cb_fused_prefill_mm_scaled"
  <2> DEFINE l == Layers[i]
             k == kept[i]
             rows == ran[i].rows
  <2>1. i \in Calls /\ l.kind = "dense" /\ l.grid = "fp8" /\ ran[i].returned
    BY DEF Returned, CallsOf
  <2>2. Served(i) /\ SettledLinear(i, l)
    BY <2>1, CallFacts DEF Settled
  <2>3. ran[i].launch = Fp8Launch(Machine, l, k, rows) /\ rows \in Nat
    <3>1. ran[i].launch.symbol # "" /\ rows \in Nat
      BY <2>1, <2>2 DEF Served
    <3>2. PICK half \in BOOLEAN : ran[i].launch = LinearLaunch(Machine, l, k, rows, half)
      BY <2>1, <2>2, <3>1, DenseLaunch
    <3> QED BY <2>1, <3>1, <3>2 DEF LinearLaunch
  <2>4. ~k.midm
    BY <1>1, <2>1, <2>2, LinearKeptIs DEF SettledLinear, Told, Fp8Midm
  <2> HIDE DEF l, k, rows
  <2>5. Fp8Launch(Machine, l, k, rows).symbol # "cb_fused_prefill_mm_scaled"
    BY <2>3, <2>4, Fp8LaunchIs
  <2> QED BY <2>3, <2>5
<1>2. ASSUME NEW i \in Returned("moe", "fp8"), Told("MOE_PERSISTENT_B") = "off"
      PROVE  ran[i].launch.symbol # "cb_moe_persistent_b_prefill_fp8"
  <2> DEFINE l == Layers[i]
             k == kept[i]
             rows == ran[i].rows
             u == ran[i].launch
  <2>1. i \in Calls /\ l.kind = "moe" /\ l.grid = "fp8"
    BY DEF Returned, CallsOf
  <2>2. Served(i) /\ SettledMoE(i, l)
    BY <2>1, CallFacts DEF Settled
  <2>3. rows \in Nat
    BY <2>2 DEF Served
  <2>4. PICK dtype : u = MoELaunch(Machine, l, k, rows, dtype)
    BY <2>1, <2>2 DEF Served, LaunchAs
  <2>5. PICK v2 \in BOOLEAN : k = MoEKept(Machine, l, pinned, v2)
    BY <2>2 DEF SettledMoE
  <2>6. ~k.pb
    <3>1. k.pb <=> PbEngages(Machine, l, Selected(pinned, "MOE_PERSISTENT_B"), MoEMode(l, pinned))
      <4> HIDE DEF l, k
      <4> QED BY <2>5, MoEKeptIs
    <3> QED BY <1>2, <3>1 DEF PbEngages, PbConsidered, Told
  <2>7. rows <= DecodeMax <=> ~(rows > DecodeMax)
    BY <2>3 DEF DecodeMax
  <2> HIDE DEF l, k, rows, u
  <2>8. u = DecodeLaunch(l) \/ u = GroupedFp8Launch(Machine, l, k, dtype)
    BY <2>1, <2>4, <2>7 DEF MoELaunch
  <2>9. \A declined : Bf16Launch(l, k, dtype, declined).symbol # "cb_moe_persistent_b_prefill_fp8"
    <3> TAKE declined
    <3>1. \/ Bf16Launch(l, k, dtype, declined).symbol = ""
          \/ Bf16Launch(l, k, dtype, declined) = Sm120Launch(l, declined)
          \/ Bf16Launch(l, k, dtype, declined).symbol = "cb_bf16_grouped_mm_out"
      BY <2>6 DEF Bf16Launch, Refusal, Launch
    <3>2. Sm120Launch(l, declined).symbol = "cb_bf16_grouped_mm_sm120_gather_out"
      BY DEF Sm120Launch, Launch
    <3> QED BY <3>1, <3>2
  <2>10. DecodeLaunch(l).symbol = "grouped_decode"
    BY DEF DecodeLaunch, Launch
  <2>11. Launch("cb_fused_moe_grouped", BridgeContract("fp8"), "twice", FALSE).symbol = "cb_fused_moe_grouped"
    BY DEF Launch
  <2>12. GroupedFp8Launch(Machine, l, k, dtype)
            \in {Launch("cb_fused_moe_grouped", BridgeContract("fp8"), "twice", FALSE), Bf16Launch(l, k, dtype, TRUE)}
    BY DEF GroupedFp8Launch
  <2> QED BY <2>8, <2>9, <2>10, <2>11, <2>12 DEF u
<1> QED BY <1>1, <1>2

\* A grouped product never ends in the attention layer's own.
LEMMA NeverEinsum ==
    ASSUME DispatchInv, NEW i \in CallsOf("source8") \cup CallsOf("mxfp8")
    PROVE  ran[i].launch.symbol # "fp8_einsum"
<1> DEFINE l == Layers[i]
           rows == ran[i].rows
           u == ran[i].launch
<1>1. i \in Calls /\ l.kind \in {"source8", "mxfp8"}
  BY DEF CallsOf
<1>2. Served(i) /\ rows \in Nat
  BY <1>1, CallFacts DEF Served
<1>3. (\E dtype : u = Source8Launch(rows, dtype)) \/ \E set, captured : u = Mxfp8Launch(l, set, rows, captured)
  <2>1. CASE l.kind = "source8"
    BY <1>2, <2>1 DEF Served, LaunchAs
  <2>2. CASE l.kind = "mxfp8"
    <3>1. PICK set : u = Mxfp8Launch(l, set, rows, ran[i].captured)
      BY <1>2, <2>2 DEF Served, LaunchAs
    <3> HIDE DEF u, l, rows
    <3> QED BY <3>1
  <2> QED BY <1>1, <2>1, <2>2
<1> HIDE DEF l, rows, u
<1>4. \A dtype : Source8Launch(rows, dtype).symbol # "fp8_einsum"
  BY <1>2, Source8LaunchIs
<1>5. \A set, captured : Mxfp8Launch(l, set, rows, captured).symbol # "fp8_einsum"
  BY DEF Mxfp8Launch, Launch, Refusal
<1> QED BY <1>3, <1>4, <1>5 DEF u

\* A flag that names a kernel is served as the process first read it, or the
\* load refuses; a lane that was switched off never serves; a grouped
\* projection is never left to the attention layer's own product.
THEOREM SelectionIsServed == Spec => []SelectionServed
<1>1. DispatchInv => SelectionServed
  BY DenseFollows, RoutedFollows, OffStaysOff, NeverEinsum DEF SelectionServed
<1> QED BY <1>1, DispatchInvariant, PTL

\* Packed rows and source bytes: the tables of each row of a call.
LEMMA TablesFollow ==
    ASSUME DispatchInv
    PROVE  DenseOwnBooks /\ RoutedOwnBooks /\ SourceOwnScales
<1>1. ASSUME NEW i \in CallsOf("dense"), ran[i].launch.symbol # "",
             NEW row \in 1..Total(Layers[i].widths)
      PROVE  DecodedAs(ran[i].launch.symbol, kept[i].form, row) = OwnBook(Layers[i], row)
  <2> DEFINE l == Layers[i]
             rows == ran[i].rows
             u == ran[i].launch
  <2>1. i \in Calls /\ l.kind = "dense"
    BY DEF CallsOf
  <2>2. Served(i) /\ SettledLinear(i, l) /\ ShardsOk(l) /\ l.grid \in {"fp4", "fp8"}
    BY <2>1, CallFacts DEF Settled, LayerOk
  <2>3. PICK half \in BOOLEAN : u = LinearLaunch(Machine, l, kept[i], rows, half)
    BY <1>1, <2>1, <2>2, DenseLaunch
  <2>4. rows \in Nat /\ kept[i] = LinearKept(Machine, l, Form(l), pinned) /\ WidthsAgree(l)
        /\ LinearLoads(Machine, l, Form(l), pinned)
    BY <2>2 DEF Served, SettledLinear
  <2>6. u.symbol # "" /\ row \in 1..Total(l.widths)
    BY <1>1
  <2> HIDE DEF l, rows, u
  <2>5. LinearCanDecode(u.symbol, Form(l)) /\ kept[i].form = Form(l)
    BY <2>2, <2>3, <2>4, LinearLaunchIs, LinearKeptIs
  <2>7. DecodedAs(u.symbol, Form(l), row) = OwnBook(l, row)
    BY <2>2, <2>4, <2>5, <2>6, DenseDecodes
  <2> QED BY <2>5, <2>7 DEF u, l
<1>2. ASSUME NEW i \in CallsOf("moe"), ran[i].launch.symbol # "", NEW role \in Roles
      PROVE  MoEDecodedAs(ran[i].launch.symbol, Layers[i], role) = Layers[i].books[role]
  <2> DEFINE l == Layers[i]
             rows == ran[i].rows
             u == ran[i].launch
  <2>1. i \in Calls /\ l.kind = "moe"
    BY DEF CallsOf
  <2>2. Served(i) /\ SettledMoE(i, l) /\ l.grid \in {"fp4", "fp8"}
    BY <2>1, CallFacts DEF Settled, LayerOk
  <2>3. PICK dtype : u = MoELaunch(Machine, l, kept[i], rows, dtype)
    BY <2>1, <2>2 DEF Served, LaunchAs
  <2>4. PICK v2 \in BOOLEAN : kept[i] = MoEKept(Machine, l, pinned, v2)
    BY <2>2 DEF SettledMoE
  <2>5. rows \in Nat /\ MoELoads(Machine, l, pinned, 0)
    BY <2>2 DEF Served, SettledMoE
  <2> HIDE DEF l, rows, u
  <2>6. MoECanDecode(u.symbol, l)
    BY <2>2, <2>3, <2>4, <2>5, MoELaunchIs
  <2> QED BY <2>6, MoEDecodes DEF u, l
<1>3. ASSUME NEW i \in CallsOf("source8")
      PROVE  \A row \in Corners(Total(Layers[i].widths)) : \A column \in Corners(Layers[i].sliced) :
                LoadedScale(Layers[i], row, column) = OwnScale(Layers[i], row, column)
  <2>1. i \in Calls /\ Layers[i].kind = "source8"
    BY DEF CallsOf
  <2>2. PlaneOk(Layers[i]) /\ Source8Constructs(Layers[i])
    BY <2>1, CallFacts DEF Settled, SettledSource8, Source8Loads, LayerOk
  <2> QED BY <2>2, OwnScales
<1> QED BY <1>1, <1>2, <1>3 DEF DenseOwnBooks, RoutedOwnBooks, SourceOwnScales

\* Every packed row and every source row is decoded with its own tables,
\* whatever kernel a call ends in.
THEOREM PackedRowsOwnTables == Spec => [](DenseOwnBooks /\ RoutedOwnBooks /\ SourceOwnScales)
BY TablesFollow, DispatchInvariant, PTL

\* And every trellis column, where the bit folds of the wire decode as meant.
THEOREM EveryRowOwnsTables ==
    ASSUME TrellisSound
    PROVE  Spec => []RowsOwnTables
<1>1. ASSUME DispatchInv PROVE TrellisOwnCodes
  <2> SUFFICES ASSUME NEW i \in CallsOf("trellis"), NEW row \in 1..Layers[i].out, NEW c \in 1..Layers[i].in
               PROVE  DecodesAsMeant(Layers[i], kept[i], row, c)
    BY DEF TrellisOwnCodes
  <2>1. i \in Calls /\ i \in DOMAIN Layers /\ Layers[i].kind = "trellis" /\ scenario \in Scenarios
    BY <1>1 DEF CallsOf, Calls, DispatchInv, TypeInv
  <2>2. SettledTrellis(i, Layers[i])
    BY <1>1, <2>1, CallFacts DEF Settled
  <2>3. built[i] \in {"resident", "streamed"}
    BY <2>2 DEF SettledTrellis, TrellisConstructs
  <2> QED BY <2>1, <2>2, <2>3 DEF TrellisSound, SettledTrellis, Machine, Layers
<1>2. DispatchInv => RowsOwnTables
  BY <1>1, TablesFollow DEF RowsOwnTables
<1> QED BY <1>2, DispatchInvariant, PTL
=============================================================================
