--------------------------- MODULE QuantConfigProofs --------------------------
(***************************************************************************)
(* What holds of QuantConfig for every scenario: every sequence of builds, *)
(* every document and repository, every nesting of constructors and every  *)
(* place at which one of them raises.                                      *)
(*                                                                         *)
(* No property is inductive.  That a constructor's exit restores the       *)
(* contexts rests on what each running constructor saved when it was       *)
(* entered (Framed), and on a configuration that an inner constructor has  *)
(* resolved staying as it is.  That every sidecar is the built model's     *)
(* rests on the draft's authority being in force whenever a draft may be   *)
(* the first to ask (SInv), and on the answer of a decoder having pinned   *)
(* the source that the codebooks are read from after the load (Decoded).   *)
(* That every expert of a mixed stack finds its row rests on what a        *)
(* resolved configuration owes the document it judged, through the         *)
(* mapper's renaming and the later reads (PInv), and on sorted ids never   *)
(* lagging behind their places (IdsOutrunPlaces).                          *)
(***************************************************************************)
EXTENDS QuantConfig, SequenceTheorems, WellFoundedInduction, TLAPS

Fields == {"source", "doc", "scalesFrom", "booksFrom", "M", "resolved", "broken"}
Froms  == {"source", "doc", "scalesFrom", "booksFrom"}

Shaped(c) ==
    /\ c = [f \in Fields |-> c[f]]
    /\ c.resolved \in BOOLEAN /\ c.broken \in BOOLEAN

------------------------------------------------------------------------------
(* Resolution. *)

\* Pinning changes nothing but a source that is still to be found.
LEMMA PinKeeps ==
    ASSUME NEW c, Shaped(c)
    PROVE  /\ Shaped(Pin(c))
           /\ Pin(c) = c \/ (c.source = Absent /\ authority # Absent)
           /\ \A f \in Fields : f # "source" => Pin(c)[f] = c[f]
           /\ c.source = Absent /\ authority # Absent => Pin(c).source = Source(c)
<1>1. CASE c.source = Absent /\ authority # Absent
  <2>1. Pin(c) = [c EXCEPT !["source"] = Source(c)]
    BY <1>1 DEF Pin
  <2>2. QED
    BY <1>1, <2>1 DEF Fields, Shaped
<1>2. CASE ~(c.source = Absent /\ authority # Absent)
  BY <1>2 DEF Pin
<1>3. QED
  BY <1>1, <1>2

\* Attesting the activation scales of a document.
LEMMA AttestKeeps ==
    ASSUME NEW c, Shaped(c), NEW doc, NEW scales
    PROVE  /\ Shaped(Attest(c, doc, scales))
           /\ \A f \in Froms : Attest(c, doc, scales)[f] \in {c[f], scales}
           /\ Attest(c, doc, scales).resolved = c.resolved
           /\ Attest(c, doc, scales).source = c.source \/ Attest(c, doc, scales).source = scales
<1> DEFINE d == Attest(c, doc, scales)
<1>1. \/ d = [c EXCEPT !.M = [scales |-> << >>]]
      \/ d = [c EXCEPT !.source = scales, !.scalesFrom = scales, !.M = [scales |-> At(scales).scalars]]
      \/ d = [c EXCEPT !.broken = TRUE]
  BY DEF Attest
<1> HIDE DEF d
<1>2. QED
  <2>1. Shaped(d) /\ \A f \in Froms : d[f] \in {c[f], scales}
    BY <1>1 DEF Shaped, Fields, Froms
  <2>2. d.resolved = c.resolved
    BY <1>1 DEF Shaped, Fields
  <2>3. QED
    BY <2>1, <2>2 DEF d, Froms

\* Reading and judging a document, and the scales it contracts.
LEMMA ReadKeeps ==
    ASSUME NEW c, Shaped(c), NEW from
    PROVE  /\ Shaped(Read(c, from))
           /\ \E e : /\ Shaped(e) /\ e.source \in {c.source, from} /\ e.resolved = c.resolved
                     /\ \A f \in Froms : Read(c, from)[f] \in {c[f], from, Source(e)}
                     /\ Read(c, from).source \in {c.source, from, Source(e)}
<1> DEFINE e == [c EXCEPT !.doc = from, !.source = IF Inline THEN @ ELSE from]
           d == Read(c, from)
<1>1. /\ Shaped(e) /\ e.source \in {c.source, from} /\ e.resolved = c.resolved
      /\ \A f \in Froms : e[f] \in {c[f], from}
  BY DEF Shaped, Fields, Froms
<1>2. \/ d = [c EXCEPT !.broken = TRUE]
      \/ d = [e EXCEPT !.broken = TRUE]
      \/ d = Attest(e, At(from).doc, Source(e))
  BY DEF Read, Judge
<1> HIDE DEF d, e
<1>3. CASE d = [c EXCEPT !.broken = TRUE]
  <2>1. Shaped(d) /\ \A f \in Froms : d[f] = c[f]
    BY <1>3 DEF Shaped, Fields, Froms
  <2>2. QED
    BY <1>1, <2>1 DEF d, Froms
<1>4. CASE d = [e EXCEPT !.broken = TRUE]
  <2>1. Shaped(d) /\ \A f \in Froms : d[f] = e[f]
    BY <1>1, <1>4 DEF Shaped, Fields, Froms
  <2>2. QED
    BY <1>1, <2>1 DEF d, Froms
<1>5. CASE d = Attest(e, At(from).doc, Source(e))
  <2>1. Shaped(d) /\ \A f \in Froms : d[f] \in {e[f], Source(e)}
    BY <1>1, <1>5, AttestKeeps
  <2>2. QED
    BY <1>1, <2>1 DEF d, Froms
<1>6. QED
  BY <1>2, <1>3, <1>4, <1>5

\* A configuration keeps its shape; once resolved it stays as it is, and it
\* is resolved unless its document was refused.
LEMMA SettleShape ==
    ASSUME NEW c, Shaped(c)
    PROVE  /\ Shaped(Settle(c))
           /\ c.resolved => Settle(c) = c
           /\ ~Settle(c).broken => Settle(c).resolved
           /\ ~c.resolved => \A f \in Froms : Settle(c)[f] = Read(c, DocOf(c))[f]
<1>1. CASE c.resolved
  BY <1>1 DEF Settle
<1>2. CASE ~c.resolved
  <2> DEFINE d == Read(c, DocOf(c))
  <2>1. Shaped(d)
    BY ReadKeeps
  <2>2. Settle(c) = Indexed(d)
    BY <1>2 DEF Settle
  <2> HIDE DEF d
  <2>3. CASE d.broken
    <3>1. Indexed(d) = d
      BY <2>3 DEF Indexed
    <3>2. QED
      BY <1>2, <2>1, <2>2, <2>3, <3>1 DEF d
  <2>4. CASE ~d.broken
    <3>1. PICK M : Indexed(d) = [d EXCEPT !.M = M, !.resolved = TRUE]
      BY <2>4 DEF Indexed
    <3>2. /\ Shaped(Indexed(d)) /\ Indexed(d).resolved
          /\ \A f \in Froms : Indexed(d)[f] = d[f]
      BY <2>1, <3>1 DEF Shaped, Fields, Froms
    <3>3. QED
      BY <1>2, <2>2, <3>2 DEF d
  <2>5. QED
    BY <2>3, <2>4
<1>3. QED
  BY <1>1, <1>2

LEMMA ResolveShape ==
    ASSUME NEW c, Shaped(c)
    PROVE  /\ Shaped(Resolve(c))
           /\ c.resolved => Resolve(c).resolved /\ Resolve(c).M = c.M
           /\ ~Resolve(c).broken => Resolve(c).resolved
<1>1. Shaped(Pin(c)) /\ Pin(c).resolved = c.resolved /\ Pin(c).M = c.M
  BY PinKeeps DEF Fields
<1>2. QED
  BY <1>1, SettleShape DEF Resolve
------------------------------------------------------------------------------
(* Sequences whose elements have no type of their own. *)

IsSeq(s) == s \in Seq(ToSet(s))

\* t is s with x after it; t is s without its last element.
Extends(t, s, x) ==
    /\ Len(s) \in Nat /\ DOMAIN s = 1 .. Len(s)
    /\ Len(t) = Len(s) + 1 /\ DOMAIN t = 1 .. Len(s) + 1
    /\ t[Len(s) + 1] = x
    /\ \A i \in 1 .. Len(s) : t[i] = s[i]
Shortens(t, s) ==
    /\ Len(s) \in Nat \ {0} /\ DOMAIN s = 1 .. Len(s)
    /\ Len(t) = Len(s) - 1 /\ DOMAIN t = 1 .. Len(s) - 1
    /\ \A i \in 1 .. Len(s) - 1 : t[i] = s[i]
    /\ Last(s) = s[Len(s)]

LEMMA Emptied == /\ IsSeq(<< >>)
                 /\ DOMAIN << >> = {} /\ Len(<< >>) = 0
PROOF BY EmptySeq DEF IsSeq

LEMMA Listed == \A S, t : \A k \in Nat : t \in [1 .. k -> S] => t \in Seq(S)
PROOF BY SeqDef

LEMMA Appended == \A s, x, t : IsSeq(s) /\ t = Append(s, x) => IsSeq(t) /\ Extends(t, s, x)
<1> SUFFICES ASSUME NEW s, s \in Seq(ToSet(s)), NEW x, NEW t, t = Append(s, x)
             PROVE  IsSeq(t) /\ Extends(t, s, x)
  BY DEF IsSeq
<1>1. /\ Len(s) \in Nat /\ DOMAIN s = 1 .. Len(s)
      /\ s \in [1 .. Len(s) -> ToSet(s)]
  OBVIOUS
<1>2. s \in Seq(ToSet(s) \cup {x})
  BY SeqMonotonic
<1>3. /\ Len(t) = Len(s) + 1 /\ DOMAIN t = 1 .. Len(s) + 1
      /\ t[Len(s) + 1] = x
      /\ \A i \in 1 .. Len(s) : t[i] = s[i]
      /\ t \in Seq(ToSet(s) \cup {x})
  BY <1>2
<1>4. t \in [1 .. Len(s) + 1 -> ToSet(t)]
  <2>1. t \in [1 .. Len(s) + 1 -> ToSet(s) \cup {x}]
    BY <1>3, LenProperties
  <2>2. \A i \in 1 .. Len(s) + 1 : t[i] \in ToSet(t)
    BY <1>3 DEF ToSet
  <2>3. QED
    BY <2>1, <2>2
<1>5. t \in Seq(ToSet(t))
  <2>1. PICK k \in Nat : t \in [1 .. k -> ToSet(t)]
    BY <1>1, <1>4
  <2>2. QED
    BY <2>1, Listed
<1>6. QED
  BY <1>1, <1>3, <1>5 DEF IsSeq, Extends

LEMMA Fronted == \A s, t : IsSeq(s) /\ s # << >> /\ t = Front(s) => IsSeq(t) /\ Shortens(t, s)
<1> SUFFICES ASSUME NEW s, s \in Seq(ToSet(s)), s # << >>, NEW t, t = Front(s)
             PROVE  IsSeq(t) /\ Shortens(t, s)
  BY DEF IsSeq
<1>1. Len(s) \in Nat /\ DOMAIN s = 1 .. Len(s)
  OBVIOUS
<1>2. Len(s) # 0
  BY <1>1
<1>3. t = SubSeq(s, 1, Len(s) - 1)
  BY DEF Front
<1>4. /\ Len(t) = Len(s) - 1 /\ DOMAIN t = 1 .. Len(s) - 1
      /\ \A i \in 1 .. Len(s) - 1 : t[i] = s[i]
      /\ t \in Seq(ToSet(s))
  BY <1>1, <1>2, <1>3
<1>5. t \in [1 .. Len(s) - 1 -> ToSet(t)]
  BY <1>4 DEF ToSet
<1>6. t \in Seq(ToSet(t))
  BY <1>1, <1>2, <1>5, SeqDef
<1>7. QED
  BY <1>1, <1>2, <1>4, <1>6 DEF Last, IsSeq, Shortens

------------------------------------------------------------------------------
(* The contexts. *)

KindsOf(k) == {stack[i].kind : i \in 1 .. k}
Authority(K) == IF "entry" \in K /\ Model = "draft" THEN "draft" ELSE Absent
Supply(K) == IF "inner" \in K /\ EmbeddingOf(config.M, EmbeddingPrefix) # << >>
             THEN EmbeddingPrefix ELSE Absent

\* A running constructor saved the contexts of those that enclose it.
Saved(f, K) == f.loader = ("entry" \in K) /\ f.authority = Authority(K) /\ f.supplied = Supply(K)

Framed ==
    /\ \A i \in DOMAIN stack : Saved(stack[i], KindsOf(i - 1))
    /\ loader = ("entry" \in KindsOf(Len(stack)))
    /\ authority = Authority(KindsOf(Len(stack)))
    /\ supplied = Supply(KindsOf(Len(stack)))

CInv ==
    /\ Shaped(config)
    /\ IsSeq(stack)
    /\ phase \notin {"building", "failing"} => stack = << >>
    /\ "inner" \in KindsOf(Len(stack)) => config.resolved
    /\ Framed

LEMMA InitCInv == Init => CInv
<1> SUFFICES ASSUME Init PROVE CInv
  OBVIOUS
<1>1. Shaped(config)
  BY DEF Init, Fresh, Shaped, Fields
<1>2. stack = << >> /\ IsSeq(stack) /\ DOMAIN stack = {} /\ Len(stack) = 0
  BY Emptied DEF Init
<1>3. KindsOf(Len(stack)) = {}
  BY <1>2 DEF KindsOf
<1>4. Framed
  <2>1. loader = ("entry" \in KindsOf(Len(stack)))
    <3>1. ("entry" \in KindsOf(Len(stack))) = FALSE
      BY <1>3
    <3>2. QED
      BY <3>1 DEF Init
  <2>2. authority = Authority(KindsOf(Len(stack))) /\ supplied = Supply(KindsOf(Len(stack)))
    BY <1>3 DEF Authority, Supply, Init
  <2>3. QED
    BY <1>2, <2>1, <2>2 DEF Framed
<1>5. QED
  BY <1>1, <1>2, <1>3, <1>4 DEF CInv

\* A step that enters and leaves no constructor, and disturbs no
\* configuration an inner constructor has resolved.
LEMMA StayCInv ==
    ASSUME CInv, UNCHANGED <<scenario, build, stack, contexts>>, Shaped(config'),
           "inner" \in KindsOf(Len(stack)) => config'.resolved /\ config'.M = config.M,
           phase' \in {"building", "failing"} \/ stack = << >>
    PROVE  CInv'
<1>1. Model' = Model /\ EmbeddingPrefix' = EmbeddingPrefix
  BY DEF Model, EmbeddingPrefix
<1>2. \A k : KindsOf(k)' = KindsOf(k)
  BY DEF KindsOf
<1>3. KindsOf(Len(stack))' = KindsOf(Len(stack))
  BY DEF KindsOf
<1>4. \A K : Authority(K)' = Authority(K)
  BY <1>1 DEF Authority
<1>5. ASSUME NEW K, "inner" \in K => "inner" \in KindsOf(Len(stack))
      PROVE  Supply(K)' = Supply(K)
  BY <1>1, <1>5 DEF Supply, CInv
<1>6. \A i \in DOMAIN stack : KindsOf(i - 1) \subseteq KindsOf(Len(stack))
  <2>1. DOMAIN stack = 1 .. Len(stack) /\ Len(stack) \in Nat
    BY LenProperties DEF CInv, IsSeq
  <2>2. QED
    BY <2>1 DEF KindsOf
<1>7. Framed'
  BY <1>2, <1>3, <1>4, <1>5, <1>6 DEF Framed, CInv, contexts, Saved
<1>8. QED
  BY <1>3, <1>7 DEF CInv

\* What a set of constructors puts in force depends on the scenario, on the
\* build, and on the configuration an inner constructor has resolved.
LEMMA ForceStays ==
    ASSUME CInv, UNCHANGED <<scenario, build>>,
           config.resolved => config'.M = config.M
    PROVE  \A K : K \subseteq KindsOf(Len(stack)) =>
               Authority(K)' = Authority(K) /\ Supply(K)' = Supply(K)
<1>1. Model' = Model /\ EmbeddingPrefix' = EmbeddingPrefix
  BY DEF Model, EmbeddingPrefix
<1> SUFFICES ASSUME NEW K, K \subseteq KindsOf(Len(stack))
             PROVE  Authority(K)' = Authority(K) /\ Supply(K)' = Supply(K)
  OBVIOUS
<1>2. Authority(K)' = Authority(K)
  BY <1>1 DEF Authority
<1>3. "inner" \in K => config'.M = config.M
  BY DEF CInv
<1>4. Supply(K)' = Supply(K)
  BY <1>1, <1>3 DEF Supply
<1>5. QED
  BY <1>2, <1>4

\* A constructor is entered.
LEMMA PushCInv ==
    ASSUME CInv, UNCHANGED <<scenario, build>>, Shaped(config'), phase' = "building",
           NEW kind, stack' = Append(stack, Frame(kind)),
           config.resolved => config'.resolved /\ config'.M = config.M,
           kind = "inner" => config'.resolved,
           loader' = IF kind = "entry" THEN TRUE ELSE loader,
           authority' = IF kind = "entry" /\ Model = "draft" THEN "draft" ELSE authority,
           supplied' = IF kind = "inner" /\ EmbeddingOf(config'.M, EmbeddingPrefix) # << >>
                       THEN EmbeddingPrefix ELSE supplied
    PROVE  CInv'
<1> DEFINE n == Len(stack)
<1>1. /\ IsSeq(stack')
      /\ n \in Nat /\ DOMAIN stack = 1 .. n
      /\ Len(stack') = n + 1 /\ DOMAIN stack' = 1 .. n + 1
      /\ stack'[n + 1] = Frame(kind)
      /\ \A i \in 1 .. n : stack'[i] = stack[i]
  <2>1. IsSeq(stack') /\ Extends(stack', stack, Frame(kind))
    BY Appended DEF CInv
  <2>2. QED
    BY <2>1 DEF Extends
<1>2. /\ Model' = Model /\ EmbeddingPrefix' = EmbeddingPrefix
      /\ \A K : K \subseteq KindsOf(n) =>
             Authority(K)' = Authority(K) /\ Supply(K)' = Supply(K)
  BY ForceStays DEF Model, EmbeddingPrefix
<1>3. PICK m \in Nat : m = n
  BY <1>1
<1>4. \A k \in 0 .. m : KindsOf(k)' = KindsOf(k) /\ KindsOf(k) \subseteq KindsOf(m)
  BY <1>1, <1>3 DEF KindsOf
<1>5. Frame(kind).kind = kind
  BY DEF Frame
<1>6. KindsOf(m + 1)' = KindsOf(m) \cup {kind}
  BY <1>1, <1>3, <1>5 DEF KindsOf
<1>7. PICK K, L : K = KindsOf(m) /\ L = KindsOf(m + 1)' /\ L = K \cup {kind}
  BY <1>6
<1>8. /\ loader = ("entry" \in K) /\ authority = Authority(K) /\ supplied = Supply(K)
      /\ \A i \in 1 .. m : Saved(stack[i], KindsOf(i - 1))
  BY <1>1, <1>3, <1>7 DEF CInv, Framed
<1>9. \A i \in 1 .. m : Saved(stack[i], KindsOf(i - 1))'
  <2> SUFFICES ASSUME NEW i \in 1 .. m
               PROVE  Saved(stack[i], KindsOf(i - 1))'
    OBVIOUS
  <2>1. PICK J : J = KindsOf(i - 1) /\ J = KindsOf(i - 1)' /\ J \subseteq K
    BY <1>3, <1>4, <1>7
  <2>2. Authority(J)' = Authority(J) /\ Supply(J)' = Supply(J)
    BY <1>2, <1>3, <1>7, <2>1
  <2>3. stack'[i] = stack[i]
    BY <1>1, <1>3
  <2>4. Saved(stack[i], J)
    BY <1>8, <2>1
  <2>5. QED
    BY <2>1, <2>2, <2>3, <2>4 DEF Saved
<1>10. Saved(stack[m + 1], KindsOf(m))'
  <2>1. /\ stack'[m + 1] = Frame(kind) /\ Frame(kind).loader = loader
        /\ Frame(kind).authority = authority /\ Frame(kind).supplied = supplied
    BY <1>1, <1>3 DEF Frame
  <2>2. K = KindsOf(m)' /\ Authority(K)' = Authority(K) /\ Supply(K)' = Supply(K)
    BY <1>2, <1>3, <1>4, <1>7
  <2>3. QED
    BY <1>8, <2>1, <2>2 DEF Saved
<1>11. loader' = ("entry" \in L)
  <2>1. CASE kind = "entry"
    BY <1>7, <2>1
  <2>2. CASE kind # "entry"
    <3>1. ("entry" \in L) = ("entry" \in K)
      BY <1>7, <2>2
    <3>2. QED
      BY <1>8, <2>2, <3>1
  <2>3. QED
    BY <2>1, <2>2
<1>12. authority' = Authority(L)'
  <2>1. authority' = Authority(L)
    BY <1>7, <1>8 DEF Authority
  <2>2. Authority(L)' = Authority(L)
    BY <1>2 DEF Authority
  <2>3. QED
    BY <2>1, <2>2
<1>13. supplied' = Supply(L)'
  <2>1. Supply(K)' = Supply(K)
    BY <1>2, <1>3, <1>7
  <2>2. Supply(L)' = IF ("inner" \in K \/ kind = "inner") /\ EmbeddingOf(config'.M, EmbeddingPrefix) # << >>
                     THEN EmbeddingPrefix ELSE Absent
    BY <1>2, <1>7 DEF Supply
  <2>3. Supply(K)' = IF "inner" \in K /\ EmbeddingOf(config'.M, EmbeddingPrefix) # << >>
                     THEN EmbeddingPrefix ELSE Absent
    BY <1>2 DEF Supply
  <2>4. QED
    BY <1>8, <2>1, <2>2, <2>3
<1>14. Framed'
  <2>1. \A i \in 1 .. m + 1 : Saved(stack[i], KindsOf(i - 1))'
    <3> SUFFICES ASSUME NEW i \in 1 .. m + 1
                 PROVE  Saved(stack[i], KindsOf(i - 1))'
      OBVIOUS
    <3>1. CASE i \in 1 .. m
      BY <1>9, <3>1
    <3>2. CASE i = m + 1
      <4>1. stack'[i] = stack'[m + 1] /\ KindsOf(i - 1)' = KindsOf(m)'
        BY <3>2, <1>3 DEF KindsOf
      <4>2. QED
        BY <1>10, <4>1 DEF Saved
    <3>3. QED
      BY <1>3, <3>1, <3>2
  <2>2. QED
    BY <1>1, <1>3, <1>7, <1>11, <1>12, <1>13, <2>1 DEF Framed
<1>15. "inner" \in KindsOf(Len(stack))' => config'.resolved
  BY <1>1, <1>3, <1>7 DEF CInv
<1>16. QED
  BY <1>1, <1>14, <1>15 DEF CInv

\* A constructor returns, or an exception leaves it.
LEMMA PopCInv ==
    ASSUME CInv, stack # << >>, Pop, UNCHANGED <<scenario, build, config>>,
           phase' \in {"building", "failing"} \/ Len(stack) = 1
    PROVE  CInv'
<1> DEFINE n == Len(stack)
<1>1. /\ IsSeq(stack')
      /\ n \in Nat \ {0} /\ DOMAIN stack = 1 .. n
      /\ Len(stack') = n - 1 /\ DOMAIN stack' = 1 .. n - 1
      /\ \A i \in 1 .. n - 1 : stack'[i] = stack[i]
      /\ Last(stack) = stack[n]
  <2>1. IsSeq(stack') /\ Shortens(stack', stack)
    BY Fronted DEF CInv, Pop
  <2>2. QED
    BY <2>1 DEF Shortens
<1>2. PICK m \in Nat : n = m + 1
  <2> HIDE DEF n
  <2>1. n - 1 \in Nat /\ n = (n - 1) + 1
    BY <1>1
  <2>2. QED
    BY <2>1
<1>3. \A k \in 0 .. m : KindsOf(k)' = KindsOf(k) /\ KindsOf(k) \subseteq KindsOf(n)
  BY <1>1, <1>2 DEF KindsOf
<1>4. \A K : Authority(K)' = Authority(K) /\ Supply(K)' = Supply(K)
  BY DEF Authority, Supply, Model, EmbeddingPrefix
<1>5. \A i \in 1 .. m + 1 : Saved(stack[i], KindsOf(i - 1))
  BY <1>1, <1>2 DEF CInv, Framed
<1>6. \A i \in 1 .. m : Saved(stack[i], KindsOf(i - 1))'
  <2> SUFFICES ASSUME NEW i \in 1 .. m
               PROVE  Saved(stack[i], KindsOf(i - 1))'
    OBVIOUS
  <2>1. PICK J : J = KindsOf(i - 1) /\ J = KindsOf(i - 1)'
    BY <1>2, <1>3
  <2>2. stack'[i] = stack[i] /\ Saved(stack[i], J)
    BY <1>1, <1>2, <1>5, <2>1
  <2>3. QED
    BY <1>4, <2>1, <2>2 DEF Saved
<1>7. PICK K : K = KindsOf(m) /\ K = KindsOf(m)'
  BY <1>2, <1>3
<1>8. loader' = ("entry" \in K) /\ authority' = Authority(K)' /\ supplied' = Supply(K)'
  <2>1. Saved(Last(stack), K)
    <3>1. (m + 1) - 1 = m /\ m + 1 \in 1 .. m + 1
      BY <1>2
    <3>2. Saved(stack[m + 1], KindsOf(m))
      BY <1>5, <3>1
    <3>3. QED
      BY <1>1, <1>2, <1>7, <3>2
  <2>2. QED
    BY <1>4, <2>1 DEF Pop, Saved
<1>9. Framed'
  BY <1>1, <1>2, <1>6, <1>7, <1>8 DEF Framed
<1>10. "inner" \in KindsOf(Len(stack))' => config'.resolved
  BY <1>1, <1>2, <1>3 DEF CInv
<1>11. phase' \notin {"building", "failing"} => stack' = << >>
  BY <1>1
<1>12. QED
  BY <1>1, <1>9, <1>10, <1>11 DEF CInv

\* Outside of every constructor the contexts are those of no constructor,
\* whatever becomes of the configuration and of the build.
LEMMA OutsideCInv ==
    ASSUME CInv, stack = << >>, stack' = << >>, UNCHANGED contexts, Shaped(config')
    PROVE  CInv'
<1>1. PICK K : K = {} /\ K = KindsOf(Len(stack)) /\ K = KindsOf(Len(stack))'
  BY Emptied DEF KindsOf
<1>2. DOMAIN stack' = {} /\ IsSeq(stack')
  BY Emptied
<1>3. Authority(K) = Authority(K)' /\ Supply(K) = Supply(K)'
  BY <1>1 DEF Authority, Supply
<1>4. loader' = ("entry" \in K) /\ authority' = Authority(K)' /\ supplied' = Supply(K)'
  BY <1>1, <1>3 DEF CInv, Framed, contexts
<1>5. QED
  BY <1>1, <1>2, <1>4 DEF CInv, Framed

\* The steps inside a constructor that ask the configuration.
LEMMA ResolvedStay ==
    ASSUME CInv, config' = Resolve(config)
    PROVE  /\ Shaped(config')
           /\ config.resolved => config'.resolved /\ config'.M = config.M
           /\ "inner" \in KindsOf(Len(stack)) => config'.resolved /\ config'.M = config.M
PROOF BY ResolveShape DEF CInv

LEMMA EnterCInv == ASSUME CInv, EnterEntry \/ EnterInner PROVE CInv'
<1>1. CASE EnterEntry
  <2>1. UNCHANGED <<scenario, build, config>> /\ phase = "building"
    BY <1>1 DEF EnterEntry
  <2>2. Shaped(config') /\ ("inner" \in KindsOf(Len(stack)) => config'.resolved /\ config'.M = config.M)
    BY <2>1 DEF CInv
  <2>3. CASE Raise
    BY <2>1, <2>2, <2>3, StayCInv DEF Raise
  <2>4. CASE ~Raise
    <3>1. /\ Push("entry") /\ loader' = TRUE
          /\ authority' = IF Model = "draft" THEN "draft" ELSE authority
          /\ UNCHANGED supplied
      BY <1>1, <2>4 DEF EnterEntry
    <3>2. stack' = Append(stack, Frame("entry")) /\ phase' = "building"
      BY <2>1, <3>1 DEF Push
    <3>3. QED
      BY <2>1, <2>2, <3>1, <3>2, PushCInv
  <2>5. QED
    BY <2>3, <2>4
<1>2. CASE EnterInner
  <2>1. UNCHANGED <<scenario, build>> /\ phase = "building" /\ config' = Resolve(config)
    BY <1>2 DEF EnterInner
  <2>2. /\ Shaped(config')
        /\ config.resolved => config'.resolved /\ config'.M = config.M
        /\ "inner" \in KindsOf(Len(stack)) => config'.resolved /\ config'.M = config.M
    BY <2>1, ResolvedStay
  <2>3. CASE Raise
    BY <2>1, <2>2, <2>3, StayCInv DEF Raise
  <2>4. CASE ~Raise
    <3>1. /\ ~config'.broken
          /\ Push("inner")
          /\ supplied' = IF EmbeddingOf(config'.M, EmbeddingPrefix) # << >> THEN EmbeddingPrefix ELSE supplied
          /\ UNCHANGED <<loader, authority>>
      BY <1>2, <2>4 DEF EnterInner
    <3>2. config'.resolved
      BY <2>1, <3>1, ResolveShape DEF CInv
    <3>3. stack' = Append(stack, Frame("inner")) /\ phase' = "building"
      BY <2>1, <3>1 DEF Push
    <3>4. QED
      BY <2>1, <2>2, <3>1, <3>2, <3>3, PushCInv
  <2>5. QED
    BY <2>3, <2>4
<1>3. QED
  BY <1>1, <1>2

LEMMA AskCInv == ASSUME CInv, Ask PROVE CInv'
<1>1. UNCHANGED <<scenario, build>> /\ phase = "building"
  BY DEF Ask
<1>2. UNCHANGED <<stack, contexts>> /\ phase' \in {"building", "failing"}
  BY <1>1 DEF Ask, Raise
<1>3. config' = config \/ config' = Resolve(config)
  BY DEF Ask
<1>4. Shaped(config') /\ ("inner" \in KindsOf(Len(stack)) => config'.resolved /\ config'.M = config.M)
  BY <1>3, ResolvedStay DEF CInv
<1>5. QED
  BY <1>1, <1>2, <1>4, StayCInv

LEMMA LeaveCInv == ASSUME CInv, Leave \/ Unwind PROVE CInv'
<1>1. /\ stack # << >> /\ Pop /\ UNCHANGED <<scenario, build, config>>
      /\ phase' \in {"building", "failing"} \/ Len(stack) = 1
  BY DEF Leave, Unwind
<1>2. QED
  BY <1>1, PopCInv

LEMMA OutsideSteps == ASSUME CInv, Configure \/ PostLoad \/ NextBuild PROVE CInv'
<1>1. stack = << >> /\ stack' = << >> /\ UNCHANGED contexts
  BY DEF CInv, Configure, PostLoad, NextBuild
<1>2. CASE Configure
  <2>1. CASE config' = config
    BY <1>1, <2>1, OutsideCInv DEF CInv
  <2>2. CASE config' # config
    <3>1. PICK M : config' = Resolve(config) \/ config' = [Resolve(config) EXCEPT !.M = M]
      BY <1>2, <2>2 DEF Configure
    <3>2. Shaped(Resolve(config))
      BY ResolveShape DEF CInv
    <3>3. Shaped(config')
      BY <3>1, <3>2 DEF Shaped, Fields
    <3>4. QED
      BY <1>1, <3>3, OutsideCInv
  <2>3. QED
    BY <2>1, <2>2
<1>3. CASE PostLoad
  <2>1. PICK c : Shaped(c) /\ (config' = c \/ config' = BooksFrom(c, Source(c)))
    BY <1>3, ResolveShape DEF PostLoad, CInv
  <2>2. PICK from : config' = c \/ config' = [c EXCEPT !.source = from, !.booksFrom = from]
                    \/ config' = [c EXCEPT !.source = from]
    BY <2>1 DEF BooksFrom
  <2>3. Shaped(config')
    BY <2>1, <2>2 DEF Shaped, Fields
  <2>4. QED
    BY <1>1, <2>3, OutsideCInv
<1>4. CASE NextBuild
  <2>1. Shaped(config')
    BY <1>4 DEF NextBuild, Fresh, Shaped, Fields
  <2>2. QED
    BY <1>1, <2>1, OutsideCInv
<1>5. QED
  BY <1>2, <1>3, <1>4

LEMMA StepCInv == ASSUME CInv, [Next]_vars PROVE CInv'
<1>1. CASE EnterEntry \/ EnterInner
  BY <1>1, EnterCInv
<1>2. CASE Ask
  BY <1>2, AskCInv
<1>3. CASE Leave \/ Unwind
  BY <1>3, LeaveCInv
<1>4. CASE Configure \/ PostLoad \/ NextBuild
  BY <1>4, OutsideSteps
<1>5. CASE (\E m \in DOMAIN head : Publish(m)) \/ Fail \/ UNCHANGED vars
  <2>1. /\ UNCHANGED <<scenario, build, config, stack, contexts>>
        /\ phase' = phase \/ phase' = "failing"
    BY <1>5 DEF Publish, Fail, Raise, vars, contexts
  <2>2. /\ Shaped(config')
        /\ phase' \in {"building", "failing"} \/ stack = << >>
        /\ "inner" \in KindsOf(Len(stack)) => config'.resolved /\ config'.M = config.M
    BY <2>1 DEF CInv
  <2>3. QED
    BY <2>1, <2>2, StayCInv DEF CInv
<1>6. QED
  BY <1>1, <1>2, <1>3, <1>4, <1>5 DEF Next

\* The contexts hold throughout every life of a configuration.
LEMMA CInvariance == Spec => []CInv
<1>1. Init => CInv
  BY InitCInv
<1>2. CInv /\ [Next]_vars => CInv'
  BY StepCInv
<1>3. QED
  BY <1>1, <1>2, PTL DEF Spec

\* Wherever constructors nest and whichever of them raises, each context is in
\* force exactly while a constructor that set it runs.
THEOREM ContextsAreRestored == Spec => []ContextsRestored
<1>1. CInv => ContextsRestored
  <2> SUFFICES ASSUME CInv PROVE ContextsRestored
    OBVIOUS
  <2>1. DOMAIN stack = 1 .. Len(stack)
    BY LenProperties DEF CInv, IsSeq
  <2>2. {stack[i].kind : i \in DOMAIN stack} = KindsOf(Len(stack))
    BY <2>1 DEF KindsOf
  <2>3. QED
    BY <2>2 DEF ContextsRestored, CInv, Framed, Authority, Supply
<1>2. QED
  BY <1>1, CInvariance, PTL

------------------------------------------------------------------------------
(* The sidecars. *)

\* The one source that agrees with the model being built.
Here == [model |-> Model, revision |-> Revision(Model)]

\* Every source of c is the built model's, or still to be found.
Agreeing(c) == \A f \in Froms : c[f] \in {Absent, Here}

\* What c asks next is the built model's.
Guided(c) == c.source = Absent => InForce = Model

\* A draft that has decoders has found its source.
Decoded ==
    (\E i \in DOMAIN answers : answers[i].method.kind \in Decoders) =>
        Model = "target" \/ config.source = Here

SInv ==
    /\ scenario \in Scenarios /\ build \in 1 .. Len(scenario.builds)
    /\ \A i \in DOMAIN stack : stack[i].kind = Frames[i]
    /\ IsSeq(answers)
    /\ Agreeing(config)
    /\ Decoded

LEMMA Builds ==
    ASSUME NEW s \in Scenarios
    PROVE  /\ Len(s.builds) \in Nat \ {0} /\ DOMAIN s.builds = 1 .. Len(s.builds)
           /\ \A b \in 1 .. Len(s.builds) :
                  s.builds[b] \in {"target", "draft"} /\ s.builds[b] \in ToSet(s.builds)
<1>1. s.builds \in Seq({"target", "draft"}) /\ s.builds # << >>
  BY ScenariosAssumption
<1>2. Len(s.builds) \in Nat \ {0}
  BY <1>1, EmptySeq
<1>3. DOMAIN s.builds = 1 .. Len(s.builds)
      /\ s.builds \in [1 .. Len(s.builds) -> {"target", "draft"}]
  BY <1>1, LenProperties
<1>4. QED
  BY <1>2, <1>3 DEF ToSet

LEMMA ModelKnown == SInv => Model \in {"target", "draft"} /\ Model \in ToSet(scenario.builds)
PROOF BY Builds DEF SInv, Model

LEMMA HereIsReal == ASSUME SInv PROVE Here # Absent
<1>1. Model \in {"target", "draft"} /\ scenario \in Scenarios
  BY ModelKnown DEF SInv
<1>2. Revision(Model) \in {1, Absent, scenario.models[Model].commit, scenario.models[Model].requested}
  <2> DEFINE c == scenario.models[Model]
  <2>1. CASE ~c.hub
    BY <2>1 DEF Revision
  <2>2. CASE c.hub /\ c.commit # Absent
    BY <2>2 DEF Revision
  <2>3. CASE c.hub /\ c.commit = Absent /\ c.requested # Absent
    BY <2>3 DEF Revision
  <2>4. CASE c.hub /\ c.commit = Absent /\ c.requested = Absent
    BY <2>4 DEF Revision
  <2>5. QED
    BY <2>1, <2>2, <2>3, <2>4
<1>3. QED
  BY <1>1, <1>2, AbsentAssumption DEF Here

\* While a draft is built its authority is in force; while a target is, none.
LEMMA WhoIsInForce ==
    ASSUME CInv, SInv
    PROVE  /\ Model = "target" => authority = Absent /\ InForce = Model
           /\ Model = "draft" /\ stack # << >> => authority = Model /\ InForce = Model
           /\ authority # Absent => authority = Model /\ InForce = Model
<1>1. authority = Authority(KindsOf(Len(stack)))
  BY DEF CInv, Framed
<1>2. Absent \notin {"target", "draft"} /\ Model \in {"target", "draft"}
  BY AbsentAssumption, ModelKnown
<1>3. Model = "draft" /\ stack # << >> => authority = "draft"
  <2> SUFFICES ASSUME Model = "draft", stack # << >> PROVE authority = "draft"
    OBVIOUS
  <2>1. 1 \in 1 .. Len(stack) /\ DOMAIN stack = 1 .. Len(stack)
    BY LenProperties, EmptySeq DEF CInv, IsSeq
  <2>2. stack[1].kind = "entry"
    BY <2>1, ScenariosAssumption, ModelKnown DEF SInv, Frames
  <2>3. "entry" \in KindsOf(Len(stack))
    BY <2>1, <2>2 DEF KindsOf
  <2>4. QED
    BY <1>1, <2>3 DEF Authority
<1>4. QED
  BY <1>1, <1>2, <1>3 DEF InForce, Authority

LEMMA SourceIsHere ==
    ASSUME SInv, NEW c, Agreeing(c), Guided(c)
    PROVE  Source(c) = Here
PROOF BY DEF Agreeing, Guided, Source, Here, Froms

\* Resolution finds the built model's sidecars and no others.
LEMMA SettleAgrees ==
    ASSUME SInv, NEW c, Shaped(c), Agreeing(c), Guided(c)
    PROVE  /\ Agreeing(Settle(c)) /\ Guided(Settle(c))
           /\ c.source = Here => Settle(c).source = Here
<1>1. CASE c.resolved
  BY <1>1, SettleShape
<1>2. CASE ~c.resolved
  <2>1. DocOf(c) = Here
    BY SourceIsHere DEF DocOf, Here
  <2>2. PICK e : /\ Shaped(e) /\ e.source \in {c.source, Here} /\ e.resolved = c.resolved
                 /\ \A f \in Froms : Read(c, Here)[f] \in {c[f], Here, Source(e)}
                 /\ Read(c, Here).source \in {c.source, Here, Source(e)}
    BY ReadKeeps
  <2>3. Source(e) = Here
    BY <2>2, HereIsReal DEF Source, Guided, Here, Agreeing, Froms
  <2>4. \A f \in Froms : Settle(c)[f] = Read(c, Here)[f]
    BY <1>2, <2>1, SettleShape
  <2>5. Settle(c).source \in {c.source, Here}
    BY <2>2, <2>3, <2>4 DEF Froms
  <2>6. QED
    BY <2>2, <2>3, <2>4, <2>5, HereIsReal DEF Agreeing, Guided
<1>3. QED
  BY <1>1, <1>2

LEMMA ResolveAgrees ==
    ASSUME CInv, SInv, Guided(config)
    PROVE  /\ Agreeing(Resolve(config)) /\ Guided(Resolve(config))
           /\ authority # Absent \/ config.source = Here => Resolve(config).source = Here
<1>1. Shaped(config) /\ Agreeing(config)
  BY DEF CInv, SInv
<1>2. CASE config.source = Absent /\ authority # Absent
  <2>1. Pin(config).source = Here
    BY <1>1, <1>2, PinKeeps, SourceIsHere
  <2>2. Shaped(Pin(config)) /\ Agreeing(Pin(config)) /\ Guided(Pin(config))
    BY <1>1, <2>1, PinKeeps, HereIsReal DEF Agreeing, Guided, Froms, Fields
  <2>3. QED
    BY <2>1, <2>2, SettleAgrees DEF Resolve
<1>3. CASE ~(config.source = Absent /\ authority # Absent)
  <2>1. Pin(config) = config
    BY <1>3 DEF Pin
  <2>2. authority # Absent => config.source = Here
    BY <1>1, <1>3 DEF Agreeing, Froms
  <2>3. QED
    BY <1>1, <2>1, <2>2, SettleAgrees DEF Resolve
<1>4. QED
  BY <1>2, <1>3

LEMMA HereStays ==
    ASSUME UNCHANGED <<scenario, build>>
    PROVE  Model' = Model /\ Here' = Here /\ Frames' = Frames
PROOF BY DEF Model, Here, Frames, Revision

\* A step that asks nothing, or asks and answers nothing.
LEMMA QuietSInv ==
    ASSUME SInv, UNCHANGED <<scenario, build, answers>>,
           \A i \in DOMAIN stack' : stack'[i].kind = Frames[i],
           \A f \in Froms : config'[f] \in {Absent, Here},
           config.source = Here => config'.source = Here
    PROVE  SInv'
<1>1. Model' = Model /\ Here' = Here /\ Frames' = Frames
  BY HereStays
<1>2. Agreeing(config)'
  BY <1>1 DEF Agreeing
<1>3. Decoded'
  BY <1>1 DEF SInv, Decoded
<1>4. QED
  BY <1>1, <1>2, <1>3 DEF SInv

LEMMA InitSInv == Init => SInv
<1> SUFFICES ASSUME Init PROVE SInv
  OBVIOUS
<1>1. scenario \in Scenarios /\ build \in 1 .. Len(scenario.builds)
  BY Builds DEF Init
<1>2. IsSeq(answers) /\ DOMAIN answers = {} /\ DOMAIN stack = {}
  BY Emptied DEF Init
<1>3. Agreeing(config)
  BY DEF Init, Fresh, Agreeing, Froms
<1>4. QED
  BY <1>1, <1>2, <1>3 DEF SInv, Decoded

\* Constructors nest as the model's classes do.
LEMMA PushKinds ==
    ASSUME CInv, SInv, NEW kind, kind = Frames[Len(stack) + 1],
           stack' = Append(stack, Frame(kind))
    PROVE  \A i \in DOMAIN stack' : stack'[i].kind = Frames[i]
<1>1. Extends(stack', stack, Frame(kind))
  BY Appended DEF CInv
<1>2. PICK n \in Nat : n = Len(stack)
  BY <1>1 DEF Extends
<1>3. /\ DOMAIN stack = 1 .. n /\ DOMAIN stack' = 1 .. n + 1
      /\ stack'[n + 1].kind = kind
      /\ \A i \in 1 .. n : stack'[i] = stack[i]
  BY <1>1, <1>2 DEF Extends, Frame
<1>4. \A i \in 1 .. n + 1 : i \in 1 .. n \/ i = n + 1
  BY <1>2
<1>5. QED
  BY <1>2, <1>3, <1>4 DEF SInv

LEMMA EnterSInv == ASSUME CInv, SInv, EnterEntry \/ EnterInner PROVE SInv'
<1>1. UNCHANGED <<scenario, build, answers>> /\ phase = "building"
  BY DEF EnterEntry, EnterInner
<1>2. \A i \in DOMAIN stack' : stack'[i].kind = Frames[i]
  <2>1. CASE stack' = stack
    BY <2>1 DEF SInv
  <2>2. CASE stack' # stack
    <3>1. PICK kind : kind = Frames[Len(stack) + 1] /\ stack' = Append(stack, Frame(kind))
      BY <2>2 DEF EnterEntry, EnterInner, Raise, Push
    <3>2. QED
      BY <3>1, PushKinds
  <2>3. QED
    BY <2>1, <2>2
<1>3. CASE EnterEntry
  <2>1. config' = config
    BY <1>3 DEF EnterEntry
  <2>2. QED
    BY <1>1, <1>2, <2>1, QuietSInv DEF SInv, Agreeing
<1>4. CASE EnterInner
  <2>1. config' = Resolve(config)
    BY <1>4 DEF EnterInner
  <2>2. Guided(config)
    <3>1. CASE Model = "target"
      BY <3>1, WhoIsInForce DEF Guided
    <3>2. CASE Model = "draft"
      <4>1. Frames[Len(stack) + 1] = "inner"
        BY <1>4 DEF EnterInner
      <4>2. Frames[1] = "entry"
        BY <3>2, ScenariosAssumption, ModelKnown DEF SInv, Frames
      <4>3. stack # << >>
        BY <4>1, <4>2, Emptied
      <4>4. QED
        BY <3>2, <4>3, WhoIsInForce DEF Guided
    <3>3. QED
      BY <3>1, <3>2, ModelKnown
  <2>3. /\ \A f \in Froms : config'[f] \in {Absent, Here}
        /\ config.source = Here => config'.source = Here
    BY <2>1, <2>2, ResolveAgrees DEF Agreeing
  <2>4. QED
    BY <1>1, <1>2, <2>3, QuietSInv
<1>5. QED
  BY <1>3, <1>4

\* A draft's modules are asked for inside its entry class.
LEMMA AskSInv == ASSUME CInv, SInv, Ask PROVE SInv'
<1>1. /\ UNCHANGED <<scenario, build>> /\ stack' = stack
      /\ ~Finished /\ Depth = Len(stack)
  BY DEF Ask, Raise
<1>2. Model' = Model /\ Here' = Here /\ Frames' = Frames
  BY <1>1, HereStays
<1>3. Model = "draft" => stack # << >>
  <2> SUFFICES ASSUME Model = "draft" PROVE stack # << >>
    OBVIOUS
  <2>1. Len(answers) + 1 \in DOMAIN Modules /\ Modules[Len(answers) + 1].depth = Len(stack)
    BY <1>1 DEF Finished, Depth, NextModule
  <2>2. Len(stack) # 0
    BY <2>1, ScenariosAssumption, ModelKnown DEF SInv, Modules
  <2>3. QED
    BY <2>2, Emptied
<1>4. Guided(config) /\ (Model = "draft" => authority # Absent)
  BY <1>3, WhoIsInForce, ModelKnown, AbsentAssumption DEF Guided
<1>5. CASE answers' = answers
  <2>1. config' = config \/ config' = Resolve(config)
    BY DEF Ask
  <2>2. /\ \A f \in Froms : config'[f] \in {Absent, Here}
        /\ config.source = Here => config'.source = Here
    BY <1>4, <2>1, ResolveAgrees DEF SInv, Agreeing
  <2>3. QED
    BY <1>1, <1>5, <2>2, QuietSInv DEF SInv
<1>6. CASE answers' # answers
  <2>1. PICK method : /\ answers' = Append(answers, [layer |-> NextModule, method |-> method])
                      /\ \/ config' = config /\ method = Bf16
                         \/ config' = Resolve(config)
    BY <1>6 DEF Ask, Answer
  <2>2. PICK entry : entry.method = method /\ answers' = Append(answers, entry)
    <3>1. [layer |-> NextModule, method |-> method].method = method
      OBVIOUS
    <3>2. WITNESS [layer |-> NextModule, method |-> method]
    <3>3. QED
      BY <2>1, <3>1
  <2>3. IsSeq(answers') /\ Extends(answers', answers, entry)
    BY <2>2, Appended DEF SInv
  <2>4. PICK n \in Nat : n = Len(answers)
    BY <2>3 DEF Extends
  <2>5. /\ DOMAIN answers = 1 .. n /\ DOMAIN answers' = 1 .. n + 1
        /\ answers'[n + 1].method = method
        /\ \A i \in 1 .. n : answers'[i] = answers[i]
    BY <2>2, <2>3, <2>4 DEF Extends
  <2>6. Bf16.kind \notin Decoders
    BY DEF Bf16, Decoders
  <2>7. CASE config' = config /\ method = Bf16
    <3>1. Agreeing(config)'
      BY <1>2, <2>7 DEF SInv, Agreeing
    <3>2. \A i \in 1 .. n + 1 : i \in 1 .. n \/ i = n + 1
      BY <2>4
    <3>3. Decoded'
      BY <1>2, <2>5, <2>6, <2>7, <3>2 DEF SInv, Decoded
    <3>4. QED
      BY <1>1, <1>2, <2>3, <3>1, <3>3 DEF SInv
  <2>8. CASE config' = Resolve(config)
    <3>1. Agreeing(config)'
      BY <1>2, <1>4, <2>8, ResolveAgrees DEF Agreeing
    <3>2. Model = "draft" => config'.source = Here
      BY <1>4, <2>8, ResolveAgrees
    <3>3. Decoded'
      BY <1>2, <3>2, ModelKnown DEF Decoded
    <3>4. QED
      BY <1>1, <1>2, <2>3, <3>1, <3>3 DEF SInv
  <2>9. QED
    BY <2>1, <2>7, <2>8
<1>7. QED
  BY <1>5, <1>6

LEMMA LeaveSInv == ASSUME CInv, SInv, Leave \/ Unwind PROVE SInv'
<1>1. /\ UNCHANGED <<scenario, build, answers, config>>
      /\ IsSeq(stack) /\ stack # << >> /\ stack' = Front(stack)
  BY DEF Leave, Unwind, Pop, CInv
<1>2. Shortens(stack', stack)
  BY <1>1, Fronted
<1>3. DOMAIN stack' \subseteq DOMAIN stack /\ \A i \in DOMAIN stack' : stack'[i] = stack[i]
  BY <1>2 DEF Shortens
<1>4. QED
  BY <1>1, <1>3, QuietSInv DEF SInv, Agreeing

\* The mapper of a model is handed over outside of every constructor.
LEMMA ConfigureSInv == ASSUME CInv, SInv, Configure PROVE SInv'
<1>1. UNCHANGED <<scenario, build, answers, stack>>
  BY DEF Configure
<1>2. CASE config' = config
  BY <1>1, <1>2, QuietSInv DEF SInv, Agreeing
<1>3. CASE config' # config
  <2>1. PICK M : config' = Resolve(config) \/ config' = [Resolve(config) EXCEPT !.M = M]
    BY <1>3 DEF Configure
  <2>2. Model = "target"
    <3>1. scenario.mapper[Model] # Absent
      BY <1>3 DEF Configure
    <3>2. QED
      BY <3>1, ScenariosAssumption, ModelKnown DEF SInv
  <2>3. Guided(config)
    BY <2>2, WhoIsInForce DEF Guided
  <2>4. Shaped(Resolve(config))
    BY ResolveShape DEF CInv
  <2>5. \A f \in Froms : config'[f] = Resolve(config)[f]
    BY <2>1, <2>4 DEF Shaped, Fields, Froms
  <2>6. /\ \A f \in Froms : config'[f] \in {Absent, Here}
        /\ config.source = Here => config'.source = Here
    BY <2>3, <2>5, ResolveAgrees DEF Agreeing, Froms
  <2>7. QED
    BY <1>1, <2>6, QuietSInv DEF SInv
<1>4. QED
  BY <1>2, <1>3

\* The codebooks are read after the load, when no authority is in force.
LEMMA PostLoadSInv == ASSUME CInv, SInv, PostLoad PROVE SInv'
<1>1. UNCHANGED <<scenario, build, answers, stack>>
  BY DEF PostLoad
<1>2. CASE config' = config
  BY <1>1, <1>2, QuietSInv DEF SInv, Agreeing
<1>3. CASE config' # config
  <2> DEFINE c == Resolve(config)
  <2>1. /\ config' = BooksFrom(c, Source(c))
        /\ \E i \in DOMAIN answers : answers[i].method.kind \in Decoders
    BY <1>3 DEF PostLoad
  <2>2. Guided(config)
    BY <2>1, WhoIsInForce, HereIsReal DEF SInv, Decoded, Guided
  <2>3. Shaped(c) /\ Agreeing(c) /\ Guided(c)
    BY <2>2, ResolveShape, ResolveAgrees DEF CInv
  <2> HIDE DEF c
  <2>4. Source(c) = Here
    BY <2>3, SourceIsHere
  <2>5. \/ config' = [c EXCEPT !.source = Here, !.booksFrom = Here]
        \/ config' = [c EXCEPT !.source = Here]
    BY <2>1, <2>4 DEF BooksFrom
  <2>6. \A f \in Froms : config'[f] \in {c[f], Here} /\ config'.source = Here
    BY <2>3, <2>5 DEF Shaped, Fields, Froms
  <2>7. /\ \A f \in Froms : config'[f] \in {Absent, Here}
        /\ config'.source = Here
    BY <2>3, <2>6 DEF Agreeing, Froms
  <2>8. QED
    BY <1>1, <2>7, QuietSInv DEF SInv
<1>4. QED
  BY <1>2, <1>3

LEMMA NextBuildSInv == ASSUME CInv, SInv, NextBuild PROVE SInv'
<1>1. scenario' = scenario /\ build' \in 1 .. Len(scenario.builds)
  BY Builds DEF SInv, NextBuild
<1>2. IsSeq(answers') /\ DOMAIN answers' = {} /\ DOMAIN stack' = {}
  BY Emptied DEF NextBuild
<1>3. Agreeing(config)'
  BY DEF NextBuild, Fresh, Agreeing, Froms
<1>4. Decoded'
  BY <1>2 DEF Decoded
<1>5. QED
  BY <1>1, <1>2, <1>3, <1>4 DEF SInv

LEMMA StepSInv == ASSUME CInv, SInv, [Next]_vars PROVE SInv'
<1>1. CASE EnterEntry \/ EnterInner
  BY <1>1, EnterSInv
<1>2. CASE Ask
  BY <1>2, AskSInv
<1>3. CASE Leave \/ Unwind
  BY <1>3, LeaveSInv
<1>4. CASE Configure \/ PostLoad \/ NextBuild
  BY <1>4, ConfigureSInv, PostLoadSInv, NextBuildSInv
<1>5. CASE (\E m \in DOMAIN head : Publish(m)) \/ Fail \/ UNCHANGED vars
  <2>1. UNCHANGED <<scenario, build, config, stack, answers>>
    BY <1>5 DEF Publish, Fail, Raise, vars
  <2>2. QED
    BY <2>1, QuietSInv DEF SInv, Agreeing
<1>6. QED
  BY <1>1, <1>2, <1>3, <1>4, <1>5 DEF Next

\* Every document, scale and codebook a configuration works with is of one
\* revision of the model being built: a draft never reads its target's files,
\* nor a target its draft's, whenever and under whichever constructor the
\* first of them is asked for.
THEOREM SidecarsAreTheModels == Spec => []SidecarsAgree
<1>1. Init => SInv
  BY InitSInv
<1>2. CInv /\ SInv /\ [Next]_vars => SInv'
  BY StepSInv
<1>3. SInv => SidecarsAgree
  BY DEF SInv, Agreeing, Froms, Here, SidecarsAgree
<1>4. QED
  BY <1>1, <1>2, <1>3, CInvariance, PTL DEF Spec

------------------------------------------------------------------------------
(* Mixed stacks of experts. *)

\* Every set of numbers has a least one; a property of 0 and of the successors
\* is one of all.
LEMMA Least ==
    ASSUME NEW S \in SUBSET Nat, S # {}
    PROVE  \E k \in S : \A j \in S : k <= j
<1>1. PICK k \in S : \A j \in S : <<j, k>> \notin OpToRel(<, Nat)
  BY WFMin, NatLessThanWellFounded
<1>2. \A j \in S : ~(j < k)
  BY <1>1 DEF OpToRel
<1>3. QED
  BY <1>2

\* Sorted ids without a repetition cannot lag behind their places.
Sorted(ids) == ids \in Seq(Nat) /\ \A i \in 1 .. Len(ids) - 1 : ids[i] <= ids[i + 1]

LEMMA IdsOutrunPlaces ==
    ASSUME NEW ids, Sorted(ids), IsInjective(ids)
    PROVE  \A j \in DOMAIN ids : ids[j] \in Nat /\ j <= ids[j] + 1
<1> DEFINE Lag == {j \in 1 .. Len(ids) : ~(j <= ids[j] + 1)}
<1>1. Len(ids) \in Nat /\ DOMAIN ids = 1 .. Len(ids) /\ \A j \in 1 .. Len(ids) : ids[j] \in Nat
  BY DEF Sorted
<1>2. Lag = {}
  <2> SUFFICES ASSUME Lag # {} PROVE FALSE
    OBVIOUS
  <2>1. PICK k \in Lag : \A j \in Lag : k <= j
    <3>1. Lag \in SUBSET Nat
      OBVIOUS
    <3> HIDE DEF Lag
    <3>2. QED
      BY <3>1, Least
  <2>2. k \in 1 .. Len(ids) /\ k > ids[k] + 1 /\ ids[k] \in Nat
    BY <1>1, <2>1
  <2>3. k - 1 \in 1 .. Len(ids) - 1 /\ (k - 1) + 1 = k /\ k - 1 \in 1 .. Len(ids)
    BY <1>1, <2>2
  <2>4. k - 1 \notin Lag
    BY <2>1, <2>3
  <2>5. k - 1 <= ids[k - 1] + 1 /\ ids[k - 1] \in Nat
    BY <1>1, <2>3, <2>4
  <2>6. ids[k - 1] <= ids[k]
    BY <2>3 DEF Sorted
  <2>7. ids[k - 1] # ids[k]
    BY <1>1, <2>2, <2>3 DEF IsInjective
  <2>8. QED
    BY <2>2, <2>3, <2>5, <2>6, <2>7
<1>3. QED
  BY <1>1, <1>2

\* IndexMap finds each expert of a partition in the group that holds it.
LEMMA IndexFinds ==
    ASSUME NEW groups, NEW experts \in Nat, FamilyOk(groups, experts),
           \A i \in DOMAIN groups : Sorted(groups[i].ids),
           NEW e \in 0 .. experts - 1
    PROVE  LET place == IndexMap(groups, experts)[e]
           IN  /\ place[1] \in DOMAIN groups
               /\ place[2] \in DOMAIN groups[place[1]].ids
               /\ groups[place[1]].ids[place[2]] = e
<1> DEFINE places == (DOMAIN groups) \X (1 .. experts)
           Holds(p) == p[2] \in DOMAIN groups[p[1]].ids /\ groups[p[1]].ids[p[2]] = e
<1>1. PICK i \in DOMAIN groups : e \in ToSet(groups[i].ids)
  BY DEF FamilyOk, Ids
<1>2. PICK j \in DOMAIN groups[i].ids : groups[i].ids[j] = e
  BY <1>1 DEF ToSet
<1>3. j \in 1 .. experts
  <2>1. j \in 1 .. Len(groups[i].ids) /\ Len(groups[i].ids) \in Nat
    BY DEF Sorted
  <2>2. j <= e + 1
    BY <1>2, IdsOutrunPlaces DEF FamilyOk
  <2>3. QED
    BY <2>1, <2>2
<1> DEFINE q == <<i, j>>
           place == IndexMap(groups, experts)[e]
<1>4. q \in places /\ Holds(q)
  <2>1. q[1] = i /\ q[2] = j
    OBVIOUS
  <2>2. q \in places
    BY <1>3
  <2> HIDE DEF q
  <2>3. QED
    BY <1>2, <2>1, <2>2
<1>5. place = CHOOSE p \in places : Holds(p)
  BY DEF IndexMap, PlaceOf
<1>6. place \in places /\ Holds(place)
  <2> HIDE DEF places, Holds, place, q
  <2>1. QED
    BY <1>4, <1>5
<1>7. place[1] \in DOMAIN groups
  <2> HIDE DEF place
  <2>1. QED
    BY <1>6
<1>8. QED
  BY <1>6, <1>7

\* Only a stack that has a partition gets one.
LEMMA SourceKind ==
    ASSUME NEW w, NEW layer, NEW fmt
    PROVE  ServeSource(w, layer, fmt).kind # "partition"
BY DEF ServeSource, Refused

LEMMA DelegateKind ==
    ASSUME NEW M, NEW P, NEW w, NEW layer, NEW n, NEW suffixes
    PROVE  Delegate(M, P, w, layer, n, suffixes).kind # "partition"
<1>1. CtMethod(M, P, n, suffixes).kind # "partition"
  BY DEF CtMethod, Bf16
<1>2. QED
  BY <1>1 DEF Delegate, Judged, Refused

LEMMA LinearKind ==
    ASSUME NEW M, NEW P, NEW w, NEW layer, NEW loader1
    PROVE  Linear(M, P, w, layer, loader1).kind # "partition"
<1>1. \A n, s : Cb(M, P, w, n, s).kind # "partition"
  BY DEF Cb, Refused
<1>2. \A n, s, wire : ServeTrellis(M, w, n, s, wire).kind # "partition"
  BY DEF ServeTrellis, Refused
<1>3. \A roles, methods : Composite(roles, methods, loader1).kind # "partition"
  BY DEF Composite, Refused
<1>4. \A n, roles : ServeFused(M, P, w, layer, n, roles, loader1).kind # "partition"
  BY <1>1, <1>3, SourceKind DEF ServeFused
<1>5. \A n : ServePlain(M, P, w, layer, n).kind # "partition"
  BY DelegateKind DEF ServePlain, Refused, Bf16
<1>6. \A roles, missing, scheme, source :
          ServeLinear(M, P, w, layer, loader1, roles, missing, scheme, source).kind # "partition"
  BY <1>1, <1>4, <1>5, SourceKind DEF ServeLinear, Refused
<1>7. QED
  BY <1>2, <1>6 DEF Linear, LinearWith, Refused

LEMMA TableKind ==
    ASSUME NEW M, NEW P, NEW w, NEW layer
    PROVE  Embedding(M, P, w, layer).kind # "partition"
<1>1. \A fmt : ServeTable(M, P, w, layer, fmt).kind # "partition"
  BY DelegateKind DEF ServeTable, Refused, Bf16
<1>2. QED
  BY <1>1 DEF Embedding

LEMMA ExpertsKind ==
    ASSUME NEW M, NEW P, NEW w, NEW layer, Experts(M, P, w, layer).kind = "partition"
    PROVE  /\ Partitioned(M, layer.prefix)
           /\ Experts(M, P, w, layer) = ServePartition(M, w, layer)
<1>1. \A targets : Uniform(M, w, layer, targets).kind # "partition"
  BY DEF Uniform, ServeStack, Refused
<1>2. \A targets : Mixed(M, w, layer, targets).kind # "partition"
                   \/ Mixed(M, w, layer, targets) = ServePartition(M, w, layer)
  BY DEF Mixed, Refused
<1>3. \A targets, source :
        LET m == ServeExperts(M, P, w, layer, targets, source)
        IN  m.kind = "partition" => Partitioned(M, layer.prefix) /\ m = ServePartition(M, w, layer)
  BY <1>1, <1>2, SourceKind, DelegateKind DEF ServeExperts, Refused, NoMethod
<1>4. QED
  BY <1>3 DEF Experts

LEMMA PartitionClass ==
    ASSUME NEW M, NEW P, NEW w, NEW layer, NEW loader1,
           QuantMethod(M, P, w, layer, loader1).kind = "partition"
    PROVE  layer.class = "experts"
PROOF BY LinearKind, TableKind DEF QuantMethod, NoMethod

LEMMA PartitionOnly ==
    ASSUME NEW M, NEW P, NEW w, NEW layer, NEW loader1,
           QuantMethod(M, P, w, layer, loader1).kind = "partition"
    PROVE  LET l == M.layers[LayerOf(layer.prefix)]
               m == QuantMethod(M, P, w, layer, loader1)
           IN  /\ layer.class = "experts"
               /\ LayerOf(layer.prefix) \in DOMAIN M.layers
               /\ layer.experts = ExpertCount(l)
               /\ m.maps = [f \in Families |-> IndexMap(l[f], layer.experts)]
               /\ m.wires = [f \in Families |-> [i \in DOMAIN l[f] |-> l[f][i].wire]]
<1> DEFINE m == QuantMethod(M, P, w, layer, loader1)
<1>1. layer.class = "experts" /\ m = Experts(M, P, w, layer)
  <2>1. layer.class = "experts"
    BY PartitionClass
  <2>2. QED
    BY <2>1 DEF QuantMethod
<1>2. Partitioned(M, layer.prefix) /\ m = ServePartition(M, w, layer) /\ m.kind = "partition"
  <2>1. Experts(M, P, w, layer).kind = "partition"
    BY <1>1
  <2>2. Partitioned(M, layer.prefix) /\ Experts(M, P, w, layer) = ServePartition(M, w, layer)
    BY <2>1, ExpertsKind
  <2>3. QED
    BY <1>1, <2>1, <2>2
<1>3. m # Refused
  BY <1>2 DEF Refused
<1>4. LayerOf(layer.prefix) \in DOMAIN M.layers
  BY <1>2 DEF Partitioned
<1> DEFINE l == M.layers[LayerOf(layer.prefix)]
           split == [kind |-> "partition",
                     maps |-> [f \in Families |-> IndexMap(l[f], layer.experts)],
                     wires |-> [f \in Families |-> [i \in DOMAIN l[f] |-> l[f][i].wire]]]
<1>5. layer.experts = ExpertCount(l) /\ m = split
  <2> HIDE DEF split, m
  <2>1. ServePartition(M, w, layer) # Refused
    BY <1>2, <1>3
  <2>2. \/ layer.experts = ExpertCount(l) /\ ServePartition(M, w, layer) = split
        \/ ServePartition(M, w, layer) = Refused
    BY DEF ServePartition, split
  <2>3. QED
    BY <1>2, <2>1, <2>2
<1>6. QED
  <2>1. /\ split.maps = [f \in Families |-> IndexMap(l[f], layer.experts)]
        /\ split.wires = [f \in Families |-> [i \in DOMAIN l[f] |-> l[f][i].wire]]
    OBVIOUS
  <2> HIDE DEF split
  <2>2. QED
    BY <1>1, <1>4, <1>5, <2>1

------------------------------------------------------------------------------
(* What a resolved configuration owes its document. *)

\* A resolved configuration read a document that was accepted, and keeps the
\* partitions it declares.
Kept(c, doc) ==
    c.resolved => Accepted(doc) /\ "layers" \in DOMAIN c.M /\ c.M.layers = Layers(doc)
Owes(c) == Kept(c, At(c.doc).doc)

\* The stack that was split is one that is declared.
Split(a, layers) ==
    LET l == layers[LayerOf(a.layer.prefix)]
    IN /\ LayerOf(a.layer.prefix) \in DOMAIN layers
       /\ a.layer.experts \in Nat /\ a.layer.experts = ExpertCount(l)
       /\ a.method.maps = [f \in Families |-> IndexMap(l[f], a.layer.experts)]
       /\ a.method.wires = [f \in Families |-> [i \in DOMAIN l[f] |-> l[f][i].wire]]

PInv ==
    /\ Owes(config)
    /\ \A i \in DOMAIN answers :
           answers[i].method.kind = "partition" => config.resolved /\ Split(answers[i], config.M.layers)

LEMMA ReadAccepts ==
    ASSUME NEW c, Shaped(c), NEW from, ~Read(c, from).broken
    PROVE  Accepted(At(Read(c, from).doc).doc)
<1> DEFINE e == [c EXCEPT !.doc = from, !.source = IF Inline THEN @ ELSE from]
           d == Read(c, from)
<1>1. e.doc = from /\ Shaped(e)
  BY DEF Shaped, Fields
<1>2. Accepted(At(from).doc) /\ d = Attest(e, At(from).doc, Source(e))
  <2>1. CASE Unpinned(from)
    <3>1. d = [c EXCEPT !.broken = TRUE]
      BY <2>1 DEF Read
    <3>2. d.broken
      BY <3>1 DEF Shaped, Fields
    <3>3. QED
      BY <3>2
  <2>2. CASE ~Unpinned(from) /\ ~Accepted(At(from).doc)
    <3>1. d = [e EXCEPT !.broken = TRUE]
      BY <2>2 DEF Read, Judge
    <3>2. d.broken
      <4> HIDE DEF e
      <4>1. QED
        BY <1>1, <3>1 DEF Shaped, Fields
    <3>3. QED
      BY <3>2
  <2>3. CASE ~Unpinned(from) /\ Accepted(At(from).doc)
    BY <2>3 DEF Read, Judge
  <2>4. QED
    BY <2>1, <2>2, <2>3
<1>3. d.doc = from
  <2> DEFINE s == Source(e) doc == At(from).doc
  <2>1. \/ d = [e EXCEPT !.M = [scales |-> << >>]]
        \/ d = [e EXCEPT !.source = s, !.scalesFrom = s, !.M = [scales |-> At(s).scalars]]
        \/ d = [e EXCEPT !.broken = TRUE]
    BY <1>2 DEF Attest
  <2> HIDE DEF d, e, s
  <2>2. QED
    BY <1>1, <2>1 DEF Shaped, Fields
<1>4. QED
  BY <1>2, <1>3

LEMMA ReadResolves ==
    ASSUME NEW c, Shaped(c), NEW from
    PROVE  Read(c, from).resolved = c.resolved
<1> DEFINE e == [c EXCEPT !.doc = from, !.source = IF Inline THEN @ ELSE from]
           d == Read(c, from)
<1>1. Shaped(e) /\ e.resolved = c.resolved
  BY DEF Shaped, Fields
<1>2. \/ d = [c EXCEPT !.broken = TRUE]
      \/ d = [e EXCEPT !.broken = TRUE]
      \/ d = Attest(e, At(from).doc, Source(e))
  BY DEF Read, Judge
<1> HIDE DEF d, e
<1>3. CASE d = Attest(e, At(from).doc, Source(e))
  <2>1. d.resolved = e.resolved
    BY <1>1, <1>3, AttestKeeps
  <2>2. QED
    BY <1>1, <2>1 DEF d
<1>4. CASE d = [c EXCEPT !.broken = TRUE] \/ d = [e EXCEPT !.broken = TRUE]
  <2>1. d.resolved = c.resolved
    BY <1>1, <1>4 DEF Shaped, Fields
  <2>2. QED
    BY <2>1 DEF d
<1>5. QED
  BY <1>2, <1>3, <1>4

LEMMA SettleOwes ==
    ASSUME NEW c, Shaped(c), Owes(c)
    PROVE  Owes(Settle(c))
<1>1. CASE c.resolved
  BY <1>1 DEF Settle
<1>2. CASE ~c.resolved
  <2> DEFINE d == Read(c, DocOf(c))
  <2>1. Shaped(d) /\ d.resolved = FALSE
    <3>1. Shaped(d)
      BY ReadKeeps
    <3>2. d.resolved = c.resolved
      BY ReadResolves
    <3>3. QED
      BY <1>2, <3>1, <3>2 DEF Shaped
  <2>2. Settle(c) = Indexed(d) /\ (~d.broken => Accepted(At(d.doc).doc))
    BY <1>2, ReadAccepts DEF Settle
  <2> HIDE DEF d
  <2>3. CASE d.broken
    BY <2>1, <2>2, <2>3 DEF Indexed, Owes, Kept
  <2>4. CASE ~d.broken
    <3> DEFINE R == Resolution(At(d.doc).doc, d.M.scales)
    <3>1. Indexed(d) = [d EXCEPT !.M = R, !.resolved = TRUE]
      BY <2>4 DEF Indexed
    <3>2. "layers" \in DOMAIN R /\ R.layers = Layers(At(d.doc).doc)
      BY DEF Resolution
    <3> HIDE DEF R
    <3>3. Indexed(d).doc = d.doc /\ Indexed(d).M = R
      BY <2>1, <3>1 DEF Shaped, Fields
    <3>4. QED
      BY <2>2, <2>4, <3>2, <3>3 DEF Owes, Kept
  <2>5. QED
    BY <2>3, <2>4
<1>3. QED
  BY <1>1, <1>2

LEMMA ResolveOwes ==
    ASSUME NEW c, Shaped(c), Owes(c)
    PROVE  /\ Owes(Resolve(c))
           /\ c.resolved => Resolve(c).resolved /\ Resolve(c).M = c.M
<1>1. Shaped(Pin(c)) /\ Pin(c).resolved = c.resolved /\ Pin(c).M = c.M /\ Pin(c).doc = c.doc
  BY PinKeeps DEF Fields
<1>2. Owes(Pin(c))
  BY <1>1 DEF Owes, Kept
<1>3. QED
  BY <1>1, <1>2, SettleOwes, ResolveShape DEF Resolve

\* A step that answers nothing and keeps the declared partitions.
LEMMA QuietPInv ==
    ASSUME PInv, UNCHANGED <<scenario, answers>>, Owes(config'),
           config.resolved => config'.resolved /\ config'.M.layers = config.M.layers
    PROVE  PInv'
<1>1. Owes(config)'
  BY DEF Owes, At
<1>2. ASSUME NEW i \in DOMAIN answers, answers[i].method.kind = "partition"
      PROVE  config'.resolved /\ Split(answers[i], config'.M.layers)
  BY <1>2 DEF PInv
<1>3. QED
  BY <1>1, <1>2 DEF PInv

\* What a module in a scenario is like that is handed a partition.
LEMMA SplitAsked ==
    ASSUME NEW N, ModuleOk(N), NEW M, NEW packed, NEW worker, NEW loader1,
           NEW asked, N.bare => asked.class = N.class, ~N.bare => asked = N,
           NEW method, method = QuantMethod(M, packed, worker, asked, loader1),
           method.kind = "partition", NEW a, a.layer = N, a.method = method
    PROVE  Split(a, M.layers)
<1>1. asked.class = "experts"
  <2>1. QuantMethod(M, packed, worker, asked, loader1).kind = "partition"
    OBVIOUS
  <2>2. QED
    BY <2>1, PartitionClass
<1>2. ~N.bare
  BY <1>1 DEF ModuleOk
<1>3. asked = N /\ N.class = "experts"
  BY <1>1, <1>2
<1>4. N.experts \in Nat
  BY <1>3 DEF ModuleOk
<1>5. LET l == M.layers[LayerOf(N.prefix)]
      IN  /\ LayerOf(N.prefix) \in DOMAIN M.layers
          /\ N.experts = ExpertCount(l)
          /\ method.maps = [f \in Families |-> IndexMap(l[f], N.experts)]
          /\ method.wires = [f \in Families |-> [i \in DOMAIN l[f] |-> l[f][i].wire]]
  BY <1>3, PartitionOnly
<1>6. QED
  BY <1>4, <1>5 DEF Split

LEMMA AskPInv == ASSUME CInv, SInv, PInv, Ask PROVE PInv'
<1>1. scenario' = scenario /\ ~Finished
  BY DEF Ask
<1>2. Shaped(config) /\ Owes(config)
  BY DEF CInv, PInv
<1>3. CASE answers' = answers
  <2>1. config' = config \/ config' = Resolve(config)
    BY DEF Ask
  <2>2. Owes(config') /\ (config.resolved => config'.resolved /\ config'.M.layers = config.M.layers)
    BY <1>2, <2>1, ResolveOwes
  <2>3. QED
    BY <1>1, <1>3, <2>2, QuietPInv
<1>4. CASE answers' # answers
  <2> DEFINE c == Resolve(config)
             N == NextModule
  <2>1. PICK method, entry :
            /\ answers' = Append(answers, entry) /\ entry = [layer |-> N, method |-> method]
            /\ \/ config' = config /\ method = Bf16
               \/ config' = c /\ ~c.broken /\ method = Method(c.M)
    <3>1. CASE Silent(NextModule)
      <4>1. answers' = Append(answers, [layer |-> N, method |-> Bf16]) /\ config' = config
        BY <3>1 DEF Ask, Answer
      <4>2. QED
        BY <4>1
    <3>2. CASE ~Silent(NextModule)
      <4>1. PICK method \in IF c.broken THEN {Refused} ELSE {Method(c.M)} :
                IF method = Refused THEN Raise /\ UNCHANGED answers ELSE Answer(NextModule, method)
        BY <3>2 DEF Ask
      <4>2. method # Refused /\ Answer(NextModule, method)
        BY <1>4, <4>1
      <4>3. ~c.broken /\ method = Method(c.M)
        BY <4>1, <4>2
      <4>4. config' = c
        BY <3>2 DEF Ask
      <4>5. QED
        BY <4>2, <4>3, <4>4 DEF Answer
    <3>3. QED
      BY <3>1, <3>2
  <2>2. entry.layer = N /\ entry.method = method
    <3> HIDE DEF N
    <3>1. QED
      BY <2>1
  <2>3. Owes(config') /\ (config.resolved => config'.resolved /\ config'.M.layers = config.M.layers)
    BY <1>2, <2>1, ResolveOwes
  <2>4. Owes(config)'
    BY <1>1, <2>3 DEF Owes, At
  <2>5. method.kind = "partition" => config'.resolved /\ Split(entry, config'.M.layers)
    <3> SUFFICES ASSUME method.kind = "partition"
                 PROVE  config'.resolved /\ Split(entry, config'.M.layers)
      OBVIOUS
    <3>1. config' = c /\ ~c.broken /\ method = Method(c.M)
      BY <2>1 DEF Bf16
    <3>2. c.resolved
      BY <1>2, <3>1, ResolveShape
    <3>3. ModuleOk(N)
      <4>1. N = scenario.layers[Model][Len(answers) + 1] /\ Len(answers) + 1 \in DOMAIN scenario.layers[Model]
        BY <1>1 DEF Finished, NextModule, Modules
      <4>2. scenario \in Scenarios /\ Model \in ToSet(scenario.builds)
        BY ModelKnown DEF SInv
      <4>3. QED
        BY <4>1, <4>2, ScenariosAssumption
    <3>4. method = QuantMethod(c.M, scenario.packed, scenario.worker, Asked(N), loader)
      BY <3>1 DEF Method
    <3>5. /\ N.bare => Asked(N).class = N.class
          /\ ~N.bare => Asked(N) = N
      <4> HIDE DEF N
      <4>1. "class" \in DOMAIN N
        BY <3>3 DEF ModuleOk
      <4>2. QED
        BY <4>1 DEF Asked
    <3> HIDE DEF N, c
    <3>6. Split(entry, c.M.layers)
      BY <2>2, <3>3, <3>4, <3>5, SplitAsked
    <3>7. QED
      BY <3>1, <3>2, <3>6
  <2>6. Extends(answers', answers, entry)
    BY <2>1, Appended DEF SInv
  <2>7. PICK n \in Nat : n = Len(answers)
    BY <2>6 DEF Extends
  <2>8. /\ DOMAIN answers = 1 .. n /\ DOMAIN answers' = 1 .. n + 1
        /\ answers'[n + 1] = entry
        /\ \A i \in 1 .. n : answers'[i] = answers[i]
    BY <2>6, <2>7 DEF Extends
  <2>9. ASSUME NEW i \in 1 .. n, answers[i].method.kind = "partition"
        PROVE  config'.resolved /\ Split(answers[i], config'.M.layers)
    <3>1. config.resolved /\ Split(answers[i], config.M.layers)
      BY <2>8, <2>9 DEF PInv
    <3>2. QED
      BY <2>3, <3>1
  <2>10. ASSUME NEW i \in DOMAIN answers', answers'[i].method.kind = "partition"
         PROVE  config'.resolved /\ Split(answers'[i], config'.M.layers)
    <3>1. CASE i \in 1 .. n
      BY <2>8, <2>9, <2>10, <3>1
    <3>2. CASE i = n + 1
      BY <2>2, <2>5, <2>8, <2>10, <3>2
    <3>3. QED
      BY <2>7, <2>8, <3>1, <3>2
  <2>11. QED
    BY <2>4, <2>10 DEF PInv
<1>5. QED
  BY <1>3, <1>4

\* Renaming the indices leaves the partitions alone.
LEMMA RenameKeeps ==
    ASSUME NEW r, NEW M, "layers" \in DOMAIN M
    PROVE  "layers" \in DOMAIN Rename(r, M) /\ Rename(r, M).layers = M.layers
BY DEF Rename

LEMMA OutsidePInv == ASSUME CInv, PInv, Configure \/ PostLoad PROVE PInv'
<1> DEFINE c == Resolve(config)
<1>1. UNCHANGED <<scenario, answers>>
  BY DEF Configure, PostLoad
<1>2. /\ Shaped(c) /\ Owes(c)
      /\ config.resolved => c.resolved /\ c.M = config.M
      /\ ~c.broken => c.resolved
  BY ResolveOwes, ResolveShape DEF CInv, PInv
<1>3. \/ config' = config
      \/ config' = c
      \/ ~c.broken /\ \E r : config' = [c EXCEPT !.M = Rename(r, @)]
      \/ config' = BooksFrom(c, Source(c))
  BY DEF Configure, PostLoad
<1> HIDE DEF c
<1>4. Owes(config') /\ (config.resolved => config'.resolved /\ config'.M.layers = config.M.layers)
  <2>1. CASE config' = config \/ config' = c
    BY <1>2, <2>1 DEF PInv
  <2>2. CASE ~c.broken /\ \E r : config' = [c EXCEPT !.M = Rename(r, @)]
    <3>1. PICK r : config' = [c EXCEPT !.M = Rename(r, c.M)]
      BY <2>2
    <3> DEFINE R == Rename(r, c.M)
    <3>2. c.resolved /\ "layers" \in DOMAIN c.M
      BY <1>2, <2>2 DEF Owes, Kept
    <3>3. "layers" \in DOMAIN R /\ R.layers = c.M.layers
      BY <3>2, RenameKeeps
    <3>4. config' = [c EXCEPT !.M = R]
      BY <3>1
    <3> HIDE DEF R
    <3>5. config'.M = R /\ config'.doc = c.doc /\ config'.resolved = c.resolved
      BY <1>2, <3>4 DEF Shaped, Fields
    <3>6. QED
      BY <1>2, <3>2, <3>3, <3>5 DEF Owes, Kept
  <2>3. CASE config' = BooksFrom(c, Source(c))
    <3>1. PICK from : \/ config' = [c EXCEPT !.source = from, !.booksFrom = from]
                      \/ config' = [c EXCEPT !.source = from]
      BY <2>3 DEF BooksFrom
    <3>2. config'.M = c.M /\ config'.doc = c.doc /\ config'.resolved = c.resolved
      BY <1>2, <3>1 DEF Shaped, Fields
    <3>3. QED
      BY <1>2, <3>2 DEF Owes, Kept
  <2>4. QED
    BY <1>3, <2>1, <2>2, <2>3
<1>5. QED
  BY <1>1, <1>4, QuietPInv

LEMMA EnterPInv == ASSUME CInv, PInv, EnterEntry \/ EnterInner PROVE PInv'
<1>1. UNCHANGED <<scenario, answers>> /\ (config' = config \/ config' = Resolve(config))
  BY DEF EnterEntry, EnterInner
<1>2. Owes(config') /\ (config.resolved => config'.resolved /\ config'.M.layers = config.M.layers)
  BY <1>1, ResolveOwes DEF CInv, PInv
<1>3. QED
  BY <1>1, <1>2, QuietPInv

LEMMA NextBuildPInv == ASSUME NextBuild PROVE PInv'
<1>1. config'.resolved = FALSE
  BY DEF NextBuild, Fresh
<1>2. DOMAIN answers' = {}
  BY Emptied DEF NextBuild
<1>3. QED
  BY <1>1, <1>2 DEF PInv, Owes, Kept

LEMMA InitPInv == Init => PInv
<1> SUFFICES ASSUME Init PROVE PInv
  OBVIOUS
<1>1. config.resolved = FALSE
  BY DEF Init, Fresh
<1>2. DOMAIN answers = {}
  BY Emptied DEF Init
<1>3. QED
  BY <1>1, <1>2 DEF PInv, Owes, Kept

LEMMA StepPInv == ASSUME CInv, SInv, PInv, [Next]_vars PROVE PInv'
<1>1. CASE EnterEntry \/ EnterInner
  BY <1>1, EnterPInv
<1>2. CASE Ask
  BY <1>2, AskPInv
<1>3. CASE Configure \/ PostLoad
  BY <1>3, OutsidePInv
<1>4. CASE NextBuild
  BY <1>4, NextBuildPInv
<1>5. CASE (\E m \in DOMAIN head : Publish(m)) \/ Fail \/ Leave \/ Unwind \/ UNCHANGED vars
  <2>1. UNCHANGED <<scenario, config, answers>>
    BY <1>5 DEF Publish, Fail, Leave, Unwind, vars
  <2>2. Owes(config')
    BY <2>1 DEF PInv
  <2>3. QED
    BY <2>1, <2>2, QuietPInv
<1>6. QED
  BY <1>1, <1>2, <1>3, <1>4, <1>5 DEF Next

\* An accepted document's partitions are those of every expert.
LEMMA SplitServes ==
    ASSUME NEW doc, Accepted(doc), NEW a, Split(a, Layers(doc))
    PROVE  \A family \in Families :
               LET groups == doc.experts.layers[LayerOf(a.layer.prefix)][family]
               IN \A e \in 0 .. a.layer.experts - 1 : \E g \in ToSet(groups) :
                      LET s == Sub(a.method, family, e)
                      IN s.wire = g.wire /\ s.row \in DOMAIN g.ids /\ g.ids[s.row] = e
<1> DEFINE layer == LayerOf(a.layer.prefix)
           l == Layers(doc)[layer]
           n == a.layer.experts
<1>1. doc.experts # Absent /\ Layers(doc) = doc.experts.layers /\ layer \in DOMAIN doc.experts.layers
  <2>1. DOMAIN << >> = {}
    BY Emptied
  <2>2. QED
    BY <2>1 DEF Split, Layers
<1>2. n \in Nat /\ n = ExpertCount(l)
  BY DEF Split
<1>3. /\ a.method.maps = [f \in Families |-> IndexMap(l[f], n)]
      /\ a.method.wires = [f \in Families |-> [i \in DOMAIN l[f] |-> l[f][i].wire]]
  BY DEF Split
<1>4. \A family \in Families :
          /\ FamilyOk(l[family], n)
          /\ \A i \in DOMAIN l[family] : Sorted(l[family][i].ids)
  <2>1. PICK schemes : PartitionsOk(doc, schemes)
    BY DEF Accepted
  <2>2. \A family \in Families :
          /\ \A i \in DOMAIN l[family] : FormatGroupOk(layer, family, l[family][i], schemes)
          /\ FamilyOk(l[family], ExpertCount(l))
    BY <1>1, <2>1 DEF PartitionsOk
  <2>3. QED
    BY <1>2, <2>2 DEF FormatGroupOk, Sorted
<1> HIDE DEF l, n, layer
<1>5. ASSUME NEW family \in Families, NEW e \in 0 .. n - 1
      PROVE  \E g \in ToSet(l[family]) :
                 LET s == Sub(a.method, family, e)
                 IN s.wire = g.wire /\ s.row \in DOMAIN g.ids /\ g.ids[s.row] = e
  <2> DEFINE groups == l[family]
             place == IndexMap(groups, n)[e]
             s == Sub(a.method, family, e)
  <2>1. /\ place[1] \in DOMAIN groups
        /\ place[2] \in DOMAIN groups[place[1]].ids
        /\ groups[place[1]].ids[place[2]] = e
    BY <1>2, <1>4, IndexFinds
  <2>2. a.method.maps[family][e] = place
    BY <1>3
  <2>3. a.method.wires[family][place[1]] = groups[place[1]].wire
    BY <1>3, <2>1
  <2>4. s.wire = groups[place[1]].wire /\ s.row = place[2]
    <3>1. s = [wire |-> a.method.wires[family][place[1]], row |-> place[2]]
      BY <2>2 DEF Sub
    <3> HIDE DEF s, place
    <3>2. QED
      BY <2>3, <3>1
  <2>5. groups[place[1]] \in ToSet(groups)
    BY <2>1 DEF ToSet
  <2> HIDE DEF s, place, groups
  <2>6. QED
    BY <2>1, <2>4, <2>5 DEF s, groups
<1>6. QED
  BY <1>1, <1>5 DEF l, n, layer

\* Whatever stack of mixed formats a document declares, each of its experts is
\* decoded by the wire of the group that names it, from the row of the
\* sub-stack where the producer put it.
THEOREM ExpertsAreAsDeclared == Spec => []ExpertsAsDeclared
<1>1. SInv /\ CInv /\ PInv /\ [Next]_vars => PInv'
  BY StepPInv
<1>2. ASSUME PInv PROVE ExpertsAsDeclared
  <2>1. ASSUME NEW i \in DOMAIN answers, answers[i].method.kind = "partition"
        PROVE  \A family \in Families :
                   LET groups == Declaration.experts.layers[LayerOf(answers[i].layer.prefix)][family]
                   IN \A e \in 0 .. answers[i].layer.experts - 1 : \E g \in ToSet(groups) :
                          LET s == Sub(answers[i].method, family, e)
                          IN s.wire = g.wire /\ s.row \in DOMAIN g.ids /\ g.ids[s.row] = e
    <3>1. Accepted(Declaration) /\ Split(answers[i], Layers(Declaration))
      BY <1>2, <2>1 DEF PInv, Owes, Kept, Declaration
    <3>2. QED
      BY <3>1, SplitServes
  <2>2. QED
    BY <2>1 DEF ExpertsAsDeclared
<1>3. Init => SInv
  BY InitSInv
<1>4. CInv /\ SInv /\ [Next]_vars => SInv'
  BY StepSInv
<1>5. QED
  BY <1>1, <1>2, <1>3, <1>4, InitPInv, CInvariance, PTL DEF Spec
==============================================================================
