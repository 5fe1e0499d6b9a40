------------------------------ MODULE Namespaces -----------------------------
(***************************************************************************)
(* The names of modules and tensors, and the vintages they come in         *)
(* (gridbook/config.py).  A name is the sequence of its dotted components. *)
(***************************************************************************)
EXTENDS Naturals, Sequences, SequencesExt

Leaf(n) == n[Len(n)]
Stem(n) == SubSeq(n, 1, Len(n) - 1)

\* n is a dotted child of base, at any depth.
IsChild(base, n) == IsStrictPrefix(base, n)

Drop(n, k) == SubSeq(n, k + 1, Len(n))

\* A wrapper, an old checkpoint and a producer's source spelling of the
\* language model all denote the module model.<rest>.
CanonicalPrefix(n) ==
    CASE IsChild(<<"language_model", "model">>, n) -> Drop(n, 1)
      [] IsChild(<<"language_model">>, n) /\ ~IsChild(<<"language_model", "model">>, n)
             -> <<"model">> \o Drop(n, 1)
      [] IsChild(<<"model", "language_model">>, n) -> <<"model">> \o Drop(n, 2)
      [] IsChild(<<"layers">>, n) -> <<"model">> \o n
      [] OTHER -> n

CandidateBases(n) ==
    IF CanonicalPrefix(n) = n THEN <<n>> ELSE <<n, CanonicalPrefix(n)>>

\* The first inner component spelled "from" becomes "to"; none if there is none.
Respelled(n, from, to) ==
    LET at == {i \in 2 .. Len(n) - 1 : n[i] = from}
    IN IF at = {} THEN <<>>
       ELSE <<[n EXCEPT ![CHOOSE i \in at : \A j \in at : i <= j] = to]>>

\* The checkpoint's w1, w3 and w2 of a shared expert, in the live namespace.
SharedLeaf(n) ==
    IF Len(n) > 1 /\ n[Len(n) - 1] = "shared_experts"
    THEN Stem(n) \o <<CASE Leaf(n) = "w1" -> "gate_proj"
                        [] Leaf(n) = "w3" -> "up_proj"
                        [] Leaf(n) = "w2" -> "down_proj"
                        [] OTHER -> Leaf(n)>>
    ELSE n

SourceAliases(n) ==
    LET ffn == Respelled(n, "ffn", "mlp")
    IN Respelled(n, "attn", "self_attn")
           \o [i \in DOMAIN ffn |-> SharedLeaf(ffn[i])]

\* The names a shared expert may be asked for: ".shared_mlp" collapses into its
\* parent, and a speculative layer nests both below ".mtp_block".
Without(n, i) == SubSeq(n, 1, i - 1) \o SubSeq(n, i + 1, Len(n))

SharedAliases(n) ==
    LET at == {i \in 2 .. Len(n) - 1 : n[i] = "shared_mlp"}
        collapsed(m) == {Without(m, i) : i \in {i \in 2 .. Len(m) - 1 : m[i] = "shared_mlp"}}
        nested == {SubSeq(n, 1, i - 2) \o <<"mtp_block">> \o SubSeq(n, i - 1, Len(n)) :
                       i \in {i \in at : i > 2 /\ n[i - 1] = "mlp"}}
    IN collapsed(n) \cup nested \cup UNION {collapsed(m) : m \in nested}

\* The layer a name belongs to (layer_id_for_prefix), or "none".
LayerOf(n) ==
    LET at == {i \in 1 .. Len(n) - 1 : n[i] = "layers"}
    IN IF at = {} THEN "none" ELSE n[(CHOOSE i \in at : \A j \in at : i <= j) + 1]
==============================================================================
