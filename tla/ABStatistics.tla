---------------------------- MODULE ABStatistics -----------------------------
(***************************************************************************)
(* The promotion decision of scripts/validate_moe_persistent_b_ab.py over  *)
(* the sealed prompts: one-sided t bounds on the mean NLL effect and on    *)
(* the divergence excess, a resolution check on the baseline's own noise,  *)
(* and a backstop against one corrupted prompt.                            *)
(*                                                                         *)
(* Measurements are integers.  A bound "mean + t * sd / sqrt(n) <= limit"  *)
(* is squared into integers and stays exact: TSquare is t^2 in thousandths.*)
(***************************************************************************)
EXTENDS Integers, Sequences, SequencesExt, FiniteSetsExt

CONSTANTS
    Sealed,             \* number of sealed prompts (8 in the source)
    TSquare,            \* t_{0.95, Sealed - 1} squared, in thousandths
    NllLimit, CorruptionLimit, Margin

ASSUME StatisticsAssumption ==
    /\ Sealed \in Nat \ {0, 1} /\ TSquare \in Nat
    /\ NllLimit \in Nat /\ CorruptionLimit \in Nat /\ Margin \in Nat

SumOf(s)     == FoldSeq(LAMBDA x, y : x + y, 0, s)
SquaresOf(s) == FoldSeq(LAMBDA x, y : (x * x) + y, 0, s)
MaxOf(x, y)  == IF x > y THEN x ELSE y

\* Sealed * (sum of squared deviations), and the distance of the mean from
\* the limit, times Sealed.
Spread(s) == (Sealed * SquaresOf(s)) - (SumOf(s) * SumOf(s))
Room(s, limit) == (Sealed * limit) - SumOf(s)

Within(s, limit) ==
    /\ Room(s, limit) >= 0
    /\ TSquare * Spread(s) <= 1000 * (Sealed - 1) * Room(s, limit) * Room(s, limit)

Beyond(s, limit) ==
    /\ Room(s, limit) < 0
    /\ TSquare * Spread(s) < 1000 * (Sealed - 1) * Room(s, limit) * Room(s, limit)

-----------------------------------------------------------------------------
\* Twice the candidate's effect over the centre of its two baselines.
Effect(b)     == (2 * b.candidate) - (b.baseline_pre + b.baseline_post)
Corruption(b) == b.candidate - MaxOf(b.baseline_pre, b.baseline_post)

\* Four times the divergence the baseline's own noise does not excuse.
Excess(d) == (4 * d.cb) - MaxOf((4 * d.bb) + (4 * Margin), 5 * d.bb)

NoiseResolved(nll) ==
    LET drifts == [i \in DOMAIN nll |-> nll[i].baseline_post - nll[i].baseline_pre]
    IN TSquare * 3 * SquaresOf(drifts) <= 4000 * Sealed * Sealed * NllLimit * NllLimit

Corrupted(nll) == \E i \in DOMAIN nll : Corruption(nll[i]) > CorruptionLimit

\* mutant: an interval that straddles the limit passes
Decision_NoIntervals(nll, kl, integrity) ==
    LET effects == [i \in DOMAIN nll |-> Effect(nll[i])]
        excess  == [i \in DOMAIN kl |-> Excess(kl[i])]
    IN IF ~integrity \/ Corrupted(nll) \/ Beyond(effects, 2 * NllLimit) \/ Beyond(excess, 0)
       THEN "FAIL"
       ELSE IF ~NoiseResolved(nll) THEN "INCONCLUSIVE" ELSE "PROMOTION PASS"

Decision(nll, kl, integrity) ==
    LET effects == [i \in DOMAIN nll |-> Effect(nll[i])]
        excess  == [i \in DOMAIN kl |-> Excess(kl[i])]
    IN CASE \/ ~integrity
            \/ Corrupted(nll)
            \/ Beyond(effects, 2 * NllLimit)
            \/ Beyond(excess, 0)                      -> "FAIL"
         [] /\ integrity /\ ~Corrupted(nll)
            /\ NoiseResolved(nll)
            /\ Within(effects, 2 * NllLimit)
            /\ Within(excess, 0)                      -> "PROMOTION PASS"
         [] OTHER                                     -> "INCONCLUSIVE"
==============================================================================
