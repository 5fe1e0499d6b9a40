----------------------------- MODULE BenchResult -----------------------------
(***************************************************************************)
(* What gridbook/bench_serve.py accepts as the result of one measured      *)
(* block (validate_result and the gates it calls), and the client it runs  *)
(* for a block: the vLLM command, and the result that command produces     *)
(* when nothing goes wrong.                                                *)
(*                                                                         *)
(* Latencies are whole milliseconds; aggregates are in hundredths of one,  *)
(* so that the linear percentiles of the source are exact.  A standard     *)
(* deviation is reconciled like a mean and is left out.  Strings that the  *)
(* gates only compare are single values, and the digest of a vector of     *)
(* input lengths is the vector.                                            *)
(***************************************************************************)
EXTENDS Integers, Sequences, SequencesExt, FiniteSetsExt, TLC

Metrics == {"ttft", "itl", "e2el", "tpot"}
PinnedFields == {"detail", "totals", "aggregates"}
SpecFields == {"spec"}

Total(s) == FoldSeq(LAMBDA x, y : x + y, 0, s)
Larger(x, y) == IF x > y THEN x ELSE y
Gap(x, y) == IF x > y THEN x - y ELSE y - x

\* Input lengths a seed draws: fixed, or one of the declared range.
LensOf(a, seed) ==
    [p \in 1..a.prompts |-> IF a.ranged THEN a.lo + ((seed + p) % (a.hi + 1 - a.lo))
                                        ELSE a.lo]

\* The invocation of block k: only the seed differs between blocks.
Command(a, k) ==
    [label |-> a.label, model |-> a.model, prompts |-> a.prompts,
     conc |-> a.conc, rate |-> a.rate, seed |-> a.seed + k - 1]

-----------------------------------------------------------------------------
(* Reconstruction of the aggregates from the detailed streams.             *)

\* numpy's linear percentile, in hundredths.
Percentile(samples, p) ==
    LET s    == SortSeq(samples, <)
        pos  == (Len(s) - 1) * p
        low  == pos \div 100
        frac == pos % 100
    IN IF s = <<>> THEN 0
       ELSE IF frac = 0 THEN 100 * s[low + 1]
       ELSE 100 * s[low + 1] + (s[low + 2] - s[low + 1]) * frac

Aggregates(samples) ==
    [mean |-> IF samples = <<>> THEN 0 ELSE (100 * Total(samples)) \div Len(samples),
     median |-> Percentile(samples, 50),
     p95 |-> Percentile(samples, 95)]

\* The samples of each metric: the terminal event is in none of them.
Samples(metric, r, a) ==
    LET streams == [p \in DOMAIN r.itls |-> Total(r.itls[p])]
    IN CASE metric = "ttft" -> r.ttfts
         [] metric = "itl"  -> FlattenSeq(r.itls)
         [] metric = "e2el" -> [p \in DOMAIN r.ttfts |-> r.ttfts[p] + streams[p]]
         [] metric = "tpot" -> IF a.outLen > 1
                               THEN [p \in DOMAIN streams |-> streams[p] \div (a.outLen - 1)]
                               ELSE <<>>

Tolerance(metric, expected, outLen) ==
    CASE metric = "e2el" -> Larger(500, expected \div 200)
      [] metric = "tpot" /\ outLen > 1 -> Larger(500 \div (outLen - 1), expected \div 200)
      [] OTHER -> 0

Reconciles(metric, r, a) ==
    LET expected == Aggregates(Samples(metric, r, a))
    IN \A s \in DOMAIN expected :
           Gap(r.agg[metric][s], expected[s]) <= Tolerance(metric, expected[s], a.outLen)

-----------------------------------------------------------------------------
(* The gates, in the order validate_result runs them.                      *)

InvocationAgrees(r, a) ==
    /\ r.cmd.label = a.label /\ r.cmd.model = a.model
    /\ r.cmd.prompts = a.prompts /\ r.cmd.conc = a.conc
    /\ r.cmd.rate = a.rate

\* Rates are kept as numerators over the counts the client reports.
SpecAccepted(r, a) ==
    IF a.spec = 0
    THEN "spec" \notin r.fields
    ELSE /\ "spec" \in r.fields
         /\ r.spec.drafts > 0 /\ r.spec.draftTokens > 0
         /\ r.spec.accepted \in 0..r.spec.draftTokens
         /\ r.spec.rate = r.spec.accepted            \* over draftTokens
         /\ r.spec.length = r.spec.drafts + r.spec.accepted    \* over drafts
         /\ Len(r.spec.perPosition) = a.spec
         /\ \A k \in 1..a.spec : r.spec.perPosition[k] \in 0..r.spec.drafts
         /\ r.spec.draftTokens \in r.spec.drafts .. (r.spec.drafts * a.spec)
         /\ Total(r.spec.perPosition) = r.spec.accepted

Positive(r, a) ==
    /\ r.duration > 0
    /\ \A m \in {"ttft", "e2el"} : \A s \in DOMAIN r.agg[m] : r.agg[m][s] > 0
    /\ \A m \in {"tpot", "itl"} : \A s \in DOMAIN r.agg[m] :
           IF a.outLen > 1 THEN r.agg[m][s] > 0 ELSE r.agg[m][s] >= 0

CountsExact(r, a) ==
    /\ r.completed = a.prompts /\ r.failed = 0
    /\ r.totalOut = a.prompts * a.outLen
    /\ a.ranged \/ r.totalIn = a.prompts * a.lo

\* Fixed lengths are exact; a range is also pinned, block by block, to the
\* vector whose digest was declared.
InputsAgree(r, a, k) ==
    /\ Len(r.inputLens) = a.prompts
    /\ \A p \in 1..a.prompts : r.inputLens[p] \in a.lo..a.hi
    /\ a.ranged => k \in DOMAIN a.lens /\ r.inputLens = a.lens[k]
    /\ r.totalIn = Total(r.inputLens)

OutputsAgree(r, a) ==
    /\ Len(r.outputLens) = a.prompts
    /\ \A p \in 1..a.prompts : r.outputLens[p] = a.outLen
    /\ r.totalOut = Total(r.outputLens)

ThroughputAgrees(r, a) ==
    /\ r.throughput.request * r.duration = 1000 * a.prompts
    /\ r.throughput.output * r.duration = 1000 * Total(r.outputLens)
    /\ r.throughput.total * r.duration = 1000 * (Total(r.inputLens) + Total(r.outputLens))

StreamsWhole(r, a) ==
    /\ Len(r.errors) = a.prompts /\ \A p \in 1..a.prompts : ~r.errors[p]
    /\ Len(r.ttfts) = a.prompts /\ \A p \in 1..a.prompts : r.ttfts[p] > 0
    /\ Len(r.itls) = a.prompts
    /\ \A p \in 1..a.prompts :
           /\ (r.itls[p] = <<>>) <=> (a.outLen = 1)
           /\ \A j \in DOMAIN r.itls[p] : r.itls[p][j] > 0

EnvelopeExact(r, a) ==
    /\ r.fields = PinnedFields \cup (IF a.spec = 0 THEN {} ELSE SpecFields)
    /\ Len(r.startTimes) = a.prompts
    /\ r.peak \in 1..a.prompts

ValidateResult(r, a, k) ==
    /\ InvocationAgrees(r, a)
    /\ SpecAccepted(r, a)
    /\ Positive(r, a)
    /\ CountsExact(r, a)
    /\ InputsAgree(r, a, k)
    /\ OutputsAgree(r, a)
    /\ ThroughputAgrees(r, a)
    /\ StreamsWhole(r, a)
    /\ \A m \in Metrics : Reconciles(m, r, a)
    /\ EnvelopeExact(r, a)

-----------------------------------------------------------------------------
(* The client.  An undisturbed run answers every prompt of the command;    *)
(* its end-to-end latency also covers the terminal event.                  *)

TrueResult(a, k) ==
    LET lens  == LensOf(a, Command(a, k).seed)
        outs  == [p \in 1..a.prompts |-> a.outLen]
        ttfts == [p \in 1..a.prompts |-> 20 * p]
        itls  == [p \in 1..a.prompts |-> [j \in 1..(a.outLen - 1) |-> 10 * p]]
        bare  == [ttfts |-> ttfts, itls |-> itls]
    IN [cmd |-> [Command(a, k) EXCEPT !.seed = 0],     \* a result does not name its seed
        fields |-> PinnedFields \cup (IF a.spec = 0 THEN {} ELSE SpecFields),
        spec |-> [drafts |-> 4, draftTokens |-> 4 * a.spec, accepted |-> 2 * a.spec,
                  rate |-> 2 * a.spec, length |-> 4 + 2 * a.spec,
                  perPosition |-> [j \in 1..a.spec |-> 2]],
        duration |-> 100, completed |-> a.prompts, failed |-> 0,
        inputLens |-> lens, outputLens |-> outs,
        totalIn |-> Total(lens), totalOut |-> a.prompts * a.outLen,
        throughput |-> [request |-> 10 * a.prompts, output |-> 10 * Total(outs),
                        total |-> 10 * (Total(lens) + Total(outs))],
        errors |-> [p \in 1..a.prompts |-> FALSE],
        ttfts |-> ttfts, itls |-> itls,
        startTimes |-> [p \in 1..a.prompts |-> p], peak |-> 1,
        agg |-> [m \in Metrics |-> Aggregates(Samples(m, bare, a))]]

\* What a run may hand over instead: the terminal event alone is no error.
Disturbances ==
    {"none", "terminal", "stalled", "dropped", "failed", "truncated", "retotalled",
     "errored", "cutDetail", "noIntervals", "smoothed", "shifted", "faster",
     "otherRun", "otherBlock", "permuted", "otherMode", "overAccepted"}
Harmless == {"none", "terminal"}

Disturbed(d, a, k) ==
    LET r == TrueResult(a, k)
        swap(s) == <<s[2], s[1]>> \o SubSeq(s, 3, Len(s))
    IN CASE d = "none"       -> r
         [] d = "terminal"   -> [r EXCEPT !.agg["e2el"].mean = @ + 300]
         [] d = "stalled"    -> [r EXCEPT !.agg["e2el"].p95 = @ + 600]
         [] d = "dropped"    -> [r EXCEPT !.completed = @ - 1, !.inputLens = Front(@)]
         [] d = "failed"     -> [r EXCEPT !.failed = 1]
         [] d = "truncated"  -> [r EXCEPT !.outputLens[1] = @ - 1, !.totalOut = @ - 1]
         [] d = "retotalled" -> [r EXCEPT !.totalIn = @ + 1]
         [] d = "errored"    -> [r EXCEPT !.errors[a.prompts] = TRUE]
         [] d = "cutDetail"  -> [r EXCEPT !.ttfts = Front(@)]
         [] d = "noIntervals"-> [r EXCEPT !.itls[1] = IF a.outLen = 1 THEN <<10>> ELSE <<>>]
         [] d = "smoothed"   -> [r EXCEPT !.agg["ttft"].p95 = r.agg["ttft"].median]
         [] d = "shifted"    -> [r EXCEPT !.ttfts[1] = @ + 1]
         [] d = "faster"     -> [r EXCEPT !.duration = @ - 1]
         [] d = "otherRun"   -> [r EXCEPT !.cmd.conc = @ + 1]
         [] d = "otherBlock" -> TrueResult(a, k + 1)
         [] d = "permuted"   -> [r EXCEPT !.inputLens = swap(@)]
         [] d = "otherMode"  -> [r EXCEPT !.fields = PinnedFields \cup (IF a.spec = 0 THEN SpecFields ELSE {})]
         [] d = "overAccepted" -> IF a.spec = 0 THEN r
                                   ELSE [r EXCEPT !.spec.accepted = @ + 1, !.spec.rate = @ + 1]
==============================================================================
