----------------------------- MODULE PromptScore -----------------------------
(***************************************************************************)
(* How an A/B harness turns the answer to one full-vocabulary request into *)
(* a score, and which sealed prompts it accepts                            *)
(* (scripts/validate_moe_persistent_b_ab.py).                              *)
(*                                                                         *)
(* An answer carries, for every prompt position but the first, the cells   *)
(* of one row: the target and then the whole vocabulary ("ids", "vals").   *)
(* It comes as the CPU tensors the harness keeps ("tensor"), or as vLLM's  *)
(* flat lists ("flat").  A log-probability is a natural, -1 is not finite; *)
(* the digest of anything is the thing.                                    *)
(***************************************************************************)
EXTENDS Integers, Sequences, SequencesExt, FiniteSets

CONSTANT Vocab      \* tokens are 0 .. Vocab - 1
ASSUME VocabAssumption == Vocab \in Nat \ {0}

Tokens == 0..(Vocab - 1)
Refused == <<>>     \* no row: a scored prompt has at least one position

\* The last cell of each token, as a mapping built from the cells would have.
LastCell(cells, t) ==
    cells.vals[CHOOSE j \in DOMAIN cells.ids :
                   /\ cells.ids[j] = t
                   /\ \A k \in DOMAIN cells.ids : cells.ids[k] = t => k <= j]

\* mutant: the leading cell is not compared with the prompt
TensorRowHolds_NoTarget(cells, target) ==
    LET ids == Tail(cells.ids) vals == Tail(cells.vals)
    IN /\ Len(cells.ids) = Vocab + 1 /\ Len(cells.vals) = Vocab + 1
       /\ \A j \in DOMAIN vals : vals[j] >= 0
       /\ \A j \in DOMAIN ids : ids[j] \in Tokens
       /\ ToSet(ids) = Tokens

\* Exactly one cell of each token after the target's own.
TensorRowHolds(cells, target) ==
    LET ids == Tail(cells.ids) vals == Tail(cells.vals)
    IN /\ Len(cells.ids) = Vocab + 1 /\ Len(cells.vals) = Vocab + 1
       /\ cells.ids[1] = target
       /\ \A j \in DOMAIN vals : vals[j] >= 0
       /\ \A j \in DOMAIN ids : ids[j] \in Tokens
       /\ ToSet(ids) = Tokens

\* Negative tokens are passed over; of the others the last cell counts.
FlatRowHolds(cells, target) ==
    /\ Len(cells.ids) = Len(cells.vals)
    /\ target \in ToSet(cells.ids)
    /\ \A t \in ToSet(cells.ids) : t < Vocab
    /\ Tokens \subseteq ToSet(cells.ids)
    /\ \A t \in Tokens : LastCell(cells, t) >= 0

RowHolds(schema, cells, target) ==
    IF schema = "tensor" THEN TensorRowHolds(cells, target)
                         ELSE FlatRowHolds(cells, target)

Packed(cells) ==
    [t \in Tokens |-> LastCell([ids |-> Tail(cells.ids), vals |-> Tail(cells.vals)], t)]

Compact(answer, prompt) ==
    IF /\ answer.prompt = prompt
       /\ Len(answer.rows) = Len(prompt) - 1
       /\ answer.rows # <<>>
       /\ \A p \in DOMAIN answer.rows :
              RowHolds(answer.schema, answer.rows[p], prompt[p + 1])
    THEN [p \in DOMAIN answer.rows |-> Packed(answer.rows[p])]
    ELSE Refused

\* The stock vLLM update is replaced once per process, for requests that want
\* every token and no text; other requests keep it.
TransportOf(wanted, installed) == IF installed /\ wanted = "all" THEN "tensor" ELSE "flat"

\* The sealed windows are the canonical ones, in full, over the tokenizer the
\* model directory holds, and all different.
PromptsAccepted(payload, canonical, modelFiles, args) ==
    /\ payload.identity = canonical.identity
    /\ payload.tokenizer = canonical.tokenizer
    /\ \A f \in DOMAIN payload.tokenizer :
           f \in DOMAIN modelFiles /\ modelFiles[f] = payload.tokenizer[f]
    /\ payload.vocab = Vocab
    /\ Len(payload.windows) = args.samples
    /\ \A i \in DOMAIN payload.windows :
           /\ Len(payload.windows[i]) = args.seqlen
           /\ \A j \in DOMAIN payload.windows[i] : payload.windows[i][j] \in Tokens
           /\ \A k \in DOMAIN payload.windows : payload.windows[i] = payload.windows[k] => i = k
    /\ payload.windows = canonical.windows
    /\ payload.ppl = canonical.ppl

\* A profile is a prefix of every window.
FullVocabProfile(windows, n) == [i \in DOMAIN windows |-> SubSeq(windows[i], 1, n)]
==============================================================================
