----------------------------- MODULE BenchInputs -----------------------------
(***************************************************************************)
(* The documents a benchmark binds its report to, and what parse_args      *)
(* accepts (gridbook/bench_serve.py): an inventory of the served files, an *)
(* execution manifest naming how each unit is served, and evidence files.  *)
(* The digest of a document is the document.                               *)
(*                                                                         *)
(* A path or a unit is a sequence of components.  The manifest fields that *)
(* are checked alike (rung, layout, coding, contract, backend, fallback)   *)
(* are one field, "rung".                                                  *)
(***************************************************************************)
EXTENDS Integers, Sequences, SequencesExt, FiniteSets

Schemas == {"gridbook", "prismaquant", "other"}

Count(s) == Cardinality(ToSet(s))

\* What a JSON document can hold: lists, sizes that are integers, and in a
\* PrismaQuant inventory a mapping, which names no file twice.
IsDocument(docs) ==
    /\ docs.inv.files \in Seq(ToSet(docs.inv.files))
    /\ \A file \in ToSet(docs.inv.files) : file.bytes \in Int
    /\ docs.inv.schema = "prismaquant" =>
           \A i, j \in DOMAIN docs.inv.files :
               docs.inv.files[i].path = docs.inv.files[j].path => i = j
    /\ docs.man.assignments \in Seq(ToSet(docs.man.assignments))

CanonicalPath(p) == p # <<>> /\ \A j \in DOMAIN p : p[j] \notin {"", ".", "..", "/"}

\* files: a sequence of [path, bytes, digest]; a PrismaQuant inventory carries
\* no digests.
InventoryAccepted(inv) ==
    /\ inv.schema \in {"gridbook", "prismaquant"}
    /\ inv.files # <<>>
    /\ \A j \in DOMAIN inv.files :
           CanonicalPath(inv.files[j].path) /\ inv.files[j].bytes >= 0
    /\ inv.schema = "gridbook" =>
           /\ \A i, j \in DOMAIN inv.files :
                  inv.files[i].path = inv.files[j].path => i = j
           /\ \A j \in DOMAIN inv.files : inv.files[j].digest
    /\ inv.schema = "prismaquant" => inv.recursive
    /\ inv.total = FoldSeq(LAMBDA file, sum : sum + file.bytes, 0, inv.files)

\* mutant: only a repeated unit is refused
UnitsDisjoint_Distinct(assignments) ==
    \A i, j \in DOMAIN assignments :
        assignments[i].unit = assignments[j].unit => i = j

\* Every unit concrete, and none the ancestor of another.
UnitsDisjoint(assignments) ==
    \A i \in DOMAIN assignments :
        /\ \A c \in ToSet(assignments[i].unit) : c \notin {"*", ".."}
        /\ \A j \in 1..(i - 1) :
               /\ ~IsPrefix(assignments[i].unit, assignments[j].unit)
               /\ ~IsPrefix(assignments[j].unit, assignments[i].unit)

\* A field the manifest gives one value must be declared as that value, a
\* field with several as mixed.
DeclaredAs(values, declared) ==
    IF Cardinality(values) = 1 THEN values = {declared} ELSE declared = "mixed"

ManifestAccepted(man, inv, a) ==
    /\ man.inventory = inv
    /\ man.coverage = "all_serving_units"
    /\ man.tp > 0 /\ man.tp = a.tp
    /\ man.assignments # <<>>
    /\ \A j \in DOMAIN man.assignments : man.assignments[j].rung \notin {"", "mixed"}
    /\ UnitsDisjoint(man.assignments)
    /\ DeclaredAs({man.assignments[j].rung : j \in DOMAIN man.assignments}, a.rung)

EvidenceAccepted(paths, files, declared) ==
    /\ paths # <<>> /\ Len(paths) = Len(declared)
    /\ Count(paths) = Len(paths)
    /\ \A j \in DOMAIN paths :
           paths[j] \in DOMAIN files /\ files[paths[j]] = declared[j]

\* Every document still is the one whose digest was declared, and still
\* passes its gates.
BoundInputsHold(a, docs) ==
    /\ docs.inv = a.docs.inv /\ InventoryAccepted(docs.inv)
    /\ docs.man = a.docs.man /\ ManifestAccepted(docs.man, docs.inv, a)
    /\ EvidenceAccepted(a.evidence, docs.evidence, a.docs.declared)

-----------------------------------------------------------------------------
PrefixCachingAgrees(state, flags) ==
    /\ flags = {IF state = "on" THEN "enable" ELSE "disable"}

\* The speculative configurations the recorded server arguments hold.
SpeculationAgrees(a) ==
    /\ Len(a.recorded) <= 1
    /\ IF a.spec > 0 THEN a.recorded = <<a.spec>> ELSE a.recorded = <<>>

\* Cross-argument rules: one shape contract, blocks enough, budgets.
ShapeDeclared(a) ==
    /\ a.conc <= a.prompts /\ a.warmups >= a.minWarmups /\ a.blocks >= a.minBlocks
    /\ IF a.ranged THEN a.lo <= a.hi /\ Len(a.lens) = a.blocks
                   ELSE a.lo = a.hi /\ a.lens = <<>>
    /\ 95 \in a.percentiles

BudgetsDeclared(a) ==
    /\ a.bytes <= a.budget
    /\ a.payload >= 0 => a.payload <= a.bytes

ArgumentsAccepted(a, docs) ==
    /\ ShapeDeclared(a)
    /\ BudgetsDeclared(a)
    /\ PrefixCachingAgrees(a.prefix, a.flags)
    /\ SpeculationAgrees(a)
    /\ BoundInputsHold(a, docs)
    /\ a.bytes = docs.inv.total
==============================================================================
