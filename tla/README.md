# gridbook: a TLA+ model of the plugin

Gridbook is an out-of-tree quantization plugin for vLLM. It reads a checkpoint's
`quant_config.json`, hands each module a method that decodes what the document
declares, streams the checkpoint into those modules, refuses to serve anything
it cannot account for, JIT-builds the CUDA extensions they call, picks a kernel
for every call, and keeps a little process-wide state (caches, registries, a
scratch pool) while requests run. Beside it live a serving benchmark and the
promotion campaigns, which turn measurements into evidence on disk. These
modules model the parts that have state and order, and the pure algorithms those
parts rest on; paths below are relative to `src/`, and file names without a
directory are in `src/gridbook/`.

## 1. Inventory

| Component (code) | State | Operations | What is hard | What makes it correct |
|---|---|---|---|---|
| **Config** (`config.py`, `per_expert_format.py`, `source_passthrough.py`, `delegated_preflight.py`) | parsed tables, the revision they came from | parse, merge sidecars, rename, hand out methods, judge delegated layers | overlapping spellings, fused names, tags that move, a draft beside a target | each module decodes exactly what the document declares for it, from one revision |
| **Construction contexts** (`moe_toplevel_loader.py`, `embedding*.py`) | loader, authority, supplied prefix | push and pop around constructors | nesting, exceptions | in force exactly while the constructor that set them runs |
| **Weight loading** (`moe_toplevel_loader.py`, `mixed_linear.py`, `cb_fill_guard.py`) | per-call transactions, parameters, fill sentinels | wrapped `load_weights`, `stage`, commit, `finish`, post-load gates | streams that repeat, omit, misspell or cut tensors; calls repeated; errors between copies | a module is loaded whole or not at all; nothing unfilled is admitted; a good checkpoint is not refused |
| **Expert-layer hooks** (`moe.py`, `moe_mixed.py` `load_weights`) | expert parameters, activation scalars | copy, gather, compare | same tensors over two routes with different checks | the two routes agree on what is acceptable |
| **Expert parallelism** (`moe_ep.py`) | expert map | gather, remap of top-k ids | padding, tokens with no local expert | local slots are a bijection onto the rank's experts |
| **Native extension cache** (`cuda_ext.py`) | `(ext, tried, lock)` per family | `get_*_ext`, two-configuration build, preload | threads, lock-free fast path, failing and interrupted builds, fallback | one build, one answer for all, a lane fails alone |
| **Lane selection** (`lane_select.py`, `moe_gemv_select.py`, `*_lane.py`) | latched flags, per-device attestation | read and pin a flag, attest an extension, require a lane | flags that change while a model loads, two kinds of devices, probes that fail at random | the first observed value stays; a layer runs only code built for its device |
| **Dense and MoE dispatch** (`linear.py`, `moe.py`, `moe_persistent_b_lane.py`) | what load left on a layer, the route record | load, choice of lane per call, record | precedence of ten flags, dictionaries that change inside a tile, launches that fail halfway | an explicit selection is served or refused; rows meet their own tables; the record names what ran |
| **Source-byte lanes** (`fp8_source_w8a16.py`, `mxfp8_dense_lane.py`, `dsv4_woa.py`) | block scales, `_OFFSETS`, wrapped classes | shard, pre-warm, adapt the attention class | block scales against shard offsets, graph capture, class patched once per process | every rank meets the scales of its own rows and columns; a capture copies nothing from the host |
| **Trellis** (`trellis*.py`, `csrc/trellis_r256.cu`) | residency mode, planes | pack, validate, plan, decode | tail biting, bypassed columns, mixed schedules, alignment, two independent plans | device and CPU reader decode what the encoder walked |
| **Trellis decode pool** (`trellis_decode_pool.py`) | shared storage, weak client list | reserve, bind, grow | growth while clients or captured graphs hold the old storage | every live client sees the current storage |
| **Custom-op layer registry** (`ops.py`) | weak registry, id counter | register, look up, unload | captured graphs outlive layers | an id never names a second layer |
| **Routing** (`moe_routing.py`) | per-layer caches, weak offset pool | pack, pad, cache | two threads filling one cache, dying weak entries | one persistent tensor per key; padding is a permutation |
| **Serving benchmark** (`bench_serve.py`) | report, temporary file, provenance | reserve, checkpoint, run a block, judge, conclude | inputs edited under it, clients killed, the host crashing, two clients on a name | a report that claims success was earned and survives |
| **Promotion campaigns** (`scripts/validate_moe_persistent_b_ab*.py`) | claim, reservation, request log | claim, arms, attestation, gates, decision, publication | silent lane changes inside an arm, stale routes, re-measurement after a crash | a promotion is earned, measured once, durable |
| **Plugin registration** (`plugin.py`) | installed wrappers | `register`, preload | entry point run more than once | idempotent |
| **CUTLASS import** (`native_cutlass.py`) | one-time import result | load, latch | as the extension cache | one outcome |
| **Codec, expand, digest**; **activation and runtime contracts**; **preflights, other validators** | none | arithmetic, field checks, reports | bit boundaries, fields | no order to model |
| **CUDA kernels** (`csrc/`) | device memory | numerical kernels | arithmetic | the trellis kernels are modelled up to bits; the others enter by the table each row meets |

How they meet: `plugin.register` installs the load wrapper and preloads the
extension cache; vLLM builds modules through `config`, under the construction
contexts; the load wrapper writes their parameters;
`process_weights_after_loading` is where a module passes its fill guard,
resolves its lane (through the flag latch and the extension cache), registers
itself in the op registry and reserves pool storage; a forward pass then looks
all of that up again, possibly from a captured graph. The benchmark and the
campaigns see all this from outside: over HTTP, and through the route records.

## 2. Modules

| Module | Role |
|---|---|
| `ServeGate` | abstract: what loading promises (empty, filled, ready; serve only when all are ready) |
| `WeightLoad`, `MCWeightLoad` | the load of one model on one rank, detailed; implements `ServeGate` |
| `WeightLoadProofs` | TLAPS theorems about `WeightLoad` |
| `OnceCell` | abstract: a value computed at most once and shared |
| `NativeExt`, `MCNativeExt` | extension cache, flag latch and lane choice; implements one `OnceCell` per family |
| `NativeExtProofs` | its theorems |
| `Residency`, `MCResidency` | the op registry and the decode pool while models come and go |
| `RoutingCaches`, `MCRoutingCaches` | the row-offset caches under threads |
| `ProcessStateProofs` | the theorems of both |
| `ExpertPlacement` | pure: accepted placements, the gather, the remap of routed ids |
| `RoutedForward`, `MCRoutedForward` | one MoE layer's forward on all ranks, composed with `ExpertPlacement` |
| `RoutedForwardProofs` | TLAPS theorems about both |
| `Namespaces` | pure: spellings of module and tensor names |
| `QuantDeclaration` | pure: what a document declares, which documents are refused, the tables they become |
| `QuantDispatch` | pure: which method serves a module, and the judgement of delegated ones |
| `QuantConfig`, `MCQuantConfig` | building models: revisions, contexts, constructors, post-load; composes the three |
| `QuantConfigProofs` | its theorems |
| `TrellisWire` | pure: the trellis wire, its plans, the CPU reader and the device decode |
| `LaneSelect` | pure: flags, spellings, latches, attestation |
| `LinearLanes`, `MoELanes`, `SourceLanes` | pure: what load keeps and which lane a call takes, for dense codebook, routed codebook, and source-byte and trellis layers |
| `LaneDispatch`, `MCLaneDispatch` | a process that constructs, loads and calls layers while flags change; composes the five above |
| `LaneDispatchProofs` | its theorems |
| `EvidenceDir` | one directory of a POSIX file system under crashes |
| `BenchInputs`, `BenchResult` | pure: accepted documents and arguments; accepted results |
| `BenchRun`, `MCBenchRun` | benchmark clients over `EvidenceDir` |
| `BenchRunProofs` | its theorems |
| `PromptScore`, `ABStatistics` | pure: the score of an answer; the promotion statistics |
| `ABCampaign`, `MCABCampaign` | promotion attempts over `EvidenceDir` |
| `ABCampaignProofs` | its theorems |

A definition named `X_Something` beside an `X` is a deliberately wrong variant of
`X` that no behaviour uses; substituting it shows that a property notices.
### WeightLoad and the code

* A **parameter** is a name; a checkpoint **tensor** is a record of the
  parameter its name resolves to (`to`, or `"orphan"`/`"ambiguous"`), the
  spelling (`via`: the name a role was constructed under or the one it was
  registered under), its extent (`part`), dtype class and value. The renaming
  chains (HF mapper, spec layers, namespaces) are pure string work and are
  abstracted to `to`. What is true of a real tensor's bytes beyond that does
  not influence control.
* `route` is the path by which expert tensors reach their parameters: the
  top-level wrapper, the layer's own `load_weights` hook, or neither. The
  construction gate refuses composite modules without the wrapper, so `Live`
  is empty then.
* `StagePlane`, `RefusePlane`, `BeginCommit` are the three outcomes of
  `stage()`; `CopyPlane` is one turn of its copy loop, so that an exception
  (`Break`) can fall between two copies. The code copies in sorted order; the
  model allows every order, which only adds behaviours.
* `Depth` wrapped methods may be nested (a subclass whose `load_weights` calls
  its base's). The outermost wrapper consumes the stream, so it is the only one
  that stages (`committed[1]`); `finish()` runs innermost first.
* `TopLevelExpert`, `MixedHookExpert`, `StackedHookExpert` are the three
  expert paths. They differ in what they check, which is the point:
  the stacked hook overwrites an activation scalar the others compare.
* `OriginalReturns` may happen at any point of the stream: the architecture's
  loader may stop pulling. `CallAgain` opens fresh transactions.
* `Finalize` is the gate in `process_weights_after_loading`: the fill
  sentinels of the stacks, the committed sentinels of composite planes, the
  attested activation scalars.
* `heard` and `ever` only record the stream for the properties (the action of
  hearing a tensor twice is excluded per call, so repetition is expressed by
  two spellings or two values, and by a second call). The
  `call` and `part` fields of `content` are history too.

### NativeExt and the code

* Per family `ext`, `tried`, `lock` are the module globals of the same names.
  `Look`, `Read` are the unlocked fast path in two steps (a thread switch may
  fall between the reads); `Acquire`, `Recheck`, `Build`, `Mark`, `Release` the
  locked path; `Drop`, `Unwind` the path of an exception that is not an
  `Exception` (it passes the handlers and runs the `finally`). Interrupts are
  modelled during the build, which takes minutes, and nowhere else.
* `Retries` is the fallback of the grouped BF16 bridge on capability 12.x:
  the build with the opt-in lane failed, nobody asked for the lane, the sources
  are all there. A capability stands for the digest of the build inputs.
* The environment flag is `unset` (also the spelling "0"), `on`, or `typo`.
  The build asks `os.environ` live and takes a typo for opted in; the dispatch
  (`ReadFlag`) refuses a typo and pins the value (`LookLatch`, `Pin`).
* `Load` is the part of `process_weights_after_loading` that obtains the
  bridge, resolves the flag and, when it is on, runs `require_lane`.
* `attempts` and `served` are history: what was compiled, and which module
  each loaded layer keeps.
* `Preload` visits the families `_PRELOAD_FAMILIES` names in any order.

### Residency and the code

* One Python thread loads and runs models; only the garbage collector acts on its
  own. `CollectLayer` and `CollectMethod` are a death at any point after the model
  was dropped or its load failed (a cycle or a traceback may keep an object until
  then); they queue the weak-reference callbacks (`due`), and `Expire` runs
  one. `LookupExpired` is a lookup between the two: the reference is
  already dead, the entry still there, and the lookup removes it.
* `sites` are the ids the compiled calls of a layer carry. They outlive the
  layer, which is why an id must never be reused.
* `storages` lists the pool's storages by size, the current one last; `buf`
  says which one a layer's `decode_buf` views. A storage lives as long as the pool
  or a view refers to it (`Allocated`); a captured graph (`graph`) records addresses
  and keeps nothing alive.
* `ReserveGrows` replaces the storage and `Rebind` is one turn of the
  growth loop, so that a failure (`RebindRaises`) can fall between two turns.
  The client list is a set, since the loop's order changes no result; the model
  lets it be any. `broken` marks storages whose loop raised.
* One device: pools of different devices share nothing.

### RoutingCaches and the code

* Steps are the statements of `cb_cached_row_offsets` and
  `_layer_tensor_cache`: the unlocked look at the attribute, the locked creation with
  its second look, the unlocked look into the dictionary, the pool lock, the weak
  lookup, the allocation, and `setdefault`.
* Dictionaries and tensors are numbered objects. The pool refers weakly: an entry
  answers only while some layer's dictionary or a running call holds the tensor
  (`Alive`). `Unload` takes a layer away with its dictionary when no call is in it.
* `cb_cached_expert_map` has no caller and is left out.

### ExpertPlacement, RoutedForward and the code

* A placement maps each expert of the checkpoint to its slot on the rank, or -1.
  `Accepted` is what `local_expert_gather_index` lets through, `GatherIndex` what it
  returns, `RemapIds`/`RemapLive` the two results of `remap_local_expert_ids`. A
  weight is abstracted to whether it is the router's or exactly zero.
* A **row** of the grouped product is the token it reads, the slot whose weights
  it meets, the pair whose router weight scales it, and the token it is added to.
  The two stages of an expert use the same rows and the same tile ids, so they are one
  product here.
* `SegmentRows` is the grouped bridge and persistent-B (exact segments, by expert chunk
  and whole), `FusedRows` the FP8 and FP4 fused lanes (padded tiles, one launch),
  `ChunkRows` the sm12x lane (packed tiles, a launch per chunk), `DecodeRows` the
  routed decode. Which lane a layer gets is fixed at load and is part of
  `deployment`; small batches decode whatever the lane.
* `PadRow`, `Owner`, `Offsets`, `Capacity` are `cb_grouped_pad_routing` with its
  searchsorted and clamps; `PackedAt` is `pack_expert_blocks` and `NewTile` its
  per-chunk form.
* A **capture** runs the Python once and records how many tiles were launched
  (`graph`); a **replay** repeats the device work over a new routing with that
  number. The trim of unused tiles reads the device, so the code skips it under
  capture (`Tiles`), and the sm12x lane refuses to be captured (`RefuseCapture`).
* `Reregister` is elastic expert parallelism replacing a rank's map after load. An
  eager forward refuses it (`RefuseMoved`); a graph goes on with the load's map, which
  still describes the weights the rank holds.
* `Reduce` is vLLM's sum over ranks and `failed` an engine ended by an exception.
* Taken from vLLM (`ForwardAssumption`): it pads whole tokens (`ops.py:770-772`), and it
  leaves all experts on one rank or gives each to exactly one, EPLB's redundant copies
  being refused there (`moe_ep.py:106`). A placement need not be one that Gridbook accepts.

### QuantConfig and the code

* A **name** is the sequence of its dotted components, so that every rewriting of
  `config.py` (canonical prefixes, vintages, shared experts, MTP and draft layers, the
  mapper) is an operator of `Namespaces` and acts on components.
* `QuantDeclaration` is the parse of a document: the schemes that are accepted,
  the alias and role tables, per-expert formats with their local indices, source
  units, stock groups, the activation contract. `Resolution` is what a parsed
  config keeps.
* `QuantDispatch!QuantMethod` is `get_quant_method` branch by branch, in its order;
  a refusal is the value `Refused`. `DeclaredGroup` and what uses it are
  `delegated_preflight.py`.
* A `QuantConfig` **scenario** is the models to build, the repositories as revisions,
  the modules each model asks for and the constructors around them. `Configure`
  creates the config, `EnterEntry`/`EnterInner` are the two wrapped constructors,
  `Ask` a module's constructor asking for its method (parsing on first need),
  `Fail`/`Unwind`/`Leave` the ways out, `PostLoad` the checks after loading.
  `head` is what a published tag points at and may move between any two steps.
* Taken as given: a draft class has no mapper (`ScenariosAssumption`); a mapper is
  applied once per build; local directories do not change during a load; a model has
  one lookup table; constructors run in one thread; vLLM's current config is
  available after load.

### LaneDispatch and the code

* A **host** is the devices with their capabilities, the ops vLLM has, and each
  extension as the module that was loaded (what it was built for, its symbols,
  rungs and tiles). How a module comes to be loaded is `NativeExt`.
* `Construct` is `create_weights` of the next layer (the shard and row-quantum
  gates, the opt-ins, a trellis layer's residency), `Load` its
  `process_weights_after_loading`: it pins every flag it reads, attests, resolves the
  lanes, prepares the attention class and offsets, and keeps what the calls will use.
  A refusal ends the process. `SetFlag` changes the environment at any point.
* `Call` is one forward: the lanes a layer declines, in order, then the launch, which
  may fail, and the record of the route as each lane writes it, once before and once
  after its launch, or only after it, or not at all.
* Which **table** a row meets is the data kept: the codebook of a row of a fused
  projection (whose dictionaries may change inside a tile) or of a routed stack, the
  block scale of a row and column of a sharded FP8 layer, the code of a trellis cell.
* `SourceLanes` compares what `fp8_source_w8a16.py` attaches per shard with how
  vLLM's loader narrows a plane, and models `_OFFSETS` by its keys, so that what a
  captured call finds depends on all calls before it.
* `TrellisWire` is the codec over bits: the schedule of a block, the
  tail-biting walk, alphabets, offsets, packing with alignment, every refusal of a
  reader, the plan of `trellis_ops.py` and the plan that scans nothing, the kernel's
  threads and staged words, and the blocked scale layout.
* Probes and launches fail at random. Data types appear where the source
  tests them. All dictionaries of a layer have one size, as the config requires.

### EvidenceDir, BenchRun, ABCampaign and the code

* `EvidenceDir` keeps what processes see apart from what a crash may leave, name by
  name and file by file: until an `fsync` of the file its bytes, and until one of the
  directory its name, may be any of the values since the last.
* A **benchmark client** is `parse_args` and `run_benchmark`, one action per system
  call or per block of Python between two: the exclusive open of the reservation, write,
  fsync, directory fsync; then each block (`Begin`, `Run`, `Load`, `Judge`,
  `CheckInputs`, `CheckGit`) with a checkpoint (`SaveTemp`, `SaveSync`,
  `SaveReplace`, `SaveSettle`) between; then `Conclude`. Any call may raise
  (`SaveFails`, `ReserveFails`), a client be killed, the host crash; documents,
  checkout and vLLM client change under it (`Change`).
* `BenchResult!ValidateResult` recomputes what `validate_result` recomputes. The result a
  client reads is that of an undisturbed run with one of the mishaps of
  `Disturbances` applied.
* A **campaign attempt** claims its campaign, reserves its output, loads, sends each sealed
  prompt as baseline, candidate, baseline (`Generate`), attests the routes the
  layers recorded (`Attest`), screens the pilot, decides and publishes. `ran` is which lane
  really ran, `route` what the layer's record says; the harness sees the second. v6 and v7
  differ in what a failed pilot means.
* Statistics are integers: a bound of a one-sided t interval is compared after
  squaring, which is exact.

## 3. Runs

| Run | Instance | Shows |
|---|---|---|
| `weight_load` | two composite modules (two sharded planes; a sharded and a replicated one), a stacked and a per-expert-format layer with a static activation scalar, the second rank of two, two calls, 16 tensors | `GroupAtomic`, `ReadyIsFilled`, `OwnSlice`, `ScalesAgree`, `CommittedOnce`, `NoFalseRefusal`, `LoadEnds`, and refinement of `ServeGate` (`GateSpec`) |
| `unguarded_scale` | the well-formed checkpoint only, which the stream may cut short | **violated** `ServedInitialized`: an omitted FP8 row scale is served as `torch.empty` left it; the fill guard watches `cb_qweight` only |
| `native_ext` | two threads, the bridge, a 12.1 and an 8.9 device, two operations each, one flag change | `LaneFailureScope`, `NoSilentSubstitute`, `OneBridge`, and refinement of `OnceCell` (`OnceSpec`) |
| `native_live` | two threads, two families, a preload walking both | `CallsReturn` |
| `residency` | three models with tiles of three sizes, two of them with a compiled layer | `SitesResolve`, `OneTile`, `GraphsOutliveLoadsThatFit`, `EntriesExpire` |
| `bench_run` | two clients that share a name; seven bundles of documents, every argument vector that must be refused, every mishap of a vLLM command | `SuccessIsEarned`, `EvidenceCoherent`, `ZeroIsDurable`, `ClaimRespected` |
| `ab_campaign` | two attempts that share a campaign or an output, two FP4 layers and an FP8 one, v6 and v7, two sealed prompts, every kind of measurement and of wrong answer | `PromotionEarned`, `OneMeasurement`, `PassIsDurable`, `EvidenceKept` |
| `pilot_v7` | one v7 attempt | **violated** `PilotRejectionHolds`: the pilot fails, the confirmation passes, and the report promotes; the comment beside the code calls that "NOT an automatic promotion" |
| `model_build` | 29 scenarios of documents, models and workers: dense, fused, vintage spellings, a mapper, stock groups (on routed experts also behind a mapper), tables, experts in two formats, a target with its draft under moving tags | `SidecarsAgree`, `ContextsRestored`, `DeclaredIsServed`, `ExpertsAsDeclared`, `DelegationJudged` |
| `fused_trellis` | one document that declares the roles of a fused projection a trellis | **violated** `DeclaredIsServed`: the layer is built as an ordinary unquantized Linear |
| `mapped_stock` | a model class with a name mapper, one document with a stock group on a dense layer | **violated** `DeclaredIsServed`: the layer is served unquantized; the declarations have moved into the mapper's namespace, the layer asks under its canonical name |
| `forward_pass` | *lanes*: one or two layers of every kind on hosts with one kind of device or two, with every extension present, missing or built for the other device, every spelling of every flag, two calls, two flag changes; *rows*: four experts, two per token, one rank or two, every lane; *offsets*: two threads, two layers, one shape | `RowsOwnTables`, `SelectionServed`, `RouteRecorded`, `SetUpAtLoad`; `EachPairOnce`, `AliasAddsNoRead`; `HandedIsKept`, `OneConstant`, `CallsEnd` |

`forward_pass` runs `LaneDispatch`, `RoutedForward` and `RoutingCaches` side by side: they
share no variable, so interleaving them would add no behaviour to any, and each
behaviour moves one of the three (`moving`) and leaves the others at an initial state.

The type invariants of `WeightLoad`, `NativeExt`, `Residency`, `RoutingCaches`,
`RoutedForward`, `BenchRun`, `ABCampaign` and `LaneDispatch` are proved (section 4), so no run
lists them. `MCBenchRun` and `MCABCampaign` also evaluate, as assumptions, `GatesSound` and
`TextsVary`, each the hypothesis of a theorem.

**Bounds.** *Loading*: `MaxCalls = 2`: a call can only influence the next one through
parameters and sentinels, so a second call already meets every leftover of
a first. Two groups let one commit while the other is incomplete; two planes
are the least a copy loop can be interrupted between. The wire holds one good
tensor per parameter and, beside them, one of each fault: second spelling, wrong
dtype, already cut (to the other rank's share), wrong extent, contradicting value, orphan. `Degree = 2` is
the least that shards; `Depth = 1` is one wrapped method (see section 5 for two).
*Native extensions*: the lock and the fast path involve a pair of
threads; `MaxOps = 2` lets each come back after the outcome is published;
`MaxFlips = 1` places a flag change at any point between the build's reading
and the dispatch's. *Residency*: three sizes are the least
at which a failed large reservation meets a smaller one that still grows the pool;
ids are bounded by the layers that register. *Routing caches*: two threads meet at
each lock and two layers share one tensor; `MaxLookups = 3` lets a thread come back after an
unload. *Routed forward*: tiles have two rows and swizzle groups two tiles, so that
with three tokens and two experts each an expert can be absent, fill a tile, leave one part
empty, or need two; the five routes include both orders of a pair, experts of
one rank only, and a padding token; a batch of one token decodes and one of three
prefills. Deployments are a list, not a product: each lane without expert
parallelism or under linear, round-robin or uneven placement, chunks that do and do not
divide the experts, the trim on and off, and two placements that must be refused.

*Benchmark and campaigns*: a scenario carries its budget of changes, failed calls and
host crashes (`left`), one or two of each kind, which may fall between any two
steps. Two processes are the least that contend; five inodes are a reservation or claim and a
temporary for each of them and one more; a file is created only while an inode is
free (`Unused`), so their number is a bound and never an error the code could see. Two sealed prompts and two warm-up
positions are the least at which a prompt, an order or a triplet can be
exchanged; the t quantile is that of two samples. What changes does not change
back: a document edited and restored between two reads is seen by nobody. *Model build*: a decoder
layer or two, since names differ between layers by their index only; each
document is about one thing, and the layers beside it are stock. Tags move
between any two steps. *Lanes*: two layers are the least between
which a flag or a device can change, two calls the least at which a second meets the first's offsets and
record, two changes let a flag go and come back. Row counts sit at each
boundary a lane tests (8/9, 16/17, 128/129, and fp16/fp32 where a lane refuses them); the codebook
layers have the true sizes of a tile and a quantum, in which only the rows at the corners of each role,
block and tile are compared (`Corners`). The trellis constants are scaled: blocks of 8 columns for 256, a
code of memory 3 for the source's 8, rows aligned to 2 bytes; what matters is kept:
blocks longer than the memory, a last block that is short, columns that bypass the
walk, mixed rates in a block, rows that do not fill a word.

**Fairness.** `WeightLoad` runs in one Python thread, so `WF_vars(Progress)`
only says that the thread keeps running; breaking, being called again are not
obliged to happen. `NativeExt` asks weak fairness of each thread's `Step`: the
interpreter runs every thread that can run, and a build terminates (the
toolchain is run with no lock but its own). `threading.Lock` promises no
ordering, and none is assumed: with finitely many operations the
lock is eventually free for good. No fairness for starting an operation or for
changing the flag. `Residency` asks weak fairness of each `Expire`: the interpreter
runs the callbacks it has queued; nothing obliges it to collect, or anyone to load,
run or drop a model. `RoutingCaches` asks weak fairness of each thread's `Step`
and none of calls or unloads. `RoutedForward`, `QuantConfig`, `LaneDispatch`, `BenchRun`
and `ABCampaign` state safety only: a constructor, a benchmark or a campaign may be
abandoned anywhere. The last three stop, so their runs do not check deadlock, and in `forward_pass`
a process may get no further call (`NoMoreCalls`).

## 4. Proofs

`WeightLoadProofs` proves, for every set of modules, parameters and
tensors, every sharding degree, nesting depth and number of calls, from
`LoadAssumption` alone:

* `TypeCorrect` (`TypeOK`);
* `GroupsAreAtomic` (`GroupAtomic`), `ReadyModulesAreFilled`
  (`ReadyIsFilled`), `RanksKeepTheirSlice` (`OwnSlice`): whatever is cut is
  held by a rank in that rank's own share, whatever is not is held whole;
* `ScalesStayAgreed` (`ScalesAgree`): under the wrapper every accepted copy of an activation
  scalar carries the value the parameter holds, through any number of calls;
* `PlanesAreCommittedOnce` (`CommittedOnce`), an action property;
* `RefusalsHaveReasons` (`NoFalseRefusal`), an action property, for one wrapped
  `load_weights` (`Depth = 1`; section 5 says why not two);
* `LoadImplementsGate` (`GateSpec`): every step of the load is a step of
  `ServeGate` or a stutter.

`GroupAtomic` speaks of the states outside the copy loop, and is not
inductive: the loop itself makes a module half new. The invariant `IInv` adds
what is true inside it (`Copying`: planes already copied carry this call's number,
those to come share an older one and are staged), that an
uncommitted group was last written by an earlier call (`Fresh`, without which a
commit could not make it even again), that what is staged is the rank's own part
(`PendingCut`), and that a set fill sentinel means loaded bytes
(`FilledIsLoaded`, which with `ReadyWasFilled` carries `ReadyIsFilled`).

Why Gridbook refuses is a statement about the stream, and `HeardInv` relates the
transactions to it: what is staged, being copied or committed was heard, what was
heard for a composite module has not been dropped, an open module lacks a plane, and
a call that returned committed every module (`ReturnedWhole`). So a refused `finish`
means a plane that was not sent, and only an expert layer can be found wanting afterwards.

`ProcessStateProofs` proves, of `Residency`, for any number of models, layers and tile sizes, from
`ResidencyAssumption` alone: `TypeCorrect`, `CallsRunTheirLayer`
(`SitesResolve`), `LayersShareOneTile` (`OneTile`) and `GraphsSurviveLoadsThatFit`
(`GraphsOutliveLoadsThatFit`). The registry half of `IInv` says that ids are
names (`IdsAreNames`: no id on two layers, none due for a live one) and that a live
finalized layer has its entry (`LiveHasEntry`). The pool half (`PoolInv`) follows
a client through the growth loop: between two turns a client is either on the newest
storage or still due (`Due`), and every storage newer than its view is one whose
loop raised. For graphs, `GraphInv` adds that a loading model's layers are
alive and exactly up to date (`LoadingFollows`: only a load that fails leaves a
client behind), that a ready model's views (`ReadyFollows`) and a captured graph's
storages (`GraphsFollow`) are current or superseded by a tile larger than all of the model's.

`RoutedForwardProofs` proves, for any number of experts, ranks, tokens and batch sizes,
any routing, any placement and any tile, swizzle and chunk size, from
`ForwardAssumption` alone: `TypeCorrect`, `EveryPairOnce` (`EachPairOnce`) and
`AliasesReadNothingNew` (`AliasAddsNoRead`). The argument follows the code's
composition of permutations:

* *Placement.* `GatherInvertsPlacement` and `GatherKeepsOrder` (the stacks are the
  placement, in checkpoint order), `RemapStaysLocal`, `LivePairsMeetTheirExpert`,
  `AliasStaysWithToken`, and `PairsLiveOnce` (across ranks that share the
  experts out, every pair keeps its weight on exactly one).
* *Order.* A stable argsort is a permutation, whose positions below a key's first are
  the pairs of smaller keys; so an expert's pairs are one segment of it.
* *Layout.* The tiles before an expert's (`Offsets`) have room for the pairs before it, tile
  owners are those the offsets say, and `CapacityHolds`: the static capacity covers
  the tiles of every routing. It is the inequality on which replaying a graph over other routings rests.
* *Packing.* `PackingIsInside`: `pack_expert_blocks` takes each busy expert once, keeps it
  inside its launch's range of tiles, and lays no two over one another. The launches divide
  the experts, so a tile is in exactly one, that of its own expert.
* *Rows.* Each lane therefore computes rows that are `Exact`: one for each pair, in that pair's
  slot, at places of their own (`DecodeIsExact`, `SegmentsAreExact`, `FusedIsExact`,
  `ChunkedIsExact`).

`IInv` carries this through the engine: what a rank has put out is exact for the batch under
way (`OutInv`), whose ranks were all built from accepted placements (`PlacedInv`), and a captured
graph holds the worst-case number of tiles of its batch size, never a routing's own
(`GraphInv`); without that conjunct a replay could be one tile short. Inductions over data
are done on sets of naturals, with the library's well-founded minimum (a least
counterexample has a predecessor), which needs no operator parameter.

`NativeExtProofs` proves, for any number of threads, families, devices, operations
and flag changes, from `ExtAssumption` alone: `TypeCorrect`, `LayersShareOneBridge`
(`OneBridge`), `LaneFailsAlone` (`LaneFailureScope`), `LaneIsNotReplaced`
(`NoSilentSubstitute`) and `CacheImplementsCells` (`OnceSpec`: each family is an
`OnceCell`). `IInv` says that a thread inside the locked path of a family holds its
lock (`Exclusive`) and where it stands with the outcome (`Outcomed`: who builds sees it
unset, who holds an answer holds the published one). A substituted bridge is the hard
case, since the flag may change between the two halves of a build: `Attempted`
keeps the record of attempts in step with the builder, and says which of them excuses a bridge
that is missing for good.

Of `RoutingCaches` it proves, from `CachesAssumption` alone: `CachesTypeCorrect`,
`HandedOutIsKept` (`HandedIsKept`) and `LayersShareTheConstant` (`OneConstant`). The pool
names, for each key, the only tensor that a layer keeps (`KeptIsPooled`) or that a call is about
to store (`StoredIsPooled`); although it holds tensors weakly, it is replaced only
under its lock and only when there is no such tensor (`NothingPooled`).

`QuantConfigProofs` proves, for every sequence of builds, every document and
repository, every nesting of constructors and every place at which one raises:
`ContextsAreRestored` (`ContextsRestored`), `SidecarsAreTheModels` (`SidecarsAgree`) and
`ExpertsAreAsDeclared` (`ExpertsAsDeclared`). Its
assumptions are on the scenarios, that a build is of the target or of the draft, that the
draft is entered at its own entry point, through no mapper, that only a lookup table is built
without a configuration, and that a stack says how many experts it has (`ScenariosAssumption`), and on
the value that stands for nothing (`AbsentAssumption`). `CInv` is what each running constructor
saved when it was entered (`Framed`), and that a resolved configuration stays as it is;
`SInv` adds that the draft's authority is in force whenever a draft may be the first to ask,
and that the answer of a decoder pinned the source the codebooks are later read from
(`Decoded`). `PInv` is what a resolved configuration owes its document: it was accepted when
it was read (`ReadAccepts`), and the partitions kept are the ones it declares (`Owes`), through the mapper's
renaming (`RenameKeeps`), the reads after the load and the next build; a stack that was split
was split by those partitions (`Split`), and no other module ever is (`PartitionOnly`). That every expert
is then found (`IndexFinds`) needs a bound on where to look: ids that are sorted and do not repeat never
lag behind their places (`IdsOutrunPlaces`, by the least place that would), so the place of
expert e is at most e + 1.

`BenchRunProofs` proves, for any number of clients, any documents and any command
lines, from `BenchAssumption`: `TypeCorrect`, `NameRespected` (`ClaimRespected`),
`ZeroDurable` (`ZeroIsDurable`) and `EvidenceBinds` (`EvidenceCoherent`); and, from `GatesSound` as well, `SuccessEarned`
(`SuccessIsEarned`). `GatesSound` says that of the disturbed results of a command the
validation lets through only the true one (and the one whose end-to-end
latency also covers the terminal event, which is no error): arithmetic over sequences of any
length, which TLC evaluates for the command lines of the instance. `CourseInv` follows a client from block to
block. Each one was judged (`Measured`); documents, commit and runtime only move on,
so what was lost after it was recorded stays lost, and is noticed when they are compared again after the last
block (`Observed`); a report of success on the disk is the one its client keeps
(`Written`). `NameInv` is about the files. Everything readable under the name that a client which
claims it wrote is one client's, that of the one at work (`Marked`, `Apart`); a temporary file
is its client's own (`Private`) and reaches the name as it was synced (`Kept`). `VettedInv` is about the documents: a client past
`parse_args`, and the author of any text on the disk, was accepted with documents that were
there. Acceptance adds bytes along the list of files, where the property sums over the set of
them. `FoldSums`, `SumsMove` and `TotalIsSum` show that the two agree when the entries differ, by
induction on the size of a set; `BenchAssumption` says that a PrismaQuant inventory, a
mapping, names no file twice (of the others the code checks it).

`ABCampaignProofs` proves, from `CampaignAssumption` (names are distinct, budgets are
numbers, the sealed prompts as many as their windows, none shorter than the pilot's prefix): `TypeCorrect`, `CampaignMeasuredOnce` (`OneMeasurement`),
`ExitZeroIsDurable` (`PassIsDurable`) and `EvidenceIsFinal` (`EvidenceKept`). Both modules rest on lemmas about each call of
`EvidenceDir`. `IInv` gives every name the texts that may ever be read
under it, now or after a crash (`Sound`), keeps files of two names apart except across a
rename that is not synced (`Apart`), gives a claim and an output one owner
(`Exclusive`), and for each step of an attempt says how far its claim, output and temporary
have got: seen, synced, synced under a synced name (`Progress`).

It also proves `PromotionIsEarned` (`PromotionEarned`), for any number of layers, prompts and
attempts and any vocabulary, when in the text of every exact profile some token is followed by
another (`TextsVary`): in one token repeated, an answer shifted by a position passes every check.
`RowsAreTrue` goes through what may befall an answer and shows that whatever passes `Compact` is
the row the model computed. `MeasureInv` says that what is in flight belongs to the request that
comes next and recorded the route it took (`InFlight`), so that an entry of the log that
passes ran on its own arm (`Told`); the decision then sees the scores of the arms it
attributes them to (`TrueScores`), three for each prompt (`Triplets`), and only
`Conclude` writes a promotion (`ConcludeEarns`). `MeasureInv` was checked on the run's instance first.

`LaneDispatchProofs` proves, for any hosts, layers, environments, calls and any history of the
flags: `RouteIsRecorded` (`RouteRecorded`), `LanesAreSetUp` (`SetUpAtLoad`),
`SelectionIsServed` (`SelectionServed`), `PackedRowsOwnTables` (the dense, routed and source-byte
conjuncts of `RowsOwnTables`) and, given `TrellisSound`, `EveryRowOwnsTables` (`RowsOwnTables`).
Its assumptions are that the value that stands for nothing is no spelling
(`AbsentAssumption`) and what vLLM hands a layer (`LanesAssumption`): a fused projection is whole
shards, each inside the rank's share of the role that owns it (`ShardsOk`), inner roles of a source
plane fill their scale blocks (`PlaneOk`; section 5), grouped products stand in an
attention class the adapter knows (`LayerOk`).

* *The invariant.* None of the properties is inductive: they compare a call with flags as they were
  when somebody first read them. `DispatchInv` says what load settled and nothing can unsettle: the
  flags a layer read are latched, its load passed under those spellings, what it
  keeps is the function of them that load computes (`LoadInv`, kind by kind), verdicts and
  warmed offsets only come from attestations and loads on that host (`VerdictInv`,
  `Settled`), and the last call of a layer has the launch that the
  kept lanes give it, with the record written from that launch (`CallInv`). `SettledStays` carries it
  over every step: a latch is never rewritten, and the value a flag is read with is that of the latch.
* *Calls.* One lemma per launch chain says what it can end in (`Fp4LaunchIs`,
  `Fp8LaunchIs`, `MoELaunchIs`, ...): which symbols, with which guards of load behind them, and how the lane
  writes its record. The properties are then facts about the chain a layer kept.
* *Tables.* `RowHasSpan` and `SpanIs` (every row is in exactly one shard), `OwnRole` (the shard's
  owner is the role the layer's offsets say, also where vLLM merges shards),
  `ByOffset`, `ByTile` (a tile whose boundaries are safe lies in one dictionary) and `ByRun` (the
  segment of the quality bridge has the row's block) give `DenseDecodes`. For source FP8,
  `RolesBeginBlocks`, `OwnScaleRows` and `OwnScaleColumn`: the scale blocks the loader narrowed to a rank are those
  of the rank's rows and columns, for every width, degree and rank.

`TrellisSound` says of each wire that a process accepts that it decodes to the encoder's
codes. It names no state of the process; the encoding is bits and exclusive-or folded along a block,
which the provers cannot unroll, so it stays a hypothesis; `RowsOwnTables` of the run evaluates the
same equation for every wire of the instance that a process accepts.

Only model-checked, because the provers cannot reach them: `LoadEnds`, `CallsReturn`,
`EntriesExpire` and `CallsEnd` (liveness); and what rests on folds and sums over
bits and names of any length: `TrellisWire` and `Namespaces`. `GatesSound` is a fact of
the command lines of the instance and not of every one (of prompts that are all alike no validation
tells a shifted result), so it stays a hypothesis, and so do `TextsVary` and `TrellisSound`. Only model-checked so far:
`DeclaredIsServed` and `DelegationJudged` of `QuantConfig`. They compare a document's names of tensors with the
names the modules are built under; which pairs of the two belong together is the checkpoint's
layout and vLLM's, a scenario's choice, and assuming it of every scenario would assume most of
what the properties say.

## 5. Not modelled, and seen on the way

Not modelled: the contents of tensors beyond a value tag and the numerical kernels; the
`native_cutlass.py` import (the shape of `NativeExt` again); the runtime contract
and the offline validation of activation measurements (field checks); device
preflights, the other A/B validators and the release scripts (command-line tools without
state); the redaction of secrets and the summary statistics of the benchmark; the teacher and
provenance records of a campaign; `latched_int` and the choice of a tile height, which
change no result; scaled values (`decode_values`) and the raw research operators of
the trellis; the per-expert CB/MXFP4 layer beyond its partition.

What some models take as given is part of what they show:

* e4m3 and e2m1 values are ordered by sign and magnitude.
* An environment variable that selects a trellis residency is read by each constructor and never
  pinned; one process may build layers of two kinds.
* `gather_expert_major` takes a stack whose leading extent is the rank's already as it is
  (`moe_ep.py:171-172`), whoever's experts it holds: nothing in the tensor tells. `OwnSlice` says so.
* The document of `model_build` that a mapper meets with dense layers has no stock group on them, as
  `mapped_stock` shows what becomes of it. It is what the audited compressed-tensors builds do, which
  return nothing for a name without a target; older ones raise, and the load ends (`config.py:1594-1598`).
* A codebook call that raises while it quantizes its activations, before its lane writes anything, leaves
  the record of the call before it. `RouteRecorded` speaks of calls that reached their launch.
* An attention class the DeepSeek-V4 adapter does not know, loaded beside one it
  does, is not wrapped; the layers of the model are of a known class.
* Where vLLM's capture sizes cannot be read, nothing is pre-warmed and
  `SetUpAtLoad` does not cover the first capture (`told`).
* Merged FP8 planes at tensor-parallel degree 1 with an inner role of unaligned width
  are not refused (`fp8_source_w8a16.py:147-194`), although vLLM's rounded
  offsets would place the next role's scales one block late; the instances have aligned roles.
* The occupancy predicate of the second GEMV is that of its docstring; a host of
  unknown capability passes the Python checks and fails at its first prepare.
* A directory entry synced by a claim of its own is redundant for `OneMeasurement`: the output's
  sync follows in the same directory.

Seen while modelling, and outside the runs:

* The default bridge is handed out without comparing the capability it was built for
  (`moe.py:770`); `get_fused_ext` and `get_fused_fp4_ext` lanes and
  `require_trellis_r256_ext` do no such check either. `SetUpAtLoad` speaks of
  the lanes that attest.
* Two nested wrapped `load_weights`: the outer stages, and the inner `finish()`
  refuses a complete checkpoint (`moe_toplevel_loader.py:1101`). `WeightLoad` with
  `Depth = 2` and the good wire violates `NoFalseRefusal`; `Depth = 1` is one wrapped method.
* Growth of the decode pool frees a storage that a graph captured earlier decodes into
  (`trellis_decode_pool.py:52`): `GraphsOutliveLoadsThatFit` is the promise that holds.
* A client whose allocation raised is listed already; a later, smaller
  growth then raises in `_bind` (`trellis_decode_pool.py:50`).
* A benchmark whose last directory sync fails after the rename prints FAIL and exits 1,
  while the published report may say PASS; the campaigns likewise.
* A fixed-shape result cannot be told from another block's of the same command.
* The FP8 persistent-B lane is required and announced at load (`moe.py:958`), but the
  grouped fused lane is asked first (`moe.py:1130-1138`).
* `docs/PLUGIN.md:804` says the mid-M opt-in "never substitutes the expansion route"; rungs
  off the law and layers with two books take it (`linear.py:1390-1418`).
* `docs/KERNELS.md:366-376` describes telemetry in two phases. The FP4 mid-M and bridge arms
  (`linear.py:1318-1340`) and the persistent-B, BF16 and sm12x arms (`moe.py:1500-1885`) write
  after their launch only, and the FP4 decode GEMV, the MoE decode, MXFP8 and the
  trellis lanes write nothing. `Covered` names the calls `RouteRecorded` is about.
* An expert stack of which only some roles are declared, all with one book, is
  not refused at dispatch; the fill guard catches it after loading. An exact
  declaration of a fused module as a codebook group yields no roles and fails at load.
* A source slice written into part of a delegated MXFP4 parameter is a
  whole-parameter copy here. In that path `moe_mixed.py:374` builds the
  attribute name from the plane (`..._scale`), while the parameters it should
  find are named `..._weight_scale`; no test reaches it.
* `preload_native_extensions` says "EVERY" extension (`cuda_ext.py:1185`) and
  "all nine modules" (`:1194`), while the list it walks has six.
* `moe_ep.py` says of a remote pair's alias that "the token is already reading
  that expert with a nonzero weight". For a padding token (expert 0, weight 0) on the
  rank that owns expert 0 it is reading it with weight zero; every row of such a
  token is sliced away or ignored by vLLM, and `AliasAddsNoRead` says nothing of it.
* That a row of weight zero "contributes exactly zero" needs a finite product:
  a token without a local expert reads slot 0, and `0 * inf` is not zero. Finite
  weights and activations are assumed; numbers are not modelled.
* `moe_routing.py` still defines `cb_cached_expert_map`, which nothing calls.

## 6. Plan

Done: every module of section 2, and the proofs of section 4.

1. `DelegationJudged` and `DeclaredIsServed` of `QuantConfig`, for a stated class of name
   layouts, in `QuantConfigProofs`.
2. Composition of `LaneDispatch` with `RoutedForward`: the lane that load chose
   feeds the forward.
