------------------------------ MODULE NativeExt ------------------------------
(***************************************************************************)
(* The process-wide cache of JIT-built native extensions                   *)
(* (gridbook/cuda_ext.py) and the opt-in lane resolved on top of it at     *)
(* model load (lane_select.py, bf16_grouped_lane.py, moe.py).              *)
(*                                                                         *)
(* Each family is an (ext, tried, lock) triple behind a double-checked     *)
(* fast path that takes no lock.  The grouped BF16 bridge is special: on   *)
(* compute capability 12.x it is first built with an extra lane that an    *)
(* environment flag opts in, and rebuilt without it if that fails.  The    *)
(* flag is read live by the build and pinned by the dispatch.              *)
(***************************************************************************)
EXTENDS Naturals, Sequences

CONSTANTS
    Threads,     \* callers inside one process
    Families,    \* the extension families of this build
    Devices,     \* visible GPUs
    CapOf,       \* CapOf[d]: the compute capability of device d
    MaxOps,      \* bound: operations each thread starts
    MaxFlips     \* bound: changes of the environment flag

Bridge   == "bf16_grouped"
Sm12x    == {"12.0", "12.1"}
AllFamilies == {"gemv", "gemv_v2", "bf16_grouped", "fp8", "fp4", "fp4v2",
                "mxfp8_dense", "fp8_source_w8a16", "moe_persistent_b",
                "trellis_r256"}

\* The loaders preload_native_extensions names.
PreloadFamilies == {"gemv", "gemv_v2", "bf16_grouped", "fp8", "fp4", "fp4v2"}

Free == "free"     \* a lock nobody holds

ASSUME ExtAssumption ==
    /\ Families \subseteq AllFamilies
    /\ Bridge \in Families
    /\ Devices # {} /\ Free \notin Threads
    /\ CapOf \in [Devices -> Sm12x \cup {"8.9"}]
    /\ MaxOps \in Nat /\ MaxFlips \in Nat

Flags == {"unset", "on", "typo"}

\* A loaded module: built with or without the lane, for one capability.
Module == [half : {"lane", "base"}, cap : Sm12x \cup {"8.9"}]
NoExt   == [half |-> "none", cap |-> "none"]
Unasked == [half |-> "unasked", cap |-> "none"]

\* "fails": the toolchain, the device query or a check of the loaded module;
\* "incomplete": the install lacks a source file.
Outcomes == {"good", "fails", "incomplete", "interrupt"}
Attempt  == [half : {"lane", "base"}, outcome : Outcomes, flag : Flags]

VARIABLES
    ext, tried, lock,   \* the cache: one triple per family
    env,                \* the flag in os.environ
    latched,            \* lane_select._LATCHED for the flag, or "none"
    pc, op, fam, dev,   \* where each thread is, and what it is doing
    todo,               \* families a preload has yet to visit
    half,               \* the configuration a builder tries next
    got, seen,          \* the extension and the flag a thread holds
    ops, flips,         \* what the bounds count
    attempts,           \* attempts[f]: every build of f, in order
    served              \* layers loaded, with the module each one keeps

cache   == <<ext, tried, lock, attempts>>
thread  == <<pc, op, fam, dev, todo, half, got, seen, ops>>
outside == <<env, flips>>
vars    == <<cache, thread, outside, latched, served>>

TypeOK ==
    /\ ext \in [Families -> Module \cup {NoExt}]
    /\ tried \in [Families -> BOOLEAN]
    /\ lock \in [Families -> Threads \cup {Free}]
    /\ env \in Flags /\ latched \in {"none", "unset", "on"}
    /\ pc \in [Threads -> {"idle", "look", "read", "wait", "again", "build",
                           "mark", "release", "drop", "unwind",
                           "answered", "latch", "pin", "decide", "lane"}]
    /\ op \in [Threads -> {"probe", "preload", "load"}]
    /\ fam \in [Threads -> Families] /\ dev \in [Threads -> Devices]
    /\ todo \in [Threads -> SUBSET Families]
    /\ half \in [Threads -> {"lane", "base"}]
    /\ got \in [Threads -> Module \cup {NoExt, Unasked}]
    /\ seen \in [Threads -> {"unset", "on"}]
    /\ ops \in [Threads -> 0..MaxOps] /\ flips \in 0..MaxFlips
    /\ attempts \in [Families -> Seq(Attempt)]
    /\ served \subseteq [flag : {"unset", "on"}, dev : Devices, ext : Module]

Init ==
    /\ ext = [f \in Families |-> NoExt]
    /\ tried = [f \in Families |-> FALSE]
    /\ lock = [f \in Families |-> Free]
    /\ env \in Flags /\ latched = "none"
    /\ pc = [t \in Threads |-> "idle"]
    /\ op = [t \in Threads |-> "probe"]
    /\ fam = [t \in Threads |-> Bridge]
    /\ dev = [t \in Threads |-> CHOOSE d \in Devices : TRUE]
    /\ todo = [t \in Threads |-> {}]
    /\ half = [t \in Threads |-> "base"]
    /\ got = [t \in Threads |-> Unasked]
    /\ seen = [t \in Threads |-> "unset"]
    /\ ops = [t \in Threads |-> 0] /\ flips = 0
    /\ attempts = [f \in Families |-> <<>>]
    /\ served = {}

Goto(t, from, to) == pc[t] = from /\ pc' = [pc EXCEPT ![t] = to]

------------------------------------------------------------------------------
(* Operations begin. *)

Start(t, kind, f, d, rest) ==
    /\ Goto(t, "idle", "look")
    /\ ops[t] < MaxOps
    /\ ops' = [ops EXCEPT ![t] = @ + 1]
    /\ op' = [op EXCEPT ![t] = kind]
    /\ fam' = [fam EXCEPT ![t] = f]
    /\ dev' = [dev EXCEPT ![t] = d]
    /\ todo' = [todo EXCEPT ![t] = rest]
    /\ got' = [got EXCEPT ![t] = Unasked]
    /\ UNCHANGED <<cache, outside, latched, served, half, seen>>

\* A capability probe: get_ext() and its siblings.
Probe(t) == \E f \in Families, d \in Devices : Start(t, "probe", f, d, {})

\* plugin.register warms the registered families, one after the other.
Preload(t) ==
    \E d \in Devices, f \in PreloadFamilies \cap Families :
        Start(t, "preload", f, d, (PreloadFamilies \cap Families) \ {f})

\* process_weights_after_loading of a layer that needs the bridge.
Load(t) == \E d \in Devices : Start(t, "load", Bridge, d, {})

------------------------------------------------------------------------------
(* get_*_ext(): the fast path, the lock, the build. *)

Look(t) ==
    /\ Goto(t, "look", IF tried[fam[t]] THEN "read" ELSE "wait")
    /\ UNCHANGED <<cache, outside, latched, served, op, fam, dev, todo, half,
                   got, seen, ops>>

Read(t) ==
    /\ Goto(t, "read", "answered")
    /\ got' = [got EXCEPT ![t] = ext[fam[t]]]
    /\ UNCHANGED <<cache, outside, latched, served, op, fam, dev, todo, half,
                   seen, ops>>

Acquire(t) ==
    /\ Goto(t, "wait", "again")
    /\ lock[fam[t]] = Free
    /\ lock' = [lock EXCEPT ![fam[t]] = t]
    /\ UNCHANGED <<ext, tried, attempts, outside, latched, served, op, fam,
                   dev, todo, half, got, seen, ops>>

\* The configuration the locked loader tries first.
FirstHalf(f, d) == IF f = Bridge /\ CapOf[d] \in Sm12x THEN "lane" ELSE "base"

StartBuild(t) ==
    /\ Goto(t, "again", "build")
    /\ half' = [half EXCEPT ![t] = FirstHalf(fam[t], dev[t])]
    /\ UNCHANGED <<cache, outside, latched, served, op, fam, dev, todo, got,
                   seen, ops>>

FoundTried(t) ==
    /\ tried[fam[t]]
    /\ Goto(t, "again", "answered")
    /\ got' = [got EXCEPT ![t] = ext[fam[t]]]
    /\ lock' = [lock EXCEPT ![fam[t]] = Free]
    /\ UNCHANGED <<ext, tried, attempts, outside, latched, served, op, fam,
                   dev, todo, half, seen, ops>>

Recheck_Never(t) == StartBuild(t)

\* The second look, under the lock.
Recheck(t) == FoundTried(t) \/ (~tried[fam[t]] /\ StartBuild(t))

\* cuda_ext asks the environment itself: a typo counts as opted in.
OptedIn == env # "unset"

Retries_Never(h, outcome)     == FALSE
Retries_Unasked(h, outcome)   == h = "lane" /\ outcome = "fails"

\* A failed lane is rebuilt without it, unless the operator asked for it or
\* the sources are missing, which no rebuild can mend.
Retries(h, outcome) ==
    /\ h = "lane"
    /\ outcome = "fails"
    /\ ~OptedIn

Ran(t, outcome) ==
    attempts' = [attempts EXCEPT
        ![fam[t]] = Append(@, [half |-> half[t], outcome |-> outcome,
                               flag |-> env])]

\* One run of the toolchain and the checks on what it loaded: symbols, then
\* the identity it was built under.  Only a checked module is assigned.
BuildGood(t) ==
    /\ Goto(t, "build", "mark")
    /\ Ran(t, "good")
    /\ ext' = [ext EXCEPT ![fam[t]] = [half |-> half[t],
                                       cap  |-> CapOf[dev[t]]]]
    /\ UNCHANGED <<tried, lock, outside, latched, served, op, fam, dev, todo,
                   half, got, seen, ops>>

BuildAgain(t, outcome) ==
    /\ pc[t] = "build"
    /\ Retries(half[t], outcome)
    /\ Ran(t, outcome)
    /\ half' = [half EXCEPT ![t] = "base"]
    /\ UNCHANGED <<ext, tried, lock, outside, latched, served, pc, op, fam,
                   dev, todo, got, seen, ops>>

BuildFails(t, outcome) ==
    /\ Goto(t, "build", "mark")
    /\ ~Retries(half[t], outcome)
    /\ Ran(t, outcome)
    /\ ext' = [ext EXCEPT ![fam[t]] = NoExt]
    /\ UNCHANGED <<tried, lock, outside, latched, served, op, fam, dev, todo,
                   half, got, seen, ops>>

\* KeyboardInterrupt and its like pass every handler but the finally clause.
Interrupt(t) ==
    /\ Goto(t, "build", "drop")
    /\ Ran(t, "interrupt")
    /\ UNCHANGED <<ext, tried, lock, outside, latched, served, op, fam, dev,
                   todo, half, got, seen, ops>>

Build(t) ==
    \/ BuildGood(t) \/ Interrupt(t)
    \/ \E o \in {"fails", "incomplete"} :
          BuildAgain(t, o) \/ BuildFails(t, o)

\* The finally clause publishes the outcome.
Mark(t) ==
    /\ Goto(t, "mark", "release")
    /\ tried' = [tried EXCEPT ![fam[t]] = TRUE]
    /\ UNCHANGED <<ext, lock, attempts, outside, latched, served, op, fam,
                   dev, todo, half, got, seen, ops>>

Release(t) ==
    /\ Goto(t, "release", "answered")
    /\ got' = [got EXCEPT ![t] = ext[fam[t]]]
    /\ lock' = [lock EXCEPT ![fam[t]] = Free]
    /\ UNCHANGED <<ext, tried, attempts, outside, latched, served, op, fam,
                   dev, todo, half, seen, ops>>

\* The exception unwinds: the finally clause, then the lock, then the caller.
Drop(t) ==
    /\ Goto(t, "drop", "unwind")
    /\ tried' = [tried EXCEPT ![fam[t]] = TRUE]
    /\ UNCHANGED <<ext, lock, attempts, outside, latched, served, op, fam,
                   dev, todo, half, got, seen, ops>>

Unwind_HoldsLock(t) ==
    /\ Goto(t, "unwind", "idle")
    /\ UNCHANGED <<cache, outside, latched, served, op, fam, dev, todo, half,
                   got, seen, ops>>

Unwind(t) ==
    /\ Goto(t, "unwind", "idle")
    /\ lock' = [lock EXCEPT ![fam[t]] = Free]
    /\ UNCHANGED <<ext, tried, attempts, outside, latched, served, op, fam,
                   dev, todo, half, got, seen, ops>>

------------------------------------------------------------------------------
(* What the caller does with the answer. *)

End(t, from) ==
    /\ Goto(t, from, "idle")
    /\ UNCHANGED <<cache, outside, latched, served, op, fam, dev, todo, half,
                   got, seen, ops>>

\* A probe is content with any answer, a finished preload too; a layer that
\* gets none raises.
Finish(t) ==
    /\ End(t, "answered")
    /\ \/ op[t] = "probe"
       \/ op[t] = "preload" /\ todo[t] = {}
       \/ op[t] = "load" /\ got[t] = NoExt

PreloadNext(t) ==
    /\ Goto(t, "answered", "look")
    /\ op[t] = "preload"
    /\ \E f \in todo[t] : /\ fam' = [fam EXCEPT ![t] = f]
                          /\ todo' = [todo EXCEPT ![t] = @ \ {f}]
    /\ got' = [got EXCEPT ![t] = Unasked]
    /\ UNCHANGED <<cache, outside, latched, served, op, dev, half, seen, ops>>

\* latched_bool reads the environment and refuses a spelling it does not know.
ReadFlag(t) ==
    /\ op[t] = "load" /\ got[t] # NoExt
    /\ Goto(t, "answered", IF env = "typo" THEN "idle" ELSE "latch")
    /\ seen' = [seen EXCEPT ![t] = IF env = "typo" THEN @ ELSE env]
    /\ UNCHANGED <<cache, outside, latched, served, op, fam, dev, todo, half,
                   got, ops>>

\* _latch looks the flag up: absent, equal, or changed (which raises).
LookLatch(t) ==
    /\ Goto(t, "latch", CASE latched = "none"  -> "pin"
                          [] latched = seen[t] -> "decide"
                          [] OTHER             -> "idle")
    /\ UNCHANGED <<cache, outside, latched, served, op, fam, dev, todo, half,
                   got, seen, ops>>

\* And stores it, in a statement of its own.
Pin(t) ==
    /\ Goto(t, "pin", "decide")
    /\ latched' = seen[t]
    /\ UNCHANGED <<cache, outside, served, op, fam, dev, todo, half, got,
                   seen, ops>>

Serve(t, flag, mod) == served' = served \cup {[flag |-> flag, dev |-> dev[t],
                                               ext |-> mod]}

\* Without the lane the layer keeps the bridge it was given.
KeepBridge(t) ==
    /\ Goto(t, "decide", "idle")
    /\ latched = "unset"
    /\ Serve(t, "unset", got[t])
    /\ UNCHANGED <<cache, outside, latched, op, fam, dev, todo, half, got,
                   seen, ops>>

WantLane(t) ==
    /\ Goto(t, "decide", "lane")
    /\ latched = "on"
    /\ UNCHANGED <<cache, outside, latched, served, op, fam, dev, todo, half,
                   got, seen, ops>>

Attested_AnyDevice(d) == ext[Bridge].half = "lane"

\* require_lane: the lane's symbols are there, device d can run it, and the
\* module was compiled for just that capability.
Attested(d) ==
    /\ ext[Bridge].half = "lane"
    /\ CapOf[d] \in Sm12x
    /\ ext[Bridge].cap = CapOf[d]

TakeLane(t) ==
    /\ Attested(dev[t])
    /\ Goto(t, "lane", "idle")
    /\ Serve(t, "on", ext[Bridge])
    /\ UNCHANGED <<cache, outside, latched, op, fam, dev, todo, half, got,
                   seen, ops>>

RefuseLane(t) == ~Attested(dev[t]) /\ End(t, "lane")

\* Whoever owns the process environment changes the flag.
SetFlag ==
    /\ flips < MaxFlips
    /\ flips' = flips + 1
    /\ env' \in Flags \ {env}
    /\ UNCHANGED <<cache, thread, latched, served>>

------------------------------------------------------------------------------
Begin(t) == Probe(t) \/ Preload(t) \/ Load(t)

Step(t) ==
    \/ Look(t) \/ Read(t) \/ Acquire(t) \/ Recheck(t) \/ Build(t)
    \/ Mark(t) \/ Release(t) \/ Drop(t) \/ Unwind(t)
    \/ Finish(t) \/ PreloadNext(t)
    \/ ReadFlag(t) \/ LookLatch(t) \/ Pin(t)
    \/ KeepBridge(t) \/ WantLane(t) \/ TakeLane(t) \/ RefuseLane(t)

\* Every thread has used up its operations.
AllDone == (\A t \in Threads : pc[t] = "idle" /\ ops[t] = MaxOps)
           /\ UNCHANGED vars

Next == SetFlag \/ AllDone \/ \E t \in Threads : Begin(t) \/ Step(t)

Spec == Init /\ [][Next]_vars

\* The interpreter runs every thread that can run; nothing obliges a caller
\* to begin, or the operator to touch the flag.
FairSpec == Spec /\ \A t \in Threads : WF_vars(Step(t))

------------------------------------------------------------------------------
(* Properties. *)

\* The opt-in lane costs only the lane: when the bridge is missing although
\* nobody asked for the lane, the default configuration failed on its own.
LaneFailureScope ==
    tried[Bridge] /\ ext[Bridge] = NoExt =>
        \E i \in DOMAIN attempts[Bridge] :
            LET a == attempts[Bridge][i] IN
            \/ a.half = "base" /\ a.outcome # "good"
            \/ a.outcome \in {"incomplete", "interrupt"}
            \/ a.flag # "unset"

\* And the default configuration never stands in for a lane that was asked
\* for when it failed.
NoSilentSubstitute ==
    \A i, j \in DOMAIN attempts[Bridge] :
        i < j /\ attempts[Bridge][i].half = "lane" =>
            attempts[Bridge][i].flag = "unset"

\* All layers of a process hold one and the same bridge, the published one,
\* and a layer that runs the lane runs it on the device it was compiled for.
OneBridge ==
    \A s \in served :
        /\ tried[Bridge] /\ s.ext = ext[Bridge]
        /\ s.flag = "on" => s.ext = [half |-> "lane", cap |-> CapOf[s.dev]]

\* A caller is never left waiting: it gets its answer or an exception, also
\* when the thread that was building is interrupted.
CallsReturn == \A t \in Threads : pc[t] = "look" ~> pc[t] = "idle"

\* Each family is a OnceCell.  A thread asks from its first look until it
\* holds the answer.
Cell == INSTANCE OnceCell WITH
    Answers  <- Module \cup {NoExt},
    NoAnswer <- Unasked,
    NoFamily <- "none",
    value    <- [f \in Families |-> IF tried[f] THEN ext[f] ELSE Unasked],
    asking   <- [t \in Threads |->
                    IF pc[t] \in {"look", "read", "wait", "again", "build",
                                  "mark", "release", "drop", "unwind"}
                    THEN fam[t] ELSE "none"],
    told     <- got
OnceSpec == Cell!CellSpec
==============================================================================
