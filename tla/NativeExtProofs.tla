--------------------------- MODULE NativeExtProofs ---------------------------
(***************************************************************************)
(* What holds of NativeExt for any number of threads, families, devices,   *)
(* operations and flag changes.                                            *)
(***************************************************************************)
EXTENDS NativeExt, TLAPS

------------------------------------------------------------------------------
(* The inductive invariant. *)

Inside(t)  == pc[t] \in {"again", "build", "mark", "release", "drop", "unwind"}
Asking(t)  == Inside(t) \/ pc[t] \in {"look", "read", "wait"}
Holding(t) == pc[t] \in {"answered", "latch", "pin", "decide", "lane"}

\* A thread inside the locked path of a family holds its lock.
Exclusive == \A t \in Threads : Inside(t) => lock[fam[t]] = t

\* Where a thread stands with the outcome of its family.
Outcome(t) ==
    /\ pc[t] \in {"build", "mark", "drop"} => ~tried[fam[t]]
    /\ pc[t] \in {"read", "release", "unwind"} => tried[fam[t]]
    /\ Holding(t) => tried[fam[t]] /\ got[t] = ext[fam[t]]
    /\ Holding(t) /\ pc[t] # "answered" => op[t] = "load" /\ got[t] # NoExt
    /\ op[t] = "load" => fam[t] = Bridge

Building(t) == fam[t] = Bridge /\ pc[t] \in {"build", "mark", "drop"}

\* What excuses a missing bridge: the default configuration failed on its
\* own, no rebuild could help, or the lane was asked for.
Excuse(a) ==
    \/ a.half = "base" /\ a.outcome # "good"
    \/ a.outcome \in {"incomplete", "interrupt"}
    \/ a.flag # "unset"
Excused == \E i \in DOMAIN attempts[Bridge] : Excuse(attempts[Bridge][i])

\* The attempts recorded so far, before and after the outcome is published.
Attempted ==
    /\ ~tried[Bridge] /\ (\A t \in Threads : ~Building(t)) => attempts[Bridge] = <<>>
    /\ \A t \in Threads : Building(t) /\ pc[t] = "build" =>
           \A i \in DOMAIN attempts[Bridge] : attempts[Bridge][i].flag = "unset"
    /\ \A t \in Threads : Building(t) /\ pc[t] # "build" /\ ext[Bridge] = NoExt => Excused
    /\ tried[Bridge] /\ ext[Bridge] = NoExt => Excused

AttemptInv == Attempted /\ NoSilentSubstitute

Outcomed == \A t \in Threads : Outcome(t)

IInv == TypeOK /\ Exclusive /\ Outcomed /\ AttemptInv /\ OneBridge

------------------------------------------------------------------------------
LEMMA InitIInv == Init => IInv
PROOF
  <1> SUFFICES ASSUME Init PROVE IInv
    OBVIOUS
  <1>1. TypeOK
    BY ExtAssumption DEF Init, TypeOK
  <1>2. Exclusive /\ Outcomed /\ Attempted /\ NoSilentSubstitute /\ OneBridge
    <2>1. /\ \A t \in Threads : pc[t] = "idle" /\ op[t] = "probe"
          /\ attempts[Bridge] = <<>> /\ ~tried[Bridge] /\ served = {}
      BY ExtAssumption DEF Init
    <2>2. Exclusive /\ Outcomed
      BY <2>1 DEF Exclusive, Outcomed, Outcome, Inside, Holding
    <2>3. Attempted
      BY <2>1 DEF Attempted, Building
    <2>4. NoSilentSubstitute
      BY <2>1 DEF NoSilentSubstitute
    <2> QED BY <2>1, <2>2, <2>3, <2>4 DEF OneBridge
  <1> QED BY <1>1, <1>2 DEF IInv, AttemptInv

\* What one more attempt adds to the record of its family.
LEMMA RanFacts ==
    ASSUME TypeOK, NEW t \in Threads, NEW outcome \in Outcomes, Ran(t, outcome)
    PROVE  LET f == fam[t] n == Len(attempts[f])
           IN /\ attempts' \in [Families -> Seq(Attempt)]
              /\ \A g \in Families : g # f => attempts'[g] = attempts[g]
              /\ n \in Nat /\ DOMAIN attempts[f] = 1..n
              /\ DOMAIN attempts'[f] = 1..(n + 1)
              /\ \A i \in 1..n : attempts'[f][i] = attempts[f][i]
              /\ attempts'[f][n + 1] = [half |-> half[t], outcome |-> outcome, flag |-> env]
PROOF
  <1> DEFINE f == fam[t]
             a == [half |-> half[t], outcome |-> outcome, flag |-> env]
  <1>1. f \in Families /\ attempts[f] \in Seq(Attempt)
    BY DEF TypeOK
  <1>2. a \in Attempt
    BY DEF TypeOK, Attempt
  <1>3. attempts' = [attempts EXCEPT ![f] = Append(attempts[f], a)]
    BY DEF Ran
  <1> HIDE DEF a, f
  <1>4. attempts \in [Families -> Seq(Attempt)]
    BY DEF TypeOK
  <1>5. attempts'[f] = Append(attempts[f], a) /\ Append(attempts[f], a) \in Seq(Attempt)
    BY <1>1, <1>2, <1>3, <1>4
  <1>6. attempts' \in [Families -> Seq(Attempt)]
    BY <1>1, <1>3, <1>4, <1>5
  <1>7. \A g \in Families : g # f => attempts'[g] = attempts[g]
    BY <1>3, <1>4
  <1>8. /\ Len(attempts[f]) \in Nat /\ DOMAIN attempts[f] = 1..Len(attempts[f])
        /\ DOMAIN attempts'[f] = 1..(Len(attempts[f]) + 1)
        /\ \A i \in 1..Len(attempts[f]) : attempts'[f][i] = attempts[f][i]
        /\ attempts'[f][Len(attempts[f]) + 1] = a
    BY <1>1, <1>2, <1>5
  <1> QED BY <1>6, <1>7, <1>8 DEF f, a

\* A thread that begins changes nothing but its own variables.
LEMMA StartTyped ==
    ASSUME TypeOK, NEW t \in Threads, NEW kind \in {"probe", "preload", "load"},
           NEW f \in Families, NEW d \in Devices, NEW rest \in SUBSET Families,
           Start(t, kind, f, d, rest)
    PROVE  TypeOK'
PROOF
  <1>1. ops' \in [Threads -> 0..MaxOps]
    <2>1. ops[t] + 1 \in 0..MaxOps
      BY ExtAssumption DEF Start, TypeOK
    <2> QED BY <2>1 DEF Start, TypeOK
  <1>2. /\ pc' = [pc EXCEPT ![t] = "look"]
        /\ UNCHANGED <<ext, tried, lock, attempts, env, flips, latched, served, half, seen>>
    BY DEF Start, Goto, cache, outside
  <1>3. pc' \in [Threads -> {"idle", "look", "read", "wait", "again", "build",
                           "mark", "release", "drop", "unwind",
                           "answered", "latch", "pin", "decide", "lane"}]
    BY <1>2 DEF TypeOK
  <1>4. /\ op' \in [Threads -> {"probe", "preload", "load"}]
        /\ fam' \in [Threads -> Families] /\ dev' \in [Threads -> Devices]
        /\ todo' \in [Threads -> SUBSET Families]
        /\ got' \in [Threads -> Module \cup {NoExt, Unasked}]
    BY DEF Start, TypeOK
  <1> QED BY <1>1, <1>2, <1>3, <1>4 DEF TypeOK

LEMMA BeginFacts ==
    ASSUME TypeOK, NEW t \in Threads, Begin(t)
    PROVE  /\ pc[t] = "idle" /\ pc' = [pc EXCEPT ![t] = "look"]
           /\ got' = [got EXCEPT ![t] = Unasked]
           /\ fam'[t] \in Families /\ (op'[t] = "load" => fam'[t] = Bridge)
           /\ \A s \in Threads : s # t => fam'[s] = fam[s] /\ op'[s] = op[s]
           /\ UNCHANGED <<ext, tried, lock, attempts, env, latched, served>>
PROOF
  <1>1. PICK kind \in {"probe", "preload", "load"}, f \in Families, d \in Devices,
             rest \in SUBSET Families :
             Start(t, kind, f, d, rest) /\ (kind = "load" => f = Bridge)
    <2>1. Bridge \in Families
      BY ExtAssumption
    <2>2. \A f : (PreloadFamilies \cap Families) \ {f} \in SUBSET Families
      OBVIOUS
    <2> QED BY <2>1, <2>2 DEF Begin, Probe, Preload, Load
  <1>2. op'[t] = kind /\ fam'[t] = f
    BY <1>1 DEF Start, TypeOK
  <1>3. \A s \in Threads : s # t => fam'[s] = fam[s] /\ op'[s] = op[s]
    BY <1>1 DEF Start, TypeOK
  <1> QED BY <1>1, <1>2, <1>3 DEF Start, Goto, cache, outside

LEMMA TypeStep ==
    ASSUME TypeOK, Outcomed, [Next]_vars
    PROVE  TypeOK'
PROOF
  <1> USE ExtAssumption DEF TypeOK, cache, thread, outside, Goto
  <1>1. ASSUME UNCHANGED vars PROVE TypeOK'
    BY <1>1 DEF vars
  <1>2. ASSUME SetFlag PROVE TypeOK'
    BY <1>2 DEF SetFlag
  <1>3. ASSUME NEW t \in Threads, Begin(t) PROVE TypeOK'
    <2>1. Bridge \in Families
      BY ExtAssumption
    <2>2. \A f : (PreloadFamilies \cap Families) \ {f} \in SUBSET Families
      OBVIOUS
    <2>3. \E kind \in {"probe", "preload", "load"}, f \in Families, d \in Devices,
             rest \in SUBSET Families : Start(t, kind, f, d, rest)
      BY <1>3, <2>1, <2>2 DEF Begin, Probe, Preload, Load
    <2> QED BY <2>3, StartTyped
  <1>4. ASSUME NEW t \in Threads, Look(t) PROVE TypeOK'
    BY <1>4 DEF Look
  <1>5. ASSUME NEW t \in Threads, Read(t) PROVE TypeOK'
    BY <1>5 DEF Read
  <1>6. ASSUME NEW t \in Threads, Acquire(t) PROVE TypeOK'
    BY <1>6 DEF Acquire
  <1>7. ASSUME NEW t \in Threads, StartBuild(t) PROVE TypeOK'
    BY <1>7 DEF StartBuild, FirstHalf
  <1>8. ASSUME NEW t \in Threads, FoundTried(t) PROVE TypeOK'
    BY <1>8 DEF FoundTried
  <1>9. ASSUME NEW t \in Threads, BuildGood(t) PROVE TypeOK'
    <2>1. attempts' \in [Families -> Seq(Attempt)]
      BY <1>9, RanFacts DEF BuildGood, Outcomes
    <2>2. [half |-> half[t], cap |-> CapOf[dev[t]]] \in Module
      BY DEF Module
    <2> QED BY <1>9, <2>1, <2>2 DEF BuildGood
  <1>10. ASSUME NEW t \in Threads, Interrupt(t) PROVE TypeOK'
    <2>1. attempts' \in [Families -> Seq(Attempt)]
      BY <1>10, RanFacts DEF Interrupt, Outcomes
    <2> QED BY <1>10, <2>1 DEF Interrupt
  <1>11. ASSUME NEW t \in Threads, Mark(t) PROVE TypeOK'
    BY <1>11 DEF Mark
  <1>12. ASSUME NEW t \in Threads, Release(t) PROVE TypeOK'
    BY <1>12 DEF Release
  <1>13. ASSUME NEW t \in Threads, Drop(t) PROVE TypeOK'
    BY <1>13 DEF Drop
  <1>14. ASSUME NEW t \in Threads, Unwind(t) PROVE TypeOK'
    BY <1>14 DEF Unwind
  <1>15. ASSUME NEW t \in Threads, Finish(t) PROVE TypeOK'
    BY <1>15 DEF Finish, End
  <1>16. ASSUME NEW t \in Threads, PreloadNext(t) PROVE TypeOK'
    BY <1>16 DEF PreloadNext
  <1>17. ASSUME NEW t \in Threads, ReadFlag(t) PROVE TypeOK'
    <2>1. env # "typo" => env \in {"unset", "on"}
      BY DEF Flags
    <2> QED BY <1>17, <2>1 DEF ReadFlag
  <1>18. ASSUME NEW t \in Threads, LookLatch(t) PROVE TypeOK'
    BY <1>18 DEF LookLatch
  <1>19. ASSUME NEW t \in Threads, Pin(t) PROVE TypeOK'
    BY <1>19 DEF Pin
  <1>20. ASSUME NEW t \in Threads, KeepBridge(t) PROVE TypeOK'
    <2>1. pc[t] = "decide"
      BY <1>20 DEF KeepBridge
    <2>2. got[t] \in Module
      BY <2>1 DEF Outcomed, Outcome, Holding
    <2>3. [flag |-> "unset", dev |-> dev[t], ext |-> got[t]]
              \in [flag : {"unset", "on"}, dev : Devices, ext : Module]
      BY <2>2
    <2> QED BY <1>20, <2>3 DEF KeepBridge, Serve
  <1>21. ASSUME NEW t \in Threads, WantLane(t) PROVE TypeOK'
    BY <1>21 DEF WantLane
  <1>22. ASSUME NEW t \in Threads, TakeLane(t) PROVE TypeOK'
    <2>1. ext[Bridge] \in Module
      BY <1>22 DEF TakeLane, Attested, NoExt
    <2>2. [flag |-> "on", dev |-> dev[t], ext |-> ext[Bridge]]
              \in [flag : {"unset", "on"}, dev : Devices, ext : Module]
      BY <2>1
    <2> QED BY <1>22, <2>2 DEF TakeLane, Serve
  <1>23. ASSUME NEW t \in Threads, RefuseLane(t) PROVE TypeOK'
    BY <1>23 DEF RefuseLane, End
  <1>24. ASSUME NEW t \in Threads, NEW o \in {"fails", "incomplete"}, BuildAgain(t, o) PROVE TypeOK'
    <2>1. attempts' \in [Families -> Seq(Attempt)]
      BY <1>24, RanFacts DEF BuildAgain, Outcomes
    <2> QED BY <1>24, <2>1 DEF BuildAgain
  <1>25. ASSUME NEW t \in Threads, NEW o \in {"fails", "incomplete"}, BuildFails(t, o) PROVE TypeOK'
    <2>1. attempts' \in [Families -> Seq(Attempt)]
      BY <1>25, RanFacts DEF BuildFails, Outcomes
    <2> QED BY <1>25, <2>1 DEF BuildFails
  <1> QED BY <1>1, <1>2, <1>3, <1>4, <1>5, <1>6, <1>7, <1>8, <1>9, <1>10, <1>11, <1>12, <1>13, <1>14, <1>15, <1>16, <1>17, <1>18, <1>19, <1>20, <1>21, <1>22, <1>23, <1>24, <1>25
          DEF Next, Step, Recheck, Build, AllDone

------------------------------------------------------------------------------
(* One thread at a time is inside the locked path of a family. *)

LEMMA Alone ==
    ASSUME Exclusive, NEW s \in Threads, NEW t \in Threads,
           Inside(s), Inside(t), fam[s] = fam[t]
    PROVE  s = t
PROOF BY DEF Exclusive

LEMMA ExclusiveStep ==
    ASSUME TypeOK, Exclusive, [Next]_vars
    PROVE  Exclusive'
PROOF
  <1> USE ExtAssumption DEF TypeOK, Exclusive, Inside, cache, thread, outside, Goto
  <1>1. ASSUME UNCHANGED vars PROVE Exclusive'
    BY <1>1 DEF vars
  <1>2. ASSUME SetFlag PROVE Exclusive'
    BY <1>2 DEF SetFlag
  <1>3. ASSUME NEW t \in Threads, Begin(t) PROVE Exclusive'
    <2>1. \A s \in Threads : Inside(s)' => Inside(s) /\ s # t
      BY <1>3, BeginFacts
    <2>2. \A s \in Threads : s # t => fam'[s] = fam[s]
      BY <1>3, BeginFacts
    <2> QED BY <1>3, <2>1, <2>2, BeginFacts
  <1>4. ASSUME NEW t \in Threads, Look(t) PROVE Exclusive'
    BY <1>4 DEF Look
  <1>5. ASSUME NEW t \in Threads, Read(t) PROVE Exclusive'
    BY <1>5 DEF Read
  <1>6. ASSUME NEW t \in Threads, Acquire(t) PROVE Exclusive'
    BY <1>6 DEF Acquire
  <1>7. ASSUME NEW t \in Threads, StartBuild(t) PROVE Exclusive'
    BY <1>7 DEF StartBuild
  <1>8. ASSUME NEW t \in Threads, FoundTried(t) PROVE Exclusive'
    BY <1>8 DEF FoundTried
  <1>9. ASSUME NEW t \in Threads, BuildGood(t) PROVE Exclusive'
    BY <1>9 DEF BuildGood
  <1>10. ASSUME NEW t \in Threads, Interrupt(t) PROVE Exclusive'
    BY <1>10 DEF Interrupt
  <1>11. ASSUME NEW t \in Threads, Mark(t) PROVE Exclusive'
    BY <1>11 DEF Mark
  <1>12. ASSUME NEW t \in Threads, Release(t) PROVE Exclusive'
    BY <1>12 DEF Release
  <1>13. ASSUME NEW t \in Threads, Drop(t) PROVE Exclusive'
    BY <1>13 DEF Drop
  <1>14. ASSUME NEW t \in Threads, Unwind(t) PROVE Exclusive'
    BY <1>14 DEF Unwind
  <1>15. ASSUME NEW t \in Threads, Finish(t) PROVE Exclusive'
    BY <1>15 DEF Finish, End
  <1>16. ASSUME NEW t \in Threads, PreloadNext(t) PROVE Exclusive'
    BY <1>16 DEF PreloadNext
  <1>17. ASSUME NEW t \in Threads, ReadFlag(t) PROVE Exclusive'
    BY <1>17 DEF ReadFlag
  <1>18. ASSUME NEW t \in Threads, LookLatch(t) PROVE Exclusive'
    BY <1>18 DEF LookLatch
  <1>19. ASSUME NEW t \in Threads, Pin(t) PROVE Exclusive'
    BY <1>19 DEF Pin
  <1>20. ASSUME NEW t \in Threads, KeepBridge(t) PROVE Exclusive'
    BY <1>20 DEF KeepBridge
  <1>21. ASSUME NEW t \in Threads, WantLane(t) PROVE Exclusive'
    BY <1>21 DEF WantLane
  <1>22. ASSUME NEW t \in Threads, TakeLane(t) PROVE Exclusive'
    BY <1>22 DEF TakeLane
  <1>23. ASSUME NEW t \in Threads, RefuseLane(t) PROVE Exclusive'
    BY <1>23 DEF RefuseLane, End
  <1>24. ASSUME NEW t \in Threads, NEW o \in {"fails", "incomplete"}, BuildAgain(t, o) PROVE Exclusive'
    BY <1>24 DEF BuildAgain
  <1>25. ASSUME NEW t \in Threads, NEW o \in {"fails", "incomplete"}, BuildFails(t, o) PROVE Exclusive'
    BY <1>25 DEF BuildFails
  <1> QED BY <1>1, <1>2, <1>3, <1>4, <1>5, <1>6, <1>7, <1>8, <1>9, <1>10, <1>11, <1>12, <1>13, <1>14, <1>15, <1>16, <1>17, <1>18, <1>19, <1>20, <1>21, <1>22, <1>23, <1>24, <1>25
          DEF Next, Step, Recheck, Build, AllDone

LEMMA OutcomeStep ==
    ASSUME TypeOK, Exclusive, Outcomed, [Next]_vars
    PROVE  Outcomed'
PROOF
  <1> USE ExtAssumption DEF TypeOK, Exclusive, Outcomed, Outcome, Inside, Holding, cache, thread, outside, Goto
  <1>1. ASSUME UNCHANGED vars PROVE Outcomed'
    BY <1>1 DEF vars
  <1>2. ASSUME SetFlag PROVE Outcomed'
    BY <1>2 DEF SetFlag
  <1>3. ASSUME NEW t \in Threads, Begin(t) PROVE Outcomed'
    <2>1. Outcome(t)'
      BY <1>3, BeginFacts
    <2>2. ASSUME NEW s \in Threads, s # t PROVE Outcome(s)'
      <3>1. UNCHANGED <<pc[s], fam[s], op[s], got[s], tried, ext>>
        BY <1>3, <2>2, BeginFacts
      <3> QED BY <2>2, <3>1
    <2> QED BY <2>1, <2>2
  <1>4. ASSUME NEW t \in Threads, Look(t) PROVE Outcomed'
    BY <1>4 DEF Look
  <1>5. ASSUME NEW t \in Threads, Read(t) PROVE Outcomed'
    BY <1>5 DEF Read
  <1>6. ASSUME NEW t \in Threads, Acquire(t) PROVE Outcomed'
    BY <1>6 DEF Acquire
  <1>7. ASSUME NEW t \in Threads, ~tried[fam[t]], StartBuild(t) PROVE Outcomed'
    BY <1>7 DEF StartBuild
  <1>8. ASSUME NEW t \in Threads, FoundTried(t) PROVE Outcomed'
    BY <1>8 DEF FoundTried
  <1>9. ASSUME NEW t \in Threads, BuildGood(t) PROVE Outcomed'
    BY <1>9 DEF BuildGood
  <1>10. ASSUME NEW t \in Threads, Interrupt(t) PROVE Outcomed'
    BY <1>10 DEF Interrupt
  <1>11. ASSUME NEW t \in Threads, Mark(t) PROVE Outcomed'
    BY <1>11 DEF Mark
  <1>12. ASSUME NEW t \in Threads, Release(t) PROVE Outcomed'
    BY <1>12 DEF Release
  <1>13. ASSUME NEW t \in Threads, Drop(t) PROVE Outcomed'
    BY <1>13 DEF Drop
  <1>14. ASSUME NEW t \in Threads, Unwind(t) PROVE Outcomed'
    BY <1>14 DEF Unwind
  <1>15. ASSUME NEW t \in Threads, Finish(t) PROVE Outcomed'
    BY <1>15 DEF Finish, End
  <1>16. ASSUME NEW t \in Threads, PreloadNext(t) PROVE Outcomed'
    BY <1>16 DEF PreloadNext
  <1>17. ASSUME NEW t \in Threads, ReadFlag(t) PROVE Outcomed'
    BY <1>17 DEF ReadFlag
  <1>18. ASSUME NEW t \in Threads, LookLatch(t) PROVE Outcomed'
    BY <1>18 DEF LookLatch
  <1>19. ASSUME NEW t \in Threads, Pin(t) PROVE Outcomed'
    BY <1>19 DEF Pin
  <1>20. ASSUME NEW t \in Threads, KeepBridge(t) PROVE Outcomed'
    BY <1>20 DEF KeepBridge
  <1>21. ASSUME NEW t \in Threads, WantLane(t) PROVE Outcomed'
    BY <1>21 DEF WantLane
  <1>22. ASSUME NEW t \in Threads, TakeLane(t) PROVE Outcomed'
    BY <1>22 DEF TakeLane
  <1>23. ASSUME NEW t \in Threads, RefuseLane(t) PROVE Outcomed'
    BY <1>23 DEF RefuseLane, End
  <1>24. ASSUME NEW t \in Threads, NEW o \in {"fails", "incomplete"}, BuildAgain(t, o) PROVE Outcomed'
    BY <1>24 DEF BuildAgain
  <1>25. ASSUME NEW t \in Threads, NEW o \in {"fails", "incomplete"}, BuildFails(t, o) PROVE Outcomed'
    BY <1>25 DEF BuildFails
  <1> HIDE ExtAssumption DEF TypeOK, Exclusive, Outcomed, Outcome, Inside, Holding, cache, thread, outside, Goto
  <1> QED BY <1>1, <1>2, <1>3, <1>4, <1>5, <1>6, <1>7, <1>8, <1>9, <1>10, <1>11, <1>12, <1>13, <1>14, <1>15, <1>16, <1>17, <1>18, <1>19, <1>20, <1>21, <1>22, <1>23, <1>24, <1>25
          DEF Next, Step, Recheck, Build, AllDone

------------------------------------------------------------------------------
(* The bridge: what its layers hold, and what was tried to obtain it. *)

\* Once a family's outcome is published, its module stays.
LEMMA BridgeSettles ==
    ASSUME TypeOK, Outcomed, [Next]_vars
    PROVE  tried[Bridge] => tried'[Bridge] /\ ext'[Bridge] = ext[Bridge]
PROOF
  <1> SUFFICES ASSUME tried[Bridge]
               PROVE  tried'[Bridge] /\ ext'[Bridge] = ext[Bridge]
    OBVIOUS
  <1> USE ExtAssumption DEF TypeOK, Outcomed, Outcome, cache
  <1>1. ASSUME NEW t \in Threads, BuildGood(t)
        PROVE  tried'[Bridge] /\ ext'[Bridge] = ext[Bridge]
    BY <1>1 DEF BuildGood, Goto
  <1>2. ASSUME NEW t \in Threads, NEW o, BuildFails(t, o)
        PROVE  tried'[Bridge] /\ ext'[Bridge] = ext[Bridge]
    BY <1>2 DEF BuildFails, Goto
  <1>3. ASSUME NEW t \in Threads, Mark(t) \/ Drop(t)
        PROVE  tried'[Bridge] /\ ext'[Bridge] = ext[Bridge]
    BY <1>3, ZenonT(30) DEF Mark, Drop
  <1>4. ASSUME NEW t \in Threads, Begin(t)
        PROVE  tried'[Bridge] /\ ext'[Bridge] = ext[Bridge]
    BY <1>4, BeginFacts
  <1> QED BY <1>1, <1>2, <1>3, <1>4
          DEF Next, AllDone, SetFlag, vars, Step, Recheck, Build, Look, Read, Acquire, StartBuild,
              FoundTried, Interrupt, BuildAgain, Release, Unwind, Finish, End, PreloadNext, ReadFlag,
              LookLatch, Pin, KeepBridge, WantLane, TakeLane, RefuseLane

LEMMA BridgeStep ==
    ASSUME TypeOK, Outcomed, OneBridge, [Next]_vars
    PROVE  OneBridge'
PROOF
  <1> USE DEF OneBridge
  <1>1. CASE UNCHANGED served
    BY <1>1, BridgeSettles
  <1>2. ASSUME NEW t \in Threads, KeepBridge(t) PROVE OneBridge'
    <2>1. fam[t] = Bridge /\ tried[Bridge] /\ got[t] = ext[Bridge]
      BY <1>2 DEF KeepBridge, Goto, Outcomed, Outcome, Holding
    <2> QED BY <1>2, <2>1 DEF KeepBridge, Serve, cache
  <1>3. ASSUME NEW t \in Threads, TakeLane(t) PROVE OneBridge'
    <2>1. tried[Bridge] /\ ext[Bridge] \in Module \cup {NoExt}
      BY <1>3, ExtAssumption DEF TakeLane, Goto, Outcomed, Outcome, Holding, TypeOK
    <2>2. ext[Bridge] = [half |-> "lane", cap |-> CapOf[dev[t]]]
      BY <1>3, <2>1 DEF TakeLane, Attested, Module, NoExt
    <2> QED BY <1>3, <2>1, <2>2 DEF TakeLane, Serve, cache
  <1>4. ASSUME NEW t \in Threads, Begin(t) PROVE UNCHANGED served
    BY <1>4, BeginFacts
  <1> QED BY <1>1, <1>2, <1>3, <1>4
          DEF Next, AllDone, SetFlag, vars, Step, Recheck, Build, Look, Read, Acquire, StartBuild,
              FoundTried, BuildGood, BuildFails, Interrupt, BuildAgain, Mark, Drop, Release, Unwind,
              Finish, End, PreloadNext, ReadFlag, LookLatch, Pin, WantLane, RefuseLane

\* A thread that runs no build and publishes nothing.
LEMMA AttemptsKept ==
    ASSUME TypeOK, Attempted, NoSilentSubstitute,
           UNCHANGED <<attempts, tried, ext>>,
           \A t \in Threads : Building(t)' <=> Building(t),
           \A t \in Threads : Building(t) => pc'[t] = pc[t]
    PROVE  Attempted' /\ NoSilentSubstitute'
PROOF BY DEF Attempted, Excused, NoSilentSubstitute

LEMMA AttemptStep ==
    ASSUME TypeOK, Exclusive, Outcomed, AttemptInv, [Next]_vars
    PROVE  AttemptInv'
PROOF
  <1>a. Attempted /\ NoSilentSubstitute
    BY DEF AttemptInv
  <1> USE <1>a, ExtAssumption DEF TypeOK, Goto, cache, thread, outside
  <1>1. ASSUME UNCHANGED vars \/ SetFlag PROVE AttemptInv'
    BY <1>1, AttemptsKept DEF AttemptInv, vars, SetFlag, Building
  <1>2. ASSUME NEW t \in Threads, Begin(t) PROVE AttemptInv'
    <2>1. \A s \in Threads : (Building(s)' <=> Building(s)) /\ (Building(s) => pc'[s] = pc[s])
      BY <1>2, BeginFacts DEF Building
    <2> QED BY <1>2, <2>1, BeginFacts, AttemptsKept DEF AttemptInv
  <1>3. ASSUME NEW t \in Threads, Look(t) PROVE AttemptInv'
    BY <1>3, AttemptsKept DEF AttemptInv, Look, Building
  <1>4. ASSUME NEW t \in Threads, Read(t) PROVE AttemptInv'
    BY <1>4, AttemptsKept DEF AttemptInv, Read, Building
  <1>5. ASSUME NEW t \in Threads, Acquire(t) PROVE AttemptInv'
    BY <1>5, AttemptsKept DEF AttemptInv, Acquire, Building
  <1>6. ASSUME NEW t \in Threads, FoundTried(t) PROVE AttemptInv'
    BY <1>6, AttemptsKept DEF AttemptInv, FoundTried, Building
  <1>7. ASSUME NEW t \in Threads, Release(t) PROVE AttemptInv'
    BY <1>7, AttemptsKept DEF AttemptInv, Release, Building
  <1>8. ASSUME NEW t \in Threads, Unwind(t) PROVE AttemptInv'
    BY <1>8, AttemptsKept DEF AttemptInv, Unwind, Building
  <1>9. ASSUME NEW t \in Threads, Finish(t) PROVE AttemptInv'
    BY <1>9, AttemptsKept DEF AttemptInv, Finish, End, Building
  <1>10. ASSUME NEW t \in Threads, PreloadNext(t) PROVE AttemptInv'
    BY <1>10, AttemptsKept DEF AttemptInv, PreloadNext, Building
  <1>11. ASSUME NEW t \in Threads, ReadFlag(t) PROVE AttemptInv'
    BY <1>11, AttemptsKept DEF AttemptInv, ReadFlag, Building
  <1>12. ASSUME NEW t \in Threads, LookLatch(t) PROVE AttemptInv'
    BY <1>12, AttemptsKept DEF AttemptInv, LookLatch, Building
  <1>13. ASSUME NEW t \in Threads, Pin(t) PROVE AttemptInv'
    BY <1>13, AttemptsKept DEF AttemptInv, Pin, Building
  <1>14. ASSUME NEW t \in Threads, KeepBridge(t) PROVE AttemptInv'
    BY <1>14, AttemptsKept DEF AttemptInv, KeepBridge, Building
  <1>15. ASSUME NEW t \in Threads, WantLane(t) PROVE AttemptInv'
    BY <1>15, AttemptsKept DEF AttemptInv, WantLane, Building
  <1>16. ASSUME NEW t \in Threads, TakeLane(t) PROVE AttemptInv'
    BY <1>16, AttemptsKept DEF AttemptInv, TakeLane, Building
  <1>17. ASSUME NEW t \in Threads, RefuseLane(t) PROVE AttemptInv'
    BY <1>17, AttemptsKept DEF AttemptInv, RefuseLane, End, Building
  <1>18. ASSUME NEW t \in Threads, ~tried[fam[t]], StartBuild(t)
        PROVE  AttemptInv'
    <2>1. CASE fam[t] # Bridge
      BY <1>18, <2>1, AttemptsKept DEF AttemptInv, StartBuild, Building
    <2>2. CASE fam[t] = Bridge
      <3>1. attempts[Bridge] = <<>>
        <4>1. \A s \in Threads : ~Building(s)
          BY <1>18, <2>2, Alone DEF StartBuild, Building, Inside
        <4> QED BY <1>18, <2>2, <4>1 DEF Attempted
      <3>2. \A s \in Threads : Building(s)' => s = t /\ pc'[s] = "build"
        BY <1>18, <2>2, Alone DEF StartBuild, Building, Inside
      <3>3. UNCHANGED <<attempts, tried, ext>> /\ Building(t)'
        BY <1>18, <2>2 DEF StartBuild, Building
      <3> QED BY <1>18, <2>2, <3>1, <3>2, <3>3 DEF AttemptInv, Attempted, NoSilentSubstitute
    <2> QED BY <2>1, <2>2
  <1>19. ASSUME NEW t \in Threads, BuildGood(t)
        PROVE  AttemptInv'
    <2>1. CASE fam[t] # Bridge
      <3>1. attempts'[Bridge] = attempts[Bridge] /\ UNCHANGED tried /\ ext'[Bridge] = ext[Bridge]
        BY <1>19, <2>1, RanFacts DEF BuildGood, Outcomes
      <3>2. \A s \in Threads : (Building(s)' <=> Building(s)) /\ (Building(s) => pc'[s] = pc[s])
        BY <1>19, <2>1 DEF BuildGood, Building
      <3> QED BY <3>1, <3>2 DEF AttemptInv, Attempted, Excused, NoSilentSubstitute
    <2>2. CASE fam[t] = Bridge
      <3> DEFINE n == Len(attempts[Bridge])
      <3>1. Building(t) /\ pc[t] = "build" /\ ~tried[Bridge]
        BY <1>19, <2>2 DEF BuildGood, Building, Outcomed, Outcome
      <3>2. \A s \in Threads : Building(s) => s = t
        BY <2>2, <3>1, Alone DEF Building, Inside
      <3>3. /\ UNCHANGED tried /\ pc'[t] = "mark"
            /\ \A s \in Threads : Building(s)' <=> s = t
        BY <1>19, <3>1, <3>2 DEF BuildGood, Building
      <3>4. Ran(t, "good") /\ "good" \in Outcomes
        BY <1>19 DEF BuildGood, Outcomes
      <3>5. /\ n \in Nat /\ DOMAIN attempts[Bridge] = 1..n /\ DOMAIN attempts'[Bridge] = 1..(n + 1)
            /\ \A k \in 1..n : attempts'[Bridge][k] = attempts[Bridge][k]
            /\ attempts'[Bridge][n + 1] = [half |-> half[t], outcome |-> "good", flag |-> env]
        BY <2>2, <3>4, RanFacts
      <3>6. \A k \in 1..n : attempts[Bridge][k].flag = "unset"
        BY <3>1, <3>5 DEF Attempted
      <3> HIDE DEF n
      <3>7. NoSilentSubstitute'
        BY <3>5, <3>6 DEF NoSilentSubstitute
      <3>8. ext'[Bridge] # NoExt
        BY <1>19, <2>2 DEF BuildGood, NoExt
      <3> QED BY <3>3, <3>7, <3>8 DEF AttemptInv, Attempted, Building
    <2> QED BY <2>1, <2>2
  <1>20. ASSUME NEW t \in Threads, Interrupt(t)
        PROVE  AttemptInv'
    <2>1. CASE fam[t] # Bridge
      <3>1. attempts'[Bridge] = attempts[Bridge] /\ UNCHANGED tried /\ ext'[Bridge] = ext[Bridge]
        BY <1>20, <2>1, RanFacts DEF Interrupt, Outcomes
      <3>2. \A s \in Threads : (Building(s)' <=> Building(s)) /\ (Building(s) => pc'[s] = pc[s])
        BY <1>20, <2>1 DEF Interrupt, Building
      <3> QED BY <3>1, <3>2 DEF AttemptInv, Attempted, Excused, NoSilentSubstitute
    <2>2. CASE fam[t] = Bridge
      <3> DEFINE n == Len(attempts[Bridge])
      <3>1. Building(t) /\ pc[t] = "build" /\ ~tried[Bridge]
        BY <1>20, <2>2 DEF Interrupt, Building, Outcomed, Outcome
      <3>2. \A s \in Threads : Building(s) => s = t
        BY <2>2, <3>1, Alone DEF Building, Inside
      <3>3. /\ UNCHANGED tried /\ pc'[t] = "drop"
            /\ \A s \in Threads : Building(s)' <=> s = t
        BY <1>20, <3>1, <3>2 DEF Interrupt, Building
      <3>4. Ran(t, "interrupt") /\ "interrupt" \in Outcomes
        BY <1>20 DEF Interrupt, Outcomes
      <3>5. /\ n \in Nat /\ DOMAIN attempts[Bridge] = 1..n /\ DOMAIN attempts'[Bridge] = 1..(n + 1)
            /\ \A k \in 1..n : attempts'[Bridge][k] = attempts[Bridge][k]
            /\ attempts'[Bridge][n + 1] = [half |-> half[t], outcome |-> "interrupt", flag |-> env]
        BY <2>2, <3>4, RanFacts
      <3>6. \A k \in 1..n : attempts[Bridge][k].flag = "unset"
        BY <3>1, <3>5 DEF Attempted
      <3> HIDE DEF n
      <3>7. NoSilentSubstitute'
        BY <3>5, <3>6 DEF NoSilentSubstitute
      <3>8. Excused'
        <4>1. Excuse(attempts'[Bridge][n + 1])
          BY <3>5 DEF Excuse
        <4>2. n + 1 \in DOMAIN attempts'[Bridge]
          BY <3>5
        <4> QED BY <4>1, <4>2 DEF Excused
      <3> QED BY <3>3, <3>7, <3>8 DEF AttemptInv, Attempted, Building
    <2> QED BY <2>1, <2>2
  <1>21. ASSUME NEW t \in Threads, NEW o \in {"fails", "incomplete"}, BuildAgain(t, o)
        PROVE  AttemptInv'
    <2>1. CASE fam[t] # Bridge
      <3>1. attempts'[Bridge] = attempts[Bridge] /\ UNCHANGED tried /\ ext'[Bridge] = ext[Bridge]
        BY <1>21, <2>1, RanFacts, ZenonT(30) DEF BuildAgain, Outcomes
      <3>2. \A s \in Threads : (Building(s)' <=> Building(s)) /\ (Building(s) => pc'[s] = pc[s])
        BY <1>21, <2>1 DEF BuildAgain, Building
      <3> QED BY <3>1, <3>2 DEF AttemptInv, Attempted, Excused, NoSilentSubstitute
    <2>2. CASE fam[t] = Bridge
      <3> DEFINE n == Len(attempts[Bridge])
      <3>1. Building(t) /\ pc[t] = "build" /\ ~tried[Bridge]
        BY <1>21, <2>2 DEF BuildAgain, Building, Outcomed, Outcome
      <3>2. \A s \in Threads : Building(s) => s = t
        BY <2>2, <3>1, Alone DEF Building, Inside
      <3>3. /\ UNCHANGED tried /\ pc'[t] = "build"
            /\ \A s \in Threads : Building(s)' <=> s = t
        BY <1>21, <3>1, <3>2 DEF BuildAgain, Building
      <3>4. Ran(t, o) /\ o \in Outcomes
        BY <1>21 DEF BuildAgain, Outcomes
      <3>5. /\ n \in Nat /\ DOMAIN attempts[Bridge] = 1..n /\ DOMAIN attempts'[Bridge] = 1..(n + 1)
            /\ \A k \in 1..n : attempts'[Bridge][k] = attempts[Bridge][k]
            /\ attempts'[Bridge][n + 1] = [half |-> half[t], outcome |-> o, flag |-> env]
        BY <2>2, <3>4, RanFacts
      <3>6. \A k \in 1..n : attempts[Bridge][k].flag = "unset"
        BY <3>1, <3>5 DEF Attempted
      <3> HIDE DEF n
      <3>7. NoSilentSubstitute'
        BY <3>5, <3>6 DEF NoSilentSubstitute
      <3>8. env = "unset"
        BY <1>21 DEF BuildAgain, Retries, OptedIn
      <3>9. \A k \in DOMAIN attempts'[Bridge] : attempts'[Bridge][k].flag = "unset"
        <4>1. ASSUME NEW k \in 1..(n + 1) PROVE attempts'[Bridge][k].flag = "unset"
          <5>1. CASE k = n + 1
            BY <3>5, <3>8, <5>1
          <5>2. CASE k # n + 1
            <6>1. k \in 1..n
              BY <3>5, <5>2
            <6> QED BY <3>5, <3>6, <6>1
          <5> QED BY <5>1, <5>2
        <4> QED BY <3>5, <4>1
      <3> QED BY <3>3, <3>1, <3>7, <3>9 DEF AttemptInv, Attempted, Building
    <2> QED BY <2>1, <2>2
  <1>22. ASSUME NEW t \in Threads, NEW o \in {"fails", "incomplete"}, BuildFails(t, o)
        PROVE  AttemptInv'
    <2>1. CASE fam[t] # Bridge
      <3>1. attempts'[Bridge] = attempts[Bridge] /\ UNCHANGED tried /\ ext'[Bridge] = ext[Bridge]
        BY <1>22, <2>1, RanFacts, ZenonT(30) DEF BuildFails, Outcomes
      <3>2. \A s \in Threads : (Building(s)' <=> Building(s)) /\ (Building(s) => pc'[s] = pc[s])
        BY <1>22, <2>1 DEF BuildFails, Building
      <3> QED BY <3>1, <3>2 DEF AttemptInv, Attempted, Excused, NoSilentSubstitute
    <2>2. CASE fam[t] = Bridge
      <3> DEFINE n == Len(attempts[Bridge])
      <3>1. Building(t) /\ pc[t] = "build" /\ ~tried[Bridge]
        BY <1>22, <2>2 DEF BuildFails, Building, Outcomed, Outcome
      <3>2. \A s \in Threads : Building(s) => s = t
        BY <2>2, <3>1, Alone DEF Building, Inside
      <3>3. /\ UNCHANGED tried /\ pc'[t] = "mark"
            /\ \A s \in Threads : Building(s)' <=> s = t
        BY <1>22, <3>1, <3>2 DEF BuildFails, Building
      <3>4. Ran(t, o) /\ o \in Outcomes
        BY <1>22 DEF BuildFails, Outcomes
      <3>5. /\ n \in Nat /\ DOMAIN attempts[Bridge] = 1..n /\ DOMAIN attempts'[Bridge] = 1..(n + 1)
            /\ \A k \in 1..n : attempts'[Bridge][k] = attempts[Bridge][k]
            /\ attempts'[Bridge][n + 1] = [half |-> half[t], outcome |-> o, flag |-> env]
        BY <2>2, <3>4, RanFacts
      <3>6. \A k \in 1..n : attempts[Bridge][k].flag = "unset"
        BY <3>1, <3>5 DEF Attempted
      <3> HIDE DEF n
      <3>7. NoSilentSubstitute'
        BY <3>5, <3>6 DEF NoSilentSubstitute
      <3>8. Excused'
        <4>1. half[t] = "base" \/ o = "incomplete" \/ env # "unset"
          BY <1>22 DEF BuildFails, Retries, OptedIn
        <4>2. Excuse(attempts'[Bridge][n + 1])
          BY <1>22, <3>5, <4>1 DEF Excuse
        <4>3. n + 1 \in DOMAIN attempts'[Bridge]
          BY <3>5
        <4> QED BY <4>2, <4>3 DEF Excused
      <3> QED BY <3>3, <3>7, <3>8 DEF AttemptInv, Attempted, Building
    <2> QED BY <2>1, <2>2
  <1> HIDE <1>a, ExtAssumption DEF TypeOK, Goto, cache, thread, outside
  <1>23. ASSUME NEW t \in Threads, Build(t) PROVE AttemptInv'
    BY <1>19, <1>20, <1>21, <1>22, <1>23 DEF Build
  <1>25. ASSUME NEW t \in Threads, Mark(t) PROVE AttemptInv'
    <2>1. CASE fam[t] # Bridge
      <3>1. attempts' = attempts /\ ext' = ext /\ tried'[Bridge] = tried[Bridge]
        BY <1>25, <2>1, ExtAssumption DEF Mark, TypeOK, cache
      <3>2. \A s \in Threads : (Building(s)' <=> Building(s)) /\ (Building(s) => pc'[s] = pc[s])
        BY <1>25, <2>1 DEF Mark, Building, TypeOK, Goto, cache
      <3> QED BY <1>a, <3>1, <3>2 DEF AttemptInv, Attempted, Excused, NoSilentSubstitute
    <2>2. CASE fam[t] = Bridge
      <3>1. Building(t) /\ pc[t] # "build"
        BY <1>25, <2>2 DEF Mark, Building, Goto
      <3>2. \A s \in Threads : Building(s) => s = t
        BY <2>2, <3>1, Alone DEF Building, Inside
      <3>3. attempts' = attempts /\ ext' = ext /\ tried'[Bridge]
        BY <1>25, <2>2, ExtAssumption DEF Mark, TypeOK, cache
      <3>4. \A s \in Threads : ~Building(s)'
        BY <1>25, <3>2, <2>2 DEF Mark, Building, TypeOK, Goto
      <3>5. ext[Bridge] = NoExt => Excused
        BY <1>a, <3>1 DEF Attempted
      <3> QED BY <1>a, <3>3, <3>4, <3>5 DEF AttemptInv, Attempted, Excused, NoSilentSubstitute
    <2> QED BY <2>1, <2>2
  <1>26. ASSUME NEW t \in Threads, Drop(t) PROVE AttemptInv'
    <2>1. CASE fam[t] # Bridge
      <3>1. attempts' = attempts /\ ext' = ext /\ tried'[Bridge] = tried[Bridge]
        BY <1>26, <2>1, ExtAssumption DEF Drop, TypeOK, cache
      <3>2. \A s \in Threads : (Building(s)' <=> Building(s)) /\ (Building(s) => pc'[s] = pc[s])
        BY <1>26, <2>1 DEF Drop, Building, TypeOK, Goto, cache
      <3> QED BY <1>a, <3>1, <3>2 DEF AttemptInv, Attempted, Excused, NoSilentSubstitute
    <2>2. CASE fam[t] = Bridge
      <3>1. Building(t) /\ pc[t] # "build"
        BY <1>26, <2>2 DEF Drop, Building, Goto
      <3>2. \A s \in Threads : Building(s) => s = t
        BY <2>2, <3>1, Alone DEF Building, Inside
      <3>3. attempts' = attempts /\ ext' = ext /\ tried'[Bridge]
        BY <1>26, <2>2, ExtAssumption DEF Drop, TypeOK, cache
      <3>4. \A s \in Threads : ~Building(s)'
        BY <1>26, <3>2, <2>2 DEF Drop, Building, TypeOK, Goto
      <3>5. ext[Bridge] = NoExt => Excused
        BY <1>a, <3>1 DEF Attempted
      <3> QED BY <1>a, <3>3, <3>4, <3>5 DEF AttemptInv, Attempted, Excused, NoSilentSubstitute
    <2> QED BY <2>1, <2>2
  <1>24. ASSUME NEW t \in Threads, Step(t) PROVE AttemptInv'
    BY <1>3, <1>4, <1>5, <1>6, <1>7, <1>8, <1>9, <1>10, <1>11, <1>12, <1>13, <1>14, <1>15, <1>16, <1>17, <1>18, <1>23, <1>24, <1>25, <1>26 DEF Step, Recheck
  <1> QED BY <1>1, <1>2, <1>24 DEF Next, AllDone

------------------------------------------------------------------------------
LEMMA Invariance == Spec => []IInv
PROOF
  <1>1. IInv /\ [Next]_vars => IInv'
    BY TypeStep, ExclusiveStep, OutcomeStep, AttemptStep, BridgeStep DEF IInv
  <1> QED BY InitIInv, <1>1, PTL DEF Spec

\* Every variable keeps its type; in particular a layer that was loaded keeps
\* a module, never the fact that there is none.
THEOREM TypeCorrect == Spec => []TypeOK
PROOF
  <1>1. IInv => TypeOK
    BY DEF IInv
  <1> QED BY Invariance, <1>1, PTL

\* All layers of a process hold the published bridge, and a layer that runs
\* the lane runs it on a device of the capability it was compiled for.
THEOREM LayersShareOneBridge == Spec => []OneBridge
PROOF
  <1>1. IInv => OneBridge
    BY DEF IInv
  <1> QED BY Invariance, <1>1, PTL

\* A failing lane that nobody asked for does not cost the bridge.
THEOREM LaneFailsAlone == Spec => []LaneFailureScope
PROOF
  <1>1. IInv => LaneFailureScope
    BY DEF IInv, AttemptInv, Attempted, Excused, Excuse, LaneFailureScope
  <1> QED BY Invariance, <1>1, PTL

\* The default configuration is never built in place of a lane that was asked
\* for when it failed.
THEOREM LaneIsNotReplaced == Spec => []NoSilentSubstitute
PROOF
  <1>1. IInv => NoSilentSubstitute
    BY DEF IInv, AttemptInv
  <1> QED BY Invariance, <1>1, PTL

------------------------------------------------------------------------------
(* Refinement: each family is a cell that is settled once. *)

AskedOf(t) == IF pc[t] \in {"look", "read", "wait", "again", "build",
                            "mark", "release", "drop", "unwind"}
              THEN fam[t] ELSE "none"
AskedFor   == [t \in Threads |-> AskedOf(t)]
ValueOf(f) == IF tried[f] THEN ext[f] ELSE Unasked
Values     == [f \in Families |-> ValueOf(f)]

\* When a step in terms of the mapping is a step of the cells.
LEMMA AskIs ==
    ASSUME NEW t \in Threads, NEW f \in Families,
           AskedFor[t] = "none", AskedFor' = [AskedFor EXCEPT ![t] = f],
           got' = [got EXCEPT ![t] = Unasked], Values' = Values
    PROVE  Cell!CellNext
PROOF
  <1>1. Cell!Ask(t, f)
    BY DEF Cell!Ask, AskedFor, AskedOf, Values, ValueOf
  <1> QED BY <1>1 DEF Cell!CellNext

LEMMA SettleIs ==
    ASSUME NEW f \in Families, NEW a \in Module \cup {NoExt},
           Values[f] = Unasked, \E t \in Threads : AskedFor[t] = f,
           Values' = [Values EXCEPT ![f] = a],
           AskedFor' = AskedFor, got' = got
    PROVE  Cell!CellNext
PROOF
  <1>1. Cell!Settle(f, a)
    BY DEF Cell!Settle, AskedFor, AskedOf, Values, ValueOf
  <1> QED BY <1>1 DEF Cell!CellNext

LEMMA TellIs ==
    ASSUME NEW t \in Threads,
           AskedFor[t] # "none", Values[AskedFor[t]] # Unasked,
           got' = [got EXCEPT ![t] = Values[AskedFor[t]]],
           AskedFor' = [AskedFor EXCEPT ![t] = "none"], Values' = Values
    PROVE  Cell!CellNext
PROOF
  <1>1. Cell!Tell(t)
    BY DEF Cell!Tell, AskedFor, AskedOf, Values, ValueOf
  <1> QED BY <1>1 DEF Cell!CellNext

LEMMA GiveUpIs ==
    ASSUME NEW t \in Threads,
           AskedFor[t] # "none", Values[AskedFor[t]] # Unasked,
           AskedFor' = [AskedFor EXCEPT ![t] = "none"],
           Values' = Values, got' = got
    PROVE  Cell!CellNext
PROOF
  <1>1. Cell!GiveUp(t)
    BY DEF Cell!GiveUp, AskedFor, AskedOf, Values, ValueOf
  <1> QED BY <1>1 DEF Cell!CellNext

\* Nobody asks or is told, and nothing is published.
LEMMA CellStutters ==
    ASSUME TypeOK, tried' = tried, got' = got,
           \A f \in Families : tried[f] => ext'[f] = ext[f],
           \A t \in Threads : AskedOf(t)' = AskedOf(t)
    PROVE  UNCHANGED Cell!cellVars
PROOF
  <1>1. Values' = Values
    BY DEF Values, ValueOf
  <1>2. AskedFor' = AskedFor
    BY DEF AskedFor
  <1> QED BY <1>1, <1>2 DEF Cell!cellVars, Values, ValueOf, AskedFor, AskedOf

LEMMA CellAsks ==
    ASSUME TypeOK, NEW t \in Threads, pc[t] \in {"idle", "answered"},
           tried' = tried, ext' = ext, got' = [got EXCEPT ![t] = Unasked],
           pc' = [pc EXCEPT ![t] = "look"], NEW f \in Families, fam'[t] = f,
           \A s \in Threads : s # t => fam'[s] = fam[s]
    PROVE  Cell!CellNext
PROOF
  <1>1. Values' = Values
    BY DEF Values, ValueOf
  <1>2. AskedFor[t] = "none"
    BY DEF AskedFor, AskedOf
  <1>3. \A s \in Threads : AskedOf(s)' = IF s = t THEN f ELSE AskedOf(s)
    BY DEF AskedOf, TypeOK
  <1>4. AskedFor' = [AskedFor EXCEPT ![t] = f]
    BY <1>3 DEF AskedFor
  <1> QED BY <1>1, <1>2, <1>4, AskIs

\* Publishing settles a cell: the one the publisher asks for.
LEMMA CellSettles ==
    ASSUME TypeOK, NEW t \in Threads, Mark(t) \/ Drop(t), Outcomed
    PROVE  Cell!CellNext
PROOF
  <1>1. /\ pc[t] \in {"mark", "drop"} /\ ~tried[fam[t]]
        /\ tried' = [tried EXCEPT ![fam[t]] = TRUE] /\ ext' = ext /\ fam' = fam /\ got' = got
        /\ \E to \in {"release", "unwind"} : pc' = [pc EXCEPT ![t] = to]
    BY DEF Mark, Drop, Goto, Outcomed, Outcome
  <1>2. /\ fam[t] \in Families /\ tried \in [Families -> BOOLEAN]
        /\ ext[fam[t]] \in Module \cup {NoExt}
    BY DEF TypeOK
  <1>3. Values[fam[t]] = Unasked /\ AskedFor[t] = fam[t]
    BY <1>1, <1>2 DEF Values, ValueOf, AskedFor, AskedOf
  <1>4. \A s \in Threads : AskedOf(s)' = AskedOf(s)
    BY <1>1 DEF AskedOf, TypeOK
  <1>5. \A f \in Families : ValueOf(f)' = IF f = fam[t] THEN ext[f] ELSE ValueOf(f)
    BY <1>1, <1>2 DEF ValueOf
  <1>6. Values' = [Values EXCEPT ![fam[t]] = ext[fam[t]]]
    BY <1>2, <1>5 DEF Values
  <1>7. AskedFor' = AskedFor
    BY <1>4 DEF AskedFor
  <1>8. \E f \in Families, a \in Module \cup {NoExt} :
            /\ Values[f] = Unasked /\ AskedFor[t] = f
            /\ Values' = [Values EXCEPT ![f] = a]
    BY <1>2, <1>3, <1>6
  <1> QED BY <1>1, <1>7, <1>8, SettleIs

\* A thread that leaves after the outcome was published, with or without it.
LEMMA CellAnswers ==
    ASSUME TypeOK, NEW t \in Threads, NEW to \in {"answered", "idle"},
           pc[t] \in {"read", "again", "release", "unwind"}, tried[fam[t]],
           pc' = [pc EXCEPT ![t] = to], fam' = fam, tried' = tried, ext' = ext
    PROVE  got' \in {[got EXCEPT ![t] = ext[fam[t]]], got} => Cell!CellNext
PROOF
  <1>1. fam[t] \in Families /\ fam[t] # "none"
    BY ExtAssumption DEF TypeOK, AllFamilies, Bridge
  <1>2. ext[fam[t]] # Unasked
    <2>1. ext[fam[t]] \in Module \cup {NoExt}
      BY <1>1 DEF TypeOK
    <2>2. ext[fam[t]].half # "unasked"
      BY <2>1 DEF Module, NoExt
    <2> QED BY <2>2 DEF Unasked
  <1>3. AskedFor[t] = fam[t] /\ Values[fam[t]] = ext[fam[t]]
    BY <1>1 DEF AskedFor, AskedOf, Values, ValueOf
  <1>4. \A s \in Threads : AskedOf(s)' = IF s = t THEN "none" ELSE AskedOf(s)
    BY DEF AskedOf, TypeOK
  <1>5. AskedFor' = [AskedFor EXCEPT ![t] = "none"]
    BY <1>4 DEF AskedFor
  <1>6. Values' = Values
    BY DEF Values, ValueOf
  <1>7. AskedFor[t] # "none" /\ Values[AskedFor[t]] = ext[fam[t]]
    BY <1>1, <1>3
  <1>8. got' = [got EXCEPT ![t] = ext[fam[t]]] => Cell!CellNext
    BY <1>2, <1>5, <1>6, <1>7, TellIs
  <1>9. got' = got => Cell!CellNext
    BY <1>2, <1>5, <1>6, <1>7, GiveUpIs
  <1> QED BY <1>8, <1>9

LEMMA CellStep ==
    ASSUME IInv, [Next]_vars
    PROVE  [Cell!CellNext]_Cell!cellVars
PROOF
  <1>a. TypeOK /\ Outcomed
    BY DEF IInv
  <1> USE DEF Goto, cache, thread, outside
  <1>1. ASSUME UNCHANGED vars \/ SetFlag PROVE UNCHANGED Cell!cellVars
    <2>1. /\ tried' = tried /\ got' = got /\ ext' = ext
          /\ pc' = pc /\ fam' = fam
      BY <1>1 DEF vars, SetFlag
    <2>2. \A s \in Threads : AskedOf(s)' = AskedOf(s)
      BY <2>1 DEF AskedOf
    <2> QED BY <2>1, <2>2, <1>a, CellStutters
  <1>2. ASSUME NEW t \in Threads, Begin(t) PROVE Cell!CellNext
    <2>1. PICK f \in Families : \E k, d, rest : Start(t, k, f, d, rest)
      <3>1. Probe(t) => \E f \in Families : \E k, d, rest : Start(t, k, f, d, rest)
        BY DEF Probe
      <3>2. Preload(t) => \E f \in Families : \E k, d, rest : Start(t, k, f, d, rest)
        BY DEF Preload
      <3>3. Load(t) => \E f \in Families : \E k, d, rest : Start(t, k, f, d, rest)
        BY ExtAssumption DEF Load
      <3> QED BY <1>2, <3>1, <3>2, <3>3 DEF Begin
    <2>2. /\ pc[t] = "idle" /\ tried' = tried /\ ext' = ext
          /\ got' = [got EXCEPT ![t] = Unasked]
          /\ pc' = [pc EXCEPT ![t] = "look"] /\ fam' = [fam EXCEPT ![t] = f]
      BY <2>1 DEF Start
    <2>3. fam'[t] = f /\ \A s \in Threads : s # t => fam'[s] = fam[s]
      BY <2>2, <1>a DEF TypeOK
    <2> QED BY <2>2, <2>3, <1>a, CellAsks
  <1>3. ASSUME NEW t \in Threads, PreloadNext(t) PROVE Cell!CellNext
    <2>1. PICK f \in Families : fam' = [fam EXCEPT ![t] = f]
      BY <1>3, <1>a DEF PreloadNext, TypeOK
    <2>2. fam'[t] = f /\ \A s \in Threads : s # t => fam'[s] = fam[s]
      BY <2>1, <1>a DEF TypeOK
    <2>3. /\ pc[t] = "answered" /\ tried' = tried /\ ext' = ext
          /\ got' = [got EXCEPT ![t] = Unasked]
          /\ pc' = [pc EXCEPT ![t] = "look"]
      BY <1>3 DEF PreloadNext
    <2> QED BY <2>2, <2>3, <1>a, CellAsks
  <1>4. ASSUME NEW t \in Threads, Mark(t) \/ Drop(t) PROVE Cell!CellNext
    BY <1>4, <1>a, CellSettles
  <1>5. ASSUME NEW t \in Threads, Read(t) PROVE Cell!CellNext
    <2>1. tried[fam[t]]
      BY <1>5, <1>a DEF Read, Outcomed, Outcome
    <2> QED BY <1>5, <1>a, <2>1, CellAnswers DEF Read
  <1>6. ASSUME NEW t \in Threads, FoundTried(t) PROVE Cell!CellNext
    BY <1>6, <1>a, CellAnswers DEF FoundTried
  <1>7. ASSUME NEW t \in Threads, Release(t) PROVE Cell!CellNext
    <2>1. tried[fam[t]]
      BY <1>7, <1>a DEF Release, Outcomed, Outcome
    <2> QED BY <1>7, <1>a, <2>1, CellAnswers DEF Release
  <1>8. ASSUME NEW t \in Threads, Unwind(t) PROVE Cell!CellNext
    <2>1. tried[fam[t]]
      BY <1>8, <1>a DEF Unwind, Outcomed, Outcome
    <2> QED BY <1>8, <1>a, <2>1, CellAnswers DEF Unwind
  <1>9. ASSUME NEW t \in Threads, BuildGood(t) PROVE UNCHANGED Cell!cellVars
    <2>1. \A f \in Families : tried[f] => ext'[f] = ext[f]
      BY <1>9, <1>a DEF BuildGood, Outcomed, Outcome, TypeOK
    <2>2. \A s \in Threads : AskedOf(s)' = AskedOf(s)
      BY <1>9, <1>a DEF BuildGood, AskedOf, TypeOK
    <2> QED BY <1>9, <1>a, <2>1, <2>2, CellStutters DEF BuildGood
  <1>10. ASSUME NEW t \in Threads, NEW o, BuildFails(t, o) PROVE UNCHANGED Cell!cellVars
    <2>1. \A f \in Families : tried[f] => ext'[f] = ext[f]
      BY <1>10, <1>a DEF BuildFails, Outcomed, Outcome, TypeOK
    <2>2. \A s \in Threads : AskedOf(s)' = AskedOf(s)
      BY <1>10, <1>a DEF BuildFails, AskedOf, TypeOK
    <2> QED BY <1>10, <1>a, <2>1, <2>2, CellStutters DEF BuildFails
  <1>11. ASSUME NEW t \in Threads, NEW o, BuildAgain(t, o) PROVE UNCHANGED Cell!cellVars
    BY <1>11, <1>a, CellStutters DEF BuildAgain, AskedOf
  <1>12. ASSUME NEW t \in Threads, Look(t) PROVE UNCHANGED Cell!cellVars
    <2>1. \A s \in Threads : AskedOf(s)' = AskedOf(s)
      BY <1>12, <1>a DEF Look, AskedOf, TypeOK
    <2> QED BY <1>12, <1>a, <2>1, CellStutters DEF Look
  <1>13. ASSUME NEW t \in Threads, Acquire(t) PROVE UNCHANGED Cell!cellVars
    <2>1. \A s \in Threads : AskedOf(s)' = AskedOf(s)
      BY <1>13, <1>a DEF Acquire, AskedOf, TypeOK
    <2> QED BY <1>13, <1>a, <2>1, CellStutters DEF Acquire
  <1>14. ASSUME NEW t \in Threads, StartBuild(t) PROVE UNCHANGED Cell!cellVars
    <2>1. \A s \in Threads : AskedOf(s)' = AskedOf(s)
      BY <1>14, <1>a DEF StartBuild, AskedOf, TypeOK
    <2> QED BY <1>14, <1>a, <2>1, CellStutters DEF StartBuild
  <1>15. ASSUME NEW t \in Threads, Interrupt(t) PROVE UNCHANGED Cell!cellVars
    <2>1. \A s \in Threads : AskedOf(s)' = AskedOf(s)
      BY <1>15, <1>a DEF Interrupt, AskedOf, TypeOK
    <2> QED BY <1>15, <1>a, <2>1, CellStutters DEF Interrupt
  <1>16. ASSUME NEW t \in Threads, Finish(t) PROVE UNCHANGED Cell!cellVars
    <2>1. \A s \in Threads : AskedOf(s)' = AskedOf(s)
      BY <1>16, <1>a DEF Finish, End, AskedOf, TypeOK
    <2> QED BY <1>16, <1>a, <2>1, CellStutters DEF Finish, End
  <1>17. ASSUME NEW t \in Threads, ReadFlag(t) PROVE UNCHANGED Cell!cellVars
    <2>1. \A s \in Threads : AskedOf(s)' = AskedOf(s)
      BY <1>17, <1>a DEF ReadFlag, AskedOf, TypeOK
    <2> QED BY <1>17, <1>a, <2>1, CellStutters DEF ReadFlag
  <1>18. ASSUME NEW t \in Threads, LookLatch(t) PROVE UNCHANGED Cell!cellVars
    <2>1. \A s \in Threads : AskedOf(s)' = AskedOf(s)
      BY <1>18, <1>a DEF LookLatch, AskedOf, TypeOK
    <2> QED BY <1>18, <1>a, <2>1, CellStutters DEF LookLatch
  <1>19. ASSUME NEW t \in Threads, Pin(t) PROVE UNCHANGED Cell!cellVars
    <2>1. \A s \in Threads : AskedOf(s)' = AskedOf(s)
      BY <1>19, <1>a DEF Pin, AskedOf, TypeOK
    <2> QED BY <1>19, <1>a, <2>1, CellStutters DEF Pin
  <1>20. ASSUME NEW t \in Threads, KeepBridge(t) PROVE UNCHANGED Cell!cellVars
    <2>1. \A s \in Threads : AskedOf(s)' = AskedOf(s)
      BY <1>20, <1>a DEF KeepBridge, AskedOf, TypeOK
    <2> QED BY <1>20, <1>a, <2>1, CellStutters DEF KeepBridge
  <1>21. ASSUME NEW t \in Threads, WantLane(t) PROVE UNCHANGED Cell!cellVars
    <2>1. \A s \in Threads : AskedOf(s)' = AskedOf(s)
      BY <1>21, <1>a DEF WantLane, AskedOf, TypeOK
    <2> QED BY <1>21, <1>a, <2>1, CellStutters DEF WantLane
  <1>22. ASSUME NEW t \in Threads, TakeLane(t) PROVE UNCHANGED Cell!cellVars
    <2>1. \A s \in Threads : AskedOf(s)' = AskedOf(s)
      BY <1>22, <1>a DEF TakeLane, AskedOf, TypeOK
    <2> QED BY <1>22, <1>a, <2>1, CellStutters DEF TakeLane
  <1>23. ASSUME NEW t \in Threads, RefuseLane(t) PROVE UNCHANGED Cell!cellVars
    <2>1. \A s \in Threads : AskedOf(s)' = AskedOf(s)
      BY <1>23, <1>a DEF RefuseLane, End, AskedOf, TypeOK
    <2> QED BY <1>23, <1>a, <2>1, CellStutters DEF RefuseLane, End
  <1>30. ASSUME NEW t \in Threads, Build(t) PROVE UNCHANGED Cell!cellVars
    BY <1>9, <1>10, <1>11, <1>15, <1>30 DEF Build
  <1>31. ASSUME NEW t \in Threads, Step(t) PROVE [Cell!CellNext]_Cell!cellVars
    BY <1>3, <1>4, <1>5, <1>6, <1>7, <1>8, <1>12, <1>13, <1>14, <1>15, <1>16, <1>17, <1>18, <1>19, <1>20, <1>21, <1>22, <1>23, <1>30, <1>31
       DEF Step, Recheck
  <1> QED BY <1>1, <1>2, <1>31 DEF Next, AllDone

\* Threads, the double-checked fast path, the fallback build and interrupts
\* together give each family one outcome, which is everybody's answer.
THEOREM CacheImplementsCells == Spec => OnceSpec
PROOF
  <1>1. Init => Cell!CellInit
    <2> SUFFICES ASSUME Init PROVE Cell!CellInit
      OBVIOUS
    <2>1. \A f \in Families : ~tried[f]
      BY DEF Init
    <2>2. \A t \in Threads : pc[t] = "idle"
      BY DEF Init
    <2> QED BY <2>1, <2>2 DEF Cell!CellInit, Init
  <1>2. IInv /\ [Next]_vars => [Cell!CellNext]_Cell!cellVars
    BY CellStep
  <1> QED BY <1>1, <1>2, Invariance, PTL DEF Spec, OnceSpec, Cell!CellSpec
==============================================================================
