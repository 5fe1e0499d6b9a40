----------------------------- MODULE ABCampaign ------------------------------
(***************************************************************************)
(* Promotion campaigns of the persistent-B expert kernel                   *)
(* (scripts/validate_moe_persistent_b_ab.py and its _v7 sibling).          *)
(*                                                                         *)
(* An attempt claims its campaign in the evidence directory, reserves its  *)
(* output, loads the model once, and sends each sealed prompt three times: *)
(* baseline, candidate, baseline.  The arm of a request is chosen by       *)
(* taking the resolved handle off the FP4 layers, and is attested from the *)
(* routes those layers recorded.  The decision replaces the reservation.   *)
(* Attempts are processes that start at any time; they may be killed, the  *)
(* host may crash, and calls of the operating system may fail.             *)
(***************************************************************************)
EXTENDS EvidenceDir, PromptScore, ABStatistics

CONSTANTS
    Attempts,       \* invocations of the harness
    Campaigns,      \* names of the claims, one for each campaign id
    Outputs,        \* names of the reports
    Fp4, Fp8,       \* the routed-expert layers of the loaded model
    Warmups,        \* warm-up triplets before each profile
    Canonical,      \* the sealed windows
    Scenarios       \* arguments, model and measurements given together, and
                    \* bounds: how many mishaps, errors and crashes

\* What an attempt writes into the directory.
Reports ==
    [by : Attempts,
     status : {"campaign_claimed", "attempt_reserved", "gate_failed", "inconclusive", "ok"},
     decision : {"none", "FAIL", "INCONCLUSIVE", "PROMOTION PASS"}]

\* What may befall the answer to an exact request.
Disturbances == {"none", "shifted", "repeated", "infinite", "short", "other", "stock"}

\* The sealed windows are long enough for the pilot's prefix
\* (_full_vocab_profile refuses others), and every one is measured.
ASSUME CampaignAssumption ==
    /\ Names = Attempts \cup Campaigns \cup Outputs
    /\ Attempts \cap (Campaigns \cup Outputs) = {} /\ Campaigns \cap Outputs = {}
    /\ NoInode \notin Inodes
    /\ Blank # Torn /\ Torn # Absent /\ Absent # Blank
    /\ {Blank, Torn, Absent} \cap Reports = {}
    /\ \A s \in Scenarios :
           /\ \A a \in Attempts :
                  /\ s.args[a].campaign \in Campaigns /\ s.args[a].output \in Outputs
                  /\ s.args[a].disturbances \subseteq Disturbances
                  /\ \A i \in 1..Sealed :
                         s.args[a].pilotLen \in 2..Len(Canonical.windows[i])
                  /\ DOMAIN s.truth[a].nll = 1..Sealed
           /\ s.left \in [mishaps : Nat, errors : Nat, crashes : Nat]
    /\ Warmups \in Nat \ {0}
    /\ Canonical.windows \in Seq(Seq(Tokens)) /\ Len(Canonical.windows) = Sealed

Roles     == <<"baseline_pre", "candidate", "baseline_post">>
ArmOf(r)  == IF r = "candidate" THEN "fused" ELSE "baseline"
Own(arm)  == IF arm = "fused" THEN "persistent" ELSE "bridge"
Profiles  == <<"coarse", "pilot", "confirmation">>

VARIABLES
    pc,         \* where each attempt is
    args,       \* its arguments: campaign, output, version, profile lengths
    model,      \* what loading the model gave it
    truth,      \* what its prompts measure on each arm
    handle,     \* FP4 layers that hold their persistent-B handle
    route,      \* route each layer recorded, as reading it back gives
    ran,        \* what each layer did for the request in flight
    answer,     \* the engine's answer to it
    log,        \* the requests made, in order
    pilot,      \* what the pilot decided
    final,      \* the report that replaces the reservation
    code,       \* exit status, -1 while running
    left        \* mishaps, errors and crashes the bounds still allow

process == <<pc, handle, route, ran, answer, log, pilot, final, code>>
given   == <<args, model, truth>>
vars    == <<fsvars, process, given, left>>

NoCfg    == -1       \* a layer without a persistent-B handle
Nothing  == [by |-> "nobody", status |-> "none", decision |-> "none"]
Paper(a, status, decision) == [by |-> a, status |-> status, decision |-> decision]
Claimed(a)  == Paper(a, "campaign_claimed", "none")
Reserved(a) == Paper(a, "attempt_reserved", "INCONCLUSIVE")
NoAnswer == [prompt |-> <<>>, schema |-> "none", rows |-> <<>>]
NoRoutes == [l \in Fp4 \cup Fp8 |-> "none"]

Labels ==
    {"start", "claimOpen", "claimFill", "claimFlush", "claimSettle",
     "outOpen", "outFill", "outFlush", "outSettle",
     "load", "request", "attest", "confirm",
     "verify", "temp", "sync", "replace", "settle", "over", "dead"}

\* Control and files; what a request carries is measured, not typed.
TypeOK ==
    /\ dir \in [Names -> Inodes \cup {NoInode}]
    /\ disk \in [Names -> SUBSET (Inodes \cup {NoInode})]
    /\ data \in [Inodes -> Reports \cup {Blank, Torn}]
    /\ safe \in [Inodes -> SUBSET (Reports \cup {Blank, Torn})]
    /\ pc \in [Attempts -> Labels] /\ code \in [Attempts -> {-1, 0, 1, 2, 3}]
    /\ final \in [Attempts -> Reports \cup {Nothing}]
    /\ pilot \in [Attempts -> {"none", "FAIL", "INCONCLUSIVE", "PROMOTION PASS"}]
    /\ \A a \in Attempts : args[a].campaign \in Campaigns /\ args[a].output \in Outputs
    /\ DOMAIN log = Attempts
    /\ left \in [mishaps : Nat, errors : Nat, crashes : Nat]

Goto(a, l)  == pc' = [pc EXCEPT ![a] = l]
Exit(a, n)  == Goto(a, "over") /\ code' = [code EXCEPT ![a] = n]
Spend(what) == left[what] > 0 /\ left' = [left EXCEPT ![what] = @ - 1]
Whole(c)    == c \notin {Absent, Blank, Torn}
Requests    == <<handle, route, ran, answer, log>>
Measuring   == <<Requests, pilot>>

Init ==
    /\ FsInit
    /\ \E s \in Scenarios :
           args = s.args /\ model = s.model /\ truth = s.truth /\ left = s.left
    /\ pc = [a \in Attempts |-> "start"]
    /\ handle = [a \in Attempts |-> {}]
    /\ route = [a \in Attempts |-> NoRoutes] /\ ran = [a \in Attempts |-> NoRoutes]
    /\ answer = [a \in Attempts |-> NoAnswer] /\ log = [a \in Attempts |-> <<>>]
    /\ pilot = [a \in Attempts |-> "none"]
    /\ final = [a \in Attempts |-> Nothing] /\ code = [a \in Attempts |-> -1]

-----------------------------------------------------------------------------
(* Reserving: the campaign first, then the output.  Whatever was created   *)
(* stays, so that a failed attempt still uses up its campaign.             *)

Precheck(a) ==
    /\ pc[a] = "start"
    /\ IF Exists(args[a].output)
       THEN Exit(a, 1)
       ELSE Goto(a, "claimOpen") /\ UNCHANGED code
    /\ UNCHANGED <<fsvars, final, Measuring>>

\* _exclusive_json and the fsync of the directory, for the name n.
Opening(n) ==
    /\ Unused({}) # {}
    /\ Create(n, FreshInode({}))

\* mutant: a claim left by an earlier attempt is taken over
ClaimOpen_TakesOver(a) ==
    /\ pc[a] = "claimOpen"
    /\ IF Exists(args[a].campaign) THEN Truncate(args[a].campaign)
                                   ELSE Opening(args[a].campaign)
    /\ Goto(a, "claimFill")
    /\ UNCHANGED <<final, code, Measuring>>

ClaimOpen(a) ==
    /\ pc[a] = "claimOpen"
    /\ IF Exists(args[a].campaign)
       THEN Exit(a, 1) /\ UNCHANGED fsvars
       ELSE /\ Opening(args[a].campaign)
            /\ Goto(a, "claimFill") /\ UNCHANGED code
    /\ UNCHANGED <<final, Measuring>>

ClaimFill(a) ==
    /\ pc[a] = "claimFill"
    /\ WriteFile(dir[args[a].campaign], Claimed(a))
    /\ Goto(a, "claimFlush")
    /\ UNCHANGED <<final, code, Measuring>>

ClaimFlush(a) ==
    /\ pc[a] = "claimFlush"
    /\ SyncFile(dir[args[a].campaign])
    /\ Goto(a, "claimSettle")
    /\ UNCHANGED <<final, code, Measuring>>

ClaimSettle(a) ==
    /\ pc[a] = "claimSettle"
    /\ SyncDir
    /\ Goto(a, "outOpen")
    /\ UNCHANGED <<final, code, Measuring>>

\* mutant: an output created since the precheck is truncated
OutOpen_Truncates(a) ==
    /\ pc[a] = "outOpen"
    /\ IF Exists(args[a].output) THEN Truncate(args[a].output)
                                 ELSE Opening(args[a].output)
    /\ Goto(a, "outFill")
    /\ UNCHANGED <<final, code, Measuring>>

OutOpen(a) ==
    /\ pc[a] = "outOpen"
    /\ IF Exists(args[a].output)
       THEN Exit(a, 1) /\ UNCHANGED fsvars
       ELSE /\ Opening(args[a].output)
            /\ Goto(a, "outFill") /\ UNCHANGED code
    /\ UNCHANGED <<final, Measuring>>

OutFill(a) ==
    /\ pc[a] = "outFill"
    /\ WriteFile(dir[args[a].output], Reserved(a))
    /\ Goto(a, "outFlush")
    /\ UNCHANGED <<final, code, Measuring>>

OutFlush(a) ==
    /\ pc[a] = "outFlush"
    /\ SyncFile(dir[args[a].output])
    /\ Goto(a, "outSettle")
    /\ UNCHANGED <<final, code, Measuring>>

OutSettle(a) ==
    /\ pc[a] = "outSettle"
    /\ SyncDir
    /\ Goto(a, "load")
    /\ UNCHANGED <<final, code, Measuring>>

Reserving == {"claimOpen", "claimFill", "claimFlush", "claimSettle",
              "outOpen", "outFill", "outFlush", "outSettle"}

ReserveFails(a) ==
    /\ pc[a] \in Reserving
    /\ Spend("errors")
    /\ Exit(a, 1)
    /\ UNCHANGED <<fsvars, final, Measuring>>

Reserve(a) ==
    \/ Precheck(a)
    \/ ClaimOpen(a) \/ ClaimFill(a) \/ ClaimFlush(a) \/ ClaimSettle(a)
    \/ OutOpen(a) \/ OutFill(a) \/ OutFlush(a) \/ OutSettle(a)

-----------------------------------------------------------------------------
(* Loading and measuring.  An exception becomes a FAIL report.             *)

Publish(a, report, n) ==
    /\ final' = [final EXCEPT ![a] = report]
    /\ code' = [code EXCEPT ![a] = n]
    /\ Goto(a, "verify")

Raise(a) ==
    Publish(a, Paper(a, "gate_failed", "FAIL"), 1)

\* What a run needs of the loaded model: every FP4 layer resolved to the same
\* persistent-B kernel and to no other lane, and no FP8 layer.
InventoryHolds(a) ==
    /\ Cardinality(Fp4) = args[a].fp4 /\ Cardinality(Fp8) = args[a].fp8
    /\ \A l \in Fp4 : model[a].cfg[l] = args[a].cfg
    /\ \A l \in Fp8 : model[a].cfg[l] = NoCfg
    /\ model[a].otherLanes = {}
    /\ model[a].architecture = args[a].architecture

Load(a) ==
    /\ pc[a] = "load"
    /\ IF /\ PromptsAccepted(args[a].payload, Canonical, model[a].files, args[a])
          /\ InventoryHolds(a)
       THEN /\ handle' = [handle EXCEPT ![a] = Fp4]
            /\ Goto(a, "request") /\ UNCHANGED <<final, code>>
       ELSE Raise(a) /\ UNCHANGED handle
    /\ UNCHANGED <<fsvars, route, ran, answer, log, pilot>>

\* Each profile is warmed and then measured once per prompt.
PerProfile == Warmups + Sealed
Plan(n) ==      \* the n-th request, from 0
    LET block == n \div 3
        at    == block % PerProfile
    IN [profile |-> Profiles[(block \div PerProfile) + 1],
        phase   |-> IF at < Warmups THEN "warmup" ELSE "measured",
        index   |-> IF at < Warmups THEN (at % Sealed) + 1 ELSE at - Warmups + 1,
        role    |-> Roles[(n % 3) + 1]]
Coming(a) == Plan(Len(log[a]))
BlockEnd(a, k) == Len(log[a]) = 3 * PerProfile * k
RequestDue(a) == \/ pc[a] = "request" /\ ~BlockEnd(a, 2)
                 \/ pc[a] = "confirm" /\ ~BlockEnd(a, 3)

PromptOf(a, r) ==
    LET w == args[a].payload.windows
    IN IF r.profile = "pilot" THEN FullVocabProfile(w, args[a].pilotLen)[r.index] ELSE w[r.index]

\* An honest row: the target's cell, then the vocabulary in rank order.
TrueRow(prompt, p) == [t \in Tokens |-> IF t = prompt[p] THEN 9 ELSE t]
TrueAnswer(prompt) ==
    [prompt |-> prompt, schema |-> TransportOf("all", TRUE),
     rows |-> [p \in 1..(Len(prompt) - 1) |->
                  LET cells == [t \in 1..Vocab |-> Vocab - t]
                  IN [ids |-> <<prompt[p + 1]>> \o cells,
                      vals |-> <<TrueRow(prompt, p)[prompt[p + 1]]>>
                               \o [j \in 1..Vocab |-> TrueRow(prompt, p)[cells[j]]]]]]

Disturbed(d, ans) ==
    CASE d = "none"      -> ans
      [] d = "shifted"   -> [ans EXCEPT !.rows = Append(Tail(@), @[1])]
      [] d = "repeated"  -> [ans EXCEPT !.rows[1].ids[2] = @ - 1]
      [] d = "infinite"  -> [ans EXCEPT !.rows[1].vals[2] = -1]
      [] d = "short"     -> [ans EXCEPT !.rows = Tail(@)]
      [] d = "other"     -> [ans EXCEPT !.prompt = Tail(@)]
      [] d = "stock"     -> [ans EXCEPT !.schema = "flat"]

\* What the layers do: an FP4 layer follows its handle, an FP8 layer serves.
Honest(held) ==
    [l \in Fp4 \cup Fp8 |->
        IF l \in Fp4 THEN Own(IF l \in held THEN "fused" ELSE "baseline") ELSE "served"]

\* mutant: the routes of the request before are not cleared
Generate_StaleRoutes(a) ==
    /\ RequestDue(a)
    /\ LET arm    == ArmOf(Coming(a).role)
           held   == IF arm = "fused" THEN Fp4 ELSE {}
           prompt == PromptOf(a, Coming(a))
       IN /\ handle' = [handle EXCEPT ![a] = held]
          /\ \/ /\ ran' = [ran EXCEPT ![a] = Honest(held)]
                /\ route' = [route EXCEPT ![a] = Honest(held)]
                /\ answer' = [answer EXCEPT ![a] = TrueAnswer(prompt)]
                /\ Goto(a, "attest") /\ UNCHANGED <<left, final, code>>
             \/ /\ Spend("mishaps")
                /\ \E l \in Fp4 \cup Fp8 :
                      /\ ran' = [ran EXCEPT ![a] = [Honest(held) EXCEPT ![l] = "none"]]
                      /\ route' = [route EXCEPT ![a] = [Honest(held) EXCEPT ![l] = route[a][l]]]
                /\ answer' = [answer EXCEPT ![a] = TrueAnswer(prompt)]
                /\ Goto(a, "attest") /\ UNCHANGED <<final, code>>
    /\ UNCHANGED <<fsvars, log, pilot>>

\* One request on its arm.  A layer may be skipped, take another lane or
\* decline, the answer may be disturbed, and the engine may raise.
Generate(a) ==
    /\ RequestDue(a)
    /\ LET arm    == ArmOf(Coming(a).role)
           held   == IF arm = "fused" THEN Fp4 ELSE {}
           prompt == PromptOf(a, Coming(a))
           run(what, d) ==
               /\ handle' = [handle EXCEPT ![a] = held]
               /\ ran' = [ran EXCEPT ![a] = what]
               /\ route' = [route EXCEPT ![a] = what]
               /\ answer' = [answer EXCEPT ![a] = Disturbed(d, TrueAnswer(prompt))]
               /\ Goto(a, "attest") /\ UNCHANGED <<final, code>>
       IN \/ run(Honest(held), "none") /\ UNCHANGED left
          \/ /\ Spend("mishaps")
             /\ \/ \E l \in Fp4, w \in {"persistent", "bridge", "none"} :
                      run([Honest(held) EXCEPT ![l] = w], "none")
                \/ \E l \in Fp8, w \in {"other", "declined", "none"} :
                      run([Honest(held) EXCEPT ![l] = w], "none")
                \/ /\ Coming(a).profile # "coarse"
                   /\ \E d \in args[a].disturbances : run(Honest(held), d)
          \/ Spend("mishaps") /\ Raise(a) /\ UNCHANGED <<handle, route, ran, answer>>
    /\ UNCHANGED <<fsvars, log, pilot>>

RoutesHold(arm, routes) ==
    /\ \A l \in Fp4 : routes[l] = Own(arm)
    /\ \A l \in Fp8 : routes[l] \in {"served", "other"}

\* Attest, put the handles back, and score what was measured exactly.
Attest(a) ==
    /\ pc[a] = "attest"
    /\ handle' = [handle EXCEPT ![a] = Fp4]
    /\ LET r    == Coming(a)
           arm  == ArmOf(r.role)
           exact == r.phase = "measured" /\ r.profile # "coarse"
           rows == IF exact THEN Compact(answer[a], PromptOf(a, r)) ELSE <<>>
       IN IF exact /\ (rows = Refused \/ answer[a].schema # "tensor")
          THEN Raise(a) /\ UNCHANGED log
          ELSE /\ log' = [log EXCEPT ![a] = Append(@,
                     [plan |-> r, pass |-> RoutesHold(arm, route[a]), ran |-> ran[a],
                      fp8 |-> [l \in Fp8 |-> route[a][l]], rows |-> rows])]
               /\ Goto(a, IF r.profile = "confirmation" THEN "confirm" ELSE "request")
               /\ UNCHANGED <<final, code>>
    /\ answer' = [answer EXCEPT ![a] = NoAnswer]
    /\ ran' = [ran EXCEPT ![a] = NoRoutes]
    /\ UNCHANGED <<fsvars, route, pilot>>

-----------------------------------------------------------------------------
(* Gates and decisions over the log.                                       *)

\* The entries of s at the positions N, in order.
Selected(s, N) ==
    [k \in 1..Cardinality(N) |-> s[CHOOSE n \in N : Cardinality({m \in N : m <= n}) = k]]

Measured(a, profile) ==
    Selected(log[a], {n \in DOMAIN log[a] : /\ log[a][n].plan.phase = "measured"
                                           /\ log[a][n].plan.profile = profile})

\* Consecutive triplets, one for each prompt in order.
TripletOrderHolds(a, profile) ==
    LET t == Measured(a, profile)
    IN /\ Len(t) = 3 * Sealed
       /\ \A n \in DOMAIN t : /\ t[n].plan.role = Roles[((n - 1) % 3) + 1]
                              /\ t[n].plan.index = ((n - 1) \div 3) + 1

\* mutant: the routes of the first role are not compared
Fp8Unchanged_Pairs(a, profile) ==
    LET t == Measured(a, profile)
    IN \A n \in DOMAIN t : n % 3 = 0 => t[n].fp8 = t[n - 1].fp8

Fp8Unchanged(a, profile) ==
    LET t == Measured(a, profile)
    IN \A n \in DOMAIN t : n % 3 = 0 => t[n].fp8 = t[n - 1].fp8 /\ t[n].fp8 = t[n - 2].fp8

WarmedBefore(a, profiles) ==
    LET w == Selected(log[a], {n \in DOMAIN log[a] : log[a][n].plan.phase = "warmup"})
    IN /\ Len(w) = 3 * Warmups * Len(profiles)
       /\ \A n \in DOMAIN w : /\ w[n].plan.profile = profiles[((n - 1) \div (3 * Warmups)) + 1]
                              /\ w[n].plan.role = Roles[((n - 1) % 3) + 1]

IntegrityHolds(a, k) ==
    /\ \A n \in DOMAIN log[a] : log[a][n].pass
    /\ WarmedBefore(a, SubSeq(Profiles, 1, k))
    /\ \A j \in 1..k : TripletOrderHolds(a, Profiles[j]) /\ Fp8Unchanged(a, Profiles[j])

\* What a triplet measures.  A request that did not run on its own arm
\* measures the other one.
OnOwnArm(e) == \A l \in Fp4 : e.ran[l] = Own(ArmOf(e.plan.role))
NllOf(a) ==
    LET t == Measured(a, "coarse")
        other(r) == IF r = "candidate" THEN "baseline_pre" ELSE "candidate"
    IN [i \in 1..Sealed |->
           [r \in {"baseline_pre", "candidate", "baseline_post"} |->
               LET e == t[(3 * (i - 1)) + (CHOOSE k \in 1..3 : Roles[k] = r)]
               IN truth[a].nll[i][IF OnOwnArm(e) THEN r ELSE other(r)]]]
KlOf(a, profile) ==
    LET t == Measured(a, profile)
    IN [i \in 1..Sealed |->
           LET d == truth[a][profile][i]
           IN IF \A k \in 1..3 : OnOwnArm(t[(3 * (i - 1)) + k]) THEN d
              ELSE [cb |-> d.bb, bb |-> d.bb]]

PilotDecision(a) == Decision(NllOf(a), KlOf(a, "pilot"), IntegrityHolds(a, 2))

\* Every prompt at every scored position of the confirmation profile.
ConfirmationComplete(a) ==
    LET t == Measured(a, "confirmation")
    IN Len(t) = 3 * Sealed /\ \A n \in DOMAIN t : Len(t[n].rows) = args[a].seqlen - 1

Status(decision) ==
    CASE decision = "FAIL" -> "gate_failed"
      [] decision = "INCONCLUSIVE" -> "inconclusive"
      [] OTHER -> "ok"
ExitOf(decision) ==
    CASE decision = "FAIL" -> 2 [] decision = "INCONCLUSIVE" -> 3 [] OTHER -> 0

Report(a, decision) ==
    Publish(a, Paper(a, Status(decision), decision), ExitOf(decision))

\* v7 measures the confirmation profile whatever the pilot decided.
ConfirmsAnyway(a) == args[a].version = "v7"

Screen(a) ==
    /\ pc[a] = "request" /\ BlockEnd(a, 2)
    /\ pilot' = [pilot EXCEPT ![a] = PilotDecision(a)]
    /\ IF PilotDecision(a) # "FAIL" \/ ConfirmsAnyway(a)
       THEN Goto(a, "confirm") /\ UNCHANGED <<final, code>>
       ELSE Report(a, "FAIL")
    /\ UNCHANGED <<fsvars, Requests>>

\* The confirmation decides; the pilot's decision is only recorded.
Conclude(a) ==
    /\ pc[a] = "confirm" /\ BlockEnd(a, 3)
    /\ Report(a, Decision(NllOf(a), KlOf(a, "confirmation"),
                          IntegrityHolds(a, 3) /\ ConfirmationComplete(a)))
    /\ UNCHANGED <<fsvars, Measuring>>

-----------------------------------------------------------------------------
(* Publishing: the claim and the reservation are still this attempt's, a   *)
(* whole new file replaces the reservation, and the directory is synced.   *)

Verify(a) ==
    /\ pc[a] = "verify"
    /\ IF Seen(args[a].campaign) = Claimed(a) /\ Seen(args[a].output) = Reserved(a)
       THEN Goto(a, "temp") /\ UNCHANGED code
       ELSE Exit(a, 1)
    /\ UNCHANGED <<fsvars, final, Measuring>>

Temp(a) ==
    /\ pc[a] = "temp"
    /\ Unused({}) # {}
    /\ CreateFilled(a, FreshInode({}), final[a])
    /\ Goto(a, "sync")
    /\ UNCHANGED <<final, code, Measuring>>

Sync(a) ==
    /\ pc[a] = "sync"
    /\ SyncFile(dir[a])
    /\ Goto(a, "replace")
    /\ UNCHANGED <<final, code, Measuring>>

Rename(a) ==
    /\ pc[a] = "replace"
    /\ Replace(a, args[a].output)
    /\ Goto(a, "settle")
    /\ UNCHANGED <<final, code, Measuring>>

\* mutant: the harness returns before the rename is durable
Settle_NoSync(a) ==
    /\ pc[a] = "settle"
    /\ Goto(a, "over")
    /\ UNCHANGED <<fsvars, final, code, Measuring>>

Settle(a) ==
    /\ pc[a] = "settle"
    /\ SyncDir
    /\ Goto(a, "over")
    /\ UNCHANGED <<final, code, Measuring>>

FinalizeFails(a) ==
    /\ pc[a] \in {"verify", "temp", "sync", "replace", "settle"}
    /\ Spend("errors")
    /\ IF Exists(a) THEN Unlink(a) ELSE UNCHANGED fsvars
    /\ Exit(a, 1)
    /\ UNCHANGED <<final, Measuring>>

-----------------------------------------------------------------------------
Running(a) == pc[a] \notin {"start", "over", "dead"}

Kill(a) ==
    /\ Running(a) /\ Spend("crashes")
    /\ Goto(a, "dead")
    /\ UNCHANGED <<fsvars, final, code, Measuring>>

Crash ==
    /\ Spend("crashes")
    /\ \E a \in Attempts : Running(a)
    /\ HostCrash
    /\ pc' = [a \in Attempts |-> IF Running(a) THEN "dead" ELSE pc[a]]
    /\ UNCHANGED <<final, code, Measuring>>

Step(a) ==
    \/ /\ \/ Reserve(a) \/ Load(a) \/ Attest(a) \/ Screen(a) \/ Conclude(a)
          \/ Verify(a) \/ Temp(a) \/ Sync(a) \/ Rename(a) \/ Settle(a)
       /\ UNCHANGED left
    \/ Generate(a)
    \/ ReserveFails(a) \/ FinalizeFails(a)
    \/ Kill(a)

Next == ((\E a \in Attempts : Step(a)) \/ Crash) /\ UNCHANGED given

Spec == Init /\ [][Next]_vars

-----------------------------------------------------------------------------
(* What a reader of the evidence may rely on.                              *)

MayShow(n) == OnDisk(n) \cup {Seen(n)}

\* Every upper bound is within its limit, the baseline is quiet, and no
\* prompt is corrupted.
Passes(nll, kl) ==
    /\ Within([i \in 1..Sealed |-> Effect(nll[i])], 2 * NllLimit)
    /\ Within([i \in 1..Sealed |-> Excess(kl[i])], 0)
    /\ NoiseResolved(nll) /\ ~Corrupted(nll)

\* What an attempt that may promote has behind it.
Earned(a) ==
    /\ Len(log[a]) = 9 * PerProfile
    /\ \A e \in ToSet(log[a]) : OnOwnArm(e)
    /\ \A p \in ToSet(Profiles) : \A i \in 1..Sealed :
           Cardinality({e.fp8 : e \in {x \in ToSet(Measured(a, p)) : x.plan.index = i}}) = 1
    /\ \A e \in ToSet(log[a]) : e.rows # <<>> =>
           e.rows = [p \in 1..(Len(PromptOf(a, e.plan)) - 1) |-> TrueRow(PromptOf(a, e.plan), p)]
    /\ Passes(truth[a].nll, truth[a].confirmation)

\* A report that says PROMOTION PASS, now or after a crash, comes from one
\* attempt that measured every sealed prompt three times in each profile, each
\* request on its own arm with the FP8 layers unchanged around it, with every
\* exact row the one the model computed, and whose measurements do pass
\* (run, _promotion_quality_v6 and the gates they call).
PromotionEarned ==
    \A n \in Outputs : \A r \in MayShow(n) :
        Whole(r) /\ r.decision = "PROMOTION PASS" => Earned(r.by)

\* In the text of every exact profile some token is followed by another: in one
\* token repeated no row tells its place.
TextsVary ==
    \A s \in Scenarios : \A a \in Attempts : \A i \in 1..Sealed :
        \A n \in {s.args[a].pilotLen, Len(Canonical.windows[i])} :
            n > 2 => \E q \in 2..(n - 1) :
                        Canonical.windows[i][q] # Canonical.windows[i][q + 1]

\* A pilot that failed never ends in a promotion: v7 says that a confirmation
\* that passes beside it is "a result to adjudicate, NOT an automatic
\* promotion" (run).  It measures both and decides by the confirmation alone.
PilotRejectionHolds ==
    \A n \in Outputs : \A r \in MayShow(n) :
        Whole(r) /\ r.decision = "PROMOTION PASS" => pilot[r.by] # "FAIL"

\* A campaign is measured at most once in an evidence directory, whatever
\* crashed in between (_reserve_attempt).
OneMeasurement ==
    \A a, b \in Attempts :
        a # b /\ args[a].campaign = args[b].campaign => log[a] = <<>> \/ log[b] = <<>>

\* Exit status 0 promises a promotion and its claim that survive a crash (main).
PassIsDurable ==
    [][\A a \in Attempts :
          pc[a] # "over" /\ pc'[a] = "over" /\ code'[a] = 0 =>
              /\ OnDisk(args[a].output)' = {final[a]}
              /\ final[a].decision = "PROMOTION PASS"
              /\ OnDisk(args[a].campaign)' = {Claimed(a)}]_vars

\* Evidence is final: a report changes only from this attempt's reservation to
\* its own result, and once the attempt has reported, not even a crash takes it
\* back (_finalize_attempt).
EvidenceKept ==
    [][\A n \in Outputs :
          Whole(Seen(n)) /\ Seen(n)' # Seen(n) =>
              LET a == Seen(n).by
              IN /\ ~(pc[a] = "over" /\ code[a] \in {0, 2, 3})
                 /\ \/ left'.crashes # left.crashes
                    \/ /\ Seen(n).status = "attempt_reserved" /\ Whole(Seen(n))'
                       /\ Seen(n)' = final[a]]_vars
==============================================================================
