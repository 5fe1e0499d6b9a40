---------------------------- MODULE MCABCampaign -----------------------------
(* Two attempts that contend for a campaign or an output, two sealed prompts. *)
EXTENDS ABCampaign

CONSTANTS a1, a2, claim1, claim2, out1, out2, f1, f2, g1

MCAttempts == {a1, a2}
MCCampaigns == {claim1, claim2}
MCOutputs == {out1, out2}
MCNames == MCAttempts \cup MCCampaigns \cup MCOutputs
MCFp4 == {f1, f2}
MCFp8 == {g1}
MCInodes == 1..5

MCCanonical ==
    [identity |-> "canonical", tokenizer |-> [vocabulary |-> 7], ppl |-> <<0, 1>>,
     vocab |-> 3, windows |-> << <<0, 1, 2>>, <<1, 2, 0>> >>]

\* Measurements: clear, straddling, noisy, corrupted, divergent.
Triple(b, c, d) == [baseline_pre |-> b, candidate |-> c, baseline_post |-> d]
Same   == <<Triple(50, 51, 50), Triple(60, 61, 61)>>
Spreads == <<Triple(50, 50, 50), Triple(60, 66, 60)>>
Noisy  == <<Triple(50, 55, 60), Triple(60, 55, 50)>>
Broken == <<Triple(50, 50, 50), Triple(60, 90, 60)>>
Near   == <<[cb |-> 4, bb |-> 4], [cb |-> 5, bb |-> 4]>>
Wide   == <<[cb |-> 4, bb |-> 4], [cb |-> 8, bb |-> 4]>>
Far    == <<[cb |-> 40, bb |-> 4], [cb |-> 40, bb |-> 4]>>
World(nll, screen, confirmation) == [nll |-> nll, pilot |-> screen, confirmation |-> confirmation]

Base(version, campaign, output) ==
    [campaign |-> campaign, output |-> output, version |-> version,
     payload |-> MCCanonical, samples |-> 2, seqlen |-> 3, pilotLen |-> 2,
     fp4 |-> 2, fp8 |-> 1, cfg |-> 3, architecture |-> "dsv4", disturbances |-> {"none"}]
Good == [cfg |-> [l \in MCFp4 \cup MCFp8 |-> IF l \in MCFp4 THEN 3 ELSE NoCfg],
         otherLanes |-> {}, architecture |-> "dsv4", files |-> [vocabulary |-> 7]]
Both(x) == [a \in MCAttempts |-> x]
Budget(m, e, c) == [mishaps |-> m, errors |-> e, crashes |-> c]
Scenario(one, two, mod, w, b) ==
    [args |-> [a \in MCAttempts |-> IF a = a1 THEN one ELSE two],
     model |-> Both(mod), truth |-> Both(w), left |-> b]
Solo(one, mod, w, b) ==     \* the other attempt is refused at once
    Scenario(one, [one EXCEPT !.output = out2], mod, w, b)

V6 == Base("v6", claim1, out1)
Clear == World(Same, Near, Near)

\* v7 in place of v6, with a pilot that rejects what the confirmation accepts.
V7Scenarios == {Solo(Base("v7", claim1, out1), Good, World(Same, Far, Near), Budget(0, 0, 0))}

MCScenarios ==
    V7Scenarios \cup
    {Scenario(V6, [V6 EXCEPT !.output = out2], Good, Clear, Budget(0, 1, 2)),
     Scenario(V6, [V6 EXCEPT !.campaign = claim2], Good, Clear, Budget(0, 1, 2)),
     Solo([V6 EXCEPT !.disturbances = Disturbances \ {"none"}], Good, Clear, Budget(1, 0, 0))}
    \cup {Solo(V6, Good, w, Budget(0, 0, 0)) :
            w \in {World(Spreads, Near, Near), World(Noisy, Near, Near), World(Broken, Near, Near),
                   World(Same, Far, Near), World(Same, Near, Far), World(Same, Wide, Near),
                   World(Same, Near, Wide)}}
    \cup {Solo(V6, m, Clear, Budget(0, 0, 0)) :
            m \in {[Good EXCEPT !.cfg[f1] = NoCfg], [Good EXCEPT !.cfg[g1] = 3],
                   [Good EXCEPT !.otherLanes = {"bf16_sm120"}],
                   [Good EXCEPT !.files = [vocabulary |-> 8]],
                   [Good EXCEPT !.architecture = "other"]}}

\* What the theorem about a promotion rests on, for these windows.
ASSUME Varied == TextsVary
==============================================================================
