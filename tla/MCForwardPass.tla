---------------------------- MODULE MCForwardPass ----------------------------
(***************************************************************************)
(* What a forward pass needs: the lane of each call (LaneDispatch), the    *)
(* rows a routed call adds up (RoutedForward), the offsets its layers      *)
(* cache (RoutingCaches).  The three share no variable, so interleaving    *)
(* them adds no behaviour to any, and each behaviour moves one of them     *)
(* while the others stay at an initial state.                              *)
(***************************************************************************)
EXTENDS MCLaneDispatch, MCRoutedForward, MCRoutingCaches

VARIABLE moving     \* which of the three this behaviour moves

passVars == <<vars, forwardVars, routingVars, moving>>

\* What the lanes, or the rows, rest at.
RestingScenario   == Still(Spark, Env, <<Shared>>, {<<8, "bf16">>, <<17, "bf16">>, <<129, "bf16">>})
RestingDeployment == Deploy(OneRank, "sm120", 1, TRUE)

PassInit ==
    /\ moving \in {"lanes", "rows", "offsets"}
    /\ moving = "lanes" \/ scenario = RestingScenario
    /\ Init
    /\ moving = "rows" \/ deployment = RestingDeployment
    /\ ForwardInit /\ CachesInit

\* A process may get no further call.
NoMoreCalls == moving = "lanes" /\ UNCHANGED passVars

PassNext ==
    \/ moving = "lanes"   /\ Next        /\ UNCHANGED <<forwardVars, routingVars, moving>>
    \/ moving = "rows"    /\ ForwardNext /\ UNCHANGED <<vars, routingVars, moving>>
    \/ moving = "offsets" /\ CachesNext  /\ UNCHANGED <<vars, forwardVars, moving>>
    \/ NoMoreCalls

PassSpec ==
    /\ PassInit /\ [][PassNext]_passVars
    /\ \A t \in Threads :
           WF_routingVars(moving = "offsets" /\ Step(t) /\ UNCHANGED <<vars, forwardVars, moving>>)
==============================================================================
