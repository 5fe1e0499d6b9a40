--------------------------- MODULE MCRoutedForward ---------------------------
(* Four experts, two per token; one rank without expert parallelism, or two. *)
EXTENDS RoutedForward, TLC

CONSTANTS r1, r2

TheRoutes == {<<0, 1>>, <<1, 2>>, <<2, 1>>, <<3, 0>>, <<Skip, Skip>>}
MCRoutes  == {[j \in 0..1 |-> t[j + 1]] : t \in TheRoutes}
MCSizes   == {1, 3}

Placed(map, n) == [map |-> [g \in 0..3 |-> map[g + 1]], local |-> n]

OneRank    == r1 :> [map |-> NoMap, local |-> 4]
Linear     == r1 :> Placed(<<0, 1, -1, -1>>, 2) @@ r2 :> Placed(<<-1, -1, 0, 1>>, 2)
RoundRobin == r1 :> Placed(<<0, -1, 1, -1>>, 2) @@ r2 :> Placed(<<-1, 0, -1, 1>>, 2)
Uneven     == r1 :> Placed(<<0, 1, 2, -1>>, 3) @@ r2 :> Placed(<<-1, -1, -1, 0>>, 1)
\* Placements the stock strategies do not make: a slot owned twice, slots out
\* of order.
Twice      == r1 :> Placed(<<0, 0, -1, -1>>, 2) @@ r2 :> Placed(<<-1, -1, 0, 1>>, 2)
Shuffled   == r1 :> Placed(<<1, 0, -1, -1>>, 2) @@ r2 :> Placed(<<-1, -1, 0, 1>>, 2)

Deploy(p, l, c, t) == [place |-> p, lane |-> l, chunk |-> c, trim |-> t]

MCDeployments ==
    {Deploy(OneRank, "sm120", c, TRUE) : c \in {1, 3, 4}}
    \cup {Deploy(p, "bridge", 3, TRUE) : p \in {OneRank, RoundRobin}}
    \cup {Deploy(p, "fused", 4, t) : p \in {OneRank, Linear}, t \in BOOLEAN}
    \cup {Deploy(Uneven, "sm120", 2, TRUE), Deploy(Uneven, "persistent_b", 2, TRUE),
          Deploy(Twice, "bridge", 4, TRUE), Deploy(Shuffled, "bridge", 4, TRUE)}
==============================================================================
