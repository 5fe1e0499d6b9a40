--------------------------- MODULE MCRoutingCaches ---------------------------
(***************************************************************************)
(* Two threads, two layers of one shape.                                   *)
(***************************************************************************)
EXTENDS RoutingCaches

CONSTANTS t1, t2, l1, l2, k1

MCThreads == {t1, t2}
MCLayers  == {l1, l2}
MCKeys    == {k1}
==============================================================================
