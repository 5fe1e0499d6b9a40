---------------------------- MODULE MCResidency ------------------------------
(***************************************************************************)
(* Three models in one process, each with a streamed tile of its own size, *)
(* two of them with a compiled layer beside it.                            *)
(***************************************************************************)
EXTENDS Residency

CONSTANTS a, b, c           \* models

MCModels   == {a, b, c}
MCDispatch == {"a.fc", "b.fc"}
MCStreamed == {"a.up", "b.up", "c.up"}
MCModelOf  == [l \in MCDispatch \cup MCStreamed |->
                 IF l \in {"a.fc", "a.up"} THEN a
                 ELSE IF l \in {"b.fc", "b.up"} THEN b ELSE c]
MCSize     == [l \in MCStreamed |-> CASE l = "a.up" -> 1
                                      [] l = "b.up" -> 3
                                      [] l = "c.up" -> 2]
==============================================================================
