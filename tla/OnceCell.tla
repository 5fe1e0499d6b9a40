------------------------------ MODULE OnceCell -------------------------------
(***************************************************************************)
(* A value that is computed at most once and shared: the first caller's    *)
(* outcome, a module or the fact that there is none, is everybody's answer *)
(* for the life of the process.  NativeExt implements one cell per native  *)
(* extension family.                                                       *)
(***************************************************************************)
CONSTANTS Threads, Families, Answers, NoFamily, NoAnswer

VARIABLES
    value,    \* value[f]: the settled answer of cell f, or NoAnswer
    asking,   \* asking[t]: the cell thread t waits for, or NoFamily
    told      \* told[t]: the last answer thread t was given, or NoAnswer

cellVars == <<value, asking, told>>

CellInit ==
    /\ value = [f \in Families |-> NoAnswer]
    /\ asking = [t \in Threads |-> NoFamily]
    /\ told = [t \in Threads |-> NoAnswer]

Ask(t, f) ==
    /\ asking[t] = NoFamily
    /\ asking' = [asking EXCEPT ![t] = f]
    /\ told' = [told EXCEPT ![t] = NoAnswer]
    /\ UNCHANGED value

\* Some caller is waiting, and nothing was settled before.
Settle(f, a) ==
    /\ value[f] = NoAnswer
    /\ \E t \in Threads : asking[t] = f
    /\ value' = [value EXCEPT ![f] = a]
    /\ UNCHANGED <<asking, told>>

Tell(t) ==
    /\ asking[t] # NoFamily
    /\ value[asking[t]] # NoAnswer
    /\ told' = [told EXCEPT ![t] = value[asking[t]]]
    /\ asking' = [asking EXCEPT ![t] = NoFamily]
    /\ UNCHANGED value

\* A caller is interrupted and gets no answer; the cell is settled anyway.
GiveUp(t) ==
    /\ asking[t] # NoFamily
    /\ value[asking[t]] # NoAnswer
    /\ asking' = [asking EXCEPT ![t] = NoFamily]
    /\ UNCHANGED <<value, told>>

CellNext ==
    \/ \E t \in Threads, f \in Families : Ask(t, f)
    \/ \E f \in Families, a \in Answers : Settle(f, a)
    \/ \E t \in Threads : Tell(t) \/ GiveUp(t)

CellSpec == CellInit /\ [][CellNext]_cellVars
==============================================================================
