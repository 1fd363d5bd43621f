---------------------------- MODULE OrderLedger -----------------------------
(***************************************************************************)
(* What a maker order's account promises, with no cancels, acks, accounts  *)
(* or dedup in it: the broker executes lots, the engine books executed     *)
(* lots, each once, and never un-books one.  Should the stream ever repeat *)
(* itself past the dedup, the order's size still bounds what is booked.    *)
(* OrderAccount implements it.                                             *)
(***************************************************************************)
EXTENDS Naturals

CONSTANT MaxLots

VARIABLES size, exec, booked, repeated

vars == <<size, exec, booked, repeated>>

Init ==
    /\ size \in 1..MaxLots
    /\ exec = 0 /\ booked = 0 /\ repeated = FALSE

Execute ==
    /\ exec' \in (exec + 1)..size
    /\ UNCHANGED <<size, booked, repeated>>

Book ==
    /\ booked' \in (booked + 1)..(IF repeated THEN size ELSE exec)
    /\ UNCHANGED <<size, exec, repeated>>

Repeat ==
    /\ repeated' = TRUE
    /\ booked' \in booked..size
    /\ UNCHANGED <<size, exec>>

Next == Execute \/ Book \/ Repeat

Spec == Init /\ [][Next]_vars
=============================================================================
