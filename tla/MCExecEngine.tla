---------------------------- MODULE MCExecEngine ----------------------------
(***************************************************************************)
(* The strategies the configurations of ExecEngine are checked with.       *)
(***************************************************************************)
EXTENDS ExecEngine

Strategy(shapes, size, budget) ==
    [modes |-> shapes, twoWay |-> FALSE, lots |-> {size}, cap |-> size, moves |-> budget]

(* One clip of one lot; of two lots, so that fills may be partial; two     *)
(* clips, or a re-peg, or an open and a close.                             *)
OneLot == {Strategy({"default"}, 1, 1)}
TwoLots == {Strategy({"default"}, 2, 1)}
TwoMoves == {Strategy({"default"}, 1, 2)}
OneLotOrTaker == {Strategy({"default", "taker"}, 1, 1)}

(* Two lots at once, or every clip shape lot by lot. *)
Shapes == TwoLots \cup {Strategy({"default", "soloB", "taker"}, 1, 2)}
=============================================================================
