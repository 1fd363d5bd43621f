----------------------------- MODULE MCStreams -----------------------------
(* A market that rises once and then goes to and fro: a missed delta at    *)
(* the rise leaves levels no later delta takes away.                       *)
EXTENDS Streams

Touch(b, a) == [bid |-> {b}, ask |-> {a}]
Rising == << Touch(1, 2), Touch(3, 5), Touch(4, 5) >>
=============================================================================
