-------------------------- MODULE MCMarketSchedule --------------------------
(* A day of twelve ticks: closed until 3, trading, a clearing from 8 to    *)
(* 10, an evening session; a short day and a holiday.                      *)
EXTENDS MarketSchedule

OpenAt(hours) == [h \in 0 .. 11 |-> IF h \in hours THEN "open" ELSE "closed"]
Trading == { OpenAt(3 .. 7 \cup {10, 11}), OpenAt(3 .. 7), OpenAt({}) }
=============================================================================
