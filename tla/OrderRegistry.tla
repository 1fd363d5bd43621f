--------------------------- MODULE OrderRegistry ---------------------------
(***************************************************************************)
(* The engine's per-order fill account, strategies/execengine/             *)
(* orderregistry (OrdAcct), and the arithmetic that Engine.OnFill,         *)
(* finishRetire, retireOrder and settleTaker perform on it.                *)
(*                                                                         *)
(* Only lots are kept: prices (and the sink's Amend, which moves cash and  *)
(* never inventory) are abstracted away.  PlacedAt, LastProbe and DeadSeen *)
(* are merged in `overdue': DeadSeen and "the confirm window has elapsed"  *)
(* are used only in the same disjunction.                                  *)
(***************************************************************************)
EXTENDS Integers

Max2(a, b) == IF a >= b THEN a ELSE b
Min2(a, b) == IF a =< b THEN a ELSE b

Leg == {"A", "B"}

(* Final = -1 is the code's "terminal count not known yet". *)
Unknown == -1

(* The account of an order placed for at most n lots. *)
AcctUpTo(n) ==
    [ maker    : BOOLEAN,   leg   : Leg,    buy      : BOOLEAN,
      placed   : 1..n,      folded : 0..n,  seen     : 0..n,
      credited : 0..n,      final : -1..n,  deferred : BOOLEAN,
      overdue  : BOOLEAN ]

(* placeLeg opens a maker's account with nothing credited ... *)
NewMaker(leg, buy, lots) ==
    [ maker |-> TRUE, leg |-> leg, buy |-> buy, placed |-> lots,
      folded |-> 0, seen |-> 0, credited |-> 0, final |-> Unknown,
      deferred |-> FALSE, overdue |-> FALSE ]

(* ... commitTakerPlacement a taker's with every placed lot credited ahead *)
(* of the fill stream.                                                     *)
NewTaker(leg, buy, lots) ==
    [ maker |-> FALSE, leg |-> leg, buy |-> buy, placed |-> lots,
      folded |-> 0, seen |-> 0, credited |-> lots, final |-> Unknown,
      deferred |-> FALSE, overdue |-> FALSE ]

(* A taker's credit has been confirmed by data. *)
Confirmed(a) == a.final >= 0 \/ a.seen >= a.placed

-----------------------------------------------------------------------------
(* Mutant: the placed-size ceiling is missing. *)
AcceptedLotsUnclamped(a, lots) == lots

(* Engine.OnFill.  An order can never execute more than it was placed for: *)
(* the lots of an event beyond that size are dropped.                      *)
AcceptedLots(a, lots) == Min2(lots, a.placed - a.seen)

(* Mutant: every reported lot is acted on, retired order or not (the churn *)
(* storm the per-order dedup was written against).                         *)
NewLotsBlind(a, lots) == lots

(* Of the accepted lots, those beyond both the terminal count and all that *)
(* was reported before.  On an account whose final is Unknown that is all  *)
(* of them.                                                                *)
NewLots(a, lots) == Max2(0, a.seen + lots - Max2(a.final, a.seen))

(* Mutant: the lots a retired order executed beyond its ack are paired but *)
(* never credited.                                                         *)
FoldFillForgetsExcess(a, lots) ==
    [ a EXCEPT
        !.seen     = @ + lots,
        !.credited = IF a.maker /\ a.final < 0 THEN @ + lots ELSE @,
        !.folded   = IF a.maker /\ a.final < 0 THEN @ + lots ELSE @ ]

(* The account after an event of `lots' accepted lots: a live maker books  *)
(* and folds them, a retired order books only the excess, a taker still    *)
(* covered by its placement credit books nothing.                          *)
FoldFill(a, lots) ==
    [ a EXCEPT
        !.seen     = @ + lots,
        !.credited = IF a.maker \/ a.final >= 0 THEN @ + NewLots(a, lots) ELSE @,
        !.folded   = IF a.maker /\ a.final < 0 THEN @ + lots ELSE @ ]

(* The lots of the event that the engine must pair on the other leg. *)
LotsToPair(a, lots) == IF a.maker THEN NewLots(a, lots) ELSE 0

-----------------------------------------------------------------------------
(* Mutants: the ack's count is credited on top of what the stream credited *)
(* already; is left to the fill stream to credit; replaces the credit, un- *)
(* booking lots when the broker contradicts its own stream downward.       *)
FinishRetireRecredits(a, executed) ==
    [ a EXCEPT !.final = Min2(executed, a.placed),
               !.credited = @ + Min2(executed, a.placed) ]

FinishRetireUncredited(a, executed) ==
    [ a EXCEPT !.final = Min2(executed, a.placed) ]

FinishRetireUnbooks(a, executed) ==
    [ a EXCEPT !.final = Min2(executed, a.placed),
               !.credited = Min2(executed, a.placed) ]

(* finishRetire: the broker's terminal count, clamped to the placed size,  *)
(* becomes final and the lots learned only from the ack are credited.      *)
FinishRetire(a, executed) ==
    LET count == Min2(executed, a.placed)
    IN  [ a EXCEPT !.final = count, !.credited = Max2(@, count) ]

(* Mutant: the caller waits for the fill stream to report the gap. *)
RetireGapIgnored(a) == 0

(* The tail of retireOrder and of tryDeferredRetire: executed lots that no *)
(* fill event has acted on, handed to the caller exactly once.             *)
RetireGap(a) == Max2(0, a.final - a.folded)

FoldGap(a) == [ a EXCEPT !.folded = Max2(@, a.final) ]

-----------------------------------------------------------------------------
(* settleTaker: the terminal count never falls below the stream's nor      *)
(* exceeds the placed size; the credit of lots that never executed is      *)
(* reversed and they are owed to the book again.                           *)
SettledCount(a, executed) == Max2(Min2(executed, a.placed), a.seen)

Shortfall(a, executed) == a.placed - SettledCount(a, executed)

(* Mutant: the credit of lots that never executed is kept. *)
SettleTakerKeepsCredit(a, executed) ==
    [ a EXCEPT !.final = SettledCount(a, executed) ]

SettleTaker(a, executed) ==
    [ a EXCEPT !.final    = SettledCount(a, executed),
               !.credited = Min2(@, SettledCount(a, executed)) ]

(* checkPendingTakers: the stream covered every placed lot. *)
ConfirmByStream(a) == [ a EXCEPT !.final = a.placed ]
=============================================================================
