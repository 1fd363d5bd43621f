---------------------------- MODULE OrderAccount ----------------------------
(***************************************************************************)
(* One order of the engine from placement to its last event: the account   *)
(* the engine keeps (OrderRegistry) against the order the broker keeps.    *)
(*                                                                         *)
(* The broker executes the order in pieces and reports them on the trade   *)
(* stream, later, in any grouping; it may kill the order; a cancel may be  *)
(* answered, answered while the order still rests (PENDING_CANCEL, which   *)
(* finamMaker.Cancel does not tell from CANCELED), lost before it takes    *)
(* effect, or lost after.  An event may be delivered again past the        *)
(* runner's trade-id dedup (an empty trade id has no dedup key).  The      *)
(* history variables say which of these happened.                          *)
(***************************************************************************)
EXTENDS OrderRegistry

CONSTANT MaxLots   \* the largest order size

ASSUME MaxLotsAssumption == MaxLots \in Nat \ {0}

VARIABLES
    acct,      \* the engine's account of the order
    exec,      \* lots the broker has executed
    unsent,    \* executed lots whose fill event is still under way
    live,      \* the order can still execute
    acted,     \* lots of the order the engine paired on the other leg
    rehedged,  \* lots of a dead taker the engine hedged again
    repeated,  \* history: a fill event slipped past the trade-id dedup
    early      \* history: the cancel was acknowledged ahead of its effect

history == <<repeated, early>>
vars == <<acct, exec, unsent, live, acted, rehedged, repeated, early>>

Init ==
    /\ \E leg \in Leg, buy \in BOOLEAN, lots \in 1..MaxLots :
          acct \in {NewMaker(leg, buy, lots), NewTaker(leg, buy, lots)}
    /\ exec = 0 /\ unsent = 0 /\ live = TRUE
    /\ acted = 0 /\ rehedged = 0
    /\ repeated = FALSE /\ early = FALSE

-----------------------------------------------------------------------------
(* The broker. *)

Execute(n) ==
    /\ live
    /\ exec + n =< acct.placed
    /\ exec' = exec + n
    /\ unsent' = unsent + n
    /\ live' = (exec + n < acct.placed)
    /\ UNCHANGED <<acct, acted, rehedged, history>>

Die ==
    /\ live
    /\ live' = FALSE
    /\ UNCHANGED <<acct, exec, unsent, acted, rehedged, history>>

-----------------------------------------------------------------------------
(* Engine.OnFill. *)

FillEvent(n) ==
    LET lots == AcceptedLots(acct, n)
    IN  IF lots > 0
        THEN /\ acct' = FoldFill(acct, lots)
             /\ acted' = acted + LotsToPair(acct, lots)
        ELSE UNCHANGED <<acct, acted>>

DeliverFill(n) ==
    /\ n =< unsent
    /\ unsent' = unsent - n
    /\ FillEvent(n)
    /\ UNCHANGED <<exec, live, rehedged, history>>

RedeliverFill(n) ==
    /\ n =< exec - unsent
    /\ FillEvent(n)
    /\ repeated' = TRUE
    /\ UNCHANGED <<exec, unsent, live, rehedged, early>>

-----------------------------------------------------------------------------
(* Retiring a maker: retireOrder, then tryDeferredRetire until the broker  *)
(* answers.  A cancel of a resting order that is answered ends the order,  *)
(* or leaves it resting (early); the count of a dead order is read   *)
(* from Status.                                                            *)

CanRetire == acct.maker /\ acct.final < 0

RetireAnswered ==
    /\ CanRetire
    /\ live' \in {FALSE, live}
    /\ early' = live'
    /\ LET a == FinishRetire(acct, exec)
       IN  /\ acct' = [FoldGap(a) EXCEPT !.deferred = FALSE]
           /\ acted' = acted + RetireGap(a)
    /\ UNCHANGED <<exec, unsent, rehedged, repeated>>

RetireUnanswered ==
    /\ CanRetire
    /\ live' \in {FALSE, live}
    /\ acct' = [acct EXCEPT !.deferred = TRUE]
    /\ UNCHANGED <<exec, unsent, acted, rehedged, history>>

-----------------------------------------------------------------------------
(* Confirming a taker: confirmDeadTaker and checkPendingTakers. *)

Unsettled == ~acct.maker /\ acct.final < 0

SettleDeadTaker ==
    /\ Unsettled
    /\ acct.seen < acct.placed
    /\ ~live
    /\ acct' = SettleTaker(acct, exec)
    /\ rehedged' = rehedged + Shortfall(acct, exec)
    /\ UNCHANGED <<exec, unsent, live, acted, history>>

TakerOverdue ==
    /\ Unsettled
    /\ acct.seen < acct.placed
    /\ acct' = [acct EXCEPT !.overdue = TRUE]
    /\ UNCHANGED <<exec, unsent, live, acted, rehedged, history>>

ConfirmTaker ==
    /\ Unsettled
    /\ acct.seen >= acct.placed
    /\ acct' = ConfirmByStream(acct)
    /\ UNCHANGED <<exec, unsent, live, acted, rehedged, history>>

Next ==
    \/ \E n \in 1..MaxLots : Execute(n) \/ DeliverFill(n) \/ RedeliverFill(n)
    \/ Die
    \/ RetireAnswered \/ RetireUnanswered
    \/ SettleDeadTaker \/ TakerOverdue \/ ConfirmTaker

Spec == Init /\ [][Next]_vars

-----------------------------------------------------------------------------
TypeOK ==
    /\ acct \in AcctUpTo(MaxLots)
    /\ exec \in 0..MaxLots
    /\ unsent \in 0..MaxLots
    /\ live \in BOOLEAN
    /\ acted \in 0..MaxLots
    /\ rehedged \in 0..MaxLots
    /\ repeated \in BOOLEAN /\ early \in BOOLEAN

(* Hedging and booking never drift apart and never exceed the order: the   *)
(* lots a maker's account credited to the sink are exactly the lots the    *)
(* engine paired, whatever mixture of fill events, duplicates, late acks   *)
(* and stale acks they were learned from, and no more than the order was   *)
(* placed for (Engine.OnFill, finishRetire).                               *)
CreditMirrorsHedge ==
    acct.maker => /\ acct.credited = acted
                  /\ acted =< acct.placed

(* A fill the stream has delivered is never lost and never counted twice:  *)
(* with each event delivered once, the booked lots of a maker never exceed *)
(* the executed ones and are equal to them whenever no event is under way, *)
(* even when the ack that retired the order carried a count that was       *)
(* already out of date (OnFill's excess branch).                           *)
StreamExact ==
    ~repeated /\ acct.maker => /\ acted =< exec
                                /\ (unsent = 0 => acted = exec)

(* The booked position does not wait for a stalled stream: once a cancel   *)
(* has really ended a maker order, everything it executed is booked,       *)
(* however many of its fill events are still under way (finishRetire).     *)
RetireExact ==
    ~repeated /\ ~early /\ acct.maker /\ acct.final >= 0
        => acted = exec

(* A settled taker leaves no phantom hedge: what stays credited is what it *)
(* executed, and the rest of its size has been hedged again (settleTaker). *)
TakerExact ==
    ~repeated /\ ~acct.maker /\ acct.final >= 0
        => /\ acct.credited = exec
           /\ acct.credited + rehedged = acct.placed

-----------------------------------------------------------------------------
(* The abstract ledger the account of a maker implements.  A taker's       *)
(* credit runs ahead of its executions by design, so it books nothing here. *)
Ledger == INSTANCE OrderLedger WITH
              size <- acct.placed,
              booked <- IF acct.maker THEN acct.credited ELSE 0

(* Each step of the account is a step of the abstract ledger or leaves it  *)
(* alone: executed lots are booked once, never ahead of execution and      *)
(* never un-booked, and a repeating stream cannot book past the order.     *)
ImplementsLedger == Ledger!Spec
=============================================================================
