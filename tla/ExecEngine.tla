----------------------------- MODULE ExecEngine -----------------------------
(***************************************************************************)
(* The execution engine with its broker.  One action per handler of the    *)
(* engine (OnState, OnBook, OnFill, OnOrderStatus, OnTick, PullIfUnwanted, *)
(* Reconcile, Halt, CancelClip), applied as a whole, and one per thing the *)
(* broker does by itself.  What the broker does between the calls of one   *)
(* handler commutes with the start or the end of that handler, which asks  *)
(* about an order once, so executions and deaths happen between handlers.  *)
(* The exception is openClip: it may ask about a leg it has placed itself, *)
(* and what that leg executed in between is part of it (UnwindFirstLeg).   *)
(*                                                                         *)
(* Clocks are abstracted: whether a retry, a poll, a timeout or a confirm  *)
(* window is due is chosen freely, as are the touch, the signal and the    *)
(* limiter's verdict.                                                      *)
(***************************************************************************)
EXTENDS ExecProcedures

CONSTANT Deciders  \* the strategies that may drive the engine

(* A strategy: the shapes its intents may name ("default" = engine-wide),   *)
(* whether it sells the pair as well as buys it, the sizes of its opening  *)
(* clips, the position cap it sizes them against, and (a bound) how many   *)
(* discretionary placements the limiter will grant it.                     *)
ASSUME DecidersAssumption ==
    /\ Deciders # {}
    /\ \A d \in Deciders :
          /\ d.modes \subseteq Mode \cup {"default"}
          /\ d.twoWay \in BOOLEAN
          /\ d.lots \subseteq Nat \ {0}
          /\ \E m \in d.lots : \A n \in d.lots : n =< m
          /\ d.cap \in Nat /\ d.moves \in Nat

VARIABLES
    decider,   \* the strategy at hand
    own,       \* Engine.own: order id -> account, for ids the engine tracks
    pending,   \* Engine.pending: takers placed and not yet confirmed
    clip,      \* Engine.clip, or Idle
    sink,      \* the fill sink: signed lots credited per leg
    book,      \* lots committed to the Decider
    rec,       \* the recovery machine
    orders,    \* the broker's orders; an order's id is its index
    faults,    \* broker faults still to come
    moves      \* discretionary placements still to come

vars == <<decider, own, pending, clip, sink, book, rec, orders, faults, moves>>

(* The state the procedures work on, and the step to one of its outcomes. *)
Now == [ own |-> own, pending |-> pending, clip |-> clip, sink |-> sink,
         book |-> book, rec |-> rec, orders |-> orders, faults |-> faults,
         moves |-> moves ]

Become(s) ==
    /\ own' = s.own /\ pending' = s.pending /\ clip' = s.clip
    /\ sink' = s.sink /\ book' = s.book /\ rec' = s.rec
    /\ orders' = s.orders /\ faults' = s.faults /\ moves' = s.moves
    /\ UNCHANGED decider

EngineStep(outcomes) == \E s \in outcomes : Become(s)

BrokerStep(s) == Become(s)

Ids == DOMAIN orders

Init ==
    /\ decider \in Deciders
    /\ own = <<>> /\ orders = <<>>
    /\ pending = {}
    /\ clip = Idle
    /\ sink = [leg \in Leg |-> 0]
    /\ book = 0
    /\ rec = NewMachine
    /\ faults = MaxFaults
    /\ moves = decider.moves

-----------------------------------------------------------------------------
(* The broker, by itself. *)

BrokerFill(id, n) ==
    LET o == orders[id] IN
    /\ o.live
    /\ o.exec + n =< o.size
    /\ BrokerStep(Execute(Now, id, n))

BrokerKill(id) ==
    /\ orders[id].live
    /\ Fault(Now, "kill")
    /\ BrokerStep([Now EXCEPT !.orders[id].live = FALSE, !.faults = @ - 1])

-----------------------------------------------------------------------------
(* The streams. *)

DeliverFill(id, n) ==
    /\ orders[id].sent + n =< orders[id].exec
    /\ EngineStep(OnFill([Now EXCEPT !.orders[id].sent = @ + n], id, n))

RedeliverFill(id, n) ==
    /\ n =< orders[id].sent
    /\ Fault(Now, "dup")
    /\ EngineStep(OnFill([Now EXCEPT !.faults = @ - 1], id, n))

(* IsDeadStatus: an order that ended short of its size. *)
DeliverDead(id) ==
    /\ ~orders[id].live /\ orders[id].exec < orders[id].size
    /\ ~orders[id].told
    /\ EngineStep(OnOrderStatus([Now EXCEPT !.orders[id].told = TRUE], id))

-----------------------------------------------------------------------------
(* The runner's calls. *)

(* What the Decider may want: to open, within its position cap, to close   *)
(* what it holds, or nothing.                                              *)
MaxLots == Max(decider.lots)

Hold == [dir |-> 0, close |-> FALSE, lots |-> 0, mode |-> "default"]

Wanted(s) ==
    LET pos == Position(s) IN
    { i \in [ dir : {-1, 1}, close : BOOLEAN, lots : 1..MaxLots,
              mode : decider.modes ] :
        IF i.close THEN i.dir * pos < 0 /\ i.lots =< Max2(pos, -pos)
        ELSE /\ i.dir \in (IF decider.twoWay THEN {-1, 1} ELSE {1}) /\ i.dir * pos >= 0
             /\ i.lots \in decider.lots /\ i.lots =< decider.cap - Max2(pos, -pos) }
    \cup {Hold}

Decide(s, intent) ==
    CASE s.rec.impaired -> {s}
      [] ~s.rec.impaired /\ s.clip # Idle ->
            IF intent.dir = s.clip.dir /\ ClipExecMode(intent) = s.clip.mode
            THEN {s} ELSE ResolveClip(s)
      [] ~s.rec.impaired /\ s.clip = Idle ->
            IF InDoubt(s.rec) \/ AwaitingTaker(s) \/ intent = Hold
            THEN {s} ELSE TryOpenClip(s, intent)

OnState(due, probe) ==
    /\ ~rec.halted
    /\ LET ready == After(ServiceImpaired(Now, due),
                          LAMBDA s : CheckPendingTakers(s, probe))
       IN  EngineStep(UNION { UNION {Decide(s, i) : i \in Wanted(s)} : s \in ready })

(* A backtest or basis runner only: a lot book would lose a partial. *)
PullIfUnwanted ==
    /\ ~LotBook
    /\ clip # Idle
    /\ EngineStep(CancelClip(Now))

OnBook(leg, due, behind) ==
    EngineStep(After(ServiceImpaired(Now, due),
                     LAMBDA s : IF behind /\ Repeggable(s, leg)
                                THEN RepegLeg(s, leg) ELSE {s}))

(* `expired': a book is stale or the fill timeout has passed. *)
OnTick(due, probe, expired) ==
    LET checked == After(ServiceImpaired(Now, due),
                         LAMBDA s : CheckPendingTakers(s, probe))
    IN  EngineStep(IF expired THEN After(checked, ResolveClip) ELSE checked)

(* A taker's confirm window elapses. *)
TakerLate(id) ==
    /\ id \in pending
    /\ ~own[id].overdue
    /\ BrokerStep([Now EXCEPT !.own[id].overdue = TRUE])

(* The signed sum of a count over the elements of q, orders or debts, that *)
(* are on a leg.                                                           *)
SumOnLeg(q, leg, Count(_)) ==
    LET sum[i \in 0..Len(q)] ==
            IF i = 0 THEN 0
            ELSE sum[i - 1] + (IF q[i].leg = leg THEN Sign(q[i].buy) * Count(i) ELSE 0)
    IN  sum[Len(q)]

(* The account's position on a leg, untracked orders included. *)
Real(leg) == SumOnLeg(orders, leg, LAMBDA id : orders[id].exec)

Reconcile ==
    /\ ~rec.halted /\ ~rec.impaired /\ clip = Idle
    /\ rec' = IF /\ Real("A") = Position(Now)
                 /\ Real("B") = -HedgeLots("B", Position(Now))
              THEN CleanPass(rec) ELSE MarkSuspect(rec)
    /\ UNCHANGED <<decider, own, pending, clip, sink, book, orders, faults, moves>>

(* The kill-switch, tripped by an operator or the runner. *)
HaltEngine ==
    /\ MayHalt /\ ~rec.halted
    /\ EngineStep(CancelClip([Now EXCEPT !.rec = Halt(@)]))

(* A shutdown path pulls the resting orders. *)
Shutdown ==
    /\ MayShutdown /\ clip # Idle
    /\ EngineStep(CancelClip(Now))

Next ==
    \/ \E id \in Ids, n \in 1..(MaxLots * HedgeRatio) :
          BrokerFill(id, n) \/ DeliverFill(id, n) \/ RedeliverFill(id, n)
    \/ \E id \in Ids : BrokerKill(id) \/ DeliverDead(id) \/ TakerLate(id)
    \/ \E due, probe \in BOOLEAN :
          OnState(due, probe) \/ OnTick(due, probe, FALSE) \/ OnTick(due, probe, TRUE)
    \/ \E leg \in Leg, due, behind \in BOOLEAN : OnBook(leg, due, behind)
    \/ PullIfUnwanted \/ Reconcile \/ HaltEngine \/ Shutdown

Spec == Init /\ [][Next]_vars

(* The runner ticks for ever, and every so often a retry and a poll are    *)
(* due; time passes a taker's confirm window; an order sent to cross the   *)
(* book is executed, unless it was killed.  Nothing is assumed of makers,  *)
(* signals or books, nor of the order stream, which forgets the orders     *)
(* that die while it reconnects (SubscribeOrders replays active ones).     *)
Fairness ==
    /\ WF_vars(OnTick(TRUE, TRUE, FALSE))
    /\ WF_vars(\E id \in pending : TakerLate(id))
    /\ WF_vars(\E id \in pending, n \in 1..(MaxLots * HedgeRatio) : BrokerFill(id, n))

(* The trade stream delivers what happened; the fill timeout is enabled    *)
(* and passes.                                                             *)
StreamDelivers ==
    WF_vars(\E id \in Ids, n \in 1..(MaxLots * HedgeRatio) : DeliverFill(id, n))
TimeoutFires == WF_vars(OnTick(TRUE, TRUE, TRUE))

LiveSpec == Spec /\ Fairness
-----------------------------------------------------------------------------
OrderType == [ leg : Leg, buy : BOOLEAN, size : Nat, exec : Nat, sent : Nat,
               live : BOOLEAN, told : BOOLEAN ]

TypeOK ==
    /\ \A id \in Ids : orders[id] \in OrderType
    /\ DOMAIN own \subseteq Ids
    /\ \A id \in DOMAIN own : own[id] \in AcctUpTo(orders[id].size)
    /\ pending \subseteq DOMAIN own
    /\ {clip.A, clip.B, clip.maker} \subseteq DOMAIN own \cup {0}
    /\ clip.dir \in {-1, 0, 1} /\ clip.filled \in 0..clip.target
    /\ sink \in [Leg -> Int] /\ book \in Int
    /\ rec.streak \in 0..TakerDeadLimit
    /\ faults \in 0..MaxFaults /\ moves \in 0..decider.moves
    /\ decider \in Deciders

(* Lots of hedges the engine still owes on a leg. *)
Owed(leg) ==
    SumOnLeg(rec.debts, leg, LAMBDA i : rec.debts[i].lots)

(* The pair is hedged after every handler: unless the kill-switch froze    *)
(* it, the lots credited to the two legs, with the hedges owed, balance to *)
(* the lot at the hedge ratio, whatever was rejected, lost or killed on    *)
(* the way (OnFill, settleClip, settleTaker, tryDeferredRetire, ...).      *)
LedgerBalanced ==
    ~rec.halted =>
        HedgeRatio * (sink["A"] + Owed("A")) + sink["B"] + Owed("B") = 0

(* Every order whose outcome is unknown has an owner that will ask about   *)
(* it: a maker is a leg of the working clip or queued for retirement, a    *)
(* taker is pending; and queued obligations keep the engine impaired, so   *)
(* that they are retried (engine.go:434, deferRetire).                     *)
NothingForgotten ==
    /\ \A id \in DOMAIN own : own[id].final < 0 =>
          CASE ~own[id].maker -> id \in pending
            [] own[id].maker /\ own[id].deferred ->
                  \E i \in DOMAIN rec.retireQ : rec.retireQ[i] = id
            [] own[id].maker /\ ~own[id].deferred -> id \in {clip.A, clip.B}
    /\ rec.retireQ # <<>> \/ rec.debts # <<>> => rec.impaired \/ rec.halted

(* Every tracked order's terminal count is known, nothing is untracked and *)
(* no early ack leaves fills to come.                                      *)
Settled ==
    /\ DOMAIN own = Ids
    /\ \A id \in Ids :
          /\ own[id].final >= 0
          /\ ~orders[id].live
          /\ "async" \in FaultKinds => orders[id].sent = orders[id].exec

(* Once every order is settled the ledger is the broker's position, even   *)
(* with fill events still under way, and once the debts are paid that      *)
(* position is hedged at the ratio.                                        *)
SettledTruth ==
    Settled => /\ \A leg \in Leg : sink[leg] = Real(leg)
               /\ ~rec.halted /\ rec.debts = <<>>
                     => HedgeRatio * Real("A") + Real("B") = 0

(* The strategy's cap holds at the broker, counting the takers that await  *)
(* confirmation as executed, as the Decider does: racing fills on both     *)
(* legs, late events, re-pegs and completions never take either leg past   *)
(* the cap the Decider sized its clips against (OnFill: "never doubling"). *)
Committed(leg) ==
    SumOnLeg(orders, leg, LAMBDA id :
                IF id \in pending THEN own[id].placed ELSE orders[id].exec)

WithinCap ==
    \A leg \in Leg :
       Committed(leg) \in -HedgeLots(leg, decider.cap)..HedgeLots(leg, decider.cap)

(* The ledger differs from the broker's position by the takers still       *)
(* inside their confirm window and by nothing else.                        *)
LedgerTrue ==
    \A leg \in Leg :
       sink[leg] - SumOnLeg(orders, leg, LAMBDA id :
                               IF id \in pending /\ ~own[id].overdue
                               THEN own[id].placed - orders[id].exec ELSE 0)
          = Real(leg)

(* A new clip is sized on a position backed by data: whatever cancels, dead *)
(* takers and stalled streams came before, the ledger is true when a clip  *)
(* opens (OnState's gates, finishRetire).                                  *)
OpensOnTruth == [][clip = Idle /\ clip' # Idle => LedgerTrue']_vars

(* The kill-switch is absolute: whatever handler runs on a halted engine,  *)
(* whatever obligation it resolves, it places no order (takerRetry,        *)
(* repegLeg, tryDeferredRetire, settleTaker, Halt's own CancelClip).       *)
HaltAbsolute == [][rec.halted => Len(orders') = Len(orders)]_vars

(* The account is never left naked: whatever legs fill first, whichever    *)
(* hedge is rejected, lost or killed, the broker's position comes back to  *)
(* the hedge ratio, if the fill timeout fires or if the trade stream       *)
(* delivers: either is enough (OnFill, checkTimeout, checkPendingTakers,   *)
(* serviceImpaired).                                                       *)
EventuallyHedged ==
    StreamDelivers \/ TimeoutFires => <>[](HedgeRatio * Real("A") + Real("B") = 0)

(* The engine recovers on its own: every queued retire is answered and     *)
(* every debt paid (serviceImpaired; retireOrder: "the obligation loop     *)
(* re-asks until the broker answers").                                     *)
ObligationsMet == rec.retireQ # <<>> \/ rec.debts # <<>>
                      ~> rec.retireQ = <<>> /\ rec.debts = <<>>

(* A lot-book Decider commits exactly the lots the pair realised: with the *)
(* engine idle and everything settled its book is the ledger's position.   *)
BookMatches == LotBook /\ clip = Idle /\ Settled => book = sink["A"]
=============================================================================
