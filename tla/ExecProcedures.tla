--------------------------- MODULE ExecProcedures ---------------------------
(***************************************************************************)
(* strategies/execengine: the procedures of the engine that works a        *)
(* two-leg pair, one clip at a time, against a broker that fills, delays,  *)
(* rejects, forgets and kills orders.                                      *)
(*                                                                         *)
(* The engine runs on one goroutine, so a handler is one atomic step; the  *)
(* answers its broker calls get are chosen inside it.  A procedure is      *)
(* therefore an operator from a state to the SET of states it can end in,  *)
(* one per combination of those answers (or, where it returns a value, of  *)
(* records that carry the state as st).  A state is a record of the        *)
(* variables of ExecEngine.                                                *)
(***************************************************************************)
EXTENDS OrderRegistry, RecoveryMachine, FiniteSets, FiniteSetsExt, SequencesExt

CONSTANTS
    DefaultMode,    \* SoloMakerLeg / TakerOnly: the engine-wide clip shape
    HedgeRatio,     \* LegB contracts that hedge one LegA contract
    KeepPartial,    \* KeepPartialOpenOnTimeout
    ForceClose,     \* ForceCloseOnTimeout
    HedgeRetries,   \* attempts at a taker before it becomes a debt
    LotStep,        \* RejectRetryLotStep, 0 disables the ladder
    MinLots,        \* RejectRetryMinLots
    LotBook,        \* the Decider books committed lots (spread) instead of
                    \* deriving its position from the fill ledger (basis)
    MayHalt,        \* may an operator trip the kill-switch?
    MayShutdown,    \* may a shutdown path pull the working clip?
    FaultKinds,     \* what the broker may get wrong, see Fault
    MaxFaults       \* bound: how often it may

Mode == {"dual", "solo", "soloB", "taker"}

ASSUME ModeAssumption ==
    /\ DefaultMode \in Mode
    /\ HedgeRatio \in Nat \ {0}
    /\ HedgeRatio > 1 => DefaultMode \in {"solo", "taker"} \* else NewEngine halts
ASSUME ConfigAssumption ==
    /\ {KeepPartial, ForceClose, LotBook, MayHalt, MayShutdown} \subseteq BOOLEAN
    /\ HedgeRetries \in Nat \ {0}
    /\ LotStep \in Nat /\ MinLots \in Nat \ {0}
    /\ MaxFaults \in Nat

Other(leg) == IF leg = "A" THEN "B" ELSE "A"
Sign(buy) == IF buy THEN 1 ELSE -1

(* The outcomes of F from every state of S. *)
After(S, F(_)) == UNION {F(s) : s \in S}

(* The outcomes of a loop that makes Step(_, 1), ..., Step(_, n) in turn    *)
(* from every outcome of S.                                                *)
Loop(n, S, Step(_, _)) ==
    LET it[i \in 0..n] == IF i = 0 THEN S ELSE UNION {Step(o, i) : o \in it[i - 1]}
    IN  it[n]

-----------------------------------------------------------------------------
(* Clips (types.go).  Order id 0 is the code's empty id: no resting order  *)
(* on that leg, no maker designated yet.                                   *)

Idle == [ dir |-> 0, close |-> FALSE, lots |-> 0, target |-> 0,
          mode |-> "dual", A |-> 0, B |-> 0, maker |-> 0, filled |-> 0 ]

(* Leg A is bid when the clip buys the pair, leg B when it sells it. *)
LegBuys(dir, leg) == IF leg = "A" THEN dir > 0 ELSE dir < 0

(* hedgeLots: a count in LegA lots, in the contracts of leg. *)
HedgeLots(leg, lots) == IF leg = "B" THEN lots * HedgeRatio ELSE lots

(* clipExecMode: LegB never rests at a hedge ratio. *)
ClipExecMode(intent) ==
    LET mode == IF intent.mode = "default" THEN DefaultMode ELSE intent.mode
    IN  IF mode \in {"dual", "soloB"} /\ HedgeRatio > 1 THEN "solo" ELSE mode

(* The position the Decider reports. *)
Position(s) == IF LotBook THEN s.book ELSE s.sink["A"]

-----------------------------------------------------------------------------
(* State updates every procedure is built from. *)

(* An account changes; its credit and the sink move together. *)
SetAcct(s, id, a) ==
    [ s EXCEPT !.own[id] = a,
               !.sink[a.leg] = @ + Sign(a.buy) * (a.credited - s.own[id].credited) ]

(* A new account is opened, its placement credit handed to the sink. *)
Track(s, id, a) ==
    [ s EXCEPT !.own = [ i \in DOMAIN s.own \cup {id} |->
                            IF i = id THEN a ELSE s.own[i] ],
               !.sink[a.leg] = @ + Sign(a.buy) * a.credited ]

DropClip(s) == [s EXCEPT !.clip = Idle]

-----------------------------------------------------------------------------
(* The broker's answers.                                                   *)
(*   "reject"  a placement is definitively refused                         *)
(*   "silent"  a call gets no answer, having taken effect or not           *)
(*   "ghost"   a placement fails for the engine but the order rests; the   *)
(*             error may claim that it was refused (Placer)                *)
(*   "blind"   a placement succeeds with an empty order id                 *)
(*   "async"   a cancel is acknowledged while the order still rests        *)
(*   "kill"    the broker ends an order short of its size                  *)
(*   "dup"     a fill event is delivered again past the trade-id dedup     *)

Fault(s, kind) == kind \in FaultKinds /\ s.faults > 0

Faulty(s, kind, outcomes) ==
    IF Fault(s, kind)
    THEN {[o EXCEPT !.st.faults = @ - 1] : o \in outcomes} ELSE {}

AddOrder(s, leg, buy, lots) ==
    [ s EXCEPT !.orders = Append(@, [ leg |-> leg, buy |-> buy, size |-> lots,
                                      exec |-> 0, sent |-> 0, live |-> TRUE,
                                      told |-> FALSE ]) ]

(* The broker executes n lots of an order; a filled one is over. *)
Execute(s, id, n) ==
    [s EXCEPT !.orders[id].exec = @ + n,
              !.orders[id].live = s.orders[id].exec + n < s.orders[id].size]

(* What it may have made of a resting order while a later call was made. *)
Meanwhile(s, id) ==
    LET o == s.orders[id] IN
    {s} \cup (IF o.live THEN {Execute(s, id, n) : n \in 1..(o.size - o.exec)} ELSE {})

(* Cancel, Cancel again, Status: either the broker names the order's       *)
(* executed count, which ends it, or nothing is learned, and a lost cancel *)
(* may or may not have ended it.                                           *)
AskTerminal(s, id) ==
    LET ended == [s EXCEPT !.orders[id].live = FALSE]
        Out(st, answered) == [st |-> st, answered |-> answered]
    IN  {Out(ended, TRUE)}
        \cup (IF s.orders[id].live THEN Faulty(s, "async", {Out(s, TRUE)}) ELSE {})
        \cup Faulty(s, "silent", {Out(s, FALSE), Out(ended, FALSE)})

(* placeLeg: the account of an accepted order, or an error; an empty id    *)
(* is an error that may have left an order resting.                        *)
PlaceMaker(s, leg, buy, lots) ==
    LET placed == AddOrder(s, leg, buy, lots)
        id == Len(placed.orders)
        Out(st, res) == [st |-> st, res |-> res, id |-> id]
    IN  {Out(Track(placed, id, NewMaker(leg, buy, lots)), "ok")}
        \cup Faulty(s, "reject", {Out(s, "reject")})
        \cup Faulty(s, "silent", {Out(s, "maybe")})
        \cup Faulty(s, "ghost", {Out(placed, "maybe"), Out(placed, "reject")})
        \cup Faulty(s, "blind",
                    {Out([placed EXCEPT !.rec = MarkUnverified(@)], "maybe")})

(* tryPlaceTaker = placeTakerRPC + commitTakerPlacement: an accepted taker *)
(* is credited at once and awaits confirmation; with an empty id it is     *)
(* credited blind and cannot be tracked.                                   *)
PlaceTaker(s, leg, buy, lots) ==
    LET placed == AddOrder(s, leg, buy, lots)
        id == Len(placed.orders)
        Out(st, res) == [st |-> st, res |-> res]
    IN  {Out([Track(placed, id, NewTaker(leg, buy, lots))
                 EXCEPT !.pending = @ \cup {id}], "ok")}
        \cup Faulty(s, "reject", {Out(s, "reject")})
        \cup Faulty(s, "silent", {Out(s, "maybe")})
        \cup Faulty(s, "ghost", {Out(placed, "maybe"), Out(placed, "reject")})
        \cup Faulty(s, "blind",
                    {Out([placed EXCEPT !.rec = MarkUnverified(@),
                                        !.sink[leg] = @ + Sign(buy) * lots], "ok")})

-----------------------------------------------------------------------------
(* Taker hedging (engine_hedge.go). *)

(* Mutant: a hedge that was refused often enough is given up. *)
OweHedgeForgotten(s, leg, buy, lots) == s

OweHedge(s, leg, buy, lots) == [s EXCEPT !.rec = DeferHedge(@, leg, buy, lots)]

(* takerRetryPlain: attempts at the same size, then a debt. *)
TakerRetryPlain(s, leg, buy, lots, from) ==
    LET Attempt(o, i) ==
            IF o.res = "ok" THEN {o} ELSE PlaceTaker(o.st, leg, buy, lots)
    IN  { IF o.res = "ok" THEN o.st ELSE OweHedge(o.st, leg, buy, lots) :
             o \in Loop(HedgeRetries - from, {[st |-> s, res |-> "maybe"]}, Attempt) }

(* shrinkTakerChase: installments, each definitive rejection shrinking the *)
(* next; an ambiguous failure ends the ladder.  A rung either places       *)
(* `size' lots or lowers `size', so 2 * lots rungs exhaust it.             *)
ShrinkTakerChase(s, leg, buy, lots) ==
    LET Rung(o, i) ==
            IF o.done \/ o.size < MinLots \/ o.size <= 0 THEN {o}
            ELSE { CASE p.res = "ok" ->
                          [ st |-> p.st, left |-> o.left - o.size,
                            size |-> Min2(o.size, o.left - o.size),
                            done |-> o.left = o.size ]
                     [] p.res = "maybe" -> [o EXCEPT !.st = p.st, !.done = TRUE]
                     [] OTHER -> [o EXCEPT !.st = p.st, !.size = @ - LotStep] :
                   p \in PlaceTaker(o.st, leg, buy, o.size) }
    IN  Loop(2 * lots, {[st |-> s, left |-> lots, size |-> lots, done |-> FALSE]}, Rung)

TakerRetryFrom(s, leg, buy, lots, from) ==
    IF LotStep = 0 THEN TakerRetryPlain(s, leg, buy, lots, from)
    ELSE UNION { IF o.left = 0 THEN {o.st}
                 ELSE TakerRetryPlain(o.st, leg, buy, o.left, from) :
                 o \in ShrinkTakerChase(s, leg, buy, lots) }

(* Mutant: a halted engine still crosses the book. *)
TakerRetryAlways(s, leg, buy, lots) == TakerRetryFrom(s, leg, buy, lots, 0)

(* takerRetry: the kill-switch is absolute. *)
TakerRetry(s, leg, buy, lots) ==
    IF s.rec.halted THEN {s} ELSE TakerRetryFrom(s, leg, buy, lots, 0)

TopUp(s, leg, buy, lots) ==
    IF lots > 0 THEN TakerRetry(s, leg, buy, lots) ELSE {s}

(* Mutant: the stray lots are hedged one for one at a hedge ratio. *)
HedgeStrayUnscaled(s, leg, buy, lots) ==
    IF leg = "B" /\ HedgeRatio > 1 THEN {s}
    ELSE TopUp(s, Other(leg), ~buy, lots)

(* hedgeStrayMakerFill: the other leg is crossed, except for a LegB count  *)
(* that has no whole-lot answer.                                           *)
HedgeStrayMakerFill(s, leg, buy, lots) ==
    IF leg = "B" /\ HedgeRatio > 1 THEN {s}
    ELSE TopUp(s, Other(leg), ~buy, HedgeLots(Other(leg), lots))

(* Mutant: the dead taker's credit is reversed, its lots never re-hedged. *)
SettleTakerNaked(s, id) ==
    {[ SetAcct(s, id, SettleTaker(s.own[id], s.orders[id].exec))
         EXCEPT !.pending = @ \ {id} ]}

(* settleTaker: a dead-short taker is hedged again at once, and from the   *)
(* third in a row on as a debt.                                            *)
SettleTakerAt(s, id) ==
    LET a == s.own[id]
        short == Shortfall(a, s.orders[id].exec)
        t == [ SetAcct(s, id, SettleTaker(a, s.orders[id].exec))
                 EXCEPT !.pending = @ \ {id},
                        !.rec = IF short > 0 THEN IncrementDeadStreak(@)
                                ELSE ResetDeadStreak(@) ]
    IN  IF short > 0 /\ t.rec.streak >= TakerDeadLimit
        THEN {OweHedge(t, a.leg, a.buy, short)}
        ELSE TopUp(t, a.leg, a.buy, short)

(* One taker of checkPendingTakers, see Resolvable for when. *)
CheckTaker(s, id) ==
    LET a == s.own[id] IN
    IF a.seen >= a.placed
    THEN {[ SetAcct(s, id, ConfirmByStream(a))
              EXCEPT !.pending = @ \ {id}, !.rec = ResetDeadStreak(@) ]}
    ELSE SettleTakerAt(s, id)
         \cup {o.st : o \in Faulty(s, "silent", {[st |-> s]})}

(* The takers a pass changes: the stream covered every lot, or the broker  *)
(* can say that the order is dead (`probe': the poll throttle of overdue   *)
(* takers has elapsed).                                                    *)
Resolvable(s, probe) ==
    { id \in s.pending :
        LET a == s.own[id] IN
        a.seen >= a.placed \/ (probe /\ a.overdue /\ ~s.orders[id].live) }

(* checkPendingTakers: the pending set is a Go map, visited in any order;  *)
(* a halted engine settles at most one taker in a pass.                    *)
CheckPendingTakers(s, probe) ==
    LET Visit(o, id) ==
            IF o.stop THEN {o}
            ELSE { [ st |-> t,
                     stop |-> /\ t.rec.halted /\ t.own[id].final >= 0
                              /\ t.own[id].seen < t.own[id].placed ] :
                   t \in CheckTaker(o.st, id) }
        Pass(q) == Loop(Len(q), {[st |-> s, stop |-> FALSE]},
                        LAMBDA o, i : Visit(o, q[i]))
    IN  {o.st : o \in UNION {Pass(q) : q \in SetToSeqs(Resolvable(s, probe))}}

(* Mutant: an overdue taker does not hold back the next clip. *)
AwaitingTakerNever(s) == FALSE

AwaitingTaker(s) ==
    \E id \in s.pending : s.own[id].overdue /\ ~Confirmed(s.own[id])

-----------------------------------------------------------------------------
(* Retiring orders (engine_orders.go, engine_recovery.go). *)

(* retireOrder: the gap is what no fill event has acted on; an unanswered  *)
(* retire is queued and counts nothing.                                    *)
RetireOrder(s, id) ==
    IF id \notin DOMAIN s.own \/ (id \in DOMAIN s.own /\ s.own[id].deferred)
    THEN {[st |-> s, gap |-> 0]}
    ELSE IF s.own[id].final >= 0
    THEN {[ st |-> SetAcct(s, id, FoldGap(s.own[id])), gap |-> RetireGap(s.own[id]) ]}
    ELSE { IF o.answered
           THEN LET a == FinishRetire(o.st.own[id], o.st.orders[id].exec)
                IN  [st |-> SetAcct(o.st, id, FoldGap(a)), gap |-> RetireGap(a)]
           ELSE [ st |-> [o.st EXCEPT !.own[id].deferred = TRUE,
                                      !.rec = QueueRetire(@, id)], gap |-> 0 ] :
           o \in AskTerminal(s, id) }

(* tryDeferredRetire: whatever a late answer reveals is pair-hedged. *)
TryDeferredRetire(s, id) ==
    LET Settle(t, a) ==
            { [st |-> u, done |-> TRUE] :
                u \in HedgeStrayMakerFill(
                          SetAcct(t, id, [FoldGap(a) EXCEPT !.deferred = FALSE]),
                          a.leg, a.buy, RetireGap(a)) }
    IN  IF s.own[id].final >= 0 THEN Settle(s, s.own[id])
        ELSE UNION { IF o.answered
                     THEN Settle(o.st, FinishRetire(s.own[id], s.orders[id].exec))
                     ELSE {[st |-> o.st, done |-> FALSE]} : o \in AskTerminal(s, id) }

-----------------------------------------------------------------------------
(* Clip lifecycle (engine_clip.go). *)

(* settleClip: retire both legs and top both up to the larger one, and to  *)
(* the target when completing.                                             *)
SettleClip(s, realA, realB, complete) ==
    LET c == s.clip
        Balance(t, a, b) ==
            LET want == Max2(Max2(a, b), IF complete THEN c.target ELSE 0)
            IN  After(TopUp(t, "A", LegBuys(c.dir, "A"), want - a),
                      LAMBDA u : TopUp(u, "B", LegBuys(c.dir, "B"),
                                       HedgeLots("B", want - b)))
    IN  UNION { UNION { Balance(rb.st, realA + ra.gap, realB + rb.gap) :
                        rb \in RetireOrder(ra.st, c.B) } :
                ra \in RetireOrder(s, c.A) }

(* CancelClip *)
CancelClip(s) ==
    IF s.clip = Idle THEN {s}
    ELSE {DropClip(t) : t \in SettleClip(s, s.clip.filled, s.clip.filled, FALSE)}

(* commitClip: book the lot first, then pull what is left of the maker.    *)
(* Every call site skips it on a halted engine.                            *)
CommitClip(s) ==
    LET c == s.clip
        leg == IF c.maker = c.A THEN "B" ELSE "A"
        booked == DropClip([s EXCEPT !.book = @ + c.dir * c.lots])
    IN  IF c = Idle \/ s.rec.halted THEN {s}
        ELSE IF c.maker = 0 THEN {booked}
        ELSE UNION { TopUp(r.st, leg, LegBuys(c.dir, leg), HedgeLots(leg, r.gap)) :
                     r \in RetireOrder(booked, c.maker) }

CompleteClip(s) ==
    After(SettleClip(s, s.clip.filled, s.clip.filled, TRUE), CommitClip)

(* Mutant: the old handling, which equalised the fills that the cancels    *)
(* caught and never committed them.                                        *)
AbandonClipUncommitted(s) == CancelClip(s)

(* abandonClip: nothing filled as far as events tell; a fill the cancels   *)
(* catch completes the clip, unless an opening clip keeps partials.        *)
AbandonClip(s) ==
    IF ~s.clip.close /\ KeepPartial THEN CancelClip(s)
    ELSE UNION { UNION { IF ra.gap = 0 /\ rb.gap = 0 THEN {DropClip(rb.st)}
                         ELSE After(SettleClip(rb.st, ra.gap, rb.gap, TRUE), CommitClip) :
                         rb \in RetireOrder(ra.st, s.clip.B) } :
                 ra \in RetireOrder(s, s.clip.A) }

(* resolveClip *)
ResolveClip(s) ==
    LET c == s.clip IN
    CASE c = Idle -> {s}
      [] c # Idle /\ c.filled = 0 /\ ~(ForceClose /\ c.close) -> AbandonClip(s)
      [] c # Idle /\ ~(c.filled = 0 /\ ~(ForceClose /\ c.close)) ->
            IF ~c.close /\ KeepPartial THEN CancelClip(s) ELSE CompleteClip(s)

-----------------------------------------------------------------------------
(* Opening a clip. *)

OpenedClip(intent, lots, a, b) ==
    [ dir |-> intent.dir, close |-> intent.close, lots |-> intent.lots,
      target |-> lots, mode |-> ClipExecMode(intent), A |-> a, B |-> b,
      maker |-> 0, filled |-> 0 ]

(* openTakerOnlyClip: both legs race, each failed one is chased, and the   *)
(* intent is committed as worked.  Only an opening clip that moved neither *)
(* leg is retried without shrinking.                                       *)
OpenTakerOnlyClip(s, intent, lots) ==
    LET buy(leg) == LegBuys(intent.dir, leg)
        n(leg) == HedgeLots(leg, lots)
        Chase(t, leg, ok, plain) ==
            IF ok THEN {t}
            ELSE IF plain THEN TakerRetryPlain(t, leg, buy(leg), n(leg), 1)
            ELSE TakerRetryFrom(t, leg, buy(leg), n(leg), 1)
        Join(a, b) ==
            LET okA == a.res = "ok"
                okB == b.res = "ok"
                plain == ~okA /\ ~okB /\ ~intent.close
            IN  After(Chase(b.st, "A", okA, plain),
                      LAMBDA t : Chase(t, "B", okB, plain))
    IN  { [t EXCEPT !.book = @ + intent.dir * lots] :
          t \in UNION { UNION { Join(a, b) :
                                b \in PlaceTaker(a.st, "B", buy("B"), n("B")) } :
                        a \in PlaceTaker(s, "A", buy("A"), n("A")) } }

(* Mutant: what the first leg executed is left without its hedge. *)
UnwindFirstLegNaked(s, a, dir) ==
    UNION { {r.st : r \in RetireOrder(t, a)} : t \in Meanwhile(s, a) }

(* The second leg of a dual clip is not to be had: the first, order a, is  *)
(* pulled again, and what it executed since it was placed is hedged        *)
(* ("legA may have filled in this window").  Here alone a handler asks     *)
(* about an order that it has placed itself, so the broker's step between  *)
(* the two calls belongs to it.                                            *)
UnwindFirstLeg(s, a, dir) ==
    UNION { UNION { TopUp(r.st, "B", LegBuys(dir, "B"), HedgeLots("B", r.gap)) :
                    r \in RetireOrder(t, a) } : t \in Meanwhile(s, a) }

(* openClip, with whether the ladder may retry it smaller: only a closing  *)
(* clip whose first placement was definitively rejected.                   *)
OpenClip(s, intent, lots) ==
    LET mode == ClipExecMode(intent)
        first == IF mode = "soloB" THEN "B" ELSE "A"
        Done(t) == [st |-> t, retry |-> FALSE]
        Rest(t, a, b) == Done([t EXCEPT !.clip = OpenedClip(intent, lots, a, b)])
        SecondLeg(t, a) ==
            UNION { IF b.res = "ok" THEN {Rest(b.st, a, b.id)}
                    ELSE {Done(u) : u \in UnwindFirstLeg(b.st, a, intent.dir)} :
                    b \in PlaceMaker(t, "B", LegBuys(intent.dir, "B"), lots) }
    IN  IF mode = "taker" THEN {Done(t) : t \in OpenTakerOnlyClip(s, intent, lots)}
        ELSE UNION { CASE p.res # "ok" ->
                            {[st |-> p.st, retry |-> intent.close /\ p.res = "reject"]}
                       [] p.res = "ok" /\ mode = "dual" -> SecondLeg(p.st, p.id)
                       [] p.res = "ok" /\ mode = "solo" -> {Rest(p.st, p.id, 0)}
                       [] p.res = "ok" /\ mode = "soloB" -> {Rest(p.st, 0, p.id)} :
                     p \in PlaceMaker(s, first, LegBuys(intent.dir, first),
                                      HedgeLots(first, lots)) }

(* tryOpenClip: the ladder, each rung gated by the limiter. *)
TryOpenClip(s, intent) ==
    LET Rung(o, i) ==
            IF ~o.retry \/ o.st.moves = 0 THEN {[o EXCEPT !.retry = FALSE]}
            ELSE { [st |-> p.st, lots |-> o.lots - LotStep,
                    retry |-> p.retry /\ LotStep > 0 /\ o.lots - LotStep >= MinLots] :
                   p \in OpenClip([o.st EXCEPT !.moves = @ - 1], intent, o.lots) }
    IN  { o.st : o \in Loop(intent.lots,
                            {[st |-> s, lots |-> intent.lots, retry |-> TRUE]}, Rung) }
-----------------------------------------------------------------------------
(* Impaired mode (serviceImpaired): pull the clip, then, when a retry is   *)
(* due, re-ask every queued retire and re-try every debt.                  *)

(* Mutant: every queued retire is asked about once more and then dropped. *)
RetryRetiresOnce(s) ==
    LET q == s.rec.retireQ
        Retry(t, i) == {r.st : r \in TryDeferredRetire(t, q[i])}
    IN  {[t EXCEPT !.rec.retireQ = <<>>] : t \in Loop(Len(q), {s}, Retry)}

RetryRetires(s) ==
    LET q == s.rec.retireQ
        Retry(o, i) ==
            { [st |-> r.st, keep |-> IF r.done THEN o.keep ELSE Append(o.keep, q[i])] :
              r \in TryDeferredRetire(o.st, q[i]) }
    IN  { [o.st EXCEPT !.rec.retireQ = o.keep] :
          o \in Loop(Len(q), {[st |-> s, keep |-> <<>>]}, Retry) }

RetryDebts(s) ==
    LET q == s.rec.debts
        Retry(o, i) ==
            { [st |-> p.st, keep |-> IF p.res = "ok" THEN o.keep ELSE Append(o.keep, q[i])] :
              p \in PlaceTaker(o.st, q[i].leg, q[i].buy, q[i].lots) }
    IN  { [o.st EXCEPT !.rec.debts = o.keep] :
          o \in Loop(Len(q), {[st |-> s, keep |-> <<>>]}, Retry) }

RecoverIfDone(s) ==
    IF s.rec.retireQ = <<>> /\ s.rec.debts = <<>> /\ s.clip = Idle
    THEN [s EXCEPT !.rec = ClearImpaired(@)] ELSE s

ServiceImpaired(s, due) ==
    IF ~s.rec.impaired \/ s.rec.halted THEN {s}
    ELSE IF ~due THEN ResolveClip(s)
    ELSE { RecoverIfDone(t) :
           t \in After(After(ResolveClip(s), RetryRetires), RetryDebts) }

-----------------------------------------------------------------------------
(* Engine.OnFill *)

(* The pair is resolved on the maker's first fill: the counterpart is      *)
(* retired; if it ran ahead, the clip is settled there and then.           *)
CommitIfFull(s) == IF s.clip.filled >= s.clip.target THEN CommitClip(s) ELSE {s}

(* Mutant: the old handling of a counterpart that ran ahead, which topped  *)
(* the maker's leg up and left the maker resting for its full remainder.   *)
FirstFillKeepsWorking(s, leg) ==
    LET c == s.clip
        cp == Other(leg)
    IN  UNION { IF r.gap > c.filled
                THEN TopUp(r.st, leg, LegBuys(c.dir, leg), HedgeLots(leg, r.gap - c.filled))
                ELSE After(TopUp(r.st, cp, LegBuys(c.dir, cp),
                                 HedgeLots(cp, c.filled - r.gap)), CommitIfFull) :
                r \in RetireOrder(s, c[cp]) }

FirstFill(s, leg) ==
    LET c == s.clip
        cp == Other(leg)
        Ahead(t, executed) ==
            LET realA == IF leg = "A" THEN c.filled ELSE executed
                realB == IF leg = "B" THEN c.filled ELSE executed
            IN  IF ~c.close /\ KeepPartial
                THEN {DropClip(u) : u \in SettleClip(t, realA, realB, FALSE)}
                ELSE After(SettleClip(t, realA, realB, TRUE), CommitClip)
    IN  UNION { IF r.gap > c.filled THEN Ahead(r.st, r.gap)
                ELSE After(TopUp(r.st, cp, LegBuys(c.dir, cp),
                                 HedgeLots(cp, c.filled - r.gap)), CommitIfFull) :
                r \in RetireOrder(s, c[cp]) }

LaterFill(s, leg, lots) ==
    After(TakerRetry(s, Other(leg), LegBuys(s.clip.dir, Other(leg)),
                     HedgeLots(Other(leg), lots)), CommitIfFull)

OnFill(s, id, n) ==
    LET a == s.own[id]
        c == s.clip
        lots == AcceptedLots(a, n)
        t == SetAcct(s, id, FoldFill(a, lots))
        t1 == [t EXCEPT !.clip.maker = id, !.clip.filled = @ + lots]
    IN  CASE id \notin DOMAIN s.own -> {s}
          [] id \in DOMAIN s.own /\ lots <= 0 -> {s}
          [] id \in DOMAIN s.own /\ lots > 0 ->
                IF \/ ~a.maker
                   \/ a.final >= 0           \* retired: only the excess is new
                   \/ id \notin {c.A, c.B}   \* stray
                   \/ c.maker \notin {0, id} \* race: the non-maker leg
                THEN HedgeStrayMakerFill(t, a.leg, a.buy, LotsToPair(a, lots))
                ELSE IF c.maker = 0 THEN FirstFill(t1, a.leg)
                ELSE LaterFill(t1, a.leg, lots)

(* Engine.OnOrderStatus for an order reported dead. *)
OnOrderStatus(s, id) ==
    LET a == s.own[id] IN
    CASE id \notin DOMAIN s.own -> {s}
      [] id \in DOMAIN s.own /\ ~a.maker ->
            IF Confirmed(a) THEN {s}
            ELSE SettleTakerAt(s, id)
                 \cup {o.st : o \in Faulty(s, "silent",
                                  {[st |-> [s EXCEPT !.own[id].overdue = TRUE]]})}
      [] id \in DOMAIN s.own /\ a.maker ->
            IF a.deferred /\ ~s.rec.halted
            THEN {o.st : o \in TryDeferredRetire(s, id)}
            ELSE IF id \in {s.clip.A, s.clip.B} /\ a.final < 0 THEN CancelClip(s)
            ELSE {s}

-----------------------------------------------------------------------------
(* Re-pegging (engine_quote.go) a leg that rests and has not filled. *)

Repeggable(s, leg) ==
    /\ ~s.rec.halted
    /\ s.clip # Idle /\ s.clip.maker = 0
    /\ s.clip.mode \in {"dual", IF leg = "A" THEN "solo" ELSE "soloB"}
    /\ s.moves > 0

(* The new order of a re-pegged leg; a failed placement drops the clip. *)
PostRepegged(s, leg) ==
    UNION { IF p.res = "ok" THEN {[p.st EXCEPT !.clip[leg] = p.id]}
            ELSE CancelClip(p.st) :
            p \in PlaceMaker(s, leg, LegBuys(s.clip.dir, leg), s.clip.target) }

(* Mutant: the full size is posted again whatever the cancel caught. *)
RepegLegBlind(s, leg) ==
    UNION { IF r.st.rec.impaired THEN {r.st} ELSE PostRepegged(r.st, leg) :
            r \in RetireOrder([s EXCEPT !.moves = @ - 1], s.clip[leg]) }

RepegLeg(s, leg) ==
    LET c == s.clip
        Caught(t, gap) ==
            LET u == [t EXCEPT !.clip.maker = c[leg], !.clip.filled = gap]
            IN  After(SettleClip(u, IF leg = "A" THEN gap ELSE 0,
                                    IF leg = "B" THEN gap ELSE 0, TRUE), CommitClip)
    IN  UNION { CASE r.gap > 0 -> Caught(r.st, r.gap)
                  [] r.gap = 0 /\ r.st.rec.impaired -> {r.st}
                  [] r.gap = 0 /\ ~r.st.rec.impaired -> PostRepegged(r.st, leg) :
                r \in RetireOrder([s EXCEPT !.moves = @ - 1], c[leg]) }
=============================================================================
