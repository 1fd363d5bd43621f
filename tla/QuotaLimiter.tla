---------------------------- MODULE QuotaLimiter ----------------------------
(***************************************************************************)
(* strategies/execengine/limiter.go: the local view of the broker's        *)
(* placement quota, shared by the engine's goroutine (Allow, Spend) and    *)
(* the refresher's (finambroker.RefreshQuota: Snapshot, an RPC, Set),      *)
(* beside the broker's own window as brokersim meters it.                  *)
(*                                                                         *)
(* The mutex makes each method one step.  What races is everything around  *)
(* them: a placement is metered by the broker before the engine books it,  *)
(* and a poll's answer is computed after its Snapshot and applied later.   *)
(* The two sides read one clock; Set's is read as it is applied.           *)
(***************************************************************************)
EXTENDS Integers

CONSTANTS
    Limit,        \* the broker's placements per window
    Window,       \* length of a window, the broker's and DefaultQuotaWindow
    Margin,       \* placements kept in reserve for hedges
    WindowLimit,  \* the self-managed budget, 0 for the legacy limiter
    Burst,        \* sizes of a burst: 2 to open a clip, 1 to re-peg or hedge
    Pollers,      \* refresher goroutines
    MaxNow,       \* bound on the clock
    MaxSpent      \* bound on the placements of a run

ASSUME QuotaAssumption ==
    /\ Limit \in Nat \ {0} /\ Window \in Nat \ {0} /\ Margin \in Nat
    /\ WindowLimit \in 0..Limit   \* "Conservative by construction"
    /\ Burst \subseteq Nat \ {0}
    /\ MaxNow \in Nat /\ MaxSpent \in Nat

VARIABLES
    now,       \* the clock
    start,     \* brokersim quotaStart
    used,      \* brokersim quotaUsed
    lim,       \* the QuotaLimiter
    granted,   \* placements Allow granted and the engine is about to make
    calls,     \* placement RPCs issued, neither metered nor booked
    inflight,  \* placement RPCs metered by the broker, not booked yet
    polls      \* the refreshers' RPCs

broker == <<start, used>>
engine == <<granted, calls, inflight>>
vars == <<now, start, used, lim, granted, calls, inflight, polls>>

(* A poll between rounds, on its way, and answered. *)
NoPoll == [phase |-> "idle", spent |-> 0, epoch |-> 0, rem |-> 0, reset |-> 0]

Asked(l) == [ phase |-> "asked", spent |-> l.totalSpent, epoch |-> l.epoch,
              rem |-> 0, reset |-> 0 ]

(* The zero resetAt is 0: like the code's, it has always elapsed. *)
NewLimiter == [ remaining |-> 0, resetAt |-> 0, known |-> FALSE,
                totalSpent |-> 0, lastSetToken |-> 0, epoch |-> 0 ]

Init ==
    /\ now = 0 /\ start = 0 /\ used = 0
    /\ lim = NewLimiter
    /\ granted = 0 /\ calls = 0 /\ inflight = 0
    /\ polls = [p \in Pollers |-> NoPoll]

-----------------------------------------------------------------------------
(* The limiter's methods. *)

FailSafe == WindowLimit > 0

RefreshWindow(l) ==
    IF FailSafe /\ now >= l.resetAt
    THEN [l EXCEPT !.remaining = WindowLimit, !.resetAt = now + Window, !.epoch = @ + 1]
    ELSE l

(* Mutant: a burst may eat the reserve of the mandatory hedges. *)
PermitsAll(l, ops) == (~l.known /\ ~FailSafe) \/ l.remaining >= ops

Permits(l, ops) == (~l.known /\ ~FailSafe) \/ l.remaining >= ops + Margin

Booked(l, ops) ==
    LET r == RefreshWindow([l EXCEPT !.totalSpent = @ + ops])
    IN  IF l.known \/ FailSafe THEN [r EXCEPT !.remaining = @ - ops] ELSE r

(* Set's three reasons to ignore an answer ... *)
Rejected(l, q) ==
    \/ l.known /\ q.spent < l.lastSetToken
    \/ FailSafe /\ q.reset <= now
    \/ FailSafe /\ q.epoch < l.epoch

(* Mutant: a spend that raced the poll is erased by its answer. *)
ComputedBlind(l, q) == q.rem

(* ... and what it makes of one it applies: spends since the snapshot are  *)
(* subtracted again, and in an unchanged window belief never rises.        *)
Computed(l, q) ==
    LET c == q.rem - (l.totalSpent - q.spent)
    IN  IF l.known /\ l.resetAt = q.reset /\ c > l.remaining THEN l.remaining ELSE c

SetFrom(l, q) ==
    IF Rejected(l, q) THEN l
    ELSE [ remaining |-> Computed(l, q), resetAt |-> q.reset, known |-> TRUE,
           totalSpent |-> l.totalSpent, lastSetToken |-> q.spent, epoch |-> l.epoch ]

-----------------------------------------------------------------------------
(* The engine's goroutine: one burst of placements at a time, an open only *)
(* when Allow permits it, a hedge at any time; each call is booked after   *)
(* it returns, whether or not the broker metered it.                       *)

Quiet == granted = 0 /\ calls = 0 /\ inflight = 0

Allow(ops) ==
    /\ Quiet /\ lim.totalSpent + ops <= MaxSpent
    /\ lim' = RefreshWindow(lim)
    /\ granted' = IF Permits(lim', ops) THEN ops ELSE 0
    /\ UNCHANGED <<now, broker, calls, inflight, polls>>

PlaceGranted ==
    /\ granted > 0
    /\ granted' = 0 /\ calls' = granted
    /\ UNCHANGED <<now, broker, lim, inflight, polls>>

PlaceHedge(ops) ==
    /\ Quiet /\ lim.totalSpent + ops <= MaxSpent
    /\ calls' = ops
    /\ UNCHANGED <<now, broker, lim, granted, inflight, polls>>

SpendMetered ==
    /\ inflight > 0
    /\ inflight' = inflight - 1
    /\ lim' = Booked(lim, 1)
    /\ UNCHANGED <<now, broker, granted, calls, polls>>

(* The call failed on the way, or the broker refused it unmetered. *)
SpendUnmetered ==
    /\ calls > 0
    /\ calls' = calls - 1
    /\ lim' = Booked(lim, 1)
    /\ UNCHANGED <<now, broker, granted, inflight, polls>>

-----------------------------------------------------------------------------
(* The broker: a window that starts with the first request after the last  *)
(* one has elapsed.                                                        *)

Elapsed == now - start >= Window
StartNow == IF Elapsed THEN now ELSE start
UsedNow == IF Elapsed THEN 0 ELSE used

(* Mutant: off by one at the broker's limit. *)
MeterOneMore ==
    /\ calls > 0 /\ UsedNow <= Limit
    /\ calls' = calls - 1 /\ inflight' = inflight + 1
    /\ start' = StartNow /\ used' = UsedNow + 1
    /\ UNCHANGED <<now, lim, granted, polls>>

(* consumePlaceQuotaLocked *)
Meter ==
    /\ calls > 0 /\ UsedNow < Limit
    /\ calls' = calls - 1 /\ inflight' = inflight + 1
    /\ start' = StartNow /\ used' = UsedNow + 1
    /\ UNCHANGED <<now, lim, granted, polls>>

-----------------------------------------------------------------------------
(* RefreshQuota's poll. *)

Snapshot(p) ==
    /\ polls[p].phase = "idle"
    /\ polls' = [polls EXCEPT ![p] = Asked(lim)]
    /\ UNCHANGED <<now, broker, lim, engine>>

(* GetUsageMetrics *)
Answered(q) == [ phase |-> "answered", spent |-> q.spent, epoch |-> q.epoch,
                 rem |-> Limit - UsedNow, reset |-> StartNow + Window ]

Answer(p) ==
    /\ polls[p].phase = "asked"
    /\ start' = StartNow /\ used' = UsedNow
    /\ polls' = [polls EXCEPT ![p] = Answered(@)]
    /\ UNCHANGED <<now, lim, engine>>

Set(p) ==
    /\ polls[p].phase = "answered"
    /\ lim' = SetFrom(lim, polls[p])
    /\ polls' = [polls EXCEPT ![p] = NoPoll]
    /\ UNCHANGED <<now, broker, engine>>

(* The RPC failed or timed out. *)
PollFails(p) ==
    /\ polls[p].phase # "idle"
    /\ polls' = [polls EXCEPT ![p] = NoPoll]
    /\ UNCHANGED <<now, broker, lim, engine>>

Tick ==
    /\ now < MaxNow
    /\ now' = now + 1
    /\ UNCHANGED <<broker, lim, engine, polls>>

Next ==
    \/ \E ops \in Burst : Allow(ops) \/ PlaceHedge(ops)
    \/ PlaceGranted \/ SpendMetered \/ SpendUnmetered \/ Meter \/ Tick
    \/ \E p \in Pollers : Snapshot(p) \/ Answer(p) \/ Set(p) \/ PollFails(p)

Spec == Init /\ [][Next]_vars
-----------------------------------------------------------------------------
LimiterType ==
    [ remaining : Int, resetAt : Nat, known : BOOLEAN,
      totalSpent : Nat, lastSetToken : Nat, epoch : Nat ]

PollType ==
    [ phase : {"idle", "asked", "answered"}, spent : Nat, epoch : Nat,
      rem : 0..Limit, reset : Nat ]

(* Types and ranges; the broker never meters past its limit, and a window  *)
(* never starts in the future (consumePlaceQuotaLocked).                   *)
TypeOK ==
    /\ now \in Nat /\ start \in 0..now /\ used \in 0..Limit
    /\ lim \in LimiterType
    /\ granted \in Nat /\ calls \in Nat /\ inflight \in Nat
    /\ polls \in [Pollers -> PollType]

(* The limiter's window is the one the broker is in. *)
InStep == lim.resetAt = start + Window

(* However polls and placements interleave, a limiter that is in step with *)
(* the broker's window never believes in budget the broker has not got,    *)
(* but for the calls metered and not booked yet: no Set erases a spend     *)
(* that raced it, no late answer is applied to a window it does not        *)
(* describe, no rollover forgets a spend (Set, refreshWindow, Spend).      *)
Conservative == InStep => lim.remaining <= Limit - used + inflight

(* Hence a burst granted in step leaves the hedges their reserve (Allow).  *)
GrantsKeepReserve ==
    [][granted = 0 /\ granted' > 0 /\ InStep'
          => Limit - used >= granted' + Margin]_vars

(* The same of every grant of the fail-safe limiter, in step or not, as    *)
(* its comments promise: "it never starves a mandatory hedge".             *)
EveryGrantKeepsReserve ==
    [][granted = 0 /\ granted' > 0 => Limit - UsedNow >= granted' + Margin]_vars
=============================================================================
