------------------------ MODULE QuotaLimiterProofs --------------------------
(***************************************************************************)
(* QuotaLimiter for every limit, window, margin, budget and number of      *)
(* refreshers: the limiter is conservative whenever it is in step.         *)
(*                                                                         *)
(* Conservative is not inductive.  What a Set applies must already be      *)
(* bounded while the answer is in flight (AnswerInv); a local rollover     *)
(* must not forget a placement the broker metered in the same instant      *)
(* (RolloverInv); and a broker rollover must not leave a belief above a    *)
(* whole window (BudgetInv).                                               *)
(***************************************************************************)
EXTENDS QuotaLimiter, TLAPS

BudgetInv == lim.remaining <= Limit

(* A legacy limiter that was never Set knows of no window. *)
LegacyInv == ~lim.known /\ ~FailSafe => lim.resetAt = 0

(* A window the broker started just now, with a placement already booked,  *)
(* is one the limiter has rolled into.                                     *)
RolloverInv == FailSafe /\ start = now /\ used > inflight => lim.resetAt > now

(* An answer about the current window errs only by what the calls metered  *)
(* since will subtract: in flight, or booked since its snapshot.           *)
AnswerOK(q) ==
    /\ q.spent <= lim.totalSpent
    /\ q.phase = "answered" =>
          /\ q.reset <= start + Window
          /\ q.reset = start + Window =>
                q.rem <= Limit - used + inflight + (lim.totalSpent - q.spent)

AnswerInv == \A p \in Pollers : AnswerOK(polls[p])

IInv == TypeOK /\ Conservative /\ BudgetInv /\ LegacyInv
        /\ RolloverInv /\ AnswerInv

(* The refreshed limiter, field by field.                                  *)
LEMMA RefreshFields ==
    ASSUME NEW l \in LimiterType, now \in Nat
    PROVE  LET r == RefreshWindow(l)
               rolls == FailSafe /\ now >= l.resetAt
           IN  /\ r \in LimiterType
               /\ r.remaining = IF rolls THEN WindowLimit ELSE l.remaining
               /\ r.resetAt = IF rolls THEN now + Window ELSE l.resetAt
               /\ r.totalSpent = l.totalSpent /\ r.known = l.known
               /\ FailSafe => r.resetAt > now
  <1> USE QuotaAssumption
  <1>1. CASE FailSafe /\ now >= l.resetAt
    <2>1. RefreshWindow(l) =
             [ remaining |-> WindowLimit, resetAt |-> now + Window, known |-> l.known,
               totalSpent |-> l.totalSpent, lastSetToken |-> l.lastSetToken,
               epoch |-> l.epoch + 1 ]
      BY <1>1 DEF RefreshWindow, LimiterType
    <2> QED BY <1>1, <2>1 DEF LimiterType
  <1>2. CASE ~(FailSafe /\ now >= l.resetAt)
    BY <1>2 DEF RefreshWindow, LimiterType
  <1> QED BY <1>1, <1>2

(* A booked placement, field by field.                                     *)
LEMMA BookedFields ==
    ASSUME NEW l \in LimiterType, now \in Nat
    PROVE  LET b == Booked(l, 1)
               rolls == FailSafe /\ now >= l.resetAt
               before == IF rolls THEN WindowLimit ELSE l.remaining
           IN  /\ b \in LimiterType
               /\ b.remaining = IF l.known \/ FailSafe THEN before - 1 ELSE before
               /\ b.resetAt = IF rolls THEN now + Window ELSE l.resetAt
               /\ b.totalSpent = l.totalSpent + 1 /\ b.known = l.known
               /\ FailSafe => b.resetAt > now
  <1> DEFINE m == [l EXCEPT !.totalSpent = @ + 1]
             r == RefreshWindow(m)
  <1>1. /\ m \in LimiterType /\ m.remaining = l.remaining /\ m.resetAt = l.resetAt
        /\ m.totalSpent = l.totalSpent + 1 /\ m.known = l.known
    BY DEF LimiterType
  <1>2. /\ r \in LimiterType
        /\ r.remaining = IF FailSafe /\ now >= l.resetAt THEN WindowLimit ELSE l.remaining
        /\ r.resetAt = IF FailSafe /\ now >= l.resetAt THEN now + Window ELSE l.resetAt
        /\ r.totalSpent = l.totalSpent + 1 /\ r.known = l.known
        /\ FailSafe => r.resetAt > now
    <2> HIDE DEF m
    <2> QED BY <1>1, RefreshFields
  <1>3. Booked(l, 1) = IF l.known \/ FailSafe THEN [r EXCEPT !.remaining = @ - 1] ELSE r
    BY DEF Booked
  <1> HIDE DEF r
  <1> QED BY <1>2, <1>3 DEF LimiterType

(* Init establishes the invariant.                                         *)
LEMMA InitIInv == Init => IInv
  BY QuotaAssumption DEF Init, IInv, TypeOK, Conservative, BudgetInv, LegacyInv,
     RolloverInv, AnswerInv, AnswerOK, NewLimiter, NoPoll, LimiterType, PollType, InStep, FailSafe

(* Allow, which may roll the limiter's window over, keeps the invariant.   *)
LEMMA AllowStep ==
    ASSUME IInv, NEW ops \in Burst, Allow(ops)
    PROVE  IInv'
  <1> USE QuotaAssumption
  <1>1. now \in Nat /\ lim \in LimiterType
    BY DEF IInv, TypeOK
  <1>2. /\ lim' \in LimiterType
        /\ lim'.remaining = IF FailSafe /\ now >= lim.resetAt
                            THEN WindowLimit ELSE lim.remaining
        /\ lim'.resetAt = IF FailSafe /\ now >= lim.resetAt
                          THEN now + Window ELSE lim.resetAt
        /\ lim'.totalSpent = lim.totalSpent /\ lim'.known = lim.known
        /\ FailSafe => lim'.resetAt > now
    BY <1>1, RefreshFields DEF Allow
  <1>3. TypeOK'
    BY <1>2 DEF IInv, TypeOK, Allow, broker
  <1>4. Conservative'
    BY <1>1, <1>2 DEF IInv, TypeOK, Conservative, BudgetInv, RolloverInv, InStep, Allow,
       broker, LimiterType, FailSafe
  <1>5. BudgetInv' /\ LegacyInv' /\ RolloverInv'
    BY <1>1, <1>2 DEF IInv, TypeOK, BudgetInv, LegacyInv, RolloverInv, Allow, broker, LimiterType,
       FailSafe
  <1>6. AnswerInv'
    BY <1>2 DEF IInv, AnswerInv, AnswerOK, Allow, broker
  <1> QED BY <1>3, <1>4, <1>5, <1>6 DEF IInv

(* So do the two ways of booking a placement.                              *)
LEMMA SpendStep ==
    ASSUME IInv, SpendMetered \/ SpendUnmetered
    PROVE  IInv'
  <1> USE QuotaAssumption
  <1> DEFINE rolls == FailSafe /\ now >= lim.resetAt
             before == IF rolls THEN WindowLimit ELSE lim.remaining
  <1>1. now \in Nat /\ lim \in LimiterType
    BY DEF IInv, TypeOK
  <1>2. /\ lim' \in LimiterType
        /\ lim'.remaining = IF lim.known \/ FailSafe THEN before - 1 ELSE before
        /\ lim'.resetAt = IF rolls THEN now + Window ELSE lim.resetAt
        /\ lim'.totalSpent = lim.totalSpent + 1 /\ lim'.known = lim.known
        /\ FailSafe => lim'.resetAt > now
    BY <1>1, BookedFields DEF SpendMetered, SpendUnmetered
  <1>3. /\ inflight \in Nat /\ inflight' \in Nat /\ calls' \in Nat
        /\ inflight' = inflight \/ inflight' = inflight - 1
        /\ UNCHANGED <<now, start, used, granted, polls>>
    BY DEF IInv, TypeOK, SpendMetered, SpendUnmetered, broker
  <1>4. TypeOK'
    BY <1>2, <1>3 DEF IInv, TypeOK
  <1>5. Conservative'
    BY <1>1, <1>2, <1>3 DEF IInv, TypeOK, Conservative, BudgetInv, LegacyInv,
       RolloverInv, InStep, LimiterType, FailSafe, SpendMetered, SpendUnmetered
  <1>6. BudgetInv' /\ LegacyInv' /\ RolloverInv'
    BY <1>1, <1>2, <1>3 DEF IInv, TypeOK, BudgetInv, LegacyInv, RolloverInv,
       LimiterType, FailSafe
  <1>7. AnswerInv'
    <2> SUFFICES ASSUME NEW p \in Pollers PROVE AnswerOK(polls[p])'
      BY DEF AnswerInv
    <2>1. polls[p] \in PollType /\ AnswerOK(polls[p])
      BY DEF IInv, TypeOK, AnswerInv
    <2> QED BY <1>1, <1>2, <1>3, <2>1 DEF IInv, TypeOK, AnswerOK, PollType, LimiterType
  <1> QED BY <1>4, <1>5, <1>6, <1>7 DEF IInv

(* A placement the broker meters, in its window or in a new one.           *)
LEMMA MeterStep ==
    ASSUME IInv, Meter
    PROVE  IInv'
  <1> USE QuotaAssumption
  <1>1. /\ start' = IF now - start >= Window THEN now ELSE start
        /\ used' = (IF now - start >= Window THEN 0 ELSE used) + 1
        /\ used' <= Limit
        /\ inflight' = inflight + 1 /\ calls' = calls - 1 /\ calls > 0
        /\ UNCHANGED <<now, lim, granted, polls>>
    BY DEF IInv, TypeOK, Meter, StartNow, UsedNow, Elapsed
  <1>2. TypeOK'
    BY <1>1 DEF IInv, TypeOK
  <1>3. Conservative' /\ BudgetInv' /\ LegacyInv' /\ RolloverInv'
    BY <1>1 DEF IInv, TypeOK, Conservative, BudgetInv, LegacyInv, RolloverInv, InStep,
       LimiterType, FailSafe
  <1>4. AnswerInv'
    <2> SUFFICES ASSUME NEW p \in Pollers PROVE AnswerOK(polls[p])'
      BY DEF AnswerInv
    <2>1. polls[p] \in PollType /\ AnswerOK(polls[p])
      BY DEF IInv, TypeOK, AnswerInv
    <2> QED BY <1>1, <2>1 DEF IInv, TypeOK, AnswerOK, PollType, LimiterType
  <1> QED BY <1>2, <1>3, <1>4 DEF IInv

(* A poll that starts or fails touches nothing but its own record.         *)
LEMMA PollIdleStep ==
    ASSUME IInv, NEW p \in Pollers, Snapshot(p) \/ PollFails(p)
    PROVE  IInv'
  <1> USE QuotaAssumption
  <1> DEFINE new == IF Snapshot(p) THEN Asked(lim) ELSE NoPoll
  <1>1. /\ new \in PollType /\ new.phase # "answered" /\ new.spent <= lim.totalSpent
        /\ lim.totalSpent \in Nat
    <2>1. lim.totalSpent \in Nat /\ lim.epoch \in Nat
      BY DEF IInv, TypeOK, LimiterType
    <2> QED BY <2>1 DEF Asked, NoPoll, PollType
  <1>2. /\ polls' = [polls EXCEPT ![p] = new]
        /\ UNCHANGED <<now, start, used, lim, granted, calls, inflight>>
    BY DEF Snapshot, PollFails, broker, engine
  <1> HIDE DEF new
  <1>3. TypeOK'
    BY <1>1, <1>2 DEF IInv, TypeOK
  <1>4. Conservative' /\ BudgetInv' /\ LegacyInv' /\ RolloverInv'
    BY <1>2 DEF IInv, Conservative, BudgetInv, LegacyInv, RolloverInv, InStep
  <1>5. AnswerInv'
    BY <1>1, <1>2 DEF IInv, TypeOK, AnswerInv, AnswerOK
  <1> QED BY <1>3, <1>4, <1>5 DEF IInv

(* The broker answers a poll, starting a new window if the last elapsed.   *)
LEMMA AnswerStep ==
    ASSUME IInv, NEW p \in Pollers, Answer(p)
    PROVE  IInv'
  <1> USE QuotaAssumption
  <1>1. /\ start' = IF now - start >= Window THEN now ELSE start
        /\ used' = IF now - start >= Window THEN 0 ELSE used
        /\ UNCHANGED <<now, lim, granted, calls, inflight>>
    BY DEF Answer, StartNow, UsedNow, Elapsed, engine
  <1> DEFINE new == [ phase |-> "answered", spent |-> polls[p].spent,
                      epoch |-> polls[p].epoch, rem |-> Limit - used',
                      reset |-> start' + Window ]
  <1>2. polls' = [polls EXCEPT ![p] = new] /\ polls'[p] = new
    BY DEF Answer, Answered, IInv, TypeOK
  <1>a. /\ start' + Window \in Nat /\ used' \in 0..Limit /\ Limit - used' \in 0..Limit
        /\ polls[p].spent \in Nat /\ polls[p].epoch \in Nat
    BY <1>1 DEF IInv, TypeOK, PollType
  <1>b. new \in PollType
    BY <1>a DEF PollType
  <1>3. TypeOK'
    BY <1>1, <1>2, <1>b DEF IInv, TypeOK
  <1>4. Conservative' /\ BudgetInv' /\ LegacyInv' /\ RolloverInv'
    BY <1>1 DEF IInv, TypeOK, Conservative, BudgetInv, LegacyInv, RolloverInv, InStep,
       LimiterType, FailSafe
  <1>5. AnswerInv'
    <2> SUFFICES ASSUME NEW q \in Pollers PROVE AnswerOK(polls[q])'
      BY DEF AnswerInv
    <2>1. polls[q] \in PollType /\ AnswerOK(polls[q])
      BY DEF IInv, TypeOK, AnswerInv
    <2>2. CASE q = p
      BY <1>1, <1>2, <1>a, <2>1, <2>2 DEF IInv, TypeOK, AnswerOK, PollType, LimiterType
    <2>3. CASE q # p
      <3>1. polls'[q] = polls[q]
        BY <1>2, <2>3 DEF IInv, TypeOK
      <3> QED BY <1>1, <2>1, <3>1 DEF IInv, TypeOK, AnswerOK, PollType, LimiterType
    <2> QED BY <2>2, <2>3
  <1> QED BY <1>3, <1>4, <1>5 DEF IInv

(* Set applies an answer, or ignores it.                                   *)
LEMMA SetStep ==
    ASSUME IInv, NEW p \in Pollers, Set(p)
    PROVE  IInv'
  <1> USE QuotaAssumption
  <1> DEFINE q == polls[p]
  <1>1. /\ q \in PollType /\ AnswerOK(q) /\ q.phase = "answered"
        /\ lim \in LimiterType /\ now \in Nat
    BY DEF IInv, TypeOK, AnswerInv, Set
  <1>2. /\ polls'[p] \in PollType /\ polls'[p].phase # "answered"
        /\ polls'[p].spent <= lim.totalSpent
        /\ polls' = [polls EXCEPT ![p] = polls'[p]]
        /\ UNCHANGED <<now, start, used, granted, calls, inflight>>
    BY <1>1 DEF IInv, TypeOK, Set, NoPoll, PollType, LimiterType, broker, engine
  <1>3. /\ lim' \in LimiterType /\ lim'.totalSpent = lim.totalSpent
        /\ \/ lim' = lim
           \/ /\ lim'.remaining <= q.rem - (lim.totalSpent - q.spent)
              /\ lim'.resetAt = q.reset /\ lim'.known
              /\ FailSafe => q.reset > now
    <2>1. CASE Rejected(lim, q)
      BY <1>1, <2>1 DEF Set, SetFrom
    <2>2. CASE ~Rejected(lim, q)
      <3>1. /\ Computed(lim, q) \in Int
            /\ Computed(lim, q) <= q.rem - (lim.totalSpent - q.spent)
        BY <1>1 DEF Computed, LimiterType, PollType
      <3>2. FailSafe => q.reset > now
        BY <1>1, <2>2 DEF Rejected, PollType
      <3>3. lim' = [ remaining |-> Computed(lim, q), resetAt |-> q.reset,
                     known |-> TRUE, totalSpent |-> lim.totalSpent,
                     lastSetToken |-> q.spent, epoch |-> lim.epoch ]
        BY <2>2 DEF Set, SetFrom
      <3> QED BY <1>1, <3>1, <3>2, <3>3 DEF LimiterType, PollType
    <2> QED BY <2>1, <2>2
  <1>4. TypeOK'
    BY <1>2, <1>3 DEF IInv, TypeOK
  <1>5. Conservative' /\ BudgetInv' /\ LegacyInv' /\ RolloverInv'
    <2>1. CASE lim' = lim
      BY <1>2, <2>1 DEF IInv, Conservative, BudgetInv, LegacyInv, RolloverInv, InStep
    <2>2. CASE lim' # lim
      BY <1>1, <1>2, <1>3, <2>2 DEF IInv, TypeOK, Conservative, BudgetInv, LegacyInv,
         RolloverInv, InStep, AnswerOK, LimiterType, PollType, FailSafe
    <2> QED BY <2>1, <2>2
  <1>6. AnswerInv'
    BY <1>2, <1>3 DEF IInv, TypeOK, AnswerInv, AnswerOK
  <1> QED BY <1>4, <1>5, <1>6 DEF IInv

(* The engine starting a burst, and time.                                  *)
LEMMA QuietStep ==
    ASSUME IInv, PlaceGranted \/ (\E ops \in Burst : PlaceHedge(ops)) \/ Tick
    PROVE  IInv'
  <1> USE QuotaAssumption
  <1>1. /\ granted' \in Nat /\ calls' \in Nat
        /\ now' \in Nat /\ now <= now' /\ (now' = now \/ now' = now + 1)
        /\ UNCHANGED <<start, used, lim, inflight, polls>>
    BY DEF IInv, TypeOK, PlaceGranted, PlaceHedge, Tick, broker, engine
  <1> QED BY <1>1 DEF IInv, TypeOK, Conservative, BudgetInv, LegacyInv, RolloverInv,
             AnswerInv, AnswerOK, InStep, FailSafe

(* The inductive invariant holds for every value of the constants.         *)
THEOREM QuotaInvariant == Spec => []IInv
  <1>1. Init => IInv
    BY InitIInv
  <1>2. IInv /\ [Next]_vars => IInv'
    <2> SUFFICES ASSUME IInv, [Next]_vars PROVE IInv'
      OBVIOUS
    <2>1. CASE \E ops \in Burst : Allow(ops)
      BY <2>1, AllowStep
    <2>2. CASE PlaceGranted \/ (\E ops \in Burst : PlaceHedge(ops)) \/ Tick
      BY <2>2, QuietStep
    <2>3. CASE SpendMetered \/ SpendUnmetered
      BY <2>3, SpendStep
    <2>4. CASE Meter
      BY <2>4, MeterStep
    <2>5. CASE \E p \in Pollers : Snapshot(p) \/ PollFails(p)
      BY <2>5, PollIdleStep
    <2>6. CASE \E p \in Pollers : Answer(p)
      BY <2>6, AnswerStep
    <2>7. CASE \E p \in Pollers : Set(p)
      BY <2>7, SetStep
    <2>8. CASE UNCHANGED vars
      BY <2>8 DEF vars, IInv, TypeOK, Conservative, BudgetInv, LegacyInv, RolloverInv,
         AnswerInv, AnswerOK, InStep
    <2> QED BY <2>1, <2>2, <2>3, <2>4, <2>5, <2>6, <2>7, <2>8 DEF Next
  <1> QED BY <1>1, <1>2, PTL DEF Spec

(* Types hold for every value of the constants.                            *)
THEOREM QuotaTypeCorrect == Spec => []TypeOK
  BY QuotaInvariant, PTL DEF IInv

(* The limiter never believes in budget the broker has not got, for every  *)
(* limit, window, budget and number of refreshers.                         *)
THEOREM ConservativeHolds == Spec => []Conservative
  BY QuotaInvariant, PTL DEF IInv

(* A burst granted in step leaves the hedge reserve untouched.             *)
THEOREM GrantsKeepReserveHolds == Spec => GrantsKeepReserve
  <1> DEFINE Kept == granted = 0 /\ granted' > 0 /\ InStep'
                        => Limit - used >= granted' + Margin
  <1>1. IInv /\ IInv' /\ [Next]_vars => [Kept]_vars
    <2> SUFFICES ASSUME IInv, IInv', Next, granted = 0, granted' > 0, InStep'
                 PROVE  Limit - used >= granted' + Margin
      BY DEF vars
    <2> USE QuotaAssumption
    <2>1. PICK ops \in Burst : Allow(ops)
      <3>1. ~PlaceGranted
        BY DEF PlaceGranted
      <3>2. granted' # granted
        BY DEF IInv, TypeOK
      <3> QED BY <3>1, <3>2 DEF Next, PlaceHedge, SpendMetered, SpendUnmetered, Meter,
                 Tick, Snapshot, Answer, Set, PollFails, engine
    <2>2. ops \in Nat /\ granted' = ops /\ Permits(lim', ops) /\ inflight' = 0 /\ used' = used
      BY <2>1 DEF Allow, Quiet, broker
    <2>3. lim'.known \/ FailSafe
      <3>1. lim'.resetAt # 0
        <4>1. start' \in Nat
          BY DEF IInv, TypeOK
        <4>2. lim'.resetAt = start' + Window
          BY DEF InStep
        <4>3. ASSUME NEW t \in Nat PROVE t + Window # 0
          OBVIOUS
        <4> QED BY <4>1, <4>2, <4>3, Zenon
      <3> QED BY <3>1, Zenon DEF IInv, LegacyInv
    <2>4. lim'.remaining >= ops + Margin
      BY <2>2, <2>3 DEF Permits
    <2> QED BY <2>2, <2>4 DEF IInv, TypeOK, Conservative, LimiterType
  <1> QED BY <1>1, QuotaInvariant, PTL DEF Spec, GrantsKeepReserve
=============================================================================
