------------------------- MODULE ExecEngineCapProofs -------------------------
(***************************************************************************)
(* How far the two legs move.  At a broker that does what it is told and   *)
(* says what it did (Dependable), whatever the order of fills, events,     *)
(* re-pegs, timeouts, closes and an operator's halt, the position stays    *)
(* inside the cap the clips were sized against (WithinCap), and a lot-book *)
(* Decider has booked exactly what the pair realised (BookMatches); for    *)
(* any strategies, clip sizes, hedge ratio and number of orders.           *)
(*                                                                         *)
(* ExecEngineProofs says what a procedure does to both legs together; here *)
(* each has a second contract, for each leg by itself: Bought for a hedge, *)
(* Quits for a retired maker, Levels for what settles a clip, Still for    *)
(* what moves nothing.  Sized is what every procedure that works the clip  *)
(* keeps: with what the clip has realised taken off, and with its target   *)
(* added, the position is within the cap, a lot book has it, nothing is    *)
(* owed, and each maker at work knows exactly the clip's fills.            *)
(***************************************************************************)
EXTENDS ExecEngineProofs

(* A broker that does what it is told and says what it did, and a lot book *)
(* that no setting makes lose a partial.                                   *)
Dependable ==
    /\ FaultKinds = {}
    /\ LotBook => ~KeepPartial /\ ~MayShutdown

(* Lots on a side, and lots of the pair in a direction, with their signs.  *)
Signed(buy, n) == IF buy THEN n ELSE -n
Along(dir, n) == IF dir > 0 THEN n ELSE IF dir < 0 THEN -n ELSE 0

(* One leg of the ledger moves by d, and the Decider's book does not.      *)
Shift(s, t, leg, d) ==
    /\ \A l \in Leg : t.sink[l] = s.sink[l] + IF l = leg THEN d ELSE 0
    /\ t.book = s.book
    /\ Duty(s, t)

Bought(s, t, leg, buy, n) ==
    Aside(s, t, {}) /\ Shift(s, t, leg, Signed(buy, n))

-----------------------------------------------------------------------------
LEMMA NoFaults ==
    ASSUME Dependable, NEW s, NEW kind, NEW outcomes
    PROVE  ~Fault(s, kind) /\ Faulty(s, kind, outcomes) = {}
BY DEF Dependable, Fault, Faulty

LEMMA SignedIs ==
    ASSUME NEW buy, NEW n \in Int
    PROVE  Signed(buy, n) = Sign(buy) * n /\ Signed(buy, n) \in Int
BY DEF Signed, Sign

LEMMA SignedZero ==
    ASSUME NEW buy
    PROVE  Signed(buy, 0) = 0
<1>1. ASSUME NEW n \in Int, n = 0 PROVE Signed(buy, n) = 0
  <2>1. Signed(buy, n) \in {n, -n}
    BY DEF Signed
  <2> QED
    BY <1>1, <2>1
<1> QED
  BY <1>1

LEMMA SignedSides ==
    ASSUME NEW dir \in {-1, 1}, NEW n \in Int
    PROVE  /\ Signed(LegBuys(dir, "A"), n) = Along(dir, n)
           /\ Signed(LegBuys(dir, "B"), n) = -Along(dir, n)
           /\ Along(dir, n) = dir * n /\ Along(dir, n) \in Int
BY DEF Signed, Along, LegBuys

LEMMA SinkType ==
    ASSUME NEW s, Good(s)
    PROVE  /\ \A l \in Leg : s.sink[l] \in Int
           /\ s.sink["A"] \in Int /\ s.sink["B"] \in Int /\ s.book \in Int
BY GoodType DEF State, Leg

(* An accepted taker; nothing else may happen to a placement.              *)
LEMMA TakenExactly ==
    ASSUME Dependable, NEW s, Good(s), ~s.rec.halted,
           NEW leg \in Leg, NEW buy \in BOOLEAN, NEW lots \in Nat \ {0},
           NEW o \in PlaceTaker(s, leg, buy, lots)
    PROVE  o.res = "ok" /\ Bought(s, o.st, leg, buy, lots)
<1> DEFINE p == AddOrder(s, leg, buy, lots)
           id == Len(p.orders)
           a == NewTaker(leg, buy, lots)
           u == Track(p, id, a)
           t == [u EXCEPT !.pending = @ \cup {id}]
<1>1. o = [st |-> t, res |-> "ok"]
  BY NoFaults DEF PlaceTaker
<1>2. Aside(s, o.st, {})
  BY PlaceTakerOutcome
<1>3. s \in State /\ Len(s.orders) \in Nat /\ DOMAIN s.own \subseteq 1..Len(s.orders)
  BY GoodType
<1>4. /\ p \in State /\ p.own = s.own /\ p.rec = s.rec /\ p.sink = s.sink /\ p.book = s.book
      /\ id = Len(s.orders) + 1
  BY <1>3, AddOrderFields
<1>5. a \in Acct /\ a.credited = lots /\ a.leg = leg /\ a.buy = buy
  BY NewAccounts DEF NewTaker
<1> HIDE DEF a, p
<1>6. id \in Nat /\ id \notin DOMAIN p.own
  BY <1>3, <1>4
<1>7. /\ u \in State
      /\ \A l \in Leg : u.sink[l] = p.sink[l] + IF l = a.leg THEN Sign(a.buy) * a.credited ELSE 0
      /\ u.book = p.book /\ u.rec = p.rec
  BY <1>4, <1>5, <1>6, TrackFields
<1> HIDE DEF u
<1>8. t.sink = u.sink /\ t.rec = u.rec /\ t.book = u.book
  BY <1>7 DEF State
<1> HIDE DEF t
<1>9. Signed(buy, lots) = Sign(buy) * lots
  BY SignedIs
<1>10. Shift(s, t, leg, Signed(buy, lots))
  BY <1>4, <1>5, <1>7, <1>8, <1>9 DEF Shift, Duty
<1> QED
  BY <1>1, <1>2, <1>10 DEF Bought

LEMMA RetriedExactly ==
    ASSUME Dependable, NEW s, Good(s), ~s.rec.halted,
           NEW leg \in Leg, NEW buy \in BOOLEAN, NEW lots \in Nat \ {0},
           NEW t \in TakerRetryPlain(s, leg, buy, lots, 0)
    PROVE  Bought(s, t, leg, buy, lots)
<1> DEFINE n == HedgeRetries - 0
           S == {[st |-> s, res |-> "maybe"]}
           Attempt(o, i) == IF o.res = "ok" THEN {o} ELSE PlaceTaker(o.st, leg, buy, lots)
           X == {o \in [st : State, res : {"ok", "reject", "maybe"}] : o.res = "ok" /\ Bought(s, o.st, leg, buy, lots)}
           P == [i \in 0..n |-> IF i = 0 THEN S ELSE X]
<1>1. n \in Nat \ {0} /\ s \in State
  BY Constants, GoodType
<1>3. ASSUME NEW o \in X, NEW i PROVE Attempt(o, i) \subseteq X
  BY <1>3
<1>4. ASSUME NEW o \in S, NEW i PROVE Attempt(o, i) \subseteq X
  <2> SUFFICES ASSUME NEW p \in PlaceTaker(s, leg, buy, lots) PROVE p \in X
    OBVIOUS
  <2>1. p.res = "ok" /\ Bought(s, p.st, leg, buy, lots)
    BY TakenExactly
  <2>2. p = [st |-> p.st, res |-> p.res]
    BY PlaceTakerOutcome
  <2>3. p.st \in State
    BY <2>1, AsideCalm, GoodType DEF Bought
  <2> QED
    BY <2>1, <2>2, <2>3
<1>15. t \in { IF o.res = "ok" THEN o.st ELSE OweHedge(o.st, leg, buy, lots) :
              o \in Loop(n, S, Attempt) }
  BY DEF TakerRetryPlain
<1> HIDE DEF S, X, Attempt, n
<1>5. P[n] = X
  BY <1>1
<1>6. n \in Nat
  BY <1>1
<1>7. S \subseteq P[0]
  BY <1>1
<1>8. \A i \in 1..n : \A o \in P[i - 1] : Attempt(o, i) \subseteq P[i]
  <2> TAKE i \in 1..n
  <2> TAKE o \in P[i - 1]
  <2>1. P[i] = X /\ P[i - 1] \in {S, X}
    BY <1>1
  <2> QED
    BY <2>1, <1>3, <1>4
<1> HIDE DEF P
<1> DEFINE F == [i \in 1..n |-> [o \in P[i - 1] |-> Attempt(o, i)]]
           Is(g) == g = [i \in 0..n |-> IF i = 0 THEN S ELSE UNION {Attempt(o, i) : o \in g[i - 1]}]
           it == CHOOSE g : Is(g)
<1>9. \A i \in 1..n : \A o \in P[i - 1] : F[i][o] = Attempt(o, i)
  BY <1>6
<1> HIDE DEF F
<1>10. PICK g : Run(g, n, S, F) /\ Within(n, g, P)
  <2>1. Preserves(n, S, F, P)
    BY <1>7, <1>8, <1>9 DEF Preserves
  <2> QED
    BY <1>6, <2>1, LoopExists
<1>11. Is(g)
  <2>1. ASSUME NEW i \in 1..n PROVE g[i] = UNION {Attempt(o, i) : o \in g[i - 1]}
    <3>1. \A o \in g[i - 1] : F[i][o] = Attempt(o, i)
      BY <1>6, <1>9, <1>10 DEF Within
    <3>2. \A y : y \in g[i] <=> \E o \in g[i - 1] : y \in F[i][o]
      BY <1>10 DEF Run
    <3>3. \A y : y \in g[i] <=> \E o \in g[i - 1] : y \in Attempt(o, i)
      BY <3>1, <3>2
    <3> QED
      BY <3>3
  <2>2. ASSUME NEW i \in 0..n
        PROVE  g[i] = IF i = 0 THEN S ELSE UNION {Attempt(o, i) : o \in g[i - 1]}
    <3>1. CASE i = 0
      BY <1>10, <3>1 DEF Run
    <3>2. CASE i # 0
      <4>1. i \in 1..n
        BY <3>2
      <4>2. g[i] = UNION {Attempt(o, i) : o \in g[i - 1]}
        BY <4>1, <2>1
      <4> QED
        BY <4>2, <3>2, Zenon
    <3> QED
      BY <3>1, <3>2
  <2> QED
    BY <2>2, <1>10 DEF Run
<1>12. Is(it)
  <2> HIDE DEF Is
  <2> QED
    BY <1>11
<1> HIDE DEF it
<1>13. it[n] \subseteq P[n]
  <2>1. it[0] = S
    BY <1>12, <1>6
  <2>2. ASSUME NEW i \in 1..n, it[i - 1] \subseteq P[i - 1] PROVE it[i] \subseteq P[i]
    <3>1. i \in 0..n /\ i # 0
      BY <1>6
    <3>2. it[i] = UNION {Attempt(o, i) : o \in it[i - 1]}
      BY <1>12, <3>1, Zenon
    <3> HIDE DEF Is
    <3> QED
      BY <3>2, <2>2, <1>8
  <2> HIDE DEF Is
  <2>3. it[0] \subseteq P[0]
    BY <2>1, <1>7
  <2>4. Within(n, it, P)
    BY <1>6, <2>2, <2>3, LoopStays
  <2> QED
    BY <2>4, <1>6 DEF Within
<1> HIDE DEF Is
<1>14. Loop(n, S, Attempt) = it[n]
  BY DEF Loop, it, Is
<1>16. PICK o \in X : t = IF o.res = "ok" THEN o.st ELSE OweHedge(o.st, leg, buy, lots)
  BY <1>5, <1>13, <1>14, <1>15
<1> QED
  BY <1>16 DEF X

LEMMA ChasedExactly ==
    ASSUME Dependable, NEW s, Good(s), ~s.rec.halted,
           NEW leg \in Leg, NEW buy \in BOOLEAN, NEW lots \in Nat \ {0},
           NEW r \in ShrinkTakerChase(s, leg, buy, lots)
    PROVE  \/ r.left = 0 /\ Bought(s, r.st, leg, buy, lots)
           \/ r.left = lots /\ r.st = s
<1> DEFINE n == 2 * lots
           start == [st |-> s, left |-> lots, size |-> lots, done |-> FALSE]
           S == {start}
           Next1(o, p) == CASE p.res = "ok" ->
                                 [ st |-> p.st, left |-> o.left - o.size,
                                   size |-> Min2(o.size, o.left - o.size),
                                   done |-> o.left = o.size ]
                            [] p.res = "maybe" -> [o EXCEPT !.st = p.st, !.done = TRUE]
                            [] OTHER -> [o EXCEPT !.st = p.st, !.size = @ - LotStep]
           Rung(o, i) == IF o.done \/ o.size < MinLots \/ o.size <= 0 THEN {o}
                         ELSE { Next1(o, p) : p \in PlaceTaker(o.st, leg, buy, o.size) }
           X == S \cup { o \in [st : State, left : {0}, size : Int, done : {TRUE}] :
                            Bought(s, o.st, leg, buy, lots) }
           P == [i \in 0..n |-> X]
<1>1. n \in Nat /\ s \in State
  BY GoodType
<1>2. S \subseteq X
  OBVIOUS
<1>3. ASSUME NEW o \in X, NEW i PROVE Rung(o, i) \subseteq X
  <2>1. CASE o.done \/ o.size < MinLots \/ o.size <= 0
    BY <2>1
  <2>2. CASE ~(o.done \/ o.size < MinLots \/ o.size <= 0)
    <3>1. o = start
      <4>1. o \in S \/ o.done = TRUE
        OBVIOUS
      <4>2. o \in S
        BY <2>2, <4>1
      <4> QED
        BY <4>2
    <3>2. Rung(o, i) = {Next1(start, p) : p \in PlaceTaker(s, leg, buy, lots)}
      <4>1. /\ start.st = s /\ start.size = lots
            /\ ~(start.done \/ start.size < MinLots \/ start.size <= 0)
        BY <2>2, <3>1
      <4> HIDE DEF start, Next1
      <4> QED
        BY <3>1, <4>1, Zenon
    <3> SUFFICES ASSUME NEW p \in PlaceTaker(s, leg, buy, lots) PROVE Next1(start, p) \in X
      <4> HIDE DEF X, Rung, Next1, start
      <4> QED
        BY <3>2
    <3>3. p.res = "ok" /\ Bought(s, p.st, leg, buy, lots)
      BY TakenExactly
    <3>4. p.st \in State
      BY <3>3, AsideCalm, GoodType DEF Bought
    <3>5. Next1(start, p) = [st |-> p.st, left |-> lots - lots, size |-> Min2(lots, lots - lots), done |-> lots = lots]
      BY <3>3
    <3>6. lots - lots = 0 /\ Min2(lots, lots - lots) \in Int
      BY DEF Min2
    <3> DEFINE q == Next1(start, p)
    <3>7. q = [st |-> p.st, left |-> 0, size |-> Min2(lots, lots - lots), done |-> TRUE]
      BY <3>5, <3>6
    <3>8. q.st = p.st /\ q \in [st : State, left : {0}, size : Int, done : {TRUE}]
      BY <3>4, <3>6, <3>7
    <3> HIDE DEF q
    <3>9. q \in X
      BY <3>3, <3>8
    <3> QED
      BY <3>9 DEF q
  <2> QED
    BY <2>1, <2>2
<1>4. r \in Loop(n, S, Rung)
  BY DEF ShrinkTakerChase
<1> HIDE DEF S, X, Rung, n
<1>5. P[n] = X
  BY <1>1
<1>6. n \in Nat
  BY <1>1
<1>7. S \subseteq P[0]
  BY <1>1, <1>2
<1>8. \A i \in 1..n : \A o \in P[i - 1] : Rung(o, i) \subseteq P[i]
  BY <1>1, <1>3
<1> HIDE DEF P
<1> DEFINE F == [i \in 1..n |-> [o \in P[i - 1] |-> Rung(o, i)]]
           Is(g) == g = [i \in 0..n |-> IF i = 0 THEN S ELSE UNION {Rung(o, i) : o \in g[i - 1]}]
           it == CHOOSE g : Is(g)
<1>9. \A i \in 1..n : \A o \in P[i - 1] : F[i][o] = Rung(o, i)
  BY <1>6
<1> HIDE DEF F
<1>10. PICK g : Run(g, n, S, F) /\ Within(n, g, P)
  <2>1. Preserves(n, S, F, P)
    BY <1>7, <1>8, <1>9 DEF Preserves
  <2> QED
    BY <1>6, <2>1, LoopExists
<1>11. Is(g)
  <2>1. ASSUME NEW i \in 1..n PROVE g[i] = UNION {Rung(o, i) : o \in g[i - 1]}
    <3>1. \A o \in g[i - 1] : F[i][o] = Rung(o, i)
      BY <1>6, <1>9, <1>10 DEF Within
    <3>2. \A y : y \in g[i] <=> \E o \in g[i - 1] : y \in F[i][o]
      BY <1>10 DEF Run
    <3>3. \A y : y \in g[i] <=> \E o \in g[i - 1] : y \in Rung(o, i)
      BY <3>1, <3>2
    <3> QED
      BY <3>3
  <2>2. ASSUME NEW i \in 0..n
        PROVE  g[i] = IF i = 0 THEN S ELSE UNION {Rung(o, i) : o \in g[i - 1]}
    <3>1. CASE i = 0
      BY <1>10, <3>1 DEF Run
    <3>2. CASE i # 0
      <4>1. i \in 1..n
        BY <3>2
      <4>2. g[i] = UNION {Rung(o, i) : o \in g[i - 1]}
        BY <4>1, <2>1
      <4> QED
        BY <4>2, <3>2, Zenon
    <3> QED
      BY <3>1, <3>2
  <2> QED
    BY <2>2, <1>10 DEF Run
<1>12. Is(it)
  <2> HIDE DEF Is
  <2> QED
    BY <1>11
<1> HIDE DEF it
<1>13. it[n] \subseteq P[n]
  <2>1. it[0] = S
    BY <1>12, <1>6
  <2>2. ASSUME NEW i \in 1..n, it[i - 1] \subseteq P[i - 1] PROVE it[i] \subseteq P[i]
    <3>1. i \in 0..n /\ i # 0
      BY <1>6
    <3>2. it[i] = UNION {Rung(o, i) : o \in it[i - 1]}
      BY <1>12, <3>1, Zenon
    <3> HIDE DEF Is
    <3> QED
      BY <3>2, <2>2, <1>8
  <2> HIDE DEF Is
  <2>3. it[0] \subseteq P[0]
    BY <2>1, <1>7
  <2>4. Within(n, it, P)
    BY <1>6, <2>2, <2>3, LoopStays
  <2> QED
    BY <2>4, <1>6 DEF Within
<1> HIDE DEF Is
<1>14. Loop(n, S, Rung) = it[n]
  BY DEF Loop, it, Is
<1>15. r \in X
  BY <1>4, <1>5, <1>13, <1>14
<1>16. CASE r \in S
  BY <1>16 DEF S
<1>17. CASE r \notin S
  <2>1. r.left \in {0} /\ Bought(s, r.st, leg, buy, lots)
    BY <1>15, <1>17 DEF X
  <2> QED
    BY <2>1
<1> QED
  BY <1>16, <1>17

LEMMA ToppedExactly ==
    ASSUME Dependable, NEW s, Good(s),
           NEW leg \in Leg, NEW buy \in BOOLEAN, NEW lots \in Nat,
           NEW t \in TopUp(s, leg, buy, lots)
    PROVE  /\ ~s.rec.halted => Bought(s, t, leg, buy, lots)
           /\ s.rec.halted => t = s
<1>1. CASE lots = 0
  <2>1. t = s
    BY <1>1 DEF TopUp
  <2>2. Signed(buy, lots) = 0
    BY <1>1, SignedZero
  <2>3. Shift(s, s, leg, Signed(buy, lots))
    BY <2>2, SinkType DEF Shift, Duty
  <2>4. Aside(s, s, {})
    BY AsideRefl
  <2>5. Bought(s, s, leg, buy, lots)
    BY <2>3, <2>4 DEF Bought
  <2> QED
    BY <2>1, <2>5, Zenon
<1>2. CASE lots # 0 /\ s.rec.halted
  BY <1>2 DEF TopUp, TakerRetry
<1>3. CASE lots # 0 /\ ~s.rec.halted
  <2>1. lots \in Nat \ {0} /\ t \in TakerRetryFrom(s, leg, buy, lots, 0)
    BY <1>3 DEF TopUp, TakerRetry
  <2>2. CASE LotStep = 0
    BY <1>3, <2>1, <2>2, RetriedExactly DEF TakerRetryFrom
  <2>3. CASE LotStep # 0
    <3>1. PICK o \in ShrinkTakerChase(s, leg, buy, lots) :
             t \in IF o.left = 0 THEN {o.st} ELSE TakerRetryPlain(o.st, leg, buy, o.left, 0)
      BY <2>1, <2>3 DEF TakerRetryFrom
    <3>2. \/ o.left = 0 /\ Bought(s, o.st, leg, buy, lots)
          \/ o.left = lots /\ o.st = s
      BY <1>3, <2>1, ChasedExactly
    <3> QED
      BY <1>3, <2>1, <3>1, <3>2, RetriedExactly
  <2> QED
    BY <1>3, <2>2, <2>3
<1> QED
  BY <1>1, <1>2, <1>3

-----------------------------------------------------------------------------
(* Retiring a maker: its broker answers, and what it executed beyond the   *)
(* fills seen moves its leg.                                               *)
Quits(s, r, id) ==
    /\ Duty(s, r.st) /\ r.st.book = s.book
    /\ \A j \in DOMAIN s.own \ {id} : r.st.orders[j] = s.orders[j]
    /\ id \notin Working(s) => r.gap = 0
    /\ id \in Working(s) => r.gap =< s.own[id].placed - s.own[id].seen
    /\ \A l \in Leg : r.st.sink[l] = s.sink[l] +
          IF id \in DOMAIN s.own /\ l = s.own[id].leg THEN Signed(s.own[id].buy, r.gap) ELSE 0

LEMMA SetAcctExactly ==
    ASSUME NEW s, Good(s), NEW id \in DOMAIN s.own, NEW a \in Acct,
           a.leg = s.own[id].leg, a.buy = s.own[id].buy,
           NEW d \in Int, d = a.credited - s.own[id].credited
    PROVE  Shift(s, SetAcct(s, id, a), a.leg, Signed(a.buy, d))
<1> DEFINE t == SetAcct(s, id, a)
<1>1. s \in State /\ a.leg \in Leg /\ a.buy \in BOOLEAN
  BY GoodType DEF Acct
<1>2. /\ \A l \in Leg : t.sink[l] = s.sink[l] + IF l = a.leg THEN Sign(a.buy) * (a.credited - s.own[id].credited) ELSE 0
      /\ t.book = s.book /\ t.rec = s.rec
  BY <1>1, SetAcctFields
<1>3. Signed(a.buy, d) = Sign(a.buy) * (a.credited - s.own[id].credited)
  BY SignedIs
<1> HIDE DEF t
<1>4. Shift(s, t, a.leg, Signed(a.buy, d))
  BY <1>2, <1>3 DEF Shift, Duty
<1> QED
  BY <1>4 DEF t

LEMMA RetiredExactly ==
    ASSUME Dependable, NEW s, Good(s), NEW id, id \in DOMAIN s.own => s.own[id].maker = TRUE,
           NEW r \in RetireOrder(s, id)
    PROVE  Quits(s, r, id)
<1> DEFINE a == s.own[id]
           o == s.orders[id]
<1>1. CASE id \notin DOMAIN s.own \/ (id \in DOMAIN s.own /\ a.deferred)
  <2>1. r.st = s /\ r.gap = 0
    <3>1. RetireOrder(s, id) = {[st |-> s, gap |-> 0]}
      BY <1>1, Zenon DEF RetireOrder
    <3> QED
      BY <3>1
  <2>2. id \notin Working(s)
    BY <1>1 DEF Working
  <2>3. Signed(s.own[id].buy, 0) = 0
    BY SignedZero
  <2>4. \A l \in Leg : s.sink[l] = s.sink[l] + 0
    BY SinkType
  <2>5. \A l \in Leg : s.sink[l] = s.sink[l] +
          IF id \in DOMAIN s.own /\ l = s.own[id].leg THEN Signed(s.own[id].buy, 0) ELSE 0
    BY <2>3, <2>4
  <2>6. Quits(s, [st |-> s, gap |-> 0], id)
    BY <2>2, <2>5 DEF Quits, Duty
  <2> QED
    BY <2>1, <2>6 DEF Quits
<1>2. CASE id \in DOMAIN s.own /\ ~a.deferred /\ a.final >= 0
  <2>1. r.st = SetAcct(s, id, FoldGap(a)) /\ r.gap = RetireGap(a)
    <3>1. RetireOrder(s, id) = {[st |-> SetAcct(s, id, FoldGap(a)), gap |-> RetireGap(a)]}
      BY <1>2, Zenon DEF RetireOrder
    <3> QED
      BY <3>1
  <2>2. a \in Acct /\ AcctOK(a, o) /\ a.maker = TRUE /\ o \in OrderType /\ OrderOK(o) /\ s \in State
    BY <1>2, GoodType
  <2>3. a.final \in Int /\ a.folded \in Nat /\ a.folded >= a.final /\ a.credited \in Nat
    BY <1>2, <2>2 DEF Acct, AcctOK
  <2> DEFINE c == Closed(a, o)
  <2>4. /\ c \in Acct /\ RetireGap(a) = c.credited - a.credited
        /\ c.leg = a.leg /\ c.buy = a.buy /\ FoldGap(a) = c
    <3>1. Answer(a, o) = a /\ ~a.deferred
      BY <1>2 DEF Answer
    <3> HIDE DEF a, o
    <3>2. /\ Closed(a, o) \in Acct
          /\ RetireGap(Answer(a, o)) = Closed(a, o).credited - a.credited
          /\ Closed(a, o).leg = a.leg /\ Closed(a, o).buy = a.buy
          /\ ~a.deferred => FoldGap(Answer(a, o)) = Closed(a, o)
      BY <2>2, ClosedAccount
    <3> QED
      BY <3>1, <3>2
  <2>6. RetireGap(a) = 0
    BY <2>3 DEF RetireGap, Max2
  <2> HIDE DEF c
  <2>7. Shift(s, r.st, a.leg, Signed(a.buy, 0))
    BY <1>2, <2>1, <2>4, <2>6, SetAcctExactly
  <2>8. r.st.orders = s.orders
    BY <1>2, <2>1, <2>2, <2>4, SetAcctFields
  <2>9. id \notin Working(s)
    BY <1>2, <2>3 DEF Working
  <2> QED
    BY <1>2, <2>1, <2>6, <2>7, <2>8, <2>9 DEF Quits, Shift
<1>3. CASE id \in DOMAIN s.own /\ ~a.deferred /\ ~(a.final >= 0)
  <2> DEFINE u == [s EXCEPT !.orders[id].live = FALSE]
             b == FoldGap(FinishRetire(u.own[id], u.orders[id].exec))
  <2>1. a \in Acct /\ AcctOK(a, o) /\ a.maker = TRUE /\ o \in OrderType /\ OrderOK(o) /\ s \in State
    BY <1>3, GoodType
  <2>2. r = [st |-> SetAcct(u, id, b), gap |-> RetireGap(FinishRetire(u.own[id], u.orders[id].exec))]
    <3>1. AskTerminal(s, id) = {[st |-> u, answered |-> TRUE]}
      BY NoFaults DEF AskTerminal
    <3>2. RetireOrder(s, id) =
            {[st |-> SetAcct(u, id, b), gap |-> RetireGap(FinishRetire(u.own[id], u.orders[id].exec))]}
      <4> DEFINE v == [st |-> u, answered |-> TRUE]
                 G(q) == IF q.answered
                         THEN LET e == FinishRetire(q.st.own[id], q.st.orders[id].exec)
                              IN  [st |-> SetAcct(q.st, id, FoldGap(e)), gap |-> RetireGap(e)]
                         ELSE [ st |-> [q.st EXCEPT !.own[id].deferred = TRUE,
                                                    !.rec = QueueRetire(@, id)], gap |-> 0 ]
      <4>1. RetireOrder(s, id) = {G(q) : q \in AskTerminal(s, id)}
        BY <1>3, Zenon DEF RetireOrder
      <4>2. {G(q) : q \in {v}} = {G(v)}
        <5> HIDE DEF G, v
        <5> QED
          OBVIOUS
      <4>3. v.st = u /\ v.answered
        OBVIOUS
      <4>4. G(v) = [st |-> SetAcct(u, id, b), gap |-> RetireGap(FinishRetire(u.own[id], u.orders[id].exec))]
        <5> HIDE DEF v, u
        <5> QED
          BY <4>3, Zenon
      <4> HIDE DEF G
      <4> QED
        BY <3>1, <4>1, <4>2, <4>4
    <3> QED
      BY <3>2
  <2>3. /\ Asked(s, u, id) /\ ~u.orders[id].live /\ u.book = s.book
    <3>1. u.book = s.book
      BY <2>1 DEF State
    <3> HIDE DEF u
    <3>2. Asked(s, u, id) /\ ~u.orders[id].live
      BY <1>3, <2>1, EndedFields DEF u
    <3> QED
      BY <3>1, <3>2
  <2>4. /\ Good(u) /\ u.own = s.own /\ u.rec = s.rec /\ u.sink = s.sink /\ u.orders[id].exec = o.exec
        /\ \A j \in DOMAIN s.own \ {id} : u.orders[j] = s.orders[j]
    BY <2>3 DEF Asked, Aside
  <2> HIDE DEF u
  <2> DEFINE p == u.orders[id]
  <2>5. p \in OrderType /\ OrderOK(p) /\ AcctOK(a, p)
    BY <1>3, <2>4, GoodType
  <2>6. a.final \in Int /\ a.final < 0
    BY <1>3, <2>1 DEF Acct
  <2>7. Answer(a, p) = FinishRetire(a, p.exec)
    BY <2>6 DEF Answer
  <2> DEFINE gap == RetireGap(Answer(a, p))
             c == Closed(a, p)
  <2>8. /\ c \in Acct /\ gap \in Nat /\ gap = c.credited - a.credited
        /\ c.leg = a.leg /\ c.buy = a.buy /\ FoldGap(Answer(a, p)) = c
    BY <1>3, <2>1, <2>5, ClosedAccount
  <2>9. r.st = SetAcct(u, id, c) /\ r.gap = gap
    BY <2>2, <2>4, <2>7, <2>8
  <2> HIDE DEF gap, c
  <2>10. Shift(u, r.st, a.leg, Signed(a.buy, gap)) /\ gap = r.gap
    BY <1>3, <2>4, <2>8, <2>9, SetAcctExactly
  <2>11. Shift(s, r.st, a.leg, Signed(a.buy, r.gap))
    BY <2>3, <2>4, <2>10 DEF Shift, Duty
  <2>12. r.st.orders = u.orders
    BY <1>3, <2>4, <2>8, <2>9, GoodType, SetAcctFields
  <2>13. gap =< a.placed - a.seen
    <3>1. /\ a.placed \in Nat /\ a.seen \in Nat /\ a.folded \in Nat /\ p.exec \in Nat
          /\ a.folded = a.seen /\ a.seen =< a.placed
      BY <2>1, <2>5, <2>6 DEF Acct, AcctOK, OrderType
    <3>2. gap = Max2(0, Min2(p.exec, a.placed) - a.folded)
      BY <2>1, <2>7 DEF gap, RetireGap, FinishRetire, Acct
    <3> QED
      BY <3>1, <3>2 DEF Max2, Min2
  <2>14. id \in Working(s)
    BY <1>3, <2>1, <2>6 DEF Working
  <2> HIDE DEF a
  <2> QED
    BY <1>3, <2>4, <2>10, <2>11, <2>12, <2>13, <2>14 DEF Quits, Shift, a
<1> QED
  BY <1>1, <1>2, <1>3

(* At most n lots of a leg are credited, or no more than its maker has     *)
(* seen filled.                                                            *)
Room(s, leg, n) ==
    /\ n =< s.clip.target
    /\ s.clip[leg] \in Working(s) => n =< s.own[s.clip[leg]].seen

LEMMA LegRetiredExactly ==
    ASSUME Dependable, NEW s, Good(s), NEW leg \in Leg, s.clip.dir \in {-1, 1}, LegOK(s, leg),
           NEW n \in Nat, Room(s, leg, n), NEW r \in RetireOrder(s, s.clip[leg])
    PROVE  /\ Shift(s, r.st, leg, Signed(LegBuys(s.clip.dir, leg), r.gap))
           /\ r.gap \in Nat /\ n + r.gap \in 0..s.clip.target
           /\ \A j \in DOMAIN s.own \ {s.clip[leg]} : r.st.orders[j] = s.orders[j]
           /\ s.clip[leg] \notin Working(s) => r.gap = 0
<1> DEFINE id == s.clip[leg]
           b == LegBuys(s.clip.dir, leg)
<1>1. /\ id \in DOMAIN s.own => /\ s.own[id].maker = TRUE /\ s.own[id].leg = leg
                                /\ s.own[id].buy = b /\ s.own[id].placed = s.clip.target
                                /\ s.own[id].seen \in Nat
      /\ s.clip.target \in Nat
  <2>1. id \in DOMAIN s.own => id # 0 /\ s.own[id].maker \in BOOLEAN /\ s.own[id].seen \in Nat
    BY GoodType DEF Acct
  <2> QED
    BY <2>1, GoodType, ClipType DEF LegOK
<1>2. Quits(s, r, id)
  BY <1>1, RetiredExactly
<1>3. r.gap \in Nat
  BY <1>1, RetireOrderOutcome DEF Retired
<1>4. \A l \in Leg : r.st.sink[l] = s.sink[l] + IF l = leg THEN Signed(b, r.gap) ELSE 0
  <2>1. CASE id \in DOMAIN s.own
    BY <1>1, <1>2, <2>1 DEF Quits
  <2>2. CASE id \notin DOMAIN s.own
    <3>1. id \notin Working(s)
      BY <2>2 DEF Working
    <3>2. r.gap = 0 /\ Signed(b, r.gap) = 0
      BY <1>2, <3>1, SignedZero DEF Quits
    <3> QED
      BY <1>2, <2>2, <3>2 DEF Quits
  <2> QED
    BY <2>1, <2>2
<1>5. Shift(s, r.st, leg, Signed(b, r.gap))
  BY <1>2, <1>4 DEF Shift, Quits
<1>6. n + r.gap \in 0..s.clip.target
  <2>1. CASE id \in Working(s)
    <3>1. id \in DOMAIN s.own
      BY <2>1 DEF Working
    <3>2. r.gap =< s.own[id].placed - s.own[id].seen /\ n =< s.own[id].seen
      BY <1>2, <2>1 DEF Quits, Room
    <3> QED
      BY <1>1, <1>3, <3>1, <3>2
  <2>2. CASE id \notin Working(s)
    <3>1. r.gap = 0 /\ n =< s.clip.target
      BY <1>2, <2>2 DEF Quits, Room
    <3> QED
      BY <1>1, <3>1
  <2> QED
    BY <2>1, <2>2
<1> QED
  BY <1>2, <1>3, <1>5, <1>6 DEF Quits

(* The lots of each leg, the other way round on leg B.                     *)
Drift(s, t, dir, m, n) ==
    /\ t.sink["A"] = s.sink["A"] + Along(dir, m)
    /\ t.sink["B"] = s.sink["B"] - Along(dir, n)
    /\ t.book = s.book
    /\ Duty(s, t)

LEMMA AlongType ==
    ASSUME NEW dir \in {-1, 0, 1}, NEW n \in Int
    PROVE  Along(dir, n) \in Int /\ Along(dir, 0) = 0 /\ (dir = 0 => Along(dir, n) = 0)
<1>1. ASSUME NEW k \in Int, k = 0 PROVE Along(dir, k) = 0
  <2>1. Along(dir, k) \in {k, -k, 0}
    BY DEF Along
  <2> QED
    BY <1>1, <2>1
<1>2. Along(dir, n) \in Int /\ (dir = 0 => Along(dir, n) = 0)
  BY DEF Along
<1> QED
  BY <1>1, <1>2

LEMMA ShiftDrifts ==
    ASSUME NEW s, Good(s), NEW t, NEW leg \in Leg, NEW dir \in {-1, 1}, NEW n \in Int,
           Shift(s, t, leg, Signed(LegBuys(dir, leg), n))
    PROVE  /\ leg = "A" => Drift(s, t, dir, n, 0)
           /\ leg = "B" => Drift(s, t, dir, 0, n)
<1>1. Along(dir, 0) = 0 /\ Along(dir, n) \in Int /\ s.sink["A"] \in Int /\ s.sink["B"] \in Int
  BY AlongType, SinkType
<1>2. CASE leg = "A"
  <2>1. Signed(LegBuys(dir, "A"), n) = Along(dir, n)
    BY SignedSides
  <2>2. t.sink["A"] = s.sink["A"] + Along(dir, n) /\ t.sink["B"] = s.sink["B"] + 0
    BY <1>2, <2>1 DEF Shift, Leg
  <2> QED
    BY <1>1, <1>2, <2>2 DEF Shift, Drift
<1>3. CASE leg = "B"
  <2>1. Signed(LegBuys(dir, "B"), n) = -Along(dir, n)
    BY SignedSides
  <2>2. t.sink["A"] = s.sink["A"] + 0 /\ t.sink["B"] = s.sink["B"] + (-Along(dir, n))
    BY <1>3, <2>1 DEF Shift, Leg
  <2> QED
    BY <1>1, <1>3, <2>2 DEF Shift, Drift
<1> QED
  BY <1>2, <1>3 DEF Leg

LEMMA DriftTrans ==
    ASSUME NEW s, Good(s), NEW t, NEW u, NEW dir \in {-1, 0, 1},
           NEW m \in Int, NEW n \in Int, NEW j \in Int, NEW k \in Int,
           Drift(s, t, dir, m, n), Drift(t, u, dir, j, k)
    PROVE  Drift(s, u, dir, m + j, n + k)
<1>1. /\ Along(dir, m + j) = Along(dir, m) + Along(dir, j)
      /\ Along(dir, n + k) = Along(dir, n) + Along(dir, k)
      /\ Along(dir, m) \in Int /\ Along(dir, j) \in Int /\ Along(dir, n) \in Int /\ Along(dir, k) \in Int
  <2>1. Along(dir, m + j) = Along(dir, m) + Along(dir, j) /\ Along(dir, m) \in Int /\ Along(dir, j) \in Int
    BY DEF Along
  <2>2. Along(dir, n + k) = Along(dir, n) + Along(dir, k) /\ Along(dir, n) \in Int /\ Along(dir, k) \in Int
    BY DEF Along
  <2> QED
    BY <2>1, <2>2
<1>2. s.sink["A"] \in Int /\ s.sink["B"] \in Int
  BY SinkType
<1>3. /\ u.sink["A"] = s.sink["A"] + Along(dir, m + j)
      /\ u.sink["B"] = s.sink["B"] - Along(dir, n + k)
  <2>1. /\ t.sink["A"] = s.sink["A"] + Along(dir, m) /\ u.sink["A"] = t.sink["A"] + Along(dir, j)
        /\ t.sink["B"] = s.sink["B"] - Along(dir, n) /\ u.sink["B"] = t.sink["B"] - Along(dir, k)
    BY DEF Drift
  <2> QED
    BY <1>1, <1>2, <2>1
<1>4. u.book = s.book /\ Duty(s, u)
  BY DEF Drift, Duty
<1> QED
  BY <1>3, <1>4 DEF Drift

LEMMA BalancedExactly ==
    ASSUME Dependable, NEW s, Good(s), NEW dir \in {-1, 1}, NEW m \in Nat, NEW h \in Nat,
           NEW bA, bA = LegBuys(dir, "A"), NEW bB, bB = LegBuys(dir, "B"),
           NEW u \in TopUp(s, "A", bA, m), NEW v \in TopUp(u, "B", bB, h)
    PROVE  /\ ~s.rec.halted => Drift(s, v, dir, m, h)
           /\ s.rec.halted => v = s
<1>1. bA \in BOOLEAN /\ bB \in BOOLEAN /\ "A" \in Leg /\ "B" \in Leg
  BY DEF LegBuys, Leg
<1>2. /\ ~s.rec.halted => Bought(s, u, "A", bA, m)
      /\ s.rec.halted => u = s
  BY <1>1, ToppedExactly
<1>3. CASE s.rec.halted
  BY <1>1, <1>2, <1>3, ToppedExactly
<1>4. CASE ~s.rec.halted
  <2>1. Good(u) /\ u.rec.halted = s.rec.halted /\ Shift(s, u, "A", Signed(bA, m))
    BY <1>2, <1>4, AsideCalm DEF Bought, Evolve
  <2>2. Bought(u, v, "B", bB, h)
    BY <1>1, <1>4, <2>1, ToppedExactly
  <2>3. Shift(u, v, "B", Signed(bB, h))
    BY <2>2 DEF Bought
  <2>4. Drift(s, u, dir, m, 0)
    BY <1>1, <2>1, ShiftDrifts
  <2>5. Drift(u, v, dir, 0, h)
    BY <1>1, <2>1, <2>3, ShiftDrifts
  <2>6. Drift(s, v, dir, m + 0, 0 + h)
    BY <2>4, <2>5, DriftTrans
  <2>7. m + 0 = m /\ 0 + h = h
    OBVIOUS
  <2> QED
    BY <1>4, <2>6, <2>7
<1> QED
  BY <1>3, <1>4

(* Both legs are retired and topped up; a halted engine only retires.      *)
Levels(s, t, realA, realB, complete) ==
    \E m \in Nat, n \in Int :
       /\ Drift(s, t, s.clip.dir, m, n)
       /\ realA + m \in 0..s.clip.target
       /\ ~s.rec.halted /\ complete => realA + m = s.clip.target
       /\ s.rec.halted => n \in Nat /\ realB + n \in 0..s.clip.target /\ (n = 0 \/ HedgeRatio = 1)

LEMMA BothRetiredExactly ==
    ASSUME Dependable, NEW s, Good(s), s.clip.dir \in {-1, 1}, LegOK(s, "A"), LegOK(s, "B"),
           Working(s) \subseteq {s.clip.A, s.clip.B}, NEW realA \in Nat, NEW realB \in Nat,
           Room(s, "A", realA), Room(s, "B", realB),
           NEW ra \in RetireOrder(s, s.clip.A), NEW rb \in RetireOrder(ra.st, s.clip.B)
    PROVE  /\ Calm(s, rb.st) /\ Working(rb.st) = {}
           /\ Drift(s, rb.st, s.clip.dir, ra.gap, rb.gap)
           /\ ra.gap \in Nat /\ realA + ra.gap \in 0..s.clip.target
           /\ rb.gap \in Nat /\ realB + rb.gap \in 0..s.clip.target
           /\ rb.gap = 0 \/ HedgeRatio = 1
<1> DEFINE c == s.clip
           dir == c.dir
<1>1. /\ s \in State /\ c \in Clip /\ c["A"] = c.A /\ c["B"] = c.B /\ c.target \in Nat /\ dir \in {-1, 1}
      /\ "A" \in Leg /\ "B" \in Leg
  BY GoodType, ClipType DEF Leg
<1>3. LegRetired(s, ra, "A")
  BY <1>1, RetireLegOutcome
<1>4. /\ Good(ra.st) /\ Evolve(s, ra.st) /\ ra.st.clip = c /\ Calm(s, ra.st)
      /\ \A j \in DOMAIN s.own \ {c.A} : ra.st.own[j] = s.own[j]
      /\ Working(ra.st) \subseteq Working(s) \ {c.A}
  BY <1>1, <1>3 DEF LegRetired, Retired
<1>5. LegOK(ra.st, "B")
  BY <1>4, LegKept
<1>7. LegRetired(ra.st, rb, "B")
  <2>1. rb \in RetireOrder(ra.st, ra.st.clip["B"]) /\ ra.st.clip.dir \in {-1, 1}
    BY <1>1, <1>4
  <2> QED
    BY <1>1, <1>4, <1>5, <2>1, RetireLegOutcome
<1>8. Good(rb.st) /\ rb.st.rec.halted = s.rec.halted
  BY <1>4, <1>7 DEF LegRetired, Retired, Calm, Evolve
<1>9. /\ Shift(s, ra.st, "A", Signed(LegBuys(dir, "A"), ra.gap))
      /\ ra.gap \in Nat /\ realA + ra.gap \in 0..c.target
  <2>1. ra \in RetireOrder(s, s.clip["A"])
    BY <1>1
  <2> QED
    BY <1>1, <2>1, LegRetiredExactly
<1>10. Room(ra.st, "B", realB)
  <2>1. ASSUME c.B \in Working(ra.st) PROVE realB =< ra.st.own[c.B].seen
    <3>1. c.B \in Working(s) /\ c.B # c.A
      BY <1>4, <2>1
    <3>2. ra.st.own[c.B] = s.own[c.B]
      BY <1>4, <3>1 DEF Working
    <3> QED
      BY <1>1, <3>1, <3>2 DEF Room
  <2> QED
    BY <1>1, <1>4, <2>1 DEF Room
<1>11. /\ Shift(ra.st, rb.st, "B", Signed(LegBuys(dir, "B"), rb.gap))
       /\ rb.gap \in Nat /\ realB + rb.gap \in 0..c.target
       /\ c.B \notin Working(ra.st) => rb.gap = 0
  <2>1. rb \in RetireOrder(ra.st, ra.st.clip["B"]) /\ ra.st.clip = c /\ c["B"] = c.B
    BY <1>1, <1>4
  <2> HIDE DEF c
  <2>2. /\ Shift(ra.st, rb.st, "B", Signed(LegBuys(ra.st.clip.dir, "B"), rb.gap))
        /\ rb.gap \in Nat /\ realB + rb.gap \in 0..ra.st.clip.target
        /\ ra.st.clip["B"] \notin Working(ra.st) => rb.gap = 0
    BY <1>1, <1>4, <1>5, <1>10, <2>1, LegRetiredExactly
  <2> QED
    BY <2>1, <2>2
<1>12. rb.gap = 0 \/ HedgeRatio = 1
  <2>1. ASSUME c.B \in Working(ra.st) PROVE HedgeRatio = 1
    <3>1. c.B \in DOMAIN ra.st.own /\ c.B # 0
      BY <1>4, <2>1, GoodType DEF Working
    <3>2. AcctOK(ra.st.own[c.B], ra.st.orders[c.B]) /\ ra.st.own[c.B].maker /\ ra.st.own[c.B].leg = "B"
      BY <1>1, <1>4, <1>5, <3>1, GoodType DEF LegOK
    <3> QED
      BY <3>2 DEF AcctOK
  <2> QED
    BY <1>11, <2>1
<1>13. Drift(s, rb.st, dir, ra.gap, rb.gap)
  <2>0. ra.gap \in Int /\ rb.gap \in Int
    BY <1>9, <1>11
  <2> HIDE DEF dir
  <2>1. Drift(s, ra.st, dir, ra.gap, 0)
    BY <1>1, <1>9, <2>0, ShiftDrifts
  <2>2. Drift(ra.st, rb.st, dir, 0, rb.gap)
    BY <1>1, <1>4, <1>11, <2>0, ShiftDrifts
  <2>3. Drift(s, rb.st, dir, ra.gap + 0, 0 + rb.gap)
    <3> DEFINE g == ra.gap
               h == rb.gap
    <3>1. g \in Int /\ h \in Int
      BY <1>9, <1>11
    <3> HIDE DEF g, h
    <3>2. Drift(s, rb.st, dir, g + 0, 0 + h)
      BY <1>1, <2>1, <2>2, <3>1, DriftTrans DEF g, h
    <3> QED
      BY <3>2 DEF g, h
  <2>4. ra.gap + 0 = ra.gap /\ 0 + rb.gap = rb.gap
    BY <1>9, <1>11
  <2> QED
    BY <2>3, <2>4
<1>14. Calm(s, rb.st) /\ Working(rb.st) = {}
  <2>1. Calm(ra.st, rb.st) /\ Working(rb.st) \subseteq Working(ra.st) \ {c.B}
    BY <1>1, <1>4, <1>7 DEF LegRetired, Retired
  <2> QED
    BY <1>4, <2>1, CalmTrans
<1> QED
  BY <1>9, <1>11, <1>12, <1>13, <1>14

LEMMA SettledExactly ==
    ASSUME Dependable, NEW s, Good(s), s.clip.dir \in {-1, 1}, LegOK(s, "A"), LegOK(s, "B"),
           Working(s) \subseteq {s.clip.A, s.clip.B},
           NEW realA \in Nat, NEW realB \in Nat, NEW complete \in BOOLEAN,
           Room(s, "A", realA), Room(s, "B", realB),
           NEW t \in SettleClip(s, realA, realB, complete)
    PROVE  Levels(s, t, realA, realB, complete)
<1> DEFINE c == s.clip
           dir == c.dir
           Want(a, b) == Max2(Max2(a, b), IF complete THEN c.target ELSE 0)
           Balance(v, a, b) ==
              UNION { TopUp(u, "B", LegBuys(dir, "B"), HedgeLots("B", Want(a, b) - b)) :
                      u \in TopUp(v, "A", LegBuys(dir, "A"), Want(a, b) - a) }
<1>1. /\ s \in State /\ c \in Clip /\ c["A"] = c.A /\ c["B"] = c.B /\ c.target \in Nat /\ dir \in {-1, 1}
      /\ "A" \in Leg /\ "B" \in Leg
  BY GoodType, ClipType DEF Leg
<1>2. PICK ra \in RetireOrder(s, c.A) :
         \E rb \in RetireOrder(ra.st, c.B) : t \in Balance(rb.st, realA + ra.gap, realB + rb.gap)
  BY DEF SettleClip, After
<1>6. PICK rb \in RetireOrder(ra.st, c.B) : t \in Balance(rb.st, realA + ra.gap, realB + rb.gap)
  BY <1>2
<1>7. /\ Calm(s, rb.st) /\ Drift(s, rb.st, dir, ra.gap, rb.gap)
      /\ ra.gap \in Nat /\ realA + ra.gap \in 0..c.target
      /\ rb.gap \in Nat /\ realB + rb.gap \in 0..c.target
      /\ rb.gap = 0 \/ HedgeRatio = 1
  BY BothRetiredExactly
<1>8. Good(rb.st) /\ rb.st.rec.halted = s.rec.halted
  BY <1>7 DEF Calm, Evolve
<1> DEFINE a == realA + ra.gap
           b == realB + rb.gap
           w == Want(a, b)
           m == w - a
           n == w - b
           h == HedgeLots("B", n)
<1>14. /\ m \in Nat /\ n \in Nat /\ h \in Nat /\ a \in 0..c.target /\ a + m \in 0..c.target
       /\ complete => a + m = c.target
  <2>1. a \in 0..c.target /\ b \in 0..c.target
    BY <1>7
  <2> HIDE DEF a, b
  <2>2. w \in 0..c.target /\ a =< w /\ b =< w /\ (complete => w = c.target)
    BY <1>1, <2>1 DEF Max2
  <2> HIDE DEF w
  <2>3. m \in Nat /\ n \in Nat /\ a + m = w
    BY <1>1, <2>1, <2>2
  <2> HIDE DEF m, n
  <2> QED
    BY <2>1, <2>2, <2>3, HedgeLotsType
<1>15. PICK u \in TopUp(rb.st, "A", LegBuys(dir, "A"), m) : t \in TopUp(u, "B", LegBuys(dir, "B"), h)
  BY <1>6
<1>16. /\ ~s.rec.halted => Drift(rb.st, t, dir, m, h)
       /\ s.rec.halted => t = rb.st
  <2> HIDE DEF m, h, dir
  <2> QED
    BY <1>1, <1>8, <1>14, <1>15, BalancedExactly
<1>17. CASE s.rec.halted
  <2>1. Drift(s, t, dir, ra.gap, rb.gap)
    BY <1>7, <1>16, <1>17
  <2> HIDE DEF c, dir
  <2> QED
    BY <1>7, <1>17, <2>1 DEF Levels, c, dir
<1>18. CASE ~s.rec.halted
  <2> DEFINE g == ra.gap
             k == rb.gap
  <2>1. g \in Int /\ k \in Int /\ m \in Int /\ h \in Int /\ realA + (g + m) = a + m /\ g + m \in Nat
    BY <1>7, <1>14
  <2>2. Drift(s, rb.st, dir, g, k) /\ Drift(rb.st, t, dir, m, h)
    BY <1>7, <1>16, <1>18
  <2> HIDE DEF c, dir, g, k, m, h, a
  <2>6. dir \in {-1, 0, 1} /\ g \in Int /\ k \in Int /\ m \in Int /\ h \in Int
    BY <1>1, <2>1
  <2>3. Drift(s, t, dir, g + m, k + h)
    BY <2>2, <2>6, DriftTrans
  <2>4. k + h \in Int
    BY <2>1
  <2> DEFINE j == g + m
  <2>5. j \in Nat /\ realA + j \in 0..c.target /\ (complete => realA + j = c.target)
    BY <1>14, <2>1
  <2> HIDE DEF j
  <2> QED
    BY <1>18, <2>3, <2>4, <2>5 DEF Levels, c, dir, j
<1> QED
  BY <1>17, <1>18

-----------------------------------------------------------------------------
(* The clip's lots are what is left of the cap: `real' of them are in the  *)
(* ledger's leg A, and with none, with all, or with any number of them     *)
(* between, it stays inside.  Nothing is owed or queued, and a lot book    *)
(* holds what was there before the clip.                                   *)
Fits(s, cap, real) ==
    LET base == s.sink["A"] - Along(s.clip.dir, real)
    IN  /\ ~s.rec.impaired /\ s.rec.retireQ = <<>> /\ s.rec.debts = <<>>
        /\ s.clip.lots = s.clip.target /\ s.clip.filled =< s.clip.target
        /\ base \in -cap..cap /\ base + Along(s.clip.dir, s.clip.target) \in -cap..cap
        /\ LotBook /\ ~s.rec.halted => s.book = base

(* A maker has told of what its clip counts, and rests or is full.         *)
Rested(s) ==
    \A id \in Working(s) : /\ s.own[id].seen = s.clip.filled
                           /\ s.orders[id].live \/ s.orders[id].exec = s.orders[id].size

Sized(s, cap) == Fits(s, cap, s.clip.filled) /\ Rested(s)

LEMMA FitsDrift ==
    ASSUME NEW cap \in Nat, NEW s, Good(s), NEW real \in Int, NEW j \in Int, NEW k \in Int, NEW v,
           Fits(s, cap, real), Drift(s, v, s.clip.dir, j, k), v.clip = s.clip
    PROVE  Fits(v, cap, real + j)
<1> DEFINE dir == s.clip.dir
<1>1. s.sink["A"] \in Int /\ dir \in {-1, 0, 1}
  BY SinkType, GoodType, ClipType
<1>2. v.sink["A"] = s.sink["A"] + Along(dir, j) /\ v.book = s.book /\ Duty(s, v)
  BY DEF Drift
<1>3. v.sink["A"] - Along(dir, real + j) = s.sink["A"] - Along(dir, real)
  <2> HIDE DEF dir
  <2>1. Along(dir, real + j) = Along(dir, real) + Along(dir, j) /\ Along(dir, j) \in Int /\ Along(dir, real) \in Int
    BY <1>1 DEF Along
  <2> QED
    BY <1>1, <1>2, <2>1
<1> QED
  BY <1>2, <1>3 DEF Fits, Duty

(* The clip has ended with w lots of the pair.                             *)
LEMMA Landed ==
    ASSUME NEW cap \in Nat, NEW s, Good(s), NEW real \in Int, Fits(s, cap, real),
           NEW t, t.clip = Idle, Working(t) = {}, Duty(s, t), NEW w \in 0..s.clip.target,
           t.sink["A"] = s.sink["A"] + Along(s.clip.dir, w - real),
           LotBook /\ ~s.rec.halted => t.book = s.book + Along(s.clip.dir, w)
    PROVE  Sized(t, cap)
<1> DEFINE dir == s.clip.dir
           n == s.clip.target
           base == s.sink["A"] - Along(dir, real)
<1>1. s.sink["A"] \in Int /\ dir \in {-1, 0, 1} /\ n \in Nat /\ w \in Int
  BY SinkType, GoodType, ClipType
<1>2. base \in -cap..cap /\ base + Along(dir, n) \in -cap..cap /\ (LotBook /\ ~s.rec.halted => s.book = base)
  BY DEF Fits
<1>3. /\ Idle.dir = 0 /\ Idle.lots = 0 /\ Idle.target = 0 /\ Idle.filled = 0
      /\ Along(Idle.dir, 0) = 0
  BY DEF Idle, Along
<1>4. t.sink["A"] = base + Along(dir, w)
  <2>1. Along(dir, w - real) = Along(dir, w) - Along(dir, real) /\ Along(dir, w) \in Int /\ Along(dir, real) \in Int
    <3> HIDE DEF dir
    <3> QED
      BY <1>1 DEF Along
  <2> QED
    BY <1>1, <2>1
<1>5. base + Along(dir, w) \in -cap..cap
  <2> HIDE DEF base
  <2>0. base \in Int
    BY <1>2, SMT
  <2> HIDE DEF dir, n
  <2>1. 0 =< w /\ w =< n
    BY <1>1 DEF n
  <2> QED
    BY <1>1, <1>2, <2>0, <2>1 DEF Along
<1>6. t.sink["A"] - 0 = t.sink["A"] /\ t.sink["A"] + 0 = t.sink["A"]
  BY <1>4, <1>5
<1>7. LotBook /\ ~t.rec.halted => t.book = t.sink["A"]
  BY <1>2, <1>4 DEF Duty
<1> HIDE DEF base
<1>8. t.sink["A"] \in -cap..cap
  BY <1>4, <1>5
<1>9. Fits(t, cap, 0)
  <2>1. ~t.rec.impaired /\ t.rec.retireQ = <<>> /\ t.rec.debts = <<>>
    BY DEF Fits, Duty
  <2> DEFINE y == t.sink["A"]
  <2>2. y - Along(t.clip.dir, 0) = y /\ y + Along(t.clip.dir, t.clip.target) = y
    BY <1>3, <1>6
  <2>3. t.clip.lots = t.clip.target /\ t.clip.filled =< t.clip.target
    BY <1>3
  <2> QED
    BY <1>7, <1>8, <2>1, <2>2, <2>3 DEF Fits
<1> QED
  BY <1>3, <1>9 DEF Sized, Rested

LEMMA CommittedExactly ==
    ASSUME Dependable, NEW s, Good(s), ~s.rec.halted, s.clip # Idle, s.clip.dir \in {-1, 1},
           LegOK(s, "A"), LegOK(s, "B"), s.clip.maker \in {0, s.clip.A, s.clip.B},
           s.clip.maker \in Working(s) => s.own[s.clip.maker].seen = s.clip.target,
           NEW t \in CommitClip(s)
    PROVE  /\ t.clip = Idle /\ Duty(s, t) /\ t.book = s.book + Along(s.clip.dir, s.clip.lots)
           /\ t.sink["A"] = s.sink["A"]
<1> DEFINE c == s.clip
           id == c.maker
           b == s.book + c.dir * c.lots
           v == DropClip([s EXCEPT !.book = b])
<1>1. /\ s \in State /\ c \in Clip /\ c["A"] = c.A /\ c["B"] = c.B /\ c.target \in Nat /\ c.lots \in Nat
      /\ s.book \in Int /\ s.sink["A"] \in Int
  BY GoodType, ClipType, SinkType
<1>2. b = s.book + Along(c.dir, c.lots) /\ b \in Int
  <2>1. Along(c.dir, c.lots) = c.dir * c.lots /\ Along(c.dir, c.lots) \in Int
    BY <1>1, SignedSides
  <2> QED
    BY <1>1, <2>1
<1>3. v.sink = s.sink /\ v.book = b
  BY <1>1, <1>2 DEF DropClip, State
<1>4. /\ Good(v) /\ Working(v) = Working(s) /\ v.clip = Idle /\ v.own = s.own /\ v.rec = s.rec
  <2> HIDE DEF b
  <2> QED
    BY <1>2, BookedFields
<1>5. Duty(s, v)
  BY <1>4 DEF Duty
<1>6. CASE id = 0
  <2>1. CommitClip(s) = {v}
    BY <1>6, Zenon DEF CommitClip
  <2> HIDE DEF v
  <2> QED
    BY <1>2, <1>3, <1>4, <1>5, <2>1
<1>7. CASE id # 0
  <2> DEFINE leg == IF c.maker = c.A THEN "B" ELSE "A"
             G(r) == TopUp(r.st, leg, LegBuys(c.dir, leg), HedgeLots(leg, r.gap))
  <2>1. CommitClip(s) = UNION {G(r) : r \in RetireOrder(v, c.maker)}
    BY <1>7, Zenon DEF CommitClip
  <2>2. PICK r \in RetireOrder(v, id) : t \in G(r)
    <3> HIDE DEF G, v
    <3> QED
      BY <2>1
  <2> HIDE DEF v, b
  <2>3. id \in DOMAIN s.own /\ s.own[id].maker = TRUE /\ s.own[id].placed = c.target
    <3>1. id \in DOMAIN s.own /\ s.own[id].maker /\ s.own[id].placed = c.target
      BY <1>1, <1>7 DEF LegOK
    <3> QED
      BY <3>1, GoodType DEF Acct
  <2>4. Quits(v, r, id) /\ Retired(v, r, id)
    BY <1>4, <2>2, <2>3, RetiredExactly, RetireOrderOutcome
  <2>5. r.gap = 0
    <3>1. CASE id \notin Working(v)
      BY <2>4, <3>1 DEF Quits
    <3>2. CASE id \in Working(v)
      <4>1. s.own[id].seen = c.target /\ r.gap =< c.target - c.target /\ r.gap \in Nat
        BY <1>4, <2>3, <2>4, <3>2 DEF Quits, Retired
      <4> QED
        BY <1>1, <4>1
    <3> QED
      BY <3>1, <3>2
  <2>6. t = r.st
    <3>1. HedgeLots(leg, r.gap) = 0
      BY <2>5, HedgeLotsType
    <3> QED
      BY <2>2, <3>1 DEF TopUp
  <2>7. t.clip = Idle /\ t.book = v.book /\ Duty(v, t)
    BY <1>4, <2>4, <2>6 DEF Quits, Retired
  <2>8. t.sink["A"] = s.sink["A"]
    <3>1. \A l \in Leg : t.sink[l] = v.sink[l] + 0
      BY <2>4, <2>5, <2>6, SignedZero DEF Quits
    <3>2. t.sink["A"] = s.sink["A"] + 0
      BY <1>3, <3>1 DEF Leg
    <3> QED
      BY <1>1, <3>2
  <2> QED
    BY <1>2, <1>3, <1>5, <2>7, <2>8 DEF Duty
<1> QED
  BY <1>6, <1>7

LEMMA SettledCommitExactly ==
    ASSUME Dependable, NEW cap \in Nat, NEW s, Good(s), ~s.rec.halted, Filling(s),
           NEW realA \in Nat, NEW realB \in Nat, Fits(s, cap, realA),
           Room(s, "A", realA), Room(s, "B", realB),
           NEW u \in SettleClip(s, realA, realB, TRUE), NEW t \in CommitClip(u)
    PROVE  Sized(t, cap)
<1>1. /\ s.clip.dir \in {-1, 1} /\ LegOK(s, "A") /\ LegOK(s, "B") /\ s.clip.target \in Nat
      /\ Working(s) \subseteq {s.clip.A, s.clip.B}
  BY FillingType
<1>2. Calm(s, u) /\ Working(u) = {}
  BY <1>1, SettleClipOutcome DEF ClipSettled
<1>3. Filling(u) /\ ClipOK(u) /\ Good(u) /\ u.clip = s.clip /\ u.rec.halted = s.rec.halted
  BY <1>2, FillingKept DEF Calm, Evolve
<1>4. PICK m \in Nat, n \in Int : Drift(s, u, s.clip.dir, m, n) /\ realA + m = s.clip.target
  <2>1. Levels(s, u, realA, realB, TRUE)
    BY <1>1, SettledExactly
  <2> QED
    BY <2>1 DEF Levels
<1>5. /\ t.clip = Idle /\ Duty(u, t) /\ t.book = u.book + Along(u.clip.dir, u.clip.lots)
      /\ t.sink["A"] = u.sink["A"]
  <2>1. /\ u.clip.dir \in {-1, 1} /\ LegOK(u, "A") /\ LegOK(u, "B") /\ u.clip # Idle
        /\ u.clip.maker \in {0, u.clip.A, u.clip.B}
    BY <1>3, FillingType DEF Filling
  <2> QED
    BY <1>2, <1>3, <2>1, CommittedExactly
<1>6. Working(t) = {}
  <2>1. Handled(u, t)
    BY <1>2, <1>3, CommitClipOutcome
  <2> QED
    BY <1>5, <2>1 DEF Handled, ClipOK
<1>7. /\ u.sink["A"] = s.sink["A"] + Along(s.clip.dir, m) /\ u.book = s.book /\ Duty(s, u)
  BY <1>4 DEF Drift
<1>8. u.clip.lots = s.clip.target /\ s.clip.target - realA = m
  BY <1>1, <1>3, <1>4 DEF Fits
<1>9. Duty(s, t) /\ s.clip.target \in 0..s.clip.target
  BY <1>1, <1>5, <1>7 DEF Duty
<1> QED
  BY <1>3, <1>5, <1>6, <1>7, <1>8, <1>9, Landed

LEMMA SettledDropExactly ==
    ASSUME Dependable, NEW cap \in Nat, NEW s, Good(s), LotBook => s.rec.halted, Filling(s),
           NEW realA \in Nat, NEW realB \in Nat, Fits(s, cap, realA),
           Room(s, "A", realA), Room(s, "B", realB), NEW complete \in BOOLEAN,
           NEW u \in SettleClip(s, realA, realB, complete), NEW t, t = DropClip(u)
    PROVE  Sized(t, cap)
<1>1. /\ s.clip.dir \in {-1, 1} /\ LegOK(s, "A") /\ LegOK(s, "B") /\ s.clip.target \in Nat
      /\ Working(s) \subseteq {s.clip.A, s.clip.B}
  BY FillingType
<1>2. Calm(s, u) /\ Working(u) = {} /\ Good(u)
  BY <1>1, SettleClipOutcome DEF ClipSettled, Calm
<1>4. PICK m \in Nat, n \in Int : Drift(s, u, s.clip.dir, m, n) /\ realA + m \in 0..s.clip.target
  BY <1>1, SettledExactly DEF Levels
<1>5. t.clip = Idle /\ t.sink = u.sink /\ t.rec = u.rec /\ t.own = u.own /\ t.book = u.book
  <2>1. u \in State
    BY <1>2, GoodType
  <2> QED
    BY <2>1 DEF DropClip, State
<1>6. Working(t) = {}
  BY <1>2, <1>5 DEF Working
<1>7. /\ t.sink["A"] = s.sink["A"] + Along(s.clip.dir, m) /\ Duty(s, t)
  BY <1>4, <1>5 DEF Drift, Duty
<1> DEFINE w == realA + m
<1>8. w \in 0..s.clip.target /\ w - realA = m
  BY <1>1, <1>4
<1> HIDE DEF w
<1> QED
  BY <1>5, <1>6, <1>7, <1>8, Landed

LEMMA RestedKept ==
    ASSUME NEW s, NEW t, Good(s), Rested(s), t.clip.filled = s.clip.filled,
           NEW K, Working(t) \subseteq Working(s) \ K,
           \A id \in DOMAIN s.own \ K : t.own[id] = s.own[id] /\ t.orders[id] = s.orders[id]
    PROVE  Rested(t)
BY DEF Rested, Working

LEMMA CommitIfFullExactly ==
    ASSUME Dependable, NEW cap \in Nat, NEW s, Good(s), ~s.rec.halted, ClipOK(s), s.clip # Idle,
           Working(s) \subseteq {s.clip.maker}, Sized(s, cap), NEW t \in CommitIfFull(s)
    PROVE  Sized(t, cap)
<1>1. CASE ~(s.clip.filled >= s.clip.target)
  BY <1>1 DEF CommitIfFull
<1>2. CASE s.clip.filled >= s.clip.target
  <2>1. /\ s.clip.dir \in {-1, 1} /\ LegOK(s, "A") /\ LegOK(s, "B") /\ s.clip.target \in Nat
        /\ s.clip.filled \in Nat /\ s.clip.maker \in {0, s.clip.A, s.clip.B}
    BY ClipLegs DEF ClipOK
  <2>2. Fits(s, cap, s.clip.filled) /\ Rested(s) /\ s.clip.filled = s.clip.target /\ s.clip.lots = s.clip.target
    BY <1>2, <2>1 DEF Sized, Fits
  <2>3. t \in CommitClip(s)
    BY <1>2 DEF CommitIfFull
  <2>4. /\ t.clip = Idle /\ Duty(s, t) /\ t.book = s.book + Along(s.clip.dir, s.clip.lots)
        /\ t.sink["A"] = s.sink["A"]
    <3>1. s.clip.maker \in Working(s) => s.own[s.clip.maker].seen = s.clip.target
      BY <2>2 DEF Rested
    <3> QED
      BY <2>1, <2>3, <3>1, CommittedExactly
  <2>5. Working(t) = {}
    <3>1. Handled(s, t)
      BY <2>3, CommitClipOutcome
    <3> QED
      BY <2>4, <3>1 DEF Handled, ClipOK
  <2>6. t.sink["A"] = s.sink["A"] + Along(s.clip.dir, s.clip.target - s.clip.filled)
    <3>1. s.clip.target - s.clip.filled = 0 /\ Along(s.clip.dir, 0) = 0 /\ s.sink["A"] \in Int
      BY <2>1, <2>2, AlongType, SinkType
    <3> QED
      BY <2>4, <3>1
  <2> DEFINE w == s.clip.target
  <2>7. w \in 0..s.clip.target /\ w = s.clip.lots
    BY <2>1, <2>2
  <2> QED
    BY <2>1, <2>2, <2>4, <2>5, <2>6, <2>7, Landed
<1> QED
  BY <1>1, <1>2

-----------------------------------------------------------------------------
(* The clip is pulled, completed or abandoned.                             *)
LEMMA RoomFilled ==
    ASSUME NEW cap, NEW s, Good(s), ClipOK(s), s.clip # Idle, Sized(s, cap)
    PROVE  /\ Filling(s) /\ s.clip.filled \in Nat /\ Fits(s, cap, s.clip.filled)
           /\ Room(s, "A", s.clip.filled) /\ Room(s, "B", s.clip.filled)
<1>1. Filling(s) /\ s.clip.filled \in Nat /\ s.clip.target \in Nat /\ Fits(s, cap, s.clip.filled) /\ Rested(s)
  BY ClipFilling, FillingType DEF Sized
<1>2. \A leg : s.clip[leg] \in Working(s) => s.clip.filled =< s.own[s.clip[leg]].seen
  BY <1>1 DEF Rested
<1>3. s.clip.filled =< s.clip.target
  BY <1>1 DEF Fits
<1> QED
  BY <1>1, <1>2, <1>3 DEF Room

LEMMA CancelExactly ==
    ASSUME Dependable, NEW cap \in Nat, NEW s, Good(s), ClipOK(s), Sized(s, cap),
           LotBook => s.rec.halted, NEW t \in CancelClip(s)
    PROVE  Sized(t, cap)
<1>1. CASE s.clip = Idle
  BY <1>1 DEF CancelClip
<1>2. CASE s.clip # Idle
  <2>1. PICK u \in SettleClip(s, s.clip.filled, s.clip.filled, FALSE) : t = DropClip(u)
    BY <1>2 DEF CancelClip
  <2>2. /\ Filling(s) /\ s.clip.filled \in Nat /\ Fits(s, cap, s.clip.filled)
        /\ Room(s, "A", s.clip.filled) /\ Room(s, "B", s.clip.filled) /\ FALSE \in BOOLEAN
    BY <1>2, RoomFilled
  <2> QED
    BY <2>1, <2>2, SettledDropExactly
<1> QED
  BY <1>1, <1>2

LEMMA CompleteExactly ==
    ASSUME Dependable, NEW cap \in Nat, NEW s, Good(s), ClipOK(s), Sized(s, cap),
           s.clip # Idle, ~s.rec.halted, NEW t \in CompleteClip(s)
    PROVE  Sized(t, cap)
<1>1. PICK u \in SettleClip(s, s.clip.filled, s.clip.filled, TRUE) : t \in CommitClip(u)
  BY DEF CompleteClip, After
<1>2. /\ Filling(s) /\ s.clip.filled \in Nat /\ Fits(s, cap, s.clip.filled)
      /\ Room(s, "A", s.clip.filled) /\ Room(s, "B", s.clip.filled)
  BY RoomFilled
<1> QED
  BY <1>1, <1>2, SettledCommitExactly

LEMMA AbandonExactly ==
    ASSUME Dependable, NEW cap \in Nat, NEW s, Good(s), ClipOK(s), Sized(s, cap),
           s.clip # Idle, s.clip.filled = 0, ~s.rec.halted, NEW t \in AbandonClip(s)
    PROVE  Sized(t, cap)
<1>1. CASE ~s.clip.close /\ KeepPartial
  BY <1>1, CancelExactly DEF AbandonClip, Dependable
<1>2. CASE ~(~s.clip.close /\ KeepPartial)
  <2> DEFINE Rest(g, r) == IF g = 0 /\ r.gap = 0 THEN {DropClip(r.st)}
                           ELSE After(SettleClip(r.st, g, r.gap, TRUE), CommitClip)
  <2>8. AbandonClip(s) = UNION { UNION { Rest(ra.gap, rb) : rb \in RetireOrder(ra.st, s.clip.B) } :
                                 ra \in RetireOrder(s, s.clip.A) }
    BY <1>2, Zenon DEF AbandonClip
  <2>9. PICK ra \in RetireOrder(s, s.clip.A) : \E rb \in RetireOrder(ra.st, s.clip.B) : t \in Rest(ra.gap, rb)
    <3> HIDE DEF Rest
    <3> QED
      BY <2>8
  <2>1. PICK rb \in RetireOrder(ra.st, s.clip.B) : t \in Rest(ra.gap, rb)
    BY <2>9
  <2>2. /\ s.clip.dir \in {-1, 1} /\ LegOK(s, "A") /\ LegOK(s, "B") /\ Filling(s)
        /\ Working(s) \subseteq {s.clip.A, s.clip.B} /\ s.clip.target \in Nat
        /\ Fits(s, cap, 0) /\ Room(s, "A", 0) /\ Room(s, "B", 0)
    BY RoomFilled, FillingType
  <2> DEFINE v == rb.st
  <2>3. /\ Calm(s, v) /\ Working(v) = {} /\ Drift(s, v, s.clip.dir, ra.gap, rb.gap)
        /\ ra.gap \in Nat /\ 0 + ra.gap \in 0..s.clip.target
        /\ rb.gap \in Nat /\ 0 + rb.gap \in 0..s.clip.target
    BY <2>2, BothRetiredExactly
  <2>4. Good(v) /\ v.clip = s.clip /\ v.rec.halted = s.rec.halted /\ Filling(v)
    BY <2>2, <2>3, FillingKept DEF Calm, Evolve
  <2>5. CASE ra.gap = 0 /\ rb.gap = 0
    <3>1. t = DropClip(v)
      BY <2>1, <2>5
    <3>2. t.clip = Idle /\ t.sink = v.sink /\ t.rec = v.rec /\ t.own = v.own /\ t.book = v.book
      <4>1. v \in State
        BY <2>4, GoodType
      <4> HIDE DEF v
      <4> QED
        BY <3>1, <4>1 DEF DropClip, State
    <3>3. Working(t) = {}
      BY <2>3, <3>2 DEF Working
    <3> DEFINE w == 0
    <3>4. w \in 0..s.clip.target /\ w - 0 = 0
      BY <2>2
    <3>5. /\ t.sink["A"] = s.sink["A"] + Along(s.clip.dir, w - 0) /\ Duty(s, t)
          /\ t.book = s.book
      BY <2>3, <2>5, <3>2, <3>4 DEF Drift, Duty
    <3>6. t.book = s.book + Along(s.clip.dir, w)
      <4>1. Along(s.clip.dir, 0) = 0 /\ s.book \in Int
        BY <2>2, AlongType, SinkType
      <4> QED
        BY <3>5, <4>1
    <3> HIDE DEF w
    <3> QED
      BY <2>2, <3>2, <3>3, <3>4, <3>5, <3>6, Landed
  <2>6. CASE ~(ra.gap = 0 /\ rb.gap = 0)
    <3>1. PICK u \in SettleClip(v, ra.gap, rb.gap, TRUE) : t \in CommitClip(u)
      BY <2>1, <2>6 DEF After
    <3>2. Fits(v, cap, ra.gap)
      <4> DEFINE g == ra.gap
                 h == rb.gap
      <4>1. g \in Int /\ h \in Int /\ Drift(s, v, s.clip.dir, g, h) /\ 0 + g = g
        BY <2>3
      <4> HIDE DEF g, h, v
      <4>2. Fits(v, cap, 0 + g)
        BY <2>2, <2>4, <4>1, FitsDrift
      <4> QED
        BY <4>1, <4>2 DEF g
    <3>3. Room(v, "A", ra.gap) /\ Room(v, "B", rb.gap)
      BY <2>2, <2>3, <2>4 DEF Room
    <3> HIDE DEF v
    <3> QED
      BY <2>3, <2>4, <3>1, <3>2, <3>3, SettledCommitExactly
  <2> QED
    BY <2>5, <2>6
<1> QED
  BY <1>1, <1>2

LEMMA ResolveExactly ==
    ASSUME Dependable, NEW cap \in Nat, NEW s, Good(s), ClipOK(s), Sized(s, cap),
           s.rec.halted => s.clip = Idle, NEW t \in ResolveClip(s)
    PROVE  Sized(t, cap)
<1>1. CASE s.clip = Idle
  BY <1>1 DEF ResolveClip
<1>2. CASE s.clip # Idle /\ s.clip.filled = 0 /\ ~(ForceClose /\ s.clip.close)
  <2>1. t \in AbandonClip(s)
    BY <1>2, Zenon DEF ResolveClip
  <2> QED
    BY <1>2, <2>1, AbandonExactly
<1>3. CASE s.clip # Idle /\ ~(s.clip.filled = 0 /\ ~(ForceClose /\ s.clip.close))
  <2>1. t \in IF ~s.clip.close /\ KeepPartial THEN CancelClip(s) ELSE CompleteClip(s)
    BY <1>3, Zenon DEF ResolveClip
  <2> QED
    BY <1>3, <2>1, CancelExactly, CompleteExactly DEF Dependable
<1> QED
  BY <1>1, <1>2, <1>3

-----------------------------------------------------------------------------
(* A fill of the clip.  What the filled leg's maker has told of is what    *)
(* the clip counts; the counterpart has told of nothing.                   *)
Ready(s) ==
    \A id \in Working(s) : /\ s.own[id].seen = IF id = s.clip.maker THEN s.clip.filled ELSE 0
                           /\ s.orders[id].live \/ s.orders[id].exec = s.orders[id].size

LEMMA AheadExactly ==
    ASSUME Dependable, NEW cap \in Nat, NEW s, Good(s), ~s.rec.halted, Filling(s), NEW leg \in Leg,
           NEW gap \in Nat, gap =< s.clip.target, s.clip.filled =< s.clip.target,
           s.clip[leg] \in Working(s) => s.own[s.clip[leg]].seen = s.clip.filled,
           s.clip[Other(leg)] \notin Working(s),
           NEW realA, NEW realB,
           realA = IF leg = "A" THEN s.clip.filled ELSE gap,
           realB = IF leg = "B" THEN s.clip.filled ELSE gap,
           Fits(s, cap, realA),
           NEW t, IF ~s.clip.close /\ KeepPartial
                  THEN t \in {DropClip(u) : u \in SettleClip(s, realA, realB, FALSE)}
                  ELSE t \in UNION {CommitClip(u) : u \in SettleClip(s, realA, realB, TRUE)}
    PROVE  Sized(t, cap)
<1>1. realA \in Nat /\ realB \in Nat /\ s.clip.filled \in Nat
  BY FillingType
<1>2. Room(s, "A", realA) /\ Room(s, "B", realB)
  <2>1. CASE leg = "A"
    <3>1. Other(leg) = "B"
      BY <2>1 DEF Other
    <3> QED
      BY <1>1, <2>1, <3>1 DEF Room
  <2>2. CASE leg = "B"
    <3>1. Other(leg) = "A"
      BY <2>2 DEF Other
    <3> QED
      BY <1>1, <2>2, <3>1 DEF Room
  <2> QED
    BY <2>1, <2>2 DEF Leg
<1>3. CASE ~s.clip.close /\ KeepPartial
  <2>1. PICK u \in SettleClip(s, realA, realB, FALSE) : t = DropClip(u)
    BY <1>3
  <2>2. ~LotBook /\ FALSE \in BOOLEAN
    BY <1>3 DEF Dependable
  <2> QED
    BY <1>1, <1>2, <2>1, <2>2, SettledDropExactly
<1>4. CASE ~(~s.clip.close /\ KeepPartial)
  <2>1. PICK u \in SettleClip(s, realA, realB, TRUE) : t \in CommitClip(u)
    BY <1>4
  <2> QED
    BY <1>1, <1>2, <2>1, SettledCommitExactly
<1> QED
  BY <1>3, <1>4

LEMMA FirstFillExactly ==
    ASSUME Dependable, NEW cap \in Nat, NEW s, Good(s), ~s.rec.halted, Filling(s), Ready(s),
           NEW leg \in Leg, s.clip[leg] = s.clip.maker, s.clip.maker # 0,
           Fits(s, cap, IF leg = "A" THEN s.clip.filled ELSE 0),
           NEW t \in FirstFill(s, leg)
    PROVE  Sized(t, cap)
<1> DEFINE c == s.clip
           n == c.filled
           cp == Other(leg)
           realA(gap) == IF leg = "A" THEN n ELSE gap
           realB(gap) == IF leg = "B" THEN n ELSE gap
           Ahead(v, gap) ==
             IF ~c.close /\ KeepPartial
             THEN {DropClip(u) : u \in SettleClip(v, realA(gap), realB(gap), FALSE)}
             ELSE UNION {CommitClip(u) : u \in SettleClip(v, realA(gap), realB(gap), TRUE)}
           Level(v, gap) == UNION {CommitIfFull(u) : u \in TopUp(v, cp, LegBuys(c.dir, cp), HedgeLots(cp, n - gap))}
           Next1(r) == IF r.gap > n THEN Ahead(r.st, r.gap) ELSE Level(r.st, r.gap)
<1>1. FirstFill(s, leg) = UNION {Next1(r) : r \in RetireOrder(s, c[cp])}
  BY Zenon DEF FirstFill, After
<1> HIDE DEF cp
<1>2. PICK r \in RetireOrder(s, c[cp]) : t \in Next1(r)
  <2> HIDE DEF Next1
  <2> QED
    BY <1>1
<1>3. /\ n \in Nat /\ c.dir \in {-1, 1} /\ cp \in Leg /\ LegOK(s, cp) /\ leg = Other(cp)
      /\ Working(s) \subseteq {c[cp], c.maker} /\ c.target \in Nat /\ n =< c.target
  <2>1. cp \in Leg /\ leg = Other(cp)
    BY OtherLeg DEF cp
  <2>2. /\ n \in Nat /\ c.dir \in {-1, 1} /\ LegOK(s, "A") /\ LegOK(s, "B") /\ c.target \in Nat
        /\ c["A"] = c.A /\ c["B"] = c.B /\ Working(s) \subseteq {c.A, c.B}
    BY FillingType
  <2>3. n =< c.target
    BY DEF Fits
  <2> QED
    BY <2>1, <2>2, <2>3 DEF Leg, Other
<1> DEFINE v == r.st
           gap == r.gap
<1>4. LegRetired(s, r, cp)
  BY <1>2, <1>3, RetireLegOutcome
<1>5. /\ Calm(s, v) /\ Good(v) /\ Evolve(s, v) /\ v.clip = c
      /\ Working(v) \subseteq Working(s) \ {c[cp]} /\ Working(v) \subseteq {c.maker}
      /\ \A j \in DOMAIN s.own \ {c[cp]} : v.own[j] = s.own[j]
  BY <1>3, <1>4 DEF LegRetired, Retired
<1>6. ClipOK(v) /\ Filling(v) /\ v.rec.halted = s.rec.halted
  BY <1>5, FillingKept DEF Evolve
<1>7. /\ Shift(s, v, cp, Signed(LegBuys(c.dir, cp), gap)) /\ gap \in Nat /\ gap =< c.target
      /\ \A j \in DOMAIN s.own \ {c[cp]} : v.orders[j] = s.orders[j]
  <2>1. Room(s, cp, 0)
    <3>1. c[cp] \in Working(s) => s.own[c[cp]].seen \in Nat
      BY GoodType DEF Working, Acct
    <3> QED
      BY <1>3, <3>1 DEF Room
  <2>2. /\ Shift(s, v, cp, Signed(LegBuys(c.dir, cp), gap)) /\ gap \in Nat /\ 0 + gap \in 0..c.target
        /\ \A j \in DOMAIN s.own \ {c[cp]} : v.orders[j] = s.orders[j]
    BY <1>2, <1>3, <2>1, LegRetiredExactly
  <2> QED
    BY <1>3, <2>2
<1> DEFINE j0 == IF cp = "A" THEN gap ELSE 0
           k0 == IF cp = "A" THEN 0 ELSE gap
           real0 == IF leg = "A" THEN n ELSE 0
<1>8. /\ Drift(s, v, c.dir, j0, k0) /\ j0 \in Int /\ k0 \in Int /\ real0 \in Int
      /\ real0 + j0 = IF leg = "A" THEN n ELSE gap
  <2>1. gap \in Int
    BY <1>7
  <2>2. /\ cp = "A" => Drift(s, v, c.dir, gap, 0)
        /\ cp = "B" => Drift(s, v, c.dir, 0, gap)
    <3> HIDE DEF v, gap
    <3> QED
      BY <1>3, <1>7, <2>1, ShiftDrifts
  <2> HIDE DEF v, gap
  <2> QED
    BY <1>3, <2>1, <2>2 DEF Leg, Other
<1>9. Fits(v, cap, real0 + j0)
  <2> HIDE DEF v, gap, j0, k0
  <2> QED
    BY <1>5, <1>8, FitsDrift
<1> HIDE DEF j0, k0, real0
<1>10. \A id \in Working(v) : /\ v.own[id].seen = n
                              /\ v.orders[id].live \/ v.orders[id].exec = v.orders[id].size
  <2> SUFFICES ASSUME NEW id \in Working(v)
               PROVE  /\ v.own[id].seen = n
                      /\ v.orders[id].live \/ v.orders[id].exec = v.orders[id].size
    OBVIOUS
  <2>1. id \in Working(s) /\ id # c[cp] /\ id = c.maker /\ id \in DOMAIN s.own
    BY <1>5 DEF Working
  <2>2. v.own[id] = s.own[id] /\ v.orders[id] = s.orders[id]
    BY <1>5, <1>7, <2>1
  <2> QED
    BY <2>1, <2>2 DEF Ready
<1>11. CASE gap > n
  <2>1. t \in Ahead(v, gap)
    BY <1>2, <1>11
  <2> DEFINE rA == realA(gap)
             rB == realB(gap)
  <2>2. /\ rA = IF leg = "A" THEN v.clip.filled ELSE gap
        /\ rB = IF leg = "B" THEN v.clip.filled ELSE gap
    BY <1>5
  <2>3. Fits(v, cap, rA)
    BY <1>8, <1>9
  <2>4. IF ~v.clip.close /\ KeepPartial
        THEN t \in {DropClip(u) : u \in SettleClip(v, rA, rB, FALSE)}
        ELSE t \in UNION {CommitClip(u) : u \in SettleClip(v, rA, rB, TRUE)}
    BY <1>5, <2>1
  <2>5. /\ v.clip[Other(leg)] \notin Working(v)
        /\ v.clip[leg] \in Working(v) => v.own[v.clip[leg]].seen = v.clip.filled
        /\ v.clip.filled =< v.clip.target /\ gap =< v.clip.target /\ ~v.rec.halted
    BY <1>3, <1>5, <1>6, <1>7, <1>10 DEF cp
  <2> HIDE DEF rA, rB, v, gap
  <2> QED
    BY <1>5, <1>6, <1>7, <2>2, <2>3, <2>4, <2>5, AheadExactly
<1>12. CASE ~(gap > n)
  <2> DEFINE m == n - gap
             b == LegBuys(c.dir, cp)
             h == HedgeLots(cp, m)
  <2>1. PICK u \in TopUp(v, cp, b, h) : t \in CommitIfFull(u)
    BY <1>2, <1>12
  <2>2. m \in Nat
    BY <1>3, <1>7, <1>12
  <2>3. h \in Nat /\ b \in BOOLEAN /\ (cp = "A" => h = m)
    <3>1. h \in Nat /\ b \in BOOLEAN
      <4> HIDE DEF m
      <4> QED
        BY <1>3, <2>2, HedgeLotsType, BuysType
    <3> QED
      BY <3>1 DEF HedgeLots
  <2> HIDE DEF b, h, v, gap
  <2>4. Bought(v, u, cp, b, h)
    BY <1>3, <1>5, <1>6, <2>1, <2>3, ToppedExactly
  <2>5. Aside(v, u, {}) /\ Shift(v, u, cp, Signed(b, h)) /\ Calm(v, u) /\ Good(u) /\ Evolve(v, u)
    BY <2>4, AsideCalm DEF Bought
  <2>6. u.clip = c /\ Working(u) \subseteq Working(v) /\ u.rec.halted = s.rec.halted
    BY <1>5, <1>6, <2>5 DEF Calm, Evolve
  <2>7. ClipOK(u)
    BY <1>5, <1>6, <2>5, <2>6, ClipKept
  <2> DEFINE j1 == IF cp = "A" THEN h ELSE 0
             k1 == IF cp = "A" THEN 0 ELSE h
  <2>8. Drift(v, u, c.dir, j1, k1) /\ j1 \in Int /\ k1 \in Int
    <3>1. h \in Int
      BY <2>3
    <3>2. /\ cp = "A" => Drift(v, u, c.dir, h, 0)
          /\ cp = "B" => Drift(v, u, c.dir, 0, h)
      BY <1>3, <1>5, <2>5, <3>1, ShiftDrifts DEF b
    <3> QED
      BY <1>3, <3>1, <3>2 DEF Leg
  <2>9. real0 + j0 \in Int /\ real0 + j0 + j1 = n
    <3>1. CASE leg = "A"
      <4>1. cp = "B" /\ real0 + j0 = n
        BY <1>8, <3>1 DEF cp, Other
      <4> QED
        BY <1>3, <1>8, <4>1
    <3>2. CASE leg = "B"
      <4>1. cp = "A" /\ real0 + j0 = gap
        BY <1>8, <3>2 DEF cp, Other, gap
      <4> QED
        BY <1>3, <1>7, <1>8, <2>3, <4>1
    <3> QED
      BY <3>1, <3>2 DEF Leg
  <2>10. Fits(u, cap, n)
    <3> DEFINE real == real0 + j0
    <3>1. real \in Int /\ Fits(v, cap, real) /\ real + j1 = n
      BY <1>9, <2>9
    <3> HIDE DEF real, j1, k1
    <3>2. Fits(u, cap, real + j1)
      BY <1>5, <2>6, <2>8, <3>1, FitsDrift
    <3> QED
      BY <3>1, <3>2
  <2>11. Rested(u)
    <3> SUFFICES ASSUME NEW id \in Working(u)
                 PROVE  /\ u.own[id].seen = n
                        /\ u.orders[id].live \/ u.orders[id].exec = u.orders[id].size
      BY <2>6 DEF Rested
    <3>1. id \in Working(v) /\ id \in DOMAIN v.own
      BY <2>6 DEF Working
    <3>2. u.own[id] = v.own[id] /\ u.orders[id] = v.orders[id]
      BY <2>5, <3>1 DEF Aside
    <3> QED
      BY <1>10, <3>1, <3>2
  <2>12. Sized(u, cap) /\ u.clip # Idle /\ Working(u) \subseteq {u.clip.maker} /\ ~u.rec.halted
    BY <1>5, <2>6, <2>10, <2>11 DEF Sized, Filling
  <2> QED
    BY <2>1, <2>5, <2>7, <2>12, CommitIfFullExactly
<1> QED
  BY <1>11, <1>12

LEMMA LaterFillExactly ==
    ASSUME Dependable, NEW cap \in Nat, NEW s, Good(s), ~s.rec.halted, ClipOK(s), s.clip # Idle,
           Working(s) \subseteq {s.clip.maker}, Ready(s),
           NEW leg \in Leg, NEW lots \in Nat \ {0},
           Fits(s, cap, IF leg = "A" THEN s.clip.filled ELSE s.clip.filled - lots),
           NEW t \in LaterFill(s, leg, lots)
    PROVE  Sized(t, cap)
<1> DEFINE c == s.clip
           n == c.filled
           cp == Other(leg)
           b == LegBuys(s.clip.dir, cp)
           h == HedgeLots(cp, lots)
<1>1. LaterFill(s, leg, lots) = UNION {CommitIfFull(u) : u \in TakerRetry(s, cp, b, h)}
  BY Zenon DEF LaterFill, After
<1>2. /\ c.dir \in {-1, 1} /\ cp \in Leg /\ leg = Other(cp) /\ n \in Nat
  BY OtherLeg, ClipLegs, ClipFilling, FillingType
<1>3. h \in Nat \ {0} /\ b \in BOOLEAN /\ (cp = "A" => h = lots)
  <2>1. h \in Nat \ {0} /\ b \in BOOLEAN
    BY <1>2, HedgeLotsType, BuysType
  <2> QED
    BY <2>1 DEF HedgeLots
<1>4. TakerRetry(s, cp, b, h) = TopUp(s, cp, b, h)
  BY <1>3 DEF TopUp
<1>5. b = LegBuys(c.dir, cp)
  OBVIOUS
<1> HIDE DEF b, h
<1>6. PICK u \in TopUp(s, cp, b, h) : t \in CommitIfFull(u)
  <2> HIDE DEF cp
  <2> QED
    BY <1>1, <1>4
<1>7. Bought(s, u, cp, b, h)
  <2> HIDE DEF cp
  <2> QED
    BY <1>2, <1>3, <1>6, ToppedExactly
<1>8. /\ Aside(s, u, {}) /\ Shift(s, u, cp, Signed(b, h)) /\ Calm(s, u) /\ Good(u) /\ Evolve(s, u)
  BY <1>7, AsideCalm DEF Bought
<1>9. u.clip = c /\ Working(u) \subseteq Working(s) /\ u.rec.halted = s.rec.halted
  BY <1>8 DEF Calm, Evolve
<1>10. ClipOK(u)
  BY <1>8, <1>9, ClipKept
<1> DEFINE j == IF cp = "A" THEN h ELSE 0
           k == IF cp = "A" THEN 0 ELSE h
           real == IF leg = "A" THEN n ELSE n - lots
<1>11. Drift(s, u, c.dir, j, k) /\ j \in Int /\ k \in Int /\ real \in Int /\ real + j = n
  <2>1. h \in Int
    BY <1>3
  <2>2. /\ cp = "A" => Drift(s, u, c.dir, h, 0)
        /\ cp = "B" => Drift(s, u, c.dir, 0, h)
    <3> HIDE DEF cp
    <3> QED
      BY <1>2, <1>5, <1>8, <2>1, ShiftDrifts
  <2>3. cp = IF leg = "A" THEN "B" ELSE "A"
    BY DEF Other
  <2> HIDE DEF cp
  <2> QED
    BY <1>2, <1>3, <2>1, <2>2, <2>3 DEF Leg
<1>12. Fits(u, cap, n)
  <2>1. Fits(s, cap, real)
    OBVIOUS
  <2> HIDE DEF real, j, k
  <2>2. Fits(u, cap, real + j)
    BY <1>9, <1>11, <2>1, FitsDrift
  <2> QED
    BY <1>11, <2>2
<1>13. Rested(s)
  BY DEF Rested, Ready
<1>14. Rested(u)
  <2>1. Working(u) \subseteq Working(s) \ {} /\ u.clip.filled = s.clip.filled
    BY <1>9
  <2>2. \A id \in DOMAIN s.own \ {} : u.own[id] = s.own[id] /\ u.orders[id] = s.orders[id]
    BY <1>8 DEF Aside
  <2> QED
    BY <1>13, <2>1, <2>2, RestedKept
<1>15. Sized(u, cap) /\ u.clip # Idle /\ Working(u) \subseteq {u.clip.maker} /\ ~u.rec.halted
  BY <1>9, <1>12, <1>14 DEF Sized
<1> QED
  BY <1>6, <1>8, <1>10, <1>15, CommitIfFullExactly

(* Nothing that the cap or the book depends on has changed.                *)
Still(s, t) ==
    /\ t.clip = s.clip /\ t.sink = s.sink /\ t.book = s.book /\ Duty(s, t)
    /\ \A id \in Working(t) :
          /\ id \in Working(s) /\ t.own[id].seen = s.own[id].seen
          /\ s.orders[id].live \/ s.orders[id].exec = s.orders[id].size
                => t.orders[id].live \/ t.orders[id].exec = t.orders[id].size

LEMMA StillSized ==
    ASSUME NEW s, NEW t, NEW cap, Sized(s, cap), Still(s, t)
    PROVE  Sized(t, cap)
<1>1. Fits(t, cap, t.clip.filled)
  <2>1. /\ t.clip = s.clip /\ t.sink = s.sink /\ t.book = s.book
        /\ t.rec.halted = s.rec.halted /\ t.rec.impaired = s.rec.impaired
        /\ t.rec.retireQ = s.rec.retireQ /\ t.rec.debts = s.rec.debts
    BY DEF Still, Duty
  <2>2. Fits(s, cap, s.clip.filled)
    BY DEF Sized
  <2> QED
    BY <2>1, <2>2 DEF Fits
<1>2. Rested(t)
  BY DEF Still, Sized, Rested
<1> QED
  BY <1>1, <1>2 DEF Sized

LEMMA StillRefl == ASSUME NEW s PROVE Still(s, s)
BY DEF Still, Duty

(* Beside the account of an order that has ended nothing changes.          *)
LEMMA AsideStill ==
    ASSUME NEW s, NEW t, Good(s), NEW K, Aside(s, t, K), t.sink = s.sink, t.book = s.book, Duty(s, t),
           \A id \in K \cap DOMAIN s.own : id \notin Working(t)
    PROVE  Still(s, t)
<1>1. t.clip = s.clip /\ Working(t) \subseteq Working(s)
  BY DEF Aside, Calm
<1>2. ASSUME NEW id \in Working(t) PROVE t.own[id] = s.own[id] /\ t.orders[id] = s.orders[id]
  <2>1. id \in DOMAIN s.own /\ id \notin K
    BY <1>1, <1>2 DEF Working
  <2> QED
    BY <2>1 DEF Aside
<1> QED
  BY <1>1, <1>2 DEF Still

LEMMA ClipFillExactly ==
    ASSUME Dependable, NEW cap \in Nat, NEW s, Good(s), ClipOK(s), ~s.rec.halted, Sized(s, cap),
           NEW id \in DOMAIN s.own, NEW lots \in Nat \ {0},
           s.own[id].maker = TRUE, s.own[id].final < 0,
           id \in {s.clip.A, s.clip.B}, s.clip.maker \in {0, id},
           NEW v, Aside(s, v, {id}), v.own[id].folded = s.own[id].folded + lots,
           v.own[id].seen = s.own[id].seen + lots, v.orders = s.orders,
           Shift(s, v, s.own[id].leg, Signed(s.own[id].buy, lots)),
           NEW t1, t1 = Fills(v, id, lots),
           NEW t, IF s.clip.maker = 0 THEN t \in FirstFill(t1, s.own[id].leg)
                  ELSE t \in LaterFill(t1, s.own[id].leg, lots)
    PROVE  Sized(t, cap)
<1> DEFINE c == s.clip
           leg == s.own[id].leg
           n == c.filled + lots
<1>0. MovesOn(s, v, t1, id, lots, leg)
  BY FillsFields
<1>1. leg = s.own[id].leg
  OBVIOUS
<1> HIDE DEF leg
<1>2. /\ c.dir \in {-1, 1} /\ leg \in Leg /\ s.own[id].buy = LegBuys(c.dir, leg)
      /\ s.own[id].placed = c.target /\ c.filled \in Nat /\ (c.maker = 0 => c.filled = 0)
      /\ Good(t1) /\ Filling(t1) /\ id # 0
  BY <1>0 DEF MovesOn
<1>3. /\ t1.clip # Idle /\ t1.clip[leg] = id /\ t1.clip.maker = id /\ t1.clip.filled = n
      /\ c.maker # 0 => ClipOK(t1) /\ Working(t1) \subseteq {t1.clip.maker}
      /\ t1.clip.dir = c.dir /\ t1.clip.target = c.target /\ t1.clip.lots = c.lots
      /\ Working(t1) = Working(v) /\ t1.own = v.own /\ t1.orders = v.orders /\ t1.sink = v.sink
      /\ t1.rec = v.rec /\ t1.book = v.book
  BY <1>0 DEF MovesOn
<1>4. /\ Good(v) /\ Calm(s, v) /\ Evolve(s, v) /\ v.clip = c /\ Working(v) \subseteq Working(s)
      /\ DOMAIN s.own \subseteq DOMAIN v.own /\ Duty(s, v)
      /\ \A j \in DOMAIN s.own \ {id} : v.own[j] = s.own[j] /\ v.orders[j] = s.orders[j]
  <2>1. Good(v) /\ Calm(s, v) /\ Evolve(s, v)
    BY AsideCalm
  <2>2. \A j \in DOMAIN s.own \ {id} : v.own[j] = s.own[j] /\ v.orders[j] = s.orders[j]
    BY DEF Aside
  <2> QED
    BY <2>1, <2>2 DEF Calm, Evolve, Shift
<1>5. Fits(s, cap, c.filled) /\ Rested(s)
  BY DEF Sized
<1> DEFINE j0 == IF leg = "A" THEN lots ELSE 0
           k0 == IF leg = "A" THEN 0 ELSE lots
<1>6. Drift(s, v, c.dir, j0, k0) /\ j0 \in Int /\ k0 \in Int
  <2>1. Shift(s, v, leg, Signed(LegBuys(c.dir, leg), lots))
    BY <1>1, <1>2
  <2>2. /\ leg = "A" => Drift(s, v, c.dir, lots, 0)
        /\ leg = "B" => Drift(s, v, c.dir, 0, lots)
    BY <1>2, <2>1, ShiftDrifts
  <2> QED
    BY <1>2, <2>2 DEF Leg
<1>7. Fits(v, cap, c.filled + j0)
  <2>1. c.filled \in Int
    BY <1>2
  <2> HIDE DEF j0, k0
  <2> QED
    BY <1>4, <1>5, <1>6, <2>1, FitsDrift
<1>8. id \in Working(s)
  <2>1. s.rec.retireQ = <<>>
    BY <1>5 DEF Fits
  <2>2. id \notin Deferred(s)
    BY <2>1 DEF Good
  <2> QED
    BY <2>2 DEF Deferred, Working
<1>9. s.own[id].seen = c.filled /\ (s.orders[id].live \/ s.orders[id].exec = s.orders[id].size)
  BY <1>5, <1>8 DEF Rested
<1>10. n \in Nat /\ n =< c.target /\ v.own[id].seen = n
  <2>1. id \in DOMAIN v.own
    BY <1>4
  <2>2. v.own[id].seen =< v.own[id].placed /\ v.own[id].placed = s.own[id].placed
    BY <1>4, <2>1, GoodType DEF AcctOK, Evolve
  <2> QED
    BY <1>2, <1>9, <2>2
<1>11. Fits(t1, cap, c.filled + j0)
  <2> DEFINE real == c.filled + j0
  <2>1. Fits(v, cap, real)
    BY <1>7
  <2>2. /\ t1.sink = v.sink /\ t1.book = v.book /\ t1.rec = v.rec
        /\ t1.clip.dir = v.clip.dir /\ t1.clip.target = v.clip.target /\ t1.clip.lots = v.clip.lots
    BY <1>3, <1>4
  <2>3. t1.clip.filled =< t1.clip.target
    BY <1>3, <1>10
  <2> HIDE DEF real
  <2>4. Fits(t1, cap, real)
    BY <2>1, <2>2, <2>3 DEF Fits
  <2> QED
    BY <2>4 DEF real
<1>12. Ready(t1)
  <2> SUFFICES ASSUME NEW j \in Working(t1)
               PROVE  /\ t1.own[j].seen = IF j = id THEN n ELSE 0
                      /\ t1.orders[j].live \/ t1.orders[j].exec = t1.orders[j].size
    BY <1>3 DEF Ready
  <2>1. j \in Working(s) /\ j \in DOMAIN s.own
    BY <1>3, <1>4 DEF Working
  <2>2. CASE j = id
    BY <1>3, <1>9, <1>10, <2>2
  <2>3. CASE j # id
    <3>1. c.maker = 0 /\ c.filled = 0
      BY <1>2, <1>3, <2>3
    <3>2. v.own[j] = s.own[j] /\ v.orders[j] = s.orders[j]
      BY <1>4, <2>1, <2>3
    <3> QED
      BY <1>3, <1>5, <2>1, <2>3, <3>1, <3>2 DEF Rested
  <2> QED
    BY <2>2, <2>3
<1>13. ~t1.rec.halted
  BY <1>3, <1>4 DEF Duty
<1>14. CASE c.maker = 0
  <2>1. t \in FirstFill(t1, leg)
    BY <1>1, <1>14
  <2>2. c.filled + j0 = IF leg = "A" THEN t1.clip.filled ELSE 0
    BY <1>2, <1>3, <1>14
  <2>3. Fits(t1, cap, IF leg = "A" THEN t1.clip.filled ELSE 0)
    BY <1>11, <2>2
  <2> QED
    BY <1>2, <1>3, <1>12, <1>13, <2>1, <2>3, FirstFillExactly
<1>15. CASE c.maker # 0
  <2>1. t \in LaterFill(t1, leg, lots)
    BY <1>1, <1>15
  <2>2. c.filled + j0 = IF leg = "A" THEN t1.clip.filled ELSE t1.clip.filled - lots
    BY <1>2, <1>3
  <2>3. Fits(t1, cap, IF leg = "A" THEN t1.clip.filled ELSE t1.clip.filled - lots)
    BY <1>11, <2>2
  <2> QED
    BY <1>2, <1>3, <1>12, <1>13, <1>15, <2>1, <2>3, LaterFillExactly
<1> QED
  BY <1>14, <1>15

(* An order that has ended, or a taker, has nothing new to tell.           *)
LEMMA NothingNew ==
    ASSUME Dependable, NEW a \in Acct, NEW o \in OrderType, OrderOK(o), AcctOK(a, o),
           NEW lots \in Nat, a.seen + lots =< o.sent, ~a.maker \/ a.final >= 0
    PROVE  FoldFill(a, lots).credited = a.credited /\ LotsToPair(a, lots) = 0
<1>1. /\ a.seen \in Nat /\ a.final \in Int /\ a.credited \in Nat /\ o.sent \in Nat /\ o.exec \in Nat
      /\ o.sent =< o.exec /\ a.maker \in BOOLEAN
  BY OrderFields DEF Acct, OrderOK
<1>2. a.final >= 0 => a.final = o.exec
  <2>1. a.maker /\ a.final >= 0 => a.final = o.exec
    BY DEF AcctOK, Dependable
  <2>2. ~a.maker /\ a.final >= 0 => a.final >= o.exec /\ a.final =< o.exec
    BY DEF AcctOK, Dependable
  <2> QED
    BY <1>1, <2>1, <2>2
<1>3. a.final >= 0 => NewLots(a, lots) = 0
  BY <1>1, <1>2 DEF NewLots, Max2
<1>4. FoldFill(a, lots).credited = IF a.maker \/ a.final >= 0 THEN a.credited + NewLots(a, lots) ELSE a.credited
  BY DEF FoldFill, Acct
<1> QED
  BY <1>1, <1>3, <1>4 DEF LotsToPair

LEMMA OnFillExactly ==
    ASSUME Dependable, NEW cap \in Nat, NEW s, Good(s), ClipOK(s), Sized(s, cap),
           s.rec.halted => s.clip = Idle, NEW id, NEW n \in Nat \ {0},
           id \in DOMAIN s.own => s.own[id].seen + n =< s.orders[id].sent,
           NEW t \in OnFill(s, id, n)
    PROVE  Still(s, t) \/ (~s.rec.halted /\ Sized(t, cap))
<1> DEFINE a == s.own[id]
           c == s.clip
           lots == AcceptedLots(a, n)
           b == FoldFill(a, lots)
           v == SetAcct(s, id, b)
           t1 == Fills(v, id, lots)
           Stray == \/ ~a.maker
                    \/ a.final >= 0
                    \/ id \notin {c.A, c.B}
                    \/ c.maker \notin {0, id}
           Filled == IF Stray THEN HedgeStrayMakerFill(v, a.leg, a.buy, LotsToPair(a, lots))
                     ELSE IF c.maker = 0 THEN FirstFill(t1, a.leg) ELSE LaterFill(t1, a.leg, lots)
<1>0. OnFill(s, id, n) = CASE id \notin DOMAIN s.own -> {s}
                           [] id \in DOMAIN s.own /\ lots =< 0 -> {s}
                           [] id \in DOMAIN s.own /\ lots > 0 -> Filled
  BY Zenon DEF OnFill, Fills
<1> HIDE DEF Filled
<1>1. CASE id \notin DOMAIN s.own
  <2>1. t = s
    BY <1>0, <1>1
  <2> QED
    BY <2>1, StillRefl
<1>2. CASE id \in DOMAIN s.own
  <2> DEFINE o == s.orders[id]
  <2>1. /\ a \in Acct /\ o \in OrderType /\ OrderOK(o) /\ AcctOK(a, o)
        /\ a.maker \in BOOLEAN /\ a.final \in Int /\ a.seen \in Nat /\ a.placed \in Nat
        /\ a.leg \in Leg /\ a.buy \in BOOLEAN /\ o.sent \in Nat /\ a.credited \in Nat
    <3>1. a \in Acct /\ o \in OrderType
      BY <1>2, GoodType
    <3> QED
      BY <1>2, <3>1, GoodType DEF Acct, OrderType
  <2>2. lots = n /\ a.seen + lots =< a.placed /\ a.seen + lots =< o.sent
    <3>1. a.seen + n =< a.placed /\ a.seen + n =< o.sent
      BY <1>2, <2>1, OrderFields DEF AcctOK, OrderOK
    <3> QED
      BY <2>1, <3>1 DEF AcceptedLots, Min2
  <2>3. lots \in Nat \ {0} /\ lots > 0 /\ ~(lots =< 0)
    BY <2>2
  <2>4. t \in Filled
    <3> HIDE DEF lots
    <3> QED
      BY <1>0, <1>2, <2>3
  <2> HIDE DEF lots
  <2> DEFINE k == b.credited - a.credited
             m == LotsToPair(a, lots)
  <2>5. /\ b \in Acct /\ Restates(a, b, o) /\ k \in Nat /\ m \in Nat /\ b.final = a.final
        /\ a.maker => k = m
        /\ a.maker /\ a.final < 0 => m = lots /\ b.folded = a.folded + lots
        /\ b.seen = a.seen + lots
    <3> HIDE DEF o, a
    <3> QED
      BY <2>1, <2>2, <2>3, FilledAccount DEF o
  <2>6. b.leg = a.leg /\ b.buy = a.buy /\ b.maker = a.maker
    BY <2>5 DEF Restates
  <2>7. /\ Aside(s, v, {id}) /\ v.own[id] = b /\ v.orders = s.orders /\ v.rec = s.rec
    <3>1. b \in Acct /\ Restates(s.own[id], b, s.orders[id])
      BY <2>5
    <3> HIDE DEF b, a, lots
    <3> HIDE <2>5
    <3> QED
      BY <1>2, <2>6, <3>1, SetAcctAside, SMTT(30) DEF a
  <2>8. Shift(s, v, a.leg, Signed(a.buy, k))
    <3>1. k \in Int /\ b \in Acct
      BY <2>5
    <3> DEFINE d == k
    <3>2. d \in Int /\ d = b.credited - s.own[id].credited /\ b.leg = s.own[id].leg /\ b.buy = s.own[id].buy
      BY <2>6, <3>1
    <3> HIDE DEF d, b
    <3>3. Shift(s, v, b.leg, Signed(b.buy, d))
      BY <1>2, <3>1, <3>2, SetAcctExactly
    <3> QED
      BY <2>6, <3>3 DEF d
  <2> HIDE DEF v, b
  <2>9. CASE ~a.maker \/ a.final >= 0
    <3>1. k = 0 /\ m = 0
      <4>1. b.credited = a.credited /\ LotsToPair(a, lots) = 0
        <5> HIDE DEF a, o
        <5> QED
          BY <2>1, <2>2, <2>3, <2>9, NothingNew DEF b
      <4> QED
        BY <2>1, <4>1
    <3>2. t \in HedgeStrayMakerFill(v, a.leg, a.buy, 0)
      <4>1. Stray
        BY <2>9
      <4> HIDE DEF Stray, m
      <4>2. Filled = HedgeStrayMakerFill(v, a.leg, a.buy, m)
        BY <4>1 DEF Filled, m
      <4> QED
        BY <2>4, <3>1, <4>2
    <3>3. t = v
      <4>1. HedgeLots(Other(a.leg), 0) = 0
        BY HedgeLotsType
      <4> QED
        BY <3>2, <4>1 DEF HedgeStrayMakerFill, TopUp
    <3>4. v.sink = s.sink /\ v.book = s.book /\ Duty(s, v)
      <4>1. \A l \in Leg : v.sink[l] = s.sink[l] + 0
        BY <2>8, <3>1, SignedZero DEF Shift
      <4>2. v.sink \in [Leg -> Int] /\ s.sink \in [Leg -> Int]
        BY <2>7, AsideCalm, GoodType
      <4>3. v.sink = s.sink
        BY <4>1, <4>2
      <4> QED
        BY <2>8, <4>3 DEF Shift
    <3>5. id \notin Working(v)
      BY <2>1, <2>5, <2>6, <2>7, <2>9 DEF Working
    <3>6. Still(s, v)
      BY <2>7, <3>4, <3>5, AsideStill
    <3> QED
      BY <3>3, <3>6
  <2>10. CASE a.maker /\ a.final < 0
    <3>1. id \in Working(s)
      <4>1. s.rec.retireQ = <<>>
        BY DEF Sized, Fits
      <4>2. id \notin Deferred(s)
        BY <4>1 DEF Good
      <4> QED
        BY <1>2, <2>10, <4>2 DEF Deferred, Working
    <3>2. ~s.rec.halted /\ id \in {c.A, c.B} /\ c.maker \in {0, id}
      <4>1. c # Idle
        BY <3>1 DEF ClipOK
      <4>2. /\ Working(s) \subseteq (IF c.maker = 0 THEN {c.A, c.B} ELSE {c.maker})
            /\ c.maker \in {0, c.A, c.B}
        BY <4>1 DEF ClipOK
      <4> QED
        BY <3>1, <4>1, <4>2
    <3>3. a.maker = TRUE /\ ~Stray
      BY <2>1, <2>10, <3>2
    <3>4. IF c.maker = 0 THEN t \in FirstFill(t1, a.leg) ELSE t \in LaterFill(t1, a.leg, lots)
      <4> HIDE DEF t1
      <4> QED
        BY <2>4, <3>3 DEF Filled
    <3>5. k = lots /\ v.own[id].folded = a.folded + lots /\ v.own[id].seen = a.seen + lots
      BY <2>5, <2>7, <2>10
    <3>6. Shift(s, v, a.leg, Signed(a.buy, lots))
      BY <2>8, <3>5
    <3>7. t1 = Fills(v, id, lots)
      OBVIOUS
    <3> HIDE DEF t1, k, m
    <3>8. Sized(t, cap)
      BY <1>2, <2>3, <2>7, <2>10, <3>2, <3>3, <3>4, <3>5, <3>6, <3>7, ClipFillExactly
    <3> QED
      BY <3>2, <3>8
  <2> QED
    BY <2>1, <2>9, <2>10
<1> QED
  BY <1>1, <1>2

-----------------------------------------------------------------------------
(* What moves nothing: takers that turn out executed, orders that end, and *)
(* what the broker, the clock and the reconciler do by themselves.         *)
LEMMA CheckedStill ==
    ASSUME Dependable, NEW s, Good(s), NEW probe \in BOOLEAN, NEW t \in CheckPendingTakers(s, probe)
    PROVE  Still(s, t)
<1>1. Aside(s, t, s.pending) /\ Undisturbed(s, t) /\ Evolve(s, t)
  BY CheckPendingTakersOutcome, AsideCalm DEF Dependable
<1>2. \A id \in s.pending \cap DOMAIN s.own : id \notin Working(t)
  BY <1>1 DEF Good, Evolve, Working
<1> QED
  BY <1>1, <1>2, AsideStill DEF Undisturbed

LEMMA StatusKept ==
    ASSUME Dependable, NEW s, Good(s), s.rec.retireQ = <<>>, Rested(s), NEW id,
           id \in DOMAIN s.own => ~s.orders[id].live /\ s.orders[id].exec < s.orders[id].size,
           NEW t \in OnOrderStatus(s, id)
    PROVE  t = s
<1> DEFINE a == s.own[id]
           maker == IF a.deferred /\ ~s.rec.halted THEN {o.st : o \in TryDeferredRetire(s, id)}
                    ELSE IF id \in {s.clip.A, s.clip.B} /\ a.final < 0 THEN CancelClip(s)
                    ELSE {s}
<1>1. CASE id \notin DOMAIN s.own
  BY <1>1 DEF OnOrderStatus
<1>2. CASE id \in DOMAIN s.own
  <2>1. /\ a \in Acct /\ s.orders[id] \in OrderType /\ AcctOK(a, s.orders[id]) /\ a.maker \in BOOLEAN
        /\ s.orders[id].exec \in Nat /\ s.orders[id].size \in Nat
    BY <1>2, GoodType, OrderFields DEF Acct
  <2>2. a.maker
    BY <1>2, <2>1 DEF AcctOK, Dependable
  <2>3. OnOrderStatus(s, id) = maker
    BY <1>2, <2>2, Zenon DEF OnOrderStatus
  <2>4. id \notin Deferred(s)
    BY DEF Good
  <2>5. id \notin Working(s)
    BY <1>2, <2>1 DEF Rested
  <2>6. ~a.deferred /\ ~(a.final < 0)
    BY <1>2, <2>2, <2>4, <2>5 DEF Working, Deferred
  <2>7. maker = {s}
    BY <2>6
  <2> HIDE DEF maker
  <2> QED
    BY <2>3, <2>7
<1> QED
  BY <1>1, <1>2

LEMMA MovedStill ==
    ASSUME NEW s, Good(s), NEW id \in 1..Len(s.orders), NEW p \in OrderType, OrderOK(p),
           id \in DOMAIN s.own => AcctOK(s.own[id], p),
           s.orders[id].live \/ s.orders[id].exec = s.orders[id].size => p.live \/ p.exec = p.size,
           NEW t, t = Moved(s, id, p)
    PROVE  Still(s, t)
<1>1. /\ t.own = s.own /\ t.orders[id] = p
      /\ \A j \in 1..Len(s.orders) \ {id} : t.orders[j] = s.orders[j]
      /\ t.rec = s.rec /\ t.clip = s.clip
  BY MovedOutcome
<1>2. t.sink = s.sink /\ t.book = s.book
  BY GoodType DEF Moved, State
<1>3. Working(t) = Working(s) /\ Working(s) \subseteq 1..Len(s.orders)
  BY <1>1, GoodType DEF Working
<1> QED
  BY <1>1, <1>2, <1>3 DEF Still, Duty

LEMMA OverdueStill ==
    ASSUME NEW s, Good(s), NEW id \in s.pending, NEW t, t = [s EXCEPT !.own[id].overdue = TRUE]
    PROVE  Still(s, t)
<1>1. Aside(s, t, {id}) /\ Evolve(s, t)
  BY OverdueFields, AsideCalm
<1>2. t.sink = s.sink /\ t.book = s.book /\ t.rec = s.rec
  BY GoodType DEF State
<1>3. id \notin Working(t)
  BY <1>1 DEF Good, Evolve, Working
<1> QED
  BY <1>1, <1>2, <1>3, AsideStill DEF Duty

-----------------------------------------------------------------------------
(* Opening a clip. *)

(* A maker comes to rest, nothing of it seen, and nothing else moves.      *)
RestsNew(s, o) ==
    /\ \A l \in Leg : o.st.sink[l] = s.sink[l]
    /\ o.st.book = s.book /\ Duty(s, o.st)
    /\ \A j \in DOMAIN s.own : o.st.own[j] = s.own[j] /\ o.st.orders[j] = s.orders[j]
    /\ o.st.own[o.id].seen = 0 /\ o.st.orders[o.id].live

LEMMA MakerExactly ==
    ASSUME Dependable, NEW s, Good(s), ~s.rec.halted,
           NEW leg \in Leg, NEW buy \in BOOLEAN, NEW lots \in Nat \ {0},
           leg = "B" => HedgeRatio = 1,
           NEW o \in PlaceMaker(s, leg, buy, lots)
    PROVE  o.res = "ok" /\ MakerPlaced(s, leg, buy, lots, o) /\ RestsNew(s, o)
<1> DEFINE p == AddOrder(s, leg, buy, lots)
           id == Len(p.orders)
           a == NewMaker(leg, buy, lots)
           t == Track(p, id, a)
<1>1. o = [st |-> t, res |-> "ok", id |-> id]
  BY NoFaults DEF PlaceMaker
<1>2. MakerPlaced(s, leg, buy, lots, o)
  BY <1>1, PlaceMakerOutcome
<1>3. s \in State /\ Len(s.orders) \in Nat /\ DOMAIN s.own \subseteq 1..Len(s.orders)
  BY GoodType
<1>4. /\ p \in State /\ p.own = s.own /\ p.rec = s.rec /\ p.sink = s.sink /\ p.book = s.book
      /\ id = Len(s.orders) + 1 /\ p.orders[id] = NewOrder(leg, buy, lots)
      /\ \A j \in 1..Len(s.orders) : p.orders[j] = s.orders[j]
  BY <1>3, AddOrderFields
<1>5. a \in Acct /\ a.credited = 0 /\ a.seen = 0 /\ a.buy = buy
  BY NewAccounts DEF NewMaker
<1>6. NewOrder(leg, buy, lots).live
  BY DEF NewOrder
<1> HIDE DEF a, p
<1>7. id \in Nat /\ id \notin DOMAIN p.own
  BY <1>3, <1>4
<1>8. /\ t.own[id] = a /\ \A j \in DOMAIN p.own : t.own[j] = p.own[j]
      /\ \A l \in Leg : t.sink[l] = p.sink[l] + IF l = a.leg THEN Sign(a.buy) * a.credited ELSE 0
      /\ t.book = p.book /\ t.rec = p.rec /\ t.orders = p.orders
  BY <1>4, <1>5, <1>7, TrackFields
<1> HIDE DEF t
<1>9. \A l \in Leg : t.sink[l] = s.sink[l]
  <2> TAKE l \in Leg
  <2>1. Sign(a.buy) * a.credited = 0
    BY <1>5 DEF Sign
  <2>2. s.sink[l] \in Int
    BY SinkType
  <2> QED
    BY <1>4, <1>8, <2>1, <2>2
<1>10. \A j \in DOMAIN s.own : t.own[j] = s.own[j] /\ t.orders[j] = s.orders[j]
  BY <1>3, <1>4, <1>8
<1>11. t.own[id].seen = 0 /\ t.orders[id].live
  BY <1>4, <1>5, <1>6, <1>8
<1> HIDE DEF id
<1>12. o.st = t /\ o.id = id /\ o.res = "ok"
  BY <1>1
<1> QED
  BY <1>2, <1>4, <1>8, <1>9, <1>10, <1>11, <1>12 DEF RestsNew, Duty

(* An idle engine's position is the ledger's, within the cap.              *)
LEMMA IdleFits ==
    ASSUME NEW s, Good(s), s.clip = Idle, NEW cap \in Nat
    PROVE  Fits(s, cap, s.clip.filled) <=>
              /\ ~s.rec.impaired /\ s.rec.retireQ = <<>> /\ s.rec.debts = <<>>
              /\ s.sink["A"] \in -cap..cap
              /\ LotBook /\ ~s.rec.halted => s.book = s.sink["A"]
<1>1. s.sink["A"] \in Int
  BY SinkType
<1>2. /\ s.clip.dir = 0 /\ s.clip.filled = 0 /\ s.clip.lots = 0 /\ s.clip.target = 0
  BY DEF Idle
<1>3. Along(s.clip.dir, 0) = 0
  BY <1>2 DEF Along
<1> DEFINE x == s.sink["A"]
<1>4. x - 0 = x /\ x + 0 = x
  BY <1>1
<1> HIDE DEF x
<1> QED
  BY <1>2, <1>3, <1>4 DEF Fits, x

(* Makers that rest for an intent the cap has room for.                    *)
LEMMA RestSized ==
    ASSUME NEW cap \in Nat, NEW s, Free(s), Sized(s, cap),
           NEW intent \in Intent, NEW lots \in Nat \ {0}, intent.lots = lots,
           s.sink["A"] + Along(intent.dir, lots) \in -cap..cap,
           NEW u, Good(u), u.sink["A"] = s.sink["A"], u.book = s.book, Duty(s, u),
           \A id \in Working(u) : u.own[id].seen = 0 /\ u.orders[id].live,
           NEW a \in Nat, NEW b \in Nat,
           NEW t, t = [u EXCEPT !.clip = OpenedClip(intent, lots, a, b)]
    PROVE  Sized(t, cap)
<1> DEFINE c == OpenedClip(intent, lots, a, b)
<1>1. /\ c \in Clip /\ c.dir = intent.dir /\ c.target = lots /\ c.lots = lots /\ c.filled = 0
  BY OpenedClipType DEF OpenedClip
<1> HIDE DEF c
<1>2. u \in State
  BY GoodType
<1>3. /\ t.clip = c /\ t.own = u.own /\ t.orders = u.orders /\ t.sink = u.sink /\ t.book = u.book
      /\ t.rec = u.rec
  BY <1>2 DEF State, c
<1>4. /\ ~s.rec.impaired /\ s.rec.retireQ = <<>> /\ s.rec.debts = <<>>
      /\ s.sink["A"] \in -cap..cap
      /\ LotBook /\ ~s.rec.halted => s.book = s.sink["A"]
  BY IdleFits DEF Free, Sized
<1>5. Along(t.clip.dir, t.clip.filled) = 0 /\ t.sink["A"] = s.sink["A"] /\ s.sink["A"] \in Int
  <2>1. Good(s) /\ intent.dir \in {-1, 0, 1}
    BY IntentType DEF Free
  <2> QED
    BY <1>1, <1>3, <2>1, AlongType, SinkType
<1>6. t.sink["A"] - Along(t.clip.dir, t.clip.filled) = s.sink["A"]
  BY <1>5
<1>7. t.rec.halted = s.rec.halted /\ t.rec.impaired = s.rec.impaired
      /\ t.rec.retireQ = s.rec.retireQ /\ t.rec.debts = s.rec.debts
  BY <1>3 DEF Duty
<1>8. t.clip.lots = t.clip.target /\ t.clip.filled =< t.clip.target /\ t.clip.dir = intent.dir
      /\ t.clip.target = lots
  BY <1>1, <1>3
<1>9. Fits(t, cap, t.clip.filled)
  BY <1>3, <1>4, <1>6, <1>7, <1>8 DEF Fits
<1>10. Working(t) = Working(u)
  BY <1>3 DEF Working
<1>11. Rested(t)
  BY <1>1, <1>3, <1>10 DEF Rested
<1> QED
  BY <1>9, <1>11 DEF Sized

LEMMA OpenTakerOnlyExactly ==
    ASSUME Dependable, NEW cap \in Nat, NEW s, Free(s), Sized(s, cap),
           NEW intent \in Intent, NEW lots \in Nat \ {0},
           s.sink["A"] + Along(intent.dir, lots) \in -cap..cap,
           NEW t \in OpenTakerOnlyClip(s, intent, lots)
    PROVE  Sized(t, cap)
<1> DEFINE buy(leg) == LegBuys(intent.dir, leg)
           n(leg) == HedgeLots(leg, lots)
           Chase(v, leg, ok, plain) ==
              IF ok THEN {v}
              ELSE IF plain THEN TakerRetryPlain(v, leg, buy(leg), n(leg), 1)
              ELSE TakerRetryFrom(v, leg, buy(leg), n(leg), 1)
           Plain(a, b) == ~(a.res = "ok") /\ ~(b.res = "ok") /\ ~intent.close
           Join(a, b) == UNION { Chase(v, "B", b.res = "ok", Plain(a, b)) :
                                 v \in Chase(b.st, "A", a.res = "ok", Plain(a, b)) }
           Second(a) == UNION {Join(a, b) : b \in PlaceTaker(a.st, "B", buy("B"), n("B"))}
           Both == UNION {Second(a) : a \in PlaceTaker(s, "A", buy("A"), n("A"))}
<1>1. /\ buy("A") \in BOOLEAN /\ buy("B") \in BOOLEAN /\ "A" \in Leg /\ "B" \in Leg
      /\ intent.dir \in {-1, 1}
  BY IntentType, BuysType DEF Leg
<1>2. n("A") \in Nat \ {0} /\ n("B") \in Nat \ {0} /\ n("A") = lots
  BY HedgeLotsType DEF HedgeLots
<1>3. OpenTakerOnlyClip(s, intent, lots) = {[v EXCEPT !.book = @ + intent.dir * lots] : v \in Both}
  BY Zenon DEF OpenTakerOnlyClip, After
<1>4. PICK v \in Both : t = [v EXCEPT !.book = @ + intent.dir * lots]
  <2> HIDE DEF Both
  <2> QED
    BY <1>3
<1>5. PICK a \in PlaceTaker(s, "A", buy("A"), n("A")) : v \in Second(a)
  <2> HIDE DEF Second
  <2> QED
    BY <1>4
<1> DEFINE bA == buy("A")
           bB == buy("B")
           nA == n("A")
           nB == n("B")
<1>6. bA \in BOOLEAN /\ bB \in BOOLEAN /\ nA \in Nat \ {0} /\ nB \in Nat \ {0} /\ nA = lots
      /\ bA = LegBuys(intent.dir, "A")
  BY <1>1, <1>2
<1>7. a \in PlaceTaker(s, "A", bA, nA)
  BY <1>5
<1>8. PICK b \in PlaceTaker(a.st, "B", bB, nB) : v \in Join(a, b)
  <2> HIDE DEF Join
  <2> QED
    BY <1>5
<1> HIDE DEF bA, bB, nA, nB
<1>9. Good(s) /\ ~s.rec.halted
  BY DEF Free
<1>10. a.res = "ok" /\ Bought(s, a.st, "A", bA, nA)
  BY <1>1, <1>6, <1>7, <1>9, TakenExactly
<1>11. Good(a.st) /\ ~a.st.rec.halted /\ a.st.clip = s.clip /\ Working(a.st) = {}
  BY <1>9, <1>10 DEF Bought, Aside, Calm, Evolve, Free
<1>12. b.res = "ok" /\ Bought(a.st, b.st, "B", bB, nB)
  BY <1>1, <1>6, <1>8, <1>11, TakenExactly
<1>13. v = b.st
  BY <1>8, <1>10, <1>12
<1> HIDE DEF Both, Second, Join, Chase, Plain, buy, n
<1>14. Good(v) /\ v.clip = s.clip /\ Working(v) = {} /\ v.rec.halted = s.rec.halted
  BY <1>11, <1>12, <1>13, <1>10 DEF Bought, Aside, Calm, Evolve
<1>15. Signed(bA, nA) = Along(intent.dir, lots) /\ Along(intent.dir, lots) = intent.dir * lots
       /\ intent.dir * lots \in Int
  BY <1>1, <1>6, SignedSides
<1>16. Signed(bB, nB) \in Int /\ s.sink["A"] \in Int /\ s.book \in Int
  BY <1>6, <1>9, SignedIs, SinkType
<1>17. /\ v.sink["A"] = s.sink["A"] + Along(intent.dir, lots) /\ v.book = s.book /\ Duty(s, v)
  BY <1>1, <1>10, <1>12, <1>13, <1>15, <1>16 DEF Bought, Shift, Duty
<1> DEFINE k == intent.dir * lots
           x == v.book + k
<1>18. t = [v EXCEPT !.book = x] /\ x \in Int /\ x = s.book + Along(intent.dir, lots)
  BY <1>4, <1>15, <1>16, <1>17
<1> HIDE DEF x, k
<1>19. v \in State
  BY <1>14, GoodType
<1>20. /\ t.own = v.own /\ t.rec = v.rec /\ t.clip = v.clip /\ t.sink = v.sink /\ t.book = x
       /\ t \in State /\ t.pending = v.pending /\ t.orders = v.orders /\ t.moves = v.moves
  BY <1>18, <1>19 DEF State
<1>21. Good(t) /\ Working(t) = {}
  BY <1>14, <1>20, ReclipFields
<1>22. s.clip = Idle
  BY DEF Free
<1>23. /\ ~s.rec.impaired /\ s.rec.retireQ = <<>> /\ s.rec.debts = <<>>
       /\ s.sink["A"] \in -cap..cap
       /\ LotBook /\ ~s.rec.halted => s.book = s.sink["A"]
  BY <1>9, <1>22, IdleFits DEF Sized
<1>24. /\ ~t.rec.impaired /\ t.rec.retireQ = <<>> /\ t.rec.debts = <<>>
       /\ t.sink["A"] \in -cap..cap
       /\ LotBook /\ ~t.rec.halted => t.book = t.sink["A"]
  BY <1>17, <1>18, <1>20, <1>23 DEF Duty
<1>25. t.clip = Idle
  BY <1>14, <1>20, <1>22
<1>26. Fits(t, cap, t.clip.filled)
  BY <1>21, <1>24, <1>25, IdleFits
<1> QED
  BY <1>21, <1>26 DEF Sized, Rested

LEMMA OpenClipExactly ==
    ASSUME Dependable, NEW cap \in Nat, NEW s, Free(s), Sized(s, cap),
           NEW intent \in Intent, NEW lots \in Nat \ {0}, intent.lots = lots,
           s.sink["A"] + Along(intent.dir, lots) \in -cap..cap,
           NEW r \in OpenClip(s, intent, lots)
    PROVE  r.retry = FALSE /\ Sized(r.st, cap)
<1> DEFINE mode == ClipExecMode(intent)
           first == IF mode = "soloB" THEN "B" ELSE "A"
           Done(t) == [st |-> t, retry |-> FALSE]
           Rest(t, a, b) == Done([t EXCEPT !.clip = OpenedClip(intent, lots, a, b)])
           Pull(t, a, b) == {Done(u) : u \in UnwindFirstLeg(b.st, a, intent.dir)}
           Second(t, a, b) == IF b.res = "ok" THEN {Rest(b.st, a, b.id)} ELSE Pull(t, a, b)
           SecondLeg(t, a) ==
              UNION {Second(t, a, b) : b \in PlaceMaker(t, "B", LegBuys(intent.dir, "B"), lots)}
           Place(p) == CASE p.res # "ok" -> {[st |-> p.st, retry |-> intent.close /\ p.res = "reject"]}
                         [] p.res = "ok" /\ mode = "dual" -> SecondLeg(p.st, p.id)
                         [] p.res = "ok" /\ mode = "solo" -> {Rest(p.st, p.id, 0)}
                         [] p.res = "ok" /\ mode = "soloB" -> {Rest(p.st, 0, p.id)}
           bF == LegBuys(intent.dir, first)
           lF == HedgeLots(first, lots)
           bB == LegBuys(intent.dir, "B")
<1>1. /\ intent.dir \in {-1, 1} /\ mode \in Mode
      /\ mode \in {"dual", "soloB"} => HedgeRatio = 1
  BY IntentType
<1>2. first \in Leg /\ (first = "B" => HedgeRatio = 1) /\ bF \in BOOLEAN /\ lF \in Nat \ {0}
      /\ bB \in BOOLEAN /\ "B" \in Leg
  <2>1. first \in Leg /\ (first = "B" => mode = "soloB")
    BY DEF Leg
  <2>2. "B" \in Leg
    BY DEF Leg
  <2> HIDE DEF first, mode
  <2>3. first = "B" => HedgeRatio = 1
    BY <1>1, <2>1
  <2>4. bF \in BOOLEAN /\ lF \in Nat \ {0} /\ bB \in BOOLEAN
    BY <1>1, <2>1, BuysType, HedgeLotsType
  <2> QED
    BY <2>1, <2>2, <2>3, <2>4
<1>3. Good(s) /\ ~s.rec.halted /\ Working(s) = {}
  BY DEF Free
<1>4. CASE mode = "taker"
  <2>1. PICK t \in OpenTakerOnlyClip(s, intent, lots) : r = Done(t)
    BY <1>4 DEF OpenClip
  <2>2. Sized(t, cap)
    BY OpenTakerOnlyExactly
  <2> QED
    BY <2>1, <2>2
<1>5. CASE mode # "taker"
  <2>1. OpenClip(s, intent, lots) = UNION {Place(p) : p \in PlaceMaker(s, first, bF, lF)}
    BY <1>5, Zenon DEF OpenClip
  <2> HIDE DEF first, bF, lF, bB
  <2>2. PICK p \in PlaceMaker(s, first, bF, lF) : r \in Place(p)
    <3> HIDE DEF Place
    <3> QED
      BY <2>1
  <2>3. p.res = "ok" /\ MakerPlaced(s, first, bF, lF, p) /\ RestsNew(s, p)
    BY <1>2, <1>3, <2>2, MakerExactly
  <2> DEFINE u == p.st
             id == p.id
  <2>4. /\ Good(u) /\ Evolve(s, u) /\ Working(u) \subseteq {id} /\ id \in Nat /\ id \in DOMAIN u.own
        /\ u.sink["A"] = s.sink["A"] /\ u.book = s.book /\ Duty(s, u)
        /\ u.own[id].seen = 0 /\ u.orders[id].live
    <3>1. Good(u) /\ Evolve(s, u) /\ Working(u) \subseteq {id} /\ id \in DOMAIN u.own
      BY <1>3, <2>3 DEF MakerPlaced
    <3>2. id \in Nat
      BY <3>1, GoodType
    <3> QED
      BY <3>1, <3>2, <2>3 DEF RestsNew, Leg
  <2>5. \A j \in Working(u) : u.own[j].seen = 0 /\ u.orders[j].live
    BY <2>4
  <2>6. ASSUME NEW a \in Nat, NEW b \in Nat, r = Rest(u, a, b)
        PROVE  r.retry = FALSE /\ Sized(r.st, cap)
    <3> DEFINE t == [u EXCEPT !.clip = OpenedClip(intent, lots, a, b)]
    <3>1. r = Done(t)
      BY <2>6
    <3> HIDE DEF u
    <3>2. Sized(t, cap)
      BY <2>4, <2>5, RestSized
    <3> HIDE DEF t
    <3> QED
      BY <3>1, <3>2
  <2>7. CASE mode = "solo"
    <3>1. r = Rest(u, id, 0)
      BY <2>2, <2>3, <2>7
    <3>2. id \in Nat /\ 0 \in Nat
      BY <2>4
    <3> HIDE DEF Rest, u, id
    <3> QED
      BY <3>1, <3>2, <2>6
  <2>8. CASE mode = "soloB"
    <3>1. r = Rest(u, 0, id)
      BY <2>2, <2>3, <2>8
    <3>2. id \in Nat /\ 0 \in Nat
      BY <2>4
    <3> HIDE DEF Rest, u, id
    <3> QED
      BY <3>1, <3>2, <2>6
  <2>9. CASE mode = "dual"
    <3>1. r \in SecondLeg(u, id)
      <4> HIDE DEF SecondLeg
      <4> QED
        BY <2>2, <2>3, <2>9
    <3>2. PICK b \in PlaceMaker(u, "B", bB, lots) : r \in Second(u, id, b)
      <4> HIDE DEF Second
      <4> QED
        BY <3>1 DEF bB
    <3>3. HedgeRatio = 1 /\ ~u.rec.halted
      BY <1>1, <1>3, <2>4, <2>9 DEF Evolve
    <3> HIDE DEF mode
    <3>4. b.res = "ok" /\ MakerPlaced(u, "B", bB, lots, b) /\ RestsNew(u, b)
      <4> HIDE DEF u, id, Second
      <4> QED
        BY <1>2, <2>4, <3>2, <3>3, MakerExactly
    <3>5. r = Rest(b.st, id, b.id)
      <4> HIDE DEF Pull, Rest
      <4> QED
        BY <3>2, <3>4
    <3> DEFINE w == b.st
               k == b.id
    <3>6. /\ Good(w) /\ Working(w) \subseteq {id, k} /\ k \in Nat /\ k \in DOMAIN w.own
          /\ w.sink["A"] = s.sink["A"] /\ w.book = s.book /\ Duty(s, w)
          /\ w.own[k].seen = 0 /\ w.orders[k].live
          /\ w.own[id].seen = 0 /\ w.orders[id].live
      <4>1. Good(w) /\ Evolve(u, w) /\ k \in DOMAIN w.own /\ Working(w) \subseteq {id, k}
        BY <2>4, <3>4 DEF MakerPlaced
      <4>2. k \in Nat
        BY <4>1, GoodType
      <4>3. /\ w.sink["A"] = u.sink["A"] /\ w.book = u.book /\ Duty(u, w)
            /\ w.own[k].seen = 0 /\ w.orders[k].live
            /\ w.own[id] = u.own[id] /\ w.orders[id] = u.orders[id]
        BY <2>4, <3>4 DEF RestsNew, Leg
      <4> QED
        BY <2>4, <4>1, <4>2, <4>3 DEF Duty
    <3>7. \A j \in Working(w) : w.own[j].seen = 0 /\ w.orders[j].live
      BY <3>6
    <3> DEFINE t == [w EXCEPT !.clip = OpenedClip(intent, lots, id, k)]
    <3>8. r = Done(t)
      BY <3>5
    <3> HIDE DEF w, k, id
    <3>9. Sized(t, cap)
      BY <2>4, <3>6, <3>7, RestSized
    <3> HIDE DEF t
    <3> QED
      BY <3>8, <3>9
  <2>10. mode \in {"dual", "solo", "soloB"}
    BY <1>1, <1>5 DEF Mode
  <2> QED
    BY <2>7, <2>8, <2>9, <2>10
<1> QED
  BY <1>4, <1>5

LEMMA SpentExactly ==
    ASSUME NEW cap \in Nat, NEW s, Good(s), Sized(s, cap), s.moves > 0,
           NEW u, u = [s EXCEPT !.moves = @ - 1]
    PROVE  /\ Aside(s, u, {}) /\ Sized(u, cap) /\ u.sink = s.sink
           /\ u.own = s.own /\ u.clip = s.clip /\ u.rec = s.rec
<1>1. Aside(s, u, {}) /\ u.own = s.own /\ u.rec = s.rec /\ u.clip = s.clip /\ u.sink = s.sink
      /\ u.orders = s.orders /\ u.book = s.book
  BY SpentMoveFields
<1>2. Working(u) = Working(s)
  BY <1>1 DEF Working
<1> QED
  BY <1>1, <1>2 DEF Sized, Fits, Rested

(* The ladder is a closing clip's, and only after a rejection.             *)
LEMMA TryOpenClipExactly ==
    ASSUME Dependable, NEW cap \in Nat, NEW s, Free(s), Sized(s, cap), NEW intent \in Intent,
           s.sink["A"] + Along(intent.dir, intent.lots) \in -cap..cap,
           NEW t \in TryOpenClip(s, intent)
    PROVE  Sized(t, cap)
<1> DEFINE n == intent.lots
           start == [st |-> s, lots |-> intent.lots, retry |-> TRUE]
           S == {start}
           Rung(o, i) ==
              IF ~o.retry \/ o.st.moves = 0 THEN {[o EXCEPT !.retry = FALSE]}
              ELSE { [st |-> p.st, lots |-> o.lots - LotStep,
                      retry |-> p.retry /\ LotStep > 0 /\ o.lots - LotStep >= MinLots] :
                     p \in OpenClip([o.st EXCEPT !.moves = @ - 1], intent, o.lots) }
           Y == {w \in State : Sized(w, cap)}
           X == S \cup {o \in [st : State, lots : Int, retry : {FALSE}] : o.st \in Y}
           P == [i \in 0..n |-> X]
<1>1. n \in Nat /\ s \in Y /\ s \in State /\ Good(s) /\ LotStep \in Nat /\ intent.lots \in Nat \ {0}
  BY IntentType, GoodType, Constants DEF Free
<1>2. S \subseteq X
  OBVIOUS
<1>3. ASSUME NEW o \in X, NEW i PROVE Rung(o, i) \subseteq X
  <2>1. CASE o \in S
    <3>1. o = start
      BY <2>1
    <3>2. CASE s.moves = 0
      <4>1. Rung(o, i) = {[st |-> s, lots |-> intent.lots, retry |-> FALSE]}
        BY <3>1, <3>2
      <4> DEFINE q == [st |-> s, lots |-> intent.lots, retry |-> FALSE]
      <4>2. q \in X
        <5> HIDE DEF Y, Rung
        <5> QED
          BY <1>1
      <4> HIDE DEF Rung, X
      <4> QED
        BY <4>1, <4>2
    <3>3. CASE s.moves # 0
      <4> DEFINE u == [s EXCEPT !.moves = @ - 1]
                 R(p) == [ st |-> p.st, lots |-> intent.lots - LotStep,
                           retry |-> p.retry /\ LotStep > 0 /\ intent.lots - LotStep >= MinLots ]
      <4>1. Rung(o, i) = {R(p) : p \in OpenClip(u, intent, intent.lots)}
        BY <3>1, <3>3
      <4>2. s.moves > 0
        BY <1>1, <3>3, GoodType
      <4>3. Free(u) /\ Sized(u, cap) /\ u.sink = s.sink
        <5>1. Aside(s, u, {}) /\ Sized(u, cap) /\ u.sink = s.sink
          BY <1>1, <4>2, SpentExactly
        <5> QED
          BY <5>1, AsideFree
      <4> HIDE DEF u
      <4> SUFFICES ASSUME NEW p \in OpenClip(u, intent, intent.lots) PROVE R(p) \in X
        <5> HIDE DEF Rung, X, R
        <5> QED
          BY <4>1
      <4> DEFINE l == intent.lots
      <4>4. l \in Nat \ {0} /\ intent.lots = l /\ p \in OpenClip(u, intent, l)
            /\ u.sink["A"] + Along(intent.dir, l) \in -cap..cap
        BY <1>1, <4>3
      <4> HIDE DEF l, Rung, X, R, Y
      <4>5. p.retry = FALSE /\ Sized(p.st, cap)
        BY <4>3, <4>4, OpenClipExactly
      <4>6. p.st \in State
        <5>1. Opened(u, p)
          BY <4>3, <4>4, OpenClipOutcome
        <5> QED
          BY <5>1, GoodType DEF Opened, Handled
      <4> DEFINE again == p.retry /\ LotStep > 0 /\ intent.lots - LotStep >= MinLots
                 left == intent.lots - LotStep
      <4>7. again = FALSE /\ left \in Int
        BY <1>1, <4>5
      <4>8. R(p) = [st |-> p.st, lots |-> left, retry |-> again]
        BY DEF R
      <4>9. p.st \in Y
        BY <4>5, <4>6 DEF Y
      <4> HIDE DEF again, left
      <4> DEFINE y == [st |-> p.st, lots |-> left, retry |-> again]
      <4>10. y \in [st : State, lots : Int, retry : {FALSE}] /\ y.st = p.st
        BY <4>6, <4>7
      <4> HIDE DEF y
      <4>11. y \in X
        BY <4>9, <4>10 DEF X
      <4> QED
        BY <4>8, <4>11 DEF y
    <3> QED
      BY <3>2, <3>3
  <2>2. CASE o \notin S
    <3>1. o \in [st : State, lots : Int, retry : {FALSE}]
      BY <2>2
    <3>2. Rung(o, i) = {o}
      <4>1. [o EXCEPT !.retry = FALSE] = o /\ o.retry = FALSE
        BY <3>1
      <4> QED
        BY <4>1
    <3> QED
      BY <3>2
  <2> QED
    BY <2>1, <2>2
<1>4. t \in {o.st : o \in Loop(n, S, Rung)}
  BY DEF TryOpenClip
<1> HIDE DEF S, X, Rung, n
<1>5. P[n] = X
  BY <1>1
<1>6. n \in Nat
  BY <1>1
<1>7. S \subseteq P[0]
  BY <1>1, <1>2
<1>8. \A i \in 1..n : \A o \in P[i - 1] : Rung(o, i) \subseteq P[i]
  BY <1>1, <1>3
<1> HIDE DEF P
<1> DEFINE F == [i \in 1..n |-> [o \in P[i - 1] |-> Rung(o, i)]]
           Is(g) == g = [i \in 0..n |-> IF i = 0 THEN S ELSE UNION {Rung(o, i) : o \in g[i - 1]}]
           it == CHOOSE g : Is(g)
<1>9. \A i \in 1..n : \A o \in P[i - 1] : F[i][o] = Rung(o, i)
  BY <1>6
<1> HIDE DEF F
<1>10. PICK g : Run(g, n, S, F) /\ Within(n, g, P)
  <2>1. Preserves(n, S, F, P)
    BY <1>7, <1>8, <1>9 DEF Preserves
  <2> QED
    BY <1>6, <2>1, LoopExists
<1>11. Is(g)
  <2>1. ASSUME NEW i \in 1..n PROVE g[i] = UNION {Rung(o, i) : o \in g[i - 1]}
    <3>1. \A o \in g[i - 1] : F[i][o] = Rung(o, i)
      BY <1>6, <1>9, <1>10 DEF Within
    <3>2. \A y : y \in g[i] <=> \E o \in g[i - 1] : y \in F[i][o]
      BY <1>10 DEF Run
    <3>3. \A y : y \in g[i] <=> \E o \in g[i - 1] : y \in Rung(o, i)
      BY <3>1, <3>2
    <3> QED
      BY <3>3
  <2>2. ASSUME NEW i \in 0..n
        PROVE  g[i] = IF i = 0 THEN S ELSE UNION {Rung(o, i) : o \in g[i - 1]}
    <3>1. CASE i = 0
      BY <1>10, <3>1 DEF Run
    <3>2. CASE i # 0
      <4>1. i \in 1..n
        BY <3>2
      <4>2. g[i] = UNION {Rung(o, i) : o \in g[i - 1]}
        BY <4>1, <2>1
      <4> QED
        BY <4>2, <3>2, Zenon
    <3> QED
      BY <3>1, <3>2
  <2> QED
    BY <2>2, <1>10 DEF Run
<1>12. Is(it)
  <2> HIDE DEF Is
  <2> QED
    BY <1>11
<1> HIDE DEF it
<1>13. it[n] \subseteq P[n]
  <2>1. it[0] = S
    BY <1>12, <1>6
  <2>2. ASSUME NEW i \in 1..n, it[i - 1] \subseteq P[i - 1] PROVE it[i] \subseteq P[i]
    <3>1. i \in 0..n /\ i # 0
      BY <1>6
    <3>2. it[i] = UNION {Rung(o, i) : o \in it[i - 1]}
      BY <1>12, <3>1, Zenon
    <3> HIDE DEF Is
    <3> QED
      BY <3>2, <2>2, <1>8
  <2> HIDE DEF Is
  <2>3. it[0] \subseteq P[0]
    BY <2>1, <1>7
  <2>4. Within(n, it, P)
    BY <1>6, <2>2, <2>3, LoopStays
  <2> QED
    BY <2>4, <1>6 DEF Within
<1> HIDE DEF Is
<1>14. Loop(n, S, Rung) = it[n]
  BY DEF Loop, it, Is
<1>15. PICK x \in X : t = x.st
  BY <1>4, <1>5, <1>13, <1>14
<1>16. x = start \/ x.st \in Y
  <2> HIDE DEF Y, start
  <2> QED
    BY DEF X, S
<1> QED
  BY <1>1, <1>15, <1>16

(* A strategy wants what its cap has room for, and closes what it holds.   *)
LEMMA WantedRoom ==
    ASSUME decider \in Deciders, NEW s, Good(s), Sized(s, decider.cap), s.clip = Idle, ~s.rec.halted,
           NEW i \in Wanted(s), i # Hold
    PROVE  s.sink["A"] + Along(i.dir, i.lots) \in -decider.cap..decider.cap
<1> DEFINE x == s.sink["A"]
           cap == decider.cap
<1>1. cap \in Nat
  BY DecidersAssumption
<1>2. x \in Int /\ x \in -cap..cap /\ Position(s) = x
  BY <1>1, SinkType, IdleFits DEF Sized, Position
<1>3. i \in Intent
  BY WantedType
<1>4. i.dir \in {-1, 1} /\ i.lots \in Nat \ {0}
  BY <1>3, IntentType
<1>5. IF i.close THEN i.dir * x < 0 /\ i.lots =< Max2(x, -x)
      ELSE i.dir * x >= 0 /\ i.lots =< cap - Max2(x, -x)
  BY <1>2 DEF Wanted
<1> HIDE DEF x, cap
<1>6. x + Along(i.dir, i.lots) \in -cap..cap
  BY <1>1, <1>2, <1>4, <1>5 DEF Max2, Along
<1> QED
  BY <1>6 DEF x, cap

LEMMA DecideExactly ==
    ASSUME Dependable, decider \in Deciders, NEW s, Good(s), ClipOK(s), ~s.rec.halted,
           Sized(s, decider.cap), NEW i \in Wanted(s), NEW t \in Decide(s, i)
    PROVE  Sized(t, decider.cap)
<1> DEFINE cap == decider.cap
<1>1. cap \in Nat /\ Sized(s, cap)
  BY DecidersAssumption
<1> HIDE DEF cap
<1>2. t = s \/ t \in ResolveClip(s) \/ (s.clip = Idle /\ i # Hold /\ t \in TryOpenClip(s, i))
  <2>1. CASE s.rec.impaired
    BY <2>1 DEF Decide
  <2>2. CASE ~s.rec.impaired /\ s.clip # Idle
    BY <2>2 DEF Decide
  <2>3. CASE ~s.rec.impaired /\ s.clip = Idle
    BY <2>3 DEF Decide
  <2> QED
    BY <2>1, <2>2, <2>3
<1>3. CASE t \in ResolveClip(s)
  BY <1>1, <1>3, ResolveExactly DEF cap
<1>4. CASE s.clip = Idle /\ i # Hold /\ t \in TryOpenClip(s, i)
  <2>1. Free(s) /\ i \in Intent
    BY <1>4, FreeIs, WantedType
  <2>2. s.sink["A"] + Along(i.dir, i.lots) \in -cap..cap
    BY <1>4, WantedRoom DEF cap
  <2>3. Sized(t, cap)
    BY <1>1, <1>4, <2>1, <2>2, TryOpenClipExactly
  <2> QED
    BY <2>3 DEF cap
<1> QED
  BY <1>2, <1>3, <1>4

-----------------------------------------------------------------------------
(* Re-pegging and the kill-switch. *)

(* What the cancel of a leg caught completes the clip. *)
LEMMA CaughtExactly ==
    ASSUME Dependable, NEW cap \in Nat, NEW s, Good(s), ClipOK(s), ~s.rec.halted, s.clip # Idle,
           Fits(s, cap, 0), NEW leg \in Leg,
           NEW r, LegRetired(s, r, leg), r.gap > 0,
           Shift(s, r.st, leg, Signed(LegBuys(s.clip.dir, leg), r.gap)),
           NEW id, id = s.clip[leg], NEW gap, gap = r.gap,
           NEW w, w = Claims(r.st, id, gap),
           NEW realA, realA = IF leg = "A" THEN gap ELSE 0,
           NEW realB, realB = IF leg = "B" THEN gap ELSE 0,
           NEW u \in SettleClip(w, realA, realB, TRUE), NEW t \in CommitClip(u)
    PROVE  Sized(t, cap)
<1> DEFINE v == r.st
           dir == s.clip.dir
<1>1. Claimed(s, v, w, gap)
  BY ClaimsOutcome
<1>2. /\ Good(w) /\ Filling(w) /\ Working(w) = Working(v)
      /\ w.own = v.own /\ w.sink = v.sink /\ w.book = v.book /\ w.rec = v.rec
      /\ w.clip.dir = dir /\ w.clip.target = s.clip.target /\ w.clip.lots = s.clip.lots
      /\ w.clip["A"] = s.clip["A"] /\ w.clip["B"] = s.clip["B"] /\ w.clip.filled = gap
  BY <1>1 DEF Claimed
<1>3. gap \in Nat /\ gap =< s.clip.target /\ id \notin Working(v) /\ s.clip.target \in Nat
      /\ dir \in {-1, 1} /\ realA \in Nat /\ realB \in Nat
  BY ClipLegs DEF LegRetired, Retired
<1> DEFINE j == IF leg = "A" THEN gap ELSE 0
           k == IF leg = "B" THEN gap ELSE 0
<1>4. Drift(s, v, dir, j, k) /\ j \in Int /\ k \in Int /\ 0 + j = realA
  <2>1. gap \in Int /\ Shift(s, v, leg, Signed(LegBuys(dir, leg), gap))
    BY <1>3
  <2> HIDE DEF v, dir
  <2>2. /\ leg = "A" => Drift(s, v, dir, gap, 0)
        /\ leg = "B" => Drift(s, v, dir, 0, gap)
    BY <1>3, <2>1, ShiftDrifts
  <2> QED
    BY <2>1, <2>2 DEF Leg
<1>5. Fits(v, cap, realA) /\ v.clip = s.clip
  <2>1. v.clip = s.clip
    BY DEF LegRetired, Retired
  <2> HIDE DEF j, k, v
  <2>2. Fits(v, cap, 0 + j)
    BY <1>4, <2>1, FitsDrift
  <2> QED
    BY <1>4, <2>1, <2>2
<1>6. Fits(w, cap, realA)
  <2>1. w.clip.dir = v.clip.dir /\ w.clip.target = v.clip.target /\ w.clip.lots = v.clip.lots
        /\ w.clip.filled =< w.clip.target
    BY <1>2, <1>3, <1>5
  <2> HIDE DEF v
  <2> QED
    BY <1>2, <1>5, <2>1 DEF Fits
<1>7. Room(w, "A", realA) /\ Room(w, "B", realB)
  <2>1. \A i \in Working(w) : w.own[i].seen \in Nat
    BY <1>2, GoodType DEF Working, Acct
  <2>2. id \notin Working(w)
    BY <1>2, <1>3
  <2>3. CASE leg = "A"
    BY <1>2, <1>3, <2>1, <2>2, <2>3 DEF Room
  <2>4. CASE leg = "B"
    BY <1>2, <1>3, <2>1, <2>2, <2>4 DEF Room
  <2> QED
    BY <2>3, <2>4 DEF Leg
<1>8. ~w.rec.halted
  BY <1>2 DEF Shift, Duty
<1> QED
  BY <1>2, <1>3, <1>6, <1>7, <1>8, SettledCommitExactly

LEMMA PostExactly ==
    ASSUME Dependable, NEW cap \in Nat, NEW s, Good(s), ClipOK(s), Sized(s, cap), ~s.rec.halted,
           s.clip # Idle, s.clip.maker = 0, NEW leg \in Leg, leg = "B" => HedgeRatio = 1,
           NEW t \in PostRepegged(s, leg)
    PROVE  Sized(t, cap)
<1> DEFINE b == LegBuys(s.clip.dir, leg)
           n == s.clip.target
<1>1. b \in BOOLEAN /\ n \in Nat \ {0} /\ s.clip \in Clip
  <2>1. s.clip.dir \in {-1, 1} /\ n \in Nat /\ s.clip \in Clip
    BY ClipLegs
  <2>2. n >= 1
    BY DEF ClipOK
  <2> QED
    BY <2>1, <2>2, BuysType
<1>2. PICK p \in PlaceMaker(s, leg, b, n) :
         t \in IF p.res = "ok" THEN {[p.st EXCEPT !.clip[leg] = p.id]} ELSE CancelClip(p.st)
  BY DEF PostRepegged
<1> HIDE DEF b, n
<1>3. p.res = "ok" /\ MakerPlaced(s, leg, b, n, p) /\ RestsNew(s, p)
  BY <1>1, <1>2, MakerExactly
<1> DEFINE u == p.st
           id == p.id
           d == [s.clip EXCEPT ![leg] = id]
<1>4. /\ Good(u) /\ Working(u) \subseteq Working(s) \cup {id} /\ u.clip = s.clip /\ id \in Nat
  <2>1. Good(u) /\ Working(u) \subseteq Working(s) \cup {id} /\ u.clip = s.clip /\ id \in DOMAIN u.own
    BY <1>3 DEF MakerPlaced
  <2> QED
    BY <2>1, GoodType
<1>5. /\ u.sink["A"] = s.sink["A"] /\ u.book = s.book /\ Duty(s, u)
      /\ \A j \in DOMAIN s.own : u.own[j] = s.own[j] /\ u.orders[j] = s.orders[j]
      /\ u.own[id].seen = 0 /\ u.orders[id].live
  BY <1>3 DEF RestsNew, Leg
<1>6. t = [u EXCEPT !.clip = d]
  <2>1. t = [u EXCEPT !.clip[leg] = id] /\ u \in State
    BY <1>2, <1>3, <1>4, GoodType
  <2> QED
    BY <1>4, <2>1 DEF State
<1>7. d.dir = s.clip.dir /\ d.target = s.clip.target /\ d.lots = s.clip.lots /\ d.filled = s.clip.filled
  <2>1. id \in Nat
    BY <1>4
  <2> DEFINE c == s.clip
  <2>2. c \in Clip
    BY <1>1
  <2> HIDE DEF id, c
  <2> DEFINE e == [c EXCEPT ![leg] = id]
  <2>3. e.dir = c.dir /\ e.target = c.target /\ e.lots = c.lots /\ e.filled = c.filled
    <3>1. CASE leg = "A"
      BY <2>2, <3>1 DEF Clip
    <3>2. CASE leg = "B"
      BY <2>2, <3>2 DEF Clip
    <3> QED
      BY <3>1, <3>2 DEF Leg
  <2> QED
    BY <2>3 DEF c
<1> HIDE DEF d
<1>8. t.clip = d /\ t.own = u.own /\ t.orders = u.orders /\ t.sink = u.sink /\ t.book = u.book /\ t.rec = u.rec
  <2>1. u \in State
    BY <1>4, GoodType
  <2> QED
    BY <1>6, <2>1 DEF State
<1> HIDE DEF u, id
<1>9. Working(t) = Working(u) /\ s.clip.filled = 0
  BY <1>8 DEF Working, ClipOK
<1>10. Fits(t, cap, t.clip.filled)
  <2>1. Fits(s, cap, s.clip.filled)
    BY DEF Sized
  <2>2. /\ t.clip.dir = s.clip.dir /\ t.clip.target = s.clip.target /\ t.clip.lots = s.clip.lots
        /\ t.clip.filled = s.clip.filled /\ t.sink["A"] = s.sink["A"] /\ t.book = s.book
        /\ t.rec.halted = s.rec.halted /\ t.rec.impaired = s.rec.impaired
        /\ t.rec.retireQ = s.rec.retireQ /\ t.rec.debts = s.rec.debts
    BY <1>5, <1>7, <1>8 DEF Duty
  <2> QED
    BY <2>1, <2>2 DEF Fits
<1>11. Rested(t)
  <2> SUFFICES ASSUME NEW j \in Working(u)
               PROVE  /\ u.own[j].seen = s.clip.filled
                      /\ u.orders[j].live \/ u.orders[j].exec = u.orders[j].size
    BY <1>7, <1>8, <1>9 DEF Rested
  <2>1. CASE j = id
    BY <1>5, <1>9, <2>1
  <2>2. CASE j # id
    <3>1. j \in Working(s) /\ j \in DOMAIN s.own
      BY <1>4, <2>2 DEF Working
    <3> QED
      BY <1>5, <3>1 DEF Sized, Rested
  <2> QED
    BY <2>1, <2>2
<1> QED
  BY <1>10, <1>11 DEF Sized

LEMMA RepegExactly ==
    ASSUME Dependable, NEW cap \in Nat, NEW s, Good(s), ClipOK(s), Sized(s, cap),
           NEW leg \in Leg, Repeggable(s, leg), NEW t \in RepegLeg(s, leg)
    PROVE  Sized(t, cap)
<1> DEFINE c == s.clip
           x == [s EXCEPT !.moves = @ - 1]
           realA(gap) == IF leg = "A" THEN gap ELSE 0
           realB(gap) == IF leg = "B" THEN gap ELSE 0
           Marked(v, gap) == Claims(v, c[leg], gap)
           Ran(v, gap) == UNION {CommitClip(u) : u \in SettleClip(Marked(v, gap), realA(gap), realB(gap), TRUE)}
           Next1(r) == CASE r.gap > 0 -> Ran(r.st, r.gap)
                         [] r.gap = 0 /\ r.st.rec.impaired -> {r.st}
                         [] r.gap = 0 /\ ~r.st.rec.impaired -> PostRepegged(r.st, leg)
<1>1. RepegLeg(s, leg) = UNION {Next1(r) : r \in RetireOrder(x, c[leg])}
  BY Zenon DEF RepegLeg, After, Claims
<1>2. PICK r \in RetireOrder(x, c[leg]) : t \in Next1(r)
  <2> HIDE DEF Next1, x
  <2> QED
    BY <1>1
<1>3. s.rec.halted = FALSE /\ c # Idle /\ c.maker = 0 /\ s.moves > 0 /\ (leg = "B" => HedgeRatio = 1)
  <2>1. ~s.rec.halted /\ c # Idle /\ c.maker = 0 /\ s.moves > 0
    BY DEF Repeggable
  <2>2. leg = "B" => c.mode \in {"dual", "soloB"}
    BY DEF Repeggable
  <2>3. leg = "B" => HedgeRatio = 1
    BY <2>1, <2>2 DEF ClipOK
  <2>4. s.rec.halted \in BOOLEAN
    BY GoodType, MachineType
  <2> QED
    BY <2>1, <2>3, <2>4
<1>4. Aside(s, x, {}) /\ Sized(x, cap) /\ x.clip = c /\ x.rec = s.rec /\ x.own = s.own
  BY <1>3, SpentExactly
<1> HIDE DEF x
<1>5. Good(x) /\ ClipOK(x) /\ x.rec.halted = FALSE
  BY <1>3, <1>4, AsideCalm, ClipKept DEF Calm
<1>6. x.clip.dir \in {-1, 1} /\ LegOK(x, leg) /\ x.clip.target \in Nat /\ x.clip.filled = 0
  <2>1. x.clip.dir \in {-1, 1} /\ LegOK(x, leg) /\ x.clip.target \in Nat
    BY <1>3, <1>4, <1>5, ClipLegs DEF Leg
  <2>2. x.clip.filled = 0
    BY <1>3, <1>4, <1>5 DEF ClipOK
  <2> QED
    BY <2>1, <2>2
<1>7. r \in RetireOrder(x, x.clip[leg])
  BY <1>2, <1>4
<1>8. LegRetired(x, r, leg)
  BY <1>5, <1>6, <1>7, RetireLegOutcome
<1> DEFINE v == r.st
           gap == r.gap
<1>9. Calm(x, v) /\ Good(v) /\ Evolve(x, v) /\ v.clip = c /\ gap \in Nat
  BY <1>4, <1>8 DEF LegRetired, Retired
<1>10. /\ Working(v) \subseteq Working(x) \ {c[leg]}
       /\ \A j \in DOMAIN x.own \ {c[leg]} : v.own[j] = x.own[j]
  BY <1>4, <1>8 DEF LegRetired, Retired
<1>11. ClipOK(v) /\ ~v.rec.halted
  BY <1>5, <1>9, ClipKept DEF Evolve
<1>12. /\ Shift(x, v, leg, Signed(LegBuys(x.clip.dir, leg), gap))
       /\ \A j \in DOMAIN x.own \ {c[leg]} : v.orders[j] = x.orders[j]
  <2>1. Room(x, leg, 0)
    <3>1. x.clip[leg] \in Working(x) => x.own[x.clip[leg]].seen \in Nat
      BY <1>5, GoodType DEF Working, Acct
    <3> QED
      BY <1>6, <3>1 DEF Room
  <2>2. /\ Shift(x, v, leg, Signed(LegBuys(x.clip.dir, leg), gap))
        /\ \A j \in DOMAIN x.own \ {x.clip[leg]} : v.orders[j] = x.orders[j]
    BY <1>5, <1>6, <1>7, <2>1, LegRetiredExactly
  <2> QED
    BY <1>4, <2>2
<1>13. Fits(x, cap, 0)
  BY <1>4, <1>6 DEF Sized
<1>14. CASE gap > 0
  <2>1. t \in Ran(v, gap)
    <3> HIDE DEF Ran
    <3> QED
      BY <1>2, <1>9, <1>14
  <2> DEFINE w == Marked(v, gap)
             rA == realA(gap)
             rB == realB(gap)
             id == c[leg]
  <2>2. PICK u \in SettleClip(w, rA, rB, TRUE) : t \in CommitClip(u)
    <3> HIDE DEF w, rA, rB
    <3> QED
      BY <2>1 DEF w, rA, rB
  <2>3. /\ w = Claims(r.st, id, gap) /\ id = x.clip[leg]
        /\ rA = IF leg = "A" THEN gap ELSE 0
        /\ rB = IF leg = "B" THEN gap ELSE 0
    BY <1>4
  <2>4. x.clip # Idle /\ ~x.rec.halted /\ r.gap > 0 /\ gap = r.gap
    BY <1>3, <1>4, <1>5, <1>14
  <2>5. Shift(x, r.st, leg, Signed(LegBuys(x.clip.dir, leg), r.gap))
    BY <1>12
  <2> HIDE DEF w, rA, rB, id, gap
  <2> QED
    BY <1>5, <1>8, <1>13, <2>2, <2>3, <2>4, <2>5, CaughtExactly
<1>15. CASE gap = 0
  <2>1. v.sink["A"] = x.sink["A"] /\ v.book = x.book /\ Duty(x, v)
    <3>1. Signed(LegBuys(x.clip.dir, leg), 0) = 0
      BY SignedZero
    <3>2. Shift(x, v, leg, 0)
      BY <1>12, <1>15, <3>1
    <3> QED
      BY <1>5, <3>2, SinkType DEF Shift, Leg
  <2>2. Fits(v, cap, v.clip.filled)
    <3>1. Fits(x, cap, x.clip.filled)
      BY <1>4 DEF Sized
    <3>2. v.clip = x.clip
      BY <1>4, <1>9
    <3> HIDE DEF v
    <3> QED
      BY <2>1, <3>1, <3>2 DEF Fits, Duty
  <2>3. Rested(v)
    <3>1. Rested(x) /\ v.clip.filled = x.clip.filled
      BY <1>4, <1>9 DEF Sized
    <3> DEFINE K == {c[leg]}
    <3>2. /\ Working(v) \subseteq Working(x) \ K
          /\ \A j \in DOMAIN x.own \ K : v.own[j] = x.own[j] /\ v.orders[j] = x.orders[j]
      BY <1>10, <1>12
    <3> HIDE DEF K, v
    <3> QED
      BY <1>5, <3>1, <3>2, RestedKept
  <2>4. ~v.rec.impaired
    BY <2>2 DEF Fits
  <2>5. t \in PostRepegged(v, leg)
    <3> HIDE DEF Ran
    <3> QED
      BY <1>2, <1>9, <1>15, <2>4
  <2>6. v.clip # Idle /\ v.clip.maker = 0 /\ Sized(v, cap)
    BY <1>3, <1>9, <2>2, <2>3 DEF Sized
  <2> HIDE DEF v
  <2> QED
    BY <1>3, <1>9, <1>11, <2>5, <2>6, PostExactly
<1> QED
  BY <1>9, <1>14, <1>15

-----------------------------------------------------------------------------
(* Both legs within the cap. *)
LEMMA FitsWithin ==
    ASSUME NEW cap \in Nat, NEW s, Good(s), NEW real \in Int, Fits(s, cap, real),
           NEW d \in Int, real + d \in 0..s.clip.target
    PROVE  s.sink["A"] + Along(s.clip.dir, d) \in -cap..cap
<1> DEFINE dir == s.clip.dir
           a == s.sink["A"]
           n == s.clip.target
<1>1. dir \in {-1, 0, 1} /\ a \in Int /\ n \in Nat
  BY GoodType, SinkType DEF Clip
<1>2. a - Along(dir, real) \in -cap..cap /\ a - Along(dir, real) + Along(dir, n) \in -cap..cap
  BY DEF Fits
<1> HIDE DEF dir, a, n
<1>3. real + d \in 0..n
  BY DEF n
<1>4. a + Along(dir, d) \in -cap..cap
  BY <1>1, <1>2, <1>3 DEF Along
<1> QED
  BY <1>4 DEF dir, a

LEMMA Scaled ==
    ASSUME NEW cap \in Nat, NEW h \in Nat, NEW x \in Int, x \in -cap..cap
    PROVE  /\ -(h * x) \in -(cap * h)..(cap * h) /\ h * x \in Int
<1>1. h * x =< h * cap
  <2>1. cap - x \in Nat
    OBVIOUS
  <2>2. h * (cap - x) >= 0 /\ h * (cap - x) = h * cap - h * x
    BY <2>1
  <2> QED
    BY <2>2
<1>2. -(h * cap) =< h * x
  <2>1. cap + x \in Nat
    OBVIOUS
  <2>2. h * (cap + x) >= 0 /\ h * (cap + x) = h * cap + h * x
    BY <2>1
  <2> QED
    BY <2>2
<1> QED
  BY <1>1, <1>2

HeldB(s, cap) == s.sink["B"] \in -HedgeLots("B", cap)..HedgeLots("B", cap)

(* What holds of the legs between two steps. *)
Held(s, cap) ==
    /\ Sized(s, cap)
    /\ s.rec.halted => MayHalt /\ s.clip = Idle /\ HeldB(s, cap)

LEMMA HeldStill ==
    ASSUME NEW cap, NEW s, NEW t, Held(s, cap), Still(s, t), t.rec.halted = s.rec.halted
    PROVE  Held(t, cap)
<1>1. Sized(t, cap)
  BY StillSized DEF Held
<1> QED
  BY <1>1 DEF Held, HeldB, Still

LEMMA HeldA ==
    ASSUME NEW cap \in Nat, NEW s, Good(s), ClipOK(s), Sized(s, cap)
    PROVE  s.sink["A"] \in -cap..cap
<1>1. s.sink["A"] \in Int
  BY SinkType
<1>2. CASE s.clip = Idle
  BY <1>2, IdleFits DEF Sized
<1>3. CASE s.clip # Idle
  <2>1. /\ s.clip.filled \in Nat /\ Fits(s, cap, s.clip.filled) /\ Room(s, "A", s.clip.filled)
    BY <1>3, RoomFilled
  <2>2. s.clip.filled + 0 \in 0..s.clip.target /\ s.clip.filled \in Int /\ 0 \in Int
    <3>1. s.clip.target \in Nat /\ s.clip.filled =< s.clip.target
      BY <2>1, GoodType DEF Room, Clip
    <3> QED
      BY <2>1, <3>1
  <2>3. s.sink["A"] + Along(s.clip.dir, 0) \in -cap..cap
    BY <2>1, <2>2, FitsWithin
  <2>4. Along(s.clip.dir, 0) = 0
    <3>1. s.clip.dir \in {-1, 0, 1} /\ 0 \in Int
      BY GoodType DEF Clip
    <3> QED
      BY <3>1, AlongType
  <2> QED
    BY <1>1, <2>3, <2>4
<1> QED
  BY <1>2, <1>3

LEMMA HaltExactly ==
    ASSUME Dependable, MayHalt, NEW cap \in Nat, NEW s, Good(s), ClipOK(s), Sized(s, cap), s.rec.halted,
           s.sink["B"] = -(HedgeRatio * s.sink["A"]), NEW t \in CancelClip(s)
    PROVE  Held(t, cap)
<1>1. Sized(t, cap)
  BY CancelExactly
<1>2. t.clip = Idle
  BY CancelClipOutcome
<1>3. HedgeRatio \in Nat /\ s.sink["A"] \in Int /\ s.sink["B"] \in Int
  BY SinkType, Constants
<1>4. s.sink["A"] \in -cap..cap
  BY HeldA
<1>5. HeldB(s, cap)
  BY <1>3, <1>4, Scaled DEF HeldB, HedgeLots
<1>6. HeldB(t, cap)
  <2>1. CASE s.clip = Idle
    BY <1>5, <2>1 DEF CancelClip
  <2>2. CASE s.clip # Idle
    <3>1. PICK u \in SettleClip(s, s.clip.filled, s.clip.filled, FALSE) : t = DropClip(u)
      BY <2>2 DEF CancelClip
    <3>2. /\ Filling(s) /\ s.clip.filled \in Nat /\ Fits(s, cap, s.clip.filled)
          /\ Room(s, "A", s.clip.filled) /\ Room(s, "B", s.clip.filled) /\ FALSE \in BOOLEAN
      BY <2>2, RoomFilled
    <3>3. /\ s.clip.dir \in {-1, 1} /\ LegOK(s, "A") /\ LegOK(s, "B")
          /\ Working(s) \subseteq {s.clip.A, s.clip.B}
      BY <3>2, FillingType
    <3>4. PICK m \in Nat, n \in Int :
             /\ Drift(s, u, s.clip.dir, m, n)
             /\ n \in Nat /\ s.clip.filled + n \in 0..s.clip.target /\ (n = 0 \/ HedgeRatio = 1)
      <4> DEFINE k == s.clip.filled
      <4>1. u \in SettleClip(s, k, k, FALSE) /\ k \in Nat /\ Room(s, "A", k) /\ Room(s, "B", k)
        BY <3>1, <3>2
      <4> HIDE DEF k
      <4>2. Levels(s, u, k, k, FALSE)
        BY <3>2, <3>3, <4>1, SettledExactly
      <4>3. Levels(s, u, s.clip.filled, s.clip.filled, FALSE)
        BY <4>2 DEF k
      <4> QED
        BY <4>3 DEF Levels
    <3>5. u \in State
      <4>1. ClipSettled(s, u, s.clip.filled, s.clip.filled)
        BY <3>1, <3>2, <3>3, SettleClipOutcome
      <4> QED
        BY <4>1, GoodType DEF ClipSettled, Calm
    <3>6. t.sink["B"] = s.sink["B"] - Along(s.clip.dir, n)
      BY <3>1, <3>4, <3>5 DEF Drift, DropClip, State
    <3>7. CASE n = 0
      <4>1. Along(s.clip.dir, n) = 0
        BY <3>3, <3>7, AlongType
      <4> QED
        BY <1>3, <1>5, <3>6, <4>1 DEF HeldB
    <3>8. CASE HedgeRatio = 1
      <4> DEFINE a == s.sink["A"]
                 b == s.sink["B"]
                 k == Along(s.clip.dir, n)
      <4>1. a + k \in -cap..cap
        BY <3>2, <3>4, FitsWithin
      <4>2. k \in Int /\ a \in Int /\ b = -(1 * a) /\ t.sink["B"] = b - k
        BY <1>3, <3>3, <3>4, <3>6, <3>8, AlongType
      <4>3. HedgeLots("B", cap) = cap
        BY <3>8 DEF HedgeLots
      <4> HIDE DEF a, b, k
      <4>4. b - k \in -cap..cap
        BY <4>1, <4>2
      <4> QED
        BY <4>2, <4>3, <4>4 DEF HeldB
    <3> QED
      BY <3>4, <3>7, <3>8
  <2> QED
    BY <2>1, <2>2
<1> QED
  BY <1>1, <1>2, <1>6 DEF Held

-----------------------------------------------------------------------------
(* Every step keeps them. *)
LEMMA MovedHeld ==
    ASSUME Inv, NEW cap, Held(Now, cap), NEW id \in Ids, NEW p \in OrderType, OrderOK(p),
           \A a \in Acct : AcctOK(a, orders[id]) => AcctOK(a, p),
           orders[id].live \/ orders[id].exec = orders[id].size => p.live \/ p.exec = p.size,
           NEW s, s = Moved(Now, id, p)
    PROVE  Held(s, cap)
<1>1. Good(Now) /\ id \in 1..Len(Now.orders)
  BY IdsAre DEF Inv
<1>2. id \in DOMAIN Now.own => AcctOK(Now.own[id], p)
  BY IdsAre, NowFields
<1>3. Still(Now, s)
  BY <1>1, <1>2, MovedStill, NowFields
<1>4. s.rec = Now.rec
  BY MovedOn
<1> QED
  BY <1>3, <1>4, HeldStill

LEMMA BrokerFillHeld ==
    ASSUME Inv, NEW cap, Held(Now, cap), NEW id \in Ids, NEW n \in Nat \ {0}, BrokerFill(id, n)
    PROVE  Held(Now', cap)
<1> DEFINE o == orders[id]
           p == [o EXCEPT !.exec = @ + n, !.live = o.exec + n < o.size]
           s == Moved(Now, id, p)
<1>1. o.live = TRUE /\ o.exec + n =< o.size /\ o \in OrderType /\ OrderOK(o)
  BY IdsAre, OrderFields DEF BrokerFill
<1>2. /\ p \in OrderType /\ OrderOK(p) /\ p.sent = o.sent
      /\ \A a \in Acct : AcctOK(a, o) => AcctOK(a, p)
  <2> HIDE DEF o
  <2> QED
    BY <1>1, ExecutedOrder
<1>3. p.live \/ p.exec = p.size
  <2>1. o.exec \in Nat /\ o.size \in Nat
    BY <1>1, OrderFields
  <2>2. (p.live <=> o.exec + n < o.size) /\ p.exec = o.exec + n /\ p.size = o.size
    BY <1>1 DEF OrderType
  <2>3. o.exec + n < o.size \/ o.exec + n = o.size
    BY <1>1, <2>1
  <2> HIDE DEF p, o
  <2> QED
    BY <2>2, <2>3
<1>4. Become(s)
  BY ZenonT(40) DEF BrokerFill, BrokerStep, Execute, Moved, Now
<1> HIDE DEF p
<1>5. s = Moved(Now, id, p)
  OBVIOUS
<1> HIDE DEF s
<1>6. Good(s)
  BY <1>2, <1>5, MovedOn
<1>7. Held(s, cap)
  BY <1>2, <1>3, <1>5, MovedHeld
<1>8. Now' = s
  BY <1>4, <1>6, GoodType, Becomes
<1> QED
  BY <1>7, <1>8

LEMMA DeliverFillHeld ==
    ASSUME Dependable, Inv, NEW cap \in Nat, Held(Now, cap), NEW id \in Ids, NEW n \in Nat \ {0},
           DeliverFill(id, n)
    PROVE  Held(Now', cap)
<1> DEFINE o == orders[id]
           p == [o EXCEPT !.sent = @ + n]
           s == Moved(Now, id, p)
<1>1. o.sent + n =< o.exec /\ o \in OrderType /\ OrderOK(o)
  BY IdsAre DEF DeliverFill
<1>2. /\ p \in OrderType /\ OrderOK(p) /\ p.sent = o.sent + n
      /\ \A a \in Acct : AcctOK(a, o) => AcctOK(a, p)
  <2> HIDE DEF o
  <2> QED
    BY <1>1, SentOrder
<1>3. p.live = o.live /\ p.exec = o.exec /\ p.size = o.size
  BY <1>1 DEF OrderType
<1>4. PICK t \in OnFill(s, id, n) : Become(t)
  <2>1. [Now EXCEPT !.orders[id].sent = @ + n] = s
    BY DEF Now, Moved
  <2> QED
    BY <2>1 DEF DeliverFill, EngineStep
<1> HIDE DEF p
<1>5. s = Moved(Now, id, p)
  OBVIOUS
<1> HIDE DEF s
<1>6. Good(s) /\ ClipOK(s) /\ s.own = own /\ s.orders[id] = p
  BY <1>2, <1>5, MovedOn
<1>7. Held(s, cap)
  BY <1>2, <1>3, <1>5, MovedHeld
<1>8. id \in DOMAIN s.own => s.own[id].seen + n =< s.orders[id].sent
  <2> SUFFICES ASSUME id \in DOMAIN own PROVE own[id].seen + n =< p.sent
    BY <1>6
  <2>1. own[id] \in Acct /\ AcctOK(own[id], o) /\ "dup" \notin FaultKinds
    BY IdsAre DEF Dependable
  <2>2. own[id].seen =< o.sent /\ own[id].seen \in Nat /\ o.sent \in Nat
    BY <1>1, <2>1, OrderFields DEF AcctOK, Acct
  <2> QED
    BY <1>2, <2>2
<1>9. Good(t) /\ Evolve(s, t)
  BY <1>4, <1>6, <1>8, OnFillOutcome DEF Streamed
<1>10. Still(s, t) \/ (~s.rec.halted /\ Sized(t, cap))
  <2>1. Sized(s, cap) /\ (s.rec.halted => s.clip = Idle)
    BY <1>7 DEF Held
  <2> QED
    BY <1>4, <1>6, <1>8, <2>1, OnFillExactly
<1>11. Held(t, cap)
  <2>1. t.rec.halted = s.rec.halted
    BY <1>9 DEF Evolve
  <2>2. CASE Still(s, t)
    BY <1>7, <2>1, <2>2, HeldStill
  <2>3. CASE ~s.rec.halted /\ Sized(t, cap)
    BY <2>1, <2>3 DEF Held
  <2> QED
    BY <1>10, <2>2, <2>3
<1>12. Now' = t
  BY <1>4, <1>9, GoodType, Becomes
<1> QED
  BY <1>11, <1>12

LEMMA DeliverDeadHeld ==
    ASSUME Dependable, Inv, NEW cap \in Nat, Held(Now, cap), NEW id \in Ids, DeliverDead(id)
    PROVE  Held(Now', cap)
<1> DEFINE o == orders[id]
           p == [o EXCEPT !.told = TRUE]
           s == Moved(Now, id, p)
<1>1. ~o.live /\ o.exec < o.size /\ o \in OrderType /\ OrderOK(o)
  BY IdsAre DEF DeliverDead
<1>2. /\ p \in OrderType /\ OrderOK(p)
      /\ \A a \in Acct : AcctOK(a, o) => AcctOK(a, p)
  <2> HIDE DEF o
  <2> QED
    BY <1>1, ToldOrder
<1>3. p.live = o.live /\ p.exec = o.exec /\ p.size = o.size
  BY <1>1 DEF OrderType
<1>4. PICK t \in OnOrderStatus(s, id) : Become(t)
  <2>1. [Now EXCEPT !.orders[id].told = TRUE] = s
    BY DEF Now, Moved
  <2> QED
    BY <2>1 DEF DeliverDead, EngineStep
<1> HIDE DEF p
<1>5. s = Moved(Now, id, p)
  OBVIOUS
<1> HIDE DEF s
<1>6. Good(s) /\ s.orders[id] = p
  BY <1>2, <1>5, MovedOn
<1>7. Held(s, cap)
  BY <1>2, <1>3, <1>5, MovedHeld
<1>8. t = s
  <2>1. s.rec.retireQ = <<>> /\ Rested(s)
    BY <1>7 DEF Held, Sized, Fits
  <2>2. ~s.orders[id].live /\ s.orders[id].exec < s.orders[id].size
    BY <1>1, <1>3, <1>6
  <2> QED
    BY <1>4, <1>6, <2>1, <2>2, StatusKept
<1>9. Now' = s
  BY <1>4, <1>6, <1>8, GoodType, Becomes
<1> QED
  BY <1>7, <1>9

LEMMA TakerLateHeld ==
    ASSUME Inv, NEW cap, Held(Now, cap), NEW id, TakerLate(id)
    PROVE  Held(Now', cap)
<1> DEFINE s == [Now EXCEPT !.own[id].overdue = TRUE]
<1>1. id \in Now.pending /\ Good(Now)
  BY NowFields DEF TakerLate, Inv
<1>2. Become(s)
  BY DEF TakerLate, BrokerStep
<1>3. Aside(Now, s, {id}) /\ Still(Now, s)
  BY <1>1, OverdueFields, OverdueStill
<1> HIDE DEF s
<1>4. Good(s) /\ s.rec.halted = Now.rec.halted
  BY <1>3 DEF Aside, Calm, Evolve
<1>5. Now' = s
  BY <1>2, <1>4, GoodType, Becomes
<1> QED
  BY <1>3, <1>4, <1>5, HeldStill

(* Nothing is owed, so the housekeeping only looks at takers. *)
LEMMA NothingToService ==
    ASSUME NEW cap, NEW s, Held(s, cap), NEW due, NEW t \in ServiceImpaired(s, due)
    PROVE  t = s
BY DEF Held, Sized, Fits, ServiceImpaired

LEMMA CheckedHeld ==
    ASSUME Dependable, Inv, NEW cap, Held(Now, cap), NEW due \in BOOLEAN, NEW probe \in BOOLEAN,
           NEW s \in ServiceImpaired(Now, due), NEW t \in CheckPendingTakers(s, probe)
    PROVE  Good(t) /\ ClipOK(t) /\ Held(t, cap) /\ t.rec.halted = Now.rec.halted
<1>1. s = Now
  BY NothingToService
<1>2. Good(t) /\ ClipOK(t) /\ t.rec.halted = Now.rec.halted
  BY CheckedOutcome DEF Handled, Evolve
<1>3. Still(Now, t)
  BY <1>1, CheckedStill DEF Inv
<1> QED
  BY <1>2, <1>3, HeldStill

LEMMA OnStateHeld ==
    ASSUME Dependable, Inv, NEW cap, cap = decider.cap, Held(Now, cap),
           NEW due \in BOOLEAN, NEW probe \in BOOLEAN, OnState(due, probe)
    PROVE  Held(Now', cap)
<1> DEFINE Checked == UNION {CheckPendingTakers(s, probe) : s \in ServiceImpaired(Now, due)}
           Decided(s) == UNION {Decide(s, i) : i \in Wanted(s)}
<1>1. ~rec.halted /\ EngineStep(UNION {Decided(s) : s \in Checked})
  BY Zenon DEF OnState, After
<1>2. PICK t \in UNION {Decided(s) : s \in Checked} : Become(t)
  BY <1>1, Zenon DEF EngineStep
<1>3. PICK s \in Checked : t \in Decided(s)
  <2> HIDE DEF Checked, Decided
  <2> QED
    BY <1>2
<1>4. PICK i \in Wanted(s) : t \in Decide(s, i)
  BY <1>3
<1>5. PICK r \in ServiceImpaired(Now, due) : s \in CheckPendingTakers(r, probe)
  BY <1>3, Zenon
<1>6. Good(s) /\ ClipOK(s) /\ ~s.rec.halted /\ Held(s, cap)
  BY <1>1, <1>5, CheckedHeld, NowFields
<1>7. Sized(t, cap)
  BY <1>4, <1>6, DecideExactly DEF Inv, Held
<1>8. Good(t) /\ ~t.rec.halted
  <2>1. i \in Intent \cup {Hold}
    BY <1>4, WantedType DEF Inv
  <2>2. Handled(s, t)
    BY <1>4, <1>6, <2>1, DecideOutcome
  <2> QED
    BY <1>6, <2>2 DEF Handled, Evolve
<1>9. Now' = t
  BY <1>2, <1>8, GoodType, Becomes
<1> QED
  BY <1>7, <1>8, <1>9 DEF Held

LEMMA OnTickHeld ==
    ASSUME Dependable, Inv, NEW cap \in Nat, Held(Now, cap),
           NEW due \in BOOLEAN, NEW probe \in BOOLEAN, NEW expired \in BOOLEAN,
           OnTick(due, probe, expired)
    PROVE  Held(Now', cap)
<1> DEFINE Checked == UNION {CheckPendingTakers(s, probe) : s \in ServiceImpaired(Now, due)}
           Resolved == UNION {ResolveClip(s) : s \in Checked}
<1>1. EngineStep(IF expired THEN Resolved ELSE Checked)
  BY Zenon DEF OnTick, After
<1>2. PICK t \in IF expired THEN Resolved ELSE Checked : Become(t)
  <2> HIDE DEF Resolved, Checked
  <2> QED
    BY <1>1, Zenon DEF EngineStep
<1>3. \E s \in Checked : t = s \/ t \in ResolveClip(s)
  <2> HIDE DEF Checked
  <2>1. CASE expired
    BY <1>2, <2>1, Zenon
  <2>2. CASE ~expired
    BY <1>2, <2>2, Zenon
  <2> QED
    BY <2>1, <2>2
<1>4. PICK s \in Checked : t = s \/ t \in ResolveClip(s)
  BY <1>3, Zenon
<1>5. PICK r \in ServiceImpaired(Now, due) : s \in CheckPendingTakers(r, probe)
  BY <1>4, Zenon
<1>6. Good(s) /\ ClipOK(s) /\ Held(s, cap)
  BY <1>5, CheckedHeld
<1>7. Good(t) /\ Held(t, cap)
  <2>1. CASE t = s
    BY <1>6, <2>1
  <2>2. CASE t \in ResolveClip(s)
    <3>1. Good(t) /\ t.rec.halted = s.rec.halted
      BY <1>6, <2>2, ResolveClipOutcome DEF Handled, Evolve
    <3>2. CASE s.clip = Idle
      <4>1. t = s
        BY <2>2, <3>2 DEF ResolveClip
      <4> QED
        BY <1>6, <4>1
    <3>3. CASE s.clip # Idle
      <4>1. ~s.rec.halted /\ Sized(s, cap)
        BY <1>6, <3>3 DEF Held
      <4>2. Sized(t, cap)
        BY <1>6, <2>2, <4>1, ResolveExactly
      <4> QED
        BY <3>1, <4>1, <4>2 DEF Held
    <3> QED
      BY <3>2, <3>3
  <2> QED
    BY <1>4, <2>1, <2>2
<1>8. Now' = t
  BY <1>2, <1>7, GoodType, Becomes
<1> QED
  BY <1>7, <1>8

LEMMA OnBookHeld ==
    ASSUME Dependable, Inv, NEW cap \in Nat, Held(Now, cap),
           NEW leg \in Leg, NEW due \in BOOLEAN, NEW behind \in BOOLEAN, OnBook(leg, due, behind)
    PROVE  Held(Now', cap)
<1> DEFINE Then(s) == IF behind /\ Repeggable(s, leg) THEN RepegLeg(s, leg) ELSE {s}
<1>1. EngineStep(UNION {Then(s) : s \in ServiceImpaired(Now, due)})
  BY Zenon DEF OnBook, After
<1> HIDE DEF Then
<1>2. PICK t \in UNION {Then(s) : s \in ServiceImpaired(Now, due)} : Become(t)
  BY <1>1, Zenon DEF EngineStep
<1>3. PICK s \in ServiceImpaired(Now, due) : t \in Then(s)
  BY <1>2, Zenon
<1>4. s = Now /\ Good(s) /\ ClipOK(s)
  BY <1>3, NothingToService DEF Inv
<1>5. Good(t) /\ Held(t, cap)
  <2>1. CASE behind /\ Repeggable(s, leg)
    <3>1. t \in RepegLeg(s, leg)
      BY <1>3, <2>1 DEF Then
    <3>2. Good(t) /\ t.rec.halted = s.rec.halted /\ ~s.rec.halted
      BY <1>4, <2>1, <3>1, RepegLegOutcome DEF Handled, Evolve, Repeggable
    <3>3. Sized(t, cap)
      BY <1>4, <2>1, <3>1, RepegExactly DEF Held
    <3> QED
      BY <3>2, <3>3 DEF Held
  <2>2. CASE ~(behind /\ Repeggable(s, leg))
    <3>1. t = s
      BY <1>3, <2>2 DEF Then
    <3> QED
      BY <1>4, <3>1
  <2> QED
    BY <2>1, <2>2
<1>6. Now' = t
  BY <1>2, <1>5, GoodType, Becomes
<1> QED
  BY <1>5, <1>6

LEMMA CancelHeld ==
    ASSUME Dependable, ~LotBook, Inv, NEW cap \in Nat, Held(Now, cap), clip # Idle,
           EngineStep(CancelClip(Now))
    PROVE  Held(Now', cap)
<1>1. PICK t \in CancelClip(Now) : Become(t)
  BY DEF EngineStep
<1>2. Good(t) /\ t.rec.halted = Now.rec.halted
  BY <1>1, CancelClipOutcome DEF Inv, Handled, Evolve
<1>3. ~Now.rec.halted
  BY NowFields DEF Held
<1>4. Sized(t, cap)
  BY <1>1, CancelExactly DEF Inv, Held
<1>5. Now' = t
  BY <1>1, <1>2, GoodType, Becomes
<1> QED
  BY <1>2, <1>3, <1>4, <1>5 DEF Held

LEMMA ReconcileHeld ==
    ASSUME Inv, NEW cap, Held(Now, cap), Reconcile
    PROVE  Held(Now', cap)
<1>1. PICK r \in {MarkSuspect(rec), CleanPass(rec)} : rec' = r
  BY DEF Reconcile
<1> DEFINE t == [Now EXCEPT !.rec = r]
<1>2. Good(Now) /\ Now \in State /\ Now.rec = rec /\ rec \in Machine
  BY GoodType, NowFields DEF Inv
<1>3. /\ r \in Machine /\ r.halted = rec.halted /\ r.impaired = rec.impaired
      /\ r.retireQ = rec.retireQ /\ r.debts = rec.debts
  BY <1>1, <1>2, MarkFields
<1>4. Become(t)
  BY <1>1 DEF Reconcile, Become, Now
<1>5. /\ t \in State /\ t.rec = r /\ t.own = Now.own /\ t.clip = Now.clip /\ t.orders = Now.orders
      /\ t.sink = Now.sink /\ t.book = Now.book
  BY <1>2, <1>3 DEF State
<1> HIDE DEF t
<1>6. Still(Now, t)
  <2>1. Working(t) = Working(Now)
    BY <1>5 DEF Working
  <2>2. Duty(Now, t)
    BY <1>2, <1>3, <1>5 DEF Duty
  <2> QED
    BY <1>5, <2>1, <2>2 DEF Still
<1>7. t.rec.halted = Now.rec.halted
  BY <1>2, <1>3, <1>5
<1>8. Now' = t
  BY <1>4, <1>5, Becomes
<1> QED
  BY <1>6, <1>7, <1>8, HeldStill

(* With nothing owed, the balance of the legs is the hedge ratio. *)
LEMMA RatioHeld ==
    ASSUME NEW s, Good(s), s.rec.debts = <<>>, Net(s) = 0
    PROVE  s.sink["B"] = -(HedgeRatio * s.sink["A"])
<1> DEFINE a == s.sink["A"]
           b == s.sink["B"]
<1>1. OwedIn(s.rec.debts, "A") = 0 /\ OwedIn(s.rec.debts, "B") = 0
  BY NothingOwed
<1>2. a \in Int /\ b \in Int /\ HedgeRatio \in Nat
  BY SinkType, Constants
<1>3. HedgeRatio * (a + 0) + b + 0 = 0
  BY <1>1 DEF Net
<1> HIDE DEF a, b
<1>4. HedgeRatio * a \in Int /\ HedgeRatio * (a + 0) = HedgeRatio * a
  BY <1>2
<1>5. b = -(HedgeRatio * a)
  BY <1>2, <1>3, <1>4
<1> QED
  BY <1>5 DEF a, b

LEMMA HaltHeld ==
    ASSUME Dependable, Inv, NEW cap \in Nat, Held(Now, cap), Net(Now) = 0, HaltEngine
    PROVE  Held(Now', cap)
<1> DEFINE r == Halt(rec)
           s == [Now EXCEPT !.rec = r]
<1>1. Good(Now) /\ ClipOK(Now) /\ Now \in State /\ Now.rec = rec /\ rec \in Machine /\ MayHalt
  BY GoodType, NowFields DEF Inv, HaltEngine
<1>2. /\ r \in Machine /\ r.halted = TRUE /\ r.retireQ = rec.retireQ
      /\ r.impaired = rec.impaired /\ r.debts = rec.debts
  BY <1>1 DEF Halt, Machine
<1>3. PICK t \in CancelClip(s) : Become(t)
  <2>1. [Now EXCEPT !.rec = Halt(@)] = s
    BY <1>1
  <2> QED
    BY <2>1 DEF HaltEngine, EngineStep
<1> HIDE DEF r
<1>4. /\ s \in State /\ s.rec = r /\ s.own = Now.own /\ s.pending = Now.pending /\ s.clip = Now.clip
      /\ s.orders = Now.orders /\ s.sink = Now.sink /\ s.book = Now.book
  BY <1>1, <1>2 DEF State
<1> HIDE DEF s
<1>5. Good(s)
  <2>1. Deferred(s) = Deferred(Now)
    BY <1>4 DEF Deferred
  <2>2. s.rec.halted = TRUE /\ s.rec.retireQ = Now.rec.retireQ
    BY <1>1, <1>2, <1>4
  <2> QED
    BY <1>1, <1>4, <2>1, <2>2 DEF Good, Tallied, Full
<1>6. Working(s) = Working(Now)
  BY <1>4 DEF Working
<1>7. ClipOK(s)
  BY <1>1, <1>4, <1>6 DEF ClipOK, LegOK
<1>8. Sized(s, cap)
  <2>1. Fits(Now, cap, Now.clip.filled) /\ Rested(Now)
    BY DEF Held, Sized
  <2>2. Rested(s)
    BY <1>4, <1>6, <2>1 DEF Rested
  <2>3. s.rec.halted /\ s.rec.impaired = Now.rec.impaired
        /\ s.rec.retireQ = Now.rec.retireQ /\ s.rec.debts = Now.rec.debts
    BY <1>1, <1>2, <1>4
  <2>4. Fits(s, cap, s.clip.filled)
    BY <1>4, <2>1, <2>3 DEF Fits
  <2> QED
    BY <2>2, <2>4 DEF Sized
<1>9. s.sink["B"] = -(HedgeRatio * s.sink["A"])
  <2>1. Now.rec.debts = <<>>
    BY DEF Held, Sized, Fits
  <2> QED
    BY <1>1, <1>4, <2>1, RatioHeld
<1>10. Held(t, cap)
  BY <1>1, <1>2, <1>3, <1>4, <1>5, <1>7, <1>8, <1>9, HaltExactly
<1>11. Good(t)
  BY <1>3, <1>5, <1>7, CancelClipOutcome DEF Handled
<1>12. Now' = t
  BY <1>3, <1>11, GoodType, Becomes
<1> QED
  BY <1>10, <1>12

(* The legs hold between two steps, and as long as the engine is not       *)
(* halted they balance with nothing owed.                                  *)
CapInv ==
    /\ Held(Now, decider.cap)
    /\ ~rec.halted => Net(Now) = 0

LEMMA NextHeld ==
    ASSUME Dependable, Inv, NEW cap \in Nat, cap = decider.cap, Held(Now, cap),
           ~rec.halted => Net(Now) = 0, Next
    PROVE  Held(Now', cap)
<1>1. 1..(MaxLots * HedgeRatio) \subseteq Nat \ {0}
  OBVIOUS
<1>2. CASE \E id \in Ids, n \in 1..(MaxLots * HedgeRatio) :
              BrokerFill(id, n) \/ DeliverFill(id, n) \/ RedeliverFill(id, n)
  <2>1. PICK id \in Ids, n \in Nat \ {0} : BrokerFill(id, n) \/ DeliverFill(id, n) \/ RedeliverFill(id, n)
    BY <1>1, <1>2
  <2>2. ~RedeliverFill(id, n)
    BY NoFaults DEF RedeliverFill
  <2> QED
    BY <2>1, <2>2, BrokerFillHeld, DeliverFillHeld
<1>3. CASE \E id \in Ids : BrokerKill(id) \/ DeliverDead(id) \/ TakerLate(id)
  <2>1. PICK id \in Ids : BrokerKill(id) \/ DeliverDead(id) \/ TakerLate(id)
    BY <1>3
  <2>2. ~BrokerKill(id)
    BY NoFaults DEF BrokerKill
  <2> QED
    BY <2>1, <2>2, DeliverDeadHeld, TakerLateHeld
<1>4. CASE \E due, probe \in BOOLEAN : OnState(due, probe) \/ OnTick(due, probe, FALSE) \/ OnTick(due, probe, TRUE)
  <2>1. FALSE \in BOOLEAN /\ TRUE \in BOOLEAN
    OBVIOUS
  <2> QED
    BY <1>4, <2>1, OnStateHeld, OnTickHeld
<1>5. CASE \E leg \in Leg, due, behind \in BOOLEAN : OnBook(leg, due, behind)
  BY <1>5, OnBookHeld
<1>6. CASE PullIfUnwanted \/ Shutdown
  <2>1. ~LotBook /\ clip # Idle /\ EngineStep(CancelClip(Now))
    BY <1>6 DEF PullIfUnwanted, Shutdown, Dependable
  <2> QED
    BY <2>1, CancelHeld
<1>7. CASE Reconcile
  BY <1>7, ReconcileHeld
<1>8. CASE HaltEngine
  <2>1. Net(Now) = 0
    BY <1>8 DEF HaltEngine
  <2> QED
    BY <1>8, <2>1, HaltHeld
<1> QED
  BY <1>2, <1>3, <1>4, <1>5, <1>6, <1>7, <1>8 DEF Next

LEMMA CapType ==
    ASSUME Inv
    PROVE  decider.cap \in Nat
BY DecidersAssumption DEF Inv

LEMMA CapInvNext ==
    ASSUME Dependable, Inv, CapInv, [Next]_vars
    PROVE  CapInv'
<1>1. CASE Next
  <2> DEFINE cap == decider.cap
  <2>1. Stepped(Now, Now') /\ decider' = decider
    BY <1>1, NextStep
  <2>2. cap \in Nat /\ cap = decider.cap /\ Held(Now, cap) /\ (~rec.halted => Net(Now) = 0)
    BY CapType DEF CapInv
  <2> HIDE DEF cap
  <2>3. Held(Now', cap)
    BY <1>1, <2>2, NextHeld
  <2>4. ~Now'.rec.halted => Net(Now') = 0
    <3>1. TerminalAcksHold
      BY DEF Dependable, TerminalAcksHold
    <3>2. ~Now'.rec.halted => ~Now.rec.halted /\ Net(Now') = Net(Now)
      BY <2>1, <3>1 DEF Stepped
    <3> QED
      BY <2>2, <3>2, NowFields
  <2>5. Now'.rec = rec'
    BY DEF Now
  <2> QED
    BY <2>1, <2>3, <2>4, <2>5 DEF CapInv, cap
<1>2. CASE UNCHANGED vars
  <2>1. Now' = Now /\ decider' = decider /\ rec' = rec
    BY <1>2 DEF vars, Now
  <2> QED
    BY <2>1 DEF CapInv
<1> QED
  BY <1>1, <1>2

LEMMA CapInvInit ==
    ASSUME Init
    PROVE  CapInv
<1>1. Inv /\ Net(Now) = 0
  BY InitInv
<1>2. /\ Now.clip = Idle /\ Now.sink["A"] = 0 /\ Now.book = 0 /\ Now.rec = NewMachine /\ Good(Now)
  BY <1>1 DEF Init, Now, Inv, Leg
<1>3. ~NewMachine.halted /\ ~NewMachine.impaired /\ NewMachine.retireQ = <<>> /\ NewMachine.debts = <<>>
  BY DEF NewMachine
<1>4. decider.cap \in Nat
  BY <1>1, CapType
<1>5. 0 \in -decider.cap..decider.cap
  BY <1>4
<1>6. Fits(Now, decider.cap, Now.clip.filled)
  BY <1>2, <1>3, <1>4, <1>5, IdleFits
<1>7. Working(Now) = {}
  BY <1>1, <1>2 DEF Inv, ClipOK
<1> QED
  BY <1>1, <1>2, <1>3, <1>6, <1>7 DEF CapInv, Held, Sized, Rested

-----------------------------------------------------------------------------
(* What is committed at the broker, of any state. *)
Counted(s, id) == IF id \in s.pending THEN s.own[id].placed ELSE s.orders[id].exec
CommittedIn(s, leg) == SumOnLeg(s.orders, leg, LAMBDA id : Counted(s, id))
CountedOn(s, leg) == [i \in 1..Len(s.orders) |-> TermOn(s.orders[i], leg, Counted(s, i))]

LEMMA CountedSums ==
    ASSUME NEW s, Len(s.orders) \in Nat, NEW leg,
           \A i \in 1..Len(s.orders) : Counted(s, i) \in Int
    PROVE  Sums(Len(s.orders), CountedOn(s, leg), CommittedIn(s, leg))
<1> DEFINE q == s.orders
           n == Len(q)
           v == CountedOn(s, leg)
           e(i) == IF q[i].leg = leg THEN Sign(q[i].buy) * Counted(s, i) ELSE 0
           Is(f) == f = [i \in 0..n |-> IF i = 0 THEN 0 ELSE f[i - 1] + e(i)]
           sum == CHOOSE f : Is(f)
<1>1. n \in Nat
  OBVIOUS
<1>2. \A i \in 1..n : v[i] = e(i) /\ v[i] \in Int
  BY TermOnType DEF TermOn, CountedOn
<1>3. CommittedIn(s, leg) = sum[n]
  BY DEF CommittedIn, SumOnLeg
<1> HIDE DEF v, e, n
<1>4. PICK f \in [0..n -> Int] : f[0] = 0 /\ \A i \in 1..n : f[i] = f[i - 1] + v[i]
  BY <1>1, <1>2, SumExists
<1>5. Is(f)
  <2>1. ASSUME NEW i \in 0..n PROVE f[i] = IF i = 0 THEN 0 ELSE f[i - 1] + e(i)
    BY <1>4, <1>2
  <2> QED
    BY <2>1
<1>6. Is(sum)
  <2> HIDE DEF Is
  <2> QED
    BY <1>5
<1> HIDE DEF sum
<1>7. sum[0] = 0 /\ \A i \in 1..n : sum[i] = sum[i - 1] + e(i)
  BY <1>6, <1>1
<1> HIDE DEF Is
<1>8. \A i \in 1..n : v[i] \in Int /\ sum[i] = sum[i - 1] + v[i]
  BY <1>2, <1>7
<1>9. \A i \in 0..n : sum[i] \in Int
  BY <1>1, <1>7, <1>8, SumType
<1>10. Sums(n, v, sum[n])
  BY <1>7, <1>8, <1>9 DEF Sums
<1> QED
  BY <1>3, <1>10 DEF n, v

(* The account of an order that is not at work is what is committed to it; *)
(* of one at work the ledger knows the clip's fills, and no more than its  *)
(* size is committed.                                                      *)
LEMMA CountedIs ==
    ASSUME Dependable, NEW cap, NEW s, Good(s), Sized(s, cap), NEW id \in DOMAIN s.own
    PROVE  /\ Counted(s, id) \in Nat
           /\ id \notin Working(s) => Counted(s, id) = s.own[id].credited
           /\ id \in Working(s) => s.own[id].credited = s.clip.filled
                                   /\ Counted(s, id) \in s.clip.filled..s.own[id].placed
<1> DEFINE a == s.own[id]
           o == s.orders[id]
<1>1. /\ a \in Acct /\ o \in OrderType /\ OrderOK(o) /\ AcctOK(a, o)
      /\ id \in s.pending <=> ~a.maker /\ a.final < 0
      /\ id \in Working(s) <=> a.maker /\ a.final < 0 /\ ~a.deferred
      /\ "dup" \notin FaultKinds /\ "async" \notin FaultKinds
  BY GoodType DEF Good, Working, Dependable
<1>2. ~a.deferred
  <2>1. s.rec.retireQ = <<>>
    BY DEF Sized, Fits
  <2>2. Len(s.rec.retireQ) = 0
    BY <2>1
  <2>3. \A i \in 1..Len(s.rec.retireQ) : FALSE
    BY <2>2
  <2>4. id \notin Deferred(s)
    BY <2>3 DEF Good
  <2> QED
    BY <2>4 DEF Deferred
<1>3. id \in Working(s) => a.seen = s.clip.filled
  BY DEF Sized, Rested
<1>4. Counted(s, id) = IF id \in s.pending THEN a.placed ELSE o.exec
  BY DEF Counted
<1> HIDE DEF a, o
<1>5. /\ a.final \in Int /\ a.seen \in Nat /\ a.placed \in Nat /\ a.maker \in BOOLEAN
      /\ o.exec \in Nat /\ o.sent \in Nat /\ o.size \in Nat /\ o.sent =< o.exec /\ o.exec =< o.size
  BY <1>1, OrderFields DEF Acct, OrderOK
<1>6. /\ a.placed = o.size /\ a.seen =< o.sent /\ -1 =< a.final
      /\ a.credited = IF a.maker \/ a.final >= 0 THEN Max2(a.final, a.seen) ELSE a.placed
      /\ ~a.maker /\ a.final >= 0 => a.final >= o.exec
      /\ a.maker /\ a.final >= 0 => a.final = o.exec
      /\ a.final >= 0 => a.final =< o.exec
  BY <1>1 DEF AcctOK
<1>7. CASE id \in s.pending
  <2>1. ~a.maker /\ a.final < 0 /\ a.credited = a.placed /\ id \notin Working(s)
    BY <1>1, <1>5, <1>6, <1>7
  <2> QED
    BY <1>4, <1>5, <1>7, <2>1 DEF a
<1>8. CASE a.final >= 0
  <2>1. a.final = o.exec /\ id \notin s.pending /\ id \notin Working(s)
    BY <1>1, <1>5, <1>6, <1>8
  <2>2. a.credited = o.exec
    BY <1>5, <1>6, <1>8, <2>1 DEF Max2
  <2> QED
    BY <1>4, <1>5, <2>1, <2>2 DEF a
<1>9. CASE id \in Working(s)
  <2>1. a.maker /\ a.final < 0 /\ id \notin s.pending /\ a.credited = Max2(a.final, a.seen)
    BY <1>1, <1>5, <1>6, <1>9
  <2>2. a.credited = a.seen /\ Counted(s, id) = o.exec
    BY <1>4, <1>5, <2>1 DEF Max2
  <2>3. s.clip.filled = a.seen
    BY <1>3, <1>9
  <2>4. o.exec \in a.seen..a.placed
    BY <1>5, <1>6
  <2> QED
    BY <1>5, <1>9, <2>2, <2>3, <2>4 DEF a
<1> QED
  BY <1>1, <1>2, <1>5, <1>7, <1>8, <1>9

(* The orders at work are the legs of the clip, each on its side. *)
LEMMA AtWork ==
    ASSUME NEW s, Good(s), ClipOK(s), NEW id \in Working(s)
    PROVE  /\ s.clip # Idle /\ s.clip.dir \in {-1, 1}
           /\ id \in DOMAIN s.own /\ id = s.clip[s.orders[id].leg] /\ s.orders[id].leg \in Leg
           /\ s.orders[id].buy = LegBuys(s.clip.dir, s.orders[id].leg)
           /\ s.own[id].placed = s.clip.target
           /\ s.orders[id].leg = "B" => HedgeRatio = 1
<1>1. s.clip # Idle
  BY DEF ClipOK
<1>2. /\ s.clip.dir \in {-1, 1} /\ LegOK(s, "A") /\ LegOK(s, "B") /\ Working(s) \subseteq {s.clip.A, s.clip.B}
      /\ s.clip["A"] = s.clip.A /\ s.clip["B"] = s.clip.B
  BY <1>1, ClipFilling, FillingType
<1>3. id \in DOMAIN s.own /\ s.own[id].maker /\ id # 0
  BY GoodType DEF Working
<1>4. PICK leg \in Leg : id = s.clip[leg]
  BY <1>2 DEF Leg
<1>5. LegOK(s, leg)
  BY <1>2 DEF Leg
<1>6. /\ s.own[id].leg = leg /\ s.own[id].buy = LegBuys(s.clip.dir, leg) /\ s.own[id].placed = s.clip.target
  BY <1>3, <1>4, <1>5 DEF LegOK
<1>7. AcctOK(s.own[id], s.orders[id])
  BY <1>3, GoodType
<1>8. /\ s.orders[id].leg = leg /\ s.orders[id].buy = LegBuys(s.clip.dir, leg) /\ (leg = "B" => HedgeRatio = 1)
  BY <1>3, <1>6, <1>7 DEF AcctOK
<1> QED
  BY <1>1, <1>2, <1>3, <1>4, <1>6, <1>8

(* A leg's committed lots exceed the ledger's by what its maker at work    *)
(* has executed and not told, never more than the rest of the clip.        *)
LEMMA CommittedLeg ==
    ASSUME Dependable, NEW cap, NEW s, Good(s), ClipOK(s), Sized(s, cap), NEW leg \in Leg
    PROVE  \E d \in Int :
              /\ s.clip.filled + d \in 0..s.clip.target
              /\ CommittedIn(s, leg) = s.sink[leg] + Signed(LegBuys(s.clip.dir, leg), d)
              /\ d # 0 => s.clip # Idle /\ s.clip.dir \in {-1, 1} /\ (leg = "B" => HedgeRatio = 1)
<1> DEFINE n == Len(s.orders)
           v == CreditOn(s, leg)
           w == CountedOn(s, leg)
           y == Credits(s.own, s.orders, leg)
           z == CommittedIn(s, leg)
           k == s.clip[leg]
<1>1. s \in State /\ n \in Nat /\ Full(s) /\ s.sink[leg] = y /\ s.sink[leg] \in Int
  <2>1. OrdersNamed
    BY DEF Dependable, OrdersNamed
  <2> QED
    BY <2>1, GoodType, SinkType DEF Good, Tallied
<1>2. Sums(n, v, y) /\ \A i \in 1..n : v[i] \in Int
  BY <1>1, StateCredits
<1>3. \A i \in 1..n : i \in DOMAIN s.own /\ Counted(s, i) \in Int /\ s.own[i].credited \in Int
  <2> TAKE i \in 1..n
  <2>1. i \in DOMAIN s.own
    BY <1>1 DEF Full
  <2>2. Counted(s, i) \in Nat
    BY <2>1, CountedIs
  <2> QED
    BY <1>1, <2>1, <2>2, StateCredits
<1>4. Sums(n, w, z)
  BY <1>1, <1>3, CountedSums
<1>5. \A i \in 1..n : /\ v[i] = TermOn(s.orders[i], leg, s.own[i].credited)
                      /\ w[i] = TermOn(s.orders[i], leg, Counted(s, i))
  BY DEF CreditOn, CountedOn
<1>6. \A i \in 1..n : i # k \/ i \notin Working(s) => w[i] = v[i]
  <2> SUFFICES ASSUME NEW i \in 1..n, i # k \/ i \notin Working(s) PROVE w[i] = v[i]
    OBVIOUS
  <2>1. CASE i \notin Working(s)
    <3>1. Counted(s, i) = s.own[i].credited
      BY <1>3, <2>1, CountedIs
    <3> QED
      BY <1>5, <3>1
  <2>2. CASE i \in Working(s)
    <3>1. s.orders[i].leg # leg
      BY <2>2, AtWork
    <3> QED
      BY <1>5, <3>1 DEF TermOn
  <2> QED
    BY <2>1, <2>2
<1>7. s.clip.filled \in Nat /\ s.clip.target \in Nat /\ s.clip.filled =< s.clip.target
  BY GoodType DEF Clip, Sized, Fits
<1>8. CASE k \notin Working(s)
  <2>1. \A i \in 1..n : w[i] = v[i]
    BY <1>6, <1>8
  <2> HIDE DEF n, v, w, y, z
  <2>2. z = y
    BY <1>1, <1>2, <1>4, <2>1, SumsSame
  <2>3. z = s.sink[leg] + Signed(LegBuys(s.clip.dir, leg), 0)
    <3>1. Signed(LegBuys(s.clip.dir, leg), 0) = 0
      BY SignedZero
    <3> DEFINE a == s.sink[leg]
               e == Signed(LegBuys(s.clip.dir, leg), 0)
    <3>2. z = a /\ a \in Int /\ e = 0
      BY <1>1, <2>2, <3>1
    <3> HIDE DEF a, e
    <3>3. z = a + e
      BY <3>2
    <3> QED
      BY <3>3 DEF a, e
  <2>4. s.clip.filled + 0 \in 0..s.clip.target /\ 0 \in Int
    BY <1>7
  <2> DEFINE d == 0
  <2>5. /\ d \in Int /\ d = 0 /\ s.clip.filled + d \in 0..s.clip.target
        /\ z = s.sink[leg] + Signed(LegBuys(s.clip.dir, leg), d)
    BY <2>3, <2>4
  <2> HIDE DEF d
  <2> QED
    BY <2>5 DEF z
<1>9. CASE k \in Working(s)
  <2> DEFINE c == Counted(s, k)
             f == s.own[k].credited
             d == c - f
             b == LegBuys(s.clip.dir, leg)
             e == Signed(b, d)
  <2>1. /\ s.clip # Idle /\ s.clip.dir \in {-1, 1} /\ k \in DOMAIN s.own
        /\ s.orders[k].leg \in Leg /\ k = s.clip[s.orders[k].leg]
        /\ s.orders[k].buy = LegBuys(s.clip.dir, s.orders[k].leg)
        /\ s.own[k].placed = s.clip.target
        /\ s.orders[k].leg = "B" => HedgeRatio = 1
    BY <1>9, AtWork
  <2>2. s.orders[k].leg = leg
    <3>1. LegOK(s, leg) /\ k # 0
      BY <2>1, ClipFilling, FillingType, GoodType DEF Leg
    <3>2. s.own[k].leg = leg
      BY <3>1 DEF LegOK
    <3>3. AcctOK(s.own[k], s.orders[k])
      BY <2>1, GoodType
    <3> QED
      BY <3>2, <3>3 DEF AcctOK
  <2>3. f = s.clip.filled /\ c \in s.clip.filled..s.clip.target
    BY <1>9, <2>1, CountedIs
  <2>4. c \in Int /\ f \in Int /\ d \in Int /\ s.clip.filled + d \in 0..s.clip.target
    BY <1>7, <2>3
  <2>5. k \in 1..n
    BY <1>1, <2>1 DEF Full
  <2>6. w[k] = v[k] + e /\ e \in Int
    <3>1. v[k] = Sign(b) * f /\ w[k] = Sign(b) * c
      BY <1>5, <2>1, <2>2, <2>5 DEF TermOn
    <3> HIDE DEF v, w, b, c, f
    <3>2. e = Sign(b) * d /\ e \in Int /\ Sign(b) \in {-1, 1}
      BY <2>4, SignedIs DEF Sign
    <3>3. CASE Sign(b) = 1
      BY <2>4, <3>1, <3>2, <3>3
    <3>4. CASE Sign(b) = -1
      BY <2>4, <3>1, <3>2, <3>4
    <3> QED
      BY <3>2, <3>3, <3>4
  <2>7. Differ(n, v, w, k, e)
    <3> HIDE DEF n, v, w, e
    <3> QED
      BY <1>2, <1>6, <2>5, <2>6 DEF Differ
  <2> HIDE DEF n, v, w, y, z, e
  <2>8. z = y + e
    BY <1>1, <1>2, <1>4, <2>7, SumsChange
  <2>9. z = s.sink[leg] + Signed(LegBuys(s.clip.dir, leg), d)
    BY <1>1, <2>8 DEF e
  <2>10. leg = "B" => HedgeRatio = 1
    BY <2>1, <2>2
  <2> HIDE DEF d
  <2> QED
    BY <2>1, <2>4, <2>9, <2>10 DEF z
<1> QED
  BY <1>8, <1>9

LEMMA HeldWithinCap ==
    ASSUME Dependable, Inv, CapInv
    PROVE  WithinCap
<1> DEFINE cap == decider.cap
           s == Now
<1>1. /\ cap \in Nat /\ Good(s) /\ ClipOK(s) /\ Held(s, cap) /\ Sized(s, cap) /\ s.rec.debts = <<>>
      /\ Fits(s, cap, s.clip.filled)
  BY CapType DEF Inv, CapInv, Held, Sized, Fits
<1>2. ASSUME NEW leg \in Leg PROVE Committed(leg) = CommittedIn(s, leg)
  BY DEF Committed, CommittedIn, Counted, SumOnLeg, Now
<1>3. s.rec.halted => s.clip = Idle /\ HeldB(s, cap)
  BY <1>1 DEF Held
<1>4. ~s.rec.halted => Net(s) = 0
  BY NowFields DEF CapInv
<1> HIDE DEF s, cap
<1>5. s.sink["A"] \in Int /\ s.sink["B"] \in Int /\ s.clip.filled \in Int /\ HedgeRatio \in Nat
  BY <1>1, SinkType, GoodType, Constants DEF Clip
<1>6. CommittedIn(s, "A") \in -cap..cap
  <2>1. PICK d \in Int :
           /\ s.clip.filled + d \in 0..s.clip.target
           /\ CommittedIn(s, "A") = s.sink["A"] + Signed(LegBuys(s.clip.dir, "A"), d)
           /\ d = 0 \/ s.clip.dir \in {-1, 1}
    BY <1>1, CommittedLeg DEF Leg
  <2>2. s.sink["A"] + Along(s.clip.dir, d) \in -cap..cap
    BY <1>1, <1>5, <2>1, FitsWithin
  <2>3. Signed(LegBuys(s.clip.dir, "A"), d) = Along(s.clip.dir, d)
    <3>1. CASE d = 0
      <4>1. s.clip.dir \in {-1, 0, 1}
        BY <1>1, GoodType DEF Clip
      <4> QED
        BY <3>1, <4>1, SignedZero, AlongType
    <3>2. CASE s.clip.dir \in {-1, 1}
      BY <3>2, SignedSides
    <3> QED
      BY <2>1, <3>1, <3>2
  <2> QED
    BY <2>1, <2>2, <2>3
<1>7. CommittedIn(s, "B") \in -HedgeLots("B", cap)..HedgeLots("B", cap)
  <2>1. PICK d \in Int :
           /\ s.clip.filled + d \in 0..s.clip.target
           /\ CommittedIn(s, "B") = s.sink["B"] + Signed(LegBuys(s.clip.dir, "B"), d)
           /\ d # 0 => s.clip # Idle /\ s.clip.dir \in {-1, 1} /\ HedgeRatio = 1
    BY <1>1, CommittedLeg DEF Leg
  <2>2. CASE d = 0
    <3>1. CommittedIn(s, "B") = s.sink["B"]
      <4>1. Signed(LegBuys(s.clip.dir, "B"), d) = 0
        BY <2>2, SignedZero
      <4> QED
        BY <1>5, <2>1, <4>1
    <3>2. HeldB(s, cap)
      <4>1. CASE s.rec.halted
        BY <1>3, <4>1
      <4>2. CASE ~s.rec.halted
        <5>1. s.sink["B"] = -(HedgeRatio * s.sink["A"])
          BY <1>1, <1>4, <4>2, RatioHeld
        <5>2. s.sink["A"] \in -cap..cap
          BY <1>1, HeldA
        <5> QED
          BY <1>1, <1>5, <5>1, <5>2, Scaled DEF HeldB, HedgeLots
      <4> QED
        BY <4>1, <4>2
    <3> QED
      BY <3>1, <3>2 DEF HeldB
  <2>3. CASE d # 0
    <3> DEFINE a == s.sink["A"]
               b == s.sink["B"]
               x == Along(s.clip.dir, d)
    <3>1. s.clip # Idle /\ s.clip.dir \in {-1, 1} /\ HedgeRatio = 1 /\ ~s.rec.halted
      BY <1>3, <2>1, <2>3
    <3>2. b = -(1 * a)
      BY <1>1, <1>4, <3>1, RatioHeld
    <3>3. a + x \in -cap..cap
      BY <1>1, <1>5, <2>1, FitsWithin
    <3>4. CommittedIn(s, "B") = b + (-x) /\ x \in Int
      BY <2>1, <3>1, SignedSides
    <3>5. HedgeLots("B", cap) = cap
      BY <1>1, <3>1 DEF HedgeLots
    <3>6. a \in Int /\ b \in Int
      BY <1>5
    <3> HIDE DEF a, b, x
    <3>7. b + (-x) \in -cap..cap
      BY <1>1, <3>2, <3>3, <3>4, <3>6
    <3> QED
      BY <3>4, <3>5, <3>7
  <2> QED
    BY <2>2, <2>3
<1>8. HedgeLots("A", cap) = cap
  BY DEF HedgeLots
<1> QED
  BY <1>2, <1>6, <1>7, <1>8 DEF WithinCap, Leg, cap

(* The position a clip was sized against stays within the cap: at a broker *)
(* that does what it is told and says what it did, no order of fills on    *)
(* both legs, events, re-pegs, timeouts, closes and an operator's halt     *)
(* takes either leg past the cap, at the broker, takers awaiting           *)
(* confirmation included (OnFill: "never doubling"; settleClip, repegLeg,  *)
(* commitClip).                                                            *)
THEOREM CapIsKept == Dependable => (Spec => []WithinCap)
<1>1. Init => Inv /\ CapInv
  BY InitInv, CapInvInit
<1>2. Dependable /\ Inv /\ CapInv /\ [Next]_vars => CapInv'
  BY CapInvNext
<1>3. Dependable /\ Inv /\ CapInv => WithinCap
  BY HeldWithinCap
<1>4. Dependable => []Dependable
  <2>1. Dependable => Dependable'
    BY DEF Dependable
  <2> QED
    BY <2>1, PTL
<1> QED
  BY <1>1, <1>2, <1>3, <1>4, Invariant, PTL DEF Spec

NeverHalts == ~MayHalt

(* A lot-book Decider books exactly the lots the pair realised: once the   *)
(* engine is idle and every order is settled, its book is the ledger's     *)
(* position, whatever legs filled first, ran ahead, were re-pegged or were *)
(* completed by the timeout (commitClip, settleClip, abandonClip), as long *)
(* as no operator halts the engine in the middle of a clip.                *)
THEOREM BookIsTrue == Dependable /\ NeverHalts => (Spec => []BookMatches)
<1>1. Init => Inv /\ CapInv
  BY InitInv, CapInvInit
<1>2. Dependable /\ Inv /\ CapInv /\ [Next]_vars => CapInv'
  BY CapInvNext
<1>3. Dependable /\ NeverHalts /\ Inv /\ CapInv => BookMatches
  <2> SUFFICES ASSUME NeverHalts, Inv, CapInv, LotBook, clip = Idle PROVE book = sink["A"]
    BY DEF BookMatches
  <2>1. /\ Good(Now) /\ Now.clip = Idle /\ decider.cap \in Nat /\ Fits(Now, decider.cap, Now.clip.filled)
        /\ ~Now.rec.halted
    BY CapType, NowFields DEF Inv, CapInv, Held, Sized, NeverHalts
  <2>2. Now.book = Now.sink["A"]
    BY <2>1, IdleFits
  <2> QED
    BY <2>2, NowFields
<1>4. Dependable /\ NeverHalts => [](Dependable /\ NeverHalts)
  <2>1. Dependable /\ NeverHalts => (Dependable /\ NeverHalts)'
    BY DEF Dependable, NeverHalts
  <2> QED
    BY <2>1, PTL
<1> QED
  BY <1>1, <1>2, <1>3, <1>4, Invariant, PTL DEF Spec
=============================================================================
