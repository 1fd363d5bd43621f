-------------------------- MODULE ExecEngineProofs --------------------------
(***************************************************************************)
(* ExecEngine, proved for any strategies, clip sizes, hedge ratio, number  *)
(* of orders and faults: the accounts, the clip and the obligation queues  *)
(* stay consistent (Inv), every unsettled order keeps its owner, the pair  *)
(* stays balanced, the ledger of settled orders is the broker's position,  *)
(* a clip opens on a true ledger only, and a halted engine places nothing. *)
(*                                                                         *)
(* A procedure of the engine is a set of outcomes, so it is specified by a *)
(* contract between the state it starts from and each state it may end in, *)
(* proved from the contracts of what it calls, as the code is read:        *)
(*   Evolve   what no procedure ever does (an account changes sides, ...)  *)
(*   Calm     the clip is untouched, no maker has come to rest             *)
(*   Aside    ... and only the accounts named are not as they were         *)
(*   Hedged, Settles, Retired, Retried, Quiet, ClipSettled, Opened, Paired *)
(*            what the broker's answers make of the Net of the two legs    *)
(*   Handled  a whole handler: Inv again, and Net as it was                *)
(* Loops (retries, ladders, queues) are recursive functions; what they     *)
(* preserve follows by LoopExists, sums over debts and orders by SumUnique. *)
(* Good carries the link to the broker: the sink is the sum of the credits *)
(* (Tallied); what changes one account or opens one keeps it so.  When a   *)
(* clip opens, the gates vouch for every account (GatesVouch) and opening  *)
(* only adds makers of which nothing has executed (Adds).                  *)
(***************************************************************************)
EXTENDS ExecEngine, FiniteSetTheorems, SequenceTheorems, WellFoundedInduction,
        NaturalsInduction, TLAPS

-----------------------------------------------------------------------------
(* The state, of any size.                                                 *)
Acct == [ maker : BOOLEAN, leg : Leg, buy : BOOLEAN, placed : Nat \ {0},
          folded : Nat, seen : Nat, credited : Nat, final : Int,
          deferred : BOOLEAN, overdue : BOOLEAN ]
Accts == UNION {[D -> Acct] : D \in SUBSET Nat}
Clip == [ dir : {-1, 0, 1}, close : BOOLEAN, lots : Nat, target : Nat, mode : Mode,
          A : Nat, B : Nat, maker : Nat, filled : Nat ]
Debt == [leg : Leg, buy : BOOLEAN, lots : Nat \ {0}]
Machine == [ halted : BOOLEAN, suspect : BOOLEAN, unverified : BOOLEAN,
             impaired : BOOLEAN, streak : 0..TakerDeadLimit,
             retireQ : Seq(Nat), debts : Seq(Debt) ]
State == [ own : Accts, pending : SUBSET Nat, clip : Clip, sink : [Leg -> Int],
           book : Int, rec : Machine, orders : Seq(OrderType),
           faults : 0..MaxFaults, moves : Nat ]

OrderOK(o) == o.sent =< o.exec /\ o.exec =< o.size

(* An account against its order: its counts stay within the order's size,  *)
(* its credit is what it knows of (a taker's is its size until told), and  *)
(* what it has learned of the end of its order holds.                      *)
AcctOK(a, o) ==
    /\ a.leg = o.leg /\ a.buy = o.buy /\ a.placed = o.size
    /\ a.seen =< a.placed /\ a.folded =< a.placed
    /\ -1 =< a.final /\ a.final =< a.placed
    /\ a.credited = IF a.maker \/ a.final >= 0 THEN Max2(a.final, a.seen) ELSE a.placed
    /\ a.maker => /\ IF a.final < 0 THEN a.folded = a.seen ELSE a.folded >= a.final
                  /\ a.leg = "B" => HedgeRatio = 1
    /\ a.deferred => a.maker /\ a.final < 0
    /\ ~a.maker /\ a.final >= 0 => a.final >= o.exec /\ (a.final = a.placed \/ ~o.live)
    /\ a.maker /\ a.final >= 0 =>
          a.final =< o.exec /\ ("async" \in FaultKinds \/ (~o.live /\ a.final = o.exec))
    /\ "dup" \notin FaultKinds /\ a.final >= 0 => a.final =< o.exec
    /\ "dup" \notin FaultKinds => a.seen =< o.sent
    /\ "kill" \notin FaultKinds /\ ~a.maker /\ ~o.live => o.exec = o.size

(* Orders queued for retirement, and makers still working: each with an    *)
(* unknown outcome.                                                        *)
Deferred(s) == {id \in DOMAIN s.own : s.own[id].deferred}
Working(s) == {id \in DOMAIN s.own : /\ s.own[id].maker /\ s.own[id].final < 0
                                     /\ ~s.own[id].deferred}

(* Every order has its account, as long as the broker names the orders it  *)
(* takes; then the sink is the sum of the credits.                         *)
Full(s) == DOMAIN s.own = 1..Len(s.orders)
Credits(own0, q, leg) == SumOnLeg(q, leg, LAMBDA id : own0[id].credited)
OrdersNamed == {"ghost", "blind"} \cap FaultKinds = {}
Tallied(s) ==
    /\ Full(s) => \A leg \in Leg : s.sink[leg] = Credits(s.own, s.orders, leg)
    /\ OrdersNamed => Full(s)

(* A state whose accounts are sound and add up to the sink, whose          *)
(* unconfirmed takers are pending, whose deferred retires are queued, and  *)
(* which knows it is impaired while anything is queued.                    *)
Good(s) ==
    /\ s \in State
    /\ DOMAIN s.own \subseteq 1..Len(s.orders)
    /\ \A id \in 1..Len(s.orders) : OrderOK(s.orders[id])
    /\ \A id \in DOMAIN s.own : AcctOK(s.own[id], s.orders[id])
    /\ s.pending = {id \in DOMAIN s.own : ~s.own[id].maker /\ s.own[id].final < 0}
    /\ \A i \in 1..Len(s.rec.retireQ) :
          s.rec.retireQ[i] \in DOMAIN s.own /\ s.own[s.rec.retireQ[i]].maker
    /\ \A id \in Deferred(s) : \E i \in 1..Len(s.rec.retireQ) : s.rec.retireQ[i] = id
    /\ s.rec.retireQ # <<>> \/ s.rec.debts # <<>> => s.rec.impaired \/ s.rec.halted
    /\ Tallied(s)

(* A leg of the clip is a maker of the clip's size, on its side.           *)
LegOK(s, leg) ==
    s.clip[leg] # 0 =>
        /\ s.clip[leg] \in DOMAIN s.own
        /\ LET a == s.own[s.clip[leg]]
           IN  a.maker /\ a.leg = leg /\ a.buy = LegBuys(s.clip.dir, leg) /\ a.placed = s.clip.target

(* Nothing rests but for the clip; once a maker has filled, for it alone.  *)
ClipOK(s) ==
    IF s.clip = Idle THEN Working(s) = {}
    ELSE /\ s.clip.dir # 0 /\ s.clip.target >= 1
         /\ LegOK(s, "A") /\ LegOK(s, "B")
         /\ s.clip.mode \in {"dual", "soloB"} => HedgeRatio = 1
         /\ s.clip.maker \in {0, s.clip.A, s.clip.B}
         /\ s.clip.maker = 0 => s.clip.filled = 0
         /\ s.clip.maker # 0 => s.clip.filled =< s.own[s.clip.maker].folded
         /\ Working(s) \subseteq (IF s.clip.maker = 0 THEN {s.clip.A, s.clip.B} ELSE {s.clip.maker})

-----------------------------------------------------------------------------
LEMMA Induct ==
    ASSUME NEW T \in SUBSET Nat, 0 \in T, \A n \in T : n + 1 \in T
    PROVE  T = Nat
<1> SUFFICES ASSUME Nat \ T # {} PROVE FALSE
  OBVIOUS
<1> DEFINE R == OpToRel(<, Nat)
           U == Nat \ T
<1>1. IsWellFoundedOn(R, Nat) /\ U \subseteq Nat /\ U # {}
  BY NatLessThanWellFounded
<1>2. PICK m \in U : \A y \in U : ~(<<y, m>> \in R)
  <2> HIDE DEF R, U
  <2> QED
    BY <1>1, WFMin
<1>3. \A y \in U : ~(y < m)
  BY <1>2 DEF OpToRel
<1> QED
  BY <1>3

(* A loop of n steps F[1], ..., F[n] from the outcomes S, and what it      *)
(* preserves: P[i] holds the outcomes it may have after i steps.           *)
Preserves(n, S, F, P) ==
    S \subseteq P[0] /\ \A i \in 1..n : \A o \in P[i - 1] : F[i][o] \subseteq P[i]

Run(g, n, S, F) ==
    /\ g = [i \in 0..n |-> g[i]]
    /\ g[0] = S
    /\ \A i \in 1..n : \A y : y \in g[i] <=> \E o \in g[i - 1] : y \in F[i][o]

Within(n, g, P) == \A i \in 0..n : g[i] \subseteq P[i]

LEMMA LoopStays ==
    ASSUME NEW n \in Nat, NEW it, NEW P, it[0] \subseteq P[0],
           \A i \in 1..n : it[i - 1] \subseteq P[i - 1] => it[i] \subseteq P[i]
    PROVE  Within(n, it, P)
<1> DEFINE T == {i \in Nat : i \in 0..n => it[i] \subseteq P[i]}
<1>1. 0 \in T
  OBVIOUS
<1>2. ASSUME NEW i \in T PROVE i + 1 \in T
  <2> SUFFICES ASSUME i + 1 \in 0..n PROVE it[i + 1] \subseteq P[i + 1]
    OBVIOUS
  <2>1. i \in 0..n /\ i + 1 \in 1..n /\ (i + 1) - 1 = i
    OBVIOUS
  <2> QED
    BY <2>1
<1>3. T \subseteq Nat
  OBVIOUS
<1> HIDE DEF T
<1>4. T = Nat
  BY <1>1, <1>2, <1>3, Induct
<1> QED
  BY <1>4 DEF T, Within

LEMMA LoopExists ==
    ASSUME NEW n \in Nat, NEW S, NEW F, NEW P, Preserves(n, S, F, P)
    PROVE  \E g : Run(g, n, S, F) /\ Within(n, g, P)
<1> DEFINE T == {m \in Nat : \E g : Run(g, m, S, F)}
<1>1. 0 \in T
  <2>1. Run([i \in 0..0 |-> S], 0, S, F)
    BY DEF Run
  <2> QED
    BY <2>1
<1>2. ASSUME NEW m \in T PROVE m + 1 \in T
  <2>1. PICK g : Run(g, m, S, F)
    OBVIOUS
  <2> DEFINE last == UNION {F[m + 1][o] : o \in g[m]}
             h == [i \in 0..(m + 1) |-> IF i = m + 1 THEN last ELSE g[i]]
  <2>2. h[0] = S
    BY <2>1 DEF Run
  <2>3. ASSUME NEW i \in 1..(m + 1), NEW y
        PROVE  y \in h[i] <=> \E o \in h[i - 1] : y \in F[i][o]
    <3>1. i - 1 \in 0..m /\ h[i - 1] = g[i - 1]
      OBVIOUS
    <3>2. CASE i = m + 1
      <4>1. h[i] = last /\ i - 1 = m
        BY <3>2
      <4> QED
        BY <4>1, <3>1, <3>2
    <3>3. CASE i # m + 1
      <4>1. i \in 1..m /\ h[i] = g[i]
        BY <3>3
      <4> QED
        BY <4>1, <3>1, <2>1 DEF Run
    <3> QED
      BY <3>2, <3>3
  <2>4. h = [i \in 0..(m + 1) |-> h[i]]
    OBVIOUS
  <2> HIDE DEF h
  <2>5. Run(h, m + 1, S, F)
    BY <2>2, <2>3, <2>4 DEF Run
  <2> QED
    BY <2>5
<1>3. T \subseteq Nat
  OBVIOUS
<1> HIDE DEF T
<1>4. T = Nat
  BY <1>1, <1>2, <1>3, Induct
<1>5. PICK g : Run(g, n, S, F)
  BY <1>4 DEF T
<1>6. g[0] \subseteq P[0]
  BY <1>5 DEF Run, Preserves
<1>7. ASSUME NEW i \in 1..n, g[i - 1] \subseteq P[i - 1] PROVE g[i] \subseteq P[i]
  <2>1. \A y : y \in g[i] <=> \E o \in g[i - 1] : y \in F[i][o]
    BY <1>5 DEF Run
  <2>2. \A o \in P[i - 1] : F[i][o] \subseteq P[i]
    BY DEF Preserves
  <2> QED
    BY <1>7, <2>1, <2>2
<1>8. Within(n, g, P)
  BY <1>6, <1>7, LoopStays
<1> QED
  BY <1>5, <1>8

-----------------------------------------------------------------------------
(* Signed sums over a sequence, SumOnLeg. *)

LEMMA SumExists ==
    ASSUME NEW n \in Nat, NEW v, \A i \in 1..n : v[i] \in Int
    PROVE  \E f \in [0..n -> Int] : f[0] = 0 /\ \A i \in 1..n : f[i] = f[i - 1] + v[i]
<1> DEFINE Sums(f, m) == f[0] = 0 /\ \A i \in 1..m : f[i] = f[i - 1] + v[i]
           Has(m) == m =< n => \E f \in [0..m -> Int] : Sums(f, m)
           T == {m \in Nat : Has(m)}
<1>1. Has(0)
  <2>1. [i \in 0..0 |-> 0] \in [0..0 -> Int] /\ Sums([i \in 0..0 |-> 0], 0)
    OBVIOUS
  <2> QED
    BY <2>1
<1>2. ASSUME NEW m \in Nat, Has(m), m + 1 =< n
      PROVE  \E f \in [0..(m + 1) -> Int] : Sums(f, m + 1)
  <2>1. PICK f \in [0..m -> Int] : Sums(f, m)
    BY <1>2
  <2> DEFINE h == [i \in 0..(m + 1) |-> IF i = m + 1 THEN f[m] + v[m + 1] ELSE f[i]]
  <2>2. v[m + 1] \in Int /\ f[m] \in Int
    BY <1>2
  <2>3. h \in [0..(m + 1) -> Int]
    BY <2>2
  <2>4. h[0] = 0
    BY <2>1
  <2>5. ASSUME NEW i \in 1..(m + 1) PROVE h[i] = h[i - 1] + v[i]
    <3>1. CASE i = m + 1
      BY <3>1
    <3>2. CASE i # m + 1
      <4>1. i \in 1..m /\ h[i] = f[i] /\ h[i - 1] = f[i - 1]
        BY <3>2
      <4> QED
        BY <4>1, <2>1
    <3> QED
      BY <3>1, <3>2
  <2> HIDE DEF h
  <2> QED
    BY <2>3, <2>4, <2>5
<1>3. \A m \in Nat : Has(m) => Has(m + 1)
  BY <1>2
<1>4. T = Nat
  <2> HIDE DEF Has
  <2>1. 0 \in T /\ \A m \in T : m + 1 \in T
    BY <1>1, <1>3
  <2>2. T \subseteq Nat
    OBVIOUS
  <2> HIDE DEF T
  <2> QED
    BY <2>1, <2>2, Induct
<1>5. Has(n)
  <2> HIDE DEF Has
  <2> QED
    BY <1>4
<1> QED
  BY <1>5

LEMMA SumType ==
    ASSUME NEW n \in Nat, NEW v, NEW f, f[0] = 0,
           \A i \in 1..n : v[i] \in Int /\ f[i] = f[i - 1] + v[i]
    PROVE  \A i \in 0..n : f[i] \in Int
<1> DEFINE T == {m \in Nat : m =< n => f[m] \in Int}
<1>1. 0 \in T
  OBVIOUS
<1>2. ASSUME NEW m \in T PROVE m + 1 \in T
  <2> SUFFICES ASSUME m + 1 =< n PROVE f[m + 1] \in Int
    OBVIOUS
  <2>1. m + 1 \in 1..n /\ (m + 1) - 1 = m /\ m =< n
    OBVIOUS
  <2> QED
    BY <2>1
<1>3. T \subseteq Nat
  OBVIOUS
<1> HIDE DEF T
<1>4. T = Nat
  BY <1>1, <1>2, <1>3, Induct
<1> QED
  BY <1>4 DEF T

LEMMA SumUnique ==
    ASSUME NEW n \in Nat, NEW v, NEW f, NEW g, f[0] = g[0],
           \A i \in 1..n : f[i] = f[i - 1] + v[i] /\ g[i] = g[i - 1] + v[i]
    PROVE  f[n] = g[n]
<1> DEFINE T == {m \in Nat : m =< n => f[m] = g[m]}
<1>1. 0 \in T
  OBVIOUS
<1>2. ASSUME NEW m \in T PROVE m + 1 \in T
  <2> SUFFICES ASSUME m + 1 =< n PROVE f[m + 1] = g[m + 1]
    OBVIOUS
  <2>1. m + 1 \in 1..n /\ (m + 1) - 1 = m /\ m =< n
    OBVIOUS
  <2> QED
    BY <2>1
<1>3. T \subseteq Nat
  OBVIOUS
<1> HIDE DEF T
<1>4. T = Nat
  BY <1>1, <1>2, <1>3, Induct
<1> QED
  BY <1>4 DEF T

(* z is the sum of v[1], ..., v[n]. *)
Sums(n, v, z) ==
    \E f : /\ f[0] = 0 /\ f[n] = z
           /\ \A i \in 0..n : f[i] \in Int
           /\ \A i \in 1..n : f[i] = f[i - 1] + v[i]

LEMMA SumsSame ==
    ASSUME NEW n \in Nat, NEW v, NEW w, NEW y, NEW z, Sums(n, v, y), Sums(n, w, z),
           \A i \in 1..n : w[i] = v[i]
    PROVE  z = y
<1>1. PICK f : /\ f[0] = 0 /\ f[n] = y
               /\ \A i \in 1..n : f[i] = f[i - 1] + v[i]
  BY DEF Sums
<1>2. PICK g : /\ g[0] = 0 /\ g[n] = z
               /\ \A i \in 1..n : g[i] = g[i - 1] + w[i]
  BY DEF Sums
<1>3. \A i \in 1..n : f[i] = f[i - 1] + v[i] /\ g[i] = g[i - 1] + v[i]
  BY <1>1, <1>2
<1> QED
  BY <1>1, <1>2, <1>3, SumUnique

(* w is v but for its k-th term, d more. *)
Differ(n, v, w, k, d) ==
    /\ k \in 1..n /\ d \in Int /\ w[k] = v[k] + d
    /\ \A i \in 1..n : v[i] \in Int /\ (i # k => w[i] = v[i])

LEMMA SumsChange ==
    ASSUME NEW n \in Nat, NEW v, NEW w, NEW y, NEW z, Sums(n, v, y), Sums(n, w, z),
           NEW k, NEW d, Differ(n, v, w, k, d)
    PROVE  z = y + d
<1>1. PICK f : /\ f[0] = 0 /\ f[n] = y
               /\ \A i \in 0..n : f[i] \in Int
               /\ \A i \in 1..n : f[i] = f[i - 1] + v[i]
  BY DEF Sums
<1>2. PICK g : /\ g[0] = 0 /\ g[n] = z
               /\ \A i \in 1..n : g[i] = g[i - 1] + w[i]
  BY DEF Sums
<1>3. /\ k \in 1..n /\ d \in Int /\ w[k] = v[k] + d
      /\ \A i \in 1..n : v[i] \in Int /\ (i # k => w[i] = v[i])
  BY DEF Differ
<1> DEFINE More(m) == IF m >= k THEN d ELSE 0
           T == {m \in Nat : m =< n => g[m] = f[m] + More(m)}
<1>4. 0 \in T
  BY <1>1, <1>2, <1>3
<1>5. ASSUME NEW m \in T PROVE m + 1 \in T
  <2> SUFFICES ASSUME m + 1 =< n PROVE g[m + 1] = f[m + 1] + More(m + 1)
    OBVIOUS
  <2>1. m + 1 \in 1..n /\ (m + 1) - 1 = m /\ m =< n /\ m \in 0..n /\ m \in Nat
    OBVIOUS
  <2>2. /\ f[m + 1] = f[m] + v[m + 1] /\ g[m + 1] = g[m] + w[m + 1]
        /\ v[m + 1] \in Int /\ f[m] \in Int /\ g[m] = f[m] + More(m)
    BY <1>1, <1>2, <1>3, <2>1
  <2>3. CASE m + 1 = k
    <3>1. More(m) = 0 /\ More(m + 1) = d /\ w[m + 1] = v[m + 1] + d /\ d \in Int
      BY <1>3, <2>1, <2>3
    <3> HIDE DEF More
    <3> QED
      BY <2>2, <3>1
  <2>4. CASE m + 1 # k
    <3>1. More(m) = More(m + 1) /\ w[m + 1] = v[m + 1] /\ More(m) \in Int
      BY <1>3, <2>1, <2>4
    <3> HIDE DEF More
    <3> QED
      BY <2>2, <3>1
  <2> QED
    BY <2>3, <2>4
<1>6. T \subseteq Nat
  OBVIOUS
<1> HIDE DEF T
<1>7. T = Nat
  BY <1>4, <1>5, <1>6, Induct
<1>8. g[n] = f[n] + More(n)
  BY <1>7 DEF T
<1> QED
  BY <1>1, <1>2, <1>3, <1>8

LEMMA SumsGrow ==
    ASSUME NEW n \in Nat, NEW v, NEW w, NEW y, NEW z, Sums(n, v, y), Sums(n + 1, w, z),
           \A i \in 1..n : w[i] = v[i]
    PROVE  z = y + w[n + 1]
<1>1. PICK f : /\ f[0] = 0 /\ f[n] = y
               /\ \A i \in 1..n : f[i] = f[i - 1] + v[i]
  BY DEF Sums
<1>2. PICK g : /\ g[0] = 0 /\ g[n + 1] = z
               /\ \A i \in 1..(n + 1) : g[i] = g[i - 1] + w[i]
  BY DEF Sums
<1>3. \A i \in 1..n : f[i] = f[i - 1] + v[i] /\ g[i] = g[i - 1] + v[i]
  BY <1>1, <1>2
<1>4. g[n] = f[n]
  BY <1>1, <1>2, <1>3, SumUnique
<1> QED
  BY <1>1, <1>2, <1>4

(* A count of lots of an order, on a leg. *)
TermOn(o, leg, n) == IF o.leg = leg THEN Sign(o.buy) * n ELSE 0

LEMMA TermOnType == ASSUME NEW o, NEW leg, NEW n \in Int PROVE TermOn(o, leg, n) \in Int
BY DEF TermOn, Sign

LEMMA TermOnSum ==
    ASSUME NEW o, NEW leg, NEW m \in Int, NEW n \in Int
    PROVE  TermOn(o, leg, n) = TermOn(o, leg, m) + TermOn(o, leg, n - m)
BY DEF TermOn, Sign

LEMMA CreditSums ==
    ASSUME NEW q, NEW own0, Len(q) \in Nat, NEW leg,
           \A i \in 1..Len(q) : own0[i].credited \in Int
    PROVE  Sums(Len(q), [i \in 1..Len(q) |-> TermOn(q[i], leg, own0[i].credited)], Credits(own0, q, leg))
<1> DEFINE n == Len(q)
           v == [i \in 1..n |-> TermOn(q[i], leg, own0[i].credited)]
           e(i) == IF q[i].leg = leg THEN Sign(q[i].buy) * own0[i].credited ELSE 0
           Is(f) == f = [i \in 0..n |-> IF i = 0 THEN 0 ELSE f[i - 1] + e(i)]
           sum == CHOOSE f : Is(f)
<1>1. n \in Nat
  OBVIOUS
<1>2. \A i \in 1..n : v[i] = e(i) /\ v[i] \in Int
  BY TermOnType DEF TermOn
<1>3. Credits(own0, q, leg) = sum[n]
  BY DEF Credits, SumOnLeg
<1> HIDE DEF v, e, n
<1>4. PICK f \in [0..n -> Int] : f[0] = 0 /\ \A i \in 1..n : f[i] = f[i - 1] + v[i]
  BY <1>1, <1>2, SumExists
<1>5. Is(f)
  <2>1. ASSUME NEW i \in 0..n PROVE f[i] = IF i = 0 THEN 0 ELSE f[i - 1] + e(i)
    BY <1>4, <1>2
  <2> QED
    BY <2>1
<1>6. Is(sum)
  <2> HIDE DEF Is
  <2> QED
    BY <1>5
<1> HIDE DEF sum
<1>7. sum[0] = 0 /\ \A i \in 1..n : sum[i] = sum[i - 1] + e(i)
  BY <1>6, <1>1
<1> HIDE DEF Is
<1>8. \A i \in 1..n : v[i] \in Int /\ sum[i] = sum[i - 1] + v[i]
  BY <1>2, <1>7
<1>9. \A i \in 0..n : sum[i] \in Int
  BY <1>1, <1>7, <1>8, SumType
<1>10. Sums(n, v, sum[n])
  BY <1>7, <1>8, <1>9 DEF Sums
<1> QED
  BY <1>3, <1>10 DEF n, v

(* The sum of two columns is the sum of their sums. *)
LEMMA SumsPlus ==
    ASSUME NEW n \in Nat, NEW u, NEW v, NEW w, NEW x, NEW y, NEW z,
           Sums(n, u, x), Sums(n, v, y), Sums(n, w, z),
           \A i \in 1..n : u[i] \in Int /\ v[i] \in Int /\ w[i] = u[i] + v[i]
    PROVE  z = x + y /\ x \in Int /\ y \in Int
<1>1. PICK f : /\ f[0] = 0 /\ f[n] = x
               /\ \A i \in 0..n : f[i] \in Int
               /\ \A i \in 1..n : f[i] = f[i - 1] + u[i]
  BY DEF Sums
<1>2. PICK g : /\ g[0] = 0 /\ g[n] = y
               /\ \A i \in 0..n : g[i] \in Int
               /\ \A i \in 1..n : g[i] = g[i - 1] + v[i]
  BY DEF Sums
<1>3. PICK h : /\ h[0] = 0 /\ h[n] = z
               /\ \A i \in 1..n : h[i] = h[i - 1] + w[i]
  BY DEF Sums
<1> DEFINE k == [i \in 0..n |-> f[i] + g[i]]
<1>4. \A i \in 1..n : k[i] = k[i - 1] + w[i] /\ h[i] = h[i - 1] + w[i]
  <2> TAKE i \in 1..n
  <2>1. i \in 0..n /\ i - 1 \in 0..n
    OBVIOUS
  <2>2. k[i] = f[i] + g[i] /\ k[i - 1] = f[i - 1] + g[i - 1]
    BY <2>1
  <2>3. f[i] = f[i - 1] + u[i] /\ g[i] = g[i - 1] + v[i] /\ f[i - 1] \in Int /\ g[i - 1] \in Int
        /\ u[i] \in Int /\ v[i] \in Int /\ w[i] = u[i] + v[i]
    BY <1>1, <1>2, <2>1
  <2> HIDE DEF k
  <2> QED
    BY <1>3, <2>2, <2>3
<1>5. k[0] = h[0] /\ k[n] = x + y
  BY <1>1, <1>2, <1>3
<1> HIDE DEF k
<1>6. k[n] = h[n]
  BY <1>4, <1>5, SumUnique
<1> QED
  BY <1>1, <1>2, <1>3, <1>5, <1>6

(* The same for the lots the broker has executed. *)
Executed(q, leg) == SumOnLeg(q, leg, LAMBDA id : q[id].exec)

LEMMA ExecutedSums ==
    ASSUME NEW q, Len(q) \in Nat, NEW leg,
           \A i \in 1..Len(q) : q[i].exec \in Int
    PROVE  Sums(Len(q), [i \in 1..Len(q) |-> TermOn(q[i], leg, q[i].exec)], Executed(q, leg))
<1> DEFINE n == Len(q)
           v == [i \in 1..n |-> TermOn(q[i], leg, q[i].exec)]
           e(i) == IF q[i].leg = leg THEN Sign(q[i].buy) * q[i].exec ELSE 0
           Is(f) == f = [i \in 0..n |-> IF i = 0 THEN 0 ELSE f[i - 1] + e(i)]
           sum == CHOOSE f : Is(f)
<1>1. n \in Nat
  OBVIOUS
<1>2. \A i \in 1..n : v[i] = e(i) /\ v[i] \in Int
  BY TermOnType DEF TermOn
<1>3. Executed(q, leg) = sum[n]
  BY DEF Executed, SumOnLeg
<1> HIDE DEF v, e, n
<1>4. PICK f \in [0..n -> Int] : f[0] = 0 /\ \A i \in 1..n : f[i] = f[i - 1] + v[i]
  BY <1>1, <1>2, SumExists
<1>5. Is(f)
  <2>1. ASSUME NEW i \in 0..n PROVE f[i] = IF i = 0 THEN 0 ELSE f[i - 1] + e(i)
    BY <1>4, <1>2
  <2> QED
    BY <2>1
<1>6. Is(sum)
  <2> HIDE DEF Is
  <2> QED
    BY <1>5
<1> HIDE DEF sum
<1>7. sum[0] = 0 /\ \A i \in 1..n : sum[i] = sum[i - 1] + e(i)
  BY <1>6, <1>1
<1> HIDE DEF Is
<1>8. \A i \in 1..n : v[i] \in Int /\ sum[i] = sum[i - 1] + v[i]
  BY <1>2, <1>7
<1>9. \A i \in 0..n : sum[i] \in Int
  BY <1>1, <1>7, <1>8, SumType
<1>10. Sums(n, v, sum[n])
  BY <1>7, <1>8, <1>9 DEF Sums
<1> QED
  BY <1>3, <1>10 DEF n, v

(* The lots of a debt, counted on a leg. *)
DebtOn(d, leg) == IF d.leg = leg THEN Sign(d.buy) * d.lots ELSE 0
OwedIn(q, leg) == SumOnLeg(q, leg, LAMBDA i : q[i].lots)

LEMMA DebtOnType == ASSUME NEW d \in Debt, NEW leg PROVE DebtOn(d, leg) \in Int
<1>1. d.lots \in Int /\ Sign(d.buy) \in Int
  BY DEF Debt, Sign
<1> QED
  BY <1>1 DEF DebtOn

LEMMA OwedSums ==
    ASSUME NEW q \in Seq(Debt), NEW leg
    PROVE  \E f : /\ f[0] = 0
                  /\ \A i \in 0..Len(q) : f[i] \in Int
                  /\ \A i \in 1..Len(q) : f[i] = f[i - 1] + DebtOn(q[i], leg)
                  /\ f[Len(q)] = OwedIn(q, leg)
<1> DEFINE n == Len(q)
           v == [i \in 1..n |-> DebtOn(q[i], leg)]
           e(i) == IF q[i].leg = leg THEN Sign(q[i].buy) * q[i].lots ELSE 0
           Is(f) == f = [i \in 0..n |-> IF i = 0 THEN 0 ELSE f[i - 1] + e(i)]
           sum == CHOOSE f : Is(f)
<1>1. n \in Nat /\ \A i \in 1..n : q[i] \in Debt
  BY LenProperties, ElementOfSeq
<1>2. \A i \in 1..n : v[i] = DebtOn(q[i], leg) /\ v[i] = e(i) /\ v[i] \in Int
  BY <1>1, DebtOnType DEF DebtOn
<1>3. OwedIn(q, leg) = sum[n]
  BY DEF OwedIn, SumOnLeg
<1> HIDE DEF v, e, n
<1>4. \E f \in [0..n -> Int] : f[0] = 0 /\ \A i \in 1..n : f[i] = f[i - 1] + v[i]
  BY <1>1, <1>2, SumExists
<1>5. PICK f \in [0..n -> Int] : f[0] = 0 /\ \A i \in 1..n : f[i] = f[i - 1] + v[i]
  BY <1>4
<1>6. Is(f)
  <2>1. ASSUME NEW i \in 0..n PROVE f[i] = IF i = 0 THEN 0 ELSE f[i - 1] + e(i)
    BY <1>5, <1>2
  <2> QED
    BY <2>1
<1>7. Is(sum)
  <2> HIDE DEF Is
  <2> QED
    BY <1>6
<1> HIDE DEF sum
<1>8. sum[0] = 0 /\ \A i \in 1..n : sum[i] = sum[i - 1] + e(i)
  BY <1>7, <1>1
<1>9. \A i \in 1..n : v[i] \in Int /\ sum[i] = sum[i - 1] + v[i]
  <2> HIDE DEF Is
  <2> QED
    BY <1>2, <1>8
<1>10. \A i \in 0..n : sum[i] \in Int
  <2> HIDE DEF Is
  <2> QED
    BY <1>1, <1>8, <1>9, SumType
<1> HIDE DEF Is
<1> QED
  BY <1>2, <1>3, <1>8, <1>9, <1>10 DEF n

(* One more debt adds its lots. *)
LEMMA NothingOwed == ASSUME NEW leg PROVE OwedIn(<<>>, leg) = 0
<1>1. <<>> \in Seq(Debt) /\ Len(<<>>) = 0
  OBVIOUS
<1>2. PICK f : f[0] = 0 /\ f[Len(<<>>)] = OwedIn(<<>>, leg)
  BY <1>1, OwedSums
<1> QED
  BY <1>1, <1>2

LEMMA OwedAppend ==
    ASSUME NEW q \in Seq(Debt), NEW d \in Debt, NEW leg
    PROVE  /\ OwedIn(Append(q, d), leg) = OwedIn(q, leg) + DebtOn(d, leg)
           /\ OwedIn(q, leg) \in Int
<1> DEFINE n == Len(q)
           r == Append(q, d)
<1>1. /\ n \in Nat /\ r \in Seq(Debt) /\ Len(r) = n + 1
      /\ \A i \in 1..n : r[i] = q[i]
      /\ r[n + 1] = d
  BY LenProperties, AppendProperties
<1> HIDE DEF r, n
<1>2. PICK f : /\ f[0] = 0
               /\ \A i \in 0..n : f[i] \in Int
               /\ \A i \in 1..n : f[i] = f[i - 1] + DebtOn(q[i], leg)
               /\ f[n] = OwedIn(q, leg)
  BY OwedSums DEF n
<1>3. PICK g : /\ g[0] = 0
               /\ \A i \in 1..(n + 1) : g[i] = g[i - 1] + DebtOn(r[i], leg)
               /\ g[n + 1] = OwedIn(r, leg)
  <2>1. \E g : /\ g[0] = 0
               /\ \A i \in 0..Len(r) : g[i] \in Int
               /\ \A i \in 1..Len(r) : g[i] = g[i - 1] + DebtOn(r[i], leg)
               /\ g[Len(r)] = OwedIn(r, leg)
    BY <1>1, OwedSums
  <2> QED
    BY <2>1, <1>1
<1> DEFINE v == [i \in 1..n |-> DebtOn(q[i], leg)]
<1>4. \A i \in 1..n : f[i] = f[i - 1] + v[i] /\ g[i] = g[i - 1] + v[i]
  BY <1>1, <1>2, <1>3
<1> HIDE DEF v
<1>5. f[n] = g[n]
  <2>1. n \in Nat /\ f[0] = g[0]
    BY <1>1, <1>2, <1>3
  <2> QED
    BY <2>1, <1>4, SumUnique
<1>6. g[n + 1] = g[n] + DebtOn(d, leg)
  BY <1>1, <1>3
<1> QED
  BY <1>1, <1>2, <1>3, <1>5, <1>6 DEF r

-----------------------------------------------------------------------------
LEMMA Constants ==
    /\ HedgeRatio \in Nat \ {0} /\ HedgeRetries \in Nat \ {0}
    /\ LotStep \in Nat /\ MinLots \in Nat \ {0} /\ MaxFaults \in Nat
    /\ TakerDeadLimit \in Nat \ {0} /\ DefaultMode \in Mode
    /\ HedgeRatio > 1 => DefaultMode \in {"solo", "taker"}
BY ModeAssumption, ConfigAssumption, DeadLimitAssumption DEF ModeAssumption, ConfigAssumption, DeadLimitAssumption

LEMMA OrderFields ==
    ASSUME NEW o \in OrderType
    PROVE  /\ o.leg \in Leg /\ o.buy \in BOOLEAN /\ o.size \in Nat /\ o.exec \in Nat
           /\ o.sent \in Nat /\ o.live \in BOOLEAN /\ o.told \in BOOLEAN
BY DEF OrderType

LEMMA AcctsType ==
    ASSUME NEW own0 \in Accts
    PROVE  /\ DOMAIN own0 \subseteq Nat
           /\ own0 = [id \in DOMAIN own0 |-> own0[id]]
           /\ \A id \in DOMAIN own0 : own0[id] \in Acct
BY DEF Accts

LEMMA AcctsIntro ==
    ASSUME NEW D \in SUBSET Nat, NEW own0, own0 = [id \in D |-> own0[id]],
           \A id \in D : own0[id] \in Acct
    PROVE  own0 \in Accts
<1>1. own0 \in [D -> Acct]
  OBVIOUS
<1> QED
  BY <1>1 DEF Accts

LEMMA StateType ==
    ASSUME NEW s \in State
    PROVE  /\ s.own \in Accts /\ DOMAIN s.own \subseteq Nat
           /\ \A id \in DOMAIN s.own : s.own[id] \in Acct
           /\ s.pending \subseteq Nat /\ s.clip \in Clip /\ s.sink \in [Leg -> Int]
           /\ s.book \in Int /\ s.rec \in Machine
           /\ s.orders \in Seq(OrderType) /\ Len(s.orders) \in Nat
           /\ \A id \in 1..Len(s.orders) : s.orders[id] \in OrderType
           /\ s.faults \in 0..MaxFaults /\ s.moves \in Nat
<1>1. s.own \in Accts /\ s.orders \in Seq(OrderType)
  BY DEF State
<1>2. DOMAIN s.own \subseteq Nat /\ \A id \in DOMAIN s.own : s.own[id] \in Acct
  BY <1>1, AcctsType
<1> QED
  BY <1>1, <1>2 DEF State

CreditOn(s, leg) == [i \in 1..Len(s.orders) |-> TermOn(s.orders[i], leg, s.own[i].credited)]

LEMMA StateCredits ==
    ASSUME NEW s \in State, Full(s), NEW leg
    PROVE  /\ \A i \in 1..Len(s.orders) : s.own[i].credited \in Int /\ CreditOn(s, leg)[i] \in Int
           /\ Sums(Len(s.orders), CreditOn(s, leg), Credits(s.own, s.orders, leg))
<1> DEFINE q == s.orders
           own0 == s.own
<1>1. Len(q) \in Nat /\ \A i \in 1..Len(q) : own0[i].credited \in Int
  BY StateType DEF Acct, Full
<1>2. CreditOn(s, leg) = [i \in 1..Len(q) |-> TermOn(q[i], leg, own0[i].credited)]
  BY DEF CreditOn
<1> HIDE DEF q, own0
<1>3. Sums(Len(q), CreditOn(s, leg), Credits(own0, q, leg))
  BY <1>1, <1>2, CreditSums
<1>4. \A i \in 1..Len(q) : CreditOn(s, leg)[i] \in Int
  BY <1>1, <1>2, TermOnType
<1> QED
  BY <1>1, <1>3, <1>4 DEF q, own0

(* The sink goes with the credits, when one account changes ... *)
LEMMA TallyAmended ==
    ASSUME NEW s \in State, NEW t \in State, NEW id \in DOMAIN s.own, Tallied(s),
           DOMAIN t.own = DOMAIN s.own, Len(t.orders) = Len(s.orders),
           \A j \in DOMAIN s.own : t.orders[j].leg = s.orders[j].leg /\ t.orders[j].buy = s.orders[j].buy,
           \A j \in DOMAIN s.own \ {id} : t.own[j].credited = s.own[j].credited,
           \A leg \in Leg : t.sink[leg] = s.sink[leg] + TermOn(s.orders[id], leg, t.own[id].credited - s.own[id].credited)
    PROVE  Tallied(t)
<1>0. OrdersNamed => Full(t)
  BY DEF Tallied, Full
<1> SUFFICES ASSUME Full(t), NEW leg \in Leg PROVE t.sink[leg] = Credits(t.own, t.orders, leg)
  BY <1>0 DEF Tallied
<1> DEFINE n == Len(s.orders)
           v == CreditOn(s, leg)
           w == CreditOn(t, leg)
           y == Credits(s.own, s.orders, leg)
           z == Credits(t.own, t.orders, leg)
           k == s.own[id].credited
           m == t.own[id].credited
           o == s.orders[id]
<1>1. n \in Nat /\ DOMAIN s.own = 1..n /\ Full(s) /\ id \in 1..n
  BY StateType DEF Full
<1>2. t.sink[leg] = y + TermOn(o, leg, m - k)
  BY <1>1 DEF Tallied
<1>3. /\ Sums(n, v, y) /\ Sums(n, w, z)
      /\ \A i \in 1..n : v[i] \in Int
      /\ k \in Int /\ m \in Int
  BY <1>1, StateCredits
<1>4. \A i \in 1..n : i # id => w[i] = v[i]
  BY <1>1 DEF TermOn, CreditOn
<1>5. v[id] = TermOn(o, leg, k) /\ w[id] = TermOn(o, leg, m)
  BY <1>1 DEF TermOn, CreditOn
<1> HIDE DEF n, v, w, y, z, k, m, o
<1> DEFINE d == TermOn(o, leg, m - k)
<1>6. w[id] = v[id] + d /\ d \in Int
  <2>1. m - k \in Int
    BY <1>3
  <2>2. TermOn(o, leg, m) = TermOn(o, leg, k) + TermOn(o, leg, m - k)
    BY <1>3, TermOnSum
  <2>3. TermOn(o, leg, m - k) \in Int
    BY <2>1, TermOnType
  <2> QED
    BY <2>2, <2>3, <1>5
<1> HIDE DEF d
<1>7. z = y + d
  <2>1. Differ(n, v, w, id, d)
    BY <1>1, <1>3, <1>4, <1>6 DEF Differ
  <2> QED
    BY <1>1, <1>3, <2>1, SumsChange
<1> QED
  BY <1>2, <1>7 DEF z, d

LEMMA OneMore ==
    ASSUME NEW n \in Nat, NEW D, D \subseteq 1..n, D \cup {n + 1} = 1..(n + 1)
    PROVE  D = 1..n
<1>1. ASSUME NEW i \in 1..n PROVE i \in D
  BY i \in 1..(n + 1), i # n + 1
<1> QED
  BY <1>1

(* ... and when one is opened; an order with no account leaves a gap that  *)
(* is never closed.                                                        *)
LEMMA TallyTracked ==
    ASSUME NEW s \in State, NEW t \in State, Tallied(s), DOMAIN s.own \subseteq 1..Len(s.orders),
           Len(t.orders) = Len(s.orders) + 1,
           DOMAIN t.own = DOMAIN s.own \cup {Len(s.orders) + 1},
           \A j \in DOMAIN s.own : t.orders[j].leg = s.orders[j].leg /\ t.orders[j].buy = s.orders[j].buy,
           \A j \in DOMAIN s.own : t.own[j].credited = s.own[j].credited,
           \A leg \in Leg : t.sink[leg] = s.sink[leg]
               + TermOn(t.orders[Len(s.orders) + 1], leg, t.own[Len(s.orders) + 1].credited)
    PROVE  Tallied(t)
<1>0. OrdersNamed => Full(t)
  <2> SUFFICES ASSUME DOMAIN s.own = 1..Len(s.orders)
               PROVE  DOMAIN t.own = 1..Len(t.orders)
    BY DEF Tallied, Full
  <2>1. Len(s.orders) \in Nat
    BY StateType
  <2> QED
    BY <2>1
<1> SUFFICES ASSUME Full(t), NEW leg \in Leg PROVE t.sink[leg] = Credits(t.own, t.orders, leg)
  BY <1>0 DEF Tallied
<1> DEFINE n == Len(s.orders)
           v == CreditOn(s, leg)
           w == CreditOn(t, leg)
           y == Credits(s.own, s.orders, leg)
           z == Credits(t.own, t.orders, leg)
<1>1. n \in Nat /\ DOMAIN s.own = 1..n /\ Full(s)
  <2>1. n \in Nat /\ DOMAIN t.own = 1..(n + 1)
    BY StateType DEF Full
  <2> DEFINE D == DOMAIN s.own
  <2>2. D \subseteq 1..n /\ D \cup {n + 1} = 1..(n + 1)
    BY <2>1
  <2> HIDE DEF D, n
  <2>3. D = 1..n
    BY <2>1, <2>2, OneMore
  <2> QED
    BY <2>1, <2>3 DEF D, n, Full
<1>2. Len(t.orders) = n + 1
  OBVIOUS
<1>3. t.sink[leg] = y + w[n + 1]
  <2>1. n + 1 \in 1..(n + 1)
    BY <1>1
  <2>2. w[n + 1] = TermOn(t.orders[n + 1], leg, t.own[n + 1].credited)
    BY <1>2, <2>1 DEF CreditOn
  <2>3. s.sink[leg] = y
    BY <1>1 DEF Tallied
  <2> QED
    BY <2>2, <2>3
<1>4. \A i \in 1..n : w[i] = v[i]
  BY <1>1 DEF TermOn, CreditOn
<1>5. Sums(n, v, y)
  BY <1>1, StateCredits
<1>6. Sums(n + 1, w, z)
  BY <1>2, StateCredits
<1> HIDE DEF n, v, w, y, z
<1>7. z = y + w[n + 1]
  BY <1>1, <1>4, <1>5, <1>6, SumsGrow
<1> QED
  BY <1>3, <1>7 DEF z

(* What SetAcct does to each field. *)
LEMMA SetAcctFields ==
    ASSUME NEW s \in State, NEW id \in DOMAIN s.own, NEW a \in Acct
    PROVE  LET t == SetAcct(s, id, a)
           IN  /\ t \in State
               /\ DOMAIN t.own = DOMAIN s.own /\ t.own[id] = a
               /\ \A j \in DOMAIN s.own : j # id => t.own[j] = s.own[j]
               /\ \A leg \in Leg : t.sink[leg] = s.sink[leg] + IF leg = a.leg THEN Sign(a.buy) * (a.credited - s.own[id].credited) ELSE 0
               /\ t.pending = s.pending /\ t.clip = s.clip /\ t.book = s.book /\ t.rec = s.rec
               /\ t.orders = s.orders /\ t.faults = s.faults /\ t.moves = s.moves
<1> DEFINE k == Sign(a.buy) * (a.credited - s.own[id].credited)
           t == [s EXCEPT !.own[id] = a, !.sink[a.leg] = @ + k]
<1>1. SetAcct(s, id, a) = t
  BY DEF SetAcct
<1>2. s.own[id] \in Acct /\ s.own \in Accts /\ s.sink \in [Leg -> Int]
  BY StateType
<1>3. a.leg \in Leg /\ k \in Int
  <2>1. Sign(a.buy) \in Int
    BY DEF Sign
  <2>2. a.leg \in Leg /\ a.credited \in Nat /\ s.own[id].credited \in Nat
    BY <1>2 DEF Acct
  <2> QED
    BY <2>1, <2>2
<1> HIDE DEF k
<1>4. /\ t.own = [s.own EXCEPT ![id] = a]
      /\ t.pending = s.pending /\ t.clip = s.clip /\ t.book = s.book /\ t.rec = s.rec
      /\ t.orders = s.orders /\ t.faults = s.faults /\ t.moves = s.moves
  BY DEF State
<1>5. t.sink = [s.sink EXCEPT ![a.leg] = @ + k]
  BY DEF State
<1> HIDE DEF t
<1>7. t.sink \in [Leg -> Int]
  BY <1>5, <1>2, <1>3
<1>8. \A leg \in Leg : t.sink[leg] = s.sink[leg] + IF leg = a.leg THEN k ELSE 0
  BY <1>5, <1>2, <1>3
<1>9. t.own \in Accts
  <2>1. t.own = [j \in DOMAIN s.own |-> t.own[j]]
    BY <1>4
  <2>2. \A j \in DOMAIN s.own : t.own[j] \in Acct
    BY <1>4, AcctsType, <1>2
  <2> QED
    BY <2>1, <2>2, AcctsIntro, StateType
<1>10. t \in State
  <2> DEFINE x == [s.own EXCEPT ![id] = a]
             y == [s.sink EXCEPT ![a.leg] = @ + k]
  <2>1. x \in Accts /\ y \in [Leg -> Int]
    BY <1>4, <1>5, <1>7, <1>9
  <2>2. t = [s EXCEPT !.own = x, !.sink = y]
    BY DEF t
  <2> HIDE DEF x, y
  <2> QED
    BY <2>1, <2>2 DEF State
<1> QED
  BY <1>1, <1>4, <1>10, <1>8 DEF k

LEMMA MachineType ==
    ASSUME NEW m \in Machine
    PROVE  /\ m.halted \in BOOLEAN /\ m.suspect \in BOOLEAN /\ m.unverified \in BOOLEAN
           /\ m.impaired \in BOOLEAN /\ m.streak \in 0..TakerDeadLimit
           /\ m.retireQ \in Seq(Nat) /\ m.debts \in Seq(Debt)
BY DEF Machine

(* The streak counters touch nothing but the streak. *)
LEMMA StreakFields ==
    ASSUME NEW m \in Machine, NEW r \in {ResetDeadStreak(m), IncrementDeadStreak(m)}
    PROVE  /\ r \in Machine /\ r.halted = m.halted /\ r.impaired = m.impaired
           /\ r.retireQ = m.retireQ /\ r.debts = m.debts
<1>1. TakerDeadLimit \in Nat /\ m.streak \in 0..TakerDeadLimit
  BY Constants, MachineType
<1>2. CASE r = ResetDeadStreak(m)
  BY <1>1, <1>2 DEF Machine, ResetDeadStreak
<1>3. CASE r = IncrementDeadStreak(m)
  <2> DEFINE n == IF m.streak < TakerDeadLimit THEN m.streak + 1 ELSE m.streak
  <2>1. n \in 0..TakerDeadLimit
    BY <1>1
  <2>2. r = [m EXCEPT !.streak = n]
    BY <1>3 DEF IncrementDeadStreak
  <2> HIDE DEF n
  <2> QED
    BY <2>1, <2>2 DEF Machine
<1> QED
  BY <1>2, <1>3

(* The marks touch nothing but the marks. *)
LEMMA MarkFields ==
    ASSUME NEW m \in Machine, NEW r \in {MarkUnverified(m), MarkSuspect(m), CleanPass(m)}
    PROVE  /\ r \in Machine /\ r.halted = m.halted /\ r.impaired = m.impaired
           /\ r.retireQ = m.retireQ /\ r.debts = m.debts
BY DEF Machine, MarkUnverified, MarkSuspect, CleanPass

LEMMA QueueRetireFields ==
    ASSUME NEW m \in Machine, NEW id \in Nat
    PROVE  LET r == QueueRetire(m, id)
           IN  /\ r \in Machine /\ r.halted = m.halted /\ r.debts = m.debts
               /\ r.retireQ = Append(m.retireQ, id) /\ (r.impaired \/ r.halted)
<1>1. Append(m.retireQ, id) \in Seq(Nat) /\ m.halted \in BOOLEAN /\ m.impaired \in BOOLEAN
  BY MachineType, AppendProperties
<1> DEFINE q == Append(m.retireQ, id)
           b == m.impaired \/ ~m.halted
<1>2. QueueRetire(m, id) = [m EXCEPT !.retireQ = q, !.impaired = b]
  BY DEF QueueRetire, EnterImpaired, Machine
<1>3. q \in Seq(Nat) /\ b \in BOOLEAN
  BY <1>1
<1> HIDE DEF q, b
<1> QED
  BY <1>2, <1>3, <1>1 DEF Machine, q, b

LEMMA DeferHedgeFields ==
    ASSUME NEW m \in Machine, NEW leg \in Leg, NEW buy \in BOOLEAN, NEW lots \in Nat \ {0}
    PROVE  LET r == DeferHedge(m, leg, buy, lots)
           IN  /\ r \in Machine /\ r.halted = m.halted /\ r.retireQ = m.retireQ
               /\ r.debts = Append(m.debts, [leg |-> leg, buy |-> buy, lots |-> lots])
               /\ [leg |-> leg, buy |-> buy, lots |-> lots] \in Debt
               /\ (r.impaired \/ r.halted)
<1> DEFINE d == [leg |-> leg, buy |-> buy, lots |-> lots]
           q == Append(m.debts, d)
           b == m.impaired \/ ~m.halted
<1>1. d \in Debt
  BY DEF Debt
<1>2. q \in Seq(Debt) /\ b \in BOOLEAN
  BY <1>1, MachineType, AppendProperties
<1>3. DeferHedge(m, leg, buy, lots) = [m EXCEPT !.debts = q, !.impaired = b]
  BY DEF DeferHedge, EnterImpaired, Machine
<1> HIDE DEF q, b, d
<1>4. /\ [m EXCEPT !.debts = q, !.impaired = b] \in Machine
      /\ [m EXCEPT !.debts = q, !.impaired = b].halted = m.halted
      /\ [m EXCEPT !.debts = q, !.impaired = b].retireQ = m.retireQ
      /\ [m EXCEPT !.debts = q, !.impaired = b].debts = q
      /\ [m EXCEPT !.debts = q, !.impaired = b].impaired = b
  BY <1>2 DEF Machine
<1> QED
  BY <1>1, <1>3, <1>4 DEF q, b, d

-----------------------------------------------------------------------------
(* Orders and accounts are only added, with nothing told of them yet; what *)
(* an account stands for, the kill-switch and, once it is tripped, the     *)
(* number of orders never change, and the broker tells of no fill.         *)
Evolve(s, t) ==
    /\ t.rec.halted = s.rec.halted
    /\ Len(s.orders) =< Len(t.orders)
    /\ s.rec.halted => Len(t.orders) = Len(s.orders)
    /\ t.moves =< s.moves
    /\ DOMAIN s.own \subseteq DOMAIN t.own
    /\ \A id \in DOMAIN s.own :
          /\ t.own[id].maker = s.own[id].maker /\ t.own[id].leg = s.own[id].leg
          /\ t.own[id].buy = s.own[id].buy /\ t.own[id].placed = s.own[id].placed
          /\ s.own[id].folded =< t.own[id].folded /\ s.own[id].seen =< t.own[id].seen
          /\ t.orders[id].sent = s.orders[id].sent
    /\ \A id \in DOMAIN t.own \ DOMAIN s.own : t.orders[id].sent = 0

(* The clip is as it was, and no maker has come to rest. *)
Calm(s, t) ==
    /\ Good(t) /\ Evolve(s, t)
    /\ t.clip = s.clip
    /\ Working(t) \subseteq Working(s)

(* ... and only the accounts in K are not as they were. *)
Aside(s, t, K) ==
    /\ Calm(s, t)
    /\ t.rec.retireQ = s.rec.retireQ
    /\ Deferred(t) \subseteq Deferred(s)
    /\ \A id \in DOMAIN s.own \ K :
          t.own[id] = s.own[id] /\ t.orders[id] = s.orders[id]

LEMMA GoodType ==
    ASSUME NEW s, Good(s)
    PROVE  /\ s \in State
           /\ s.own \in Accts /\ DOMAIN s.own \subseteq 1..Len(s.orders)
           /\ DOMAIN s.own \subseteq Nat /\ 0 \notin DOMAIN s.own
           /\ \A id \in DOMAIN s.own :
                 /\ s.own[id] \in Acct /\ s.orders[id] \in OrderType
                 /\ OrderOK(s.orders[id]) /\ AcctOK(s.own[id], s.orders[id])
           /\ s.clip \in Clip /\ s.sink \in [Leg -> Int] /\ s.rec \in Machine
           /\ s.orders \in Seq(OrderType) /\ Len(s.orders) \in Nat
           /\ s.faults \in 0..MaxFaults /\ s.moves \in Nat
<1>1. s \in State /\ DOMAIN s.own \subseteq 1..Len(s.orders)
  BY DEF Good
<1>2. \A id \in 1..Len(s.orders) : OrderOK(s.orders[id])
  BY DEF Good
<1>3. \A id \in DOMAIN s.own : AcctOK(s.own[id], s.orders[id])
  BY DEF Good
<1> QED
  BY <1>1, <1>2, <1>3, StateType

LEMMA EvolveRefl == ASSUME NEW s, Good(s) PROVE Evolve(s, s)
<1>1. /\ Len(s.orders) \in Nat /\ s.moves \in Nat
      /\ \A id \in DOMAIN s.own : s.own[id].folded \in Nat /\ s.own[id].seen \in Nat
  BY GoodType DEF Acct
<1> QED
  BY <1>1 DEF Evolve

LEMMA EvolveTrans ==
    ASSUME NEW s, NEW t, NEW u, Good(s), Good(t), Good(u), Evolve(s, t), Evolve(t, u)
    PROVE  Evolve(s, u)
<1>1. /\ Len(s.orders) \in Nat /\ s.moves \in Nat
      /\ Len(t.orders) \in Nat /\ t.moves \in Nat
      /\ Len(u.orders) \in Nat /\ u.moves \in Nat
  BY GoodType
<1>2. \A id \in DOMAIN s.own : s.own[id].folded \in Nat /\ s.own[id].seen \in Nat
  BY GoodType DEF Acct
<1>3. \A id \in DOMAIN t.own : t.own[id].folded \in Nat /\ t.own[id].seen \in Nat
  BY GoodType DEF Acct
<1>4. \A id \in DOMAIN u.own : u.own[id].folded \in Nat /\ u.own[id].seen \in Nat
  BY GoodType DEF Acct
<1>5. DOMAIN s.own \subseteq DOMAIN t.own /\ DOMAIN t.own \subseteq DOMAIN u.own
  BY DEF Evolve
<1>6. ASSUME NEW id \in DOMAIN s.own
      PROVE  /\ u.own[id].maker = s.own[id].maker /\ u.own[id].leg = s.own[id].leg
             /\ u.own[id].buy = s.own[id].buy /\ u.own[id].placed = s.own[id].placed
             /\ s.own[id].folded =< u.own[id].folded /\ s.own[id].seen =< u.own[id].seen
             /\ u.orders[id].sent = s.orders[id].sent
  <2>1. id \in DOMAIN t.own /\ id \in DOMAIN u.own
    BY <1>5
  <2>2. /\ t.own[id].maker = s.own[id].maker /\ t.own[id].leg = s.own[id].leg
        /\ t.own[id].buy = s.own[id].buy /\ t.own[id].placed = s.own[id].placed
        /\ s.own[id].folded =< t.own[id].folded /\ s.own[id].seen =< t.own[id].seen
        /\ t.orders[id].sent = s.orders[id].sent
    BY DEF Evolve
  <2>3. /\ u.own[id].maker = t.own[id].maker /\ u.own[id].leg = t.own[id].leg
        /\ u.own[id].buy = t.own[id].buy /\ u.own[id].placed = t.own[id].placed
        /\ t.own[id].folded =< u.own[id].folded /\ t.own[id].seen =< u.own[id].seen
        /\ u.orders[id].sent = t.orders[id].sent
    BY <2>1 DEF Evolve
  <2> QED
    BY <2>1, <2>2, <2>3, <1>2, <1>3, <1>4
<1>7. ASSUME NEW id \in DOMAIN u.own \ DOMAIN s.own PROVE u.orders[id].sent = 0
  <2>1. CASE id \in DOMAIN t.own
    BY <2>1 DEF Evolve
  <2>2. CASE id \notin DOMAIN t.own
    BY <2>2 DEF Evolve
  <2> QED
    BY <2>1, <2>2
<1>8. /\ u.rec.halted = s.rec.halted /\ Len(s.orders) =< Len(u.orders)
      /\ s.rec.halted => Len(u.orders) = Len(s.orders)
      /\ u.moves =< s.moves /\ DOMAIN s.own \subseteq DOMAIN u.own
  BY <1>1, <1>5 DEF Evolve
<1> QED
  BY <1>6, <1>7, <1>8 DEF Evolve

LEMMA CalmRefl == ASSUME NEW s, Good(s) PROVE Calm(s, s)
BY EvolveRefl DEF Calm

LEMMA CalmTrans ==
    ASSUME NEW s, NEW t, NEW u, Good(s), Calm(s, t), Calm(t, u)
    PROVE  Calm(s, u)
<1>1. Evolve(s, u)
  BY EvolveTrans DEF Calm
<1> QED
  BY <1>1 DEF Calm

LEMMA AsideRefl == ASSUME NEW s, NEW K, Good(s) PROVE Aside(s, s, K)
BY CalmRefl DEF Aside

LEMMA AsideTrans ==
    ASSUME NEW s, NEW t, NEW u, NEW K, NEW J, Good(s), Aside(s, t, K), Aside(t, u, J), J \subseteq K
    PROVE  Aside(s, u, K)
<1>1. Calm(s, u)
  BY CalmTrans DEF Aside
<1>2. DOMAIN s.own \subseteq DOMAIN t.own
  BY DEF Aside, Calm, Evolve
<1> QED
  BY <1>1, <1>2 DEF Aside

LEMMA AsideWider ==
    ASSUME NEW s, NEW t, NEW K, NEW J, Aside(s, t, J), J \subseteq K
    PROVE  Aside(s, t, K)
BY DEF Aside

LEMMA AsideCalm ==
    ASSUME NEW s, NEW t, NEW K, Aside(s, t, K)
    PROVE  Calm(s, t) /\ Good(t) /\ Evolve(s, t)
BY DEF Aside, Calm

(* One account and its order are amended. *)
Amended(s, t, id) ==
    /\ DOMAIN t.own = DOMAIN s.own /\ Len(t.orders) = Len(s.orders)
    /\ \A j \in DOMAIN s.own \ {id} : t.own[j] = s.own[j]
    /\ \A j \in 1..Len(s.orders) : j # id => t.orders[j] = s.orders[j]
    /\ OrderOK(t.orders[id]) /\ AcctOK(t.own[id], t.orders[id])
    /\ t.own[id].maker = s.own[id].maker /\ t.own[id].leg = s.own[id].leg
    /\ t.own[id].buy = s.own[id].buy /\ t.own[id].placed = s.own[id].placed
    /\ s.own[id].folded =< t.own[id].folded /\ s.own[id].seen =< t.own[id].seen
    /\ t.orders[id].sent = s.orders[id].sent
    /\ \A leg \in Leg : t.sink[leg] = s.sink[leg]
          + IF leg = s.own[id].leg
            THEN Sign(s.own[id].buy) * (t.own[id].credited - s.own[id].credited) ELSE 0
    /\ s.own[id].final >= 0 => t.own[id].final >= 0
    /\ t.rec.halted = s.rec.halted /\ t.clip = s.clip /\ t.moves =< s.moves
    /\ t.pending = IF ~s.own[id].maker /\ t.own[id].final >= 0 THEN s.pending \ {id} ELSE s.pending

LEMMA AmendedAside ==
    ASSUME NEW s, NEW t, NEW id, Good(s), t \in State, id \in DOMAIN s.own, Amended(s, t, id),
           t.own[id].final < 0 => t.own[id].deferred = s.own[id].deferred,
           t.rec.retireQ = s.rec.retireQ, t.rec.debts = s.rec.debts, t.rec.impaired = s.rec.impaired
    PROVE  Aside(s, t, {id}) /\ (t.own[id].final >= 0 => id \notin Working(t))
<1>1. /\ \A j \in DOMAIN s.own : s.own[j] \in Acct
      /\ \A j \in DOMAIN t.own : t.own[j] \in Acct
      /\ Len(s.orders) \in Nat /\ Len(t.orders) \in Nat
      /\ DOMAIN s.own \subseteq 1..Len(s.orders) /\ s.moves \in Nat /\ t.moves \in Nat
  BY GoodType, StateType
<1>2. /\ \A j \in DOMAIN t.own : t.own[j].final \in Int /\ t.own[j].folded \in Nat /\ t.own[j].seen \in Nat /\ t.own[j].deferred \in BOOLEAN /\ t.own[j].maker \in BOOLEAN
      /\ \A j \in DOMAIN s.own : s.own[j].final \in Int /\ s.own[j].folded \in Nat /\ s.own[j].seen \in Nat /\ s.own[j].deferred \in BOOLEAN /\ s.own[j].maker \in BOOLEAN
  BY <1>1 DEF Acct
<1>3. t.own[id].deferred => s.own[id].deferred
  BY <1>2 DEF Amended, AcctOK
<1>8. ASSUME NEW j \in DOMAIN s.own
      PROVE  /\ t.own[j].maker = s.own[j].maker /\ t.own[j].leg = s.own[j].leg
             /\ t.own[j].buy = s.own[j].buy /\ t.own[j].placed = s.own[j].placed
             /\ s.own[j].folded =< t.own[j].folded /\ s.own[j].seen =< t.own[j].seen
             /\ t.orders[j].sent = s.orders[j].sent
  <2>1. CASE j = id
    BY <2>1 DEF Amended
  <2>2. CASE j # id
    <3>1. t.own[j] = s.own[j] /\ t.orders[j] = s.orders[j]
      BY <1>1, <2>2 DEF Amended
    <3> QED
      BY <3>1, <1>2
  <2> QED
    BY <2>1, <2>2
<1>4. Evolve(s, t)
  <2>1. /\ t.rec.halted = s.rec.halted /\ DOMAIN t.own = DOMAIN s.own
        /\ Len(t.orders) = Len(s.orders) /\ t.moves =< s.moves
    BY DEF Amended
  <2> QED
    BY <1>1, <1>8, <2>1 DEF Evolve
<1>9. /\ DOMAIN t.own = DOMAIN s.own /\ \A j \in DOMAIN s.own \ {id} : t.own[j] = s.own[j]
      /\ t.own[id].maker = s.own[id].maker
      /\ s.own[id].final >= 0 => t.own[id].final >= 0
  BY DEF Amended
<1>5. Working(t) \subseteq Working(s) /\ (t.own[id].final >= 0 => id \notin Working(t))
  BY <1>2, <1>3, <1>9 DEF Working
<1>6. Deferred(t) \subseteq Deferred(s)
  BY <1>2, <1>3, <1>9 DEF Deferred
<1>7. Good(t)
  <2>1. DOMAIN t.own \subseteq 1..Len(t.orders)
    BY <1>1 DEF Amended
  <2>2. \A j \in 1..Len(t.orders) : OrderOK(t.orders[j])
    BY DEF Amended, Good
  <2>3. \A j \in DOMAIN t.own : AcctOK(t.own[j], t.orders[j])
    BY <1>1 DEF Amended, Good
  <2>4. t.pending = {j \in DOMAIN t.own : ~t.own[j].maker /\ t.own[j].final < 0}
    <3>1. s.pending = {j \in DOMAIN s.own : ~s.own[j].maker /\ s.own[j].final < 0}
      BY DEF Good
    <3>2. ASSUME NEW j
          PROVE  j \in t.pending <=> j \in DOMAIN t.own /\ ~t.own[j].maker /\ t.own[j].final < 0
      <4>1. CASE j = id
        BY <4>1, <3>1, <1>2 DEF Amended
      <4>2. CASE j # id
        BY <4>2, <3>1, <1>2 DEF Amended
      <4> QED
        BY <4>1, <4>2
    <3> QED
      BY <3>2
  <2>5. \A i \in 1..Len(t.rec.retireQ) :
           t.rec.retireQ[i] \in DOMAIN t.own /\ t.own[t.rec.retireQ[i]].maker
    <3>1. \A i \in 1..Len(s.rec.retireQ) :
             s.rec.retireQ[i] \in DOMAIN s.own /\ s.own[s.rec.retireQ[i]].maker
      BY DEF Good
    <3> QED
      BY <3>1, <1>8 DEF Amended
  <2>6. \A j \in Deferred(t) : \E i \in 1..Len(t.rec.retireQ) : t.rec.retireQ[i] = j
    BY <1>6 DEF Good
  <2>7. t.rec.retireQ # <<>> \/ t.rec.debts # <<>> => t.rec.impaired \/ t.rec.halted
    BY DEF Amended, Good
  <2>8. Tallied(t)
    <3>1. /\ DOMAIN t.own = DOMAIN s.own /\ Len(t.orders) = Len(s.orders)
          /\ \A j \in DOMAIN s.own \ {id} : t.own[j] = s.own[j] /\ t.orders[j] = s.orders[j]
      BY <1>1 DEF Amended
    <3>2. /\ s.own[id].leg = s.orders[id].leg /\ s.own[id].buy = s.orders[id].buy
          /\ t.own[id].leg = t.orders[id].leg /\ t.own[id].buy = t.orders[id].buy
          /\ t.own[id].leg = s.own[id].leg /\ t.own[id].buy = s.own[id].buy
      <4>1. AcctOK(s.own[id], s.orders[id]) /\ AcctOK(t.own[id], t.orders[id])
        BY <2>3, <3>1, GoodType
      <4>2. t.own[id].leg = s.own[id].leg /\ t.own[id].buy = s.own[id].buy
        BY DEF Amended
      <4> QED
        BY <4>1, <4>2 DEF AcctOK
    <3>3. \A leg \in Leg : t.sink[leg] = s.sink[leg] + TermOn(s.orders[id], leg, t.own[id].credited - s.own[id].credited)
      BY <3>2 DEF Amended, TermOn
    <3>4. \A j \in DOMAIN s.own : t.orders[j].leg = s.orders[j].leg /\ t.orders[j].buy = s.orders[j].buy
      BY <3>1, <3>2
    <3>5. s \in State /\ Tallied(s)
      BY DEF Good
    <3> QED
      BY <3>1, <3>3, <3>4, <3>5, TallyAmended
  <2> QED
    BY <2>1, <2>2, <2>3, <2>4, <2>5, <2>6, <2>7, <2>8 DEF Good
<1> QED
  BY <1>1, <1>4, <1>5, <1>6, <1>7 DEF Aside, Calm, Amended

-----------------------------------------------------------------------------
(* What a count of lots weighs in the balance of the pair. *)
Worth(leg, buy, lots) == Sign(buy) * (IF leg = "A" THEN HedgeRatio * lots ELSE lots)

Net(s) ==
    HedgeRatio * (s.sink["A"] + OwedIn(s.rec.debts, "A"))
        + s.sink["B"] + OwedIn(s.rec.debts, "B")

LEMMA WorthType ==
    ASSUME NEW leg, NEW buy, NEW n \in Int PROVE Worth(leg, buy, n) \in Int
BY Constants DEF Worth, Sign

LEMMA WorthZero == ASSUME NEW leg, NEW buy PROVE Worth(leg, buy, 0) = 0
BY Constants DEF Worth, Sign

LEMMA WorthAdd ==
    ASSUME NEW leg, NEW buy, NEW m \in Int, NEW n \in Int, NEW k \in Int, k =< m + n, m + n =< k
    PROVE  /\ Worth(leg, buy, k) = Worth(leg, buy, m) + Worth(leg, buy, n)
           /\ Worth(leg, buy, k) \in Int /\ Worth(leg, buy, m) \in Int /\ Worth(leg, buy, n) \in Int
BY Constants DEF Worth, Sign

LEMMA HedgeLotsType ==
    ASSUME NEW leg, NEW n \in Nat
    PROVE  /\ HedgeLots(leg, n) \in Nat /\ (n = 0 => HedgeLots(leg, n) = 0)
           /\ (n > 0 => HedgeLots(leg, n) > 0)
<1>1. HedgeRatio \in Nat /\ HedgeRatio >= 1
  BY Constants
<1>2. n * HedgeRatio \in Nat /\ (n = 0 => n * HedgeRatio = 0) /\ (n > 0 => n * HedgeRatio > 0)
  BY <1>1
<1> QED
  BY <1>2 DEF HedgeLots

(* The two legs of a hedge cancel out. *)
LEMMA WorthHedge ==
    ASSUME NEW dir \in {-1, 1}, NEW leg \in Leg, NEW n \in Int
    PROVE  /\ Worth("B", LegBuys(dir, "B"), HedgeLots("B", n)) = -Worth("A", LegBuys(dir, "A"), n)
           /\ Worth("A", LegBuys(dir, "A"), HedgeLots("A", n)) = Worth("A", LegBuys(dir, "A"), n)
           /\ HedgeRatio = 1 => Worth("B", LegBuys(dir, "B"), n) = -Worth("A", LegBuys(dir, "A"), n)
<1>1. HedgeRatio \in Int
  BY Constants
<1>2. n * HedgeRatio = HedgeRatio * n /\ n * HedgeRatio \in Int
  BY <1>1
<1>3. HedgeRatio = 1 => HedgeRatio * n = n
  BY <1>1
<1> QED
  BY <1>1, <1>2, <1>3 DEF Worth, Sign, LegBuys, HedgeLots

LEMMA NetType == ASSUME NEW s \in State PROVE Net(s) \in Int
<1>1. s.sink \in [Leg -> Int] /\ s.rec.debts \in Seq(Debt)
  BY StateType, MachineType
<1>2. OwedIn(s.rec.debts, "A") \in Int /\ OwedIn(s.rec.debts, "B") \in Int
  BY <1>1, OwedSums, LenProperties
<1>3. s.sink["A"] \in Int /\ s.sink["B"] \in Int
  BY <1>1 DEF Leg
<1> QED
  BY <1>2, <1>3, Constants DEF Net

LEMMA NetSame ==
    ASSUME NEW s, NEW t, t.sink = s.sink, t.rec.debts = s.rec.debts
    PROVE  Net(t) = Net(s)
BY DEF Net

(* Lots credited to a leg. *)
LEMMA NetCredit ==
    ASSUME NEW s \in State, NEW t \in State, NEW leg \in Leg, NEW buy \in BOOLEAN, NEW n \in Int,
           t.rec.debts = s.rec.debts,
           \A l \in Leg : t.sink[l] = s.sink[l] + IF l = leg THEN Sign(buy) * n ELSE 0
    PROVE  Net(t) = Net(s) + Worth(leg, buy, n)
<1>1. s.sink \in [Leg -> Int] /\ s.rec.debts \in Seq(Debt)
  BY StateType, MachineType
<1>2. OwedIn(s.rec.debts, "A") \in Int /\ OwedIn(s.rec.debts, "B") \in Int
  BY <1>1, OwedSums, LenProperties
<1>3. s.sink["A"] \in Int /\ s.sink["B"] \in Int /\ Sign(buy) \in {1, -1}
  BY <1>1 DEF Leg, Sign
<1>4. CASE leg = "A"
  <2>1. t.sink["A"] = s.sink["A"] + Sign(buy) * n /\ t.sink["B"] = s.sink["B"]
    BY <1>3, <1>4 DEF Leg
  <2>2. Worth(leg, buy, n) = Sign(buy) * (HedgeRatio * n)
    BY <1>4 DEF Worth
  <2> QED
    BY <1>2, <1>3, <2>1, <2>2, Constants DEF Net
<1>5. CASE leg = "B"
  <2>1. t.sink["B"] = s.sink["B"] + Sign(buy) * n /\ t.sink["A"] = s.sink["A"]
    BY <1>3, <1>5 DEF Leg
  <2>2. Worth(leg, buy, n) = Sign(buy) * n
    BY <1>5 DEF Worth
  <2> QED
    BY <1>2, <1>3, <2>1, <2>2, Constants DEF Net
<1> QED
  BY <1>4, <1>5 DEF Leg

(* Lots owed to a leg weigh as much as lots credited to it. *)
LEMMA NetOwe ==
    ASSUME NEW s \in State, NEW t, NEW d \in Debt, t.sink = s.sink,
           t.rec.debts = Append(s.rec.debts, d)
    PROVE  Net(t) = Net(s) + Worth(d.leg, d.buy, d.lots)
<1>1. s.sink \in [Leg -> Int] /\ s.rec.debts \in Seq(Debt)
  BY StateType, MachineType
<1>2. /\ OwedIn(s.rec.debts, "A") \in Int /\ OwedIn(s.rec.debts, "B") \in Int
      /\ OwedIn(t.rec.debts, "A") = OwedIn(s.rec.debts, "A") + DebtOn(d, "A")
      /\ OwedIn(t.rec.debts, "B") = OwedIn(s.rec.debts, "B") + DebtOn(d, "B")
  BY <1>1, OwedAppend
<1>3. s.sink["A"] \in Int /\ s.sink["B"] \in Int
  BY <1>1 DEF Leg
<1>4. d.leg \in Leg /\ d.lots \in Int /\ Sign(d.buy) \in {1, -1}
  BY DEF Debt, Sign
<1>5. HedgeRatio * DebtOn(d, "A") + DebtOn(d, "B") = Worth(d.leg, d.buy, d.lots)
  <2>1. CASE d.leg = "A"
    <3>1. DebtOn(d, "A") = Sign(d.buy) * d.lots /\ DebtOn(d, "B") = 0
      BY <2>1 DEF DebtOn
    <3>2. Worth(d.leg, d.buy, d.lots) = Sign(d.buy) * (HedgeRatio * d.lots)
      BY <2>1 DEF Worth
    <3> QED
      BY <3>1, <3>2, <1>4, Constants
  <2>2. CASE d.leg = "B"
    <3>1. DebtOn(d, "B") = Sign(d.buy) * d.lots /\ DebtOn(d, "A") = 0
      BY <2>2 DEF DebtOn
    <3>2. Worth(d.leg, d.buy, d.lots) = Sign(d.buy) * d.lots
      BY <2>2 DEF Worth
    <3> QED
      BY <3>1, <3>2, <1>4, Constants
  <2> QED
    BY <2>1, <2>2, <1>4 DEF Leg
<1>6. DebtOn(d, "A") \in Int /\ DebtOn(d, "B") \in Int
  BY DebtOnType
<1> QED
  BY <1>2, <1>3, <1>5, <1>6, Constants, SMTT(30) DEF Net

-----------------------------------------------------------------------------
(* Updates that leave the engine's orders alone. *)

LEMMA UnmovedAside ==
    ASSUME NEW s, NEW t, Good(s), t \in State,
           t.own = s.own, t.pending = s.pending, t.clip = s.clip, t.orders = s.orders,
           t.rec.halted = s.rec.halted, t.rec.retireQ = s.rec.retireQ,
           t.rec.debts # <<>> \/ t.rec.retireQ # <<>> => t.rec.impaired \/ t.rec.halted,
           t.moves =< s.moves, t.sink = s.sink \/ ~Full(t)
    PROVE  Aside(s, t, {})
<1>4. Tallied(t)
  BY DEF Good, Tallied, Full
<1>1. Good(t)
  BY <1>4 DEF Good, Deferred
<1>2. Evolve(s, t)
  BY EvolveRefl DEF Evolve
<1>3. Working(t) = Working(s) /\ Deferred(t) = Deferred(s)
  BY DEF Working, Deferred
<1> QED
  BY <1>1, <1>2, <1>3 DEF Aside, Calm

LEMMA QueuesNoticed ==
    ASSUME NEW s, Good(s)
    PROVE  s.rec.debts # <<>> \/ s.rec.retireQ # <<>> => s.rec.impaired \/ s.rec.halted
BY DEF Good

(* A fault of the broker's is spent. *)
LEMMA SpentFields ==
    ASSUME NEW s, Good(s), s.faults > 0
    PROVE  LET t == [s EXCEPT !.faults = @ - 1]
           IN  /\ Aside(s, t, {}) /\ Net(t) = Net(s)
               /\ t.own = s.own /\ t.orders = s.orders /\ t.rec = s.rec /\ t.clip = s.clip
               /\ t.pending = s.pending /\ t.sink = s.sink /\ t.moves = s.moves
<1> DEFINE n == s.faults - 1
           t == [s EXCEPT !.faults = n]
<1>1. s \in State /\ s.faults \in 0..MaxFaults /\ s.moves \in Nat /\ MaxFaults \in Nat
  BY GoodType, Constants
<1>2. n \in 0..MaxFaults
  BY <1>1
<1> HIDE DEF n
<1>3. /\ t \in State
      /\ t.own = s.own /\ t.orders = s.orders /\ t.rec = s.rec /\ t.clip = s.clip
      /\ t.pending = s.pending /\ t.sink = s.sink /\ t.moves = s.moves
  BY <1>1, <1>2 DEF State
<1> HIDE DEF t
<1>4. Aside(s, t, {})
  BY <1>1, <1>3, UnmovedAside, QueuesNoticed
<1>5. Net(t) = Net(s)
  BY <1>3, NetSame
<1> QED
  BY <1>3, <1>4, <1>5 DEF t, n

LEMMA SpentMoveFields ==
    ASSUME NEW s, Good(s), s.moves > 0
    PROVE  LET t == [s EXCEPT !.moves = @ - 1]
           IN  /\ Aside(s, t, {}) /\ Net(t) = Net(s)
               /\ t.own = s.own /\ t.orders = s.orders /\ t.rec = s.rec /\ t.clip = s.clip
               /\ t.pending = s.pending /\ t.sink = s.sink /\ t.book = s.book
<1> DEFINE n == s.moves - 1
           t == [s EXCEPT !.moves = n]
<1>1. s \in State /\ s.moves \in Nat
  BY GoodType
<1>2. n \in Nat /\ n =< s.moves
  BY <1>1
<1> HIDE DEF n
<1>3. /\ t \in State
      /\ t.own = s.own /\ t.orders = s.orders /\ t.rec = s.rec /\ t.clip = s.clip
      /\ t.pending = s.pending /\ t.sink = s.sink /\ t.book = s.book /\ t.moves = n
  BY <1>1, <1>2 DEF State
<1> HIDE DEF t
<1>4. Aside(s, t, {})
  BY <1>2, <1>3, UnmovedAside, QueuesNoticed
<1>5. Net(t) = Net(s)
  BY <1>3, NetSame
<1> QED
  BY <1>3, <1>4, <1>5 DEF t, n

LEMMA FaultyOutcome ==
    ASSUME NEW s, NEW kind, NEW outcomes, NEW o \in Faulty(s, kind, outcomes)
    PROVE  /\ kind \in FaultKinds /\ s.faults > 0
           /\ \E p \in outcomes : o = [p EXCEPT !.st.faults = @ - 1]
BY DEF Faulty, Fault

-----------------------------------------------------------------------------
(* Placing orders. *)

NewOrder(leg, buy, lots) ==
    [ leg |-> leg, buy |-> buy, size |-> lots, exec |-> 0, sent |-> 0,
      live |-> TRUE, told |-> FALSE ]

LEMMA AddOrderFields ==
    ASSUME NEW s \in State, NEW leg \in Leg, NEW buy \in BOOLEAN, NEW lots \in Nat
    PROVE  LET t == AddOrder(s, leg, buy, lots)
           IN  /\ t \in State /\ t.orders = Append(s.orders, NewOrder(leg, buy, lots))
               /\ t.own = s.own /\ t.pending = s.pending /\ t.clip = s.clip /\ t.rec = s.rec
               /\ t.sink = s.sink /\ t.faults = s.faults /\ t.moves = s.moves /\ t.book = s.book
               /\ Len(t.orders) = Len(s.orders) + 1
               /\ t.orders[Len(s.orders) + 1] = NewOrder(leg, buy, lots)
               /\ \A id \in 1..Len(s.orders) : t.orders[id] = s.orders[id]
               /\ OrderOK(NewOrder(leg, buy, lots))
<1> DEFINE o == NewOrder(leg, buy, lots)
           q == Append(s.orders, o)
           t == [s EXCEPT !.orders = q]
<1>1. o \in OrderType /\ OrderOK(o)
  BY DEF OrderType, NewOrder, OrderOK
<1>2. s.orders \in Seq(OrderType) /\ Len(s.orders) \in Nat
  BY StateType
<1>3. /\ q \in Seq(OrderType) /\ Len(q) = Len(s.orders) + 1 /\ q[Len(s.orders) + 1] = o
      /\ \A id \in 1..Len(s.orders) : q[id] = s.orders[id]
  BY <1>1, <1>2, AppendProperties
<1>4. AddOrder(s, leg, buy, lots) = t
  BY DEF AddOrder, NewOrder
<1> HIDE DEF q, o
<1>5. /\ t \in State /\ t.orders = q
      /\ t.own = s.own /\ t.pending = s.pending /\ t.clip = s.clip /\ t.rec = s.rec
      /\ t.sink = s.sink /\ t.faults = s.faults /\ t.moves = s.moves /\ t.book = s.book
  BY <1>3 DEF State
<1> QED
  BY <1>1, <1>3, <1>4, <1>5 DEF q, o

(* An order rests that the engine has no account of. *)
LEMMA UntrackedAside ==
    ASSUME NEW s, NEW t, Good(s), t \in State, ~s.rec.halted, ~OrdersNamed,
           NEW o, OrderOK(o), Len(t.orders) = Len(s.orders) + 1, t.orders[Len(s.orders) + 1] = o,
           \A id \in 1..Len(s.orders) : t.orders[id] = s.orders[id],
           t.own = s.own, t.pending = s.pending, t.clip = s.clip, t.moves = s.moves,
           t.rec.halted = s.rec.halted, t.rec.retireQ = s.rec.retireQ,
           t.rec.debts = s.rec.debts, t.rec.impaired = s.rec.impaired
    PROVE  Aside(s, t, {}) /\ ~Full(t)
<1>1. Len(s.orders) \in Nat /\ DOMAIN s.own \subseteq 1..Len(s.orders) /\ s.moves \in Nat
      /\ \A id \in DOMAIN s.own : s.own[id].folded \in Nat /\ s.own[id].seen \in Nat
  BY GoodType DEF Acct
<1>2. \A id \in 1..Len(t.orders) : OrderOK(t.orders[id])
  BY <1>1 DEF Good
<1>3. \A id \in DOMAIN t.own : AcctOK(t.own[id], t.orders[id])
  BY <1>1 DEF Good
<1>4. DOMAIN t.own \subseteq 1..Len(t.orders)
  BY <1>1
<1>5. Working(t) = Working(s) /\ Deferred(t) = Deferred(s)
  BY DEF Working, Deferred
<1>8. ~Full(t)
  <2>1. Len(t.orders) \in 1..Len(t.orders) /\ Len(t.orders) \notin 1..Len(s.orders)
    BY <1>1
  <2> QED
    BY <1>1, <2>1 DEF Full
<1>9. Tallied(t)
  BY <1>8 DEF Tallied
<1>6. Good(t)
  BY <1>2, <1>3, <1>4, <1>5, <1>9 DEF Good
<1>7. Evolve(s, t)
  <2>1. \A id \in DOMAIN s.own :
           /\ t.own[id] = s.own[id] /\ t.orders[id] = s.orders[id]
           /\ s.own[id].folded =< s.own[id].folded /\ s.own[id].seen =< s.own[id].seen
    BY <1>1
  <2>2. Len(s.orders) =< Len(t.orders) /\ t.moves =< s.moves
    BY <1>1
  <2>3. DOMAIN t.own = DOMAIN s.own
    OBVIOUS
  <2> QED
    BY <2>1, <2>2, <2>3 DEF Evolve
<1> QED
  BY <1>1, <1>5, <1>6, <1>7, <1>8 DEF Aside, Calm

(* An order is placed and tracked in account a. *)
Tracked(s, t, a) ==
    LET id == Len(s.orders) + 1
    IN  /\ Len(t.orders) = id
        /\ OrderOK(t.orders[id]) /\ t.orders[id].sent = 0
        /\ \A leg \in Leg : t.sink[leg] = s.sink[leg] + TermOn(t.orders[id], leg, a.credited)
        /\ \A j \in 1..Len(s.orders) : t.orders[j] = s.orders[j]
        /\ DOMAIN t.own = DOMAIN s.own \cup {id}
        /\ t.own[id] = a /\ AcctOK(a, t.orders[id]) /\ a.final < 0 /\ ~a.deferred
        /\ \A j \in DOMAIN s.own : t.own[j] = s.own[j]
        /\ t.pending = IF a.maker THEN s.pending ELSE s.pending \cup {id}
        /\ t.clip = s.clip /\ t.moves = s.moves /\ t.rec = s.rec

LEMMA TrackedGood ==
    ASSUME NEW s, NEW t, NEW a, Good(s), t \in State, ~s.rec.halted, a \in Acct, Tracked(s, t, a)
    PROVE  /\ Good(t) /\ Evolve(s, t)
           /\ Deferred(t) \subseteq Deferred(s)
           /\ Working(t) \subseteq Working(s) \cup (IF a.maker THEN {Len(s.orders) + 1} ELSE {})
           /\ Len(s.orders) + 1 \notin DOMAIN s.own
<1> DEFINE id == Len(s.orders) + 1
<1>1. /\ Len(s.orders) \in Nat /\ DOMAIN s.own \subseteq 1..Len(s.orders) /\ s.moves \in Nat
      /\ \A j \in DOMAIN s.own : s.own[j].folded \in Nat /\ s.own[j].seen \in Nat
  BY GoodType DEF Acct
<1>2. id \in Nat /\ id \notin 1..Len(s.orders) /\ id \notin DOMAIN s.own /\ id \in DOMAIN t.own
  BY <1>1 DEF Tracked
<1>3. Evolve(s, t)
  <2>1. /\ Len(t.orders) = id /\ DOMAIN t.own = DOMAIN s.own \cup {id} /\ t.orders[id].sent = 0
        /\ \A j \in DOMAIN s.own : t.own[j] = s.own[j] /\ t.orders[j] = s.orders[j]
        /\ t.moves = s.moves /\ t.rec = s.rec
    BY <1>1 DEF Tracked
  <2>2. \A j \in DOMAIN s.own : s.own[j].folded =< s.own[j].folded /\ s.own[j].seen =< s.own[j].seen
    BY <1>1
  <2>3. Len(s.orders) =< Len(t.orders) /\ t.moves =< s.moves
    BY <1>1, <2>1
  <2>4. \A j \in DOMAIN t.own \ DOMAIN s.own : t.orders[j].sent = 0
    BY <2>1
  <2> HIDE DEF id
  <2> QED
    BY <2>1, <2>2, <2>3, <2>4 DEF Evolve
<1>4. \A j \in DOMAIN t.own : j = id \/ (j \in DOMAIN s.own /\ t.own[j] = s.own[j])
  BY DEF Tracked
<1>5. Deferred(t) \subseteq Deferred(s)
  BY <1>4 DEF Tracked, Deferred
<1>6. Working(t) \subseteq Working(s) \cup (IF a.maker THEN {id} ELSE {})
  BY <1>4 DEF Tracked, Working
<1>7. Good(t)
  <2>1. DOMAIN t.own \subseteq 1..Len(t.orders)
    BY <1>1 DEF Tracked
  <2>2. \A j \in 1..Len(t.orders) : OrderOK(t.orders[j])
    BY <1>1 DEF Tracked, Good
  <2>3. \A j \in DOMAIN t.own : AcctOK(t.own[j], t.orders[j])
    BY <1>1, <1>4 DEF Tracked, Good
  <2>4. t.pending = {j \in DOMAIN t.own : ~t.own[j].maker /\ t.own[j].final < 0}
    <3>1. s.pending = {j \in DOMAIN s.own : ~s.own[j].maker /\ s.own[j].final < 0}
      BY DEF Good
    <3>2. a.maker \in BOOLEAN /\ a.final < 0 /\ t.own[id] = a
      BY DEF Acct, Tracked
    <3>3. DOMAIN t.own = DOMAIN s.own \cup {id} /\ \A j \in DOMAIN s.own : t.own[j] = s.own[j]
      BY DEF Tracked
    <3>4. t.pending = IF a.maker THEN s.pending ELSE s.pending \cup {id}
      BY DEF Tracked
    <3> HIDE DEF id
    <3> QED
      BY <3>1, <3>2, <3>3, <3>4, <1>2
  <2>5. \A i \in 1..Len(t.rec.retireQ) :
           t.rec.retireQ[i] \in DOMAIN t.own /\ t.own[t.rec.retireQ[i]].maker
    <3>1. \A i \in 1..Len(s.rec.retireQ) :
             s.rec.retireQ[i] \in DOMAIN s.own /\ s.own[s.rec.retireQ[i]].maker
      BY DEF Good
    <3> QED
      BY <3>1 DEF Tracked
  <2>6. \A j \in Deferred(t) : \E i \in 1..Len(t.rec.retireQ) : t.rec.retireQ[i] = j
    BY <1>5 DEF Good, Tracked
  <2>7. t.rec.retireQ # <<>> \/ t.rec.debts # <<>> => t.rec.impaired \/ t.rec.halted
    BY DEF Good, Tracked
  <2>8. Tallied(t)
    <3>1. s \in State /\ Tallied(s)
      BY DEF Good
    <3>2. /\ Len(t.orders) = Len(s.orders) + 1 /\ DOMAIN t.own = DOMAIN s.own \cup {Len(s.orders) + 1}
          /\ \A leg \in Leg : t.sink[leg] = s.sink[leg]
                + TermOn(t.orders[Len(s.orders) + 1], leg, t.own[Len(s.orders) + 1].credited)
      BY DEF Tracked
    <3>3. \A j \in DOMAIN s.own : t.orders[j] = s.orders[j] /\ t.own[j] = s.own[j]
      BY <1>1 DEF Tracked
    <3> QED
      BY <1>1, <3>1, <3>2, <3>3, TallyTracked
  <2> QED
    BY <2>1, <2>2, <2>3, <2>4, <2>5, <2>6, <2>7, <2>8 DEF Good
<1> QED
  BY <1>2, <1>3, <1>5, <1>6, <1>7

LEMMA TrackFields ==
    ASSUME NEW s \in State, NEW id \in Nat, id \notin DOMAIN s.own, NEW a \in Acct
    PROVE  LET t == Track(s, id, a)
           IN  /\ t \in State
               /\ DOMAIN t.own = DOMAIN s.own \cup {id} /\ t.own[id] = a
               /\ \A j \in DOMAIN s.own : t.own[j] = s.own[j]
               /\ \A leg \in Leg : t.sink[leg] = s.sink[leg] + IF leg = a.leg THEN Sign(a.buy) * a.credited ELSE 0
               /\ t.pending = s.pending /\ t.clip = s.clip /\ t.book = s.book /\ t.rec = s.rec
               /\ t.orders = s.orders /\ t.faults = s.faults /\ t.moves = s.moves
<1> DEFINE k == Sign(a.buy) * a.credited
           D == DOMAIN s.own \cup {id}
           x == [j \in D |-> IF j = id THEN a ELSE s.own[j]]
           y == [s.sink EXCEPT ![a.leg] = @ + k]
           t == [s EXCEPT !.own = x, !.sink = y]
<1>1. Track(s, id, a) = t
  BY DEF Track, State
<1>2. s.own \in Accts /\ s.sink \in [Leg -> Int] /\ DOMAIN s.own \subseteq Nat
  BY StateType
<1>3. a.leg \in Leg /\ k \in Int
  BY DEF Acct, Sign
<1> HIDE DEF k
<1>4. /\ y \in [Leg -> Int]
      /\ \A leg \in Leg : y[leg] = s.sink[leg] + IF leg = a.leg THEN k ELSE 0
  BY <1>2, <1>3
<1>5. /\ D \subseteq Nat /\ x = [j \in D |-> x[j]] /\ DOMAIN x = D /\ x[id] = a
      /\ \A j \in DOMAIN s.own : x[j] = s.own[j]
  BY <1>2
<1>6. x \in Accts
  <2>1. \A j \in D : x[j] \in Acct
    BY <1>2, AcctsType
  <2> HIDE DEF x, D
  <2> QED
    BY <2>1, <1>5, AcctsIntro
<1> HIDE DEF x, y
<1>7. /\ t \in State /\ t.own = x /\ t.sink = y
      /\ t.pending = s.pending /\ t.clip = s.clip /\ t.book = s.book /\ t.rec = s.rec
      /\ t.orders = s.orders /\ t.faults = s.faults /\ t.moves = s.moves
  BY <1>4, <1>6 DEF State
<1> HIDE DEF t, D
<1>8. \A leg \in Leg : t.sink[leg] = s.sink[leg] + IF leg = a.leg THEN Sign(a.buy) * a.credited ELSE 0
  BY <1>4, <1>7 DEF k
<1>9. DOMAIN t.own = D /\ t.own[id] = a /\ \A j \in DOMAIN s.own : t.own[j] = s.own[j]
  BY <1>5, <1>7
<1> QED
  BY <1>1, <1>7, <1>8, <1>9 DEF D

LEMMA NewAccounts ==
    ASSUME NEW leg \in Leg, NEW buy \in BOOLEAN, NEW lots \in Nat \ {0}
    PROVE  /\ NewMaker(leg, buy, lots) \in Acct /\ NewTaker(leg, buy, lots) \in Acct
           /\ AcctOK(NewTaker(leg, buy, lots), NewOrder(leg, buy, lots))
           /\ (leg = "B" => HedgeRatio = 1) => AcctOK(NewMaker(leg, buy, lots), NewOrder(leg, buy, lots))
<1>1. NewMaker(leg, buy, lots) \in Acct /\ NewTaker(leg, buy, lots) \in Acct
  BY DEF Acct, NewMaker, NewTaker, Unknown
<1>2. AcctOK(NewTaker(leg, buy, lots), NewOrder(leg, buy, lots))
  BY DEF AcctOK, NewTaker, NewOrder, Unknown
<1>3. (leg = "B" => HedgeRatio = 1) => AcctOK(NewMaker(leg, buy, lots), NewOrder(leg, buy, lots))
  BY DEF AcctOK, NewMaker, NewOrder, Unknown, Max2
<1> QED
  BY <1>1, <1>2, <1>3

(* A placement that tracks nothing: nothing happened, an order rests, or   *)
(* one rests and is noted.                                                 *)
LEMMA UntrackedPlacement ==
    ASSUME NEW s, Good(s), ~s.rec.halted,
           NEW leg \in Leg, NEW buy \in BOOLEAN, NEW lots \in Nat \ {0},
           NEW x, LET p == AddOrder(s, leg, buy, lots)
                  IN  x \in {s, p, [p EXCEPT !.rec = MarkUnverified(@)]},
           x = s \/ ~OrdersNamed
    PROVE  /\ Aside(s, x, {}) /\ Net(x) = Net(s) /\ x.faults = s.faults
           /\ x \in State /\ x.sink = s.sink /\ x.rec.debts = s.rec.debts
           /\ x = s \/ ~Full(x)
<1> DEFINE p == AddOrder(s, leg, buy, lots)
<1>1. s \in State /\ s.rec \in Machine
  BY GoodType
<1>2. CASE x = s
  BY <1>1, <1>2, AsideRefl
<1> SUFFICES ASSUME ~OrdersNamed
             PROVE  /\ Aside(s, x, {}) /\ Net(x) = Net(s) /\ x.faults = s.faults
                    /\ x \in State /\ x.sink = s.sink /\ x.rec.debts = s.rec.debts
                    /\ x = s \/ ~Full(x)
  BY <1>2
<1>3. /\ p \in State
      /\ p.own = s.own /\ p.pending = s.pending /\ p.clip = s.clip /\ p.rec = s.rec
      /\ p.sink = s.sink /\ p.faults = s.faults /\ p.moves = s.moves
      /\ Len(p.orders) = Len(s.orders) + 1
      /\ p.orders[Len(s.orders) + 1] = NewOrder(leg, buy, lots)
      /\ \A id \in 1..Len(s.orders) : p.orders[id] = s.orders[id]
      /\ OrderOK(NewOrder(leg, buy, lots))
  BY <1>1, AddOrderFields
<1> HIDE DEF p
<1>4. CASE x = p
  <2>1. Aside(s, x, {}) /\ ~Full(x)
    BY <1>3, <1>4, UntrackedAside
  <2> QED
    BY <1>3, <1>4, <2>1, NetSame
<1>5. CASE x = [p EXCEPT !.rec = MarkUnverified(@)]
  <2> DEFINE m == MarkUnverified(s.rec)
  <2>1. /\ m \in Machine /\ m.halted = s.rec.halted /\ m.impaired = s.rec.impaired
        /\ m.retireQ = s.rec.retireQ /\ m.debts = s.rec.debts
    BY <1>1, MarkFields
  <2>2. x = [p EXCEPT !.rec = m]
    BY <1>3, <1>5
  <2> HIDE DEF m
  <2>3. /\ x \in State /\ x.rec = m
        /\ x.own = p.own /\ x.pending = p.pending /\ x.clip = p.clip /\ x.orders = p.orders
        /\ x.sink = p.sink /\ x.faults = p.faults /\ x.moves = p.moves
    BY <2>1, <2>2, <1>3 DEF State
  <2>4. Aside(s, x, {}) /\ ~Full(x)
    <3> HIDE <1>5, <2>2
    <3>1. /\ x \in State /\ OrderOK(NewOrder(leg, buy, lots))
          /\ x.own = s.own /\ x.pending = s.pending /\ x.clip = s.clip /\ x.moves = s.moves
          /\ Len(x.orders) = Len(s.orders) + 1 /\ x.orders[Len(s.orders) + 1] = NewOrder(leg, buy, lots)
          /\ \A id \in 1..Len(s.orders) : x.orders[id] = s.orders[id]
          /\ x.rec.halted = s.rec.halted /\ x.rec.retireQ = s.rec.retireQ
          /\ x.rec.debts = s.rec.debts /\ x.rec.impaired = s.rec.impaired
      BY <1>3, <2>1, <2>3
    <3> QED
      BY <3>1, UntrackedAside
  <2> QED
    BY <1>3, <2>1, <2>3, <2>4, NetSame
<1> QED
  BY <1>2, <1>4, <1>5 DEF p

(* A maker rests in account o.id, or nothing is tracked. *)
MakerPlaced(s, leg, buy, lots, o) ==
    LET a == o.st.own[o.id]
    IN  /\ Good(o.st) /\ Evolve(s, o.st) /\ o.st.clip = s.clip
        /\ o.st.rec.retireQ = s.rec.retireQ
        /\ o.id \notin DOMAIN s.own /\ o.id \in DOMAIN o.st.own
        /\ a.maker /\ a.leg = leg /\ a.buy = buy /\ a.placed = lots
        /\ Working(o.st) \subseteq Working(s) \cup {o.id}

(* The accounts are as they were, but for makers that came to rest and of  *)
(* which nothing has executed.                                             *)
Adds(s, t) ==
    /\ \A id \in DOMAIN s.own :
          id \in DOMAIN t.own /\ t.own[id] = s.own[id] /\ t.orders[id] = s.orders[id]
    /\ \A id \in DOMAIN t.own \ DOMAIN s.own :
          t.own[id].maker /\ t.own[id].credited = 0 /\ t.orders[id].exec = 0

LEMMA AddsTrans ==
    ASSUME NEW s, NEW t, NEW u, Adds(s, t), Adds(t, u)
    PROVE  Adds(s, u)
BY DEF Adds

LEMMA AddsNothing ==
    ASSUME NEW s, NEW t, t.own = s.own, \A id \in DOMAIN s.own : t.orders[id] = s.orders[id]
    PROVE  Adds(s, t)
BY DEF Adds

LEMMA PlaceMakerOutcome ==
    ASSUME NEW s, Good(s), ~s.rec.halted,
           NEW leg \in Leg, NEW buy \in BOOLEAN, NEW lots \in Nat \ {0},
           leg = "B" => HedgeRatio = 1,
           NEW o \in PlaceMaker(s, leg, buy, lots)
    PROVE  /\ Adds(s, o.st)
           /\ o.res # "ok" => Aside(s, o.st, {})
           /\ o.res = "ok" => MakerPlaced(s, leg, buy, lots, o)
           /\ Net(o.st) = Net(s) /\ o.st.rec.halted = s.rec.halted /\ Good(o.st)
<1> DEFINE p == AddOrder(s, leg, buy, lots)
           id == Len(p.orders)
           a == NewMaker(leg, buy, lots)
           ok == [st |-> Track(p, id, a), res |-> "ok", id |-> id]
           Out(x, r) == [st |-> x, res |-> r, id |-> id]
           Lost == {s, p, [p EXCEPT !.rec = MarkUnverified(@)]}
<1>1. s \in State /\ Len(s.orders) \in Nat /\ DOMAIN s.own \subseteq 1..Len(s.orders)
  BY GoodType
<1>2. CASE o = ok
  <2> DEFINE t == Track(p, id, a)
  <2>1. /\ p \in State
        /\ p.own = s.own /\ p.pending = s.pending /\ p.clip = s.clip /\ p.rec = s.rec
        /\ p.sink = s.sink /\ p.faults = s.faults /\ p.moves = s.moves
        /\ id = Len(s.orders) + 1
        /\ p.orders[Len(s.orders) + 1] = NewOrder(leg, buy, lots)
        /\ \A j \in 1..Len(s.orders) : p.orders[j] = s.orders[j]
        /\ OrderOK(NewOrder(leg, buy, lots))
    BY <1>1, AddOrderFields
  <2>2. a \in Acct /\ AcctOK(a, NewOrder(leg, buy, lots))
    BY NewAccounts
  <2>3. a.maker /\ a.final < 0 /\ ~a.deferred /\ a.credited = 0 /\ a.leg = leg /\ a.buy = buy /\ a.placed = lots
    BY DEF NewMaker, Unknown
  <2> HIDE DEF a, p
  <2>4. id \in Nat /\ id \notin DOMAIN p.own
    BY <1>1, <2>1
  <2>5. /\ t \in State
        /\ DOMAIN t.own = DOMAIN p.own \cup {id} /\ t.own[id] = a
        /\ \A j \in DOMAIN p.own : t.own[j] = p.own[j]
        /\ \A l \in Leg : t.sink[l] = p.sink[l] + IF l = a.leg THEN Sign(a.buy) * a.credited ELSE 0
        /\ t.pending = p.pending /\ t.clip = p.clip /\ t.book = p.book /\ t.rec = p.rec
        /\ t.orders = p.orders /\ t.faults = p.faults /\ t.moves = p.moves
    BY <2>1, <2>2, <2>4, TrackFields
  <2> HIDE DEF t
  <2>6. Tracked(s, t, a)
    <3>1. /\ t.orders[id] = NewOrder(leg, buy, lots) /\ NewOrder(leg, buy, lots).sent = 0
          /\ NewOrder(leg, buy, lots).leg = leg /\ NewOrder(leg, buy, lots).buy = buy
      BY <2>1, <2>5 DEF NewOrder
    <3>2. \A l \in Leg : t.sink[l] = s.sink[l] + TermOn(t.orders[id], l, a.credited)
      BY <2>1, <2>3, <2>5, <3>1 DEF TermOn
    <3> QED
      BY <2>1, <2>2, <2>3, <2>5, <3>1, <3>2 DEF Tracked
  <2>7. /\ Good(t) /\ Evolve(s, t) /\ Working(t) \subseteq Working(s) \cup {id}
    BY <2>1, <2>2, <2>3, <2>5, <2>6, TrackedGood
  <2>8. MakerPlaced(s, leg, buy, lots, ok)
    BY <2>1, <2>3, <2>4, <2>5, <2>7 DEF MakerPlaced, t
  <2>10. Adds(s, t)
    <3>1. NewOrder(leg, buy, lots).exec = 0
      BY DEF NewOrder
    <3>2. \A j \in DOMAIN s.own : j \in DOMAIN t.own /\ t.own[j] = s.own[j] /\ t.orders[j] = s.orders[j]
      BY <1>1, <2>1, <2>5
    <3>3. \A j \in DOMAIN t.own \ DOMAIN s.own : j = Len(s.orders) + 1
      BY <2>1, <2>5
    <3>4. t.own[id] = a /\ t.orders[id] = NewOrder(leg, buy, lots)
      BY <2>1, <2>5
    <3> QED
      BY <2>1, <2>3, <3>1, <3>2, <3>3, <3>4 DEF Adds
  <2>9. Net(t) = Net(s)
    <3>1. t.rec.debts = s.rec.debts
      BY <2>1, <2>5
    <3>2. \A l \in Leg : t.sink[l] = s.sink[l] + IF l = leg THEN Sign(buy) * 0 ELSE 0
      BY <2>1, <2>3, <2>5
    <3>3. Net(t) = Net(s) + Worth(leg, buy, 0)
      BY <1>1, <2>5, <3>1, <3>2, NetCredit
    <3> QED
      BY <3>3, <1>1, WorthZero, NetType
  <2> QED
    BY <1>2, <2>1, <2>5, <2>7, <2>8, <2>9, <2>10 DEF t
<1>3. ASSUME o # ok PROVE \E x \in Lost : (x = s \/ ~OrdersNamed) /\ x.faults > 0 /\ o.st = [x EXCEPT !.faults = @ - 1] /\ o.res # "ok"
  <2>1. ASSUME NEW x \in Lost, NEW r, r # "ok", NEW k, o \in Faulty(s, k, {Out(x, r)}),
               x = s \/ k \in {"ghost", "blind"}
        PROVE  /\ o.st = [x EXCEPT !.faults = @ - 1] /\ o.res # "ok" /\ x.faults > 0
               /\ x = s \/ ~OrdersNamed
    <3>1. s.faults > 0 /\ o = [Out(x, r) EXCEPT !.st.faults = @ - 1] /\ k \in FaultKinds
      BY <2>1, FaultyOutcome
    <3>3. x = s \/ ~OrdersNamed
      BY <2>1, <3>1 DEF OrdersNamed
    <3>2. x.faults = s.faults
      BY <3>3, UntrackedPlacement
    <3> QED
      BY <2>1, <3>1, <3>2, <3>3
  <2> DEFINE v == [p EXCEPT !.rec = MarkUnverified(@)]
  <2>2. \/ o \in Faulty(s, "reject", {Out(s, "reject")})
        \/ o \in Faulty(s, "silent", {Out(s, "maybe")})
        \/ o \in Faulty(s, "ghost", {Out(p, "maybe"), Out(p, "reject")})
        \/ o \in Faulty(s, "blind", {Out(v, "maybe")})
    BY <1>3 DEF PlaceMaker
  <2>3. s \in Lost /\ p \in Lost /\ v \in Lost
    OBVIOUS
  <2>4. "ok" # "maybe" /\ "ok" # "reject"
    OBVIOUS
  <2> HIDE DEF p, v, Lost, Out, ok
  <2>5. CASE o \in Faulty(s, "ghost", {Out(p, "maybe"), Out(p, "reject")})
    <3>1. o \in Faulty(s, "ghost", {Out(p, "maybe")}) \/ o \in Faulty(s, "ghost", {Out(p, "reject")})
      BY <2>5 DEF Faulty
    <3> QED
      BY <2>1, <2>3, <2>4, <3>1
  <2> QED
    BY <2>1, <2>2, <2>3, <2>4, <2>5
<1>4. CASE o # ok
  <2>1. PICK x \in Lost : (x = s \/ ~OrdersNamed) /\ x.faults > 0 /\ o.st = [x EXCEPT !.faults = @ - 1] /\ o.res # "ok"
    BY <1>3, <1>4
  <2>2. Aside(s, x, {}) /\ Net(x) = Net(s)
    BY <2>1, UntrackedPlacement
  <2>3. Good(x)
    BY <2>2, AsideCalm
  <2>4. Aside(x, o.st, {}) /\ Net(o.st) = Net(x) /\ o.st.own = x.own
    BY <2>1, <2>3, SpentFields
  <2>5. Aside(s, o.st, {})
    BY <2>2, <2>4, AsideTrans
  <2>6. Adds(s, o.st)
    <3>1. p.own = s.own /\ [p EXCEPT !.rec = MarkUnverified(@)].own = p.own
      BY <1>1, AddOrderFields DEF State
    <3>2. x.own = s.own
      <4> HIDE DEF p
      <4> QED
        BY <2>1, <3>1
    <3> QED
      BY <2>4, <2>5, <3>2, AddsNothing DEF Aside
  <2> QED
    BY <2>1, <2>2, <2>4, <2>5, <2>6, AsideCalm DEF Evolve
<1> QED
  BY <1>2, <1>4

BlindTaker(s, leg, buy, lots) ==
    [ AddOrder(s, leg, buy, lots) EXCEPT !.rec = MarkUnverified(@),
                                         !.sink[leg] = @ + Sign(buy) * lots ]

(* A taker accepted with an empty id is credited, though not tracked.      *)
LEMMA BlindCredit ==
    ASSUME NEW s, Good(s), ~s.rec.halted, ~OrdersNamed,
           NEW leg \in Leg, NEW buy \in BOOLEAN, NEW lots \in Nat \ {0}
    PROVE  LET x == BlindTaker(s, leg, buy, lots)
           IN  /\ Aside(s, x, {}) /\ x.faults = s.faults /\ x.rec.debts = s.rec.debts
               /\ Net(x) = Net(s) + Worth(leg, buy, lots)
<1> DEFINE p == AddOrder(s, leg, buy, lots)
           u == [p EXCEPT !.rec = MarkUnverified(@)]
           k == Sign(buy) * lots
           x == [p EXCEPT !.rec = MarkUnverified(@), !.sink[leg] = @ + k]
<1>1. s \in State /\ s.sink \in [Leg -> Int]
  BY GoodType
<1>2. /\ Aside(s, u, {}) /\ u.faults = s.faults /\ u \in State /\ u.sink = s.sink /\ u.rec.debts = s.rec.debts
      /\ u = s \/ ~Full(u)
  <2>1. u \in {s, p, [p EXCEPT !.rec = MarkUnverified(@)]}
    OBVIOUS
  <2> HIDE DEF u
  <2> QED
    BY <2>1, UntrackedPlacement
<1>3. p \in State /\ Len(p.orders) = Len(s.orders) + 1 /\ Len(s.orders) \in Nat
  BY <1>1, AddOrderFields, StateType
<1>14. ~Full(u)
  <2>1. u.orders = p.orders
    BY <1>3 DEF State
  <2> HIDE DEF u, p
  <2> QED
    BY <1>2, <1>3, <2>1
<1> DEFINE y == [s.sink EXCEPT ![leg] = @ + k]
<1>4. k \in Int
  BY DEF Sign
<1> HIDE DEF p, k
<1>5. y \in [Leg -> Int] /\ \A l \in Leg : y[l] = s.sink[l] + IF l = leg THEN k ELSE 0
  BY <1>1, <1>4
<1>6. x = [u EXCEPT !.sink = y]
  <2>1. u.sink = p.sink
    BY <1>3 DEF State
  <2> QED
    BY <1>2, <1>3, <2>1 DEF State
<1> HIDE DEF x, y, u
<1>7. /\ x \in State /\ x.sink = y /\ x.own = u.own /\ x.pending = u.pending /\ x.clip = u.clip
      /\ x.rec = u.rec /\ x.orders = u.orders /\ x.faults = u.faults /\ x.moves = u.moves
  BY <1>2, <1>5, <1>6 DEF State
<1>8. Good(u)
  BY <1>2, AsideCalm
<1>9. Aside(u, x, {})
  <2>1. x.moves =< u.moves /\ ~Full(x)
    BY <1>7, <1>8, <1>14, GoodType DEF Full
  <2> QED
    BY <1>7, <1>8, <2>1, UnmovedAside, QueuesNoticed
<1>10. Aside(s, x, {})
  BY <1>2, <1>9, AsideTrans
<1>11. \A l \in Leg : x.sink[l] = s.sink[l] + IF l = leg THEN Sign(buy) * lots ELSE 0
  BY <1>5, <1>7 DEF k
<1>12. x.rec.debts = s.rec.debts
  BY <1>2, <1>7
<1>13. Net(x) = Net(s) + Worth(leg, buy, lots)
  BY <1>1, <1>7, <1>11, <1>12, NetCredit
<1> QED
  BY <1>2, <1>7, <1>10, <1>12, <1>13 DEF x, p, k, BlindTaker

LEMMA TakerTracked ==
    ASSUME NEW s, Good(s), ~s.rec.halted,
           NEW leg \in Leg, NEW buy \in BOOLEAN, NEW lots \in Nat \ {0}
    PROVE  LET p == AddOrder(s, leg, buy, lots)
               id == Len(p.orders)
               t == [Track(p, id, NewTaker(leg, buy, lots)) EXCEPT !.pending = @ \cup {id}]
           IN  /\ Aside(s, t, {}) /\ t.rec.debts = s.rec.debts
               /\ Net(t) = Net(s) + Worth(leg, buy, lots)
<1> DEFINE p == AddOrder(s, leg, buy, lots)
           id == Len(p.orders)
           a == NewTaker(leg, buy, lots)
           u == Track(p, id, a)
           t == [u EXCEPT !.pending = @ \cup {id}]
<1>1. s \in State /\ Len(s.orders) \in Nat /\ DOMAIN s.own \subseteq 1..Len(s.orders)
  BY GoodType
<1>2. /\ p \in State
      /\ p.own = s.own /\ p.pending = s.pending /\ p.clip = s.clip /\ p.rec = s.rec
      /\ p.sink = s.sink /\ p.faults = s.faults /\ p.moves = s.moves
      /\ id = Len(s.orders) + 1
      /\ p.orders[Len(s.orders) + 1] = NewOrder(leg, buy, lots)
      /\ \A j \in 1..Len(s.orders) : p.orders[j] = s.orders[j]
      /\ OrderOK(NewOrder(leg, buy, lots))
  BY <1>1, AddOrderFields
<1>3. a \in Acct /\ AcctOK(a, NewOrder(leg, buy, lots))
  BY NewAccounts
<1>4. ~a.maker /\ a.final < 0 /\ ~a.deferred /\ a.credited = lots /\ a.leg = leg /\ a.buy = buy
  BY DEF NewTaker, Unknown
<1> HIDE DEF a, p
<1>5. id \in Nat /\ id \notin DOMAIN p.own
  BY <1>1, <1>2
<1>6. /\ u \in State
      /\ DOMAIN u.own = DOMAIN p.own \cup {id} /\ u.own[id] = a
      /\ \A j \in DOMAIN p.own : u.own[j] = p.own[j]
      /\ \A l \in Leg : u.sink[l] = p.sink[l] + IF l = a.leg THEN Sign(a.buy) * a.credited ELSE 0
      /\ u.pending = p.pending /\ u.clip = p.clip /\ u.book = p.book /\ u.rec = p.rec
      /\ u.orders = p.orders /\ u.faults = p.faults /\ u.moves = p.moves
  BY <1>2, <1>3, <1>5, TrackFields
<1>7. u.pending \cup {id} \in SUBSET Nat
  BY <1>5, <1>6, StateType
<1> HIDE DEF u
<1>8. /\ t \in State /\ t.pending = u.pending \cup {id}
      /\ t.own = u.own /\ t.clip = u.clip /\ t.rec = u.rec /\ t.sink = u.sink
      /\ t.orders = u.orders /\ t.faults = u.faults /\ t.moves = u.moves
  BY <1>6, <1>7 DEF State
<1> HIDE DEF t
<1>9. Tracked(s, t, a)
  <2>1. /\ t.orders[id] = NewOrder(leg, buy, lots) /\ NewOrder(leg, buy, lots).sent = 0
        /\ NewOrder(leg, buy, lots).leg = leg /\ NewOrder(leg, buy, lots).buy = buy
    BY <1>2, <1>6, <1>8 DEF NewOrder
  <2>2. \A l \in Leg : t.sink[l] = s.sink[l] + TermOn(t.orders[id], l, a.credited)
    BY <1>2, <1>4, <1>6, <1>8, <2>1 DEF TermOn
  <2> QED
    BY <1>2, <1>3, <1>4, <1>6, <1>8, <2>1, <2>2 DEF Tracked
<1>10. Good(t) /\ Evolve(s, t) /\ Working(t) \subseteq Working(s) /\ Deferred(t) \subseteq Deferred(s)
  BY <1>3, <1>4, <1>8, <1>9, TrackedGood
<1>11. Aside(s, t, {})
  BY <1>1, <1>10, <1>9 DEF Aside, Calm, Tracked
<1>12. Net(t) = Net(s) + Worth(leg, buy, lots)
  <2>1. \A l \in Leg : t.sink[l] = s.sink[l] + IF l = leg THEN Sign(buy) * lots ELSE 0
    BY <1>2, <1>4, <1>6, <1>8
  <2> QED
    BY <1>1, <1>2, <1>6, <1>8, <2>1, NetCredit, SMTT(30)
<1> QED
  BY <1>2, <1>6, <1>8, <1>11, <1>12 DEF t, u, p, a

LEMMA PlaceTakerOutcome ==
    ASSUME NEW s, Good(s), ~s.rec.halted,
           NEW leg \in Leg, NEW buy \in BOOLEAN, NEW lots \in Nat \ {0},
           NEW o \in PlaceTaker(s, leg, buy, lots)
    PROVE  /\ Aside(s, o.st, {}) /\ o.st.rec.debts = s.rec.debts
           /\ o.res \in {"ok", "reject", "maybe"} /\ o = [st |-> o.st, res |-> o.res]
           /\ Net(o.st) = Net(s) + IF o.res = "ok" THEN Worth(leg, buy, lots) ELSE 0
<1> DEFINE p == AddOrder(s, leg, buy, lots)
           id == Len(p.orders)
           t == [Track(p, id, NewTaker(leg, buy, lots)) EXCEPT !.pending = @ \cup {id}]
           b == BlindTaker(s, leg, buy, lots)
           Out(x, r) == [st |-> x, res |-> r]
           Gain(r) == IF r = "ok" THEN Worth(leg, buy, lots) ELSE 0
<1>1. s \in State /\ Net(s) \in Int
  BY GoodType, NetType
<1>2. CASE o = Out(t, "ok")
  <2>1. /\ Aside(s, t, {}) /\ t.rec.debts = s.rec.debts
        /\ Net(t) = Net(s) + Worth(leg, buy, lots)
    BY TakerTracked
  <2> HIDE DEF t
  <2> QED
    BY <1>2, <2>1
<1>3. ASSUME NEW x, NEW r \in {"ok", "reject", "maybe"}, NEW k, o \in Faulty(s, k, {Out(x, r)}),
             k \in FaultKinds =>
                /\ Aside(s, x, {}) /\ x.faults = s.faults /\ x.rec.debts = s.rec.debts
                /\ Net(x) = Net(s) + Gain(r)
      PROVE  /\ Aside(s, o.st, {}) /\ o.st.rec.debts = s.rec.debts
             /\ o.res \in {"ok", "reject", "maybe"} /\ o = [st |-> o.st, res |-> o.res]
             /\ Net(o.st) = Net(s) + Gain(o.res)
  <2>1. s.faults > 0 /\ o = [Out(x, r) EXCEPT !.st.faults = @ - 1] /\ k \in FaultKinds
    BY <1>3, FaultyOutcome
  <2>2. o = [st |-> [x EXCEPT !.faults = @ - 1], res |-> r]
    BY <2>1
  <2>6. /\ Aside(s, x, {}) /\ x.faults = s.faults /\ x.rec.debts = s.rec.debts
        /\ Net(x) = Net(s) + Gain(r)
    BY <1>3, <2>1
  <2>3. Good(x)
    BY <2>6, AsideCalm
  <2>4. Aside(x, o.st, {}) /\ Net(o.st) = Net(x) /\ o.st.rec = x.rec
    <3>1. x.faults > 0 /\ o.st = [x EXCEPT !.faults = @ - 1]
      BY <2>1, <2>2, <2>6
    <3> QED
      BY <3>1, <2>3, SpentFields
  <2>5. Aside(s, o.st, {})
    BY <2>4, <2>6, AsideTrans
  <2> QED
    BY <2>2, <2>4, <2>5, <2>6
<1>4. \A x \in {s, p, [p EXCEPT !.rec = MarkUnverified(@)]} :
         x = s \/ ~OrdersNamed =>
            /\ Aside(s, x, {}) /\ Net(x) = Net(s) + Gain("maybe") /\ Net(x) = Net(s) + Gain("reject")
            /\ x.faults = s.faults /\ x.rec.debts = s.rec.debts
  BY <1>1, UntrackedPlacement
<1>5. ~OrdersNamed => /\ Aside(s, b, {}) /\ b.faults = s.faults /\ b.rec.debts = s.rec.debts
                      /\ Net(b) = Net(s) + Gain("ok")
  <2>1. ~OrdersNamed => /\ Aside(s, b, {}) /\ b.faults = s.faults /\ b.rec.debts = s.rec.debts
                        /\ Net(b) = Net(s) + Worth(leg, buy, lots)
    BY BlindCredit
  <2> HIDE DEF b
  <2> QED
    BY <2>1
<1>6. \/ o = Out(t, "ok")
      \/ o \in Faulty(s, "reject", {Out(s, "reject")})
      \/ o \in Faulty(s, "silent", {Out(s, "maybe")})
      \/ o \in Faulty(s, "ghost", {Out(p, "maybe"), Out(p, "reject")})
      \/ o \in Faulty(s, "blind", {Out(b, "ok")})
  BY DEF PlaceTaker, BlindTaker
<1>8. "ghost" \in FaultKinds \/ "blind" \in FaultKinds => ~OrdersNamed
  BY DEF OrdersNamed
<1> HIDE DEF p, b, t, Out
<1>7. CASE o # Out(t, "ok")
  <2> HIDE DEF Gain
  <2>1. CASE o \in Faulty(s, "ghost", {Out(p, "maybe"), Out(p, "reject")})
    <3>1. o \in Faulty(s, "ghost", {Out(p, "maybe")}) \/ o \in Faulty(s, "ghost", {Out(p, "reject")})
      BY <2>1 DEF Faulty
    <3>2. "ghost" \in FaultKinds
      BY <2>1 DEF Faulty, Fault
    <3> QED
      BY <1>3, <1>4, <1>8, <3>1, <3>2 DEF Gain
  <2> QED
    BY <1>3, <1>4, <1>5, <1>6, <1>7, <1>8, <2>1 DEF Gain
<1> QED
  BY <1>2, <1>7 DEF Gain, Out

-----------------------------------------------------------------------------
(* Taker hedging. *)

(* The hedge is credited or owed, and nothing else has changed. *)
Hedged(s, t, leg, buy, lots) ==
    Aside(s, t, {}) /\ Net(t) = Net(s) + Worth(leg, buy, lots)

LEMMA HedgedGood ==
    ASSUME NEW s, NEW t, NEW leg, NEW buy, NEW lots, Hedged(s, t, leg, buy, lots)
    PROVE  Aside(s, t, {}) /\ Good(t) /\ Calm(s, t) /\ Evolve(s, t) /\ t.rec.halted = s.rec.halted
BY AsideCalm DEF Hedged, Evolve

LEMMA OweHedgeOutcome ==
    ASSUME NEW s, Good(s), NEW leg \in Leg, NEW buy \in BOOLEAN, NEW lots \in Nat \ {0}
    PROVE  Hedged(s, OweHedge(s, leg, buy, lots), leg, buy, lots)
<1> DEFINE m == DeferHedge(s.rec, leg, buy, lots)
           d == [leg |-> leg, buy |-> buy, lots |-> lots]
           t == [s EXCEPT !.rec = m]
<1>1. s \in State /\ s.rec \in Machine /\ s.moves \in Nat
  BY GoodType
<1>2. /\ m \in Machine /\ m.halted = s.rec.halted /\ m.retireQ = s.rec.retireQ
      /\ m.debts = Append(s.rec.debts, d) /\ d \in Debt /\ (m.impaired \/ m.halted)
  BY <1>1, DeferHedgeFields
<1>3. OweHedge(s, leg, buy, lots) = t
  BY DEF OweHedge
<1>4. d.leg = leg /\ d.buy = buy /\ d.lots = lots
  OBVIOUS
<1> HIDE DEF m, d
<1>5. /\ t \in State /\ t.rec = m
      /\ t.own = s.own /\ t.pending = s.pending /\ t.clip = s.clip /\ t.orders = s.orders
      /\ t.sink = s.sink /\ t.moves = s.moves
  BY <1>1, <1>2 DEF State
<1> HIDE DEF t
<1>6. Aside(s, t, {})
  BY <1>1, <1>2, <1>5, UnmovedAside
<1>7. Net(t) = Net(s) + Worth(d.leg, d.buy, d.lots)
  BY <1>1, <1>2, <1>5, NetOwe
<1> QED
  BY <1>3, <1>4, <1>6, <1>7 DEF Hedged

LEMMA TakerRetryPlainOutcome ==
    ASSUME NEW s, Good(s), ~s.rec.halted, NEW from \in {0, 1},
           NEW leg \in Leg, NEW buy \in BOOLEAN, NEW lots \in Nat \ {0},
           NEW t \in TakerRetryPlain(s, leg, buy, lots, from)
    PROVE  Hedged(s, t, leg, buy, lots)
<1> DEFINE n == HedgeRetries - from
           S == {[st |-> s, res |-> "maybe"]}
           Attempt(o, i) == IF o.res = "ok" THEN {o} ELSE PlaceTaker(o.st, leg, buy, lots)
           Gain(r) == IF r = "ok" THEN Worth(leg, buy, lots) ELSE 0
           X == { o \in [st : State, res : {"ok", "reject", "maybe"}] :
                     Aside(s, o.st, {}) /\ Net(o.st) = Net(s) + Gain(o.res) }
           P == [i \in 0..n |-> X]
<1>1. n \in Nat /\ s \in State /\ Net(s) \in Int
  BY Constants, GoodType, NetType
<1>2. S \subseteq X
  <2>1. Aside(s, s, {}) /\ Net(s) = Net(s) + Gain("maybe")
    BY <1>1, AsideRefl
  <2> HIDE DEF Gain
  <2> QED
    BY <1>1, <2>1
<1>3. ASSUME NEW o \in X, NEW i PROVE Attempt(o, i) \subseteq X
  <2>1. CASE o.res = "ok"
    BY <2>1
  <2>2. CASE o.res # "ok"
    <3> SUFFICES ASSUME NEW p \in PlaceTaker(o.st, leg, buy, lots) PROVE p \in X
      BY <2>2
    <3>1. Good(o.st) /\ ~o.st.rec.halted /\ Net(o.st) = Net(s)
      BY <1>1, <2>2, AsideCalm DEF Evolve
    <3>2. /\ Aside(o.st, p.st, {})
          /\ p.res \in {"ok", "reject", "maybe"} /\ p = [st |-> p.st, res |-> p.res]
          /\ Net(p.st) = Net(o.st) + Gain(p.res)
      BY <3>1, PlaceTakerOutcome
    <3>3. Aside(s, p.st, {})
      BY <3>2, AsideTrans
    <3>4. p.st \in State
      BY <3>2, AsideCalm, GoodType
    <3> HIDE DEF Gain
    <3> QED
      BY <3>1, <3>2, <3>3, <3>4
  <2> QED
    BY <2>1, <2>2
<1>4. t \in { IF o.res = "ok" THEN o.st ELSE OweHedge(o.st, leg, buy, lots) :
              o \in Loop(n, S, Attempt) }
  BY DEF TakerRetryPlain
<1> HIDE DEF S, X, Attempt, n
<1>5. P[n] = X
  BY <1>1
<1>6. n \in Nat
  BY <1>1
<1>7. S \subseteq P[0]
  BY <1>1, <1>2
<1>8. \A i \in 1..n : \A o \in P[i - 1] : Attempt(o, i) \subseteq P[i]
  BY <1>1, <1>3
<1> HIDE DEF P
<1> DEFINE F == [i \in 1..n |-> [o \in P[i - 1] |-> Attempt(o, i)]]
           Is(g) == g = [i \in 0..n |-> IF i = 0 THEN S ELSE UNION {Attempt(o, i) : o \in g[i - 1]}]
           it == CHOOSE g : Is(g)
<1>9. \A i \in 1..n : \A o \in P[i - 1] : F[i][o] = Attempt(o, i)
  BY <1>6
<1> HIDE DEF F
<1>10. PICK g : Run(g, n, S, F) /\ Within(n, g, P)
  <2>1. Preserves(n, S, F, P)
    BY <1>7, <1>8, <1>9 DEF Preserves
  <2> QED
    BY <1>6, <2>1, LoopExists
<1>11. Is(g)
  <2>1. ASSUME NEW i \in 1..n PROVE g[i] = UNION {Attempt(o, i) : o \in g[i - 1]}
    <3>1. \A o \in g[i - 1] : F[i][o] = Attempt(o, i)
      BY <1>6, <1>9, <1>10 DEF Within
    <3>2. \A y : y \in g[i] <=> \E o \in g[i - 1] : y \in F[i][o]
      BY <1>10 DEF Run
    <3>3. \A y : y \in g[i] <=> \E o \in g[i - 1] : y \in Attempt(o, i)
      BY <3>1, <3>2
    <3> QED
      BY <3>3
  <2>2. ASSUME NEW i \in 0..n
        PROVE  g[i] = IF i = 0 THEN S ELSE UNION {Attempt(o, i) : o \in g[i - 1]}
    <3>1. CASE i = 0
      BY <1>10, <3>1 DEF Run
    <3>2. CASE i # 0
      <4>1. i \in 1..n
        BY <3>2
      <4>2. g[i] = UNION {Attempt(o, i) : o \in g[i - 1]}
        BY <4>1, <2>1
      <4> QED
        BY <4>2, <3>2, Zenon
    <3> QED
      BY <3>1, <3>2
  <2> QED
    BY <2>2, <1>10 DEF Run
<1>12. Is(it)
  <2> HIDE DEF Is
  <2> QED
    BY <1>11
<1> HIDE DEF it
<1>13. it[n] \subseteq P[n]
  <2>1. it[0] = S
    BY <1>12, <1>6
  <2>2. ASSUME NEW i \in 1..n, it[i - 1] \subseteq P[i - 1] PROVE it[i] \subseteq P[i]
    <3>1. i \in 0..n /\ i # 0
      BY <1>6
    <3>2. it[i] = UNION {Attempt(o, i) : o \in it[i - 1]}
      BY <1>12, <3>1, Zenon
    <3> HIDE DEF Is
    <3> QED
      BY <3>2, <2>2, <1>8
  <2> HIDE DEF Is
  <2>3. it[0] \subseteq P[0]
    BY <2>1, <1>7
  <2>4. Within(n, it, P)
    BY <1>6, <2>2, <2>3, LoopStays
  <2> QED
    BY <2>4, <1>6 DEF Within
<1> HIDE DEF Is
<1>14. Loop(n, S, Attempt) = it[n]
  BY DEF Loop, it, Is
<1>15. PICK o \in X : t = IF o.res = "ok" THEN o.st ELSE OweHedge(o.st, leg, buy, lots)
  BY <1>4, <1>5, <1>13, <1>14
<1>16. Aside(s, o.st, {}) /\ Net(o.st) = Net(s) + IF o.res = "ok" THEN Worth(leg, buy, lots) ELSE 0
  BY DEF X
<1>17. CASE o.res = "ok"
  BY <1>15, <1>16, <1>17 DEF Hedged
<1>18. CASE o.res # "ok"
  <2>1. Good(o.st)
    BY <1>16, AsideCalm
  <2>2. Hedged(o.st, t, leg, buy, lots)
    BY <1>15, <1>18, <2>1, OweHedgeOutcome
  <2>3. Aside(s, t, {})
    BY <1>16, <2>2, AsideTrans DEF Hedged
  <2> QED
    BY <1>1, <1>16, <1>18, <2>2, <2>3 DEF Hedged
<1> QED
  BY <1>17, <1>18

LEMMA ShrinkTakerChaseOutcome ==
    ASSUME NEW s, Good(s), ~s.rec.halted,
           NEW leg \in Leg, NEW buy \in BOOLEAN, NEW lots \in Nat,
           NEW r \in ShrinkTakerChase(s, leg, buy, lots)
    PROVE  /\ r.left \in 0..lots /\ Aside(s, r.st, {})
           /\ Net(r.st) = Net(s) + Worth(leg, buy, lots - r.left)
<1> DEFINE n == 2 * lots
           S == {[st |-> s, left |-> lots, size |-> lots, done |-> FALSE]}
           Next1(o, p) == CASE p.res = "ok" ->
                                 [ st |-> p.st, left |-> o.left - o.size,
                                   size |-> Min2(o.size, o.left - o.size),
                                   done |-> o.left = o.size ]
                            [] p.res = "maybe" -> [o EXCEPT !.st = p.st, !.done = TRUE]
                            [] OTHER -> [o EXCEPT !.st = p.st, !.size = @ - LotStep]
           Rung(o, i) == IF o.done \/ o.size < MinLots \/ o.size <= 0 THEN {o}
                         ELSE { Next1(o, p) : p \in PlaceTaker(o.st, leg, buy, o.size) }
           Fits(t, left, size) == /\ Aside(s, t, {}) /\ left =< lots /\ size =< left
                                  /\ Net(t) = Net(s) + Worth(leg, buy, lots - left)
           X == { o \in [st : State, left : Nat, size : Int, done : BOOLEAN] :
                     Fits(o.st, o.left, o.size) }
           P == [i \in 0..n |-> X]
<1>1. n \in Nat /\ s \in State /\ Net(s) \in Int
  BY GoodType, NetType
<1>2. S \subseteq X
  <2>1. Fits(s, lots, lots)
    BY <1>1, AsideRefl, WorthZero
  <2> HIDE DEF Fits
  <2> QED
    BY <1>1, <2>1
<1>3. ASSUME NEW o \in X, NEW i PROVE Rung(o, i) \subseteq X
  <2>1. CASE o.done \/ o.size < MinLots \/ o.size <= 0
    BY <2>1
  <2>2. CASE ~(o.done \/ o.size < MinLots \/ o.size <= 0)
    <3> SUFFICES ASSUME NEW p \in PlaceTaker(o.st, leg, buy, o.size) PROVE Next1(o, p) \in X
      BY <2>2, ZenonT(40)
    <3>1. o.st \in State /\ o.left \in Nat /\ o.size \in Int /\ o.done \in BOOLEAN /\ Fits(o.st, o.left, o.size)
          /\ o = [st |-> o.st, left |-> o.left, size |-> o.size, done |-> o.done]
      BY DEF X
    <3>2. o.size \in Nat \ {0} /\ Good(o.st) /\ ~o.st.rec.halted
      BY <2>2, <3>1, AsideCalm DEF Evolve
    <3>3. /\ Aside(o.st, p.st, {}) /\ p.res \in {"ok", "reject", "maybe"}
          /\ Net(p.st) = Net(o.st) + IF p.res = "ok" THEN Worth(leg, buy, o.size) ELSE 0
      BY <3>2, PlaceTakerOutcome
    <3>4. Aside(s, p.st, {})
      BY <3>1, <3>3, AsideTrans
    <3>5. p.st \in State /\ Net(o.st) \in Int
      BY <3>1, <3>3, AsideCalm, GoodType, NetType
    <3> HIDE DEF Rung
    <3>6. CASE p.res = "ok"
      <4>1. lots - (o.left - o.size) = (lots - o.left) + o.size /\ lots - o.left \in Int
        BY <3>1
      <4>2. Worth(leg, buy, lots - (o.left - o.size)) = Worth(leg, buy, lots - o.left) + Worth(leg, buy, o.size)
            /\ Worth(leg, buy, lots - o.left) \in Int /\ Worth(leg, buy, o.size) \in Int
        <5> DEFINE k == lots - (o.left - o.size)
                   m == lots - o.left
                   z == o.size
        <5>1. k \in Int /\ m \in Int /\ z \in Int /\ k =< m + z /\ m + z =< k
          BY <3>1
        <5> HIDE DEF k, m, z
        <5>2. Worth(leg, buy, k) = Worth(leg, buy, m) + Worth(leg, buy, z)
              /\ Worth(leg, buy, m) \in Int /\ Worth(leg, buy, z) \in Int
          BY <5>1, WorthAdd
        <5> QED
          BY <5>2 DEF k, m, z
      <4>3. o.left - o.size \in Nat /\ o.left - o.size =< lots
            /\ Min2(o.size, o.left - o.size) \in Int /\ Min2(o.size, o.left - o.size) =< o.left - o.size
        BY <3>1, <3>2 DEF Min2
      <4>4. Fits(p.st, o.left - o.size, Min2(o.size, o.left - o.size))
        BY <1>1, <3>1, <3>3, <3>4, <3>6, <4>1, <4>2, <4>3
      <4>5. Next1(o, p) = [ st |-> p.st, left |-> o.left - o.size,
                             size |-> Min2(o.size, o.left - o.size), done |-> o.left = o.size ]
        BY <3>6
      <4> HIDE DEF Fits, Next1
      <4> QED
        BY <3>5, <4>3, <4>4, <4>5
    <3>7. CASE p.res = "maybe"
      <4>1. Fits(p.st, o.left, o.size)
        BY <3>1, <3>3, <3>4, <3>5, <3>7
      <4>2. Next1(o, p) = [st |-> p.st, left |-> o.left, size |-> o.size, done |-> TRUE]
        BY <3>1, <3>7
      <4> HIDE DEF Fits, Next1
      <4> QED
        BY <3>1, <3>5, <4>1, <4>2
    <3>8. CASE p.res = "reject"
      <4>1. Fits(p.st, o.left, o.size - LotStep) /\ o.size - LotStep \in Int
        BY <3>1, <3>3, <3>4, <3>5, <3>8, Constants
      <4>2. Next1(o, p) = [st |-> p.st, left |-> o.left, size |-> o.size - LotStep, done |-> o.done]
        BY <3>1, <3>8
      <4> HIDE DEF Fits, Next1
      <4> QED
        BY <3>1, <3>5, <4>1, <4>2
    <3> QED
      BY <3>3, <3>6, <3>7, <3>8
  <2> QED
    BY <2>1, <2>2
<1>4. r \in Loop(n, S, Rung)
  BY DEF ShrinkTakerChase
<1> HIDE DEF S, X, Rung, n
<1>5. P[n] = X
  BY <1>1
<1>6. n \in Nat
  BY <1>1
<1>7. S \subseteq P[0]
  BY <1>1, <1>2
<1>8. \A i \in 1..n : \A o \in P[i - 1] : Rung(o, i) \subseteq P[i]
  BY <1>1, <1>3
<1> HIDE DEF P
<1> DEFINE F == [i \in 1..n |-> [o \in P[i - 1] |-> Rung(o, i)]]
           Is(g) == g = [i \in 0..n |-> IF i = 0 THEN S ELSE UNION {Rung(o, i) : o \in g[i - 1]}]
           it == CHOOSE g : Is(g)
<1>9. \A i \in 1..n : \A o \in P[i - 1] : F[i][o] = Rung(o, i)
  BY <1>6
<1> HIDE DEF F
<1>10. PICK g : Run(g, n, S, F) /\ Within(n, g, P)
  <2>1. Preserves(n, S, F, P)
    BY <1>7, <1>8, <1>9 DEF Preserves
  <2> QED
    BY <1>6, <2>1, LoopExists
<1>11. Is(g)
  <2>1. ASSUME NEW i \in 1..n PROVE g[i] = UNION {Rung(o, i) : o \in g[i - 1]}
    <3>1. \A o \in g[i - 1] : F[i][o] = Rung(o, i)
      BY <1>6, <1>9, <1>10 DEF Within
    <3>2. \A y : y \in g[i] <=> \E o \in g[i - 1] : y \in F[i][o]
      BY <1>10 DEF Run
    <3>3. \A y : y \in g[i] <=> \E o \in g[i - 1] : y \in Rung(o, i)
      BY <3>1, <3>2
    <3> QED
      BY <3>3
  <2>2. ASSUME NEW i \in 0..n
        PROVE  g[i] = IF i = 0 THEN S ELSE UNION {Rung(o, i) : o \in g[i - 1]}
    <3>1. CASE i = 0
      BY <1>10, <3>1 DEF Run
    <3>2. CASE i # 0
      <4>1. i \in 1..n
        BY <3>2
      <4>2. g[i] = UNION {Rung(o, i) : o \in g[i - 1]}
        BY <4>1, <2>1
      <4> QED
        BY <4>2, <3>2, Zenon
    <3> QED
      BY <3>1, <3>2
  <2> QED
    BY <2>2, <1>10 DEF Run
<1>12. Is(it)
  <2> HIDE DEF Is
  <2> QED
    BY <1>11
<1> HIDE DEF it
<1>13. it[n] \subseteq P[n]
  <2>1. it[0] = S
    BY <1>12, <1>6
  <2>2. ASSUME NEW i \in 1..n, it[i - 1] \subseteq P[i - 1] PROVE it[i] \subseteq P[i]
    <3>1. i \in 0..n /\ i # 0
      BY <1>6
    <3>2. it[i] = UNION {Rung(o, i) : o \in it[i - 1]}
      BY <1>12, <3>1, Zenon
    <3> HIDE DEF Is
    <3> QED
      BY <3>2, <2>2, <1>8
  <2> HIDE DEF Is
  <2>3. it[0] \subseteq P[0]
    BY <2>1, <1>7
  <2>4. Within(n, it, P)
    BY <1>6, <2>2, <2>3, LoopStays
  <2> QED
    BY <2>4, <1>6 DEF Within
<1> HIDE DEF Is
<1>14. Loop(n, S, Rung) = it[n]
  BY DEF Loop, it, Is
<1>15. r \in X
  BY <1>4, <1>5, <1>13, <1>14
<1> QED
  BY <1>15 DEF X

LEMMA TakerRetryFromOutcome ==
    ASSUME NEW s, Good(s), ~s.rec.halted, NEW from \in {0, 1},
           NEW leg \in Leg, NEW buy \in BOOLEAN, NEW lots \in Nat \ {0},
           NEW t \in TakerRetryFrom(s, leg, buy, lots, from)
    PROVE  Hedged(s, t, leg, buy, lots)
<1>1. CASE LotStep = 0
  BY <1>1, TakerRetryPlainOutcome DEF TakerRetryFrom
<1>2. CASE LotStep # 0
  <2>1. PICK o \in ShrinkTakerChase(s, leg, buy, lots) :
           t \in IF o.left = 0 THEN {o.st} ELSE TakerRetryPlain(o.st, leg, buy, o.left, from)
    BY <1>2 DEF TakerRetryFrom
  <2>2. /\ o.left \in 0..lots /\ Aside(s, o.st, {})
        /\ Net(o.st) = Net(s) + Worth(leg, buy, lots - o.left)
    BY ShrinkTakerChaseOutcome
  <2>3. CASE o.left = 0
    BY <2>1, <2>2, <2>3 DEF Hedged
  <2>4. CASE o.left # 0
    <3>1. Good(o.st) /\ ~o.st.rec.halted
      BY <2>2, AsideCalm DEF Evolve
    <3>2. o.left \in Nat \ {0} /\ t \in TakerRetryPlain(o.st, leg, buy, o.left, from)
      BY <2>1, <2>2, <2>4
    <3>3. Aside(o.st, t, {}) /\ Net(t) = Net(o.st) + Worth(leg, buy, o.left)
      BY <3>1, <3>2, TakerRetryPlainOutcome DEF Hedged
    <3>4. Aside(s, t, {})
      BY <2>2, <3>3, AsideTrans
    <3>5. Worth(leg, buy, lots) = Worth(leg, buy, lots - o.left) + Worth(leg, buy, o.left)
          /\ Worth(leg, buy, lots - o.left) \in Int /\ Worth(leg, buy, o.left) \in Int
      <4> DEFINE m == lots - o.left
      <4>1. lots \in Int /\ m \in Int /\ o.left \in Int /\ lots = m + o.left
        BY <3>2
      <4> HIDE DEF m
      <4>2. Worth(leg, buy, lots) = Worth(leg, buy, m) + Worth(leg, buy, o.left)
            /\ Worth(leg, buy, m) \in Int /\ Worth(leg, buy, o.left) \in Int
        BY <4>1, WorthAdd
      <4> QED
        BY <4>2 DEF m
    <3>6. Net(s) \in Int
      BY GoodType, NetType
    <3> QED
      BY <2>2, <3>3, <3>4, <3>5, <3>6 DEF Hedged
  <2> QED
    BY <2>3, <2>4
<1> QED
  BY <1>1, <1>2

(* A hedge that respects the kill-switch. *)
HedgedIfRunning(s, t, leg, buy, lots) ==
    /\ Aside(s, t, {})
    /\ ~s.rec.halted => Net(t) = Net(s) + Worth(leg, buy, lots)

LEMMA TakerRetryOutcome ==
    ASSUME NEW s, Good(s), NEW leg \in Leg, NEW buy \in BOOLEAN, NEW lots \in Nat \ {0},
           NEW t \in TakerRetry(s, leg, buy, lots)
    PROVE  HedgedIfRunning(s, t, leg, buy, lots) /\ Good(t)
<1>1. CASE s.rec.halted
  BY <1>1, AsideRefl DEF TakerRetry, HedgedIfRunning
<1>2. CASE ~s.rec.halted
  <2>1. Hedged(s, t, leg, buy, lots)
    BY <1>2, TakerRetryFromOutcome DEF TakerRetry
  <2>2. Good(t)
    BY <2>1, HedgedGood
  <2> QED
    BY <2>1, <2>2 DEF Hedged, HedgedIfRunning
<1> QED
  BY <1>1, <1>2

LEMMA TopUpOutcome ==
    ASSUME NEW s, Good(s), NEW leg \in Leg, NEW buy \in BOOLEAN, NEW lots \in Nat,
           NEW t \in TopUp(s, leg, buy, lots)
    PROVE  HedgedIfRunning(s, t, leg, buy, lots) /\ Good(t)
<1>1. CASE lots = 0
  <2>1. t = s
    BY <1>1 DEF TopUp
  <2>2. Net(s) = Net(s) + Worth(leg, buy, 0)
    BY WorthZero, NetType, GoodType
  <2> QED
    BY <1>1, <2>1, <2>2, AsideRefl DEF HedgedIfRunning
<1>2. CASE lots # 0
  BY <1>2, TakerRetryOutcome DEF TopUp
<1> QED
  BY <1>1, <1>2

(* A stray fill of a maker is undone on the other leg. *)
LEMMA HedgeStrayOutcome ==
    ASSUME NEW s, Good(s), NEW leg \in Leg, NEW buy \in BOOLEAN, NEW lots \in Nat,
           leg = "B" => HedgeRatio = 1,
           NEW t \in HedgeStrayMakerFill(s, leg, buy, lots)
    PROVE  /\ Aside(s, t, {}) /\ Good(t)
           /\ ~s.rec.halted => Net(t) = Net(s) - Worth(leg, buy, lots)
<1> DEFINE other == Other(leg)
           n == HedgeLots(other, lots)
<1>1. n \in Nat /\ other \in Leg /\ (~buy) \in BOOLEAN
  <2>1. other \in Leg
    BY DEF Leg, Other
  <2>2. n \in Nat
    <3> HIDE DEF other
    <3> QED
      BY HedgeLotsType
  <2>3. (~buy) \in BOOLEAN
    OBVIOUS
  <2> QED
    BY <2>1, <2>2, <2>3
<1>2. t \in TopUp(s, other, ~buy, n)
  BY DEF HedgeStrayMakerFill
<1>3. Worth(other, ~buy, n) = -Worth(leg, buy, lots)
  <2>1. HedgeRatio \in Nat /\ lots * HedgeRatio = HedgeRatio * lots /\ HedgeRatio * lots \in Int
    BY Constants
  <2>2. CASE leg = "A"
    BY <2>1, <2>2 DEF Worth, Sign, HedgeLots, Other
  <2>3. CASE leg = "B"
    BY <2>1, <2>3 DEF Worth, Sign, HedgeLots, Other
  <2> QED
    BY <2>2, <2>3 DEF Leg
<1> HIDE DEF n, other
<1>4. Aside(s, t, {}) /\ Good(t) /\ (~s.rec.halted => Net(t) = Net(s) + Worth(other, ~buy, n))
  BY <1>1, <1>2, TopUpOutcome DEF HedgedIfRunning
<1>5. Net(s) \in Int /\ Worth(leg, buy, lots) \in Int
  BY NetType, GoodType, WorthType
<1> QED
  BY <1>3, <1>4, <1>5

-----------------------------------------------------------------------------
(* Takers awaiting confirmation. *)

(* An account learns its terminal count. *)
Recount(a, f, c) == [a EXCEPT !.final = f, !.credited = c]

LEMMA RecountFields ==
    ASSUME NEW a \in Acct, NEW f \in Nat, NEW c \in Nat
    PROVE  LET b == Recount(a, f, c)
           IN  /\ b \in Acct
               /\ b.final = f /\ b.credited = c /\ b.seen = a.seen
               /\ b.folded = a.folded /\ b.maker = a.maker /\ b.leg = a.leg /\ b.buy = a.buy
               /\ b.placed = a.placed /\ b.deferred = a.deferred /\ b.overdue = a.overdue
<1>1. f \in Int
  OBVIOUS
<1> QED
  BY <1>1 DEF Acct, Recount

SettledAt(s, id, count, r) ==
    [ SetAcct(s, id, Recount(s.own[id], count, count))
        EXCEPT !.pending = @ \ {id}, !.rec = r ]

(* What the recovery machine has to do, or must not do, is the same; and   *)
(* the ledger and the Decider's book are.                                  *)
Duty(s, t) ==
    /\ t.rec.halted = s.rec.halted /\ t.rec.impaired = s.rec.impaired
    /\ t.rec.retireQ = s.rec.retireQ /\ t.rec.debts = s.rec.debts

Undisturbed(s, t) == t.sink = s.sink /\ t.book = s.book /\ Duty(s, t)

(* What is settled of a taker is no longer in the balance. *)
TakerSettled(s, t, id, count) ==
    /\ Aside(s, t, {id})
    /\ count = s.own[id].placed => Undisturbed(s, t)
    /\ Net(t) = Net(s) - Worth(s.own[id].leg, s.own[id].buy, s.own[id].placed - count)
    /\ t.own[id].final = count /\ t.own[id].seen = s.own[id].seen

LEMMA SettleFields ==
    ASSUME NEW s, Good(s), NEW id \in s.pending, NEW count \in Nat, NEW r,
           LET a == s.own[id]
               o == s.orders[id]
           IN  /\ a.seen =< count /\ count =< a.placed /\ o.exec =< count
               /\ count = a.placed \/ ~o.live
               /\ "dup" \notin FaultKinds => count =< o.exec,
           r \in {ResetDeadStreak(s.rec), IncrementDeadStreak(s.rec)}
    PROVE  TakerSettled(s, SettledAt(s, id, count, r), id, count)
<1> DEFINE a == s.own[id]
           b == Recount(a, count, count)
           u == SetAcct(s, id, b)
           t == [u EXCEPT !.pending = @ \ {id}, !.rec = r]
<1>1. id \in DOMAIN s.own /\ ~a.maker /\ a.final < 0
  BY DEF Good
<1>2. /\ s \in State /\ a \in Acct /\ s.orders[id] \in OrderType /\ OrderOK(s.orders[id])
      /\ AcctOK(a, s.orders[id]) /\ s.rec \in Machine /\ s.moves \in Nat /\ id \in 1..Len(s.orders)
  BY <1>1, GoodType
<1>3. a.credited = a.placed /\ a.placed \in Nat /\ a.leg \in Leg /\ a.buy \in BOOLEAN
  BY <1>1, <1>2 DEF AcctOK, Acct
<1>4. /\ b \in Acct /\ b.final = count /\ b.credited = count /\ b.seen = a.seen
      /\ b.folded = a.folded /\ b.maker = a.maker /\ b.leg = a.leg /\ b.buy = a.buy
      /\ b.placed = a.placed /\ b.deferred = a.deferred /\ b.overdue = a.overdue
  <2> HIDE DEF a
  <2> QED
    BY <1>2, RecountFields, ZenonT(40)
<1>5. AcctOK(b, s.orders[id])
  <2>1. /\ a.seen \in Nat /\ s.orders[id].exec \in Nat /\ a.folded \in Nat
    BY <1>2 DEF Acct, OrderType
  <2> DEFINE o == s.orders[id]
  <2>2. /\ a.leg = o.leg /\ a.buy = o.buy /\ a.placed = o.size
        /\ a.seen =< a.placed /\ a.folded =< a.placed /\ ~a.deferred
        /\ "dup" \notin FaultKinds => a.seen =< o.sent
        /\ "kill" \notin FaultKinds /\ ~a.maker /\ ~o.live => o.exec = o.size
    BY <1>1, <1>2 DEF AcctOK
  <2> HIDE DEF b, a, o
  <2>3. Max2(count, b.seen) = count
    BY <1>4, <2>1, <2>2 DEF Max2, a
  <2> QED
    BY <1>1, <1>3, <1>4, <2>1, <2>2, <2>3 DEF AcctOK, o, a
<1> HIDE DEF b
<1>6. /\ u \in State
      /\ DOMAIN u.own = DOMAIN s.own /\ u.own[id] = b
      /\ \A j \in DOMAIN s.own : j # id => u.own[j] = s.own[j]
      /\ \A l \in Leg : u.sink[l] = s.sink[l] + IF l = b.leg THEN Sign(b.buy) * (b.credited - s.own[id].credited) ELSE 0
      /\ u.pending = s.pending /\ u.clip = s.clip /\ u.book = s.book /\ u.rec = s.rec
      /\ u.orders = s.orders /\ u.faults = s.faults /\ u.moves = s.moves
  BY <1>1, <1>2, <1>4, SetAcctFields
<1>7. /\ r \in Machine /\ r.halted = s.rec.halted /\ r.impaired = s.rec.impaired
      /\ r.retireQ = s.rec.retireQ /\ r.debts = s.rec.debts
  BY <1>2, StreakFields
<1>8. u.pending \ {id} \subseteq Nat
  BY <1>6, StateType
<1> HIDE DEF u
<1>9. /\ t \in State /\ t.pending = s.pending \ {id} /\ t.rec = r /\ t.own = u.own
      /\ t.sink = u.sink /\ t.clip = u.clip /\ t.orders = u.orders /\ t.moves = u.moves
      /\ t.book = u.book
  BY <1>6, <1>7, <1>8 DEF State
<1> HIDE DEF t
<1>10. Amended(s, t, id)
  <2>1. a.folded \in Nat /\ s.moves =< s.moves /\ a.folded =< b.folded /\ a.seen =< b.seen
    BY <1>2, <1>4 DEF Acct
  <2>3. \A l \in Leg : t.sink[l] = s.sink[l]
           + IF l = s.own[id].leg THEN Sign(s.own[id].buy) * (t.own[id].credited - s.own[id].credited) ELSE 0
    BY <1>4, <1>6, <1>9
  <2>2. ~s.own[id].maker /\ t.own[id].final >= 0 /\ ~(s.own[id].final >= 0)
    BY <1>1, <1>2, <1>4, <1>6, <1>9 DEF Acct
  <2> QED
    BY <1>2, <1>4, <1>5, <1>6, <1>7, <1>9, <2>1, <2>2, <2>3 DEF Amended
<1>11. ~(t.own[id].final < 0)
  BY <1>4, <1>6, <1>9
<1>12. Aside(s, t, {id})
  <2>1. t.rec.retireQ = s.rec.retireQ /\ t.rec.debts = s.rec.debts /\ t.rec.impaired = s.rec.impaired
    BY <1>7, <1>9
  <2> QED
    BY <1>1, <1>9, <1>10, <1>11, <2>1, AmendedAside
<1>13. Net(t) = Net(s) + Worth(a.leg, a.buy, count - a.placed)
  <2>1. \A l \in Leg : t.sink[l] = s.sink[l] + IF l = a.leg THEN Sign(a.buy) * (count - a.placed) ELSE 0
    BY <1>3, <1>4, <1>6, <1>9
  <2> DEFINE k == count - a.placed
  <2>2. k \in Int
    BY <1>3
  <2> HIDE DEF k
  <2>3. Net(t) = Net(s) + Worth(a.leg, a.buy, k)
    BY <1>2, <1>3, <1>7, <1>9, <2>1, <2>2, NetCredit, SMTT(30) DEF k
  <2> QED
    BY <2>3 DEF k
<1>14. Worth(a.leg, a.buy, count - a.placed) = -Worth(a.leg, a.buy, a.placed - count)
  BY <1>3, Constants DEF Worth, Sign
<1>15. Net(s) \in Int /\ Worth(a.leg, a.buy, a.placed - count) \in Int
  BY <1>2, <1>3, NetType, WorthType
<1>16. ASSUME count = a.placed PROVE Undisturbed(s, t)
  <2>1. b.credited - s.own[id].credited = 0 /\ Sign(b.buy) * 0 = 0
    BY <1>3, <1>4, <1>16 DEF Sign
  <2>2. s.sink \in [Leg -> Int] /\ u.sink \in [Leg -> Int]
    BY <1>2, <1>6, StateType
  <2>3. u.sink = s.sink
    BY <1>6, <2>1, <2>2
  <2> QED
    BY <1>6, <1>7, <1>9, <2>3 DEF Undisturbed, Duty
<1> QED
  BY <1>4, <1>6, <1>9, <1>12, <1>13, <1>14, <1>15, <1>16 DEF t, u, b, TakerSettled, SettledAt

(* A taker that ended is settled: what it left short is hedged again. *)
Settles(s, t, id) ==
    /\ Aside(s, t, {id}) /\ Good(t)
    /\ ~s.rec.halted => Net(t) = Net(s)
    /\ FaultKinds = {} => Undisturbed(s, t)

LEMMA UndisturbedTrans ==
    ASSUME NEW s, NEW t, NEW u, Undisturbed(s, t), Undisturbed(t, u)
    PROVE  Undisturbed(s, u)
BY DEF Undisturbed, Duty

LEMMA SettleTakerAtOutcome ==
    ASSUME NEW s, Good(s), NEW id \in s.pending, ~s.orders[id].live,
           NEW t \in SettleTakerAt(s, id)
    PROVE  Settles(s, t, id)
<1> DEFINE a == s.own[id]
           exec == s.orders[id].exec
           count == SettledCount(a, exec)
           short == Shortfall(a, exec)
           r == IF short > 0 THEN IncrementDeadStreak(s.rec) ELSE ResetDeadStreak(s.rec)
           u == SettledAt(s, id, count, r)
<1>1. id \in DOMAIN s.own /\ ~a.maker /\ a.final < 0
  BY DEF Good
<1>2. /\ s \in State /\ a \in Acct /\ s.orders[id] \in OrderType /\ OrderOK(s.orders[id])
      /\ AcctOK(a, s.orders[id]) /\ s.rec \in Machine
  BY <1>1, GoodType
<1>3. /\ a.credited = a.placed /\ a.placed \in Nat /\ a.seen \in Nat /\ exec \in Nat
      /\ a.leg \in Leg /\ a.buy \in BOOLEAN /\ exec =< a.placed /\ a.seen =< a.placed
  BY <1>1, <1>2 DEF AcctOK, OrderOK, Acct, OrderType
<1>4. /\ count \in Nat /\ a.seen =< count /\ count =< a.placed /\ exec =< count
      /\ short = a.placed - count /\ short \in Nat
  BY <1>3 DEF SettledCount, Shortfall, Min2, Max2
<1>14. "dup" \notin FaultKinds => count =< exec
  <2>1. "dup" \notin FaultKinds => a.seen =< exec
    BY <1>2, <1>3 DEF AcctOK, OrderOK, OrderType
  <2> QED
    BY <1>3, <2>1 DEF SettledCount, Min2, Max2
<1>5. SettleTaker(a, exec) = Recount(a, count, count)
  <2>1. Min2(a.credited, count) = count
    BY <1>3, <1>4 DEF Min2
  <2> QED
    BY <1>2, <2>1 DEF SettleTaker, Acct, Recount
<1>6. t \in IF short > 0 /\ u.rec.streak >= TakerDeadLimit
            THEN {OweHedge(u, a.leg, a.buy, short)} ELSE TopUp(u, a.leg, a.buy, short)
  <2>1. SetAcct(s, id, SettleTaker(a, exec)).rec = s.rec
    BY DEF SetAcct, State
  <2>2. u = [ SetAcct(s, id, SettleTaker(a, exec))
                 EXCEPT !.pending = @ \ {id},
                        !.rec = IF short > 0 THEN IncrementDeadStreak(@)
                                ELSE ResetDeadStreak(@) ]
    BY <1>5, <2>1 DEF SettledAt
  <2> HIDE DEF u
  <2> QED
    BY <2>2 DEF SettleTakerAt
<1>15. FaultKinds = {} => count = a.placed /\ short = 0
  <2>1. FaultKinds = {} => exec = a.placed
    BY <1>1, <1>2 DEF AcctOK
  <2> QED
    BY <1>3, <2>1 DEF SettledCount, Shortfall, Min2, Max2
<1> HIDE DEF count, short
<1>7. r \in {ResetDeadStreak(s.rec), IncrementDeadStreak(s.rec)}
  OBVIOUS
<1> HIDE DEF r
<1>8. TakerSettled(s, u, id, count)
  BY <1>4, <1>7, <1>14, SettleFields
<1> HIDE DEF u
<1>9. Good(u) /\ Aside(s, u, {id}) /\ u.rec.halted = s.rec.halted
  BY <1>8, AsideCalm DEF TakerSettled, Evolve
<1>10. Net(u) = Net(s) - Worth(a.leg, a.buy, short)
  BY <1>4, <1>8 DEF TakerSettled
<1>11. Aside(u, t, {}) /\ Good(t) /\ (~u.rec.halted => Net(t) = Net(u) + Worth(a.leg, a.buy, short))
  <2>1. CASE short > 0 /\ u.rec.streak >= TakerDeadLimit
    <3>1. Hedged(u, t, a.leg, a.buy, short)
      BY <1>3, <1>4, <1>6, <1>9, <2>1, OweHedgeOutcome
    <3> QED
      BY <3>1, HedgedGood DEF Hedged
  <2>2. CASE ~(short > 0 /\ u.rec.streak >= TakerDeadLimit)
    BY <1>3, <1>4, <1>6, <1>9, <2>2, TopUpOutcome DEF HedgedIfRunning
  <2> QED
    BY <2>1, <2>2
<1>12. Aside(s, t, {id})
  BY <1>9, <1>11, AsideTrans
<1>13. Net(s) \in Int /\ Worth(a.leg, a.buy, short) \in Int
  BY <1>2, <1>4, NetType, WorthType
<1>16. FaultKinds = {} => Undisturbed(s, t)
  BY <1>6, <1>8, <1>15 DEF TopUp, TakerSettled
<1> QED
  BY <1>9, <1>10, <1>11, <1>12, <1>13, <1>16 DEF Settles

LEMMA CheckTakerOutcome ==
    ASSUME NEW s, Good(s), NEW id \in s.pending,
           s.own[id].seen >= s.own[id].placed \/ ~s.orders[id].live,
           NEW t \in CheckTaker(s, id)
    PROVE  Settles(s, t, id)
<1> DEFINE a == s.own[id]
<1>1. id \in DOMAIN s.own /\ ~a.maker /\ a.final < 0
  BY DEF Good
<1>2. /\ s \in State /\ a \in Acct /\ OrderOK(s.orders[id]) /\ s.orders[id] \in OrderType
      /\ AcctOK(a, s.orders[id])
  BY <1>1, GoodType
<1>3. CASE a.seen >= a.placed
  <2> DEFINE u == SettledAt(s, id, a.placed, ResetDeadStreak(s.rec))
  <2>1. /\ a.credited = a.placed /\ a.placed \in Nat /\ a.seen \in Nat /\ a.seen =< a.placed
        /\ s.orders[id].exec =< a.placed /\ a.leg \in Leg /\ a.buy \in BOOLEAN
    BY <1>1, <1>2 DEF AcctOK, OrderOK, Acct, OrderType
  <2>2. ConfirmByStream(a) = Recount(a, a.placed, a.placed)
    BY <1>2, <2>1 DEF ConfirmByStream, Acct, Recount
  <2>3. t = u
    <3>1. SetAcct(s, id, ConfirmByStream(a)).rec = s.rec
      BY DEF SetAcct, State
    <3> QED
      BY <1>3, <2>2, <3>1 DEF CheckTaker, SettledAt
  <2> HIDE DEF u
  <2>7. "dup" \notin FaultKinds => a.placed =< s.orders[id].exec
    BY <1>2, <1>3, <2>1 DEF AcctOK, OrderOK, OrderType
  <2>4. TakerSettled(s, u, id, a.placed)
    BY <1>3, <2>1, <2>7, SettleFields DEF u
  <2>5. Worth(a.leg, a.buy, a.placed - a.placed) = 0
    BY <2>1, WorthZero
  <2>6. Net(s) \in Int
    BY <1>2, NetType
  <2> QED
    BY <2>3, <2>4, <2>5, <2>6, AsideCalm DEF TakerSettled, Settles
<1>4. CASE ~(a.seen >= a.placed)
  <2>1. CASE t \in SettleTakerAt(s, id)
    BY <1>4, <2>1, SettleTakerAtOutcome
  <2>2. CASE t \notin SettleTakerAt(s, id)
    <3>1. PICK o \in Faulty(s, "silent", {[st |-> s]}) : t = o.st
      BY <1>4, <2>2 DEF CheckTaker
    <3>2. s.faults > 0 /\ t = [s EXCEPT !.faults = @ - 1]
      BY <3>1, FaultyOutcome
    <3>3. Aside(s, t, {}) /\ Net(t) = Net(s)
      BY <3>2, SpentFields
    <3> QED
      BY <3>1, <3>3, AsideWider, AsideCalm, FaultyOutcome DEF Settles
  <2> QED
    BY <2>1, <2>2
<1> QED
  BY <1>3, <1>4

(* Takers that may be settled together: nothing else depends on which. *)
LEMMA CheckPendingTakersOutcome ==
    ASSUME NEW s, Good(s), NEW probe \in BOOLEAN, NEW t \in CheckPendingTakers(s, probe)
    PROVE  /\ Aside(s, t, DOMAIN s.own) /\ Good(t)
           /\ Aside(s, t, s.pending)
           /\ ~s.rec.halted => Net(t) = Net(s)
           /\ FaultKinds = {} => Undisturbed(s, t)
<1> DEFINE U == Resolvable(s, probe)
           Visit(o, id) ==
              IF o.stop THEN {o}
              ELSE { [ st |-> u,
                       stop |-> /\ u.rec.halted /\ u.own[id].final >= 0
                                /\ u.own[id].seen < u.own[id].placed ] :
                     u \in CheckTaker(o.st, id) }
<1>1. PICK q \in SetToSeqs(U) :
         \E x \in Loop(Len(q), {[st |-> s, stop |-> FALSE]}, LAMBDA o, i : Visit(o, q[i])) : t = x.st
  BY DEF CheckPendingTakers
<1> DEFINE n == Len(q)
           S == {[st |-> s, stop |-> FALSE]}
           Step(o, i) == Visit(o, q[i])
           K(i) == {q[j] : j \in 1..i}
           Keeps(u, i) == /\ Aside(s, u, K(i)) /\ (~s.rec.halted => Net(u) = Net(s))
                          /\ FaultKinds = {} => Undisturbed(s, u)
           X(i) == {o \in [st : State, stop : BOOLEAN] : Keeps(o.st, i)}
           P == [i \in 0..n |-> X(i)]
<1>2. /\ s \in State /\ U \subseteq s.pending /\ s.pending \subseteq DOMAIN s.own
      /\ DOMAIN s.own \subseteq 1..Len(s.orders) /\ Len(s.orders) \in Nat
  BY GoodType DEF Resolvable, Good
<1>3. /\ n \in Nat /\ \A i \in 1..n : q[i] \in U
      /\ \A i, j \in 1..n : i # j => q[i] # q[j]
  <2>1. IsFiniteSet(U)
    <3>1. U \subseteq 1..Len(s.orders)
      BY <1>2
    <3>2. IsFiniteSet(1..Len(s.orders))
      BY <1>2, FS_Interval
    <3> HIDE DEF U
    <3> QED
      BY <3>1, <3>2, FS_Subset
  <2>2. Cardinality(U) \in Nat
    BY <2>1, FS_CardinalityType
  <2>3. q \in [1..Cardinality(U) -> U] /\ \A i, j \in 1..Cardinality(U) : i # j => q[i] # q[j]
    BY DEF SetToSeqs
  <2>4. q \in Seq(U) /\ Len(q) = Cardinality(U)
    <3> DEFINE c == Cardinality(U)
    <3> HIDE DEF U
    <3>1. c \in Nat /\ q \in [1..c -> U]
      BY <2>2, <2>3
    <3> HIDE DEF c
    <3>2. q \in Seq(U)
      BY <3>1, SeqDef
    <3>3. Len(q) = c
      BY <3>1, <3>2, LenProperties
    <3> QED
      BY <3>2, <3>3 DEF c
  <2> QED
    BY <2>2, <2>3, <2>4
<1>4. S \subseteq X(0)
  <2>1. Keeps(s, 0)
    BY AsideRefl DEF Undisturbed, Duty
  <2> HIDE DEF Keeps
  <2> QED
    BY <1>2, <2>1
<1>5. ASSUME NEW i \in 1..n, NEW o \in X(i - 1) PROVE Step(o, i) \subseteq X(i)
  <2>1. o.st \in State /\ o.stop \in BOOLEAN /\ Keeps(o.st, i - 1) /\ o = [st |-> o.st, stop |-> o.stop]
    OBVIOUS
  <2>2. K(i - 1) \subseteq K(i) /\ q[i] \in K(i) /\ q[i] \notin K(i - 1)
    <3>1. i \in Int /\ n \in Nat /\ i - 1 \in Int /\ (i - 1) + 1 = i /\ 1..(i - 1) \subseteq 1..i /\ i \in 1..i
      BY <1>3
    <3>2. \A j \in 1..(i - 1) : j \in 1..n /\ j # i
      BY <1>3
    <3> HIDE DEF n
    <3> QED
      BY <1>3, <3>1, <3>2
  <2> HIDE DEF K
  <2>3. CASE o.stop
    <3>1. Keeps(o.st, i)
      BY <2>1, <2>2, AsideWider
    <3> HIDE DEF Keeps
    <3> QED
      BY <2>1, <2>3, <3>1
  <2>4. CASE ~o.stop
    <3> DEFINE id == q[i]
               b(u) == /\ u.rec.halted /\ u.own[id].final >= 0
                       /\ u.own[id].seen < u.own[id].placed
    <3>11. Step(o, i) = {[st |-> u, stop |-> b(u)] : u \in CheckTaker(o.st, id)}
      BY <2>4
    <3> SUFFICES ASSUME NEW u \in CheckTaker(o.st, id)
                 PROVE  [st |-> u, stop |-> b(u)] \in X(i)
      <4> HIDE DEF X, Step, b, id
      <4> QED
        BY <3>11
    <3>1. id \in s.pending /\ id \in DOMAIN s.own /\ (s.own[id].seen >= s.own[id].placed \/ ~s.orders[id].live)
      BY <1>2, <1>3 DEF Resolvable
    <3>2. Aside(s, o.st, K(i - 1)) /\ Good(o.st) /\ Evolve(s, o.st)
      BY <2>1, AsideCalm
    <3>3. o.st.own[id] = s.own[id] /\ o.st.orders[id] = s.orders[id] /\ id \in DOMAIN o.st.own
      BY <2>2, <3>1, <3>2 DEF Aside, Evolve
    <3>4. id \in o.st.pending
      BY <3>1, <3>2, <3>3 DEF Good
    <3>5. Settles(o.st, u, id)
      BY <3>1, <3>2, <3>3, <3>4, CheckTakerOutcome
    <3>6. Aside(s, u, K(i))
      <4>1. Aside(s, o.st, K(i)) /\ {id} \subseteq K(i)
        BY <2>2, <3>2, AsideWider
      <4> QED
        BY <3>5, <4>1, AsideTrans DEF Settles
    <3>7. ~s.rec.halted => Net(u) = Net(s)
      BY <2>1, <3>2, <3>5 DEF Settles, Evolve
    <3>8. u \in State
      BY <3>5, GoodType DEF Settles
    <3>9. b(u) \in BOOLEAN
      OBVIOUS
    <3>12. FaultKinds = {} => Undisturbed(s, u)
      BY <2>1, <3>5, UndisturbedTrans DEF Settles
    <3>10. Keeps(u, i)
      BY <3>6, <3>7, <3>12
    <3> HIDE DEF Keeps, b
    <3> QED
      BY <3>8, <3>9, <3>10
  <2> QED
    BY <2>3, <2>4
<1>6. PICK x \in Loop(n, S, Step) : t = x.st
  BY <1>1 DEF Loop
<1> HIDE DEF S, X, Step, n
<1>7. n \in Nat
  BY <1>3
<1>8. S \subseteq P[0]
  BY <1>4, <1>7
<1>9. \A i \in 1..n : \A o \in P[i - 1] : Step(o, i) \subseteq P[i]
  <2>1. \A i \in 1..n : P[i - 1] = X(i - 1) /\ P[i] = X(i)
    BY <1>7
  <2> HIDE DEF P
  <2> QED
    BY <1>5, <2>1
<1>10. P[n] = X(n)
  BY <1>7
<1> HIDE DEF P
<1>11. n \in Nat
  BY <1>7
<1>12. S \subseteq P[0]
  BY <1>8
<1>13. \A i \in 1..n : \A o \in P[i - 1] : Step(o, i) \subseteq P[i]
  BY <1>9
<1> DEFINE F == [i \in 1..n |-> [o \in P[i - 1] |-> Step(o, i)]]
           Is(g) == g = [i \in 0..n |-> IF i = 0 THEN S ELSE UNION {Step(o, i) : o \in g[i - 1]}]
           it == CHOOSE g : Is(g)
<1>14. \A i \in 1..n : \A o \in P[i - 1] : F[i][o] = Step(o, i)
  BY <1>11
<1> HIDE DEF F
<1>15. PICK g : Run(g, n, S, F) /\ Within(n, g, P)
  <2>1. Preserves(n, S, F, P)
    BY <1>12, <1>13, <1>14 DEF Preserves
  <2> QED
    BY <1>11, <2>1, LoopExists
<1>16. Is(g)
  <2>1. ASSUME NEW i \in 1..n PROVE g[i] = UNION {Step(o, i) : o \in g[i - 1]}
    <3>1. \A o \in g[i - 1] : F[i][o] = Step(o, i)
      BY <1>11, <1>14, <1>15 DEF Within
    <3>2. \A y : y \in g[i] <=> \E o \in g[i - 1] : y \in F[i][o]
      BY <1>15 DEF Run
    <3>3. \A y : y \in g[i] <=> \E o \in g[i - 1] : y \in Step(o, i)
      BY <3>1, <3>2
    <3> QED
      BY <3>3
  <2>2. ASSUME NEW i \in 0..n
        PROVE  g[i] = IF i = 0 THEN S ELSE UNION {Step(o, i) : o \in g[i - 1]}
    <3>1. CASE i = 0
      BY <1>15, <3>1 DEF Run
    <3>2. CASE i # 0
      <4>1. i \in 1..n
        BY <3>2
      <4>2. g[i] = UNION {Step(o, i) : o \in g[i - 1]}
        BY <4>1, <2>1
      <4> QED
        BY <4>2, <3>2, Zenon
    <3> QED
      BY <3>1, <3>2
  <2> QED
    BY <2>2, <1>15 DEF Run
<1>17. Is(it)
  <2> HIDE DEF Is
  <2> QED
    BY <1>16
<1> HIDE DEF it
<1>18. it[n] \subseteq P[n]
  <2>1. it[0] = S
    BY <1>17, <1>11
  <2>2. ASSUME NEW i \in 1..n, it[i - 1] \subseteq P[i - 1] PROVE it[i] \subseteq P[i]
    <3>1. i \in 0..n /\ i # 0
      BY <1>11
    <3>2. it[i] = UNION {Step(o, i) : o \in it[i - 1]}
      BY <1>17, <3>1, Zenon
    <3> HIDE DEF Is
    <3> QED
      BY <3>2, <2>2, <1>13
  <2> HIDE DEF Is
  <2>3. it[0] \subseteq P[0]
    BY <2>1, <1>12
  <2>4. Within(n, it, P)
    BY <1>11, <2>2, <2>3, LoopStays
  <2> QED
    BY <2>4, <1>11 DEF Within
<1> HIDE DEF Is
<1>19. Loop(n, S, Step) = it[n]
  BY DEF Loop, it, Is
<1>20. x \in X(n)
  BY <1>6, <1>10, <1>18, <1>19
<1>21. Keeps(t, n)
  BY <1>6, <1>20 DEF X
<1>22. K(n) \subseteq s.pending /\ K(n) \subseteq DOMAIN s.own
  BY <1>2, <1>3
<1> HIDE DEF K
<1>23. Aside(s, t, K(n))
  BY <1>21
<1> QED
  BY <1>21, <1>22, <1>23, AsideWider, AsideCalm

-----------------------------------------------------------------------------
(* Retiring makers. *)

(* Account a of an order o is restated as b. *)
Restates(a, b, o) ==
    /\ AcctOK(b, o)
    /\ b.maker = a.maker /\ b.leg = a.leg /\ b.buy = a.buy /\ b.placed = a.placed
    /\ a.folded =< b.folded /\ a.seen =< b.seen
    /\ a.final >= 0 => b.final >= 0
    /\ b.final < 0 => b.deferred = a.deferred
    /\ ~a.maker /\ a.final < 0 => b.final < 0

LEMMA SetAcctAside ==
    ASSUME NEW s, Good(s), NEW id \in DOMAIN s.own, NEW b \in Acct,
           Restates(s.own[id], b, s.orders[id])
    PROVE  LET t == SetAcct(s, id, b)
           IN  /\ Aside(s, t, {id}) /\ Good(t)
               /\ Net(t) = Net(s) + Worth(b.leg, b.buy, b.credited - s.own[id].credited)
               /\ t.own[id] = b /\ t.orders = s.orders /\ t.rec = s.rec
               /\ b.final >= 0 => id \notin Working(t)
<1> DEFINE a == s.own[id]
           t == SetAcct(s, id, b)
           k == b.credited - a.credited
<1>1. /\ s \in State /\ a \in Acct /\ s.orders[id] \in OrderType /\ OrderOK(s.orders[id])
      /\ s.moves \in Nat /\ id \in 1..Len(s.orders)
  BY GoodType
<1>2. /\ t \in State
      /\ DOMAIN t.own = DOMAIN s.own /\ t.own[id] = b
      /\ \A j \in DOMAIN s.own : j # id => t.own[j] = s.own[j]
      /\ \A l \in Leg : t.sink[l] = s.sink[l] + IF l = b.leg THEN Sign(b.buy) * k ELSE 0
      /\ t.pending = s.pending /\ t.clip = s.clip /\ t.book = s.book /\ t.rec = s.rec
      /\ t.orders = s.orders /\ t.faults = s.faults /\ t.moves = s.moves
  BY <1>1, SetAcctFields
<1>3. /\ a.final \in Int /\ b.final \in Int /\ b.credited \in Nat /\ a.credited \in Nat
      /\ b.leg \in Leg /\ b.buy \in BOOLEAN /\ a.maker \in BOOLEAN
  BY <1>1 DEF Acct
<1> HIDE DEF t
<1>4. Amended(s, t, id)
  <2>1. t.pending = IF ~s.own[id].maker /\ t.own[id].final >= 0 THEN s.pending \ {id} ELSE s.pending
    <3>1. ~s.own[id].maker /\ t.own[id].final >= 0 => id \notin s.pending
      BY <1>2, <1>3 DEF Restates, Good
    <3> QED
      BY <1>2, <3>1
  <2>2. \A l \in Leg : t.sink[l] = s.sink[l]
           + IF l = s.own[id].leg THEN Sign(s.own[id].buy) * (t.own[id].credited - s.own[id].credited) ELSE 0
    BY <1>2 DEF Restates
  <2> QED
    BY <1>1, <1>2, <2>1, <2>2 DEF Amended, Restates
<1>5. Aside(s, t, {id}) /\ (t.own[id].final >= 0 => id \notin Working(t))
  <2>1. t.own[id].final < 0 => t.own[id].deferred = s.own[id].deferred
    BY <1>2 DEF Restates
  <2>2. t.rec.retireQ = s.rec.retireQ /\ t.rec.debts = s.rec.debts /\ t.rec.impaired = s.rec.impaired
    BY <1>2
  <2> QED
    BY <1>2, <1>4, <2>1, <2>2, AmendedAside
<1>6. Net(t) = Net(s) + Worth(b.leg, b.buy, k)
  <2>1. k \in Int
    BY <1>3
  <2> HIDE DEF k
  <2> QED
    BY <1>1, <1>2, <1>3, <2>1, NetCredit
<1> QED
  BY <1>2, <1>5, <1>6, AsideCalm DEF t

(* What the account of a retired maker says. *)
Answer(a, o) == IF a.final >= 0 THEN a ELSE FinishRetire(a, o.exec)
Closed(a, o) == [FoldGap(Answer(a, o)) EXCEPT !.deferred = FALSE]

(* The maker has been retired, or its order has ended as far as an answer  *)
(* of the broker's tells.                                                  *)
Ended(a, o) == a.final >= 0 \/ "async" \in FaultKinds \/ ~o.live

LEMMA ClosedAccount ==
    ASSUME NEW a \in Acct, NEW o \in OrderType, OrderOK(o), AcctOK(a, o), a.maker = TRUE
    PROVE  LET b == Closed(a, o)
               gap == RetireGap(Answer(a, o))
           IN  /\ b \in Acct /\ (Ended(a, o) => Restates(a, b, o)) /\ b.final >= 0
               /\ gap \in Nat /\ gap = b.credited - a.credited /\ gap =< a.placed /\ gap =< b.folded
               /\ b.leg = a.leg /\ b.buy = a.buy
               /\ Answer(a, o).leg = a.leg /\ Answer(a, o).buy = a.buy
               /\ ~a.deferred => FoldGap(Answer(a, o)) = b
<1> DEFINE b == Closed(a, o)
           gap == RetireGap(Answer(a, o))
<1>1. /\ a.maker \in BOOLEAN /\ a.leg \in Leg /\ a.buy \in BOOLEAN /\ a.placed \in Nat
      /\ a.folded \in Nat /\ a.seen \in Nat /\ a.credited \in Nat /\ a.final \in Int
      /\ a.deferred \in BOOLEAN /\ o.exec \in Nat /\ o.size \in Nat
  BY DEF Acct, OrderType
<1>2. CASE a.final >= 0
  <2>1. Answer(a, o) = a /\ a.folded >= a.final /\ ~a.deferred
    BY <1>1, <1>2 DEF Answer, AcctOK
  <2>2. FoldGap(a) = a
    <3>1. Max2(a.folded, a.final) = a.folded
      BY <1>1, <2>1 DEF Max2
    <3> QED
      BY <3>1 DEF FoldGap, Acct
  <2>3. b = a
    BY <2>1, <2>2 DEF Closed, Acct
  <2>4. gap = 0
    BY <1>1, <2>1 DEF RetireGap, Max2
  <2>5. Restates(a, a, o)
    BY <1>1 DEF Restates
  <2> QED
    BY <1>1, <1>2, <2>1, <2>2, <2>3, <2>4, <2>5
<1>3. CASE a.final < 0
  <2> DEFINE count == Min2(o.exec, a.placed)
             top == Max2(a.credited, count)
             e == Recount(a, count, top)
             g == [e EXCEPT !.folded = Max2(a.folded, count)]
             h == [g EXCEPT !.deferred = FALSE]
  <2>1. /\ a.credited = a.seen /\ a.folded = a.seen /\ a.seen =< a.placed
        /\ a.placed = o.size /\ o.exec =< o.size
    BY <1>1, <1>3 DEF AcctOK, OrderOK, Max2
  <2>2. count \in Nat /\ count =< a.placed /\ top \in Nat /\ top =< a.placed /\ top = Max2(a.folded, count)
        /\ top = Max2(count, a.seen) /\ count = o.exec
    BY <1>1, <2>1 DEF Min2, Max2
  <2> HIDE DEF count, top
  <2>3. Answer(a, o) = e
    BY <1>1, <1>3 DEF Answer, FinishRetire, Recount, count, top
  <2>4. /\ e \in Acct /\ e.final = count /\ e.credited = top /\ e.folded = a.folded
        /\ e.maker = a.maker /\ e.leg = a.leg /\ e.buy = a.buy /\ e.placed = a.placed
        /\ e.seen = a.seen /\ e.deferred = a.deferred /\ e.overdue = a.overdue
    <3>1. count \in Nat /\ top \in Nat
      BY <2>2
    <3> HIDE <2>2
    <3> QED
      BY <3>1, RecountFields
  <2> HIDE DEF e
  <2>5. FoldGap(e) = g
    BY <2>4 DEF FoldGap
  <2>6. g = [e EXCEPT !.folded = top]
    BY <2>2
  <2> HIDE DEF g
  <2>7. /\ g \in Acct /\ g.final = count /\ g.credited = top /\ g.folded = top
        /\ g.maker = a.maker /\ g.leg = a.leg /\ g.buy = a.buy /\ g.placed = a.placed
        /\ g.seen = a.seen /\ g.deferred = a.deferred /\ g.overdue = a.overdue
    BY <2>2, <2>4, <2>6 DEF Acct
  <2>8. /\ h \in Acct /\ h.final = count /\ h.credited = top /\ h.folded = top
        /\ h.maker = a.maker /\ h.leg = a.leg /\ h.buy = a.buy /\ h.placed = a.placed
        /\ h.seen = a.seen /\ h.deferred = FALSE
    BY <2>7 DEF Acct
  <2>9. ~a.deferred => h = g
    BY <2>7 DEF Acct
  <2> HIDE DEF h
  <2>10. b = h
    BY <2>3, <2>5 DEF Closed, h
  <2>11. gap = top - a.credited /\ gap \in Nat /\ gap =< a.placed /\ gap =< top
    BY <1>1, <2>1, <2>2, <2>3, <2>4 DEF RetireGap, Max2
  <2>12. ASSUME Ended(a, o) PROVE AcctOK(h, o)
    <3>1. /\ h.placed = o.size /\ h.seen =< h.placed /\ h.folded =< h.placed
          /\ -1 =< h.final /\ h.final =< h.placed
      BY <1>1, <2>1, <2>2, <2>8
    <3>2. h.maker /\ h.final >= 0 /\ ~(h.final < 0) /\ h.folded >= h.final /\ h.credited = Max2(h.final, h.seen)
      BY <1>1, <2>1, <2>2, <2>8 DEF Max2
    <3>3. (h.leg = "B" => HedgeRatio = 1) /\ ~h.deferred /\ ("dup" \notin FaultKinds => h.seen =< o.sent)
      BY <2>8 DEF AcctOK
    <3>4. h.leg = o.leg /\ h.buy = o.buy
      BY <2>8 DEF AcctOK
    <3>5. h.final = o.exec /\ h.final =< o.exec /\ ("async" \in FaultKinds \/ ~o.live)
      BY <1>1, <1>3, <2>2, <2>8, <2>12 DEF Ended
    <3> QED
      BY <3>1, <3>2, <3>3, <3>4, <3>5 DEF AcctOK
  <2>13. Ended(a, o) => Restates(a, h, o)
    BY <1>1, <1>3, <2>1, <2>2, <2>8, <2>12 DEF Restates, Max2
  <2> QED
    BY <1>1, <2>2, <2>3, <2>4, <2>5, <2>8, <2>9, <2>10, <2>11, <2>13
<1> QED
  BY <1>1, <1>2, <1>3

(* The broker is asked about a maker: nothing but its order has changed. *)
Asked(s, t, id) ==
    /\ Aside(s, t, {id}) /\ Good(t)
    /\ t.own = s.own /\ t.rec = s.rec /\ t.sink = s.sink
    /\ t.orders[id].exec = s.orders[id].exec /\ t.orders[id].sent = s.orders[id].sent

LEMMA EndedFields ==
    ASSUME NEW s, Good(s), NEW id \in DOMAIN s.own, s.own[id].maker = TRUE
    PROVE  LET t == [s EXCEPT !.orders[id].live = FALSE]
           IN  Asked(s, t, id) /\ t.faults = s.faults /\ ~t.orders[id].live
<1> DEFINE o == s.orders[id]
           p == [o EXCEPT !.live = FALSE]
           q == [s.orders EXCEPT ![id] = p]
           t == [s EXCEPT !.orders = q]
           a == s.own[id]
<1>1. /\ s \in State /\ o \in OrderType /\ OrderOK(o) /\ AcctOK(a, o) /\ a \in Acct
      /\ id \in 1..Len(s.orders) /\ Len(s.orders) \in Nat /\ s.moves \in Nat
      /\ s.orders \in Seq(OrderType)
  BY GoodType
<1>2. /\ p \in OrderType /\ p.exec = o.exec /\ p.sent = o.sent /\ p.size = o.size
      /\ p.leg = o.leg /\ p.buy = o.buy /\ ~p.live
  BY <1>1 DEF OrderType
<1>3. [s EXCEPT !.orders[id].live = FALSE] = t
  BY DEF State
<1> HIDE DEF p
<1>4. /\ q \in Seq(OrderType) /\ Len(q) = Len(s.orders) /\ q[id] = p
      /\ \A j \in 1..Len(s.orders) : j # id => q[j] = s.orders[j]
  BY <1>1, <1>2, ExceptSeq
<1> HIDE DEF q
<1>5. /\ t \in State /\ t.orders = q
      /\ t.own = s.own /\ t.rec = s.rec /\ t.sink = s.sink /\ t.faults = s.faults
      /\ t.pending = s.pending /\ t.clip = s.clip /\ t.moves = s.moves
  BY <1>1, <1>4 DEF State
<1> HIDE DEF t
<1>6. OrderOK(p) /\ AcctOK(a, p)
  BY <1>1, <1>2 DEF OrderOK, AcctOK
<1>7. /\ a.folded =< a.folded /\ a.seen =< a.seen /\ s.moves =< s.moves
      /\ a.credited \in Int /\ s.sink \in [Leg -> Int]
  <2>1. s.sink \in [Leg -> Int]
    BY GoodType
  <2> QED
    BY <1>1, <2>1 DEF Acct
<1>10. \A l \in Leg : t.sink[l] = s.sink[l]
          + IF l = s.own[id].leg THEN Sign(s.own[id].buy) * (t.own[id].credited - s.own[id].credited) ELSE 0
  <2>1. a.credited - a.credited = 0 /\ Sign(a.buy) * 0 = 0
    BY <1>7 DEF Sign
  <2>2. \A l \in Leg : s.sink[l] = s.sink[l] + 0
    BY <1>7
  <2> QED
    BY <1>5, <2>1, <2>2
<1>8. Amended(s, t, id)
  BY <1>2, <1>4, <1>5, <1>6, <1>7, <1>10 DEF Amended
<1>9. Aside(s, t, {id})
  BY <1>5, <1>8, AmendedAside
<1> QED
  BY <1>2, <1>3, <1>4, <1>5, <1>9, AsideCalm DEF Asked

LEMMA AskTerminalOutcome ==
    ASSUME NEW s, Good(s), NEW id \in DOMAIN s.own, s.own[id].maker = TRUE,
           NEW o \in AskTerminal(s, id)
    PROVE  /\ Asked(s, o.st, id) /\ o.answered \in BOOLEAN
           /\ o.answered => "async" \in FaultKinds \/ ~o.st.orders[id].live
<1> DEFINE ended == [s EXCEPT !.orders[id].live = FALSE]
           Out(st, answered) == [st |-> st, answered |-> answered]
<1>1. Asked(s, ended, id) /\ ended.faults = s.faults /\ ~ended.orders[id].live
  BY EndedFields
<1>2. Asked(s, s, id)
  BY AsideRefl DEF Asked
<1>3. ASSUME NEW x \in {s, ended}, NEW b \in BOOLEAN, NEW k, NEW T \in SUBSET {Out(s, b), Out(ended, b)},
             o \in Faulty(s, k, T)
      PROVE  Asked(s, o.st, id) /\ o.answered = b /\ k \in FaultKinds
  <2>1. PICK p \in T : o = [p EXCEPT !.st.faults = @ - 1] /\ s.faults > 0 /\ k \in FaultKinds
    BY <1>3, FaultyOutcome
  <2>2. PICK y \in {s, ended} : p = Out(y, b)
    BY <2>1
  <2> HIDE DEF ended
  <2>3. o = [st |-> [y EXCEPT !.faults = @ - 1], answered |-> b]
    BY <2>1, <2>2
  <2>4. Asked(s, y, id) /\ y.faults = s.faults
    BY <1>1, <1>2
  <2>5. Good(y) /\ y.faults > 0
    BY <2>1, <2>4 DEF Asked
  <2> DEFINE u == [y EXCEPT !.faults = @ - 1]
  <2>6. Aside(y, u, {}) /\ u.own = y.own /\ u.orders = y.orders /\ u.rec = y.rec /\ u.sink = y.sink
    BY <2>5, SpentFields
  <2> HIDE DEF u
  <2>7. Aside(s, u, {id}) /\ Good(u)
    BY <2>4, <2>6, AsideTrans, AsideCalm DEF Asked
  <2>8. Asked(s, u, id)
    BY <2>4, <2>6, <2>7 DEF Asked
  <2> QED
    BY <2>1, <2>3, <2>8 DEF u
<1>4. \/ o = Out(ended, TRUE)
      \/ o \in Faulty(s, "async", {Out(s, TRUE)})
      \/ o \in Faulty(s, "silent", {Out(s, FALSE), Out(ended, FALSE)})
  BY DEF AskTerminal
<1>5. CASE o = Out(ended, TRUE)
  BY <1>1, <1>5
<1>6. CASE o # Out(ended, TRUE)
  <2> HIDE DEF ended, Out
  <2> QED
    BY <1>3, <1>4, <1>6
<1> QED
  BY <1>5, <1>6

(* A maker is retired: the lots that no fill event has acted on are now    *)
(* credited and the caller's to pair.                                      *)
Retired(s, r, id) ==
    /\ Good(r.st) /\ Evolve(s, r.st) /\ r.st.clip = s.clip
    /\ Working(r.st) \subseteq Working(s) \ {id}
    /\ \A j \in DOMAIN s.own \ {id} : r.st.own[j] = s.own[j]
    /\ r.gap \in Nat
    /\ Net(r.st) = Net(s) + IF id \in DOMAIN s.own THEN Worth(s.own[id].leg, s.own[id].buy, r.gap) ELSE 0
    /\ r.gap > 0 => id \in DOMAIN s.own /\ r.gap =< s.own[id].placed /\ r.gap =< r.st.own[id].folded

(* An order whose broker does not answer is queued for retirement. *)
LEMMA DeferredFields ==
    ASSUME NEW s, Good(s), NEW id \in DOMAIN s.own, s.own[id].maker = TRUE, s.own[id].final < 0
    PROVE  LET t == [s EXCEPT !.own[id].deferred = TRUE, !.rec = QueueRetire(@, id)]
           IN  /\ Good(t) /\ Evolve(s, t) /\ t.clip = s.clip
               /\ Working(t) \subseteq Working(s) \ {id}
               /\ \A j \in DOMAIN s.own \ {id} : t.own[j] = s.own[j]
               /\ Net(t) = Net(s)
<1> DEFINE a == s.own[id]
           b == [a EXCEPT !.deferred = TRUE]
           x == [s.own EXCEPT ![id] = b]
           m == QueueRetire(s.rec, id)
           t == [s EXCEPT !.own = x, !.rec = m]
<1>1. /\ s \in State /\ a \in Acct /\ OrderOK(s.orders[id]) /\ AcctOK(a, s.orders[id])
      /\ id \in Nat /\ s.own \in Accts /\ s.rec \in Machine /\ DOMAIN s.own \subseteq 1..Len(s.orders)
      /\ Len(s.orders) \in Nat /\ s.moves \in Nat /\ DOMAIN s.own \subseteq Nat
  BY GoodType
<1>2. /\ m \in Machine /\ m.halted = s.rec.halted /\ m.debts = s.rec.debts
      /\ m.retireQ = Append(s.rec.retireQ, id) /\ (m.impaired \/ m.halted)
  BY <1>1, QueueRetireFields
<1>3. /\ b \in Acct /\ b.maker = a.maker /\ b.leg = a.leg /\ b.buy = a.buy /\ b.placed = a.placed
      /\ b.folded = a.folded /\ b.seen = a.seen /\ b.credited = a.credited /\ b.final = a.final
      /\ b.deferred = TRUE
  BY <1>1 DEF Acct
<1>4. [s EXCEPT !.own[id].deferred = TRUE, !.rec = QueueRetire(@, id)] = t
  BY DEF State
<1> HIDE DEF b, m
<1>5. x \in Accts /\ DOMAIN x = DOMAIN s.own /\ x[id] = b /\ \A j \in DOMAIN s.own \ {id} : x[j] = s.own[j]
  <2>1. /\ x = [j \in DOMAIN s.own |-> x[j]] /\ DOMAIN x = DOMAIN s.own /\ x[id] = b
        /\ \A j \in DOMAIN s.own \ {id} : x[j] = s.own[j]
    OBVIOUS
  <2>2. \A j \in DOMAIN s.own : x[j] \in Acct
    BY <1>1, <1>3, AcctsType
  <2> HIDE DEF x
  <2> QED
    BY <2>1, <2>2, <1>1, AcctsIntro
<1> HIDE DEF x
<1>6. /\ t \in State /\ t.own = x /\ t.rec = m
      /\ t.orders = s.orders /\ t.sink = s.sink /\ t.pending = s.pending
      /\ t.clip = s.clip /\ t.moves = s.moves
  BY <1>1, <1>2, <1>5 DEF State
<1> HIDE DEF t
<1>7. AcctOK(b, s.orders[id])
  BY <1>1, <1>3 DEF AcctOK
<1>8. \A j \in DOMAIN s.own :
         /\ t.own[j].maker = s.own[j].maker /\ t.own[j].leg = s.own[j].leg /\ t.own[j].buy = s.own[j].buy
         /\ t.own[j].placed = s.own[j].placed /\ t.own[j].folded = s.own[j].folded /\ t.own[j].final = s.own[j].final
         /\ t.own[j].seen = s.own[j].seen /\ t.own[j].credited = s.own[j].credited
  BY <1>3, <1>5, <1>6
<1>9. Evolve(s, t)
  <2>1. \A j \in DOMAIN s.own : s.own[j].folded \in Nat /\ s.own[j].seen \in Nat
    BY <1>1, AcctsType DEF Acct
  <2> QED
    BY <1>1, <1>2, <1>5, <1>6, <1>8, <2>1 DEF Evolve
<1>10. Working(t) \subseteq Working(s) \ {id} /\ Deferred(t) \subseteq Deferred(s) \cup {id}
  BY <1>3, <1>5, <1>6 DEF Working, Deferred
<1>11. Net(t) = Net(s)
  BY <1>2, <1>6, NetSame
<1>12. Good(t)
  <2> DEFINE n == Len(s.rec.retireQ)
             q == t.rec.retireQ
  <2>1. s.rec.retireQ \in Seq(Nat) /\ n \in Nat
    BY <1>1, MachineType, LenProperties
  <2>2. Len(q) = n + 1 /\ q[n + 1] = id /\ \A i \in 1..n : q[i] = s.rec.retireQ[i]
    BY <1>1, <1>2, <1>6, <2>1, AppendProperties
  <2>3. \A j \in DOMAIN t.own : AcctOK(t.own[j], t.orders[j])
    BY <1>5, <1>6, <1>7 DEF Good
  <2>4. t.pending = {j \in DOMAIN t.own : ~t.own[j].maker /\ t.own[j].final < 0}
    BY <1>5, <1>6, <1>8 DEF Good
  <2>5. \A i \in 1..Len(q) : q[i] \in DOMAIN t.own /\ t.own[q[i]].maker = TRUE
    <3>1. \A i \in 1..n : s.rec.retireQ[i] \in DOMAIN s.own /\ s.own[s.rec.retireQ[i]].maker
      BY DEF Good
    <3>2. \A i \in 1..n : q[i] \in DOMAIN t.own /\ t.own[q[i]].maker
      BY <3>1, <2>2, <1>5, <1>6, <1>8
    <3>3. \A i \in 1..n : t.own[q[i]].maker \in BOOLEAN
      BY <3>2, <1>6, GoodType, StateType DEF Acct
    <3>4. t.own[id].maker = TRUE
      BY <1>8
    <3> HIDE DEF n, q
    <3> QED
      BY <2>1, <2>2, <3>2, <3>3, <3>4, <1>5, <1>6
  <2>6. \A j \in Deferred(t) : \E i \in 1..Len(q) : q[i] = j
    <3>1. \A j \in Deferred(s) : \E i \in 1..n : s.rec.retireQ[i] = j
      BY DEF Good
    <3> HIDE DEF n, q
    <3> QED
      BY <2>1, <2>2, <3>1, <1>10
  <2>7. Tallied(t)
    <3>1. t.own[id].credited - s.own[id].credited = 0 /\ s.sink \in [Leg -> Int]
      BY <1>1, <1>8, GoodType DEF Acct
    <3> DEFINE z == t.own[id].credited - s.own[id].credited
    <3>2. \A leg \in Leg : TermOn(s.orders[id], leg, z) = 0
      BY <3>1 DEF TermOn, Sign
    <3> HIDE DEF z
    <3>3. \A leg \in Leg : t.sink[leg] = s.sink[leg] + TermOn(s.orders[id], leg, z)
      BY <3>1, <3>2, <1>6
    <3>4. Tallied(s)
      BY DEF Good
    <3> QED
      BY <1>1, <1>5, <1>6, <1>8, <3>3, <3>4, TallyAmended DEF z
  <2> QED
    BY <1>1, <1>2, <1>5, <1>6, <2>3, <2>4, <2>5, <2>6, <2>7 DEF Good
<1> QED
  BY <1>4, <1>5, <1>6, <1>9, <1>10, <1>11, <1>12 DEF t, m, b, x

LEMMA RetireOrderOutcome ==
    ASSUME NEW s, Good(s), NEW id, id \in DOMAIN s.own => s.own[id].maker = TRUE,
           NEW r \in RetireOrder(s, id)
    PROVE  Retired(s, r, id)
<1> DEFINE a == s.own[id]
           o == s.orders[id]
           b == Closed(a, o)
           gap == RetireGap(Answer(a, o))
<1>1. s \in State /\ Net(s) \in Int
  BY GoodType, NetType
<1>2. CASE id \notin DOMAIN s.own
  <2>1. r = [st |-> s, gap |-> 0] /\ id \notin Working(s)
    BY <1>2 DEF RetireOrder, Working
  <2> QED
    BY <1>1, <1>2, <2>1, EvolveRefl DEF Retired
<1>3. CASE id \in DOMAIN s.own /\ a.deferred
  <2>1. r = [st |-> s, gap |-> 0] /\ id \notin Working(s)
    BY <1>3 DEF RetireOrder, Working
  <2>2. Net(s) = Net(s) + Worth(a.leg, a.buy, 0)
    BY <1>1, WorthZero
  <2> QED
    BY <1>3, <2>1, <2>2, EvolveRefl DEF Retired
<1>4. CASE id \in DOMAIN s.own /\ ~a.deferred
  <2>1. a \in Acct /\ o \in OrderType /\ OrderOK(o) /\ AcctOK(a, o) /\ a.maker = TRUE
    BY <1>4, GoodType
  <2>2. /\ b \in Acct /\ (Ended(a, o) => Restates(a, b, o)) /\ b.final >= 0
        /\ gap \in Nat /\ gap = b.credited - a.credited /\ gap =< a.placed /\ gap =< b.folded
        /\ FoldGap(Answer(a, o)) = b
        /\ b.leg = a.leg /\ b.buy = a.buy
    BY <1>4, <2>1, ClosedAccount
  <2>3. b.leg = a.leg /\ b.buy = a.buy
    BY <2>2
  <2> HIDE DEF b, gap
  <2>4. ASSUME NEW t, Asked(s, t, id), Ended(a, t.orders[id]), NEW u, u = [st |-> SetAcct(t, id, b), gap |-> gap]
        PROVE  Retired(s, u, id)
    <3> DEFINE v == SetAcct(t, id, b)
    <3>1. Good(t) /\ t.own = s.own /\ t.rec = s.rec /\ t.sink = s.sink /\ Aside(s, t, {id})
      BY <2>4 DEF Asked
    <3>2. id \in DOMAIN t.own /\ t.own[id] = a
      BY <1>4, <3>1
    <3>3. OrderOK(t.orders[id]) /\ AcctOK(a, t.orders[id]) /\ t.orders[id].exec = o.exec /\ t.orders[id] \in OrderType
      BY <2>4, <3>1, <3>2, GoodType DEF Asked
    <3>4. Closed(a, t.orders[id]) = b
      BY <3>3 DEF Closed, Answer, b
    <3>5. Restates(a, b, t.orders[id])
      BY <2>1, <2>4, <3>3, <3>4, ClosedAccount
    <3>6. /\ Aside(t, v, {id}) /\ Good(v)
          /\ Net(v) = Net(t) + Worth(b.leg, b.buy, b.credited - a.credited)
          /\ v.rec = t.rec /\ (b.final >= 0 => id \notin Working(v)) /\ v.own[id] = b
      <4>1. b \in Acct /\ Restates(t.own[id], b, t.orders[id])
        BY <2>2, <3>2, <3>5
      <4>2. Good(t) /\ id \in DOMAIN t.own
        BY <3>1, <3>2
      <4> HIDE <2>2, <3>1, <3>5
      <4> QED
        BY <4>1, <4>2, <3>2, SetAcctAside, SMTT(30)
    <3> HIDE DEF v
    <3>7. Aside(s, v, {id})
      BY <3>1, <3>6, AsideTrans
    <3>11. id \notin Working(v)
      BY <2>2, <3>6
    <3>8. Net(v) = Net(s) + Worth(a.leg, a.buy, gap)
      BY <2>2, <2>3, <3>1, <3>6, NetSame
    <3>9. u.st = v /\ u.gap = gap
      BY <2>4 DEF v
    <3>10. \A j \in DOMAIN s.own \ {id} : v.own[j] = s.own[j]
      BY <3>7 DEF Aside
    <3> QED
      BY <1>4, <2>2, <3>6, <3>7, <3>8, <3>9, <3>10, <3>11 DEF Retired, Aside, Calm
  <2>5. CASE a.final >= 0
    <3>1. r = [st |-> SetAcct(s, id, b), gap |-> gap]
      BY <1>4, <2>2, <2>5 DEF RetireOrder, Answer, gap
    <3>2. Asked(s, s, id)
      BY AsideRefl DEF Asked
    <3> QED
      BY <2>4, <2>5, <3>1, <3>2 DEF Ended
  <2>6. CASE ~(a.final >= 0)
    <3>1. PICK x \in AskTerminal(s, id) :
             r = IF x.answered
                 THEN [ st |-> SetAcct(x.st, id, FoldGap(FinishRetire(x.st.own[id], x.st.orders[id].exec))),
                        gap |-> RetireGap(FinishRetire(x.st.own[id], x.st.orders[id].exec)) ]
                 ELSE [ st |-> [x.st EXCEPT !.own[id].deferred = TRUE,
                                            !.rec = QueueRetire(@, id)], gap |-> 0 ]
      BY <1>4, <2>6 DEF RetireOrder
    <3>2. Asked(s, x.st, id) /\ (x.answered => Ended(a, x.st.orders[id]))
      BY <1>4, AskTerminalOutcome DEF Ended
    <3>3. x.st.own[id] = a /\ x.st.orders[id].exec = o.exec /\ DOMAIN x.st.own = DOMAIN s.own
      BY <3>2 DEF Asked
    <3>4. CASE x.answered
      <4>1. r = [st |-> SetAcct(x.st, id, b), gap |-> gap]
        BY <2>2, <2>6, <3>1, <3>3, <3>4 DEF Answer, gap
      <4> QED
        BY <2>4, <3>2, <3>4, <4>1
    <3>5. CASE ~x.answered
      <4> DEFINE v == [x.st EXCEPT !.own[id].deferred = TRUE, !.rec = QueueRetire(@, id)]
      <4>1. r = [st |-> v, gap |-> 0]
        BY <3>1, <3>5
      <4>2. Good(x.st) /\ id \in DOMAIN x.st.own /\ x.st.own[id].maker = TRUE /\ x.st.own[id].final < 0
        <5>1. a.final \in Int
          BY <2>1 DEF Acct
        <5> QED
          BY <1>4, <2>6, <3>2, <3>3, <5>1 DEF Asked
      <4>3. /\ Good(v) /\ Evolve(x.st, v) /\ v.clip = x.st.clip
            /\ Working(v) \subseteq Working(x.st) \ {id}
            /\ \A j \in DOMAIN x.st.own \ {id} : v.own[j] = x.st.own[j]
            /\ Net(v) = Net(x.st)
        BY <4>2, DeferredFields
      <4> HIDE DEF v
      <4>4. Aside(s, x.st, {id}) /\ x.st.own = s.own /\ Net(x.st) = Net(s) /\ Evolve(s, x.st)
        BY <3>2, NetSame, AsideCalm DEF Asked
      <4>5. Evolve(s, v)
        BY <4>2, <4>3, <4>4, EvolveTrans
      <4>6. v.clip = s.clip /\ Working(v) \subseteq Working(s) \ {id}
        BY <4>3, <4>4 DEF Aside, Calm
      <4>7. Net(v) = Net(s) + Worth(a.leg, a.buy, 0)
        BY <1>1, <4>3, <4>4, WorthZero
      <4> QED
        BY <1>4, <4>1, <4>3, <4>4, <4>5, <4>6, <4>7 DEF Retired
    <3> QED
      BY <3>4, <3>5
  <2> QED
    BY <2>5, <2>6
<1> QED
  BY <1>2, <1>3, <1>4

(* A queued retire is asked about again. *)
Retried(s, r, id) ==
    /\ Aside(s, r.st, {id}) /\ Good(r.st)
    /\ ~s.rec.halted => Net(r.st) = Net(s)
    /\ r.done \in BOOLEAN
    /\ r.done => id \notin Deferred(r.st)

LEMMA TryDeferredRetireOutcome ==
    ASSUME NEW s, Good(s), NEW id \in DOMAIN s.own, s.own[id].maker = TRUE,
           NEW r \in TryDeferredRetire(s, id)
    PROVE  Retried(s, r, id)
<1> DEFINE a == s.own[id]
           o == s.orders[id]
           b == Closed(a, o)
           gap == RetireGap(Answer(a, o))
           Settle(t, e) ==
            { [st |-> u, done |-> TRUE] :
                u \in HedgeStrayMakerFill(
                          SetAcct(t, id, [FoldGap(e) EXCEPT !.deferred = FALSE]),
                          e.leg, e.buy, RetireGap(e)) }
<1>1. /\ a \in Acct /\ o \in OrderType /\ OrderOK(o) /\ AcctOK(a, o) /\ a.maker = TRUE
      /\ s \in State /\ Net(s) \in Int
  BY GoodType, NetType
<1>2. /\ b \in Acct /\ (Ended(a, o) => Restates(a, b, o)) /\ b.final >= 0
      /\ b.leg = a.leg /\ b.buy = a.buy
      /\ gap \in Nat /\ gap = b.credited - a.credited
      /\ Answer(a, o).leg = a.leg /\ Answer(a, o).buy = a.buy
  BY <1>1, ClosedAccount
<1>3. b.leg = a.leg /\ b.buy = a.buy
  BY <1>2
<1>4. a.leg \in Leg /\ a.buy \in BOOLEAN /\ (a.leg = "B" => HedgeRatio = 1)
  BY <1>1 DEF Acct, AcctOK
<1> HIDE DEF b, gap
<1>5. ASSUME NEW t, Asked(s, t, id), Ended(a, t.orders[id]), r \in Settle(t, Answer(a, o))
      PROVE  Retried(s, r, id)
  <2> DEFINE v == SetAcct(t, id, b)
  <2>1. PICK u \in HedgeStrayMakerFill(v, a.leg, a.buy, gap) : r = [st |-> u, done |-> TRUE]
    BY <1>2, <1>5 DEF b, gap, Closed
  <2>2. Good(t) /\ t.own = s.own /\ t.rec = s.rec /\ t.sink = s.sink /\ Aside(s, t, {id})
    BY <1>5 DEF Asked
  <2>3. id \in DOMAIN t.own /\ t.own[id] = a
    BY <2>2
  <2>4. OrderOK(t.orders[id]) /\ AcctOK(a, t.orders[id]) /\ t.orders[id].exec = o.exec /\ t.orders[id] \in OrderType
    BY <1>5, <2>2, <2>3, GoodType DEF Asked
  <2>5. Closed(a, t.orders[id]) = b
    BY <2>4 DEF Closed, Answer, b
  <2>6. Restates(a, b, t.orders[id])
    BY <1>1, <1>5, <2>4, <2>5, ClosedAccount
  <2>7. /\ Aside(t, v, {id}) /\ Good(v)
        /\ Net(v) = Net(t) + Worth(b.leg, b.buy, b.credited - a.credited)
        /\ v.rec = t.rec /\ v.own[id] = b
    <3>1. b \in Acct /\ Restates(t.own[id], b, t.orders[id])
      BY <1>2, <2>3, <2>6
    <3>2. Good(t)
      BY <2>2
    <3> HIDE <2>2, <2>6, <1>2
    <3> QED
      BY <2>3, <3>1, <3>2, SetAcctAside, SMTT(30)
  <2> HIDE DEF v
  <2>8. Aside(s, v, {id}) /\ Net(v) = Net(s) + Worth(a.leg, a.buy, gap)
    BY <1>2, <1>3, <2>2, <2>7, AsideTrans, NetSame
  <2>9. /\ Aside(v, u, {}) /\ Good(u)
        /\ ~v.rec.halted => Net(u) = Net(v) - Worth(a.leg, a.buy, gap)
    BY <1>2, <1>4, <2>1, <2>7, HedgeStrayOutcome
  <2>10. Aside(s, u, {id})
    BY <2>8, <2>9, AsideTrans
  <2>11. ~s.rec.halted => Net(u) = Net(s)
    BY <1>1, <1>2, <2>2, <2>7, <2>8, <2>9, WorthType
  <2>12. id \notin Deferred(u)
    <3>1. id \notin Deferred(v)
      <4>1. AcctOK(b, v.orders[id])
        BY <2>2, <2>3, <2>7 DEF Good, Aside, Calm, Evolve
      <4> QED
        BY <1>2, <2>7, <4>1 DEF Deferred, AcctOK, Acct
    <3> QED
      BY <2>9, <3>1 DEF Aside
  <2> QED
    BY <2>1, <2>9, <2>10, <2>11, <2>12 DEF Retried
<1>6. CASE a.final >= 0
  <2>1. Asked(s, s, id)
    BY AsideRefl DEF Asked
  <2>2. r \in Settle(s, Answer(a, o))
    BY <1>6 DEF TryDeferredRetire, Answer
  <2> QED
    BY <1>5, <1>6, <2>1, <2>2 DEF Ended
<1>7. CASE ~(a.final >= 0)
  <2>1. PICK x \in AskTerminal(s, id) :
           r \in IF x.answered THEN Settle(x.st, FinishRetire(a, o.exec)) ELSE {[st |-> x.st, done |-> FALSE]}
    BY <1>7 DEF TryDeferredRetire
  <2>2. Asked(s, x.st, id) /\ (x.answered => Ended(a, x.st.orders[id]))
    BY AskTerminalOutcome DEF Ended
  <2>3. CASE x.answered
    <3>1. r \in Settle(x.st, Answer(a, o))
      BY <1>7, <2>1, <2>3 DEF Answer
    <3> QED
      BY <1>5, <2>2, <2>3, <3>1
  <2>4. CASE ~x.answered
    <3>1. r = [st |-> x.st, done |-> FALSE]
      BY <2>1, <2>4
    <3> QED
      BY <2>2, <3>1, NetSame DEF Asked, Retried
  <2> QED
    BY <2>3, <2>4
<1> QED
  BY <1>6, <1>7

-----------------------------------------------------------------------------
(* The obligation queues. *)

(* A procedure that leaves the clip and the balance of the pair alone. *)
Quiet(s, t) == Calm(s, t) /\ (~s.rec.halted => Net(t) = Net(s))

Makers(s) == {id \in DOMAIN s.own : s.own[id].maker}

LEMMA RequeueFields ==
    ASSUME NEW s, Good(s), NEW keep \in Seq(Nat),
           \A k \in 1..Len(keep) : keep[k] \in Makers(s),
           \A j \in Deferred(s) : \E k \in 1..Len(keep) : keep[k] = j,
           keep # <<>> => s.rec.impaired \/ s.rec.halted
    PROVE  Quiet(s, [s EXCEPT !.rec.retireQ = keep])
<1> DEFINE m == [s.rec EXCEPT !.retireQ = keep]
           t == [s EXCEPT !.rec = m]
<1>1. s \in State /\ s.rec \in Machine
  BY GoodType
<1>2. /\ m \in Machine /\ m.halted = s.rec.halted /\ m.debts = s.rec.debts
      /\ m.impaired = s.rec.impaired /\ m.retireQ = keep
  BY <1>1 DEF Machine
<1>3. [s EXCEPT !.rec.retireQ = keep] = t
  BY DEF State
<1> HIDE DEF m
<1>4. /\ t \in State /\ t.own = s.own /\ t.rec = m
      /\ t.orders = s.orders /\ t.sink = s.sink /\ t.pending = s.pending
      /\ t.clip = s.clip /\ t.moves = s.moves
  BY <1>1, <1>2 DEF State
<1> HIDE DEF t
<1>5. Deferred(t) = Deferred(s) /\ Working(t) = Working(s)
  BY <1>4 DEF Deferred, Working
<1>6. Good(t)
  <2>1. \A k \in 1..Len(t.rec.retireQ) : t.rec.retireQ[k] \in DOMAIN t.own /\ t.own[t.rec.retireQ[k]].maker
    BY <1>2, <1>4 DEF Makers
  <2>2. \A j \in Deferred(t) : \E k \in 1..Len(t.rec.retireQ) : t.rec.retireQ[k] = j
    BY <1>2, <1>4, <1>5
  <2>3. t.rec.retireQ # <<>> \/ t.rec.debts # <<>> => t.rec.impaired \/ t.rec.halted
    BY <1>2, <1>4, QueuesNoticed
  <2>4. Tallied(t)
    BY <1>4 DEF Good, Tallied, Full
  <2> QED
    BY <1>4, <2>1, <2>2, <2>3, <2>4 DEF Good
<1>7. Evolve(s, t)
  BY <1>2, <1>4, EvolveRefl DEF Evolve
<1>8. Net(t) = Net(s)
  BY <1>2, <1>4, NetSame
<1> QED
  BY <1>3, <1>4, <1>5, <1>6, <1>7, <1>8 DEF Quiet, Calm

LEMMA RetryRetiresOutcome ==
    ASSUME NEW s, Good(s), NEW t \in RetryRetires(s)
    PROVE  Quiet(s, t)
<1> DEFINE q == s.rec.retireQ
           n == Len(q)
           S == {[st |-> s, keep |-> <<>>]}
           Retry(o, i) ==
             { [st |-> r.st, keep |-> IF r.done THEN o.keep ELSE Append(o.keep, q[i])] :
               r \in TryDeferredRetire(o.st, q[i]) }
           Kept(u, keep, i) ==
             /\ Len(keep) =< i
             /\ \A k \in 1..Len(keep) : keep[k] \in Makers(s)
             /\ \A j \in Deferred(u) : \/ \E k \in 1..Len(keep) : keep[k] = j
                                       \/ \E k \in (i + 1)..n : q[k] = j
           Steady(u) == Aside(s, u, DOMAIN s.own) /\ (~s.rec.halted => Net(u) = Net(s))
           X(i) == { o \in [st : State, keep : Seq(Nat)] : Steady(o.st) /\ Kept(o.st, o.keep, i) }
           P == [i \in 0..n |-> X(i)]
<1>1. /\ s \in State /\ q \in Seq(Nat) /\ n \in Nat
      /\ \A i \in 1..n : q[i] \in Makers(s)
      /\ \A j \in Deferred(s) : \E k \in 1..n : q[k] = j
      /\ DOMAIN s.own \subseteq Nat
  BY GoodType, MachineType, LenProperties DEF Good, Makers
<1>2. t \in {[o.st EXCEPT !.rec.retireQ = o.keep] : o \in Loop(n, S, Retry)}
  BY DEF RetryRetires
<1> HIDE DEF q, n
<1>3. S \subseteq X(0)
  <2>1. Steady(s)
    BY AsideRefl
  <2>2. Kept(s, <<>>, 0)
    <3>1. Len(<<>>) = 0 /\ 0 + 1 = 1
      BY EmptySeq
    <3> QED
      BY <1>1, <3>1
  <2>3. <<>> \in Seq(Nat)
    BY EmptySeq
  <2> HIDE DEF Steady, Kept
  <2> QED
    BY <1>1, <2>1, <2>2, <2>3
<1>4. ASSUME NEW i \in 1..n, NEW o \in X(i - 1) PROVE Retry(o, i) \subseteq X(i)
  <2> DEFINE id == q[i]
             keep(r) == IF r.done THEN o.keep ELSE Append(o.keep, id)
  <2>1. o.st \in State /\ o.keep \in Seq(Nat) /\ Steady(o.st) /\ Kept(o.st, o.keep, i - 1)
    OBVIOUS
  <2>2. Retry(o, i) = {[st |-> r.st, keep |-> keep(r)] : r \in TryDeferredRetire(o.st, id)}
    OBVIOUS
  <2> SUFFICES ASSUME NEW r \in TryDeferredRetire(o.st, id)
               PROVE  [st |-> r.st, keep |-> keep(r)] \in X(i)
    <3> HIDE DEF X, Retry, id, keep
    <3> QED
      BY <2>2
  <2>3. id \in DOMAIN s.own /\ id \in Makers(s) /\ i \in Nat /\ id \in Nat
    BY <1>1 DEF Makers
  <2>4. Good(o.st) /\ Evolve(s, o.st) /\ o.st.rec.halted = s.rec.halted
    BY <2>1, AsideCalm DEF Evolve
  <2>5. id \in DOMAIN o.st.own /\ o.st.own[id].maker = TRUE
    <3>1. s.own[id].maker \in BOOLEAN
      BY <2>3, GoodType DEF Acct
    <3>2. id \in DOMAIN o.st.own /\ o.st.own[id].maker = s.own[id].maker
      BY <2>3, <2>4 DEF Evolve
    <3> QED
      BY <2>3, <3>1, <3>2 DEF Makers
  <2>6. Retried(o.st, r, id)
    BY <2>4, <2>5, TryDeferredRetireOutcome
  <2>7. Steady(r.st)
    <3>1. Aside(s, r.st, DOMAIN s.own)
      BY <2>1, <2>3, <2>6, AsideTrans DEF Retried
    <3> QED
      BY <2>1, <2>4, <2>6, <3>1 DEF Retried
  <2>8. r.st \in State /\ Deferred(r.st) \subseteq Deferred(o.st) /\ (r.done => id \notin Deferred(r.st)) /\ r.done \in BOOLEAN
    BY <2>6, GoodType DEF Retried, Aside
  <2>9. i - 1 \in Nat /\ Len(o.keep) \in Nat /\ (i - 1) + 1 = i
    BY <2>1, <2>3, LenProperties
  <2>10. \A j \in Deferred(r.st) : \/ \E k \in 1..Len(o.keep) : o.keep[k] = j
                                   \/ j = id
                                   \/ \E k \in (i + 1)..n : q[k] = j
    <3> SUFFICES ASSUME NEW j \in Deferred(r.st), NEW k \in ((i - 1) + 1)..n, q[k] = j
                 PROVE  j = id \/ \E l \in (i + 1)..n : q[l] = j
      BY <2>1, <2>8
    <3>1. k \in i..n
      BY <2>9
    <3>2. k = i \/ k \in (i + 1)..n
      BY <3>1, <1>1
    <3> QED
      BY <3>2
  <2>11. keep(r) \in Seq(Nat) /\ Kept(r.st, keep(r), i)
    <3>1. CASE r.done
      <4>1. keep(r) = o.keep
        BY <3>1
      <4>2. Kept(r.st, o.keep, i)
        <5>1. Len(o.keep) =< i
          BY <2>1, <2>9
        <5> QED
          BY <2>1, <2>8, <2>10, <3>1, <5>1
      <4> HIDE DEF keep, Kept
      <4> QED
        BY <2>1, <4>1, <4>2
    <3>2. CASE ~r.done
      <4> DEFINE z == Append(o.keep, id)
                 m == Len(o.keep)
      <4>1. keep(r) = z
        BY <3>2
      <4>2. z \in Seq(Nat) /\ Len(z) = m + 1 /\ z[m + 1] = id /\ \A k \in 1..m : z[k] = o.keep[k]
        BY <2>1, <2>3, AppendProperties
      <4>3. m \in Nat /\ m + 1 =< i
        BY <2>1, <2>9
      <4>4. \A k \in 1..m : o.keep[k] \in Makers(s)
        BY <2>1
      <4> HIDE DEF z, m, keep
      <4>8. \A k \in 1..Len(z) : k \in 1..m \/ k = m + 1
        BY <4>2, <4>3
      <4>9. 1..m \subseteq 1..Len(z) /\ m + 1 \in 1..Len(z)
        BY <4>2, <4>3
      <4>5. \A k \in 1..Len(z) : z[k] \in Makers(s)
        BY <2>3, <4>2, <4>4, <4>8
      <4>6. \A j \in Deferred(r.st) : \/ \E k \in 1..Len(z) : z[k] = j
                                      \/ \E k \in (i + 1)..n : q[k] = j
        <5> SUFFICES ASSUME NEW j \in Deferred(r.st), NEW k \in 1..m, o.keep[k] = j
                     PROVE  \E l \in 1..Len(z) : z[l] = j
          BY <2>10, <4>2, <4>9 DEF m
        <5> QED
          BY <4>2, <4>9
      <4>7. Kept(r.st, z, i)
        BY <4>2, <4>3, <4>5, <4>6
      <4> HIDE DEF Kept
      <4> QED
        BY <4>1, <4>2, <4>7
    <3> QED
      BY <3>1, <3>2, <2>8
  <2> HIDE DEF keep, Kept, Steady
  <2> QED
    BY <2>7, <2>8, <2>11
<1> HIDE DEF S, X, Retry
<1>5. n \in Nat
  BY <1>1
<1>6. S \subseteq P[0]
  BY <1>3, <1>5
<1>7. \A i \in 1..n : \A o \in P[i - 1] : Retry(o, i) \subseteq P[i]
  <2>1. \A i \in 1..n : P[i - 1] = X(i - 1) /\ P[i] = X(i)
    BY <1>5
  <2> HIDE DEF P
  <2> QED
    BY <1>4, <2>1
<1>8. P[n] = X(n)
  BY <1>5
<1> HIDE DEF P
<1>9. n \in Nat
  BY <1>5
<1>10. S \subseteq P[0]
  BY <1>6
<1>11. \A i \in 1..n : \A o \in P[i - 1] : Retry(o, i) \subseteq P[i]
  BY <1>7
<1> DEFINE F == [i \in 1..n |-> [o \in P[i - 1] |-> Retry(o, i)]]
           Is(g) == g = [i \in 0..n |-> IF i = 0 THEN S ELSE UNION {Retry(o, i) : o \in g[i - 1]}]
           it == CHOOSE g : Is(g)
<1>12. \A i \in 1..n : \A o \in P[i - 1] : F[i][o] = Retry(o, i)
  BY <1>9
<1> HIDE DEF F
<1>13. PICK g : Run(g, n, S, F) /\ Within(n, g, P)
  <2>1. Preserves(n, S, F, P)
    BY <1>10, <1>11, <1>12 DEF Preserves
  <2> QED
    BY <1>9, <2>1, LoopExists
<1>14. Is(g)
  <2>1. ASSUME NEW i \in 1..n PROVE g[i] = UNION {Retry(o, i) : o \in g[i - 1]}
    <3>1. \A o \in g[i - 1] : F[i][o] = Retry(o, i)
      BY <1>9, <1>12, <1>13 DEF Within
    <3>2. \A y : y \in g[i] <=> \E o \in g[i - 1] : y \in F[i][o]
      BY <1>13 DEF Run
    <3>3. \A y : y \in g[i] <=> \E o \in g[i - 1] : y \in Retry(o, i)
      BY <3>1, <3>2
    <3> QED
      BY <3>3
  <2>2. ASSUME NEW i \in 0..n
        PROVE  g[i] = IF i = 0 THEN S ELSE UNION {Retry(o, i) : o \in g[i - 1]}
    <3>1. CASE i = 0
      BY <1>13, <3>1 DEF Run
    <3>2. CASE i # 0
      <4>1. i \in 1..n
        BY <3>2
      <4>2. g[i] = UNION {Retry(o, i) : o \in g[i - 1]}
        BY <4>1, <2>1
      <4> QED
        BY <4>2, <3>2, Zenon
    <3> QED
      BY <3>1, <3>2
  <2> QED
    BY <2>2, <1>13 DEF Run
<1>15. Is(it)
  <2> HIDE DEF Is
  <2> QED
    BY <1>14
<1> HIDE DEF it
<1>16. it[n] \subseteq P[n]
  <2>1. it[0] = S
    BY <1>15, <1>9
  <2>2. ASSUME NEW i \in 1..n, it[i - 1] \subseteq P[i - 1] PROVE it[i] \subseteq P[i]
    <3>1. i \in 0..n /\ i # 0
      BY <1>9
    <3>2. it[i] = UNION {Retry(o, i) : o \in it[i - 1]}
      BY <1>15, <3>1, Zenon
    <3> HIDE DEF Is
    <3> QED
      BY <3>2, <2>2, <1>11
  <2> HIDE DEF Is
  <2>3. it[0] \subseteq P[0]
    BY <2>1, <1>10
  <2>4. Within(n, it, P)
    BY <1>9, <2>2, <2>3, LoopStays
  <2> QED
    BY <2>4, <1>9 DEF Within
<1> HIDE DEF Is
<1>17. Loop(n, S, Retry) = it[n]
  BY DEF Loop, it, Is
<1>18. PICK x \in X(n) : t = [x.st EXCEPT !.rec.retireQ = x.keep]
  BY <1>2, <1>8, <1>16, <1>17
<1>19. x.keep \in Seq(Nat) /\ Steady(x.st) /\ Kept(x.st, x.keep, n)
  BY <1>18 DEF X
<1>20. Good(x.st) /\ Evolve(s, x.st) /\ x.st.rec.halted = s.rec.halted /\ Calm(s, x.st) /\ x.st.rec.retireQ = q
  <2>1. Aside(s, x.st, DOMAIN s.own)
    BY <1>19
  <2>2. x.st.rec.retireQ = q
    BY <2>1 DEF Aside, q
  <2> QED
    BY <2>1, <2>2, AsideCalm DEF Evolve
<1>21. Quiet(x.st, t)
  <2>1. \A k \in 1..Len(x.keep) : x.keep[k] \in Makers(x.st)
    <3>1. Makers(s) \subseteq Makers(x.st)
      BY <1>20 DEF Evolve, Makers
    <3> QED
      BY <1>19, <3>1
  <2>2. \A j \in Deferred(x.st) : \E k \in 1..Len(x.keep) : x.keep[k] = j
    <3>1. (n + 1)..n = {}
      BY <1>5
    <3> QED
      BY <1>19, <3>1
  <2>3. x.keep # <<>> => x.st.rec.impaired \/ x.st.rec.halted
    <3>1. x.keep # <<>> => Len(x.keep) # 0 /\ Len(x.keep) \in Nat
      BY <1>19, EmptySeq, LenProperties
    <3>2. x.keep # <<>> => n # 0
      BY <1>5, <1>19, <3>1
    <3>3. n # 0 => q # <<>>
      BY EmptySeq DEF n
    <3> QED
      BY <1>20, <3>2, <3>3, QueuesNoticed DEF q
  <2> QED
    BY <1>18, <1>19, <1>20, <2>1, <2>2, <2>3, RequeueFields
<1>22. Calm(s, t)
  BY <1>20, <1>21, CalmTrans DEF Quiet
<1> QED
  BY <1>19, <1>20, <1>21, <1>22 DEF Quiet

LEMMA QuietTrans ==
    ASSUME NEW s, NEW t, NEW u, Good(s), Quiet(s, t), Quiet(t, u)
    PROVE  Quiet(s, u)
BY CalmTrans DEF Quiet, Calm, Evolve

LEMMA QuietGood ==
    ASSUME NEW s, NEW t, Quiet(s, t)
    PROVE  /\ Good(t) /\ Evolve(s, t) /\ t.rec.halted = s.rec.halted /\ t.clip = s.clip
           /\ Working(t) \subseteq Working(s) /\ Calm(s, t)
BY DEF Quiet, Calm, Evolve

LEMMA AsideQuiet ==
    ASSUME NEW s, NEW t, NEW K, Aside(s, t, K), ~s.rec.halted => Net(t) = Net(s)
    PROVE  Quiet(s, t)
BY AsideCalm DEF Quiet

(* The balance of the hedges that are owed. *)
Burden(q) == HedgeRatio * OwedIn(q, "A") + OwedIn(q, "B")

LEMMA WorthOn ==
    ASSUME NEW d \in Debt
    PROVE  HedgeRatio * DebtOn(d, "A") + DebtOn(d, "B") = Worth(d.leg, d.buy, d.lots)
BY Constants DEF DebtOn, Worth, Debt, Leg, Sign

LEMMA Distribute ==
    ASSUME NEW m \in Int, NEW n \in Int, NEW k \in Int, k =< m + n, m + n =< k
    PROVE  HedgeRatio * k = HedgeRatio * m + HedgeRatio * n
<1>1. HedgeRatio \in Int
  BY Constants
<1> QED
  BY <1>1

LEMMA BurdenAppend ==
    ASSUME NEW q \in Seq(Debt), NEW d \in Debt
    PROVE  /\ Burden(Append(q, d)) = Burden(q) + Worth(d.leg, d.buy, d.lots)
           /\ Burden(q) \in Int
<1> DEFINE a == OwedIn(q, "A")
           b == OwedIn(q, "B")
           x == DebtOn(d, "A")
           y == DebtOn(d, "B")
<1>1. /\ OwedIn(Append(q, d), "A") = a + x /\ OwedIn(Append(q, d), "B") = b + y
      /\ a \in Int /\ b \in Int /\ x \in Int /\ y \in Int
  BY OwedAppend, DebtOnType
<1>2. HedgeRatio * x + y = Worth(d.leg, d.buy, d.lots)
  BY WorthOn
<1> HIDE DEF a, b, x, y
<1>3. HedgeRatio * (a + x) = HedgeRatio * a + HedgeRatio * x
  BY <1>1, Distribute
<1>4. HedgeRatio * a \in Int /\ HedgeRatio * x \in Int
  BY <1>1, Constants
<1> QED
  BY <1>1, <1>2, <1>3, <1>4 DEF Burden, a, b

LEMMA BurdenSums ==
    ASSUME NEW q \in Seq(Debt)
    PROVE  \E f : /\ f[0] = 0
                  /\ \A i \in 0..Len(q) : f[i] \in Int
                  /\ \A i \in 1..Len(q) : f[i] = f[i - 1] + Worth(q[i].leg, q[i].buy, q[i].lots)
                  /\ f[Len(q)] = Burden(q)
<1> DEFINE n == Len(q)
<1>1. n \in Nat /\ \A i \in 1..n : q[i] \in Debt
  BY LenProperties, ElementOfSeq
<1>2. PICK f : /\ f[0] = 0
               /\ \A i \in 0..n : f[i] \in Int
               /\ \A i \in 1..n : f[i] = f[i - 1] + DebtOn(q[i], "A")
               /\ f[n] = OwedIn(q, "A")
  BY OwedSums
<1>3. PICK g : /\ g[0] = 0
               /\ \A i \in 0..n : g[i] \in Int
               /\ \A i \in 1..n : g[i] = g[i - 1] + DebtOn(q[i], "B")
               /\ g[n] = OwedIn(q, "B")
  BY OwedSums
<1> HIDE DEF n
<1> DEFINE h == [i \in 0..n |-> HedgeRatio * f[i] + g[i]]
<1>4. h[0] = 0
  BY <1>1, <1>2, <1>3, Constants
<1>5. \A i \in 0..n : h[i] \in Int
  BY <1>2, <1>3, Constants
<1>6. ASSUME NEW i \in 1..n PROVE h[i] = h[i - 1] + Worth(q[i].leg, q[i].buy, q[i].lots)
  <2> DEFINE x == DebtOn(q[i], "A")
             y == DebtOn(q[i], "B")
             a == f[i - 1]
             b == g[i - 1]
  <2>1. i \in 0..n /\ i - 1 \in 0..n
    BY <1>1
  <2>2. h[i] = HedgeRatio * f[i] + g[i] /\ h[i - 1] = HedgeRatio * a + b
    BY <2>1
  <2>3. f[i] = a + x /\ g[i] = b + y /\ a \in Int /\ b \in Int /\ x \in Int /\ y \in Int /\ f[i] \in Int
    BY <1>1, <1>2, <1>3, <2>1, DebtOnType
  <2>4. HedgeRatio * x + y = Worth(q[i].leg, q[i].buy, q[i].lots)
    BY <1>1, WorthOn
  <2> HIDE DEF x, y, a, b, h
  <2>5. HedgeRatio * f[i] = HedgeRatio * a + HedgeRatio * x
    BY <2>3, Distribute
  <2>6. HedgeRatio * a \in Int /\ HedgeRatio * x \in Int
    BY <2>3, Constants
  <2> QED
    BY <2>2, <2>3, <2>4, <2>5, <2>6
<1>7. h[n] = Burden(q)
  BY <1>1, <1>2, <1>3 DEF Burden
<1> HIDE DEF h
<1> QED
  BY <1>4, <1>5, <1>6, <1>7 DEF n

LEMMA NetRebook ==
    ASSUME NEW s \in State, NEW t \in State, t.sink = s.sink
    PROVE  Net(t) = Net(s) - Burden(s.rec.debts) + Burden(t.rec.debts)
<1> DEFINE a == OwedIn(s.rec.debts, "A")
           b == OwedIn(s.rec.debts, "B")
           x == OwedIn(t.rec.debts, "A")
           y == OwedIn(t.rec.debts, "B")
           m == s.sink["A"]
           n == s.sink["B"]
<1>1. a \in Int /\ b \in Int /\ x \in Int /\ y \in Int
  <2>1. \A u \in State : u.rec.debts \in Seq(Debt)
    BY StateType, MachineType
  <2>2. [leg |-> "A", buy |-> TRUE, lots |-> 1] \in Debt
    BY DEF Debt, Leg
  <2> QED
    BY <2>1, <2>2, OwedAppend
<1>2. m \in Int /\ n \in Int
  BY StateType DEF Leg
<1>3. /\ Net(s) = HedgeRatio * (m + a) + n + b /\ Net(t) = HedgeRatio * (m + x) + n + y
      /\ Burden(s.rec.debts) = HedgeRatio * a + b /\ Burden(t.rec.debts) = HedgeRatio * x + y
  BY DEF Net, Burden
<1> HIDE DEF a, b, x, y, m, n
<1>4. HedgeRatio * (m + a) = HedgeRatio * m + HedgeRatio * a
  BY <1>1, <1>2, Distribute
<1>5. HedgeRatio * (m + x) = HedgeRatio * m + HedgeRatio * x
  BY <1>1, <1>2, Distribute
<1>6. HedgeRatio * m \in Int /\ HedgeRatio * a \in Int /\ HedgeRatio * x \in Int
  BY <1>1, <1>2, Constants
<1> QED
  BY <1>1, <1>2, <1>3, <1>4, <1>5, <1>6

LEMMA RetryDebtsOutcome ==
    ASSUME NEW s, Good(s), ~s.rec.halted, NEW t \in RetryDebts(s)
    PROVE  Quiet(s, t)
<1> DEFINE q == s.rec.debts
           n == Len(q)
           S == {[st |-> s, keep |-> <<>>]}
           Retry(o, i) ==
             { [st |-> p.st, keep |-> IF p.res = "ok" THEN o.keep ELSE Append(o.keep, q[i])] :
               p \in PlaceTaker(o.st, q[i].leg, q[i].buy, q[i].lots) }
<1>1. s \in State /\ q \in Seq(Debt) /\ n \in Nat /\ \A i \in 1..n : q[i] \in Debt
  BY GoodType, MachineType, LenProperties, ElementOfSeq
<1>2. t \in {[o.st EXCEPT !.rec.debts = o.keep] : o \in Loop(n, S, Retry)}
  BY DEF RetryDebts
<1>3. PICK f : /\ f[0] = 0
               /\ \A i \in 0..n : f[i] \in Int
               /\ \A i \in 1..n : f[i] = f[i - 1] + Worth(q[i].leg, q[i].buy, q[i].lots)
               /\ f[n] = Burden(q)
  BY <1>1, BurdenSums
<1> DEFINE Kept(u, keep, i) ==
             /\ Aside(s, u, {}) /\ u.rec.debts = q
             /\ Len(keep) =< i
             /\ Net(u) = Net(s) + f[i] - Burden(keep)
           X(i) == { o \in [st : State, keep : Seq(Debt)] : Kept(o.st, o.keep, i) }
           P == [i \in 0..n |-> X(i)]
<1>20. Net(s) \in Int
  BY <1>1, NetType
<1>21. ASSUME NEW d \in Debt PROVE d.leg \in Leg /\ d.buy \in BOOLEAN /\ d.lots \in Nat \ {0}
  BY DEF Debt
<1> HIDE DEF q, n
<1>4. S \subseteq X(0)
  <2>1. <<>> \in Seq(Debt) /\ Len(<<>>) = 0
    BY EmptySeq
  <2>2. Burden(<<>>) = 0
    <3>1. PICK g : g[0] = 0 /\ g[Len(<<>>)] = Burden(<<>>)
      BY <2>1, BurdenSums
    <3> QED
      BY <2>1, <3>1
  <2>3. Kept(s, <<>>, 0)
    BY <1>3, <1>20, <2>1, <2>2, AsideRefl DEF q
  <2> HIDE DEF Kept
  <2> QED
    BY <1>1, <2>1, <2>3
<1>5. ASSUME NEW i \in 1..n, NEW o \in X(i - 1) PROVE Retry(o, i) \subseteq X(i)
  <2> DEFINE d == q[i]
             w == Worth(d.leg, d.buy, d.lots)
             keep(p) == IF p.res = "ok" THEN o.keep ELSE Append(o.keep, d)
  <2>1. o.st \in State /\ o.keep \in Seq(Debt) /\ Kept(o.st, o.keep, i - 1)
    OBVIOUS
  <2>2. Retry(o, i) = {[st |-> p.st, keep |-> keep(p)] : p \in PlaceTaker(o.st, d.leg, d.buy, d.lots)}
    OBVIOUS
  <2> SUFFICES ASSUME NEW p \in PlaceTaker(o.st, d.leg, d.buy, d.lots)
               PROVE  [st |-> p.st, keep |-> keep(p)] \in X(i)
    <3> HIDE DEF X, Retry, d, keep
    <3> QED
      BY <2>2
  <2>3. d \in Debt /\ d.leg \in Leg /\ d.buy \in BOOLEAN /\ d.lots \in Nat \ {0} /\ i \in Nat
    BY <1>1, <1>21
  <2>4. /\ f[i] = f[i - 1] + w /\ f[i] \in Int /\ f[i - 1] \in Int /\ w \in Int
    <3>1. i \in 0..n /\ i - 1 \in 0..n
      BY <1>1
    <3> QED
      BY <1>3, <2>3, <3>1, WorthType, SMTT(30)
  <2>5. Good(o.st) /\ o.st.rec.halted = s.rec.halted
    BY <2>1, AsideCalm DEF Evolve
  <2>6. /\ Aside(o.st, p.st, {}) /\ p.st.rec.debts = o.st.rec.debts
        /\ Net(p.st) = Net(o.st) + IF p.res = "ok" THEN w ELSE 0
    <3> DEFINE l == d.leg
               y == d.buy
               z == d.lots
    <3>1. l \in Leg /\ y \in BOOLEAN /\ z \in Nat \ {0} /\ Good(o.st) /\ ~o.st.rec.halted
      BY <2>3, <2>5
    <3>2. p \in PlaceTaker(o.st, l, y, z) /\ w = Worth(l, y, z)
      OBVIOUS
    <3> HIDE DEF l, y, z, d, X, Kept, w
    <3> QED
      BY <3>1, <3>2, PlaceTakerOutcome
  <2>7. Aside(s, p.st, {}) /\ p.st.rec.debts = q /\ p.st \in State
    BY <2>1, <2>6, AsideTrans, AsideCalm, GoodType
  <2>8. Net(o.st) = Net(s) + f[i - 1] - Burden(o.keep) /\ Burden(o.keep) \in Int
    BY <2>1, <2>3, BurdenAppend
  <2>9. Len(o.keep) \in Nat /\ Len(o.keep) =< i - 1
    BY <2>1, LenProperties
  <2> HIDE DEF w, d
  <2>10. CASE p.res = "ok"
    <3>1. keep(p) = o.keep
      BY <2>10
    <3>2. Net(p.st) = Net(s) + f[i] - Burden(o.keep)
      BY <1>20, <2>4, <2>6, <2>8, <2>10
    <3>3. Kept(p.st, o.keep, i)
      BY <2>3, <2>7, <2>9, <3>2
    <3> HIDE DEF keep, Kept
    <3> QED
      BY <2>1, <2>7, <3>1, <3>3
  <2>11. CASE p.res # "ok"
    <3> DEFINE z == Append(o.keep, d)
    <3>1. keep(p) = z
      BY <2>11
    <3>2. z \in Seq(Debt) /\ Len(z) = Len(o.keep) + 1
      BY <2>1, <2>3, AppendProperties
    <3>3. Burden(z) = Burden(o.keep) + w
      BY <2>1, <2>3, BurdenAppend DEF w
    <3> HIDE DEF z, keep
    <3>4. Net(p.st) = Net(s) + f[i] - Burden(z)
      BY <1>20, <2>4, <2>6, <2>8, <2>11, <3>3
    <3>5. Kept(p.st, z, i)
      BY <2>3, <2>7, <2>9, <3>2, <3>4
    <3> HIDE DEF Kept
    <3> QED
      BY <2>7, <3>1, <3>2, <3>5
  <2> QED
    BY <2>10, <2>11
<1> HIDE DEF S, X, Retry
<1>6. n \in Nat
  BY <1>1
<1>7. S \subseteq P[0]
  BY <1>4, <1>6
<1>8. \A i \in 1..n : \A o \in P[i - 1] : Retry(o, i) \subseteq P[i]
  <2>1. \A i \in 1..n : P[i - 1] = X(i - 1) /\ P[i] = X(i)
    BY <1>6
  <2> HIDE DEF P
  <2> QED
    BY <1>5, <2>1
<1>9. P[n] = X(n)
  BY <1>6
<1> HIDE DEF P
<1>10. n \in Nat
  BY <1>6
<1>11. S \subseteq P[0]
  BY <1>7
<1>12. \A i \in 1..n : \A o \in P[i - 1] : Retry(o, i) \subseteq P[i]
  BY <1>8
<1> DEFINE F == [i \in 1..n |-> [o \in P[i - 1] |-> Retry(o, i)]]
           Is(g) == g = [i \in 0..n |-> IF i = 0 THEN S ELSE UNION {Retry(o, i) : o \in g[i - 1]}]
           it == CHOOSE g : Is(g)
<1>13. \A i \in 1..n : \A o \in P[i - 1] : F[i][o] = Retry(o, i)
  BY <1>10
<1> HIDE DEF F
<1>14. PICK g : Run(g, n, S, F) /\ Within(n, g, P)
  <2>1. Preserves(n, S, F, P)
    BY <1>11, <1>12, <1>13 DEF Preserves
  <2> QED
    BY <1>10, <2>1, LoopExists
<1>15. Is(g)
  <2>1. ASSUME NEW i \in 1..n PROVE g[i] = UNION {Retry(o, i) : o \in g[i - 1]}
    <3>1. \A o \in g[i - 1] : F[i][o] = Retry(o, i)
      BY <1>10, <1>13, <1>14 DEF Within
    <3>2. \A y : y \in g[i] <=> \E o \in g[i - 1] : y \in F[i][o]
      BY <1>14 DEF Run
    <3>3. \A y : y \in g[i] <=> \E o \in g[i - 1] : y \in Retry(o, i)
      BY <3>1, <3>2
    <3> QED
      BY <3>3
  <2>2. ASSUME NEW i \in 0..n
        PROVE  g[i] = IF i = 0 THEN S ELSE UNION {Retry(o, i) : o \in g[i - 1]}
    <3>1. CASE i = 0
      BY <1>14, <3>1 DEF Run
    <3>2. CASE i # 0
      <4>1. i \in 1..n
        BY <3>2
      <4>2. g[i] = UNION {Retry(o, i) : o \in g[i - 1]}
        BY <4>1, <2>1
      <4> QED
        BY <4>2, <3>2, Zenon
    <3> QED
      BY <3>1, <3>2
  <2> QED
    BY <2>2, <1>14 DEF Run
<1>16. Is(it)
  <2> HIDE DEF Is
  <2> QED
    BY <1>15
<1> HIDE DEF it
<1>17. it[n] \subseteq P[n]
  <2>1. it[0] = S
    BY <1>16, <1>10
  <2>2. ASSUME NEW i \in 1..n, it[i - 1] \subseteq P[i - 1] PROVE it[i] \subseteq P[i]
    <3>1. i \in 0..n /\ i # 0
      BY <1>10
    <3>2. it[i] = UNION {Retry(o, i) : o \in it[i - 1]}
      BY <1>16, <3>1, Zenon
    <3> HIDE DEF Is
    <3> QED
      BY <3>2, <2>2, <1>12
  <2> HIDE DEF Is
  <2>3. it[0] \subseteq P[0]
    BY <2>1, <1>11
  <2>4. Within(n, it, P)
    BY <1>10, <2>2, <2>3, LoopStays
  <2> QED
    BY <2>4, <1>10 DEF Within
<1> HIDE DEF Is
<1>18. Loop(n, S, Retry) = it[n]
  BY DEF Loop, it, Is
<1>19. PICK x \in X(n) : t = [x.st EXCEPT !.rec.debts = x.keep]
  BY <1>2, <1>9, <1>17, <1>18
<1>22. x.keep \in Seq(Debt) /\ x.st \in State /\ Kept(x.st, x.keep, n)
  BY <1>19 DEF X
<1>23. Good(x.st) /\ Evolve(s, x.st) /\ x.st.rec.halted = s.rec.halted /\ Calm(s, x.st)
  BY <1>22, AsideCalm DEF Evolve
<1>24. Calm(x.st, t) /\ Net(t) = Net(s)
  <2> DEFINE m == [x.st.rec EXCEPT !.debts = x.keep]
             v == [x.st EXCEPT !.rec = m]
  <2>1. x.st.rec \in Machine
    BY <1>22, StateType
  <2>2. m \in Machine /\ m.halted = x.st.rec.halted /\ m.retireQ = x.st.rec.retireQ /\ m.impaired = x.st.rec.impaired /\ m.debts = x.keep
    BY <1>22, <2>1 DEF Machine
  <2>3. t = v
    BY <1>19, <1>22 DEF State
  <2> HIDE DEF m
  <2>4. /\ v \in State /\ v.own = x.st.own /\ v.rec = m
        /\ v.orders = x.st.orders /\ v.sink = x.st.sink /\ v.pending = x.st.pending
        /\ v.clip = x.st.clip /\ v.moves = x.st.moves
    BY <1>22, <2>2 DEF State
  <2> HIDE DEF v
  <2>5. x.keep # <<>> => x.st.rec.impaired \/ x.st.rec.halted
    <3>1. x.keep # <<>> => Len(x.keep) # 0 /\ Len(x.keep) \in Nat
      BY <1>22, EmptySeq, LenProperties
    <3>2. x.keep # <<>> => n # 0
      BY <1>6, <1>22, <3>1
    <3>3. n # 0 => x.st.rec.debts # <<>>
      BY <1>22, EmptySeq DEF n
    <3> QED
      BY <1>23, <3>2, <3>3, QueuesNoticed
  <2>6. Aside(x.st, v, {})
    <3>1. v.rec.debts # <<>> \/ v.rec.retireQ # <<>> => v.rec.impaired \/ v.rec.halted
      BY <1>23, <2>2, <2>4, <2>5, QueuesNoticed
    <3>2. v.rec.halted = x.st.rec.halted /\ v.rec.retireQ = x.st.rec.retireQ /\ v.moves =< x.st.moves
      BY <2>2, <2>4, <1>22, StateType
    <3> QED
      BY <1>23, <2>4, <3>1, <3>2, UnmovedAside
  <2>7. Net(v) = Net(s)
    <3>1. Net(v) = Net(x.st) - Burden(q) + Burden(x.keep)
      BY <1>22, <2>2, <2>4, NetRebook
    <3>2. Burden(x.keep) \in Int /\ Burden(q) \in Int
      <4>1. [leg |-> "A", buy |-> TRUE, lots |-> 1] \in Debt
        BY DEF Debt, Leg
      <4> QED
        BY <1>1, <1>22, <4>1, BurdenAppend
    <3>3. Net(x.st) = Net(s) + Burden(q) - Burden(x.keep)
      BY <1>3, <1>22
    <3> QED
      BY <1>20, <1>3, <1>6, <1>22, <3>1, <3>2, <3>3
  <2> QED
    BY <2>3, <2>6, <2>7, AsideCalm
<1>25. Calm(s, t)
  BY <1>23, <1>24, CalmTrans
<1> QED
  BY <1>24, <1>25 DEF Quiet

LEMMA RecoverIfDoneOutcome ==
    ASSUME NEW s, Good(s)
    PROVE  Quiet(s, RecoverIfDone(s))
<1> DEFINE m == [s.rec EXCEPT !.impaired = FALSE, !.unverified = TRUE]
           t == [s EXCEPT !.rec = m]
<1>1. s \in State /\ s.rec \in Machine
  BY GoodType
<1>2. m \in Machine /\ m.halted = s.rec.halted /\ m.retireQ = s.rec.retireQ /\ m.debts = s.rec.debts
  BY <1>1 DEF Machine
<1>3. CASE s.rec.retireQ = <<>> /\ s.rec.debts = <<>> /\ s.clip = Idle
  <2>1. RecoverIfDone(s) = t
    BY <1>1, <1>3 DEF RecoverIfDone, ClearImpaired, State
  <2> HIDE DEF m
  <2>2. /\ t \in State /\ t.own = s.own /\ t.rec = m
        /\ t.orders = s.orders /\ t.sink = s.sink /\ t.pending = s.pending
        /\ t.clip = s.clip /\ t.moves = s.moves
    BY <1>1, <1>2 DEF State
  <2> HIDE DEF t
  <2>3. Aside(s, t, {})
    <3>1. t.rec.debts # <<>> \/ t.rec.retireQ # <<>> => t.rec.impaired \/ t.rec.halted
      BY <1>2, <1>3, <2>2
    <3>2. t.rec.halted = s.rec.halted /\ t.rec.retireQ = s.rec.retireQ /\ t.moves =< s.moves
      BY <1>1, <1>2, <2>2, StateType
    <3> QED
      BY <2>2, <3>1, <3>2, UnmovedAside
  <2> QED
    BY <1>2, <2>1, <2>2, <2>3, NetSame, AsideQuiet
<1>4. CASE ~(s.rec.retireQ = <<>> /\ s.rec.debts = <<>> /\ s.clip = Idle)
  BY <1>4, CalmRefl DEF RecoverIfDone, Quiet
<1> QED
  BY <1>3, <1>4

-----------------------------------------------------------------------------
(* The clip. *)

LEMMA ClipType ==
    ASSUME NEW c \in Clip
    PROVE  /\ c.dir \in {-1, 0, 1} /\ c.close \in BOOLEAN /\ c.lots \in Nat /\ c.target \in Nat
           /\ c.mode \in Mode /\ c.A \in Nat /\ c.B \in Nat /\ c.maker \in Nat /\ c.filled \in Nat
           /\ c["A"] = c.A /\ c["B"] = c.B
BY DEF Clip

LEMMA IdleType == Idle \in Clip
BY DEF Idle, Clip, Mode

(* A clip stays sound while accounts evolve and no maker comes to rest. *)
LEMMA LegKept ==
    ASSUME NEW s, NEW t, NEW leg, Good(s), Evolve(s, t), t.clip = s.clip, LegOK(s, leg)
    PROVE  LegOK(t, leg)
<1> DEFINE id == s.clip[leg]
<1>1. CASE id # 0
  <2>1. id \in DOMAIN s.own
    BY <1>1 DEF LegOK
  <2>2. s.own[id].maker \in BOOLEAN
    BY <2>1, GoodType DEF Acct
  <2>3. /\ id \in DOMAIN t.own /\ t.own[id].maker = s.own[id].maker /\ t.own[id].leg = s.own[id].leg
        /\ t.own[id].buy = s.own[id].buy /\ t.own[id].placed = s.own[id].placed
    BY <2>1 DEF Evolve
  <2> QED
    BY <1>1, <2>3 DEF LegOK
<1>2. CASE id = 0
  BY <1>2 DEF LegOK
<1> QED
  BY <1>1, <1>2

LEMMA ClipKept ==
    ASSUME NEW s, NEW t, Good(s), Calm(s, t), ClipOK(s)
    PROVE  ClipOK(t)
<1>1. Good(t) /\ Evolve(s, t) /\ t.clip = s.clip /\ Working(t) \subseteq Working(s)
  BY DEF Calm
<1>2. CASE s.clip = Idle
  BY <1>1, <1>2 DEF ClipOK
<1>3. CASE s.clip # Idle
  <2>1. LegOK(t, "A") /\ LegOK(t, "B")
    BY <1>1, <1>3, LegKept DEF ClipOK
  <2>2. s.clip.maker # 0 => s.clip.filled =< t.own[s.clip.maker].folded
    <3> SUFFICES ASSUME s.clip.maker # 0 PROVE s.clip.filled =< t.own[s.clip.maker].folded
      OBVIOUS
    <3> DEFINE id == s.clip.maker
    <3>1. id \in DOMAIN s.own /\ s.clip.filled =< s.own[id].folded
      BY <1>3, GoodType, ClipType DEF ClipOK, LegOK
    <3>2. id \in DOMAIN t.own /\ s.own[id].folded =< t.own[id].folded
      BY <1>1, <3>1 DEF Evolve
    <3>3. s.clip.filled \in Nat /\ s.own[id].folded \in Nat /\ t.own[id].folded \in Nat
      BY <1>1, <3>1, <3>2, GoodType, ClipType DEF Acct
    <3> QED
      BY <3>1, <3>2, <3>3
  <2> QED
    BY <1>1, <1>3, <2>1, <2>2 DEF ClipOK
<1> QED
  BY <1>2, <1>3

(* Only the clip, the book and the marks have changed. *)
LEMMA ReclipFields ==
    ASSUME NEW s, NEW t, Good(s), t \in State,
           t.own = s.own, t.pending = s.pending, t.orders = s.orders, t.sink = s.sink,
           t.rec = s.rec, t.moves = s.moves
    PROVE  Good(t) /\ Evolve(s, t) /\ Working(t) = Working(s) /\ Net(t) = Net(s)
<1>1. Deferred(t) = Deferred(s) /\ Working(t) = Working(s)
  BY DEF Deferred, Working
<1>4. Tallied(t)
  BY DEF Good, Tallied, Full
<1>2. Good(t)
  BY <1>1, <1>4 DEF Good
<1>3. Evolve(s, t)
  BY EvolveRefl DEF Evolve
<1> QED
  BY <1>1, <1>2, <1>3, NetSame

(* What a handler leaves behind. *)
Handled(s, t) ==
    /\ Good(t) /\ ClipOK(t) /\ Evolve(s, t)
    /\ ~s.rec.halted => Net(t) = Net(s)

LEMMA HandledTrans ==
    ASSUME NEW s, NEW t, NEW u, Good(s), Good(t), Evolve(s, t),
           ~s.rec.halted => Net(t) = Net(s), Handled(t, u)
    PROVE  Handled(s, u)
BY EvolveTrans DEF Handled, Evolve

LEMMA HandledSelf ==
    ASSUME NEW s, Good(s), ClipOK(s)
    PROVE  Handled(s, s)
BY EvolveRefl DEF Handled

LEMMA QuietHandled ==
    ASSUME NEW s, NEW t, Good(s), ClipOK(s), Quiet(s, t)
    PROVE  Handled(s, t)
BY ClipKept DEF Handled, Quiet, Calm

(* The clip is dropped, with nothing working. *)
LEMMA DropClipOutcome ==
    ASSUME NEW s, Good(s), Working(s) = {}
    PROVE  Handled(s, DropClip(s)) /\ DropClip(s).clip = Idle
<1> DEFINE t == DropClip(s)
<1>1. s \in State
  BY GoodType
<1>2. /\ t \in State /\ t.own = s.own /\ t.pending = s.pending /\ t.orders = s.orders
      /\ t.sink = s.sink /\ t.rec = s.rec /\ t.moves = s.moves /\ t.clip = Idle
  BY <1>1, IdleType DEF State, DropClip
<1> HIDE DEF t
<1>3. Good(t) /\ Evolve(s, t) /\ Working(t) = Working(s) /\ Net(t) = Net(s)
  BY <1>2, ReclipFields
<1> QED
  BY <1>2, <1>3 DEF Handled, ClipOK, t

(* The worth of n lots of a clip's pair on its leg A. *)
ClipWorth(s, n) == Worth("A", LegBuys(s.clip.dir, "A"), n)

(* A leg is retired: what it had executed unseen is credited. *)
LegRetired(s, r, leg) ==
    /\ Retired(s, r, s.clip[leg])
    /\ r.gap =< s.clip.target
    /\ Net(r.st) = Net(s) + IF leg = "A" THEN ClipWorth(s, r.gap) ELSE -ClipWorth(s, r.gap)
    /\ Calm(s, r.st)

LEMMA RetireLegOutcome ==
    ASSUME NEW s, Good(s), NEW leg \in Leg, s.clip.dir \in {-1, 1}, LegOK(s, leg),
           NEW r \in RetireOrder(s, s.clip[leg])
    PROVE  LegRetired(s, r, leg)
<1> DEFINE id == s.clip[leg]
           dir == s.clip.dir
           gap == r.gap
<1>1. id \in DOMAIN s.own => /\ s.own[id].maker = TRUE /\ s.own[id].leg = leg
                             /\ s.own[id].buy = LegBuys(dir, leg) /\ s.own[id].placed = s.clip.target
  <2>1. id \in DOMAIN s.own => id # 0 /\ s.own[id].maker \in BOOLEAN
    BY GoodType DEF Acct
  <2> QED
    BY <2>1 DEF LegOK
<1>2. Retired(s, r, id)
  BY <1>1, RetireOrderOutcome
<1>3. gap \in Nat /\ s.clip.target \in Nat /\ Net(s) \in Int
  BY <1>2, GoodType, ClipType, NetType DEF Retired
<1>4. gap =< s.clip.target
  BY <1>1, <1>2, <1>3 DEF Retired
<1>5. leg = "B" /\ gap > 0 => HedgeRatio = 1
  <2> SUFFICES ASSUME leg = "B", gap > 0 PROVE HedgeRatio = 1
    OBVIOUS
  <2>1. id \in DOMAIN s.own
    BY <1>2 DEF Retired
  <2>2. AcctOK(s.own[id], s.orders[id]) /\ s.own[id].maker = TRUE /\ s.own[id].leg = "B"
    BY <1>1, <2>1, GoodType
  <2> QED
    BY <2>2 DEF AcctOK
<1>6. Net(r.st) = Net(s) + Worth(leg, LegBuys(dir, leg), gap)
  <2>1. CASE id \in DOMAIN s.own
    BY <1>1, <1>2, <2>1 DEF Retired
  <2>2. CASE id \notin DOMAIN s.own
    <3>1. gap = 0 /\ Net(r.st) = Net(s)
      BY <1>2, <1>3, <2>2 DEF Retired
    <3>2. Worth(leg, LegBuys(dir, leg), gap) = 0
      BY <3>1, WorthZero
    <3> QED
      BY <1>3, <3>1, <3>2
  <2> QED
    BY <2>1, <2>2
<1>7. leg = "B" => Worth(leg, LegBuys(dir, leg), gap) = -ClipWorth(s, gap)
  <2>1. CASE gap = 0
    BY <2>1, WorthZero DEF ClipWorth
  <2>2. CASE gap > 0
    BY <1>3, <1>5, <2>2, WorthHedge DEF ClipWorth
  <2> QED
    BY <1>3, <2>1, <2>2
<1>8. ClipWorth(s, gap) \in Int
  BY <1>3, WorthType DEF ClipWorth
<1>9. Net(r.st) = Net(s) + IF leg = "A" THEN ClipWorth(s, gap) ELSE -ClipWorth(s, gap)
  BY <1>6, <1>7 DEF ClipWorth, Leg
<1>10. Calm(s, r.st)
  BY <1>2 DEF Retired, Calm
<1> QED
  BY <1>2, <1>4, <1>9, <1>10 DEF LegRetired

(* The clip is settled: both legs are retired and topped up to the same    *)
(* count, which the balance shows.                                         *)
ClipSettled(s, t, realA, realB) ==
    /\ Calm(s, t)
    /\ Working(t) = {}
    /\ ~s.rec.halted => Net(t) = Net(s) - ClipWorth(s, realA) + ClipWorth(s, realB)

LEMMA HedgedCalm ==
    ASSUME NEW s, NEW t, NEW u, NEW leg, NEW buy, NEW lots,
           Good(s), Calm(s, t), HedgedIfRunning(t, u, leg, buy, lots)
    PROVE  /\ Calm(s, u) /\ Good(u) /\ Working(u) \subseteq Working(t)
           /\ ~s.rec.halted => Net(u) = Net(t) + Worth(leg, buy, lots)
<1>1. Good(t) /\ t.rec.halted = s.rec.halted /\ Aside(t, u, {})
  BY DEF HedgedIfRunning, Calm, Evolve
<1>2. Calm(t, u) /\ Good(u)
  BY <1>1, AsideCalm
<1> QED
  BY <1>1, <1>2, CalmTrans DEF HedgedIfRunning, Calm

(* One leg, then the other, is topped up to the count wanted. *)
LEMMA BalanceOutcome ==
    ASSUME NEW s, Good(s), s.clip.dir \in {-1, 1},
           NEW t, Calm(s, t), NEW m \in Nat, NEW n \in Nat,
           NEW bA, bA = LegBuys(s.clip.dir, "A"), NEW bB, bB = LegBuys(s.clip.dir, "B"),
           NEW h, h = HedgeLots("B", n),
           NEW u \in TopUp(t, "A", bA, m), NEW v \in TopUp(u, "B", bB, h)
    PROVE  /\ Calm(s, v) /\ Working(v) \subseteq Working(t)
           /\ ~s.rec.halted => Net(v) = Net(t) + ClipWorth(s, m) - ClipWorth(s, n)
<1>1. bA \in BOOLEAN /\ bB \in BOOLEAN /\ "A" \in Leg /\ "B" \in Leg
  BY DEF LegBuys, Leg
<1>2. h \in Nat
  BY HedgeLotsType
<1>3. Worth("B", bB, h) = -ClipWorth(s, n) /\ ClipWorth(s, n) \in Int /\ ClipWorth(s, m) \in Int
  BY <1>1, WorthHedge, WorthType DEF ClipWorth
<1>4. Worth("A", bA, m) = ClipWorth(s, m)
  BY DEF ClipWorth
<1>6. Good(t) /\ t \in State /\ Net(t) \in Int
  BY GoodType, NetType DEF Calm
<1>7. HedgedIfRunning(t, u, "A", bA, m)
  BY <1>1, <1>6, TopUpOutcome
<1>8. /\ Calm(s, u) /\ Good(u) /\ Working(u) \subseteq Working(t)
      /\ ~s.rec.halted => Net(u) = Net(t) + ClipWorth(s, m)
  BY <1>4, <1>7, HedgedCalm
<1>9. HedgedIfRunning(u, v, "B", bB, h)
  BY <1>1, <1>2, <1>8, TopUpOutcome
<1>10. /\ Calm(s, v) /\ Working(v) \subseteq Working(u)
       /\ ~s.rec.halted => Net(v) = Net(u) + Worth("B", bB, h)
  BY <1>8, <1>9, HedgedCalm
<1> QED
  BY <1>3, <1>6, <1>8, <1>10

LEMMA ClipWorthSum ==
    ASSUME NEW s, NEW m \in Int, NEW n \in Int, NEW k \in Int, k =< m + n, m + n =< k
    PROVE  ClipWorth(s, k) = ClipWorth(s, m) + ClipWorth(s, n)
BY WorthAdd DEF ClipWorth

LEMMA SettleClipOutcome ==
    ASSUME NEW s, Good(s), s.clip.dir \in {-1, 1}, LegOK(s, "A"), LegOK(s, "B"),
           Working(s) \subseteq {s.clip.A, s.clip.B},
           NEW realA \in Nat, NEW realB \in Nat, NEW complete \in BOOLEAN,
           NEW t \in SettleClip(s, realA, realB, complete)
    PROVE  ClipSettled(s, t, realA, realB)
<1> DEFINE c == s.clip
           Want(a, b) == Max2(Max2(a, b), IF complete THEN c.target ELSE 0)
           Balance(v, a, b) ==
              UNION { TopUp(u, "B", LegBuys(c.dir, "B"), HedgeLots("B", Want(a, b) - b)) :
                      u \in TopUp(v, "A", LegBuys(c.dir, "A"), Want(a, b) - a) }
<1>1. s \in State /\ c \in Clip /\ c["A"] = c.A /\ c["B"] = c.B /\ c.target \in Nat /\ Net(s) \in Int
  BY GoodType, ClipType, NetType
<1>2. PICK ra \in RetireOrder(s, c.A) :
         \E rb \in RetireOrder(ra.st, c.B) : t \in Balance(rb.st, realA + ra.gap, realB + rb.gap)
  BY DEF SettleClip, After
<1>3. LegRetired(s, ra, "A")
  BY <1>1, <1>2, RetireLegOutcome DEF Leg
<1>4. /\ Calm(s, ra.st) /\ Good(ra.st) /\ Evolve(s, ra.st) /\ ra.st.clip = c
      /\ Working(ra.st) \subseteq Working(s) \ {c.A} /\ ra.gap \in Nat
      /\ Net(ra.st) = Net(s) + ClipWorth(s, ra.gap)
  BY <1>1, <1>3 DEF LegRetired, Retired
<1>5. LegOK(ra.st, "B")
  BY <1>4, LegKept
<1>6. PICK rb \in RetireOrder(ra.st, c.B) : t \in Balance(rb.st, realA + ra.gap, realB + rb.gap)
  BY <1>2
<1>7. LegRetired(ra.st, rb, "B")
  <2>1. rb \in RetireOrder(ra.st, ra.st.clip["B"]) /\ ra.st.clip.dir \in {-1, 1}
    BY <1>1, <1>4, <1>6
  <2> QED
    BY <1>4, <1>5, <2>1, RetireLegOutcome DEF Leg
<1>8. /\ Calm(ra.st, rb.st) /\ Good(rb.st) /\ Working(rb.st) \subseteq Working(ra.st) \ {c.B}
      /\ rb.gap \in Nat /\ Net(rb.st) = Net(ra.st) - ClipWorth(s, rb.gap)
  <2>1. ClipWorth(ra.st, rb.gap) = ClipWorth(s, rb.gap)
    BY <1>4 DEF ClipWorth
  <2>2. rb.gap \in Nat /\ ClipWorth(s, rb.gap) \in Int /\ Net(ra.st) \in Int
    BY <1>4, <1>7, WorthType, NetType, GoodType DEF LegRetired, Retired, ClipWorth
  <2> QED
    BY <1>1, <1>4, <1>7, <2>1, <2>2 DEF LegRetired, Retired
<1>9. Calm(s, rb.st) /\ Working(rb.st) = {}
  BY <1>4, <1>8, CalmTrans
<1> DEFINE a == realA + ra.gap
           b == realB + rb.gap
           w == Want(a, b)
           m == w - a
           n == w - b
<1>10. a \in Nat /\ b \in Nat /\ w \in Nat /\ m \in Nat /\ n \in Nat
  <2>1. a \in Nat /\ b \in Nat
    BY <1>4, <1>8
  <2> HIDE DEF a, b
  <2>2. w \in Nat /\ a =< w /\ b =< w
    BY <1>1, <2>1 DEF Max2
  <2> HIDE DEF w
  <2> QED
    BY <2>1, <2>2
<1>11. PICK u \in TopUp(rb.st, "A", LegBuys(c.dir, "A"), m) :
          t \in TopUp(u, "B", LegBuys(c.dir, "B"), HedgeLots("B", n))
  BY <1>6
<1>12. /\ Calm(s, t) /\ Working(t) \subseteq Working(rb.st)
       /\ ~s.rec.halted => Net(t) = Net(rb.st) + ClipWorth(s, m) - ClipWorth(s, n)
  <2> DEFINE v == rb.st
             bA == LegBuys(s.clip.dir, "A")
             bB == LegBuys(s.clip.dir, "B")
             h == HedgeLots("B", n)
  <2>1. u \in TopUp(v, "A", bA, m) /\ t \in TopUp(u, "B", bB, h)
    BY <1>11
  <2>2. Calm(s, v) /\ m \in Nat /\ n \in Nat
    BY <1>9, <1>10
  <2>4. bA = LegBuys(s.clip.dir, "A") /\ bB = LegBuys(s.clip.dir, "B") /\ h = HedgeLots("B", n)
    OBVIOUS
  <2> HIDE DEF m, n, v, bA, bB, h
  <2>3. /\ Calm(s, t) /\ Working(t) \subseteq Working(v)
        /\ ~s.rec.halted => Net(t) = Net(v) + ClipWorth(s, m) - ClipWorth(s, n)
    BY <2>1, <2>2, <2>4, BalanceOutcome, SMTT(30)
  <2> QED
    BY <2>3 DEF v
<1>13. /\ ClipWorth(s, w) = ClipWorth(s, m) + ClipWorth(s, a)
       /\ ClipWorth(s, w) = ClipWorth(s, n) + ClipWorth(s, b)
       /\ ClipWorth(s, a) = ClipWorth(s, realA) + ClipWorth(s, ra.gap)
       /\ ClipWorth(s, b) = ClipWorth(s, realB) + ClipWorth(s, rb.gap)
  <2> DEFINE g == ra.gap
             h == rb.gap
  <2>1. /\ g \in Int /\ h \in Int /\ realA \in Int /\ realB \in Int /\ a \in Int /\ b \in Int
        /\ w \in Int /\ m \in Int /\ n \in Int /\ a = realA + g /\ b = realB + h
        /\ m = w - a /\ n = w - b
    BY <1>4, <1>8, <1>10
  <2> HIDE DEF w, a, b, g, h, m, n
  <2>2. a =< realA + g /\ realA + g =< a /\ b =< realB + h /\ realB + h =< b
    BY <2>1
  <2>3. w =< m + a /\ m + a =< w /\ w =< n + b /\ n + b =< w
    BY <2>1
  <2>4. ClipWorth(s, a) = ClipWorth(s, realA) + ClipWorth(s, g)
    BY <2>1, <2>2, ClipWorthSum
  <2>5. ClipWorth(s, b) = ClipWorth(s, realB) + ClipWorth(s, h)
    BY <2>1, <2>2, ClipWorthSum
  <2>6. ClipWorth(s, w) = ClipWorth(s, m) + ClipWorth(s, a)
    BY <2>1, <2>3, ClipWorthSum
  <2>7. ClipWorth(s, w) = ClipWorth(s, n) + ClipWorth(s, b)
    BY <2>1, <2>3, ClipWorthSum
  <2> QED
    BY <2>4, <2>5, <2>6, <2>7 DEF g, h
<1>14. \A k \in Int : ClipWorth(s, k) \in Int
  BY WorthType DEF ClipWorth
<1>15. ~s.rec.halted => Net(t) = Net(s) - ClipWorth(s, realA) + ClipWorth(s, realB)
  <2>1. /\ ra.gap \in Int /\ rb.gap \in Int /\ realA \in Int /\ realB \in Int
        /\ w \in Int /\ a \in Int /\ b \in Int /\ m \in Int /\ n \in Int
    BY <1>4, <1>8, <1>10
  <2> DEFINE A1 == ClipWorth(s, realA)
             A2 == ClipWorth(s, ra.gap)
             B1 == ClipWorth(s, realB)
             B2 == ClipWorth(s, rb.gap)
             W == ClipWorth(s, w)
             M == ClipWorth(s, m)
             N == ClipWorth(s, n)
             AA == ClipWorth(s, a)
             BB == ClipWorth(s, b)
  <2>2. /\ A1 \in Int /\ A2 \in Int /\ B1 \in Int /\ B2 \in Int /\ W \in Int
        /\ M \in Int /\ N \in Int
    BY <1>14, <2>1
  <2>3. /\ Net(ra.st) = Net(s) + A2 /\ Net(rb.st) = Net(ra.st) - B2
        /\ W = M + AA /\ W = N + BB /\ AA = A1 + A2 /\ BB = B1 + B2
        /\ ~s.rec.halted => Net(t) = Net(rb.st) + M - N
    BY <1>4, <1>8, <1>12, <1>13
  <2> HIDE DEF A1, A2, B1, B2, W, M, N, AA, BB
  <2>4. ~s.rec.halted => Net(t) = Net(s) - A1 + B1
    BY <1>1, <2>2, <2>3
  <2> QED
    BY <2>4 DEF A1, B1
<1> QED
  BY <1>9, <1>12, <1>15 DEF ClipSettled

(* The worth of n lots of the pair on a leg of the clip. *)
LegWorth(s, leg, n) == IF leg = "A" THEN ClipWorth(s, n) ELSE -ClipWorth(s, n)

LEMMA LegWorthIs ==
    ASSUME NEW s, s.clip.dir \in {-1, 1}, NEW leg \in Leg, NEW n \in Int
    PROVE  /\ LegWorth(s, leg, n) \in Int
           /\ LegWorth(s, Other(leg), n) = -LegWorth(s, leg, n)
           /\ Worth(leg, LegBuys(s.clip.dir, leg), HedgeLots(leg, n)) = LegWorth(s, leg, n)
           /\ leg = "A" \/ HedgeRatio = 1 \/ n = 0
                 => Worth(leg, LegBuys(s.clip.dir, leg), n) = LegWorth(s, leg, n)
<1>1. ClipWorth(s, n) \in Int
  BY WorthType DEF ClipWorth
<1>2. leg = "A" \/ leg = "B"
  BY DEF Leg
<1>3. Worth(leg, LegBuys(s.clip.dir, leg), HedgeLots(leg, n)) = LegWorth(s, leg, n)
  BY <1>2, WorthHedge DEF LegWorth, ClipWorth, Leg
<1>4. LegWorth(s, Other(leg), n) = -LegWorth(s, leg, n) /\ LegWorth(s, leg, n) \in Int
  BY <1>1, <1>2 DEF LegWorth, Other
<1>5. n = 0 => Worth(leg, LegBuys(s.clip.dir, leg), n) = LegWorth(s, leg, n)
  BY <1>2, WorthZero DEF LegWorth, ClipWorth
<1>6. leg = "A" \/ HedgeRatio = 1 => Worth(leg, LegBuys(s.clip.dir, leg), n) = LegWorth(s, leg, n)
  BY <1>2, WorthHedge DEF LegWorth, ClipWorth, Leg
<1> QED
  BY <1>3, <1>4, <1>5, <1>6

LEMMA OtherLeg == ASSUME NEW leg \in Leg PROVE Other(leg) \in Leg /\ Other(Other(leg)) = leg
BY DEF Other, Leg

LEMMA BuysType == ASSUME NEW dir \in Int, NEW leg PROVE LegBuys(dir, leg) \in BOOLEAN
<1>1. (dir > 0) \in BOOLEAN /\ (dir < 0) \in BOOLEAN
  OBVIOUS
<1>2. CASE leg = "A"
  BY <1>1, <1>2, Zenon DEF LegBuys
<1>3. CASE leg # "A"
  BY <1>1, <1>3, Zenon DEF LegBuys
<1> QED
  BY <1>2, <1>3

(* What is known of a clip at work. *)
LEMMA ClipLegs ==
    ASSUME NEW s, Good(s), ClipOK(s), s.clip # Idle
    PROVE  /\ s.clip.dir \in {-1, 1} /\ LegOK(s, "A") /\ LegOK(s, "B")
           /\ Working(s) \subseteq {s.clip.A, s.clip.B}
           /\ s.clip \in Clip /\ s.clip.filled \in Nat /\ s.clip.target \in Nat
           /\ s.clip["A"] = s.clip.A /\ s.clip["B"] = s.clip.B
BY GoodType, ClipType DEF ClipOK

LEMMA CancelClipOutcome ==
    ASSUME NEW s, Good(s), ClipOK(s), NEW t \in CancelClip(s)
    PROVE  Handled(s, t) /\ t.clip = Idle
<1>1. CASE s.clip = Idle
  BY <1>1, HandledSelf DEF CancelClip
<1>2. CASE s.clip # Idle
  <2>1. PICK u \in SettleClip(s, s.clip.filled, s.clip.filled, FALSE) : t = DropClip(u)
    BY <1>2 DEF CancelClip
  <2>2. ClipSettled(s, u, s.clip.filled, s.clip.filled)
    <3> DEFINE n == s.clip.filled
    <3>1. n \in Nat /\ FALSE \in BOOLEAN
      BY <1>2, ClipLegs
    <3>2. u \in SettleClip(s, n, n, FALSE)
      OBVIOUS
    <3> HIDE DEF n
    <3>3. ClipSettled(s, u, n, n)
      BY <1>2, <3>1, <3>2, ClipLegs, SettleClipOutcome
    <3> QED
      BY <3>3 DEF n
  <2>3. Good(u) /\ Evolve(s, u) /\ Working(u) = {}
    BY <2>2 DEF ClipSettled, Calm
  <2>4. ~s.rec.halted => Net(u) = Net(s)
    <3>1. Net(s) \in Int /\ ClipWorth(s, s.clip.filled) \in Int
      BY <1>2, GoodType, NetType, WorthType, ClipLegs DEF ClipWorth
    <3> QED
      BY <2>2, <3>1 DEF ClipSettled
  <2>5. Handled(u, DropClip(u)) /\ DropClip(u).clip = Idle
    BY <2>3, DropClipOutcome
  <2> QED
    BY <2>1, <2>3, <2>4, <2>5, HandledTrans
<1> QED
  BY <1>1, <1>2

LEMMA BookedFields ==
    ASSUME NEW s, Good(s), NEW b \in Int
    PROVE  LET t == DropClip([s EXCEPT !.book = b])
           IN  /\ Good(t) /\ Evolve(s, t) /\ Working(t) = Working(s) /\ Net(t) = Net(s)
               /\ t.clip = Idle /\ t.own = s.own /\ t.orders = s.orders /\ t.rec = s.rec
<1> DEFINE t == DropClip([s EXCEPT !.book = b])
<1>1. s \in State
  BY GoodType
<1>2. /\ t \in State /\ t.own = s.own /\ t.pending = s.pending /\ t.orders = s.orders
      /\ t.sink = s.sink /\ t.rec = s.rec /\ t.moves = s.moves /\ t.clip = Idle
  BY <1>1, IdleType DEF State, DropClip
<1> HIDE DEF t
<1>3. Good(t) /\ Evolve(s, t) /\ Working(t) = Working(s) /\ Net(t) = Net(s)
  BY <1>2, ReclipFields
<1> QED
  BY <1>2, <1>3 DEF t

(* A clip is committed: its maker, the only one still working, is retired  *)
(* and what it had executed unseen is paired.                              *)
LEMMA CommitClipOutcome ==
    ASSUME NEW s, Good(s), ClipOK(s), Working(s) \subseteq {s.clip.maker}, NEW t \in CommitClip(s)
    PROVE  Handled(s, t)
<1> DEFINE c == s.clip
           id == c.maker
           leg == IF c.maker = c.A THEN "B" ELSE "A"
           booked == DropClip([s EXCEPT !.book = @ + c.dir * c.lots])
<1>1. CASE c = Idle \/ s.rec.halted
  <2>1. t = s
    BY <1>1 DEF CommitClip
  <2> QED
    BY <2>1, HandledSelf
<1>2. CASE c # Idle /\ ~s.rec.halted
  <2>1. /\ c.dir \in {-1, 1} /\ LegOK(s, "A") /\ LegOK(s, "B") /\ c \in Clip /\ s \in State
        /\ c["A"] = c.A /\ c["B"] = c.B
    BY <1>2, ClipLegs, GoodType
  <2>2. s.book + c.dir * c.lots \in Int
    <3>1. s.book \in Int /\ c.dir \in Int /\ c.lots \in Int
      BY <2>1, StateType, ClipType
    <3> QED
      BY <3>1
  <2>3. /\ Good(booked) /\ Evolve(s, booked) /\ Working(booked) = Working(s) /\ Net(booked) = Net(s)
        /\ booked.clip = Idle /\ booked.own = s.own /\ booked.rec = s.rec
    BY <2>2, BookedFields
  <2>4. CASE id = 0
    <3>1. t = booked
      BY <1>2, <2>4 DEF CommitClip
    <3>2. Working(s) = {}
      BY <2>4, GoodType DEF Working
    <3> QED
      BY <2>3, <3>1, <3>2 DEF Handled, ClipOK
  <2>5. CASE id # 0
    <3>1. PICK r \in RetireOrder(booked, id) :
             t \in TopUp(r.st, leg, LegBuys(c.dir, leg), HedgeLots(leg, r.gap))
      BY <1>2, <2>5 DEF CommitClip
    <3>2. /\ id \in DOMAIN s.own /\ s.own[id].maker = TRUE /\ s.own[id].leg = Other(leg)
          /\ s.own[id].buy = LegBuys(c.dir, Other(leg)) /\ leg \in Leg
      <4>1. id = c.A \/ id = c.B
        BY <1>2, <2>5 DEF ClipOK
      <4>2. /\ id \in DOMAIN s.own /\ s.own[id].maker /\ s.own[id].leg = Other(leg)
            /\ s.own[id].buy = LegBuys(c.dir, Other(leg))
        <5>1. CASE id = c.A
          <6>1. leg = "B" /\ Other(leg) = "A"
            BY <5>1 DEF Other
          <6> QED
            BY <2>1, <2>5, <5>1, <6>1 DEF LegOK
        <5>2. CASE id # c.A
          <6>1. leg = "A" /\ Other(leg) = "B" /\ id = c.B
            BY <4>1, <5>2 DEF Other
          <6> QED
            BY <2>1, <2>5, <6>1 DEF LegOK
        <5> QED
          BY <5>1, <5>2
      <4>3. s.own[id].maker \in BOOLEAN
        BY <4>2, GoodType DEF Acct
      <4> QED
        BY <4>2, <4>3 DEF Leg
    <3> HIDE DEF booked
    <3>3. Retired(booked, r, id)
      BY <2>3, <3>1, <3>2, RetireOrderOutcome
    <3> DEFINE gap == r.gap
               m == Other(leg)
    <3> HIDE DEF leg
    <3>4. /\ Good(r.st) /\ Evolve(booked, r.st) /\ r.st.clip = Idle /\ Working(r.st) = {}
          /\ gap \in Nat /\ Net(r.st) = Net(s) + Worth(m, LegBuys(c.dir, m), gap)
      BY <2>3, <3>2, <3>3 DEF Retired
    <3>5. Evolve(s, r.st) /\ ~r.st.rec.halted
      BY <1>2, <2>3, <3>4, EvolveTrans DEF Evolve
    <3>6. m \in Leg /\ Other(m) = leg /\ leg \in Leg
      BY <3>2, OtherLeg
    <3>7. m = "A" \/ HedgeRatio = 1
      BY <3>2, <3>6, GoodType DEF AcctOK, Leg
    <3> HIDE DEF m, gap
    <3>8. Worth(m, LegBuys(c.dir, m), gap) = LegWorth(s, m, gap) /\ LegWorth(s, m, gap) \in Int
      BY <2>1, <3>4, <3>6, <3>7, LegWorthIs
    <3>9. Worth(leg, LegBuys(c.dir, leg), HedgeLots(leg, gap)) = -LegWorth(s, m, gap)
      <4>1. Worth(leg, LegBuys(c.dir, leg), HedgeLots(leg, gap)) = LegWorth(s, leg, gap)
        BY <2>1, <3>4, <3>6, LegWorthIs
      <4>2. LegWorth(s, leg, gap) = -LegWorth(s, m, gap)
        BY <2>1, <3>4, <3>6, LegWorthIs
      <4> QED
        BY <4>1, <4>2
    <3>10. HedgedIfRunning(r.st, t, leg, LegBuys(c.dir, leg), HedgeLots(leg, gap)) /\ Good(t)
      <4> DEFINE b == LegBuys(c.dir, leg)
                 h == HedgeLots(leg, gap)
      <4>1. h \in Nat /\ b \in BOOLEAN
        BY <2>1, <3>4, HedgeLotsType, BuysType
      <4>2. t \in TopUp(r.st, leg, b, h)
        BY <3>1 DEF gap
      <4> HIDE DEF b, h
      <4>3. HedgedIfRunning(r.st, t, leg, b, h) /\ Good(t)
        BY <3>4, <3>6, <4>1, <4>2, TopUpOutcome
      <4> QED
        BY <4>3 DEF b, h
    <3>11. Aside(r.st, t, {}) /\ Net(t) = Net(s)
      <4>1. Net(s) \in Int
        BY <2>1, NetType
      <4> QED
        BY <3>4, <3>5, <3>8, <3>9, <3>10, <4>1 DEF HedgedIfRunning
    <3>12. Evolve(r.st, t) /\ t.clip = Idle /\ Working(t) = {}
      BY <3>4, <3>11 DEF Aside, Calm
    <3>13. Evolve(s, t)
      BY <3>4, <3>5, <3>10, <3>12, EvolveTrans
    <3> QED
      BY <3>10, <3>11, <3>12, <3>13 DEF Handled, ClipOK
  <2> QED
    BY <2>4, <2>5
<1> QED
  BY <1>1, <1>2

(* A clip whose legs were settled is committed. *)
LEMMA SettledCommit ==
    ASSUME NEW s, Good(s), s.clip # Idle, NEW u, Good(u), Evolve(s, u), u.clip = s.clip, Working(u) = {},
           ClipOK(u), ~s.rec.halted => Net(u) = Net(s),
           NEW t \in CommitClip(u)
    PROVE  Handled(s, t)
<1>1. Handled(u, t)
  BY CommitClipOutcome
<1> QED
  BY <1>1, HandledTrans

LEMMA CompleteClipOutcome ==
    ASSUME NEW s, Good(s), ClipOK(s), s.clip # Idle, NEW t \in CompleteClip(s)
    PROVE  Handled(s, t)
<1> DEFINE n == s.clip.filled
<1>1. PICK u \in SettleClip(s, n, n, TRUE) : t \in CommitClip(u)
  BY DEF CompleteClip, After
<1>2. n \in Nat /\ TRUE \in BOOLEAN /\ Net(s) \in Int /\ ClipWorth(s, n) \in Int
  BY ClipLegs, GoodType, NetType, WorthType DEF ClipWorth
<1> HIDE DEF n
<1>3. ClipSettled(s, u, n, n)
  BY <1>1, <1>2, ClipLegs, SettleClipOutcome
<1>4. Calm(s, u) /\ Working(u) = {} /\ (~s.rec.halted => Net(u) = Net(s))
  BY <1>2, <1>3 DEF ClipSettled
<1>5. Good(u) /\ Evolve(s, u) /\ u.clip = s.clip /\ ClipOK(u)
  BY <1>4, ClipKept DEF Calm
<1> QED
  BY <1>1, <1>4, <1>5, SettledCommit

LEMMA AbandonClipOutcome ==
    ASSUME NEW s, Good(s), ClipOK(s), s.clip # Idle, NEW t \in AbandonClip(s)
    PROVE  Handled(s, t)
<1> DEFINE c == s.clip
<1>1. CASE ~c.close /\ KeepPartial
  BY <1>1, CancelClipOutcome DEF AbandonClip
<1>2. CASE ~(~c.close /\ KeepPartial)
  <2> DEFINE Remainder(rb, gap) ==
               IF gap = 0 /\ rb.gap = 0 THEN {DropClip(rb.st)}
               ELSE UNION {CommitClip(u) : u \in SettleClip(rb.st, gap, rb.gap, TRUE)}
             Second(ra) == UNION {Remainder(rb, ra.gap) : rb \in RetireOrder(ra.st, c.B)}
  <2>12. AbandonClip(s) = UNION {Second(ra) : ra \in RetireOrder(s, c.A)}
    BY <1>2, Zenon DEF AbandonClip, After
  <2> HIDE DEF Remainder
  <2>1. PICK ra \in RetireOrder(s, c.A) : t \in Second(ra)
    <3> HIDE DEF Second
    <3> QED
      BY <2>12
  <2>2. /\ c.dir \in {-1, 1} /\ LegOK(s, "A") /\ LegOK(s, "B") /\ Working(s) \subseteq {c.A, c.B}
        /\ c["A"] = c.A /\ c["B"] = c.B /\ "A" \in Leg /\ "B" \in Leg /\ Net(s) \in Int
    BY ClipLegs, GoodType, NetType DEF Leg
  <2>3. LegRetired(s, ra, "A")
    BY <2>1, <2>2, RetireLegOutcome
  <2>4. /\ Calm(s, ra.st) /\ Good(ra.st) /\ Evolve(s, ra.st) /\ ra.st.clip = c /\ ra.gap \in Nat
        /\ Working(ra.st) \subseteq Working(s) \ {c.A} /\ Net(ra.st) = Net(s) + ClipWorth(s, ra.gap)
    BY <2>2, <2>3 DEF LegRetired, Retired
  <2>5. PICK rb \in RetireOrder(ra.st, c.B) : t \in Remainder(rb, ra.gap)
    BY <2>1
  <2>6. LegRetired(ra.st, rb, "B")
    <3>1. rb \in RetireOrder(ra.st, ra.st.clip["B"]) /\ ra.st.clip.dir \in {-1, 1} /\ LegOK(ra.st, "B")
      BY <2>2, <2>4, <2>5, LegKept
    <3> QED
      BY <2>2, <2>4, <3>1, RetireLegOutcome
  <2> DEFINE u == rb.st
             g == ra.gap
             h == rb.gap
  <2>7. /\ Calm(ra.st, u) /\ Good(u) /\ Working(u) \subseteq Working(ra.st) \ {c.B}
        /\ h \in Nat /\ Net(u) = Net(s) + ClipWorth(s, g) - ClipWorth(s, h)
        /\ ClipWorth(s, g) \in Int /\ ClipWorth(s, h) \in Int
    <3>1. ClipWorth(ra.st, h) = ClipWorth(s, h) /\ h \in Nat /\ Net(ra.st) \in Int
      BY <2>4, <2>6, NetType, GoodType DEF LegRetired, Retired, ClipWorth
    <3>2. ClipWorth(s, g) \in Int /\ ClipWorth(s, h) \in Int
      BY <2>4, <3>1, WorthType DEF ClipWorth
    <3> QED
      BY <2>2, <2>4, <2>6, <3>1, <3>2 DEF LegRetired, Retired
  <2>8. /\ Calm(s, u) /\ Working(u) = {} /\ Evolve(s, u) /\ u.clip = c
    BY <2>2, <2>4, <2>7, CalmTrans DEF Calm
  <2>9. ClipOK(u)
    BY <2>8, ClipKept
  <2>10. CASE g = 0 /\ h = 0
    <3>1. t = DropClip(u)
      BY <2>5, <2>10 DEF Remainder
    <3>2. Net(u) = Net(s)
      BY <2>2, <2>7, <2>10, WorthZero DEF ClipWorth
    <3>3. Handled(u, t)
      BY <2>7, <2>8, <3>1, DropClipOutcome
    <3> QED
      BY <2>7, <2>8, <3>2, <3>3, HandledTrans
  <2>11. CASE ~(g = 0 /\ h = 0)
    <3>1. PICK v \in SettleClip(u, g, h, TRUE) : t \in CommitClip(v)
      BY <2>5, <2>11 DEF Remainder
    <3> HIDE DEF u, g, h
    <3>2. ClipSettled(u, v, g, h)
      <4>1. u.clip.dir \in {-1, 1} /\ LegOK(u, "A") /\ LegOK(u, "B") /\ Working(u) \subseteq {u.clip.A, u.clip.B}
        BY <2>7, <2>8, <2>9, ClipLegs
      <4>2. g \in Nat /\ h \in Nat /\ TRUE \in BOOLEAN
        BY <2>4, <2>7 DEF g
      <4> QED
        BY <2>7, <3>1, <4>1, <4>2, SettleClipOutcome
    <3>3. Calm(u, v) /\ Working(v) = {} /\ Good(v) /\ Evolve(u, v) /\ v.clip = u.clip
      BY <3>2 DEF ClipSettled, Calm
    <3>4. ~u.rec.halted => Net(v) = Net(u) - ClipWorth(s, g) + ClipWorth(s, h)
      BY <2>8, <3>2 DEF ClipSettled, ClipWorth
    <3>5. ~s.rec.halted => Net(v) = Net(s)
      BY <2>2, <2>7, <2>8, <3>4 DEF Evolve
    <3>6. ClipOK(v)
      BY <2>7, <2>9, <3>3, ClipKept
    <3>7. Evolve(s, v) /\ v.clip = s.clip
      BY <2>7, <2>8, <3>3, EvolveTrans
    <3> QED
      BY <3>1, <3>3, <3>5, <3>6, <3>7, SettledCommit
  <2> QED
    BY <2>10, <2>11
<1> QED
  BY <1>1, <1>2

LEMMA ResolveClipOutcome ==
    ASSUME NEW s, Good(s), ClipOK(s), NEW t \in ResolveClip(s)
    PROVE  Handled(s, t)
<1>1. CASE s.clip = Idle
  <2>1. t = s
    BY <1>1 DEF ResolveClip
  <2> QED
    BY <2>1, HandledSelf
<1>2. CASE s.clip # Idle
  <2>1. t \in AbandonClip(s) \/ t \in CancelClip(s) \/ t \in CompleteClip(s)
    BY <1>2 DEF ResolveClip
  <2> QED
    BY <1>2, <2>1, AbandonClipOutcome, CancelClipOutcome, CompleteClipOutcome
<1> QED
  BY <1>1, <1>2

LEMMA ServiceImpairedOutcome ==
    ASSUME NEW s, Good(s), ClipOK(s), NEW due \in BOOLEAN, NEW t \in ServiceImpaired(s, due)
    PROVE  Handled(s, t) /\ (s.clip = Idle => t.clip = Idle)
<1>1. CASE ~s.rec.impaired \/ s.rec.halted
  <2>1. t = s
    BY <1>1 DEF ServiceImpaired
  <2> QED
    BY <2>1, HandledSelf
<1>2. CASE ~(~s.rec.impaired \/ s.rec.halted) /\ ~due
  <2>1. t \in ResolveClip(s)
    BY <1>2 DEF ServiceImpaired
  <2> QED
    BY <2>1, ResolveClipOutcome DEF ResolveClip
<1>3. CASE ~(~s.rec.impaired \/ s.rec.halted) /\ due
  <2> DEFINE R == UNION {RetryRetires(u) : u \in ResolveClip(s)}
             D == UNION {RetryDebts(v) : v \in R}
  <2>1. ServiceImpaired(s, due) = {RecoverIfDone(w) : w \in D}
    BY <1>3, Zenon DEF ServiceImpaired, After
  <2>2. PICK w \in D : t = RecoverIfDone(w)
    <3> HIDE DEF D
    <3> QED
      BY <2>1
  <2>3. PICK v \in R : w \in RetryDebts(v)
    <3> HIDE DEF R
    <3> QED
      OBVIOUS
  <2>4. PICK u \in ResolveClip(s) : v \in RetryRetires(u)
    OBVIOUS
  <2>5. Handled(s, u)
    BY ResolveClipOutcome
  <2>6. Good(u) /\ ClipOK(u) /\ Evolve(s, u) /\ (~s.rec.halted => Net(u) = Net(s)) /\ u.rec.halted = s.rec.halted
    BY <2>5 DEF Handled, Evolve
  <2>7. Quiet(u, v)
    BY <2>4, <2>6, RetryRetiresOutcome
  <2>8. Quiet(v, w)
    BY <1>3, <2>3, <2>6, <2>7, RetryDebtsOutcome, QuietGood
  <2>9. Quiet(w, t)
    BY <2>2, <2>8, RecoverIfDoneOutcome, QuietGood
  <2>10. Quiet(u, t)
    BY <2>6, <2>7, <2>8, <2>9, QuietTrans, QuietGood
  <2>11. Handled(u, t)
    BY <2>6, <2>10, QuietHandled
  <2>12. s.clip = Idle => t.clip = Idle
    <3>1. s.clip = Idle => u = s
      BY DEF ResolveClip
    <3> QED
      BY <2>10, <3>1 DEF Quiet, Calm
  <2> QED
    BY <2>6, <2>11, <2>12, HandledTrans
<1> QED
  BY <1>1, <1>2, <1>3

-----------------------------------------------------------------------------
(* Opening a clip. *)

Intent == [ dir : {-1, 1}, close : BOOLEAN, lots : Nat \ {0}, mode : Mode \cup {"default"} ]

(* The engine may open a clip. *)
Free(s) == Good(s) /\ s.clip = Idle /\ Working(s) = {} /\ ~s.rec.halted

LEMMA FreeIs ==
    ASSUME NEW s, Good(s), ClipOK(s), s.clip = Idle, ~s.rec.halted
    PROVE  Free(s)
BY DEF Free, ClipOK

LEMMA AsideFree ==
    ASSUME NEW s, Free(s), NEW t, Aside(s, t, {})
    PROVE  Free(t) /\ Evolve(s, t) /\ ClipOK(t) /\ Good(t)
BY DEF Free, Aside, Calm, Evolve, ClipOK

LEMMA IntentType ==
    ASSUME NEW i \in Intent
    PROVE  /\ i.dir \in {-1, 1} /\ i.close \in BOOLEAN /\ i.lots \in Nat \ {0}
           /\ ClipExecMode(i) \in Mode
           /\ ClipExecMode(i) \in {"dual", "soloB"} => HedgeRatio = 1
<1>1. i.dir \in {-1, 1} /\ i.close \in BOOLEAN /\ i.lots \in Nat \ {0} /\ i.mode \in Mode \cup {"default"}
  BY DEF Intent
<1> DEFINE mode == IF i.mode = "default" THEN DefaultMode ELSE i.mode
<1>2. mode \in Mode
  BY <1>1, Constants
<1> HIDE DEF mode
<1>3. ClipExecMode(i) = IF mode \in {"dual", "soloB"} /\ HedgeRatio > 1 THEN "solo" ELSE mode
  BY DEF ClipExecMode, mode
<1>4. ClipExecMode(i) \in Mode /\ (ClipExecMode(i) \in {"dual", "soloB"} => ~(HedgeRatio > 1))
  BY <1>2, <1>3 DEF Mode
<1> QED
  BY <1>1, <1>4, Constants

(* A leg whose taker failed is chased. *)
LEMMA ChaseOutcome ==
    ASSUME NEW s, Good(s), ~s.rec.halted, NEW leg \in Leg, NEW buy \in BOOLEAN, NEW lots \in Nat \ {0},
           NEW t, t \in TakerRetryPlain(s, leg, buy, lots, 1) \/ t \in TakerRetryFrom(s, leg, buy, lots, 1)
    PROVE  Aside(s, t, {}) /\ Net(t) = Net(s) + Worth(leg, buy, lots)
BY TakerRetryPlainOutcome, TakerRetryFromOutcome DEF Hedged

LEMMA OpenTakerOnlyClipOutcome ==
    ASSUME NEW s, Free(s), NEW intent \in Intent, NEW lots \in Nat \ {0},
           NEW t \in OpenTakerOnlyClip(s, intent, lots)
    PROVE  Handled(s, t) /\ t.clip = Idle
<1> DEFINE buy(leg) == LegBuys(intent.dir, leg)
           n(leg) == HedgeLots(leg, lots)
           w(leg) == Worth(leg, buy(leg), n(leg))
           Chase(v, leg, ok, plain) ==
              IF ok THEN {v}
              ELSE IF plain THEN TakerRetryPlain(v, leg, buy(leg), n(leg), 1)
              ELSE TakerRetryFrom(v, leg, buy(leg), n(leg), 1)
           Plain(a, b) == ~(a.res = "ok") /\ ~(b.res = "ok") /\ ~intent.close
           Join(a, b) == UNION { Chase(v, "B", b.res = "ok", Plain(a, b)) :
                                 v \in Chase(b.st, "A", a.res = "ok", Plain(a, b)) }
           Second(a) == UNION {Join(a, b) : b \in PlaceTaker(a.st, "B", buy("B"), n("B"))}
           Both == UNION {Second(a) : a \in PlaceTaker(s, "A", buy("A"), n("A"))}
<1>1. /\ buy("A") \in BOOLEAN /\ buy("B") \in BOOLEAN /\ "A" \in Leg /\ "B" \in Leg
      /\ intent.dir \in {-1, 1}
  BY IntentType, BuysType DEF Leg
<1>2. n("A") \in Nat \ {0} /\ n("B") \in Nat \ {0}
  BY HedgeLotsType
<1>3. w("A") \in Int /\ w("B") = -w("A")
  BY <1>1, <1>2, WorthHedge, WorthType
<1>4. OpenTakerOnlyClip(s, intent, lots) = {[v EXCEPT !.book = @ + intent.dir * lots] : v \in Both}
  BY Zenon DEF OpenTakerOnlyClip, After
<1> HIDE DEF buy, n
<1>5. ASSUME NEW v, NEW leg \in Leg, NEW ok \in BOOLEAN, NEW plain, Free(v),
             buy(leg) \in BOOLEAN, n(leg) \in Nat \ {0}, NEW u \in Chase(v, leg, ok, plain)
      PROVE  /\ Aside(v, u, {}) /\ Free(u)
             /\ IF ok THEN u = v ELSE Net(u) = Net(v) + w(leg)
  <2>3. Good(v) /\ ~v.rec.halted
    BY <1>5 DEF Free
  <2>1. CASE ok
    <3>1. u = v
      BY <2>1
    <3> QED
      BY <1>5, <2>1, <2>3, <3>1, AsideRefl
  <2>2. CASE ~ok
    <3>1. u \in TakerRetryPlain(v, leg, buy(leg), n(leg), 1) \/ u \in TakerRetryFrom(v, leg, buy(leg), n(leg), 1)
      BY <2>2
    <3> DEFINE l == n(leg)
               b == buy(leg)
    <3>2. l \in Nat \ {0} /\ b \in BOOLEAN /\ (u \in TakerRetryPlain(v, leg, b, l, 1) \/ u \in TakerRetryFrom(v, leg, b, l, 1))
      BY <1>5, <3>1
    <3> HIDE DEF l, b
    <3>3. Aside(v, u, {}) /\ Net(u) = Net(v) + Worth(leg, b, l)
      BY <2>3, <3>2, ChaseOutcome
    <3> QED
      BY <1>5, <2>2, <3>3, AsideFree DEF l, b
  <2> QED
    BY <2>1, <2>2
<1> HIDE DEF Chase, w
<1>6. ASSUME NEW v, NEW leg \in Leg, NEW b \in BOOLEAN, NEW l \in Nat \ {0}, b = buy(leg), l = n(leg),
             Free(v), NEW p \in PlaceTaker(v, leg, b, l)
      PROVE  /\ Aside(v, p.st, {}) /\ Free(p.st)
             /\ Net(p.st) = Net(v) + IF p.res = "ok" THEN w(leg) ELSE 0
  <2>1. Aside(v, p.st, {}) /\ Net(p.st) = Net(v) + IF p.res = "ok" THEN Worth(leg, b, l) ELSE 0
    BY <1>6, PlaceTakerOutcome DEF Free
  <2> QED
    BY <1>6, <2>1, AsideFree DEF w
<1>7. PICK v \in Both : t = [v EXCEPT !.book = @ + intent.dir * lots]
  <2> HIDE DEF Both
  <2> QED
    BY <1>4
<1>8. PICK a \in PlaceTaker(s, "A", buy("A"), n("A")) : v \in Second(a)
  <2> HIDE DEF Second
  <2> QED
    OBVIOUS
<1>9. PICK b \in PlaceTaker(a.st, "B", buy("B"), n("B")) : v \in Join(a, b)
  <2> HIDE DEF Join
  <2> QED
    BY <1>8
<1>10. PICK u \in Chase(b.st, "A", a.res = "ok", Plain(a, b)) : v \in Chase(u, "B", b.res = "ok", Plain(a, b))
  <2> HIDE DEF Plain
  <2> QED
    BY <1>9
<1> HIDE DEF Both, Second, Join, Plain
<1>11. /\ Aside(s, a.st, {}) /\ Free(a.st)
       /\ Net(a.st) = Net(s) + IF a.res = "ok" THEN w("A") ELSE 0
  BY <1>1, <1>2, <1>6, <1>8
<1>12. /\ Aside(a.st, b.st, {}) /\ Free(b.st)
       /\ Net(b.st) = Net(a.st) + IF b.res = "ok" THEN w("B") ELSE 0
  BY <1>1, <1>2, <1>6, <1>9, <1>11
<1>13. Aside(b.st, u, {}) /\ (IF a.res = "ok" THEN u = b.st ELSE Net(u) = Net(b.st) + w("A")) /\ Free(u)
  <2> DEFINE ok == a.res = "ok"
  <2>1. ok \in BOOLEAN /\ u \in Chase(b.st, "A", ok, Plain(a, b))
    BY <1>10
  <2> HIDE DEF ok
  <2>2. Aside(b.st, u, {}) /\ Free(u) /\ IF ok THEN u = b.st ELSE Net(u) = Net(b.st) + w("A")
    BY <1>1, <1>2, <1>5, <1>12, <2>1
  <2> QED
    BY <2>2 DEF ok
<1>14. Aside(u, v, {}) /\ (IF b.res = "ok" THEN v = u ELSE Net(v) = Net(u) + w("B")) /\ Free(v)
  <2> DEFINE ok == b.res = "ok"
  <2>1. ok \in BOOLEAN /\ v \in Chase(u, "B", ok, Plain(a, b))
    BY <1>10
  <2> HIDE DEF ok
  <2>2. Aside(u, v, {}) /\ Free(v) /\ IF ok THEN v = u ELSE Net(v) = Net(u) + w("B")
    BY <1>1, <1>2, <1>5, <1>13, <2>1
  <2> QED
    BY <2>2 DEF ok
<1>15. Net(v) = Net(s) /\ Aside(s, v, {}) /\ Good(v) /\ Evolve(s, v)
  <2>1. Good(s) /\ Net(s) \in Int /\ Net(b.st) \in Int /\ Net(u) \in Int /\ Net(a.st) \in Int
    BY <1>11, <1>12, <1>13, NetType, GoodType DEF Free
  <2>2. Aside(s, v, {})
    <3>1. Aside(s, b.st, {})
      BY <1>11, <1>12, <2>1, AsideTrans
    <3>2. Aside(s, u, {})
      BY <1>13, <2>1, <3>1, AsideTrans
    <3> QED
      BY <1>14, <2>1, <3>2, AsideTrans
  <2> QED
    BY <1>3, <1>11, <1>12, <1>13, <1>14, <2>1, <2>2, AsideCalm
<1>16. /\ Good(t) /\ Evolve(v, t) /\ Working(t) = Working(v) /\ Net(t) = Net(v) /\ t.clip = v.clip
  <2>1. v \in State /\ v.book \in Int /\ Good(v)
    BY <1>14, GoodType, StateType DEF Free
  <2>2. v.book + intent.dir * lots \in Int
    BY <1>1, <2>1
  <2> DEFINE x == v.book + intent.dir * lots
  <2>3. t = [v EXCEPT !.book = x] /\ x \in Int
    BY <1>7, <2>2
  <2> HIDE DEF x
  <2>4. /\ t \in State /\ t.own = v.own /\ t.pending = v.pending /\ t.orders = v.orders
        /\ t.sink = v.sink /\ t.rec = v.rec /\ t.moves = v.moves /\ t.clip = v.clip
    BY <2>1, <2>3 DEF State
  <2> QED
    BY <2>1, <2>4, ReclipFields
<1>17. Evolve(s, t) /\ t.clip = Idle /\ Working(t) = {}
  BY <1>14, <1>15, <1>16, EvolveTrans DEF Free
<1> QED
  BY <1>15, <1>16, <1>17 DEF Handled, ClipOK

(* A leg that rests for a clip of an intent, or 0. *)
Rests(u, id, leg, dir, lots) ==
    id # 0 => /\ id \in DOMAIN u.own
              /\ u.own[id].maker = TRUE /\ u.own[id].leg = leg
              /\ u.own[id].buy = LegBuys(dir, leg) /\ u.own[id].placed = lots

LEMMA OpenedClipType ==
    ASSUME NEW intent \in Intent, NEW lots \in Nat \ {0}, NEW a \in Nat, NEW b \in Nat
    PROVE  LET c == OpenedClip(intent, lots, a, b)
           IN  /\ c \in Clip /\ c # Idle /\ c.dir = intent.dir /\ c.target = lots
               /\ c.mode = ClipExecMode(intent)
               /\ c.A = a /\ c.B = b /\ c["A"] = a /\ c["B"] = b /\ c.maker = 0 /\ c.filled = 0
<1> DEFINE mode == ClipExecMode(intent)
<1>1. intent.dir \in {-1, 1} /\ intent.close \in BOOLEAN /\ intent.lots \in Nat \ {0} /\ mode \in Mode
  BY IntentType
<1> HIDE DEF mode
<1> DEFINE c == [ dir |-> intent.dir, close |-> intent.close, lots |-> intent.lots,
                  target |-> lots, mode |-> mode, A |-> a, B |-> b, maker |-> 0, filled |-> 0 ]
<1>2. c \in Clip
  BY <1>1 DEF Clip
<1>3. c.dir = intent.dir /\ Idle.dir = 0
  BY DEF Idle
<1>4. c # Idle
  BY <1>1, <1>3
<1>5. /\ c.dir = intent.dir /\ c.target = lots /\ c.mode = mode
      /\ c.A = a /\ c.B = b /\ c["A"] = a /\ c["B"] = b /\ c.maker = 0 /\ c.filled = 0
  OBVIOUS
<1>6. OpenedClip(intent, lots, a, b) = c
  BY DEF OpenedClip, mode
<1> HIDE DEF c
<1> QED
  BY <1>2, <1>4, <1>5, <1>6 DEF mode

(* The clip is set. *)
LEMMA SetClipFields ==
    ASSUME NEW s, Good(s), NEW c \in Clip
    PROVE  LET t == [s EXCEPT !.clip = c]
           IN  /\ Good(t) /\ Evolve(s, t) /\ Working(t) = Working(s) /\ Net(t) = Net(s)
               /\ t.clip = c /\ t.own = s.own /\ t.rec = s.rec
<1> DEFINE t == [s EXCEPT !.clip = c]
<1>1. s \in State
  BY GoodType
<1>2. /\ t \in State /\ t.own = s.own /\ t.pending = s.pending /\ t.orders = s.orders
      /\ t.sink = s.sink /\ t.rec = s.rec /\ t.moves = s.moves /\ t.clip = c
  BY <1>1 DEF State
<1> HIDE DEF t
<1>3. Good(t) /\ Evolve(s, t) /\ Working(t) = Working(s) /\ Net(t) = Net(s)
  BY <1>2, ReclipFields
<1> QED
  BY <1>2, <1>3 DEF t

LEMMA RestOutcome ==
    ASSUME NEW u, Good(u), NEW intent \in Intent, NEW lots \in Nat \ {0}, NEW a \in Nat, NEW b \in Nat,
           Rests(u, a, "A", intent.dir, lots), Rests(u, b, "B", intent.dir, lots),
           Working(u) \subseteq {a, b}
    PROVE  LET t == [u EXCEPT !.clip = OpenedClip(intent, lots, a, b)]
           IN  Good(t) /\ ClipOK(t) /\ Evolve(u, t) /\ Net(t) = Net(u)
<1> DEFINE c == OpenedClip(intent, lots, a, b)
           t == [u EXCEPT !.clip = c]
<1>1. /\ c \in Clip /\ c # Idle /\ c.dir = intent.dir /\ c.target = lots
      /\ c.mode = ClipExecMode(intent)
      /\ c.A = a /\ c.B = b /\ c["A"] = a /\ c["B"] = b /\ c.maker = 0 /\ c.filled = 0
  BY OpenedClipType
<1> HIDE DEF c
<1>2. /\ Good(t) /\ Evolve(u, t) /\ Working(t) = Working(u) /\ Net(t) = Net(u)
      /\ t.clip = c /\ t.own = u.own
  BY <1>1, SetClipFields
<1> HIDE DEF t
<1>3. intent.dir \in {-1, 1} /\ (c.mode \in {"dual", "soloB"} => HedgeRatio = 1)
  BY <1>1, IntentType
<1>4. LegOK(t, "A") /\ LegOK(t, "B")
  BY <1>1, <1>2 DEF LegOK, Rests
<1>5. c.target >= 1
  BY <1>1
<1>6. ClipOK(t)
  BY <1>1, <1>2, <1>3, <1>4, <1>5 DEF ClipOK
<1> QED
  BY <1>2, <1>6 DEF t, c

LEMMA MakerRests ==
    ASSUME NEW s, NEW leg, NEW dir, NEW lots, NEW o,
           MakerPlaced(s, leg, LegBuys(dir, leg), lots, o)
    PROVE  /\ Rests(o.st, o.id, leg, dir, lots) /\ o.id \in Nat /\ o.id \in DOMAIN o.st.own
           /\ Good(o.st) /\ Evolve(s, o.st) /\ o.st.clip = s.clip
           /\ Working(o.st) \subseteq Working(s) \cup {o.id}
<1>1. /\ Good(o.st) /\ o.id \in DOMAIN o.st.own /\ o.st.own[o.id].maker /\ o.st.own[o.id].leg = leg
      /\ o.st.own[o.id].buy = LegBuys(dir, leg) /\ o.st.own[o.id].placed = lots
  BY DEF MakerPlaced
<1>2. o.st.own[o.id].maker \in BOOLEAN /\ o.id \in Nat
  BY <1>1, GoodType DEF Acct
<1> QED
  BY <1>1, <1>2 DEF MakerPlaced, Rests

LEMMA RestsKept ==
    ASSUME NEW s, NEW t, NEW id, NEW leg, NEW dir, NEW lots,
           Evolve(s, t), Rests(s, id, leg, dir, lots)
    PROVE  Rests(t, id, leg, dir, lots)
BY DEF Evolve, Rests

(* An attempt to open a clip: it rests, or the engine stays free. *)
Opened(s, r) ==
    /\ Handled(s, r.st) /\ r.retry \in BOOLEAN
    /\ r.retry => r.st.clip = Idle
    /\ r.retry \/ r.st.clip # Idle => Adds(s, r.st)

LEMMA AsideOpened ==
    ASSUME NEW s, Free(s), NEW t, Aside(s, t, {}), Net(t) = Net(s), Adds(s, t), NEW retry \in BOOLEAN,
           NEW r, r = [st |-> t, retry |-> retry]
    PROVE  Opened(s, r)
<1>1. Free(t) /\ Evolve(s, t) /\ ClipOK(t) /\ Good(t)
  BY AsideFree
<1> QED
  BY <1>1 DEF Opened, Handled, Free

(* An order moves on: p is its new state. *)
Moved(s, id, p) == [s EXCEPT !.orders = [@ EXCEPT ![id] = p]]

LEMMA MovedOutcome ==
    ASSUME NEW s, Good(s), NEW id \in 1..Len(s.orders), NEW p \in OrderType, OrderOK(p),
           id \in DOMAIN s.own => AcctOK(s.own[id], p),
           NEW t, t = Moved(s, id, p)
    PROVE  /\ Good(t) /\ t.own = s.own /\ t.orders[id] = p
           /\ \A j \in 1..Len(s.orders) \ {id} : t.orders[j] = s.orders[j]
           /\ Len(t.orders) = Len(s.orders) /\ Net(t) = Net(s)
           /\ t.rec = s.rec /\ t.faults = s.faults /\ t.clip = s.clip /\ t.moves = s.moves
           /\ t.pending = s.pending /\ (ClipOK(s) => ClipOK(t))
           /\ p.sent = s.orders[id].sent => Quiet(s, t)
<1> DEFINE q == [s.orders EXCEPT ![id] = p]
           w == [s EXCEPT !.orders = q]
<1>1. /\ s \in State /\ Len(s.orders) \in Nat /\ s.orders \in Seq(OrderType) /\ s.moves \in Nat
      /\ DOMAIN s.own \subseteq 1..Len(s.orders)
  BY GoodType
<1>2. /\ q \in Seq(OrderType) /\ Len(q) = Len(s.orders) /\ q[id] = p
      /\ \A j \in 1..Len(s.orders) : j # id => q[j] = s.orders[j]
  BY <1>1, ExceptSeq
<1>3. t = w
  BY DEF Moved
<1> HIDE DEF q
<1>4. /\ w \in State /\ w.orders = q
      /\ w.own = s.own /\ w.rec = s.rec /\ w.sink = s.sink /\ w.faults = s.faults
      /\ w.pending = s.pending /\ w.clip = s.clip /\ w.moves = s.moves
  BY <1>1, <1>2 DEF State
<1> HIDE DEF w
<1>5. Good(w)
  <2>1. \A j \in 1..Len(w.orders) : OrderOK(w.orders[j])
    BY <1>2, <1>4 DEF Good
  <2>2. \A j \in DOMAIN w.own : AcctOK(w.own[j], w.orders[j])
    BY <1>1, <1>2, <1>4 DEF Good
  <2>3. Deferred(w) = Deferred(s)
    BY <1>4 DEF Deferred
  <2>4. Tallied(w)
    <3>1. CASE id \notin DOMAIN s.own
      <4>1. ~Full(w) /\ ~Full(s)
        BY <1>1, <1>2, <1>4, <3>1 DEF Full
      <4>2. ~OrdersNamed
        BY <4>1 DEF Good, Tallied
      <4> QED
        BY <4>1, <4>2 DEF Tallied
    <3>2. CASE id \in DOMAIN s.own
      <4>1. p.leg = s.orders[id].leg /\ p.buy = s.orders[id].buy
        <5>1. AcctOK(s.own[id], p) /\ AcctOK(s.own[id], s.orders[id])
          BY <3>2, GoodType
        <5> QED
          BY <5>1 DEF AcctOK
      <4>2. \A j \in DOMAIN s.own : w.orders[j].leg = s.orders[j].leg /\ w.orders[j].buy = s.orders[j].buy
        BY <1>1, <1>2, <1>4, <4>1
      <4>3. \A leg \in Leg : w.sink[leg] = s.sink[leg] + TermOn(s.orders[id], leg, w.own[id].credited - s.own[id].credited)
        <5> TAKE leg \in Leg
        <5>1. w.own[id].credited - s.own[id].credited = 0
          BY <1>4, <3>2, GoodType DEF Acct
        <5>2. TermOn(s.orders[id], leg, 0) = 0
          BY DEF TermOn, Sign
        <5>3. w.sink[leg] = s.sink[leg] /\ s.sink[leg] \in Int
          BY <1>4, GoodType
        <5> QED
          BY <5>1, <5>2, <5>3
      <4>4. Tallied(s)
        BY DEF Good
      <4>5. /\ DOMAIN w.own = DOMAIN s.own /\ Len(w.orders) = Len(s.orders)
            /\ \A j \in DOMAIN s.own \ {id} : w.own[j].credited = s.own[j].credited
        BY <1>2, <1>4
      <4> QED
        BY <1>1, <1>4, <3>2, <4>2, <4>3, <4>4, <4>5, TallyAmended
    <3> QED
      BY <3>1, <3>2
  <2> QED
    BY <1>1, <1>2, <1>4, <2>1, <2>2, <2>3, <2>4 DEF Good
<1>6. Working(w) = Working(s)
  BY <1>4 DEF Working
<1>7. Net(w) = Net(s)
  BY <1>4, NetSame
<1>8. p.sent = s.orders[id].sent => Quiet(s, w)
  <2> SUFFICES ASSUME p.sent = s.orders[id].sent PROVE Quiet(s, w)
    OBVIOUS
  <2>1. \A j \in DOMAIN s.own : s.own[j].folded =< s.own[j].folded /\ s.own[j].seen =< s.own[j].seen
    BY GoodType DEF Acct
  <2>2. s.moves =< s.moves /\ Len(s.orders) =< Len(s.orders)
    BY <1>1
  <2>3. \A j \in DOMAIN s.own : w.orders[j].sent = s.orders[j].sent
    BY <1>1, <1>2, <1>4
  <2>4. Evolve(s, w)
    BY <1>2, <1>4, <2>1, <2>2, <2>3 DEF Evolve
  <2> QED
    BY <1>4, <1>5, <1>6, <1>7, <2>4 DEF Quiet, Calm
<1>9. ClipOK(s) => ClipOK(w)
  BY <1>4, <1>6 DEF ClipOK, LegOK
<1> QED
  BY <1>2, <1>3, <1>4, <1>5, <1>7, <1>8, <1>9

(* What an account asks of its order outlives the order's executions. *)
LEMMA ExecutedOrder ==
    ASSUME NEW o \in OrderType, OrderOK(o), o.live = TRUE, NEW n \in Nat \ {0}, o.exec + n =< o.size,
           NEW p, p = [o EXCEPT !.exec = @ + n, !.live = o.exec + n < o.size]
    PROVE  /\ p \in OrderType /\ OrderOK(p) /\ p.sent = o.sent
           /\ \A a \in Acct : AcctOK(a, o) => AcctOK(a, p)
<1> DEFINE x == o.exec + n
           b == o.exec + n < o.size
<1>1. /\ o.exec \in Nat /\ o.size \in Nat /\ o.sent \in Nat /\ x \in Nat /\ b \in BOOLEAN
      /\ o.sent =< o.exec /\ o.exec =< o.size
  BY OrderFields DEF OrderOK
<1>2. p = [o EXCEPT !.exec = x, !.live = b]
  OBVIOUS
<1>3. b = FALSE => x = o.size
  BY <1>1
<1>4. x =< o.size /\ o.exec =< x
  BY <1>1
<1> HIDE DEF x, b
<1>5. /\ p \in OrderType /\ p.exec = x /\ p.live = b /\ p.size = o.size /\ p.sent = o.sent
      /\ p.leg = o.leg /\ p.buy = o.buy
  BY <1>1, <1>2 DEF OrderType
<1>6. OrderOK(p)
  BY <1>1, <1>4, <1>5 DEF OrderOK
<1>7. ASSUME NEW a \in Acct, AcctOK(a, o) PROVE AcctOK(a, p)
  <2>1. ~a.maker /\ a.final >= 0 => a.final >= p.exec /\ (a.final = a.placed \/ ~p.live)
    <3> SUFFICES ASSUME ~a.maker, a.final >= 0 PROVE a.final = a.placed /\ a.final >= p.exec
      OBVIOUS
    <3>1. a.final = a.placed /\ a.placed = o.size
      BY <1>7 DEF AcctOK
    <3> QED
      BY <1>1, <1>4, <1>5, <3>1
  <2>2. "kill" \notin FaultKinds /\ ~a.maker /\ ~p.live => p.exec = p.size
    BY <1>1, <1>3, <1>5
  <2>3. a.final \in Int /\ (a.final =< o.exec => a.final =< p.exec)
    BY <1>1, <1>4, <1>5 DEF Acct
  <2>4. a.maker /\ a.final >= 0 => a.final =< p.exec /\ "async" \in FaultKinds
    BY <1>7, <2>3 DEF AcctOK
  <2>5. "dup" \notin FaultKinds /\ a.final >= 0 => a.final =< p.exec
    BY <1>7, <2>3 DEF AcctOK
  <2> QED
    BY <1>5, <1>7, <2>1, <2>2, <2>4, <2>5 DEF AcctOK
<1> QED
  BY <1>5, <1>6, <1>7

(* What the broker makes of an order while a later call is made. *)
LEMMA MeanwhileOutcome ==
    ASSUME NEW s, Good(s), NEW id \in DOMAIN s.own, NEW v \in Meanwhile(s, id)
    PROVE  Quiet(s, v) /\ v.own = s.own /\ Net(v) = Net(s)
<1> DEFINE o == s.orders[id]
<1>1. /\ id \in 1..Len(s.orders) /\ o \in OrderType /\ OrderOK(o)
      /\ s.own[id] \in Acct /\ AcctOK(s.own[id], o)
  BY GoodType
<1>2. CASE v = s
  BY <1>2, CalmRefl DEF Quiet
<1>3. ASSUME o.live = TRUE, NEW n \in 1..(o.size - o.exec), v = Execute(s, id, n)
      PROVE  Quiet(s, v) /\ v.own = s.own /\ Net(v) = Net(s)
  <2> DEFINE p == [o EXCEPT !.exec = @ + n, !.live = o.exec + n < o.size]
  <2>1. n \in Nat \ {0} /\ o.exec + n =< o.size
    BY <1>1, <1>3, OrderFields
  <2>2. /\ p \in OrderType /\ OrderOK(p) /\ p.sent = o.sent
        /\ \A a \in Acct : AcctOK(a, o) => AcctOK(a, p)
    <3> HIDE DEF o
    <3> QED
      BY <1>1, <1>3, <2>1, ExecutedOrder
  <2>3. v = Moved(s, id, p)
    BY <1>3, ZenonT(40) DEF Execute, Moved
  <2> HIDE DEF p
  <2>4. id \in DOMAIN s.own => AcctOK(s.own[id], p)
    BY <1>1, <2>2
  <2> QED
    BY <1>1, <2>2, <2>3, <2>4, MovedOutcome
<1>4. v = s \/ (o.live = TRUE /\ \E n \in 1..(o.size - o.exec) : v = Execute(s, id, n))
  <2>1. o.live \in BOOLEAN
    BY <1>1, OrderFields
  <2> QED
    BY <2>1 DEF Meanwhile
<1> QED
  BY <1>2, <1>3, <1>4

(* The first leg is pulled, and what it executed is hedged. *)
LEMMA UnwindOutcome ==
    ASSUME NEW s, Good(s), ~s.rec.halted, s.clip = Idle, HedgeRatio = 1,
           NEW a \in DOMAIN s.own, NEW dir \in {-1, 1}, NEW lots \in Nat \ {0},
           Rests(s, a, "A", dir, lots), Working(s) \subseteq {a},
           NEW t \in UnwindFirstLeg(s, a, dir)
    PROVE  Handled(s, t) /\ t.clip = Idle /\ Working(t) = {}
<1> DEFINE bA == LegBuys(dir, "A")
           bB == LegBuys(dir, "B")
<1>1. PICK v \in Meanwhile(s, a) : \E r \in RetireOrder(v, a) :
             t \in TopUp(r.st, "B", bB, HedgeLots("B", r.gap))
  BY DEF UnwindFirstLeg
<1>2. PICK r \in RetireOrder(v, a) : t \in TopUp(r.st, "B", bB, HedgeLots("B", r.gap))
  BY <1>1
<1>3. Quiet(s, v) /\ v.own = s.own /\ Net(v) = Net(s)
  BY MeanwhileOutcome
<1>4. /\ Good(v) /\ Evolve(s, v) /\ v.clip = Idle /\ Working(v) \subseteq {a}
  BY <1>3 DEF Quiet, Calm
<1>5. /\ "A" \in Leg /\ "B" \in Leg /\ bA \in BOOLEAN /\ bB \in BOOLEAN /\ a # 0
      /\ Net(s) \in Int
  BY BuysType, NetType, GoodType DEF Leg
<1>6. a \in DOMAIN v.own /\ Rests(v, a, "A", dir, lots)
  BY <1>3, <1>4, RestsKept
<1>7. Retired(v, r, a)
  BY <1>2, <1>4, <1>5, <1>6, RetireOrderOutcome DEF Rests
<1> DEFINE g == r.gap
           h == HedgeLots("B", g)
<1>8. /\ Good(r.st) /\ Evolve(v, r.st) /\ r.st.clip = Idle /\ Working(r.st) = {} /\ g \in Nat
      /\ Net(r.st) = Net(v) + Worth("A", bA, g)
  BY <1>4, <1>5, <1>6, <1>7 DEF Retired, Rests
<1>9. h \in Nat /\ Worth("A", bA, g) \in Int /\ Worth("B", bB, h) = -Worth("A", bA, g)
  BY <1>5, <1>8, HedgeLotsType, WorthType, WorthHedge
<1>10. HedgedIfRunning(r.st, t, "B", bB, h) /\ Good(t)
  <2>1. t \in TopUp(r.st, "B", bB, h)
    BY <1>2
  <2> HIDE DEF bB, h
  <2> QED
    BY <1>5, <1>8, <1>9, <2>1, TopUpOutcome
<1> HIDE DEF bA, bB, h, g
<1>11. Evolve(s, r.st) /\ ~r.st.rec.halted
  <2>1. Evolve(s, r.st)
    BY <1>4, <1>8, EvolveTrans
  <2> QED
    BY <2>1 DEF Evolve
<1>12. Net(t) = Net(s)
  BY <1>3, <1>5, <1>8, <1>9, <1>10, <1>11 DEF HedgedIfRunning
<1>13. Evolve(r.st, t) /\ t.clip = Idle /\ Working(t) = {}
  BY <1>8, <1>10 DEF HedgedIfRunning, Aside, Calm
<1>14. Evolve(s, t)
  BY <1>8, <1>10, <1>11, <1>13, EvolveTrans
<1> QED
  BY <1>10, <1>12, <1>13, <1>14 DEF Handled, ClipOK

(* The second leg of a dual clip, after the first rests as order a. *)
LEMMA SecondLegOutcome ==
    ASSUME NEW s, Free(s), NEW intent \in Intent, NEW lots \in Nat \ {0}, HedgeRatio = 1,
           NEW p, Good(p), ~p.rec.halted, Evolve(s, p), p.clip = Idle, Net(p) = Net(s),
           NEW a \in DOMAIN p.own, Rests(p, a, "A", intent.dir, lots), Working(p) \subseteq {a},
           NEW b \in PlaceMaker(p, "B", LegBuys(intent.dir, "B"), lots),
           NEW t, IF b.res = "ok" THEN t = [b.st EXCEPT !.clip = OpenedClip(intent, lots, a, b.id)]
                  ELSE t \in UnwindFirstLeg(b.st, a, intent.dir)
    PROVE  Handled(s, t) /\ (t.clip # Idle => Adds(p, t))
<1> DEFINE bB == LegBuys(intent.dir, "B")
<1>1. /\ "A" \in Leg /\ "B" \in Leg /\ bB \in BOOLEAN /\ Good(s) /\ Net(s) \in Int /\ a \in Nat
      /\ intent.dir \in {-1, 1} /\ a # 0 /\ ~s.rec.halted
  <2>1. intent.dir \in {-1, 1} /\ intent.dir \in Int
    BY IntentType
  <2>2. bB \in BOOLEAN
    BY <2>1, BuysType
  <2>3. Good(s) /\ ~s.rec.halted
    BY DEF Free
  <2> HIDE DEF bB
  <2>4. Net(s) \in Int /\ a \in Nat /\ a # 0
    BY <2>3, NetType, GoodType
  <2> QED
    BY <2>1, <2>2, <2>3, <2>4 DEF Leg
<1>2. /\ b.res # "ok" => Aside(p, b.st, {})
      /\ b.res = "ok" => MakerPlaced(p, "B", bB, lots, b)
      /\ Net(b.st) = Net(p) /\ b.st.rec.halted = p.rec.halted /\ Good(b.st) /\ Adds(p, b.st)
  <2> HIDE DEF bB
  <2>1. b \in PlaceMaker(p, "B", bB, lots)
    BY DEF bB
  <2> QED
    BY <1>1, <2>1, PlaceMakerOutcome
<1>3. CASE b.res = "ok"
  <2>1. t = [b.st EXCEPT !.clip = OpenedClip(intent, lots, a, b.id)]
    BY <1>3
  <2>2. /\ Rests(b.st, b.id, "B", intent.dir, lots) /\ b.id \in Nat
        /\ Good(b.st) /\ Evolve(p, b.st) /\ Working(b.st) \subseteq {a, b.id}
    BY <1>2, <1>3, MakerRests
  <2>3. Rests(b.st, a, "A", intent.dir, lots)
    BY <2>2, RestsKept
  <2>4. Good(t) /\ ClipOK(t) /\ Evolve(b.st, t) /\ Net(t) = Net(b.st)
    <3> DEFINE u == b.st
               id == b.id
    <3>1. t = [u EXCEPT !.clip = OpenedClip(intent, lots, a, id)] /\ id \in Nat /\ Good(u)
          /\ Rests(u, a, "A", intent.dir, lots) /\ Rests(u, id, "B", intent.dir, lots)
          /\ Working(u) \subseteq {a, id}
      BY <2>1, <2>2, <2>3
    <3> HIDE DEF u, id
    <3>2. Good(t) /\ ClipOK(t) /\ Evolve(u, t) /\ Net(t) = Net(u)
      BY <1>1, <3>1, RestOutcome
    <3> QED
      BY <3>2 DEF u
  <2>5. Evolve(s, b.st)
    BY <1>1, <2>2, EvolveTrans
  <2>6. Evolve(s, t)
    BY <1>1, <2>2, <2>4, <2>5, EvolveTrans
  <2>7. Adds(p, t)
    <3>1. t.own = b.st.own /\ t.orders = b.st.orders
      BY <2>1, <2>2, GoodType DEF State
    <3> QED
      BY <1>2, <3>1, AddsNothing, AddsTrans
  <2> QED
    BY <1>2, <2>4, <2>6, <2>7 DEF Handled
<1>4. CASE b.res # "ok"
  <2>1. t \in UnwindFirstLeg(b.st, a, intent.dir)
    BY <1>4
  <2>2. /\ Good(b.st) /\ Evolve(p, b.st) /\ b.st.clip = Idle /\ Working(b.st) \subseteq {a}
        /\ ~b.st.rec.halted
    BY <1>2, <1>4 DEF Aside, Calm
  <2>3. a \in DOMAIN b.st.own /\ Rests(b.st, a, "A", intent.dir, lots)
    BY <2>2, RestsKept DEF Evolve
  <2>4. Handled(b.st, t) /\ t.clip = Idle
    <3> DEFINE u == b.st
               dir == intent.dir
    <3>1. /\ Good(u) /\ ~u.rec.halted /\ u.clip = Idle /\ a \in DOMAIN u.own /\ dir \in {-1, 1}
          /\ Rests(u, a, "A", dir, lots) /\ Working(u) \subseteq {a} /\ t \in UnwindFirstLeg(u, a, dir)
      BY <1>1, <2>1, <2>2, <2>3
    <3> HIDE DEF u, dir
    <3>2. Handled(u, t) /\ t.clip = Idle
      BY <3>1, UnwindOutcome
    <3> QED
      BY <3>2 DEF u
  <2>5. Good(t) /\ ClipOK(t) /\ Evolve(b.st, t) /\ Net(t) = Net(s)
    BY <1>2, <2>2, <2>4 DEF Handled
  <2>6. Evolve(s, b.st)
    BY <1>1, <2>2, EvolveTrans
  <2>7. Evolve(s, t)
    BY <1>1, <2>2, <2>5, <2>6, EvolveTrans
  <2> QED
    BY <2>4, <2>5, <2>7 DEF Handled
<1> QED
  BY <1>3, <1>4

LEMMA OpenClipOutcome ==
    ASSUME NEW s, Free(s), NEW intent \in Intent, NEW lots \in Nat \ {0},
           NEW r \in OpenClip(s, intent, lots)
    PROVE  Opened(s, r)
<1> DEFINE mode == ClipExecMode(intent)
           first == IF mode = "soloB" THEN "B" ELSE "A"
           Done(t) == [st |-> t, retry |-> FALSE]
           Rest(t, a, b) == Done([t EXCEPT !.clip = OpenedClip(intent, lots, a, b)])
           Pull(t, a, b) == {Done(u) : u \in UnwindFirstLeg(b.st, a, intent.dir)}
           Second(t, a, b) == IF b.res = "ok" THEN {Rest(b.st, a, b.id)} ELSE Pull(t, a, b)
           SecondLeg(t, a) ==
              UNION {Second(t, a, b) : b \in PlaceMaker(t, "B", LegBuys(intent.dir, "B"), lots)}
           Place(p) == CASE p.res # "ok" -> {[st |-> p.st, retry |-> intent.close /\ p.res = "reject"]}
                         [] p.res = "ok" /\ mode = "dual" -> SecondLeg(p.st, p.id)
                         [] p.res = "ok" /\ mode = "solo" -> {Rest(p.st, p.id, 0)}
                         [] p.res = "ok" /\ mode = "soloB" -> {Rest(p.st, 0, p.id)}
           bF == LegBuys(intent.dir, first)
           lF == HedgeLots(first, lots)
<1>1. /\ intent.dir \in {-1, 1} /\ intent.close \in BOOLEAN /\ mode \in Mode
      /\ mode \in {"dual", "soloB"} => HedgeRatio = 1
  BY IntentType
<1>2. first \in Leg /\ (first = "B" => HedgeRatio = 1) /\ bF \in BOOLEAN /\ lF \in Nat \ {0}
      /\ (mode # "soloB" => first = "A" /\ lF = lots) /\ (mode = "soloB" => first = "B" /\ lF = lots)
  <2>1. first \in Leg /\ (first = "B" => mode = "soloB") /\ (mode = "soloB" => first = "B")
    BY DEF Leg
  <2> HIDE DEF first, mode
  <2>2. first = "B" => HedgeRatio = 1
    BY <1>1, <2>1
  <2>3. bF \in BOOLEAN /\ lF \in Nat \ {0}
    BY <1>1, <2>1, BuysType, HedgeLotsType
  <2>4. lF = lots
    BY <2>1, <2>2 DEF HedgeLots, Leg
  <2> QED
    BY <2>1, <2>2, <2>3, <2>4 DEF Leg
<1>3. CASE mode = "taker"
  <2>1. PICK t \in OpenTakerOnlyClip(s, intent, lots) : r = Done(t)
    BY <1>3 DEF OpenClip
  <2>2. Handled(s, t) /\ t.clip = Idle
    BY OpenTakerOnlyClipOutcome
  <2> QED
    BY <2>1, <2>2 DEF Opened
<1>4. CASE mode # "taker"
  <2>1. OpenClip(s, intent, lots) = UNION {Place(p) : p \in PlaceMaker(s, first, bF, lF)}
    BY <1>4, Zenon DEF OpenClip
  <2> HIDE DEF first, bF, lF
  <2>2. PICK p \in PlaceMaker(s, first, bF, lF) : r \in Place(p)
    <3> HIDE DEF Place
    <3> QED
      BY <2>1
  <2>3. /\ p.res # "ok" => Aside(s, p.st, {})
        /\ p.res = "ok" => MakerPlaced(s, first, bF, lF, p)
        /\ Net(p.st) = Net(s) /\ p.st.rec.halted = s.rec.halted /\ Good(p.st) /\ Adds(s, p.st)
    BY <1>2, <2>2, PlaceMakerOutcome DEF Free
  <2>4. CASE p.res # "ok"
    <3> DEFINE retry == intent.close /\ p.res = "reject"
    <3>1. r = [st |-> p.st, retry |-> retry] /\ retry \in BOOLEAN
      BY <1>1, <2>2, <2>4
    <3> HIDE DEF retry
    <3> QED
      BY <2>3, <2>4, <3>1, AsideOpened
  <2>5. CASE p.res = "ok"
    <3> HIDE DEF mode
    <3>1. /\ Rests(p.st, p.id, first, intent.dir, lots) /\ p.id \in Nat /\ p.id \in DOMAIN p.st.own
          /\ Good(p.st) /\ Evolve(s, p.st) /\ p.st.clip = Idle /\ Working(p.st) \subseteq {p.id}
      <4>1. lF = lots
        BY <1>2
      <4>2. MakerPlaced(s, first, LegBuys(intent.dir, first), lots, p)
        BY <2>3, <2>5, <4>1 DEF bF
      <4> QED
        BY <4>2, MakerRests DEF Free
    <3>2. ASSUME NEW a \in Nat, NEW b \in Nat,
                 Rests(p.st, a, "A", intent.dir, lots), Rests(p.st, b, "B", intent.dir, lots),
                 Working(p.st) \subseteq {a, b}, r = Rest(p.st, a, b)
          PROVE  Opened(s, r)
      <4> DEFINE u == p.st
                 t == [u EXCEPT !.clip = OpenedClip(intent, lots, a, b)]
      <4>1. r = Done(t) /\ Good(u)
        BY <3>1, <3>2
      <4>2. Rests(u, a, "A", intent.dir, lots) /\ Rests(u, b, "B", intent.dir, lots) /\ Working(u) \subseteq {a, b}
        BY <3>2
      <4> HIDE DEF u
      <4>3. Good(t) /\ ClipOK(t) /\ Evolve(u, t) /\ Net(t) = Net(u)
        BY <4>1, <4>2, RestOutcome
      <4>6. t.own = u.own /\ t.orders = u.orders
        BY <4>1, GoodType DEF State
      <4> HIDE DEF t
      <4>4. Good(s) /\ Evolve(s, u) /\ Net(u) = Net(s)
        BY <2>3, <3>1 DEF Free, u
      <4>5. Evolve(s, t)
        BY <4>1, <4>3, <4>4, EvolveTrans
      <4>7. Adds(s, u)
        BY <2>3 DEF u
      <4>8. Adds(s, t)
        BY <4>6, <4>7, AddsNothing, AddsTrans
      <4> QED
        BY <4>1, <4>3, <4>4, <4>5, <4>8 DEF Opened, Handled
    <3>3. CASE mode = "solo"
      <4>1. r = Rest(p.st, p.id, 0) /\ first = "A"
        BY <1>2, <2>2, <2>5, <3>3
      <4> DEFINE u == p.st
                 id == p.id
      <4>2. Rests(u, 0, "B", intent.dir, lots) /\ Rests(u, id, "A", intent.dir, lots)
        BY <3>1, <4>1 DEF Rests
      <4>3. Working(u) \subseteq {id, 0} /\ 0 \in Nat /\ id \in Nat /\ r = Rest(u, id, 0)
        BY <3>1, <4>1
      <4> HIDE DEF Rest, id
      <4> QED
        BY <3>2, <4>2, <4>3
    <3>4. CASE mode = "soloB"
      <4>1. r = Rest(p.st, 0, p.id) /\ first = "B"
        BY <1>2, <2>2, <2>5, <3>4
      <4> DEFINE u == p.st
                 id == p.id
      <4>2. Rests(u, 0, "A", intent.dir, lots) /\ Rests(u, id, "B", intent.dir, lots)
        BY <3>1, <4>1 DEF Rests
      <4>3. Working(u) \subseteq {0, id} /\ 0 \in Nat /\ id \in Nat /\ r = Rest(u, 0, id)
        BY <3>1, <4>1
      <4> HIDE DEF Rest, id
      <4> QED
        BY <3>2, <4>2, <4>3
    <3>5. CASE mode = "dual"
      <4> DEFINE a == p.id
                 u == p.st
      <4>1. r \in SecondLeg(u, a) /\ first = "A" /\ HedgeRatio = 1
        <5> HIDE DEF SecondLeg
        <5> QED
          BY <1>1, <1>2, <2>2, <2>5, <3>5
      <4>2. PICK b \in PlaceMaker(u, "B", LegBuys(intent.dir, "B"), lots) : r \in Second(u, a, b)
        <5> HIDE DEF Second
        <5> QED
          BY <4>1
      <4>3. \E t : /\ r = Done(t)
                   /\ IF b.res = "ok" THEN t = [b.st EXCEPT !.clip = OpenedClip(intent, lots, a, b.id)]
                      ELSE t \in UnwindFirstLeg(b.st, a, intent.dir)
        <5>1. CASE b.res = "ok"
          <6>1. r = Rest(b.st, a, b.id)
            BY <4>2, <5>1
          <6> QED
            BY <5>1, <6>1
        <5>2. CASE b.res # "ok"
          <6>1. r \in Pull(u, a, b)
            <7> HIDE DEF Pull
            <7> QED
              BY <4>2, <5>2
          <6>2. PICK t \in UnwindFirstLeg(b.st, a, intent.dir) : r = Done(t)
            BY <6>1
          <6> QED
            BY <5>2, <6>2
        <5> QED
          BY <5>1, <5>2
      <4> HIDE DEF Second, SecondLeg, Pull
      <4>4. PICK t : /\ r = Done(t)
                     /\ IF b.res = "ok" THEN t = [b.st EXCEPT !.clip = OpenedClip(intent, lots, a, b.id)]
                        ELSE t \in UnwindFirstLeg(b.st, a, intent.dir)
        BY <4>3
      <4>5. /\ Good(u) /\ ~u.rec.halted /\ Evolve(s, u) /\ u.clip = Idle /\ Net(u) = Net(s)
            /\ a \in DOMAIN u.own /\ Rests(u, a, "A", intent.dir, lots) /\ Working(u) \subseteq {a}
            /\ Adds(s, u)
        BY <2>3, <3>1, <4>1 DEF Free
      <4> HIDE DEF a, u
      <4>6. Handled(s, t) /\ (t.clip # Idle => Adds(u, t))
        BY <4>1, <4>2, <4>4, <4>5, SecondLegOutcome
      <4>7. t.clip # Idle => Adds(s, t)
        BY <4>5, <4>6, AddsTrans
      <4> QED
        BY <4>4, <4>6, <4>7 DEF Opened
    <3>6. mode \in {"dual", "solo", "soloB"}
      BY <1>1, <1>4 DEF Mode
    <3> QED
      BY <3>3, <3>4, <3>5, <3>6
  <2> QED
    BY <2>4, <2>5
<1> QED
  BY <1>3, <1>4

(* The ladder of attempts. *)
LEMMA TryOpenClipOutcome ==
    ASSUME NEW s, Free(s), NEW intent \in Intent, NEW t \in TryOpenClip(s, intent)
    PROVE  Handled(s, t) /\ (t.clip # Idle => Adds(s, t))
<1> DEFINE n == intent.lots
           S == {[st |-> s, lots |-> n, retry |-> TRUE]}
           Rung(o, i) ==
              IF ~o.retry \/ o.st.moves = 0 THEN {[o EXCEPT !.retry = FALSE]}
              ELSE { [st |-> p.st, lots |-> o.lots - LotStep,
                      retry |-> p.retry /\ LotStep > 0 /\ o.lots - LotStep >= MinLots] :
                     p \in OpenClip([o.st EXCEPT !.moves = @ - 1], intent, o.lots) }
           X(i) == { o \in [st : State, lots : Int, retry : BOOLEAN] :
                       /\ Handled(s, o.st)
                       /\ o.retry = TRUE => o.st.clip = Idle /\ o.lots >= 1
                       /\ o.retry = TRUE \/ o.st.clip # Idle => Adds(s, o.st) }
           P == [i \in 0..n |-> X(i)]
<1>1. n \in Nat \ {0} /\ Good(s) /\ s \in State /\ LotStep \in Nat /\ MinLots \in Nat \ {0}
  BY IntentType, GoodType, Constants DEF Free
<1>2. t \in {o.st : o \in Loop(n, S, Rung)}
  BY DEF TryOpenClip
<1>3. S \subseteq X(0)
  <2>1. Handled(s, s) /\ s.clip = Idle /\ Adds(s, s)
    BY HandledSelf, AddsNothing DEF Free, ClipOK
  <2> HIDE DEF n
  <2> QED
    BY <1>1, <2>1
<1>4. ASSUME NEW i \in 1..n, NEW o \in X(i - 1) PROVE Rung(o, i) \subseteq X(i)
  <2>1. o.st \in State /\ o.lots \in Int /\ o.retry \in BOOLEAN /\ Handled(s, o.st)
        /\ (o.retry = TRUE => o.st.clip = Idle /\ o.lots >= 1)
        /\ (o.retry = TRUE \/ o.st.clip # Idle => Adds(s, o.st))
    OBVIOUS
  <2>4. o \in [st : State, lots : Int, retry : BOOLEAN]
    OBVIOUS
  <2> HIDE DEF n
  <2>2. CASE ~o.retry \/ o.st.moves = 0
    <3>1. Rung(o, i) = {[o EXCEPT !.retry = FALSE]}
      BY <2>2
    <3> DEFINE y == [o EXCEPT !.retry = FALSE]
    <3>2. y \in [st : State, lots : Int, retry : BOOLEAN] /\ y.st = o.st /\ y.retry = FALSE
      <4> HIDE DEF X
      <4> QED
        BY <2>4
    <3> HIDE DEF Rung, y
    <3>3. y \in X(i)
      BY <2>1, <3>2
    <3> HIDE DEF X
    <3> QED
      BY <3>1, <3>3 DEF y
  <2>3. CASE ~(~o.retry \/ o.st.moves = 0)
    <3> DEFINE u == [o.st EXCEPT !.moves = @ - 1]
               again(p) == p.retry /\ LotStep > 0 /\ o.lots - LotStep >= MinLots
    <3>1. Rung(o, i) = {[st |-> p.st, lots |-> o.lots - LotStep, retry |-> again(p)] : p \in OpenClip(u, intent, o.lots)}
      BY <2>3
    <3>2. Good(o.st) /\ o.st.moves > 0 /\ o.lots \in Nat \ {0} /\ o.st.clip = Idle /\ ~o.st.rec.halted
      BY <2>1, <2>3, StateType DEF Handled, Evolve, Free
    <3>3. Aside(o.st, u, {}) /\ Net(u) = Net(o.st) /\ u.own = o.st.own /\ u.orders = o.st.orders
      BY <3>2, SpentMoveFields
    <3> HIDE DEF u
    <3> SUFFICES ASSUME NEW p \in OpenClip(u, intent, o.lots)
                 PROVE  [st |-> p.st, lots |-> o.lots - LotStep, retry |-> again(p)] \in X(i)
      <4> HIDE DEF Rung, X, again
      <4> QED
        BY <3>1
    <3>4. Free(o.st)
      BY <2>1, <3>2, FreeIs DEF Handled
    <3>5. Free(u) /\ Good(u) /\ Evolve(o.st, u)
      BY <3>3, <3>4, AsideFree
    <3>6. Opened(u, p)
      <4> DEFINE l == o.lots
      <4>1. l \in Nat \ {0} /\ p \in OpenClip(u, intent, l)
        BY <3>2
      <4> HIDE DEF l, X, again
      <4> QED
        BY <3>5, <4>1, OpenClipOutcome
    <3>7. Handled(s, p.st) /\ p.st \in State
      <4>1. Handled(u, p.st) /\ Good(p.st)
        BY <3>6 DEF Opened, Handled
      <4>2. Handled(o.st, p.st)
        BY <3>2, <3>3, <3>5, <4>1, HandledTrans
      <4>3. Handled(s, p.st)
        BY <1>1, <2>1, <3>2, <4>2, HandledTrans DEF Handled
      <4> QED
        BY <4>1, <4>3, GoodType
    <3>9. p.retry \/ p.st.clip # Idle => Adds(s, p.st)
      <4>1. Adds(s, o.st) /\ Adds(o.st, u)
        BY <2>1, <2>3, <3>3, AddsNothing
      <4>2. p.retry \/ p.st.clip # Idle => Adds(u, p.st)
        BY <3>6 DEF Opened
      <4> HIDE DEF X, again, Rung
      <4> QED
        BY <4>1, <4>2, AddsTrans
    <3>8. again(p) \in BOOLEAN /\ (again(p) => p.retry /\ p.st.clip = Idle /\ o.lots - LotStep >= 1)
      <4>1. p.retry \in BOOLEAN /\ (p.retry => p.st.clip = Idle)
        BY <3>6 DEF Opened
      <4> QED
        BY <1>1, <2>1, <4>1
    <3> HIDE DEF again
    <3> QED
      BY <1>1, <2>1, <3>7, <3>8, <3>9
  <2> QED
    BY <2>2, <2>3
<1> HIDE DEF S, X, Rung, n
<1>5. n \in Nat
  BY <1>1
<1>6. S \subseteq P[0]
  BY <1>3, <1>5
<1>7. \A i \in 1..n : \A o \in P[i - 1] : Rung(o, i) \subseteq P[i]
  <2>1. \A i \in 1..n : P[i - 1] = X(i - 1) /\ P[i] = X(i)
    BY <1>5
  <2> HIDE DEF P
  <2> QED
    BY <1>4, <2>1
<1>8. P[n] = X(n)
  BY <1>5
<1> HIDE DEF P
<1>9. n \in Nat
  BY <1>5
<1>10. S \subseteq P[0]
  BY <1>6
<1>11. \A i \in 1..n : \A o \in P[i - 1] : Rung(o, i) \subseteq P[i]
  BY <1>7
<1> DEFINE F == [i \in 1..n |-> [o \in P[i - 1] |-> Rung(o, i)]]
           Is(g) == g = [i \in 0..n |-> IF i = 0 THEN S ELSE UNION {Rung(o, i) : o \in g[i - 1]}]
           it == CHOOSE g : Is(g)
<1>12. \A i \in 1..n : \A o \in P[i - 1] : F[i][o] = Rung(o, i)
  BY <1>9
<1> HIDE DEF F
<1>13. PICK g : Run(g, n, S, F) /\ Within(n, g, P)
  <2>1. Preserves(n, S, F, P)
    BY <1>10, <1>11, <1>12 DEF Preserves
  <2> QED
    BY <1>9, <2>1, LoopExists
<1>14. Is(g)
  <2>1. ASSUME NEW i \in 1..n PROVE g[i] = UNION {Rung(o, i) : o \in g[i - 1]}
    <3>1. \A o \in g[i - 1] : F[i][o] = Rung(o, i)
      BY <1>9, <1>12, <1>13 DEF Within
    <3>2. \A y : y \in g[i] <=> \E o \in g[i - 1] : y \in F[i][o]
      BY <1>13 DEF Run
    <3>3. \A y : y \in g[i] <=> \E o \in g[i - 1] : y \in Rung(o, i)
      BY <3>1, <3>2
    <3> QED
      BY <3>3
  <2>2. ASSUME NEW i \in 0..n
        PROVE  g[i] = IF i = 0 THEN S ELSE UNION {Rung(o, i) : o \in g[i - 1]}
    <3>1. CASE i = 0
      BY <1>13, <3>1 DEF Run
    <3>2. CASE i # 0
      <4>1. i \in 1..n
        BY <3>2
      <4>2. g[i] = UNION {Rung(o, i) : o \in g[i - 1]}
        BY <4>1, <2>1
      <4> QED
        BY <4>2, <3>2, Zenon
    <3> QED
      BY <3>1, <3>2
  <2> QED
    BY <2>2, <1>13 DEF Run
<1>15. Is(it)
  <2> HIDE DEF Is
  <2> QED
    BY <1>14
<1> HIDE DEF it
<1>16. it[n] \subseteq P[n]
  <2>1. it[0] = S
    BY <1>15, <1>9
  <2>2. ASSUME NEW i \in 1..n, it[i - 1] \subseteq P[i - 1] PROVE it[i] \subseteq P[i]
    <3>1. i \in 0..n /\ i # 0
      BY <1>9
    <3>2. it[i] = UNION {Rung(o, i) : o \in it[i - 1]}
      BY <1>15, <3>1, Zenon
    <3> HIDE DEF Is
    <3> QED
      BY <3>2, <2>2, <1>11
  <2> HIDE DEF Is
  <2>3. it[0] \subseteq P[0]
    BY <2>1, <1>10
  <2>4. Within(n, it, P)
    BY <1>9, <2>2, <2>3, LoopStays
  <2> QED
    BY <2>4, <1>9 DEF Within
<1> HIDE DEF Is
<1>17. Loop(n, S, Rung) = it[n]
  BY DEF Loop, it, Is
<1>18. PICK x \in X(n) : t = x.st
  BY <1>2, <1>8, <1>16, <1>17
<1> QED
  BY <1>18 DEF X

-----------------------------------------------------------------------------
(* Fills. *)

(* A clip at work, whoever is still resting for it. *)
Filling(s) ==
    /\ s.clip # Idle /\ s.clip.dir # 0 /\ s.clip.target >= 1
    /\ LegOK(s, "A") /\ LegOK(s, "B")
    /\ s.clip.mode \in {"dual", "soloB"} => HedgeRatio = 1
    /\ s.clip.maker \in {0, s.clip.A, s.clip.B}
    /\ s.clip.maker = 0 => s.clip.filled = 0
    /\ s.clip.maker # 0 => s.clip.filled =< s.own[s.clip.maker].folded
    /\ Working(s) \subseteq {s.clip.A, s.clip.B}

LEMMA FillingType ==
    ASSUME NEW s, Good(s), Filling(s)
    PROVE  /\ s.clip.dir \in {-1, 1} /\ LegOK(s, "A") /\ LegOK(s, "B")
           /\ s.clip \in Clip /\ s.clip.filled \in Nat /\ s.clip.target \in Nat
           /\ s.clip.maker \in Nat
           /\ s.clip["A"] = s.clip.A /\ s.clip["B"] = s.clip.B
           /\ Working(s) \subseteq {s.clip.A, s.clip.B}
BY GoodType, ClipType DEF Filling

LEMMA ClipFilling ==
    ASSUME NEW s, Good(s), ClipOK(s), s.clip # Idle
    PROVE  Filling(s)
BY ClipLegs DEF Filling, ClipOK

(* Once the counterpart is retired, the clip is its maker's alone. *)
LEMMA FillingKept ==
    ASSUME NEW s, NEW t, Good(s), Filling(s), Calm(s, t), Working(t) \subseteq {s.clip.maker}
    PROVE  ClipOK(t) /\ Filling(t) /\ Good(t)
<1>1. Good(t) /\ Evolve(s, t) /\ t.clip = s.clip
  BY DEF Calm
<1>2. LegOK(t, "A") /\ LegOK(t, "B")
  BY <1>1, LegKept DEF Filling
<1>3. s.clip.maker # 0 => s.clip.filled =< t.own[s.clip.maker].folded
  <2> SUFFICES ASSUME s.clip.maker # 0 PROVE s.clip.filled =< t.own[s.clip.maker].folded
    OBVIOUS
  <2> DEFINE id == s.clip.maker
  <2>1. id \in DOMAIN s.own /\ s.clip.filled =< s.own[id].folded
    BY GoodType, ClipType DEF Filling, LegOK
  <2>2. id \in DOMAIN t.own /\ s.own[id].folded =< t.own[id].folded
    BY <1>1, <2>1 DEF Evolve
  <2>3. s.clip.filled \in Nat /\ s.own[id].folded \in Nat /\ t.own[id].folded \in Nat
    BY <1>1, <2>1, <2>2, GoodType, ClipType DEF Acct
  <2> QED
    BY <2>1, <2>2, <2>3
<1>4. 0 \notin Working(t)
  BY <1>1, GoodType DEF Working
<1>5. ClipOK(t)
  BY <1>1, <1>2, <1>3, <1>4 DEF Filling, ClipOK
<1> QED
  BY <1>1, <1>5, ClipFilling DEF Filling

(* What is left of a fill's n lots on a leg once it is paired. *)
Paired(s, t, leg, n) ==
    /\ Good(t) /\ ClipOK(t) /\ Evolve(s, t)
    /\ ~s.rec.halted => Net(t) = Net(s) - LegWorth(s, leg, n)

LEMMA PairedTrans ==
    ASSUME NEW s, NEW t, NEW leg, NEW n, Good(s), Paired(s, t, leg, n), NEW u, Handled(t, u)
    PROVE  Paired(s, u, leg, n)
BY EvolveTrans DEF Paired, Handled, Evolve

LEMMA CommitIfFullOutcome ==
    ASSUME NEW s, Good(s), ClipOK(s), Working(s) \subseteq {s.clip.maker}, NEW t \in CommitIfFull(s)
    PROVE  Handled(s, t)
<1>1. t = s \/ t \in CommitClip(s)
  BY DEF CommitIfFull
<1> QED
  BY <1>1, HandledSelf, CommitClipOutcome

LEMMA LegWorthSum ==
    ASSUME NEW s, NEW leg, NEW m \in Int, NEW n \in Int, NEW k \in Int, k =< m + n, m + n =< k
    PROVE  /\ LegWorth(s, leg, k) = LegWorth(s, leg, m) + LegWorth(s, leg, n)
           /\ LegWorth(s, leg, k) \in Int /\ LegWorth(s, leg, m) \in Int /\ LegWorth(s, leg, n) \in Int
<1>1. ClipWorth(s, k) = ClipWorth(s, m) + ClipWorth(s, n)
  BY ClipWorthSum
<1>2. ClipWorth(s, k) \in Int /\ ClipWorth(s, m) \in Int /\ ClipWorth(s, n) \in Int
  BY WorthType DEF ClipWorth
<1> QED
  BY <1>1, <1>2 DEF LegWorth

(* The counterpart that ran ahead settles the clip. *)
LEMMA AheadOutcome ==
    ASSUME NEW s, Good(s), Filling(s), NEW leg \in Leg,
           NEW v, Calm(s, v), Working(v) \subseteq {s.clip.maker},
           NEW gap \in Nat, Net(v) = Net(s) + LegWorth(s, Other(leg), gap),
           NEW realA, NEW realB,
           realA = IF leg = "A" THEN s.clip.filled ELSE gap,
           realB = IF leg = "B" THEN s.clip.filled ELSE gap,
           NEW complete \in BOOLEAN, NEW u \in SettleClip(v, realA, realB, complete),
           NEW t, t = DropClip(u) \/ t \in CommitClip(u)
    PROVE  Paired(s, t, leg, s.clip.filled)
<1> DEFINE n == s.clip.filled
<1>1. /\ n \in Nat /\ s.clip.dir \in {-1, 1} /\ Net(s) \in Int /\ realA \in Nat /\ realB \in Nat
      /\ ~s.rec.halted => ~v.rec.halted
  BY FillingType, NetType, GoodType DEF Calm, Evolve
<1>2. Good(v) /\ ClipOK(v) /\ Filling(v) /\ v.clip = s.clip /\ Evolve(s, v)
  BY FillingKept DEF Calm
<1>3. ClipSettled(v, u, realA, realB)
  BY <1>1, <1>2, FillingType, SettleClipOutcome
<1>4. Calm(v, u) /\ Good(u) /\ Evolve(v, u) /\ u.clip = v.clip /\ Working(u) = {}
  BY <1>3 DEF ClipSettled, Calm
<1>5. ClipOK(u)
  BY <1>2, <1>4, ClipKept
<1>6. ~s.rec.halted => Net(u) = Net(s) - LegWorth(s, leg, n)
  <2>1. ClipWorth(s, n) \in Int /\ ClipWorth(s, gap) \in Int
    BY <1>1, WorthType DEF ClipWorth
  <2>2. ~s.rec.halted => Net(u) = Net(v) - ClipWorth(s, realA) + ClipWorth(s, realB)
    BY <1>1, <1>2, <1>3 DEF ClipSettled, ClipWorth
  <2>3. CASE leg = "A"
    <3>1. realA = n /\ realB = gap /\ Net(v) = Net(s) - ClipWorth(s, gap) /\ LegWorth(s, leg, n) = ClipWorth(s, n)
      BY <2>3 DEF LegWorth, Other
    <3> QED
      BY <1>1, <2>1, <2>2, <3>1
  <2>4. CASE leg = "B"
    <3>1. realA = gap /\ realB = n /\ Net(v) = Net(s) + ClipWorth(s, gap) /\ LegWorth(s, leg, n) = -ClipWorth(s, n)
      BY <2>4 DEF LegWorth, Other
    <3> QED
      BY <1>1, <2>1, <2>2, <3>1
  <2> QED
    BY <2>3, <2>4 DEF Leg
<1>7. Handled(u, t)
  BY <1>4, <1>5, DropClipOutcome, CommitClipOutcome
<1>8. Evolve(s, u)
  BY <1>2, <1>4, EvolveTrans
<1>9. Paired(s, u, leg, n)
  BY <1>4, <1>5, <1>6, <1>8 DEF Paired
<1> QED
  BY <1>7, <1>9, PairedTrans

LEMMA FirstFillOutcome ==
    ASSUME NEW s, Good(s), Filling(s), NEW leg \in Leg, s.clip[leg] = s.clip.maker,
           NEW t \in FirstFill(s, leg)
    PROVE  Paired(s, t, leg, s.clip.filled)
<1> DEFINE c == s.clip
           n == c.filled
           cp == Other(leg)
           realA(gap) == IF leg = "A" THEN n ELSE gap
           realB(gap) == IF leg = "B" THEN n ELSE gap
           Ahead(v, gap) ==
             IF ~c.close /\ KeepPartial
             THEN {DropClip(u) : u \in SettleClip(v, realA(gap), realB(gap), FALSE)}
             ELSE UNION {CommitClip(u) : u \in SettleClip(v, realA(gap), realB(gap), TRUE)}
           Level(v, gap) == UNION {CommitIfFull(u) : u \in TopUp(v, cp, LegBuys(c.dir, cp), HedgeLots(cp, n - gap))}
           Next1(r) == IF r.gap > n THEN Ahead(r.st, r.gap) ELSE Level(r.st, r.gap)
<1>1. FirstFill(s, leg) = UNION {Next1(r) : r \in RetireOrder(s, c[cp])}
  BY Zenon DEF FirstFill, After
<1> HIDE DEF cp
<1>2. PICK r \in RetireOrder(s, c[cp]) : t \in Next1(r)
  <2> HIDE DEF Next1
  <2> QED
    BY <1>1
<1>3. /\ n \in Nat /\ c.dir \in {-1, 1} /\ Net(s) \in Int /\ cp \in Leg /\ LegOK(s, cp) /\ leg = Other(cp)
      /\ Working(s) \subseteq {c[cp], c.maker}
  <2>1. cp \in Leg /\ leg = Other(cp)
    BY OtherLeg DEF cp
  <2>2. /\ n \in Nat /\ c.dir \in {-1, 1} /\ LegOK(s, "A") /\ LegOK(s, "B")
        /\ c["A"] = c.A /\ c["B"] = c.B /\ Working(s) \subseteq {c.A, c.B}
    BY FillingType
  <2> QED
    BY <2>1, <2>2, NetType, GoodType DEF Leg, Other
<1> DEFINE v == r.st
           gap == r.gap
<1>4. LegRetired(s, r, cp)
  BY <1>2, <1>3, RetireLegOutcome
<1>5. /\ Calm(s, v) /\ Good(v) /\ Evolve(s, v) /\ v.clip = c /\ gap \in Nat /\ Net(v) \in Int
      /\ Working(v) \subseteq {c.maker} /\ Net(v) = Net(s) + LegWorth(s, cp, gap)
  BY <1>3, <1>4, NetType, GoodType DEF LegRetired, Retired, LegWorth
<1>6. ClipOK(v)
  BY <1>5, FillingKept
<1>7. CASE gap > n
  <2>1. t \in Ahead(v, gap)
    BY <1>2, <1>7
  <2> DEFINE rA == realA(gap)
             rB == realB(gap)
  <2>2. \E complete \in BOOLEAN : \E u \in SettleClip(v, rA, rB, complete) : t = DropClip(u) \/ t \in CommitClip(u)
    <3> HIDE DEF rA, rB
    <3>1. CASE ~c.close /\ KeepPartial
      <4>1. t \in {DropClip(u) : u \in SettleClip(v, rA, rB, FALSE)}
        BY <2>1, <3>1 DEF rA, rB
      <4> QED
        BY <4>1
    <3>2. CASE ~(~c.close /\ KeepPartial)
      <4>1. t \in UNION {CommitClip(u) : u \in SettleClip(v, rA, rB, TRUE)}
        BY <2>1, <3>2 DEF rA, rB
      <4> QED
        BY <4>1
    <3> QED
      BY <3>1, <3>2
  <2>3. PICK complete \in BOOLEAN, u \in SettleClip(v, rA, rB, TRUE) \cup SettleClip(v, rA, rB, FALSE) :
           u \in SettleClip(v, rA, rB, complete) /\ (t = DropClip(u) \/ t \in CommitClip(u))
    BY <2>2
  <2>4. /\ rA = IF leg = "A" THEN s.clip.filled ELSE gap
        /\ rB = IF leg = "B" THEN s.clip.filled ELSE gap
    OBVIOUS
  <2> HIDE DEF rA, rB, v, gap
  <2>5. Net(v) = Net(s) + LegWorth(s, Other(leg), gap)
    BY <1>5 DEF cp
  <2> QED
    BY <1>5, <2>3, <2>4, <2>5, AheadOutcome
<1>8. CASE ~(gap > n)
  <2> DEFINE m == n - gap
             b == LegBuys(c.dir, cp)
             h == HedgeLots(cp, m)
  <2>1. PICK u \in TopUp(v, cp, b, h) : t \in CommitIfFull(u)
    BY <1>2, <1>8
  <2>2. m \in Nat
    BY <1>3, <1>5, <1>8
  <2>3. h \in Nat /\ b \in BOOLEAN /\ Worth(cp, b, h) = LegWorth(s, cp, m)
    <3> HIDE DEF m
    <3> QED
      BY <1>3, <2>2, HedgeLotsType, BuysType, LegWorthIs
  <2> HIDE DEF b, h
  <2>4. HedgedIfRunning(v, u, cp, b, h) /\ Good(u)
    BY <1>3, <1>5, <2>1, <2>3, TopUpOutcome
  <2>5. Calm(v, u) /\ u.clip = c /\ Working(u) \subseteq {c.maker} /\ Evolve(v, u) /\ ClipOK(u)
    <3>1. Calm(v, u) /\ Evolve(v, u)
      BY <2>4, AsideCalm DEF HedgedIfRunning
    <3> QED
      BY <1>5, <1>6, <3>1, ClipKept DEF Calm
  <2>6. ~s.rec.halted => Net(u) = Net(s) - LegWorth(s, leg, n)
    <3>1. n =< m + gap /\ m + gap =< n
      BY <1>3, <1>5
    <3> HIDE DEF m, n, v, gap
    <3>2. /\ LegWorth(s, cp, n) = LegWorth(s, cp, m) + LegWorth(s, cp, gap)
          /\ LegWorth(s, cp, n) \in Int /\ LegWorth(s, cp, m) \in Int /\ LegWorth(s, cp, gap) \in Int
      BY <1>3, <1>5, <2>2, <3>1, LegWorthSum
    <3>3. LegWorth(s, leg, n) = -LegWorth(s, cp, n)
      BY <1>3, LegWorthIs
    <3>4. ~s.rec.halted => Net(u) = Net(v) + LegWorth(s, cp, m)
      BY <1>5, <2>3, <2>4 DEF HedgedIfRunning, Evolve
    <3> QED
      BY <1>3, <1>5, <3>2, <3>3, <3>4
  <2>7. Evolve(s, u)
    BY <1>5, <2>4, <2>5, EvolveTrans
  <2>8. Paired(s, u, leg, n)
    BY <2>4, <2>5, <2>6, <2>7 DEF Paired
  <2>9. Handled(u, t)
    BY <2>1, <2>4, <2>5, CommitIfFullOutcome
  <2> QED
    BY <2>8, <2>9, PairedTrans
<1> QED
  BY <1>7, <1>8

LEMMA LaterFillOutcome ==
    ASSUME NEW s, Good(s), ClipOK(s), s.clip # Idle, Working(s) \subseteq {s.clip.maker},
           NEW leg \in Leg, NEW lots \in Nat \ {0}, NEW t \in LaterFill(s, leg, lots)
    PROVE  Paired(s, t, leg, lots)
<1> DEFINE cp == Other(leg)
           b == LegBuys(s.clip.dir, cp)
           h == HedgeLots(cp, lots)
<1>1. LaterFill(s, leg, lots) = UNION {CommitIfFull(u) : u \in TakerRetry(s, cp, b, h)}
  BY Zenon DEF LaterFill, After
<1>2. /\ s.clip.dir \in {-1, 1} /\ cp \in Leg /\ leg = Other(cp) /\ Net(s) \in Int
  BY OtherLeg, ClipLegs, NetType, GoodType
<1>3. h \in Nat \ {0} /\ b \in BOOLEAN /\ Worth(cp, b, h) = -LegWorth(s, leg, lots) /\ LegWorth(s, leg, lots) \in Int
  <2>1. /\ h \in Nat \ {0} /\ b \in BOOLEAN
    BY <1>2, HedgeLotsType, BuysType
  <2>2. Worth(cp, b, h) = LegWorth(s, cp, lots) /\ LegWorth(s, cp, lots) = -LegWorth(s, leg, lots)
        /\ LegWorth(s, leg, lots) \in Int
    <3> lots \in Int
      OBVIOUS
    <3>1. /\ LegWorth(s, leg, lots) \in Int /\ LegWorth(s, Other(leg), lots) = -LegWorth(s, leg, lots)
      BY <1>2, LegWorthIs
    <3>2. Worth(cp, LegBuys(s.clip.dir, cp), HedgeLots(cp, lots)) = LegWorth(s, cp, lots)
      <4> HIDE DEF cp
      <4> QED
        BY <1>2, LegWorthIs
    <3> QED
      BY <3>1, <3>2
  <2> QED
    BY <2>1, <2>2
<1> HIDE DEF b, h, cp
<1>4. PICK u \in TakerRetry(s, cp, b, h) : t \in CommitIfFull(u)
  BY <1>1
<1>5. HedgedIfRunning(s, u, cp, b, h) /\ Good(u)
  BY <1>2, <1>3, <1>4, TakerRetryOutcome
<1>6. /\ Calm(s, u) /\ Evolve(s, u) /\ u.clip = s.clip /\ Working(u) \subseteq {u.clip.maker}
  BY <1>5, AsideCalm DEF HedgedIfRunning, Calm
<1>7. ClipOK(u)
  BY <1>6, ClipKept
<1>8. Paired(s, u, leg, lots)
  <2>1. ~s.rec.halted => Net(u) = Net(s) - LegWorth(s, leg, lots)
    BY <1>2, <1>3, <1>5 DEF HedgedIfRunning
  <2> QED
    BY <2>1, <1>5, <1>6, <1>7 DEF Paired
<1>9. Handled(u, t)
  BY <1>4, <1>5, <1>6, <1>7, CommitIfFullOutcome
<1> QED
  BY <1>8, <1>9, PairedTrans

(* A terminal count holds: either no event is ever repeated past the       *)
(* dedup, or no order ends short of its size.  With both, the repeated     *)
(* event of a settled taker may pass for lots it executed after its death, *)
(* and the code credits them (OnFill: "the book may be over-hedged         *)
(* (reconcile will confirm)").                                             *)
TerminalAcksHold == "dup" \notin FaultKinds \/ "kill" \notin FaultKinds

LEMMA FilledAccount ==
    ASSUME NEW a \in Acct, NEW o \in OrderType, OrderOK(o), AcctOK(a, o), NEW lots \in Nat \ {0},
           a.seen + lots =< a.placed, "dup" \notin FaultKinds => a.seen + lots =< o.sent
    PROVE  LET b == FoldFill(a, lots)
               k == b.credited - a.credited
           IN  /\ b \in Acct /\ Restates(a, b, o) /\ k \in Nat /\ LotsToPair(a, lots) \in Nat
               /\ a.maker \/ TerminalAcksHold => k = LotsToPair(a, lots)
               /\ ~a.maker => LotsToPair(a, lots) = 0
               /\ a.maker /\ a.final < 0 => /\ LotsToPair(a, lots) = lots
                                            /\ b.folded = a.folded + lots
               /\ b.final = a.final /\ b.seen = a.seen + lots
<1> DEFINE b == FoldFill(a, lots)
           new == NewLots(a, lots)
<1>1. /\ a.maker \in BOOLEAN /\ a.leg \in Leg /\ a.buy \in BOOLEAN /\ a.placed \in Nat \ {0}
      /\ a.folded \in Nat /\ a.seen \in Nat /\ a.credited \in Nat /\ a.final \in Int
      /\ a.deferred \in BOOLEAN /\ a.overdue \in BOOLEAN
      /\ o.exec \in Nat /\ o.size \in Nat /\ o.sent \in Nat /\ o.live \in BOOLEAN
  BY DEF Acct, OrderType
<1>2. /\ a.placed = o.size /\ a.seen =< a.placed /\ a.folded =< a.placed
      /\ -1 =< a.final /\ a.final =< a.placed /\ o.sent =< o.exec /\ o.exec =< o.size
  BY DEF AcctOK, OrderOK
<1>3. /\ new \in Nat
      /\ Max2(a.final, a.seen + lots) = Max2(a.final, a.seen) + new
      /\ a.final < 0 => new = lots
  BY <1>1, <1>2 DEF NewLots, Max2
<1> DEFINE c == IF a.maker \/ a.final >= 0 THEN a.credited + new ELSE a.credited
           f == IF a.maker /\ a.final < 0 THEN a.folded + lots ELSE a.folded
<1>4. /\ b = [a EXCEPT !.seen = @ + lots, !.credited = c, !.folded = f]
  BY DEF FoldFill
<1>5. c \in Nat /\ f \in Nat /\ a.seen + lots \in Nat
  BY <1>1, <1>3
<1>6. /\ b \in Acct /\ b.seen = a.seen + lots /\ b.credited = c /\ b.folded = f
      /\ b.final = a.final /\ b.maker = a.maker /\ b.leg = a.leg /\ b.buy = a.buy
      /\ b.placed = a.placed /\ b.deferred = a.deferred
  <2> HIDE DEF b, c, f
  <2> QED
    BY <1>4, <1>5 DEF Acct
<1> HIDE DEF b
<1>7. AcctOK(b, o)
  <2>1. b.credited = IF b.maker \/ b.final >= 0 THEN Max2(b.final, b.seen) ELSE b.placed
    <3> HIDE DEF new
    <3>1. a.credited = IF a.maker \/ a.final >= 0 THEN Max2(a.final, a.seen) ELSE a.placed
      BY DEF AcctOK
    <3>2. CASE a.maker \/ a.final >= 0
      BY <1>3, <1>6, <3>1, <3>2
    <3>3. CASE ~(a.maker \/ a.final >= 0)
      BY <1>6, <3>1, <3>3
    <3> QED
      BY <3>2, <3>3
  <2>2. b.maker => /\ IF b.final < 0 THEN b.folded = b.seen ELSE b.folded >= b.final
                   /\ b.leg = "B" => HedgeRatio = 1
    <3> SUFFICES ASSUME a.maker = TRUE
                 PROVE  /\ IF b.final < 0 THEN b.folded = b.seen ELSE b.folded >= b.final
                        /\ b.leg = "B" => HedgeRatio = 1
      BY <1>1, <1>6
    <3>1. (IF a.final < 0 THEN a.folded = a.seen ELSE a.folded >= a.final) /\ (a.leg = "B" => HedgeRatio = 1)
      BY DEF AcctOK
    <3> QED
      BY <1>1, <1>6, <3>1
  <2>3. b.folded =< b.placed
    <3>1. a.maker /\ a.final < 0 => a.folded = a.seen
      BY DEF AcctOK
    <3> QED
      BY <1>1, <1>2, <1>6, <3>1
  <2>4. "dup" \notin FaultKinds => b.seen =< o.sent
    BY <1>6
  <2>5. /\ b.deferred => b.maker /\ b.final < 0
        /\ ~b.maker /\ b.final >= 0 => b.final >= o.exec /\ (b.final = b.placed \/ ~o.live)
        /\ "kill" \notin FaultKinds /\ ~b.maker /\ ~o.live => o.exec = o.size
    BY <1>6 DEF AcctOK
  <2> QED
    BY <1>2, <1>6, <2>1, <2>2, <2>3, <2>4, <2>5 DEF AcctOK
<1>8. Restates(a, b, o)
  BY <1>1, <1>6, <1>7 DEF Restates
<1>9. ~a.maker /\ a.final >= 0 /\ TerminalAcksHold => new = 0
  <2> SUFFICES ASSUME ~a.maker, a.final >= 0, TerminalAcksHold PROVE new = 0
    OBVIOUS
  <2>1. a.final >= o.exec /\ (a.final = a.placed \/ ~o.live)
    BY DEF AcctOK
  <2>2. a.seen + lots =< a.final
    <3>1. CASE "dup" \notin FaultKinds
      BY <1>1, <1>2, <2>1, <3>1
    <3>2. CASE "kill" \notin FaultKinds
      <4>1. ~o.live => o.exec = o.size
        BY <3>2 DEF AcctOK
      <4> QED
        BY <1>1, <1>2, <2>1, <4>1
    <3> QED
      BY <3>1, <3>2 DEF TerminalAcksHold
  <2> QED
    BY <1>1, <2>2 DEF NewLots, Max2
<1>10. c - a.credited = IF a.maker \/ a.final >= 0 THEN new ELSE 0
  BY <1>1, <1>3
<1>11. LotsToPair(a, lots) = IF a.maker THEN new ELSE 0
  BY DEF LotsToPair
<1> HIDE DEF new, c
<1>12. b.credited - a.credited \in Nat /\ (a.maker \/ TerminalAcksHold => b.credited - a.credited = LotsToPair(a, lots))
  <2>1. CASE a.maker
    BY <1>3, <1>6, <1>10, <1>11, <2>1
  <2>2. CASE ~a.maker
    BY <1>1, <1>3, <1>6, <1>9, <1>10, <1>11, <2>2
  <2> QED
    BY <2>1, <2>2
<1> QED
  BY <1>3, <1>6, <1>8, <1>11, <1>12 DEF b

(* The clip once a fill of its leg id is booked. *)
FilledClip(c, id, lots) == [c EXCEPT !.maker = id, !.filled = @ + lots]
Fills(s, id, lots) == [s EXCEPT !.clip.maker = id, !.clip.filled = @ + lots]

(* A fill of its leg moves the clip on. *)
MovesOn(s, v, t1, id, lots, leg) ==
    /\ s.clip # Idle /\ s.clip.dir \in {-1, 1} /\ leg \in Leg /\ id # 0
    /\ s.clip[leg] = id /\ s.own[id].buy = LegBuys(s.clip.dir, leg)
    /\ s.own[id].placed = s.clip.target /\ (leg = "B" => HedgeRatio = 1)
    /\ s.clip.filled \in Nat /\ (s.clip.maker = 0 => s.clip.filled = 0)
    /\ Good(t1) /\ Filling(t1) /\ Evolve(v, t1) /\ Evolve(s, t1)
    /\ Working(t1) = Working(v) /\ Net(t1) = Net(v)
    /\ t1.own = v.own /\ t1.orders = v.orders /\ t1.sink = v.sink
    /\ t1.rec = v.rec /\ t1.book = v.book
    /\ t1.clip # Idle /\ t1.clip.dir = s.clip.dir /\ t1.clip.target = s.clip.target
    /\ t1.clip.lots = s.clip.lots /\ t1.clip[leg] = id
    /\ t1.clip.maker = id /\ t1.clip.filled = s.clip.filled + lots
    /\ s.clip.maker # 0 => ClipOK(t1) /\ Working(t1) \subseteq {t1.clip.maker}

LEMMA FillsFields ==
    ASSUME NEW s, Good(s), ClipOK(s), NEW id \in DOMAIN s.own, NEW lots \in Nat \ {0},
           s.own[id].maker = TRUE, s.own[id].final < 0,
           id \in {s.clip.A, s.clip.B}, s.clip.maker \in {0, id},
           NEW v, Aside(s, v, {id}), v.own[id].folded = s.own[id].folded + lots,
           NEW t1, t1 = Fills(v, id, lots)
    PROVE  MovesOn(s, v, t1, id, lots, s.own[id].leg)
<1> DEFINE c == s.clip
           a == s.own[id]
           d == FilledClip(c, id, lots)
           leg == a.leg
<1>1. /\ a \in Acct /\ leg \in Leg /\ a.buy \in BOOLEAN /\ a.folded \in Nat /\ id \in Nat \ {0}
      /\ AcctOK(a, s.orders[id])
  BY GoodType DEF Acct
<1>2. /\ c # Idle /\ Filling(s) /\ c \in Clip /\ c.filled \in Nat /\ c.target \in Nat /\ c.A \in Nat /\ c.B \in Nat
      /\ c.maker \in Nat /\ c["A"] = c.A /\ c["B"] = c.B /\ c.dir \in {-1, 1}
  <2>1. c # Idle
    BY <1>1 DEF Idle
  <2> QED
    BY <2>1, ClipFilling, FillingType, ClipType, GoodType
<1>3. /\ c[leg] = id /\ a.buy = LegBuys(c.dir, leg) /\ a.placed = c.target
      /\ leg = "B" => HedgeRatio = 1
  <2>1. LegOK(s, "A") /\ LegOK(s, "B")
    BY <1>2, FillingType
  <2>2. CASE id = c.A
    <3>1. leg = "A" /\ a.buy = LegBuys(c.dir, "A") /\ a.placed = c.target
      BY <1>1, <1>2, <2>1, <2>2 DEF LegOK
    <3> QED
      BY <1>2, <2>2, <3>1
  <2>3. CASE id = c.B
    <3>1. leg = "B" /\ a.buy = LegBuys(c.dir, "B") /\ a.placed = c.target
      BY <1>1, <1>2, <2>1, <2>3 DEF LegOK
    <3>2. HedgeRatio = 1
      BY <1>1, <3>1 DEF AcctOK
    <3> QED
      BY <1>2, <2>3, <3>1, <3>2
  <2> QED
    BY <2>2, <2>3
<1>4. /\ Good(v) /\ Calm(s, v) /\ Evolve(s, v) /\ v.clip = c /\ Working(v) \subseteq Working(s)
      /\ DOMAIN s.own \subseteq DOMAIN v.own
  BY AsideCalm DEF Calm, Evolve
<1>5. /\ d \in Clip /\ d # Idle /\ d.dir = c.dir /\ d.target = c.target /\ d.mode = c.mode /\ d.lots = c.lots
      /\ d.A = c.A /\ d.B = c.B /\ d["A"] = c.A /\ d["B"] = c.B
      /\ d.maker = id /\ d.filled = c.filled + lots
  <2> DEFINE f == c.filled + lots
             e == [c EXCEPT !.maker = id, !.filled = f]
  <2>1. f \in Nat /\ d = e
    BY <1>2 DEF FilledClip
  <2> HIDE DEF f, d, c
  <2>2. /\ e \in Clip /\ e.dir = c.dir /\ e.target = c.target /\ e.mode = c.mode /\ e.lots = c.lots
        /\ e.A = c.A /\ e.B = c.B /\ e["A"] = c["A"] /\ e["B"] = c["B"]
        /\ e.maker = id /\ e.filled = f
    BY <1>1, <1>2, <2>1 DEF Clip
  <2>3. e # Idle
    BY <1>1, <2>2 DEF Idle
  <2> QED
    BY <1>2, <2>1, <2>2, <2>3 DEF f
<1> HIDE DEF d
<1>6. /\ Good(t1) /\ Evolve(v, t1) /\ Working(t1) = Working(v) /\ Net(t1) = Net(v)
      /\ t1.clip = d /\ t1.own = v.own /\ t1.orders = v.orders /\ t1.sink = v.sink
      /\ t1.rec = v.rec /\ t1.book = v.book
  <2>1. t1 = [v EXCEPT !.clip = d]
    <3>1. v \in State
      BY <1>4, GoodType
    <3> QED
      BY <1>2, <1>4, <3>1 DEF d, State, Clip, Fills, FilledClip
  <2> DEFINE w == [v EXCEPT !.clip = d]
  <2>2. /\ Good(w) /\ Evolve(v, w) /\ Working(w) = Working(v) /\ Net(w) = Net(v)
        /\ w.clip = d /\ w.own = v.own
    BY <1>4, <1>5, SetClipFields
  <2> QED
    BY <2>1, <2>2
<1>7. LegOK(t1, "A") /\ LegOK(t1, "B")
  <2>1. LegOK(v, "A") /\ LegOK(v, "B")
    BY <1>2, <1>4, FillingType, LegKept
  <2> QED
    BY <1>2, <1>4, <1>5, <1>6, <2>1 DEF LegOK
<1>8. d.filled =< t1.own[id].folded
  <2>1. c.maker = 0 => c.filled = 0
    BY <1>2 DEF Filling
  <2>2. c.maker # 0 => c.filled =< a.folded
    BY <1>2 DEF Filling
  <2> QED
    BY <1>1, <1>2, <1>5, <1>6, <2>1, <2>2
<1>9. Filling(t1)
  <2>1. Working(s) \subseteq {c.A, c.B}
    BY <1>2, FillingType
  <2>2. c.dir # 0 /\ c.target >= 1 /\ (c.mode \in {"dual", "soloB"} => HedgeRatio = 1)
    BY <1>2 DEF Filling
  <2> QED
    BY <1>1, <1>4, <1>5, <1>6, <1>7, <1>8, <2>1, <2>2 DEF Filling
<1>10. Evolve(s, t1)
  BY <1>4, <1>6, EvolveTrans
<1>11. d[leg] = id
  BY <1>1, <1>2, <1>3, <1>5 DEF Leg
<1>12. c.maker = 0 => c.filled = 0
  BY <1>2 DEF Filling
<1>13. ASSUME c.maker # 0 PROVE ClipOK(t1) /\ Working(t1) \subseteq {t1.clip.maker}
  <2>1. Working(s) \subseteq {id}
    BY <1>2, <1>13 DEF ClipOK
  <2>2. Working(t1) \subseteq {t1.clip.maker}
    BY <1>4, <1>5, <1>6, <2>1
  <2> QED
    BY <1>1, <1>5, <1>6, <1>9, <2>2 DEF Filling, ClipOK
<1> QED
  BY <1>1, <1>2, <1>3, <1>5, <1>6, <1>9, <1>10, <1>11, <1>12, <1>13 DEF MovesOn

(* A fill that belongs to the working clip. *)
LEMMA ClipFillOutcome ==
    ASSUME NEW s, Good(s), ClipOK(s), NEW id \in DOMAIN s.own, NEW lots \in Nat \ {0},
           s.own[id].maker = TRUE, s.own[id].final < 0,
           id \in {s.clip.A, s.clip.B}, s.clip.maker \in {0, id},
           NEW v, Aside(s, v, {id}), v.own[id].folded = s.own[id].folded + lots,
           Net(v) = Net(s) + Worth(s.own[id].leg, s.own[id].buy, lots),
           NEW t1, t1 = Fills(v, id, lots),
           NEW t, IF s.clip.maker = 0 THEN t \in FirstFill(t1, s.own[id].leg)
                  ELSE t \in LaterFill(t1, s.own[id].leg, lots)
    PROVE  Handled(s, t) /\ Evolve(v, t)
<1> DEFINE c == s.clip
           leg == s.own[id].leg
<1>0. MovesOn(s, v, t1, id, lots, leg)
  BY FillsFields
<1>1. leg = s.own[id].leg
  OBVIOUS
<1> HIDE DEF leg
<1>2. /\ c.dir \in {-1, 1} /\ leg \in Leg /\ s.own[id].buy = LegBuys(c.dir, leg)
      /\ leg = "B" => HedgeRatio = 1
      /\ Good(t1) /\ Filling(t1) /\ Evolve(v, t1) /\ Evolve(s, t1)
      /\ Net(t1) = Net(v) /\ t1.clip # Idle /\ t1.clip.dir = c.dir
  BY <1>1, <1>0 DEF MovesOn
<1>3. /\ t1.clip[leg] = id /\ t1.clip.maker = id /\ t1.clip.filled = c.filled + lots
      /\ c.filled \in Nat /\ (c.maker = 0 => c.filled = 0)
      /\ c.maker # 0 => ClipOK(t1) /\ Working(t1) \subseteq {t1.clip.maker}
  BY <1>1, <1>0 DEF MovesOn
<1>4. Good(v) /\ Evolve(s, v) /\ Net(s) \in Int
  BY AsideCalm, GoodType, NetType
<1>5. Net(t1) = Net(s) + LegWorth(t1, leg, lots) /\ LegWorth(t1, leg, lots) \in Int
  <2>1. t1.clip.dir \in {-1, 1} /\ (leg = "A" \/ HedgeRatio = 1) /\ lots \in Int
    BY <1>2 DEF Leg
  <2>2. /\ Worth(leg, LegBuys(t1.clip.dir, leg), lots) = LegWorth(t1, leg, lots)
        /\ LegWorth(t1, leg, lots) \in Int
    BY <1>2, <2>1, LegWorthIs
  <2> QED
    BY <1>1, <1>2, <2>2
<1>6. Paired(t1, t, leg, lots)
  <2>1. CASE c.maker = 0
    <3>1. t1.clip.filled = lots /\ t1.clip[leg] = t1.clip.maker /\ t \in FirstFill(t1, leg)
      BY <1>1, <1>3, <2>1
    <3> QED
      BY <1>2, <3>1, FirstFillOutcome
  <2>2. CASE c.maker # 0
    <3>1. t \in LaterFill(t1, leg, lots)
      BY <1>1, <2>2
    <3> QED
      BY <1>2, <1>3, <2>2, <3>1, LaterFillOutcome
  <2> QED
    BY <2>1, <2>2
<1>7. Good(t) /\ ClipOK(t) /\ Evolve(s, t) /\ Evolve(v, t)
  BY <1>2, <1>4, <1>6, EvolveTrans DEF Paired
<1>8. ~s.rec.halted => Net(t) = Net(s)
  BY <1>2, <1>4, <1>5, <1>6 DEF Paired, Evolve
<1> QED
  BY <1>7, <1>8 DEF Handled

(* k lots of order id are booked. *)
Books(s, v, id, k) ==
    Aside(s, v, {id}) /\ Net(v) = Net(s) + Worth(s.own[id].leg, s.own[id].buy, k)

Strayed(s, t, k, n) ==
    /\ Good(t) /\ ClipOK(t) /\ Evolve(s, t) /\ t.clip = s.clip
    /\ ~s.rec.halted /\ k = n => Net(t) = Net(s)

(* A fill that finds no clip to belong to. *)
LEMMA StrayFillOutcome ==
    ASSUME NEW s, Good(s), ClipOK(s), NEW id \in DOMAIN s.own, NEW k \in Nat, NEW n \in Nat,
           NEW v, Books(s, v, id, k), s.own[id].maker = TRUE \/ n = 0,
           NEW leg, leg = s.own[id].leg, NEW buy, buy = s.own[id].buy,
           NEW t \in HedgeStrayMakerFill(v, leg, buy, n)
    PROVE  Strayed(s, t, k, n) /\ Evolve(v, t)
<1> DEFINE a == s.own[id]
<1>1. /\ a \in Acct /\ a.leg \in Leg /\ a.buy \in BOOLEAN /\ AcctOK(a, s.orders[id]) /\ Net(s) \in Int
  BY GoodType, NetType DEF Acct
<1>2. Good(v) /\ Evolve(s, v) /\ Calm(s, v) /\ v.rec.halted = s.rec.halted
  BY AsideCalm DEF Evolve, Books
<1>3. Aside(v, t, {}) /\ Good(t) /\ (~v.rec.halted => Net(t) = Net(v) - Worth(a.leg, a.buy, n))
  <2>1. CASE a.maker = TRUE
    <3>1. a.leg = "B" => HedgeRatio = 1
      BY <1>1, <2>1 DEF AcctOK
    <3> QED
      BY <1>1, <1>2, <3>1, HedgeStrayOutcome
  <2>2. CASE n = 0
    <3>1. HedgeLots(Other(a.leg), n) = 0
      BY <2>2, HedgeLotsType
    <3>2. TopUp(v, Other(a.leg), ~a.buy, HedgeLots(Other(a.leg), n)) = {v}
      BY <3>1 DEF TopUp
    <3>3. t = v
      BY <3>2 DEF HedgeStrayMakerFill
    <3>4. Worth(a.leg, a.buy, n) = 0 /\ Net(v) \in Int
      BY <1>2, <2>2, WorthZero, NetType, GoodType
    <3> QED
      BY <1>2, <3>3, <3>4, AsideRefl
  <2> QED
    BY <2>1, <2>2
<1>4. Calm(s, t) /\ Evolve(s, t) /\ Evolve(v, t) /\ t.clip = s.clip
  BY <1>2, <1>3, AsideCalm, CalmTrans DEF Calm
<1>5. ClipOK(t)
  BY <1>4, ClipKept
<1>6. ~s.rec.halted /\ k = n => Net(t) = Net(s)
  <2>1. Worth(a.leg, a.buy, k) \in Int
    BY WorthType
  <2> QED
    BY <1>1, <1>2, <1>3, <2>1 DEF Books
<1> QED
  BY <1>3, <1>4, <1>5, <1>6 DEF Strayed

(* A stream's outcome, which may credit a settled taker's repeated lots. *)
Streamed(s, t) ==
    /\ Good(t) /\ ClipOK(t) /\ Evolve(s, t)
    /\ TerminalAcksHold /\ ~s.rec.halted => Net(t) = Net(s)

LEMMA HandledStreamed ==
    ASSUME NEW s, NEW t, Handled(s, t)
    PROVE  Streamed(s, t)
BY DEF Handled, Streamed

LEMMA OnFillOutcome ==
    ASSUME NEW s, Good(s), ClipOK(s), NEW id, NEW n \in Nat \ {0},
           id \in DOMAIN s.own /\ "dup" \notin FaultKinds => s.own[id].seen + n =< s.orders[id].sent,
           NEW t \in OnFill(s, id, n)
    PROVE  /\ Streamed(s, t) /\ (s.clip = Idle => t.clip = Idle)
           /\ id \in DOMAIN s.own /\ "dup" \notin FaultKinds => s.own[id].seen + n =< t.own[id].seen
<1> DEFINE a == s.own[id]
           c == s.clip
           lots == AcceptedLots(a, n)
           b == FoldFill(a, lots)
           v == SetAcct(s, id, b)
           t1 == Fills(v, id, lots)
           Stray == \/ ~a.maker
                    \/ a.final >= 0
                    \/ id \notin {c.A, c.B}
                    \/ c.maker \notin {0, id}
           Filled == IF Stray THEN HedgeStrayMakerFill(v, a.leg, a.buy, LotsToPair(a, lots))
                     ELSE IF c.maker = 0 THEN FirstFill(t1, a.leg) ELSE LaterFill(t1, a.leg, lots)
<1>0. OnFill(s, id, n) = CASE id \notin DOMAIN s.own -> {s}
                           [] id \in DOMAIN s.own /\ lots =< 0 -> {s}
                           [] id \in DOMAIN s.own /\ lots > 0 -> Filled
  BY Zenon DEF OnFill, Fills
<1> HIDE DEF Filled
<1>1. CASE id \notin DOMAIN s.own \/ lots =< 0
  <2>1. t = s
    <3>1. CASE id \notin DOMAIN s.own
      BY <1>0, <3>1
    <3>2. CASE id \in DOMAIN s.own /\ lots =< 0
      <4>1. a.seen \in Nat /\ a.placed \in Nat
        BY <3>2, GoodType DEF Acct
      <4>2. ~(lots > 0)
        BY <3>2, <4>1 DEF AcceptedLots, Min2
      <4> HIDE DEF lots
      <4> QED
        BY <1>0, <3>2, <4>2
    <3> QED
      BY <1>1, <3>1, <3>2
  <2>2. ~(id \in DOMAIN s.own /\ "dup" \notin FaultKinds)
    <3> SUFFICES ASSUME id \in DOMAIN s.own, "dup" \notin FaultKinds, lots =< 0 PROVE FALSE
      BY <1>1
    <3>1. /\ a.seen \in Nat /\ a.placed \in Nat /\ AcctOK(a, s.orders[id]) /\ OrderOK(s.orders[id])
          /\ s.orders[id] \in OrderType
      BY GoodType DEF Acct
    <3>2. a.seen + n =< a.placed
      BY <3>1, OrderFields DEF AcctOK, OrderOK
    <3> QED
      BY <3>1, <3>2 DEF AcceptedLots, Min2
  <2> QED
    BY <2>1, <2>2, HandledSelf, HandledStreamed
<1>2. CASE id \in DOMAIN s.own /\ ~(lots =< 0)
  <2>1. /\ a \in Acct /\ s.orders[id] \in OrderType /\ OrderOK(s.orders[id]) /\ AcctOK(a, s.orders[id])
        /\ a.maker \in BOOLEAN /\ a.final \in Int /\ a.seen \in Nat /\ a.placed \in Nat
        /\ a.leg \in Leg /\ a.buy \in BOOLEAN /\ s.orders[id].sent \in Nat
    <3>1. a \in Acct /\ s.orders[id] \in OrderType
      BY <1>2, GoodType
    <3> QED
      BY <1>2, <3>1, GoodType DEF Acct, OrderType
  <2>2. lots \in Nat \ {0} /\ a.seen + lots =< a.placed /\ lots =< n
    BY <1>2, <2>1 DEF AcceptedLots, Min2
  <2>3. "dup" \notin FaultKinds => a.seen + lots =< s.orders[id].sent
    BY <1>2, <2>1, <2>2
  <2>4. t \in Filled
    <3>1. lots > 0 /\ ~(lots =< 0)
      BY <2>2
    <3> HIDE DEF lots
    <3> QED
      BY <1>0, <1>2, <3>1
  <2> DEFINE k == b.credited - a.credited
             m == LotsToPair(a, lots)
             o == s.orders[id]
  <2>5. /\ b \in Acct /\ Restates(a, b, o) /\ k \in Nat /\ m \in Nat
        /\ a.maker \/ TerminalAcksHold => k = m
        /\ ~a.maker => m = 0
        /\ a.maker /\ a.final < 0 => m = lots /\ b.folded = a.folded + lots
        /\ b.seen = a.seen + lots
    <3> HIDE DEF lots, o, a
    <3> QED
      BY <2>1, <2>2, <2>3, FilledAccount DEF o
  <2>6. b.leg = a.leg /\ b.buy = a.buy
    BY <2>5 DEF Restates
  <2>7. /\ Aside(s, v, {id}) /\ v.own[id] = b
        /\ Net(v) = Net(s) + Worth(a.leg, a.buy, k)
    <3>1. b \in Acct /\ Restates(s.own[id], b, s.orders[id])
      BY <2>5
    <3> HIDE DEF b, a, lots
    <3> HIDE <2>5
    <3> QED
      BY <1>2, <2>6, <3>1, SetAcctAside, SMTT(30) DEF a
  <2>10. "dup" \notin FaultKinds => v.own[id].seen = a.seen + n
    <3> SUFFICES ASSUME "dup" \notin FaultKinds PROVE lots = n
      <4>1. v.own[id].seen = a.seen + lots
        <5> HIDE DEF v, b, lots
        <5> QED
          BY <2>5, <2>7
      <4> HIDE DEF v, lots
      <4> QED
        BY <4>1
    <3>1. a.seen + n =< a.placed
      BY <1>2, <2>1, OrderFields DEF AcctOK, OrderOK
    <3> QED
      BY <2>1, <3>1 DEF AcceptedLots, Min2
  <2>11. id \in DOMAIN v.own
    BY <1>2, <2>7 DEF Aside, Calm, Evolve
  <2> HIDE DEF v, k, m, b, lots
  <2>12. ASSUME Evolve(v, t), "dup" \notin FaultKinds PROVE a.seen + n =< t.own[id].seen
    BY <2>10, <2>11, <2>12 DEF Evolve
  <2>8. CASE Stray
    <3> DEFINE leg == a.leg
               buy == a.buy
    <3>1. t \in HedgeStrayMakerFill(v, leg, buy, m)
      BY <2>4, <2>8 DEF m, Filled
    <3>2. a.maker = TRUE \/ m = 0
      BY <2>1, <2>5
    <3> HIDE DEF Stray
    <3>5. Books(s, v, id, k)
      BY <2>7 DEF Books
    <3>6. leg = s.own[id].leg /\ buy = s.own[id].buy
      OBVIOUS
    <3> HIDE DEF leg, buy
    <3>0. k \in Nat /\ m \in Nat /\ id \in DOMAIN s.own
      BY <1>2, <2>5
    <3>3. Strayed(s, t, k, m) /\ Evolve(v, t)
      BY <3>0, <3>1, <3>2, <3>5, <3>6, StrayFillOutcome
    <3>4. TerminalAcksHold => k = m
      BY <2>5
    <3> QED
      BY <2>12, <3>3, <3>4 DEF Streamed, Strayed
  <2>9. CASE ~Stray
    <3>1. /\ a.maker = TRUE /\ a.final < 0 /\ id \in {c.A, c.B} /\ c.maker \in {0, id}
      BY <2>1, <2>9
    <3>2. k = lots /\ v.own[id].folded = a.folded + lots
      BY <2>5, <2>7, <3>1
    <3>3. Net(v) = Net(s) + Worth(a.leg, a.buy, lots)
      BY <2>7, <3>2
    <3>4. IF c.maker = 0 THEN t \in FirstFill(t1, a.leg) ELSE t \in LaterFill(t1, a.leg, lots)
      BY <2>4, <2>9 DEF Filled
    <3>5. t1 = Fills(v, id, lots)
      OBVIOUS
    <3> HIDE DEF t1
    <3>6. Handled(s, t) /\ Evolve(v, t)
      BY <1>2, <2>2, <2>7, <3>1, <3>2, <3>3, <3>4, <3>5, ClipFillOutcome
    <3>7. c # Idle
      BY <1>2, <3>1, GoodType DEF Idle
    <3> QED
      BY <2>12, <3>6, <3>7, HandledStreamed
  <2> QED
    BY <2>8, <2>9
<1>3. (lots =< 0) \/ ~(lots =< 0)
  OBVIOUS
<1> QED
  BY <1>1, <1>2

-----------------------------------------------------------------------------
(* Order status, re-pegging and the decision. *)

LEMMA OverdueFields ==
    ASSUME NEW s, Good(s), NEW id \in s.pending
    PROVE  LET t == [s EXCEPT !.own[id].overdue = TRUE]
           IN  Aside(s, t, {id}) /\ Net(t) = Net(s) /\ t.faults = s.faults /\ Good(t)
<1> DEFINE a == s.own[id]
           b == [a EXCEPT !.overdue = TRUE]
           q == [s.own EXCEPT ![id] = b]
           t == [s EXCEPT !.own = q]
<1>1. /\ id \in DOMAIN s.own /\ ~a.maker /\ a.final < 0
  BY DEF Good
<1>2. /\ s \in State /\ a \in Acct /\ AcctOK(a, s.orders[id]) /\ OrderOK(s.orders[id])
      /\ id \in 1..Len(s.orders) /\ s.own \in Accts /\ s.moves \in Nat
  BY <1>1, GoodType
<1>3. /\ b \in Acct /\ b.maker = a.maker /\ b.leg = a.leg /\ b.buy = a.buy /\ b.placed = a.placed
      /\ b.folded = a.folded /\ b.seen = a.seen /\ b.credited = a.credited /\ b.final = a.final
      /\ b.deferred = a.deferred
  BY <1>2 DEF Acct
<1>4. [s EXCEPT !.own[id].overdue = TRUE] = t
  BY DEF State
<1> HIDE DEF b
<1>5. /\ q \in Accts /\ DOMAIN q = DOMAIN s.own /\ q[id] = b
      /\ \A j \in DOMAIN s.own : j # id => q[j] = s.own[j]
  <2>1. DOMAIN s.own \in SUBSET Nat /\ \A j \in DOMAIN s.own : s.own[j] \in Acct
    BY <1>2, AcctsType
  <2>2. s.own = [j \in DOMAIN s.own |-> s.own[j]]
    BY <1>2, AcctsType
  <2>3. /\ DOMAIN q = DOMAIN s.own /\ q[id] = b
        /\ \A j \in DOMAIN s.own : j # id => q[j] = s.own[j]
        /\ q = [j \in DOMAIN s.own |-> q[j]]
    BY <1>1, <2>2
  <2>4. \A j \in DOMAIN s.own : q[j] \in Acct
    BY <1>3, <2>1, <2>3
  <2> HIDE DEF q
  <2>5. q \in Accts
    BY <2>1, <2>3, <2>4, AcctsIntro
  <2> QED
    BY <2>3, <2>5
<1> HIDE DEF q
<1>6. /\ t \in State /\ t.own = q
      /\ t.orders = s.orders /\ t.rec = s.rec /\ t.sink = s.sink /\ t.faults = s.faults
      /\ t.pending = s.pending /\ t.clip = s.clip /\ t.moves = s.moves
  BY <1>2, <1>5 DEF State
<1> HIDE DEF t
<1>7. AcctOK(b, s.orders[id]) /\ a.folded =< a.folded
  BY <1>2, <1>3 DEF AcctOK, Acct
<1>8. Amended(s, t, id)
  <2>1. a.final \in Int /\ ~(b.final >= 0)
    BY <1>1, <1>2, <1>3 DEF Acct
  <2>2. t.pending = IF ~s.own[id].maker /\ t.own[id].final >= 0 THEN s.pending \ {id} ELSE s.pending
    BY <1>5, <1>6, <2>1
  <2>3. /\ s.orders[id] \in OrderType /\ a.seen \in Nat /\ a.folded \in Nat
        /\ a.credited \in Nat /\ s.sink \in [Leg -> Int]
    BY <1>1, <1>2, GoodType DEF Acct
  <2>4. \A leg \in Leg : t.sink[leg] = s.sink[leg]
            + IF leg = s.own[id].leg THEN Sign(s.own[id].buy) * (t.own[id].credited - s.own[id].credited) ELSE 0
    <3> TAKE leg \in Leg
    <3>1. t.own[id].credited - s.own[id].credited = 0
      BY <1>3, <1>5, <1>6, <2>3
    <3>2. Sign(s.own[id].buy) * 0 = 0 /\ t.sink[leg] = s.sink[leg] /\ s.sink[leg] \in Int
      BY <1>6, <2>3 DEF Sign
    <3> QED
      BY <3>1, <3>2
  <2> QED
    BY <1>2, <1>3, <1>5, <1>6, <1>7, <2>2, <2>3, <2>4 DEF Amended
<1>9. Aside(s, t, {id})
  BY <1>1, <1>3, <1>5, <1>6, <1>8, AmendedAside
<1> QED
  BY <1>4, <1>6, <1>9, NetSame, AsideCalm

LEMMA OnOrderStatusOutcome ==
    ASSUME NEW s, Good(s), ClipOK(s), NEW id, id \in DOMAIN s.own => ~s.orders[id].live,
           NEW t \in OnOrderStatus(s, id)
    PROVE  Handled(s, t) /\ (s.clip = Idle => t.clip = Idle)
<1> DEFINE a == s.own[id]
           w == [s EXCEPT !.own[id].overdue = TRUE]
           taker == IF Confirmed(a) THEN {s}
                    ELSE SettleTakerAt(s, id) \cup {o.st : o \in Faulty(s, "silent", {[st |-> w]})}
           maker == IF a.deferred /\ ~s.rec.halted THEN {o.st : o \in TryDeferredRetire(s, id)}
                    ELSE IF id \in {s.clip.A, s.clip.B} /\ a.final < 0 THEN CancelClip(s)
                    ELSE {s}
<1>1. OnOrderStatus(s, id) = CASE id \notin DOMAIN s.own -> {s}
                               [] id \in DOMAIN s.own /\ ~a.maker -> taker
                               [] id \in DOMAIN s.own /\ a.maker -> maker
  BY Zenon DEF OnOrderStatus
<1> HIDE DEF taker, maker, w
<1>2. CASE id \notin DOMAIN s.own
  <2>1. t = s
    BY <1>1, <1>2
  <2> QED
    BY <2>1, HandledSelf
<1>3. CASE id \in DOMAIN s.own /\ ~a.maker
  <2>1. t \in taker
    BY <1>1, <1>3
  <2>2. CASE Confirmed(a)
    <3>1. t = s
      BY <2>1, <2>2 DEF taker
    <3> QED
      BY <3>1, HandledSelf
  <2>3. CASE ~Confirmed(a)
    <3>1. id \in s.pending
      <4>1. a.final \in Int /\ a.seen \in Nat /\ a.placed \in Nat
        BY <1>3, GoodType DEF Acct
      <4>2. a.final < 0
        BY <2>3, <4>1 DEF Confirmed
      <4> QED
        BY <1>3, <4>2 DEF Good
    <3>2. CASE t \in SettleTakerAt(s, id)
      <4>1. Settles(s, t, id)
        BY <1>3, <3>1, <3>2, SettleTakerAtOutcome
      <4>2. Quiet(s, t)
        BY <4>1, AsideQuiet DEF Settles
      <4> QED
        BY <4>2, QuietHandled DEF Quiet, Calm
    <3>3. CASE t \notin SettleTakerAt(s, id)
      <4>1. PICK o \in Faulty(s, "silent", {[st |-> w]}) : t = o.st
        BY <2>1, <2>3, <3>3 DEF taker
      <4>2. s.faults > 0 /\ t = [w EXCEPT !.faults = @ - 1]
        BY <4>1, FaultyOutcome
      <4>3. Aside(s, w, {id}) /\ Net(w) = Net(s) /\ w.faults = s.faults /\ Good(w)
        BY <3>1, OverdueFields DEF w
      <4>4. Aside(w, t, {}) /\ Net(t) = Net(w)
        <5> DEFINE z == [w EXCEPT !.faults = @ - 1]
        <5>1. Aside(w, z, {}) /\ Net(z) = Net(w)
          BY <4>2, <4>3, SpentFields
        <5> QED
          BY <4>2, <5>1
      <4>5. Quiet(s, w) /\ Quiet(w, t)
        BY <4>3, <4>4, AsideQuiet
      <4>6. t.clip = s.clip
        BY <4>5 DEF Quiet, Calm
      <4> QED
        BY <4>3, <4>5, <4>6, QuietTrans, QuietHandled
    <3> QED
      BY <3>2, <3>3
  <2> QED
    BY <2>2, <2>3
<1>4. CASE id \in DOMAIN s.own /\ a.maker
  <2>1. t \in maker /\ a.maker = TRUE
    <3>1. a.maker \in BOOLEAN
      BY <1>4, GoodType DEF Acct
    <3> QED
      BY <1>1, <1>4, <3>1
  <2>2. CASE a.deferred /\ ~s.rec.halted
    <3>1. PICK o \in TryDeferredRetire(s, id) : t = o.st
      BY <2>1, <2>2 DEF maker
    <3>2. Retried(s, o, id)
      BY <1>4, <2>1, TryDeferredRetireOutcome
    <3>3. Quiet(s, t)
      BY <3>1, <3>2, AsideQuiet DEF Retried
    <3> QED
      BY <3>3, QuietHandled DEF Quiet, Calm
  <2>3. CASE ~(a.deferred /\ ~s.rec.halted)
    <3>1. t = s \/ t \in CancelClip(s)
      BY <2>1, <2>3 DEF maker
    <3> QED
      BY <3>1, HandledSelf, CancelClipOutcome
  <2> QED
    BY <2>2, <2>3
<1> QED
  BY <1>2, <1>3, <1>4

(* Whatever the strategy wants. *)
LEMMA DecideOutcome ==
    ASSUME NEW s, Good(s), ClipOK(s), ~s.rec.halted, NEW intent \in Intent \cup {Hold},
           NEW t \in Decide(s, intent)
    PROVE  /\ Handled(s, t)
           /\ s.clip = Idle /\ t.clip # Idle =>
                 ~s.rec.impaired /\ ~AwaitingTaker(s) /\ Adds(s, t)
<1> DEFINE Opens == /\ s.clip = Idle /\ intent # Hold /\ t \in TryOpenClip(s, intent)
                    /\ ~s.rec.impaired /\ ~AwaitingTaker(s)
<1>1. t = s \/ (s.clip # Idle /\ t \in ResolveClip(s)) \/ Opens
  <2>1. CASE s.rec.impaired
    BY <2>1 DEF Decide
  <2>2. CASE ~s.rec.impaired /\ s.clip # Idle
    BY <2>2 DEF Decide
  <2>3. CASE ~s.rec.impaired /\ s.clip = Idle
    BY <2>3 DEF Decide
  <2> QED
    BY <2>1, <2>2, <2>3
<1>2. CASE Opens
  <2>1. Free(s) /\ intent \in Intent
    BY <1>2, FreeIs
  <2> QED
    BY <1>2, <2>1, TryOpenClipOutcome
<1> QED
  BY <1>1, <1>2, HandledSelf, ResolveClipOutcome

(* A clip whose leg is now order id. *)
LEMMA ReleggedClip ==
    ASSUME NEW c \in Clip, NEW leg \in Leg, NEW id \in Nat
    PROVE  LET d == [c EXCEPT ![leg] = id]
           IN  /\ d \in Clip /\ d[leg] = id /\ d[Other(leg)] = c[Other(leg)]
               /\ d.dir = c.dir /\ d.target = c.target /\ d.mode = c.mode
               /\ d.maker = c.maker /\ d.filled = c.filled /\ d.lots = c.lots
               /\ d["A"] = d.A /\ d["B"] = d.B
<1>1. CASE leg = "A"
  BY <1>1 DEF Clip, Other
<1>2. CASE leg = "B"
  BY <1>2 DEF Clip, Other
<1> QED
  BY <1>1, <1>2 DEF Leg

(* A new order rests on a leg whose old one is retired. *)
LEMMA RepeggedOutcome ==
    ASSUME NEW s, Good(s), ClipOK(s), s.clip # Idle, s.clip.maker = 0, NEW leg \in Leg,
           s.clip[leg] \notin Working(s),
           NEW b, b = LegBuys(s.clip.dir, leg), NEW p, MakerPlaced(s, leg, b, s.clip.target, p),
           Net(p.st) = Net(s),
           NEW t, t = [p.st EXCEPT !.clip[leg] = p.id]
    PROVE  Handled(s, t)
<1> DEFINE c == s.clip
           u == p.st
           id == p.id
           d == [c EXCEPT ![leg] = id]
           cp == Other(leg)
           w == [u EXCEPT !.clip = d]
<1>1. /\ c.dir \in {-1, 1} /\ LegOK(s, "A") /\ LegOK(s, "B") /\ c \in Clip /\ c["A"] = c.A /\ c["B"] = c.B
      /\ Working(s) \subseteq {c.A, c.B} /\ cp \in Leg
  BY ClipLegs, OtherLeg
<1>2. /\ c.dir # 0 /\ c.target >= 1 /\ c.filled = 0 /\ (c.mode \in {"dual", "soloB"} => HedgeRatio = 1)
  BY DEF ClipOK
<1>3. /\ Good(u) /\ Evolve(s, u) /\ u.clip = c /\ id \in DOMAIN u.own /\ id # 0 /\ id \in Nat
      /\ u.own[id].maker = TRUE /\ u.own[id].leg = leg /\ u.own[id].buy = b /\ u.own[id].placed = c.target
      /\ Working(u) \subseteq Working(s) \cup {id}
  <2>1. Rests(u, id, leg, c.dir, c.target) /\ id \in Nat /\ id \in DOMAIN u.own
        /\ Good(u) /\ Evolve(s, u) /\ u.clip = c /\ Working(u) \subseteq Working(s) \cup {id}
    <3>1. MakerPlaced(s, leg, LegBuys(c.dir, leg), c.target, p)
      OBVIOUS
    <3> HIDE DEF c
    <3>2. Rests(p.st, p.id, leg, c.dir, c.target) /\ p.id \in Nat /\ p.id \in DOMAIN p.st.own
          /\ Good(p.st) /\ Evolve(s, p.st) /\ p.st.clip = s.clip
          /\ Working(p.st) \subseteq Working(s) \cup {p.id}
      BY <3>1, MakerRests
    <3> QED
      BY <3>2 DEF c
  <2>2. id # 0
    BY <2>1, GoodType
  <2> QED
    BY <2>1, <2>2 DEF Rests
<1>4. /\ d \in Clip /\ d[leg] = id /\ d[cp] = c[cp]
      /\ d.dir = c.dir /\ d.target = c.target /\ d.mode = c.mode
      /\ d.maker = c.maker /\ d.filled = c.filled
      /\ d["A"] = d.A /\ d["B"] = d.B
  <2> HIDE DEF c, id
  <2> QED
    BY <1>1, <1>3, ReleggedClip DEF c
<1>5. t = w
  <2>1. u \in State
    BY <1>3, GoodType
  <2> QED
    BY <1>3, <2>1 DEF State
<1> HIDE DEF d
<1>6. /\ Good(w) /\ Evolve(u, w) /\ Working(w) = Working(u) /\ Net(w) = Net(u)
      /\ w.clip = d /\ w.own = u.own
  <2> HIDE DEF u
  <2> QED
    BY <1>3, <1>4, SetClipFields
<1> HIDE DEF w, cp
<1>7. LegOK(w, leg)
  BY <1>3, <1>4, <1>6 DEF LegOK
<1>8. LegOK(w, cp)
  <2>1. LegOK(u, cp)
    <3>1. LegOK(s, cp)
      BY <1>1 DEF Leg
    <3> QED
      BY <1>3, <3>1, LegKept
  <2> QED
    BY <1>3, <1>4, <1>6, <2>1 DEF LegOK
<1>9. LegOK(w, "A") /\ LegOK(w, "B")
  BY <1>7, <1>8 DEF Leg, Other, cp
<1>10. Working(w) \subseteq {d.A, d.B}
  <2>1. {d[leg], d[cp]} = {d.A, d.B}
    BY <1>4 DEF Leg, Other, cp
  <2>2. {c[leg], c[cp]} = {c.A, c.B}
    BY <1>1 DEF Leg, Other, cp
  <2>3. Working(s) \subseteq {c[cp]}
    BY <1>1, <2>2
  <2> QED
    BY <1>3, <1>4, <1>6, <2>1, <2>3
<1>11. ClipOK(w)
  <2>1. d.maker = 0 /\ d # Idle
    BY <1>2, <1>4 DEF Idle
  <2> QED
    BY <1>2, <1>4, <1>6, <1>9, <1>10, <2>1 DEF ClipOK
<1>12. Evolve(s, w)
  BY <1>3, <1>6, EvolveTrans
<1>13. Net(w) = Net(s)
  BY <1>6
<1> QED
  BY <1>5, <1>6, <1>11, <1>12, <1>13 DEF Handled

LEMMA PostRepeggedOutcome ==
    ASSUME NEW s, Good(s), ClipOK(s), ~s.rec.halted, s.clip # Idle, s.clip.maker = 0, NEW leg \in Leg,
           leg = "B" => HedgeRatio = 1, s.clip[leg] \notin Working(s),
           NEW t \in PostRepegged(s, leg)
    PROVE  Handled(s, t)
<1> DEFINE b == LegBuys(s.clip.dir, leg)
           n == s.clip.target
<1>1. b \in BOOLEAN /\ n \in Nat \ {0} /\ s.clip.dir \in {-1, 1}
  <2>1. s.clip.dir \in {-1, 1} /\ n \in Nat
    BY ClipLegs
  <2>2. n >= 1
    BY DEF ClipOK
  <2> QED
    BY <2>1, <2>2, BuysType
<1>2. PICK p \in PlaceMaker(s, leg, b, n) :
         t \in IF p.res = "ok" THEN {[p.st EXCEPT !.clip[leg] = p.id]} ELSE CancelClip(p.st)
  BY DEF PostRepegged
<1> HIDE DEF b, n
<1>3. /\ p.res # "ok" => Aside(s, p.st, {})
      /\ p.res = "ok" => MakerPlaced(s, leg, b, n, p)
      /\ Net(p.st) = Net(s)
  BY <1>1, <1>2, PlaceMakerOutcome
<1>4. CASE p.res = "ok"
  <2>1. t = [p.st EXCEPT !.clip[leg] = p.id]
    BY <1>2, <1>4
  <2>2. MakerPlaced(s, leg, b, s.clip.target, p) /\ b = LegBuys(s.clip.dir, leg)
    BY <1>3, <1>4 DEF b, n
  <2> QED
    BY <1>3, <2>1, <2>2, RepeggedOutcome
<1>5. CASE p.res # "ok"
  <2>1. t \in CancelClip(p.st)
    BY <1>2, <1>5
  <2>2. Handled(s, p.st)
    <3>1. Aside(s, p.st, {})
      BY <1>3, <1>5
    <3>2. Quiet(s, p.st)
      BY <1>3, <3>1, AsideQuiet
    <3> QED
      BY <3>2, QuietHandled
  <2>3. Good(p.st) /\ ClipOK(p.st) /\ Evolve(s, p.st) /\ (~s.rec.halted => Net(p.st) = Net(s))
    BY <2>2 DEF Handled
  <2>4. Handled(p.st, t)
    BY <2>1, <2>3, CancelClipOutcome
  <2> QED
    BY <2>3, <2>4, HandledTrans
<1> QED
  BY <1>4, <1>5

Claims(s, id, gap) == [s EXCEPT !.clip.maker = id, !.clip.filled = gap]

(* The fill that the cancel of a re-pegged leg caught is the maker's. *)
Claimed(s, v, w, gap) ==
    /\ Good(w) /\ Evolve(v, w) /\ Working(w) = Working(v) /\ Net(w) = Net(v) /\ Filling(w)
    /\ w.own = v.own /\ w.orders = v.orders /\ w.sink = v.sink /\ w.book = v.book /\ w.rec = v.rec
    /\ w.clip.dir = s.clip.dir /\ w.clip.target = s.clip.target /\ w.clip.lots = s.clip.lots
    /\ w.clip["A"] = s.clip["A"] /\ w.clip["B"] = s.clip["B"] /\ w.clip.filled = gap

LEMMA ClaimsOutcome ==
    ASSUME NEW s, Good(s), ClipOK(s), s.clip # Idle, NEW leg \in Leg,
           NEW r, LegRetired(s, r, leg), r.gap > 0,
           NEW id, id = s.clip[leg], NEW gap, gap = r.gap,
           NEW w, w = Claims(r.st, id, gap)
    PROVE  Claimed(s, r.st, w, gap)
<1> DEFINE c == s.clip
           v == r.st
           d == [c EXCEPT !.maker = id, !.filled = gap]
<1>1. /\ c.dir \in {-1, 1} /\ LegOK(s, "A") /\ LegOK(s, "B") /\ c \in Clip /\ c["A"] = c.A /\ c["B"] = c.B
      /\ Working(s) \subseteq {c.A, c.B} /\ c.target \in Nat /\ c.A \in Nat /\ c.B \in Nat
  BY ClipLegs, ClipType
<1>2. /\ c.dir # 0 /\ c.target >= 1 /\ (c.mode \in {"dual", "soloB"} => HedgeRatio = 1)
  BY DEF ClipOK
<1>3. /\ Good(v) /\ Evolve(s, v) /\ Calm(s, v) /\ v.clip = c /\ Working(v) \subseteq Working(s)
      /\ gap \in Nat \ {0} /\ id \in DOMAIN s.own /\ gap =< v.own[id].folded
      /\ Net(v) = Net(s) + LegWorth(s, leg, gap) /\ Net(s) \in Int
  BY GoodType, NetType DEF LegRetired, Retired, LegWorth
<1>4. id \in {c.A, c.B} /\ id # 0 /\ id \in Nat
  BY <1>1, <1>3, GoodType DEF Leg
<1>5. /\ d \in Clip /\ d # Idle /\ d.dir = c.dir /\ d.target = c.target /\ d.mode = c.mode /\ d.lots = c.lots
      /\ d.A = c.A /\ d.B = c.B /\ d["A"] = c.A /\ d["B"] = c.B
      /\ d.maker = id /\ d.filled = gap
  <2>1. id \in Nat /\ gap \in Nat /\ id # 0
    BY <1>3, <1>4
  <2> HIDE DEF c
  <2>2. /\ d \in Clip /\ d.dir = c.dir /\ d.target = c.target /\ d.mode = c.mode /\ d.lots = c.lots
        /\ d.A = c.A /\ d.B = c.B /\ d["A"] = c["A"] /\ d["B"] = c["B"]
        /\ d.maker = id /\ d.filled = gap
    BY <1>1, <2>1 DEF Clip
  <2> HIDE DEF d
  <2>3. d # Idle
    BY <2>1, <2>2 DEF Idle
  <2> QED
    BY <1>1, <2>2, <2>3
<1>6. w = [v EXCEPT !.clip = d]
  <2>1. v \in State
    BY <1>3, GoodType
  <2> QED
    BY <1>1, <1>3, <2>1 DEF State, Clip, Claims
<1> HIDE DEF d
<1>7. /\ Good(w) /\ Evolve(v, w) /\ Working(w) = Working(v) /\ Net(w) = Net(v)
      /\ w.clip = d /\ w.own = v.own
  <2> DEFINE x == [v EXCEPT !.clip = d]
  <2>1. /\ Good(x) /\ Evolve(v, x) /\ Working(x) = Working(v) /\ Net(x) = Net(v)
        /\ x.clip = d /\ x.own = v.own
    <3> HIDE DEF v
    <3> QED
      BY <1>3, <1>5, SetClipFields
  <2> QED
    BY <1>6, <2>1
<1>8. Filling(w)
  <2>1. LegOK(v, "A") /\ LegOK(v, "B")
    BY <1>1, <1>3, LegKept
  <2>2. LegOK(w, "A") /\ LegOK(w, "B")
    <3>1. v.clip.dir = d.dir /\ v.clip.target = d.target /\ v.clip["A"] = d["A"] /\ v.clip["B"] = d["B"]
      BY <1>1, <1>3, <1>5
    <3> HIDE DEF v, c
    <3> QED
      BY <1>7, <2>1, <3>1 DEF LegOK
  <2>3. Working(w) \subseteq {d.A, d.B}
    BY <1>1, <1>3, <1>5, <1>7
  <2> QED
    BY <1>2, <1>3, <1>4, <1>5, <1>7, <2>2, <2>3 DEF Filling
<1>9. w.orders = v.orders /\ w.sink = v.sink /\ w.book = v.book /\ w.rec = v.rec
  <2>1. v \in State
    BY <1>3, GoodType
  <2> QED
    BY <1>6, <2>1 DEF State
<1> QED
  BY <1>1, <1>5, <1>7, <1>8, <1>9 DEF Claimed

(* The cancel of a re-pegged leg caught a fill: the clip completes. *)
LEMMA CaughtOutcome ==
    ASSUME NEW s, Good(s), ClipOK(s), ~s.rec.halted, s.clip # Idle, s.clip.maker = 0, NEW leg \in Leg,
           NEW r, LegRetired(s, r, leg), r.gap > 0,
           NEW id, id = s.clip[leg], NEW gap, gap = r.gap,
           NEW w, w = Claims(r.st, id, gap),
           NEW realA, realA = IF leg = "A" THEN gap ELSE 0,
           NEW realB, realB = IF leg = "B" THEN gap ELSE 0,
           NEW u \in SettleClip(w, realA, realB, TRUE), NEW t \in CommitClip(u)
    PROVE  Handled(s, t)
<1> DEFINE v == r.st
<1>1. Claimed(s, v, w, gap)
  BY ClaimsOutcome
<1>3. /\ Good(v) /\ Evolve(s, v) /\ gap \in Nat \ {0}
      /\ Net(v) = Net(s) + LegWorth(s, leg, gap) /\ Net(s) \in Int
  BY GoodType, NetType DEF LegRetired, Retired, LegWorth
<1>7. Good(w) /\ Evolve(v, w) /\ Net(w) = Net(v) /\ w.clip.dir = s.clip.dir
  BY <1>1 DEF Claimed
<1>8. Filling(w)
  BY <1>1 DEF Claimed
<1>9. ClipSettled(w, u, realA, realB)
  <2>1. w.clip.dir \in {-1, 1} /\ LegOK(w, "A") /\ LegOK(w, "B") /\ Working(w) \subseteq {w.clip.A, w.clip.B}
    BY <1>7, <1>8, FillingType
  <2>2. realA \in Nat /\ realB \in Nat /\ TRUE \in BOOLEAN
    BY <1>3
  <2> QED
    BY <1>7, <2>1, <2>2, SettleClipOutcome
<1>10. /\ Calm(w, u) /\ Good(u) /\ Evolve(w, u) /\ u.clip = w.clip /\ Working(u) = {}
  BY <1>9 DEF ClipSettled, Calm
<1>11. ClipOK(u)
  BY <1>7, <1>8, <1>10, FillingKept
<1>12. Evolve(s, u)
  BY <1>3, <1>7, <1>10, EvolveTrans
<1>13. ~s.rec.halted => Net(u) = Net(s)
  <2>1. ClipWorth(w, gap) = ClipWorth(s, gap) /\ ClipWorth(w, gap) \in Int /\ ClipWorth(w, 0) = 0
    <3>1. gap \in Int
      BY <1>3
    <3> QED
      BY <1>7, <3>1, WorthType, WorthZero DEF ClipWorth
  <2>2. Net(u) = Net(w) - ClipWorth(w, realA) + ClipWorth(w, realB)
    BY <1>3, <1>7, <1>9 DEF ClipSettled, Evolve
  <2>3. CASE leg = "A"
    <3>1. LegWorth(s, leg, gap) = ClipWorth(s, gap) /\ realA = gap /\ realB = 0
      BY <2>3 DEF LegWorth
    <3>2. Net(w) = Net(s) + ClipWorth(s, gap)
      BY <1>3, <1>7, <2>1, <3>1
    <3>3. realA = gap /\ realB = 0
      BY <3>1
    <3>4. Net(u) = Net(w) - ClipWorth(w, gap) + ClipWorth(w, 0)
      BY <2>2, <3>3, Zenon
    <3> QED
      BY <1>3, <2>1, <3>2, <3>4
  <2>4. CASE leg = "B"
    <3>1. LegWorth(s, leg, gap) = -ClipWorth(s, gap) /\ realA = 0 /\ realB = gap
      BY <2>4 DEF LegWorth
    <3>2. Net(w) = Net(s) - ClipWorth(s, gap)
      BY <1>3, <1>7, <2>1, <3>1
    <3>3. realA = 0 /\ realB = gap
      BY <3>1
    <3>4. Net(u) = Net(w) - ClipWorth(w, 0) + ClipWorth(w, gap)
      BY <2>2, <3>3, Zenon
    <3> QED
      BY <1>3, <2>1, <3>2, <3>4
  <2> QED
    BY <2>3, <2>4 DEF Leg
<1>14. Handled(u, t)
  BY <1>10, <1>11, CommitClipOutcome
<1> QED
  BY <1>10, <1>12, <1>13, <1>14, HandledTrans

LEMMA RepegLegOutcome ==
    ASSUME NEW s, Good(s), ClipOK(s), NEW leg \in Leg, Repeggable(s, leg), NEW t \in RepegLeg(s, leg)
    PROVE  Handled(s, t)
<1> DEFINE c == s.clip
           x == [s EXCEPT !.moves = @ - 1]
           realA(gap) == IF leg = "A" THEN gap ELSE 0
           realB(gap) == IF leg = "B" THEN gap ELSE 0
           Marked(v, gap) == Claims(v, c[leg], gap)
           Caught(v, gap) == UNION {CommitClip(u) : u \in SettleClip(Marked(v, gap), realA(gap), realB(gap), TRUE)}
           Next1(r) == CASE r.gap > 0 -> Caught(r.st, r.gap)
                         [] r.gap = 0 /\ r.st.rec.impaired -> {r.st}
                         [] r.gap = 0 /\ ~r.st.rec.impaired -> PostRepegged(r.st, leg)
<1>1. RepegLeg(s, leg) = UNION {Next1(r) : r \in RetireOrder(x, c[leg])}
  BY Zenon DEF RepegLeg, After, Claims
<1>2. PICK r \in RetireOrder(x, c[leg]) : t \in Next1(r)
  <2> HIDE DEF Next1, x
  <2> QED
    BY <1>1
<1>3. s.rec.halted = FALSE /\ c # Idle /\ c.maker = 0 /\ s.moves > 0 /\ (leg = "B" => HedgeRatio = 1)
  <2>1. ~s.rec.halted /\ c # Idle /\ c.maker = 0 /\ s.moves > 0
    BY DEF Repeggable
  <2>2. leg = "B" => c.mode \in {"dual", "soloB"}
    BY DEF Repeggable
  <2>3. leg = "B" => HedgeRatio = 1
    BY <2>1, <2>2 DEF ClipOK
  <2>4. s.rec.halted \in BOOLEAN
    BY GoodType, MachineType
  <2> QED
    BY <2>1, <2>3, <2>4
<1>4. Aside(s, x, {}) /\ Net(x) = Net(s) /\ x.clip = c /\ x.rec = s.rec /\ x.own = s.own
  BY <1>3, SpentMoveFields
<1> HIDE DEF x
<1>5. Good(x) /\ ClipOK(x) /\ Evolve(s, x) /\ x.rec.halted = FALSE
  BY <1>3, <1>4, AsideCalm, ClipKept DEF Calm
<1>6. LegRetired(x, r, leg)
  <2>1. x.clip.dir \in {-1, 1} /\ LegOK(x, leg)
    BY <1>3, <1>4, <1>5, ClipLegs DEF Leg
  <2>2. r \in RetireOrder(x, x.clip[leg])
    BY <1>2, <1>4
  <2> QED
    BY <1>5, <2>1, <2>2, RetireLegOutcome
<1> DEFINE v == r.st
           gap == r.gap
<1>7. Calm(x, v) /\ Good(v) /\ Evolve(x, v) /\ v.clip = c /\ gap \in Nat /\ c[leg] \notin Working(v)
  BY <1>4, <1>6 DEF LegRetired, Retired
<1>8. ClipOK(v)
  BY <1>5, <1>7, ClipKept
<1>9. gap = 0 => Net(v) = Net(x)
  <2> SUFFICES ASSUME gap = 0 PROVE Net(v) = Net(x)
    OBVIOUS
  <2>1. ClipWorth(x, gap) = 0 /\ Net(x) \in Int
    BY <1>5, NetType, GoodType, WorthZero DEF ClipWorth
  <2> QED
    BY <1>6, <2>1 DEF LegRetired
<1>10. Handled(x, t)
  <2>1. CASE gap > 0
    <3>1. t \in Caught(v, gap)
      <4> HIDE DEF Caught
      <4> QED
        BY <1>2, <1>7, <2>1
    <3> DEFINE w == Marked(v, gap)
               rA == realA(gap)
               rB == realB(gap)
               id == c[leg]
    <3>2. PICK u \in SettleClip(w, rA, rB, TRUE) : t \in CommitClip(u)
      <4> HIDE DEF w, rA, rB
      <4> QED
        BY <3>1 DEF w, rA, rB
    <3>3. /\ w = Claims(r.st, id, gap) /\ id = x.clip[leg]
          /\ rA = IF leg = "A" THEN gap ELSE 0
          /\ rB = IF leg = "B" THEN gap ELSE 0
      BY <1>4
    <3>4. x.clip # Idle /\ x.clip.maker = 0 /\ ~x.rec.halted /\ r.gap > 0 /\ gap = r.gap
      BY <1>3, <1>4, <1>5, <2>1
    <3> HIDE DEF w, rA, rB, id, gap
    <3> QED
      BY <1>5, <1>6, <3>2, <3>3, <3>4, CaughtOutcome
  <2>2. CASE gap = 0 /\ v.rec.impaired
    <3>1. t = v
      <4> HIDE DEF Caught
      <4> QED
        BY <1>2, <1>7, <2>2
    <3>2. Quiet(x, v)
      BY <1>7, <1>9, <2>2 DEF Quiet
    <3> QED
      BY <1>5, <3>1, <3>2, QuietHandled
  <2>3. CASE gap = 0 /\ ~v.rec.impaired
    <3>1. t \in PostRepegged(v, leg)
      <4> HIDE DEF Caught
      <4> QED
        BY <1>2, <1>7, <2>3
    <3>2. ~v.rec.halted
      BY <1>5, <1>7 DEF Evolve
    <3> HIDE DEF v
    <3>3. Handled(v, t)
      BY <1>3, <1>7, <1>8, <3>1, <3>2, PostRepeggedOutcome
    <3> QED
      BY <1>5, <1>7, <1>9, <2>3, <3>3, HandledTrans
  <2> QED
    BY <1>7, <2>1, <2>2, <2>3
<1> QED
  BY <1>4, <1>5, <1>10, HandledTrans

-----------------------------------------------------------------------------
(* Steps of the broker. *)

LEMMA KilledOrder ==
    ASSUME NEW o \in OrderType, OrderOK(o), "kill" \in FaultKinds, NEW p, p = [o EXCEPT !.live = FALSE]
    PROVE  /\ p \in OrderType /\ OrderOK(p) /\ p.sent = o.sent
           /\ \A a \in Acct : AcctOK(a, o) => AcctOK(a, p)
<1>1. /\ p \in OrderType /\ p.exec = o.exec /\ p.live = FALSE /\ p.size = o.size /\ p.sent = o.sent
  BY DEF OrderType
<1>2. OrderOK(p)
  BY <1>1 DEF OrderOK
<1>3. ASSUME NEW a \in Acct, AcctOK(a, o) PROVE AcctOK(a, p)
  BY <1>1, <1>3 DEF AcctOK
<1> QED
  BY <1>1, <1>2, <1>3

LEMMA SentOrder ==
    ASSUME NEW o \in OrderType, OrderOK(o), NEW n \in Nat \ {0}, o.sent + n =< o.exec,
           NEW p, p = [o EXCEPT !.sent = @ + n]
    PROVE  /\ p \in OrderType /\ OrderOK(p) /\ p.sent = o.sent + n
           /\ \A a \in Acct : AcctOK(a, o) => AcctOK(a, p)
<1> DEFINE x == o.sent + n
<1>1. /\ o.exec \in Nat /\ o.size \in Nat /\ o.sent \in Nat /\ x \in Nat /\ x =< o.exec /\ o.sent =< x
      /\ o.exec =< o.size
  BY OrderFields DEF OrderOK
<1>2. p = [o EXCEPT !.sent = x]
  OBVIOUS
<1> HIDE DEF x
<1>3. /\ p \in OrderType /\ p.exec = o.exec /\ p.live = o.live /\ p.size = o.size /\ p.sent = x
  BY <1>1, <1>2 DEF OrderType
<1>4. OrderOK(p)
  BY <1>1, <1>3 DEF OrderOK
<1>5. ASSUME NEW a \in Acct, AcctOK(a, o) PROVE AcctOK(a, p)
  <2>1. a.seen \in Nat
    BY DEF Acct
  <2>2. "dup" \notin FaultKinds => a.seen =< p.sent
    BY <1>1, <1>3, <1>5, <2>1 DEF AcctOK
  <2> QED
    BY <1>3, <1>5, <2>2 DEF AcctOK
<1> QED
  BY <1>3, <1>4, <1>5 DEF x

LEMMA ToldOrder ==
    ASSUME NEW o \in OrderType, OrderOK(o), NEW p, p = [o EXCEPT !.told = TRUE]
    PROVE  /\ p \in OrderType /\ OrderOK(p) /\ p.live = o.live /\ p.sent = o.sent
           /\ \A a \in Acct : AcctOK(a, o) => AcctOK(a, p)
<1>1. /\ p \in OrderType /\ p.exec = o.exec /\ p.live = o.live /\ p.size = o.size /\ p.sent = o.sent
  BY DEF OrderType
<1>2. OrderOK(p)
  BY <1>1 DEF OrderOK
<1>3. ASSUME NEW a \in Acct, AcctOK(a, o) PROVE AcctOK(a, p)
  BY <1>1, <1>3 DEF AcctOK
<1> QED
  BY <1>1, <1>2, <1>3

-----------------------------------------------------------------------------
(* The inductive invariant and the steps. *)

(* No fill the broker tells of is lost on a tracked order.                 *)
Caught(s) ==
    "dup" \notin FaultKinds => \A id \in DOMAIN s.own : s.own[id].seen >= s.orders[id].sent

(* Every account agrees with its order, the accounts add up to the sink,   *)
(* every unsettled order has an owner that will ask about it, the legs of  *)
(* the clip are makers of its size, and nothing rests but for the clip.    *)
Inv ==
    /\ decider \in Deciders /\ moves =< decider.moves
    /\ Good(Now) /\ ClipOK(Now) /\ Caught(Now)

(* The broker names every order it takes, its cancels are final and it     *)
(* repeats no fill event.                                                  *)
Truthful == {"ghost", "blind", "dup", "async"} \cap FaultKinds = {}

(* The lots a taker inside its confirm window may still execute.           *)
Awaited(s, id) ==
    IF id \in s.pending /\ ~s.own[id].overdue THEN s.own[id].placed - s.orders[id].exec ELSE 0

(* Every account is credited with what its order executed, and with what   *)
(* it awaits.                                                              *)
Vouched(s) ==
    \A id \in DOMAIN s.own : s.own[id].credited = s.orders[id].exec + Awaited(s, id)

(* What any step does. *)
Stepped(s, t) ==
    /\ Truthful /\ s.clip = Idle /\ t.clip # Idle => Vouched(t)
    /\ Good(t) /\ ClipOK(t) /\ t.moves =< s.moves
    /\ s.rec.halted => Len(t.orders) = Len(s.orders)
    /\ TerminalAcksHold /\ ~t.rec.halted => ~s.rec.halted /\ Net(t) = Net(s)
    /\ Caught(s) => Caught(t)

(* Past OnState's gates nothing is unaccounted for: no retire is queued,   *)
(* nothing rests, and no taker is overdue.                                 *)
LEMMA GatesVouch ==
    ASSUME NEW s, Truthful, Good(s), ClipOK(s), s.clip = Idle,
           ~s.rec.halted, ~s.rec.impaired, ~AwaitingTaker(s)
    PROVE  Vouched(s)
<1> SUFFICES ASSUME NEW id \in DOMAIN s.own
             PROVE  s.own[id].credited = s.orders[id].exec + Awaited(s, id)
  BY DEF Vouched
<1> DEFINE a == s.own[id]
           o == s.orders[id]
<1>1. a \in Acct /\ o \in OrderType /\ OrderOK(o) /\ AcctOK(a, o)
  BY GoodType
<1>2. /\ a.maker \in BOOLEAN /\ a.placed \in Nat /\ a.seen \in Nat /\ a.credited \in Nat
      /\ a.final \in Int /\ a.overdue \in BOOLEAN /\ a.deferred \in BOOLEAN
      /\ o.exec \in Nat /\ o.sent \in Nat /\ o.size \in Nat
  BY <1>1, OrderFields DEF Acct
<1>3. "dup" \notin FaultKinds /\ "async" \notin FaultKinds
  BY DEF Truthful
<1>4. a.seen =< o.exec /\ o.exec =< a.placed
  BY <1>1, <1>2, <1>3 DEF AcctOK, OrderOK
<1>5. CASE a.final >= 0
  <2>1. id \notin s.pending
    BY <1>2, <1>5 DEF Good
  <2>2. a.final = o.exec /\ a.credited = Max2(a.final, a.seen)
    BY <1>1, <1>2, <1>3, <1>5 DEF AcctOK
  <2> QED
    BY <1>2, <1>4, <2>1, <2>2 DEF Awaited, Max2
<1>6. CASE a.final < 0 /\ ~a.maker
  <2>1. id \in s.pending /\ a.credited = a.placed
    BY <1>1, <1>2, <1>6 DEF Good, AcctOK
  <2>2. CASE a.overdue
    <3>1. Confirmed(a)
      BY <2>1, <2>2 DEF AwaitingTaker
    <3>2. o.exec = a.placed
      BY <1>2, <1>4, <1>6, <3>1 DEF Confirmed
    <3> QED
      BY <1>2, <2>1, <2>2, <3>2 DEF Awaited
  <2>3. CASE ~a.overdue
    BY <1>2, <2>1, <2>3 DEF Awaited
  <2> QED
    BY <2>2, <2>3
<1>7. CASE a.final < 0 /\ a.maker
  <2>1. a.deferred
    BY <1>2, <1>7 DEF ClipOK, Working
  <2>2. s.rec.retireQ = <<>>
    BY DEF Good
  <2>3. PICK i \in 1..Len(s.rec.retireQ) : s.rec.retireQ[i] = id
    BY <2>1 DEF Good, Deferred
  <2> QED
    BY <2>2, <2>3
<1> QED
  BY <1>2, <1>5, <1>6, <1>7

(* Makers that come to rest leave the accounts as true as they were. *)
LEMMA AddsVouched ==
    ASSUME NEW s, NEW t, Good(s), Good(t), Vouched(s), Adds(s, t)
    PROVE  Vouched(t)
<1> SUFFICES ASSUME NEW id \in DOMAIN t.own
             PROVE  t.own[id].credited = t.orders[id].exec + Awaited(t, id)
  BY DEF Vouched
<1>1. CASE id \in DOMAIN s.own
  <2>1. t.own[id] = s.own[id] /\ t.orders[id] = s.orders[id]
    BY <1>1 DEF Adds
  <2>2. id \in t.pending <=> id \in s.pending
    BY <1>1, <2>1 DEF Good
  <2> QED
    BY <1>1, <2>1, <2>2 DEF Vouched, Awaited
<1>2. CASE id \notin DOMAIN s.own
  <2>1. t.own[id].maker /\ t.own[id].credited = 0 /\ t.orders[id].exec = 0
    BY <1>2 DEF Adds
  <2>2. id \notin t.pending
    BY <2>1 DEF Good
  <2> QED
    BY <2>1, <2>2 DEF Awaited
<1> QED
  BY <1>1, <1>2

LEMMA CaughtKept ==
    ASSUME NEW s, NEW t, Good(s), Good(t), Evolve(s, t), Caught(s)
    PROVE  Caught(t)
<1> SUFFICES ASSUME "dup" \notin FaultKinds, NEW id \in DOMAIN t.own
             PROVE  t.own[id].seen >= t.orders[id].sent
  BY DEF Caught
<1>1. t.own[id].seen \in Nat /\ t.orders[id].sent \in Nat
  BY GoodType DEF Acct, OrderType
<1>2. CASE id \in DOMAIN s.own
  <2>1. s.own[id].seen \in Nat /\ s.orders[id].sent \in Nat /\ s.own[id].seen >= s.orders[id].sent
    BY <1>2, GoodType DEF Acct, OrderType, Caught
  <2>2. s.own[id].seen =< t.own[id].seen /\ t.orders[id].sent = s.orders[id].sent
    BY <1>2 DEF Evolve
  <2> QED
    BY <1>1, <2>1, <2>2
<1>3. CASE id \notin DOMAIN s.own
  <2>1. t.orders[id].sent = 0
    BY <1>3 DEF Evolve
  <2> QED
    BY <1>1, <2>1
<1> QED
  BY <1>2, <1>3

LEMMA NowFields ==
    /\ Now.own = own /\ Now.pending = pending /\ Now.clip = clip /\ Now.sink = sink
    /\ Now.book = book /\ Now.rec = rec /\ Now.orders = orders /\ Now.faults = faults
    /\ Now.moves = moves
BY DEF Now

LEMMA Becomes ==
    ASSUME NEW t, t \in State, Become(t)
    PROVE  Now' = t /\ decider' = decider
BY DEF Become, Now, State

(* A handler that starts from s, one call or one delivery after Now. *)
LEMMA Advance ==
    ASSUME Inv, NEW s, Handled(Now, s), NEW t, Streamed(s, t), Become(t),
           Truthful /\ Now.clip = Idle /\ t.clip # Idle => Vouched(t)
    PROVE  Stepped(Now, Now') /\ decider' = decider
<1>1. Good(Now) /\ Good(s) /\ Good(t) /\ ClipOK(t) /\ Evolve(Now, s) /\ Evolve(s, t)
  BY DEF Inv, Handled, Streamed
<1>2. Evolve(Now, t)
  BY <1>1, EvolveTrans
<1>3. Now' = t /\ decider' = decider
  BY <1>1, GoodType, Becomes
<1>4. TerminalAcksHold /\ ~t.rec.halted => ~Now.rec.halted /\ Net(t) = Net(Now)
  BY <1>1, <1>2 DEF Handled, Streamed, Evolve
<1>6. Caught(Now) => Caught(t)
  BY <1>1, <1>2, CaughtKept
<1>5. Stepped(Now, t)
  BY <1>1, <1>2, <1>4, <1>6 DEF Stepped, Evolve
<1> QED
  BY <1>3, <1>5

LEMMA SelfHandled == ASSUME Inv PROVE Handled(Now, Now)
BY HandledSelf DEF Inv

LEMMA IdsAre == ASSUME Inv PROVE /\ Ids = 1..Len(Now.orders) /\ Len(Now.orders) \in Nat
                                 /\ \A id \in Ids : orders[id] \in OrderType /\ OrderOK(orders[id])
                                 /\ \A id \in DOMAIN own : own[id] \in Acct /\ AcctOK(own[id], orders[id])
<1>1. Good(Now)
  BY DEF Inv
<1>2. Now.orders \in Seq(OrderType) /\ Len(Now.orders) \in Nat /\ \A id \in DOMAIN Now.own : Now.own[id] \in Acct
  BY <1>1, GoodType
<1>3. Ids = 1..Len(Now.orders)
  BY <1>2, NowFields DEF Ids
<1>4. \A id \in 1..Len(Now.orders) : Now.orders[id] \in OrderType
  BY <1>2
<1>5. /\ \A id \in 1..Len(Now.orders) : OrderOK(Now.orders[id])
      /\ \A id \in DOMAIN Now.own : AcctOK(Now.own[id], Now.orders[id])
  BY <1>1 DEF Good
<1> QED
  BY <1>2, <1>3, <1>4, <1>5, NowFields

(* An order that moves on, whatever is made of it. *)
LEMMA MovedOn ==
    ASSUME Inv, NEW id \in Ids, NEW p \in OrderType, OrderOK(p),
           \A a \in Acct : AcctOK(a, orders[id]) => AcctOK(a, p),
           NEW s, s = Moved(Now, id, p)
    PROVE  /\ Good(s) /\ ClipOK(s) /\ s.own = own /\ s.orders[id] = p
           /\ \A j \in Ids \ {id} : s.orders[j] = orders[j]
           /\ Len(s.orders) = Len(Now.orders) /\ Net(s) = Net(Now)
           /\ s.rec = Now.rec /\ s.moves = Now.moves /\ s.faults = faults
           /\ s.clip = Now.clip
           /\ p.sent = orders[id].sent => Handled(Now, s)
<1>1. Good(Now) /\ ClipOK(Now) /\ id \in 1..Len(Now.orders)
  BY IdsAre DEF Inv
<1>2. id \in DOMAIN Now.own => AcctOK(Now.own[id], p)
  BY IdsAre, NowFields
<1>3. /\ Good(s) /\ s.own = Now.own /\ s.orders[id] = p /\ s.faults = Now.faults
      /\ s.clip = Now.clip /\ ClipOK(s) /\ s.rec = Now.rec /\ s.moves = Now.moves
      /\ \A j \in 1..Len(Now.orders) \ {id} : s.orders[j] = Now.orders[j]
      /\ Len(s.orders) = Len(Now.orders) /\ Net(s) = Net(Now)
      /\ p.sent = Now.orders[id].sent => Quiet(Now, s)
  BY <1>1, <1>2, MovedOutcome
<1>4. p.sent = Now.orders[id].sent => Handled(Now, s)
  BY <1>1, <1>3, QuietHandled
<1> QED
  BY <1>3, <1>4, IdsAre, NowFields

LEMMA BrokerFillStep ==
    ASSUME Inv, NEW id \in Ids, NEW n \in Nat \ {0}, BrokerFill(id, n)
    PROVE  Stepped(Now, Now') /\ decider' = decider
<1> DEFINE o == orders[id]
           p == [o EXCEPT !.exec = @ + n, !.live = o.exec + n < o.size]
           s == Moved(Now, id, p)
<1>1. o.live = TRUE /\ o.exec + n =< o.size /\ o \in OrderType /\ OrderOK(o)
  BY IdsAre, OrderFields DEF BrokerFill
<1>2. /\ p \in OrderType /\ OrderOK(p) /\ p.sent = o.sent
      /\ \A a \in Acct : AcctOK(a, o) => AcctOK(a, p)
  <2> HIDE DEF o
  <2> QED
    BY <1>1, ExecutedOrder
<1>3. Become(s)
  BY ZenonT(40) DEF BrokerFill, BrokerStep, Execute, Moved, Now
<1> HIDE DEF p
<1>4. s = Moved(Now, id, p)
  OBVIOUS
<1> HIDE DEF s
<1>5. Handled(Now, s) /\ Good(s) /\ ClipOK(s) /\ s.clip = Now.clip
  BY <1>2, <1>4, MovedOn
<1>6. Streamed(s, s)
  BY <1>5, HandledSelf, HandledStreamed
<1> QED
  BY <1>3, <1>5, <1>6, Advance

LEMMA BrokerKillStep ==
    ASSUME Inv, NEW id \in Ids, BrokerKill(id)
    PROVE  Stepped(Now, Now') /\ decider' = decider
<1> DEFINE o == orders[id]
           p == [o EXCEPT !.live = FALSE]
           s == Moved(Now, id, p)
           t == [s EXCEPT !.faults = @ - 1]
<1>1. "kill" \in FaultKinds /\ faults > 0 /\ o \in OrderType /\ OrderOK(o)
  BY IdsAre, NowFields DEF BrokerKill, Fault
<1>2. /\ p \in OrderType /\ OrderOK(p) /\ p.sent = o.sent
      /\ \A a \in Acct : AcctOK(a, o) => AcctOK(a, p)
  <2> HIDE DEF o
  <2> QED
    BY <1>1, KilledOrder
<1>3. Become(t)
  BY DEF BrokerKill, BrokerStep, Moved, Now
<1> HIDE DEF p
<1>4. s = Moved(Now, id, p)
  OBVIOUS
<1> HIDE DEF s
<1>5. Handled(Now, s) /\ Good(s) /\ ClipOK(s) /\ s.faults = faults /\ s.clip = Now.clip
  BY <1>2, <1>4, MovedOn
<1>6. Streamed(s, t) /\ t.clip = s.clip
  <2>1. Aside(s, t, {}) /\ Net(t) = Net(s)
    BY <1>1, <1>5, SpentFields
  <2> HIDE DEF t
  <2>2. Quiet(s, t)
    BY <2>1, AsideQuiet
  <2> QED
    BY <1>5, <2>2, QuietHandled, HandledStreamed DEF Quiet, Calm
<1> HIDE DEF t
<1> QED
  BY <1>3, <1>5, <1>6, Advance

LEMMA DeliverFillStep ==
    ASSUME Inv, NEW id \in Ids, NEW n \in Nat \ {0}, DeliverFill(id, n)
    PROVE  Stepped(Now, Now') /\ decider' = decider
<1> DEFINE o == orders[id]
           p == [o EXCEPT !.sent = @ + n]
           s == Moved(Now, id, p)
<1>1. o.sent + n =< o.exec /\ o \in OrderType /\ OrderOK(o)
  BY IdsAre DEF DeliverFill
<1>2. /\ p \in OrderType /\ OrderOK(p) /\ p.sent = o.sent + n
      /\ \A a \in Acct : AcctOK(a, o) => AcctOK(a, p)
  <2> HIDE DEF o
  <2> QED
    BY <1>1, SentOrder
<1>3. PICK t \in OnFill(s, id, n) : Become(t)
  <2>1. [Now EXCEPT !.orders[id].sent = @ + n] = s
    BY DEF Now, Moved
  <2> QED
    BY <2>1 DEF DeliverFill, EngineStep
<1> HIDE DEF p
<1>4. s = Moved(Now, id, p)
  OBVIOUS
<1> HIDE DEF s
<1>5. /\ Good(s) /\ ClipOK(s) /\ s.own = own /\ s.orders[id] = p
      /\ \A j \in Ids \ {id} : s.orders[j] = orders[j]
      /\ Len(s.orders) = Len(Now.orders) /\ Net(s) = Net(Now) /\ s.rec = Now.rec /\ s.moves = Now.moves
      /\ s.clip = Now.clip
  BY <1>2, <1>4, MovedOn
<1>6. id \in DOMAIN s.own /\ "dup" \notin FaultKinds => s.own[id].seen + n =< s.orders[id].sent
  <2> SUFFICES ASSUME id \in DOMAIN own, "dup" \notin FaultKinds PROVE own[id].seen + n =< p.sent
    BY <1>5
  <2>1. own[id] \in Acct /\ AcctOK(own[id], o)
    BY IdsAre
  <2>2. own[id].seen =< o.sent /\ own[id].seen \in Nat /\ o.sent \in Nat
    BY <1>1, <2>1, OrderFields DEF AcctOK, Acct
  <2> QED
    BY <1>2, <2>2
<1>7. /\ Good(t) /\ ClipOK(t) /\ Evolve(s, t) /\ (s.clip = Idle => t.clip = Idle)
      /\ TerminalAcksHold /\ ~s.rec.halted => Net(t) = Net(s)
      /\ id \in DOMAIN s.own /\ "dup" \notin FaultKinds => s.own[id].seen + n =< t.own[id].seen
  BY <1>3, <1>5, <1>6, OnFillOutcome DEF Streamed
<1>8. Now' = t /\ decider' = decider
  BY <1>3, <1>7, GoodType, Becomes
<1>9. Caught(Now) => Caught(t)
  <2> SUFFICES ASSUME Caught(Now), "dup" \notin FaultKinds, NEW j \in DOMAIN t.own
               PROVE  t.own[j].seen >= t.orders[j].sent
    BY DEF Caught
  <2>1. t.own[j].seen \in Nat /\ t.orders[j].sent \in Nat
    BY <1>7, GoodType DEF Acct, OrderType
  <2>2. CASE j \notin DOMAIN s.own
    <3>1. t.orders[j].sent = 0
      BY <1>7, <2>2 DEF Evolve
    <3> QED
      BY <2>1, <3>1
  <2>3. CASE j \in DOMAIN s.own
    <3>1. /\ s.own[j].seen \in Nat /\ s.own[j] = own[j] /\ j \in DOMAIN own
          /\ s.own[j].seen =< t.own[j].seen /\ t.orders[j].sent = s.orders[j].sent
      BY <1>5, <1>7, <2>3, GoodType DEF Acct, Evolve
    <3>2. own[j].seen >= orders[j].sent /\ j \in Ids /\ orders[j].sent \in Nat
      <4>1. own[j].seen >= orders[j].sent
        BY <3>1, NowFields DEF Caught
      <4>2. Good(Now)
        BY DEF Inv
      <4>3. j \in 1..Len(Now.orders)
        BY <3>1, <4>2, GoodType, NowFields
      <4>4. j \in Ids /\ orders[j] \in OrderType
        BY <4>3, IdsAre
      <4> QED
        BY <4>1, <4>4, OrderFields
    <3>3. CASE j = id
      <4>1. own[j].seen + n =< t.own[j].seen /\ t.orders[j].sent = orders[j].sent + n
        BY <1>2, <1>5, <1>7, <2>3, <3>1, <3>3
      <4> QED
        BY <2>1, <3>1, <3>2, <4>1
    <3>4. CASE j # id
      <4>1. t.orders[j].sent = orders[j].sent
        BY <1>5, <3>1, <3>2, <3>4
      <4> QED
        BY <2>1, <3>1, <3>2, <4>1
    <3> QED
      BY <3>3, <3>4
  <2> QED
    BY <2>2, <2>3
<1>10. Stepped(Now, t)
  BY <1>5, <1>7, <1>9 DEF Stepped, Evolve
<1> QED
  BY <1>8, <1>10

LEMMA RedeliverFillStep ==
    ASSUME Inv, NEW id \in Ids, NEW n \in Nat \ {0}, RedeliverFill(id, n)
    PROVE  Stepped(Now, Now') /\ decider' = decider
<1> DEFINE s == [Now EXCEPT !.faults = @ - 1]
<1>1. "dup" \in FaultKinds /\ Now.faults > 0 /\ Good(Now) /\ ClipOK(Now)
  BY DEF RedeliverFill, Fault, Inv
<1>2. PICK t \in OnFill(s, id, n) : Become(t)
  BY DEF RedeliverFill, EngineStep
<1>3. Aside(Now, s, {}) /\ Net(s) = Net(Now)
  BY <1>1, SpentFields
<1> HIDE DEF s
<1>4. Quiet(Now, s)
  BY <1>3, AsideQuiet
<1>5. Handled(Now, s) /\ s.clip = Now.clip
  BY <1>1, <1>4, QuietHandled DEF Quiet, Calm
<1>6. Good(s) /\ ClipOK(s)
  BY <1>5 DEF Handled
<1>7. Streamed(s, t) /\ (s.clip = Idle => t.clip = Idle)
  BY <1>1, <1>2, <1>6, OnFillOutcome
<1> QED
  BY <1>2, <1>5, <1>7, Advance

LEMMA DeliverDeadStep ==
    ASSUME Inv, NEW id \in Ids, DeliverDead(id)
    PROVE  Stepped(Now, Now') /\ decider' = decider
<1> DEFINE o == orders[id]
           p == [o EXCEPT !.told = TRUE]
           s == Moved(Now, id, p)
<1>1. ~o.live /\ o \in OrderType /\ OrderOK(o)
  BY IdsAre DEF DeliverDead
<1>2. /\ p \in OrderType /\ OrderOK(p) /\ p.live = o.live /\ p.sent = o.sent
      /\ \A a \in Acct : AcctOK(a, o) => AcctOK(a, p)
  <2> HIDE DEF o
  <2> QED
    BY <1>1, ToldOrder
<1>3. PICK t \in OnOrderStatus(s, id) : Become(t)
  <2>1. [Now EXCEPT !.orders[id].told = TRUE] = s
    BY DEF Now, Moved
  <2> QED
    BY <2>1 DEF DeliverDead, EngineStep
<1> HIDE DEF p
<1>4. s = Moved(Now, id, p)
  OBVIOUS
<1> HIDE DEF s
<1>5. Handled(Now, s) /\ Good(s) /\ ClipOK(s) /\ s.orders[id] = p /\ s.clip = Now.clip
  BY <1>2, <1>4, MovedOn
<1>6. Handled(s, t) /\ (s.clip = Idle => t.clip = Idle)
  <2>1. ~s.orders[id].live
    BY <1>1, <1>2, <1>5
  <2> QED
    BY <1>3, <1>5, <2>1, OnOrderStatusOutcome
<1> QED
  BY <1>3, <1>5, <1>6, HandledStreamed, Advance

LEMMA TakerLateStep ==
    ASSUME Inv, NEW id, TakerLate(id)
    PROVE  Stepped(Now, Now') /\ decider' = decider
<1> DEFINE s == [Now EXCEPT !.own[id].overdue = TRUE]
<1>1. id \in Now.pending /\ Good(Now) /\ ClipOK(Now)
  BY NowFields DEF TakerLate, Inv
<1>2. Become(s)
  BY DEF TakerLate, BrokerStep
<1>3. Aside(Now, s, {id}) /\ Net(s) = Net(Now)
  BY <1>1, OverdueFields
<1> HIDE DEF s
<1>4. Quiet(Now, s)
  BY <1>3, AsideQuiet
<1>5. Handled(Now, s) /\ s.clip = Now.clip
  BY <1>1, <1>4, QuietHandled DEF Quiet, Calm
<1>6. Streamed(s, s)
  BY <1>5, HandledSelf, HandledStreamed DEF Handled
<1> QED
  BY <1>2, <1>5, <1>6, Advance

LEMMA HandledOn ==
    ASSUME NEW s, NEW t, NEW u, Good(s), Handled(s, t), Handled(t, u)
    PROVE  Handled(s, u)
BY HandledTrans DEF Handled

(* The housekeeping every call of the runner starts with. *)
LEMMA CheckedOutcome ==
    ASSUME Inv, NEW due \in BOOLEAN, NEW probe \in BOOLEAN,
           NEW s \in ServiceImpaired(Now, due), NEW t \in CheckPendingTakers(s, probe)
    PROVE  Handled(Now, t) /\ (Now.clip = Idle => t.clip = Idle)
<1>1. Handled(Now, s) /\ Good(Now) /\ (Now.clip = Idle => s.clip = Idle)
  BY ServiceImpairedOutcome DEF Inv
<1>2. Good(s) /\ ClipOK(s)
  BY <1>1 DEF Handled
<1>3. Aside(s, t, DOMAIN s.own) /\ (~s.rec.halted => Net(t) = Net(s))
  BY <1>2, CheckPendingTakersOutcome
<1>4. Quiet(s, t)
  BY <1>3, AsideQuiet
<1>5. Handled(s, t) /\ t.clip = s.clip
  BY <1>2, <1>4, QuietHandled DEF Quiet, Calm
<1> QED
  BY <1>1, <1>5, HandledOn

LEMMA WantedType ==
    ASSUME decider \in Deciders, NEW s, NEW i \in Wanted(s)
    PROVE  i \in Intent \cup {Hold}
<1>1. MaxLots \in Nat \ {0} /\ decider.modes \subseteq Mode \cup {"default"}
  <2>1. /\ decider.modes \subseteq Mode \cup {"default"}
        /\ decider.lots \subseteq Nat \ {0}
        /\ \E m \in decider.lots : \A n \in decider.lots : n =< m
    BY DecidersAssumption
  <2>2. \E m \in decider.lots : \A n \in decider.lots : m >= n
    BY <2>1
  <2>3. MaxLots \in decider.lots
    BY <2>2 DEF MaxLots, Max
  <2> QED
    BY <2>1, <2>3
<1>2. CASE i = Hold
  BY <1>2
<1>3. CASE i # Hold
  <2>1. i \in [ dir : {-1, 1}, close : BOOLEAN, lots : 1..MaxLots, mode : decider.modes ]
    BY <1>3, Zenon DEF Wanted
  <2>2. 1..MaxLots \subseteq Nat \ {0}
    BY <1>1
  <2> QED
    BY <1>1, <2>1, <2>2 DEF Intent
<1> QED
  BY <1>2, <1>3

LEMMA OnStateStep ==
    ASSUME Inv, NEW due \in BOOLEAN, NEW probe \in BOOLEAN, OnState(due, probe)
    PROVE  Stepped(Now, Now') /\ decider' = decider
<1> DEFINE Ready == UNION {CheckPendingTakers(s, probe) : s \in ServiceImpaired(Now, due)}
           Decided(s) == UNION {Decide(s, i) : i \in Wanted(s)}
<1>1. ~rec.halted /\ EngineStep(UNION {Decided(s) : s \in Ready})
  BY Zenon DEF OnState, After
<1>2. PICK t \in UNION {Decided(s) : s \in Ready} : Become(t)
  BY <1>1, Zenon DEF EngineStep
<1>3a. PICK s \in Ready : t \in Decided(s)
  <2> HIDE DEF Ready, Decided
  <2> QED
    BY <1>2
<1>3. PICK i \in Wanted(s) : t \in Decide(s, i)
  BY <1>3a
<1>4. PICK r \in ServiceImpaired(Now, due) : s \in CheckPendingTakers(r, probe)
  BY <1>3a, Zenon
<1>5. Handled(Now, s) /\ (Now.clip = Idle => s.clip = Idle)
  BY <1>4, CheckedOutcome
<1>6. Good(s) /\ ClipOK(s) /\ ~s.rec.halted
  BY <1>1, <1>5, NowFields DEF Handled, Evolve
<1>7. /\ Handled(s, t)
      /\ s.clip = Idle /\ t.clip # Idle => ~s.rec.impaired /\ ~AwaitingTaker(s) /\ Adds(s, t)
  <2>1. i \in Intent \cup {Hold}
    BY <1>3, WantedType DEF Inv
  <2> QED
    BY <1>3, <1>6, <2>1, DecideOutcome
<1>8. ASSUME Truthful, Now.clip = Idle, t.clip # Idle PROVE Vouched(t)
  <2>1. s.clip = Idle /\ ~s.rec.impaired /\ ~AwaitingTaker(s) /\ Adds(s, t) /\ Good(t)
    BY <1>5, <1>7, <1>8 DEF Handled
  <2>2. Vouched(s)
    BY <1>6, <1>8, <2>1, GatesVouch
  <2> QED
    BY <1>6, <2>1, <2>2, AddsVouched
<1> QED
  BY <1>2, <1>5, <1>7, <1>8, HandledStreamed, Advance

LEMMA OnTickStep ==
    ASSUME Inv, NEW due \in BOOLEAN, NEW probe \in BOOLEAN, NEW expired \in BOOLEAN,
           OnTick(due, probe, expired)
    PROVE  Stepped(Now, Now') /\ decider' = decider
<1> DEFINE Checked == UNION {CheckPendingTakers(s, probe) : s \in ServiceImpaired(Now, due)}
           Resolved == UNION {ResolveClip(s) : s \in Checked}
<1>1. EngineStep(IF expired THEN Resolved ELSE Checked)
  BY Zenon DEF OnTick, After
<1>2. PICK t \in IF expired THEN Resolved ELSE Checked : Become(t)
  <2> HIDE DEF Resolved, Checked
  <2> QED
    BY <1>1, Zenon DEF EngineStep
<1>3. \E s \in Checked : t = s \/ t \in ResolveClip(s)
  <2> HIDE DEF Checked
  <2>1. CASE expired
    BY <1>2, <2>1, Zenon
  <2>2. CASE ~expired
    BY <1>2, <2>2, Zenon
  <2> QED
    BY <2>1, <2>2
<1>4. PICK s \in Checked : t = s \/ t \in ResolveClip(s)
  BY <1>3, Zenon
<1>5. PICK r \in ServiceImpaired(Now, due) : s \in CheckPendingTakers(r, probe)
  BY <1>4, Zenon
<1>6. Handled(Now, s) /\ (Now.clip = Idle => s.clip = Idle)
  BY <1>5, CheckedOutcome
<1>7. Handled(s, t) /\ (s.clip = Idle => t.clip = Idle)
  <2>1. Good(s) /\ ClipOK(s)
    BY <1>6 DEF Handled
  <2>2. s.clip = Idle => t = s
    BY <1>4 DEF ResolveClip
  <2> QED
    BY <1>4, <2>1, <2>2, HandledSelf, ResolveClipOutcome
<1> QED
  BY <1>2, <1>6, <1>7, HandledStreamed, Advance

LEMMA OnBookStep ==
    ASSUME Inv, NEW leg \in Leg, NEW due \in BOOLEAN, NEW behind \in BOOLEAN,
           OnBook(leg, due, behind)
    PROVE  Stepped(Now, Now') /\ decider' = decider
<1> DEFINE Then(s) == IF behind /\ Repeggable(s, leg) THEN RepegLeg(s, leg) ELSE {s}
<1>1. EngineStep(UNION {Then(s) : s \in ServiceImpaired(Now, due)})
  BY Zenon DEF OnBook, After
<1> HIDE DEF Then
<1>2. PICK t \in UNION {Then(s) : s \in ServiceImpaired(Now, due)} : Become(t)
  BY <1>1, Zenon DEF EngineStep
<1>3. PICK s \in ServiceImpaired(Now, due) : t \in Then(s)
  BY <1>2, Zenon
<1>4. Handled(Now, s) /\ (Now.clip = Idle => s.clip = Idle)
  BY <1>3, ServiceImpairedOutcome DEF Inv
<1>5. Handled(s, t) /\ (s.clip = Idle => t.clip = Idle)
  <2>1. Good(s) /\ ClipOK(s)
    BY <1>4 DEF Handled
  <2>2. CASE behind /\ Repeggable(s, leg)
    <3>1. Handled(s, t)
      BY <1>3, <2>1, <2>2, RepegLegOutcome DEF Then
    <3>2. s.clip # Idle
      BY <2>2 DEF Repeggable
    <3> QED
      BY <3>1, <3>2
  <2>3. CASE ~(behind /\ Repeggable(s, leg))
    <3>1. t = s
      BY <1>3, <2>3 DEF Then
    <3> QED
      BY <2>1, <3>1, HandledSelf
  <2> QED
    BY <2>2, <2>3
<1> QED
  BY <1>2, <1>4, <1>5, HandledStreamed, Advance

LEMMA CancelStep ==
    ASSUME Inv, EngineStep(CancelClip(Now))
    PROVE  Stepped(Now, Now') /\ decider' = decider
<1>1. PICK t \in CancelClip(Now) : Become(t)
  BY DEF EngineStep
<1>2. Handled(Now, t) /\ t.clip = Idle
  BY <1>1, CancelClipOutcome DEF Inv
<1> QED
  BY <1>1, <1>2, SelfHandled, HandledStreamed, Advance

LEMMA ReconcileStep ==
    ASSUME Inv, Reconcile
    PROVE  Stepped(Now, Now') /\ decider' = decider
<1>1. PICK r \in {MarkSuspect(rec), CleanPass(rec)} : rec' = r
  BY DEF Reconcile
<1> DEFINE t == [Now EXCEPT !.rec = r]
<1>2. Good(Now) /\ ClipOK(Now) /\ Now \in State /\ Now.rec = rec /\ rec \in Machine /\ Now.moves \in Nat
  BY GoodType, NowFields DEF Inv
<1>3. /\ r \in Machine /\ r.halted = rec.halted /\ r.impaired = rec.impaired
      /\ r.retireQ = rec.retireQ /\ r.debts = rec.debts
  BY <1>1, <1>2, MarkFields
<1>4. Become(t)
  BY <1>1 DEF Reconcile, Become, Now
<1>5. /\ t \in State /\ t.rec = r /\ t.own = Now.own /\ t.pending = Now.pending /\ t.clip = Now.clip
      /\ t.orders = Now.orders /\ t.moves = Now.moves /\ t.sink = Now.sink
  BY <1>2, <1>3 DEF State
<1> HIDE DEF t
<1>6. Aside(Now, t, {})
  <2>1. t.rec.debts # <<>> \/ t.rec.retireQ # <<>> => t.rec.impaired \/ t.rec.halted
    BY <1>2, <1>3, <1>5, QueuesNoticed
  <2>2. t.moves =< Now.moves
    BY <1>2, <1>5
  <2> QED
    BY <1>2, <1>3, <1>5, <2>1, <2>2, UnmovedAside
<1>7. Net(t) = Net(Now)
  BY <1>2, <1>3, <1>5, NetSame
<1>8. Handled(Now, t)
  BY <1>2, <1>6, <1>7, AsideQuiet, QuietHandled
<1> QED
  BY <1>4, <1>5, <1>8, SelfHandled, HandledStreamed, Advance

LEMMA HaltStep ==
    ASSUME Inv, HaltEngine
    PROVE  Stepped(Now, Now') /\ decider' = decider
<1> DEFINE r == Halt(rec)
           s == [Now EXCEPT !.rec = r]
<1>1. Good(Now) /\ ClipOK(Now) /\ Now \in State /\ Now.rec = rec /\ rec \in Machine /\ ~rec.halted
      /\ Now.moves \in Nat
  BY GoodType, NowFields DEF Inv, HaltEngine
<1>2. /\ r \in Machine /\ r.halted = TRUE /\ r.retireQ = rec.retireQ
  BY <1>1 DEF Halt, Machine
<1>3. PICK t \in CancelClip(s) : Become(t)
  <2>1. [Now EXCEPT !.rec = Halt(@)] = s
    BY <1>1
  <2> QED
    BY <2>1 DEF HaltEngine, EngineStep
<1> HIDE DEF r
<1>4. /\ s \in State /\ s.rec = r /\ s.own = Now.own /\ s.pending = Now.pending /\ s.clip = Now.clip
      /\ s.orders = Now.orders /\ s.moves = Now.moves /\ s.sink = Now.sink
  BY <1>1, <1>2 DEF State
<1> HIDE DEF s
<1>5. Good(s)
  <2>1. Deferred(s) = Deferred(Now)
    BY <1>4 DEF Deferred
  <2>2. s.rec.halted = TRUE /\ s.rec.retireQ = Now.rec.retireQ
    BY <1>1, <1>2, <1>4
  <2> QED
    BY <1>1, <1>4, <2>1, <2>2 DEF Good, Tallied, Full
<1>6. ClipOK(s)
  <2>1. Working(s) = Working(Now)
    BY <1>4 DEF Working
  <2> QED
    BY <1>1, <1>4, <2>1 DEF ClipOK, LegOK
<1>7. Handled(s, t) /\ t.clip = Idle
  BY <1>3, <1>5, <1>6, CancelClipOutcome
<1>8. Good(t) /\ ClipOK(t) /\ t.moves =< Now.moves /\ t.rec.halted = TRUE
  BY <1>2, <1>4, <1>7 DEF Handled, Evolve
<1>10. Caught(Now) => Caught(t)
  <2>1. Caught(Now) => Caught(s)
    BY <1>4 DEF Caught
  <2>2. Evolve(s, t)
    BY <1>7 DEF Handled
  <2> QED
    BY <1>5, <1>8, <2>1, <2>2, CaughtKept
<1>9. Now' = t /\ decider' = decider
  BY <1>3, <1>8, GoodType, Becomes
<1> QED
  BY <1>1, <1>7, <1>8, <1>9, <1>10 DEF Stepped

LEMMA MaxLotsType ==
    ASSUME decider \in Deciders
    PROVE  MaxLots \in Nat \ {0} /\ decider.modes \subseteq Mode \cup {"default"}
<1>1. /\ decider.modes \subseteq Mode \cup {"default"}
      /\ decider.lots \subseteq Nat \ {0}
      /\ \E m \in decider.lots : \A n \in decider.lots : n =< m
  BY DecidersAssumption
<1>2. \E m \in decider.lots : \A n \in decider.lots : m >= n
  BY <1>1
<1>3. MaxLots \in decider.lots
  BY <1>2 DEF MaxLots, Max
<1> QED
  BY <1>1, <1>3

LEMMA NextStep ==
    ASSUME Inv, Next
    PROVE  Stepped(Now, Now') /\ decider' = decider
<1>1. 1..(MaxLots * HedgeRatio) \subseteq Nat \ {0}
  BY MaxLotsType, Constants DEF Inv
<1>2. CASE \E id \in Ids, n \in 1..(MaxLots * HedgeRatio) :
              BrokerFill(id, n) \/ DeliverFill(id, n) \/ RedeliverFill(id, n)
  <2>1. PICK id \in Ids, n \in Nat \ {0} : BrokerFill(id, n) \/ DeliverFill(id, n) \/ RedeliverFill(id, n)
    BY <1>1, <1>2
  <2> QED
    BY <2>1, BrokerFillStep, DeliverFillStep, RedeliverFillStep
<1>3. CASE \E id \in Ids : BrokerKill(id) \/ DeliverDead(id) \/ TakerLate(id)
  BY <1>3, BrokerKillStep, DeliverDeadStep, TakerLateStep
<1>4. CASE \E due, probe \in BOOLEAN : OnState(due, probe) \/ OnTick(due, probe, FALSE) \/ OnTick(due, probe, TRUE)
  <2>1. FALSE \in BOOLEAN /\ TRUE \in BOOLEAN
    OBVIOUS
  <2> QED
    BY <1>4, <2>1, OnStateStep, OnTickStep
<1>5. CASE \E leg \in Leg, due, behind \in BOOLEAN : OnBook(leg, due, behind)
  BY <1>5, OnBookStep
<1>6. CASE PullIfUnwanted \/ Shutdown
  BY <1>6, CancelStep DEF PullIfUnwanted, Shutdown
<1>7. CASE Reconcile
  BY <1>7, ReconcileStep
<1>8. CASE HaltEngine
  BY <1>8, HaltStep
<1> QED
  BY <1>2, <1>3, <1>4, <1>5, <1>6, <1>7, <1>8 DEF Next

LEMMA InvNext ==
    ASSUME Inv, [Next]_vars
    PROVE  Inv'
<1>1. CASE Next
  <2>1. Stepped(Now, Now') /\ decider' = decider
    BY <1>1, NextStep
  <2>2. Good(Now') /\ ClipOK(Now') /\ Now'.moves =< Now.moves /\ Now'.moves \in Nat /\ Now.moves \in Nat
    BY <2>1, GoodType DEF Stepped, Inv
  <2>3. Good(Now)' /\ ClipOK(Now)'
    BY <2>2
  <2>5. Caught(Now)'
    <3>1. Caught(Now')
      BY <2>1 DEF Stepped, Inv
    <3> QED
      BY <3>1 DEF Caught
  <2>4. decider' \in Deciders /\ moves' =< decider'.moves
    <3>1. decider \in Deciders /\ moves =< decider.moves /\ decider.moves \in Nat
      BY DecidersAssumption DEF Inv
    <3>2. moves' =< moves /\ moves \in Nat /\ moves' \in Nat
      BY <2>2 DEF Now
    <3> QED
      BY <2>1, <3>1, <3>2
  <2> QED
    BY <2>3, <2>4, <2>5 DEF Inv
<1>2. CASE UNCHANGED vars
  <2>1. Now' = Now /\ decider' = decider /\ moves' = moves
    BY <1>2 DEF vars, Now
  <2> QED
    BY <2>1 DEF Inv, Caught
<1> QED
  BY <1>1, <1>2

LEMMA InitInv ==
    ASSUME Init
    PROVE  Inv /\ Net(Now) = 0
<1>1. /\ Now.own = <<>> /\ Now.orders = <<>> /\ Now.pending = {} /\ Now.clip = Idle
      /\ Now.sink = [leg \in Leg |-> 0] /\ Now.book = 0 /\ Now.rec = NewMachine
      /\ Now.faults = MaxFaults /\ Now.moves = decider.moves /\ decider \in Deciders
  BY NowFields DEF Init
<1>2. Now.own \in Accts /\ DOMAIN Now.own = {}
  <2>1. <<>> \in Seq(Acct) /\ Len(<<>>) = 0
    OBVIOUS
  <2>2. DOMAIN <<>> = {}
    OBVIOUS
  <2>3. <<>> = [i \in {} |-> 0]
    OBVIOUS
  <2>4. <<>> \in [{} -> Acct]
    BY <2>2, <2>3
  <2> QED
    BY <1>1, <2>2, <2>4, {} \in SUBSET Nat DEF Accts
<1>3. NewMachine \in Machine /\ NewMachine.retireQ = <<>> /\ NewMachine.debts = <<>>
  BY Constants DEF NewMachine, Machine
<1>4. decider.moves \in Nat
  BY <1>1, DecidersAssumption
<1>5. Now \in State
  <2>1. Now = [ own |-> Now.own, pending |-> Now.pending, clip |-> Now.clip, sink |-> Now.sink,
                book |-> Now.book, rec |-> Now.rec, orders |-> Now.orders, faults |-> Now.faults,
                moves |-> Now.moves ]
    BY DEF Now
  <2>2. Now.orders \in Seq(OrderType) /\ Now.sink \in [Leg -> Int] /\ Now.faults \in 0..MaxFaults
    BY <1>1, Constants
  <2>3. Now.own \in Accts /\ Now.pending \in SUBSET Nat /\ Now.clip \in Clip /\ Now.book \in Int
        /\ Now.rec \in Machine /\ Now.moves \in Nat
    BY <1>1, <1>2, <1>3, <1>4, IdleType
  <2> QED
    BY <2>1, <2>2, <2>3, Zenon DEF State
<1>6. Deferred(Now) = {} /\ Working(Now) = {}
  BY <1>2 DEF Deferred, Working
<1>11. Tallied(Now)
  <2>3. DOMAIN Now.own = {} /\ Len(Now.orders) = 0
    BY <1>1
  <2>4. Full(Now)
    BY <2>3 DEF Full
  <2> SUFFICES ASSUME NEW leg \in Leg
               PROVE  Now.sink[leg] = Credits(Now.own, Now.orders, leg)
    BY <2>4 DEF Tallied
  <2>1. Sums(Len(Now.orders), CreditOn(Now, leg), Credits(Now.own, Now.orders, leg)) /\ Len(Now.orders) = 0
    BY <1>1, <1>5, <2>4, StateCredits
  <2>2. Credits(Now.own, Now.orders, leg) = 0
    BY <2>1 DEF Sums
  <2> QED
    BY <1>1, <2>2
<1>7. Good(Now)
  BY <1>1, <1>2, <1>3, <1>5, <1>6, <1>11 DEF Good
<1>12. Caught(Now)
  BY <1>2 DEF Caught
<1>8. ClipOK(Now)
  BY <1>1, <1>6 DEF ClipOK
<1>9. Net(Now) = 0
  <2>1. \A leg \in Leg : OwedIn(<<>>, leg) = 0
    BY NothingOwed
  <2>2. Now.rec.debts = <<>> /\ Now.sink["A"] = 0 /\ Now.sink["B"] = 0
    BY <1>1, <1>3 DEF Leg
  <2> QED
    BY <2>1, <2>2, Constants DEF Net, Leg
<1>10. moves = Now.moves /\ moves =< decider.moves
  BY <1>1, <1>4, NowFields
<1> QED
  BY <1>1, <1>7, <1>8, <1>9, <1>10, <1>12 DEF Inv

(* In every reachable state every account agrees with its order, every     *)
(* order of unknown outcome has its owner, and the clip's legs are makers  *)
(* of its size with nothing else at rest: what every handler of the engine *)
(* (engine.go, engine_clip.go, engine_hedge.go, engine_quote.go) relies on *)
(* and leaves behind.                                                      *)
THEOREM Invariant == Spec => []Inv
<1>1. Init => Inv
  BY InitInv
<1>2. Inv /\ [Next]_vars => Inv'
  BY InvNext
<1> QED
  BY <1>1, <1>2, PTL DEF Spec

LEMMA InvTypeOK ==
    ASSUME Inv
    PROVE  TypeOK
<1>1. Good(Now) /\ ClipOK(Now) /\ decider \in Deciders /\ moves =< decider.moves
  BY DEF Inv
<1>2. /\ DOMAIN own \subseteq Ids
      /\ \A id \in Ids : orders[id] \in OrderType
  BY <1>1, IdsAre, GoodType, NowFields
<1>3. \A id \in DOMAIN own : own[id] \in AcctUpTo(orders[id].size)
  <2> TAKE id \in DOMAIN own
  <2> DEFINE a == own[id]
             n == orders[id].size
  <2>1. a \in Acct /\ AcctOK(a, orders[id])
    BY IdsAre
  <2>2. /\ a.maker \in BOOLEAN /\ a.leg \in Leg /\ a.buy \in BOOLEAN /\ a.placed \in Nat \ {0}
        /\ a.folded \in Nat /\ a.seen \in Nat /\ a.credited \in Nat /\ a.final \in Int
        /\ a.deferred \in BOOLEAN /\ a.overdue \in BOOLEAN
    BY <2>1 DEF Acct
  <2>3. /\ a.placed = n /\ a.seen =< n /\ a.folded =< n /\ -1 =< a.final /\ a.final =< n
        /\ a.credited = IF a.maker \/ a.final >= 0 THEN Max2(a.final, a.seen) ELSE a.placed
    BY <2>1 DEF AcctOK
  <2>4. a.credited =< n
    BY <2>2, <2>3 DEF Max2
  <2>5. a.placed \in 1..n /\ a.folded \in 0..n /\ a.seen \in 0..n /\ a.credited \in 0..n /\ a.final \in -1..n
    BY <2>2, <2>3, <2>4
  <2>6. a = [ maker |-> a.maker, leg |-> a.leg, buy |-> a.buy, placed |-> a.placed,
              folded |-> a.folded, seen |-> a.seen, credited |-> a.credited, final |-> a.final,
              deferred |-> a.deferred, overdue |-> a.overdue ]
    BY <2>1 DEF Acct
  <2> HIDE DEF a, n
  <2>7. a \in AcctUpTo(n)
    BY <2>2, <2>5, <2>6, Zenon DEF AcctUpTo
  <2> QED
    BY <2>7 DEF a, n
<1>4. pending \subseteq DOMAIN own
  BY <1>1, NowFields DEF Good
<1>5. {clip.A, clip.B, clip.maker} \subseteq DOMAIN own \cup {0} /\ clip.filled \in 0..clip.target
      /\ clip.dir \in {-1, 0, 1}
  <2>1. CASE clip = Idle
    BY <2>1 DEF Idle
  <2>2. CASE clip # Idle
    <3>1. /\ clip \in Clip /\ clip.filled \in Nat /\ clip.target \in Nat /\ clip.dir \in {-1, 1}
          /\ clip["A"] = clip.A /\ clip["B"] = clip.B
      BY <1>1, <2>2, ClipLegs, NowFields
    <3>2. /\ clip.A # 0 => clip.A \in DOMAIN own /\ own[clip.A].placed = clip.target
          /\ clip.B # 0 => clip.B \in DOMAIN own /\ own[clip.B].placed = clip.target
      BY <1>1, <2>2, <3>1, ClipLegs, NowFields DEF LegOK
    <3>3. /\ clip.maker \in {0, clip.A, clip.B}
          /\ clip.maker = 0 => clip.filled = 0
          /\ clip.maker # 0 => clip.filled =< own[clip.maker].folded
      BY <1>1, <2>2, NowFields DEF ClipOK
    <3>4. clip.filled =< clip.target
      <4>1. CASE clip.maker = 0
        BY <3>1, <3>3, <4>1
      <4>2. CASE clip.maker # 0
        <5>1. clip.maker \in DOMAIN own /\ own[clip.maker].placed = clip.target
          BY <3>2, <3>3, <4>2
        <5>2. own[clip.maker] \in Acct /\ own[clip.maker].folded =< own[clip.maker].placed
          BY <5>1, IdsAre DEF AcctOK
        <5>3. own[clip.maker].folded \in Nat
          BY <5>2 DEF Acct
        <5> QED
          BY <3>1, <3>3, <4>2, <5>1, <5>2, <5>3
      <4> QED
        BY <4>1, <4>2
    <3> QED
      BY <3>1, <3>2, <3>3, <3>4
  <2> QED
    BY <2>1, <2>2
<1>6. /\ sink \in [Leg -> Int] /\ book \in Int /\ rec.streak \in 0..TakerDeadLimit
      /\ faults \in 0..MaxFaults
  BY <1>1, GoodType, StateType, MachineType, NowFields
<1>7. moves \in 0..decider.moves
  <2>1. moves \in Nat /\ decider.moves \in Nat
    BY <1>1, GoodType, NowFields, DecidersAssumption
  <2> QED
    BY <1>1, <2>1
<1> QED
  BY <1>1, <1>2, <1>3, <1>4, <1>5, <1>6, <1>7 DEF TypeOK

(* The engine's accounts never leave the bounds of their orders (OnFill's  *)
(* ceiling, finishRetire's clamp), the clip names orders the engine tracks *)
(* and counts no more than its target as filled.                           *)
THEOREM TypeCorrect == Spec => []TypeOK
BY Invariant, InvTypeOK, PTL

(* Whatever handler runs on a halted engine, whatever obligation it        *)
(* resolves, it places no order (takerRetry, repegLeg, tryDeferredRetire,  *)
(* settleTaker, Halt's own CancelClip).                                    *)
THEOREM HaltIsAbsolute == Spec => HaltAbsolute
<1>1. Inv /\ [Next]_vars => [rec.halted => Len(orders') = Len(orders)]_vars
  <2> SUFFICES ASSUME Inv, Next PROVE rec.halted => Len(orders') = Len(orders)
    OBVIOUS
  <2>1. Now.rec.halted => Len(Now'.orders) = Len(Now.orders)
    BY NextStep DEF Stepped
  <2> QED
    BY <2>1 DEF Now
<1> QED
  BY <1>1, Invariant, PTL DEF Spec, HaltAbsolute

(* No unsettled order is orphaned, whatever call fails, in whatever order  *)
(* the answers come: a maker is a leg of the clip or queued for retirement, *)
(* a taker pending, and queued obligations keep the engine impaired so that *)
(* serviceImpaired retries them (deferRetire, commitTakerPlacement).       *)
THEOREM NothingIsForgotten == Spec => []NothingForgotten
<1>1. Inv => NothingForgotten
  <2> SUFFICES ASSUME Inv PROVE NothingForgotten
    OBVIOUS
  <2>1. Good(Now) /\ ClipOK(Now)
    BY DEF Inv
  <2>2. rec.retireQ # <<>> \/ rec.debts # <<>> => rec.impaired \/ rec.halted
    BY <2>1, NowFields DEF Good
  <2>3. ASSUME NEW id \in DOMAIN own, own[id].final < 0, ~own[id].maker PROVE id \in pending
    BY <2>1, <2>3, NowFields DEF Good
  <2>4. ASSUME NEW id \in DOMAIN own, own[id].deferred PROVE \E i \in DOMAIN rec.retireQ : rec.retireQ[i] = id
    <3>1. id \in Deferred(Now)
      BY <2>4, NowFields DEF Deferred
    <3>2. \E i \in 1..Len(rec.retireQ) : rec.retireQ[i] = id
      BY <2>1, <3>1, NowFields DEF Good
    <3>3. rec.retireQ \in Seq(Nat)
      BY <2>1, GoodType, MachineType, NowFields
    <3> QED
      BY <3>2, <3>3
  <2>5. ASSUME NEW id \in DOMAIN own, own[id].final < 0, own[id].maker, ~own[id].deferred
        PROVE  id \in {clip.A, clip.B}
    <3>1. id \in Working(Now) /\ id # 0
      BY <2>1, <2>5, NowFields, GoodType DEF Working
    <3>2. clip # Idle
      BY <2>1, <3>1, NowFields DEF ClipOK
    <3> QED
      BY <2>1, <3>1, <3>2, NowFields, ClipLegs
  <2>6. \A id \in DOMAIN own : own[id].maker \in BOOLEAN /\ own[id].deferred \in BOOLEAN
    BY IdsAre DEF Acct
  <2>7. ASSUME NEW id \in DOMAIN own, own[id].final < 0
        PROVE  CASE ~own[id].maker -> id \in pending
                 [] own[id].maker /\ own[id].deferred -> \E i \in DOMAIN rec.retireQ : rec.retireQ[i] = id
                 [] own[id].maker /\ ~own[id].deferred -> id \in {clip.A, clip.B}
    <3>1. CASE ~own[id].maker
      BY <2>3, <2>7, <3>1
    <3>2. CASE own[id].maker /\ own[id].deferred
      BY <2>4, <3>2
    <3>3. CASE own[id].maker /\ ~own[id].deferred
      BY <2>5, <2>7, <3>3
    <3> QED
      BY <2>6, <3>1, <3>2, <3>3
  <2> QED
    BY <2>2, <2>7 DEF NothingForgotten
<1> QED
  BY <1>1, Invariant, PTL

(* The pair is hedged after every handler, to the lot and at the hedge     *)
(* ratio, whatever the broker rejected, lost, delayed or ended short on    *)
(* the way: the credited lots of the two legs balance with the hedges owed *)
(* (OnFill, settleClip, settleTaker, tryDeferredRetire, openClip).         *)
THEOREM LedgerIsBalanced == TerminalAcksHold => (Spec => []LedgerBalanced)
<1> DEFINE B == ~Now.rec.halted => Net(Now) = 0
<1>1. Init => B
  BY InitInv
<1>2. TerminalAcksHold /\ Inv /\ B /\ [Next]_vars => B'
  <2> SUFFICES ASSUME TerminalAcksHold, Inv, B, [Next]_vars PROVE B'
    OBVIOUS
  <2>1. CASE Next
    <3>1. ~Now'.rec.halted => ~Now.rec.halted /\ Net(Now') = Net(Now)
      BY <2>1, NextStep DEF Stepped
    <3> QED
      BY <3>1
  <2>2. CASE UNCHANGED vars
    <3>1. Now' = Now
      BY <2>2 DEF vars, Now
    <3> QED
      BY <3>1
  <2> QED
    BY <2>1, <2>2
<1>3. Inv /\ B => LedgerBalanced
  <2> SUFFICES ASSUME Inv, B, ~rec.halted
               PROVE  HedgeRatio * (sink["A"] + Owed("A")) + sink["B"] + Owed("B") = 0
    BY DEF LedgerBalanced
  <2>1. Owed("A") = OwedIn(rec.debts, "A") /\ Owed("B") = OwedIn(rec.debts, "B")
    BY Zenon DEF Owed, OwedIn
  <2> QED
    BY <2>1, NowFields DEF Net
<1> HIDE DEF B
<1>4. TerminalAcksHold => [](TerminalAcksHold)
  <2>1. TerminalAcksHold => TerminalAcksHold'
    BY DEF TerminalAcksHold
  <2> QED
    BY <2>1, PTL
<1> QED
  BY <1>1, <1>2, <1>3, <1>4, Invariant, PTL DEF Spec

LEMMA SettledCredits ==
    ASSUME Inv, "dup" \notin FaultKinds, Settled
    PROVE  \A id \in 1..Len(Now.orders) : own[id].credited = orders[id].exec
<1> TAKE id \in 1..Len(Now.orders)
<1> DEFINE a == own[id]
           o == orders[id]
<1>1. id \in Ids /\ id \in DOMAIN own
  BY IdsAre DEF Settled
<1>2. /\ a.final >= 0 /\ ~o.live
      /\ "async" \in FaultKinds => o.sent = o.exec
  BY <1>1 DEF Settled
<1>3. a \in Acct /\ o \in OrderType /\ OrderOK(o) /\ AcctOK(a, o) /\ a.seen >= o.sent
  BY <1>1, IdsAre, NowFields DEF Inv, Caught
<1> HIDE DEF a, o
<1>4. /\ a.final \in Int /\ a.seen \in Nat /\ a.maker \in BOOLEAN
      /\ o.exec \in Nat /\ o.sent \in Nat /\ o.sent =< o.exec
  BY <1>3, OrderFields DEF Acct, OrderOK
<1>5. a.seen =< o.sent /\ a.final =< o.exec /\ a.credited = Max2(a.final, a.seen)
  BY <1>2, <1>3 DEF AcctOK
<1>6. a.credited = o.exec
  <2>1. CASE a.maker
    <3>1. "async" \in FaultKinds \/ a.final = o.exec
      BY <1>2, <1>3, <2>1 DEF AcctOK
    <3> QED
      BY <1>2, <1>3, <1>4, <1>5, <3>1 DEF Max2
  <2>2. CASE ~a.maker
    <3>1. a.final >= o.exec
      BY <1>2, <1>3, <2>2 DEF AcctOK
    <3> QED
      BY <1>4, <1>5, <3>1 DEF Max2
  <2> QED
    BY <2>1, <2>2
<1> QED
  BY <1>6 DEF a, o

LEMMA SettledSink ==
    ASSUME Inv, "dup" \notin FaultKinds, Settled, NEW leg \in Leg
    PROVE  sink[leg] = Real(leg)
<1> DEFINE n == Len(Now.orders)
           v == CreditOn(Now, leg)
           w == [i \in 1..n |-> TermOn(Now.orders[i], leg, Now.orders[i].exec)]
           y == Credits(Now.own, Now.orders, leg)
           z == Executed(Now.orders, leg)
<1>1. Good(Now) /\ Now \in State /\ n \in Nat
  BY GoodType DEF Inv
<1>2. Full(Now)
  BY IdsAre, NowFields DEF Settled, Full
<1>3. Now.sink[leg] = y
  BY <1>1, <1>2 DEF Good, Tallied
<1>4. Sums(n, v, y)
  BY <1>1, <1>2, StateCredits
<1>5. Sums(n, w, z)
  <2>1. \A i \in 1..n : Now.orders[i].exec \in Int
    BY <1>1, StateType, OrderFields
  <2> QED
    BY <1>1, <2>1, ExecutedSums
<1>6. \A i \in 1..n : w[i] = v[i]
  BY SettledCredits, NowFields DEF CreditOn
<1> HIDE DEF n, v, w, y, z
<1>7. z = y
  BY <1>1, <1>4, <1>5, <1>6, SumsSame
<1>8. Real(leg) = z
  <2>1. Real(leg) = Executed(orders, leg)
    BY Zenon DEF Real, Executed
  <2> QED
    BY <2>1, NowFields DEF z
<1> QED
  BY <1>3, <1>7, <1>8, NowFields

NoRepeats == "dup" \notin FaultKinds

(* Once every order is settled the ledger is the broker's position,        *)
(* whichever calls were rejected, lost or answered late and whichever fills *)
(* are still under way, and once the hedges owed are paid that position is *)
(* hedged at the ratio (finishRetire, settleTaker, FoldGap's excess): for  *)
(* any broker that repeats no fill event.                                  *)
THEOREM SettledIsTrue == "dup" \notin FaultKinds => (Spec => []SettledTruth)
<1>1. NoRepeats => TerminalAcksHold
  BY DEF NoRepeats, TerminalAcksHold
<1>2. NoRepeats /\ Inv /\ LedgerBalanced => SettledTruth
  <2> SUFFICES ASSUME NoRepeats, Inv, LedgerBalanced, Settled
               PROVE  /\ \A leg \in Leg : sink[leg] = Real(leg)
                      /\ ~rec.halted /\ rec.debts = <<>>
                            => HedgeRatio * Real("A") + Real("B") = 0
    BY DEF SettledTruth
  <2>1. \A leg \in Leg : sink[leg] = Real(leg)
    BY SettledSink DEF NoRepeats
  <2>2. ASSUME ~rec.halted, rec.debts = <<>> PROVE HedgeRatio * Real("A") + Real("B") = 0
    <3>1. Owed("A") = 0 /\ Owed("B") = 0
      <4>1. Owed("A") = OwedIn(rec.debts, "A") /\ Owed("B") = OwedIn(rec.debts, "B")
        BY Zenon DEF Owed, OwedIn
      <4> QED
        BY <2>2, <4>1, NothingOwed
    <3>2. sink["A"] \in Int /\ sink["B"] \in Int /\ Real("A") = sink["A"] /\ Real("B") = sink["B"]
      BY <2>1, NowFields, GoodType DEF Inv, Leg
    <3>3. HedgeRatio * (sink["A"] + Owed("A")) + sink["B"] + Owed("B") = 0
      BY <2>2 DEF LedgerBalanced
    <3> DEFINE x == Real("A")
               y == Real("B")
    <3>4. x \in Int /\ y \in Int /\ HedgeRatio * (x + 0) + y + 0 = 0
      BY <3>1, <3>2, <3>3
    <3> HIDE DEF x, y
    <3>5. HedgeRatio * x + y = 0
      BY <3>4, Constants
    <3> QED
      BY <3>5 DEF x, y
  <2> QED
    BY <2>1, <2>2
<1>3. NoRepeats => []NoRepeats
  <2>1. NoRepeats => NoRepeats'
    BY DEF NoRepeats
  <2> QED
    BY <2>1, PTL
<1>4. NoRepeats => (Spec => []SettledTruth)
  BY <1>1, <1>2, <1>3, Invariant, LedgerIsBalanced, PTL
<1> QED
  BY <1>4 DEF NoRepeats

(* The lots awaited from takers inside their confirm window, on a leg. *)
AwaitedIn(s, leg) == SumOnLeg(s.orders, leg, LAMBDA id : Awaited(s, id))
AwaitedOn(s, leg) == [i \in 1..Len(s.orders) |-> TermOn(s.orders[i], leg, Awaited(s, i))]

LEMMA AwaitedSums ==
    ASSUME NEW s, Len(s.orders) \in Nat, NEW leg,
           \A i \in 1..Len(s.orders) : Awaited(s, i) \in Int
    PROVE  Sums(Len(s.orders), AwaitedOn(s, leg), AwaitedIn(s, leg))
<1> DEFINE q == s.orders
           n == Len(q)
           v == [i \in 1..n |-> TermOn(q[i], leg, Awaited(s, i))]
           e(i) == IF q[i].leg = leg THEN Sign(q[i].buy) * Awaited(s, i) ELSE 0
           Is(f) == f = [i \in 0..n |-> IF i = 0 THEN 0 ELSE f[i - 1] + e(i)]
           sum == CHOOSE f : Is(f)
<1>1. n \in Nat
  OBVIOUS
<1>2. \A i \in 1..n : v[i] = e(i) /\ v[i] \in Int
  BY TermOnType DEF TermOn
<1>3. AwaitedIn(s, leg) = sum[n]
  BY DEF AwaitedIn, SumOnLeg
<1> HIDE DEF v, e, n, q
<1>4. PICK f \in [0..n -> Int] : f[0] = 0 /\ \A i \in 1..n : f[i] = f[i - 1] + v[i]
  BY <1>1, <1>2, SumExists
<1>5. Is(f)
  <2>1. ASSUME NEW i \in 0..n PROVE f[i] = IF i = 0 THEN 0 ELSE f[i - 1] + e(i)
    BY <1>4, <1>2
  <2> QED
    BY <2>1
<1>6. Is(sum)
  <2> HIDE DEF Is
  <2> QED
    BY <1>5
<1> HIDE DEF sum
<1>7. sum[0] = 0 /\ \A i \in 1..n : sum[i] = sum[i - 1] + e(i)
  BY <1>6, <1>1
<1> HIDE DEF Is
<1>8. \A i \in 1..n : v[i] \in Int /\ sum[i] = sum[i - 1] + v[i]
  BY <1>2, <1>7
<1>9. \A i \in 0..n : sum[i] \in Int
  BY <1>1, <1>7, <1>8, SumType
<1>10. Sums(n, v, sum[n])
  BY <1>7, <1>8, <1>9 DEF Sums
<1> QED
  BY <1>3, <1>10 DEF n, v, q, AwaitedOn

(* Accounts that are vouched for make the ledger true. *)
LEMMA VouchedSink ==
    ASSUME NEW s, Good(s), Truthful, Vouched(s), NEW leg \in Leg
    PROVE  s.sink[leg] - AwaitedIn(s, leg) = Executed(s.orders, leg)
<1> DEFINE n == Len(s.orders)
           u == [i \in 1..n |-> TermOn(s.orders[i], leg, s.orders[i].exec)]
           v == AwaitedOn(s, leg)
           w == CreditOn(s, leg)
           x == Executed(s.orders, leg)
           y == AwaitedIn(s, leg)
           z == Credits(s.own, s.orders, leg)
<1>1. s \in State /\ n \in Nat
  BY GoodType
<1>2. Full(s)
  BY DEF Good, Tallied, Truthful, OrdersNamed
<1>3. s.sink[leg] = z
  BY <1>2 DEF Good, Tallied
<1>4. \A i \in 1..n : /\ s.orders[i].exec \in Int /\ Awaited(s, i) \in Int
                      /\ s.own[i].credited = s.orders[i].exec + Awaited(s, i)
  <2> TAKE i \in 1..n
  <2>1. i \in DOMAIN s.own /\ s.own[i] \in Acct /\ s.orders[i] \in OrderType
    BY <1>1, <1>2, StateType DEF Full
  <2>2. s.orders[i].exec \in Int /\ s.own[i].placed \in Int
    BY <2>1, OrderFields DEF Acct
  <2> QED
    BY <2>1, <2>2 DEF Vouched, Awaited
<1>5. Sums(n, u, x)
  BY <1>1, <1>4, ExecutedSums
<1>6. Sums(n, v, y)
  BY <1>1, <1>4, AwaitedSums
<1>7. Sums(n, w, z)
  BY <1>1, <1>2, StateCredits
<1>8. \A i \in 1..n : u[i] \in Int /\ v[i] \in Int /\ w[i] = u[i] + v[i]
  <2> TAKE i \in 1..n
  <2> DEFINE o == s.orders[i]
             a == o.exec
             b == Awaited(s, i)
             c == s.own[i].credited
  <2>1. a \in Int /\ b \in Int /\ c = a + b
    BY <1>4
  <2>2. u[i] = TermOn(o, leg, a) /\ v[i] = TermOn(o, leg, b) /\ w[i] = TermOn(o, leg, c)
    BY DEF AwaitedOn, CreditOn
  <2> HIDE DEF a, b, c, o, u, v, w
  <2>3. TermOn(o, leg, a) \in Int /\ TermOn(o, leg, b) \in Int
    BY <2>1, TermOnType
  <2>4. TermOn(o, leg, c) = TermOn(o, leg, a) + TermOn(o, leg, c - a) /\ c - a = b
    BY <2>1, TermOnSum
  <2> QED
    BY <2>2, <2>3, <2>4
<1> HIDE DEF n, u, v, w, x, y, z
<1>9. z = x + y /\ x \in Int /\ y \in Int
  BY <1>1, <1>5, <1>6, <1>7, <1>8, SumsPlus
<1>10. z - y = x
  BY <1>9
<1> QED
  BY <1>3, <1>10 DEF x, y

LEMMA VouchedLedger ==
    ASSUME Inv, Truthful, Vouched(Now)
    PROVE  LedgerTrue
<1> SUFFICES ASSUME NEW leg \in Leg
             PROVE  sink[leg] - SumOnLeg(orders, leg, LAMBDA id :
                                   IF id \in pending /\ ~own[id].overdue
                                   THEN own[id].placed - orders[id].exec ELSE 0)
                       = Real(leg)
  BY DEF LedgerTrue
<1>1. Now.sink[leg] - AwaitedIn(Now, leg) = Executed(Now.orders, leg)
  BY VouchedSink DEF Inv
<1>2. Real(leg) = Executed(orders, leg)
  BY Zenon DEF Real, Executed
<1>3. AwaitedIn(Now, leg) = SumOnLeg(orders, leg, LAMBDA id :
                               IF id \in pending /\ ~own[id].overdue
                               THEN own[id].placed - orders[id].exec ELSE 0)
  BY Zenon, NowFields DEF AwaitedIn, Awaited, SumOnLeg
<1> QED
  BY <1>1, <1>2, <1>3, NowFields

(* A clip is only ever sized on a true position: whenever one opens, the   *)
(* ledger is what the broker executed, but for takers still inside their   *)
(* confirm window (OnState's gates: impaired, in doubt, awaiting a taker;  *)
(* finishRetire and settleTaker book what they learn before the gates      *)
(* open).  For any broker that names the orders it takes, whose cancels    *)
(* are final and whose fills are not repeated, whatever it rejects, loses, *)
(* kills or leaves unanswered.                                             *)
THEOREM ClipsOpenOnTruth ==
    {"ghost", "blind", "dup", "async"} \cap FaultKinds = {} => (Spec => OpensOnTruth)
<1>1. Inv /\ Truthful /\ Vouched(Now) => LedgerTrue
  BY VouchedLedger
<1>2. Truthful => []Truthful
  <2>1. Truthful => Truthful'
    BY DEF Truthful
  <2> QED
    BY <2>1, PTL
<1>3. Inv /\ Truthful /\ [Next]_vars
        => [clip = Idle /\ clip' # Idle => Vouched(Now)']_vars
  <2> SUFFICES ASSUME Inv, Truthful, Next, clip = Idle, clip' # Idle PROVE Vouched(Now)'
    OBVIOUS
  <2>1. Now.clip = Idle /\ Now'.clip # Idle
    BY DEF Now
  <2>2. Vouched(Now')
    BY <2>1, NextStep DEF Stepped
  <2> QED
    BY <2>2 DEF Vouched, Awaited
<1>4. Truthful => (Spec => [][clip = Idle /\ clip' # Idle => LedgerTrue']_vars)
  BY <1>1, <1>2, <1>3, Invariant, PTL DEF Spec
<1> QED
  BY <1>4 DEF Truthful, OpensOnTruth
=============================================================================
