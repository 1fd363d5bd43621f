------------------------- MODULE MarketScheduleProofs -------------------------
(***************************************************************************)
(* monitorMarketOpen proved for any timelines, any day and any delays: the *)
(* reported view changes only to what is known of that instant, it follows *)
(* the sessions through an outage, and the cache heals within a bounded    *)
(* time of the broker's return.                                            *)
(***************************************************************************)
EXTENDS MarketSchedule, NaturalsInduction, WellFoundedInduction, TLAPS

-----------------------------------------------------------------------------
(* The least and the greatest of some numbers.                             *)

LEMMA LowerOf ==
    ASSUME NEW S \in SUBSET Nat, S # {}
    PROVE  Lower(S) \in S /\ \A m \in S : Lower(S) <= m
<1> DEFINE R == OpToRel(<, Nat)
<1>1. IsWellFoundedOn(R, Nat)
  BY NatLessThanWellFounded
<1>2. PICK n \in S : \A m \in S : ~(<<m, n>> \in R)
  <2> HIDE DEF R
  <2> QED
    BY <1>1, WFMin
<1>3. \A m \in S : ~(m < n)
  BY <1>2 DEF OpToRel
<1>4. \A m \in S : n <= m
  BY <1>3
<1> QED
  BY <1>4 DEF Lower

LEMMA UpperOf ==
    ASSUME NEW S \in SUBSET Nat, \E n \in S : \A m \in S : n >= m
    PROVE  Upper(S) \in S /\ \A m \in S : m <= Upper(S)
BY DEF Upper

LEMMA UpperOfTwo ==
    ASSUME NEW i \in Nat, NEW j \in Nat
    PROVE  Upper({i, j}) \in Nat /\ i <= Upper({i, j}) /\ j <= Upper({i, j})
<1>1. \E n \in {i, j} : \A m \in {i, j} : n >= m
  OBVIOUS
<1>2. {i, j} \in SUBSET Nat
  OBVIOUS
<1> QED
  BY <1>1, <1>2, UpperOf

LEMMA Together ==
    ASSUME NEW i \in Nat, NEW j \in Nat, NEW m \in Nat, NEW n \in Nat, i <= m, j <= n
    PROVE  i + j <= m + n
OBVIOUS

LEMMA Params ==
    /\ Day \in Nat \ {0} /\ Days \in Nat \ {0}
    /\ Interval \in Nat \ {0} /\ MaxFetch \in Nat \ {0}
    /\ MaxRetry \in Nat /\ Retry \subseteq 1 .. MaxRetry
    /\ MaxLate \in Nat /\ MaxLate = MaxFetch + MaxRetry
    /\ MaxEmpty \in Nat /\ MaxEmpty = 2 * MaxFetch + MaxRetry
    /\ MaxStale \in Nat /\ MaxEmpty <= MaxStale /\ 2 * Interval - 1 + MaxFetch <= MaxStale
<1>1. MaxRetry \in Retry /\ \A r \in Retry : r <= MaxRetry
  BY ScheduleAssumption, UpperOf DEF MaxRetry
<1>2. MaxEmpty \in Nat /\ 2 * Interval - 1 + MaxFetch \in Nat
  BY <1>1, ScheduleAssumption DEF MaxEmpty
<1>3. MaxStale \in Nat /\ MaxEmpty <= MaxStale /\ 2 * Interval - 1 + MaxFetch <= MaxStale
  BY <1>2, UpperOfTwo DEF MaxStale
<1> QED
  BY <1>1, <1>2, <1>3, ScheduleAssumption DEF MaxLate, MaxEmpty

(* What a refresh deadline may be.                                         *)
MaxRefresh == Upper({2 * Interval - 1, MaxRetry})

LEMMA Refreshes ==
    /\ MaxRefresh \in Nat /\ MaxRetry <= MaxRefresh /\ SafetyNet \subseteq 0 .. MaxRefresh
    /\ \A r \in SafetyNet : r <= 2 * Interval - 1
BY Params, UpperOfTwo, 2 * Interval - 1 \in Nat DEF MaxRefresh, SafetyNet

-----------------------------------------------------------------------------
(* The position in the day, and the boundaries ahead of it.                *)

LEMMA Quotient ==
    ASSUME NEW d \in Nat \ {0}, NEW m \in Int, NEW n \in Int,
           NEW i \in 0 .. d - 1, NEW j \in 0 .. d - 1, d * m + i = d * n + j
    PROVE  m = n
<1>1. d * (m - n) = j - i /\ m - n \in Int
  OBVIOUS
<1>2. \A k \in Int : k >= 1 => d * k >= d
  OBVIOUS
<1>3. \A k \in Int : k <= -1 => d * k <= -d
  OBVIOUS
<1>4. ~(m - n >= 1) /\ ~(m - n <= -1)
  BY <1>1, <1>2, <1>3
<1> QED
  BY <1>1, <1>4

LEMMA DayOver ==
    ASSUME NEW k \in Nat
    PROVE  (k + Day) % Day = k % Day
<1> DEFINE p == (k + Day) \div Day
           q == k \div Day
           i == (k + Day) % Day
           j == k % Day
<1>1. Day \in Nat \ {0} /\ p \in Int /\ q + 1 \in Int /\ i \in 0 .. Day - 1 /\ j \in 0 .. Day - 1
  BY Params
<1>2. k + Day = Day * p + i /\ k = Day * q + j
  BY Params
<1>3. q \in Int
  BY Params
<1> HIDE DEF p, q, i, j
<1>4. Day * p + i = Day * (q + 1) + j
  BY <1>1, <1>2, <1>3
<1>5. p = q + 1
  BY <1>1, <1>4, Quotient
<1> QED
  BY <1>1, <1>4, <1>5 DEF i, j

(* A tick later every boundary is a tick nearer.                           *)
LEMMA Shift ==
    ASSUME NEW h \in Hours, NEW n \in Nat
    PROVE  (((h + 1) % Day) + n) % Day = (h + (n + 1)) % Day
<1>1. Day \in Nat \ {0} /\ h \in 0 .. Day - 1
  BY Params DEF Hours
<1>2. CASE h + 1 < Day
  <2>1. (h + 1) % Day = h + 1
    BY <1>1, <1>2
  <2> QED
    BY <1>1, <2>1
<1>3. CASE h + 1 = Day
  <2>1. (h + 1) % Day = 0 /\ h + (n + 1) = n + Day /\ 0 + n = n
    BY <1>1, <1>3
  <2>2. (n + Day) % Day = n % Day
    BY DayOver
  <2> QED
    BY <2>1, <2>2
<1> QED
  BY <1>1, <1>2, <1>3

(* The sessions say the same of an instant as of the one before it, unless *)
(* a boundary lies between.                                                *)
LEMMA SameUntilBoundary ==
    ASSUME NEW h \in Hours, (h + 1) % Day \notin Starts, NEW t \in Timelines
    PROVE  t[(h + 1) % Day] = t[h]
<1>1. Day \in Nat \ {0} /\ h \in 0 .. Day - 1 /\ 0 \in Starts
  BY Params, ScheduleAssumption DEF Hours
<1>2. (h + 1) % Day = h + 1 /\ h + 1 \in Hours
  <2>1. h + 1 # Day
    <3> SUFFICES ASSUME h + 1 = Day PROVE FALSE
      OBVIOUS
    <3>1. (h + 1) % Day = 0
      BY <1>1
    <3> QED
      BY <1>1, <3>1
  <2> QED
    BY <1>1, <2>1 DEF Hours
<1>3. \A k \in Hours \ Starts : t[k] = t[k - 1]
  BY ScheduleAssumption
<1>4. t[h + 1] = t[(h + 1) - 1] /\ (h + 1) - 1 = h
  BY <1>1, <1>2, <1>3
<1> QED
  BY <1>2, <1>4

(* A wake-up comes no later than the refresh and every boundary ahead.     *)
LEMMA NextWakes ==
    ASSUME NEW w \in Nat, NEW r \in Nat, NEW v \in NextWake(w, r)
    PROVE  /\ v \in Nat
           /\ IF w > 0 THEN v <= r /\ \A n \in Ahead(w) : v <= n ELSE v <= MaxRetry
<1>1. Ahead(w) \in SUBSET Nat /\ (w > 0 => w \in Ahead(w)) /\ (w = 0 => Ahead(w) = {})
  BY DEF Ahead
<1>2. CASE w = 0
  BY <1>1, <1>2, Params DEF NextWake
<1>3. CASE w > 0
  <2>1. Ahead(w) # {} /\ v = Lower({NextBoundary(w), r})
    BY <1>1, <1>3 DEF NextWake
  <2>2. NextBoundary(w) \in Ahead(w) /\ \A n \in Ahead(w) : NextBoundary(w) <= n
    BY <1>1, <2>1, LowerOf DEF NextBoundary
  <2>3. NextBoundary(w) \in Nat
    BY <1>1, <2>2
  <2>4. v \in {NextBoundary(w), r} /\ v <= NextBoundary(w) /\ v <= r
    BY <2>1, <2>3, LowerOf, {NextBoundary(w), r} \in SUBSET Nat
  <2>5. \A n \in Ahead(w) : v <= n
    BY <1>1, <2>2, <2>3, <2>4
  <2> QED
    BY <1>3, <2>3, <2>4, <2>5
<1> QED
  BY <1>2, <1>3

(* An answer that lists sessions covers the instant it arrives, and more   *)
(* than the longest safety net and the call at its end.                    *)
LEMMA AnswerReaches ==
    ASSUME NEW h \in Hours
    PROVE  /\ Days * Day - h \in 1 .. Days * Day
           /\ 2 * Interval + MaxFetch <= Days * Day - h
<1>1. Days \in Nat \ {0} /\ Day \in Nat \ {0} /\ h \in 0 .. Day - 1
  BY Params DEF Hours
<1>2. Days * Day = (Days - 1) * Day + Day /\ (Days - 1) * Day \in Nat
  BY <1>1
<1> QED
  BY <1>1, <1>2, Params, WindowAssumption

-----------------------------------------------------------------------------
(* The inductive invariant.                                                *)

Types ==
    /\ hour \in Hours /\ timeline \in Timelines /\ sessions \in Timelines
    /\ up \in BOOLEAN /\ listed \in BOOLEAN
    /\ reported \in {"unknown", "open", "closed"}
    /\ window \in 0 .. Days * Day /\ wake \in Nat /\ refresh \in 0 .. MaxRefresh
    /\ fetch \in [age : 0 .. MaxFetch, clean : BOOLEAN] \cup {NoFetch}
    /\ fetch.clean = TRUE => up = TRUE
    /\ late \in Nat /\ steady \in Nat
    /\ up = FALSE => steady = 0

(* The timer wakes the loop before anything it must not miss.              *)
Timer ==
    ~Fetching => IF window > 0 THEN wake <= refresh /\ \A n \in Ahead(window) : wake <= n
                 ELSE wake <= MaxRetry

(* A report that is wrong is put right when the timer fires, or when the   *)
(* call under way ends, or one retry later.                                *)
OnTime ==
    /\ late <= MaxLate
    /\ Wrong => IF Fetching THEN late <= fetch.age ELSE late + wake <= MaxLate

(* The longest time until the next answer, if the broker stays up: only a  *)
(* call that was made in an outage, or lived through one, may fail.        *)
Wait ==
    IF Fetching
    THEN MaxFetch - fetch.age + (IF fetch.clean = TRUE THEN 0 ELSE MaxRetry + MaxFetch)
    ELSE (IF window > 0 THEN refresh ELSE wake) + MaxFetch

(* The answer comes before the window ends, or soon; and before the cache  *)
(* has been behind for too long.                                           *)
Healing ==
    /\ Wait <= MaxStale
    /\ window > Wait \/ Wait <= MaxEmpty
    /\ listed = TRUE => window > Wait \/ steady + Wait <= MaxEmpty
    /\ sessions # timeline => steady + Wait <= MaxStale

ScheduleInv == Types /\ Timer /\ OnTime /\ Healing

-----------------------------------------------------------------------------
(* What the steps do to the call under way.                                *)

LEMMA FetchIs ==
    ASSUME Types
    PROVE  /\ Fetching => fetch.age \in 0 .. MaxFetch /\ fetch.clean \in BOOLEAN
           /\ ~Fetching => fetch.clean = FALSE
BY DEF Types, Fetching, NoFetch

LEMMA FetchStarts ==
    ASSUME FireAndFetch
    PROVE  Fetching' /\ fetch'.age = 0 /\ fetch'.clean = up
<1>1. fetch' = [age |-> 0, clean |-> up]
  BY DEF FireAndFetch
<1>2. fetch'.age = 0 /\ fetch'.clean = up
  BY <1>1
<1> QED
  BY <1>2 DEF Fetching, NoFetch

LEMMA FetchEnds ==
    ASSUME FetchAnswers \/ FetchFails
    PROVE  Fetching /\ ~Fetching'
BY DEF FetchAnswers, FetchFails, Fetching

LEMMA NoFetchIs ==
    ASSUME NEW f, f = [NoFetch EXCEPT !.clean = FALSE]
    PROVE  f = NoFetch
<1>1. f = [[age |-> -1, clean |-> FALSE] EXCEPT !.clean = FALSE]
  BY DEF NoFetch
<1>2. f = [age |-> -1, clean |-> FALSE]
  BY <1>1
<1> QED
  BY <1>2 DEF NoFetch

LEMMA FetchInOutage ==
    ASSUME Types, Outage
    PROVE  /\ Fetching' <=> Fetching
           /\ Fetching => fetch'.age = fetch.age
           /\ fetch'.clean = FALSE
<1>1. fetch' = [fetch EXCEPT !.clean = FALSE]
  BY DEF Outage
<1>2. CASE ~Fetching
  <2>1. fetch' = NoFetch /\ fetch = NoFetch
    BY <1>1, <1>2, NoFetchIs DEF Fetching
  <2> QED
    BY <1>2, <2>1 DEF Fetching, NoFetch
<1>3. CASE Fetching
  <2>1. fetch \in [age : 0 .. MaxFetch, clean : BOOLEAN]
    BY <1>3 DEF Types, Fetching
  <2>2. fetch'.age = fetch.age /\ fetch'.clean = FALSE /\ fetch.age \in 0 .. MaxFetch
    BY <1>1, <2>1
  <2>3. fetch'.age # -1
    BY <2>2, Params
  <2> QED
    BY <1>3, <2>2, <2>3 DEF Fetching, NoFetch
<1> QED
  BY <1>2, <1>3

LEMMA FetchAges ==
    ASSUME Types, Tick
    PROVE  /\ Fetching' <=> Fetching
           /\ Fetching => /\ fetch.age < MaxFetch /\ fetch'.age = fetch.age + 1
                          /\ fetch'.clean = fetch.clean
           /\ ~Fetching => wake > 0 /\ fetch' = fetch
<1>1. CASE ~Fetching
  BY <1>1 DEF Tick, Fetching
<1>2. CASE Fetching
  <2>1. fetch \in [age : 0 .. MaxFetch, clean : BOOLEAN]
    BY <1>2 DEF Types, Fetching
  <2>2. fetch' = [fetch EXCEPT !.age = fetch.age + 1] /\ fetch.age < MaxFetch
    BY <1>2 DEF Tick
  <2>3. fetch'.age = fetch.age + 1 /\ fetch'.clean = fetch.clean /\ fetch.age \in 0 .. MaxFetch
    BY <2>1, <2>2
  <2>4. fetch'.age # -1
    BY <2>3, Params
  <2> QED
    BY <1>2, <2>2, <2>3, <2>4 DEF Fetching, NoFetch
<1> QED
  BY <1>1, <1>2

LEMMA DownIs ==
    ASSUME NEW n \in Nat
    PROVE  Down(n) \in Nat /\ Down(n) <= n /\ (n > 0 => Down(n) = n - 1) /\ (n = 0 => Down(n) = 0)
BY DEF Down

-----------------------------------------------------------------------------
LEMMA TypesInit == Init => Types /\ Timer /\ Fetching
<1> SUFFICES ASSUME Init PROVE Types /\ Timer /\ Fetching
  OBVIOUS
<1>1. fetch = [age |-> 0, clean |-> up] /\ up \in BOOLEAN
  BY DEF Init
<1>2. fetch \in [age : 0 .. MaxFetch, clean : BOOLEAN] /\ fetch.clean = up /\ fetch.age = 0
  BY <1>1, Params
<1>3. Fetching
  BY <1>2 DEF Fetching, NoFetch
<1>4. 0 \in 0 .. Days * Day /\ 0 \in 0 .. MaxRefresh
  BY Params, Refreshes
<1> QED
  BY <1>2, <1>3, <1>4 DEF Init, Types, Timer

LEMMA TypesStep == Types /\ Next => Types'
<1> SUFFICES ASSUME Types, Next PROVE Types'
  OBVIOUS
<1>1. CASE Fire
  <2>1. window \in Nat /\ refresh \in Nat /\ wake' \in NextWake(window, refresh)
    BY <1>1, Refreshes, Params DEF Types, Fire
  <2>2. wake' \in Nat
    BY <2>1, NextWakes
  <2>3. reported' \in {"open", "closed"} \cup {reported}
    BY <1>1, ScheduleAssumption DEF Types, Fire, Walk
  <2> QED
    BY <1>1, <2>2, <2>3 DEF Types, Fire, broker
<1>2. CASE FireAndFetch
  <2>1. reported' \in {"open", "closed"} \cup {reported}
    BY <1>2, ScheduleAssumption DEF Types, FireAndFetch, Walk
  <2>2. fetch' \in [age : 0 .. MaxFetch, clean : BOOLEAN] /\ fetch'.clean = up
    BY <1>2, Params DEF Types, FireAndFetch
  <2> QED
    BY <1>2, <2>1, <2>2 DEF Types, FireAndFetch, broker
<1>3. CASE FetchAnswers
  <2>1. window' \in 0 .. Days * Day /\ window' \in Nat
    BY <1>3, AnswerReaches, Params DEF Types, FetchAnswers
  <2>2. refresh' \in 0 .. MaxRefresh /\ refresh' \in Nat
    BY <1>3, Refreshes DEF FetchAnswers
  <2>3. wake' \in Nat
    BY <1>3, <2>1, <2>2, NextWakes DEF FetchAnswers
  <2>4. reported' \in {"open", "closed"}
    BY <1>3, ScheduleAssumption DEF Types, FetchAnswers
  <2>5. fetch' = NoFetch /\ fetch'.clean = FALSE
    BY <1>3 DEF FetchAnswers, NoFetch
  <2> QED
    BY <1>3, <2>1, <2>2, <2>3, <2>4, <2>5 DEF Types, FetchAnswers, broker
<1>4. CASE FetchFails
  <2>1. refresh' \in 0 .. MaxRefresh /\ refresh' \in Nat /\ window \in Nat
    BY <1>4, Refreshes, Params DEF Types, FetchFails
  <2>2. wake' \in Nat
    BY <1>4, <2>1, NextWakes DEF FetchFails
  <2>3. fetch' = NoFetch /\ fetch'.clean = FALSE
    BY <1>4 DEF FetchFails, NoFetch
  <2> QED
    BY <1>4, <2>1, <2>2, <2>3 DEF Types, FetchFails, broker
<1>5. CASE Outage
  <2>1. fetch' \in [age : 0 .. MaxFetch, clean : BOOLEAN] \cup {NoFetch}
    <3>1. fetch' = [fetch EXCEPT !.clean = FALSE]
      BY <1>5 DEF Outage
    <3>2. CASE fetch = NoFetch
      BY <3>1, <3>2, NoFetchIs
    <3>3. CASE fetch \in [age : 0 .. MaxFetch, clean : BOOLEAN]
      BY <3>1, <3>3
    <3> QED
      BY <3>2, <3>3 DEF Types
  <2> QED
    BY <1>5, <2>1, FetchInOutage DEF Types, Outage
<1>6. CASE Recovery
  BY <1>6 DEF Types, Recovery
<1>7. CASE Revision
  BY <1>7 DEF Types, Revision
<1>8. CASE Tick
  <2>1. hour' \in Hours
    BY <1>8, Params DEF Types, Tick, Hours
  <2>2. window' \in 0 .. Days * Day /\ refresh' \in 0 .. MaxRefresh /\ wake' \in Nat
    BY <1>8, DownIs, Refreshes, Params DEF Types, Tick
  <2>3. fetch' \in [age : 0 .. MaxFetch, clean : BOOLEAN] \cup {NoFetch}
    <3>1. CASE ~Fetching
      BY <1>8, <3>1 DEF Types, Tick
    <3>2. CASE Fetching
      <4>1. fetch \in [age : 0 .. MaxFetch, clean : BOOLEAN]
        BY <3>2 DEF Types, Fetching
      <4>2. fetch' = [fetch EXCEPT !.age = fetch.age + 1] /\ fetch.age < MaxFetch
        BY <1>8, <3>2 DEF Tick
      <4>3. fetch.age + 1 \in 0 .. MaxFetch
        BY <4>1, <4>2, Params
      <4> QED
        BY <4>1, <4>2, <4>3
    <3> QED
      BY <3>1, <3>2
  <2>4. fetch'.clean = fetch.clean
    BY <1>8, FetchAges
  <2>5. late' \in Nat /\ steady' \in Nat /\ (up = FALSE => steady' = 0)
    BY <1>8 DEF Types, Tick
  <2> QED
    BY <1>8, <2>1, <2>2, <2>3, <2>4, <2>5 DEF Types, Tick
<1> QED
  BY <1>1, <1>2, <1>3, <1>4, <1>5, <1>6, <1>7, <1>8 DEF Next

-----------------------------------------------------------------------------
LEMMA TimerStep == Types /\ Timer /\ Next => Timer'
<1> SUFFICES ASSUME Types, Timer, Next, ~Fetching'
             PROVE  IF window' > 0 THEN wake' <= refresh' /\ \A n \in Ahead(window)' : wake' <= n
                    ELSE wake' <= MaxRetry
  BY DEF Timer
<1>1. /\ window \in Nat /\ refresh \in Nat /\ wake \in Nat /\ hour \in Hours
      /\ window' \in Nat /\ refresh' \in Nat /\ wake' \in Nat
  BY TypesStep, Params, Refreshes DEF Types
<1>2. ASSUME hour' = hour, wake' \in NextWake(window', refresh')
      PROVE  IF window' > 0 THEN wake' <= refresh' /\ \A n \in Ahead(window)' : wake' <= n
             ELSE wake' <= MaxRetry
  <2>1. Ahead(window)' = Ahead(window')
    BY <1>2 DEF Ahead
  <2> QED
    BY <1>1, <1>2, <2>1, NextWakes
<1>3. CASE Fire
  BY <1>2, <1>3 DEF Fire
<1>4. CASE FireAndFetch
  BY <1>4, FetchStarts
<1>5. CASE FetchAnswers
  BY <1>2, <1>5 DEF FetchAnswers
<1>6. CASE FetchFails
  BY <1>2, <1>6 DEF FetchFails
<1>7. CASE Outage \/ Recovery \/ Revision
  <2>1. window' = window /\ refresh' = refresh /\ wake' = wake /\ hour' = hour
    BY <1>7 DEF Outage, Recovery, Revision
  <2>2. ~Fetching
    <3>1. CASE Outage
      BY <3>1, FetchInOutage
    <3>2. CASE Recovery \/ Revision
      BY <3>2 DEF Recovery, Revision, Fetching
    <3> QED
      BY <1>7, <3>1, <3>2
  <2>3. Ahead(window)' = Ahead(window)
    BY <2>1 DEF Ahead
  <2> QED
    BY <2>1, <2>2, <2>3 DEF Timer
<1>8. CASE Tick
  <2>1. /\ ~Fetching /\ wake > 0 /\ hour' = (hour + 1) % Day
        /\ window' = Down(window) /\ refresh' = Down(refresh) /\ wake' = wake - 1
    BY <1>1, <1>8, FetchAges, DownIs DEF Tick
  <2>2. CASE window > 1
    <3>1. window' = window - 1 /\ wake <= refresh /\ \A n \in Ahead(window) : wake <= n
      BY <1>1, <2>1, <2>2, DownIs DEF Timer
    <3>2. wake' <= refresh'
      BY <1>1, <2>1, <3>1, DownIs
    <3>3. ASSUME NEW n \in Ahead(window)' PROVE wake' <= n
      <4>1. n \in 1 .. window' /\ (n = window' \/ (hour' + n) % Day \in Starts)
        BY <3>3 DEF Ahead
      <4>2. n \in Nat /\ n + 1 \in 1 .. window /\ (n = window' => n + 1 = window)
        BY <1>1, <2>2, <3>1, <4>1
      <4>3. (hour' + n) % Day = (hour + (n + 1)) % Day
        BY <1>1, <2>1, <4>2, Shift
      <4>4. n + 1 \in Ahead(window)
        BY <4>1, <4>2, <4>3 DEF Ahead
      <4>5. wake <= n + 1
        BY <3>1, <4>4
      <4> QED
        BY <1>1, <2>1, <4>2, <4>5
    <3> QED
      BY <1>1, <2>2, <3>1, <3>2, <3>3
  <2>3. CASE window = 1
    <3>1. 1 \in Ahead(window)
      BY <2>3 DEF Ahead
    <3>2. wake <= 1 /\ window' = 0
      BY <1>1, <2>1, <2>3, <3>1, DownIs DEF Timer
    <3> QED
      BY <1>1, <2>1, <3>2, Params
  <2>4. CASE window = 0
    BY <1>1, <2>1, <2>4, DownIs, Params DEF Timer
  <2> QED
    BY <1>1, <2>2, <2>3, <2>4
<1> QED
  BY <1>3, <1>4, <1>5, <1>6, <1>7, <1>8 DEF Next

LEMMA OnTimeStep == Types /\ Timer /\ OnTime /\ Next => OnTime'
<1> SUFFICES ASSUME Types, Timer, OnTime, Next
             PROVE  /\ late' <= MaxLate
                    /\ Wrong' => IF Fetching' THEN late' <= fetch'.age ELSE late' + wake' <= MaxLate
  BY DEF OnTime, MaxLate, MaxRetry
<1>1. /\ window \in Nat /\ refresh \in Nat /\ wake \in Nat /\ hour \in Hours /\ late \in Nat
      /\ window' \in Nat /\ refresh' \in Nat /\ wake' \in Nat /\ late' \in Nat
      /\ late <= MaxLate
  BY TypesStep, Params, Refreshes DEF Types, OnTime
<1>2. CASE Fire
  <2>1. late' = late /\ ~Wrong'
    BY <1>2 DEF Fire, Walk, Wrong
  <2> QED
    BY <1>1, <2>1
<1>3. CASE FireAndFetch
  <2>1. late' = late /\ ~Wrong'
    BY <1>1, <1>3 DEF FireAndFetch, Walk, Wrong
  <2> QED
    BY <1>1, <2>1
<1>4. CASE FetchAnswers
  <2>1. late' = late /\ ~Wrong'
    BY <1>4 DEF FetchAnswers, Wrong
  <2> QED
    BY <1>1, <2>1
<1>5. CASE FetchFails
  <2>1. late' = late /\ (Wrong' <=> Wrong) /\ window' = window /\ Fetching /\ ~Fetching'
        /\ wake' \in NextWake(window, refresh') /\ refresh' \in Retry
    BY <1>5, FetchEnds DEF FetchFails, Wrong
  <2>2. ASSUME Wrong PROVE late + wake' <= MaxLate
    <3>1. window > 0 /\ late <= fetch.age /\ fetch.age \in 0 .. MaxFetch
      BY <2>1, <2>2, FetchIs DEF OnTime, Wrong
    <3>2. wake' <= refresh' /\ refresh' <= MaxRetry
      BY <1>1, <2>1, <3>1, NextWakes, Params
    <3>3. late <= MaxFetch /\ wake' <= MaxRetry
      BY <1>1, <3>1, <3>2, Params
    <3>4. MaxLate = MaxFetch + MaxRetry /\ MaxFetch \in Nat /\ MaxRetry \in Nat
      BY Params
    <3>5. late \in Nat /\ wake' \in Nat
      BY <1>1
    <3> QED
      BY <3>3, <3>4, <3>5, Together
  <2> QED
    BY <1>1, <2>1, <2>2
<1>6. CASE Outage
  <2>1. late' = late /\ (Wrong' <=> Wrong) /\ wake' = wake
    BY <1>6 DEF Outage, Wrong
  <2> QED
    BY <1>1, <1>6, <2>1, FetchInOutage DEF OnTime
<1>7. CASE Recovery \/ Revision
  <2>1. late' = late /\ (Wrong' <=> Wrong) /\ wake' = wake /\ fetch' = fetch
    BY <1>7 DEF Recovery, Revision, Wrong
  <2> QED
    BY <1>1, <2>1 DEF OnTime, Fetching
<1>8. CASE Tick
  <2>1. late' = IF Wrong THEN late + 1 ELSE 0
    BY <1>8 DEF Tick
  <2>2. CASE Fetching
    <3>1. Fetching' /\ fetch.age < MaxFetch /\ fetch'.age = fetch.age + 1 /\ fetch.age \in 0 .. MaxFetch
      BY <1>8, <2>2, FetchAges, FetchIs
    <3>2. late' <= fetch'.age
      BY <1>1, <2>1, <2>2, <3>1 DEF OnTime
    <3>3. late' <= MaxFetch
      BY <1>1, <3>1, <3>2, Params
    <3> QED
      BY <1>1, <3>1, <3>2, <3>3, Params
  <2>3. CASE ~Fetching
    <3>1. ~Fetching' /\ wake > 0 /\ wake' = wake - 1
      BY <1>1, <1>8, <2>3, FetchAges, DownIs DEF Tick
    <3>2. CASE Wrong
      <4>1. late + wake <= MaxLate /\ late' = late + 1
        BY <2>1, <2>3, <3>2 DEF OnTime
      <4> QED
        BY <1>1, <3>1, <4>1, Params
    <3>3. CASE ~Wrong
      <4>1. late' = 0
        BY <2>1, <3>3
      <4>2. ASSUME Wrong' PROVE wake' = 0
        <5>1. window' > 0 /\ window' = Down(window) /\ reported' = reported /\ sessions' = sessions
              /\ hour' = (hour + 1) % Day /\ reported' # sessions'[hour'] /\ sessions \in Timelines
          BY <1>8, <4>2 DEF Tick, Wrong, Types
        <5>2. window > 1 /\ reported = sessions[hour]
          BY <1>1, <3>3, <5>1, DownIs DEF Wrong
        <5>3. (hour + 1) % Day \in Starts
          BY <1>1, <5>1, <5>2, SameUntilBoundary
        <5>4. 1 \in Ahead(window)
          BY <1>1, <5>2, <5>3 DEF Ahead
        <5>5. wake <= 1
          BY <1>1, <2>3, <5>2, <5>4 DEF Timer
        <5> QED
          BY <1>1, <3>1, <5>5
      <4> QED
        BY <1>1, <3>1, <4>1, <4>2, Params
    <3> QED
      BY <3>2, <3>3
  <2> QED
    BY <2>2, <2>3
<1> QED
  BY <1>2, <1>3, <1>4, <1>5, <1>6, <1>7, <1>8 DEF Next

LEMMA WaitType == Types => Wait \in Nat
<1> SUFFICES ASSUME Types PROVE Wait \in Nat
  OBVIOUS
<1>1. CASE Fetching
  <2>1. fetch.age \in 0 .. MaxFetch
    BY <1>1, FetchIs
  <2> QED
    BY <1>1, <2>1, Params DEF Wait
<1>2. CASE ~Fetching
  BY <1>2, Params, Refreshes DEF Types, Wait
<1> QED
  BY <1>1, <1>2

LEMMA WaitNext == Types /\ Next => Wait \in Nat /\ Wait' \in Nat
<1> DEFINE OK == Wait \in Nat
<1>1. Types => OK
  BY WaitType
<1> HIDE DEF OK
<1>2. Types' => OK'
  BY <1>1, PTL
<1>3. Types' => Wait' \in Nat
  BY <1>2 DEF OK
<1> QED
  BY <1>3, WaitType, TypesStep

(* A step that leaves cache and broker alone and makes no answer later.    *)
LEMMA HealingKept ==
    ASSUME Types, Healing, Wait \in Nat, Wait' \in Nat, Wait' <= Wait,
           steady' = steady, window' = window, listed' = listed,
           sessions' = sessions, timeline' = timeline
    PROVE  Healing'
<1> DEFINE d == Wait
           e == Wait'
<1>1. d \in Nat /\ e \in Nat /\ e <= d /\ window \in Nat /\ steady \in Nat
  BY Params DEF Types
<1>2. /\ d <= MaxStale
      /\ window > d \/ d <= MaxEmpty
      /\ listed = TRUE => window > d \/ steady + d <= MaxEmpty
      /\ sessions # timeline => steady + d <= MaxStale
  BY DEF Healing
<1> HIDE DEF d, e
<1>3. /\ e <= MaxStale
      /\ window > e \/ e <= MaxEmpty
      /\ listed = TRUE => window > e \/ steady + e <= MaxEmpty
      /\ sessions # timeline => steady + e <= MaxStale
  BY <1>1, <1>2, Params
<1> QED
  BY <1>3 DEF e, Healing, MaxStale, MaxEmpty, MaxRetry

LEMMA ThenCall ==
    ASSUME NEW v \in Nat, NEW n \in Nat, v <= n
    PROVE  v + MaxFetch <= n + MaxFetch
BY Params

LEMMA Transitive ==
    ASSUME NEW i \in Nat, NEW j \in Nat, NEW n \in Nat, i <= j, j <= n
    PROVE  i <= n
OBVIOUS

(* The broker has just gone, or has just changed its mind.                 *)
LEMMA HealsRevised ==
    ASSUME steady' = 0, Wait' \in Nat, Wait' <= MaxStale, window' > Wait' \/ Wait' <= MaxEmpty
    PROVE  Healing'
<1> DEFINE d == Wait'
<1>0. d \in Nat
  OBVIOUS
<1> HIDE DEF d
<1>1. 0 + d = d
  BY <1>0
<1>2. d <= MaxEmpty => 0 + d <= MaxEmpty
  BY <1>1
<1>3. d <= MaxStale => 0 + d <= MaxStale
  BY <1>1
<1> QED
  BY <1>2, <1>3 DEF d, Healing, MaxStale, MaxEmpty, MaxRetry

LEMMA HealsAnew ==
    ASSUME steady' = 0, Wait' \in Nat, Wait' <= MaxEmpty
    PROVE  Healing'
<1> DEFINE d == Wait'
<1>1. d \in Nat /\ d <= MaxEmpty
  OBVIOUS
<1> HIDE DEF d
<1>2. d <= MaxStale
  BY <1>1, Params
<1> QED
  BY <1>1, <1>2, HealsRevised DEF d

LEMMA LoseBroker ==
    ASSUME Types, Healing, Wait' \in Nat, steady' = 0, UNCHANGED <<window, wake, refresh>>,
           Fetching' <=> Fetching, Fetching => fetch'.age = fetch.age, fetch'.clean = FALSE
    PROVE  Healing'
<1>1. CASE ~Fetching
  <2>1. Wait' = Wait
    BY <1>1 DEF Wait
  <2>2. Wait' <= MaxStale /\ (window' > Wait' \/ Wait' <= MaxEmpty)
    BY <2>1 DEF Healing
  <2> QED
    BY <2>2, HealsRevised
<1>2. CASE Fetching
  <2> DEFINE n == fetch.age
  <2>1. n \in 0 .. MaxFetch /\ Wait' = MaxFetch - n + (MaxRetry + MaxFetch)
    BY <1>2, FetchIs DEF Wait
  <2> HIDE DEF n
  <2>2. MaxFetch - n + (MaxRetry + MaxFetch) <= MaxEmpty
    BY <2>1, Params
  <2>3. Wait' <= MaxEmpty
    BY <2>1, <2>2
  <2> QED
    BY <2>3, HealsAnew
<1> QED
  BY <1>1, <1>2

(* A tick brings the answer nearer by one, and the end of the window.      *)
LEMMA WaitTicks ==
    ASSUME Types, Timer, Tick, Wait \in Nat, Wait' \in Nat
    PROVE  Wait' <= Wait - 1
<1>1. /\ window \in Nat /\ refresh \in Nat /\ wake \in Nat
      /\ window' = Down(window) /\ refresh' = Down(refresh)
      /\ ~Fetching => wake' = Down(wake)
  BY Params, Refreshes DEF Types, Tick
<1>2. CASE Fetching
  <2> DEFINE n == fetch.age
             e == IF fetch.clean = TRUE THEN 0 ELSE MaxRetry + MaxFetch
  <2>1. n \in 0 .. MaxFetch /\ e \in Nat /\ Wait = MaxFetch - n + e /\ Wait' = MaxFetch - (n + 1) + e
    BY <1>2, FetchAges, FetchIs, Params DEF Wait
  <2> HIDE DEF n, e
  <2>2. MaxFetch - (n + 1) + e = (MaxFetch - n + e) - 1
    BY <2>1, Params
  <2> QED
    BY <2>1, <2>2
<1>3. CASE ~Fetching
  <2>1. ~Fetching' /\ wake > 0 /\ wake' = wake - 1
    BY <1>1, <1>3, FetchAges, DownIs
  <2>2. CASE window > 1
    <3>1. refresh > 0 /\ refresh' = refresh - 1 /\ window' > 0
      BY <1>1, <1>3, <2>1, <2>2, DownIs DEF Timer
    <3>2. Wait = refresh + MaxFetch /\ Wait' = refresh' + MaxFetch
      BY <1>1, <1>3, <2>1, <2>2, <3>1 DEF Wait
    <3> QED
      BY <1>1, <3>1, <3>2, Params
  <2>3. CASE window = 1
    <3>1. wake <= refresh /\ window' = 0
      BY <1>1, <1>3, <2>3, DownIs DEF Timer
    <3>2. Wait = refresh + MaxFetch /\ Wait' = wake' + MaxFetch
      BY <1>3, <2>1, <2>3, <3>1 DEF Wait
    <3> QED
      BY <1>1, <2>1, <3>1, <3>2, Params
  <2>4. CASE window = 0
    <3>1. window' = 0
      BY <1>1, <2>4, DownIs
    <3>2. Wait = wake + MaxFetch /\ Wait' = wake' + MaxFetch
      BY <1>3, <2>1, <2>4, <3>1 DEF Wait
    <3> QED
      BY <1>1, <2>1, <3>2, Params
  <2> QED
    BY <1>1, <2>2, <2>3, <2>4
<1> QED
  BY <1>2, <1>3

LEMMA HealingTick ==
    ASSUME Types, Timer, Healing, Tick, Wait \in Nat, Wait' \in Nat
    PROVE  Healing'
<1> DEFINE d == Wait
           e == Wait'
           w == window'
           k == steady'
<1>1. d \in Nat /\ e \in Nat /\ e <= d - 1
  BY WaitTicks
<1>2. /\ window \in Nat /\ steady \in Nat /\ w \in Nat /\ k \in Nat /\ k <= steady + 1
      /\ window - 1 <= w /\ listed' = listed /\ sessions' = sessions /\ timeline' = timeline
  BY DownIs, Params DEF Types, Tick
<1>3. /\ d <= MaxStale
      /\ window > d \/ d <= MaxEmpty
      /\ listed = TRUE => window > d \/ steady + d <= MaxEmpty
      /\ sessions # timeline => steady + d <= MaxStale
  BY DEF Healing
<1> HIDE DEF d, e, w, k
<1>4. /\ e <= MaxStale
      /\ w > e \/ e <= MaxEmpty
      /\ listed = TRUE => w > e \/ k + e <= MaxEmpty
      /\ sessions # timeline => k + e <= MaxStale
  BY <1>1, <1>2, <1>3, Params
<1> QED
  BY <1>2, <1>4 DEF d, e, w, k, Healing, MaxStale, MaxEmpty, MaxRetry

LEMMA HealingStep == Types /\ Timer /\ Healing /\ Next => Healing'
<1> SUFFICES ASSUME Types, Timer, Healing, Next PROVE Healing'
  OBVIOUS
<1>1. /\ Wait \in Nat /\ Wait' \in Nat
      /\ window \in Nat /\ refresh \in Nat /\ wake \in Nat /\ steady \in Nat /\ hour \in Hours
      /\ window' \in Nat /\ refresh' \in Nat /\ wake' \in Nat /\ steady' \in Nat
  BY WaitNext, TypesStep, Params, Refreshes DEF Types
<1>2. CASE Fire
  <2>1. /\ UNCHANGED <<steady, window, listed, sessions, timeline, refresh, fetch>>
        /\ window > 0 /\ ~Fetching /\ ~Fetching'
    BY <1>2 DEF Fire, broker, Due, Fetching
  <2>2. Wait' = Wait
    BY <2>1 DEF Wait
  <2> QED
    BY <1>1, <2>1, <2>2, HealingKept
<1>3. CASE FireAndFetch
  <2>1. /\ UNCHANGED <<steady, window, listed, sessions, timeline, up>>
        /\ ~Fetching /\ wake = 0 /\ (window = 0 \/ refresh = 0)
        /\ Fetching' /\ fetch'.age = 0 /\ fetch'.clean = up
    BY <1>3, FetchStarts DEF FireAndFetch, broker, Due
  <2>2. CASE up = TRUE
    <3>1. Wait = MaxFetch /\ Wait' = MaxFetch
      BY <1>1, <2>1, <2>2, Params DEF Wait
    <3> QED
      BY <1>1, <2>1, <3>1, HealingKept
  <2>3. CASE up = FALSE
    <3>1. steady' = 0
      BY <2>1, <2>3 DEF Types
    <3>2. Wait' = MaxFetch + (MaxRetry + MaxFetch)
      BY <2>1, <2>3, Params DEF Wait
    <3>3. Wait' <= MaxEmpty
      BY <1>1, <3>2, Params
    <3> QED
      BY <1>1, <3>1, <3>3, HealsAnew
  <2> QED
    BY <2>2, <2>3 DEF Types
<1>4. CASE FetchAnswers
  <2>1. /\ sessions' = timeline' /\ ~Fetching' /\ listed' = listed
        /\ refresh' \in SafetyNet /\ wake' \in NextWake(window', refresh')
        /\ window' = IF listed THEN Days * Day - hour ELSE 0
    BY <1>4, FetchEnds DEF FetchAnswers, broker
  <2>2. CASE listed = TRUE
    <3>1. window' > 0 /\ 2 * Interval + MaxFetch <= window'
      BY <1>1, <2>1, <2>2, AnswerReaches, Params
    <3>2. Wait' = refresh' + MaxFetch /\ refresh' <= 2 * Interval - 1
      BY <2>1, <3>1, Refreshes DEF Wait
    <3>3. Wait' <= 2 * Interval - 1 + MaxFetch
      <4>1. refresh' \in Nat /\ 2 * Interval - 1 \in Nat
        BY <1>1, Params
      <4>2. refresh' + MaxFetch <= (2 * Interval - 1) + MaxFetch
        BY <3>2, <4>1, ThenCall, Zenon
      <4> QED
        BY <3>2, <4>2
    <3>4. Wait' <= MaxStale /\ window' > Wait'
      BY <1>1, <3>1, <3>3, Params
    <3> QED
      BY <2>1, <3>4 DEF Healing, MaxStale, MaxEmpty, MaxRetry
  <2>3. CASE listed = FALSE
    <3>1. window' = 0
      BY <2>1, <2>3
    <3>2. wake' <= MaxRetry /\ Wait' = wake' + MaxFetch
      BY <1>1, <2>1, <3>1, NextWakes DEF Wait
    <3>3. Wait' <= MaxRetry + MaxFetch
      <4>1. wake' \in Nat /\ MaxRetry \in Nat
        BY <1>1, Params
      <4>2. wake' + MaxFetch <= MaxRetry + MaxFetch
        BY <3>2, <4>1, ThenCall, Zenon
      <4> QED
        BY <3>2, <4>2
    <3>4. /\ MaxRetry + MaxFetch <= MaxEmpty /\ MaxRetry + MaxFetch <= MaxStale
          /\ MaxRetry + MaxFetch \in Nat /\ MaxEmpty \in Nat /\ MaxStale \in Nat
      BY Params
    <3>5. Wait' \in Nat
      BY <1>1
    <3>6. Wait' <= MaxEmpty /\ Wait' <= MaxStale
      BY <3>3, <3>4, <3>5, Transitive, Zenon
    <3> QED
      BY <2>1, <2>3, <3>6 DEF Healing, MaxStale, MaxEmpty, MaxRetry
  <2> QED
    BY <2>2, <2>3 DEF Types
<1>5. CASE FetchFails
  <2>1. /\ UNCHANGED <<steady, window, listed, sessions, timeline>>
        /\ Fetching /\ ~Fetching' /\ fetch.clean = FALSE
        /\ wake' \in NextWake(window', refresh') /\ refresh' \in Retry
    BY <1>5, FetchEnds, FetchIs DEF FetchFails, broker
  <2>2. Wait = MaxFetch - fetch.age + (MaxRetry + MaxFetch) /\ fetch.age \in 0 .. MaxFetch
    BY <2>1, FetchIs DEF Wait
  <2>3. MaxRetry + MaxFetch <= Wait
    BY <2>2, Params
  <2>4. refresh' <= MaxRetry /\ (window' = 0 => wake' <= MaxRetry)
    BY <1>1, <2>1, NextWakes, Params
  <2>5. Wait' = (IF window' > 0 THEN refresh' ELSE wake') + MaxFetch
    BY <2>1 DEF Wait
  <2>6. Wait' <= MaxRetry + MaxFetch
    <3>1. refresh' \in Nat /\ wake' \in Nat /\ MaxRetry \in Nat /\ window' \in Nat
      BY <1>1, Params
    <3>2. CASE window' > 0
      <4>1. Wait' = refresh' + MaxFetch
        BY <2>5, <3>2
      <4>2. refresh' + MaxFetch <= MaxRetry + MaxFetch
        BY <2>4, <3>1, ThenCall, Zenon
      <4> QED
        BY <4>1, <4>2
    <3>3. CASE window' = 0
      <4>1. Wait' = wake' + MaxFetch
        BY <2>5, <3>3
      <4>2. wake' + MaxFetch <= MaxRetry + MaxFetch
        BY <2>4, <3>1, <3>3, ThenCall, Zenon
      <4> QED
        BY <4>1, <4>2
    <3> QED
      BY <3>1, <3>2, <3>3
  <2>7. Wait' <= Wait
    <3>1. Wait \in Nat /\ Wait' \in Nat /\ MaxRetry + MaxFetch \in Nat
      BY <1>1, Params
    <3> QED
      BY <2>3, <2>6, <3>1, Transitive, Zenon
  <2> QED
    BY <1>1, <2>1, <2>7, HealingKept
<1>6. CASE Outage
  <2>1. steady' = 0 /\ UNCHANGED <<window, wake, refresh>>
    BY <1>6 DEF Outage
  <2> QED
    BY <1>1, <1>6, <2>1, FetchInOutage, LoseBroker
<1>7. CASE Recovery
  <2>1. UNCHANGED <<steady, window, listed, sessions, timeline, refresh, wake, fetch>>
    BY <1>7 DEF Recovery
  <2>2. Wait' = Wait
    BY <2>1 DEF Wait, Fetching
  <2> QED
    BY <1>1, <2>1, <2>2, HealingKept
<1>8. CASE Revision
  <2>1. steady' = 0 /\ UNCHANGED <<window, wake, refresh, fetch>>
    BY <1>8 DEF Revision
  <2>2. Wait' = Wait
    BY <2>1 DEF Wait, Fetching
  <2>3. Wait' <= MaxStale /\ (window' > Wait' \/ Wait' <= MaxEmpty)
    BY <2>1, <2>2 DEF Healing
  <2> QED
    BY <1>1, <2>1, <2>3, HealsRevised
<1>9. CASE Tick
  BY <1>1, <1>9, HealingTick
<1> QED
  BY <1>2, <1>3, <1>4, <1>5, <1>6, <1>7, <1>8, <1>9 DEF Next

-----------------------------------------------------------------------------
LEMMA ScheduleInit == Init => ScheduleInv
<1> SUFFICES ASSUME Init PROVE ScheduleInv
  OBVIOUS
<1>1. Types /\ Timer /\ Fetching /\ fetch.age = 0 /\ fetch.clean = up
  <2>1. fetch = [age |-> 0, clean |-> up]
    BY DEF Init
  <2> QED
    BY <2>1, TypesInit
<1>2. window = 0 /\ late = 0 /\ steady = 0 /\ MaxLate \in Nat
  BY Params DEF Init
<1>3. OnTime
  BY <1>1, <1>2 DEF OnTime, Wrong
<1>4. Healing
  <2>1. Wait \in {MaxFetch, MaxFetch + (MaxRetry + MaxFetch)}
    BY <1>1, Params DEF Wait
  <2>2. Wait \in Nat /\ Wait <= MaxEmpty /\ Wait <= MaxStale
    BY <2>1, Params
  <2> DEFINE d == Wait
  <2>3. d \in Nat /\ d <= MaxEmpty /\ d <= MaxStale
    BY <2>2
  <2> HIDE DEF d
  <2>4. 0 + d = d
    BY <2>3
  <2>5. steady + d <= MaxEmpty /\ steady + d <= MaxStale
    BY <1>2, <2>3, <2>4
  <2> QED
    BY <2>3, <2>5 DEF d, Healing
<1> QED
  BY <1>1, <1>3, <1>4 DEF ScheduleInv

(* However long the outages and however often the day is revised, the      *)
(* timer is set before anything the loop must not miss, a wrong report is  *)
(* on its way to being put right, and an answer on its way to a cache that *)
(* is behind (monitorMarketOpen, nextWake).                                *)
THEOREM ScheduleInvariant == Spec => []ScheduleInv
<1>1. ScheduleInv /\ UNCHANGED vars => ScheduleInv'
  BY DEF ScheduleInv, Types, Timer, OnTime, Healing, Wait, Wrong, Fetching, Ahead, Hours, vars,
         broker, MaxStale, MaxEmpty, MaxLate, MaxRetry, MaxRefresh
<1>2. ScheduleInv /\ [Next]_vars => ScheduleInv'
  BY <1>1, TypesStep, TimerStep, OnTimeStep, HealingStep DEF ScheduleInv
<1> QED
  BY <1>2, ScheduleInit, PTL DEF Spec

(* Types, a refresh deadline no further than the safety net or a retry,    *)
(* and a timer that is never set past the next session boundary            *)
(* (nextWake).                                                             *)
THEOREM TypeCorrect == Spec => []TypeOK
<1>1. ScheduleInv => TypeOK
  <2> SUFFICES ASSUME Types, Timer PROVE TypeOK
    BY DEF ScheduleInv
  <2>1. ASSUME ~Fetching, window > 0 PROVE wake <= NextBoundary(window)
    <3>1. window \in Nat /\ \A n \in Ahead(window) : wake <= n
      BY <2>1, Params DEF Timer, Types
    <3>2. Ahead(window) \in SUBSET Nat /\ window \in Ahead(window)
      BY <2>1, <3>1 DEF Ahead
    <3>3. NextBoundary(window) \in Ahead(window)
      BY <3>2, LowerOf DEF NextBoundary
    <3> QED
      BY <3>1, <3>3
  <2>2. Fetching => fetch.age \in 0 .. MaxFetch /\ (fetch.clean => up)
    BY FetchIs DEF Types
  <2> QED
    BY <2>1, <2>2 DEF Types, TypeOK, MaxRefresh
<1> QED
  BY <1>1, ScheduleInvariant, PTL

(* Through an outage of any length the report disagrees with sessions that *)
(* cover now for at most one call and the retry after it, because the      *)
(* timer stands no later than the next boundary whenever no call is under  *)
(* way (nextWake, the select of monitorMarketOpen).                        *)
THEOREM WalkKeepsTimeHolds == Spec => []WalkKeepsTime
<1>1. ScheduleInv => WalkKeepsTime
  BY DEF ScheduleInv, OnTime, WalkKeepsTime
<1> QED
  BY <1>1, ScheduleInvariant, PTL

(* Whatever outages and revisions came before, once the broker answers and *)
(* keeps its timeline the cache has a window within MaxEmpty, keeps one    *)
(* from then on, and holds that timeline within MaxStale: the next answer  *)
(* is never further away than the window it must come before               *)
(* (attemptFetch, safetyNet, retryDelay).                                  *)
THEOREM CacheHealsHolds == Spec => []CacheHeals
<1>1. ScheduleInv => CacheHeals
  <2> SUFFICES ASSUME Types, Healing, listed
               PROVE  /\ steady > MaxEmpty => window > 0
                      /\ steady > MaxStale => sessions = timeline
    BY DEF ScheduleInv, CacheHeals
  <2> DEFINE d == Wait
  <2>1. d \in Nat /\ steady \in Nat /\ window \in Nat
    BY WaitType, Params DEF Types
  <2>2. /\ window > d \/ steady + d <= MaxEmpty
        /\ sessions # timeline => steady + d <= MaxStale
    BY DEF Healing, Types
  <2> HIDE DEF d
  <2> QED
    BY <2>1, <2>2, Params
<1> QED
  BY <1>1, ScheduleInvariant, PTL

(* Every change of the reported view is what sessions that cover that very *)
(* instant say of it, or the broker's answer that it lists none: an        *)
(* unanswered Schedule call never reads as a closed market                 *)
(* (monitorMarketOpen, attemptFetch).                                      *)
THEOREM OutageKeepsViewHolds == Spec => OutageKeepsView
<1>1. ASSUME Types, Next, reported' # reported
      PROVE  \/ window' > 0 /\ reported' = sessions'[hour]
             \/ Fetching /\ up /\ ~listed
  <2>1. CASE Fire \/ FireAndFetch
    BY <1>1, <2>1 DEF Fire, FireAndFetch, Walk
  <2>2. CASE FetchAnswers
    BY <1>1, <2>2, AnswerReaches, Params DEF FetchAnswers, Types
  <2>3. CASE UNCHANGED reported
    BY <1>1, <2>3
  <2> QED
    BY <1>1, <2>1, <2>2, <2>3 DEF Next, FetchFails, Outage, Recovery, Revision, Tick
<1>2. ScheduleInv /\ [Next]_vars =>
          [ reported' # reported =>
              \/ window' > 0 /\ reported' = sessions'[hour]
              \/ Fetching /\ up /\ ~listed ]_vars
  BY <1>1 DEF ScheduleInv
<1> QED
  BY <1>2, ScheduleInvariant, PTL DEF Spec, OutageKeepsView
=============================================================================
