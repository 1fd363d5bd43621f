--------------------------- MODULE MarketSchedule ---------------------------
(***************************************************************************)
(* trade/finam/assets.go, monitorMarketOpen: one goroutine per symbol that *)
(* reports whether the market is open.  It walks a cached list of sessions *)
(* by its own clock and renews the list from the broker's Schedule call.   *)
(*                                                                         *)
(* Time is discrete and kept relative, so that a run never ends: the       *)
(* position in a day, the ticks of cached window ahead, and what is left   *)
(* of each timer.  The broker's timeline of a day may be revised, and the  *)
(* broker may be out of reach for any length of time.                      *)
(***************************************************************************)
EXTENDS Integers, FiniteSets

CONSTANTS
    Day,        \* ticks in a day
    Starts,     \* positions of the day where a session starts
    Timelines,  \* the timelines of a day the broker may announce
    Days,       \* a Schedule answer reaches to the end of this many days
    Interval,   \* base of the safety net, in [Interval, 2 * Interval)
    Retry,      \* delays after a failed fetch
    MaxFetch    \* unaryRPCTimeout

Hours == 0 .. Day - 1

ASSUME ScheduleAssumption ==
    /\ Day \in Nat \ {0} /\ Days \in Nat \ {0}
    /\ Starts \subseteq Hours /\ 0 \in Starts
    /\ Interval \in Nat \ {0} /\ MaxFetch \in Nat \ {0}
    /\ Retry \subseteq Nat \ {0} /\ \E n \in Retry : \A m \in Retry : n >= m
    /\ \A t \in Timelines : /\ t \in [Hours -> {"open", "closed"}]
                            /\ \A h \in Hours \ Starts : t[h] = t[h - 1]

(* An answer reaches further than the longest safety net (about three days *)
(* against some hours).                                                    *)
ASSUME WindowAssumption == 2 * Interval + MaxFetch <= (Days - 1) * Day + 1

VARIABLES
    hour,       \* position in the day
    timeline,   \* what the broker would answer
    listed,     \* does an answer hold any session? (an expired contract has none)
    up,         \* does the broker answer?
    sessions,   \* the timeline cached in `sessions'
    window,     \* ticks ahead that the cached sessions cover
    wake,       \* what is left of the loop's timer
    refresh,    \* what is left until nextRefreshAt
    fetch,      \* the call in flight: its age, and was the broker up all along?
    reported,   \* last onUpdate
    late,       \* how long the report has disagreed with the cached sessions
    steady      \* for how long the broker has answered with this timeline

broker == <<timeline, listed, up, steady>>
vars == <<hour, broker, sessions, window, wake, refresh, fetch, reported, late>>

NoFetch == [age |-> -1, clean |-> FALSE]
Fetching == fetch # NoFetch

Lower(S) == CHOOSE n \in S : \A m \in S : n <= m
Upper(S) == CHOOSE n \in S : \A m \in S : n >= m

MaxRetry == Upper(Retry)

(* Longest time the report may disagree with the cached sessions: a        *)
(* boundary passes while a fetch hangs, the fetch fails, and the next look *)
(* at the cache is the retry.                                              *)
MaxLate == MaxFetch + MaxRetry

(* Longest time an exhausted window stays so once the broker answers: the  *)
(* call that began in the outage, the retry, and the call that works.      *)
MaxEmpty == 2 * MaxFetch + MaxRetry

(* Longest time a revision stays unknown: the safety net and its call.     *)
MaxStale == Upper({2 * Interval - 1 + MaxFetch, MaxEmpty})

-----------------------------------------------------------------------------
(* Where sessions of a window of w ticks begin or end, strictly after now. *)
Ahead(w) == { n \in 1 .. w : n = w \/ (hour + n) % Day \in Starts }
NextBoundary(w) == Lower(Ahead(w))

(* Mutant: the deadline of the safety net also when nothing is ahead. *)
NextWakeFar(w, r) == { Lower({r} \cup Ahead(w)) }

(* Mutant: a boundary does not wake the loop. *)
NextWakeDeaf(w, r) == IF Ahead(w) = {} THEN Retry ELSE {r}

(* nextWake: with nothing ahead the short cadence, else the earlier of     *)
(* boundary and refresh.                                                   *)
NextWake(w, r) == IF Ahead(w) = {} THEN Retry ELSE { Lower({NextBoundary(w), r}) }

SafetyNet == Interval .. 2 * Interval - 1

Init ==
    /\ hour \in Hours /\ timeline \in Timelines /\ listed \in BOOLEAN /\ up \in BOOLEAN
    /\ sessions \in Timelines /\ window = 0
    /\ wake = 0 /\ refresh = 0
    /\ fetch = [age |-> 0, clean |-> up]
    /\ reported = "unknown"
    /\ late = 0 /\ steady = 0

-----------------------------------------------------------------------------
(* The timer fires.  While the window still reaches ahead of now the state *)
(* is resolved from it; a fetch is due when it does not, or when the       *)
(* refresh is.                                                             *)

Due == wake = 0 /\ ~Fetching

(* Mutant: the cache speaks even when it says nothing of now. *)
WalkOn == reported' = (IF window > 0 THEN sessions[hour] ELSE "closed")

(* Mutant: no look at the cache when a refresh is due. *)
WalkUnlessDue ==
    IF window > 0 /\ refresh > 0 THEN reported' = sessions[hour] ELSE UNCHANGED reported

Walk == IF window > 0 THEN reported' = sessions[hour] ELSE UNCHANGED reported

Fire ==
    /\ Due /\ window > 0 /\ refresh > 0
    /\ Walk /\ wake' \in NextWake(window, refresh)
    /\ UNCHANGED <<hour, broker, sessions, window, refresh, fetch, late>>

FireAndFetch ==
    /\ Due /\ (window = 0 \/ refresh = 0)
    /\ Walk
    /\ fetch' = [age |-> 0, clean |-> up]
    /\ UNCHANGED <<hour, broker, sessions, window, wake, refresh, late>>

(* attemptFetch: the list is adopted and the fresh state reported; a list  *)
(* without a session for now reads as closed.                              *)
FetchAnswers ==
    /\ Fetching /\ up
    /\ sessions' = timeline
    /\ window' = IF listed THEN Days * Day - hour ELSE 0
    /\ reported' = IF listed THEN timeline[hour] ELSE "closed"
    /\ refresh' \in SafetyNet
    /\ fetch' = NoFetch
    /\ wake' \in NextWake(window', refresh')
    /\ UNCHANGED <<hour, broker, late>>

(* Mutant: after a failure the safety net is armed as after a success. *)
FetchFailsArmed ==
    /\ Fetching /\ ~fetch.clean
    /\ refresh' \in SafetyNet
    /\ fetch' = NoFetch
    /\ wake' \in NextWake(window, refresh')
    /\ UNCHANGED <<hour, broker, sessions, window, reported, late>>

(* On failure nothing is reported.                                         *)
FetchFails ==
    /\ Fetching /\ ~fetch.clean
    /\ refresh' \in Retry
    /\ fetch' = NoFetch
    /\ wake' \in NextWake(window, refresh')
    /\ UNCHANGED <<hour, broker, sessions, window, reported, late>>

-----------------------------------------------------------------------------
(* The broker, and the clock.  A timer that is due fires before the next   *)
(* tick, and a call lasts at most MaxFetch.                                *)

Outage ==
    /\ up
    /\ up' = FALSE /\ steady' = 0
    /\ fetch' = [fetch EXCEPT !.clean = FALSE]
    /\ UNCHANGED <<hour, timeline, listed, sessions, window, wake, refresh, reported, late>>

Recovery ==
    /\ ~up
    /\ up' = TRUE
    /\ UNCHANGED <<hour, timeline, listed, steady, sessions, window, wake, refresh, fetch, reported, late>>

Revision ==
    /\ timeline' \in Timelines /\ listed' \in BOOLEAN
    /\ <<timeline', listed'>> # <<timeline, listed>>
    /\ steady' = 0
    /\ UNCHANGED <<hour, up, sessions, window, wake, refresh, fetch, reported, late>>

Down(n) == IF n > 0 THEN n - 1 ELSE 0
Wrong == window > 0 /\ reported # sessions[hour]

Tick ==
    /\ IF Fetching THEN fetch.age < MaxFetch ELSE wake > 0
    /\ hour' = (hour + 1) % Day
    /\ window' = Down(window) /\ refresh' = Down(refresh)
    /\ wake' = IF Fetching THEN wake ELSE Down(wake)
    /\ fetch' = IF Fetching THEN [fetch EXCEPT !.age = @ + 1] ELSE fetch
    /\ late' = IF Wrong THEN late + 1 ELSE 0
    /\ steady' = IF up /\ steady <= MaxStale THEN steady + 1 ELSE steady
    /\ UNCHANGED <<timeline, listed, up, sessions, reported>>

Next ==
    \/ Fire \/ FireAndFetch \/ FetchAnswers \/ FetchFails
    \/ Outage \/ Recovery \/ Revision \/ Tick

Spec == Init /\ [][Next]_vars

-----------------------------------------------------------------------------
TypeOK ==
    /\ hour \in Hours /\ timeline \in Timelines /\ sessions \in Timelines
    /\ up \in BOOLEAN /\ listed \in BOOLEAN
    /\ reported \in {"unknown", "open", "closed"}
    /\ window \in 0 .. Days * Day
    /\ refresh \in 0 .. Upper({2 * Interval - 1, MaxRetry})
    /\ Fetching => fetch.age \in 0 .. MaxFetch /\ (fetch.clean => up)
    /\ ~Fetching /\ window > 0 => wake <= NextBoundary(window)

(* Every change of the reported view is what the sessions then held say of *)
(* that very instant, or the broker's answer that it knows of none, never  *)
(* a guess: an unanswered Schedule call is not a closed market, however    *)
(* long the outage and even past the cached window (monitorMarketOpen's    *)
(* `ok' branch; the listener that stopped writing).                        *)
OutageKeepsView ==
    [][ reported' # reported =>
            \/ window' > 0 /\ reported' = sessions'[hour]
            \/ Fetching /\ up /\ ~listed ]_vars

(* The local walk goes on through an outage: the report disagrees with     *)
(* sessions that cover now for no longer than one fetch and the delay      *)
(* after it.                                                               *)
WalkKeepsTime == late <= MaxLate

(* Whatever came before (an exhausted window, an outage, a revised day),   *)
(* once the broker answers the cache heals: an exhausted window does not   *)
(* wait for the safety net but is renewed one retry later, and when the    *)
(* broker has answered with one timeline for long enough, the cache is     *)
(* that timeline and does not run out again.                               *)
CacheHeals ==
    listed => /\ steady > MaxEmpty => window > 0
              /\ steady > MaxStale => sessions = timeline

(* Violated.  "Neither can block the other", "a Schedule outage can never  *)
(* stall the local walk": while the loop waits with a window ahead of now, *)
(* the report is what the window says of now.                              *)
WalkNeverStalls ==
    ~Fetching /\ wake > 0 /\ window > 0 => reported = sessions[hour]
=============================================================================
