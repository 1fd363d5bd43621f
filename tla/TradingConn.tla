----------------------------- MODULE TradingConn -----------------------------
(***************************************************************************)
(* trade/finam/auth.go: the client's connections through its life.         *)
(* NewClient dials the trading and then the streaming connection and       *)
(* starts the auth monitor; the monitor may replace the trading connection *)
(* (reconnectTrading) while other goroutines ask for it (GetConn) and      *)
(* while the client is closed.  A trading connection is a ReadyGate; the   *)
(* streaming one, which nothing replaces, is one too, so that all there is *)
(* to say here is when it is dialled and closed.                           *)
(*                                                                         *)
(* Time is left out: an attempt fails when it likes, and a streak of       *)
(* failures is long enough when it likes.                                  *)
(***************************************************************************)
EXTENDS ReadyGate

ASSUME ConnAssumption == {"client", "auth"} \subseteq Closer /\ "none" \notin Conn

VARIABLES
    boot,       \* how far NewClient has come
    cur,        \* Client.grpcClient
    stream,     \* Client.streamClient: not dialled, open or closed
    stopped,    \* Client.closed, and Client.stop closed
    shutting,   \* how far Close has come
    target,     \* the trading connection that Close read
    auth,       \* the auth monitor
    failing,    \* is failingSince set?
    new, old    \* reconnectTrading's newConn and old

client == <<boot, cur, stream>>
ending == <<stopped, shutting, target>>
monitoring == <<auth, failing, new, old>>
vars == <<gateVars, client, ending, monitoring>>

Init ==
    /\ GateInit
    /\ boot = "start" /\ cur = "none" /\ stream = "none"
    /\ stopped = FALSE /\ shutting = "no" /\ target = "none"
    /\ auth = "none" /\ failing = FALSE /\ new = "none" /\ old = "none"

-----------------------------------------------------------------------------
(* NewClient. *)

(* Which of the undialled connections comes next makes no difference.      *)
Fresh(c) == net[c] = "none" /\ c = CHOOSE d \in Conn : net[d] = "none"

DialTrading(c) ==
    /\ boot = "start" /\ Fresh(c) /\ Dial(c)
    /\ boot' = "trading" /\ cur' = c
    /\ UNCHANGED <<stream, ending, monitoring>>

TradingReady ==
    /\ boot = "trading" /\ DialReady(cur)
    /\ boot' = "dialed"
    /\ UNCHANGED <<cur, stream, ending, monitoring>>

(* With the streaming connection up the monitor starts.                    *)
DialStream ==
    /\ boot = "dialed"
    /\ boot' = "auth" /\ auth' = "top" /\ stream' = "open"
    /\ UNCHANGED <<gateVars, cur, ending, failing, new, old>>

TradingFails ==
    /\ boot = "trading" /\ DialTimeout(cur)
    /\ boot' = "failed"
    /\ UNCHANGED <<cur, stream, ending, monitoring>>

(* A streaming connection that cannot be dialled takes the trading         *)
(* connection down with it.                                                *)
StreamFails ==
    /\ boot = "dialed" /\ BeginClose(cur, "client")
    /\ boot' = "failed"
    /\ UNCHANGED <<cur, stream, ending, monitoring>>

-----------------------------------------------------------------------------
(* Close, by whoever has the client (once), or by NewClient when the first *)
(* token does not come in time.  It closes the streaming connection first, *)
(* and reads grpcClient only then.                                         *)

Stop ==
    /\ boot \in {"auth", "up"} /\ shutting = "no"
    /\ stopped' = TRUE /\ shutting' = "stopped"
    /\ boot' = IF boot = "auth" THEN "failed" ELSE boot
    /\ UNCHANGED <<gateVars, cur, stream, target, monitoring>>

CloseStream ==
    /\ shutting = "stopped"
    /\ shutting' = "streaming" /\ stream' = "closed"
    /\ UNCHANGED <<gateVars, boot, cur, stopped, target, monitoring>>

ReadTarget ==
    /\ shutting = "streaming"
    /\ shutting' = "read" /\ target' = cur
    /\ UNCHANGED <<gateVars, client, stopped, monitoring>>

CloseTarget ==
    /\ shutting = "read" /\ BeginClose(target, "client")
    /\ shutting' = "trading"
    /\ UNCHANGED <<client, stopped, target, monitoring>>

ClosedAll ==
    /\ shutting = "trading" /\ closing[target]["client"] = "done"
    /\ shutting' = "done"
    /\ UNCHANGED <<gateVars, client, stopped, target, monitoring>>

Shutdown == CloseStream \/ ReadTarget \/ CloseTarget \/ ClosedAll

-----------------------------------------------------------------------------
(* monitor: attempts, the sleeps between them, and reconnectTrading.       *)

(* Mutant: the loop does not look at closed. *)
AuthTopAnyway ==
    /\ auth = "top"
    /\ auth' = "attempt"
    /\ UNCHANGED <<gateVars, client, ending, failing, new, old>>

AuthTop ==
    /\ auth = "top"
    /\ auth' = IF stopped THEN "done" ELSE "attempt"
    /\ UNCHANGED <<gateVars, client, ending, failing, new, old>>

(* The attempt works only over a transport that works; the first token     *)
(* lets NewClient return.                                                  *)
AuthWorks ==
    /\ auth = "attempt" /\ net[cur] = "ready"
    /\ auth' = "sleep" /\ failing' = FALSE
    /\ boot' = IF boot = "auth" THEN "up" ELSE boot
    /\ UNCHANGED <<gateVars, cur, stream, ending, new, old>>

(* handleAuthFailure, short of the threshold.                              *)
AuthFails ==
    /\ auth = "attempt"
    /\ auth' = "sleep" /\ failing' = TRUE
    /\ UNCHANGED <<gateVars, client, ending, new, old>>

(* The first failure only starts the streak.                               *)
Redial(c) ==
    /\ auth = "attempt" /\ failing /\ Fresh(c) /\ Dial(c)
    /\ auth' = "dialing" /\ new' = c
    /\ UNCHANGED <<client, ending, failing, old>>

(* Mutant: the error of the dial is not looked at. *)
RedialFailsSwaps ==
    /\ auth = "dialing" /\ DialTimeout(new)
    /\ auth' = "swap" /\ new' = "none"
    /\ UNCHANGED <<client, ending, failing, old>>

RedialFails ==
    /\ auth = "dialing" /\ DialTimeout(new)
    /\ auth' = "sleep" /\ new' = "none"
    /\ UNCHANGED <<client, ending, failing, old>>

Redialed ==
    /\ auth = "dialing" /\ DialReady(new)
    /\ auth' = "swap"
    /\ UNCHANGED <<client, ending, failing, new, old>>

(* Mutant: the old connection is closed before the new one is in place.    *)
SwapLate ==
    /\ auth = "swap"
    /\ IF old = "none"
       THEN BeginClose(cur, "auth") /\ old' = cur /\ UNCHANGED <<cur, new, auth>>
       ELSE /\ closing[old]["auth"] = "done"
            /\ cur' = new /\ new' = "none" /\ auth' = "closingOld"
            /\ UNCHANGED <<gateVars, old>>
    /\ UNCHANGED <<boot, stream, ending, failing>>

Swap ==
    /\ auth = "swap"
    /\ cur' = new /\ old' = cur /\ new' = "none"
    /\ auth' = "closeOld"
    /\ UNCHANGED <<gateVars, boot, stream, ending, failing>>

(* Mutant: the old connection is left to itself. *)
CloseOldForgotten ==
    /\ auth = "closeOld"
    /\ auth' = "sleep" /\ old' = "none"
    /\ UNCHANGED <<gateVars, client, ending, failing, new>>

CloseOld ==
    /\ auth = "closeOld" /\ BeginClose(old, "auth")
    /\ auth' = "closingOld"
    /\ UNCHANGED <<client, ending, failing, new, old>>

OldClosed ==
    /\ auth = "closingOld" /\ closing[old]["auth"] = "done"
    /\ auth' = "sleep" /\ old' = "none"
    /\ UNCHANGED <<gateVars, client, ending, failing, new>>

(* The timer, or stop.  A closed stop does not beat a timer that also ran  *)
(* out, and the loop looks at closed again.                                *)
WakeUp ==
    /\ auth = "sleep"
    /\ auth' = "top"
    /\ UNCHANGED <<gateVars, client, ending, failing, new, old>>

WakeStopped ==
    /\ auth = "sleep" /\ stopped
    /\ auth' = "done"
    /\ UNCHANGED <<gateVars, client, ending, failing, new, old>>

Reconnect ==
    \/ RedialFails \/ Redialed \/ Swap \/ CloseOld \/ OldClosed
AuthCycle ==
    \/ AuthTop \/ AuthWorks \/ AuthFails \/ WakeUp \/ WakeStopped \/ Reconnect

-----------------------------------------------------------------------------
(* GetConn, once NewClient has returned: the pointer is read under connMu, *)
(* and its gate asked only then.                                           *)

Ask(k, c) ==
    /\ boot = "up" /\ c = cur
    /\ Enter(k, c)
    /\ UNCHANGED <<client, ending, monitoring>>

Underneath == GateRuns /\ UNCHANGED <<client, ending, monitoring>>

Next ==
    \/ \E c \in Conn : DialTrading(c) \/ Redial(c)
    \/ TradingReady \/ TradingFails \/ DialStream \/ StreamFails
    \/ Stop \/ Shutdown \/ AuthCycle
    \/ \E k \in Caller, c \in Conn : Ask(k, c)
    \/ Underneath

Spec == Init /\ [][Next]_vars

(* Goroutines run, and a dial ends one way or the other.                   *)
Fairness ==
    /\ GateFairness
    /\ WF_vars(AuthCycle) /\ WF_vars(Shutdown)
    /\ WF_vars(TradingReady \/ TradingFails) /\ WF_vars(DialStream \/ StreamFails)

LiveSpec == Spec /\ Fairness

-----------------------------------------------------------------------------
Held == Conn \cup {"none"}

ClientTypeOK ==
    /\ boot \in {"start", "trading", "dialed", "auth", "up", "failed"}
    /\ {cur, target, new, old} \subseteq Held
    /\ stream \in {"none", "open", "closed"}
    /\ stopped \in BOOLEAN /\ failing \in BOOLEAN
    /\ shutting \in {"no", "stopped", "streaming", "read", "trading", "done"}
    /\ auth \in {"none", "top", "attempt", "sleep", "dialing", "swap", "closeOld",
                 "closingOld", "done"}
    /\ new \in Conn <=> auth \in {"dialing", "swap"}
    /\ old \in Conn <=> auth \in {"closeOld", "closingOld"}

TypeOK == GateTypeOK /\ ClientTypeOK

(* A forced reconnect never leaves the client without a connection it can  *)
(* use, whether or not the redial succeeds: what GetConn hands out is a    *)
(* connection, the monitor never closes it, and while the client is open   *)
(* nobody has (reconnectTrading dials first, swaps, and only then closes). *)
CurrentLives ==
    boot = "up" =>
        /\ cur \in Conn
        /\ closing[cur]["auth"] = "no"
        /\ ~stopped => ~closed[cur]

(* Nothing is left half done.  A connection that was replaced, or that     *)
(* could not be dialled, is shut down and its monitor goroutine ends       *)
(* (reconnectTrading, newClient); and once the client is closed, Close     *)
(* returns and the auth monitor stops, whatever it was in the middle of.   *)
Superseded ==
    { c \in Conn \ {cur, new, old} :
        net[c] # "none" /\ ~(net[c] = "shutdown" /\ mon[c].at = "done") }
LooseEnds == Superseded # {} \/ (stopped /\ ~(shutting = "done" /\ auth = "done"))
LooseEndsTied == LooseEnds ~> ~LooseEnds

(* Violated.  "Close tears down BOTH connections (trading and streaming)   *)
(* and stops the auth monitor": once both are done nothing is open.        *)
NothingLeaks ==
    shutting = "done" /\ auth = "done" =>
        stream = "closed" /\ \A c \in Conn : net[c] \in {"none", "shutdown"}
=============================================================================
