------------------------------ MODULE ReadyGate ------------------------------
(***************************************************************************)
(* grpcclient/grpcclient.go: a gRPC connection behind a readiness gate.    *)
(* Every connection has a monitor goroutine that copies the transport's    *)
(* state into the gate; any goroutine may ask for the connection (GetConn) *)
(* and some may Close it.                                                  *)
(*                                                                         *)
(* mu covers setReady and the read of readyCh; the flags ready and closed  *)
(* are atomics that everybody reads without it.  A channel here is its     *)
(* generation; a closed one is in `signalled'.                             *)
(***************************************************************************)
EXTENDS Integers

CONSTANTS
    Conn,      \* connections, dialled or not
    Caller,    \* goroutines that ask for a connection
    Closer,    \* goroutines that may close one
    MaxFlaps   \* bound on the transport's disconnections

ASSUME GateAssumption == Closer \cap {"nobody", "monitor"} = {} /\ MaxFlaps \in Nat

VARIABLES
    net,        \* conn.GetState; TransientFailure counts as connecting
    ready,      \* Client.ready
    closed,     \* Client.closed
    readyCh,    \* Client.readyCh: generation of the current channel
    signalled,  \* generations whose channel is closed
    closedCh,   \* is Client.closedCh closed?
    lock,       \* Client.mu: who holds it, on its way to which state
    mon,        \* the monitor goroutine and the state it last read
    closing,    \* how far each goroutine's Close has come
    call,       \* the GetConn calls
    flaps

transport == <<net, flaps>>
gate == <<ready, readyCh, signalled, lock>>
shut == <<closed, closedCh, closing>>
gateVars == <<transport, gate, shut, mon, call>>

Free == [by |-> "nobody", up |-> FALSE]

(* `late': was the connection closed when the call began?  `up': was it    *)
(* ready at some instant of the call?                                      *)
NoCall == [at |-> "idle", conn |-> "none", ch |-> 0, late |-> FALSE, up |-> FALSE]

Pending == {"enter", "flag", "chan", "select", "woken"}
Answer == {"conn", "closed"}

GateInit ==
    /\ net = [c \in Conn |-> "none"] /\ flaps = 0
    /\ ready = [c \in Conn |-> FALSE]
    /\ readyCh = [c \in Conn |-> 0] /\ signalled = [c \in Conn |-> {}]
    /\ lock = [c \in Conn |-> Free]
    /\ closed = [c \in Conn |-> FALSE] /\ closedCh = [c \in Conn |-> FALSE]
    /\ closing = [c \in Conn |-> [k \in Closer |-> "no"]]
    /\ mon = [c \in Conn |-> [at |-> "none", saw |-> "none"]]
    /\ call = [k \in Caller |-> NoCall]

-----------------------------------------------------------------------------
(* The transport, by itself. *)

NetUp(c) ==
    /\ net[c] = "connecting"
    /\ net' = [net EXCEPT ![c] = "ready"]
    /\ UNCHANGED <<flaps, gate, shut, mon, call>>

NetDown(c, state) ==
    /\ net[c] = "ready" /\ flaps < MaxFlaps
    /\ net' = [net EXCEPT ![c] = state]
    /\ flaps' = flaps + 1
    /\ UNCHANGED <<gate, shut, mon, call>>

-----------------------------------------------------------------------------
(* newClient: connect, wait up to five seconds, start the monitor. *)

Dial(c) ==
    /\ net[c] = "none"
    /\ net' = [net EXCEPT ![c] = "connecting"]
    /\ mon' = [mon EXCEPT ![c].at = "dialing"]
    /\ UNCHANGED <<flaps, gate, shut, call>>

(* newClient has returned it. *)
Given(c) == mon[c].at \notin {"none", "dialing"}

(* Nobody else has the client yet: setReady(true) is one step. *)
DialReady(c) ==
    /\ mon[c].at = "dialing" /\ net[c] = "ready"
    /\ ready' = [ready EXCEPT ![c] = TRUE]
    /\ signalled' = [signalled EXCEPT ![c] = @ \cup {readyCh[c]}]
    /\ mon' = [mon EXCEPT ![c].at = "loop"]
    /\ UNCHANGED <<transport, readyCh, lock, shut, call>>

DialTimeout(c) ==
    /\ mon[c].at = "dialing"
    /\ net' = [net EXCEPT ![c] = "shutdown"]
    /\ mon' = [mon EXCEPT ![c].at = "done"]
    /\ UNCHANGED <<flaps, gate, shut, call>>

-----------------------------------------------------------------------------
(* setReady, in two steps: take the mutex, look at closed and store the    *)
(* flag; then act on the channel and let go.  Between them others read the *)
(* flag.                                                                   *)

Raised(c) ==
    [ k \in Caller |-> IF call[k].conn = c /\ call[k].at \in Pending
                       THEN [call[k] EXCEPT !.up = TRUE] ELSE call[k] ]

(* Mutant: a READY read before Close may be stored after it. *)
SetFlagAnyway(c, p, up) ==
    /\ lock[c] = Free
    /\ IF up = ready[c]
       THEN UNCHANGED <<ready, lock, call>>
       ELSE /\ ready' = [ready EXCEPT ![c] = up]
            /\ lock' = [lock EXCEPT ![c] = [by |-> p, up |-> up]]
            /\ call' = IF up THEN Raised(c) ELSE call
    /\ UNCHANGED <<readyCh, signalled>>

SetFlag(c, p, up) ==
    /\ lock[c] = Free
    /\ IF (up /\ closed[c]) \/ up = ready[c]
       THEN UNCHANGED <<ready, lock, call>>
       ELSE /\ ready' = [ready EXCEPT ![c] = up]
            /\ lock' = [lock EXCEPT ![c] = [by |-> p, up |-> up]]
            /\ call' = IF up THEN Raised(c) ELSE call
    /\ UNCHANGED <<readyCh, signalled>>

(* Mutant: the channel of a gate that went down is used again. *)
SetChannelReused(c) ==
    /\ lock[c] # Free
    /\ signalled' = IF lock[c].up THEN [signalled EXCEPT ![c] = @ \cup {readyCh[c]}]
                    ELSE signalled
    /\ lock' = [lock EXCEPT ![c] = Free]
    /\ UNCHANGED <<transport, ready, readyCh, shut, mon, call>>

(* Mutant: going up, too, makes a new channel before it closes one. *)
SetChannelFresh(c) ==
    /\ lock[c] # Free
    /\ readyCh' = [readyCh EXCEPT ![c] = @ + 1]
    /\ signalled' = IF lock[c].up THEN [signalled EXCEPT ![c] = @ \cup {readyCh[c] + 1}]
                    ELSE signalled
    /\ lock' = [lock EXCEPT ![c] = Free]
    /\ UNCHANGED <<transport, ready, shut, mon, call>>

SetChannel(c) ==
    /\ lock[c] # Free
    /\ IF lock[c].up
       THEN /\ signalled' = [signalled EXCEPT ![c] = @ \cup {readyCh[c]}]
            /\ UNCHANGED readyCh
       ELSE /\ readyCh' = [readyCh EXCEPT ![c] = @ + 1]
            /\ UNCHANGED signalled
    /\ lock' = [lock EXCEPT ![c] = Free]
    /\ UNCHANGED <<transport, ready, shut, mon, call>>

-----------------------------------------------------------------------------
(* monitor: look at closed and read the state, then (no lock spans the     *)
(* two) set the gate and reconnect an idle transport, then wait for a      *)
(* change or five seconds.  Connect does nothing to a transport that is    *)
(* no longer idle; nothing looks at the transport before setReady lets     *)
(* the mutex go, so it may as well come first.                             *)

MonitorRead(c) ==
    /\ mon[c].at = "loop" /\ lock[c].by # "monitor"
    /\ mon' = [mon EXCEPT ![c] = IF closed[c] THEN [at |-> "done", saw |-> "none"]
                                 ELSE [at |-> "set", saw |-> net[c]]]
    /\ UNCHANGED <<transport, gate, shut, call>>

MonitorSet(c) ==
    /\ mon[c].at = "set"
    /\ SetFlag(c, "monitor", mon[c].saw = "ready")
    /\ net' = IF mon[c].saw = "idle" /\ net[c] = "idle"
              THEN [net EXCEPT ![c] = "connecting"] ELSE net
    /\ mon' = [mon EXCEPT ![c] = [ at |-> IF mon[c].saw = "shutdown" THEN "done" ELSE "loop",
                                   saw |-> "none" ]]
    /\ UNCHANGED <<flaps, shut>>

Monitor(c) == MonitorRead(c) \/ MonitorSet(c)

-----------------------------------------------------------------------------
(* Close. *)

CloseAt(c, k, step) == closing[c][k] = step /\ lock[c].by # k

BeginClose(c, k) ==
    /\ CloseAt(c, k, "no")
    /\ Given(c)
    /\ closed' = [closed EXCEPT ![c] = TRUE]
    /\ closing' = [closing EXCEPT ![c][k] = "flagged"]
    /\ UNCHANGED <<transport, gate, closedCh, mon, call>>

(* closeOnce *)
CloseAnnounce(c, k) ==
    /\ CloseAt(c, k, "flagged")
    /\ closedCh' = [closedCh EXCEPT ![c] = TRUE]
    /\ closing' = [closing EXCEPT ![c][k] = "announced"]
    /\ UNCHANGED <<transport, gate, closed, mon, call>>

CloseDown(c, k) ==
    /\ CloseAt(c, k, "announced")
    /\ SetFlag(c, k, FALSE)
    /\ closing' = [closing EXCEPT ![c][k] = "down"]
    /\ UNCHANGED <<transport, closed, closedCh, mon>>

CloseConn(c, k) ==
    /\ CloseAt(c, k, "down")
    /\ net' = [net EXCEPT ![c] = "shutdown"]
    /\ closing' = [closing EXCEPT ![c][k] = "done"]
    /\ UNCHANGED <<flaps, gate, closed, closedCh, mon, call>>

CloseOn(c, k) == CloseAnnounce(c, k) \/ CloseDown(c, k) \/ CloseConn(c, k)

-----------------------------------------------------------------------------
(* GetConn. *)

Reach(k, at, ch) ==
    /\ call' = [call EXCEPT ![k].at = at, ![k].ch = ch]
    /\ UNCHANGED <<transport, gate, shut, mon>>

(* ErrClosed *)
Refuse(k) ==
    /\ call' = [call EXCEPT ![k] = [NoCall EXCEPT !.at = "closed", !.conn = call[k].conn]]
    /\ UNCHANGED <<transport, gate, shut, mon>>

(* The caller has the client, and calls it. *)
Enter(k, c) ==
    /\ call[k].at = "idle" /\ Given(c)
    /\ call' = [call EXCEPT ![k] = [ at |-> "enter", conn |-> c, ch |-> 0,
                                     late |-> closed[c], up |-> ready[c] ]]
    /\ UNCHANGED <<transport, gate, shut, mon>>

(* Mutant: the fast path ahead of the check of closed. *)
CheckClosedLater(k) ==
    /\ call[k].at = "enter"
    /\ IF ready[call[k].conn] THEN Reach(k, "conn", 0)
       ELSE IF closed[call[k].conn] THEN Refuse(k) ELSE Reach(k, "flag", 0)

CheckClosed(k) ==
    /\ call[k].at = "enter"
    /\ IF closed[call[k].conn] THEN Refuse(k) ELSE Reach(k, "flag", 0)

CheckReady(k) ==
    /\ call[k].at = "flag"
    /\ Reach(k, IF ready[call[k].conn] THEN "conn" ELSE "chan", 0)

(* getReadyCh *)
TakeChannel(k) ==
    /\ call[k].at = "chan" /\ lock[call[k].conn] = Free
    /\ Reach(k, "select", readyCh[call[k].conn])

Woken(k) ==
    /\ call[k].at = "select" /\ call[k].ch \in signalled[call[k].conn]
    /\ Reach(k, "woken", 0)

ToldClosed(k) ==
    /\ call[k].at = "select" /\ closedCh[call[k].conn]
    /\ Refuse(k)

(* ctx.Done *)
GiveUp(k) ==
    /\ call[k].at = "select"
    /\ call' = [call EXCEPT ![k] = NoCall]
    /\ UNCHANGED <<transport, gate, shut, mon>>

CheckWoken(k) ==
    /\ call[k].at = "woken"
    /\ IF closed[call[k].conn] THEN Refuse(k) ELSE Reach(k, "conn", 0)

Return(k) ==
    /\ call[k].at \in Answer
    /\ call' = [call EXCEPT ![k] = NoCall]
    /\ UNCHANGED <<transport, gate, shut, mon>>

GetConnOn(k) ==
    \/ CheckClosed(k) \/ CheckReady(k) \/ TakeChannel(k)
    \/ Woken(k) \/ ToldClosed(k) \/ CheckWoken(k)

-----------------------------------------------------------------------------
(* What goes on by itself, and with what a client adds. *)

GateRuns ==
    \/ \E c \in Conn : NetUp(c) \/ NetDown(c, "idle") \/ NetDown(c, "connecting")
    \/ \E c \in Conn : SetChannel(c) \/ Monitor(c)
    \/ \E c \in Conn, k \in Closer : CloseOn(c, k)
    \/ \E k \in Caller : GetConnOn(k) \/ GiveUp(k) \/ Return(k)

GateNext ==
    \/ GateRuns
    \/ \E c \in Conn : Dial(c) \/ DialReady(c) \/ DialTimeout(c)
    \/ \E c \in Conn, k \in Closer : BeginClose(c, k)
    \/ \E k \in Caller, c \in Conn : Enter(k, c)

GateSpec == GateInit /\ [][GateNext]_gateVars

(* Goroutines run (a Close has finitely many steps, so one condition does  *)
(* for all of them); nothing is assumed of the network, of dials, or of a  *)
(* caller's context.                                                       *)
GateFairness ==
    /\ \A c \in Conn : WF_gateVars(SetChannel(c) \/ Monitor(c))
    /\ WF_gateVars(\E c \in Conn, k \in Closer : CloseOn(c, k))
    /\ \A k \in Caller : WF_gateVars(GetConnOn(k))

-----------------------------------------------------------------------------
NetState == {"none", "idle", "connecting", "ready", "shutdown"}

LockState == [by : {"nobody", "monitor"} \cup Closer, up : BOOLEAN]
CloseStep == {"no", "flagged", "announced", "down", "done"}
MonState == [at : {"none", "dialing", "loop", "set", "done"}, saw : NetState]
CallState == [ at : {"idle"} \cup Pending \cup Answer, conn : Conn \cup {"none"},
               ch : Nat, late : BOOLEAN, up : BOOLEAN ]

GateTypeOK ==
    /\ net \in [Conn -> NetState] /\ flaps \in Nat
    /\ ready \in [Conn -> BOOLEAN] /\ closed \in [Conn -> BOOLEAN]
    /\ readyCh \in [Conn -> Nat] /\ signalled \in [Conn -> SUBSET Nat]
    /\ closedCh \in [Conn -> BOOLEAN] /\ \A c \in Conn : closedCh[c] => closed[c]
    /\ lock \in [Conn -> LockState] /\ mon \in [Conn -> MonState]
    /\ closing \in [Conn -> [Closer -> CloseStep]]
    /\ call \in [Caller -> CallState]

(* A closed client never becomes ready again, whatever the monitor read of *)
(* the transport before Close ran (setReady's check under the lock).       *)
ClosedStaysDown ==
    \A c \in Conn, k \in Closer : closing[c][k] \in {"down", "done"} => ~ready[c]

(* An answer is true of the call: a call that began on a closed client is  *)
(* refused, and one that returns the connection saw it ready at some       *)
(* instant between its start and its end, never on the strength of a       *)
(* channel left over from an earlier spell (GetConn, setReady).            *)
AnswersTrue ==
    \A k \in Caller :
        /\ call[k].at = "conn" => ~call[k].late /\ call[k].up
        /\ call[k].at = "closed" => closed[call[k].conn]

(* No channel is closed twice (a panic), and between two calls of setReady *)
(* the channel agrees with the flag.                                       *)
ChannelMatchesFlag ==
    \A c \in Conn :
        /\ lock[c] # Free /\ lock[c].up => readyCh[c] \notin signalled[c]
        /\ lock[c] = Free => (readyCh[c] \in signalled[c] <=> ready[c])

(* Nobody is stranded on a channel that was replaced: a caller that waits  *)
(* while the gate is ready or closed gets its answer, with no deadline of  *)
(* its own (GetStreamConn is called without one).                          *)
NobodyStranded ==
    \A k \in Caller :
        call[k].at = "select" /\ (ready[call[k].conn] \/ closed[call[k].conn])
            ~> call[k].at # "select"
=============================================================================
