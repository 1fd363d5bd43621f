-------------------------- MODULE TradingConnProofs --------------------------
(***************************************************************************)
(* The connections of grpcclient.go and auth.go, proved for any number of  *)
(* connections, callers and closers.                                       *)
(*                                                                         *)
(* The gate first (ReadyGate).  The argument has three parts: where a      *)
(* connection is between any two steps of newClient, its monitor and Close *)
(* (Life), how flag, mutex and channel agree meanwhile (Signal), and what  *)
(* a GetConn call may conclude of its connection at each of its points     *)
(* (CallOK).                                                               *)
(*                                                                         *)
(* Then the client (TradingConn), whose actions are built from those of    *)
(* its gates, so that what is proved of the gate holds of the client; and  *)
(* where NewClient, the auth monitor and Close hold which connection, so   *)
(* that a forced reconnect leaves one nobody has closed.                   *)
(***************************************************************************)
EXTENDS TradingConn, TLAPS

Life(c) ==
    /\ net[c] = "none" <=> mon[c].at = "none"
    /\ ~Given(c) => lock[c] = Free /\ ~ready[c] /\ ~closed[c]
    /\ \A k \in Closer : closing[c][k] # "no" => closed[c]
    /\ \A k \in Closer : closing[c][k] \in {"down", "done"} => ~ready[c]

Signal(c) ==
    /\ \A n \in signalled[c] : n <= readyCh[c]
    /\ lock[c] # Free => /\ lock[c].up <=> ready[c]
                         /\ readyCh[c] \in signalled[c] <=> ~ready[c]
    /\ lock[c] = Free => (readyCh[c] \in signalled[c] <=> ready[c])

CallOK(k) ==
    /\ call[k].at # "idle" => call[k].conn \in Conn /\ Given(call[k].conn)
    /\ call[k].at \in Pending /\ ready[call[k].conn] => call[k].up
    /\ call[k].at = "enter" /\ call[k].late => closed[call[k].conn]
    /\ call[k].at \in {"flag", "chan", "select", "woken", "conn"} => ~call[k].late
    /\ call[k].at = "select" /\ call[k].ch \in signalled[call[k].conn] => call[k].up
    /\ call[k].at \in {"woken", "conn"} => call[k].up
    /\ call[k].at = "closed" => closed[call[k].conn]

GateInv ==
    /\ GateTypeOK
    /\ \A c \in Conn : Life(c) /\ Signal(c)
    /\ \A k \in Caller : CallOK(k)

-----------------------------------------------------------------------------
(* Records of the monitor and of a call stay records of their kind. *)

LEMMA MonMoves ==
    ASSUME NEW m \in MonState, NEW a \in {"none", "dialing", "loop", "set", "done"}
    PROVE  [m EXCEPT !.at = a] \in MonState
  BY Zenon DEF MonState

LEMMA CallMoves ==
    ASSUME NEW x \in CallState, NEW a \in {"idle"} \cup Pending \cup Answer, NEW n \in Nat
    PROVE  /\ [x EXCEPT !.at = a, !.ch = n] \in CallState
           /\ [x EXCEPT !.up = TRUE] \in CallState
  BY Zenon DEF CallState

LEMMA NoCallState ==
    ASSUME NEW x \in CallState
    PROVE  /\ NoCall \in CallState
           /\ [NoCall EXCEPT !.at = "closed", !.conn = x.conn] \in CallState
<1>1. x.conn \in Conn \cup {"none"} /\ "closed" \in {"idle"} \cup Pending \cup Answer
  BY DEF CallState, Answer
<1>2. NoCall \in CallState
  BY DEF NoCall, CallState, Pending, Answer
<1> QED
  BY <1>1, <1>2, Zenon DEF CallState

-----------------------------------------------------------------------------
(* The first state. *)
LEMMA InitInv == GateInit => GateInv
<1> SUFFICES ASSUME GateInit PROVE GateInv
  OBVIOUS
<1>1. GateTypeOK
  <2>1. Free \in LockState /\ NoCall \in CallState
    BY DEF Free, LockState, NoCall, CallState, Pending, Answer
  <2>2. [at |-> "none", saw |-> "none"] \in MonState
    BY DEF MonState, NetState
  <2> QED
    BY <2>1, <2>2 DEF GateInit, GateTypeOK, NetState, CloseStep
<1>2. ASSUME NEW c \in Conn PROVE Life(c) /\ Signal(c)
  BY <1>2 DEF GateInit, Life, Signal, Given, Free
<1>3. ASSUME NEW k \in Caller PROVE CallOK(k)
  BY <1>3 DEF GateInit, CallOK, NoCall, Pending
<1> QED
  BY <1>1, <1>2, <1>3 DEF GateInv

(* The transport by itself. *)
LEMMA NetStep ==
    ASSUME GateInv, NEW c \in Conn,
           NetUp(c) \/ NetDown(c, "idle") \/ NetDown(c, "connecting")
    PROVE  GateInv'
<1>1. /\ net' \in [Conn -> NetState] /\ flaps' \in Nat
      /\ \A d \in Conn : net'[d] = "none" <=> net[d] = "none"
  <2>1. CASE NetUp(c)
    BY <2>1 DEF NetUp, GateInv, GateTypeOK, NetState
  <2>2. CASE NetDown(c, "idle")
    BY <2>2 DEF NetDown, GateInv, GateTypeOK, NetState
  <2>3. CASE NetDown(c, "connecting")
    BY <2>3 DEF NetDown, GateInv, GateTypeOK, NetState
  <2> QED
    BY <2>1, <2>2, <2>3
<1>2. UNCHANGED <<gate, shut, mon, call>>
  BY DEF NetUp, NetDown
<1>3. GateTypeOK'
  BY <1>1, <1>2 DEF GateInv, GateTypeOK, gate, shut
<1>4. ASSUME NEW d \in Conn PROVE (Life(d) /\ Signal(d))'
  BY <1>1, <1>2, <1>4 DEF GateInv, Life, Signal, Given, gate, shut
<1>5. ASSUME NEW k \in Caller PROVE CallOK(k)'
  BY <1>2, <1>5 DEF GateInv, CallOK, Given, gate, shut
<1> QED
  BY <1>3, <1>4, <1>5 DEF GateInv

(* newClient: nobody else has the connection yet. *)
LEMMA DialStep ==
    ASSUME GateInv, NEW c \in Conn, Dial(c)
    PROVE  GateInv'
<1>1. /\ net' = [net EXCEPT ![c] = "connecting"] /\ net[c] = "none"
      /\ mon' = [mon EXCEPT ![c] = [mon[c] EXCEPT !.at = "dialing"]]
      /\ UNCHANGED <<flaps, gate, shut, call>>
  BY DEF Dial
<1>2. mon' \in [Conn -> MonState] /\ mon[c].at = "none"
  BY <1>1, MonMoves DEF GateInv, GateTypeOK, Life
<1>3. GateTypeOK'
  BY <1>1, <1>2 DEF GateInv, GateTypeOK, NetState, gate, shut
<1>4. \A d \in Conn : /\ net'[d] = "none" <=> mon'[d].at = "none"
                      /\ Given(d)' <=> Given(d)
  BY <1>1, <1>2 DEF GateInv, GateTypeOK, Life, Given
<1>5. ASSUME NEW d \in Conn PROVE (Life(d) /\ Signal(d))'
  BY <1>1, <1>4, <1>5 DEF GateInv, Life, Signal, gate, shut
<1>6. ASSUME NEW k \in Caller PROVE CallOK(k)'
  BY <1>1, <1>4, <1>6 DEF GateInv, CallOK, gate, shut
<1> QED
  BY <1>3, <1>5, <1>6 DEF GateInv

LEMMA DialReadyStep ==
    ASSUME GateInv, NEW c \in Conn, DialReady(c)
    PROVE  GateInv'
<1>1. /\ ready' = [ready EXCEPT ![c] = TRUE]
      /\ signalled' = [signalled EXCEPT ![c] = @ \cup {readyCh[c]}]
      /\ mon' = [mon EXCEPT ![c] = [mon[c] EXCEPT !.at = "loop"]]
      /\ UNCHANGED <<transport, readyCh, lock, shut, call>>
      /\ ~Given(c)
  BY DEF DialReady, Given
<1>2. mon' \in [Conn -> MonState]
  BY <1>1, MonMoves DEF GateInv, GateTypeOK
<1>3. GateTypeOK'
  BY <1>1, <1>2 DEF GateInv, GateTypeOK, transport, shut
<1>4. \A d \in Conn : /\ mon'[d].at = "none" <=> mon[d].at = "none"
                      /\ Given(d)' <=> Given(d) \/ d = c
  BY <1>1 DEF GateInv, GateTypeOK, MonState, Given, DialReady
<1>5. ASSUME NEW d \in Conn PROVE Life(d)'
  <2>1. ~closed[c] /\ \A k \in Closer : closing[c][k] = "no"
    BY <1>1 DEF GateInv, Life
  <2> QED
    BY <1>1, <1>4, <2>1 DEF GateInv, GateTypeOK, Life, transport, shut
<1>6. ASSUME NEW d \in Conn PROVE Signal(d)'
  <2>1. lock[c] = Free
    BY <1>1 DEF GateInv, Life
  <2> QED
    BY <1>1, <2>1 DEF GateInv, GateTypeOK, Signal
<1>7. ASSUME NEW k \in Caller PROVE CallOK(k)'
  <2>1. call[k].at # "idle" => call[k].conn # c
    BY <1>1 DEF GateInv, CallOK
  <2> QED
    BY <1>1, <1>4, <2>1 DEF GateInv, GateTypeOK, CallOK, Pending, shut
<1> QED
  BY <1>3, <1>5, <1>6, <1>7 DEF GateInv

LEMMA DialTimeoutStep ==
    ASSUME GateInv, NEW c \in Conn, DialTimeout(c)
    PROVE  GateInv'
<1>1. /\ net' = [net EXCEPT ![c] = "shutdown"]
      /\ mon' = [mon EXCEPT ![c] = [mon[c] EXCEPT !.at = "done"]]
      /\ UNCHANGED <<flaps, gate, shut, call>>
      /\ mon[c].at = "dialing"
  BY DEF DialTimeout
<1>2. mon' \in [Conn -> MonState]
  BY <1>1, MonMoves DEF GateInv, GateTypeOK
<1>3. GateTypeOK'
  BY <1>1, <1>2 DEF GateInv, GateTypeOK, NetState, gate, shut
<1>4. \A d \in Conn : /\ net'[d] = "none" <=> mon'[d].at = "none"
                      /\ Given(d) => Given(d)'
  BY <1>1 DEF GateInv, GateTypeOK, MonState, Life, Given
<1>5. ASSUME NEW d \in Conn PROVE (Life(d) /\ Signal(d))'
  BY <1>1, <1>4 DEF GateInv, Life, Signal, gate, shut
<1>6. ASSUME NEW k \in Caller PROVE CallOK(k)'
  BY <1>1, <1>4 DEF GateInv, CallOK, gate, shut
<1> QED
  BY <1>3, <1>5, <1>6 DEF GateInv

-----------------------------------------------------------------------------
(* setReady.  What its first half does to flag, mutex, channel and calls,  *)
(* whoever runs it: the flag never comes up on a closed connection, and    *)
(* a call that sees it up has been told.                                   *)
LEMMA SetFlagEffect ==
    ASSUME GateInv, NEW c \in Conn, NEW p \in {"monitor"} \cup Closer,
           NEW up \in BOOLEAN, SetFlag(c, p, up)
    PROVE  /\ ready' \in [Conn -> BOOLEAN] /\ lock' \in [Conn -> LockState]
           /\ call' \in [Caller -> CallState]
           /\ UNCHANGED <<readyCh, signalled>>
           /\ \A d \in Conn : Signal(d)'
           /\ \A d \in Conn \ {c} : ready'[d] = ready[d] /\ lock'[d] = lock[d]
           /\ ready'[c] => up
           /\ ready'[c] => ready[c] \/ ~closed[c]
           /\ \A k \in Caller :
                /\ call'[k].at = call[k].at /\ call'[k].conn = call[k].conn
                /\ call'[k].ch = call[k].ch /\ call'[k].late = call[k].late
                /\ call[k].up => call'[k].up
                /\ call[k].at \in Pending /\ ready'[call[k].conn] =>
                      ready[call[k].conn] \/ call'[k].up
<1>1. CASE UNCHANGED <<ready, lock, call>> /\ (up => closed[c] \/ ready[c])
                                           /\ (~up => ~ready[c])
  BY <1>1 DEF SetFlag, GateInv, GateTypeOK, Signal
<1>2. CASE /\ lock[c] = Free /\ ready[c] # up /\ ~(up /\ closed[c])
           /\ ready' = [ready EXCEPT ![c] = up]
           /\ lock' = [lock EXCEPT ![c] = [by |-> p, up |-> up]]
           /\ call' = IF up THEN Raised(c) ELSE call
  <2>1. UNCHANGED <<readyCh, signalled>>
    BY DEF SetFlag
  <2>2. [by |-> p, up |-> up] \in LockState /\ [by |-> p, up |-> up] # Free
    BY GateAssumption DEF LockState, Free
  <2>3. ready' \in [Conn -> BOOLEAN] /\ lock' \in [Conn -> LockState]
    BY <1>2, <2>2 DEF GateInv, GateTypeOK
  <2>4. ASSUME NEW d \in Conn PROVE Signal(d)'
    BY <1>2, <2>1, <2>2 DEF GateInv, GateTypeOK, Signal
  <2>5. call' \in [Caller -> CallState]
    BY <1>2, CallMoves DEF GateInv, GateTypeOK, Raised
  <2>6. ASSUME NEW k \in Caller
        PROVE  /\ call'[k].at = call[k].at /\ call'[k].conn = call[k].conn
               /\ call'[k].ch = call[k].ch /\ call'[k].late = call[k].late
               /\ call[k].up => call'[k].up
               /\ call[k].at \in Pending /\ ready'[call[k].conn] =>
                      ready[call[k].conn] \/ call'[k].up
    BY <1>2 DEF GateInv, GateTypeOK, CallOK, CallState, Raised, Pending
  <2> QED
    BY <1>2, <2>1, <2>3, <2>4, <2>5, <2>6 DEF GateInv, GateTypeOK
<1> QED
  BY <1>1, <1>2 DEF SetFlag, GateInv, GateTypeOK

(* Its second half: the channel is closed, or replaced.  A waiter whose    *)
(* channel is closed now has been told, since the flag is up.              *)
LEMMA SetChannelStep ==
    ASSUME GateInv, NEW c \in Conn, SetChannel(c)
    PROVE  GateInv'
<1>1. /\ lock[c] # Free /\ (lock[c].up <=> ready[c])
      /\ readyCh[c] \in signalled[c] <=> ~ready[c]
      /\ \A n \in signalled[c] : n <= readyCh[c]
  BY DEF SetChannel, GateInv, Signal
<1>2. /\ lock' = [lock EXCEPT ![c] = Free]
      /\ UNCHANGED <<transport, ready, shut, mon, call>>
      /\ Free \in LockState
  BY DEF SetChannel, Free, LockState
<1>3. \/ /\ ready[c]
         /\ signalled' = [signalled EXCEPT ![c] = @ \cup {readyCh[c]}]
         /\ UNCHANGED readyCh
      \/ /\ ~ready[c]
         /\ readyCh' = [readyCh EXCEPT ![c] = @ + 1]
         /\ UNCHANGED signalled
  BY <1>1 DEF SetChannel
<1>4. GateTypeOK'
  <2>1. readyCh' \in [Conn -> Nat] /\ signalled' \in [Conn -> SUBSET Nat]
    <3>1. CASE ready[c]
      BY <1>3, <3>1 DEF GateInv, GateTypeOK
    <3>2. CASE ~ready[c]
      BY <1>3, <3>2 DEF GateInv, GateTypeOK
    <3> QED
      BY <3>1, <3>2
  <2>2. lock' \in [Conn -> LockState]
    BY <1>2 DEF GateInv, GateTypeOK
  <2> QED
    BY <1>2, <2>1, <2>2 DEF GateInv, GateTypeOK, transport, shut
<1>5. ASSUME NEW d \in Conn PROVE Life(d)'
  BY <1>2 DEF GateInv, GateTypeOK, Life, Given, transport, shut
<1>6. ASSUME NEW d \in Conn PROVE Signal(d)'
  <2>1. CASE d = c
    <3>1. lock'[c] = Free /\ ready'[c] = ready[c]
      BY <1>2 DEF GateInv, GateTypeOK
    <3>2. CASE ready[c]
      <4>1. signalled'[c] = signalled[c] \cup {readyCh[c]} /\ readyCh'[c] = readyCh[c]
        BY <1>3, <3>2 DEF GateInv, GateTypeOK
      <4> QED
        BY <1>1, <2>1, <3>1, <3>2, <4>1 DEF GateInv, GateTypeOK, Signal
    <3>3. CASE ~ready[c]
      <4>1. readyCh'[c] = readyCh[c] + 1 /\ signalled'[c] = signalled[c]
        BY <1>3, <3>3 DEF GateInv, GateTypeOK
      <4>2. readyCh[c] \in Nat /\ signalled[c] \subseteq Nat
        BY DEF GateInv, GateTypeOK
      <4> QED
        BY <1>1, <2>1, <3>1, <3>3, <4>1, <4>2 DEF Signal
    <3> QED
      BY <3>2, <3>3
  <2>2. CASE d # c
    BY <1>2, <1>3, <2>2 DEF GateInv, GateTypeOK, Signal
  <2> QED
    BY <2>1, <2>2
<1>7. ASSUME NEW k \in Caller PROVE CallOK(k)'
  <2>1. CASE call[k].conn = c
    BY <1>2, <1>3, <2>1 DEF GateInv, GateTypeOK, CallOK, Given, Pending, shut
  <2>2. CASE call[k].conn # c
    BY <1>2, <1>3, <2>2 DEF GateInv, GateTypeOK, CallOK, Given, Pending, shut
  <2> QED
    BY <2>1, <2>2
<1> QED
  BY <1>4, <1>5, <1>6, <1>7 DEF GateInv

-----------------------------------------------------------------------------
(* The monitor. *)
LEMMA MonitorReadStep ==
    ASSUME GateInv, NEW c \in Conn, MonitorRead(c)
    PROVE  GateInv'
<1>1. /\ UNCHANGED <<transport, gate, shut, call>>
      /\ mon' \in [Conn -> MonState]
      /\ \A d \in Conn : /\ mon'[d].at = "none" <=> mon[d].at = "none"
                         /\ Given(d)' <=> Given(d)
  BY DEF MonitorRead, GateInv, GateTypeOK, MonState, NetState, Given
<1>2. GateTypeOK'
  BY <1>1 DEF GateInv, GateTypeOK, transport, gate, shut
<1>3. ASSUME NEW d \in Conn PROVE (Life(d) /\ Signal(d))'
  BY <1>1 DEF GateInv, Life, Signal, transport, gate, shut
<1>4. ASSUME NEW k \in Caller PROVE CallOK(k)'
  BY <1>1 DEF GateInv, CallOK, gate, shut
<1> QED
  BY <1>2, <1>3, <1>4 DEF GateInv

LEMMA MonitorSetStep ==
    ASSUME GateInv, NEW c \in Conn, MonitorSet(c)
    PROVE  GateInv'
<1> DEFINE up == mon[c].saw = "ready"
<1>1. SetFlag(c, "monitor", up) /\ UNCHANGED <<flaps, shut>>
  BY DEF MonitorSet
<1>2. /\ net' \in [Conn -> NetState] /\ mon' \in [Conn -> MonState]
      /\ \A d \in Conn : /\ net'[d] = "none" <=> mon'[d].at = "none"
                         /\ Given(d)' <=> Given(d)
      /\ Given(c)
  BY DEF MonitorSet, GateInv, GateTypeOK, MonState, NetState, Given, Life
<1> HIDE DEF up
<1>3. up \in BOOLEAN
  BY DEF up
<1>4. GateTypeOK'
  BY <1>1, <1>2, <1>3, SetFlagEffect DEF GateInv, GateTypeOK, shut
<1>5. ASSUME NEW d \in Conn PROVE Life(d)' /\ Signal(d)'
  BY <1>1, <1>2, <1>3, SetFlagEffect DEF GateInv, Life, shut
<1>6. ASSUME NEW k \in Caller PROVE CallOK(k)'
  BY <1>1, <1>2, <1>3, SetFlagEffect DEF GateInv, CallOK, Pending, shut
<1> QED
  BY <1>4, <1>5, <1>6 DEF GateInv

-----------------------------------------------------------------------------
(* Close. *)
LEMMA CloseMoves ==
    ASSUME GateTypeOK, NEW c \in Conn, NEW k \in Closer, NEW step \in CloseStep,
           closing' = [closing EXCEPT ![c][k] = step]
    PROVE  /\ closing' \in [Conn -> [Closer -> CloseStep]]
           /\ \A d \in Conn, j \in Closer :
                 \/ closing'[d][j] = closing[d][j]
                 \/ d = c /\ j = k /\ closing'[d][j] = step
<1>1. closing \in [Conn -> [Closer -> CloseStep]]
  BY DEF GateTypeOK
<1>2. [closing[c] EXCEPT ![k] = step] \in [Closer -> CloseStep]
  BY <1>1
<1> QED
  BY <1>1, <1>2

LEMMA BeginCloseStep ==
    ASSUME GateInv, NEW c \in Conn, NEW k \in Closer, BeginClose(c, k)
    PROVE  GateInv'
<1>1. /\ closed' = [closed EXCEPT ![c] = TRUE]
      /\ closing' = [closing EXCEPT ![c][k] = "flagged"]
      /\ UNCHANGED <<transport, gate, closedCh, mon, call>>
      /\ Given(c)
  BY DEF BeginClose
<1>2. /\ closing' \in [Conn -> [Closer -> CloseStep]]
      /\ \A d \in Conn, j \in Closer :
            \/ closing'[d][j] = closing[d][j]
            \/ d = c /\ j = k /\ closing'[d][j] = "flagged"
  <2>1. GateTypeOK /\ "flagged" \in CloseStep
    BY DEF GateInv, CloseStep
  <2> QED
    BY <1>1, <2>1, CloseMoves
<1>3. GateTypeOK'
  BY <1>1, <1>2 DEF GateInv, GateTypeOK, transport, gate
<1>4. ASSUME NEW d \in Conn PROVE Life(d)' /\ Signal(d)'
  <2>1. \A j \in Closer : closing'[d][j] # "no" => closed'[d]
    BY <1>1, <1>2 DEF GateInv, GateTypeOK, Life
  <2>2. ~Given(d)' => ~closed'[d]
    BY <1>1 DEF GateInv, GateTypeOK, Life, Given
  <2>3. \A j \in Closer : closing'[d][j] \in {"down", "done"} => ~ready'[d]
    BY <1>1, <1>2 DEF GateInv, Life, gate
  <2> QED
    BY <1>1, <2>1, <2>2, <2>3 DEF GateInv, Life, Signal, Given, transport, gate
<1>5. ASSUME NEW j \in Caller PROVE CallOK(j)'
  BY <1>1 DEF GateInv, GateTypeOK, CallOK, Given, gate
<1> QED
  BY <1>3, <1>4, <1>5 DEF GateInv

LEMMA CloseAnnounceStep ==
    ASSUME GateInv, NEW c \in Conn, NEW k \in Closer, CloseAnnounce(c, k)
    PROVE  GateInv'
<1>1. /\ closedCh' = [closedCh EXCEPT ![c] = TRUE]
      /\ closing' = [closing EXCEPT ![c][k] = "announced"]
      /\ UNCHANGED <<transport, gate, closed, mon, call>>
      /\ closing[c][k] = "flagged"
  BY DEF CloseAnnounce, CloseAt
<1>2. /\ closing' \in [Conn -> [Closer -> CloseStep]]
      /\ \A d \in Conn, j \in Closer :
            \/ closing'[d][j] = closing[d][j]
            \/ d = c /\ j = k /\ closing'[d][j] = "announced"
  <2>1. GateTypeOK /\ "announced" \in CloseStep
    BY DEF GateInv, CloseStep
  <2>2. closing' = [closing EXCEPT ![c][k] = "announced"]
    BY <1>1
  <2> QED
    BY <2>1, <2>2, CloseMoves
<1>3. closed[c]
  BY <1>1 DEF GateInv, Life
<1>4. GateTypeOK'
  BY <1>1, <1>2, <1>3 DEF GateInv, GateTypeOK, transport, gate
<1>5. ASSUME NEW d \in Conn PROVE Life(d)' /\ Signal(d)'
  BY <1>1, <1>2, <1>3 DEF GateInv, Life, Signal, Given, transport, gate
<1>6. ASSUME NEW j \in Caller PROVE CallOK(j)'
  BY <1>1 DEF GateInv, CallOK, Given, gate
<1> QED
  BY <1>4, <1>5, <1>6 DEF GateInv

LEMMA CloseDownStep ==
    ASSUME GateInv, NEW c \in Conn, NEW k \in Closer, CloseDown(c, k)
    PROVE  GateInv'
<1>1. /\ SetFlag(c, k, FALSE)
      /\ closing' = [closing EXCEPT ![c][k] = "down"]
      /\ UNCHANGED <<transport, closed, closedCh, mon>>
      /\ closing[c][k] = "announced"
  BY DEF CloseDown, CloseAt
<1>2. /\ closing' \in [Conn -> [Closer -> CloseStep]]
      /\ \A d \in Conn, j \in Closer :
            \/ closing'[d][j] = closing[d][j]
            \/ d = c /\ j = k /\ closing'[d][j] = "down"
  <2>1. GateTypeOK /\ "down" \in CloseStep
    BY DEF GateInv, CloseStep
  <2>2. closing' = [closing EXCEPT ![c][k] = "down"]
    BY <1>1
  <2> QED
    BY <2>1, <2>2, CloseMoves
<1>3. closed[c] /\ Given(c)
  BY <1>1 DEF GateInv, Life
<1>4. GateTypeOK'
  BY <1>1, <1>2, SetFlagEffect DEF GateInv, GateTypeOK, transport
<1>5. ASSUME NEW d \in Conn PROVE Life(d)' /\ Signal(d)'
  <2>1. Signal(d)' /\ (ready'[d] => ready[d]) /\ (d = c => ~ready'[d])
        /\ (d # c => lock'[d] = lock[d])
    BY <1>1, <1>3, SetFlagEffect DEF GateInv
  <2> QED
    BY <1>1, <1>2, <1>3, <2>1 DEF GateInv, Life, Given, transport
<1>6. ASSUME NEW j \in Caller PROVE CallOK(j)'
  BY <1>1, SetFlagEffect DEF GateInv, CallOK, Given, Pending
<1> QED
  BY <1>4, <1>5, <1>6 DEF GateInv

LEMMA CloseConnStep ==
    ASSUME GateInv, NEW c \in Conn, NEW k \in Closer, CloseConn(c, k)
    PROVE  GateInv'
<1>1. /\ net' = [net EXCEPT ![c] = "shutdown"]
      /\ closing' = [closing EXCEPT ![c][k] = "done"]
      /\ UNCHANGED <<flaps, gate, closed, closedCh, mon, call>>
      /\ closing[c][k] = "down"
  BY DEF CloseConn, CloseAt
<1>2. /\ closing' \in [Conn -> [Closer -> CloseStep]]
      /\ \A d \in Conn, j \in Closer :
            \/ closing'[d][j] = closing[d][j]
            \/ d = c /\ j = k /\ closing'[d][j] = "done"
  <2>1. GateTypeOK /\ "done" \in CloseStep
    BY DEF GateInv, CloseStep
  <2>2. closing' = [closing EXCEPT ![c][k] = "done"]
    BY <1>1
  <2> QED
    BY <2>1, <2>2, CloseMoves
<1>3. closed[c] /\ Given(c)
  BY <1>1 DEF GateInv, Life
<1>4. GateTypeOK'
  BY <1>1, <1>2 DEF GateInv, GateTypeOK, NetState, gate
<1>5. ASSUME NEW d \in Conn PROVE Life(d)' /\ Signal(d)'
  BY <1>1, <1>2, <1>3 DEF GateInv, GateTypeOK, Life, Signal, Given, gate
<1>6. ASSUME NEW j \in Caller PROVE CallOK(j)'
  BY <1>1 DEF GateInv, CallOK, Given, gate
<1> QED
  BY <1>4, <1>5, <1>6 DEF GateInv

-----------------------------------------------------------------------------
(* GetConn.  A step of one call disturbs nothing but that call. *)
LEMMA CallFrame ==
    ASSUME GateInv, NEW k \in Caller, NEW x \in CallState,
           call' = [call EXCEPT ![k] = x],
           UNCHANGED <<transport, gate, shut, mon>>,
           CallOK(k)'
    PROVE  GateInv'
<1>1. GateTypeOK'
  BY DEF GateInv, GateTypeOK, transport, gate, shut
<1>2. ASSUME NEW d \in Conn PROVE Life(d)' /\ Signal(d)'
  BY DEF GateInv, Life, Signal, Given, transport, gate, shut
<1>3. ASSUME NEW j \in Caller PROVE CallOK(j)'
  <2>1. CASE j = k
    BY <2>1
  <2>2. CASE j # k
    BY <2>2 DEF GateInv, GateTypeOK, CallOK, Given, gate, shut
  <2> QED
    BY <2>1, <2>2
<1> QED
  BY <1>1, <1>2, <1>3 DEF GateInv

LEMMA EnterStep ==
    ASSUME GateInv, NEW k \in Caller, NEW c \in Conn, Enter(k, c)
    PROVE  GateInv'
<1> DEFINE x == [ at |-> "enter", conn |-> c, ch |-> 0, late |-> closed[c], up |-> ready[c] ]
<1>1. x \in CallState
  BY DEF CallState, Pending, GateInv, GateTypeOK
<1>2. call' = [call EXCEPT ![k] = x] /\ UNCHANGED <<transport, gate, shut, mon>> /\ Given(c)
  BY DEF Enter
<1>3. call'[k] = x
  BY <1>2 DEF GateInv, GateTypeOK
<1>4. CallOK(k)'
  BY <1>2, <1>3 DEF CallOK, Given, gate, shut
<1> QED
  BY <1>1, <1>2, <1>4, CallFrame

LEMMA RefuseStep ==
    ASSUME GateInv, NEW k \in Caller, Refuse(k), call[k].at # "idle", closed[call[k].conn]
    PROVE  GateInv'
<1> DEFINE x == [NoCall EXCEPT !.at = "closed", !.conn = call[k].conn]
<1>1. call[k] \in CallState
  BY DEF GateInv, GateTypeOK
<1>2. x \in CallState
  BY <1>1, NoCallState
<1>3. call' = [call EXCEPT ![k] = x] /\ UNCHANGED <<transport, gate, shut, mon>>
  BY DEF Refuse
<1>4. call'[k] = x /\ x.at = "closed" /\ x.conn = call[k].conn
  BY <1>3 DEF GateInv, GateTypeOK, NoCall
<1>5. CallOK(k)'
  BY <1>3, <1>4 DEF GateInv, CallOK, Pending, Given, shut
<1> QED
  BY <1>2, <1>3, <1>5, CallFrame

LEMMA IdleStep ==
    ASSUME GateInv, NEW k \in Caller, GiveUp(k) \/ Return(k)
    PROVE  GateInv'
<1>1. call' = [call EXCEPT ![k] = NoCall] /\ UNCHANGED <<transport, gate, shut, mon>>
  BY DEF GiveUp, Return
<1>2. call[k] \in CallState
  BY DEF GateInv, GateTypeOK
<1>3. NoCall \in CallState
  BY <1>2, NoCallState
<1>4. call'[k] = NoCall
  BY <1>1 DEF GateInv, GateTypeOK
<1>5. CallOK(k)'
  BY <1>4 DEF CallOK, NoCall, Pending
<1> QED
  BY <1>1, <1>3, <1>5, CallFrame

(* A call goes on to its next point; what it knows there, it has just seen *)
(* or knew before.                                                         *)
LEMMA ReachStep ==
    ASSUME GateInv, NEW k \in Caller, NEW at \in Pending \cup {"conn"}, NEW ch \in Nat,
           Reach(k, at, ch),
           call[k].at \in Pending,
           at # "enter",
           ~call[k].late,
           at \in {"woken", "conn"} => call[k].up,
           at = "select" => (ch \in signalled[call[k].conn] => call[k].up)
    PROVE  GateInv'
<1> DEFINE x == [call[k] EXCEPT !.at = at, !.ch = ch]
<1>1. call[k] \in CallState
  BY DEF GateInv, GateTypeOK
<1>2. x \in CallState
  BY <1>1, CallMoves DEF Answer
<1>3. call' = [call EXCEPT ![k] = x] /\ UNCHANGED <<transport, gate, shut, mon>>
  BY DEF Reach
<1>4. /\ call'[k].at = at /\ call'[k].ch = ch /\ call'[k].conn = call[k].conn
      /\ call'[k].late = call[k].late /\ call'[k].up = call[k].up
  BY <1>1, <1>3 DEF GateInv, GateTypeOK, CallState
<1>5. CallOK(k)'
  BY <1>3, <1>4 DEF GateInv, CallOK, Pending, Given, gate, shut
<1> QED
  BY <1>2, <1>3, <1>5, CallFrame

LEMMA GetConnStep ==
    ASSUME GateInv, NEW k \in Caller, GetConnOn(k)
    PROVE  GateInv'
<1> DEFINE c == call[k].conn
<1>1. CallOK(k) /\ call[k].ch \in Nat
  BY DEF GateInv, GateTypeOK, CallState
<1>2. call[k].at \in Pending => Signal(c)
  BY <1>1 DEF GateInv, CallOK, Pending
<1>3. CASE CheckClosed(k)
  <2>1. CASE closed[c]
    BY <1>3, <2>1, RefuseStep DEF CheckClosed
  <2>2. CASE ~closed[c]
    <3>1. Reach(k, "flag", 0) /\ call[k].at = "enter" /\ ~call[k].late
      BY <1>1, <1>3, <2>2 DEF CheckClosed, CallOK
    <3>2. call[k].at \in Pending /\ "flag" \in Pending
      BY <3>1 DEF Pending
    <3> QED
      BY <3>1, <3>2, ReachStep
  <2> QED
    BY <2>1, <2>2
<1>4. CASE CheckReady(k)
  <2>1. call[k].at = "flag" /\ ~call[k].late /\ call[k].at \in Pending /\ "chan" \in Pending
    BY <1>1, <1>4 DEF CheckReady, CallOK, Pending
  <2>2. CASE ready[c]
    <3>1. Reach(k, "conn", 0) /\ call[k].up
      BY <1>1, <1>4, <2>1, <2>2 DEF CheckReady, CallOK
    <3> QED
      BY <2>1, <3>1, ReachStep
  <2>3. CASE ~ready[c]
    <3>1. Reach(k, "chan", 0)
      BY <1>4, <2>3 DEF CheckReady
    <3> QED
      BY <2>1, <3>1, ReachStep
  <2> QED
    BY <2>2, <2>3
<1>5. CASE TakeChannel(k)
  <2>1. call[k].at = "chan" /\ call[k].at \in Pending /\ "select" \in Pending
    BY <1>5 DEF TakeChannel, Pending
  <2>2. readyCh[c] \in signalled[c] => call[k].up
    BY <1>1, <1>2, <1>5, <2>1 DEF TakeChannel, CallOK, Signal
  <2>3. readyCh[c] \in Nat /\ ~call[k].late
    BY <1>1, <2>1 DEF GateInv, GateTypeOK, CallOK
  <2>4. Reach(k, "select", readyCh[c])
    BY <1>5 DEF TakeChannel
  <2> QED
    BY <2>1, <2>2, <2>3, <2>4, ReachStep
<1>6. CASE Woken(k)
  <2>1. /\ call[k].at \in Pending /\ "woken" \in Pending
        /\ ~call[k].late /\ call[k].up /\ Reach(k, "woken", 0)
    BY <1>1, <1>6 DEF Woken, CallOK, Pending
  <2> QED
    BY <2>1, ReachStep
<1>7. CASE ToldClosed(k)
  <2>1. closed[c] /\ call[k].at # "idle" /\ Refuse(k)
    BY <1>1, <1>7 DEF ToldClosed, CallOK, GateInv, GateTypeOK
  <2> QED
    BY <2>1, RefuseStep
<1>8. CASE CheckWoken(k)
  <2>1. /\ call[k].at \in Pending /\ call[k].at # "idle"
        /\ ~call[k].late /\ call[k].up
    BY <1>1, <1>8 DEF CheckWoken, CallOK, Pending
  <2>2. CASE closed[c]
    BY <1>8, <2>1, <2>2, RefuseStep DEF CheckWoken
  <2>3. CASE ~closed[c]
    <3>1. Reach(k, "conn", 0)
      BY <1>8, <2>3 DEF CheckWoken
    <3> QED
      BY <2>1, <3>1, ReachStep
  <2> QED
    BY <2>2, <2>3
<1> QED
  BY <1>3, <1>4, <1>5, <1>6, <1>7, <1>8 DEF GetConnOn

-----------------------------------------------------------------------------
(* Every step keeps the invariant. *)
LEMMA StepInv == GateInv /\ [GateNext]_gateVars => GateInv'
<1> SUFFICES ASSUME GateInv, [GateNext]_gateVars PROVE GateInv'
  OBVIOUS
<1>1. CASE UNCHANGED gateVars
  <2>1. GateTypeOK'
    BY <1>1 DEF GateInv, GateTypeOK, gateVars, transport, gate, shut
  <2>2. ASSUME NEW c \in Conn PROVE Life(c)' /\ Signal(c)'
    BY <1>1 DEF GateInv, Life, Signal, Given, gateVars, transport, gate, shut
  <2>3. ASSUME NEW k \in Caller PROVE CallOK(k)'
    BY <1>1 DEF GateInv, CallOK, Given, gateVars, transport, gate, shut
  <2> QED
    BY <2>1, <2>2, <2>3 DEF GateInv
<1>2. ASSUME NEW c \in Conn,
             \/ NetUp(c) \/ NetDown(c, "idle") \/ NetDown(c, "connecting")
             \/ SetChannel(c) \/ Monitor(c)
             \/ Dial(c) \/ DialReady(c) \/ DialTimeout(c)
      PROVE  GateInv'
  BY <1>2, NetStep, SetChannelStep, MonitorReadStep, MonitorSetStep,
     DialStep, DialReadyStep, DialTimeoutStep DEF Monitor
<1>3. ASSUME NEW c \in Conn, NEW k \in Closer, BeginClose(c, k) \/ CloseOn(c, k)
      PROVE  GateInv'
  BY <1>3, BeginCloseStep, CloseAnnounceStep, CloseDownStep, CloseConnStep DEF CloseOn
<1>4. ASSUME NEW k \in Caller, GetConnOn(k) \/ GiveUp(k) \/ Return(k)
      PROVE  GateInv'
  BY <1>4, GetConnStep, IdleStep
<1>5. ASSUME NEW k \in Caller, NEW c \in Conn, Enter(k, c)
      PROVE  GateInv'
  BY <1>5, EnterStep
<1> QED
  BY <1>1, <1>2, <1>3, <1>4, <1>5 DEF GateNext, GateRuns

(* The invariant of the gate, for any connections, callers and closers.    *)
THEOREM GateInvariant == GateSpec => []GateInv
  BY InitInv, StepInv, PTL DEF GateSpec

(* The gate's variables keep their types; closedCh is closed only after    *)
(* the flag is set (Close's order).                                        *)
THEOREM GateTypeCorrect == GateSpec => []GateTypeOK
<1>1. GateInv => GateTypeOK
  BY DEF GateInv
<1> QED
  BY <1>1, GateInvariant, PTL

(* A closed connection is never ready again (setReady under the mutex).    *)
THEOREM ClosedStaysDownHolds == GateSpec => []ClosedStaysDown
<1>1. GateInv => ClosedStaysDown
  BY DEF GateInv, Life, ClosedStaysDown
<1> QED
  BY <1>1, GateInvariant, PTL

(* No channel is closed twice, and flag and channel agree (setReady).      *)
THEOREM ChannelMatchesFlagHolds == GateSpec => []ChannelMatchesFlag
<1>1. GateInv => ChannelMatchesFlag
  BY DEF GateInv, Signal, ChannelMatchesFlag
<1> QED
  BY <1>1, GateInvariant, PTL

(* An answer of GetConn is true of the call that gets it.                  *)
THEOREM AnswersTrueHolds == GateSpec => []AnswersTrue
<1>1. GateInv => AnswersTrue
  BY DEF GateInv, CallOK, AnswersTrue
<1> QED
  BY <1>1, GateInvariant, PTL

-----------------------------------------------------------------------------
(* The client.                                                             *)

(* Who holds what: what has been handed out was dialled, the connection    *)
(* being dialled is nobody else's yet and nobody closes it, the one being  *)
(* closed is no longer current, and until Stop nobody closes the current   *)
(* one; the auth monitor never does.                                       *)
Places ==
    /\ boot = "start" <=> cur \notin Conn
    /\ boot \in {"start", "trading", "dialed"} => auth = "none"
    /\ auth # "none" => boot # "start"
    /\ shutting # "no" => stopped /\ boot \notin {"start", "trading", "dialed"}
    /\ shutting \in {"read", "trading", "done"} => target \in Conn
    /\ \A c \in {cur, target, new, old} \cap Conn : net[c] # "none"
    /\ new \in Conn => new \notin {cur, target, old} /\ ~closed[new]
    /\ old \in Conn => old # cur
    /\ boot \in {"trading", "dialed", "auth", "up"} /\ ~stopped => ~closed[cur]
    /\ cur \in Conn => closing[cur]["auth"] = "no"

ConnInv == GateInv /\ ClientTypeOK /\ Places

-----------------------------------------------------------------------------
(* Init *)
LEMMA ConnInit == Init => ConnInv
<1> SUFFICES ASSUME Init PROVE ConnInv
  OBVIOUS
<1>1. GateInv
  BY InitInv DEF Init
<1>2. ClientTypeOK /\ Places
  BY ConnAssumption DEF Init, ClientTypeOK, Held, Places
<1> QED
  BY <1>1, <1>2 DEF ConnInv

(* A step of the client is a step of one of its connections, or none. *)
LEMMA ConnImplements == ConnInv /\ [Next]_vars => [GateNext]_gateVars
<1> SUFFICES ASSUME ConnInv, [Next]_vars PROVE [GateNext]_gateVars
  OBVIOUS
<1>1. {"client", "auth"} \subseteq Closer
  BY ConnAssumption
<1>2. CASE UNCHANGED vars
  BY <1>2 DEF vars
<1>3. ASSUME NEW c \in Conn, DialTrading(c) \/ Redial(c) PROVE GateNext
  BY <1>3 DEF DialTrading, Redial, GateNext
<1>4. CASE TradingReady \/ TradingFails \/ StreamFails
  <2>1. cur \in Conn
    BY <1>4 DEF TradingReady, TradingFails, StreamFails, ConnInv, Places
  <2> QED
    BY <1>1, <1>4, <2>1 DEF TradingReady, TradingFails, StreamFails, GateNext
<1>5. CASE CloseTarget
  <2>1. target \in Conn
    BY <1>5 DEF CloseTarget, ConnInv, Places
  <2> QED
    BY <1>1, <1>5, <2>1 DEF CloseTarget, GateNext
<1>6. CASE RedialFails \/ Redialed
  <2>1. new \in Conn
    BY <1>6 DEF RedialFails, Redialed, ConnInv, ClientTypeOK
  <2> QED
    BY <1>6, <2>1 DEF RedialFails, Redialed, GateNext
<1>7. CASE CloseOld
  <2>1. old \in Conn
    BY <1>7 DEF CloseOld, ConnInv, ClientTypeOK
  <2> QED
    BY <1>1, <1>7, <2>1 DEF CloseOld, GateNext
<1>8. CASE \/ DialStream \/ Stop \/ CloseStream \/ ReadTarget \/ ClosedAll
           \/ AuthTop \/ AuthWorks \/ AuthFails \/ Swap \/ OldClosed \/ WakeUp \/ WakeStopped
  <2>1. UNCHANGED gateVars
    BY <1>8 DEF DialStream, Stop, CloseStream, ReadTarget, ClosedAll, AuthTop, AuthWorks,
                AuthFails, Swap, OldClosed, WakeUp, WakeStopped
  <2> QED
    BY <2>1
<1>9. ASSUME NEW k \in Caller, NEW c \in Conn, Ask(k, c) PROVE GateNext
  BY <1>9 DEF Ask, GateNext
<1>10. CASE Underneath
  BY <1>10 DEF Underneath, GateNext
<1> QED
  BY <1>2, <1>3, <1>4, <1>5, <1>6, <1>7, <1>8, <1>9, <1>10
     DEF Next, Shutdown, AuthCycle, Reconnect

-----------------------------------------------------------------------------
(* What the steps of a connection leave alone of what Places speaks of. *)

LEMMA DialFrame ==
    ASSUME GateInv, NEW c \in Conn, Dial(c) \/ DialReady(c) \/ DialTimeout(c)
    PROVE  /\ UNCHANGED <<closed, closing>>
           /\ \A d \in Conn : net[d] # "none" => net'[d] # "none"
           /\ net'[c] # "none"
<1>1. net[c] = "none" <=> mon[c].at = "none"
  BY DEF GateInv, Life
<1>2. net' = net \/ (\E s \in {"connecting", "shutdown"} : net' = [net EXCEPT ![c] = s])
  BY DEF Dial, DialReady, DialTimeout, transport
<1>3. net'[c] # "none"
  BY <1>1, <1>2 DEF Dial, DialReady, DialTimeout, transport, GateInv, GateTypeOK
<1> QED
  BY <1>2, <1>3 DEF Dial, DialReady, DialTimeout, shut, GateInv, GateTypeOK

LEMMA FreshConn ==
    ASSUME GateInv, NEW c \in Conn, net[c] = "none"
    PROVE  ~closed[c] /\ closing[c] \in [Closer -> {"no"}]
<1>1. ~Given(c) /\ closing[c] \in [Closer -> CloseStep]
  BY DEF GateInv, GateTypeOK, Life, Given
<1>2. ~closed[c] /\ \A k \in Closer : closing[c][k] = "no"
  BY <1>1 DEF GateInv, Life
<1> QED
  BY <1>1, <1>2

LEMMA CloseFrame ==
    ASSUME GateInv, NEW c \in Conn, NEW k \in Closer, BeginClose(c, k)
    PROVE  /\ net' = net
           /\ \A d \in Conn : d # c => closed'[d] = closed[d]
           /\ \A d \in Conn, j \in Closer : d # c \/ j # k => closing'[d][j] = closing[d][j]
<1>1. /\ closed' = [closed EXCEPT ![c] = TRUE]
      /\ closing' = [closing EXCEPT ![c][k] = "flagged"]
      /\ net' = net
  BY DEF BeginClose, transport
<1>2. closed \in [Conn -> BOOLEAN] /\ closing \in [Conn -> [Closer -> CloseStep]]
  BY DEF GateInv, GateTypeOK
<1> QED
  BY <1>1, <1>2

LEMMA RunsFrame ==
    ASSUME GateInv, GateRuns
    PROVE  /\ closed' = closed
           /\ \A c \in Conn : net[c] # "none" => net'[c] # "none"
           /\ \A c \in Conn, k \in Closer : closing[c][k] = "no" => closing'[c][k] = "no"
<1>1. ASSUME NEW c \in Conn, NetUp(c) \/ NetDown(c, "idle") \/ NetDown(c, "connecting")
      PROVE  /\ UNCHANGED <<closed, closing>>
             /\ \A d \in Conn : net[d] # "none" => net'[d] # "none"
  BY <1>1 DEF NetUp, NetDown, shut, GateInv, GateTypeOK
<1>2. ASSUME NEW c \in Conn, SetChannel(c) \/ MonitorRead(c)
      PROVE  UNCHANGED <<net, closed, closing>>
  BY <1>2 DEF SetChannel, MonitorRead, shut, transport
<1>3. ASSUME NEW c \in Conn, MonitorSet(c)
      PROVE  /\ UNCHANGED <<closed, closing>>
             /\ \A d \in Conn : net[d] # "none" => net'[d] # "none"
  BY <1>3 DEF MonitorSet, shut, GateInv, GateTypeOK
<1>4. ASSUME NEW c \in Conn, NEW k \in Closer, CloseOn(c, k)
      PROVE  /\ closed' = closed
             /\ \A d \in Conn : net[d] # "none" => net'[d] # "none"
             /\ \A d \in Conn, j \in Closer : closing[d][j] = "no" => closing'[d][j] = "no"
  <2>1. closing[c][k] # "no" /\ closed' = closed
        /\ \E step \in CloseStep : closing' = [closing EXCEPT ![c][k] = step]
    BY <1>4 DEF CloseOn, CloseAnnounce, CloseDown, CloseConn, CloseAt, CloseStep
  <2>2. net' = net \/ net' = [net EXCEPT ![c] = "shutdown"]
    BY <1>4 DEF CloseOn, CloseAnnounce, CloseDown, CloseConn, transport
  <2>3. /\ net \in [Conn -> NetState] /\ closing \in [Conn -> [Closer -> CloseStep]]
    BY DEF GateInv, GateTypeOK
  <2> QED
    BY <2>1, <2>2, <2>3
<1>5. ASSUME NEW k \in Caller, GetConnOn(k) \/ GiveUp(k) \/ Return(k)
      PROVE  UNCHANGED <<net, closed, closing>>
  BY <1>5 DEF GetConnOn, CheckClosed, CheckReady, TakeChannel, Woken, ToldClosed, CheckWoken,
              GiveUp, Return, Reach, Refuse, transport, shut
<1> QED
  BY <1>1, <1>2, <1>3, <1>4, <1>5 DEF GateRuns, Monitor

-----------------------------------------------------------------------------
(* Every step of the client keeps its invariant. *)

LEMMA NewClientStep ==
    ASSUME ConnInv, \/ \E c \in Conn : DialTrading(c)
                    \/ TradingReady \/ DialStream \/ TradingFails \/ StreamFails
    PROVE  ClientTypeOK' /\ Places'
<1>1. GateInv /\ ClientTypeOK /\ Places /\ {"client", "auth"} \subseteq Closer
  BY ConnAssumption DEF ConnInv
<1>2. ASSUME NEW c \in Conn, DialTrading(c) PROVE ClientTypeOK' /\ Places'
  <2>1. /\ boot = "start" /\ boot' = "trading" /\ cur' = c /\ net[c] = "none"
        /\ UNCHANGED <<stream, ending, monitoring>>
    BY <1>2 DEF DialTrading, Fresh
  <2>2. /\ UNCHANGED <<closed, closing>> /\ net'[c] # "none"
        /\ \A d \in Conn : net[d] # "none" => net'[d] # "none"
    BY <1>1, <1>2, DialFrame DEF DialTrading
  <2>3. ~closed[c] /\ closing[c]["auth"] = "no"
    BY <1>1, <2>1, FreshConn
  <2>4. auth = "none" /\ new \notin Conn /\ old \notin Conn /\ shutting = "no"
    BY <1>1, <2>1 DEF ClientTypeOK, Places
  <2> QED
    BY <1>1, <2>1, <2>2, <2>3, <2>4 DEF ClientTypeOK, Places, Held, ending, monitoring
<1>3. CASE TradingReady \/ TradingFails
  <2>1. /\ cur \in Conn /\ boot' \in {"dialed", "failed"} /\ boot = "trading"
        /\ UNCHANGED <<cur, stream, ending, monitoring>>
        /\ DialReady(cur) \/ DialTimeout(cur)
    BY <1>1, <1>3 DEF TradingReady, TradingFails, Places
  <2>2. /\ UNCHANGED <<closed, closing>>
        /\ \A d \in Conn : net[d] # "none" => net'[d] # "none"
    BY <1>1, <2>1, DialFrame
  <2> QED
    BY <1>1, <2>1, <2>2 DEF ClientTypeOK, Places, ending, monitoring
<1>4. CASE DialStream
  BY <1>1, <1>4 DEF DialStream, ClientTypeOK, Places, ending, gateVars, shut, transport
<1>5. CASE StreamFails
  <2>1. /\ cur \in Conn /\ boot = "dialed" /\ boot' = "failed"
        /\ BeginClose(cur, "client") /\ UNCHANGED <<cur, stream, ending, monitoring>>
    BY <1>1, <1>5 DEF StreamFails, Places
  <2>2. auth = "none" /\ new \notin Conn /\ shutting = "no"
    BY <1>1, <2>1 DEF ClientTypeOK, Places
  <2>3. /\ net' = net /\ closing'[cur]["auth"] = closing[cur]["auth"]
    BY <1>1, <2>1, CloseFrame
  <2> QED
    BY <1>1, <2>1, <2>2, <2>3 DEF ClientTypeOK, Places, ending, monitoring
<1> QED
  BY <1>2, <1>3, <1>4, <1>5

LEMMA CloseStepInv ==
    ASSUME ConnInv, Stop \/ Shutdown
    PROVE  ClientTypeOK' /\ Places'
<1>1. GateInv /\ ClientTypeOK /\ Places /\ {"client", "auth"} \subseteq Closer
  BY ConnAssumption DEF ConnInv
<1>2. CASE Stop
  BY <1>1, <1>2 DEF Stop, ClientTypeOK, Places, monitoring, gateVars, shut, transport
<1>3. CASE CloseStream
  BY <1>1, <1>3 DEF CloseStream, ClientTypeOK, Places, monitoring, gateVars, shut, transport
<1>4. CASE ReadTarget
  BY <1>1, <1>4 DEF ReadTarget, client, ClientTypeOK, Places, monitoring, gateVars, shut,
                    transport, Held
<1>5. CASE ClosedAll
  BY <1>1, <1>5 DEF ClosedAll, client, ClientTypeOK, Places, monitoring, gateVars, shut,
                    transport
<1>6. CASE CloseTarget
  <2>1. /\ shutting = "read" /\ target \in Conn /\ stopped /\ BeginClose(target, "client")
        /\ shutting' = "trading" /\ UNCHANGED <<client, stopped, target, monitoring>>
    BY <1>1, <1>6 DEF CloseTarget, Places
  <2>2. /\ net' = net /\ (new \in Conn => closed'[new] = closed[new])
        /\ (cur \in Conn => closing'[cur]["auth"] = closing[cur]["auth"])
    BY <1>1, <2>1, CloseFrame DEF Places
  <2> QED
    BY <1>1, <2>1, <2>2 DEF ClientTypeOK, Places, client, monitoring
<1> QED
  BY <1>2, <1>3, <1>4, <1>5, <1>6 DEF Shutdown

LEMMA AuthStepInv ==
    ASSUME ConnInv, AuthCycle \/ \E c \in Conn : Redial(c)
    PROVE  ClientTypeOK' /\ Places'
<1>1. GateInv /\ ClientTypeOK /\ Places /\ {"client", "auth"} \subseteq Closer
  BY ConnAssumption DEF ConnInv
<1>2. CASE AuthTop \/ AuthWorks \/ AuthFails \/ WakeUp \/ WakeStopped \/ OldClosed
  <2>1. UNCHANGED <<gateVars, cur, stream, ending, new>>
    BY <1>2 DEF AuthTop, AuthWorks, AuthFails, WakeUp, WakeStopped, OldClosed, client
  <2>4. auth \in {"top", "attempt", "sleep", "closingOld"}
    BY <1>2 DEF AuthTop, AuthWorks, AuthFails, WakeUp, WakeStopped, OldClosed
  <2>5. failing' \in BOOLEAN
    <3>1. CASE AuthWorks \/ AuthFails
      BY <3>1 DEF AuthWorks, AuthFails
    <3>2. CASE AuthTop \/ WakeUp \/ WakeStopped \/ OldClosed
      BY <1>1, <3>2 DEF AuthTop, WakeUp, WakeStopped, OldClosed, ClientTypeOK
    <3> QED
      BY <1>2, <3>1, <3>2
  <2>2. /\ \/ boot' = boot
           \/ boot = "auth" /\ boot' = "up"
        /\ auth' \in {"top", "attempt", "sleep", "done"}
        /\ \/ old' = "none"
           \/ old' = old /\ old \notin Conn
    <3>1. CASE AuthWorks
      BY <1>1, <3>1 DEF AuthWorks, ClientTypeOK
    <3>2. CASE AuthTop \/ AuthFails \/ WakeUp \/ WakeStopped \/ OldClosed
      BY <1>1, <3>2 DEF AuthTop, AuthFails, WakeUp, WakeStopped, OldClosed, client, ClientTypeOK
    <3> QED
      BY <1>2, <3>1, <3>2
  <2>3. old' \notin Conn /\ old' \in Held
    BY <1>1, <2>2, ConnAssumption DEF ClientTypeOK, Held
  <2> QED
    BY <1>1, <2>1, <2>2, <2>3, <2>4, <2>5 DEF ClientTypeOK, Places, ending, gateVars, transport, shut
<1>3. ASSUME NEW c \in Conn, Redial(c) PROVE ClientTypeOK' /\ Places'
  <2>1. /\ auth = "attempt" /\ auth' = "dialing" /\ new' = c /\ net[c] = "none"
        /\ UNCHANGED <<client, ending, failing, old>>
    BY <1>3 DEF Redial, Fresh
  <2>2. /\ UNCHANGED <<closed, closing>> /\ net'[c] # "none"
        /\ \A d \in Conn : net[d] # "none" => net'[d] # "none"
    BY <1>1, <1>3, DialFrame DEF Redial
  <2>3. ~closed[c] /\ c \notin {cur, target, old}
    BY <1>1, <2>1, FreshConn DEF Places
  <2> QED
    BY <1>1, <2>1, <2>2, <2>3 DEF ClientTypeOK, Places, Held, client, ending
<1>4. CASE RedialFails \/ Redialed
  <2>1. /\ auth = "dialing" /\ new \in Conn /\ old \notin Conn
        /\ DialReady(new) \/ DialTimeout(new)
        /\ UNCHANGED <<client, ending, failing, old>>
        /\ \/ auth' = "swap" /\ new' = new
           \/ auth' = "sleep" /\ new' = "none"
    BY <1>1, <1>4 DEF RedialFails, Redialed, ClientTypeOK
  <2>2. /\ UNCHANGED <<closed, closing>>
        /\ \A d \in Conn : net[d] # "none" => net'[d] # "none"
    BY <1>1, <2>1, DialFrame
  <2> QED
    BY <1>1, <2>1, <2>2, ConnAssumption DEF ClientTypeOK, Places, Held, client, ending
<1>5. CASE Swap
  <2>1. new \in Conn /\ old \notin Conn /\ cur \in Conn /\ auth = "swap"
    BY <1>1, <1>5 DEF Swap, ClientTypeOK, Places, Held
  <2>2. closing[new]["auth"] = "no"
    BY <1>1, <2>1 DEF GateInv, Life, Places
  <2>3. /\ UNCHANGED <<net, closed, closing, boot, stream, stopped, shutting, target, failing>>
        /\ cur' = new /\ old' = cur /\ new' = "none" /\ auth' = "closeOld"
    BY <1>5 DEF Swap, ending, gateVars, transport, shut
  <2> QED
    BY <1>1, <2>1, <2>2, <2>3, ConnAssumption DEF ClientTypeOK, Places, Held
<1>6. CASE CloseOld
  <2>1. /\ old \in Conn /\ new \notin Conn /\ BeginClose(old, "auth") /\ auth = "closeOld"
        /\ auth' = "closingOld" /\ UNCHANGED <<client, ending, failing, new, old>>
    BY <1>1, <1>6 DEF CloseOld, ClientTypeOK
  <2>2. cur \in Conn => /\ closed'[cur] = closed[cur]
                        /\ closing'[cur]["auth"] = closing[cur]["auth"]
    BY <1>1, <2>1, CloseFrame DEF Places
  <2>3. net' = net
    BY <1>1, <2>1, CloseFrame
  <2> QED
    BY <1>1, <2>1, <2>2, <2>3 DEF ClientTypeOK, Places, Held, client, ending
<1> QED
  BY <1>2, <1>3, <1>4, <1>5, <1>6 DEF AuthCycle, Reconnect

(* The connections on their own, and the calls.                            *)
LEMMA UnderneathInv ==
    ASSUME ConnInv, Underneath \/ \E k \in Caller, c \in Conn : Ask(k, c)
    PROVE  ClientTypeOK' /\ Places'
<1>1. GateInv /\ ClientTypeOK /\ Places
  BY DEF ConnInv
<1>2. UNCHANGED <<client, ending, monitoring>>
  BY DEF Underneath, Ask
<1>3. /\ closed' = closed
      /\ \A c \in Conn : net[c] # "none" => net'[c] # "none"
      /\ \A c \in Conn, k \in Closer : closing[c][k] = "no" => closing'[c][k] = "no"
  <2>1. CASE Underneath
    BY <1>1, <2>1, RunsFrame DEF Underneath
  <2>2. ASSUME NEW k \in Caller, NEW c \in Conn, Ask(k, c)
        PROVE  UNCHANGED <<net, closed, closing>>
    BY <2>2 DEF Ask, Enter, transport, shut
  <2> QED
    BY <2>1, <2>2
<1> QED
  BY <1>1, <1>2, <1>3, ConnAssumption DEF ClientTypeOK, Places, client, ending, monitoring

LEMMA ConnStep == ConnInv /\ [Next]_vars => ConnInv'
<1> SUFFICES ASSUME ConnInv, [Next]_vars PROVE ConnInv'
  OBVIOUS
<1>1. GateInv'
  BY ConnImplements, StepInv DEF ConnInv
<1>2. ClientTypeOK' /\ Places'
  <2>1. CASE UNCHANGED vars
    BY <2>1 DEF vars, gateVars, transport, shut, client, ending, monitoring, ConnInv,
                ClientTypeOK, Places
  <2>2. CASE Next
    BY <2>2, NewClientStep, CloseStepInv, AuthStepInv, UnderneathInv DEF Next
  <2> QED
    BY <2>1, <2>2
<1> QED
  BY <1>1, <1>2 DEF ConnInv

-----------------------------------------------------------------------------
(* The invariant of the client and its connections.                        *)
THEOREM ConnInvariant == Spec => []ConnInv
  BY ConnInit, ConnStep, PTL DEF Spec

(* Types, and where in its cycle the monitor holds which connection.       *)
THEOREM ConnTypeCorrect == Spec => []TypeOK
<1>1. ConnInv => TypeOK
  BY DEF ConnInv, GateInv, TypeOK
<1> QED
  BY <1>1, ConnInvariant, PTL

(* The client's actions are built from the gates' or leave the gates alone. *)
LEMMA GateSteps == Spec => GateSpec
<1>1. Init => GateInit
  BY DEF Init
<1> QED
  BY <1>1, ConnInvariant, ConnImplements, PTL DEF Spec, GateSpec

(* A forced reconnect never leaves the client without a usable connection. *)
THEOREM CurrentLivesHolds == Spec => []CurrentLives
<1>1. ConnInv => CurrentLives
  BY DEF ConnInv, ClientTypeOK, Places, Held, CurrentLives
<1> QED
  BY <1>1, ConnInvariant, PTL

(* What is proved of the gate holds of the client's connections: whatever  *)
(* NewClient, reconnectTrading, Close and GetConn do at the same time, a   *)
(* closed connection stays down, answers are true, and no channel is       *)
(* closed twice.                                                           *)
THEOREM ClientGateHolds == Spec => [](ClosedStaysDown /\ AnswersTrue /\ ChannelMatchesFlag)
  BY GateSteps, ClosedStaysDownHolds, AnswersTrueHolds, ChannelMatchesFlagHolds, PTL
=============================================================================
