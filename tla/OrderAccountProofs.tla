------------------------- MODULE OrderAccountProofs -------------------------
(***************************************************************************)
(* The account of one order, proved for every order size.                  *)
(***************************************************************************)
EXTENDS OrderAccount, TLAPS

(* What the broker's side of the order keeps. *)
BrokerInv ==
    /\ exec =< acct.placed
    /\ unsent =< exec
    /\ acct.seen =< acct.placed
    /\ acct.final =< acct.placed

(* A maker's booked and paired lots are the larger of what the stream      *)
(* reported and what the retire learned; a live maker has folded all it    *)
(* saw.  This is the strengthening that makes CreditMirrorsHedge inductive. *)
MakerInv ==
    acct.maker =>
        /\ acct.credited = Max2(acct.final, acct.seen)
        /\ acted = acct.credited
        /\ rehedged = 0
        /\ (acct.final < 0 => acct.folded = acct.seen)

(* A taker is credited in full until its terminal count is known. *)
TakerInv ==
    ~acct.maker =>
        /\ acted = 0
        /\ acct.final < 0 => acct.credited = acct.placed /\ rehedged = 0
        /\ acct.final >= 0 => /\ acct.credited = Max2(acct.final, acct.seen)
                              /\ rehedged = acct.placed - acct.final

(* With every event delivered once, what the account saw is what the       *)
(* broker sent, and no terminal count runs ahead of the executions.        *)
OnceInv ==
    ~repeated =>
        /\ acct.seen = exec - unsent
        /\ acct.final =< exec
        /\ acct.maker /\ acct.final >= 0 /\ ~early
               => ~live /\ acct.final = exec
        /\ ~acct.maker /\ acct.final >= 0
               => acct.final = exec /\ (live => exec = acct.placed)

IInv == TypeOK /\ BrokerInv /\ MakerInv /\ TakerInv /\ OnceInv
-----------------------------------------------------------------------------
USE MaxLotsAssumption

(* The initial accounts of placeLeg and commitTakerPlacement satisfy it. *)
LEMMA InitIInv == Init => IInv
<1> SUFFICES ASSUME Init PROVE IInv
  OBVIOUS
<1>1. PICK leg \in Leg, buy \in BOOLEAN, lots \in 1..MaxLots :
         acct \in {NewMaker(leg, buy, lots), NewTaker(leg, buy, lots)}
  BY DEF Init
<1>4. /\ exec = 0 /\ unsent = 0 /\ acted = 0 /\ rehedged = 0
      /\ live \in BOOLEAN /\ repeated \in BOOLEAN /\ early \in BOOLEAN
  BY DEF Init
<1>2. CASE acct = NewMaker(leg, buy, lots)
  <2>1. TypeOK
    BY <1>1, <1>2, <1>4 DEF TypeOK, NewMaker, AcctUpTo, Unknown
  <2> QED
    BY <1>1, <1>2, <1>4, <2>1 DEF IInv, BrokerInv, MakerInv, TakerInv, OnceInv,
                                  NewMaker, Unknown, Max2
<1>3. CASE acct = NewTaker(leg, buy, lots)
  <2>1. TypeOK
    BY <1>1, <1>3, <1>4 DEF TypeOK, NewTaker, AcctUpTo, Unknown
  <2> QED
    BY <1>1, <1>3, <1>4, <2>1 DEF IInv, BrokerInv, MakerInv, TakerInv, OnceInv,
                                  NewTaker, Unknown, Max2
<1> QED
  BY <1>1, <1>2, <1>3

(* An execution or a death at the broker preserves the invariant. *)
LEMMA BrokerStep ==
    ASSUME IInv, NEW n \in 1..MaxLots, Execute(n) \/ Die
    PROVE  IInv'
<1> USE DEF IInv, TypeOK, BrokerInv, MakerInv, TakerInv, OnceInv, AcctUpTo, Max2
<1>1. CASE Execute(n)
  BY <1>1 DEF history, Execute
<1>2. CASE Die
  BY <1>2 DEF history, Die
<1> QED
  BY <1>1, <1>2

(* The fields FoldFill leaves behind. *)
LEMMA FoldFillFields ==
    ASSUME NEW a \in AcctUpTo(MaxLots), NEW lots \in Int,
           NEW f, f = FoldFill(a, lots)
    PROVE  /\ f = [ maker |-> a.maker, leg |-> a.leg, buy |-> a.buy,
                    placed |-> a.placed, folded |-> f.folded,
                    seen |-> a.seen + lots, credited |-> f.credited,
                    final |-> a.final, deferred |-> a.deferred,
                    overdue |-> a.overdue ]
           /\ f.folded = IF a.maker /\ a.final < 0
                         THEN a.folded + lots ELSE a.folded
           /\ f.credited = IF a.maker \/ a.final >= 0
                           THEN a.credited + NewLots(a, lots) ELSE a.credited
<1> DEFINE cred == IF a.maker \/ a.final >= 0
                   THEN a.credited + NewLots(a, lots) ELSE a.credited
           fold == IF a.maker /\ a.final < 0 THEN a.folded + lots ELSE a.folded
<1>1. f = [a EXCEPT !.seen = a.seen + lots, !.credited = cred, !.folded = fold]
  BY DEF FoldFill
<1> HIDE DEF cred, fold
<1>2. f = [ maker |-> a.maker, leg |-> a.leg, buy |-> a.buy,
            placed |-> a.placed, folded |-> fold,
            seen |-> a.seen + lots, credited |-> cred,
            final |-> a.final, deferred |-> a.deferred, overdue |-> a.overdue ]
  BY <1>1 DEF AcctUpTo
<1> QED
  BY <1>2 DEF cred, fold

(* Folding a fill event into the account preserves the invariant, whether  *)
(* it is delivered for the first time or again.                            *)
LEMMA FillEventStep ==
    ASSUME IInv, NEW n \in 1..MaxLots, FillEvent(n),
           UNCHANGED <<exec, live, rehedged>>,
           unsent' \in 0..MaxLots, unsent' =< exec,
           ~repeated' => ~repeated /\ unsent' = unsent - n,
           repeated' \in BOOLEAN, early' = early
    PROVE  IInv'
<1> DEFINE lots == AcceptedLots(acct, n)
<1>1. lots \in Int /\ lots =< n /\ lots =< acct.placed - acct.seen
  BY DEF IInv, TypeOK, AcctUpTo, AcceptedLots, Min2
<1>2. CASE lots > 0
  <2>1. /\ acct' = FoldFill(acct, lots)
        /\ acted' = acted + LotsToPair(acct, lots)
    BY <1>2 DEF FillEvent
  <2>2. ~repeated' => lots = n
    BY DEF IInv, TypeOK, BrokerInv, OnceInv, AcctUpTo, AcceptedLots, Min2
  <2> HIDE DEF lots
  <2>3. acct \in AcctUpTo(MaxLots)
    BY DEF IInv, TypeOK
  <2>4. /\ acct' = [ maker |-> acct.maker, leg |-> acct.leg, buy |-> acct.buy,
                     placed |-> acct.placed, folded |-> acct'.folded,
                     seen |-> acct.seen + lots, credited |-> acct'.credited,
                     final |-> acct.final, deferred |-> acct.deferred,
                     overdue |-> acct.overdue ]
        /\ acct'.folded = IF acct.maker /\ acct.final < 0
                          THEN acct.folded + lots ELSE acct.folded
        /\ acct'.credited = IF acct.maker \/ acct.final >= 0
                            THEN acct.credited + NewLots(acct, lots)
                            ELSE acct.credited
    BY <1>1, <2>1, <2>3, FoldFillFields
  <2>5. CASE acct.maker /\ acct.final < 0
    <3>1. TypeOK'
      <4>1. /\ acct'.folded \in 0..MaxLots
            /\ acct'.credited \in 0..MaxLots
            /\ acct.seen + lots \in 0..MaxLots
            /\ acted' \in 0..MaxLots
        BY <1>1, <1>2, <2>1, <2>3, <2>4, <2>5
           DEF IInv, TypeOK, BrokerInv, MakerInv, AcctUpTo, NewLots, LotsToPair, Max2
      <4>2. acct' \in AcctUpTo(MaxLots)
        BY <2>3, <2>4, <4>1 DEF AcctUpTo
      <4> QED
        BY <4>1, <4>2 DEF IInv, TypeOK
    <3>2. BrokerInv'
      BY <1>1, <1>2, <2>1, <2>2, <2>4, <2>5
         DEF IInv, TypeOK, BrokerInv, MakerInv, TakerInv, OnceInv, AcctUpTo,
             NewLots, LotsToPair, Max2
    <3>3. MakerInv'
      BY <1>1, <1>2, <2>1, <2>2, <2>4, <2>5
         DEF IInv, TypeOK, BrokerInv, MakerInv, TakerInv, OnceInv, AcctUpTo,
             NewLots, LotsToPair, Max2
    <3>4. TakerInv'
      BY <1>1, <1>2, <2>1, <2>2, <2>4, <2>5
         DEF IInv, TypeOK, BrokerInv, MakerInv, TakerInv, OnceInv, AcctUpTo,
             NewLots, LotsToPair, Max2
    <3>5. OnceInv'
      BY <1>1, <1>2, <2>1, <2>2, <2>4, <2>5
         DEF IInv, TypeOK, BrokerInv, MakerInv, TakerInv, OnceInv, AcctUpTo,
             NewLots, LotsToPair, Max2
    <3> QED
      BY <3>1, <3>2, <3>3, <3>4, <3>5 DEF IInv
  <2>6. CASE acct.maker /\ acct.final >= 0
    <3>1. TypeOK'
      <4>1. /\ acct'.folded \in 0..MaxLots
            /\ acct'.credited \in 0..MaxLots
            /\ acct.seen + lots \in 0..MaxLots
            /\ acted' \in 0..MaxLots
        BY <1>1, <1>2, <2>1, <2>3, <2>4, <2>6
           DEF IInv, TypeOK, BrokerInv, MakerInv, AcctUpTo, NewLots, LotsToPair, Max2
      <4>2. acct' \in AcctUpTo(MaxLots)
        BY <2>3, <2>4, <4>1 DEF AcctUpTo
      <4> QED
        BY <4>1, <4>2 DEF IInv, TypeOK
    <3>2. BrokerInv'
      BY <1>1, <1>2, <2>1, <2>2, <2>4, <2>6
         DEF IInv, TypeOK, BrokerInv, MakerInv, TakerInv, OnceInv, AcctUpTo,
             NewLots, LotsToPair, Max2
    <3>3. MakerInv'
      BY <1>1, <1>2, <2>1, <2>2, <2>4, <2>6
         DEF IInv, TypeOK, BrokerInv, MakerInv, TakerInv, OnceInv, AcctUpTo,
             NewLots, LotsToPair, Max2
    <3>4. TakerInv'
      BY <1>1, <1>2, <2>1, <2>2, <2>4, <2>6
         DEF IInv, TypeOK, BrokerInv, MakerInv, TakerInv, OnceInv, AcctUpTo,
             NewLots, LotsToPair, Max2
    <3>5. OnceInv'
      BY <1>1, <1>2, <2>1, <2>2, <2>4, <2>6
         DEF IInv, TypeOK, BrokerInv, MakerInv, TakerInv, OnceInv, AcctUpTo,
             NewLots, LotsToPair, Max2
    <3> QED
      BY <3>1, <3>2, <3>3, <3>4, <3>5 DEF IInv
  <2>7. CASE ~acct.maker
    BY <1>1, <1>2, <2>1, <2>2, <2>4, <2>7
       DEF IInv, TypeOK, BrokerInv, MakerInv, TakerInv, OnceInv, AcctUpTo,
           NewLots, LotsToPair, Max2
  <2> QED
    BY <2>3, <2>5, <2>6, <2>7 DEF AcctUpTo
<1>3. CASE ~(lots > 0)
  <2>1. UNCHANGED <<acct, acted>>
    BY <1>3 DEF FillEvent
  <2> QED
    BY <1>1, <1>3, <2>1 DEF IInv, TypeOK, BrokerInv, MakerInv, TakerInv, OnceInv,
                       AcctUpTo, AcceptedLots, Min2
<1> QED
  BY <1>2, <1>3

(* Retiring a maker, answered or not, preserves the invariant. *)
LEMMA RetireStep ==
    ASSUME IInv, RetireAnswered \/ RetireUnanswered
    PROVE  IInv'
<1>1. acct \in AcctUpTo(MaxLots)
  BY DEF IInv, TypeOK
<1>2. CASE RetireAnswered
  <2>1. FinishRetire(acct, exec) =
           [ acct EXCEPT !.final = exec, !.credited = Max2(acct.credited, exec) ]
    BY <1>1 DEF IInv, TypeOK, BrokerInv, AcctUpTo, FinishRetire, Min2
  <2>2. /\ acct' = [ maker |-> TRUE, leg |-> acct.leg, buy |-> acct.buy,
                     placed |-> acct.placed, folded |-> Max2(acct.folded, exec),
                     seen |-> acct.seen,
                     credited |-> Max2(acct.credited, exec),
                     final |-> exec, deferred |-> FALSE,
                     overdue |-> acct.overdue ]
        /\ acted' = acted + Max2(0, exec - acct.folded)
    BY <1>1, <1>2, <2>1
       DEF history, RetireAnswered, CanRetire, FoldGap, RetireGap, AcctUpTo
  <2> QED
    <3>1. TypeOK'
      <4>1. /\ Max2(acct.folded, exec) \in 0..MaxLots
            /\ Max2(acct.credited, exec) \in 0..MaxLots
            /\ exec \in -1..MaxLots
            /\ acted' \in 0..MaxLots
        BY <1>1, <1>2, <2>2
           DEF history, RetireAnswered, CanRetire, IInv, TypeOK, BrokerInv, MakerInv,
               AcctUpTo, Max2
      <4>2. acct' \in AcctUpTo(MaxLots)
        BY <1>1, <2>2, <4>1 DEF AcctUpTo
      <4> QED
        BY <1>2, <4>1, <4>2 DEF history, RetireAnswered, IInv, TypeOK
    <3>2. BrokerInv'
      BY <1>1, <1>2, <2>2
         DEF history, RetireAnswered, CanRetire, IInv, TypeOK, BrokerInv, MakerInv,
             TakerInv, OnceInv, AcctUpTo, Max2
    <3>3. MakerInv'
      BY <1>1, <1>2, <2>2
         DEF history, RetireAnswered, CanRetire, IInv, TypeOK, BrokerInv, MakerInv,
             TakerInv, OnceInv, AcctUpTo, Max2
    <3>4. TakerInv'
      BY <1>1, <1>2, <2>2
         DEF history, RetireAnswered, CanRetire, IInv, TypeOK, BrokerInv, MakerInv,
             TakerInv, OnceInv, AcctUpTo, Max2
    <3>5. OnceInv'
      <4>1. ~early' => ~live'
        BY <1>2 DEF history, RetireAnswered
      <4>2. acct'.maker = TRUE /\ acct'.seen = acct.seen /\ acct'.final = exec
        BY <2>2
      <4>3. UNCHANGED <<exec, unsent, repeated>> /\ exec \in Nat
        BY <1>2 DEF RetireAnswered, IInv, TypeOK
      <4>4. ~repeated' => acct'.seen = exec' - unsent'
        BY <4>2, <4>3 DEF IInv, OnceInv
      <4>5. acct'.final = exec' /\ exec' =< exec'
        BY <4>2, <4>3
      <4> QED
        BY <4>1, <4>2, <4>4, <4>5 DEF OnceInv
    <3> QED
      BY <3>1, <3>2, <3>3, <3>4, <3>5 DEF IInv
<1>3. CASE RetireUnanswered
  <2>1. acct' = [ maker |-> TRUE, leg |-> acct.leg, buy |-> acct.buy,
                  placed |-> acct.placed, folded |-> acct.folded,
                  seen |-> acct.seen, credited |-> acct.credited,
                  final |-> acct.final, deferred |-> TRUE,
                  overdue |-> acct.overdue ]
    BY <1>1, <1>3 DEF history, RetireUnanswered, CanRetire, AcctUpTo
  <2> QED
    <3>1. TypeOK'
      BY <1>1, <1>3, <2>1
         DEF history, RetireUnanswered, CanRetire, IInv, TypeOK, BrokerInv, MakerInv,
             TakerInv, OnceInv, AcctUpTo, Max2
    <3>2. BrokerInv'
      BY <1>1, <1>3, <2>1
         DEF history, RetireUnanswered, CanRetire, IInv, TypeOK, BrokerInv, MakerInv,
             TakerInv, OnceInv, AcctUpTo, Max2
    <3>3. MakerInv'
      BY <1>1, <1>3, <2>1
         DEF history, RetireUnanswered, CanRetire, IInv, TypeOK, BrokerInv, MakerInv,
             TakerInv, OnceInv, AcctUpTo, Max2
    <3>4. TakerInv'
      BY <1>1, <1>3, <2>1
         DEF history, RetireUnanswered, CanRetire, IInv, TypeOK, BrokerInv, MakerInv,
             TakerInv, OnceInv, AcctUpTo, Max2
    <3>5. OnceInv'
      BY <1>1, <1>3, <2>1
         DEF history, RetireUnanswered, CanRetire, IInv, TypeOK, BrokerInv, MakerInv,
             TakerInv, OnceInv, AcctUpTo, Max2
    <3> QED
      BY <3>1, <3>2, <3>3, <3>4, <3>5 DEF IInv
<1> QED
  BY <1>2, <1>3

(* Settling, flagging or confirming a taker preserves the invariant. *)
LEMMA TakerStep ==
    ASSUME IInv, SettleDeadTaker \/ TakerOverdue \/ ConfirmTaker
    PROVE  IInv'
<1> DEFINE Taker(cred, fin, over) ==
              [ maker |-> FALSE, leg |-> acct.leg, buy |-> acct.buy,
                placed |-> acct.placed, folded |-> acct.folded,
                seen |-> acct.seen, credited |-> cred, final |-> fin,
                deferred |-> acct.deferred, overdue |-> over ]
<1>1. acct \in AcctUpTo(MaxLots)
  BY DEF IInv, TypeOK
<1>2. CASE SettleDeadTaker
  <2> DEFINE count == SettledCount(acct, exec)
  <2>1. count = Max2(exec, acct.seen) /\ count \in 0..acct.placed
    BY <1>1 DEF IInv, TypeOK, BrokerInv, AcctUpTo, SettledCount, Min2, Max2
  <2>2. /\ acct' = Taker(Min2(acct.credited, count), count, acct.overdue)
        /\ rehedged' = rehedged + (acct.placed - count)
    BY <1>1, <1>2 DEF history, SettleDeadTaker, Unsettled, SettleTaker, Shortfall, AcctUpTo
  <2> HIDE DEF count
  <2> QED
    BY <1>1, <1>2, <2>1, <2>2
       DEF history, SettleDeadTaker, Unsettled, IInv, TypeOK, BrokerInv, MakerInv, TakerInv,
           OnceInv, AcctUpTo, Max2, Min2
<1>3. CASE TakerOverdue
  <2>1. acct' = Taker(acct.credited, acct.final, TRUE)
    BY <1>1, <1>3 DEF history, TakerOverdue, Unsettled, AcctUpTo
  <2> QED
    BY <1>1, <1>3, <2>1
       DEF history, TakerOverdue, Unsettled, IInv, TypeOK, BrokerInv, MakerInv, TakerInv,
           OnceInv, AcctUpTo, Max2
<1>4. CASE ConfirmTaker
  <2>1. acct' = Taker(acct.credited, acct.placed, acct.overdue)
    BY <1>1, <1>4 DEF history, ConfirmTaker, Unsettled, ConfirmByStream, AcctUpTo
  <2> QED
    BY <1>1, <1>4, <2>1
       DEF history, ConfirmTaker, Unsettled, IInv, TypeOK, BrokerInv, MakerInv, TakerInv,
           OnceInv, AcctUpTo, Max2
<1> QED
  BY <1>2, <1>3, <1>4

(* IInv is an invariant of the account's specification. *)
THEOREM AccountInvariant == Spec => []IInv
<1>1. IInv /\ [Next]_vars => IInv'
  <2> SUFFICES ASSUME IInv, [Next]_vars PROVE IInv'
    OBVIOUS
  <2>1. ASSUME NEW n \in 1..MaxLots, Execute(n) PROVE IInv'
    BY <2>1, BrokerStep
  <2>2. ASSUME NEW n \in 1..MaxLots, DeliverFill(n) PROVE IInv'
    <3>1. unsent' \in 0..MaxLots /\ unsent' =< exec
      BY <2>2 DEF DeliverFill, IInv, TypeOK, BrokerInv, AcctUpTo
    <3>2. /\ FillEvent(n) /\ UNCHANGED <<exec, live, rehedged>>
          /\ unsent' = unsent - n /\ repeated' = repeated /\ early' = early
      BY <2>2 DEF DeliverFill, history
    <3>3. /\ ~repeated' => ~repeated /\ unsent' = unsent - n
          /\ repeated' \in BOOLEAN
      BY <3>2 DEF IInv, TypeOK
    <3> QED
      BY <3>1, <3>2, <3>3, FillEventStep
  <2>3. ASSUME NEW n \in 1..MaxLots, RedeliverFill(n) PROVE IInv'
    <3>1. unsent' \in 0..MaxLots /\ unsent' =< exec /\ repeated' = TRUE
      BY <2>3 DEF RedeliverFill, IInv, TypeOK, BrokerInv, AcctUpTo
    <3> QED
      BY <2>3, <3>1, FillEventStep DEF RedeliverFill
  <2>4. CASE Die
    <3>1. 1 \in 1..MaxLots
      OBVIOUS
    <3> QED
      BY <2>4, <3>1, BrokerStep
  <2>5. CASE RetireAnswered \/ RetireUnanswered
    BY <2>5, RetireStep
  <2>6. CASE SettleDeadTaker \/ TakerOverdue \/ ConfirmTaker
    BY <2>6, TakerStep
  <2>7. CASE UNCHANGED vars
    BY <2>7 DEF vars, IInv, TypeOK, BrokerInv, MakerInv, TakerInv, OnceInv
  <2> QED
    BY <2>1, <2>2, <2>3, <2>4, <2>5, <2>6, <2>7 DEF Next
<1> QED
  BY InitIInv, <1>1, PTL DEF Spec

(* TypeOK holds of every reachable state. *)
THEOREM TypeCorrect == Spec => []TypeOK
<1>1. IInv => TypeOK
  BY DEF IInv
<1> QED
  BY <1>1, AccountInvariant, PTL

(* CreditMirrorsHedge holds even under duplicates and stale acks. *)
THEOREM CreditMirrorsHedgeHolds == Spec => []CreditMirrorsHedge
<1>1. IInv => CreditMirrorsHedge
  BY DEF IInv, TypeOK, BrokerInv, MakerInv, AcctUpTo, CreditMirrorsHedge, Max2
<1> QED
  BY <1>1, AccountInvariant, PTL

(* StreamExact: a delivered fill is neither lost nor counted twice. *)
THEOREM StreamExactHolds == Spec => []StreamExact
<1>1. IInv => StreamExact
  BY DEF IInv, TypeOK, BrokerInv, MakerInv, OnceInv, AcctUpTo, StreamExact, Max2
<1> QED
  BY <1>1, AccountInvariant, PTL

(* RetireExact: a confirmed cancel books everything the order executed. *)
THEOREM RetireExactHolds == Spec => []RetireExact
<1>1. IInv => RetireExact
  BY DEF IInv, TypeOK, BrokerInv, MakerInv, OnceInv, AcctUpTo, RetireExact, Max2
<1> QED
  BY <1>1, AccountInvariant, PTL

(* TakerExact: a settled taker leaves no phantom hedge. *)
THEOREM TakerExactHolds == Spec => []TakerExact
<1>1. IInv => TakerExact
  BY DEF IInv, TypeOK, BrokerInv, TakerInv, OnceInv, AcctUpTo, TakerExact, Max2
<1> QED
  BY <1>1, AccountInvariant, PTL

-----------------------------------------------------------------------------
(* Only a fill event or an answered retire moves a maker's credit, and     *)
(* they move it up.                                                        *)
LEMMA CreditOnlyGrows ==
    ASSUME IInv, IInv', [Next]_vars, acct.maker
    PROVE  /\ acct'.maker
           /\ acct'.credited >= acct.credited
           /\ acct'.credited = acct.credited \/ exec' = exec
           /\ exec' >= exec /\ acct'.placed = acct.placed
<1>1. acct \in AcctUpTo(MaxLots) /\ exec \in Nat
  BY DEF IInv, TypeOK
<1>2. ASSUME NEW n \in 1..MaxLots, Execute(n)
      PROVE  acct' = acct /\ exec' >= exec
  BY <1>1, <1>2 DEF history, Execute
<1>3. ASSUME NEW n \in 1..MaxLots, FillEvent(n), exec' = exec
      PROVE  /\ acct'.maker /\ acct'.placed = acct.placed
             /\ acct'.credited >= acct.credited
  <2>1. CASE acct' = FoldFill(acct, AcceptedLots(acct, n))
    <3>1. AcceptedLots(acct, n) \in Int
      BY <1>1 DEF AcceptedLots, Min2, AcctUpTo
    <3>2. acct' = [ maker |-> acct.maker, leg |-> acct.leg, buy |-> acct.buy,
                    placed |-> acct.placed, folded |-> acct'.folded,
                    seen |-> acct.seen + AcceptedLots(acct, n),
                    credited |-> acct'.credited, final |-> acct.final,
                    deferred |-> acct.deferred, overdue |-> acct.overdue ]
      BY <1>1, <2>1, <3>1, FoldFillFields
    <3>3. acct'.credited = acct.credited + NewLots(acct, AcceptedLots(acct, n))
      BY <1>1, <2>1, <3>1, FoldFillFields
    <3>4. NewLots(acct, AcceptedLots(acct, n)) \in Nat
      BY <1>1, <3>1 DEF NewLots, Max2, AcctUpTo
    <3> QED
      BY <1>1, <3>2, <3>3, <3>4 DEF AcctUpTo
  <2>2. CASE acct' = acct
    BY <1>1, <2>2 DEF AcctUpTo
  <2> QED
    BY <1>3, <2>1, <2>2 DEF FillEvent
<1>4. CASE Die \/ UNCHANGED vars
  BY <1>1, <1>4 DEF history, Die, vars, AcctUpTo
<1>5. CASE RetireAnswered
  <2>1. acct'.maker /\ acct'.placed = acct.placed
    BY <1>1, <1>5 DEF history, RetireAnswered, FoldGap, FinishRetire, AcctUpTo
  <2>2. acct'.credited = Max2(acct.credited, Min2(exec, acct.placed))
    BY <1>1, <1>5 DEF history, RetireAnswered, FoldGap, FinishRetire, AcctUpTo
  <2> QED
    BY <1>1, <1>5, <2>1, <2>2 DEF history, RetireAnswered, Max2, Min2, AcctUpTo
<1>6. CASE RetireUnanswered
  BY <1>1, <1>6 DEF history, RetireUnanswered, AcctUpTo
<1>7. CASE SettleDeadTaker \/ TakerOverdue \/ ConfirmTaker
  BY <1>7 DEF history, SettleDeadTaker, TakerOverdue, ConfirmTaker, Unsettled
<1>8. ASSUME NEW n \in 1..MaxLots, DeliverFill(n) \/ RedeliverFill(n)
      PROVE  /\ acct'.maker /\ acct'.placed = acct.placed
             /\ acct'.credited >= acct.credited /\ exec' = exec
  BY <1>3, <1>8 DEF history, DeliverFill, RedeliverFill
<1> QED
  BY <1>1, <1>2, <1>4, <1>5, <1>6, <1>7, <1>8 DEF Next, AcctUpTo

(* A taker stays a taker; its executions are the only thing the ledger     *)
(* sees of it.                                                             *)
LEMMA TakerStaysTaker ==
    ASSUME IInv, [Next]_vars, ~acct.maker
    PROVE  ~acct'.maker /\ exec' >= exec /\ acct'.placed = acct.placed
<1>1. acct \in AcctUpTo(MaxLots) /\ exec \in Nat
  BY DEF IInv, TypeOK
<1>2. ASSUME NEW n \in 1..MaxLots, Execute(n)
      PROVE  ~acct'.maker /\ exec' >= exec /\ acct'.placed = acct.placed
  BY <1>1, <1>2 DEF history, Execute
<1>3. ASSUME NEW n \in 1..MaxLots, DeliverFill(n) \/ RedeliverFill(n)
      PROVE  ~acct'.maker /\ exec' >= exec /\ acct'.placed = acct.placed
  <2>1. AcceptedLots(acct, n) \in Int
    BY <1>1 DEF AcceptedLots, Min2, AcctUpTo
  <2>2. CASE acct' = FoldFill(acct, AcceptedLots(acct, n))
    <3>1. acct' = [ maker |-> acct.maker, leg |-> acct.leg, buy |-> acct.buy,
                    placed |-> acct.placed, folded |-> acct'.folded,
                    seen |-> acct.seen + AcceptedLots(acct, n),
                    credited |-> acct'.credited, final |-> acct.final,
                    deferred |-> acct.deferred, overdue |-> acct.overdue ]
      BY <1>1, <2>1, <2>2, FoldFillFields
    <3> QED
      BY <1>1, <1>3, <3>1 DEF history, DeliverFill, RedeliverFill
  <2> QED
    BY <1>1, <1>3, <2>2 DEF history, DeliverFill, RedeliverFill, FillEvent
<1>4. CASE RetireAnswered \/ RetireUnanswered
  BY <1>4 DEF history, RetireAnswered, RetireUnanswered, CanRetire
<1>7. CASE Die \/ UNCHANGED vars
  <2>1. acct' = acct /\ exec' = exec
    BY <1>7 DEF history, Die, vars
  <2> QED
    BY <1>1, <2>1
<1>5. CASE SettleDeadTaker
  BY <1>1, <1>5 DEF history, SettleDeadTaker, SettleTaker, AcctUpTo
<1>6. CASE TakerOverdue \/ ConfirmTaker
  BY <1>1, <1>6 DEF history, TakerOverdue, ConfirmTaker, ConfirmByStream, AcctUpTo
<1> QED
  BY <1>2, <1>3, <1>4, <1>5, <1>6, <1>7 DEF Next

(* Until the stream repeats itself no step but a repetition tells the      *)
(* ledger so.                                                              *)
LEMMA RepeatedOnlyGrows ==
    ASSUME [Next]_vars
    PROVE  \/ repeated' = repeated
           \/ repeated' = TRUE /\ exec' = exec
<1> QED
  BY DEF Next, vars, history, Execute, Die, DeliverFill, RedeliverFill, RetireAnswered,
         RetireUnanswered, SettleDeadTaker, TakerOverdue, ConfirmTaker

(* The account implements the abstract ledger: no interleaving of events,  *)
(* acks and retries books a lot twice, books one that was not executed, or *)
(* takes one back, and repeated events cannot book past the order's size.  *)
THEOREM LedgerRefinement == Spec => ImplementsLedger
<1>1. Init => Ledger!Init
  BY DEF Init, Ledger!Init, NewMaker, NewTaker
<1>2. IInv /\ IInv' /\ [Next]_vars => [Ledger!Next]_(Ledger!vars)
  <2> SUFFICES ASSUME IInv, IInv', [Next]_vars
               PROVE  [Ledger!Next]_(Ledger!vars)
    OBVIOUS
  <2>1. /\ exec \in Nat /\ exec' \in Nat /\ exec' =< acct'.placed
        /\ acct.credited \in Nat /\ acct'.credited \in Nat
        /\ acct.placed \in Nat /\ acct'.credited =< acct'.placed
        /\ repeated \in BOOLEAN /\ repeated' \in BOOLEAN
    BY DEF IInv, TypeOK, BrokerInv, MakerInv, TakerInv, AcctUpTo, Max2
  <2>2. acct'.maker /\ ~repeated' => acct'.credited =< exec'
    BY DEF IInv, TypeOK, BrokerInv, MakerInv, OnceInv, AcctUpTo, Max2
  <2>3. CASE acct.maker
    <3>1. /\ acct'.maker /\ acct'.placed = acct.placed
          /\ acct'.credited >= acct.credited
          /\ acct'.credited = acct.credited \/ exec' = exec
          /\ exec' >= exec
      BY <2>3, CreditOnlyGrows
    <3>2. CASE repeated' = repeated
      BY <2>1, <2>2, <2>3, <3>1, <3>2
         DEF Ledger!Next, Ledger!vars, Ledger!Execute, Ledger!Book
    <3>3. CASE repeated' = TRUE /\ exec' = exec
      <4>1. acct'.credited \in acct.credited..acct.placed
        BY <2>1, <3>1
      <4>2. Ledger!Repeat
        BY <2>3, <3>1, <3>3, <4>1 DEF Ledger!Repeat
      <4> QED
        BY <4>2 DEF Ledger!Next
    <3> QED
      BY <3>2, <3>3, RepeatedOnlyGrows
  <2>4. CASE ~acct.maker
    <3>1. ~acct'.maker /\ exec' >= exec /\ acct'.placed = acct.placed
      BY <2>4, TakerStaysTaker
    <3>2. CASE repeated' = repeated
      BY <2>1, <2>4, <3>1, <3>2 DEF Ledger!Next, Ledger!vars, Ledger!Execute
    <3>3. CASE repeated' = TRUE /\ exec' = exec
      <4>1. 0 \in 0..acct.placed
        BY <2>1
      <4>2. Ledger!Repeat
        BY <2>4, <3>1, <3>3, <4>1 DEF Ledger!Repeat
      <4> QED
        BY <4>2 DEF Ledger!Next
    <3> QED
      BY <3>2, <3>3, RepeatedOnlyGrows
  <2> QED
    BY <2>3, <2>4
<1> QED
  BY <1>1, <1>2, AccountInvariant, PTL DEF Spec, ImplementsLedger, Ledger!Spec
=============================================================================
