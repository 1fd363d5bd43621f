-------------------------- MODULE RecoveryMachine ---------------------------
(***************************************************************************)
(* strategies/execengine/recoverymachine: the engine's degraded-operation  *)
(* state (kill-switch, reconcile doubt, connection trouble) and its two    *)
(* obligation queues.  Retry pacing is time and is left to the caller's    *)
(* choice of when a retry is due.                                          *)
(***************************************************************************)
EXTENDS Integers, Sequences

(* takerDeadLimit: consecutive dead-short takers before re-hedges slow     *)
(* down (3 in engine.go).  The streak is only compared with this limit, so *)
(* it saturates there.                                                     *)
CONSTANT TakerDeadLimit

ASSUME DeadLimitAssumption == TakerDeadLimit \in Nat \ {0}

NewMachine ==
    [ halted |-> FALSE, suspect |-> FALSE, unverified |-> FALSE,
      impaired |-> FALSE, streak |-> 0, retireQ |-> <<>>, debts |-> <<>> ]

(* Suspect(): trading waits for a clean reconcile pass. *)
InDoubt(m) == m.suspect \/ m.unverified

Halt(m) == [m EXCEPT !.halted = TRUE]

(* A no-op on a halted machine. *)
EnterImpaired(m) == [m EXCEPT !.impaired = @ \/ ~m.halted]

DeferHedge(m, leg, buy, lots) ==
    EnterImpaired([m EXCEPT !.debts =
                      Append(@, [leg |-> leg, buy |-> buy, lots |-> lots])])

(* Mutant: the obligation is queued but nothing will service the queue. *)
QueueRetireUnnoticed(m, id) == [m EXCEPT !.retireQ = Append(@, id)]

QueueRetire(m, id) == EnterImpaired([m EXCEPT !.retireQ = Append(@, id)])

(* Every obligation is met, but one clean reconcile pass must confirm it. *)
ClearImpaired(m) == [m EXCEPT !.impaired = FALSE, !.unverified = TRUE]

MarkUnverified(m) == [m EXCEPT !.unverified = TRUE]

ResetDeadStreak(m) == [m EXCEPT !.streak = 0]

IncrementDeadStreak(m) ==
    [m EXCEPT !.streak = IF @ < TakerDeadLimit THEN @ + 1 ELSE @]

(* ResumeFromSuspect and ClearUnverified, which Reconcile calls together. *)
CleanPass(m) == [m EXCEPT !.suspect = FALSE, !.unverified = FALSE]

(* MarkSuspect on the first divergent pass; a later one (LogPersistent-    *)
(* Mismatch) only logs.                                                    *)
MarkSuspect(m) == [m EXCEPT !.suspect = TRUE]
=============================================================================
