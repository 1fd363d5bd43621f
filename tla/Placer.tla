------------------------------- MODULE Placer --------------------------------
(***************************************************************************)
(* finambroker.placer: a placement whose answer may be lost.  A call mints *)
(* one client id, sends the order under it, and on an ambiguous error      *)
(* looks for that id in the account's ACTIVE orders; still in doubt, it    *)
(* sends the order again under the SAME id, for Rounds rounds.  Calls run  *)
(* concurrently (a taker-only clip places both legs at once).              *)
(*                                                                         *)
(* The broker may take or refuse a request at any time after it was sent,  *)
(* also when the caller has given up on it; it refuses an id it knows      *)
(* already, and lists only orders that still rest.  Sleeps only let time   *)
(* pass and are left out; AbsentSaw only words the error.                  *)
(***************************************************************************)
EXTENDS Integers, FiniteSets

CONSTANTS
    Calls,           \* placements the engine asks for
    Stranger,        \* the intent of an order that is not the engine's
    Rounds,          \* cidRetryRounds
    Probes           \* ghostProbes

ASSUME PlacerAssumption ==
    /\ Stranger \notin Calls
    /\ Rounds \in Nat \ {0} /\ Probes \in Nat \ {0}

VARIABLES
    phase,      \* where placeResolved stands, or how it returned
    round,      \* its loop counters
    probe,
    adopted,    \* the order it returned, as a set of at most one
    requests,   \* PlaceOrder requests under way
    orders,     \* every order of the account, the finished ones included
    active,     \* those the account list shows
    denied      \* history: the calls of which the broker refused a request

vars == <<phase, round, probe, adopted, requests, orders, active, denied>>
client == <<phase, round, probe, adopted>>

Request == [call : Calls, round : 0..(Rounds - 1)]
CID == [call : Calls, mint : 0..(Rounds - 1)]
Order == [cid : CID, intent : Calls \cup {Stranger}, from : 0..(Rounds - 1)]

Returned == {"ok", "reject", "maybe"}
Phase == {"idle", "placing", "probing"} \cup Returned

(* Mutant: a retry mints a client id of its own. *)
ClientIDFresh(q) == [call |-> q.call, mint |-> q.round]

(* nextClientID runs once, ahead of the loop. *)
ClientID(q) == [call |-> q.call, mint |-> 0]

Current(c) == [call |-> c, round |-> round[c]]

(* Mutant: whatever order carries the id is taken for the call's own. *)
MatchesIntentBlind(o, c) == TRUE

(* matchesIntent: symbol, side and lots are those of the call. *)
MatchesIntent(o, c) == o.intent = c

(* errors.go: the codes of a broker that evaluated the order and refused. *)
Definitive == {"InvalidArgument", "FailedPrecondition", "PermissionDenied", "NotFound",
               "ResourceExhausted", "Unauthenticated", "OutOfRange"}

(* Mutant: a client id that is taken counts as a refusal. *)
AmbiguousNarrow(code) == code \notin Definitive \cup {"AlreadyExists"}

(* Mutant: so does a call that timed out. *)
AmbiguousHasty(code) == code \notin Definitive \cup {"DeadlineExceeded"}

Ambiguous(code) == code \notin Definitive

(* Init may hold an order of somebody else's under an id a call will mint. *)
Init ==
    /\ phase = [c \in Calls |-> "idle"]
    /\ round = [c \in Calls |-> 0]
    /\ probe = [c \in Calls |-> 0]
    /\ adopted = [c \in Calls |-> {}]
    /\ requests = {}
    /\ orders \in {{}} \cup {{[cid |-> [call |-> c, mint |-> 0], intent |-> Stranger,
                               from |-> 0]} : c \in Calls}
    /\ active = orders
    /\ denied = {}

-----------------------------------------------------------------------------
(* placeResolved. *)

Start(c) ==
    /\ phase[c] = "idle"
    /\ phase' = [phase EXCEPT ![c] = "placing"]
    /\ requests' = requests \cup {Current(c)}
    /\ UNCHANGED <<round, probe, adopted, orders, active, denied>>

Adopt(c, o) ==
    /\ phase' = [phase EXCEPT ![c] = "ok"]
    /\ adopted' = [adopted EXCEPT ![c] = {o}]
    /\ UNCHANGED <<round, probe>>

(* An error: ambiguous ones are resolved, the others are the answer. *)
HandleError(c, code) ==
    /\ phase' = [phase EXCEPT ![c] = IF Ambiguous(code) THEN "probing" ELSE "reject"]
    /\ UNCHANGED <<round, probe, adopted>>

(* The deadline of the call, or a transport error. *)
Timeout(c) ==
    /\ phase[c] = "placing"
    /\ HandleError(c, "DeadlineExceeded")
    /\ UNCHANGED <<requests, orders, active, denied>>

(* Mutant: one round too many. *)
LastRoundLate(c) == round[c] = Rounds

LastRound(c) == round[c] + 1 = Rounds

(* Mutant: the round counter is not advanced. *)
AfterProbeStuck(c) ==
    \/ /\ probe[c] + 1 < Probes
       /\ probe' = [probe EXCEPT ![c] = @ + 1]
       /\ UNCHANGED <<phase, round, adopted, requests>>
    \/ /\ probe[c] + 1 = Probes /\ ~LastRound(c)
       /\ phase' = [phase EXCEPT ![c] = "placing"]
       /\ probe' = [probe EXCEPT ![c] = 0]
       /\ requests' = requests \cup {Current(c)}
       /\ UNCHANGED <<round, adopted>>
    \/ /\ probe[c] + 1 = Probes /\ LastRound(c)
       /\ phase' = [phase EXCEPT ![c] = "maybe"]
       /\ UNCHANGED <<round, probe, adopted, requests>>

(* Mutant: an order that is not on the list counts as never placed. *)
AfterProbeConcludes(c) ==
    \/ /\ probe[c] + 1 < Probes
       /\ probe' = [probe EXCEPT ![c] = @ + 1]
       /\ UNCHANGED <<phase, round, adopted, requests>>
    \/ /\ probe[c] + 1 = Probes /\ ~LastRound(c)
       /\ phase' = [phase EXCEPT ![c] = "placing"]
       /\ round' = [round EXCEPT ![c] = @ + 1]
       /\ probe' = [probe EXCEPT ![c] = 0]
       /\ requests' = requests \cup {[call |-> c, round |-> round[c] + 1]}
       /\ UNCHANGED adopted
    \/ /\ probe[c] + 1 = Probes /\ LastRound(c)
       /\ phase' = [phase EXCEPT ![c] = "reject"]
       /\ UNCHANGED <<round, probe, adopted, requests>>

(* Not resolved by this probe: probe again, place again, or give up. *)
AfterProbe(c) ==
    \/ /\ probe[c] + 1 < Probes
       /\ probe' = [probe EXCEPT ![c] = @ + 1]
       /\ UNCHANGED <<phase, round, adopted, requests>>
    \/ /\ probe[c] + 1 = Probes /\ ~LastRound(c)
       /\ phase' = [phase EXCEPT ![c] = "placing"]
       /\ round' = [round EXCEPT ![c] = @ + 1]
       /\ probe' = [probe EXCEPT ![c] = 0]
       /\ requests' = requests \cup {[call |-> c, round |-> round[c] + 1]}
       /\ UNCHANGED adopted
    \/ /\ probe[c] + 1 = Probes /\ LastRound(c)
       /\ phase' = [phase EXCEPT ![c] = "maybe"]
       /\ UNCHANGED <<round, probe, adopted, requests>>

(* GetOrders: the resting orders that carry an id. *)
Listed(cid) == {o \in active : o.cid = cid}

(* p.find: the listed order under the call's id, if it is the call's own. *)
Found(c) == {o \in Listed(ClientID(Current(c))) : MatchesIntent(o, c)}

Probe(c, reachable) ==
    /\ phase[c] = "probing"
    /\ \/ reachable /\ UNCHANGED requests /\ \E o \in Found(c) : Adopt(c, o)
       \/ (~reachable \/ Found(c) = {}) /\ AfterProbe(c)
    /\ UNCHANGED <<orders, active, denied>>

-----------------------------------------------------------------------------
(* The broker. *)

Taken(cid) == \E o \in orders : o.cid = cid

(* The caller still waits for the answer to this request. *)
Waits(q) == phase[q.call] = "placing" /\ round[q.call] = q.round

Accept(q, heard) ==
    LET o == [cid |-> ClientID(q), intent |-> q.call, from |-> q.round] IN
    /\ q \in requests /\ ~Taken(ClientID(q))
    /\ orders' = orders \cup {o} /\ active' = active \cup {o}
    /\ requests' = requests \ {q}
    /\ \/ heard /\ Waits(q) /\ Adopt(q.call, o)
       \/ ~heard /\ UNCHANGED client
    /\ UNCHANGED denied

(* The broker answers with an error.  AlreadyExists is its check of the    *)
(* id.  The other refusals come from gates ahead of it (checkAccount:      *)
(* Unauthenticated), whatever order rests or request is still under way    *)
(* under the id.                                                           *)
Refuse(q, code, heard) ==
    /\ q \in requests
    /\ code = "AlreadyExists" => Taken(ClientID(q))
    /\ requests' = requests \ {q}
    /\ denied' = IF code \in Definitive THEN denied \cup {q.call} ELSE denied
    /\ \/ heard /\ Waits(q) /\ HandleError(q.call, code)
       \/ ~heard /\ UNCHANGED client
    /\ UNCHANGED <<orders, active>>

(* The request never reaches the broker. *)
Lose(q) ==
    /\ q \in requests
    /\ requests' = requests \ {q}
    /\ UNCHANGED <<client, orders, active, denied>>

(* The order fills or is cancelled and leaves the list. *)
Finish(o) ==
    /\ o \in active
    /\ active' = active \ {o}
    /\ UNCHANGED <<client, requests, orders, denied>>

Next ==
    \/ \E c \in Calls : Start(c) \/ Timeout(c) \/ Probe(c, TRUE) \/ Probe(c, FALSE)
    \/ \E q \in requests, heard \in BOOLEAN :
          \/ Accept(q, heard)
          \/ \E code \in {"AlreadyExists", "Unauthenticated"} : Refuse(q, code, heard)
    \/ \E q \in requests : Lose(q)
    \/ \E o \in active : Finish(o)

Spec == Init /\ [][Next]_vars

(* Every RPC has a deadline and the loops run; nothing is assumed of the   *)
(* broker.                                                                 *)
Fairness == \A c \in Calls : WF_vars(Timeout(c)) /\ WF_vars(Probe(c, TRUE) \/ Probe(c, FALSE))

LiveSpec == Spec /\ Fairness
-----------------------------------------------------------------------------
TypeOK ==
    /\ phase \in [Calls -> Phase]
    /\ round \in [Calls -> 0..(Rounds - 1)]
    /\ probe \in [Calls -> 0..(Probes - 1)]
    /\ adopted \in [Calls -> SUBSET Order]
    /\ requests \subseteq Request
    /\ orders \subseteq Order
    /\ active \subseteq orders
    /\ denied \subseteq Calls

Made(c) == {o \in orders : o.intent = c}

(* A call reported as a definitive reject has left nothing at the broker   *)
(* (placeResolved: "the broker answered: rejected, nothing rests").  Not   *)
(* so: the answer is to the last request, and an order or a request of an  *)
(* earlier round may be there.                                             *)
RejectedLeavesNothing == \A c \in Calls : phase[c] = "reject" => Made(c) = {}

(* A call that succeeds names one order, its own: not a stranger's that    *)
(* carries the same client id, nor the second of two (matchesIntent).      *)
AdoptedIsOurs == \A c \in Calls : phase[c] = "ok" => adopted[c] = Made(c)

(* How the promise names the standing of a call: what the first request    *)
(* leads to is settled, what follows an ambiguous one is not.              *)
Standing(c) ==
    CASE phase[c] \in {"idle", "placing"} /\ round[c] = 0 -> "open"
      [] phase[c] = "reject" /\ round[c] = 0 -> "refused"
      [] phase[c] = "reject" /\ round[c] # 0 -> "refusedLate"
      [] phase[c] \in {"ok", "maybe"} -> phase[c]
      [] OTHER -> "doubt"

Promise == INSTANCE Placement WITH
    result <- [c \in Calls |-> Standing(c)],
    made <- [c \in Calls |-> Made(c)],
    told <- adopted

(* One intent, at most one order, however many rounds were ambiguous and   *)
(* however late a request arrives (placeResolved: "it can never produce a  *)
(* second, independently-tracked order beside the first"); a success names *)
(* it; nothing but a refusal of the broker's is reported as one, absence   *)
(* from the order list and a taken id least of all; and a call refused at  *)
(* its first request leaves nothing, for good.  A refusal after an         *)
(* ambiguous round promises no such thing (RejectedLeavesNothing fails).   *)
ImplementsPlacement == Promise!Spec

(* The engine's goroutine is not held for ever: every call returns, with   *)
(* the broker and the account list unreachable too.                        *)
EveryCallReturns == \A c \in Calls : phase[c] = "placing" ~> phase[c] \in Returned
=============================================================================
