----------------------------- MODULE Placement ------------------------------
(***************************************************************************)
(* What a placement call promises its caller (finambroker.placeResolved,   *)
(* execengine.Maker and Taker).  One intent becomes at most one order, and *)
(* a call that succeeds names that order.  A call is refused only when the *)
(* broker refused one of its attempts; when that was the first attempt,    *)
(* nothing was left in doubt: the call has no order and never will.  A     *)
(* refusal that follows a doubtful attempt speaks of the later attempt     *)
(* only, and a call that ends in doubt promises nothing more.              *)
(***************************************************************************)
CONSTANT Calls

VARIABLES
    result,    \* "open", "doubt" (some attempt is), then how it returned:
               \* "ok", "refused", "refusedLate" (after doubt), "maybe"
    made,      \* the orders the call has made at the broker
    told,      \* the orders the caller was told of
    denied     \* the calls of which the broker has refused an attempt

vars == <<result, made, told, denied>>

Init ==
    /\ result = [c \in Calls |-> "open"]
    /\ made = [c \in Calls |-> {}]
    /\ told = [c \in Calls |-> {}]
    /\ denied = {}

(* The broker takes the order o, for a caller that may have given up. *)
Place(c, o) ==
    /\ result[c] \in {"open", "doubt", "refusedLate", "maybe"}
    /\ made[c] = {}
    /\ made' = [made EXCEPT ![c] = {o}]
    /\ UNCHANGED <<result, told, denied>>

(* It does so and the caller hears of it. *)
PlaceHeard(c, o) ==
    /\ result[c] \in {"open", "doubt"}
    /\ made[c] = {}
    /\ made' = [made EXCEPT ![c] = {o}]
    /\ told' = [told EXCEPT ![c] = {o}]
    /\ result' = [result EXCEPT ![c] = "ok"]
    /\ UNCHANGED denied

(* The broker refuses an attempt, for a caller that has given up on it. *)
Deny(c) ==
    /\ denied' = denied \cup {c}
    /\ UNCHANGED <<result, made, told>>

(* The attempt has no answer, or one that settles nothing. *)
Doubt(c) ==
    /\ result[c] = "open"
    /\ result' = [result EXCEPT ![c] = "doubt"]
    /\ UNCHANGED <<made, told, denied>>

(* The refusal of the first attempt is the whole truth. *)
Refused(c) ==
    /\ result[c] = "open" /\ made[c] = {}
    /\ result' = [result EXCEPT ![c] = "refused"]
    /\ denied' = denied \cup {c}
    /\ UNCHANGED <<made, told>>

(* A later refusal is one of the broker's, but leaves the doubt. *)
RefusedLate(c) ==
    /\ result[c] = "doubt"
    /\ result' = [result EXCEPT ![c] = "refusedLate"]
    /\ denied' = denied \cup {c}
    /\ UNCHANGED <<made, told>>

(* The doubt is resolved, or is not. *)
Resolve(c) ==
    /\ result[c] = "doubt"
    /\ \/ /\ made[c] # {}
          /\ result' = [result EXCEPT ![c] = "ok"]
          /\ told' = [told EXCEPT ![c] = made[c]]
       \/ /\ result' = [result EXCEPT ![c] = "maybe"]
          /\ UNCHANGED told
    /\ UNCHANGED <<made, denied>>

(* An order is anything: o is whatever the call has made after the step. *)
Next ==
    \E c \in Calls :
        \/ \E o \in made'[c] : Place(c, o) \/ PlaceHeard(c, o)
        \/ Deny(c) \/ Doubt(c) \/ Refused(c) \/ RefusedLate(c) \/ Resolve(c)

Spec == Init /\ [][Next]_vars
=============================================================================
