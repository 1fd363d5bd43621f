---------------------------- MODULE PlacerProofs -----------------------------
(***************************************************************************)
(* Proofs about Placer for any number of calls, rounds and probes, and for *)
(* a broker that takes, refuses or loses any request at any time.          *)
(***************************************************************************)
EXTENDS Placer, TLAPS

(* The broker keeps client ids apart, and a call's orders carry its id.    *)
OneOrderPerCID ==
    /\ \A o1, o2 \in orders : o1.cid = o2.cid => o1 = o2
    /\ \A o \in orders : o.intent \in Calls => o.cid = [call |-> o.intent, mint |-> 0]

(* What a call returned, against the orders it made. *)
AdoptionInv ==
    \A c \in Calls : adopted[c] = IF phase[c] = "ok" THEN Made(c) ELSE {}

SuccessInv == \A c \in Calls : phase[c] = "ok" => Made(c) # {}

(* While a call is in its first round, its one request is all there is to  *)
(* know: it is under way and there is no order, or it is answered.         *)
FirstRound(c) ==
    /\ phase[c] = "idle" => round[c] = 0
    /\ round[c] = 0 =>
          /\ phase[c] \in {"idle", "reject"} =>
                Made(c) = {} /\ \A q \in requests : q.call # c
          /\ \A q \in requests : q.call = c => q.round = 0 /\ Made(c) = {}

FirstRoundInv == \A c \in Calls : FirstRound(c)

(* The caller is told of refusals that the broker pronounced. *)
DenialInv == \A c \in Calls : phase[c] = "reject" => c \in denied

IInv == TypeOK /\ OneOrderPerCID /\ AdoptionInv /\ SuccessInv

-----------------------------------------------------------------------------
(* Orders of one call. *)

(* A call has at most one order: what it made is empty or a singleton. *)
LEMMA MadeIsOne ==
    ASSUME OneOrderPerCID, NEW c \in Calls, NEW o \in Made(c)
    PROVE  Made(c) = {o}
<1>1. \A p \in Made(c) : p.cid = [call |-> c, mint |-> 0] /\ p \in orders
  BY DEF OneOrderPerCID, Made
<1>2. \A p \in Made(c) : p = o
  BY <1>1 DEF OneOrderPerCID
<1> QED BY <1>2

(* An id the broker does not know belongs to a call without an order. *)
LEMMA FreeMeansNone ==
    ASSUME OneOrderPerCID, NEW q \in Request, ~Taken(ClientID(q))
    PROVE  Made(q.call) = {}
<1>1. q.call \in Calls
  BY DEF Request
<1>2. \A o \in Made(q.call) : o \in orders /\ o.cid = ClientID(q)
  BY <1>1 DEF OneOrderPerCID, Made, ClientID
<1> QED BY <1>2 DEF Taken

(* A new order changes what its own call made, and nothing else. *)
LEMMA AcceptMakes ==
    ASSUME TypeOK, OneOrderPerCID, NEW q \in requests, NEW heard \in BOOLEAN,
           Accept(q, heard)
    PROVE  \E o \in Order :
              /\ o.intent = q.call /\ o.from = q.round /\ o.cid = ClientID(q)
              /\ orders' = orders \cup {o} /\ active' = active \cup {o}
              /\ Made(q.call) = {} /\ Made(q.call)' = {o}
              /\ \A c \in Calls : c # q.call => Made(c)' = Made(c)
              /\ heard => Waits(q) /\ Adopt(q.call, o)
              /\ ~heard => UNCHANGED client
<1> DEFINE o == [cid |-> ClientID(q), intent |-> q.call, from |-> q.round]
<1>1. q \in Request /\ q.call \in Calls /\ q.round \in 0..(Rounds - 1)
  BY DEF TypeOK, Request
<1>2. 0 \in 0..(Rounds - 1)
  BY PlacerAssumption
<1>3. o \in Order
  BY <1>1, <1>2 DEF Order, CID, ClientID
<1>4. /\ orders' = orders \cup {o} /\ active' = active \cup {o}
      /\ heard => Waits(q) /\ Adopt(q.call, o)
      /\ ~heard => UNCHANGED client
  BY DEF Accept
<1>5. Made(q.call) = {}
  BY <1>1, FreeMeansNone DEF Accept
<1>6. Made(q.call)' = {o} /\ \A c \in Calls : c # q.call => Made(c)' = Made(c)
  BY <1>4, <1>5 DEF Made
<1> QED BY <1>3, <1>4, <1>5, <1>6
-----------------------------------------------------------------------------
LEMMA InitInv == Init => IInv
<1> SUFFICES ASSUME Init PROVE IInv
  OBVIOUS
<1>1. 0 \in 0..(Rounds - 1) /\ 0 \in 0..(Probes - 1)
  BY PlacerAssumption
<1>2. \A o \in orders : /\ o.intent = Stranger /\ o \in Order
                        /\ \A p \in orders : p = o
  BY <1>1 DEF Init, Order, CID
<1>3. TypeOK
  BY <1>1, <1>2 DEF Init, TypeOK, Phase
<1>4. OneOrderPerCID
  BY <1>2, PlacerAssumption DEF OneOrderPerCID
<1>5. AdoptionInv /\ SuccessInv
  BY DEF Init, AdoptionInv, SuccessInv
<1> QED BY <1>3, <1>4, <1>5 DEF IInv

(* The loop of a call: nothing at the broker changes. *)
LEMMA LoopInv ==
    ASSUME IInv, NEW c \in Calls,
           Start(c) \/ Timeout(c) \/ Probe(c, TRUE) \/ Probe(c, FALSE)
    PROVE  IInv'
<1> USE DEF IInv
<1>1. /\ orders' = orders /\ active' = active /\ denied' = denied
      /\ \A d \in Calls : Made(d)' = Made(d)
  BY DEF Start, Timeout, Probe, Made
<1>2. OneOrderPerCID'
  BY <1>1 DEF OneOrderPerCID
<1>3. round[c] \in 0..(Rounds - 1) /\ probe[c] \in 0..(Probes - 1)
  BY DEF TypeOK
<1>4. Current(c) \in Request
  BY <1>3 DEF Current, Request
<1>5. CASE Start(c)
  BY <1>1, <1>2, <1>4, <1>5 DEF Start, TypeOK, Phase, AdoptionInv, SuccessInv
<1>6. CASE Timeout(c)
  BY <1>1, <1>2, <1>6
  DEF Timeout, HandleError, TypeOK, Phase, Returned, AdoptionInv, SuccessInv
<1>7. ASSUME NEW o \in Found(c), Adopt(c, o), phase[c] = "probing", UNCHANGED requests
      PROVE  IInv'
  <2>1. o \in Made(c) /\ o \in Order
    BY DEF Found, Listed, MatchesIntent, Made, TypeOK
  <2>2. Made(c) = {o}
    BY <2>1, MadeIsOne
  <2>3. TypeOK'
    BY <1>1, <1>7, <2>1 DEF TypeOK, Adopt, Phase, Returned
  <2>4. AdoptionInv' /\ SuccessInv'
    BY <1>1, <1>7, <2>2 DEF TypeOK, Adopt, AdoptionInv, SuccessInv
  <2> QED BY <1>2, <2>3, <2>4
<1>8. ASSUME AfterProbe(c), phase[c] = "probing" PROVE IInv'
  <2>1. /\ adopted' = adopted
        /\ phase' \in {phase, [phase EXCEPT ![c] = "placing"], [phase EXCEPT ![c] = "maybe"]}
    BY <1>8 DEF AfterProbe
  <2>2. AdoptionInv' /\ SuccessInv'
    BY <1>1, <1>8, <2>1 DEF TypeOK, AdoptionInv, SuccessInv
  <2>3. /\ probe' \in [Calls -> 0..(Probes - 1)] /\ round' \in [Calls -> 0..(Rounds - 1)]
        /\ requests' \subseteq Request
    BY <1>3, <1>8, PlacerAssumption DEF AfterProbe, LastRound, TypeOK, Request
  <2>4. TypeOK'
    BY <1>1, <2>1, <2>3 DEF TypeOK, Phase, Returned
  <2> QED BY <1>2, <2>2, <2>4
<1>9. CASE Probe(c, TRUE) \/ Probe(c, FALSE)
  BY <1>7, <1>8, <1>9 DEF Probe
<1> QED BY <1>5, <1>6, <1>9

(* The broker takes a request. *)
LEMMA AcceptInv ==
    ASSUME IInv, NEW q \in requests, NEW heard \in BOOLEAN, Accept(q, heard)
    PROVE  IInv'
<1> USE DEF IInv
<1>1. PICK o \in Order :
         /\ o.intent = q.call /\ o.from = q.round /\ o.cid = ClientID(q)
         /\ orders' = orders \cup {o} /\ active' = active \cup {o}
         /\ Made(q.call) = {} /\ Made(q.call)' = {o}
         /\ \A c \in Calls : c # q.call => Made(c)' = Made(c)
         /\ heard => Waits(q) /\ Adopt(q.call, o)
         /\ ~heard => UNCHANGED client
  BY AcceptMakes
<1>2. q.call \in Calls
  BY DEF TypeOK, Request
<1>3. OneOrderPerCID'
  BY <1>1 DEF OneOrderPerCID, Accept, Taken, ClientID
<1>4. TypeOK'
  BY <1>1, <1>2 DEF TypeOK, Accept, Adopt, client, Phase, Returned
<1>5. AdoptionInv' /\ SuccessInv'
  BY <1>1, <1>2 DEF TypeOK, Adopt, client, AdoptionInv, SuccessInv
<1> QED BY <1>3, <1>4, <1>5

(* The broker refuses or never sees a request, or an order ends. *)
LEMMA BrokerInv ==
    ASSUME IInv,
           \/ \E q \in requests, heard \in BOOLEAN, code \in {"AlreadyExists", "Unauthenticated"} :
                 Refuse(q, code, heard)
           \/ \E q \in requests : Lose(q)
           \/ \E o \in active : Finish(o)
    PROVE  IInv'
<1> USE DEF IInv
<1>1. /\ orders' = orders /\ active' \subseteq active /\ requests' \subseteq requests
      /\ denied' \subseteq Calls
      /\ \A d \in Calls : Made(d)' = Made(d)
  BY DEF TypeOK, Request, Refuse, Lose, Finish, Made
<1>2. OneOrderPerCID'
  BY <1>1 DEF OneOrderPerCID
<1>3. /\ adopted' = adopted /\ round' = round /\ probe' = probe
      /\ \/ phase' = phase
         \/ \E c \in Calls, r \in {"probing", "reject"} :
               phase[c] = "placing" /\ phase' = [phase EXCEPT ![c] = r]
  BY DEF TypeOK, Request, Refuse, Waits, HandleError, Lose, Finish, client
<1>4. TypeOK'
  BY <1>1, <1>3 DEF TypeOK, Phase, Returned
<1>5. AdoptionInv' /\ SuccessInv'
  BY <1>1, <1>3 DEF TypeOK, AdoptionInv, SuccessInv
<1> QED BY <1>2, <1>4, <1>5

LEMMA StepInv == IInv /\ [Next]_vars => IInv'
<1> SUFFICES ASSUME IInv, [Next]_vars PROVE IInv'
  OBVIOUS
<1>1. CASE UNCHANGED vars
  BY <1>1 DEF vars, IInv, TypeOK, OneOrderPerCID, AdoptionInv, SuccessInv, Made
<1>2. CASE Next
  BY <1>2, LoopInv, AcceptInv, BrokerInv DEF Next
<1> QED BY <1>1, <1>2

(* The account list, the client ids and what was returned stay consistent  *)
(* whatever the broker does.                                               *)
THEOREM PlacerInvariant == Spec => []IInv
BY InitInv, StepInv, PTL DEF Spec

THEOREM PlacerTypeCorrect == Spec => []TypeOK
<1>1. IInv => TypeOK
  BY DEF IInv
<1> QED BY <1>1, PlacerInvariant, PTL

(* A call that succeeds names the one order it made (matchesIntent, and    *)
(* the id minted once per call).                                           *)
THEOREM AdoptedIsOursHolds == Spec => []AdoptedIsOurs
<1>1. IInv => AdoptedIsOurs
  BY DEF IInv, AdoptionInv, AdoptedIsOurs
<1> QED BY <1>1, PlacerInvariant, PTL
-----------------------------------------------------------------------------
(* Refusals: a request that arrives late could still fill a refused call,  *)
(* so the requests under way belong to the invariant.                      *)
RInv == IInv /\ FirstRoundInv /\ DenialInv

(* What one call knows stays true while others step. *)
LEMMA FirstRoundElsewhere ==
    ASSUME NEW c \in Calls, FirstRound(c),
           phase'[c] = phase[c], round'[c] = round[c], Made(c)' = Made(c),
           \A q \in requests' : q.call = c => q \in requests
    PROVE  FirstRound(c)'
BY DEF FirstRound

(* The loop of a call: a new round ends what is known of the first. *)
LEMMA LoopFirstRound ==
    ASSUME RInv, NEW c \in Calls,
           Start(c) \/ Timeout(c) \/ Probe(c, TRUE) \/ Probe(c, FALSE)
    PROVE  FirstRoundInv' /\ DenialInv'
<1> USE DEF RInv, IInv
<1>1. /\ \A d \in Calls : Made(d)' = Made(d)
      /\ denied' = denied
  BY DEF Start, Timeout, Probe, Made
<1>2. /\ \A d \in Calls : d # c => phase'[d] = phase[d] /\ round'[d] = round[d]
      /\ phase[c] # "reject" /\ phase'[c] \notin {"idle", "reject"}
  BY DEF Start, Timeout, HandleError, Ambiguous, Definitive, Probe, Adopt,
         AfterProbe, TypeOK
<1>3. DenialInv'
  BY <1>1, <1>2 DEF DenialInv
<1>4. \A q \in requests' : q \in requests \/ q.call = c
  BY DEF Start, Timeout, Probe, AfterProbe, Current
<1>5. ASSUME FirstRound(c)' PROVE FirstRoundInv'
  <2>1. ASSUME NEW d \in Calls, d # c PROVE FirstRound(d)'
    BY <1>1, <1>2, <1>4, <2>1, FirstRoundElsewhere DEF FirstRoundInv
  <2> QED BY <1>5, <2>1 DEF FirstRoundInv
<1>6. FirstRound(c)
  BY DEF FirstRoundInv
<1>7. CASE Start(c)
  <2>1. requests' = requests \cup {[call |-> c, round |-> 0]} /\ round' = round
    BY <1>6, <1>7 DEF Start, Current, FirstRound
  <2>2. Made(c)' = {} /\ \A q \in requests : q.call # c
    BY <1>1, <1>6, <1>7 DEF Start, FirstRound
  <2>3. FirstRound(c)'
    BY <1>2, <2>1, <2>2 DEF FirstRound
  <2> QED BY <1>3, <1>5, <2>3
<1>8. CASE Timeout(c)
  <2>1. FirstRound(c)'
    BY <1>1, <1>2, <1>6, <1>8 DEF Timeout, HandleError, FirstRound
  <2> QED BY <1>3, <1>5, <2>1
<1>9. CASE Probe(c, TRUE) \/ Probe(c, FALSE)
  <2>1. \/ requests' = requests /\ round' = round
        \/ round' = [round EXCEPT ![c] = @ + 1]
    BY <1>9 DEF Probe, Adopt, AfterProbe
  <2>2. round[c] \in Nat /\ round \in [Calls -> 0..(Rounds - 1)]
    BY PlacerAssumption DEF TypeOK
  <2>3. CASE round' = [round EXCEPT ![c] = @ + 1]
    <3>1. round'[c] = round[c] + 1 /\ round'[c] # 0
      BY <2>2, <2>3
    <3>2. FirstRound(c)'
      BY <1>2, <3>1 DEF FirstRound
    <3> QED BY <1>3, <1>5, <3>2
  <2>4. CASE requests' = requests /\ round' = round
    <3>1. FirstRound(c)'
      BY <1>1, <1>2, <1>6, <2>4 DEF FirstRound
    <3> QED BY <1>3, <1>5, <3>1
  <2> QED BY <2>1, <2>3, <2>4
<1> QED BY <1>3, <1>7, <1>8, <1>9

(* The broker takes a request: the only one of a first round. *)
LEMMA AcceptFirstRound ==
    ASSUME RInv, NEW q \in requests, NEW heard \in BOOLEAN, Accept(q, heard)
    PROVE  FirstRoundInv' /\ DenialInv'
<1> USE DEF RInv, IInv
<1>1. q \in Request /\ q.call \in Calls
  BY DEF TypeOK, Request
<1>2. /\ requests' = requests \ {q} /\ round' = round /\ denied' = denied
      /\ phase' \in {phase, [phase EXCEPT ![q.call] = "ok"]}
  BY DEF Accept, Adopt, client
<1>3. \A c \in Calls : c # q.call => Made(c)' = Made(c)
  BY AcceptMakes
<1>4. DenialInv'
  BY <1>1, <1>2 DEF DenialInv, TypeOK
<1>5. ASSUME NEW c \in Calls, c # q.call PROVE FirstRound(c)'
  <2>1. phase'[c] = phase[c] /\ round'[c] = round[c] /\ Made(c)' = Made(c)
    BY <1>1, <1>2, <1>3, <1>5 DEF TypeOK
  <2> QED BY <1>2, <2>1, FirstRoundElsewhere DEF FirstRoundInv
<1>6. FirstRound(q.call)'
  <2>1. FirstRound(q.call)
    BY <1>1 DEF FirstRoundInv
  <2>2. phase[q.call] # "idle" /\ phase'[q.call] # "idle"
    BY <1>1, <1>2, <2>1 DEF FirstRound, TypeOK
  <2>3. CASE round[q.call] = 0
    <3>1. phase'[q.call] # "reject"
      BY <1>1, <1>2, <2>1, <2>3 DEF FirstRound, TypeOK
    <3>2. \A p \in requests : p.call = q.call => p \in Request /\ p.round = 0
      BY <1>1, <2>1, <2>3 DEF FirstRound, TypeOK
    <3>3. \A p \in requests : p.call = q.call => p = q
      BY <1>1, <3>2 DEF Request
    <3> QED BY <1>2, <2>2, <3>1, <3>3 DEF FirstRound
  <2>4. CASE round[q.call] # 0
    BY <1>2, <2>2, <2>4 DEF FirstRound
  <2> QED BY <2>3, <2>4
<1>7. FirstRoundInv'
  BY <1>5, <1>6 DEF FirstRoundInv
<1> QED BY <1>4, <1>7

(* The broker refuses one, and the caller may hear of it. *)
LEMMA RefuseFirstRound ==
    ASSUME RInv, NEW q \in requests, NEW heard \in BOOLEAN,
           NEW code \in {"AlreadyExists", "Unauthenticated"}, Refuse(q, code, heard)
    PROVE  FirstRoundInv' /\ DenialInv'
<1> USE DEF RInv, IInv
<1>1. q \in Request /\ q.call \in Calls
  BY DEF TypeOK, Request
<1>2. /\ requests' = requests \ {q} /\ round' = round
      /\ \A d \in Calls : Made(d)' = Made(d)
      /\ denied \subseteq denied'
      /\ \A c \in Calls : c # q.call => phase'[c] = phase[c]
  BY <1>1 DEF Refuse, HandleError, client, TypeOK, Made
<1>3. \/ phase' = phase
      \/ /\ phase[q.call] = "placing" /\ round[q.call] = q.round
         /\ \/ phase'[q.call] = "probing"
            \/ phase'[q.call] = "reject" /\ q.call \in denied'
  BY <1>1 DEF Refuse, Waits, HandleError, Ambiguous, Definitive, client, TypeOK
<1>4. DenialInv'
  BY <1>2, <1>3 DEF DenialInv
<1>5. ASSUME NEW c \in Calls, c # q.call PROVE FirstRound(c)'
  BY <1>2, <1>5, FirstRoundElsewhere DEF FirstRoundInv
<1>6. FirstRound(q.call)'
  <2>1. FirstRound(q.call)
    BY <1>1 DEF FirstRoundInv
  <2>2. CASE phase' = phase
    BY <1>1, <1>2, <2>1, <2>2, FirstRoundElsewhere
  <2>3. CASE round[q.call] # 0 /\ phase'[q.call] # "idle"
    BY <1>2, <2>3 DEF FirstRound
  <2>4. CASE /\ phase[q.call] = "placing" /\ round[q.call] = q.round
             /\ phase'[q.call] \in {"probing", "reject"} /\ round[q.call] = 0
    <3>1. \A p \in requests : p.call = q.call => p \in Request /\ p.round = 0
      BY <1>1, <2>1, <2>4 DEF FirstRound, TypeOK
    <3>2. \A p \in requests : p.call = q.call => p = q
      BY <1>1, <2>4, <3>1 DEF Request
    <3>3. (\A p \in requests' : p.call # q.call) /\ Made(q.call)' = {}
      BY <1>1, <1>2, <2>1, <2>4, <3>2 DEF FirstRound
    <3> QED BY <1>2, <2>4, <3>3 DEF FirstRound
  <2> QED BY <1>3, <2>2, <2>3, <2>4
<1> QED BY <1>4, <1>5, <1>6 DEF FirstRoundInv

LEMMA RefusalStep == RInv /\ [Next]_vars => RInv'
<1> SUFFICES ASSUME RInv, [Next]_vars PROVE RInv'
  OBVIOUS
<1>1. IInv'
  BY StepInv DEF RInv
<1>2. CASE \/ \E q \in requests : Lose(q)
           \/ \E o \in active : Finish(o)
           \/ UNCHANGED vars
  <2>1. /\ requests' \subseteq requests /\ phase' = phase /\ round' = round
        /\ denied' = denied /\ \A d \in Calls : Made(d)' = Made(d)
    BY <1>2 DEF Lose, Finish, vars, client, Made
  <2>2. FirstRoundInv' /\ DenialInv'
    BY <2>1, FirstRoundElsewhere DEF RInv, FirstRoundInv, DenialInv
  <2> QED BY <1>1, <2>2 DEF RInv
<1>3. CASE Next
  BY <1>1, <1>2, <1>3, LoopFirstRound, AcceptFirstRound, RefuseFirstRound DEF Next, RInv
<1> QED BY <1>2, <1>3

(* The invariant with what holds of refusals: a call refused in its first  *)
(* round has no order and no request that could make one, and no call is   *)
(* reported as refused unless the broker refused it.                       *)
THEOREM RefusalInvariant == Spec => []RInv
<1>1. Init => RInv
  BY InitInv, PlacerAssumption DEF RInv, Init, FirstRoundInv, FirstRound, DenialInv, Made
<1> QED BY <1>1, RefusalStep, PTL DEF Spec
-----------------------------------------------------------------------------
(* Refinement. *)

result == [c \in Calls |-> Standing(c)]
made == [c \in Calls |-> Made(c)]

LEMMA InitRefines == Init => Promise!Init
<1> SUFFICES ASSUME Init PROVE Promise!Init
  OBVIOUS
<1>1. \A c \in Calls : Made(c) = {}
  BY PlacerAssumption DEF Init, Made
<1>2. \A c \in Calls : Standing(c) = "open"
  BY DEF Init, Standing
<1> QED BY <1>1, <1>2 DEF Init, Promise!Init

(* A step of one call leaves the standing of the others alone. *)
LEMMA StandingOfOne ==
    ASSUME NEW c \in Calls, NEW r, Standing(c)' = r,
           \A d \in Calls : d # c => phase'[d] = phase[d] /\ round'[d] = round[d]
    PROVE  result' = [result EXCEPT ![c] = r]
BY DEF result, Standing

(* The broker takes a request. *)
LEMMA AcceptRefines ==
    ASSUME RInv, NEW q \in requests, NEW heard \in BOOLEAN, Accept(q, heard)
    PROVE  Promise!Next
<1> USE DEF RInv, IInv
<1>1. PICK o \in Order :
         /\ Made(q.call) = {} /\ Made(q.call)' = {o}
         /\ \A c \in Calls : c # q.call => Made(c)' = Made(c)
         /\ heard => Waits(q) /\ Adopt(q.call, o)
         /\ ~heard => UNCHANGED client
  BY AcceptMakes
<1>2. q.call \in Calls /\ denied' = denied
  BY DEF TypeOK, Request, Accept
<1>3. made' = [made EXCEPT ![q.call] = {o}] /\ o \in made'[q.call]
  BY <1>1, <1>2 DEF made
<1>4. CASE heard
  <2>1. Standing(q.call) \in {"open", "doubt"} /\ Standing(q.call)' = "ok"
    BY <1>1, <1>2, <1>4 DEF Standing, Waits, Adopt, TypeOK
  <2>2. \A d \in Calls : d # q.call => phase'[d] = phase[d] /\ round'[d] = round[d]
    BY <1>1, <1>4 DEF Adopt, TypeOK
  <2>3. result' = [result EXCEPT ![q.call] = "ok"]
    BY <1>2, <2>1, <2>2, StandingOfOne
  <2>4. adopted' = [adopted EXCEPT ![q.call] = {o}]
    BY <1>1, <1>4 DEF Adopt
  <2>5. Promise!PlaceHeard(q.call, o)
    BY <1>1, <1>2, <1>3, <2>1, <2>3, <2>4 DEF Promise!PlaceHeard, made, result
  <2> QED BY <1>2, <1>3, <2>5 DEF Promise!Next, made
<1>5. CASE ~heard
  <2>1. result' = result /\ adopted' = adopted
    BY <1>1, <1>5 DEF result, Standing, client
  <2>2. phase[q.call] # "ok" /\ ~(phase[q.call] = "reject" /\ round[q.call] = 0)
    BY <1>1, <1>2 DEF SuccessInv, FirstRoundInv, FirstRound
  <2>3. Standing(q.call) \in {"open", "doubt", "refusedLate", "maybe"}
    BY <1>2, <2>2 DEF Standing, TypeOK
  <2>4. Promise!Place(q.call, o)
    BY <1>1, <1>2, <1>3, <2>1, <2>3 DEF Promise!Place, made, result
  <2> QED BY <1>2, <1>3, <2>4 DEF Promise!Next, made
<1> QED BY <1>4, <1>5

(* An error that settles nothing puts the call in doubt, or leaves it so. *)
LEMMA DoubtRefines ==
    ASSUME RInv, NEW c \in Calls, phase[c] = "placing",
           phase' = [phase EXCEPT ![c] = "probing"],
           UNCHANGED <<round, adopted, orders, denied>>
    PROVE  [Promise!Next]_(Promise!vars)
<1> USE DEF RInv, IInv
<1>1. made' = made /\ Standing(c)' = "doubt"
  BY DEF made, Made, Standing, TypeOK
<1>2. result' = [result EXCEPT ![c] = "doubt"]
  BY <1>1, StandingOfOne DEF TypeOK
<1>3. CASE round[c] = 0
  <2>1. Standing(c) = "open"
    BY <1>3 DEF Standing
  <2>2. Promise!Doubt(c)
    BY <1>1, <1>2, <2>1 DEF Promise!Doubt, made, result
  <2> QED BY <2>2 DEF Promise!Next
<1>4. CASE round[c] # 0
  <2>1. Standing(c) = "doubt"
    BY <1>4 DEF Standing
  <2>2. result' = result
    BY <1>2, <2>1 DEF result
  <2> QED BY <1>1, <2>2 DEF Promise!vars, made, result
<1> QED BY <1>3, <1>4

(* A probe resolves the doubt, or the loop goes on with it or gives up. *)
LEMMA ProbeRefines ==
    ASSUME RInv, RInv', NEW c \in Calls, Probe(c, TRUE) \/ Probe(c, FALSE)
    PROVE  [Promise!Next]_(Promise!vars)
<1> USE DEF RInv, IInv
<1>1. /\ made' = made /\ denied' = denied
      /\ Standing(c) = "doubt" /\ phase[c] = "probing"
      /\ Made(c)' = Made(c)
  BY DEF Probe, made, Made, Standing
<1>2. \A d \in Calls : d # c => phase'[d] = phase[d] /\ round'[d] = round[d]
  BY DEF Probe, Adopt, AfterProbe, TypeOK
<1>3. ASSUME NEW o \in Found(c), Adopt(c, o) PROVE Promise!Resolve(c)
  <2>1. Standing(c)' = "ok" /\ phase'[c] = "ok"
    BY <1>3 DEF Adopt, Standing, TypeOK
  <2>2. result' = [result EXCEPT ![c] = "ok"]
    BY <1>2, <2>1, StandingOfOne
  <2>3. o \in Made(c)
    BY DEF Found, Listed, MatchesIntent, Made, TypeOK
  <2>4. adopted' = [adopted EXCEPT ![c] = made[c]]
    BY <1>3, <2>3, MadeIsOne DEF Adopt, made
  <2> QED BY <1>1, <2>2, <2>3, <2>4 DEF Promise!Resolve, made, result
<1>4. ASSUME AfterProbe(c) PROVE [Promise!Next]_(Promise!vars)
  <2>1. adopted' = adopted
    BY <1>4 DEF AfterProbe
  <2>2. CASE phase' = [phase EXCEPT ![c] = "maybe"] /\ round' = round
    <3>1. Standing(c)' = "maybe"
      BY <2>2 DEF Standing, TypeOK
    <3>2. result' = [result EXCEPT ![c] = "maybe"]
      BY <1>2, <3>1, StandingOfOne
    <3>3. Promise!Resolve(c)
      BY <1>1, <2>1, <3>2 DEF Promise!Resolve, made, result
    <3> QED BY <3>3 DEF Promise!Next
  <2>3. CASE phase' = phase /\ round' = round
    BY <1>1, <2>1, <2>3 DEF Promise!vars, result, made, Standing
  <2>4. CASE /\ phase' = [phase EXCEPT ![c] = "placing"]
             /\ round' = [round EXCEPT ![c] = @ + 1]
    <3>1. phase'[c] = "placing" /\ round'[c] # 0
      BY <2>4, PlacerAssumption DEF TypeOK
    <3>2. Standing(c)' = "doubt"
      BY <3>1 DEF Standing
    <3>3. result' = [result EXCEPT ![c] = "doubt"]
      BY <1>2, <3>2, StandingOfOne
    <3>4. result' = result
      BY <1>1, <3>3 DEF result
    <3> QED BY <1>1, <2>1, <3>4 DEF Promise!vars, result, made
  <2> QED BY <1>4, <2>2, <2>3, <2>4 DEF AfterProbe
<1> QED BY <1>3, <1>4 DEF Probe, Promise!Next

(* The broker refuses a request, on account of its id or otherwise. *)
LEMMA RefuseRefines ==
    ASSUME RInv, NEW q \in requests, NEW heard \in BOOLEAN,
           NEW code \in {"AlreadyExists", "Unauthenticated"}, Refuse(q, code, heard)
    PROVE  [Promise!Next]_(Promise!vars)
<1> USE DEF RInv, IInv
<1>1. /\ q \in Request /\ q.call \in Calls /\ made' = made
      /\ denied' = IF code = "Unauthenticated" THEN denied \cup {q.call} ELSE denied
  BY DEF TypeOK, Request, Refuse, Definitive, made, Made
<1>2. CASE UNCHANGED client
  <2>1. result' = result /\ adopted' = adopted
    BY <1>2 DEF client, result, Standing
  <2>2. CASE code = "Unauthenticated"
    <3>1. Promise!Deny(q.call)
      BY <1>1, <2>1, <2>2 DEF Promise!Deny, result, made
    <3> QED BY <1>1, <3>1 DEF Promise!Next
  <2>3. CASE code = "AlreadyExists"
    BY <1>1, <2>1, <2>3 DEF Promise!vars, result, made
  <2> QED BY <2>2, <2>3
<1>3. CASE Waits(q) /\ HandleError(q.call, code) /\ code = "AlreadyExists"
  <2>1. /\ phase[q.call] = "placing" /\ phase' = [phase EXCEPT ![q.call] = "probing"]
        /\ UNCHANGED <<round, adopted, orders, denied>>
    BY <1>1, <1>3 DEF Waits, HandleError, Ambiguous, Definitive, Refuse
  <2> QED BY <1>1, <2>1, DoubtRefines
<1>4. CASE Waits(q) /\ HandleError(q.call, code) /\ code = "Unauthenticated"
  <2>1. /\ phase[q.call] = "placing" /\ phase' = [phase EXCEPT ![q.call] = "reject"]
        /\ round' = round /\ adopted' = adopted
        /\ denied' = denied \cup {q.call}
    BY <1>1, <1>4 DEF Waits, HandleError, Ambiguous, Definitive
  <2>2. \A d \in Calls : d # q.call => phase'[d] = phase[d] /\ round'[d] = round[d]
    BY <2>1 DEF TypeOK
  <2>3. CASE round[q.call] = 0
    <3>1. Standing(q.call) = "open" /\ Standing(q.call)' = "refused"
      BY <1>1, <2>1, <2>3 DEF Standing, TypeOK
    <3>2. result' = [result EXCEPT ![q.call] = "refused"]
      BY <1>1, <2>2, <3>1, StandingOfOne
    <3>3. Made(q.call) = {}
      BY <1>1, <2>1, <2>3 DEF FirstRoundInv, FirstRound, Refuse
    <3>4. Promise!Refused(q.call)
      BY <1>1, <2>1, <3>1, <3>2, <3>3 DEF Promise!Refused, result, made
    <3> QED BY <1>1, <3>4 DEF Promise!Next
  <2>4. CASE round[q.call] # 0
    <3>1. Standing(q.call) = "doubt" /\ Standing(q.call)' = "refusedLate"
      BY <1>1, <2>1, <2>4 DEF Standing, TypeOK
    <3>2. result' = [result EXCEPT ![q.call] = "refusedLate"]
      BY <1>1, <2>2, <3>1, StandingOfOne
    <3>3. Promise!RefusedLate(q.call)
      BY <1>1, <2>1, <3>1, <3>2 DEF Promise!RefusedLate, result, made
    <3> QED BY <1>1, <3>3 DEF Promise!Next
  <2> QED BY <2>3, <2>4
<1> QED BY <1>2, <1>3, <1>4 DEF Refuse

(* Every step of a call or of the broker is one of the promise's, or none. *)
LEMMA StepRefines ==
    ASSUME RInv, RInv', [Next]_vars
    PROVE  [Promise!Next]_(Promise!vars)
<1>1. ASSUME NEW c \in Calls, Start(c)
      PROVE  UNCHANGED Promise!vars
  <2>1. phase[c] = "idle" /\ round[c] = 0
    BY <1>1 DEF Start, RInv, FirstRoundInv, FirstRound
  <2>2. /\ phase' = [phase EXCEPT ![c] = "placing"]
        /\ UNCHANGED <<round, adopted, orders, denied>>
    BY <1>1 DEF Start
  <2>3. \A d \in Calls : Standing(d)' = Standing(d)
    BY <2>1, <2>2 DEF Standing, RInv, IInv, TypeOK
  <2> QED BY <2>2, <2>3 DEF Promise!vars, Made
<1>2. ASSUME NEW c \in Calls, Timeout(c)
      PROVE  [Promise!Next]_(Promise!vars)
  <2>1. /\ phase[c] = "placing" /\ phase' = [phase EXCEPT ![c] = "probing"]
        /\ UNCHANGED <<round, adopted, orders, denied>>
    BY <1>2 DEF Timeout, HandleError, Ambiguous, Definitive
  <2> QED BY <2>1, DoubtRefines
<1>3. ASSUME \/ \E q \in requests : Lose(q)
             \/ \E o \in active : Finish(o)
             \/ UNCHANGED vars
      PROVE  UNCHANGED Promise!vars
  BY <1>3 DEF Lose, Finish, vars, client, Promise!vars, Made, Standing
<1> QED BY <1>1, <1>2, <1>3, AcceptRefines, ProbeRefines, RefuseRefines DEF Next

(* One intent, at most one order, and every answer as true as it can be:   *)
(* the retry loop implements the promise, at any broker.                   *)
THEOREM PlacementRefinement == Spec => ImplementsPlacement
<1>1. RInv /\ RInv' /\ [Next]_vars => [Promise!Next]_(Promise!vars)
  BY StepRefines
<1> QED BY InitRefines, <1>1, RefusalInvariant, PTL
        DEF Spec, ImplementsPlacement, Promise!Spec
=============================================================================
