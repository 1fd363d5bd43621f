------------------------------- MODULE Streams -------------------------------
(***************************************************************************)
(* trade/finam/orderbook.go and orderstream.go: a subscription that is     *)
(* established again after every error (reconnectLoop), as brokersim       *)
(* serves it.  Two kinds with opposite rules for a consumer that lags: an  *)
(* order book is state, of which the newest counts; an own trade is an     *)
(* event, none of which may be lost, and which every subscription replays. *)
(*                                                                         *)
(* A book is the set of its price levels on each side, without volumes;    *)
(* the broker's books come in the order of the constant Books, over and    *)
(* over but for the first.                                                 *)
(***************************************************************************)
EXTENDS Integers, Sequences

CONSTANTS
    Kinds,      \* of "book" and "trades", the kinds to look at
    Books,      \* the broker's order book, one after the other
    MaxTrades,  \* bound on the account's trades
    Wire,       \* bound on the responses on their way
    Buffer,     \* capacity of the channel to the consumer
    CrossLimit, \* maxCrossedResync
    MaxDrops,   \* bound on the drops that are counted
    MaxFaults   \* bound on what goes wrong

ASSUME StreamsAssumption ==
    /\ Kinds \subseteq {"book", "trades"}
    /\ \A n \in 1 .. Len(Books) : Books[n] \in [bid : SUBSET Nat, ask : SUBSET Nat]
    /\ Len(Books) >= 2
    /\ {MaxTrades, MaxDrops, MaxFaults} \subseteq Nat
    /\ {Wire, Buffer, CrossLimit} \subseteq Nat \ {0}

VARIABLES
    kind,
    at,         \* the broker's current book, or how many trades there were
    link,       \* the subscription: up, silent (up, but what is sent is lost), down
    wire,       \* responses on their way
    client,     \* is the reader in its receive loop?
    hand,       \* what it has left of the response at hand
    view,       \* bidBook and askBook
    crosses,    \* crossedCount
    send,       \* the snapshot it is sending, and how far it has come
    out,        \* the channel to the consumer
    drops,      \* dropWarner.total
    held,       \* the consumer's book
    seen,       \* TradeDedup.seen
    booked,     \* how often each trade was booked
    faults

server == <<at, link, wire, faults>>
reader == <<client, hand, view, crosses, send, drops>>
consumer == <<held, seen, booked>>
vars == <<kind, server, reader, out, consumer>>

Empty == [bid |-> {}, ask |-> {}]
Nothing == [book |-> Empty, newest |-> FALSE, drops |-> 0, gap |-> FALSE]
NotSending == [step |-> "no", what |-> Nothing, dropped |-> FALSE]

Init ==
    /\ kind \in Kinds
    /\ at = IF kind = "book" THEN 1 ELSE 0
    /\ link = "down" /\ wire = <<>> /\ faults = MaxFaults
    /\ client = "off" /\ hand = <<>> /\ view = Empty /\ crosses = 0
    /\ send = NotSending /\ out = <<>> /\ drops = 0
    /\ held = Nothing
    /\ seen = {} /\ booked = [t \in 1 .. MaxTrades |-> 0]

-----------------------------------------------------------------------------
(* The broker.  A response is a sequence: of deltas, each from one book to *)
(* another, or of trades.  What it has for a subscriber is sent if the     *)
(* subscription works.                                                     *)

After(n) == IF n = Len(Books) THEN 2 ELSE n + 1

Delta(from, to) == [gone |-> [bid |-> from.bid \ to.bid, ask |-> from.ask \ to.ask],
                    come |-> [bid |-> to.bid \ from.bid, ask |-> to.ask \ from.ask]]

Deliver(response) ==
    wire' = IF link = "up" THEN Append(wire, response) ELSE wire

BookMoves ==
    /\ kind = "book" /\ Len(wire) < Wire
    /\ at' = After(at)
    /\ Deliver(<<Delta(Books[at], Books[After(at)])>>)
    /\ UNCHANGED <<kind, link, faults, reader, out, consumer>>

(* A delta is missed, a REMOVE with it.                                    *)
DeltaLost ==
    /\ kind = "book" /\ link = "up" /\ faults > 0
    /\ at' = After(at) /\ faults' = faults - 1
    /\ UNCHANGED <<kind, link, wire, reader, out, consumer>>

TradeHappens ==
    /\ kind = "trades" /\ at < MaxTrades /\ Len(wire) < Wire
    /\ at' = at + 1
    /\ Deliver(<<at + 1>>)
    /\ UNCHANGED <<kind, link, faults, reader, out, consumer>>

TradeRepeated ==
    /\ kind = "trades" /\ at > 0 /\ link = "up" /\ faults > 0 /\ Len(wire) < Wire
    /\ faults' = faults - 1
    /\ Deliver(<<at>>)
    /\ UNCHANGED <<kind, at, link, reader, out, consumer>>

(* The stream breaks; of what was on its way some still arrives first.     *)
Break ==
    /\ link # "down" /\ faults > 0
    /\ link' = "down" /\ faults' = faults - 1
    /\ \E n \in 0 .. Len(wire) : wire' = SubSeq(wire, 1, n)
    /\ UNCHANGED <<kind, at, reader, out, consumer>>

(* The transport lives on and carries nothing.                             *)
FallSilent ==
    /\ link = "up" /\ faults > 0
    /\ link' = "silent" /\ faults' = faults - 1
    /\ UNCHANGED <<kind, at, wire, reader, out, consumer>>

-----------------------------------------------------------------------------
(* reconnectLoop, and what a subscription starts with: the whole book in   *)
(* one response, or all of today's trades; the reader's state is new.      *)

FirstResponse ==
    IF kind = "book" THEN << <<Delta(Empty, Books[at])>> >>
    ELSE IF at = 0 THEN <<>> ELSE << [t \in 1 .. at |-> t] >>

(* Mutant: the maps outlive the subscription. *)
SubscribeKeeping ==
    /\ client = "off"
    /\ client' = "on" /\ link' = "up"
    /\ wire' = FirstResponse
    /\ hand' = <<>> /\ crosses' = 0 /\ drops' = 0
    /\ UNCHANGED <<kind, at, faults, send, out, consumer, view>>

Subscribe ==
    /\ client = "off"
    /\ client' = "on" /\ link' = "up"
    /\ wire' = FirstResponse
    /\ hand' = <<>> /\ view' = Empty /\ crosses' = 0 /\ drops' = 0
    /\ UNCHANGED <<kind, at, faults, send, out, consumer>>

(* The reader returns; its context ends the stream with it. *)
Quit ==
    /\ client' = "off" /\ link' = "down"
    /\ wire' = <<>> /\ hand' = <<>> /\ UNCHANGED <<view, crosses>>

Idle == client = "on" /\ hand = <<>> /\ send = NotSending

Fails ==
    /\ Idle /\ wire = <<>> /\ link = "down"
    /\ Quit
    /\ UNCHANGED <<kind, at, faults, send, drops, out, consumer>>

(* Only the book has a heartbeat.  It is due on a silent stream, and may   *)
(* be on one where the market is quiet.                                    *)
HeartbeatTimeout ==
    /\ kind = "book" /\ Idle /\ wire = <<>> /\ link # "down"
    /\ IF link = "silent" THEN UNCHANGED faults
       ELSE faults > 0 /\ faults' = faults - 1
    /\ Quit
    /\ UNCHANGED <<kind, at, send, drops, out, consumer>>

Receive ==
    /\ Idle /\ wire # <<>>
    /\ hand' = Head(wire) /\ wire' = Tail(wire)
    /\ UNCHANGED <<kind, at, link, faults, client, view, crosses, send, drops, out, consumer>>

-----------------------------------------------------------------------------
(* The book's reader: fold the delta in, count the crossed books and give  *)
(* up after CrossLimit of them, send a book that has both sides.           *)

Folded(delta) == [ bid |-> (view.bid \ delta.gone.bid) \cup delta.come.bid,
                   ask |-> (view.ask \ delta.gone.ask) \cup delta.come.ask ]

Crossed(book) == \E b \in book.bid, a \in book.ask :
                    b > a /\ (\A x \in book.bid : x <= b) /\ (\A x \in book.ask : x >= a)

Reading == kind = "book" /\ hand # <<>> /\ send.step = "no"

Skip ==
    /\ Reading
    /\ LET book == Folded(Head(hand)) IN
       /\ Crossed(book) /\ crosses + 1 < CrossLimit
       /\ view' = book
    /\ crosses' = crosses + 1
    /\ hand' = Tail(hand)
    /\ UNCHANGED <<kind, server, client, send, drops, out, consumer>>

Resync ==
    /\ Reading
    /\ Crossed(Folded(Head(hand))) /\ crosses + 1 >= CrossLimit
    /\ Quit
    /\ UNCHANGED <<kind, at, faults, send, drops, out, consumer>>

(* Until the next one is sent this is the newest there is.                 *)
Older(items) == [ i \in DOMAIN items |-> [items[i] EXCEPT !.newest = FALSE] ]

Snapshot ==
    /\ Reading
    /\ LET book == Folded(Head(hand)) IN
       /\ ~Crossed(book)
       /\ view' = book
       /\ IF book.bid = {} \/ book.ask = {}
          THEN UNCHANGED <<send, out, held>>
          ELSE /\ send' = [ step |-> "try", dropped |-> FALSE,
                            what |-> [ book |-> book, newest |-> TRUE,
                                       drops |-> drops, gap |-> FALSE ] ]
               /\ out' = Older(out) /\ held' = [held EXCEPT !.newest = FALSE]
    /\ crosses' = 0
    /\ hand' = Tail(hand)
    /\ UNCHANGED <<kind, server, client, drops, seen, booked>>

-----------------------------------------------------------------------------
(* sendKeepNewest: try to send; when there is no room take the oldest out, *)
(* unless the consumer has done so meanwhile; try again.                   *)

Min2(m, n) == IF m < n THEN m ELSE n

Put ==
    /\ send.step = "try" /\ Len(out) < Buffer
    /\ out' = Append(out, send.what)
    /\ send' = NotSending
    /\ drops' = IF send.dropped THEN Min2(drops + 1, MaxDrops) ELSE drops
    /\ UNCHANGED <<kind, server, client, hand, view, crosses, consumer>>

NoRoom ==
    /\ send.step = "try" /\ Len(out) = Buffer
    /\ send' = [send EXCEPT !.step = "evict"]
    /\ UNCHANGED <<kind, server, client, hand, view, crosses, drops, out, consumer>>

(* Mutant: the consumer lags, so its update is the one to go. *)
EvictNewest ==
    /\ send.step = "evict"
    /\ send' = NotSending
    /\ UNCHANGED <<kind, server, client, hand, view, crosses, drops, out, consumer>>

Evict ==
    /\ send.step = "evict"
    /\ IF out = <<>>
       THEN send' = [send EXCEPT !.step = "try"] /\ UNCHANGED out
       ELSE /\ send' = [send EXCEPT !.step = "try", !.dropped = TRUE,
                                    !.what.gap = @ \/ Len(out) = 1]
            /\ out' = [ i \in 1 .. Len(out) - 1 |->
                          [out[i + 1] EXCEPT !.gap = @ \/ i = 1] ]
    /\ UNCHANGED <<kind, server, client, hand, view, crosses, drops, consumer>>

TakeBook ==
    /\ kind = "book" /\ out # <<>>
    /\ held' = Head(out) /\ out' = Tail(out)
    /\ UNCHANGED <<kind, server, reader, seen, booked>>

-----------------------------------------------------------------------------
(* Trades: each waits for room; the consumer folds a trade it has not seen.*)

(* Mutant: the rule of the books, or of the account stream. *)
SendTradeOrDrop ==
    /\ kind = "trades" /\ hand # <<>>
    /\ out' = IF Len(out) < Buffer THEN Append(out, Head(hand)) ELSE out
    /\ hand' = Tail(hand)
    /\ UNCHANGED <<kind, server, client, view, crosses, send, drops, consumer>>

SendTrade ==
    /\ kind = "trades" /\ hand # <<>> /\ Len(out) < Buffer
    /\ out' = Append(out, Head(hand))
    /\ hand' = Tail(hand)
    /\ UNCHANGED <<kind, server, client, view, crosses, send, drops, consumer>>

(* Mutant: the last id only is remembered. *)
TakeTradeForgetful ==
    /\ kind = "trades" /\ out # <<>>
    /\ seen' = {Head(out)}
    /\ booked' = IF Head(out) \in seen THEN booked ELSE [booked EXCEPT ![Head(out)] = @ + 1]
    /\ out' = Tail(out)
    /\ UNCHANGED <<kind, server, reader, held>>

TakeTrade ==
    /\ kind = "trades" /\ out # <<>>
    /\ seen' = seen \cup {Head(out)}
    /\ booked' = IF Head(out) \in seen THEN booked ELSE [booked EXCEPT ![Head(out)] = @ + 1]
    /\ out' = Tail(out)
    /\ UNCHANGED <<kind, server, reader, held>>

-----------------------------------------------------------------------------
Broker == BookMoves \/ DeltaLost \/ TradeHappens \/ TradeRepeated \/ Break \/ FallSilent
ReadBook == Skip \/ Resync \/ Snapshot \/ Put \/ NoRoom \/ Evict
Reader == Subscribe \/ Fails \/ Receive \/ ReadBook \/ SendTrade
Consumer == TakeBook \/ TakeTrade

Next == Broker \/ Reader \/ HeartbeatTimeout \/ Consumer

Spec == Init /\ [][Next]_vars

(* The goroutines run, the timer of a silent stream fires, and the market  *)
(* goes on.                                                                *)
Fairness ==
    /\ WF_vars(Reader) /\ WF_vars(Consumer)
    /\ WF_vars(HeartbeatTimeout /\ link = "silent")
    /\ WF_vars(BookMoves)

LiveSpec == Spec /\ Fairness

-----------------------------------------------------------------------------
TypeOK ==
    /\ kind \in {"book", "trades"} /\ at \in Nat /\ faults \in 0 .. MaxFaults
    /\ link \in {"up", "silent", "down"} /\ client \in {"on", "off"}
    /\ client = "off" => link = "down" /\ hand = <<>>
    /\ crosses \in 0 .. CrossLimit - 1
    /\ send.step \in {"no", "try", "evict"}
    /\ Len(out) <= Buffer
    /\ seen = { t \in 1 .. MaxTrades : booked[t] > 0 }

(* However the consumer lags and drains beside it, the newest book is      *)
(* never the one to go, and nothing overtakes it (sendKeepNewest).         *)
NewestKept ==
    LET items == <<held>> \o (IF kind = "book" THEN out ELSE <<>>)
                          \o (IF send.step = "no" THEN <<>> ELSE <<send.what>>)
    IN  \A i \in 1 .. Len(items) : items[i].newest <=> i = Len(items) /\ items[i] # Nothing

(* Books keep coming: neither a stream that has gone silent nor a level    *)
(* whose REMOVE was missed freezes the feed for good (heartbeatTimeout,    *)
(* maxCrossedResync).                                                      *)
BooksFlow == kind = "book" => []<>(send.step # "no")

(* A trade is booked once, however often it is replayed or repeated.       *)
TradesOnce == \A t \in 1 .. MaxTrades : booked[t] <= 1

(* Every trade reaches the consumer, if no stream stays silent for ever:   *)
(* one missed live comes with the next subscription (runTradeStream's      *)
(* blocking send, the replay).                                             *)
TradesArrive ==
    (link = "silent" ~> link # "silent") =>
        \A t \in 1 .. MaxTrades : (kind = "trades" /\ at >= t) ~> booked[t] = 1

(* Violated.  "A consumer that sees it rise between two snapshots knows    *)
(* the book it now holds does not continue the book it held".              *)
DropsTellGaps ==
    [][ held' # held /\ held # Nothing /\ held'.drops > held.drops => held'.gap ]_vars
=============================================================================
