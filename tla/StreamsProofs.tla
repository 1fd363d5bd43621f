---------------------------- MODULE StreamsProofs ----------------------------
(* Theorems about Streams: for any books, trades, capacities and faults,   *)
(* the channel keeps the newest book and a trade is booked once.           *)
EXTENDS Streams, SequenceTheorems, TLAPS

Sides == [bid : SUBSET Nat, ask : SUBSET Nat]
Deltas == [gone : Sides, come : Sides]
Trades == 1 .. MaxTrades
Item == [book : Sides, newest : BOOLEAN, drops : Nat, gap : BOOLEAN]
Sending == [step : {"no", "try", "evict"}, what : Item, dropped : BOOLEAN]

(* What a response is made of, and what waits for the consumer. *)
Piece == IF kind = "book" THEN Deltas ELSE Trades
Queued == IF kind = "book" THEN Item ELSE Trades

Flow ==
    /\ kind \in {"book", "trades"}
    /\ at \in Nat
    /\ kind = "book" => at \in 1 .. Len(Books)
    /\ kind = "trades" => at \in 0 .. MaxTrades /\ send = NotSending /\ held = Nothing
    /\ wire \in Seq(Seq(Piece)) /\ hand \in Seq(Piece)
    /\ view \in Sides /\ drops \in Nat
    /\ out \in Seq(Queued) /\ send \in Sending /\ held \in Item
    /\ seen \subseteq Trades /\ booked \in [Trades -> Nat]

(* The newest flag wanders from the book being sent to the end of the      *)
(* channel, and to the consumer with the last book.                        *)
Newest ==
    kind = "book" =>
        /\ send.step # "no" => send.what.newest
        /\ \A i \in 1 .. Len(out) : out[i].newest <=> i = Len(out) /\ send.step = "no"
        /\ held.newest <=> out = <<>> /\ send.step = "no" /\ held # Nothing

Once == /\ seen = { t \in Trades : booked[t] > 0 }
        /\ TradesOnce

StreamInv == Flow /\ TypeOK /\ Newest /\ Once

-----------------------------------------------------------------------------
(* Data. *)

LEMMA Constants ==
    /\ MaxTrades \in Nat /\ MaxDrops \in Nat /\ MaxFaults \in Nat
    /\ Wire \in Nat \ {0} /\ Buffer \in Nat \ {0} /\ CrossLimit \in Nat \ {0}
    /\ Len(Books) >= 2 /\ Kinds \subseteq {"book", "trades"}
    /\ \A n \in 1 .. Len(Books) : Books[n] \in Sides
BY StreamsAssumption DEF StreamsAssumption, Sides

LEMMA FunctionIsSeq ==
    ASSUME NEW S, NEW n \in Nat, NEW f \in [1 .. n -> S]
    PROVE  f \in Seq(S) /\ Len(f) = n
<1>1. f \in Seq(S)
  BY SeqDef
<1>2. DOMAIN f = 1 .. Len(f) /\ Len(f) \in Nat
  BY <1>1, LenProperties
<1>3. DOMAIN f = 1 .. n
  OBVIOUS
<1> QED
  BY <1>1, <1>2, <1>3

LEMMA DeltaType ==
    ASSUME NEW from \in Sides, NEW to \in Sides
    PROVE  Delta(from, to) \in Deltas
BY DEF Delta, Deltas, Sides

LEMMA FoldedType ==
    ASSUME NEW delta \in Deltas, view \in Sides
    PROVE  Folded(delta) \in Sides
BY DEF Folded, Deltas, Sides

LEMMA EmptyType == Empty \in Sides /\ Nothing \in Item /\ NotSending \in Sending
<1>1. Empty \in Sides
  BY DEF Empty, Sides
<1>2. Nothing \in Item
  BY <1>1 DEF Nothing, Item
<1> QED
  BY <1>1, <1>2 DEF NotSending, Sending

LEMMA ItemUpdates ==
    ASSUME NEW x \in Item
    PROVE  /\ [x EXCEPT !.newest = FALSE] \in Item
           /\ [x EXCEPT !.newest = FALSE].newest = FALSE
           /\ \A g \in BOOLEAN : /\ [x EXCEPT !.gap = g] \in Item
                                 /\ [x EXCEPT !.gap = g].newest = x.newest
BY DEF Item

(* Every book of the channel grows old. *)
LEMMA OlderSeq ==
    ASSUME NEW s \in Seq(Item)
    PROVE  /\ Older(s) \in Seq(Item) /\ Len(Older(s)) = Len(s)
           /\ \A i \in 1 .. Len(s) : Older(s)[i].newest = FALSE
<1>1. Len(s) \in Nat /\ DOMAIN s = 1 .. Len(s) /\ s \in [1 .. Len(s) -> Item]
  BY LenProperties
<1>2. Older(s) = [ i \in 1 .. Len(s) |-> [s[i] EXCEPT !.newest = FALSE] ]
  BY <1>1 DEF Older
<1>3. \A i \in 1 .. Len(s) : /\ [s[i] EXCEPT !.newest = FALSE] \in Item
                             /\ [s[i] EXCEPT !.newest = FALSE].newest = FALSE
  BY <1>1, ItemUpdates
<1>4. Older(s) \in [1 .. Len(s) -> Item]
  BY <1>2, <1>3
<1>5. \A i \in 1 .. Len(s) : Older(s)[i].newest = FALSE
  BY <1>2, <1>3
<1> QED
  BY <1>1, <1>4, <1>5, FunctionIsSeq

(* What Evict leaves in the channel. *)
Rest(s) == [ i \in 1 .. Len(s) - 1 |-> [s[i + 1] EXCEPT !.gap = @ \/ i = 1] ]

LEMMA RestSeq ==
    ASSUME NEW s \in Seq(Item), s # <<>>
    PROVE  /\ Rest(s) \in Seq(Item) /\ Len(Rest(s)) = Len(s) - 1
           /\ \A i \in 1 .. Len(s) - 1 : Rest(s)[i].newest = s[i + 1].newest
<1>1. Len(s) \in Nat \ {0}
  BY EmptySeq
<1>2. \A i \in 1 .. Len(s) - 1 : s[i + 1] \in Item
  BY <1>1, ElementOfSeq
<1>3. ASSUME NEW i \in 1 .. Len(s) - 1
      PROVE  /\ [s[i + 1] EXCEPT !.gap = @ \/ i = 1] \in Item
             /\ [s[i + 1] EXCEPT !.gap = @ \/ i = 1].newest = s[i + 1].newest
  <2> DEFINE g == s[i + 1].gap \/ i = 1
  <2>1. s[i + 1] \in Item
    BY <1>2
  <2>2. g \in BOOLEAN
    OBVIOUS
  <2>3. [s[i + 1] EXCEPT !.gap = @ \/ i = 1] = [s[i + 1] EXCEPT !.gap = g]
    OBVIOUS
  <2> HIDE DEF g
  <2> QED
    BY <2>1, <2>2, <2>3, ItemUpdates
<1>4. Rest(s) \in [1 .. Len(s) - 1 -> Item]
  BY <1>3 DEF Rest
<1>5. \A i \in 1 .. Len(s) - 1 : Rest(s)[i].newest = s[i + 1].newest
  BY <1>3 DEF Rest
<1>6. Len(s) - 1 \in Nat
  BY <1>1
<1> QED
  BY <1>4, <1>5, <1>6, FunctionIsSeq

-----------------------------------------------------------------------------
(* Flow is preserved. *)

LEMMA KindStays ==
    ASSUME [Next]_vars
    PROVE  kind' = kind /\ Piece' = Piece /\ Queued' = Queued
<1>1. kind' = kind
  BY DEF Next, Broker, ReadBook, Reader, Consumer, BookMoves, DeltaLost, TradeHappens,
         TradeRepeated, Break, FallSilent, Subscribe, Fails, HeartbeatTimeout, Receive, Skip,
         Resync, Snapshot, Put, NoRoom, Evict, TakeBook, SendTrade, TakeTrade, vars
<1> QED
  BY <1>1 DEF Piece, Queued

(* What the broker sends, and what it has for a new subscriber. *)
LEMMA NextBook ==
    ASSUME kind = "book", Flow
    PROVE  /\ After(at) \in 1 .. Len(Books)
           /\ Delta(Books[at], Books[After(at)]) \in Piece
           /\ Delta(Empty, Books[at]) \in Piece
<1>1. at \in 1 .. Len(Books) /\ After(at) \in 1 .. Len(Books)
  BY Constants DEF Flow, After
<1>2. Books[at] \in Sides /\ Books[After(at)] \in Sides /\ Empty \in Sides
  BY <1>1, Constants, EmptyType
<1> QED
  BY <1>1, <1>2, DeltaType DEF Piece

LEMMA SingletonSeq ==
    ASSUME NEW S, NEW x \in S
    PROVE  <<x>> \in Seq(S)
OBVIOUS

LEMMA DeliverType ==
    ASSUME NEW x \in Piece, Flow, Deliver(<<x>>)
    PROVE  wire' \in Seq(Seq(Piece))
<1>1. <<x>> \in Seq(Piece)
  BY SingletonSeq
<1>2. wire \in Seq(Seq(Piece))
  BY DEF Flow
<1> QED
  BY <1>1, <1>2, AppendProperties DEF Deliver

LEMMA FirstResponseType ==
    ASSUME Flow
    PROVE  FirstResponse \in Seq(Seq(Piece))
<1>1. CASE kind = "book"
  <2>1. <<Delta(Empty, Books[at])>> \in Seq(Piece)
    BY <1>1, NextBook, SingletonSeq
  <2> QED
    BY <2>1, <1>1, SingletonSeq DEF FirstResponse
<1>2. CASE kind = "trades" /\ at = 0
  BY <1>2, EmptySeq DEF FirstResponse
<1>3. CASE kind = "trades" /\ at # 0
  <2> DEFINE day == [t \in 1 .. at |-> t]
  <2>1. at \in Nat /\ Piece = Trades /\ at =< MaxTrades
    BY <1>3, Constants DEF Flow, Piece
  <2>2. day \in [1 .. at -> Piece]
    BY <2>1, Constants DEF Trades
  <2>3. day \in Seq(Piece)
    BY <2>1, <2>2, FunctionIsSeq
  <2>4. FirstResponse = <<day>>
    BY <1>3 DEF FirstResponse
  <2> HIDE DEF day
  <2> QED
    BY <2>3, <2>4, SingletonSeq
<1> QED
  BY <1>1, <1>2, <1>3 DEF Flow

LEMMA BrokerFlow ==
    ASSUME Flow, Broker
    PROVE  Flow'
<1>0. kind' = kind /\ Piece' = Piece /\ Queued' = Queued
  BY KindStays DEF Next
<1> USE DEF Flow, server, reader, consumer
<1>1. CASE BookMoves
  <2>1. kind = "book"
    BY <1>1 DEF BookMoves
  <2>2. at' \in 1 .. Len(Books) /\ wire' \in Seq(Seq(Piece))
    BY <1>1, <2>1, NextBook, DeliverType DEF BookMoves
  <2> QED
    BY <1>0, <1>1, <2>1, <2>2, Constants DEF BookMoves
<1>2. CASE DeltaLost
  <2>1. kind = "book"
    BY <1>2 DEF DeltaLost
  <2>2. at' \in 1 .. Len(Books)
    BY <1>2, <2>1, NextBook DEF DeltaLost
  <2> QED
    BY <1>0, <1>2, <2>1, <2>2, Constants DEF DeltaLost
<1>3. CASE TradeHappens
  <2>1. kind = "trades" /\ at + 1 \in Piece /\ at' = at + 1 /\ at < MaxTrades
    BY <1>3, Constants DEF TradeHappens, Piece, Trades
  <2>2. wire' \in Seq(Seq(Piece))
    BY <1>3, <2>1, DeliverType DEF TradeHappens
  <2> QED
    BY <1>0, <1>3, <2>1, <2>2, Constants DEF TradeHappens
<1>4. CASE TradeRepeated
  <2>1. kind = "trades" /\ at \in Piece
    BY <1>4, Constants DEF TradeRepeated, Piece, Trades
  <2>2. wire' \in Seq(Seq(Piece))
    BY <1>4, <2>1, DeliverType DEF TradeRepeated
  <2> QED
    BY <1>0, <1>4, <2>1, <2>2 DEF TradeRepeated
<1>5. CASE Break
  <2>1. PICK n \in 0 .. Len(wire) : wire' = SubSeq(wire, 1, n)
    BY <1>5 DEF Break
  <2>2. \A i \in 1 .. n : wire[i] \in Seq(Piece)
    BY <2>1, LenProperties, ElementOfSeq
  <2>3. wire' \in Seq(Seq(Piece))
    BY <2>1, <2>2, LenProperties, SubSeqProperties
  <2> QED
    BY <1>0, <1>5, <2>3 DEF Break
<1>6. CASE FallSilent
  BY <1>0, <1>6 DEF FallSilent
<1> QED
  BY <1>1, <1>2, <1>3, <1>4, <1>5, <1>6 DEF Broker

LEMMA SubscriptionFlow ==
    ASSUME Flow, Subscribe \/ Fails \/ HeartbeatTimeout \/ Receive \/ Resync
    PROVE  Flow'
<1>0. kind' = kind /\ Piece' = Piece /\ Queued' = Queued
  BY KindStays DEF Next, Reader, ReadBook
<1>e. <<>> \in Seq(Piece) /\ <<>> \in Seq(Seq(Piece)) /\ Empty \in Sides
  BY EmptySeq, EmptyType
<1> USE DEF Flow, server, reader, consumer
<1>1. CASE Subscribe
  BY <1>0, <1>1, <1>e, FirstResponseType DEF Subscribe
<1>2. CASE Fails
  BY <1>0, <1>2, <1>e DEF Fails, Quit
<1>3. CASE HeartbeatTimeout
  BY <1>0, <1>3, <1>e DEF HeartbeatTimeout, Quit
<1>4. CASE Receive
  <2>1. hand' \in Seq(Piece) /\ wire' \in Seq(Seq(Piece))
    BY <1>4, HeadTailProperties DEF Receive
  <2> QED
    BY <1>0, <1>4, <2>1 DEF Receive
<1>5. CASE Resync
  BY <1>0, <1>5, <1>e DEF Resync, Quit
<1> QED
  BY <1>1, <1>2, <1>3, <1>4, <1>5

LEMMA SendingUpdates ==
    ASSUME NEW x \in Sending
    PROVE  /\ x.what \in Item
           /\ [x EXCEPT !.step = "evict"] \in Sending
           /\ [x EXCEPT !.step = "try"] \in Sending
           /\ [x EXCEPT !.step = "evict"].what = x.what
           /\ [x EXCEPT !.step = "try"].what = x.what
BY DEF Sending

(* What Evict leaves of the book it is sending. *)
LEMMA Evicting ==
    ASSUME NEW x \in Sending, NEW last \in BOOLEAN,
           NEW y, y = [x EXCEPT !.step = "try", !.dropped = TRUE, !.what.gap = @ \/ last]
    PROVE  y \in Sending /\ y.what.newest = x.what.newest /\ y.step = "try"
<1> DEFINE g == x.what.gap \/ last
<1>1. y = [x EXCEPT !.step = "try", !.dropped = TRUE, !.what = [x.what EXCEPT !.gap = g]]
  BY DEF Sending, Item
<1>2. g \in BOOLEAN
  OBVIOUS
<1> HIDE DEF g
<1>3. /\ [x.what EXCEPT !.gap = g] \in Item
      /\ [x.what EXCEPT !.gap = g].newest = x.what.newest
  BY <1>2, SendingUpdates, ItemUpdates
<1> DEFINE w == [x.what EXCEPT !.gap = g]
<1>4. y = [x EXCEPT !.step = "try", !.dropped = TRUE, !.what = w]
  BY <1>1
<1>5. w \in Item /\ w.newest = x.what.newest
  BY <1>3
<1> HIDE DEF w
<1> QED
  BY <1>4, <1>5 DEF Sending

LEMMA BookFlow ==
    ASSUME Flow, Skip \/ Snapshot \/ Put \/ NoRoom \/ Evict \/ TakeBook,
           kind = "book"
    PROVE  Flow'
<1>0. kind' = kind /\ Piece' = Piece /\ Queued' = Queued
  BY KindStays DEF Next, Reader, ReadBook, Consumer
<1>b. Piece = Deltas /\ Queued = Item
  BY DEF Piece, Queued
<1> USE DEF Flow, server, reader, consumer
<1>h. ASSUME hand # <<>>
      PROVE  Folded(Head(hand)) \in Sides /\ Tail(hand) \in Seq(Piece)
  BY <1>h, <1>b, HeadTailProperties, FoldedType
<1>1. CASE Skip
  BY <1>0, <1>1, <1>h DEF Skip, Reading
<1>2. CASE Snapshot
  <2> DEFINE book == Folded(Head(hand))
             what == [book |-> book, newest |-> TRUE, drops |-> drops, gap |-> FALSE]
  <2>1. book \in Sides /\ view' \in Sides /\ hand' \in Seq(Piece)
    BY <1>2, <1>h DEF Snapshot, Reading
  <2>2. what \in Item
    BY <2>1 DEF Item
  <2>3. send' \in Sending /\ out' \in Seq(Queued) /\ held' \in Item
    <3>1. CASE UNCHANGED <<send, out, held>>
      BY <3>1, <1>0
    <3>2. CASE /\ send' = [step |-> "try", dropped |-> FALSE, what |-> what]
               /\ out' = Older(out) /\ held' = [held EXCEPT !.newest = FALSE]
      BY <3>2, <1>b, <2>2, OlderSeq, ItemUpdates DEF Sending
    <3> QED
      BY <3>1, <3>2, <1>2 DEF Snapshot
  <2> QED
    BY <1>0, <1>2, <2>1, <2>3 DEF Snapshot
<1>3. CASE Put
  <2>1. out' \in Seq(Queued)
    BY <1>3, <1>b, SendingUpdates, AppendProperties DEF Put
  <2>2. drops' \in Nat /\ send' \in Sending
    BY <1>3, Constants, EmptyType DEF Put, Min2
  <2> QED
    BY <1>0, <1>3, <2>1, <2>2 DEF Put
<1>4. CASE NoRoom
  BY <1>0, <1>4, SendingUpdates DEF NoRoom
<1>5. CASE Evict
  <2>1. send' \in Sending /\ out' \in Seq(Queued)
    <3>1. CASE out = <<>>
      BY <3>1, <1>5, SendingUpdates DEF Evict
    <3>2. CASE out # <<>>
      <4>1. out' = Rest(out)
        BY <3>2, <1>5 DEF Evict, Rest
      <4>2. send' = [send EXCEPT !.step = "try", !.dropped = TRUE,
                                 !.what.gap = @ \/ (Len(out) = 1)]
        BY <3>2, <1>5 DEF Evict
      <4>3. (Len(out) = 1) \in BOOLEAN
        OBVIOUS
      <4> QED
        BY <4>1, <4>2, <4>3, <3>2, <1>b, RestSeq, Evicting
    <3> QED
      BY <3>1, <3>2
  <2> QED
    BY <1>0, <1>5, <2>1 DEF Evict
<1>6. CASE TakeBook
  BY <1>0, <1>6, <1>b, HeadTailProperties DEF TakeBook
<1> QED
  BY <1>1, <1>2, <1>3, <1>4, <1>5, <1>6

LEMMA TradeFlow ==
    ASSUME Flow, SendTrade \/ TakeTrade
    PROVE  Flow'
<1>0. kind' = kind /\ Piece' = Piece /\ Queued' = Queued
  BY KindStays DEF Next, Reader, Consumer
<1>t. kind = "trades" /\ Piece = Trades /\ Queued = Trades
  BY DEF SendTrade, TakeTrade, Piece, Queued
<1> USE DEF Flow, server, reader, consumer
<1>1. CASE SendTrade
  <2>1. Head(hand) \in Queued /\ hand' \in Seq(Piece)
    BY <1>1, <1>t, HeadTailProperties DEF SendTrade
  <2>2. out' \in Seq(Queued)
    BY <1>1, <2>1, AppendProperties DEF SendTrade
  <2> QED
    BY <1>0, <1>1, <2>1, <2>2 DEF SendTrade
<1>2. CASE TakeTrade
  <2>1. Head(out) \in Trades /\ out' \in Seq(Queued)
    BY <1>2, <1>t, HeadTailProperties DEF TakeTrade
  <2>2. seen' \subseteq Trades /\ booked' \in [Trades -> Nat]
    BY <1>2, <2>1 DEF TakeTrade
  <2> QED
    BY <1>0, <1>2, <2>1, <2>2 DEF TakeTrade
<1> QED
  BY <1>1, <1>2

(* Only a stream of books is ever sending one. *)
LEMMA SendingIsBook ==
    ASSUME Flow, Skip \/ Snapshot \/ Put \/ NoRoom \/ Evict \/ TakeBook
    PROVE  kind = "book"
BY DEF Flow, Skip, Snapshot, Reading, Put, NoRoom, Evict, TakeBook, NotSending

LEMMA FlowStep ==
    ASSUME Flow, [Next]_vars
    PROVE  Flow'
<1>1. CASE UNCHANGED vars
  BY <1>1 DEF vars, server, reader, consumer, Flow, Piece, Queued
<1>2. CASE Next
  BY <1>2, BrokerFlow, SubscriptionFlow, SendingIsBook, BookFlow, TradeFlow
     DEF Next, Reader, ReadBook, Consumer
<1> QED
  BY <1>1, <1>2

-----------------------------------------------------------------------------
(* So are the flag of the newest book and the ledger of trades. *)

LEMMA OnceStep ==
    ASSUME Flow, Once, [Next]_vars
    PROVE  Once'
<1>1. CASE TakeTrade
  <2> DEFINE t == Head(out)
  <2>1. t \in Trades
    BY <1>1, HeadTailProperties DEF TakeTrade, Flow, Queued
  <2>2. seen' = seen \cup {t}
        /\ booked' = IF t \in seen THEN booked ELSE [booked EXCEPT ![t] = @ + 1]
    BY <1>1 DEF TakeTrade
  <2>3. booked \in [Trades -> Nat] /\ seen = { u \in Trades : booked[u] > 0 }
        /\ \A u \in Trades : booked[u] <= 1
    BY DEF Flow, Once, TradesOnce, Trades
  <2> HIDE DEF t
  <2>4. CASE t \in seen
    BY <2>2, <2>3, <2>4 DEF Once, TradesOnce, Trades
  <2>5. CASE t \notin seen
    <3>1. booked[t] = 0
      BY <2>1, <2>3, <2>5
    <3>2. \A u \in Trades : booked'[u] = IF u = t THEN 1 ELSE booked[u]
      BY <2>1, <2>2, <2>3, <2>5, <3>1
    <3>3. seen' = { u \in Trades : booked'[u] > 0 }
      BY <2>1, <2>2, <2>3, <3>2
    <3>4. \A u \in Trades : booked'[u] <= 1
      BY <2>3, <3>2
    <3> QED
      BY <3>3, <3>4 DEF Once, TradesOnce, Trades
  <2> QED
    BY <2>4, <2>5
<1>2. CASE UNCHANGED <<seen, booked>>
  BY <1>2 DEF Once, TradesOnce, Trades
<1>3. TakeTrade \/ UNCHANGED <<seen, booked>>
  BY DEF Next, Broker, ReadBook, Reader, Consumer, BookMoves, DeltaLost, TradeHappens,
         TradeRepeated, Break, FallSilent, Subscribe, Fails, HeartbeatTimeout, Receive, Skip,
         Resync, Snapshot, Put, NoRoom, Evict, TakeBook, SendTrade, vars, consumer
<1> QED
  BY <1>1, <1>2, <1>3

LEMMA NewestStep ==
    ASSUME Flow, Newest, [Next]_vars
    PROVE  Newest'
<1>k. kind' = kind
  BY KindStays
<1> SUFFICES ASSUME kind = "book"
             PROVE  Newest'
  BY <1>k DEF Newest
<1> USE DEF server, reader, consumer
<1>b. out \in Seq(Item) /\ held \in Item /\ send \in Sending
  BY DEF Flow, Queued
<1>n. /\ send.step # "no" => send.what.newest
      /\ \A i \in 1 .. Len(out) : out[i].newest <=> i = Len(out) /\ send.step = "no"
      /\ held.newest <=> out = <<>> /\ send.step = "no" /\ held # Nothing
  BY DEF Newest
<1>l. /\ Len(out) \in Nat /\ (out # <<>> => Len(out) # 0)
      /\ Nothing.newest = FALSE
  BY <1>b, LenProperties, EmptySeq DEF Nothing
<1>1. CASE UNCHANGED <<send, out, held>>
  BY <1>1, <1>n DEF Newest
<1>2. CASE Snapshot /\ ~UNCHANGED <<send, out, held>>
  <2>1. /\ send'.step = "try" /\ send'.what.newest
        /\ out' = Older(out) /\ held' = [held EXCEPT !.newest = FALSE]
    BY <1>2 DEF Snapshot
  <2>2. /\ Len(out') = Len(out)
        /\ \A i \in 1 .. Len(out') : out'[i].newest = FALSE
        /\ held'.newest = FALSE
    <3>1. Len(Older(out)) = Len(out) /\ \A i \in 1 .. Len(out) : Older(out)[i].newest = FALSE
      BY <1>b, OlderSeq
    <3>2. [held EXCEPT !.newest = FALSE].newest = FALSE
      BY <1>b, ItemUpdates
    <3> QED
      BY <2>1, <3>1, <3>2
  <2> QED
    BY <2>1, <2>2 DEF Newest
<1>3. CASE Put
  <2>1. /\ send.step = "try" /\ send'.step = "no" /\ held' = held
        /\ out' = Append(out, send.what)
    BY <1>3 DEF Put, NotSending
  <2>2. /\ out' # <<>> /\ Len(out') = Len(out) + 1
        /\ \A i \in 1 .. Len(out) : out'[i] = out[i]
        /\ out'[Len(out) + 1] = send.what
    <3>1. send.what \in Item
      BY <1>b, SendingUpdates
    <3> QED
      BY <2>1, <1>b, <3>1, AppendProperties
  <2>3. \A i \in 1 .. Len(out') : out'[i].newest <=> i = Len(out')
    BY <2>1, <2>2, <1>n, <1>l
  <2> QED
    BY <2>1, <2>2, <2>3, <1>n DEF Newest
<1>4. CASE NoRoom
  <2>1. /\ send.step = "try" /\ out' = out /\ held' = held
        /\ send'.step = "evict" /\ send'.what = send.what
    BY <1>4, <1>b, SendingUpdates DEF NoRoom, Sending
  <2> QED
    BY <2>1, <1>n DEF Newest
<1>5. CASE Evict
  <2>1. send.step = "evict" /\ held' = held
    BY <1>5 DEF Evict
  <2>2. CASE out = <<>>
    <3>1. send'.step = "try" /\ send'.what = send.what /\ out' = out
      BY <1>5, <2>2, <1>b, SendingUpdates DEF Evict, Sending
    <3> QED
      BY <2>1, <3>1, <1>n DEF Newest
  <2>3. CASE out # <<>>
    <3>1. out' = Rest(out)
      BY <2>3, <1>5 DEF Evict, Rest
    <3>2. send' = [send EXCEPT !.step = "try", !.dropped = TRUE,
                               !.what.gap = @ \/ (Len(out) = 1)]
      BY <2>3, <1>5 DEF Evict
    <3>3. send'.what.newest = send.what.newest /\ send'.step = "try"
      <4>1. (Len(out) = 1) \in BOOLEAN
        OBVIOUS
      <4> QED
        BY <3>2, <4>1, <1>b, Evicting
    <3>4. /\ Len(out') = Len(out) - 1
          /\ \A i \in 1 .. Len(out) - 1 : out'[i].newest = out[i + 1].newest
      BY <3>1, <2>3, <1>b, RestSeq
    <3>5. \A i \in 1 .. Len(out') : ~out'[i].newest
      <4> SUFFICES ASSUME NEW i \in 1 .. Len(out') PROVE ~out'[i].newest
        OBVIOUS
      <4>1. i \in 1 .. Len(out) - 1 /\ i + 1 \in 1 .. Len(out)
        BY <3>4, <1>l
      <4>2. ~out[i + 1].newest
        BY <4>1, <2>1, <1>n
      <4> QED
        BY <4>1, <4>2, <3>4
    <3> QED
      BY <3>3, <3>5, <2>1, <1>n DEF Newest
  <2> QED
    BY <2>2, <2>3
<1>6. CASE TakeBook
  <2>1. out # <<>> /\ held' = Head(out) /\ out' = Tail(out) /\ send' = send
    BY <1>6 DEF TakeBook
  <2>2. /\ Len(out') = Len(out) - 1 /\ out' \in Seq(Item)
        /\ \A i \in 1 .. Len(out') : out'[i] = out[i + 1]
        /\ held' = out[1]
    BY <2>1, <1>b, HeadTailProperties
  <2>3. \A i \in 1 .. Len(out') : out'[i].newest <=> i = Len(out') /\ send.step = "no"
    <3> SUFFICES ASSUME NEW i \in 1 .. Len(out')
                 PROVE  out'[i].newest <=> i = Len(out') /\ send.step = "no"
      OBVIOUS
    <3>1. i + 1 \in 1 .. Len(out) /\ (i + 1 = Len(out) <=> i = Len(out'))
      BY <2>2, <1>l
    <3>2. out[i + 1].newest <=> i + 1 = Len(out) /\ send.step = "no"
      BY <3>1, <1>n
    <3>3. out'[i] = out[i + 1]
      BY <2>2
    <3> QED
      BY <3>1, <3>2, <3>3
  <2>4. held'.newest <=> Len(out) = 1 /\ send.step = "no"
    <3>1. 1 \in 1 .. Len(out)
      BY <2>1, <1>l
    <3>2. out[1].newest <=> 1 = Len(out) /\ send.step = "no"
      BY <3>1, <1>n
    <3> QED
      BY <2>2, <3>2
  <2>5. out' = <<>> <=> Len(out) = 1
    BY <2>2, <1>l, EmptySeq
  <2> QED
    BY <2>1, <2>3, <2>4, <2>5, <1>n, <1>l DEF Newest
<1>7. \/ UNCHANGED <<send, out, held>>
      \/ Snapshot \/ Put \/ NoRoom \/ Evict \/ TakeBook
  BY DEF Next, Broker, ReadBook, Reader, Consumer, BookMoves, DeltaLost, TradeHappens,
         TradeRepeated, Break, FallSilent, Subscribe, Fails, HeartbeatTimeout, Receive, Skip,
         Resync, SendTrade, TakeTrade, vars
<1> QED
  BY <1>1, <1>2, <1>3, <1>4, <1>5, <1>6, <1>7

LEMMA BoundsStep ==
    ASSUME Flow, Once', TypeOK, [Next]_vars
    PROVE  TypeOK'
<1>k. kind' = kind /\ kind \in {"book", "trades"} /\ at \in Nat
  BY KindStays DEF Flow
<1>o. seen' = { t \in 1 .. MaxTrades : booked'[t] > 0 }
  BY DEF Once, Trades
<1>l. Len(out) \in Nat /\ (out # <<>> => Len(out) \in Nat \ {0})
  BY LenProperties, EmptySeq DEF Flow
<1> USE <1>k, <1>o, Constants DEF TypeOK, server, reader, consumer
<1>1. CASE BookMoves
  BY <1>1, NextBook DEF BookMoves, Flow
<1>2. CASE DeltaLost
  BY <1>2, NextBook DEF DeltaLost, Flow
<1>3. CASE TradeHappens
  BY <1>3 DEF TradeHappens
<1>4. CASE TradeRepeated
  BY <1>4 DEF TradeRepeated
<1>5. CASE Break
  BY <1>5 DEF Break
<1>6. CASE FallSilent
  BY <1>6 DEF FallSilent
<1>7. CASE Subscribe
  BY <1>7 DEF Subscribe
<1>8. CASE Fails
  BY <1>8 DEF Fails, Quit
<1>9. CASE HeartbeatTimeout
  BY <1>9 DEF HeartbeatTimeout, Quit
<1>10. CASE Receive
  BY <1>10 DEF Receive, Idle
<1>11. CASE Skip
  BY <1>11 DEF Skip, Reading
<1>12. CASE Resync
  BY <1>12 DEF Resync, Quit
<1>13. CASE Snapshot
  <2>1. send'.step \in {"no", "try", "evict"} /\ Len(out') <= Buffer
    <3>1. CASE UNCHANGED <<send, out, held>>
      BY <3>1
    <3>2. CASE send'.step = "try" /\ out' = Older(out)
      <4>1. out \in Seq(Item)
        BY <1>13 DEF Snapshot, Reading, Flow, Queued
      <4> QED
        BY <3>2, <4>1, OlderSeq
    <3> QED
      BY <3>1, <3>2, <1>13 DEF Snapshot
  <2>2. hand # <<>> /\ crosses' = 0 /\ UNCHANGED <<kind, server, client>>
    BY <1>13 DEF Snapshot, Reading
  <2> QED
    BY <2>1, <2>2
<1>14. CASE Put
  <2>1. send'.step = "no" /\ Len(out') = Len(out) + 1 /\ Len(out) < Buffer
    <3>1. kind = "book"
      BY <1>14, SendingIsBook
    <3>2. send.what \in Item /\ out \in Seq(Item)
      BY <3>1, SendingUpdates DEF Flow, Queued
    <3> QED
      BY <1>14, <3>2, AppendProperties DEF Put, NotSending
  <2> QED
    BY <1>14, <1>l, <2>1 DEF Put
<1>15. CASE NoRoom
  <2>1. send'.step = "evict"
    BY <1>15 DEF NoRoom, Flow, Sending
  <2> QED
    BY <1>15, <2>1 DEF NoRoom
<1>16. CASE Evict
  <2>1. send'.step = "try" /\ Len(out') <= Buffer
    <3>1. CASE out = <<>>
      BY <3>1, <1>16 DEF Evict, Flow, Sending
    <3>2. CASE out # <<>>
      <4>1. out \in Seq(Item)
        BY <1>16, SendingIsBook DEF Flow, Queued
      <4>2. Len(out') = Len(out) - 1
        BY <3>2, <4>1, <1>16, RestSeq DEF Evict, Rest
      <4>3. send' = [send EXCEPT !.step = "try", !.dropped = TRUE,
                                 !.what.gap = @ \/ (Len(out) = 1)]
        BY <3>2, <1>16 DEF Evict
      <4>4. send'.step = "try"
        BY <4>3, Evicting DEF Flow
      <4> QED
        BY <4>2, <4>4, <1>l
    <3> QED
      BY <3>1, <3>2
  <2> QED
    BY <1>16, <2>1 DEF Evict
<1>17. CASE TakeBook
  <2>1. Len(out') = Len(out) - 1
    BY <1>17, HeadTailProperties DEF TakeBook, Flow
  <2> QED
    BY <1>17, <1>l, <2>1 DEF TakeBook
<1>18. CASE SendTrade
  <2>1. Len(out') = Len(out) + 1
    <3>1. Head(hand) \in Queued
      BY <1>18, HeadTailProperties DEF SendTrade, Flow, Piece, Queued
    <3> QED
      BY <1>18, <3>1, AppendProperties DEF SendTrade, Flow
  <2> QED
    BY <1>18, <1>l, <2>1 DEF SendTrade
<1>19. CASE TakeTrade
  <2>1. Len(out') = Len(out) - 1
    BY <1>19, HeadTailProperties DEF TakeTrade, Flow
  <2> QED
    BY <1>19, <1>l, <2>1 DEF TakeTrade
<1>20. CASE UNCHANGED vars
  BY <1>20 DEF vars
<1> QED
  BY <1>1, <1>2, <1>3, <1>4, <1>5, <1>6, <1>7, <1>8, <1>9, <1>10, <1>11, <1>12, <1>13,
     <1>14, <1>15, <1>16, <1>17, <1>18, <1>19, <1>20
     DEF Next, Broker, ReadBook, Reader, Consumer

LEMMA InitInv == Init => StreamInv
<1> SUFFICES ASSUME Init PROVE StreamInv
  OBVIOUS
<1>1. Flow
  <2>1. <<>> \in Seq(Seq(Piece)) /\ <<>> \in Seq(Piece) /\ <<>> \in Seq(Queued)
    BY EmptySeq
  <2> QED
    BY <2>1, Constants, EmptyType DEF Init, Flow, Trades
<1>2. TypeOK
  BY Constants, EmptySeq DEF Init, TypeOK, NotSending
<1>3. Newest
  BY EmptySeq DEF Init, Newest, NotSending, Nothing
<1>4. Once
  BY Constants DEF Init, Once, TradesOnce, Trades
<1> QED
  BY <1>1, <1>2, <1>3, <1>4 DEF StreamInv

(* The inductive invariant: types, the newest flag along the channel, and  *)
(* the set of ids beside the ledger (sendKeepNewest, TradeDedup).          *)
THEOREM StreamInvariant == Spec => []StreamInv
<1>1. StreamInv /\ [Next]_vars => StreamInv'
  BY FlowStep, OnceStep, NewestStep, BoundsStep DEF StreamInv
<1> QED
  BY InitInv, <1>1, PTL DEF Spec

(* Types; the channel stays within its capacity, a subscription that ended *)
(* holds nothing, and the count of crossed books within its limit.         *)
THEOREM StreamTypeCorrect == Spec => []TypeOK
<1>1. StreamInv => TypeOK
  BY DEF StreamInv
<1> QED
  BY StreamInvariant, <1>1, PTL

(* A trade is booked once, for any number of replays and repeats           *)
(* (TradeDedup.Seen).                                                      *)
THEOREM TradesOnceHolds == Spec => []TradesOnce
<1>1. StreamInv => TradesOnce
  BY DEF StreamInv, Once
<1> QED
  BY StreamInvariant, <1>1, PTL

(* The newest book is never the one to go, for a channel of any capacity   *)
(* and a consumer of any speed (sendKeepNewest).                           *)
THEOREM NewestKeptHolds == Spec => []NewestKept
<1>1. StreamInv => NewestKept
  <2> SUFFICES ASSUME StreamInv PROVE NewestKept
    OBVIOUS
  <2> DEFINE queued == IF kind = "book" THEN out ELSE <<>>
             last == IF send.step = "no" THEN <<>> ELSE <<send.what>>
             items == <<held>> \o queued \o last
  <2>1. Flow /\ Newest
    BY DEF StreamInv
  <2>2. held \in Item /\ send.what \in Item /\ queued \in Seq(Item)
    BY <2>1, EmptySeq, SendingUpdates DEF Flow, Queued
  <2>3. /\ <<held>> \in Seq(Item) /\ Len(<<held>>) = 1 /\ <<held>>[1] = held
        /\ last \in Seq(Item)
        /\ send.step = "no" => Len(last) = 0
        /\ send.step # "no" => Len(last) = 1 /\ last[1] = send.what
    BY <2>2, SingletonSeq, EmptySeq
  <2>4. Len(queued) \in Nat /\ (queued = <<>> <=> Len(queued) = 0)
    BY <2>2, LenProperties, EmptySeq
  <2>5. /\ kind = "book" => Newest /\ queued = out
        /\ kind # "book" => send.step = "no" /\ held = Nothing /\ queued = <<>>
    BY <2>1, EmptyType DEF Flow, NotSending
  <2>6. NewestKept <=> \A i \in 1 .. Len(items) :
                          items[i].newest <=> i = Len(items) /\ items[i] # Nothing
    BY DEF NewestKept
  <2> HIDE DEF queued, last
  <2>7. /\ Len(items) = 1 + Len(queued) + Len(last)
        /\ items[1] = held
        /\ \A i \in 1 .. Len(queued) : items[i + 1] = queued[i]
        /\ Len(last) = 1 => items[Len(queued) + 2] = last[1]
    <3> DEFINE front == <<held>> \o queued
    <3>1. /\ front \in Seq(Item) /\ Len(front) = 1 + Len(queued)
          /\ front[1] = held /\ \A i \in 1 .. Len(queued) : front[i + 1] = queued[i]
      <4>1. /\ front \in Seq(Item) /\ Len(front) = 1 + Len(queued)
            /\ \A k \in 1 .. 1 + Len(queued) :
                  front[k] = IF k <= 1 THEN <<held>>[k] ELSE queued[k - 1]
        BY <2>2, <2>3, ConcatProperties
      <4> HIDE DEF front
      <4>2. ASSUME NEW k \in 1 .. Len(queued) PROVE front[k + 1] = queued[k]
        <5>1. k + 1 \in 1 .. 1 + Len(queued) /\ ~(k + 1 <= 1) /\ (k + 1) - 1 = k
          BY <2>4
        <5> QED
          BY <5>1, <4>1
      <4>3. front[1] = held
        BY <4>1, <2>3, <2>4
      <4> QED
        BY <4>1, <4>2, <4>3
    <3>2. items = front \o last
      OBVIOUS
    <3> HIDE DEF front, items
    <3>3. /\ Len(items) = Len(front) + Len(last)
          /\ \A i \in 1 .. Len(front) : items[i] = front[i]
          /\ Len(last) = 1 => items[Len(front) + 1] = last[1]
      <4>1. /\ Len(items) = Len(front) + Len(last)
            /\ \A k \in 1 .. Len(front) + Len(last) :
                  items[k] = IF k <= Len(front) THEN front[k] ELSE last[k - Len(front)]
        BY <3>1, <3>2, <2>3, ConcatProperties
      <4>2. Len(front) \in Nat /\ Len(last) \in Nat
        BY <3>1, <2>3, <2>4, LenProperties
      <4>3. ASSUME NEW k \in 1 .. Len(front) PROVE items[k] = front[k]
        <5>1. k \in 1 .. Len(front) + Len(last) /\ k <= Len(front)
          BY <4>2
        <5> QED
          BY <5>1, <4>1
      <4>4. ASSUME Len(last) = 1 PROVE items[Len(front) + 1] = last[1]
        <5>1. /\ Len(front) + 1 \in 1 .. Len(front) + Len(last)
              /\ ~(Len(front) + 1 <= Len(front)) /\ (Len(front) + 1) - Len(front) = 1
          BY <4>2, <4>4
        <5> QED
          BY <5>1, <4>1
      <4> QED
        BY <4>1, <4>3, <4>4
    <3> QED
      BY <3>1, <3>3, <2>4
  <2> HIDE DEF items
  <2> SUFFICES ASSUME NEW i \in 1 .. Len(items)
               PROVE  items[i].newest <=> i = Len(items) /\ items[i] # Nothing
    BY <2>6
  <2>n. Nothing.newest = FALSE
    BY DEF Nothing
  <2>8. CASE i = 1
    <3>1. items[i] = held /\ (i = Len(items) <=> queued = <<>> /\ send.step = "no")
      BY <2>8, <2>7, <2>3, <2>4
    <3>2. held.newest <=> queued = <<>> /\ send.step = "no" /\ held # Nothing
      BY <2>5, <2>n DEF Newest
    <3> QED
      BY <3>1, <3>2
  <2>9. CASE i \in 2 .. Len(queued) + 1
    <3> DEFINE j == i - 1
    <3>1. j \in 1 .. Len(queued) /\ items[i] = queued[j] /\ i = j + 1
      BY <2>9, <2>7, <2>4
    <3>2. kind = "book" /\ queued = out
      BY <3>1, <2>4, <2>5
    <3>3. out[j].newest <=> j = Len(out) /\ send.step = "no"
      BY <3>1, <3>2, <2>5 DEF Newest
    <3>4. i = Len(items) <=> j = Len(out) /\ send.step = "no"
      BY <3>1, <3>2, <2>7, <2>3, <2>4
    <3> QED
      BY <3>1, <3>2, <3>3, <3>4, <2>n
  <2>10. CASE i = Len(queued) + 2
    <3>0. Len(last) # 0 /\ send.step # "no" /\ Len(last) = 1 /\ last[1] = send.what
      BY <2>10, <2>7, <2>3, <2>4
    <3>1. send.step # "no" /\ items[i] = send.what /\ i = Len(items)
      BY <3>0, <2>10, <2>7, <2>4
    <3>2. send.what.newest
      BY <3>1, <2>5 DEF Newest
    <3> QED
      BY <3>1, <3>2, <2>n
  <2>11. Len(last) \in {0, 1} /\ i \in 1 .. 1 + Len(queued) + Len(last)
    BY <2>3, <2>7
  <2>12. i = 1 \/ i \in 2 .. Len(queued) + 1 \/ i = Len(queued) + 2
    <3>1. CASE Len(last) = 0
      <4>1. i \in 1 .. 1 + Len(queued)
        BY <3>1, <2>11, <2>4
      <4> QED
        BY <4>1, <2>4
    <3>2. CASE Len(last) = 1
      <4>1. i \in 1 .. 1 + Len(queued) + 1
        BY <3>2, <2>11
      <4> QED
        BY <4>1, <2>4
    <3> QED
      BY <3>1, <3>2, <2>11
  <2> QED
    BY <2>8, <2>9, <2>10, <2>12
<1> QED
  BY StreamInvariant, <1>1, PTL
=============================================================================
