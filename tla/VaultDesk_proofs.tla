--------------------------- MODULE VaultDesk_proofs ---------------------------
(***************************************************************************)
(* Theorems about the scripts at the vaults: running a request script      *)
(* again is harmless, and the type invariant, for any customers, orders,   *)
(* desks, slots and bounds.                                                *)
(***************************************************************************)
EXTENDS VaultDesk, TLAPS

\* A request that is sent names the number it was built with: the next one, or
\* one that is gone by now; and if its order is placed, one that is gone.
Numbered(tx) ==
    LET next == requests_count[Side(tx.order.fn)]
    IN  /\ tx.request_id \in Nat /\ tx.request_id =< next
        /\ placed[tx.order] # 0 => tx.request_id # next

IsRequest(tx) == tx.kind = "order" /\ tx.order.fn \in RequestFns

FlightNumbered == \A s \in DOMAIN sent : IsRequest(sent[s]) => Numbered(sent[s])
OrdersKnown == \A s \in DOMAIN sent : sent[s].kind = "order" => sent[s].order \in Orders

RInv ==
    /\ requests_count \in [Sides -> Nat]
    /\ placed \in [Orders -> Nat]
    /\ wanted \subseteq Orders
    /\ OrdersKnown
    /\ FlightNumbered
    /\ RequestedOnce

LEMMA SideIsSide == ASSUME NEW fn PROVE Side(fn) \in Sides
BY DEF Side, Sides

LEMMA InitNumbered == VDInit => RInv
<1>. SUFFICES ASSUME VDInit PROVE RInv OBVIOUS
<1>1. wanted \subseteq Orders
  BY DEF VDInit, Orders
<1>2. DOMAIN sent = {}
  BY DEF VDInit
<1>3. requests_count \in [Sides -> Nat] /\ placed \in [Orders -> Nat]
  BY DEF VDInit
<1>4. RequestedOnce
  BY DEF VDInit, RequestedOnce
<1>. QED BY <1>1, <1>2, <1>3, <1>4 DEF RInv, OrdersKnown, FlightNumbered

\* What is in flight after something was sent: what was there, and that.
LEMMA Submitted ==
    ASSUME NEW tx, Submit(tx)
    PROVE \A s \in DOMAIN sent' : sent'[s] = tx \/ (s \in DOMAIN sent /\ sent'[s] = sent[s])
BY DEF Submit

\* Sending a transaction that is numbered keeps the invariant.
LEMMA SubmitKeeps ==
    ASSUME RInv, NEW tx, Submit(tx), UNCHANGED <<requests_count, placed, wanted>>,
           tx.kind = "order" => tx.order \in Orders,
           IsRequest(tx) => Numbered(tx)
    PROVE RInv'
<1>1. OrdersKnown'
  BY Submitted DEF RInv, OrdersKnown
<1>2. FlightNumbered'
  BY Submitted DEF RInv, FlightNumbered, IsRequest, Numbered
<1>. QED BY <1>1, <1>2 DEF RInv, RequestedOnce

\* So does a transaction that leaves without effect.
LEMMA RemovalKeeps ==
    ASSUME RInv, NEW s, sent' = [t \in DOMAIN sent \ {s} |-> sent[t]],
           UNCHANGED <<requests_count, placed, wanted>>
    PROVE RInv'
BY DEF RInv, RequestedOnce, OrdersKnown, FlightNumbered, IsRequest, Numbered

LEMMA OthersKeep ==
    ASSUME RInv, UNCHANGED <<requests_count, placed, wanted, sent>>
    PROVE RInv'
BY DEF RInv, RequestedOnce, OrdersKnown, FlightNumbered, IsRequest, Numbered

\* The transaction of a script is one that Built makes, of the accounts it
\* finds missing.
LEMMA OrderTxBuilt ==
    ASSUME NEW o, o.fn \in Functions
    PROVE  \E atas : OrderTx(o) = Built(o, atas)
BY DEF OrderTx, Functions, MintFns, MintInstantTx, MintRequestTx, RedeemInstantTx,
       RedeemRequestTx, RedeemRequestFiatTx

LEMMA OrderTxFacts ==
    ASSUME NEW o \in Orders
    PROVE  /\ OrderTx(o).kind = "order" /\ OrderTx(o).order = o
           /\ OrderTx(o).request_id = requests_count[Side(o.fn)]
           /\ OrderTx(o).to = receivers[Side(o.fn)]
           /\ OrderTx(o).inits = Registered(o.fn, o.client) \ accounts
<1>1. o.fn \in Functions BY OrdersAssumption DEF Orders
<1>2. PICK atas : OrderTx(o) = Built(o, atas) BY <1>1, OrderTxBuilt
<1>. QED BY <1>2 DEF Built

LEMMA OrderKeeps ==
    ASSUME RInv, NEW o \in wanted, Order(o)
    PROVE RInv'
<1>1. /\ OrderTx(o).kind = "order" /\ OrderTx(o).order = o
      /\ OrderTx(o).request_id = requests_count[Side(o.fn)]
  BY OrderTxFacts DEF RInv
<1>2. Submit(OrderTx(o)) /\ UNCHANGED <<requests_count, placed, wanted>> /\ placed[o] = 0
  BY DEF Order, onChain
<1>3. o \in Orders
  BY DEF RInv
<1>4. requests_count[Side(o.fn)] \in Nat
  BY SideIsSide DEF RInv
<1>5. Numbered(OrderTx(o))
  BY <1>1, <1>2, <1>4 DEF Numbered
<1>. QED BY <1>1, <1>2, <1>3, <1>5, SubmitKeeps

\* The order of a transaction that is prepared had not been placed, if it is a
\* request; afterwards every other number of its side is one that is gone.
LEMMA PlaceKeeps ==
    ASSUME RInv, NEW s \in DOMAIN sent, sent[s].kind = "order",
           sent' = [t \in DOMAIN sent \ {s} |-> sent[t]],
           OrderPrepared(sent[s]), PlaceOrder(sent[s]), UNCHANGED wanted
    PROVE RInv'
<1>. DEFINE o == sent[s].order  side == Side(o.fn)
<1>1. o \in Orders /\ side \in Sides
  BY SideIsSide DEF RInv, OrdersKnown
<1>2. placed' = [placed EXCEPT ![o] = @ + 1]
  BY DEF PlaceOrder
<1>3. placed' \in [Orders -> Nat]
  BY <1>1, <1>2 DEF RInv
<1>4. OrdersKnown'
  BY DEF RInv, OrdersKnown
<1>5. CASE o.fn \in RequestFns
  <2>1. placed[o] = 0
    <3>1. Numbered(sent[s])
      BY <1>5 DEF RInv, FlightNumbered, IsRequest
    <3>2. sent[s].request_id = requests_count[side]
      BY <1>5 DEF OrderPrepared
    <3>. QED BY <3>1, <3>2 DEF Numbered
  <2>2. requests_count' = [requests_count EXCEPT ![side] = @ + 1]
    BY <1>5 DEF PlaceOrder
  <2>3. requests_count' \in [Sides -> Nat]
    BY <1>1, <2>2 DEF RInv
  <2>4. RequestedOnce'
    BY <1>1, <1>2, <2>1 DEF RInv, RequestedOnce
  <2>5. FlightNumbered'
    <3>. SUFFICES ASSUME NEW t \in DOMAIN sent', IsRequest(sent'[t]) PROVE Numbered(sent[t])'
      BY DEF FlightNumbered, IsRequest
    <3>1. t \in DOMAIN sent /\ sent'[t] = sent[t]
      OBVIOUS
    <3>2. IsRequest(sent[t]) /\ Numbered(sent[t])
      BY <3>1 DEF RInv, FlightNumbered, IsRequest
    <3>. DEFINE p == sent[t].order  its == Side(p.fn)  id == sent[t].request_id
    <3>3. p \in Orders /\ its \in Sides /\ requests_count[its] \in Nat /\ id \in Nat
      BY <3>1, <3>2, SideIsSide DEF RInv, OrdersKnown, IsRequest, Numbered
    <3>4. id =< requests_count[its] /\ (placed[p] # 0 => id # requests_count[its])
      BY <3>2 DEF Numbered
    <3>5. CASE its = side
      <4>1. requests_count'[its] = requests_count[its] + 1
        BY <1>1, <2>2, <3>5 DEF RInv
      <4>. QED BY <3>1, <3>3, <3>4, <4>1 DEF Numbered
    <3>6. CASE its # side
      <4>1. requests_count'[its] = requests_count[its]
        BY <2>2, <3>3, <3>6 DEF RInv
      <4>2. placed'[p] = placed[p]
        BY <1>2, <3>3, <3>6 DEF RInv
      <4>. QED BY <3>1, <3>3, <3>4, <4>1, <4>2 DEF Numbered
    <3>. QED BY <3>5, <3>6
  <2>. QED BY <1>3, <1>4, <2>3, <2>4, <2>5 DEF RInv
<1>6. CASE o.fn \notin RequestFns
  <2>1. requests_count' = requests_count
    BY <1>6 DEF PlaceOrder
  <2>2. \A p \in Orders : p.fn \in RequestFns => placed'[p] = placed[p]
    BY <1>1, <1>2, <1>6 DEF RInv
  <2>3. RequestedOnce'
    BY <2>2 DEF RInv, RequestedOnce
  <2>4. FlightNumbered'
    BY <2>1, <2>2 DEF RInv, FlightNumbered, OrdersKnown, IsRequest, Numbered
  <2>. QED BY <1>3, <1>4, <2>1, <2>3, <2>4 DEF RInv
<1>. QED BY <1>5, <1>6

LEMMA LandsKeeps ==
    ASSUME RInv, NEW s, Lands(s)
    PROVE RInv'
<1>1. /\ s \in DOMAIN sent /\ sent' = [t \in DOMAIN sent \ {s} |-> sent[t]]
      /\ UNCHANGED wanted
  BY DEF Lands
<1>2. CASE sent[s].kind = "order" /\ OrderPrepared(sent[s]) /\ PlaceOrder(sent[s])
  BY <1>1, <1>2, PlaceKeeps
<1>3. CASE UNCHANGED <<requests_count, placed>>
  BY <1>1, <1>3, RemovalKeeps
<1>4. \/ sent[s].kind = "order" /\ OrderPrepared(sent[s]) /\ PlaceOrder(sent[s])
      \/ UNCHANGED <<requests_count, placed>>
  BY DEF Lands, Pay, Pause, ListToken, onChain
<1>. QED BY <1>2, <1>3, <1>4

\* The desk's transactions are no orders.
LEMMA DeskSends ==
    ASSUME RInv, NEW tx, Submit(tx), tx.kind \in {"approve", "pause", "list"},
           UNCHANGED <<requests_count, placed, wanted>>
    PROVE RInv'
BY SubmitKeeps DEF IsRequest

LEMMA CustomersKeep == RInv /\ Customers => RInv'
<1>. SUFFICES ASSUME RInv, Customers PROVE RInv' OBVIOUS
<1>1. ASSUME NEW o \in wanted, Order(o) PROVE RInv'
  BY <1>1, OrderKeeps
<1>2. ASSUME NEW s \in Slots, Lands(s) PROVE RInv'
  BY <1>2, LandsKeeps
<1>3. ASSUME NEW s \in Slots, Drop(s) PROVE RInv'
  BY <1>3, RemovalKeeps DEF Drop, onChain
<1>4. ASSUME NEW side, NEW to, ReplaceReceivers(side, to) PROVE RInv'
  BY <1>4, OthersKeep DEF ReplaceReceivers
<1>5. ASSUME NEW r, DecideElsewhere(r) PROVE RInv'
  BY <1>5, OthersKeep DEF DecideElsewhere
<1>. QED BY <1>1, <1>2, <1>3, <1>4, <1>5 DEF Customers

LEMMA ListersKeep == RInv /\ Listers => RInv'
<1>. SUFFICES ASSUME RInv, Listers PROVE RInv' OBVIOUS
<1>1. ASSUME NEW coins, NEW sides, AddPaymentTokens(coins, sides) PROVE RInv'
  BY <1>1, OthersKeep DEF AddPaymentTokens
<1>2. ASSUME NEW side, NEW coin, SubmitListing(side, coin) PROVE RInv'
  <2>1. ListingTx(side, coin).kind = "list"
    BY DEF ListingTx
  <2>. QED BY <1>2, <2>1, DeskSends DEF SubmitListing, onChain
<1>. QED BY <1>1, <1>2 DEF Listers

LEMMA CashiersKeep == RInv /\ Cashiers => RInv'
<1>. SUFFICES ASSUME RInv, Cashiers PROVE RInv' OBVIOUS
<1>1. ASSUME NEW coin, NEW id, ApproveRedeem(coin, id) PROVE RInv'
  <2>1. ApproveTx(coin, id).kind = "approve"
    BY DEF ApproveTx
  <2>. QED BY <1>1, <2>1, DeskSends DEF ApproveRedeem, onChain
<1>2. ASSUME NEW coin, NEW amount, FundRedeemer(coin, amount) PROVE RInv'
  BY <1>2, OthersKeep DEF FundRedeemer, vcVars
<1>3. ASSUME NEW coin, NEW to, Delegate(coin, to) PROVE RInv'
  BY <1>3, OthersKeep DEF Delegate, vcVars
<1>. QED BY <1>1, <1>2, <1>3 DEF Cashiers

LEMMA PausersKeep == RInv /\ (Pausers \/ Alarm) => RInv'
<1>. SUFFICES ASSUME RInv, Pausers \/ Alarm PROVE RInv' OBVIOUS
<1>1. ASSUME NEW targets, UpdatePause(targets, emergency) PROVE RInv'
  BY <1>1, DeskSends DEF UpdatePause, onChain
<1>2. ASSUME Alarm PROVE RInv'
  BY <1>2, OthersKeep DEF Alarm, vcVars
<1>. QED BY <1>1, <1>2 DEF Pausers

\* Running a request script again never makes a second request, whatever else
\* is in flight and however many customers and slots there are: the address of
\* the request account is derived from the number that the script read
\* (mint-request.ts, redeem-request.ts, redeem-request-fiat.ts).
THEOREM Requested == VDSpec => []RequestedOnce
<1>1. VDInit => RInv
  BY InitNumbered
<1>2. RInv /\ [VDNext]_vdVars => RInv'
  <2>. SUFFICES ASSUME RInv, [VDNext]_vdVars PROVE RInv' OBVIOUS
  <2>1. CASE UNCHANGED vdVars
    BY <2>1, OthersKeep DEF vdVars, vcVars
  <2>2. CASE VDNext
    BY <2>2, CustomersKeep, ListersKeep, CashiersKeep, PausersKeep DEF VDNext
  <2>. QED BY <2>1, <2>2
<1>3. RInv => RequestedOnce
  BY DEF RInv
<1>. QED BY <1>1, <1>2, <1>3, PTL DEF VDSpec

-----------------------------------------------------------------------------
\* What is in flight was wanted, and pauses functions that there are.
SentOK ==
    \A s \in DOMAIN sent :
        /\ sent[s].kind = "order" => sent[s].order \in wanted
        /\ sent[s].kind = "pause" => sent[s].updates \subseteq Functions

TInv == VDTypeOK /\ SentOK

LEMMA NaturalAmounts ==
    /\ MaxMoves \in Nat /\ MaxAlarms \in Nat /\ MAX_U64 \in Nat /\ Owed \in Nat
    /\ \A a \in Amounts : a \in Nat
<1>1. \A a \in Amounts \cup {MAX_U64, MaxMoves, MaxAlarms} : a \in Nat
  BY AmountsAssumption
<1>. QED BY <1>1, AmountsAssumption

\* A move is counted, or nothing is: the count stays in its bounds.
LEMMA MovesCounted ==
    ASSUME moves \in 0 .. MaxMoves, Move \/ UNCHANGED moves
    PROVE moves' \in 0 .. MaxMoves
BY NaturalAmounts DEF Move


LEMMA InitTyped == VDInit => TInv
<1>. SUFFICES ASSUME VDInit PROVE TInv OBVIOUS
<1>1. receivers \in [Sides -> Receivers]
  BY ReceiversAssumption DEF VDInit
<1>2. delegation \in [Coins -> [to : {redeemer_pda, "another", "nobody"}, amount : Nat]]
  BY DEF VDInit, Nobody
<1>3. moves \in 0 .. MaxMoves
  BY NaturalAmounts DEF VDInit
<1>4. DOMAIN requests = {} /\ DOMAIN sent = {} /\ paused = {}
  BY DEF VDInit
<1>5. /\ requests_count \in [Sides -> Nat] /\ placed \in [Orders -> Nat]
      /\ staff \in Staffings /\ wanted \in Books[staff]
  <2>1. requests_count \in [Sides -> Nat] /\ placed \in [Orders -> Nat]
    BY DEF VDInit
  <2>2. staff \in Staffings /\ wanted \in Books[staff]
    BY DEF VDInit
  <2>. QED BY <2>1, <2>2
<1>6. VDTypeOK
  <2>1. alarms \in 0 .. MaxAlarms
    BY NaturalAmounts DEF VDInit
  <2>. QED BY <1>1, <1>2, <1>3, <1>4, <1>5, <2>1 DEF VDTypeOK
<1>. QED BY <1>4, <1>6 DEF TInv, SentOK

\* Sending disturbs nothing but what is in flight, and uses a free slot.
LEMMA SubmitTyped ==
    ASSUME TInv, NEW tx, Submit(tx), UNCHANGED <<onChain, wanted, delegation, alarms, staff>>,
           UNCHANGED moves \/ Move,
           tx.kind = "order" => tx.order \in wanted,
           tx.kind = "pause" => tx.updates \subseteq Functions
    PROVE TInv'
<1>1. SentOK'
  BY Submitted DEF TInv, SentOK
<1>2. DOMAIN sent' \subseteq Slots
  BY DEF Submit, Free, TInv, VDTypeOK
<1>3. moves' \in 0 .. MaxMoves
  BY MovesCounted DEF TInv, VDTypeOK
<1>. QED BY <1>1, <1>2, <1>3 DEF TInv, VDTypeOK, onChain

\* What leaves disturbs nothing else in flight.
LEMMA RemovalTyped ==
    ASSUME TInv, NEW s, sent' = [t \in DOMAIN sent \ {s} |-> sent[t]], UNCHANGED wanted
    PROVE SentOK' /\ DOMAIN sent' \subseteq Slots
BY DEF TInv, SentOK, VDTypeOK

LEMMA OrderTyped == ASSUME TInv, NEW o \in wanted, Order(o), UNCHANGED staff PROVE TInv'
<1>1. OrderTx(o).kind = "order" /\ OrderTx(o).order = o
  <2>1. o \in Orders
    BY DEF TInv, VDTypeOK, Orders
  <2>. QED BY <2>1, OrderTxFacts
<1>2. UNCHANGED moves \/ Move
  BY DEF Order
<1>. QED BY <1>1, <1>2, SubmitTyped DEF Order

\* An order that lands gets the next number of its side.
LEMMA PlaceTyped ==
    ASSUME TInv, NEW tx, tx.order \in wanted, PlaceOrder(tx), UNCHANGED wanted
    PROVE /\ receivers' = receivers /\ paused' = paused
          /\ \A fn \in paused' : PauseInx(fn) \in accounts'
          /\ requests_count' \in [Sides -> Nat] /\ placed' \in [Orders -> Nat]
          /\ DOMAIN requests' \subseteq
               UNION {{side} \X (0 .. requests_count'[side] - 1) : side \in Sides}
          /\ \A r \in DOMAIN requests' : requests'[r] \in wanted' /\ Side(requests'[r].fn) = r[1]
<1>. DEFINE o == tx.order  side == Side(o.fn)  key == <<side, requests_count[side]>>
<1>1. receivers' = receivers /\ paused' = paused
  BY DEF PlaceOrder
<1>2. \A fn \in paused' : PauseInx(fn) \in accounts'
  BY <1>1 DEF PlaceOrder, TInv, VDTypeOK
<1>3. placed' \in [Orders -> Nat]
  <2>1. placed' = [placed EXCEPT ![o] = @ + 1] /\ placed \in [Orders -> Nat]
    BY DEF PlaceOrder, TInv, VDTypeOK
  <2>2. CASE o \in Orders
    <3>1. placed[o] + 1 \in Nat
      BY <2>1, <2>2
    <3>. QED BY <2>1, <3>1
  <2>3. CASE o \notin Orders
    BY <2>1, <2>3
  <2>. QED BY <2>2, <2>3
<1>4. side \in Sides /\ requests_count[side] \in Nat
  BY SideIsSide DEF TInv, VDTypeOK
<1>5. CASE o.fn \notin RequestFns
  <2>1. requests' = requests /\ requests_count' = requests_count
    BY <1>5 DEF PlaceOrder
  <2>. QED BY <1>1, <1>2, <1>3, <2>1 DEF TInv, VDTypeOK
<1>6. CASE o.fn \in RequestFns
  <2>1. requests_count' = [requests_count EXCEPT ![side] = @ + 1]
    BY <1>6 DEF PlaceOrder
  <2>2. requests' = [r \in DOMAIN requests \cup {key} |-> IF r = key THEN o ELSE requests[r]]
    BY <1>6 DEF PlaceOrder
  <2>3. requests_count' \in [Sides -> Nat]
    BY <1>4, <2>1 DEF TInv, VDTypeOK
  <2>4. \A t \in Sides : requests_count[t] \in Nat /\ requests_count[t] =< requests_count'[t]
    BY <1>4, <2>1 DEF TInv, VDTypeOK
  <2>5. requests_count[side] \in 0 .. requests_count'[side] - 1
    BY <1>4, <2>1 DEF TInv, VDTypeOK
  <2>6. key \in UNION {{t} \X (0 .. requests_count'[t] - 1) : t \in Sides}
    BY <1>4, <2>5
  <2>7. \A r \in DOMAIN requests :
          r \in UNION {{t} \X (0 .. requests_count'[t] - 1) : t \in Sides}
    <3>1. TAKE r \in DOMAIN requests
    <3>2. PICK t \in Sides : r \in {t} \X (0 .. requests_count[t] - 1)
      BY DEF TInv, VDTypeOK
    <3>3. 0 .. requests_count[t] - 1 \subseteq 0 .. requests_count'[t] - 1
      BY <2>3, <2>4
    <3>4. r \in {t} \X (0 .. requests_count'[t] - 1)
      BY <3>2, <3>3
    <3>. QED BY <3>4
  <2>8. DOMAIN requests' = DOMAIN requests \cup {key}
    BY <2>2
  <2>9. \A r \in DOMAIN requests' : requests'[r] \in wanted' /\ Side(requests'[r].fn) = r[1]
    BY <2>2, <2>8 DEF TInv, VDTypeOK
  <2>. QED BY <1>1, <1>2, <1>3, <2>3, <2>6, <2>7, <2>8, <2>9
<1>. QED BY <1>5, <1>6

LEMMA PayTyped ==
    ASSUME TInv, NEW tx, ApprovePrepared(tx), Pay(tx)
    PROVE /\ delegation' \in [Coins -> [to : {redeemer_pda, "another", "nobody"}, amount : Nat]]
          /\ \A fn \in paused' : PauseInx(fn) \in accounts'
<1>. DEFINE coin == tx.order.coin  left == delegation[coin].amount - Owed
<1>1. delegation' = [delegation EXCEPT ![coin] =
                       IF left = 0 THEN Nobody ELSE [@ EXCEPT !.amount = left]]
  BY DEF Pay
<1>2. \A fn \in paused' : PauseInx(fn) \in accounts'
  BY DEF Pay, TInv, VDTypeOK
<1>3. CASE coin \in Coins
  <2>1. left \in Nat
    BY <1>3, NaturalAmounts DEF ApprovePrepared, TInv, VDTypeOK
  <2>2. /\ Nobody \in [to : {redeemer_pda, "another", "nobody"}, amount : Nat]
        /\ [delegation[coin] EXCEPT !.amount = left]
             \in [to : {redeemer_pda, "another", "nobody"}, amount : Nat]
    BY <1>3, <2>1 DEF Nobody, TInv, VDTypeOK
  <2>. QED BY <1>1, <1>2, <1>3, <2>2 DEF TInv, VDTypeOK
<1>4. CASE coin \notin Coins
  <2>1. delegation' = delegation
    BY <1>1, <1>4 DEF TInv, VDTypeOK
  <2>. QED BY <1>2, <2>1 DEF TInv, VDTypeOK
<1>. QED BY <1>3, <1>4

LEMMA PauseTyped ==
    ASSUME TInv, NEW tx, tx.updates \subseteq Functions, PausePrepared(tx), Pause(tx)
    PROVE paused' \subseteq Functions /\ \A fn \in paused' : PauseInx(fn) \in accounts'
<1>1. paused' \subseteq paused \cup tx.updates /\ accounts \subseteq accounts'
  BY DEF Pause
<1>2. \A fn \in tx.updates : PauseInx(fn) \in accounts'
  BY DEF Pause, PausePrepared
<1>. QED BY <1>1, <1>2 DEF TInv, VDTypeOK

LEMMA LandsTyped == ASSUME TInv, NEW s, Lands(s), UNCHANGED staff PROVE TInv'
<1>. DEFINE tx == sent[s]
<1>1. /\ s \in DOMAIN sent /\ sent' = [t \in DOMAIN sent \ {s} |-> sent[t]]
      /\ UNCHANGED <<wanted, alarms, moves>>
  BY DEF Lands
<1>2. SentOK' /\ DOMAIN sent' \subseteq Slots
  BY <1>1, RemovalTyped
<1>3. CASE tx.kind = "order" /\ PlaceOrder(tx) /\ UNCHANGED delegation
  <2>1. tx.order \in wanted
    BY <1>1, <1>3 DEF TInv, SentOK
  <2>. HIDE DEF tx
  <2>. QED BY <1>1, <1>2, <1>3, <2>1, PlaceTyped DEF TInv, VDTypeOK
<1>4. CASE ApprovePrepared(tx) /\ Pay(tx)
  <2>1. /\ UNCHANGED <<receivers, paused, requests_count, placed>>
        /\ requests' = [r \in DOMAIN requests \ {<<"redeemer", tx.id>>} |-> requests[r]]
    BY <1>4 DEF Pay
  <2>. HIDE DEF tx
  <2>. QED BY <1>1, <1>2, <1>4, <2>1, PayTyped DEF TInv, VDTypeOK
<1>5. CASE tx.kind = "pause" /\ PausePrepared(tx) /\ Pause(tx)
  <2>1. tx.updates \subseteq Functions
    BY <1>1, <1>5 DEF TInv, SentOK
  <2>2. UNCHANGED <<receivers, requests_count, requests, placed, delegation>>
    BY <1>5 DEF Pause
  <2>. HIDE DEF tx
  <2>. QED BY <1>1, <1>2, <1>5, <2>1, <2>2, PauseTyped DEF TInv, VDTypeOK
<1>6. CASE ListToken(tx)
  BY <1>1, <1>2, <1>6 DEF ListToken, TInv, VDTypeOK
<1>7. CASE UNCHANGED <<onChain, delegation>>
  BY <1>1, <1>2, <1>7 DEF onChain, TInv, VDTypeOK
<1>. QED BY <1>3, <1>4, <1>5, <1>6, <1>7 DEF Lands

LEMMA CustomersTyped == TInv /\ Customers /\ UNCHANGED staff => TInv'
<1>. SUFFICES ASSUME TInv, Customers, UNCHANGED staff PROVE TInv' OBVIOUS
<1>1. ASSUME NEW o \in wanted, Order(o) PROVE TInv'
  BY <1>1, OrderTyped
<1>2. ASSUME NEW s \in Slots, Lands(s) PROVE TInv'
  BY <1>2, LandsTyped
<1>3. ASSUME NEW s \in Slots, Drop(s) PROVE TInv'
  <2>1. SentOK' /\ DOMAIN sent' \subseteq Slots
    BY <1>3, RemovalTyped DEF Drop
  <2>2. moves' \in 0 .. MaxMoves
    BY <1>3, MovesCounted DEF Drop, TInv, VDTypeOK
  <2>. QED BY <1>3, <2>1, <2>2 DEF Drop, onChain, TInv, VDTypeOK
<1>4. ASSUME NEW side \in Sides, NEW to \in Receivers, ReplaceReceivers(side, to) PROVE TInv'
  <2>1. moves' \in 0 .. MaxMoves
    BY <1>4, MovesCounted DEF ReplaceReceivers, TInv, VDTypeOK
  <2>2. receivers' \in [Sides -> Receivers]
    BY <1>4 DEF ReplaceReceivers, TInv, VDTypeOK
  <2>. QED BY <1>4, <2>1, <2>2 DEF ReplaceReceivers, TInv, VDTypeOK, SentOK
<1>5. ASSUME NEW r, DecideElsewhere(r) PROVE TInv'
  BY <1>5 DEF DecideElsewhere, TInv, VDTypeOK, SentOK
<1>. QED BY <1>1, <1>2, <1>3, <1>4, <1>5 DEF Customers

LEMMA ListersTyped == TInv /\ Listers /\ UNCHANGED staff => TInv'
<1>. SUFFICES ASSUME TInv, Listers, UNCHANGED staff PROVE TInv' OBVIOUS
<1>1. ASSUME NEW coins, NEW sides, AddPaymentTokens(coins, sides) PROVE TInv'
  <2>1. /\ accounts \subseteq accounts'
        /\ UNCHANGED <<receivers, paused, requests_count, requests, placed, sent>>
        /\ UNCHANGED <<wanted, delegation, alarms, moves>>
    BY <1>1 DEF AddPaymentTokens
  <2>2. SentOK' BY <2>1 DEF TInv, SentOK
  <2>3. VDTypeOK' BY <2>1 DEF TInv, VDTypeOK
  <2>. QED BY <2>2, <2>3 DEF TInv
<1>2. ASSUME NEW side, NEW coin, SubmitListing(side, coin) PROVE TInv'
  <2>1. ListingTx(side, coin).kind = "list"
    BY DEF ListingTx
  <2>. QED BY <1>2, <2>1, SubmitTyped DEF SubmitListing
<1>. QED BY <1>1, <1>2 DEF Listers

LEMMA CashiersTyped == TInv /\ Cashiers /\ UNCHANGED staff => TInv'
<1>. SUFFICES ASSUME TInv, Cashiers, UNCHANGED staff PROVE TInv' OBVIOUS
<1>1. ASSUME NEW coin, NEW id, ApproveRedeem(coin, id) PROVE TInv'
  <2>1. ApproveTx(coin, id).kind = "approve"
    BY DEF ApproveTx
  <2>. QED BY <1>1, <2>1, SubmitTyped DEF ApproveRedeem
<1>2. ASSUME NEW coin \in Coins, NEW amount \in Amounts, FundRedeemer(coin, amount) PROVE TInv'
  BY <1>2, NaturalAmounts DEF FundRedeemer, vcVars, TInv, VDTypeOK, SentOK
<1>3. ASSUME NEW coin \in Coins, NEW to \in {redeemer_pda, "another"}, Delegate(coin, to)
      PROVE TInv'
  <2>1. moves' \in 0 .. MaxMoves
    BY <1>3, MovesCounted DEF Delegate, TInv, VDTypeOK
  <2>. QED BY <1>3, <2>1, NaturalAmounts DEF Delegate, vcVars, TInv, VDTypeOK, SentOK
<1>. QED BY <1>1, <1>2, <1>3 DEF Cashiers

LEMMA PausersTyped == TInv /\ (Pausers \/ Alarm) /\ UNCHANGED staff => TInv'
<1>. SUFFICES ASSUME TInv, Pausers \/ Alarm, UNCHANGED staff PROVE TInv' OBVIOUS
<1>1. ASSUME NEW targets \in {Configured} \cup {{fn} : fn \in Configured},
             UpdatePause(targets, emergency) PROVE TInv'
  <2>1. PauseUpdates(targets, emergency) \subseteq Functions
    BY AmountsAssumption DEF PauseUpdates
  <2>. QED BY <1>1, <2>1, SubmitTyped DEF UpdatePause
<1>2. ASSUME Alarm PROVE TInv'
  <2>1. alarms' \in 0 .. MaxAlarms
    BY <1>2, NaturalAmounts DEF Alarm, TInv, VDTypeOK
  <2>. QED BY <1>2, <2>1 DEF Alarm, vcVars, TInv, VDTypeOK, SentOK
<1>. QED BY <1>1, <1>2 DEF Pausers

LEMMA StepTyped == TInv /\ [VDNext]_vdVars => TInv'
<1>. SUFFICES ASSUME TInv, [VDNext]_vdVars PROVE TInv' OBVIOUS
<1>1. CASE UNCHANGED vdVars
  BY <1>1 DEF vdVars, vcVars, TInv, VDTypeOK, SentOK
<1>2. CASE VDNext
  BY <1>2, CustomersTyped, ListersTyped, CashiersTyped, PausersTyped DEF VDNext
<1>. QED BY <1>1, <1>2

\* Every request has a number that was given out and an order that somebody
\* wanted, a paused function has its pause account, and paying never overdraws
\* the redeemer's delegate, whatever lands or is dropped in whatever order.
THEOREM DeskTypes == VDSpec => []VDTypeOK
<1>1. TInv => VDTypeOK
  BY DEF TInv
<1>. QED BY InitTyped, StepTyped, <1>1, PTL DEF VDSpec

-----------------------------------------------------------------------------
(* What a script builds is prepared.  Accounts are only ever added, so that *)
(* the token of a request stays listed.                                     *)

RequestsListed == \A r \in DOMAIN requests : Listed(Side(requests[r].fn), requests[r].coin) \in accounts

PInv == TInv /\ RequestsListed

LEMMA InitPrepared == VDInit => PInv
<1>. SUFFICES ASSUME VDInit PROVE RequestsListed
  BY InitTyped DEF PInv
<1>1. DOMAIN requests = {} BY DEF VDInit
<1>. QED BY <1>1 DEF RequestsListed

\* Listed tokens stay listed, so it is enough that new requests' are.
LEMMA AccountsAdded ==
    ASSUME RequestsListed, accounts \subseteq accounts',
           \A r \in DOMAIN requests' :
              \/ r \in DOMAIN requests /\ requests'[r] = requests[r]
              \/ Listed(Side(requests'[r].fn), requests'[r].coin) \in accounts
    PROVE  RequestsListed'
<1>1. ASSUME NEW r \in DOMAIN requests'
      PROVE  Listed(Side(requests'[r].fn), requests'[r].coin) \in accounts'
  <2>1. CASE r \in DOMAIN requests /\ requests'[r] = requests[r]
    BY <2>1 DEF RequestsListed
  <2>2. CASE Listed(Side(requests'[r].fn), requests'[r].coin) \in accounts
    BY <2>2
  <2>. QED BY <1>1, <2>1, <2>2
<1>. QED BY <1>1 DEF RequestsListed, Listed, Side

LEMMA LandsAdds ==
    ASSUME NEW s, Lands(s)
    PROVE  /\ accounts \subseteq accounts'
           /\ \A r \in DOMAIN requests' :
                 \/ r \in DOMAIN requests /\ requests'[r] = requests[r]
                 \/ Listed(Side(requests'[r].fn), requests'[r].coin) \in accounts
<1>. DEFINE tx == sent[s]
<1>1. CASE Open(tx.order) /\ PlaceOrder(tx)
  <2>. DEFINE o == tx.order  key == <<Side(o.fn), requests_count[Side(o.fn)]>>
  <2>1. Listed(Side(o.fn), o.coin) \in accounts
    BY <1>1 DEF Open, Operated
  <2>2. accounts \subseteq accounts'
    BY <1>1 DEF PlaceOrder
  <2>3. \/ requests' = [r \in DOMAIN requests \cup {key} |-> IF r = key THEN o ELSE requests[r]]
        \/ requests' = requests
    BY <1>1 DEF PlaceOrder
  <2>. HIDE DEF o, key
  <2>. QED BY <2>1, <2>2, <2>3
<1>2. CASE Pay(tx)
  <2>1. requests' = [r \in DOMAIN requests \ {<<"redeemer", tx.id>>} |-> requests[r]]
        /\ accounts \subseteq accounts'
    BY <1>2 DEF Pay
  <2>. QED BY <2>1
<1>3. CASE Pause(tx) BY <1>3 DEF Pause
<1>4. CASE ListToken(tx) BY <1>4 DEF ListToken
<1>5. CASE UNCHANGED onChain BY <1>5 DEF onChain
<1>. QED BY <1>1, <1>2, <1>3, <1>4, <1>5 DEF Lands

LEMMA StepPrepared == PInv /\ [VDNext]_vdVars => PInv'
<1>. SUFFICES ASSUME PInv, [VDNext]_vdVars
              PROVE  /\ accounts \subseteq accounts'
                     /\ \A r \in DOMAIN requests' :
                           \/ r \in DOMAIN requests /\ requests'[r] = requests[r]
                           \/ Listed(Side(requests'[r].fn), requests'[r].coin) \in accounts
  BY StepTyped, AccountsAdded DEF PInv
<1>1. ASSUME NEW s, Lands(s)
      PROVE  /\ accounts \subseteq accounts'
             /\ \A r \in DOMAIN requests' :
                   \/ r \in DOMAIN requests /\ requests'[r] = requests[r]
                   \/ Listed(Side(requests'[r].fn), requests'[r].coin) \in accounts
  BY <1>1, LandsAdds
<1>2. CASE UNCHANGED <<accounts, requests>> BY <1>2
<1>3. ASSUME NEW coins, NEW sides, AddPaymentTokens(coins, sides)
      PROVE  accounts \subseteq accounts' /\ requests' = requests
  BY <1>3 DEF AddPaymentTokens
<1>4. ASSUME NEW r, DecideElsewhere(r)
      PROVE  accounts' = accounts /\ requests' = [q \in DOMAIN requests \ {r} |-> requests[q]]
  BY <1>4 DEF DecideElsewhere
<1>5. CASE VDNext
  <2>1. CASE Customers
    BY <2>1, <1>1, <1>2, <1>4 DEF Customers, Order, Drop, ReplaceReceivers, onChain
  <2>2. CASE Cashiers
    BY <2>2, <1>2 DEF Cashiers, ApproveRedeem, FundRedeemer, Delegate, onChain, vcVars
  <2>3. CASE Pausers \/ Alarm
    BY <2>3, <1>2 DEF Pausers, UpdatePause, Alarm, onChain, vcVars
  <2>4. CASE Listers
    BY <2>4, <1>2, <1>3 DEF Listers, SubmitListing, onChain
  <2>. QED BY <1>5, <2>1, <2>2, <2>3, <2>4 DEF VDNext
<1>. QED BY <1>2, <1>5 DEF vdVars, vcVars

\* Every script of a customer creates what its instruction needs and what may
\* be missing; redeem-instant leaves the account to be paid into to the
\* customer.
LEMMA OrderIsPrepared ==
    ASSUME NEW o \in Orders
    PROVE  Prepared(WithPayee(OrderTx(o)))
<1>. DEFINE to == receivers[Side(o.fn)]
            payee == IF Unpayable(o) THEN {Ata(o.coin, o.client)} ELSE {}
            tx == OrderTx(o)
            with == WithPayee(tx)
<1>1. o.fn \in Functions
  BY OrdersAssumption DEF Orders
<1>2. PICK atas : tx = Built(o, atas)
  BY <1>1, OrderTxBuilt
<1>3. /\ with.kind = "order" /\ with.order = o /\ with.to = to
      /\ with.creates = tx.creates \cup payee
      /\ with.inits = tx.inits /\ with.request_id = tx.request_id
  BY <1>2 DEF WithPayee, Built
<1>4. AccountsOf(o, to) \subseteq accounts \cup tx.creates \cup tx.inits \cup payee
  <2>1. CASE o.fn = "mint_instant"
    BY <2>1 DEF OrderTx, MintInstantTx, Built, AccountsOf, MintInstantAccounts, MintInstantAtas,
                Side, MintFns
  <2>2. CASE o.fn = "mint_request"
    BY <2>2 DEF OrderTx, MintRequestTx, Built, AccountsOf, MintRequestAccounts, MintRequestAtas,
                Side, MintFns
  <2>3. CASE o.fn = "redeem_instant"
    <3>1. Ata(o.coin, o.client) \in accounts \cup payee BY <2>3 DEF Unpayable
    <3>. QED BY <2>3, <3>1 DEF OrderTx, RedeemInstantTx, Built, AccountsOf, RedeemInstantAccounts,
                               RedeemInstantAtas, Side, MintFns
  <2>4. CASE o.fn = "redeem_request"
    BY <2>4 DEF OrderTx, RedeemRequestTx, Built, AccountsOf, RedeemRequestAccounts,
                RedeemRequestAtas, Side, MintFns
  <2>5. CASE o.fn = "redeem_request_fiat"
    BY <2>5 DEF OrderTx, RedeemRequestFiatTx, Built, AccountsOf, RedeemRequestFiatAccounts,
                RedeemRequestFiatAtas, Side, MintFns
  <2>. QED BY <1>1, <2>1, <2>2, <2>3, <2>4, <2>5 DEF Functions, MintFns
<1>5. tx.inits \cap accounts = {} /\ tx.request_id = requests_count[Side(o.fn)]
  BY OrderTxFacts
<1>. HIDE DEF tx, with, payee, to
<1>6. AccountsOf(with.order, with.to) \subseteq accounts \cup with.creates \cup with.inits
  BY <1>3, <1>4
<1>7. OrderPrepared(with)
  BY <1>3, <1>5, <1>6 DEF OrderPrepared, SameReceivers, to
<1>8. Prepared(with)
  BY <1>3, <1>7 DEF Prepared
<1>. QED BY <1>8 DEF with, tx

\* What is no order needs nothing more.
LEMMA NoPayee == ASSUME NEW tx, tx.kind # "order" PROVE WithPayee(tx) = tx
BY DEF WithPayee

LEMMA ApprovalIsPrepared ==
    ASSUME PInv, NEW coin \in Coins, NEW id, ApproveRedeem(coin, id)
    PROVE  ApprovePrepared(ApproveTx(coin, id))
<1>. DEFINE o == requests[<<"redeemer", id>>]  tx == ApproveTx(coin, id)
<1>1. id \in RedeemIds /\ o.coin = coin /\ HasApproval(coin) BY DEF ApproveRedeem
<1>2. tx.id = id /\ tx.order = o
      /\ tx.creates = {Ata(coin, o.client), Ata(coin, redeemer), Ata(MTOKEN, redeemer_pda)} \ accounts
  BY DEF ApproveTx
<1>3. Listed("redeemer", coin) \in accounts
  <2>1. <<"redeemer", id>> \in DOMAIN requests BY <1>1 DEF RedeemIds
  <2>2. Side(o.fn) = "redeemer" BY <2>1 DEF PInv, TInv, VDTypeOK
  <2>. QED BY <1>1, <2>1, <2>2 DEF PInv, RequestsListed
<1>4. delegation[coin].to = redeemer_pda /\ delegation[coin].amount >= Owed
  <2>1. delegation[coin].amount \in Nat BY DEF PInv, TInv, VDTypeOK
  <2>2. Owed \in Nat /\ Scale \in Nat /\ Scale >= 1 BY AmountsAssumption
  <2>3. Owed * Scale >= Owed BY <2>2
  <2>4. Owed * Scale \in Nat BY <2>2
  <2>. QED BY <1>1, <2>1, <2>2, <2>3, <2>4 DEF HasApproval
<1>5. ApproveRedeemAccounts(tx) \subseteq accounts \cup tx.creates
  <2>. HIDE DEF tx, o
  <2>. QED BY <1>1, <1>2, <1>3 DEF ApproveRedeemAccounts
<1>6. tx.order.coin = coin
  <2>. HIDE DEF tx, o
  <2>. QED BY <1>1, <1>2
<1>. HIDE DEF tx, o
<1>7. ApprovePrepared(tx) BY <1>1, <1>2, <1>4, <1>5, <1>6 DEF ApprovePrepared
<1>. QED BY <1>7 DEF tx

LEMMA PauseIsPrepared ==
    ASSUME PInv, NEW targets, NEW tx,
           tx = [kind |-> "pause", paused |-> emergency, inits |-> PauseInits(targets),
                 updates |-> PauseUpdates(targets, emergency)]
    PROVE  PausePrepared(tx)
<1>1. emergency \in BOOLEAN /\ \A fn \in paused : PauseInx(fn) \in accounts
  BY DEF PInv, TInv, VDTypeOK, emergency
<1>2. tx.inits = PauseInits(targets) /\ tx.updates = PauseUpdates(targets, emergency)
      /\ tx.paused = emergency
  OBVIOUS
<1>3. \A fn \in tx.inits : PauseInx(fn) \notin accounts BY <1>2 DEF PauseInits
<1>4. ASSUME NEW fn \in tx.updates
      PROVE  (fn \in tx.inits \/ PauseInx(fn) \in accounts) /\ (fn \in paused) # tx.paused
  <2>1. fn \in targets BY <1>2 DEF PauseUpdates
  <2>2. CASE PauseInx(fn) \in accounts
    BY <1>2, <2>2, Zenon DEF PauseUpdates
  <2>3. CASE PauseInx(fn) \notin accounts
    <3>1. fn \in tx.inits BY <1>2, <2>1, <2>3 DEF PauseInits
    <3>2. emergency = TRUE BY <1>1, <1>2, <2>3 DEF PauseUpdates
    <3>3. (fn \in paused) = FALSE BY <1>1, <2>3
    <3>. QED BY <1>2, <3>1, <3>2, <3>3
  <2>. QED BY <2>2, <2>3
<1>. QED BY <1>3, <1>4 DEF PausePrepared

\* Whatever else happens between their runs, each script sends a transaction
\* that would succeed on the chain it read, save an instant redemption by a
\* customer without an account to be paid into, which lacks nothing else
\* (whatever orders the customers place, with or without that account;
\* approve-redeem-request.ts, update-vault-pause.ts).
THEOREM ScriptsArePrepared == VDSpec => ScriptsPrepare
<1>. DEFINE New(s) == s \notin DOMAIN sent \/ sent[s] # sent'[s]
            Fit(tx) == tx.kind = "list" \/ Prepared(WithPayee(tx))
<1>1. PInv /\ [VDNext]_vdVars => [\A s \in DOMAIN sent' : New(s) => Fit(sent'[s])]_vdVars
  <2>. SUFFICES ASSUME PInv, VDNext, NEW s \in DOMAIN sent', New(s) PROVE Fit(sent'[s])
    OBVIOUS
  <2>1. ASSUME NEW tx, Submit(tx), Fit(tx) PROVE Fit(sent'[s])
    <3>1. sent'[s] = tx BY <2>1, Submitted
    <3>. QED BY <2>1, <3>1
  <2>2. ASSUME NEW S, sent' = [t \in DOMAIN sent \ S |-> sent[t]] PROVE FALSE
    BY <2>2
  <2>3. CASE sent' = sent BY <2>3
  <2>4. ASSUME NEW o \in wanted, Order(o) PROVE Fit(sent'[s])
    <3>1. o \in Orders BY DEF PInv, TInv, VDTypeOK, Orders
    <3>2. Prepared(WithPayee(OrderTx(o))) BY <3>1, OrderIsPrepared
    <3>. QED BY <2>1, <2>4, <3>2 DEF Order
  <2>5. ASSUME NEW coin \in Coins, NEW id, ApproveRedeem(coin, id) PROVE Fit(sent'[s])
    <3>1. ApproveTx(coin, id).kind = "approve" BY DEF ApproveTx
    <3>2. Prepared(ApproveTx(coin, id)) BY <2>5, <3>1, ApprovalIsPrepared DEF Prepared
    <3>. QED BY <2>1, <2>5, <3>1, <3>2, NoPayee DEF ApproveRedeem
  <2>6. ASSUME NEW targets, UpdatePause(targets, emergency) PROVE Fit(sent'[s])
    <3>. DEFINE tx == [kind |-> "pause", paused |-> emergency, inits |-> PauseInits(targets),
                       updates |-> PauseUpdates(targets, emergency)]
    <3>1. Prepared(tx) /\ tx.kind # "order" BY PauseIsPrepared DEF Prepared
    <3>2. Submit(tx) BY <2>6 DEF UpdatePause
    <3>. HIDE DEF tx
    <3>. QED BY <2>1, <3>1, <3>2, NoPayee
  <2>7. ASSUME NEW side, NEW coin, SubmitListing(side, coin) PROVE Fit(sent'[s])
    <3>1. ListingTx(side, coin).kind = "list" BY DEF ListingTx
    <3>. QED BY <2>1, <2>7, <3>1 DEF SubmitListing
  <2>8. CASE Customers
    <3>1. ASSUME NEW t, Lands(t) \/ Drop(t) PROVE FALSE BY <2>2, <3>1 DEF Lands, Drop
    <3>. QED BY <2>3, <2>4, <2>8, <3>1 DEF Customers, ReplaceReceivers, DecideElsewhere
  <2>9. CASE Cashiers BY <2>3, <2>5, <2>9 DEF Cashiers, FundRedeemer, Delegate, vcVars
  <2>10. CASE Pausers \/ Alarm BY <2>3, <2>6, <2>10 DEF Pausers, Alarm, vcVars
  <2>11. CASE Listers BY <2>3, <2>7, <2>11 DEF Listers, AddPaymentTokens
  <2>. QED BY <2>8, <2>9, <2>10, <2>11 DEF VDNext
<1>. QED BY InitPrepared, StepPrepared, <1>1, PTL DEF VDSpec, ScriptsPrepare
===============================================================================
