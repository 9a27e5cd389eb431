------------------------------- MODULE VaultDesk -------------------------------
(***************************************************************************)
(* The desk behind the two vaults, at work while customers place orders:   *)
(* approve-redeem-request, fund-redeemer, delegate, update-vault-pause and *)
(* add-payment-token.  Nobody else decides redeem requests that are paid   *)
(* in tokens; the others are decided with other tools, and other mTokens'  *)
(* desks use the same redeemer wallet.                                     *)
(*                                                                         *)
(* Every request is paid the same amount.  fund-redeemer and delegate sign *)
(* with the redeemer's wallet and wait: a run of them is one step.         *)
(***************************************************************************)
EXTENDS VaultClients, Sequences

CONSTANTS
    Holders,       \* customers who start with an account for every payment token
    Staffings,     \* the desks that may be at work
    Books,         \* staffing -> the sets of orders that customers may want
    Configured,    \* postDeploy.pauseFunctions of the token's config
    Listings,      \* <<side, coin>> pairs of its paymentTokens, in order
    Amounts,       \* what fund-redeemer may be run with
    Owed,          \* what a redeem request is paid, in the coin's units
    Scale,         \* 10 ^ (9 - decimals of the coin)
    MAX_U64,
    Slots,         \* bound: transactions in flight
    MaxMoves,      \* bound: moves of others and of the custodian, impatience
    MaxAlarms      \* bound: emergencies that begin or end

ASSUME AmountsAssumption ==
    /\ {Owed, Scale} \subseteq Nat \ {0} /\ Amounts \cup {MAX_U64, MaxMoves, MaxAlarms} \subseteq Nat
    /\ Configured \subseteq Functions
ASSUME OrdersAssumption ==
    \A st \in Staffings : \A book \in Books[st] : \A o \in book : o.fn \in Functions
ASSUME ReceiversAssumption == \E r \in Receivers : r.tokens # r.fee

VARIABLES
    wanted,        \* the orders that customers want
    delegation,    \* coin -> [to, amount]: the delegate of the redeemer's account
    alarms,        \* emergencies that have begun or ended
    moves,
    staff          \* who is at work, of "listers", "cashiers", "pausers" and "watch"

vdVars == <<vcVars, wanted, delegation, alarms, moves, staff>>
onChain == <<accounts, receivers, paused, requests_count, requests, placed>>

\* The desk wants the configured functions paused.
emergency == alarms % 2 = 1

Nobody == [to |-> "nobody", amount |-> 0]
Free == Slots \ DOMAIN sent
Move == moves < MaxMoves /\ moves' = moves + 1

Submit(tx) ==
    /\ Free # {}
    /\ LET slot == CHOOSE s \in Free : TRUE
       IN  sent' = [s \in DOMAIN sent \cup {slot} |-> IF s = slot THEN tx ELSE sent[s]]

-----------------------------------------------------------------------------
\* redeem-instant makes no account for its customer to be paid into, though the
\* instruction demands one: a customer without it is sent away by the chain.
Unpayable(o) == o.fn = "redeem_instant" /\ Ata(o.coin, o.client) \notin accounts

InFlight(o) == \E s \in DOMAIN sent : sent[s].kind = "order" /\ sent[s].order = o

\* A customer runs a script until the order is placed, and again, out of
\* impatience, while a transaction for it is in flight.
Order(o) ==
    /\ placed[o] = 0 /\ CanOrder(o)
    /\ Submit(OrderTx(o))
    /\ IF InFlight(o) THEN Move ELSE UNCHANGED moves
    /\ UNCHANGED <<onChain, wanted, delegation, alarms>>

\* Redeem requests that are there, and the one that is found from the last
\* one backwards.
RedeemIds == {i \in 0 .. requests_count["redeemer"] - 1 : <<"redeemer", i>> \in DOMAIN requests}

\* Variant: only the last one is looked at.
NewestRequest_last(id) == id \in RedeemIds /\ id = requests_count["redeemer"] - 1

NewestRequest(id) == id \in RedeemIds /\ \A i \in RedeemIds : i =< id

\* Its delegatedAmount, in the coin's units, is compared with nine decimals.
HasApproval(coin) ==
    delegation[coin].to = redeemer_pda /\ delegation[coin].amount >= Owed * Scale

\* The transaction creates what is missing of the accounts that are paid from,
\* paid to and burnt from.
ApproveTx(coin, id) ==
    LET o == requests[<<"redeemer", id>>]
    IN  [kind |-> "approve", id |-> id, order |-> o,
         creates |-> {Ata(coin, o.client), Ata(coin, redeemer), Ata(MTOKEN, redeemer_pda)}
                       \ accounts]

\* approve-redeem-request: for this payment token, the request given or found.
ApproveRedeem(coin, id) ==
    /\ id \in RedeemIds
    /\ requests[<<"redeemer", id>>].coin = coin
    /\ HasApproval(coin)
    /\ Submit(ApproveTx(coin, id))
    /\ UNCHANGED <<onChain, wanted, delegation, alarms, moves>>

ApproveRedeemAccounts(tx) ==
    {Listed("redeemer", tx.order.coin), Ata(tx.order.coin, tx.order.client),
     Ata(tx.order.coin, redeemer), Ata(MTOKEN, redeemer_pda)}

ApprovePrepared(tx) ==
    /\ tx.id \in RedeemIds
    /\ ApproveRedeemAccounts(tx) \subseteq accounts \cup tx.creates
    /\ delegation[tx.order.coin].to = redeemer_pda /\ delegation[tx.order.coin].amount >= Owed

Pay(tx) ==
    LET left == delegation[tx.order.coin].amount - Owed
        key == <<"redeemer", tx.id>>
    IN  /\ accounts' = accounts \cup tx.creates
        /\ requests' = [r \in DOMAIN requests \ {key} |-> requests[r]]
        /\ delegation' = [delegation EXCEPT ![tx.order.coin] =
                            IF left = 0 THEN Nobody ELSE [@ EXCEPT !.amount = left]]
        /\ UNCHANGED <<receivers, paused, requests_count, placed>>

-----------------------------------------------------------------------------
\* update-vault-pause, for all configured functions: those whose account is
\* missing are initialised, and those that differ are updated.
PauseInits(targets) == {fn \in targets : PauseInx(fn) \notin accounts}

\* Variant: functions that are as they should be are updated too.
PauseUpdates_all(targets, pause) == targets

PauseUpdates(targets, pause) ==
    {fn \in targets : IF PauseInx(fn) \in accounts THEN (fn \in paused) # pause ELSE pause}

UpdatePause(targets, pause) ==
    LET inits == PauseInits(targets)  updates == PauseUpdates(targets, pause)
    IN  /\ inits \cup updates # {}
        /\ Submit([kind |-> "pause", paused |-> pause, inits |-> inits, updates |-> updates])
        /\ UNCHANGED <<onChain, wanted, delegation, alarms, moves>>

\* newPauseInx of an account that exists fails, and so does updatePauseInx to
\* the value that is there (ValueDidntChange): then nothing is updated.
PausePrepared(tx) ==
    /\ \A fn \in tx.inits : PauseInx(fn) \notin accounts
    /\ \A fn \in tx.updates :
         /\ fn \in tx.inits \/ PauseInx(fn) \in accounts
         /\ (fn \in paused) # tx.paused

Pause(tx) ==
    /\ accounts' = accounts \cup {PauseInx(fn) : fn \in tx.inits}
    /\ paused' = IF tx.paused THEN paused \cup tx.updates ELSE paused \ tx.updates
    /\ UNCHANGED <<receivers, requests_count, requests, placed, delegation>>

-----------------------------------------------------------------------------
\* fund-redeemer: nothing to do, or the approval is replaced.  getAccount
\* throws if the redeemer has no account; its balance is enough.
FundRedeemer(coin, amount) ==
    /\ Ata(coin, redeemer) \in accounts
    /\ ~(delegation[coin].to = redeemer_pda /\ delegation[coin].amount >= amount)
    /\ delegation' = [delegation EXCEPT ![coin] = [to |-> redeemer_pda, amount |-> amount]]
    /\ UNCHANGED <<vcVars, wanted, alarms, moves>>

\* delegate, by the redeemer's wallet: for this mToken or for another one.
Delegate(coin, to) ==
    /\ Ata(coin, redeemer) \in accounts
    /\ IF to = redeemer_pda THEN UNCHANGED moves ELSE Move
    /\ delegation' = [delegation EXCEPT ![coin] = [to |-> to, amount |-> MAX_U64]]
    /\ UNCHANGED <<vcVars, wanted, alarms>>

\* add-payment-token, of the token (or all) and the vaults asked for.  Each
\* transaction lists a token and creates the accounts of both receivers.
ListingTx(side, coin) ==
    [kind |-> "list", listed |-> Listed(side, coin),
     creates |-> IF coin = FIAT THEN {}
                 ELSE {Ata(coin, receivers[side].fee), Ata(coin, receivers[side].tokens)}]

ListToken(tx) ==
    /\ accounts' = accounts \cup {tx.listed} \cup tx.creates
    /\ UNCHANGED <<receivers, paused, requests_count, requests, placed, delegation>>

\* With a wallet of one's own each is waited for; the first that fails, since
\* its token is listed already, ends the run.
AddPaymentTokens(coins, sides) ==
    LET pairs == SelectSeq(Listings, LAMBDA p : p[1] \in sides /\ p[2] \in coins)
        txs == [n \in DOMAIN pairs |-> ListingTx(pairs[n][1], pairs[n][2])]
        done == {n \in DOMAIN pairs : \A m \in 1 .. n : txs[m].listed \notin accounts}
    IN  /\ done # {}
        /\ accounts' = accounts \cup UNION {{txs[n].listed} \cup txs[n].creates : n \in done}
        /\ UNCHANGED <<receivers, paused, requests_count, requests, placed, sent>>
        /\ UNCHANGED <<wanted, delegation, alarms, moves>>

\* With the custodian's none is: what is sent awaits approval.
SubmitListing(side, coin) ==
    /\ Move
    /\ Submit(ListingTx(side, coin))
    /\ UNCHANGED <<onChain, wanted, delegation, alarms>>

-----------------------------------------------------------------------------
Prepared(tx) ==
    \/ tx.kind = "order" /\ OrderPrepared(tx)
    \/ tx.kind = "approve" /\ ApprovePrepared(tx)
    \/ tx.kind = "pause" /\ PausePrepared(tx)
    \/ tx.kind = "list" /\ tx.listed \notin accounts   \* AddPaymentToken: init

\* A transaction lands: it takes effect or fails.
Lands(s) ==
    /\ s \in DOMAIN sent
    /\ sent' = [t \in DOMAIN sent \ {s} |-> sent[t]]
    /\ LET tx == sent[s]
       IN  \/ tx.kind = "order" /\ OrderPrepared(tx) /\ Open(tx.order)
                /\ PlaceOrder(tx) /\ UNCHANGED delegation
           \/ tx.kind = "approve" /\ ApprovePrepared(tx) /\ Pay(tx)
           \/ tx.kind = "pause" /\ PausePrepared(tx) /\ Pause(tx)
           \/ tx.kind = "list" /\ Prepared(tx) /\ ListToken(tx)
           \/ /\ ~Prepared(tx) \/ (tx.kind = "order" /\ ~Open(tx.order))
              /\ UNCHANGED <<onChain, delegation>>
    /\ UNCHANGED <<wanted, alarms, moves>>

\* Or it is refused, or expires.
Drop(s) ==
    /\ Move
    /\ s \in DOMAIN sent
    /\ sent' = [t \in DOMAIN sent \ {s} |-> sent[t]]
    /\ UNCHANGED <<onChain, wanted, delegation, alarms>>

-----------------------------------------------------------------------------
\* Others: the vault's admin changes a receiver, an emergency begins or ends,
\* requests are decided elsewhere.
ReplaceReceivers(side, to) ==
    /\ Move
    /\ to # receivers[side]
    /\ receivers' = [receivers EXCEPT ![side] = to]
    /\ UNCHANGED <<accounts, paused, requests_count, requests, placed, sent>>
    /\ UNCHANGED <<wanted, delegation, alarms>>

Alarm ==
    /\ alarms < MaxAlarms /\ alarms' = alarms + 1
    /\ UNCHANGED <<vcVars, wanted, delegation, moves>>

PaidInTokens(r) == requests[r].fn = "redeem_request"

\* get-all-requests.ts asks for every number that was given out.
getMintRequests ==
    {r \in {"minter"} \X (0 .. requests_count["minter"] - 1) : r \in DOMAIN requests}
getRedeemRequests ==
    {r \in {"redeemer"} \X (0 .. requests_count["redeemer"] - 1) : r \in DOMAIN requests}
Reported == getMintRequests \cup getRedeemRequests

DecideElsewhere(r) ==
    /\ r \in DOMAIN requests /\ ~PaidInTokens(r)
    /\ requests' = [q \in DOMAIN requests \ {r} |-> requests[q]]
    /\ UNCHANGED <<accounts, receivers, paused, requests_count, placed, sent>>
    /\ UNCHANGED <<wanted, delegation, alarms, moves>>

-----------------------------------------------------------------------------
Orders == UNION UNION {Books[st] : st \in Staffings}

\* Some payment tokens are listed.  deployMinterVault and deployRedeemerVault
\* make the pause accounts; a common vault made otherwise may lack some.
VDInit ==
    /\ staff \in Staffings /\ wanted \in Books[staff] /\ placed = [o \in Orders |-> 0]
    /\ \E listed \in IF "listers" \in staff THEN 0 .. Len(Listings) ELSE {Len(Listings)},
          pauses \in {Functions, Functions \ Configured} :
         accounts = {Listed(Listings[k][1], Listings[k][2]) : k \in 1 .. listed}
                      \cup {PauseInx(fn) : fn \in pauses}
                      \cup {Ata(coin, who) : coin \in Coins, who \in Holders \cup {redeemer}}
    /\ receivers = [side \in Sides |-> CHOOSE r \in Receivers : r.tokens # r.fee]
    /\ paused = {} /\ alarms = 0
    /\ requests_count = [side \in Sides |-> 0] /\ requests = << >>
    /\ sent = << >>
    /\ delegation = [coin \in Coins |-> Nobody]
    /\ moves = 0

\* Customers, and what they wait for.
Customers ==
    \/ \E o \in wanted : Order(o)
    \/ \E s \in Slots : Lands(s) \/ Drop(s)
    \/ \E side \in Sides, to \in Receivers : ReplaceReceivers(side, to)
    \/ \E r \in Reported : DecideElsewhere(r)

\* Whoever lists payment tokens: all of them, or one in one vault.
Listers ==
    \/ \E coin \in Coins \cup {FIAT}, side \in Sides : AddPaymentTokens({coin}, {side})
    \/ AddPaymentTokens(Coins \cup {FIAT}, Sides)
    \/ \E n \in DOMAIN Listings : SubmitListing(Listings[n][1], Listings[n][2])

\* Whoever pays redeem requests.
Cashiers ==
    \/ \E coin \in Coins, id \in RedeemIds : ApproveRedeem(coin, id)
    \/ \E coin \in Coins, amount \in Amounts : FundRedeemer(coin, amount)
    \/ \E coin \in Coins, to \in {redeemer_pda, "another"} : Delegate(coin, to)

\* Whoever pauses: all configured functions, or one of them.
Pausers ==
    \E targets \in {Configured} \cup {{fn} : fn \in Configured} : UpdatePause(targets, emergency)

VDNext ==
    /\ \/ Customers
       \/ "listers" \in staff /\ Listers
       \/ "cashiers" \in staff /\ Cashiers
       \/ "pausers" \in staff /\ Pausers
       \/ "watch" \in staff /\ Alarm
    /\ UNCHANGED staff

VDSpec == VDInit /\ [][VDNext]_vdVars

ByListers == "listers" \in staff /\ UNCHANGED staff
ByCashiers == "cashiers" \in staff /\ UNCHANGED staff
ByPausers == "pausers" \in staff /\ UNCHANGED staff

\* What is sent lands.  Customers and desk run their scripts again until it is
\* done: orders that can be paid, the tokens of the config one by one, the
\* newest request with each payment token, the approval that takes, the pause
\* that is asked for.
CustomersFair ==
    /\ \A s \in Slots : WF_vdVars(UNCHANGED staff /\ Lands(s))
    /\ SF_vdVars(UNCHANGED staff /\ \E o \in wanted : ~InFlight(o) /\ ~Unpayable(o) /\ Order(o))
    /\ WF_vdVars(ByListers /\ \E coin \in Coins \cup {FIAT}, side \in Sides :
                   AddPaymentTokens({coin}, {side}))
    /\ WF_vdVars(UNCHANGED staff /\ \E r \in Reported : DecideElsewhere(r))

CashiersFair ==
    \A coin \in Coins :
        /\ SF_vdVars(ByCashiers /\ \E id \in RedeemIds : NewestRequest(id) /\ ApproveRedeem(coin, id))
        /\ SF_vdVars(ByCashiers /\ FundRedeemer(coin, Owed * Scale))

PausersFair == SF_vdVars(ByPausers /\ UpdatePause(Configured, emergency))

VDFairSpec == VDSpec /\ CustomersFair /\ CashiersFair /\ PausersFair

-----------------------------------------------------------------------------
\* Requests have numbers that were given out and orders that were wanted,
\* paused functions have their pause accounts, an approval is never overdrawn.
VDTypeOK ==
    /\ receivers \in [Sides -> Receivers]
    /\ paused \subseteq Functions
    /\ \A fn \in paused : PauseInx(fn) \in accounts
    /\ requests_count \in [Sides -> Nat]
    /\ DOMAIN requests \subseteq
         UNION {{side} \X (0 .. requests_count[side] - 1) : side \in Sides}
    /\ \A r \in DOMAIN requests : requests[r] \in wanted /\ Side(requests[r].fn) = r[1]
    /\ staff \in Staffings /\ wanted \in Books[staff] /\ placed \in [Orders -> Nat]
    /\ DOMAIN sent \subseteq Slots
    /\ delegation \in [Coins -> [to : {redeemer_pda, "another", "nobody"}, amount : Nat]]
    /\ alarms \in 0 .. MaxAlarms /\ moves \in 0 .. MaxMoves

\* The transaction with that account, where it lacks.
WithPayee(tx) ==
    IF tx.kind = "order" /\ Unpayable(tx.order)
    THEN [tx EXCEPT !.creates = @ \cup {Ata(tx.order.coin, tx.order.client)}]
    ELSE tx

\* What a script builds from the chain it reads has everything it needs there,
\* except that account of an instant redemption: every other account of the
\* instruction exists or is created, nothing that exists is initialised, the
\* payment is approved, every pause update changes something (mint-instant,
\* mint-request, redeem-instant, redeem-request, redeem-request-fiat,
\* approve-redeem-request, update-vault-pause).
ScriptsPrepare ==
    [][\A s \in DOMAIN sent' :
         (s \notin DOMAIN sent \/ sent[s] # sent'[s]) =>
             (sent'[s].kind = "list" \/ Prepared(WithPayee(sent'[s])))]_vdVars

\* A customer who starts a request script again while its first transaction is
\* still in flight never asks twice: the two name the same request account,
\* or the first names one that is gone.
RequestedOnce == \A o \in Orders : o.fn \in RequestFns => placed[o] =< 1

\* Whoever wants to mint or redeem does in the end, whatever scripts race for
\* the same accounts and request number, unless the emergency lasts.  Only an
\* instant redemption waits for good, while its customer has no account to be
\* paid into; another order that makes one lets it through.
OrdersPlaced ==
    <>[](emergency \/ \A o \in wanted : placed[o] > 0 \/ Unpayable(o))

\* Every request to be paid in tokens is paid in the end, so that get-all-requests
\* reports no more of them: it is not shadowed by newer ones, nor by other uses
\* of the redeemer's one delegate.
RequestsPaid ==
    "cashiers" \in staff => <>[](\A r \in Reported : ~PaidInTokens(r))

\* The configured functions end up as the desk wants them, whatever pause and
\* unpause transactions are still in flight when it changes its mind, and
\* changes it back.
PauseSettles ==
    "pausers" \in staff =>
        <>[](\A fn \in Configured : PauseInx(fn) \in accounts /\ (fn \in paused <=> emergency))
===============================================================================
