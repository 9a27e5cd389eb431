----------------------------- MODULE VaultClients -----------------------------
(***************************************************************************)
(* The customers' scripts (mint-instant, mint-request, redeem-instant,     *)
(* redeem-request, redeem-request-fiat): a script reads the chain, builds  *)
(* one transaction that creates what it found missing and places the       *)
(* order, waits for fresh prices and sends it.  Until it lands, others     *)
(* change what the script read.                                            *)
(*                                                                         *)
(* The accounts of an instruction are the ones the client library derives  *)
(* from target/types/midas_vaults.ts; those that always exist, prices and  *)
(* amounts are left out.  All the reads of one script are one step.        *)
(***************************************************************************)
EXTENDS Integers, FiniteSets, TLC

CONSTANTS
    Clients,      \* customers' wallets
    Coins,        \* mints of payment tokens
    FIAT,         \* FIAT_MINT
    MTOKEN,       \* the mToken's mint
    Receivers,    \* [tokens, fee] of wallets: what a common vault may be set to
    redeemer,     \* the wallet that pays redeem requests (request_redeemer)
    redeemer_pda  \* getRedeemerVaultPda

Sides == {"minter", "redeemer"}   \* each vault has a common vault of its own
MintFns == {"mint_instant", "mint_request"}
RequestFns == {"mint_request", "redeem_request", "redeem_request_fiat"}
Functions == MintFns \cup {"redeem_instant", "redeem_request", "redeem_request_fiat"}
Side(fn) == IF fn \in MintFns THEN "minter" ELSE "redeemer"

VARIABLES
    accounts,        \* accounts that exist: token accounts and program accounts
    receivers,       \* side -> [tokens, fee]: tokens_receiver and fee_receiver
    paused,          \* the functions whose pause account says paused
    requests_count,  \* side -> Nat
    requests,        \* <<side, id>> -> the order it was placed by
    placed,          \* order -> how often it was placed
    sent             \* slot -> the transaction in flight

vcVars == <<accounts, receivers, paused, requests_count, requests, placed, sent>>

Ata(mint, owner) == <<"ata", mint, owner>>
AcUser(c) == <<"account_ac", c>>
VaultUser(side, c) == <<"vault_common_account", side, c>>
Listed(side, coin) == <<"payment_mint", side, coin>>
PauseInx(fn) == <<"pause_inx", fn>>

\* What the vault's operators provide, and what its customers must have.
Operated(fn, coin) == {Listed(Side(fn), coin), PauseInx(fn)}
Registered(fn, c) == {AcUser(c), VaultUser(Side(fn), c)}

MintInstantAccounts(c, coin, to) ==
    Registered("mint_instant", c) \cup
      {Ata(coin, to.tokens), Ata(coin, to.fee), Ata(coin, c), Ata(MTOKEN, c)}
MintRequestAccounts(c, coin, to) ==
    Registered("mint_request", c) \cup {Ata(coin, to.tokens), Ata(coin, to.fee), Ata(coin, c)}
RedeemInstantAccounts(c, coin, to) ==
    Registered("redeem_instant", c) \cup
      {Ata(MTOKEN, to.fee), Ata(coin, redeemer_pda), Ata(coin, c), Ata(MTOKEN, c)}
RedeemRequestAccounts(c, to) ==
    Registered("redeem_request", c) \cup
      {Ata(MTOKEN, redeemer_pda), Ata(MTOKEN, to.fee), Ata(MTOKEN, c)}
RedeemRequestFiatAccounts(c, to) ==
    Registered("redeem_request_fiat", c) \cup
      {Ata(MTOKEN, redeemer_pda), Ata(MTOKEN, to.fee), Ata(MTOKEN, c)}

AccountsOf(o, to) ==
    CASE o.fn = "mint_instant" -> MintInstantAccounts(o.client, o.coin, to)
      [] o.fn = "mint_request" -> MintRequestAccounts(o.client, o.coin, to)
      [] o.fn = "redeem_instant" -> RedeemInstantAccounts(o.client, o.coin, to)
      [] o.fn = "redeem_request" -> RedeemRequestAccounts(o.client, to)
      [] o.fn = "redeem_request_fiat" -> RedeemRequestFiatAccounts(o.client, to)

-----------------------------------------------------------------------------
\* The token accounts that a script creates where they are missing
\* (createAtaIfNotExistsInx; the instruction accepts one that exists by then).
\* A second receiver's is not created if the two receivers are one.
MintInstantAtas(c, coin, to) ==
    {Ata(MTOKEN, c), Ata(coin, c), Ata(coin, to.tokens), Ata(coin, to.fee)}

\* Variant: the fee receiver's account is not created.
MintRequestAtas_no_fee(c, coin, to) == {Ata(coin, c), Ata(coin, to.tokens)}

MintRequestAtas(c, coin, to) == {Ata(coin, c), Ata(coin, to.tokens), Ata(coin, to.fee)}
RedeemInstantAtas(c, coin, to) ==
    {Ata(MTOKEN, c), Ata(MTOKEN, to.tokens), Ata(MTOKEN, to.fee), Ata(coin, redeemer_pda)}
RedeemRequestAtas(c, coin, to) ==
    {Ata(MTOKEN, c), Ata(MTOKEN, to.tokens), Ata(MTOKEN, to.fee),
     Ata(coin, redeemer_pda), Ata(MTOKEN, redeemer_pda)}
RedeemRequestFiatAtas(c, to) ==
    {Ata(MTOKEN, c), Ata(MTOKEN, to.tokens), Ata(MTOKEN, to.fee), Ata(MTOKEN, redeemer_pda)}

\* Variant: the accounts of the customer are initialised always.
Built_always_init(o, atas) ==
    [kind |-> "order", order |-> o, to |-> receivers[Side(o.fn)],
     creates |-> atas \ accounts,
     inits |-> Registered(o.fn, o.client),
     request_id |-> requests_count[Side(o.fn)]]

\* What every script reads and makes of it: the common vault and its receivers,
\* the customer's own accounts, and the address of a request account, which
\* comes from the requests_count that is there.
Built(o, atas) ==
    [kind |-> "order", order |-> o, to |-> receivers[Side(o.fn)],
     creates |-> atas \ accounts,
     inits |-> Registered(o.fn, o.client) \ accounts,
     request_id |-> requests_count[Side(o.fn)]]

\* The transaction of each script.
MintInstantTx(o) == Built(o, MintInstantAtas(o.client, o.coin, receivers["minter"]))
MintRequestTx(o) == Built(o, MintRequestAtas(o.client, o.coin, receivers["minter"]))
RedeemInstantTx(o) == Built(o, RedeemInstantAtas(o.client, o.coin, receivers["redeemer"]))
RedeemRequestTx(o) == Built(o, RedeemRequestAtas(o.client, o.coin, receivers["redeemer"]))
RedeemRequestFiatTx(o) == Built(o, RedeemRequestFiatAtas(o.client, receivers["redeemer"]))

OrderTx(o) ==
    CASE o.fn = "mint_instant" -> MintInstantTx(o)
      [] o.fn = "mint_request" -> MintRequestTx(o)
      [] o.fn = "redeem_instant" -> RedeemInstantTx(o)
      [] o.fn = "redeem_request" -> RedeemRequestTx(o)
      [] o.fn = "redeem_request_fiat" -> RedeemRequestFiatTx(o)

\* fetchPaymentMintState throws if the payment token is not listed; the fiat
\* script does not read it.
CanOrder(o) == o.fn # "redeem_request_fiat" => Listed(Side(o.fn), o.coin) \in accounts

\* The receivers' accounts that an instruction names are held against the common
\* vault's: both of a deposit's, of a redemption only the fee receiver's.
SameReceivers(tx) ==
    AccountsOf(tx.order, tx.to) = AccountsOf(tx.order, receivers[Side(tx.order.fn)])

\* Whether the accounts a transaction for an order names are there and right.
\* Variant: the request account's address does not depend on the count.
OrderPrepared_any_id(tx) ==
    /\ tx.inits \cap accounts = {}
    /\ SameReceivers(tx)
    /\ AccountsOf(tx.order, tx.to) \subseteq accounts \cup tx.creates \cup tx.inits

OrderPrepared(tx) ==
    /\ tx.inits \cap accounts = {}   \* newAccountAc and newCommonVaultAccount init
    /\ SameReceivers(tx)
    /\ AccountsOf(tx.order, tx.to) \subseteq accounts \cup tx.creates \cup tx.inits
    /\ tx.order.fn \in RequestFns => tx.request_id = requests_count[Side(tx.order.fn)]

Open(o) == o.fn \notin paused /\ Operated(o.fn, o.coin) \subseteq accounts

\* The transaction takes effect; one that is not prepared fails as a whole.
PlaceOrder(tx) ==
    LET o == tx.order  side == Side(o.fn)
    IN  /\ accounts' = accounts \cup tx.creates \cup tx.inits
        /\ placed' = [placed EXCEPT ![o] = @ + 1]
        /\ IF o.fn \in RequestFns
           THEN /\ requests' = [r \in DOMAIN requests \cup {<<side, requests_count[side]>>} |->
                                   IF r = <<side, requests_count[side]>> THEN o ELSE requests[r]]
                /\ requests_count' = [requests_count EXCEPT ![side] = @ + 1]
           ELSE UNCHANGED <<requests, requests_count>>
        /\ UNCHANGED <<receivers, paused>>
===============================================================================
