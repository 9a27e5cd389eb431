----------------------------- MODULE VaultCommon -----------------------------
(***************************************************************************)
(* The vault_common account of midas-vaults with everything keyed by it:   *)
(* configuration, pause switches, payment tokens, per-account exemptions,  *)
(* the request counter and the instant daily limit, the checks that the    *)
(* minter and the redeemer vault share (utils.rs), and the instructions    *)
(* that manage them.  One vault_common may serve a minter vault, a         *)
(* redeemer vault or both.                                                 *)
(*                                                                         *)
(* Amounts of payment tokens in accounts are raw units of their mint;      *)
(* allowances, limits, rates and request amounts are in base 9.            *)
(***************************************************************************)
EXTENDS TokenAuthority, FiniteSets

CONSTANTS
    Tokens,           \* payment mints
    FIAT_MINT,        \* the pseudo mint of off-chain payment
    Feeds,            \* FeedState accounts
    NoFeed,           \* the default data_feed of the fiat payment mint
    NoPrice,          \* a feed whose price is stale or out of its bounds
    m_mint_feed,      \* VaultCommonState.m_mint_feed, immutable
    vault_ac,         \* VaultCommonState.ac, immutable
    decimals,         \* decimals of each payment mint
    m_decimals,       \* decimals of the mToken mint
    minter_vault,     \* PDA of the minter vault of this vault_common
    redeemer_vault,   \* PDA of the redeemer vault of this vault_common
    SECONDS_PER_DAY,
    MaxTime,          \* bound: the last second of a behaviour
    MaxRequests,      \* bound: requests created at most (u64::MAX in the code)
    Deployed          \* the accounts as deployment leaves them

VAULT_ADMIN == "vault_admin_role"
VAULT_PAUSER == "vault_pauser_role"

PaymentMints == Tokens \cup {FIAT_MINT}
RequestIds == 0 .. MaxRequests - 1
VaultActionId == {"MintInstant", "MintRequest",
                  "RedeemInstant", "RedeemRequest", "RedeemRequestFiat"}

VARIABLES
    config,                    \* the fields update_vault_common can set
    paused,                    \* VaultCommonState.paused
    pause_inx,                 \* PauseInxState PDAs: action -> paused
    payment_mint_state,        \* PaymentMintState PDAs: mint -> state
    vault_account,             \* VaultCommonAccountState PDAs: account -> state
    requests_count,            \* the id of the next request, of either vault
    instant_last_day,          \* day of the last instant operation
    instant_daily_limit_used,  \* mTokens minted or redeemed instantly that day
    balance,                   \* payment token balances (SPL, external)
    price,                     \* what each feed answers (data-feed program)
    now                        \* the clock's unix timestamp

limitVars == <<instant_last_day, instant_daily_limit_used>>
adminVars == <<config, paused, pause_inx, payment_mint_state, vault_account>>
envVars == <<price, now>>
vcVars == <<adminVars, requests_count, limitVars, balance, envVars>>

Config == [
    greenlist_enforced  : BOOLEAN,
    ac_role             : AcRoles,
    tokens_receiver     : Accounts,
    fee_receiver        : Accounts,
    instant_fee         : 0 .. ONE_HUNDRED_PERCENT,
    instant_daily_limit : U128,
    variation_tolerance : 1 .. ONE_HUNDRED_PERCENT,
    min_amount          : U64]

PaymentMintState == [
    data_feed : Feeds \cup {NoFeed},
    fee       : 0 .. ONE_HUNDRED_PERCENT,
    allowance : U128,
    stable    : BOOLEAN]

VaultAccount == [
    free_from_min_amount     : BOOLEAN,
    free_from_min_first_mint : BOOLEAN,
    waived_fee               : BOOLEAN]

Price == 1 .. U64_MAX

\* What the instance is made of.  A vault is a program address: it signs only
\* through its program.
ASSUME VaultAssumption ==
    /\ {minter_vault, redeemer_vault} \subseteq Accounts \ Signers
    /\ FIAT_MINT \notin Tokens /\ NoFeed \notin Feeds /\ NoPrice \notin Price
    /\ m_mint_feed \in Feeds /\ vault_ac \in Acs
    /\ decimals \in [Tokens -> 0 .. MaxDecimals] /\ m_decimals \in 0 .. MaxDecimals
    /\ SECONDS_PER_DAY \in Nat \ {0} /\ MaxTime \in Nat /\ MaxRequests \in Nat
    /\ ONE \in Price

\* The argument types of the vault_common instructions.
ASSUME VaultArgsAssumption ==
    /\ Args.greenlist_enforced \subseteq BOOLEAN /\ Args.paused \subseteq BOOLEAN
    /\ Args.ac_role \subseteq AcRoles
    /\ Args.tokens_receiver \subseteq Accounts /\ Args.fee_receiver \subseteq Accounts
    /\ Args.instant_fee \subseteq U64 /\ Args.instant_daily_limit \subseteq U128
    /\ Args.variation_tolerance \subseteq U64 /\ Args.min_amount \subseteq U64
    /\ Args.free_from_min_amount \subseteq BOOLEAN
    /\ Args.free_from_min_first_mint \subseteq BOOLEAN /\ Args.waived_fee \subseteq BOOLEAN
    /\ Args.data_feed \subseteq Feeds /\ Args.fee \subseteq U64
    /\ Args.allowance \subseteq U128 /\ Args.stable \subseteq BOOLEAN
    /\ Args.receiver \subseteq Accounts /\ Args.withdraw \subseteq U64
    /\ Args.fn_id \subseteq VaultActionId /\ Args.price \subseteq Price \cup {NoPrice}
    /\ Args.new_account \subseteq Accounts

\* The types of the accounts as deployed.
ASSUME DeployedAssumption ==
    /\ Deployed.ac_role \in AcRoles
    /\ Deployed.roles \subseteq AcRoles \X Accounts \X RoleNames
    /\ DOMAIN Deployed.account_ac \subseteq Acs \X Accounts
    /\ \A k \in DOMAIN Deployed.account_ac :
         /\ Deployed.account_ac[k] \in AccountAc
         /\ ~(Deployed.account_ac[k].green_listed /\ Deployed.account_ac[k].black_listed)
    /\ DOMAIN Deployed.token_authorities \subseteq TokenAuthorities
    /\ \A ta \in DOMAIN Deployed.token_authorities : Deployed.token_authorities[ta] \in AcRoles
    /\ Deployed.m_balance \in [Accounts -> Nat] /\ Deployed.m_supply \in U64
    /\ Deployed.config \in Config
    /\ DOMAIN Deployed.pause_inx \subseteq VaultActionId
    /\ \A fn \in DOMAIN Deployed.pause_inx : Deployed.pause_inx[fn] \in BOOLEAN
    /\ DOMAIN Deployed.payment_mint_state \subseteq PaymentMints
    /\ \A t \in DOMAIN Deployed.payment_mint_state :
         Deployed.payment_mint_state[t] \in PaymentMintState
    /\ DOMAIN Deployed.vault_account \subseteq Accounts
    /\ \A a \in DOMAIN Deployed.vault_account : Deployed.vault_account[a] \in VaultAccount
    /\ Deployed.balance \in [Tokens -> [Accounts -> Nat]]
    /\ Deployed.price \in [Feeds -> Price \cup {NoPrice}]

-----------------------------------------------------------------------------
(* The checks and updates of utils.rs that both vaults use.               *)

HasVaultRole(authority, role) == HasRole(config.ac_role, authority, role)

\* validate_green_listed
validate_green_listed(user, require_green_list) ==
    require_green_list \/ config.greenlist_enforced =>
        account_ac[<<vault_ac, user>>].green_listed

\* Variant: both switches are needed to close an instruction.
validate_paused_both(fn) ==
    /\ fn \in DOMAIN pause_inx
    /\ ~(paused /\ pause_inx[fn])

\* validate_paused: the pause account of the instruction must exist.
validate_paused(fn) ==
    /\ ~paused
    /\ fn \in DOMAIN pause_inx
    /\ ~pause_inx[fn]

\* validate_common, and the existence of the user's list and vault accounts.
validate_common(user, fn, require_green_list) ==
    /\ <<vault_ac, user>> \in DOMAIN account_ac
    /\ user \in DOMAIN vault_account
    /\ validate_green_listed(user, require_green_list)
    /\ ~account_ac[<<vault_ac, user>>].black_listed
    /\ validate_paused(fn)

\* get_token_rate: a stable token is worth ONE, yet its feed must answer.
RateAvailable(t) ==
    payment_mint_state[t].data_feed # NoFeed /\ price[payment_mint_state[t].data_feed] # NoPrice
get_token_rate(t) ==
    IF payment_mint_state[t].stable THEN ONE ELSE price[payment_mint_state[t].data_feed]
MRateAvailable == price[m_mint_feed] # NoPrice
MRate == price[m_mint_feed]

\* get_fee_amount
get_fee_amount(user, t, amount, is_instant) ==
    IF vault_account[user].waived_fee THEN 0
    ELSE FeeAmount(amount, FeePercent(payment_mint_state[t].fee, config.instant_fee, is_instant))

FeeComputable(user, t, amount, is_instant) ==
    vault_account[user].waived_fee \/
    MulDivOk(amount, FeePercent(payment_mint_state[t].fee, config.instant_fee, is_instant),
             ONE_HUNDRED_PERCENT)

\* require_and_update_allowance: the largest u128 means no limit.
AllowanceCovers(t, amount) ==
    \/ payment_mint_state[t].allowance = MAX_UINT128
    \/ payment_mint_state[t].allowance >= amount

\* Variant: the allowance is checked and never used up.
UseAllowance_check_only(t, amount) == payment_mint_state' = payment_mint_state

UseAllowance(t, amount) ==
    payment_mint_state' =
        IF payment_mint_state[t].allowance = MAX_UINT128 THEN payment_mint_state
        ELSE [payment_mint_state EXCEPT ![t].allowance = @ - amount]

\* require_and_update_limit: the counter restarts on the first instant
\* operation of another day.
current_day == now \div SECONDS_PER_DAY
LimitUsedWith(amount) ==
    IF instant_last_day = current_day THEN instant_daily_limit_used + amount ELSE amount

\* Variant: what was used before is compared with the limit.
UseDailyLimit_late(amount) ==
    /\ instant_daily_limit_used <= config.instant_daily_limit
    /\ instant_daily_limit_used' = LimitUsedWith(amount)
    /\ instant_last_day' = current_day

UseDailyLimit(amount) ==
    /\ LimitUsedWith(amount) <= config.instant_daily_limit
    /\ instant_daily_limit_used' = LimitUsedWith(amount)
    /\ instant_last_day' = current_day

\* Variant: the counter is left where it is.
UseRequestId_again == requests_count < MaxRequests /\ UNCHANGED requests_count

\* A request takes the counter's value as its id and moves the counter on.
UseRequestId == requests_count < MaxRequests /\ requests_count' = requests_count + 1

-----------------------------------------------------------------------------
(* Payment tokens as the SPL token program keeps them (external).         *)

\* transfer_token: the base-9 amount is rounded down to the mint's decimals.
Raw(t, amount) == convert_from_base_9(amount, decimals[t])

Paid(t, bal, from, to, amount) ==
    [bal EXCEPT ![t] = Transferred(@, from, to, Raw(t, amount))]
CanPay(t, bal, from, amount) ==
    Raw(t, amount) <= U64_MAX /\ CanTransfer(bal[t], from, Raw(t, amount))

\* The same for mTokens.  Only transfers convert: mint and burn take the
\* amount as it is, whatever the decimals of the mint.
MRaw(amount) == convert_from_base_9(amount, m_decimals)

-----------------------------------------------------------------------------
(* The instructions.  An absent option leaves its field as it is.         *)

Fees(given, check_min) == {fee \in given : validate_fee(fee, check_min)}

ConfigUpdates(old) == [
    greenlist_enforced  : Args.greenlist_enforced \cup {old.greenlist_enforced},
    ac_role             : Args.ac_role \cup {old.ac_role},
    tokens_receiver     : Args.tokens_receiver \cup {old.tokens_receiver},
    fee_receiver        : Args.fee_receiver \cup {old.fee_receiver},
    instant_fee         : Fees(Args.instant_fee, FALSE) \cup {old.instant_fee},
    instant_daily_limit : Args.instant_daily_limit \cup {old.instant_daily_limit},
    variation_tolerance : Fees(Args.variation_tolerance, TRUE) \cup {old.variation_tolerance},
    min_amount          : Args.min_amount \cup {old.min_amount}]

\* The admin may also hand the vault to another ac_role, even one nobody
\* administers; instant_daily_limit_used is left as it is.
UpdateVaultCommon(authority) ==
    /\ HasVaultRole(authority, VAULT_ADMIN)
    /\ config' \in ConfigUpdates(config)
    /\ UNCHANGED <<paused, pause_inx, payment_mint_state, vault_account,
                   requests_count, limitVars, balance, envVars, acVars, taVars>>

UpdatePause(authority, new_paused) ==
    /\ HasVaultRole(authority, VAULT_PAUSER)
    /\ paused # new_paused
    /\ paused' = new_paused
    /\ UNCHANGED <<config, pause_inx, payment_mint_state, vault_account,
                   requests_count, limitVars, balance, envVars, acVars, taVars>>

NewPauseInx(authority, fn) ==
    /\ HasVaultRole(authority, VAULT_PAUSER)
    /\ fn \notin DOMAIN pause_inx
    /\ pause_inx' = WithEntry(pause_inx, fn, FALSE)
    /\ UNCHANGED <<config, paused, payment_mint_state, vault_account,
                   requests_count, limitVars, balance, envVars, acVars, taVars>>

UpdatePauseInx(authority, fn, new_paused) ==
    /\ HasVaultRole(authority, VAULT_PAUSER)
    /\ fn \in DOMAIN pause_inx
    /\ pause_inx[fn] # new_paused
    /\ pause_inx' = [pause_inx EXCEPT ![fn] = new_paused]
    /\ UNCHANGED <<config, paused, payment_mint_state, vault_account,
                   requests_count, limitVars, balance, envVars, acVars, taVars>>

\* Anyone may create the vault account of any account, once.
NewVaultCommonAccount(account) ==
    /\ account \notin DOMAIN vault_account
    /\ vault_account' = WithEntry(vault_account, account,
                          [free_from_min_amount     |-> FALSE,
                           free_from_min_first_mint |-> FALSE,
                           waived_fee               |-> FALSE])
    /\ UNCHANGED <<config, paused, pause_inx, payment_mint_state,
                   requests_count, limitVars, balance, envVars, acVars, taVars>>

VaultAccountUpdates(old) == [
    free_from_min_amount     : Args.free_from_min_amount \cup {old.free_from_min_amount},
    free_from_min_first_mint : Args.free_from_min_first_mint \cup {old.free_from_min_first_mint},
    waived_fee               : Args.waived_fee \cup {old.waived_fee}]

UpdateVaultCommonAccount(authority, account) ==
    /\ HasVaultRole(authority, VAULT_ADMIN)
    /\ account \in DOMAIN vault_account
    /\ \E new \in VaultAccountUpdates(vault_account[account]) :
         vault_account' = [vault_account EXCEPT ![account] = new]
    /\ UNCHANGED <<config, paused, pause_inx, payment_mint_state,
                   requests_count, limitVars, balance, envVars, acVars, taVars>>

AddPaymentToken(authority, t, state) ==
    /\ HasVaultRole(authority, VAULT_ADMIN)
    /\ t \in Tokens \ DOMAIN payment_mint_state
    /\ validate_fee(state.fee, FALSE)
    /\ payment_mint_state' = WithEntry(payment_mint_state, t, state)
    /\ UNCHANGED <<config, paused, pause_inx, vault_account,
                   requests_count, limitVars, balance, envVars, acVars, taVars>>

\* The fiat entry gets no feed, and `stable` keeps its default.
AddPaymentTokenFiat(authority, fee, allowance) ==
    /\ HasVaultRole(authority, VAULT_ADMIN)
    /\ FIAT_MINT \notin DOMAIN payment_mint_state
    /\ validate_fee(fee, FALSE)
    /\ payment_mint_state' = WithEntry(payment_mint_state, FIAT_MINT,
            [data_feed |-> NoFeed, fee |-> fee, allowance |-> allowance, stable |-> FALSE])
    /\ UNCHANGED <<config, paused, pause_inx, vault_account,
                   requests_count, limitVars, balance, envVars, acVars, taVars>>

PaymentMintUpdates(old) == [
    data_feed : Args.data_feed \cup {old.data_feed},
    fee       : Fees(Args.fee, FALSE) \cup {old.fee},
    allowance : Args.allowance \cup {old.allowance},
    stable    : Args.stable \cup {old.stable}]

UpdatePaymentToken(authority, t) ==
    /\ HasVaultRole(authority, VAULT_ADMIN)
    /\ t \in DOMAIN payment_mint_state
    /\ \E new \in PaymentMintUpdates(payment_mint_state[t]) :
         payment_mint_state' = [payment_mint_state EXCEPT ![t] = new]
    /\ UNCHANGED <<config, paused, pause_inx, vault_account,
                   requests_count, limitVars, balance, envVars, acVars, taVars>>

\* Pending requests in the removed token are not looked at.
RemovePaymentToken(authority, t) ==
    /\ HasVaultRole(authority, VAULT_ADMIN)
    /\ t \in DOMAIN payment_mint_state
    /\ payment_mint_state' = WithoutEntry(payment_mint_state, t)
    /\ UNCHANGED <<config, paused, pause_inx, vault_account,
                   requests_count, limitVars, balance, envVars, acVars, taVars>>

\* The amount goes to base 9 and back, so digits below base 9 are dropped.
WithdrawToken(authority, vault, t, receiver, amount) ==
    /\ HasVaultRole(authority, VAULT_ADMIN)
    /\ vault \in {minter_vault, redeemer_vault}
    /\ LET amount_base9 == convert_to_base_9(amount, decimals[t])
       IN  /\ CanPay(t, balance, vault, amount_base9)
           /\ balance' = Paid(t, balance, vault, receiver, amount_base9)
    /\ UNCHANGED <<adminVars, requests_count, limitVars, envVars, acVars, taVars>>

\* Nothing protects the mTokens that pending redeem requests left in escrow.
WithdrawMToken(authority, vault, receiver, amount) ==
    /\ HasVaultRole(authority, VAULT_ADMIN)
    /\ vault \in {minter_vault, redeemer_vault}
    /\ LET moved == MRaw(convert_to_base_9(amount, m_decimals))
       IN  /\ moved <= U64_MAX
           /\ CanMoveM(m_balance, vault, receiver, moved)
           /\ m_balance' = Transferred(m_balance, vault, receiver, moved)
    /\ UNCHANGED <<token_authorities, m_supply, frozen, m_authority,
                   adminVars, requests_count, limitVars, balance, envVars, acVars>>

\* The data-feed program answers another price, or stops answering.
PriceMoves(f, p) ==
    /\ price' = [price EXCEPT ![f] = p]
    /\ UNCHANGED <<adminVars, requests_count, limitVars, balance, now, acVars, taVars>>

Tick ==
    /\ now < MaxTime
    /\ now' = now + 1
    /\ UNCHANGED <<adminVars, requests_count, limitVars, balance, price, acVars, taVars>>

-----------------------------------------------------------------------------
VCInit ==
    /\ ac_role_states = AcRoles
    /\ ac_states = [a \in Acs |-> Deployed.ac_role]
    /\ roles = Deployed.roles
    /\ account_ac = Deployed.account_ac
    /\ token_authorities = Deployed.token_authorities
    /\ m_balance = Deployed.m_balance
    /\ m_supply = Deployed.m_supply
    /\ frozen = {}
    /\ m_authority = [p \in MintPowers |-> m_token_authority]
    /\ config = Deployed.config
    /\ paused = FALSE
    /\ pause_inx = Deployed.pause_inx
    /\ payment_mint_state = Deployed.payment_mint_state
    /\ vault_account = Deployed.vault_account
    /\ requests_count = 0
    /\ instant_last_day = 0
    /\ instant_daily_limit_used = 0
    /\ balance = Deployed.balance
    /\ price = Deployed.price
    /\ now = SECONDS_PER_DAY

\* update_*, add_*, remove_* and withdraw_* instructions.
VaultAdminNext ==
    \E authority \in Signers :
       \/ UpdateVaultCommon(authority)
       \/ \E t \in PaymentMints :
            \/ UpdatePaymentToken(authority, t)
            \/ t \in Args.remove_payment_token /\ RemovePaymentToken(authority, t)
            \/ \E state \in [data_feed : Args.data_feed, fee : Args.fee,
                             allowance : Args.allowance, stable : Args.stable] :
                 AddPaymentToken(authority, t, state)
       \/ \E fee \in Args.fee, allowance \in Args.allowance :
            AddPaymentTokenFiat(authority, fee, allowance)
       \/ \E account \in Accounts : UpdateVaultCommonAccount(authority, account)
       \/ \E vault \in {minter_vault, redeemer_vault}, receiver \in Args.receiver,
             amount \in Args.withdraw :
            \/ WithdrawMToken(authority, vault, receiver, amount)
            \/ \E t \in Tokens : WithdrawToken(authority, vault, t, receiver, amount)

VaultPauserNext ==
    \E authority \in Signers :
       \/ \E fn \in Args.fn_id :
            \/ NewPauseInx(authority, fn)
            \/ \E new_paused \in Args.paused : UpdatePauseInx(authority, fn, new_paused)
       \/ \E new_paused \in Args.paused : UpdatePause(authority, new_paused)

EnvironmentNext ==
    \/ \E f \in Feeds, p \in Args.price : PriceMoves(f, p)
    \/ Tick
    \/ \E account \in Args.new_account : NewVaultCommonAccount(account)
    \/ \E from \in Signers, to \in Accounts, amount \in Args.send :
         Send(from, to, amount) /\ UNCHANGED <<acVars, vcVars>>

\* The other programs acting beside the vault.
GovernanceNext ==
    \/ ACGovern /\ UNCHANGED <<taVars, vcVars>>
    \/ TAGovern /\ UNCHANGED <<acVars, vcVars>>

VCNext == VaultAdminNext \/ VaultPauserNext \/ EnvironmentNext \/ GovernanceNext

VCTypeOK ==
    /\ config \in Config
    /\ paused \in BOOLEAN
    /\ DOMAIN pause_inx \subseteq VaultActionId
    /\ \A fn \in DOMAIN pause_inx : pause_inx[fn] \in BOOLEAN
    /\ DOMAIN payment_mint_state \subseteq PaymentMints
    /\ \A t \in DOMAIN payment_mint_state : payment_mint_state[t] \in PaymentMintState
    /\ DOMAIN vault_account \subseteq Accounts
    /\ \A a \in DOMAIN vault_account : vault_account[a] \in VaultAccount
    /\ requests_count \in 0 .. MaxRequests
    /\ instant_last_day \in Nat
    /\ instant_daily_limit_used \in U128
    /\ balance \in [Tokens -> [Accounts -> Nat]]
    /\ price \in [Feeds -> Price \cup {NoPrice}]
    /\ now \in Nat
===============================================================================
