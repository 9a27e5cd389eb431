---------------------------- MODULE MCMidasVaults ----------------------------
(***************************************************************************)
(* Small instances of the vaults.  The scale is one decimal instead of     *)
(* nine: ONE is 10, a rate of 12 is 1.2, a fee of 1 is 10%.  Each run      *)
(* gives the instructions it studies their arguments (Args) and leaves     *)
(* the other instructions without any.                                     *)
(***************************************************************************)
EXTENDS Accounting

CONSTANTS
    alice, bob,      \* customers
    admin,           \* holds the administrative roles
    treasury,        \* tokens_receiver and request_redeemer
    fees,            \* fee_receiver
    coin, dime,      \* payment mints: whole units only; one decimal
    coin_feed, m_feed,
    vrole, trole, nobody,   \* ac_roles of the vault, of the mToken, of no one
    list,            \* the AccessControlState account
    other_ta         \* a second token authority

MCAccounts == {alice, bob, admin, treasury, fees, minter_vault, redeemer_vault}
MCSigners == {alice, bob, admin, treasury}
MCRoleNames == {ADMIN, UPDATE_ACCOUNT_AC, M_MINTER, M_BURNER, M_FREEZER, VAULT_ADMIN, VAULT_PAUSER}
MCDecimals == [t \in Tokens |-> IF t = coin THEN 0 ELSE 1]

NoArgs == [
    \* access-control and token-authority
    authority_type |-> {}, frozen |-> {}, token_ac_role |-> {}, mint |-> {}, burn |-> {},
    new_authority |-> {}, send |-> {},
    \* vault_common
    greenlist_enforced |-> {}, ac_role |-> {}, tokens_receiver |-> {}, fee_receiver |-> {},
    instant_fee |-> {}, instant_daily_limit |-> {}, variation_tolerance |-> {}, min_amount |-> {},
    free_from_min_amount |-> {}, free_from_min_first_mint |-> {}, waived_fee |-> {},
    data_feed |-> {}, fee |-> {}, allowance |-> {}, stable |-> {}, remove_payment_token |-> {},
    receiver |-> {}, withdraw |-> {}, fn_id |-> {}, paused |-> {}, price |-> {}, new_account |-> {},
    \* the vaults
    amount_token |-> {}, min_receive_amount |-> {}, new_out_rate |-> {}, is_safe |-> {},
    first_deposit_min_m_tokens |-> {}, mint_authority_pda |-> {},
    amount_m_token |-> {}, new_m_token_rate |-> {}, min_fiat_redeem_amount |-> {},
    fiat_flat_fee |-> {}, request_redeemer |-> {}, delegate |-> {}]

AccountRecord == [free_from_min_amount |-> FALSE, free_from_min_first_mint |-> FALSE,
                  waived_fee |-> FALSE]

\* The vaults as deployed and funded: customers listed, every instruction's
\* pause account created, the treasury's account delegated to the redeemer.
BaseDeployed == [
    ac_role |-> vrole,
    roles |-> {<<vrole, admin, VAULT_ADMIN>>, <<vrole, admin, VAULT_PAUSER>>,
               <<trole, minter_vault, M_MINTER>>},
    account_ac |-> [k \in {list} \X {alice, bob} |->
                      [green_listed |-> k[2] = alice, black_listed |-> FALSE]],
    token_authorities |-> [ta \in {m_token_authority} |-> trole],
    m_balance |-> [a \in Accounts |-> IF a = alice THEN 18 ELSE 0],
    m_supply |-> 18,
    config |-> [greenlist_enforced |-> FALSE, ac_role |-> vrole, tokens_receiver |-> treasury,
                fee_receiver |-> fees, instant_fee |-> 1, instant_daily_limit |-> 20,
                variation_tolerance |-> 2, min_amount |-> 2],
    pause_inx |-> [fn \in VaultActionId |-> FALSE],
    payment_mint_state |-> [t \in PaymentMints |->
        [data_feed |-> IF t = FIAT_MINT THEN NoFeed ELSE coin_feed, fee |-> 1,
         allowance |-> MAX_UINT128, stable |-> FALSE]],
    vault_account |-> [a \in {alice, bob} |-> AccountRecord],
    balance |-> [t \in Tokens |-> [a \in Accounts |->
        CASE a = alice -> 3 [] a \in {treasury, redeemer_vault} -> 6 [] OTHER -> 0]],
    price |-> [f \in Feeds |-> IF f = m_feed THEN 12 ELSE 9],
    minter |-> [first_deposit_min_m_tokens |-> 0, mint_authority_pda |-> m_token_authority],
    redeemer |-> [min_fiat_redeem_amount |-> 5, fiat_flat_fee |-> 1, request_redeemer |-> treasury],
    delegated |-> [t \in Tokens |-> [a \in Accounts |-> IF a = treasury THEN 12 ELSE 0]]]

-----------------------------------------------------------------------------
\* Requests of both kinds opened, approved at changing rates, rejected, beside
\* instant redemptions, a changing m_mint_feed and fee, and a payment token that is
\* removed and listed again.
RequestsArgs == [NoArgs EXCEPT
    !.amount_token = {3}, !.amount_m_token = {8}, !.min_receive_amount = {0},
    !.new_out_rate = {14}, !.new_m_token_rate = {0, 14}, !.is_safe = BOOLEAN,
    !.price = {14}, !.remove_payment_token = {coin},
    !.data_feed = {coin_feed}, !.fee = {1, 11}, !.allowance = {MAX_UINT128}, !.stable = {FALSE}]
RequestsDeployed == [BaseDeployed EXCEPT
    !.payment_mint_state = [t \in {coin} |-> @[t]]]

\* Roles are revoked and granted, the power to mint handed out, mTokens burned
\* and minted by hand and the vault handed to another ac_role, while requests
\* are pending.
GovernanceGrants ==
    {<<vrole, admin, ADMIN>>, <<vrole, admin, VAULT_ADMIN>>} \cup
        {<<trole, a, M_MINTER>> : a \in {admin, minter_vault}}
GovernanceArgs == [NoArgs EXCEPT
    !.amount_token = {1}, !.amount_m_token = {8}, !.min_receive_amount = {0},
    !.new_out_rate = {12}, !.new_m_token_rate = {12}, !.is_safe = {TRUE},
    !.authority_type = {"MintTokens"}, !.new_authority = {other_ta}, !.token_ac_role = {trole},
    !.mint = {8}, !.burn = {8}, !.ac_role = {nobody}]
GovernanceDeployed == [BaseDeployed EXCEPT
    !.roles = @ \cup {<<vrole, admin, ADMIN>>} \cup
              {<<trole, admin, r>> : r \in {ADMIN, M_BURNER}},
    !.m_balance = [a \in Accounts |-> IF a = alice THEN 8 ELSE 0],
    !.m_supply = 8]

\* Everything that may come between a request and its decision: pauses, a
\* removed payment token, a dead feed, frozen and withdrawn escrow, a revoked
\* delegation, another request_redeemer, a mint authority with no role, an
\* admin role taken away.
DecisionGrants == {<<vrole, admin, VAULT_ADMIN>>}
DecisionArgs == [NoArgs EXCEPT
    !.amount_token = {1}, !.amount_m_token = {8},
    !.new_out_rate = {12}, !.new_m_token_rate = {12}, !.is_safe = {TRUE},
    !.paused = {TRUE}, !.remove_payment_token = {coin}, !.price = {NoPrice},
    !.frozen = {redeemer_vault}, !.receiver = {treasury}, !.withdraw = {6, 8},
    !.delegate = {0}, !.request_redeemer = {admin}, !.mint_authority_pda = {other_ta},
    !.free_from_min_amount = {TRUE}]
DecisionDeployed == [BaseDeployed EXCEPT
    !.roles = @ \cup {<<vrole, admin, ADMIN>>, <<trole, admin, M_FREEZER>>},
    !.m_balance = [a \in Accounts |-> IF a = alice THEN 8 ELSE 0],
    !.m_supply = 8,
    !.payment_mint_state = [t \in {coin} |-> @[t]],
    !.balance = [t \in Tokens |-> [a \in Accounts |->
        CASE a = alice -> 1 [] a \in {treasury, redeemer_vault} -> 6 [] OTHER -> 0]]]
===============================================================================
