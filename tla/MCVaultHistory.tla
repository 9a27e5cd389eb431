---------------------------- MODULE MCVaultHistory ----------------------------
(* Small instances of the vaults with their record. *)
EXTENDS MCMidasVaults, VaultHistory

\* Two customers trade with the vaults and one another at standing prices,
\* requests are approved at the rates they were made at, and the allowances of
\* two tokens, one of them without a fee, are used up, granted again, and one
\* of the tokens removed and listed again.
WealthArgs == [NoArgs EXCEPT
    !.amount_token = {1}, !.amount_m_token = {4, 7}, !.min_receive_amount = {0},
    !.new_out_rate = {12}, !.new_m_token_rate = {12}, !.is_safe = {TRUE},
    !.send = {4}, !.allowance = {10}, !.remove_payment_token = {dime},
    !.data_feed = {coin_feed}, !.fee = {0}, !.stable = {FALSE}]
WealthDeployed == [BaseDeployed EXCEPT
    !.payment_mint_state = [t \in PaymentMints |->
        [data_feed |-> IF t = FIAT_MINT THEN NoFeed ELSE coin_feed,
         fee |-> IF t = coin THEN 1 ELSE 0, allowance |-> 10, stable |-> FALSE]],
    !.config.instant_fee = 0,
    !.balance = [t \in Tokens |-> [a \in Accounts |->
        CASE a = bob /\ t = coin -> 1 [] a \in {treasury, redeemer_vault} -> 12 [] OTHER -> 0]],
    !.m_balance = [a \in Accounts |-> IF a = alice THEN 11 ELSE 0],
    !.m_supply = 11]

\* The same minimum with mint requests, approved at the rate they were made at
\* or rejected.
FirstMintArgs == [NoArgs EXCEPT
    !.amount_token = {1}, !.min_receive_amount = {0},
    !.new_out_rate = {12}, !.is_safe = {TRUE}, !.price = {20}]
FirstMintDeployed == [BaseDeployed EXCEPT
    !.minter.first_deposit_min_m_tokens = 6,
    !.config.instant_daily_limit = 14,
    !.m_balance = [a \in Accounts |-> IF a = alice THEN 11 ELSE 0],
    !.m_supply = 11]
===============================================================================
