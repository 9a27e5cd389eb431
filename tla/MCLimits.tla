------------------------------- MODULE MCLimits -------------------------------
(***************************************************************************)
(* What the vaults let through: amounts, and whose business.               *)
(***************************************************************************)
EXTENDS MCVaultHistory

\* Either two days of instant operations and a redeem request while the admin
\* moves the daily limit and the price moves, with a first mint's minimum of 6
\* and no mint requests, which would use the first mint up; or a request of any
\* kind beside instant operations, at a standing price and limit on one day,
\* with redeem_instant paused at times, too.  In both the switches change:
\* global pause, pause of the mint instructions, which have no pause account at
\* first, lists, the green list enforced, a customer without an account.
LimitArgs == [NoArgs EXCEPT
    !.amount_token = {1}, !.amount_m_token = {7}, !.min_receive_amount = {0},
    !.instant_daily_limit = {8, 14}, !.price = {20},
    !.new_m_token_rate = {12}, !.new_out_rate = {12}, !.is_safe = {TRUE},
    !.paused = BOOLEAN, !.fn_id = {"MintInstant", "MintRequest", "RedeemInstant"},
    !.greenlist_enforced = {TRUE}, !.new_account = {alice}]
LimitDeployed == [BaseDeployed EXCEPT
    !.minter.first_deposit_min_m_tokens = 6,
    !.config.instant_daily_limit = 14,
    !.roles = @ \cup {<<vrole, admin, UPDATE_ACCOUNT_AC>>},
    !.pause_inx = [fn \in VaultActionId \ {"MintInstant", "MintRequest"} |-> FALSE],
    !.account_ac = [k \in {<<list, alice>>} |-> [green_listed |-> FALSE, black_listed |-> FALSE]],
    !.vault_account = << >>,
    !.m_balance = [a \in Accounts |-> IF a = alice THEN 11 ELSE 0],
    !.m_supply = 11]

VARIABLE subject   \* what the behaviour is about

WithoutMintRequests == "MintRequest" \notin DOMAIN pause_inx'
StandingMarket ==
    /\ envVars' = envVars
    /\ config'.instant_daily_limit = config.instant_daily_limit

LimitInit == HInit /\ subject \in {"limits", "switches"}
LimitNext ==
    /\ HNext
    /\ subject = "limits" => WithoutMintRequests /\ pause_inx'["RedeemInstant"] = FALSE
    /\ subject = "switches" => StandingMarket
    /\ UNCHANGED subject

LimitSpec == LimitInit /\ [][LimitNext]_<<vars, historyVars, subject>>
===============================================================================
