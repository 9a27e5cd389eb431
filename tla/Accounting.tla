------------------------------ MODULE Accounting ------------------------------
(***************************************************************************)
(* What the vaults owe and what their customers own, summed over accounts, *)
(* payment tokens and pending requests.  Only properties: the behaviour is *)
(* that of MidasVaults.                                                    *)
(***************************************************************************)
EXTENDS MidasVaults, FiniteSetsExt

CONSTANTS Customers   \* the accounts whose wealth is followed

ASSUME CustomersAssumption == Customers \subseteq Signers /\ IsFiniteSet(Customers)

\* The mTokens of all pending redeem requests are in the vault's account, so
\* that each could be approved: redeeming at once, fees, other requests and
\* rejections never eat into them.  It takes an admin's withdrawal or a burn
\* by the permanent delegate to break this.
PendingRedeemsCovered ==
    SumFunction([id \in DOMAIN redeem_requests |-> redeem_requests[id].m_token_amount])
      <= m_balance[redeemer_vault]

\* Values in USD, in base 9 twice: an amount in base 9 times a rate in base 9.
\* A payment token is worth its price whether it is listed or not.
TokenWorth(t, raw) ==
    convert_to_base_9(raw, decimals[t]) * price[Deployed.payment_mint_state[t].data_feed]
MTokenWorth(raw) == convert_to_base_9(raw, m_decimals) * MRate

\* A pending request is worth what its approval at the recorded rates pays.
ClaimWorth(user) ==
    SumFunction([id \in DOMAIN mint_requests |->
        IF mint_requests[id].user = user
        THEN mint_requests[id].deposited_usd_wo_fees * ONE ELSE 0])
    + SumFunction([id \in DOMAIN redeem_requests |->
        IF redeem_requests[id].user = user
        THEN redeem_requests[id].m_token_amount * redeem_requests[id].m_token_rate ELSE 0])

Worth(bal, m_bal, user) ==
    SumFunction([t \in Tokens |-> TokenWorth(t, bal[t][user])]) + MTokenWorth(m_bal[user])

\* While prices stand still and requests are approved at the rates they were
\* made at, no sequence of deposits, redemptions, requests and transfers makes
\* the customers richer than they were: every rounding of fees, conversions
\* and payouts is in the vaults' favour (utils.rs, calc_and_validate_deposit,
\* calc_and_validate_redeem, truncate).
NoValueExtraction ==
    SumFunction([u \in Customers |-> Worth(balance, m_balance, u) + ClaimWorth(u)])
      <= SumFunction([u \in Customers |-> Worth(Deployed.balance, Deployed.m_balance, u)])
===============================================================================
