----------------------------- MODULE MinterVault -----------------------------
(***************************************************************************)
(* The minter vault of midas-vaults: payment tokens in, mTokens out, at    *)
(* once (mint_instant) or through a request that a vault admin approves or *)
(* rejects.                                                                *)
(***************************************************************************)
EXTENDS VaultCommon

VARIABLES
    minter,          \* MinterVaultState
    mint_requests    \* MintVaultRequestState PDAs: request id -> request

minterVars == <<minter, mint_requests>>

Minter == [
    first_deposit_min_m_tokens : U64,
    mint_authority_pda         : TokenAuthorities]

MintRequestState == [
    user                  : Signers,
    payment_mint          : Tokens,
    deposited_usd         : U64,
    deposited_usd_wo_fees : U64,
    m_mint_rate           : Price]

ASSUME MinterAssumption ==
    /\ Deployed.minter \in Minter
    /\ Args.amount_token \subseteq U64 /\ Args.min_receive_amount \subseteq U64
    /\ Args.new_out_rate \subseteq U64 /\ Args.is_safe \subseteq BOOLEAN
    /\ Args.first_deposit_min_m_tokens \subseteq U64
    /\ Args.mint_authority_pda \subseteq TokenAuthorities

-----------------------------------------------------------------------------
\* calc_and_validate_deposit, as the figures it computes ...
calc_deposit(user, t, payment_amount, is_instant) ==
    LET rate == get_token_rate(t)
        usd == MulDiv(payment_amount, rate, ONE)
        fee == truncate(get_fee_amount(user, t, payment_amount, is_instant), decimals[t])
        fee_in_usd == MulDiv(fee, rate, ONE)
        deposited_usd == usd - fee_in_usd
    IN  [mint_amount_in_usd  |-> usd,
         fee_token_amount    |-> fee,
         fee_in_usd          |-> fee_in_usd,
         amount_token_wo_fee |-> payment_amount - fee,
         deposited_usd       |-> deposited_usd,
         m_token_amount      |-> MulDiv(deposited_usd, ONE, MRate)]

\* Variant: the first mint's minimum is not looked at.
MinAmountMet_any_first(user, m_token_amount) ==
    vault_account[user].free_from_min_amount \/ m_token_amount >= config.min_amount

\* ... the least amount it accepts: accounts exempt from the minimum are exempt
\* from the first mint's too, and for the others the first mint is the first
\* one that passes the check ...
MinAmountMet(user, m_token_amount) ==
    \/ vault_account[user].free_from_min_amount
    \/ /\ m_token_amount >= config.min_amount
       /\ \/ vault_account[user].free_from_min_first_mint
          \/ m_token_amount >= minter.first_deposit_min_m_tokens

\* ... and all that it validates.
DepositValid(user, t, payment_amount, is_instant, d) ==
    /\ payment_amount > 0 /\ payment_amount <= U64_MAX
    /\ MulDivOk(payment_amount, get_token_rate(t), ONE)
    /\ AllowanceCovers(t, payment_amount)
    /\ FeeComputable(user, t, payment_amount, is_instant)
    /\ d.fee_token_amount <= payment_amount
    /\ d.fee_in_usd <= d.mint_amount_in_usd
    /\ d.deposited_usd > 0
    /\ MulDivOk(d.deposited_usd, ONE, MRate)
    /\ MinAmountMet(user, d.m_token_amount)
    /\ d.m_token_amount > 0

\* require_and_update_min_amount marks the account the first time it passes.
MarkFirstMint(user) ==
    vault_account' =
        IF vault_account[user].free_from_min_amount THEN vault_account
        ELSE [vault_account EXCEPT ![user].free_from_min_first_mint = TRUE]

\* mint_token: a cross-program call to token-authority, signed by the vault.
MintThroughAuthority(receiver, amount) ==
    /\ amount <= U64_MAX
    /\ Mint(minter.mint_authority_pda, minter_vault, receiver, amount)

\* The two payments of a deposit; the fee is skipped when it is zero.
TakeDeposit(user, t, d) ==
    LET paid == Paid(t, balance, user, config.tokens_receiver, d.amount_token_wo_fee)
    IN  /\ CanPay(t, balance, user, d.amount_token_wo_fee)
        /\ CanPay(t, paid, user, d.fee_token_amount)
        /\ balance' = Paid(t, paid, user, config.fee_receiver, d.fee_token_amount)

\* What the two deposit instructions have in common.
Deposit(user, t, payment_amount, is_instant, d) ==
    /\ DepositValid(user, t, payment_amount, is_instant, d)
    /\ UseAllowance(t, payment_amount)
    /\ MarkFirstMint(user)
    /\ TakeDeposit(user, t, d)

-----------------------------------------------------------------------------
MintInstant(user, t, amount_token, min_receive_amount) ==
    /\ validate_common(user, "MintInstant", FALSE)
    /\ t \in Tokens \cap DOMAIN payment_mint_state
    /\ RateAvailable(t) /\ MRateAvailable
    /\ LET payment_amount == convert_to_base_9(amount_token, decimals[t])
           d == calc_deposit(user, t, payment_amount, TRUE)
       IN  /\ Deposit(user, t, payment_amount, TRUE, d)
           /\ d.m_token_amount >= min_receive_amount
           /\ UseDailyLimit(d.m_token_amount)
           /\ MintThroughAuthority(user, d.m_token_amount)
    /\ UNCHANGED <<config, paused, pause_inx, requests_count, envVars, acVars, minterVars>>

\* The tokens are taken at once; the mTokens come with the approval.
MintRequest(user, t, amount_token) ==
    /\ validate_common(user, "MintRequest", FALSE)
    /\ t \in Tokens \cap DOMAIN payment_mint_state
    /\ RateAvailable(t) /\ MRateAvailable
    /\ UseRequestId
    /\ requests_count \notin DOMAIN mint_requests
    /\ LET payment_amount == convert_to_base_9(amount_token, decimals[t])
           d == calc_deposit(user, t, payment_amount, FALSE)
       IN  /\ Deposit(user, t, payment_amount, FALSE, d)
           /\ d.mint_amount_in_usd <= U64_MAX
           /\ mint_requests' = WithEntry(mint_requests, requests_count,
                [user                  |-> user,
                 payment_mint          |-> t,
                 deposited_usd         |-> d.mint_amount_in_usd,
                 deposited_usd_wo_fees |-> d.deposited_usd,
                 m_mint_rate           |-> MRate])
    /\ UNCHANGED <<config, paused, pause_inx, limitVars, envVars, acVars, taVars, minter>>

\* The admin chooses the rate; is_safe keeps it within the variation tolerance
\* of the rate at the time of the request.  Neither the pause switches, the
\* lists nor the feeds are looked at.
ApproveMintRequest(authority, id, new_out_rate, is_safe) ==
    /\ HasVaultRole(authority, VAULT_ADMIN)
    /\ id \in DOMAIN mint_requests
    /\ LET request == mint_requests[id]
           amount_to_mint == MulDiv(request.deposited_usd_wo_fees, ONE, new_out_rate)
       IN  /\ is_safe => WithinTolerance(config.variation_tolerance,
                                         request.m_mint_rate, new_out_rate)
           /\ MulDivOk(request.deposited_usd_wo_fees, ONE, new_out_rate)
           /\ MintThroughAuthority(request.user, amount_to_mint)
    /\ mint_requests' = WithoutEntry(mint_requests, id)
    /\ UNCHANGED <<vcVars, acVars, minter>>

\* Variant: nobody asks who rejects.
RejectMintRequest_anyone(authority, id) ==
    /\ id \in DOMAIN mint_requests
    /\ mint_requests' = WithoutEntry(mint_requests, id)
    /\ UNCHANGED <<vcVars, acVars, taVars, minter>>

\* The request is closed and nothing is given back on chain: not the tokens,
\* the allowance nor the mark of the first mint.
RejectMintRequest(authority, id) ==
    /\ HasVaultRole(authority, VAULT_ADMIN)
    /\ id \in DOMAIN mint_requests
    /\ mint_requests' = WithoutEntry(mint_requests, id)
    /\ UNCHANGED <<vcVars, acVars, taVars, minter>>

UpdateMinterVault(authority) ==
    /\ HasVaultRole(authority, VAULT_ADMIN)
    /\ minter' \in [
         first_deposit_min_m_tokens :
            Args.first_deposit_min_m_tokens \cup {minter.first_deposit_min_m_tokens},
         mint_authority_pda : Args.mint_authority_pda \cup {minter.mint_authority_pda}]
    /\ UNCHANGED <<vcVars, acVars, taVars, mint_requests>>

-----------------------------------------------------------------------------
MinterInit ==
    /\ minter = Deployed.minter
    /\ mint_requests = << >>

MinterInstant ==
    \E user \in Signers, t \in Tokens, amount \in Args.amount_token,
       least \in Args.min_receive_amount : MintInstant(user, t, amount, least)

MinterRequests ==
    \/ \E user \in Signers, t \in Tokens, amount \in Args.amount_token :
         MintRequest(user, t, amount)
    \/ \E authority \in Signers, id \in RequestIds :
         \/ \E rate \in Args.new_out_rate, is_safe \in Args.is_safe :
              ApproveMintRequest(authority, id, rate, is_safe)
         \/ RejectMintRequest(authority, id)
    \/ \E authority \in Signers : UpdateMinterVault(authority)

MinterTypeOK ==
    /\ minter \in Minter
    /\ DOMAIN mint_requests \subseteq RequestIds
    /\ \A id \in DOMAIN mint_requests : mint_requests[id] \in MintRequestState
===============================================================================
