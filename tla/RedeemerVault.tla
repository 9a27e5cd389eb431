---------------------------- MODULE RedeemerVault ----------------------------
(***************************************************************************)
(* The redeemer vault of midas-vaults: mTokens in, payment tokens out.  At *)
(* once (redeem_instant, paid from the vault's own token account), through *)
(* a request that leaves the mTokens in the vault's account until a vault  *)
(* admin approves it (paid from request_redeemer's account, which must     *)
(* have delegated it to the vault) or rejects it, or through a fiat        *)
(* request, which is paid off chain.                                       *)
(***************************************************************************)
EXTENDS VaultCommon

VARIABLES
    redeemer,          \* RedeemerVaultState
    redeem_requests,   \* RedeemerVaultRequestState PDAs: request id -> request
    delegated          \* SPL delegation (external): what the vault PDA may
                       \* still move out of each token account

redeemerVars == <<redeemer, redeem_requests, delegated>>

Redeemer == [
    min_fiat_redeem_amount : U64,
    fiat_flat_fee          : U64,
    request_redeemer       : Accounts]

RedeemRequestState == [
    user              : Signers,
    payment_mint      : PaymentMints,
    m_token_amount    : U64,
    payment_mint_rate : Price,
    m_token_rate      : Price]

ASSUME RedeemerAssumption ==
    /\ Deployed.redeemer \in Redeemer
    /\ Deployed.delegated \in [Tokens -> [Accounts -> Nat]]
    /\ Args.amount_m_token \subseteq U64 /\ Args.min_receive_amount \subseteq U64
    /\ Args.new_m_token_rate \subseteq U64 /\ Args.is_safe \subseteq BOOLEAN
    /\ Args.min_fiat_redeem_amount \subseteq U64 /\ Args.fiat_flat_fee \subseteq U64
    /\ Args.request_redeemer \subseteq Accounts /\ Args.delegate \subseteq U64

-----------------------------------------------------------------------------
\* calc_and_validate_redeem: the fee in mTokens, with the flat fee on top for
\* fiat, unless the account's fees are waived ...
redeem_fee(user, t, amount, is_instant) ==
    get_fee_amount(user, t, amount, is_instant)
      + IF t = FIAT_MINT /\ ~vault_account[user].waived_fee THEN redeemer.fiat_flat_fee ELSE 0

min_redeem_amount(t) ==
    IF t = FIAT_MINT THEN redeemer.min_fiat_redeem_amount ELSE config.min_amount

\* ... and what it requires.
RedeemValid(user, t, amount, is_instant) ==
    /\ amount > 0
    /\ vault_account[user].free_from_min_amount \/ amount >= min_redeem_amount(t)
    /\ FeeComputable(user, t, amount, is_instant)
    /\ amount > redeem_fee(user, t, amount, is_instant)

\* The fee transfer out of mToken balances `bal`, skipped when there is no fee.
FeePayable(bal, user, fee) ==
    fee > 0 => /\ MRaw(fee) <= U64_MAX
               /\ CanMoveM(bal, user, config.fee_receiver, MRaw(fee))
FeePaid(bal, user, fee) == Transferred(bal, user, config.fee_receiver, MRaw(fee))

\* burn_mtoken: the amount is not converted to the decimals of the mint.
Burned(from, amount) == [m_balance EXCEPT ![from] = @ - amount]

\* Decimals a payout is rounded down to; fiat is paid in base 9.
pay_decimals(t) == IF t = FIAT_MINT THEN Base ELSE decimals[t]

\* A transfer of a payment token signed by the vault PDA: as the owner of its
\* own account, as the delegate of any other.
CanDraw(t, from, amount) ==
    /\ CanPay(t, balance, from, amount)
    /\ from # redeemer_vault => delegated[t][from] >= Raw(t, amount)
Drawn(t, from, to, amount) ==
    IF from \in {redeemer_vault, to} THEN delegated
    ELSE [delegated EXCEPT ![t][from] = @ - Raw(t, amount)]

-----------------------------------------------------------------------------
\* The daily limit counts the gross amount, the allowance the gross payment
\* with no rounding, the payout is the net amount rounded down: possibly zero.
RedeemInstant(user, t, amount_m_token, min_receive_amount) ==
    /\ validate_common(user, "RedeemInstant", FALSE)
    /\ t \in Tokens \cap DOMAIN payment_mint_state
    /\ RateAvailable(t) /\ MRateAvailable
    /\ RedeemValid(user, t, amount_m_token, TRUE)
    /\ UseDailyLimit(amount_m_token)
    /\ LET rate == get_token_rate(t)
           fee == redeem_fee(user, t, amount_m_token, TRUE)
           wo_fee == amount_m_token - fee
           usd == MulDiv(amount_m_token, MRate, ONE)
           amount_payment_token == MulDiv(usd, ONE, rate)
           payout == truncate(MulDiv(wo_fee, MRate, rate), decimals[t])
       IN  /\ MulDivOk(amount_m_token, MRate, ONE) /\ usd > 0
           /\ MulDivOk(usd, ONE, rate)
           /\ MulDivOk(wo_fee, MRate, rate)
           /\ payout >= min_receive_amount
           /\ AllowanceCovers(t, amount_payment_token)
           /\ UseAllowance(t, amount_payment_token)
           /\ CanBurn(user, wo_fee)
           /\ FeePayable(Burned(user, wo_fee), user, fee)
           /\ m_balance' = FeePaid(Burned(user, wo_fee), user, fee)
           /\ m_supply' = m_supply - wo_fee
           /\ CanPay(t, balance, redeemer_vault, payout)
           /\ balance' = Paid(t, balance, redeemer_vault, user, payout)
    /\ UNCHANGED <<config, paused, pause_inx, vault_account, requests_count, envVars,
                   acVars, token_authorities, frozen, m_authority, redeemerVars>>

\* Variant: the request records the amount with the fee in it.
redeem_terms_gross(user, t, amount, fee, payment_mint_rate) ==
    [user |-> user, payment_mint |-> t, m_token_amount |-> amount,
     payment_mint_rate |-> payment_mint_rate, m_token_rate |-> MRate]

\* What a redeem request records.
redeem_terms(user, t, amount, fee, payment_mint_rate) ==
    [user              |-> user,
     payment_mint      |-> t,
     m_token_amount    |-> amount - fee,
     payment_mint_rate |-> payment_mint_rate,
     m_token_rate      |-> MRate]

\* create_redeem_request, for both kinds: the net amount goes into escrow in
\* the vault's mToken account, the fee to its receiver, at the rates of now.
CreateRedeemRequest(user, t, amount_m_token, payment_mint_rate) ==
    /\ MRateAvailable
    /\ UseRequestId
    /\ requests_count \notin DOMAIN redeem_requests
    /\ RedeemValid(user, t, amount_m_token, FALSE)
    /\ LET fee == redeem_fee(user, t, amount_m_token, FALSE)
           wo_fee == amount_m_token - fee
           escrowed == Transferred(m_balance, user, redeemer_vault, MRaw(wo_fee))
       IN  /\ MRaw(wo_fee) <= U64_MAX
           /\ CanMoveM(m_balance, user, redeemer_vault, MRaw(wo_fee))
           /\ FeePayable(escrowed, user, fee)
           /\ m_balance' = FeePaid(escrowed, user, fee)
           /\ redeem_requests' = WithEntry(redeem_requests, requests_count,
                redeem_terms(user, t, amount_m_token, fee, payment_mint_rate))
    /\ UNCHANGED <<adminVars, limitVars, balance, envVars, acVars, token_authorities,
                   m_supply, frozen, m_authority, redeemer, delegated>>

RedeemRequest(user, t, amount_m_token) ==
    /\ validate_common(user, "RedeemRequest", FALSE)
    /\ t \in Tokens \cap DOMAIN payment_mint_state
    /\ RateAvailable(t)
    /\ CreateRedeemRequest(user, t, amount_m_token, get_token_rate(t))

\* The green list is always required; a fiat payment is worth ONE.
RedeemRequestFiat(user, amount_m_token) ==
    /\ validate_common(user, "RedeemRequestFiat", TRUE)
    /\ FIAT_MINT \in DOMAIN payment_mint_state
    /\ CreateRedeemRequest(user, FIAT_MINT, amount_m_token, ONE)

\* approve_redeem_request, for both kinds, as the figure it pays ...
redeem_payout(request, new_m_token_rate) ==
    truncate(MulDiv(request.m_token_amount, new_m_token_rate, request.payment_mint_rate),
             pay_decimals(request.payment_mint))

\* ... and the steps they share: tolerance, burn of the escrow, allowance.  The
\* payment token must (still) be listed; its feed is not looked at.
SettleRedeem(authority, id, new_m_token_rate, is_safe) ==
    /\ HasVaultRole(authority, VAULT_ADMIN)
    /\ id \in DOMAIN redeem_requests
    /\ LET request == redeem_requests[id]
           t == request.payment_mint
       IN  /\ t \in DOMAIN payment_mint_state
           /\ is_safe => WithinTolerance(config.variation_tolerance,
                                         request.m_token_rate, new_m_token_rate)
           /\ MulDivOk(request.m_token_amount, new_m_token_rate, request.payment_mint_rate)
           /\ CanBurn(redeemer_vault, request.m_token_amount)
           /\ m_balance' = Burned(redeemer_vault, request.m_token_amount)
           /\ m_supply' = m_supply - request.m_token_amount
           /\ AllowanceCovers(t, redeem_payout(request, new_m_token_rate))
           /\ UseAllowance(t, redeem_payout(request, new_m_token_rate))
    /\ redeem_requests' = WithoutEntry(redeem_requests, id)
    /\ UNCHANGED <<config, paused, pause_inx, vault_account, requests_count, limitVars,
                   envVars, acVars, token_authorities, frozen, m_authority, redeemer>>

ApproveRedeemRequest(authority, id, new_m_token_rate, is_safe) ==
    /\ SettleRedeem(authority, id, new_m_token_rate, is_safe)
    /\ LET request == redeem_requests[id]
           t == request.payment_mint
           payer == redeemer.request_redeemer
           payout == redeem_payout(request, new_m_token_rate)
       IN  /\ t \in Tokens
           /\ CanDraw(t, payer, payout)
           /\ balance' = Paid(t, balance, payer, request.user, payout)
           /\ delegated' = Drawn(t, payer, request.user, payout)

\* The fiat itself is transferred off chain.
ApproveRedeemRequestFiat(authority, id, new_m_token_rate, is_safe) ==
    /\ SettleRedeem(authority, id, new_m_token_rate, is_safe)
    /\ redeem_requests[id].payment_mint = FIAT_MINT
    /\ UNCHANGED <<balance, delegated>>

\* Variant: a rejection has to give the escrowed mTokens back.
RejectRedeemRequest_refunding(authority, id) ==
    /\ HasVaultRole(authority, VAULT_ADMIN)
    /\ id \in DOMAIN redeem_requests
    /\ LET request == redeem_requests[id]
           moved == MRaw(request.m_token_amount)
       IN  /\ CanMoveM(m_balance, redeemer_vault, request.user, moved)
           /\ m_balance' = Transferred(m_balance, redeemer_vault, request.user, moved)
    /\ redeem_requests' = WithoutEntry(redeem_requests, id)
    /\ UNCHANGED <<vcVars, acVars, token_authorities, m_supply, frozen, m_authority,
                   redeemer, delegated>>

\* The request is closed; its mTokens stay in the vault's account.
RejectRedeemRequest(authority, id) ==
    /\ HasVaultRole(authority, VAULT_ADMIN)
    /\ id \in DOMAIN redeem_requests
    /\ redeem_requests' = WithoutEntry(redeem_requests, id)
    /\ UNCHANGED <<vcVars, acVars, taVars, redeemer, delegated>>

UpdateRedeemerVault(authority) ==
    /\ HasVaultRole(authority, VAULT_ADMIN)
    /\ redeemer' \in [
         min_fiat_redeem_amount :
            Args.min_fiat_redeem_amount \cup {redeemer.min_fiat_redeem_amount},
         fiat_flat_fee    : Args.fiat_flat_fee \cup {redeemer.fiat_flat_fee},
         request_redeemer : Args.request_redeemer \cup {redeemer.request_redeemer}]
    /\ UNCHANGED <<vcVars, acVars, taVars, redeem_requests, delegated>>

\* The owner of a token account sets what the vault PDA may move (external).
ApproveDelegate(t, owner, amount) ==
    /\ delegated' = [delegated EXCEPT ![t][owner] = amount]
    /\ UNCHANGED <<vcVars, acVars, taVars, redeemer, redeem_requests>>

-----------------------------------------------------------------------------
RedeemerInit ==
    /\ redeemer = Deployed.redeemer
    /\ redeem_requests = << >>
    /\ delegated = Deployed.delegated

RedeemerInstant ==
    \E user \in Signers, t \in Tokens, amount \in Args.amount_m_token,
       least \in Args.min_receive_amount : RedeemInstant(user, t, amount, least)

RedeemerRequests ==
    \/ \E user \in Signers, amount \in Args.amount_m_token :
         \/ \E t \in Tokens : RedeemRequest(user, t, amount)
         \/ RedeemRequestFiat(user, amount)
    \/ \E authority \in Signers, id \in RequestIds :
         \/ \E rate \in Args.new_m_token_rate, is_safe \in Args.is_safe :
              \/ ApproveRedeemRequest(authority, id, rate, is_safe)
              \/ ApproveRedeemRequestFiat(authority, id, rate, is_safe)
         \/ RejectRedeemRequest(authority, id)
    \/ \E authority \in Signers : UpdateRedeemerVault(authority)
    \/ \E t \in Tokens, owner \in Signers, amount \in Args.delegate :
         ApproveDelegate(t, owner, amount)

RedeemerTypeOK ==
    /\ redeemer \in Redeemer
    /\ DOMAIN redeem_requests \subseteq RequestIds
    /\ \A id \in DOMAIN redeem_requests : redeem_requests[id] \in RedeemRequestState
    /\ delegated \in [Tokens -> [Accounts -> Nat]]
===============================================================================
