----------------------------- MODULE VaultHistory -----------------------------
(***************************************************************************)
(* The vaults with a record of what went through them.  The record is      *)
(* measured on token balances, not on the program's own counters, so that  *)
(* the limits can be compared with what customers really received and      *)
(* paid.  It constrains nothing: HNext takes exactly the steps of Next.    *)
(***************************************************************************)
EXTENDS Accounting

VARIABLES
    day_volume,   \* mTokens customers received or gave instantly, this day
    day_limit,    \* the highest daily limit in force at some time this day
    headroom,     \* what the admin's last grant leaves of each token
    first_mint    \* mTokens of the first mint of each customer, 0 before it

historyVars == <<day_volume, day_limit, headroom, first_mint>>

Distance(a, b) == IF a >= b THEN a - b ELSE b - a

InstantVolume ==
    SumFunction([c \in Customers |-> Distance(m_balance'[c], m_balance[c])])

TrackDay(volume) ==
    IF current_day' # current_day
    THEN /\ day_volume' = 0
         /\ day_limit' = config'.instant_daily_limit
    ELSE /\ day_volume' = day_volume + volume
         /\ day_limit' = Max({day_limit, config'.instant_daily_limit})

\* Payment tokens that customers paid or received, in base 9.
Flow(t) ==
    convert_to_base_9(
        SumFunction([c \in Customers |-> Distance(balance'[t][c], balance[t][c])]),
        decimals[t])

\* redeem_instant takes the gross payment off the allowance, rounded down by
\* way of USD, and may pay out up to this much more.  A deposit or an approval
\* pays no more than it takes off.
RedeemRounding ==
    [t \in Tokens |->
        IF balance'[t][redeemer_vault] < balance[t][redeemer_vault] /\ get_token_rate(t) # ONE
        THEN 1 + ONE \div get_token_rate(t) ELSE 0]
NoRounding == [t \in Tokens |-> 0]

TrackVaults(rounding) ==
    /\ headroom' = [t \in Tokens |->
         IF balance'[t] = balance[t] THEN headroom[t]
         ELSE headroom[t] - Flow(t) + rounding[t]]
    /\ first_mint' = [c \in Customers |->
         IF first_mint[c] = 0 /\ m_balance'[c] > m_balance[c]
         THEN m_balance'[c] - m_balance[c] ELSE first_mint[c]]

Granted(t) ==
    /\ t \in DOMAIN payment_mint_state'
    /\ t \in DOMAIN payment_mint_state =>
         payment_mint_state'[t].allowance # payment_mint_state[t].allowance

TrackGrants ==
    /\ headroom' = [t \in Tokens |->
         IF Granted(t) THEN payment_mint_state'[t].allowance ELSE headroom[t]]
    /\ UNCHANGED first_mint

HInit ==
    /\ Init
    /\ day_volume = 0
    /\ day_limit = config.instant_daily_limit
    /\ headroom = [t \in Tokens |->
         IF t \in DOMAIN payment_mint_state THEN payment_mint_state[t].allowance ELSE 0]
    /\ first_mint = [c \in Customers |-> 0]

HNext ==
    \/ InstantNext /\ TrackDay(InstantVolume) /\ TrackVaults(RedeemRounding)
    \/ RequestsNext /\ TrackDay(0) /\ TrackVaults(NoRounding)
    \/ CommonNext /\ TrackDay(0) /\ TrackGrants

HSpec == HInit /\ [][HNext]_<<vars, historyVars>>

-----------------------------------------------------------------------------
\* What goes through instantly in a day, minted and redeemed together, stays
\* within the highest limit the admin set that day, however the limit moves
\* and whatever was used the day before (require_and_update_limit).
DailyVolumeWithinLimit == day_volume <= day_limit

\* The allowance the program keeps for a token never exceeds what the admin's
\* last grant leaves after everything that was paid in and out since, but for
\* the rounding of redeem_instant (require_and_update_allowance).
AllowanceWithinGrant ==
    \A t \in Tokens \cap DOMAIN payment_mint_state :
        payment_mint_state[t].allowance # MAX_UINT128 =>
            payment_mint_state[t].allowance <= headroom[t]

\* The first mTokens a customer gets from the vault are at least the minimum
\* first mint, unless the admin exempted the account
\* (first_deposit_min_m_tokens, require_and_update_min_amount).
FirstMintMeetsMinimum ==
    \A c \in Customers :
        first_mint[c] > 0 => first_mint[c] >= minter.first_deposit_min_m_tokens
===============================================================================
