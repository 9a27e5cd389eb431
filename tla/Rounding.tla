------------------------------- MODULE Rounding -------------------------------
(***************************************************************************)
(* The arithmetic of utils.rs over all small inputs: a behaviour walks one *)
(* amount upwards while the other inputs stand.                            *)
(***************************************************************************)
EXTENDS Decimals

CONSTANTS MaxAmount, MaxRate   \* bounds of the inputs

ASSUME BoundsAssumption == MaxAmount \in Nat /\ MaxRate \in Nat

VARIABLES
    amount,    \* an amount in base 9, or a rate an admin asks for
    rate,      \* the rate of a payment token, or the rate of a request
    m_rate,    \* the rate of the mToken
    percent,   \* a fee, or the variation tolerance
    dec        \* decimals of a payment mint

inputs == <<amount, rate, m_rate, percent, dec>>

Init ==
    /\ amount = 0
    /\ rate \in 1 .. MaxRate /\ m_rate \in 1 .. MaxRate
    /\ percent \in 0 .. ONE_HUNDRED_PERCENT
    /\ dec \in 0 .. MaxDecimals

Next ==
    /\ amount < MaxAmount
    /\ amount' = amount + 1
    /\ UNCHANGED <<rate, m_rate, percent, dec>>

Spec == Init /\ [][Next]_inputs

fee == truncate(FeeAmount(amount, percent), dec)

\* calc_and_validate_deposit subtracts the fee from the amount and the fee's
\* value from the deposit's with checked_sub: neither ever panics, at any fee
\* up to 100%, any rate and any decimals.
DepositNeverUnderflows ==
    /\ fee <= amount
    /\ MulDiv(fee, rate, ONE) <= MulDiv(amount, rate, ONE)

\* A deposit redeemed at the same rates never pays back more than it took.
RoundTripNeverGains ==
    LET m_tokens == MulDiv(MulDiv(amount, rate, ONE), ONE, m_rate)
    IN  truncate(MulDiv(m_tokens, m_rate, rate), dec) <= amount

\* A truncated amount is what the transfer of it moves, to the last unit: fee
\* and payout as computed are fee and payout as paid.
TruncatedIsTransferred ==
    convert_to_base_9(convert_from_base_9(fee, dec), dec) = fee

\* A safe approval never accepts a rate that is off the request's rate by a
\* whole percentage unit more than the tolerance (require_variation_tolerance) -
\* save where the relative change is cast to u64 and wraps, and then what is let
\* through is known: an increase of 2^64 percentage units or more, never a
\* decrease and never a smaller increase.
ToleranceHonoured ==
    WithinTolerance(percent, rate, amount) =>
        LET change == PriceDiff(rate, amount) * ONE_HUNDRED_PERCENT
        IN  \/ change < (percent + 1) * rate
            \/ amount > rate /\ change >= (U64_MAX + 1) * rate
===============================================================================
