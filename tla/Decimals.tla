------------------------------- MODULE Decimals -------------------------------
(***************************************************************************)
(* The fixed-point arithmetic of the vault programs, as pure operators.    *)
(*                                                                         *)
(* Every amount inside midas-vaults is a u128 "in base 9": 10^9 units are  *)
(* one token, whatever the decimals of its mint.  The module keeps the     *)
(* structure (a radix, a base precision, decimals per mint, a percentage   *)
(* scale, the integer widths) and leaves the numbers to the instance:      *)
(* the code has Radix = 10, Base = 9, ONE_HUNDRED_PERCENT = 10000,         *)
(* U64_MAX = 2^64 - 1 and MAX_UINT128 = 2^128 - 1.                         *)
(***************************************************************************)
EXTENDS Integers

CONSTANTS
    Radix,                \* 10: the base of decimal scaling
    Base,                 \* 9: the precision amounts are computed in
    MaxDecimals,          \* the largest `decimals` of a mint (u8)
    ONE_HUNDRED_PERCENT,  \* 10000: fees and tolerances are basis points
    U64_MAX,              \* the largest u64
    MAX_UINT128           \* the largest u128, also the infinite allowance

ASSUME RadixAssumption ==
    /\ Radix ^ 0 = 1
    /\ \A n \in 0 .. MaxDecimals : Radix ^ n \in Nat /\ Radix ^ n > 0
ASSUME BaseAssumption == Base \in Nat /\ MaxDecimals \in Nat /\ Base <= MaxDecimals
ASSUME PercentAssumption == ONE_HUNDRED_PERCENT \in Nat /\ ONE_HUNDRED_PERCENT > 0
ASSUME WidthAssumption ==
    /\ U64_MAX \in Nat /\ MAX_UINT128 \in Nat /\ U64_MAX < MAX_UINT128
    /\ ONE_HUNDRED_PERCENT <= U64_MAX

U64 == 0 .. U64_MAX
U128 == 0 .. MAX_UINT128

\* One token, one US dollar, a rate of 1.0.
ONE == Radix ^ Base

\* Variant: losing precision rounds up.
convert_up(value, from, to) ==
    IF from > to THEN (value + Radix ^ (from - to) - 1) \div Radix ^ (from - to)
                 ELSE value * Radix ^ (to - from)

\* A value with precision `from` expressed with precision `to`.  Losing
\* precision rounds down.
convert(value, from, to) ==
    IF from > to THEN value \div Radix ^ (from - to)
                 ELSE value * Radix ^ (to - from)

convert_to_base_9(value, decimals) == convert(value, decimals, Base)

convert_from_base_9(value, decimals) == convert(value, Base, decimals)

\* Variant: nothing is cut off.
truncate_nothing(value, decimals) == value

\* What is left of a base-9 value after a transfer of a mint with `decimals`.
truncate(value, decimals) ==
    convert_to_base_9(convert_from_base_9(value, decimals), decimals)

\* a.checked_mul(b).unwrap().checked_div(c).unwrap(): defined on no overflow
\* and a nonzero divisor, a panic (the transaction reverts) otherwise.
MulDivOk(a, b, c) == a * b <= MAX_UINT128 /\ c > 0

\* Variant: the quotient rounds up.
MulDiv_up(a, b, c) == (a * b + c - 1) \div c

MulDiv(a, b, c) == (a * b) \div c

\* get_fee_amount once the percentages are known: the sum is capped at 100%.
FeePercent(mint_fee, instant_fee, is_instant) ==
    LET sum == mint_fee + (IF is_instant THEN instant_fee ELSE 0)
    IN  IF sum > ONE_HUNDRED_PERCENT THEN ONE_HUNDRED_PERCENT ELSE sum

FeeAmount(amount, percent) == MulDiv(amount, percent, ONE_HUNDRED_PERCENT)

\* validate_fee: at most 100%, and positive when check_min.
validate_fee(fee, check_min) ==
    /\ fee <= ONE_HUNDRED_PERCENT
    /\ check_min => fee > 0

\* require_variation_tolerance: the relative change, rounded down and cast to
\* u64 (the cast wraps), is within the tolerance.
PriceDiff(price, new_price) ==
    IF new_price >= price THEN new_price - price ELSE price - new_price

\* Variant: the change is relative to the new rate.
WithinTolerance_of_new(tolerance, price, new_price) ==
    LET diff == PriceDiff(price, new_price)
    IN  /\ MulDivOk(diff, ONE_HUNDRED_PERCENT, new_price)
        /\ tolerance >= MulDiv(diff, ONE_HUNDRED_PERCENT, new_price) % (U64_MAX + 1)

WithinTolerance(tolerance, price, new_price) ==
    LET diff == PriceDiff(price, new_price)
    IN  /\ MulDivOk(diff, ONE_HUNDRED_PERCENT, price)
        /\ tolerance >= MulDiv(diff, ONE_HUNDRED_PERCENT, price) % (U64_MAX + 1)
===============================================================================
