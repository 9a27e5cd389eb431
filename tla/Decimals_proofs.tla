---------------------------- MODULE Decimals_proofs ----------------------------
(***************************************************************************)
(* Facts about the fixed-point arithmetic, for every radix, precision and  *)
(* width: what the operators return, and that rounding is downwards.       *)
(***************************************************************************)
EXTENDS Decimals, TLAPS

\* The quotient of naturals, as everything below needs it.
LEMMA QuotientFacts ==
    ASSUME NEW a \in Nat, NEW c \in Nat, c > 0
    PROVE  /\ a \div c \in Nat
           /\ (a \div c) * c <= a
           /\ a < (a \div c) * c + c
OBVIOUS

LEMMA ProductNat ==
    ASSUME NEW a \in Nat, NEW b \in Nat
    PROVE  a * b \in Nat
OBVIOUS

LEMMA ProductMonotone ==
    ASSUME NEW a \in Nat, NEW b \in Nat, NEW c \in Nat, a <= b
    PROVE  a * c <= b * c
OBVIOUS

LEMMA QuotientMonotone ==
    ASSUME NEW a \in Nat, NEW b \in Nat, NEW c \in Nat, c > 0, a <= b
    PROVE  a \div c <= b \div c
OBVIOUS

LEMMA MulDivNat ==
    ASSUME NEW a \in Nat, NEW b \in Nat, NEW c \in Nat, c > 0
    PROVE  MulDiv(a, b, c) \in Nat
BY ProductNat, QuotientFacts DEF MulDiv

LEMMA ConvertNat ==
    ASSUME NEW value \in Nat, NEW from \in 0 .. MaxDecimals, NEW to \in 0 .. MaxDecimals
    PROVE  convert(value, from, to) \in Nat
<1> USE BaseAssumption
<1>1. CASE from > to
  <2>1. from - to \in 0 .. MaxDecimals
    BY <1>1
  <2>2. Radix ^ (from - to) \in Nat /\ Radix ^ (from - to) > 0
    BY <2>1, RadixAssumption
  <2> QED
    BY <1>1, <2>2, QuotientFacts DEF convert
<1>2. CASE ~(from > to)
  <2>1. to - from \in 0 .. MaxDecimals
    BY <1>2
  <2>2. Radix ^ (to - from) \in Nat
    BY <2>1, RadixAssumption
  <2> QED
    BY <1>2, <2>2, ProductNat DEF convert
<1> QED
  BY <1>1, <1>2

\* Multiplying and dividing by the same number.
LEMMA QuotientOfProduct ==
    ASSUME NEW a \in Nat, NEW c \in Nat, c > 0
    PROVE  (a * c) \div c = a
OBVIOUS

\* truncate rounds down, and what it returns it returns again: converted to the
\* mint's decimals and back, a truncated value is the same value.
LEMMA TruncateFacts ==
    ASSUME NEW value \in Nat, NEW dec \in 0 .. MaxDecimals
    PROVE  /\ truncate(value, dec) \in Nat
           /\ truncate(value, dec) <= value
           /\ truncate(truncate(value, dec), dec) = truncate(value, dec)
<1> USE BaseAssumption
<1>1. CASE Base > dec
  <2> DEFINE c == Radix ^ (Base - dec)
  <2>1. c \in Nat /\ c > 0
    <3>1. Base - dec \in 0 .. MaxDecimals
      BY <1>1
    <3> QED
      BY <3>1, RadixAssumption
  <2>2. \A v \in Nat : truncate(v, dec) = (v \div c) * c
    BY <1>1 DEF truncate, convert_to_base_9, convert_from_base_9, convert
  <2> HIDE DEF c
  <2>3. value \div c \in Nat /\ (value \div c) * c \in Nat /\ (value \div c) * c <= value
    BY <2>1, QuotientFacts, ProductNat
  <2>4. ((value \div c) * c) \div c = value \div c
    BY <2>1, <2>3, QuotientOfProduct
  <2> QED
    BY <2>2, <2>3, <2>4
<1>2. CASE ~(Base > dec)
  <2> DEFINE c == Radix ^ (dec - Base)
  <2>1. c \in Nat /\ c > 0
    <3>1. dec - Base \in 0 .. MaxDecimals
      BY <1>2
    <3> QED
      BY <3>1, RadixAssumption
  <2>2. \A v \in Nat : truncate(v, dec) = v
    <3> SUFFICES ASSUME NEW v \in Nat PROVE truncate(v, dec) = v
      OBVIOUS
    <3>1. CASE dec > Base
      <4>1. truncate(v, dec) = (v * c) \div c
        BY <1>2, <3>1 DEF truncate, convert_to_base_9, convert_from_base_9, convert
      <4> HIDE DEF c
      <4> QED
        BY <4>1, <2>1, QuotientOfProduct
    <3>2. CASE dec = Base
      <4>1. dec - Base = 0 /\ Base - dec = 0
        BY <3>2
      <4>2. truncate(v, dec) = (v * Radix ^ 0) * Radix ^ 0
        BY <1>2, <3>2, <4>1 DEF truncate, convert_to_base_9, convert_from_base_9, convert
      <4> QED
        BY <4>2, RadixAssumption
    <3> QED
      BY <1>2, <3>1, <3>2
  <2> QED
    BY <2>2
<1> QED
  BY <1>1, <1>2

\* A fee of at most 100% is at most the amount.
LEMMA FeeFacts ==
    ASSUME NEW amount \in Nat, NEW percent \in 0 .. ONE_HUNDRED_PERCENT
    PROVE  FeeAmount(amount, percent) \in Nat /\ FeeAmount(amount, percent) <= amount
<1> DEFINE P == ONE_HUNDRED_PERCENT
<1>1. P \in Nat /\ P > 0 /\ percent \in Nat /\ percent <= P
  BY PercentAssumption
<1> HIDE DEF P
<1>2. amount * percent <= amount * P
  <2>1. percent * amount <= P * amount
    BY <1>1, ProductMonotone
  <2> QED
    BY <2>1, <1>1
<1>3. (amount * percent) \div P <= (amount * P) \div P
  BY <1>1, <1>2, ProductNat, QuotientMonotone
<1>4. (amount * P) \div P = amount
  BY <1>1, QuotientOfProduct
<1>5. MulDiv(amount, percent, P) \in Nat /\ MulDiv(amount, percent, P) <= amount
  BY <1>1, <1>3, <1>4, MulDivNat DEF MulDiv
<1> QED
  BY <1>5 DEF FeeAmount, P

\* MulDiv never decreases when its first argument grows.
LEMMA MulDivMonotone ==
    ASSUME NEW a \in Nat, NEW b \in Nat, NEW r \in Nat, NEW c \in Nat, c > 0, a <= b
    PROVE  MulDiv(a, r, c) <= MulDiv(b, r, c)
BY ProductMonotone, ProductNat, QuotientMonotone DEF MulDiv
===============================================================================
