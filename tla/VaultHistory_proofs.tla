------------------------- MODULE VaultHistory_proofs -------------------------
(***************************************************************************)
(* Theorems about the sums and records of Accounting and VaultHistory: the *)
(* escrow of the pending redeem requests, the daily limit, the minimum of  *)
(* the first mint, the allowances, the wealth of the customers, whose      *)
(* business is taken, and what a vault without admins still allows, for    *)
(* any number of customers, tokens and requests and any amounts.           *)
(***************************************************************************)
EXTENDS VaultHistory, MidasVaults_proofs, FiniteSetTheorems

-----------------------------------------------------------------------------
(* Sums over finite sets.  SumFunctionOnSet is a fold over the subsets of  *)
(* its set; what holds of it for every finite set is shown at a smallest   *)
(* subset of which it would fail (SubsetMinimal).                          *)

Pick(s) == CHOOSE x \in s : TRUE

\* g computes the sums of f over the subsets of S, as SumFunctionOnSet does.
IsSumming(g, f, S) ==
    g = [s \in SUBSET S |-> IF s = {} THEN 0 ELSE f[Pick(s)] + g[s \ {Pick(s)}]]

LEMMA SumIsSumming ==
    ASSUME NEW f, NEW S
    PROVE  SumFunctionOnSet(f, S) = (CHOOSE g : IsSumming(g, f, S))[S]
BY DEF SumFunctionOnSet, FoldFunctionOnSet, MapThenFoldSet, IsSumming, Pick

LEMMA PickIn == \A s : s # {} => Pick(s) \in s
BY DEF Pick

\* Among the subsets of a finite set with some property one is minimal.
LEMMA SubsetMinimal ==
    ASSUME NEW S, IsFiniteSet(S), NEW C \in SUBSET (SUBSET S), C # {}
    PROVE  \E T \in C : \A U \in C : U \subseteq T => U = T
<1>1. IsWellFoundedOn(StrictSubsetOrdering(S), SUBSET S)
  BY FS_StrictSubsetOrderingWellFounded, FS_FiniteSubsetsOfFinite
<1>2. PICK T \in C : \A U \in C : ~ (<<U, T>> \in StrictSubsetOrdering(S))
  BY <1>1, WFMin
<1> QED
  BY <1>2 DEF StrictSubsetOrdering

LEMMA SummingAgree ==
    ASSUME NEW f, NEW S, NEW T, NEW g, NEW h, IsFiniteSet(S),
           IsSumming(g, f, S), IsSumming(h, f, T), NEW U, U \subseteq S, U \subseteq T
    PROVE  g[U] = h[U]
<1> DEFINE C == {V \in SUBSET S : V \subseteq T /\ g[V] # h[V]}
<1> SUFFICES ASSUME C # {} PROVE FALSE
  OBVIOUS
<1>1. PICK V \in C : \A W \in C : W \subseteq V => W = V
  <2>1. C \in SUBSET (SUBSET S)
    OBVIOUS
  <2> HIDE DEF C
  <2> QED
    BY <2>1, SubsetMinimal
<1>2. V # {}
  BY DEF IsSumming
<1>3. V \ {Pick(V)} \notin C
  BY <1>1, <1>2, PickIn
<1>4. g[V \ {Pick(V)}] = h[V \ {Pick(V)}]
  BY <1>1, <1>3
<1>5. g[V] = f[Pick(V)] + g[V \ {Pick(V)}] /\ h[V] = f[Pick(V)] + h[V \ {Pick(V)}]
  BY <1>1, <1>2 DEF IsSumming
<1> QED
  BY <1>1, <1>4, <1>5

LEMMA SummingExists ==
    ASSUME NEW f, NEW S, IsFiniteSet(S)
    PROVE  \E g : IsSumming(g, f, S)
<1> DEFINE C == {T \in SUBSET S : ~ \E g : IsSumming(g, f, T)}
<1> SUFFICES ASSUME C # {} PROVE FALSE
  OBVIOUS
<1>1. PICK T \in C : \A U \in C : U \subseteq T => U = T
  <2>1. C \in SUBSET (SUBSET S)
    OBVIOUS
  <2> HIDE DEF C
  <2> QED
    BY <2>1, SubsetMinimal
<1> DEFINE of(U) == CHOOSE g : IsSumming(g, f, U)
           part(U) == of(U)[U]
<1>2. \A U \in SUBSET T : U # T => IsSumming(of(U), f, U)
  <2> SUFFICES ASSUME NEW U \in SUBSET T, U # T PROVE IsSumming(of(U), f, U)
    OBVIOUS
  <2>1. \E g : IsSumming(g, f, U)
    BY <1>1
  <2> QED
    BY <2>1
<1>3. \A U \in SUBSET T : IsFiniteSet(U)
  <2>1. IsFiniteSet(T)
    BY <1>1, FS_Subset
  <2> QED
    BY <2>1, FS_Subset
<1> HIDE DEF of
<1>4. ASSUME NEW U \in SUBSET T, U # T
      PROVE  part(U) = IF U = {} THEN 0 ELSE f[Pick(U)] + part(U \ {Pick(U)})
  <2> DEFINE rest == U \ {Pick(U)}
  <2>1. IsSumming(of(U), f, U)
    BY <1>2, <1>4
  <2>2. of(U)[U] = IF U = {} THEN 0 ELSE f[Pick(U)] + of(U)[rest]
    BY <2>1 DEF IsSumming
  <2>3. CASE U # {}
    <3>1. rest \in SUBSET T /\ rest # T /\ rest \subseteq U
      BY <1>4, <2>3, PickIn
    <3>2. IsSumming(of(rest), f, rest)
      BY <1>2, <3>1
    <3> HIDE DEF rest
    <3>3. of(U)[rest] = of(rest)[rest]
      BY <1>3, <2>1, <3>1, <3>2, SummingAgree
    <3> QED
      BY <2>2, <2>3, <3>3 DEF rest
  <2> QED
    BY <2>2, <2>3
<1> HIDE DEF part
<1> DEFINE g == [s \in SUBSET T |->
              IF s = {} THEN 0
              ELSE f[Pick(s)] + part(s \ {Pick(s)})]
<1>5. ASSUME NEW s \in SUBSET T, s # {}
      PROVE  g[s \ {Pick(s)}] = part(s \ {Pick(s)})
  <2>1. s \ {Pick(s)} \in SUBSET T /\ s \ {Pick(s)} # T
    BY <1>5, PickIn
  <2> QED
    BY <1>4, <2>1
<1>6. IsSumming(g, f, T)
  BY <1>5 DEF IsSumming
<1> QED
  BY <1>1, <1>6

LEMMA SumUnfolds ==
    ASSUME NEW f, NEW S, IsFiniteSet(S)
    PROVE  SumFunctionOnSet(f, S) =
             IF S = {} THEN 0 ELSE f[Pick(S)] + SumFunctionOnSet(f, S \ {Pick(S)})
<1> DEFINE of(U) == CHOOSE g : IsSumming(g, f, U)
           rest == S \ {Pick(S)}
<1>1. IsFiniteSet(rest)
  BY FS_RemoveElement
<1>2. IsSumming(of(S), f, S) /\ IsSumming(of(rest), f, rest)
  BY <1>1, SummingExists
<1>3. SumFunctionOnSet(f, S) = of(S)[S] /\ SumFunctionOnSet(f, rest) = of(rest)[rest]
  BY SumIsSumming
<1> HIDE DEF of
<1>4. of(S)[S] = IF S = {} THEN 0 ELSE f[Pick(S)] + of(S)[rest]
  BY <1>2 DEF IsSumming
<1>5. of(S)[rest] = of(rest)[rest]
  <2> HIDE DEF rest
  <2>1. rest \subseteq S
    BY DEF rest
  <2> QED
    BY <1>1, <1>2, <2>1, SummingAgree
<1> QED
  BY <1>3, <1>4, <1>5

LEMMA SumOfNone == \A f : SumFunctionOnSet(f, {}) = 0
BY SumUnfolds, FS_EmptySet

LEMMA SumOfInts ==
    ASSUME NEW f, NEW S, IsFiniteSet(S), \A x \in S : f[x] \in Int
    PROVE  SumFunctionOnSet(f, S) \in Int
<1> DEFINE C == {T \in SUBSET S : SumFunctionOnSet(f, T) \notin Int}
<1> SUFFICES ASSUME C # {} PROVE FALSE
  OBVIOUS
<1>1. PICK T \in C : \A U \in C : U \subseteq T => U = T
  <2>1. C \in SUBSET (SUBSET S)
    OBVIOUS
  <2> HIDE DEF C
  <2> QED
    BY <2>1, SubsetMinimal
<1>2. IsFiniteSet(T)
  BY FS_Subset
<1>3. T # {}
  BY SumOfNone
<1>4. Pick(T) \in T /\ T \ {Pick(T)} \notin C
  BY <1>1, <1>3, PickIn
<1>5. f[Pick(T)] \in Int /\ SumFunctionOnSet(f, T \ {Pick(T)}) \in Int
  BY <1>4
<1>6. SumFunctionOnSet(f, T) = f[Pick(T)] + SumFunctionOnSet(f, T \ {Pick(T)})
  BY <1>2, <1>3, SumUnfolds
<1> QED
  BY <1>5, <1>6

\* Any summand may be taken out first.
LEMMA SumWithout ==
    ASSUME NEW f, NEW S, IsFiniteSet(S), \A x \in S : f[x] \in Int, NEW e \in S
    PROVE  SumFunctionOnSet(f, S) = f[e] + SumFunctionOnSet(f, S \ {e})
<1> DEFINE Out(T, x) == SumFunctionOnSet(f, T) = f[x] + SumFunctionOnSet(f, T \ {x})
           C == {T \in SUBSET S : \E x \in T : ~ Out(T, x)}
<1> SUFFICES ASSUME C # {} PROVE FALSE
  OBVIOUS
<1>1. PICK T \in C : \A U \in C : U \subseteq T => U = T
  <2>1. C \in SUBSET (SUBSET S)
    OBVIOUS
  <2> HIDE DEF C
  <2> QED
    BY <2>1, SubsetMinimal
<1>2. PICK x \in T : ~ Out(T, x)
  OBVIOUS
<1>3. IsFiniteSet(T)
  BY FS_Subset
<1> DEFINE p == Pick(T)
<1>4. p \in T
  BY PickIn
<1>5. Out(T, p)
  BY <1>3, <1>4, SumUnfolds
<1>6. p # x
  BY <1>2, <1>5
<1> HIDE DEF p
<1>7. /\ SumFunctionOnSet(f, T \ {p}) = f[x] + SumFunctionOnSet(f, (T \ {p}) \ {x})
      /\ SumFunctionOnSet(f, T \ {x}) = f[p] + SumFunctionOnSet(f, (T \ {x}) \ {p})
  <2>1. T \ {p} \in SUBSET S /\ T \ {p} \notin C /\ x \in T \ {p}
    BY <1>1, <1>4, <1>6
  <2>2. T \ {x} \in SUBSET S /\ T \ {x} \notin C /\ p \in T \ {x}
    BY <1>1, <1>4, <1>6
  <2>3. Out(T \ {p}, x)
    BY <2>1
  <2>4. Out(T \ {x}, p)
    BY <2>2
  <2> QED
    BY <2>3, <2>4
<1> DEFINE rest == SumFunctionOnSet(f, (T \ {x}) \ {p})
<1>8. SumFunctionOnSet(f, (T \ {p}) \ {x}) = rest
  <2>1. (T \ {p}) \ {x} = (T \ {x}) \ {p}
    OBVIOUS
  <2> QED
    BY <2>1
<1>9. rest \in Int
  BY <1>3, FS_Subset, SumOfInts
<1>10. f[p] \in Int /\ f[x] \in Int
  BY <1>4
<1>11. SumFunctionOnSet(f, T) = f[p] + SumFunctionOnSet(f, T \ {p})
  BY <1>5
<1>12. SumFunctionOnSet(f, T \ {p}) = f[x] + rest /\ SumFunctionOnSet(f, T \ {x}) = f[p] + rest
  BY <1>7, <1>8
<1> HIDE DEF C, rest, Out
<1>13. SumFunctionOnSet(f, T) = f[x] + SumFunctionOnSet(f, T \ {x})
  BY <1>9, <1>10, <1>11, <1>12
<1> QED
  BY <1>2, <1>13 DEF Out

\* Summands that are no larger have a sum that is no larger.
LEMMA SumMonotone ==
    ASSUME NEW f, NEW g, NEW S, IsFiniteSet(S),
           \A x \in S : f[x] \in Int /\ g[x] \in Int /\ f[x] <= g[x]
    PROVE  SumFunctionOnSet(f, S) <= SumFunctionOnSet(g, S)
<1> DEFINE C == {T \in SUBSET S : ~ (SumFunctionOnSet(f, T) <= SumFunctionOnSet(g, T))}
<1> SUFFICES ASSUME C # {} PROVE FALSE
  OBVIOUS
<1>1. PICK T \in C : \A U \in C : U \subseteq T => U = T
  <2>1. C \in SUBSET (SUBSET S)
    OBVIOUS
  <2> HIDE DEF C
  <2> QED
    BY <2>1, SubsetMinimal
<1>2. IsFiniteSet(T)
  BY FS_Subset
<1>3. T # {}
  BY SumOfNone
<1> DEFINE p == Pick(T)
           rest == T \ {p}
<1>4. p \in T /\ rest \notin C /\ rest \in SUBSET S
  BY <1>1, <1>3, PickIn
<1>5. /\ SumFunctionOnSet(f, T) = f[p] + SumFunctionOnSet(f, rest)
      /\ SumFunctionOnSet(g, T) = g[p] + SumFunctionOnSet(g, rest)
  BY <1>2, <1>3, SumUnfolds
<1> HIDE DEF rest, p
<1>6. SumFunctionOnSet(f, rest) \in Int /\ SumFunctionOnSet(g, rest) \in Int
  BY <1>4, FS_Subset, SumOfInts
<1>7. SumFunctionOnSet(f, rest) <= SumFunctionOnSet(g, rest)
  BY <1>4
<1> QED
  BY <1>4, <1>5, <1>6, <1>7

LEMMA SumEqual ==
    ASSUME NEW f, NEW g, NEW S, IsFiniteSet(S), \A x \in S : f[x] \in Int /\ g[x] = f[x]
    PROVE  SumFunctionOnSet(g, S) = SumFunctionOnSet(f, S)
<1>1. SumFunctionOnSet(f, S) \in Int /\ SumFunctionOnSet(g, S) \in Int
  BY SumOfInts
<1>2. SumFunctionOnSet(f, S) <= SumFunctionOnSet(g, S)
  BY SumMonotone
<1>3. SumFunctionOnSet(g, S) <= SumFunctionOnSet(f, S)
  BY SumMonotone
<1> QED
  BY <1>1, <1>2, <1>3

LEMMA SumOfZeros ==
    ASSUME NEW f, NEW S, IsFiniteSet(S), \A x \in S : f[x] = 0
    PROVE  SumFunctionOnSet(f, S) = 0
<1> DEFINE C == {T \in SUBSET S : SumFunctionOnSet(f, T) # 0}
<1> SUFFICES ASSUME C # {} PROVE FALSE
  OBVIOUS
<1>1. PICK T \in C : \A U \in C : U \subseteq T => U = T
  <2>1. C \in SUBSET (SUBSET S)
    OBVIOUS
  <2> HIDE DEF C
  <2> QED
    BY <2>1, SubsetMinimal
<1>2. IsFiniteSet(T)
  BY FS_Subset
<1>3. T # {}
  BY SumOfNone
<1>4. Pick(T) \in T /\ T \ {Pick(T)} \notin C
  BY <1>1, <1>3, PickIn
<1>5. f[Pick(T)] = 0 /\ SumFunctionOnSet(f, T \ {Pick(T)}) = 0
  BY <1>4
<1>6. SumFunctionOnSet(f, T) = f[Pick(T)] + SumFunctionOnSet(f, T \ {Pick(T)})
  BY <1>2, <1>3, SumUnfolds
<1> QED
  BY <1>5, <1>6

\* All summands but one as they were.
LEMMA SumChanged ==
    ASSUME NEW f, NEW g, NEW S, IsFiniteSet(S), NEW e \in S, f[e] \in Int, g[e] \in Int,
           \A x \in S \ {e} : f[x] \in Int /\ g[x] = f[x]
    PROVE  SumFunctionOnSet(g, S) = SumFunctionOnSet(f, S) + g[e] - f[e]
<1>1. IsFiniteSet(S \ {e})
  BY FS_RemoveElement
<1>2. SumFunctionOnSet(g, S \ {e}) = SumFunctionOnSet(f, S \ {e})
  BY <1>1, SumEqual
<1>3. SumFunctionOnSet(f, S \ {e}) \in Int
  BY <1>1, SumOfInts
<1>4. /\ SumFunctionOnSet(f, S) = f[e] + SumFunctionOnSet(f, S \ {e})
      /\ SumFunctionOnSet(g, S) = g[e] + SumFunctionOnSet(g, S \ {e})
  <2>1. \A x \in S : f[x] \in Int /\ g[x] \in Int
    OBVIOUS
  <2> QED
    BY <2>1, SumWithout
<1> QED
  BY <1>2, <1>3, <1>4

\* One summand only.
LEMMA SumOfOne ==
    ASSUME NEW f, NEW S, IsFiniteSet(S), NEW e, f[e] \in Int, \A x \in S \ {e} : f[x] = 0
    PROVE  SumFunctionOnSet(f, S) = IF e \in S THEN f[e] ELSE 0
<1>1. IsFiniteSet(S \ {e})
  BY FS_RemoveElement
<1>2. SumFunctionOnSet(f, S \ {e}) = 0
  BY <1>1, SumOfZeros
<1>3. CASE e \in S
  <2>1. \A x \in S : f[x] \in Int
    BY <1>3
  <2> QED
    BY <1>2, <1>3, <2>1, SumWithout
<1>4. CASE e \notin S
  <2>1. S \ {e} = S
    BY <1>4
  <2> QED
    BY <1>2, <1>4, <2>1
<1> QED
  BY <1>3, <1>4

-----------------------------------------------------------------------------
(* The escrow of the pending redeem requests.                              *)

\* What the requests of a book have in escrow.
Owing(requests) ==
    SumFunction([id \in DOMAIN requests |-> requests[id].m_token_amount])

\* The requests of a book are finitely many, and their amounts are naturals.
LEMMA BookFinite ==
    Typed => /\ IsFiniteSet(DOMAIN redeem_requests)
             /\ \A id \in DOMAIN redeem_requests : redeem_requests[id].m_token_amount \in Nat
<1> SUFFICES ASSUME Typed
             PROVE  /\ IsFiniteSet(DOMAIN redeem_requests)
                    /\ \A id \in DOMAIN redeem_requests :
                          redeem_requests[id].m_token_amount \in Nat
  OBVIOUS
<1>1. IsFiniteSet(RequestIds)
  BY FS_Interval, VaultAssumption DEF RequestIds
<1>2. DOMAIN redeem_requests \subseteq RequestIds
  BY DEF Typed, RedeemerTypeOK
<1>3. \A id \in DOMAIN redeem_requests : redeem_requests[id].m_token_amount \in Nat
  BY DEF Typed, RedeemerTypeOK, RedeemRequestState, U64
<1> QED
  BY <1>1, <1>2, <1>3, FS_Subset

\* An opened request adds what it records to the total, a closed one takes it off.
LEMMA OwingOpened ==
    ASSUME NEW requests, IsFiniteSet(DOMAIN requests),
           \A id \in DOMAIN requests : requests[id].m_token_amount \in Nat,
           NEW k, k \notin DOMAIN requests, NEW terms, terms.m_token_amount \in Nat
    PROVE  Owing(WithEntry(requests, k, terms)) = Owing(requests) + terms.m_token_amount
<1> DEFINE opened == WithEntry(requests, k, terms)
           all == DOMAIN requests \cup {k}
           f == [id \in DOMAIN requests |-> requests[id].m_token_amount]
           g == [id \in all |-> opened[id].m_token_amount]
<1>1. DOMAIN opened = all /\ opened[k] = terms
      /\ \A id \in DOMAIN requests : opened[id] = requests[id]
  BY DEF WithEntry
<1>2. IsFiniteSet(all) /\ all \ {k} = DOMAIN requests
  BY FS_AddElement
<1>3. /\ Owing(opened) = SumFunctionOnSet(g, all)
      /\ Owing(requests) = SumFunctionOnSet(f, DOMAIN requests)
  BY <1>1 DEF Owing, SumFunction
<1>4. /\ \A id \in all : g[id] \in Int
      /\ \A id \in DOMAIN requests : f[id] \in Int /\ g[id] = f[id]
      /\ g[k] = terms.m_token_amount
  BY <1>1
<1> HIDE DEF f, g, all, opened
<1>5. SumFunctionOnSet(g, all) = g[k] + SumFunctionOnSet(g, all \ {k})
  <2>1. k \in all
    BY DEF all
  <2> QED
    BY <1>2, <1>4, <2>1, SumWithout
<1>6. SumFunctionOnSet(g, DOMAIN requests) = SumFunctionOnSet(f, DOMAIN requests)
  BY <1>4, SumEqual
<1>7. SumFunctionOnSet(f, DOMAIN requests) \in Int
  BY <1>4, SumOfInts
<1>8. Owing(opened) = Owing(requests) + terms.m_token_amount
  BY <1>2, <1>3, <1>4, <1>5, <1>6, <1>7
<1> QED
  BY <1>8 DEF opened

LEMMA OwingClosed ==
    ASSUME NEW requests, IsFiniteSet(DOMAIN requests),
           \A id \in DOMAIN requests : requests[id].m_token_amount \in Nat,
           NEW k \in DOMAIN requests
    PROVE  /\ Owing(WithoutEntry(requests, k)) = Owing(requests) - requests[k].m_token_amount
           /\ Owing(requests) \in Int
<1> DEFINE closed == WithoutEntry(requests, k)
           left == DOMAIN requests \ {k}
           f == [id \in DOMAIN requests |-> requests[id].m_token_amount]
           g == [id \in left |-> closed[id].m_token_amount]
<1>1. DOMAIN closed = left /\ \A id \in left : closed[id] = requests[id]
  BY DEF WithoutEntry
<1>2. IsFiniteSet(left)
  BY FS_RemoveElement
<1>3. /\ Owing(closed) = SumFunctionOnSet(g, left)
      /\ Owing(requests) = SumFunctionOnSet(f, DOMAIN requests)
  BY <1>1 DEF Owing, SumFunction
<1>4. /\ \A id \in DOMAIN requests : f[id] \in Int
      /\ \A id \in left : f[id] \in Int /\ g[id] = f[id]
      /\ f[k] = requests[k].m_token_amount
  BY <1>1
<1>5. left = DOMAIN requests \ {k}
  OBVIOUS
<1> HIDE DEF f, g, left, closed
<1>6. SumFunctionOnSet(f, DOMAIN requests) = f[k] + SumFunctionOnSet(f, left)
  BY <1>4, <1>5, SumWithout
<1>7. SumFunctionOnSet(g, left) = SumFunctionOnSet(f, left)
  BY <1>2, <1>4, SumEqual
<1>8. SumFunctionOnSet(f, left) \in Int /\ requests[k].m_token_amount \in Int
  BY <1>2, <1>4, SumOfInts
<1>9. Owing(closed) = Owing(requests) - requests[k].m_token_amount /\ Owing(requests) \in Int
  BY <1>3, <1>4, <1>6, <1>7, <1>8
<1> QED
  BY <1>9 DEF closed

\* A transfer out of another account leaves an account at least what it had.
LEMMA TransferSpares ==
    ASSUME NEW S, NEW bal \in [S -> Nat], NEW from \in S, NEW to \in S, NEW amount \in Nat,
           NEW held \in S, from # held
    PROVE  Transferred(bal, from, to, amount)[held]
             = IF to = held THEN bal[held] + amount ELSE bal[held]
BY DEF Transferred

\* With at least nine decimals no mToken is lost in a transfer.
LEMMA FineDecimals == m_decimals >= Base => \A amount \in Nat : MRaw(amount) >= amount
<1> SUFFICES ASSUME m_decimals >= Base, NEW amount \in Nat PROVE MRaw(amount) >= amount
  OBVIOUS
<1> DEFINE c == Radix ^ (m_decimals - Base)
<1>1. MRaw(amount) = amount * c
  BY BaseAssumption, VaultAssumption DEF MRaw, convert_from_base_9, convert
<1>2. c \in Nat /\ c > 0
  <2>1. m_decimals - Base \in 0 .. MaxDecimals
    BY BaseAssumption, VaultAssumption
  <2> QED
    BY <2>1, RadixAssumption
<1> HIDE DEF c
<1>3. 1 * amount <= c * amount
  BY <1>2, ProductMonotone
<1> QED
  BY <1>1, <1>2, <1>3

\* What takes mTokens out of the escrow other than a decision on a request: an
\* admin's withdrawal and a burn by the permanent delegate.
EscrowTaken ==
    \E authority \in Signers :
       \/ \E receiver \in Args.receiver, amount \in Args.withdraw :
            WithdrawMToken(authority, redeemer_vault, receiver, amount)
       \/ \E ta \in DOMAIN token_authorities, amount \in Args.burn :
            Burn(ta, authority, redeemer_vault, amount)

\* The two leave what the pending requests need.
EscrowRespected == EscrowTaken => PendingRedeemsCovered'

EscrowSpared == m_balance'[redeemer_vault] >= m_balance[redeemer_vault]

LEMMA FeeSparesEscrow ==
    ASSUME RedeemTyped, NEW bal \in [Accounts -> Nat], NEW user \in Signers, NEW fee \in Nat
    PROVE  FeePaid(bal, user, fee)[redeemer_vault] >= bal[redeemer_vault]
<1>1. config.fee_receiver \in Accounts
  BY DEF RedeemTyped, SharedTypeOK, VCTypeOK, Config
<1>2. user \in Accounts /\ redeemer_vault \in Accounts /\ user # redeemer_vault
  BY SignersAssumption, VaultAssumption
<1>3. MRaw(fee) \in Nat
  BY AmountsNat
<1> DEFINE after == FeePaid(bal, user, fee)[redeemer_vault]
<1>4. after = IF config.fee_receiver = redeemer_vault THEN bal[redeemer_vault] + MRaw(fee)
                                                      ELSE bal[redeemer_vault]
  BY <1>1, <1>2, <1>3, TransferSpares DEF FeePaid
<1> HIDE DEF after
<1>5. after >= bal[redeemer_vault]
  BY <1>2, <1>3, <1>4
<1> QED
  BY <1>5 DEF after

LEMMA MintSparesEscrow ==
    ASSUME Typed, NEW receiver, NEW amount \in Nat, NEW ta, NEW authority,
           Mint(ta, authority, receiver, amount)
    PROVE  EscrowSpared
<1>1. m_balance' = [m_balance EXCEPT ![receiver] = @ + amount]
  BY DEF Mint, SplMint
<1>2. m_balance \in [Accounts -> Nat] /\ redeemer_vault \in Accounts
  BY VaultAssumption DEF Typed, SharedTypeOK, TATypeOK
<1> QED
  BY <1>1, <1>2 DEF EscrowSpared

LEMMA InstantSparesEscrow == Typed /\ InstantNext => EscrowSpared
<1> SUFFICES ASSUME Typed, InstantNext PROVE EscrowSpared
  OBVIOUS
<1>0. VCTypeOK /\ RedeemTyped /\ m_balance \in [Accounts -> Nat] /\ redeemer_vault \in Accounts
  BY VaultAssumption DEF Typed, SharedTypeOK, TATypeOK, RedeemTyped
<1>1. ASSUME NEW user \in Signers, NEW t \in Tokens, NEW amount \in Args.amount_token,
             NEW least, MintInstant(user, t, amount, least)
      PROVE  EscrowSpared
  <2> DEFINE payment_amount == convert_to_base_9(amount, decimals[t])
             d == calc_deposit(user, t, payment_amount, TRUE)
  <2>1. payment_amount \in Nat
    BY AmountsNat, MinterAssumption DEF U64
  <2>2. /\ DepositValid(user, t, payment_amount, TRUE, d)
        /\ MintThroughAuthority(user, d.m_token_amount)
        /\ t \in Tokens \cap DOMAIN payment_mint_state
        /\ RateAvailable(t) /\ MRateAvailable
    BY <1>1 DEF MintInstant, Deposit
  <2> HIDE DEF payment_amount
  <2>3. d.m_token_amount \in Nat
    BY <1>0, <2>1, <2>2, DepositFigures
  <2> HIDE DEF d
  <2> QED
    BY <2>2, <2>3, MintSparesEscrow DEF MintThroughAuthority
<1>2. ASSUME NEW user \in Signers, NEW t \in Tokens, NEW amount \in Args.amount_m_token,
             NEW least, RedeemInstant(user, t, amount, least)
      PROVE  EscrowSpared
  <2> DEFINE fee == redeem_fee(user, t, amount, TRUE)
             wo_fee == amount - fee
  <2>1. /\ t \in DOMAIN payment_mint_state
        /\ RedeemValid(user, t, amount, TRUE)
        /\ CanBurn(user, wo_fee)
        /\ m_balance' = FeePaid(Burned(user, wo_fee), user, fee)
    BY <1>2 DEF RedeemInstant
  <2>2. amount \in U64 /\ amount \in Nat /\ user \in Accounts /\ user # redeemer_vault
    BY RedeemerAssumption, SignersAssumption, VaultAssumption DEF U64
  <2>3. fee \in Nat /\ wo_fee \in U64
    BY <1>0, <2>1, <2>2, RedeemFeeType, NetAmountType
  <2> HIDE DEF fee, wo_fee
  <2>4. Burned(user, wo_fee) \in [Accounts -> Nat]
    BY <1>0, <2>1, <2>2, <2>3, DebitType DEF CanBurn, Burned, U64
  <2>5. Burned(user, wo_fee)[redeemer_vault] = m_balance[redeemer_vault]
    BY <1>0, <2>2 DEF Burned
  <2> QED
    BY <1>0, <2>1, <2>3, <2>4, <2>5, FeeSparesEscrow DEF EscrowSpared
<1> QED
  BY <1>1, <1>2 DEF InstantNext, MinterInstant, RedeemerInstant

LEMMA CommonSparesEscrow == Typed /\ CommonNext /\ ~EscrowTaken => EscrowSpared
<1> SUFFICES ASSUME Typed, CommonNext, ~EscrowTaken PROVE EscrowSpared
  OBVIOUS
<1>0. m_balance \in [Accounts -> Nat] /\ redeemer_vault \in Accounts
  BY VaultAssumption DEF Typed, SharedTypeOK, TATypeOK
<1>1. m_balance' = m_balance => EscrowSpared
  BY <1>0 DEF EscrowSpared
<1>2. CASE VaultAdminNext
  <2>1. PICK authority \in Signers :
           \/ UpdateVaultCommon(authority)
           \/ \E t : \/ UpdatePaymentToken(authority, t)
                     \/ RemovePaymentToken(authority, t)
                     \/ \E state : AddPaymentToken(authority, t, state)
           \/ \E fee, allowance : AddPaymentTokenFiat(authority, fee, allowance)
           \/ \E account : UpdateVaultCommonAccount(authority, account)
           \/ \E vault \in {minter_vault, redeemer_vault}, receiver \in Args.receiver,
                 amount \in Args.withdraw :
                \/ WithdrawMToken(authority, vault, receiver, amount)
                \/ \E t : WithdrawToken(authority, vault, t, receiver, amount)
    BY <1>2, Zenon DEF VaultAdminNext
  <2>2. ASSUME UpdateVaultCommon(authority) PROVE EscrowSpared
    BY <1>1, <2>2 DEF UpdateVaultCommon, taVars
  <2>3. ASSUME NEW t, UpdatePaymentToken(authority, t) \/ RemovePaymentToken(authority, t)
        PROVE  EscrowSpared
    BY <1>1, <2>3 DEF UpdatePaymentToken, RemovePaymentToken, taVars
  <2>4. ASSUME NEW t, NEW state, AddPaymentToken(authority, t, state) PROVE EscrowSpared
    BY <1>1, <2>4 DEF AddPaymentToken, taVars
  <2>5. ASSUME NEW fee, NEW allowance, AddPaymentTokenFiat(authority, fee, allowance)
        PROVE  EscrowSpared
    BY <1>1, <2>5 DEF AddPaymentTokenFiat, taVars
  <2>6. ASSUME NEW account, UpdateVaultCommonAccount(authority, account) PROVE EscrowSpared
    BY <1>1, <2>6 DEF UpdateVaultCommonAccount, taVars
  <2>7. ASSUME NEW vault, NEW t, NEW receiver, NEW amount,
               WithdrawToken(authority, vault, t, receiver, amount)
        PROVE  EscrowSpared
    BY <1>1, <2>7 DEF WithdrawToken, taVars
  <2>8. ASSUME NEW vault \in {minter_vault, redeemer_vault}, NEW receiver \in Args.receiver,
               NEW amount \in Args.withdraw, WithdrawMToken(authority, vault, receiver, amount)
        PROVE  EscrowSpared
    <3> DEFINE moved == MRaw(convert_to_base_9(amount, m_decimals))
    <3>1. moved \in Nat
      BY AmountsNat, VaultArgsAssumption DEF U64
    <3>2. m_balance' = Transferred(m_balance, vault, receiver, moved)
      BY <2>8 DEF WithdrawMToken
    <3>3. vault # redeemer_vault
      BY <2>8 DEF EscrowTaken
    <3>4. vault \in Accounts /\ receiver \in Accounts
      BY VaultAssumption, VaultArgsAssumption
    <3> HIDE DEF moved
    <3> QED
      BY <1>0, <3>1, <3>2, <3>3, <3>4, TransferSpares DEF EscrowSpared
  <2> QED
    BY <2>1, <2>2, <2>3, <2>4, <2>5, <2>6, <2>7, <2>8, Zenon
<1>3. CASE VaultPauserNext
  BY <1>1, <1>3 DEF VaultPauserNext, NewPauseInx, UpdatePauseInx, UpdatePause, taVars
<1>4. CASE EnvironmentNext
  <2>1. ASSUME NEW from \in Signers, NEW to \in Accounts, NEW amount \in Args.send,
               Send(from, to, amount)
        PROVE  EscrowSpared
    <3>1. /\ m_balance' = Transferred(m_balance, from, to, amount)
          /\ from \in Accounts /\ from # redeemer_vault /\ amount \in Nat
      BY <2>1, SignersAssumption, VaultAssumption, TokenAuthorityAssumption DEF Send
    <3> QED
      BY <1>0, <3>1, TransferSpares DEF EscrowSpared
  <2> QED
    BY <1>1, <1>4, <2>1 DEF EnvironmentNext, PriceMoves, Tick, NewVaultCommonAccount, taVars
<1>5. CASE GovernanceNext
  <2>1. UNCHANGED taVars => EscrowSpared
    BY <1>1 DEF taVars
  <2>2. ASSUME TAGovern PROVE EscrowSpared
    <3>1. ASSUME NEW ta, NEW authority, NEW a, NEW amount \in Args.mint,
                 Mint(ta, authority, a, amount)
          PROVE  EscrowSpared
      BY <3>1, MintSparesEscrow, TokenAuthorityAssumption
    <3>2. ASSUME NEW ta \in DOMAIN token_authorities, NEW authority \in Signers,
                 NEW a \in Accounts, NEW amount \in Args.burn, Burn(ta, authority, a, amount)
          PROVE  EscrowSpared
      <4>1. a # redeemer_vault
        BY <3>2 DEF EscrowTaken
      <4>2. m_balance' = [m_balance EXCEPT ![a] = @ - amount]
        BY <3>2 DEF Burn
      <4> QED
        BY <1>0, <4>1, <4>2 DEF EscrowSpared
    <3>3. ASSUME NEW ta, NEW authority, NEW a,
                 Freeze(ta, authority, a) \/ Thaw(ta, authority, a)
          PROVE  EscrowSpared
      BY <1>1, <3>3 DEF Freeze, Thaw
    <3>4. ASSUME NEW ta, NEW authority, NEW p, NEW n, SetAuthority(ta, authority, p, n)
          PROVE  EscrowSpared
      BY <1>1, <3>4 DEF SetAuthority
    <3>5. ASSUME NEW ta, NEW ac_role, NewTokenAuthority(ta, ac_role)
          PROVE  EscrowSpared
      BY <1>1, <3>5 DEF NewTokenAuthority
    <3> QED
      BY <2>2, <3>1, <3>2, <3>3, <3>4, <3>5, Zenon DEF TAGovern
  <2> QED
    BY <1>5, <2>1, <2>2 DEF GovernanceNext
<1> QED
  BY <1>2, <1>3, <1>4, <1>5 DEF CommonNext, VCNext

\* What keeps the book and spares the escrow keeps the requests covered.
LEMMA CoveredKept ==
    ASSUME BookInv, BookInv', PendingRedeemsCovered, UNCHANGED redeem_requests, EscrowSpared
    PROVE  PendingRedeemsCovered'
<1>1. Owing(redeem_requests) <= m_balance[redeemer_vault]
  BY DEF PendingRedeemsCovered, Owing
<1>2. Owing(redeem_requests) \in Int
  <2>1. /\ IsFiniteSet(DOMAIN redeem_requests)
        /\ \A id \in DOMAIN redeem_requests : redeem_requests[id].m_token_amount \in Nat
    BY BookFinite DEF BookInv
  <2> QED
    BY <2>1, SumOfInts DEF Owing, SumFunction
<1>3. m_balance[redeemer_vault] \in Nat /\ (m_balance[redeemer_vault])' \in Nat
  BY VaultAssumption DEF BookInv, Typed, SharedTypeOK, TATypeOK
<1>4. Owing(redeem_requests) <= (m_balance[redeemer_vault])'
  BY <1>1, <1>2, <1>3 DEF EscrowSpared
<1> QED
  BY <1>4 DEF PendingRedeemsCovered, Owing

\* A new request brings at least what it records into the escrow.
LEMMA OpenedCovered ==
    ASSUME m_decimals >= Base, BookInv, BookInv', PendingRedeemsCovered, NEW user \in Signers,
           NEW t \in DOMAIN payment_mint_state, NEW amount \in U64, NEW rate,
           CreateRedeemRequest(user, t, amount, rate)
    PROVE  PendingRedeemsCovered'
<1> DEFINE fee == redeem_fee(user, t, amount, FALSE)
           wo_fee == amount - fee
           escrowed == Transferred(m_balance, user, redeemer_vault, MRaw(wo_fee))
           terms == redeem_terms(user, t, amount, fee, rate)
<1>1. /\ RedeemValid(user, t, amount, FALSE)
      /\ CanMoveM(m_balance, user, redeemer_vault, MRaw(wo_fee))
      /\ m_balance' = FeePaid(escrowed, user, fee)
      /\ redeem_requests' = WithEntry(redeem_requests, requests_count, terms)
      /\ requests_count \notin DOMAIN redeem_requests
  BY DEF CreateRedeemRequest
<1>2. /\ RedeemTyped /\ user # redeemer_vault /\ user \in Accounts /\ redeemer_vault \in Accounts
      /\ m_balance \in [Accounts -> Nat] /\ m_balance' \in [Accounts -> Nat]
  BY EscrowApart, SignersAssumption, VaultAssumption
     DEF BookInv, Typed, RedeemTyped, SharedTypeOK, TATypeOK
<1>3. amount \in Nat
  BY DEF U64
<1>4. fee \in Nat
  BY <1>2, <1>3, RedeemFeeType
<1>5. wo_fee \in U64
  BY <1>1, <1>2, NetAmountType
<1>6. terms.m_token_amount = wo_fee
  BY DEF redeem_terms
<1> HIDE DEF fee, wo_fee, terms
<1>7. wo_fee \in Nat /\ MRaw(wo_fee) \in Nat /\ MRaw(wo_fee) >= wo_fee
  <2>1. wo_fee \in Nat
    BY <1>5 DEF U64
  <2> QED
    BY <2>1, AmountsNat, FineDecimals
<1>8. escrowed \in [Accounts -> Nat]
  BY <1>1, <1>2, <1>7, TransferredType DEF CanMoveM
<1>9. escrowed[redeemer_vault] = m_balance[redeemer_vault] + MRaw(wo_fee)
  BY <1>2, <1>7, TransferSpares
<1> HIDE DEF escrowed
<1>10. (m_balance[redeemer_vault])' >= escrowed[redeemer_vault]
  BY <1>1, <1>2, <1>4, <1>8, FeeSparesEscrow
<1>11. Owing(WithEntry(redeem_requests, requests_count, terms)) = Owing(redeem_requests) + wo_fee
  <2>1. /\ IsFiniteSet(DOMAIN redeem_requests)
        /\ \A id \in DOMAIN redeem_requests : redeem_requests[id].m_token_amount \in Nat
    BY BookFinite DEF BookInv
  <2> QED
    BY <1>1, <1>6, <1>7, <2>1, OwingOpened
<1>12. Owing(redeem_requests) <= m_balance[redeemer_vault] /\ Owing(redeem_requests) \in Int
  <2>1. /\ IsFiniteSet(DOMAIN redeem_requests)
        /\ \A id \in DOMAIN redeem_requests : redeem_requests[id].m_token_amount \in Nat
    BY BookFinite DEF BookInv
  <2>2. Owing(redeem_requests) \in Int
    BY <2>1, SumOfInts DEF Owing, SumFunction
  <2> QED
    BY <2>2 DEF PendingRedeemsCovered, Owing
<1>13. m_balance[redeemer_vault] \in Nat /\ (m_balance[redeemer_vault])' \in Nat
  BY <1>2
<1> DEFINE owing == Owing(redeem_requests)
<1> HIDE DEF owing
<1>14. Owing(WithEntry(redeem_requests, requests_count, terms)) <= (m_balance[redeemer_vault])'
  BY <1>7, <1>9, <1>10, <1>11, <1>12, <1>13
<1> QED
  BY <1>1, <1>14 DEF PendingRedeemsCovered, Owing

\* A decision takes no more out of the escrow than the request recorded.
LEMMA ClosedCovered ==
    ASSUME BookInv, BookInv', PendingRedeemsCovered, NEW id \in DOMAIN redeem_requests,
           redeem_requests' = WithoutEntry(redeem_requests, id),
           \/ m_balance' = Burned(redeemer_vault, redeem_requests[id].m_token_amount)
           \/ UNCHANGED m_balance
    PROVE  PendingRedeemsCovered'
<1> DEFINE amount == redeem_requests[id].m_token_amount
<1>1. /\ IsFiniteSet(DOMAIN redeem_requests)
      /\ \A x \in DOMAIN redeem_requests : redeem_requests[x].m_token_amount \in Nat
  BY BookFinite DEF BookInv
<1>2. /\ Owing(WithoutEntry(redeem_requests, id)) = Owing(redeem_requests) - amount
      /\ Owing(redeem_requests) \in Int
      /\ amount \in Nat
  BY <1>1, OwingClosed
<1>3. Owing(redeem_requests) <= m_balance[redeemer_vault]
  BY DEF PendingRedeemsCovered, Owing
<1>4. m_balance[redeemer_vault] \in Nat /\ (m_balance[redeemer_vault])' \in Nat
  BY VaultAssumption DEF BookInv, Typed, SharedTypeOK, TATypeOK
<1>5. (m_balance[redeemer_vault])' >= m_balance[redeemer_vault] - amount
  <2>1. m_balance \in [Accounts -> Nat] /\ redeemer_vault \in Accounts
    BY VaultAssumption DEF BookInv, Typed, SharedTypeOK, TATypeOK
  <2> QED
    BY <1>2, <1>4, <2>1 DEF Burned
<1> HIDE DEF amount
<1>6. Owing(WithoutEntry(redeem_requests, id)) <= (m_balance[redeemer_vault])'
  BY <1>2, <1>3, <1>4, <1>5
<1> QED
  BY <1>6 DEF PendingRedeemsCovered, Owing

LEMMA StepCovered ==
    ASSUME m_decimals >= Base, BookInv, PendingRedeemsCovered, [Next]_vars, [EscrowRespected]_vars
    PROVE  PendingRedeemsCovered'
<1>1. BookInv' /\ Typed /\ Typed'
  BY StepBookInv, StepTyped DEF BookInv
<1>2. UNCHANGED redeem_requests /\ EscrowSpared => PendingRedeemsCovered'
  BY <1>1, CoveredKept
<1>3. UNCHANGED m_balance => EscrowSpared
  BY <1>1, VaultAssumption DEF EscrowSpared, Typed, SharedTypeOK, TATypeOK
<1>4. CASE UNCHANGED vars
  BY <1>2, <1>3, <1>4 DEF vars, taVars, redeemerVars
<1>5. CASE InstantNext
  BY <1>1, <1>2, <1>5, InstantSparesEscrow, OutsideRequests
<1>6. CASE CommonNext
  <2>1. CASE EscrowTaken
    <3>1. CASE UNCHANGED vars
      BY <1>4, <3>1
    <3>2. CASE EscrowRespected
      BY <2>1, <3>2 DEF EscrowRespected
    <3> QED
      BY <3>1, <3>2
  <2>2. CASE ~EscrowTaken
    BY <1>1, <1>2, <1>6, <2>2, CommonSparesEscrow, OutsideRequests
  <2> QED
    BY <2>1, <2>2
<1>7. ASSUME MinterRequests, UNCHANGED redeemerVars
      PROVE  PendingRedeemsCovered'
  <2>1. ASSUME NEW authority, NEW id, NEW rate \in Args.new_out_rate, NEW is_safe,
               ApproveMintRequest(authority, id, rate, is_safe)
        PROVE  EscrowSpared
    <3> DEFINE minted == MulDiv(mint_requests[id].deposited_usd_wo_fees, ONE, rate)
    <3>1. /\ id \in DOMAIN mint_requests
          /\ MulDivOk(mint_requests[id].deposited_usd_wo_fees, ONE, rate)
          /\ MintThroughAuthority(mint_requests[id].user, minted)
      BY <2>1 DEF ApproveMintRequest
    <3>2. minted \in Nat
      <4>1. ONE \in Nat /\ rate \in Nat /\ rate > 0
        BY <3>1, MinterAssumption, VaultAssumption DEF MulDivOk, U64, Price
      <4>2. mint_requests[id].deposited_usd_wo_fees \in Nat
        BY <1>1, <3>1 DEF Typed, MinterTypeOK, MintRequestState, U64
      <4> QED
        BY <4>1, <4>2, MulDivNat
    <3> HIDE DEF minted
    <3> QED
      BY <1>1, <3>1, <3>2, MintSparesEscrow DEF MintThroughAuthority
  <2>2. ASSUME \/ \E user, t, amount : MintRequest(user, t, amount)
               \/ \E authority, id : RejectMintRequest(authority, id)
               \/ \E authority : UpdateMinterVault(authority)
        PROVE  EscrowSpared
    BY <1>3, <2>2 DEF MintRequest, RejectMintRequest, UpdateMinterVault, taVars
  <2>3. EscrowSpared
    BY <1>7, <2>1, <2>2 DEF MinterRequests
  <2> QED
    BY <1>2, <1>7, <2>3 DEF redeemerVars
<1>8. ASSUME RedeemerRequests, UNCHANGED minterVars
      PROVE  PendingRedeemsCovered'
  <2>1. ASSUME NEW user \in Signers, NEW amount \in Args.amount_m_token,
               \/ \E t \in Tokens : RedeemRequest(user, t, amount)
               \/ RedeemRequestFiat(user, amount)
        PROVE  PendingRedeemsCovered'
    <3>1. PICK t \in DOMAIN payment_mint_state : \E rate : CreateRedeemRequest(user, t, amount, rate)
      BY <2>1 DEF RedeemRequest, RedeemRequestFiat
    <3>2. amount \in U64
      BY RedeemerAssumption
    <3> QED
      BY <1>1, <3>1, <3>2, OpenedCovered
  <2>2. ASSUME NEW authority, NEW id, NEW rate, NEW is_safe,
               SettleRedeem(authority, id, rate, is_safe)
        PROVE  PendingRedeemsCovered'
    <3>1. /\ id \in DOMAIN redeem_requests
          /\ redeem_requests' = WithoutEntry(redeem_requests, id)
          /\ m_balance' = Burned(redeemer_vault, redeem_requests[id].m_token_amount)
      BY <2>2 DEF SettleRedeem
    <3> QED
      BY <1>1, <3>1, ClosedCovered
  <2>3. ASSUME NEW authority, NEW id, RejectRedeemRequest(authority, id)
        PROVE  PendingRedeemsCovered'
    <3>1. /\ id \in DOMAIN redeem_requests
          /\ redeem_requests' = WithoutEntry(redeem_requests, id)
          /\ UNCHANGED m_balance
      BY <2>3 DEF RejectRedeemRequest, taVars
    <3> QED
      BY <1>1, <3>1, ClosedCovered
  <2>4. ASSUME NEW authority, UpdateRedeemerVault(authority)
        PROVE  PendingRedeemsCovered'
    BY <1>2, <1>3, <2>4 DEF UpdateRedeemerVault, taVars
  <2>5. ASSUME NEW t, NEW owner, NEW amount, ApproveDelegate(t, owner, amount)
        PROVE  PendingRedeemsCovered'
    BY <1>2, <1>3, <2>5 DEF ApproveDelegate, taVars
  <2> QED
    BY <1>8, <2>1, <2>2, <2>3, <2>4, <2>5
       DEF RedeemerRequests, ApproveRedeemRequest, ApproveRedeemRequestFiat
<1> QED
  BY <1>4, <1>5, <1>6, <1>7, <1>8 DEF Next, RequestsNext

LEMMA InitCovered == Init => PendingRedeemsCovered
<1> SUFFICES ASSUME Init PROVE PendingRedeemsCovered
  OBVIOUS
<1>1. Typed /\ DOMAIN redeem_requests = {}
  BY InitTyped DEF Init, RedeemerInit
<1>2. Owing(redeem_requests) = 0
  BY <1>1, SumOfNone DEF Owing, SumFunction
<1>3. m_balance[redeemer_vault] \in Nat
  BY <1>1, AmountsInBook
<1> QED
  BY <1>2, <1>3 DEF PendingRedeemsCovered, Owing

\* With mTokens of nine decimals or more, and admins who withdraw and burn from
\* the vault's account no more than the pending requests leave, every pending
\* redeem request can be burnt from that account: fees, instant operations,
\* other requests, decisions and the other programs never eat into it
\* (create_redeem_request and approve_redeem_request in utils.rs).
THEOREM PendingRedeemsAlwaysCovered ==
    ASSUME m_decimals >= Base
    PROVE  Spec /\ [][EscrowRespected]_vars => []PendingRedeemsCovered
<1>1. Init => BookInv /\ PendingRedeemsCovered
  BY InitBookInv, InitCovered
<1>2. /\ BookInv /\ PendingRedeemsCovered
      /\ [Next]_vars /\ [EscrowRespected]_vars
      => BookInv' /\ PendingRedeemsCovered'
  BY StepBookInv, StepCovered
<1> QED
  BY <1>1, <1>2, PTL DEF Spec

-----------------------------------------------------------------------------
(* What instant business does to the mTokens, and what a vault that is      *)
(* nobody's still allows.                                                  *)

\* An instant mint makes mTokens for its customer and moves no others.
LEMMA MintedForCustomer ==
    ASSUME Typed, NEW user \in Signers, NEW t \in Tokens, NEW amount \in Args.amount_token,
           NEW least, MintInstant(user, t, amount, least)
    PROVE  \E n \in Nat : /\ n > 0
                          /\ m_balance' = [m_balance EXCEPT ![user] = @ + n]
                          /\ m_supply' = m_supply + n
<1> DEFINE payment_amount == convert_to_base_9(amount, decimals[t])
           d == calc_deposit(user, t, payment_amount, TRUE)
<1>0. amount \in Nat
  BY MinterAssumption DEF U64
<1>1. payment_amount \in Nat
  BY <1>0, AmountsNat, SMTT(30)
<1>2. /\ DepositValid(user, t, payment_amount, TRUE, d)
      /\ MintThroughAuthority(user, d.m_token_amount)
      /\ t \in Tokens \cap DOMAIN payment_mint_state
      /\ RateAvailable(t) /\ MRateAvailable
  BY DEF MintInstant, Deposit
<1> HIDE DEF payment_amount
<1>3. d.m_token_amount \in Nat
  BY <1>1, <1>2, DepositFigures DEF Typed, SharedTypeOK
<1>4. d.m_token_amount > 0
  BY <1>2 DEF DepositValid
<1> HIDE DEF d
<1>5. /\ m_balance' = [m_balance EXCEPT ![user] = @ + d.m_token_amount]
      /\ m_supply' = m_supply + d.m_token_amount
  BY <1>2 DEF MintThroughAuthority, Mint, SplMint
<1> QED
  BY <1>3, <1>4, <1>5

\* An instant redemption destroys mTokens of its customer and takes none from
\* anybody else, not even as the fee.
LEMMA RedeemedByCustomer ==
    ASSUME Typed, NEW user \in Signers, NEW t \in Tokens, NEW amount \in Args.amount_m_token,
           NEW least, RedeemInstant(user, t, amount, least)
    PROVE  /\ m_supply' < m_supply
           /\ m_balance'[user] < m_balance[user]
           /\ \A v \in Signers \ {user} : m_balance'[v] >= m_balance[v]
<1>0. /\ RedeemTyped /\ m_balance \in [Accounts -> Nat] /\ m_supply \in Nat
      /\ Signers \subseteq Accounts /\ config.fee_receiver \in Accounts
  BY AmountsInBook, SignersAssumption
     DEF Typed, SharedTypeOK, TATypeOK, RedeemTyped, VCTypeOK, Config
<1> DEFINE fee == redeem_fee(user, t, amount, TRUE)
           wo_fee == amount - fee
           burned == Burned(user, wo_fee)
<1>1. /\ t \in DOMAIN payment_mint_state
      /\ RedeemValid(user, t, amount, TRUE)
      /\ CanBurn(user, wo_fee)
      /\ FeePayable(burned, user, fee)
      /\ m_balance' = FeePaid(burned, user, fee)
      /\ m_supply' = m_supply - wo_fee
  BY DEF RedeemInstant
<1>2. amount \in U64 /\ amount \in Nat /\ user \in Accounts
  BY <1>0, RedeemerAssumption DEF U64
<1>3. fee \in Nat /\ wo_fee \in U64 /\ wo_fee > 0
  <2>1. fee \in Nat /\ wo_fee \in U64 /\ amount > fee
    BY <1>0, <1>1, <1>2, RedeemFeeType, NetAmountType DEF RedeemValid
  <2> HIDE DEF fee
  <2> QED
    BY <1>2, <2>1
<1> HIDE DEF fee, wo_fee
<1>4. wo_fee \in Nat
  BY <1>3 DEF U64
<1>5. burned \in [Accounts -> Nat] /\ burned = [m_balance EXCEPT ![user] = @ - wo_fee]
  BY <1>0, <1>1, <1>2, <1>4, DebitType DEF CanBurn, Burned
<1> HIDE DEF burned
<1>6. MRaw(fee) \in Nat
  BY <1>3, AmountsNat
<1> DEFINE raw == MRaw(fee)
<1>7. m_balance' = Transferred(burned, user, config.fee_receiver, raw)
  BY <1>1 DEF FeePaid
<1> HIDE DEF raw
<1>8. m_balance' \in [Accounts -> Nat] /\ burned \in [Accounts -> Nat]
  BY <1>0, <1>1, <1>2, <1>3, <1>5, FeePaidType
<1>9. m_balance'[user] <= burned[user]
  BY <1>0, <1>2, <1>5, <1>6, <1>7 DEF Transferred, raw
<1>10. ASSUME NEW v \in Signers \ {user}
       PROVE  m_balance'[v] >= m_balance[v]
  <2>1. v \in Accounts /\ v # user /\ raw \in Nat
    BY <1>0, <1>6 DEF raw
  <2>2. m_balance'[v] = IF config.fee_receiver = v THEN burned[v] + raw ELSE burned[v]
    BY <1>0, <1>2, <1>7, <1>8, <2>1, TransferSpares
  <2>3. burned[v] \in Nat
    BY <1>8, <2>1
  <2>4. burned[v] = m_balance[v]
    BY <1>0, <1>5, <2>1
  <2> QED
    BY <2>1, <2>2, <2>3, <2>4
<1>11. burned[user] = m_balance[user] - wo_fee
  BY <1>0, <1>2, <1>5
<1>12. m_balance'[user] \in Int /\ burned[user] \in Int /\ m_balance[user] \in Int
  BY <1>0, <1>2, <1>8
<1>13. m_balance'[user] < m_balance[user]
  BY <1>3, <1>4, <1>9, <1>11, <1>12
<1>14. m_supply' < m_supply
  BY <1>0, <1>1, <1>3, <1>4
<1> QED
  BY <1>10, <1>13, <1>14

\* Only instant business moves the daily counter.
LEMMA CounterIsInstant == [Next]_vars /\ Instant => InstantNext
<1> SUFFICES ASSUME [Next]_vars, ~InstantNext PROVE UNCHANGED limitVars
  BY DEF Instant
<1>1. CommonNext => UNCHANGED limitVars
  <2>1. VaultPauserNext => UNCHANGED limitVars
    BY DEF VaultPauserNext, NewPauseInx, UpdatePauseInx, UpdatePause
  <2>2. EnvironmentNext => UNCHANGED limitVars
    BY DEF EnvironmentNext, PriceMoves, Tick, NewVaultCommonAccount, vcVars
  <2>3. GovernanceNext => UNCHANGED limitVars
    BY DEF GovernanceNext, vcVars
  <2> QED
    BY AdminLeaves, <2>1, <2>2, <2>3 DEF CommonNext, VCNext
<1>2. UNCHANGED vars => UNCHANGED limitVars
  BY DEF vars, vcVars
<1> QED
  BY <1>1, <1>2, RequestsKeepRoles DEF Next

\* New business is only taken through the switch of the very instruction that
\* takes it and from customers who are listed as they must be, be it a mint at
\* once, a redemption at once or a request of either kind (validate_common in
\* utils.rs, called by the validate functions of the five instructions).
THEOREM OpenForBusiness == Spec => BusinessOnlyWhenOpen
<1> DEFINE
      Somebody == Instant =>
                    \E user \in Signers : MintedInstantly(user) \/ RedeemedInstantly(user)
      Listed == \A user \in Signers :
                  /\ MintedInstantly(user) =>
                       "MintInstant" \in OpenFunctions /\ ~Blocked(user, FALSE)
                  /\ RedeemedInstantly(user) =>
                       "RedeemInstant" \in OpenFunctions /\ ~Blocked(user, FALSE)
      Mints == \A id \in DOMAIN mint_requests' \ DOMAIN mint_requests :
                 "MintRequest" \in OpenFunctions /\ ~Blocked(mint_requests'[id].user, FALSE)
      Redeems == \A id \in DOMAIN redeem_requests' \ DOMAIN redeem_requests :
                   LET request == redeem_requests'[id]
                       fiat == request.payment_mint = FIAT_MINT
                   IN  /\ (IF fiat THEN "RedeemRequestFiat" ELSE "RedeemRequest") \in OpenFunctions
                       /\ ~Blocked(request.user, fiat)
<1>1. BookInv /\ [Next]_vars => Somebody /\ Listed
  <2> SUFFICES ASSUME BookInv, [Next]_vars, Instant PROVE Somebody /\ Listed
    BY DEF MintedInstantly, RedeemedInstantly
  <2>0. Typed /\ m_supply \in Nat /\ \A v \in Signers : m_balance[v] \in Nat
    BY AmountsInBook, SignersAssumption DEF BookInv, Typed, SharedTypeOK, TATypeOK
  <2>1. ASSUME NEW user \in Signers, NEW t \in Tokens, NEW amount \in Args.amount_token,
               NEW least, MintInstant(user, t, amount, least)
        PROVE  Somebody /\ Listed
    <3>1. PICK n \in Nat : /\ n > 0
                           /\ m_balance' = [m_balance EXCEPT ![user] = @ + n]
                           /\ m_supply' = m_supply + n
      BY <2>0, <2>1, MintedForCustomer
    <3>2. "MintInstant" \in OpenFunctions /\ ~Blocked(user, FALSE)
      BY <2>1, ValidatedIsOpen DEF MintInstant
    <3>3. user \in DOMAIN m_balance
      BY <2>0, SignersAssumption DEF Typed, SharedTypeOK, TATypeOK
    <3>4. m_supply' > m_supply /\ ~(m_supply' < m_supply)
      BY <2>0, <3>1
    <3>5. m_balance'[user] > m_balance[user]
      BY <2>0, <3>1, <3>3
    <3>6. ASSUME NEW v \in Signers, v # user PROVE ~(m_balance'[v] > m_balance[v])
      BY <2>0, <3>1, <3>6
    <3>7. Somebody
      BY <2>1, <3>4, <3>5 DEF MintedInstantly
    <3>8. Listed
      BY <3>2, <3>4, <3>6 DEF MintedInstantly, RedeemedInstantly
    <3> QED
      BY <3>7, <3>8
  <2>2. ASSUME NEW user \in Signers, NEW t \in Tokens, NEW amount \in Args.amount_m_token,
               NEW least, RedeemInstant(user, t, amount, least)
        PROVE  Somebody /\ Listed
    <3>1. /\ m_supply' < m_supply
          /\ m_balance'[user] < m_balance[user]
          /\ \A v \in Signers \ {user} : m_balance'[v] >= m_balance[v]
      BY <2>0, <2>2, RedeemedByCustomer
    <3>2. "RedeemInstant" \in OpenFunctions /\ ~Blocked(user, FALSE)
      BY <2>2, ValidatedIsOpen DEF RedeemInstant
    <3>3. BookInv'
      BY StepBookInv
    <3>4. m_supply' \in Nat /\ \A v \in Signers : m_balance'[v] \in Nat
      BY <3>3, WidthAssumption, SignersAssumption
         DEF BookInv, Typed, SharedTypeOK, TATypeOK, U64
    <3>5. ~(m_supply' > m_supply) /\ \A v \in Signers \ {user} : ~(m_balance'[v] < m_balance[v])
      BY <2>0, <3>1, <3>4
    <3>6. Somebody
      BY <2>2, <3>1 DEF RedeemedInstantly
    <3>7. Listed
      BY <3>2, <3>5 DEF MintedInstantly, RedeemedInstantly
    <3> QED
      BY <3>6, <3>7
  <2> QED
    BY <2>1, <2>2, CounterIsInstant DEF InstantNext, MinterInstant, RedeemerInstant
<1>2. [Next]_vars => Mints
  <2> SUFFICES ASSUME [Next]_vars PROVE Mints
    OBVIOUS
  <2>1. ASSUME NEW user, NEW t, NEW amount, MintRequest(user, t, amount)
        PROVE  Mints
    <3>1. PICK request :
            /\ mint_requests' = WithEntry(mint_requests, requests_count, request)
            /\ request.user = user
      BY <2>1 DEF MintRequest
    <3>2. "MintRequest" \in OpenFunctions /\ ~Blocked(user, FALSE)
      BY <2>1, ValidatedIsOpen DEF MintRequest
    <3> QED
      BY <3>1, <3>2 DEF WithEntry
  <2>2. DOMAIN mint_requests' \subseteq DOMAIN mint_requests => Mints
    OBVIOUS
  <2> HIDE DEF Mints
  <2>3. ASSUME NEW authority, NEW id, NEW rate, NEW is_safe,
               \/ ApproveMintRequest(authority, id, rate, is_safe)
               \/ RejectMintRequest(authority, id) \/ UpdateMinterVault(authority)
        PROVE  Mints
    BY <2>2, <2>3 DEF ApproveMintRequest, RejectMintRequest, UpdateMinterVault, WithoutEntry
  <2> QED
    BY <2>1, <2>2, <2>3, OutsideRequests DEF Next, RequestsNext, MinterRequests, minterVars
<1>3. [Next]_vars => Redeems
  <2> SUFFICES ASSUME [Next]_vars PROVE Redeems
    OBVIOUS
  <2>1. ASSUME NEW user, NEW t, NEW amount, NEW rate, NEW fn,
               CreateRedeemRequest(user, t, amount, rate),
               validate_common(user, fn, t = FIAT_MINT),
               fn = IF t = FIAT_MINT THEN "RedeemRequestFiat" ELSE "RedeemRequest"
        PROVE  Redeems
    <3>1. PICK request :
            /\ redeem_requests' = WithEntry(redeem_requests, requests_count, request)
            /\ request.user = user /\ request.payment_mint = t
      BY <2>1 DEF CreateRedeemRequest, redeem_terms
    <3>2. fn \in OpenFunctions /\ ~Blocked(user, t = FIAT_MINT)
      BY <2>1, ValidatedIsOpen
    <3> QED
      BY <2>1, <3>1, <3>2 DEF WithEntry
  <2>2. DOMAIN redeem_requests' \subseteq DOMAIN redeem_requests => Redeems
    OBVIOUS
  <2> HIDE DEF Redeems
  <2>3. ASSUME NEW user, NEW amount,
               \/ \E t \in Tokens : RedeemRequest(user, t, amount)
               \/ RedeemRequestFiat(user, amount)
        PROVE  Redeems
    BY <2>1, <2>3, VaultAssumption DEF RedeemRequest, RedeemRequestFiat
  <2>4. ASSUME NEW authority, NEW id, NEW rate, NEW is_safe,
               \/ SettleRedeem(authority, id, rate, is_safe)
               \/ RejectRedeemRequest(authority, id) \/ UpdateRedeemerVault(authority)
        PROVE  Redeems
    BY <2>2, <2>4 DEF SettleRedeem, RejectRedeemRequest, UpdateRedeemerVault, WithoutEntry
  <2>5. ASSUME NEW t, NEW owner, NEW amount, ApproveDelegate(t, owner, amount)
        PROVE  Redeems
    BY <2>2, <2>5 DEF ApproveDelegate
  <2> QED
    BY <2>2, <2>3, <2>4, <2>5, OutsideRequests
       DEF Next, RequestsNext, RedeemerRequests, ApproveRedeemRequest,
           ApproveRedeemRequestFiat, redeemerVars
<1>4. BookInv /\ [Next]_vars => [Somebody /\ Listed /\ Mints /\ Redeems]_vars
  BY <1>1, <1>2, <1>3
<1>5. Spec => []BookInv
  BY InitBookInv, StepBookInv, PTL DEF Spec
<1> QED
  BY <1>4, <1>5, PTL DEF Spec, BusinessOnlyWhenOpen

-----------------------------------------------------------------------------
\* What is used of an allowance leaves the rest of a payment token's terms.
LEMMA TermsUsed ==
    ASSUME VCTypeOK, NEW t \in DOMAIN payment_mint_state, NEW n \in Nat,
           AllowanceCovers(t, n), UseAllowance(t, n)
    PROVE  TermsStand
<1> DEFINE used(x, left) == [payment_mint_state[x] EXCEPT !.allowance = left]
<1>1. \A x \in DOMAIN payment_mint_state :
         /\ payment_mint_state[x] \in PaymentMintState
         /\ payment_mint_state[x].allowance \in Nat
  BY WidthAssumption DEF VCTypeOK, PaymentMintState, U128
<1>2. \A x \in DOMAIN payment_mint_state :
         payment_mint_state[x] = used(x, payment_mint_state[x].allowance)
  BY <1>1 DEF PaymentMintState
<1>3. UNCHANGED payment_mint_state => TermsStand
  BY <1>1, <1>2 DEF TermsStand
<1>4. CASE payment_mint_state[t].allowance # MAX_UINT128
  <2> DEFINE left == payment_mint_state[t].allowance - n
  <2>1. payment_mint_state' = [payment_mint_state EXCEPT ![t] = used(t, left)]
    BY <1>4 DEF UseAllowance
  <2>2. used(t, left).allowance = left
    BY <1>1 DEF PaymentMintState
  <2>3. left <= payment_mint_state[t].allowance
    BY <1>1
  <2> QED
    BY <1>1, <1>2, <2>1, <2>2, <2>3 DEF TermsStand
<1> QED
  BY <1>3, <1>4 DEF UseAllowance

LEMMA UnusedTermsStand == VCTypeOK /\ UNCHANGED payment_mint_state => TermsStand
<1> SUFFICES ASSUME VCTypeOK, UNCHANGED payment_mint_state PROVE TermsStand
  OBVIOUS
<1>1. \A x \in DOMAIN payment_mint_state :
         /\ payment_mint_state[x].allowance \in Nat
         /\ payment_mint_state[x] =
               [payment_mint_state[x] EXCEPT !.allowance = payment_mint_state[x].allowance]
  BY WidthAssumption DEF VCTypeOK, PaymentMintState, U128
<1> QED
  BY <1>1 DEF TermsStand

LEMMA InstantTermsStand == Typed /\ InstantNext => TermsStand
<1> SUFFICES ASSUME Typed, InstantNext PROVE TermsStand
  OBVIOUS
<1>0. VCTypeOK /\ RedeemTyped
  BY DEF Typed, SharedTypeOK, RedeemTyped
<1>1. ASSUME NEW user \in Signers, NEW t \in Tokens, NEW amount \in Args.amount_token,
             NEW least, MintInstant(user, t, amount, least)
      PROVE  TermsStand
  <2> DEFINE payment_amount == convert_to_base_9(amount, decimals[t])
  <2>1. payment_amount \in Nat
    BY AmountsNat, MinterAssumption DEF U64
  <2>2. /\ AllowanceCovers(t, payment_amount)
        /\ UseAllowance(t, payment_amount)
        /\ t \in DOMAIN payment_mint_state
    BY <1>1 DEF MintInstant, Deposit, DepositValid
  <2> HIDE DEF payment_amount
  <2> QED
    BY <1>0, <2>1, <2>2, TermsUsed
<1>2. ASSUME NEW user \in Signers, NEW t \in Tokens, NEW amount \in Args.amount_m_token,
             NEW least, RedeemInstant(user, t, amount, least)
      PROVE  TermsStand
  <2> DEFINE usd == MulDiv(amount, MRate, ONE)
             used == MulDiv(usd, ONE, get_token_rate(t))
  <2>1. /\ t \in Tokens \cap DOMAIN payment_mint_state
        /\ RateAvailable(t) /\ MRateAvailable
        /\ AllowanceCovers(t, used) /\ UseAllowance(t, used)
    BY <1>2 DEF RedeemInstant
  <2>2. /\ get_token_rate(t) \in Nat /\ get_token_rate(t) > 0 /\ MRate \in Nat
        /\ ONE \in Nat /\ ONE > 0 /\ amount \in Nat
    BY <1>0, <2>1, RatesType, VaultAssumption, WidthAssumption, RedeemerAssumption DEF Price, U64
  <2>3. usd \in Nat
    BY <2>2, MulDivNat
  <2> HIDE DEF usd
  <2>4. used \in Nat
    BY <2>2, <2>3, MulDivNat
  <2> HIDE DEF used
  <2> QED
    BY <1>0, <2>1, <2>4, TermsUsed
<1> QED
  BY <1>1, <1>2 DEF InstantNext, MinterInstant, RedeemerInstant

\* What instructions outside the requests do to terms, vaults and escrow where
\* no vault admin is left.
OutsideAdminsReach ==
    /\ UNCHANGED <<minter, redeemer>>
    /\ TermsStand
    /\ EscrowSpared \/ CanBurnElsewhere

LEMMA OutsideOrphanedVault ==
    ASSUME Typed, \A authority \in Signers : ~HasVaultRole(authority, VAULT_ADMIN),
           InstantNext \/ CommonNext
    PROVE  OutsideAdminsReach
<1>0. VCTypeOK
  BY DEF Typed, SharedTypeOK
<1>1. CASE InstantNext
  <2>1. UNCHANGED <<minter, redeemer>>
    <3>1. MinterInstant => UNCHANGED minterVars
      BY DEF MinterInstant, MintInstant
    <3>2. RedeemerInstant => UNCHANGED redeemerVars
      BY DEF RedeemerInstant, RedeemInstant
    <3> QED
      BY <1>1, <3>1, <3>2 DEF InstantNext, minterVars, redeemerVars
  <2> QED
    BY <1>1, <2>1, InstantSparesEscrow, InstantTermsStand DEF OutsideAdminsReach
<1>2. CASE CommonNext
  <2>1. ~VaultAdminNext
    BY AdminLeaves
  <2>2. UNCHANGED payment_mint_state
    <3>1. VaultPauserNext => UNCHANGED payment_mint_state
      BY DEF VaultPauserNext, NewPauseInx, UpdatePauseInx, UpdatePause
    <3>2. EnvironmentNext => UNCHANGED payment_mint_state
      BY DEF EnvironmentNext, PriceMoves, Tick, NewVaultCommonAccount, Send, vcVars, adminVars
    <3>3. GovernanceNext => UNCHANGED payment_mint_state
      BY DEF GovernanceNext, vcVars, adminVars
    <3> QED
      BY <1>2, <2>1, <3>1, <3>2, <3>3 DEF CommonNext, VCNext
  <2>3. EscrowTaken => CanBurnElsewhere
    <3>1. ASSUME NEW authority \in Signers, NEW receiver, NEW amount,
                 WithdrawMToken(authority, redeemer_vault, receiver, amount)
          PROVE  FALSE
      BY <3>1 DEF WithdrawMToken
    <3>2. ASSUME NEW authority \in Signers, NEW ta \in DOMAIN token_authorities, NEW amount,
                 Burn(ta, authority, redeemer_vault, amount)
          PROVE  CanBurnElsewhere
      BY <3>2, SignersAssumption DEF Burn, HasTokenRole, CanBurnElsewhere
    <3> QED
      BY <3>1, <3>2 DEF EscrowTaken
  <2> QED
    BY <1>0, <1>2, <2>2, <2>3, CommonSparesEscrow, UnusedTermsStand
       DEF OutsideAdminsReach, CommonNext, minterVars, redeemerVars
<1> QED
  BY <1>1, <1>2

LEMMA RequestsOfOrphanedVault ==
    ASSUME Typed, \A authority \in Signers : ~HasVaultRole(authority, VAULT_ADMIN),
           RequestsNext
    PROVE  OutsideAdminsReach
<1>0. VCTypeOK /\ RedeemTyped /\ m_balance \in [Accounts -> Nat] /\ redeemer_vault \in Accounts
  BY VaultAssumption DEF Typed, SharedTypeOK, TATypeOK, RedeemTyped
<1>1. UNCHANGED m_balance => EscrowSpared
  BY <1>0 DEF EscrowSpared
<1>2. ASSUME NEW user \in Signers, NEW t \in Tokens, NEW amount \in Args.amount_token,
             MintRequest(user, t, amount), UNCHANGED redeemerVars
      PROVE  OutsideAdminsReach
  <2> DEFINE payment_amount == convert_to_base_9(amount, decimals[t])
  <2>1. payment_amount \in Nat
    BY AmountsNat, MinterAssumption DEF U64
  <2>2. /\ AllowanceCovers(t, payment_amount)
        /\ UseAllowance(t, payment_amount)
        /\ t \in DOMAIN payment_mint_state
    BY <1>2 DEF MintRequest, Deposit, DepositValid
  <2> HIDE DEF payment_amount
  <2>3. TermsStand
    BY <1>0, <2>1, <2>2, TermsUsed
  <2> QED
    BY <1>1, <1>2, <2>3 DEF MintRequest, OutsideAdminsReach, redeemerVars, taVars
<1>3. ASSUME NEW user \in Signers, NEW amount \in Args.amount_m_token,
             NEW t \in DOMAIN payment_mint_state, NEW rate,
             CreateRedeemRequest(user, t, amount, rate), UNCHANGED minterVars
      PROVE  OutsideAdminsReach
  <2> DEFINE fee == redeem_fee(user, t, amount, FALSE)
             wo_fee == amount - fee
             escrowed == Transferred(m_balance, user, redeemer_vault, MRaw(wo_fee))
  <2>1. /\ RedeemValid(user, t, amount, FALSE)
        /\ CanMoveM(m_balance, user, redeemer_vault, MRaw(wo_fee))
        /\ m_balance' = FeePaid(escrowed, user, fee)
        /\ UNCHANGED adminVars /\ UNCHANGED redeemer
    BY <1>3 DEF CreateRedeemRequest
  <2>2. amount \in U64 /\ amount \in Nat /\ user \in Accounts /\ user # redeemer_vault
    BY RedeemerAssumption, SignersAssumption, VaultAssumption DEF U64
  <2>3. fee \in Nat /\ wo_fee \in U64
    BY <1>0, <2>1, <2>2, RedeemFeeType, NetAmountType
  <2> HIDE DEF fee, wo_fee
  <2>4. MRaw(wo_fee) \in Nat
    BY <2>3, AmountsNat DEF U64
  <2> DEFINE raw == MRaw(wo_fee)
  <2>5. escrowed \in [Accounts -> Nat]
    BY <1>0, <2>1, <2>2, <2>4, TransferredType DEF CanMoveM
  <2>6. escrowed[redeemer_vault] = m_balance[redeemer_vault] + raw
    BY <1>0, <2>2, <2>4, TransferSpares
  <2> HIDE DEF escrowed, raw
  <2>7. m_balance'[redeemer_vault] >= escrowed[redeemer_vault]
    BY <2>1, <2>2, <2>3, <2>5, <1>0, FeeSparesEscrow
  <2>8. Typed'
    BY StepTyped DEF Next
  <2>9. m_balance'[redeemer_vault] \in Nat /\ m_balance[redeemer_vault] \in Nat
    BY <1>0, <2>8 DEF Typed, SharedTypeOK, TATypeOK
  <2>10. EscrowSpared
    BY <2>4, <2>6, <2>7, <2>9 DEF EscrowSpared, raw
  <2>11. TermsStand
    BY <1>0, <2>1, UnusedTermsStand DEF adminVars
  <2> QED
    BY <1>3, <2>1, <2>10, <2>11 DEF OutsideAdminsReach, minterVars
<1>4. ASSUME NEW t, NEW owner, NEW amount, ApproveDelegate(t, owner, amount),
             UNCHANGED minterVars
      PROVE  OutsideAdminsReach
  BY <1>0, <1>1, <1>4, UnusedTermsStand
     DEF ApproveDelegate, OutsideAdminsReach, minterVars, vcVars, adminVars, taVars
<1>5. ASSUME NEW authority \in Signers, NEW id, NEW rate, NEW is_safe,
             \/ ApproveMintRequest(authority, id, rate, is_safe)
             \/ RejectMintRequest(authority, id) \/ UpdateMinterVault(authority)
             \/ SettleRedeem(authority, id, rate, is_safe)
             \/ RejectRedeemRequest(authority, id) \/ UpdateRedeemerVault(authority)
      PROVE  FALSE
  BY <1>5 DEF ApproveMintRequest, RejectMintRequest, UpdateMinterVault, SettleRedeem,
              RejectRedeemRequest, UpdateRedeemerVault
<1>6. CASE MinterRequests /\ UNCHANGED redeemerVars
  BY <1>2, <1>5, <1>6 DEF MinterRequests
<1>7. CASE RedeemerRequests /\ UNCHANGED minterVars
  <2>1. ASSUME NEW user \in Signers, NEW amount \in Args.amount_m_token,
               \/ \E t \in Tokens : RedeemRequest(user, t, amount)
               \/ RedeemRequestFiat(user, amount)
        PROVE  OutsideAdminsReach
    <3>1. PICK t \in DOMAIN payment_mint_state : \E rate : CreateRedeemRequest(user, t, amount, rate)
      BY <2>1 DEF RedeemRequest, RedeemRequestFiat
    <3> QED
      BY <1>3, <1>7, <3>1
  <2> QED
    BY <1>4, <1>5, <1>7, <2>1
       DEF RedeemerRequests, ApproveRedeemRequest, ApproveRedeemRequestFiat
<1> QED
  BY <1>6, <1>7 DEF RequestsNext

\* Once the ac_role a vault obeys has neither an admin nor a vault admin, nobody
\* configures the vault, its payment tokens or its two sides or decides on its
\* requests again, and its escrow is out of reach but for the permanent delegate
\* (update_vault_common.rs accepts any ac_role, revoke_role.rs any holder).
THEOREM OrphanedStaysStranded == Spec => OrphanedVaultStranded
<1> DEFINE Kept ==
      /\ config' = config
      /\ \A id \in DOMAIN mint_requests :
            id \in DOMAIN mint_requests' /\ mint_requests'[id] = mint_requests[id]
      /\ \A id \in DOMAIN redeem_requests :
            id \in DOMAIN redeem_requests' /\ redeem_requests'[id] = redeem_requests[id]
    Beyond ==
      /\ UNCHANGED <<minter, redeemer>>
      /\ TermsStand
      /\ m_balance'[redeemer_vault] < m_balance[redeemer_vault] => CanBurnElsewhere
<1>1. ASSUME Orphaned, [Next]_vars
      PROVE  Kept
  <2>1. \A authority \in Signers : ~HasVaultRole(authority, VAULT_ADMIN)
    BY <1>1, SignersAssumption DEF Orphaned
  <2>2. config' = config
    <3>1. VaultAdminNext => config' = config
      BY <2>1, AdminLeaves
    <3>2. VaultPauserNext => config' = config
      BY DEF VaultPauserNext, NewPauseInx, UpdatePauseInx, UpdatePause
    <3>3. EnvironmentNext \/ GovernanceNext => config' = config
      BY DEF EnvironmentNext, PriceMoves, Tick, NewVaultCommonAccount, GovernanceNext,
             vcVars, adminVars
    <3> QED
      BY <1>1, <3>1, <3>2, <3>3, InstantKeepsBooks, RequestsKeepRoles
         DEF Next, CommonNext, VCNext, vars, vcVars, adminVars
  <2>3. ASSUME MinterRequests, UNCHANGED redeemerVars
        PROVE  Kept
    <3>1. ASSUME NEW user, NEW t, NEW amount, MintRequest(user, t, amount)
          PROVE  Kept
      <4>1. PICK request :
              mint_requests' = WithEntry(mint_requests, requests_count, request)
        BY <3>1 DEF MintRequest
      <4>2. requests_count \notin DOMAIN mint_requests
        BY <3>1 DEF MintRequest
      <4> QED
        BY <2>2, <2>3, <4>1, <4>2 DEF WithEntry, redeemerVars
    <3>2. UNCHANGED mint_requests => Kept
      BY <2>2, <2>3 DEF redeemerVars
    <3> QED
      BY <2>1, <2>3, <3>1, <3>2
         DEF MinterRequests, ApproveMintRequest, RejectMintRequest, UpdateMinterVault
  <2>4. ASSUME RedeemerRequests, UNCHANGED minterVars
        PROVE  Kept
    <3>1. ASSUME NEW user, NEW t, NEW amount, NEW rate, CreateRedeemRequest(user, t, amount, rate)
          PROVE  Kept
      <4>1. PICK request :
              redeem_requests' = WithEntry(redeem_requests, requests_count, request)
        BY <3>1 DEF CreateRedeemRequest
      <4>2. requests_count \notin DOMAIN redeem_requests
        BY <3>1 DEF CreateRedeemRequest
      <4> QED
        BY <2>2, <2>4, <4>1, <4>2 DEF WithEntry, minterVars
    <3>2. ASSUME NEW authority \in Signers, NEW id,
                 \/ RejectRedeemRequest(authority, id)
                 \/ \E rate, is_safe : SettleRedeem(authority, id, rate, is_safe)
          PROVE  FALSE
      BY <2>1, <3>2 DEF SettleRedeem, RejectRedeemRequest
    <3>3. ASSUME NEW authority \in Signers, UpdateRedeemerVault(authority)
          PROVE  FALSE
      BY <2>1, <3>3 DEF UpdateRedeemerVault
    <3>4. ASSUME NEW t, NEW owner, NEW amount, ApproveDelegate(t, owner, amount)
          PROVE  Kept
      BY <2>2, <2>4, <3>4 DEF ApproveDelegate, minterVars
    <3> QED
      BY <2>4, <3>1, <3>2, <3>3, <3>4
         DEF RedeemerRequests, RedeemRequest, RedeemRequestFiat, ApproveRedeemRequest,
             ApproveRedeemRequestFiat
  <2>5. CASE InstantNext \/ CommonNext \/ UNCHANGED vars
    BY <2>2, <2>5, OutsideRequests
  <2> QED
    BY <1>1, <2>3, <2>4, <2>5 DEF Next, RequestsNext
<1>2. ASSUME Orphaned, [Next]_vars
      PROVE  Orphaned'
  <2>1. config' = config
    BY <1>1, <1>2
  <2> QED
    BY <1>2, <2>1, RolesUnderAdmin DEF Orphaned, HasVaultRole, HasAdmin
<1>3. ASSUME BookInv, Orphaned, [Next]_vars
      PROVE  Beyond
  <2>1. \A authority \in Signers : ~HasVaultRole(authority, VAULT_ADMIN)
    BY <1>3, SignersAssumption DEF Orphaned
  <2>2. Typed /\ Typed' /\ VCTypeOK
    BY <1>3, StepTyped DEF BookInv, Typed, SharedTypeOK
  <2>3. m_balance[redeemer_vault] \in Nat /\ m_balance'[redeemer_vault] \in Nat
    BY <2>2, VaultAssumption DEF Typed, SharedTypeOK, TATypeOK
  <2>4. OutsideAdminsReach => Beyond
    BY <2>3 DEF OutsideAdminsReach, EscrowSpared
  <2>5. CASE UNCHANGED vars
    BY <2>2, <2>3, <2>5, UnusedTermsStand
       DEF vars, vcVars, adminVars, taVars, minterVars, redeemerVars
  <2>6. CASE Next
    BY <2>1, <2>2, <2>4, <2>6, OutsideOrphanedVault, RequestsOfOrphanedVault DEF Next
  <2> QED
    BY <1>3, <2>5, <2>6
<1>4. BookInv /\ [Next]_vars => [Orphaned => Orphaned' /\ Kept /\ Beyond]_vars
  BY <1>1, <1>2, <1>3
<1>5. Spec => []BookInv
  BY InitBookInv, StepBookInv, PTL DEF Spec
<1>6. BookInv /\ [Next]_vars =>
        [Orphaned =>
          /\ Orphaned'
          /\ UNCHANGED <<config, minter, redeemer>>
          /\ TermsStand
          /\ m_balance'[redeemer_vault] < m_balance[redeemer_vault] => CanBurnElsewhere
          /\ \A id \in DOMAIN mint_requests :
                id \in DOMAIN mint_requests' /\ mint_requests'[id] = mint_requests[id]
          /\ \A id \in DOMAIN redeem_requests :
                id \in DOMAIN redeem_requests' /\ redeem_requests'[id] = redeem_requests[id]]_vars
  BY <1>4
<1> QED
  BY <1>5, <1>6, PTL DEF Spec, OrphanedVaultStranded

-----------------------------------------------------------------------------
(* The record takes exactly the steps of the vaults.                       *)

LEMMA RecordSteps == HSpec => Spec
<1>1. HInit => Init
  BY DEF HInit
<1>2. [HNext]_<<vars, historyVars>> => [Next]_vars
  BY DEF HNext, Next
<1> QED
  BY <1>1, <1>2, PTL DEF HSpec, Spec

\* Where the balances of one customer at most change, the sum of the changes is
\* that customer's.
LEMMA OneCustomerMoves ==
    ASSUME NEW old, NEW new, NEW user,
           \A c \in Customers : old[c] \in Nat /\ new[c] \in Nat,
           \A c \in Customers \ {user} : new[c] = old[c]
    PROVE  SumFunction([c \in Customers |-> Distance(new[c], old[c])])
             = IF user \in Customers THEN Distance(new[user], old[user]) ELSE 0
<1> DEFINE f == [c \in Customers |-> Distance(new[c], old[c])]
<1>1. IsFiniteSet(Customers)
  BY CustomersAssumption
<1>2. /\ SumFunction(f) = SumFunctionOnSet(f, Customers)
      /\ \A c \in Customers \ {user} : f[c] = 0
      /\ user \in Customers => f[user] = Distance(new[user], old[user]) /\ f[user] \in Int
  BY DEF SumFunction, Distance
<1> HIDE DEF f
<1>3. CASE user \in Customers
  <2>1. SumFunctionOnSet(f, Customers) = f[user]
    BY <1>1, <1>2, <1>3, SumOfOne
  <2> QED
    BY <1>2, <1>3, <2>1 DEF f
<1>4. CASE user \notin Customers
  <2>1. SumFunctionOnSet(f, Customers) = 0
    BY <1>1, <1>2, <1>4, SumOfZeros
  <2> QED
    BY <1>2, <1>4, <2>1 DEF f
<1> QED
  BY <1>3, <1>4

LEMMA MaxOfTwo ==
    ASSUME NEW a \in Int, NEW b \in Int
    PROVE  Max({a, b}) \in Int /\ Max({a, b}) >= a /\ Max({a, b}) >= b
<1>1. \E x \in {a, b} : \A y \in {a, b} : x >= y
  <2>1. CASE a >= b
    BY <2>1
  <2>2. CASE ~(a >= b)
    BY <2>2
  <2> QED
    BY <2>1, <2>2
<1>2. Max({a, b}) \in {a, b} /\ \A y \in {a, b} : Max({a, b}) >= y
  BY <1>1 DEF Max
<1> QED
  BY <1>2

-----------------------------------------------------------------------------
(* The daily limit.                                                        *)

\* With at most nine decimals a transfer moves no more than its base-9 amount.
LEMMA CoarseDecimals == m_decimals <= Base => \A amount \in Nat : MRaw(amount) <= amount
<1> SUFFICES ASSUME m_decimals <= Base, NEW amount \in Nat PROVE MRaw(amount) <= amount
  OBVIOUS
<1>1. CASE m_decimals = Base
  BY <1>1, SameDecimals
<1>2. CASE m_decimals < Base
  <2> DEFINE c == Radix ^ (Base - m_decimals)
  <2>1. MRaw(amount) = amount \div c
    BY <1>2, BaseAssumption, VaultAssumption DEF MRaw, convert_from_base_9, convert
  <2>2. c \in Nat /\ c > 0
    <3>1. Base - m_decimals \in 0 .. MaxDecimals
      BY <1>2, BaseAssumption, VaultAssumption
    <3> QED
      BY <3>1, RadixAssumption
  <2> HIDE DEF c
  <2>3. amount \div c \in Nat /\ (amount \div c) * c <= amount
    BY <2>2, QuotientFacts
  <2>4. 1 * (amount \div c) <= c * (amount \div c)
    BY <2>2, <2>3, ProductMonotone
  <2> QED
    BY <2>1, <2>2, <2>3, <2>4
<1> QED
  BY <1>1, <1>2, BaseAssumption, VaultAssumption

\* What customers receive or give in an instant operation is within what it
\* counts against the limit.
LEMMA VolumeCounted ==
    ASSUME m_decimals <= Base, Typed, Typed', config.fee_receiver \notin Customers, InstantNext
    PROVE  \E amount \in Nat : /\ UseDailyLimit(amount)
                               /\ InstantVolume \in Nat /\ InstantVolume <= amount
<1>0. /\ VCTypeOK /\ RedeemTyped
      /\ m_balance \in [Accounts -> Nat] /\ m_balance' \in [Accounts -> Nat]
      /\ Customers \subseteq Accounts /\ Signers \subseteq Accounts
  BY CustomersAssumption, SignersAssumption DEF Typed, SharedTypeOK, TATypeOK, RedeemTyped
<1>1. ASSUME NEW user \in Signers, NEW n \in Nat,
             \A c \in Customers \ {user} : m_balance'[c] = m_balance[c],
             user \in Customers => Distance(m_balance'[user], m_balance[user]) <= n
      PROVE  InstantVolume \in Nat /\ InstantVolume <= n
  <2>1. InstantVolume = IF user \in Customers
                        THEN Distance(m_balance'[user], m_balance[user]) ELSE 0
    <3>1. \A c \in Customers : m_balance[c] \in Nat /\ m_balance'[c] \in Nat
      BY <1>0
    <3> QED
      BY <1>1, <3>1, OneCustomerMoves, Zenon DEF InstantVolume
  <2> QED
    BY <1>0, <1>1, <2>1 DEF Distance
<1>2. ASSUME NEW user \in Signers, NEW t \in Tokens, NEW amount \in Args.amount_token,
             NEW least, MintInstant(user, t, amount, least)
      PROVE  \E n \in Nat : UseDailyLimit(n) /\ InstantVolume \in Nat /\ InstantVolume <= n
  <2> DEFINE payment_amount == convert_to_base_9(amount, decimals[t])
             d == calc_deposit(user, t, payment_amount, TRUE)
  <2>1. payment_amount \in Nat
    BY AmountsNat, MinterAssumption DEF U64
  <2>2. /\ DepositValid(user, t, payment_amount, TRUE, d)
        /\ MintThroughAuthority(user, d.m_token_amount)
        /\ UseDailyLimit(d.m_token_amount)
        /\ t \in Tokens \cap DOMAIN payment_mint_state
        /\ RateAvailable(t) /\ MRateAvailable
    BY <1>2 DEF MintInstant, Deposit
  <2> HIDE DEF payment_amount
  <2>3. d.m_token_amount \in Nat
    BY <1>0, <2>1, <2>2, DepositFigures
  <2> HIDE DEF d
  <2>4. m_balance' = [m_balance EXCEPT ![user] = @ + d.m_token_amount]
    BY <2>2 DEF MintThroughAuthority, Mint, SplMint
  <2>5. /\ \A c \in Customers \ {user} : m_balance'[c] = m_balance[c]
        /\ m_balance'[user] = m_balance[user] + d.m_token_amount
        /\ m_balance[user] \in Nat
    BY <1>0, <2>4
  <2>6. InstantVolume \in Nat /\ InstantVolume <= d.m_token_amount
    <3>1. Distance(m_balance'[user], m_balance[user]) <= d.m_token_amount
      BY <2>3, <2>5 DEF Distance
    <3> QED
      BY <1>1, <2>3, <2>5, <3>1
  <2> QED
    BY <2>2, <2>3, <2>6
<1>3. ASSUME NEW user \in Signers, NEW t \in Tokens, NEW amount \in Args.amount_m_token,
             NEW least, RedeemInstant(user, t, amount, least)
      PROVE  \E n \in Nat : UseDailyLimit(n) /\ InstantVolume \in Nat /\ InstantVolume <= n
  <2> DEFINE fee == redeem_fee(user, t, amount, TRUE)
             wo_fee == amount - fee
             burned == Burned(user, wo_fee)
  <2>1. /\ t \in DOMAIN payment_mint_state
        /\ RedeemValid(user, t, amount, TRUE)
        /\ CanBurn(user, wo_fee)
        /\ FeePayable(burned, user, fee)
        /\ m_balance' = FeePaid(burned, user, fee)
        /\ UseDailyLimit(amount)
    BY <1>3 DEF RedeemInstant
  <2>2. amount \in U64 /\ amount \in Nat /\ user \in Accounts
    BY <1>0, RedeemerAssumption DEF U64
  <2>3. fee \in Nat /\ wo_fee \in U64
    BY <1>0, <2>1, <2>2, RedeemFeeType, NetAmountType
  <2>4. wo_fee + fee = amount
    <3> HIDE DEF fee
    <3> QED
      BY <2>2, <2>3
  <2> HIDE DEF fee, wo_fee
  <2>5. wo_fee \in Nat /\ MRaw(fee) \in Nat /\ MRaw(fee) <= fee
    BY <2>3, AmountsNat, CoarseDecimals DEF U64
  <2>6. burned \in [Accounts -> Nat] /\ burned = [m_balance EXCEPT ![user] = @ - wo_fee]
    BY <1>0, <2>1, <2>2, <2>5, DebitType DEF CanBurn, Burned
  <2> HIDE DEF burned
  <2>7. /\ \A c \in Customers \ {user} : m_balance'[c] = m_balance[c]
        /\ user \in Customers => m_balance'[user] = m_balance[user] - wo_fee - MRaw(fee)
    <3>1. m_balance' = Transferred(burned, user, config.fee_receiver, MRaw(fee))
      BY <2>1 DEF FeePaid
    <3>2. config.fee_receiver \in Accounts
      BY <1>0 DEF VCTypeOK, Config
    <3>3. \A c \in Accounts : c # user => burned[c] = m_balance[c]
      BY <1>0, <2>6
    <3>4. burned[user] = m_balance[user] - wo_fee
      BY <1>0, <2>2, <2>6
    <3>5. \A c \in Accounts \ {user, config.fee_receiver} : m_balance'[c] = burned[c]
      BY <2>6, <3>1 DEF Transferred
    <3>6. config.fee_receiver # user => m_balance'[user] = burned[user] - MRaw(fee)
      BY <2>2, <2>6, <3>1, <3>2 DEF Transferred
    <3> QED
      BY <1>0, <3>3, <3>4, <3>5, <3>6
  <2>8. InstantVolume \in Nat /\ InstantVolume <= amount
    <3>1. m_balance[user] \in Nat /\ m_balance'[user] \in Nat
      BY <1>0, <2>2
    <3>2. user \in Customers => Distance(m_balance'[user], m_balance[user]) <= amount
      BY <2>2, <2>3, <2>4, <2>5, <2>7, <3>1 DEF Distance
    <3> QED
      BY <1>1, <2>2, <2>7, <3>2
  <2> QED
    BY <2>1, <2>2, <2>8
<1> QED
  BY <1>2, <1>3 DEF InstantNext, MinterInstant, RedeemerInstant

\* What was counted covers what went through on the day of the last instant
\* operation; on any other day nothing went through yet.
DayInv ==
    /\ Typed
    /\ day_volume \in Nat /\ day_limit \in Nat
    /\ config.instant_daily_limit <= day_limit
    /\ instant_last_day <= current_day
    /\ IF instant_last_day = current_day
       THEN day_volume <= instant_daily_limit_used /\ instant_daily_limit_used <= day_limit
       ELSE day_volume = 0

LEMMA DayFigures ==
    Typed => /\ now \in Nat /\ current_day \in Nat
             /\ instant_last_day \in Nat /\ instant_daily_limit_used \in Nat
             /\ config.instant_daily_limit \in Nat
<1> SUFFICES ASSUME Typed
             PROVE  /\ now \in Nat /\ current_day \in Nat
                    /\ instant_last_day \in Nat /\ instant_daily_limit_used \in Nat
                    /\ config.instant_daily_limit \in Nat
  OBVIOUS
<1>1. now \in Nat /\ SECONDS_PER_DAY \in Nat /\ SECONDS_PER_DAY > 0
  BY VaultAssumption DEF Typed, SharedTypeOK, VCTypeOK
<1>2. current_day \in Nat
  BY <1>1, QuotientFacts DEF current_day
<1>3. instant_last_day \in Nat /\ instant_daily_limit_used \in Nat
  BY DEF Typed, SharedTypeOK, VCTypeOK, U128
<1>4. config.instant_daily_limit \in Nat
  BY DEF Typed, SharedTypeOK, VCTypeOK, Config, U128
<1> QED
  BY <1>1, <1>2, <1>3, <1>4

LEMMA InitDay == HInit => DayInv
<1> SUFFICES ASSUME HInit PROVE DayInv
  OBVIOUS
<1>1. Typed
  BY InitTyped DEF HInit
<1>2. current_day = 1
  <2>1. SECONDS_PER_DAY \in Nat /\ SECONDS_PER_DAY > 0
    BY VaultAssumption
  <2>2. (1 * SECONDS_PER_DAY) \div SECONDS_PER_DAY = 1
    BY <2>1, QuotientOfProduct
  <2>3. now = 1 * SECONDS_PER_DAY
    BY <2>1 DEF HInit, Init, VCInit
  <2> QED
    BY <2>2, <2>3 DEF current_day
<1>3. /\ instant_last_day = 0 /\ day_volume = 0 /\ day_limit = config.instant_daily_limit
  BY DEF HInit, Init, VCInit
<1> QED
  BY <1>1, <1>2, <1>3, DayFigures DEF DayInv

\* Time goes on outside the vaults' own instructions; the counter moves only
\* with the instant ones.
LEMMA OthersLeaveTheCounter ==
    /\ InstantNext => UNCHANGED <<now, config>>
    /\ RequestsNext => UNCHANGED <<now, limitVars, config>>
    /\ CommonNext => UNCHANGED limitVars /\ (now' = now \/ now' = now + 1)
<1>1. InstantNext => UNCHANGED <<now, config>>
  <2>1. ASSUME NEW user, NEW t, NEW amount, NEW least, MintInstant(user, t, amount, least)
        PROVE  UNCHANGED <<now, config>>
    BY <2>1 DEF MintInstant, envVars
  <2>2. ASSUME NEW user, NEW t, NEW amount, NEW least, RedeemInstant(user, t, amount, least)
        PROVE  UNCHANGED <<now, config>>
    BY <2>2 DEF RedeemInstant, envVars
  <2> QED
    BY <2>1, <2>2 DEF InstantNext, MinterInstant, RedeemerInstant
<1>2. MinterRequests => UNCHANGED <<now, limitVars, config>>
  BY DEF MinterRequests, MintRequest, ApproveMintRequest, RejectMintRequest,
         UpdateMinterVault, vcVars, adminVars, envVars
<1>3. RedeemerRequests => UNCHANGED <<now, limitVars, config>>
  <2>1. ASSUME NEW user, NEW t, NEW amount, NEW rate, CreateRedeemRequest(user, t, amount, rate)
        PROVE  UNCHANGED <<now, limitVars, config>>
    BY <2>1 DEF CreateRedeemRequest, adminVars, envVars
  <2>2. ASSUME NEW authority, NEW id, NEW rate, NEW is_safe,
               SettleRedeem(authority, id, rate, is_safe)
        PROVE  UNCHANGED <<now, limitVars, config>>
    BY <2>2 DEF SettleRedeem, envVars
  <2>3. ASSUME \/ \E authority, id : RejectRedeemRequest(authority, id)
               \/ \E authority : UpdateRedeemerVault(authority)
               \/ \E t, owner, amount : ApproveDelegate(t, owner, amount)
        PROVE  UNCHANGED <<now, limitVars, config>>
    BY <2>3 DEF RejectRedeemRequest, UpdateRedeemerVault, ApproveDelegate, vcVars, adminVars,
                envVars
  <2> QED
    BY <2>1, <2>2, <2>3 DEF RedeemerRequests, RedeemRequest, RedeemRequestFiat,
                            ApproveRedeemRequest, ApproveRedeemRequestFiat
<1>4. RequestsNext => UNCHANGED <<now, limitVars, config>>
  BY <1>2, <1>3 DEF RequestsNext
<1>5. VaultAdminNext => UNCHANGED limitVars /\ now' = now
  <2>1. VaultAdminNext => UNCHANGED limitVars
    BY AdminLeaves
  <2>2. VaultAdminNext => now' = now
    <3>1. \A authority, t : UpdatePaymentToken(authority, t) => now' = now
      BY DEF UpdatePaymentToken, envVars
    <3>2. \A authority, t : RemovePaymentToken(authority, t) => now' = now
      BY DEF RemovePaymentToken, envVars
    <3>3. \A authority, t, state : AddPaymentToken(authority, t, state) => now' = now
      BY DEF AddPaymentToken, envVars
    <3>4. \A authority, fee, allowance :
             AddPaymentTokenFiat(authority, fee, allowance) => now' = now
      BY DEF AddPaymentTokenFiat, envVars
    <3>5. \A authority, account : UpdateVaultCommonAccount(authority, account) => now' = now
      BY DEF UpdateVaultCommonAccount, envVars
    <3>6. \A authority, vault, receiver, amount :
             WithdrawMToken(authority, vault, receiver, amount) => now' = now
      BY DEF WithdrawMToken, envVars
    <3>7. \A authority, vault, t, receiver, amount :
             WithdrawToken(authority, vault, t, receiver, amount) => now' = now
      BY DEF WithdrawToken, envVars
    <3>8. \A authority : UpdateVaultCommon(authority) => now' = now
      BY DEF UpdateVaultCommon, envVars
    <3> QED
      BY <3>1, <3>2, <3>3, <3>4, <3>5, <3>6, <3>7, <3>8, Zenon DEF VaultAdminNext
  <2> QED
    BY <2>1, <2>2
<1>6. VaultPauserNext => UNCHANGED limitVars /\ now' = now
  BY DEF VaultPauserNext, NewPauseInx, UpdatePauseInx, UpdatePause, envVars
<1>7. EnvironmentNext => UNCHANGED limitVars /\ (now' = now \/ now' = now + 1)
  BY DEF EnvironmentNext, PriceMoves, Tick, NewVaultCommonAccount, envVars, vcVars
<1>8. GovernanceNext => UNCHANGED limitVars /\ now' = now
  BY DEF GovernanceNext, vcVars, envVars
<1> QED
  BY <1>1, <1>4, <1>5, <1>6, <1>7, <1>8 DEF CommonNext, VCNext

LEMMA DaysGoForward ==
    ASSUME Typed, Typed', now' = now \/ now' = now + 1
    PROVE  current_day <= current_day'
<1>1. now \in Nat /\ now' \in Nat /\ now <= now'
  BY DEF Typed, SharedTypeOK, VCTypeOK
<1>2. SECONDS_PER_DAY \in Nat /\ SECONDS_PER_DAY > 0
  BY VaultAssumption
<1> DEFINE before == now \div SECONDS_PER_DAY
<1>3. \A n \in Nat : now <= n => before <= n \div SECONDS_PER_DAY
  BY <1>1, <1>2, QuotientMonotone
<1> QED
  BY <1>1, <1>3 DEF current_day

LEMMA StepDay ==
    ASSUME m_decimals <= Base, DayInv, config.fee_receiver \notin Customers,
           [HNext]_<<vars, historyVars>>
    PROVE  DayInv'
<1>1. Typed /\ Typed'
  <2>1. [Next]_vars
    BY DEF HNext, Next
  <2> QED
    BY <2>1, StepTyped DEF DayInv
<1>2. CASE UNCHANGED <<vars, historyVars>>
  <2>1. UNCHANGED <<now, config, limitVars, day_volume, day_limit>>
    BY <1>2 DEF vars, vcVars, adminVars, envVars, historyVars
  <2> QED
    BY <1>1, <2>1 DEF DayInv, limitVars, current_day
<1>3. /\ day_volume \in Nat /\ day_limit \in Nat
      /\ config.instant_daily_limit <= day_limit
      /\ instant_last_day <= current_day
      /\ IF instant_last_day = current_day
         THEN day_volume <= instant_daily_limit_used /\ instant_daily_limit_used <= day_limit
         ELSE day_volume = 0
  BY DEF DayInv
<1> DEFINE today == current_day
           limit == config.instant_daily_limit
<1>4. /\ today \in Nat /\ instant_last_day \in Nat /\ instant_daily_limit_used \in Nat
      /\ limit \in Nat
      /\ today' \in Nat /\ instant_last_day' \in Nat /\ instant_daily_limit_used' \in Nat
      /\ limit' \in Nat
  <2>1. /\ now \in Nat /\ current_day \in Nat
        /\ instant_last_day \in Nat /\ instant_daily_limit_used \in Nat
        /\ config.instant_daily_limit \in Nat
    BY <1>1, DayFigures
  <2>2. (/\ now \in Nat /\ current_day \in Nat
         /\ instant_last_day \in Nat /\ instant_daily_limit_used \in Nat
         /\ config.instant_daily_limit \in Nat)'
    BY <1>1, DayFigures, PTL
  <2> QED
    BY <2>1, <2>2
<1>5. Max({day_limit, limit'}) \in Nat /\ Max({day_limit, limit'}) >= day_limit
      /\ Max({day_limit, limit'}) >= limit'
  BY <1>3, <1>4, MaxOfTwo
<1>6. DayInv' <=> /\ day_volume' \in Nat /\ day_limit' \in Nat
                  /\ limit' <= day_limit'
                  /\ instant_last_day' <= today'
                  /\ IF instant_last_day' = today'
                     THEN day_volume' <= instant_daily_limit_used'
                          /\ instant_daily_limit_used' <= day_limit'
                     ELSE day_volume' = 0
  BY <1>1 DEF DayInv
<1>7. ASSUME InstantNext, TrackDay(InstantVolume) PROVE DayInv'
  <2>1. PICK amount \in Nat :
           UseDailyLimit(amount) /\ InstantVolume \in Nat /\ InstantVolume <= amount
    BY <1>1, <1>7, VolumeCounted
  <2>2. today' = today /\ limit' = limit
    BY <1>7, OthersLeaveTheCounter DEF current_day
  <2>3. /\ instant_last_day' = today
        /\ instant_daily_limit_used' =
              IF instant_last_day = today THEN instant_daily_limit_used + amount ELSE amount
        /\ instant_daily_limit_used' <= limit
    BY <2>1 DEF UseDailyLimit, LimitUsedWith
  <2>4. day_volume' = day_volume + InstantVolume /\ day_limit' = Max({day_limit, limit'})
    BY <1>7, <2>2 DEF TrackDay
  <2> DEFINE volume == InstantVolume
             highest == Max({day_limit, limit'})
  <2> HIDE DEF volume, highest, today, limit
  <2>5. volume \in Nat /\ volume <= amount /\ day_volume' = day_volume + volume
    BY <2>1, <2>4 DEF volume
  <2>6. highest \in Nat /\ highest >= limit' /\ day_limit' = highest
    BY <1>5, <2>4 DEF highest
  <2>7. /\ day_volume \in Nat
        /\ IF instant_last_day = today THEN day_volume <= instant_daily_limit_used
                                       ELSE day_volume = 0
    BY <1>3 DEF today
  <2> QED
    BY <1>4, <1>6, <2>2, <2>3, <2>5, <2>6, <2>7
<1>8. ASSUME UNCHANGED limitVars, now' = now \/ now' = now + 1, TrackDay(0) PROVE DayInv'
  <2>1. today <= today'
    BY <1>1, <1>8, DaysGoForward
  <2>2. instant_last_day' = instant_last_day
        /\ instant_daily_limit_used' = instant_daily_limit_used
    BY <1>8 DEF limitVars
  <2>3. IF today' # today
        THEN day_volume' = 0 /\ day_limit' = limit'
        ELSE day_volume' = day_volume + 0 /\ day_limit' = Max({day_limit, limit'})
    BY <1>8 DEF TrackDay
  <2> DEFINE highest == Max({day_limit, limit'})
  <2>4. highest \in Nat /\ highest >= limit' /\ highest >= day_limit
    BY <1>5
  <2>5. IF today' # today THEN day_volume' = 0 /\ day_limit' = limit'
                          ELSE day_volume' = day_volume + 0 /\ day_limit' = highest
    BY <2>3
  <2>6. /\ instant_last_day <= today
        /\ IF instant_last_day = today
           THEN day_volume <= instant_daily_limit_used /\ instant_daily_limit_used <= day_limit
           ELSE day_volume = 0
    BY <1>3
  <2> HIDE DEF highest, today, limit
  <2> QED
    BY <1>3, <1>4, <1>6, <2>1, <2>2, <2>4, <2>5, <2>6
<1> QED
  BY <1>2, <1>7, <1>8, OthersLeaveTheCounter DEF HNext

\* With mTokens of at most nine decimals, and fees that go to nobody whose
\* volume is counted, what customers mint and redeem instantly in a day stays
\* within the highest limit in force that day, for every history of limits,
\* days and operations (require_and_update_limit in utils.rs).
THEOREM DailyVolumeAlwaysWithinLimit ==
    ASSUME m_decimals <= Base
    PROVE  HSpec /\ [](config.fee_receiver \notin Customers) => []DailyVolumeWithinLimit
<1> DEFINE Apart == config.fee_receiver \notin Customers
<1>1. HInit => DayInv
  BY InitDay
<1>2. DayInv /\ Apart /\ [HNext]_<<vars, historyVars>> => DayInv'
  BY StepDay
<1>3. DayInv => DailyVolumeWithinLimit
  BY DayFigures DEF DayInv, DailyVolumeWithinLimit
<1> QED
  BY <1>1, <1>2, <1>3, PTL DEF HSpec

-----------------------------------------------------------------------------
(* The minimum of the first mint.                                          *)

\* Accounts whose first mint is not compared with the minimum.
Exempt(c) ==
    /\ c \in DOMAIN vault_account
    /\ vault_account[c].free_from_min_amount \/ vault_account[c].free_from_min_first_mint

\* The vault's fees and the mTokens of mint requests go to others.
CustomersMintInstantly ==
    /\ config.fee_receiver \notin Customers
    /\ \A id \in DOMAIN mint_requests : mint_requests[id].user \notin Customers

\* The admin neither exempts a customer who has not minted nor raises the minimum.
FirstMintTermsStand ==
    /\ \A c \in Customers : first_mint[c] = 0 /\ ~Exempt(c) =>
          ~\E authority \in Signers : UpdateVaultCommonAccount(authority, c) /\ Exempt(c)'
    /\ minter'.first_deposit_min_m_tokens <= minter.first_deposit_min_m_tokens

FirstMintInv ==
    /\ Typed
    /\ first_mint \in [Customers -> Nat]
    /\ FirstMintMeetsMinimum
    /\ \A c \in Customers : first_mint[c] = 0 => ~Exempt(c)

\* A transfer gives only to its receiver.
LEMMA TransferGives ==
    ASSUME NEW S, NEW bal \in [S -> Nat], NEW from \in S, NEW to \in S, NEW amount \in Nat,
           NEW held \in S, to # held
    PROVE  Transferred(bal, from, to, amount)[held] <= bal[held]
BY DEF Transferred

\* The redeemer vault gives mTokens to no customer.
LEMMA CustomersRedeem ==
    ASSUME Typed, config.fee_receiver \notin Customers, RedeemerInstant \/ RedeemerRequests
    PROVE  \A c \in Customers : m_balance'[c] <= m_balance[c]
<1>0. /\ RedeemTyped /\ m_balance \in [Accounts -> Nat]
      /\ redeemer_vault \in Accounts /\ redeemer_vault \notin Customers
      /\ Customers \subseteq Accounts /\ Signers \subseteq Accounts
      /\ config.fee_receiver \in Accounts
  BY CustomersAssumption, SignersAssumption, VaultAssumption
     DEF Typed, SharedTypeOK, TATypeOK, RedeemTyped, VCTypeOK, Config
<1>1. ASSUME NEW bal \in [Accounts -> Nat], NEW user \in Signers, NEW fee \in Nat
      PROVE  \A c \in Customers : FeePaid(bal, user, fee)[c] <= bal[c]
  <2>1. MRaw(fee) \in Nat
    BY AmountsNat
  <2> QED
    BY <1>0, <2>1, TransferGives DEF FeePaid
<1>2. ASSUME NEW user \in Signers, NEW t \in Tokens, NEW amount \in Args.amount_m_token,
             NEW least, RedeemInstant(user, t, amount, least)
      PROVE  \A c \in Customers : m_balance'[c] <= m_balance[c]
  <2> DEFINE fee == redeem_fee(user, t, amount, TRUE)
             wo_fee == amount - fee
             burned == Burned(user, wo_fee)
  <2>1. /\ t \in DOMAIN payment_mint_state
        /\ RedeemValid(user, t, amount, TRUE)
        /\ CanBurn(user, wo_fee)
        /\ FeePayable(burned, user, fee)
        /\ m_balance' = FeePaid(burned, user, fee)
    BY <1>2 DEF RedeemInstant
  <2>2. amount \in U64 /\ amount \in Nat /\ user \in Accounts
    BY <1>0, RedeemerAssumption DEF U64
  <2>3. fee \in Nat /\ wo_fee \in U64
    BY <1>0, <2>1, <2>2, RedeemFeeType, NetAmountType
  <2> HIDE DEF fee, wo_fee
  <2>4. wo_fee \in Nat
    BY <2>3 DEF U64
  <2>5. burned \in [Accounts -> Nat] /\ burned = [m_balance EXCEPT ![user] = @ - wo_fee]
    BY <1>0, <2>1, <2>2, <2>4, DebitType DEF CanBurn, Burned
  <2> HIDE DEF burned
  <2>6. \A c \in Customers : m_balance'[c] <= burned[c]
    BY <1>1, <2>1, <2>3, <2>5
  <2>7. \A c \in Customers : burned[c] <= m_balance[c]
    BY <1>0, <2>4, <2>5
  <2>8. burned \in [Accounts -> Nat]
    BY <2>5
  <2>9. m_balance' \in [Accounts -> Nat]
    BY <1>0, <2>1, <2>2, <2>3, <2>8, FeePaidType
  <2>10. \A c \in Customers : m_balance'[c] \in Int /\ burned[c] \in Int /\ m_balance[c] \in Int
    BY <1>0, <2>8, <2>9
  <2> QED
    BY <2>6, <2>7, <2>10
<1>3. ASSUME NEW user \in Signers, NEW t \in DOMAIN payment_mint_state, NEW amount \in U64,
             NEW rate, CreateRedeemRequest(user, t, amount, rate)
      PROVE  \A c \in Customers : m_balance'[c] <= m_balance[c]
  <2> DEFINE fee == redeem_fee(user, t, amount, FALSE)
             wo_fee == amount - fee
             escrowed == Transferred(m_balance, user, redeemer_vault, MRaw(wo_fee))
  <2>1. /\ RedeemValid(user, t, amount, FALSE)
        /\ CanMoveM(m_balance, user, redeemer_vault, MRaw(wo_fee))
        /\ FeePayable(escrowed, user, fee)
        /\ m_balance' = FeePaid(escrowed, user, fee)
    BY <1>3 DEF CreateRedeemRequest
  <2>2. amount \in Nat /\ user \in Accounts
    BY <1>0 DEF U64
  <2>3. fee \in Nat /\ wo_fee \in U64
    BY <1>0, <2>1, <2>2, RedeemFeeType, NetAmountType
  <2> HIDE DEF fee, wo_fee
  <2>4. MRaw(wo_fee) \in Nat
    BY <2>3, AmountsNat DEF U64
  <2>5. escrowed \in [Accounts -> Nat]
    BY <1>0, <2>1, <2>2, <2>4, TransferredType DEF CanMoveM
  <2>6. \A c \in Customers : escrowed[c] <= m_balance[c]
    BY <1>0, <2>2, <2>4, TransferGives
  <2> HIDE DEF escrowed
  <2>7. \A c \in Customers : m_balance'[c] <= escrowed[c]
    BY <1>1, <2>1, <2>3, <2>5
  <2>8. m_balance' \in [Accounts -> Nat]
    BY <1>0, <2>1, <2>2, <2>3, <2>5, FeePaidType
  <2>9. \A c \in Customers : m_balance'[c] \in Int /\ escrowed[c] \in Int /\ m_balance[c] \in Int
    BY <1>0, <2>5, <2>8
  <2> QED
    BY <2>6, <2>7, <2>9
<1>4. ASSUME NEW authority, NEW id, NEW rate, NEW is_safe,
             SettleRedeem(authority, id, rate, is_safe)
      PROVE  \A c \in Customers : m_balance'[c] <= m_balance[c]
  <2>1. m_balance' = [m_balance EXCEPT ![redeemer_vault] =
                        @ - redeem_requests[id].m_token_amount]
    BY <1>4 DEF SettleRedeem, Burned
  <2> QED
    BY <1>0, <2>1
<1>5. UNCHANGED m_balance => \A c \in Customers : m_balance'[c] <= m_balance[c]
  BY <1>0
<1>6. ASSUME \/ \E authority, id : RejectRedeemRequest(authority, id)
             \/ \E authority : UpdateRedeemerVault(authority)
             \/ \E t, owner, amount : ApproveDelegate(t, owner, amount)
      PROVE  \A c \in Customers : m_balance'[c] <= m_balance[c]
  BY <1>5, <1>6 DEF RejectRedeemRequest, UpdateRedeemerVault, ApproveDelegate, taVars
<1>7. ASSUME NEW user \in Signers, NEW amount \in Args.amount_m_token,
             \/ \E t \in Tokens : RedeemRequest(user, t, amount)
             \/ RedeemRequestFiat(user, amount)
      PROVE  \A c \in Customers : m_balance'[c] <= m_balance[c]
  <2>1. PICK t \in DOMAIN payment_mint_state : \E rate : CreateRedeemRequest(user, t, amount, rate)
    BY <1>7 DEF RedeemRequest, RedeemRequestFiat
  <2>2. amount \in U64
    BY RedeemerAssumption
  <2> QED
    BY <1>3, <2>1, <2>2
<1> QED
  BY <1>2, <1>4, <1>6, <1>7
     DEF RedeemerInstant, RedeemerRequests, ApproveRedeemRequest, ApproveRedeemRequestFiat

LEMMA FirstMintKept ==
    ASSUME FirstMintInv, Typed', UNCHANGED first_mint,
           minter'.first_deposit_min_m_tokens <= minter.first_deposit_min_m_tokens,
           \A c \in Customers : first_mint[c] = 0 /\ Exempt(c)' => Exempt(c)
    PROVE  FirstMintInv'
<1>1. minter.first_deposit_min_m_tokens \in Nat /\ minter'.first_deposit_min_m_tokens \in Nat
  BY WidthAssumption DEF FirstMintInv, Typed, MinterTypeOK, Minter, U64
<1>2. first_mint \in [Customers -> Nat] /\ FirstMintMeetsMinimum
  BY DEF FirstMintInv
<1>3. FirstMintMeetsMinimum'
  BY <1>1, <1>2 DEF FirstMintMeetsMinimum
<1>4. ASSUME NEW c \in Customers, first_mint'[c] = 0 PROVE ~ Exempt(c)'
  BY <1>4 DEF FirstMintInv
<1> QED
  BY <1>2, <1>3, <1>4, Zenon DEF FirstMintInv

LEMMA NoneMints ==
    ASSUME Typed, Typed', first_mint \in [Customers -> Nat],
           NEW rounding, TrackVaults(rounding),
           \A c \in Customers : m_balance'[c] <= m_balance[c]
    PROVE  UNCHANGED first_mint
<1>1. \A c \in Customers : m_balance[c] \in Nat /\ m_balance'[c] \in Nat
  BY CustomersAssumption, SignersAssumption DEF Typed, SharedTypeOK, TATypeOK
<1>2. \A c \in Customers : ~(m_balance'[c] > m_balance[c])
  BY <1>1
<1>3. first_mint' = [c \in Customers |-> first_mint[c]]
  BY <1>2 DEF TrackVaults
<1> QED
  BY <1>3

\* A deposit exempts only its customer from here on.
LEMMA DepositMarks ==
    ASSUME NEW user, MarkFirstMint(user), NEW c, c # user, Exempt(c)'
    PROVE  Exempt(c)
<1>1. vault_account' = vault_account
      \/ vault_account' = [vault_account EXCEPT ![user].free_from_min_first_mint = TRUE]
  BY DEF MarkFirstMint
<1>2. CASE vault_account' = vault_account
  BY <1>2 DEF Exempt
<1>3. CASE vault_account' = [vault_account EXCEPT ![user].free_from_min_first_mint = TRUE]
  <2>1. DOMAIN vault_account' = DOMAIN vault_account
    BY <1>3
  <2>2. c \in DOMAIN vault_account => vault_account'[c] = vault_account[c]
    BY <1>3
  <2> QED
    BY <2>1, <2>2 DEF Exempt
<1> QED
  BY <1>1, <1>2, <1>3

LEMMA FirstMintByInstant ==
    ASSUME FirstMintInv, Typed', NEW rounding, TrackVaults(rounding), UNCHANGED redeemerVars,
           NEW user \in Signers, NEW t \in Tokens, NEW amount \in Args.amount_token,
           NEW least, MintInstant(user, t, amount, least)
    PROVE  FirstMintInv'
<1> DEFINE payment_amount == convert_to_base_9(amount, decimals[t])
           d == calc_deposit(user, t, payment_amount, TRUE)
<1>1. payment_amount \in Nat
  BY AmountsNat, MinterAssumption DEF U64
<1>2. /\ DepositValid(user, t, payment_amount, TRUE, d)
      /\ MarkFirstMint(user)
      /\ MintThroughAuthority(user, d.m_token_amount)
      /\ UNCHANGED minter
      /\ t \in Tokens \cap DOMAIN payment_mint_state
      /\ RateAvailable(t) /\ MRateAvailable
      /\ user \in DOMAIN vault_account
  BY DEF MintInstant, Deposit, minterVars, validate_common
<1>3. /\ Typed /\ VCTypeOK /\ m_balance \in [Accounts -> Nat] /\ m_balance' \in [Accounts -> Nat]
      /\ Customers \subseteq Accounts /\ Signers \subseteq Accounts
      /\ first_mint \in [Customers -> Nat] /\ FirstMintMeetsMinimum
      /\ \A c \in Customers : first_mint[c] = 0 => ~Exempt(c)
  BY CustomersAssumption, SignersAssumption DEF FirstMintInv, Typed, SharedTypeOK, TATypeOK
<1> HIDE DEF payment_amount
<1>4. d.m_token_amount \in Nat
  BY <1>1, <1>2, <1>3, DepositFigures
<1>5. d.m_token_amount > 0 /\ MinAmountMet(user, d.m_token_amount)
  BY <1>2 DEF DepositValid
<1> HIDE DEF d
<1>6. m_balance' = [m_balance EXCEPT ![user] = @ + d.m_token_amount]
  BY <1>2 DEF MintThroughAuthority, Mint, SplMint
<1>7. /\ \A c \in Customers \ {user} : m_balance'[c] = m_balance[c]
      /\ m_balance'[user] = m_balance[user] + d.m_token_amount
      /\ m_balance[user] \in Nat
  BY <1>3, <1>6
<1>8. /\ m_balance'[user] > m_balance[user]
      /\ m_balance'[user] - m_balance[user] = d.m_token_amount
  BY <1>4, <1>5, <1>7
<1>9. /\ \A c \in Customers \ {user} : first_mint'[c] = first_mint[c]
      /\ user \in Customers =>
            first_mint'[user] = IF first_mint[user] = 0 THEN d.m_token_amount ELSE first_mint[user]
  <2>1. \A c \in Customers \ {user} : ~(m_balance'[c] > m_balance[c])
    BY <1>3, <1>7
  <2> QED
    BY <1>8, <2>1 DEF TrackVaults
<1>10. first_mint' \in [Customers -> Nat]
  <2>1. /\ first_mint' = [c \in Customers |-> first_mint'[c]]
    BY DEF TrackVaults
  <2>2. \A c \in Customers : first_mint'[c] \in Nat
    BY <1>3, <1>4, <1>9
  <2> QED
    BY <2>1, <2>2
<1>11. FirstMintMeetsMinimum'
  <2>1. user \in Customers /\ first_mint[user] = 0 =>
           d.m_token_amount >= minter.first_deposit_min_m_tokens
    <3>1. user \in Customers /\ first_mint[user] = 0 =>
             ~vault_account[user].free_from_min_amount
             /\ ~vault_account[user].free_from_min_first_mint
      BY <1>2, <1>3 DEF Exempt
    <3> QED
      BY <1>5, <3>1 DEF MinAmountMet
  <2>2. ASSUME NEW c \in Customers, first_mint'[c] > 0
        PROVE  first_mint'[c] >= minter.first_deposit_min_m_tokens
    <3>1. CASE c # user
      BY <1>3, <1>9, <2>2, <3>1 DEF FirstMintMeetsMinimum
    <3>2. CASE c = user /\ first_mint[user] = 0
      BY <1>9, <2>1, <3>2
    <3>3. CASE c = user /\ first_mint[user] # 0
      <4>1. first_mint[user] > 0
        BY <1>3, <3>3
      <4> QED
        BY <1>3, <1>9, <3>3, <4>1 DEF FirstMintMeetsMinimum
    <3> QED
      BY <3>1, <3>2, <3>3
  <2> QED
    BY <1>2, <2>2 DEF FirstMintMeetsMinimum
<1>12. ASSUME NEW c \in Customers, first_mint'[c] = 0 PROVE ~ Exempt(c)'
  <2>1. c # user
    BY <1>3, <1>4, <1>5, <1>9, <1>12
  <2>2. ~Exempt(c)
    BY <1>3, <1>9, <1>12, <2>1
  <2> QED
    BY <1>2, <2>1, <2>2, DepositMarks
<1> QED
  BY <1>10, <1>11, <1>12, Zenon DEF FirstMintInv

LEMMA StepFirstMint ==
    ASSUME FirstMintInv, CustomersMintInstantly, CustomersMintInstantly',
           [HNext]_<<vars, historyVars>>, [FirstMintTermsStand]_<<vars, historyVars>>
    PROVE  FirstMintInv'
<1>1. Typed /\ Typed' /\ first_mint \in [Customers -> Nat]
  <2>1. [Next]_vars
    BY DEF HNext, Next
  <2> QED
    BY <2>1, StepTyped DEF FirstMintInv
<1>2. /\ config.fee_receiver \notin Customers
      /\ \A id \in DOMAIN mint_requests : mint_requests[id].user \notin Customers
      /\ \A id \in DOMAIN mint_requests' : mint_requests'[id].user \notin Customers
  BY DEF CustomersMintInstantly
<1>3. minter.first_deposit_min_m_tokens \in Nat
  BY <1>1, WidthAssumption DEF Typed, MinterTypeOK, Minter, U64
<1>4. UNCHANGED <<minter, first_mint, vault_account>> => FirstMintInv'
  BY <1>1, <1>3, FirstMintKept DEF Exempt
<1>5. CASE UNCHANGED <<vars, historyVars>>
  BY <1>4, <1>5 DEF vars, vcVars, adminVars, minterVars, historyVars
<1>6. CASE FirstMintTermsStand /\ InstantNext /\ TrackVaults(RedeemRounding)
  <2>1. ASSUME RedeemerInstant, UNCHANGED minterVars PROVE FirstMintInv'
    <3>1. UNCHANGED vault_account
      BY <2>1 DEF RedeemerInstant, RedeemInstant
    <3>2. UNCHANGED first_mint
      BY <1>1, <1>2, <1>6, <2>1, CustomersRedeem, NoneMints
    <3> QED
      BY <1>4, <2>1, <3>1, <3>2 DEF minterVars
  <2> QED
    BY <1>1, <1>6, <2>1, FirstMintByInstant DEF InstantNext, MinterInstant
<1>7. CASE FirstMintTermsStand /\ RequestsNext /\ TrackVaults(NoRounding)
  <2>0. \A c \in Customers : m_balance[c] \in Nat
    BY <1>1, CustomersAssumption, SignersAssumption DEF Typed, SharedTypeOK, TATypeOK
  <2>1. ASSUME RedeemerRequests, UNCHANGED minterVars PROVE FirstMintInv'
    <3>1. UNCHANGED vault_account
      <4>1. ASSUME NEW user, NEW t, NEW amount, NEW rate,
                   CreateRedeemRequest(user, t, amount, rate)
            PROVE  UNCHANGED vault_account
        BY <4>1 DEF CreateRedeemRequest, adminVars
      <4>2. ASSUME NEW authority, NEW id, NEW rate, NEW is_safe,
                   SettleRedeem(authority, id, rate, is_safe)
            PROVE  UNCHANGED vault_account
        BY <4>2 DEF SettleRedeem
      <4>3. ASSUME \/ \E authority, id : RejectRedeemRequest(authority, id)
                   \/ \E authority : UpdateRedeemerVault(authority)
                   \/ \E t, owner, amount : ApproveDelegate(t, owner, amount)
            PROVE  UNCHANGED vault_account
        BY <4>3 DEF RejectRedeemRequest, UpdateRedeemerVault, ApproveDelegate, vcVars, adminVars
      <4> QED
        BY <2>1, <4>1, <4>2, <4>3 DEF RedeemerRequests, RedeemRequest, RedeemRequestFiat,
                                      ApproveRedeemRequest, ApproveRedeemRequestFiat
    <3>2. UNCHANGED first_mint
      BY <1>1, <1>2, <1>7, <2>1, CustomersRedeem, NoneMints
    <3> QED
      BY <1>4, <2>1, <3>1, <3>2 DEF minterVars
  <2>2. ASSUME NEW user, NEW t, NEW amount, MintRequest(user, t, amount) PROVE FirstMintInv'
    <3>1. /\ UNCHANGED <<m_balance, minter>> /\ MarkFirstMint(user)
          /\ \E request : /\ mint_requests' = WithEntry(mint_requests, requests_count, request)
                          /\ request.user = user
      <4> DEFINE d == calc_deposit(user, t, convert_to_base_9(amount, decimals[t]), FALSE)
                 request == [user                  |-> user,
                             payment_mint          |-> t,
                             deposited_usd         |-> d.mint_amount_in_usd,
                             deposited_usd_wo_fees |-> d.deposited_usd,
                             m_mint_rate           |-> MRate]
      <4>1. /\ UNCHANGED <<m_balance, minter>> /\ MarkFirstMint(user)
            /\ mint_requests' = WithEntry(mint_requests, requests_count, request)
        BY <2>2 DEF MintRequest, Deposit, taVars
      <4>2. request.user = user
        OBVIOUS
      <4> HIDE DEF request
      <4> QED
        BY <4>1, <4>2
    <3>2. user \notin Customers
      <4>1. PICK request : /\ mint_requests' = WithEntry(mint_requests, requests_count, request)
                           /\ request.user = user
        BY <3>1
      <4>2. requests_count \in DOMAIN mint_requests' /\ mint_requests'[requests_count] = request
        BY <4>1 DEF WithEntry
      <4>3. mint_requests'[requests_count].user \notin Customers
        BY <1>2, <4>2, Zenon
      <4> QED
        BY <4>1, <4>2, <4>3
    <3>3. UNCHANGED first_mint
      BY <1>1, <1>7, <2>0, <3>1, NoneMints
    <3>4. ASSUME NEW c \in Customers, Exempt(c)' PROVE Exempt(c)
      BY <3>1, <3>2, <3>4, DepositMarks
    <3> QED
      BY <1>1, <1>3, <3>1, <3>3, <3>4, FirstMintKept
  <2>3. ASSUME NEW authority, NEW id, NEW rate, NEW is_safe,
               ApproveMintRequest(authority, id, rate, is_safe)
        PROVE  FirstMintInv'
    <3>1. /\ id \in DOMAIN mint_requests
          /\ MintThroughAuthority(mint_requests[id].user,
                MulDiv(mint_requests[id].deposited_usd_wo_fees, ONE, rate))
          /\ UNCHANGED <<vault_account, minter>>
      BY <2>3 DEF ApproveMintRequest, vcVars, adminVars
    <3>2. \A c \in Customers : m_balance'[c] = m_balance[c]
      <4>1. m_balance \in [Accounts -> Nat] /\ Customers \subseteq Accounts
        BY <1>1, CustomersAssumption, SignersAssumption DEF Typed, SharedTypeOK, TATypeOK
      <4> QED
        BY <1>2, <3>1, <4>1 DEF MintThroughAuthority, Mint, SplMint
    <3>3. UNCHANGED first_mint
      BY <1>1, <1>7, <2>0, <3>2, NoneMints
    <3> QED
      BY <1>4, <3>1, <3>3
  <2>4. ASSUME NEW authority, NEW id, RejectMintRequest(authority, id) PROVE FirstMintInv'
    <3>1. UNCHANGED <<m_balance, vault_account, minter>>
      BY <2>4 DEF RejectMintRequest, vcVars, adminVars, taVars
    <3>2. UNCHANGED first_mint
      BY <1>1, <1>7, <2>0, <3>1, NoneMints
    <3> QED
      BY <1>4, <3>1, <3>2
  <2>5. ASSUME NEW authority, UpdateMinterVault(authority) PROVE FirstMintInv'
    <3>1. UNCHANGED <<m_balance, vault_account>>
      BY <2>5 DEF UpdateMinterVault, vcVars, adminVars, taVars
    <3>2. UNCHANGED first_mint
      BY <1>1, <1>7, <2>0, <3>1, NoneMints
    <3>3. minter'.first_deposit_min_m_tokens <= minter.first_deposit_min_m_tokens
      BY <1>7 DEF FirstMintTermsStand
    <3>4. \A c \in Customers : Exempt(c)' => Exempt(c)
      BY <3>1 DEF Exempt
    <3> QED
      BY <1>1, <3>2, <3>3, <3>4, FirstMintKept
  <2> QED
    BY <1>7, <2>1, <2>2, <2>3, <2>4, <2>5 DEF RequestsNext, MinterRequests
<1>8. CASE FirstMintTermsStand /\ CommonNext /\ TrackGrants
  <2>1. UNCHANGED <<first_mint, minter>>
    BY <1>8 DEF TrackGrants, CommonNext, minterVars
  <2>2. \A c \in Customers : Exempt(c)' =>
           Exempt(c) \/ \E authority \in Signers : UpdateVaultCommonAccount(authority, c)
    <3>1. UNCHANGED vault_account => \A c \in Customers : Exempt(c)' => Exempt(c)
      BY DEF Exempt
    <3>2. \A account : NewVaultCommonAccount(account) => \A c \in Customers : Exempt(c)' => Exempt(c)
      BY DEF NewVaultCommonAccount, WithEntry, Exempt
    <3>3. ASSUME NEW authority \in Signers, NEW account, NEW c \in Customers,
                 UpdateVaultCommonAccount(authority, account), Exempt(c)', c # account
          PROVE  Exempt(c)
      <4>1. PICK new : vault_account' = [vault_account EXCEPT ![account] = new]
        BY <3>3, Zenon DEF UpdateVaultCommonAccount
      <4>2. DOMAIN vault_account' = DOMAIN vault_account
            /\ (c \in DOMAIN vault_account => vault_account'[c] = vault_account[c])
        BY <3>3, <4>1
      <4> QED
        BY <3>3, <4>2 DEF Exempt
    <3>4. CommonNext => \/ UNCHANGED vault_account
                        \/ \E account : NewVaultCommonAccount(account)
                        \/ \E authority \in Signers : \E account :
                             UpdateVaultCommonAccount(authority, account)
      <4>1. VaultAdminNext => \/ UNCHANGED vault_account
                              \/ \E authority \in Signers : \E account :
                                    UpdateVaultCommonAccount(authority, account)
        <5>1. \A authority, t : UpdatePaymentToken(authority, t) => UNCHANGED vault_account
          BY DEF UpdatePaymentToken
        <5>2. \A authority, t : RemovePaymentToken(authority, t) => UNCHANGED vault_account
          BY DEF RemovePaymentToken
        <5>3. \A authority, t, state : AddPaymentToken(authority, t, state) => UNCHANGED vault_account
          BY DEF AddPaymentToken
        <5>4. \A authority, fee, allowance :
                 AddPaymentTokenFiat(authority, fee, allowance) => UNCHANGED vault_account
          BY DEF AddPaymentTokenFiat
        <5>5. \A authority, vault, receiver, amount :
                 WithdrawMToken(authority, vault, receiver, amount) => UNCHANGED vault_account
          BY DEF WithdrawMToken, adminVars
        <5>6. \A authority, vault, t, receiver, amount :
                 WithdrawToken(authority, vault, t, receiver, amount) => UNCHANGED vault_account
          BY DEF WithdrawToken, adminVars
        <5>7. \A authority : UpdateVaultCommon(authority) => UNCHANGED vault_account
          BY DEF UpdateVaultCommon
        <5> QED
          BY <5>1, <5>2, <5>3, <5>4, <5>5, <5>6, <5>7, Zenon DEF VaultAdminNext
      <4>2. VaultPauserNext => UNCHANGED vault_account
        BY DEF VaultPauserNext, NewPauseInx, UpdatePauseInx, UpdatePause
      <4>3. EnvironmentNext => UNCHANGED vault_account \/ \E account : NewVaultCommonAccount(account)
        BY DEF EnvironmentNext, PriceMoves, Tick, adminVars, vcVars
      <4>4. GovernanceNext => UNCHANGED vault_account
        BY DEF GovernanceNext, vcVars, adminVars
      <4> QED
        BY <4>1, <4>2, <4>3, <4>4, Zenon DEF CommonNext, VCNext
    <3>5. ASSUME NEW c \in Customers, Exempt(c)', ~Exempt(c)
          PROVE  \E authority \in Signers : UpdateVaultCommonAccount(authority, c)
      <4>1. PICK authority \in Signers : \E account : UpdateVaultCommonAccount(authority, account)
        BY <1>8, <3>1, <3>2, <3>4, <3>5, Zenon
      <4>2. PICK account : UpdateVaultCommonAccount(authority, account)
        BY <4>1
      <4>3. account = c
        BY <3>3, <3>5, <4>2, Zenon
      <4> QED
        BY <4>1, <4>2, <4>3
    <3> QED
      BY <3>5
  <2>3. \A c \in Customers : first_mint[c] = 0 /\ Exempt(c)' => Exempt(c)
    BY <1>8, <2>2, Zenon DEF FirstMintTermsStand
  <2> QED
    BY <1>1, <1>3, <2>1, <2>3, FirstMintKept
<1> QED
  BY <1>5, <1>6, <1>7, <1>8 DEF HNext

\* While the minimum is not raised and nobody is exempted before, the first
\* mTokens a customer gets by instant mints are at least the minimum, whatever
\* else the admins, other customers and the clock do in between: redeeming,
\* sending mTokens away and coming back, or new accounts reset nothing
\* (require_and_update_min_amount in utils.rs).
THEOREM FirstMintAlwaysMeetsMinimum ==
    /\ HSpec
    /\ \A c \in Customers : ~Exempt(c)
    /\ []CustomersMintInstantly
    /\ [][FirstMintTermsStand]_<<vars, historyVars>>
    => []FirstMintMeetsMinimum
<1> DEFINE NoneExempt == \A c \in Customers : ~Exempt(c)
<1>1. HInit /\ NoneExempt => FirstMintInv
  <2> SUFFICES ASSUME HInit, NoneExempt PROVE FirstMintInv
    OBVIOUS
  <2>1. Typed /\ first_mint = [c \in Customers |-> 0]
    BY InitTyped DEF HInit
  <2> QED
    BY <2>1 DEF FirstMintInv, FirstMintMeetsMinimum
<1>2. /\ FirstMintInv /\ CustomersMintInstantly /\ CustomersMintInstantly'
      /\ [HNext]_<<vars, historyVars>> /\ [FirstMintTermsStand]_<<vars, historyVars>>
      => FirstMintInv'
  BY StepFirstMint
<1>3. FirstMintInv => FirstMintMeetsMinimum
  BY DEF FirstMintInv
<1> HIDE DEF NoneExempt
<1>4. /\ HSpec
      /\ NoneExempt
      /\ []CustomersMintInstantly
      /\ [][FirstMintTermsStand]_<<vars, historyVars>>
      => []FirstMintMeetsMinimum
  BY <1>1, <1>2, <1>3, PTL DEF HSpec
<1> QED
  BY <1>4 DEF NoneExempt

-----------------------------------------------------------------------------
(* The allowances.                                                         *)

\* The accounts that take payments and fees and that pay approved requests are
\* not customers.
ReceiversApart ==
    /\ config.tokens_receiver \notin Customers
    /\ config.fee_receiver \notin Customers
    /\ redeemer.request_redeemer \notin Customers

GrantInv ==
    /\ Typed
    /\ headroom \in [Tokens -> Int]
    /\ AllowanceWithinGrant

\* Amounts rounded down to a mint's decimals one by one and added up there come
\* to no more than their sum.
LEMMA PartsRoundDown ==
    ASSUME NEW a \in Nat, NEW b \in Nat, NEW dec \in 0 .. MaxDecimals
    PROVE  convert_to_base_9(convert_from_base_9(a, dec) + convert_from_base_9(b, dec), dec)
             <= a + b
<1> USE BaseAssumption
<1>1. CASE Base > dec
  <2> DEFINE c == Radix ^ (Base - dec)
  <2>1. c \in Nat /\ c > 0
    <3>1. Base - dec \in 0 .. MaxDecimals
      BY <1>1
    <3> QED
      BY <3>1, RadixAssumption
  <2>2. /\ convert_from_base_9(a, dec) = a \div c /\ convert_from_base_9(b, dec) = b \div c
        /\ \A v \in Nat : convert_to_base_9(v, dec) = v * c
    BY <1>1 DEF convert_to_base_9, convert_from_base_9, convert
  <2> HIDE DEF c
  <2>3. /\ a \div c \in Nat /\ (a \div c) * c <= a
        /\ b \div c \in Nat /\ (b \div c) * c <= b
    BY <2>1, QuotientFacts
  <2>4. ((a \div c) + (b \div c)) * c = (a \div c) * c + (b \div c) * c
    <3> DEFINE p == a \div c
               q == b \div c
    <3>1. p \in Nat /\ q \in Nat
      BY <2>3
    <3> HIDE DEF p, q
    <3>2. (p + q) * c = p * c + q * c
      BY <2>1, <3>1
    <3> QED
      BY <3>2 DEF p, q
  <2>5. (a \div c) * c \in Nat /\ (b \div c) * c \in Nat
    BY <2>1, <2>3, ProductNat
  <2> QED
    BY <2>2, <2>3, <2>4, <2>5
<1>2. CASE ~(Base > dec)
  <2> DEFINE c == Radix ^ (dec - Base)
  <2>1. c \in Nat /\ c > 0
    <3>1. dec - Base \in 0 .. MaxDecimals
      BY <1>2
    <3> QED
      BY <3>1, RadixAssumption
  <2>2. /\ convert_from_base_9(a, dec) = a * c /\ convert_from_base_9(b, dec) = b * c
    <3>1. CASE dec = Base
      <4>1. Base - dec = 0 /\ dec - Base = 0
        BY <3>1
      <4> QED
        BY <1>2, <3>1, <4>1 DEF convert_from_base_9, convert
    <3>2. CASE dec > Base
      BY <1>2, <3>2 DEF convert_from_base_9, convert
    <3> QED
      BY <1>2, <3>1, <3>2
  <2>3. \A v \in Nat : convert_to_base_9(v * c, dec) = v
    <3> SUFFICES ASSUME NEW v \in Nat PROVE convert_to_base_9(v * c, dec) = v
      OBVIOUS
    <3>1. CASE dec = Base
      <4>1. c = 1 /\ Radix ^ (Base - dec) = 1
        <5>1. Base - dec = 0 /\ dec - Base = 0
          BY <3>1
        <5> QED
          BY <5>1, RadixAssumption
      <4>2. convert_to_base_9(v * c, dec) = (v * c) * Radix ^ (Base - dec)
        BY <3>1 DEF convert_to_base_9, convert
      <4> HIDE DEF c
      <4> QED
        BY <4>1, <4>2
    <3>2. CASE dec > Base
      <4>1. convert_to_base_9(v * c, dec) = (v * c) \div c
        BY <3>2 DEF convert_to_base_9, convert
      <4> HIDE DEF c
      <4> QED
        BY <2>1, <4>1, QuotientOfProduct
    <3> QED
      BY <1>2, <3>1, <3>2
  <2> HIDE DEF c
  <2>4. a * c + b * c = (a + b) * c
    BY <2>1
  <2> QED
    BY <2>2, <2>3, <2>4
<1> QED
  BY <1>1, <1>2

LEMMA ConvertMonotone ==
    ASSUME NEW a \in Nat, NEW b \in Nat, a <= b, NEW dec \in 0 .. MaxDecimals
    PROVE  convert_to_base_9(a, dec) <= convert_to_base_9(b, dec)
<1> USE BaseAssumption
<1>1. CASE dec > Base
  <2>1. dec - Base \in 0 .. MaxDecimals
    BY <1>1
  <2> QED
    BY <1>1, <2>1, RadixAssumption, QuotientMonotone DEF convert_to_base_9, convert
<1>2. CASE ~(dec > Base)
  <2>1. Base - dec \in 0 .. MaxDecimals
    BY <1>2
  <2> QED
    BY <1>2, <2>1, RadixAssumption, ProductMonotone DEF convert_to_base_9, convert
<1> QED
  BY <1>1, <1>2

\* What one customer paid or received is what flowed.
LEMMA OneFlow ==
    ASSUME Typed, Typed', NEW t \in Tokens, NEW user \in Signers, NEW n \in Nat,
           \A c \in Customers \ {user} : balance'[t][c] = balance[t][c],
           user \in Customers => Distance(balance'[t][user], balance[t][user]) <= n
    PROVE  Flow(t) \in Nat /\ Flow(t) <= convert_to_base_9(n, decimals[t])
<1>1. \A c \in Customers : balance[t][c] \in Nat /\ balance'[t][c] \in Nat
  BY CustomersAssumption, SignersAssumption DEF Typed, SharedTypeOK, VCTypeOK
<1> DEFINE moved == SumFunction([c \in Customers |-> Distance(balance'[t][c], balance[t][c])])
<1>2. moved = IF user \in Customers THEN Distance(balance'[t][user], balance[t][user]) ELSE 0
  <2> DEFINE old == balance[t]
             new == balance'[t]
  <2>1. /\ \A c \in Customers : old[c] \in Nat /\ new[c] \in Nat
        /\ \A c \in Customers \ {user} : new[c] = old[c]
    BY <1>1
  <2> HIDE DEF old, new
  <2>2. SumFunction([c \in Customers |-> Distance(new[c], old[c])])
          = IF user \in Customers THEN Distance(new[user], old[user]) ELSE 0
    BY <2>1, OneCustomerMoves, Zenon
  <2> QED
    BY <2>2 DEF old, new
<1>3. moved \in Nat /\ moved <= n
  BY <1>1, <1>2 DEF Distance
<1>4. decimals[t] \in 0 .. MaxDecimals /\ Base \in 0 .. MaxDecimals
  BY VaultAssumption, BaseAssumption
<1>5. Flow(t) = convert_to_base_9(moved, decimals[t])
  BY DEF Flow
<1> HIDE DEF moved
<1>6. convert_to_base_9(moved, decimals[t]) \in Nat
  BY <1>3, <1>4, ConvertNat DEF convert_to_base_9
<1> QED
  BY <1>3, <1>4, <1>5, <1>6, ConvertMonotone

LEMMA AllowanceUsed ==
    ASSUME VCTypeOK, NEW t \in DOMAIN payment_mint_state, NEW n, UseAllowance(t, n)
    PROVE  /\ DOMAIN payment_mint_state' = DOMAIN payment_mint_state
           /\ \A x \in DOMAIN payment_mint_state \ {t} :
                 payment_mint_state'[x] = payment_mint_state[x]
           /\ payment_mint_state'[t].allowance =
                 IF payment_mint_state[t].allowance = MAX_UINT128 THEN MAX_UINT128
                 ELSE payment_mint_state[t].allowance - n
<1>1. CASE payment_mint_state[t].allowance = MAX_UINT128
  BY <1>1 DEF UseAllowance
<1>2. CASE payment_mint_state[t].allowance # MAX_UINT128
  <2> DEFINE state == [payment_mint_state[t] EXCEPT !.allowance = @ - n]
  <2>1. payment_mint_state' = [payment_mint_state EXCEPT ![t] = state]
    BY <1>2 DEF UseAllowance
  <2>2. state.allowance = payment_mint_state[t].allowance - n
    BY DEF VCTypeOK, PaymentMintState
  <2> HIDE DEF state
  <2> QED
    BY <1>2, <2>1, <2>2
<1> QED
  BY <1>1, <1>2

\* A step that takes at least what flows, rounding aside, off a token's allowance
\* and moves no other payment token.
LEMMA SpentWithinGrant ==
    ASSUME GrantInv, Typed', NEW t \in Tokens, t \in DOMAIN payment_mint_state,
           NEW n \in Nat, UseAllowance(t, n), NEW rounding, TrackVaults(rounding),
           \A x \in Tokens \ {t} : balance'[x] = balance[x],
           balance'[t] # balance[t] =>
              /\ Flow(t) \in Int /\ rounding[t] \in Int
              /\ Flow(t) - rounding[t] <= n
    PROVE  GrantInv'
<1>1. /\ VCTypeOK /\ VCTypeOK' /\ headroom \in [Tokens -> Int]
      /\ \A x \in DOMAIN payment_mint_state : payment_mint_state[x].allowance \in Nat
      /\ MAX_UINT128 \in Nat
  BY WidthAssumption DEF GrantInv, Typed, SharedTypeOK, VCTypeOK, PaymentMintState, U128
<1>2. /\ DOMAIN payment_mint_state' = DOMAIN payment_mint_state
      /\ \A x \in DOMAIN payment_mint_state \ {t} :
            payment_mint_state'[x] = payment_mint_state[x]
      /\ payment_mint_state'[t].allowance =
            IF payment_mint_state[t].allowance = MAX_UINT128 THEN MAX_UINT128
            ELSE payment_mint_state[t].allowance - n
  BY <1>1, AllowanceUsed
<1>3. headroom' = [x \in Tokens |->
         IF balance'[x] = balance[x] THEN headroom[x]
         ELSE headroom[x] - Flow(x) + rounding[x]]
  BY DEF TrackVaults
<1>4. \A x \in Tokens \ {t} : headroom'[x] = headroom[x]
  BY <1>3
<1>5. headroom'[t] \in Int /\ headroom'[t] >= headroom[t] - n
  <2>1. CASE balance'[t] = balance[t]
    BY <1>1, <1>3, <2>1
  <2>2. CASE balance'[t] # balance[t]
    <3>1. headroom'[t] = headroom[t] - Flow(t) + rounding[t]
      BY <1>3, <2>2
    <3> DEFINE flow == Flow(t)
    <3>2. flow \in Int /\ rounding[t] \in Int /\ flow - rounding[t] <= n
          /\ headroom'[t] = headroom[t] - flow + rounding[t]
      BY <2>2, <3>1
    <3> HIDE DEF flow
    <3> QED
      BY <1>1, <3>2
  <2> QED
    BY <2>1, <2>2
<1>6. headroom' \in [Tokens -> Int]
  BY <1>1, <1>3, <1>4, <1>5
<1>7. ASSUME NEW x \in Tokens \cap DOMAIN payment_mint_state',
             payment_mint_state'[x].allowance # MAX_UINT128
      PROVE  payment_mint_state'[x].allowance <= headroom'[x]
  <2>1. CASE x # t
    BY <1>2, <1>4, <1>7, <2>1 DEF GrantInv, AllowanceWithinGrant
  <2>2. CASE x = t
    <3>1. /\ payment_mint_state[t].allowance # MAX_UINT128
          /\ payment_mint_state'[t].allowance = payment_mint_state[t].allowance - n
      BY <1>2, <1>7, <2>2
    <3>2. payment_mint_state[t].allowance <= headroom[t]
      BY <3>1 DEF GrantInv, AllowanceWithinGrant
    <3> QED
      BY <1>1, <1>5, <2>2, <3>1, <3>2
  <2> QED
    BY <2>1, <2>2
<1> QED
  BY <1>6, <1>7 DEF GrantInv, AllowanceWithinGrant

LEMMA GrantKept ==
    ASSUME GrantInv, Typed', UNCHANGED <<payment_mint_state, headroom>>
    PROVE  GrantInv'
BY DEF GrantInv, AllowanceWithinGrant

LEMMA NothingFlows ==
    ASSUME GrantInv, NEW rounding, TrackVaults(rounding), UNCHANGED balance
    PROVE  UNCHANGED headroom
<1>1. headroom' = [t \in Tokens |-> headroom[t]]
  BY DEF TrackVaults
<1> QED
  BY <1>1 DEF GrantInv

\* What a transfer does to the balance of anyone.
LEMMA TransferMoves ==
    ASSUME NEW S, NEW bal \in [S -> Nat], NEW from \in S, NEW to \in S, NEW amount \in Nat
    PROVE  /\ \A x \in S \ {from, to} : Transferred(bal, from, to, amount)[x] = bal[x]
           /\ from # to => /\ Transferred(bal, from, to, amount)[from] = bal[from] - amount
                           /\ Transferred(bal, from, to, amount)[to] = bal[to] + amount
BY DEF Transferred

\* A payment out of an account that is no customer's: the receiver gets its
\* amount, rounded down, and no other customer's balance moves.
LEMMA PayoutMoves ==
    ASSUME Typed, NEW t \in Tokens, NEW from \in Accounts \ Customers,
           NEW to \in Signers, NEW payout \in Nat, balance' = Paid(t, balance, from, to, payout)
    PROVE  /\ \A x \in Tokens \ {t} : balance'[x] = balance[x]
           /\ \A c \in Customers \ {to} : balance'[t][c] = balance[t][c]
           /\ to \in Customers => balance'[t][to] = balance[t][to] + Raw(t, payout)
           /\ balance'[t] # balance[t] /\ from # to => balance'[t][from] < balance[t][from]
<1>1. /\ balance \in [Tokens -> [Accounts -> Nat]]
      /\ Customers \subseteq Accounts /\ Signers \subseteq Accounts
  BY CustomersAssumption, SignersAssumption DEF Typed, SharedTypeOK, VCTypeOK
<1> DEFINE raw == Raw(t, payout)
           moved == Transferred(balance[t], from, to, raw)
<1>2. raw \in Nat
  BY AmountsNat
<1>3. balance'[t] = moved /\ \A x \in Tokens \ {t} : balance'[x] = balance[x]
  BY <1>1 DEF Paid
<1> HIDE DEF raw
<1>4. /\ \A x \in Accounts \ {from, to} : moved[x] = balance[t][x]
      /\ from # to => moved[from] = balance[t][from] - raw /\ moved[to] = balance[t][to] + raw
      /\ from = to => moved = balance[t]
  <2>1. balance[t] \in [Accounts -> Nat]
    BY <1>1
  <2>2. from = to => moved = balance[t]
    BY DEF Transferred
  <2> QED
    BY <1>1, <1>2, <2>1, <2>2, TransferMoves
<1>5. /\ \A c \in Customers \ {to} : balance'[t][c] = balance[t][c]
      /\ to \in Customers => balance'[t][to] = balance[t][to] + raw
  <2>1. to \in Customers => from # to
    OBVIOUS
  <2> HIDE DEF moved
  <2>2. \A c \in Customers \ {to} : moved[c] = balance[t][c]
    BY <1>1, <1>4
  <2> QED
    BY <1>3, <1>4, <2>1, <2>2
<1>6. balance'[t] # balance[t] /\ from # to => balance'[t][from] < balance[t][from]
  <2> SUFFICES ASSUME balance'[t] # balance[t], from # to
               PROVE  balance'[t][from] < balance[t][from]
    OBVIOUS
  <2>1. raw # 0
    <3> SUFFICES ASSUME raw = 0 PROVE moved = balance[t]
      BY <1>3
    <3>1. balance[t] \in [Accounts -> Nat]
      BY <1>1
    <3>2. [balance[t] EXCEPT ![from] = @ - raw, ![to] = @ + raw] = balance[t]
      BY <1>1, <3>1
    <3> QED
      BY <3>2 DEF Transferred
  <2> HIDE DEF moved
  <2>2. balance'[t][from] = balance[t][from] - raw /\ balance[t][from] \in Nat
    BY <1>1, <1>3, <1>4
  <2> QED
    BY <1>2, <2>1, <2>2
<1> QED
  BY <1>3, <1>5, <1>6 DEF raw

LEMMA PayoutFlow ==
    ASSUME Typed, Typed', NEW t \in Tokens, NEW from \in Accounts \ Customers,
           NEW to \in Signers, NEW payout \in Nat, balance' = Paid(t, balance, from, to, payout)
    PROVE  Flow(t) \in Nat /\ Flow(t) <= payout
<1> DEFINE raw == Raw(t, payout)
<1>1. raw \in Nat
  BY AmountsNat
<1>2. decimals[t] \in 0 .. MaxDecimals /\ Base \in 0 .. MaxDecimals
  BY VaultAssumption, BaseAssumption
<1>3. convert_to_base_9(raw, decimals[t]) <= payout /\ convert_to_base_9(raw, decimals[t]) \in Nat
  BY <1>2, TruncateFacts DEF truncate, Raw
<1>4. /\ \A c \in Customers \ {to} : balance'[t][c] = balance[t][c]
      /\ to \in Customers => balance'[t][to] = balance[t][to] + raw
  BY PayoutMoves
<1>5. balance[t][to] \in Nat
  BY SignersAssumption DEF Typed, SharedTypeOK, VCTypeOK
<1> HIDE DEF raw
<1>6. to \in Customers => Distance(balance'[t][to], balance[t][to]) <= raw
  BY <1>1, <1>4, <1>5 DEF Distance
<1>7. Flow(t) \in Nat /\ Flow(t) <= convert_to_base_9(raw, decimals[t])
  BY <1>1, <1>4, <1>6, OneFlow
<1> QED
  BY <1>3, <1>7

\* The two parts of a deposit, each rounded down, come off the customer's balance
\* and no other customer's balance moves.
LEMMA DepositMoves ==
    ASSUME Typed, ReceiversApart, NEW user \in Signers, NEW t \in Tokens, NEW d,
           d.fee_token_amount \in Nat, d.amount_token_wo_fee \in Nat, TakeDeposit(user, t, d)
    PROVE  /\ \A x \in Tokens \ {t} : balance'[x] = balance[x]
           /\ \A c \in Customers \ {user} : balance'[t][c] = balance[t][c]
           /\ user \in Customers =>
                /\ Raw(t, d.amount_token_wo_fee) <= balance[t][user]
                /\ Raw(t, d.fee_token_amount) <= balance[t][user] - Raw(t, d.amount_token_wo_fee)
                /\ balance'[t][user] = (balance[t][user] - Raw(t, d.amount_token_wo_fee))
                                         - Raw(t, d.fee_token_amount)
           /\ balance'[t][redeemer_vault] >= balance[t][redeemer_vault]
<1>1. /\ balance \in [Tokens -> [Accounts -> Nat]]
      /\ Customers \subseteq Accounts /\ user \in Accounts /\ redeemer_vault \in Accounts
      /\ user # redeemer_vault
      /\ config.tokens_receiver \in Accounts \ Customers
      /\ config.fee_receiver \in Accounts \ Customers
  BY CustomersAssumption, SignersAssumption, VaultAssumption
     DEF Typed, SharedTypeOK, VCTypeOK, Config, ReceiversApart
<1> DEFINE tokens == Raw(t, d.amount_token_wo_fee)
           fee == Raw(t, d.fee_token_amount)
           paid == Transferred(balance[t], user, config.tokens_receiver, tokens)
           moved == Transferred(paid, user, config.fee_receiver, fee)
           mid == Paid(t, balance, user, config.tokens_receiver, d.amount_token_wo_fee)
<1>2. tokens \in Nat /\ fee \in Nat
  BY AmountsNat
<1>3. /\ CanPay(t, balance, user, d.amount_token_wo_fee)
      /\ CanPay(t, mid, user, d.fee_token_amount)
      /\ balance' = Paid(t, mid, user, config.fee_receiver, d.fee_token_amount)
  BY DEF TakeDeposit
<1>4. /\ mid \in [Tokens -> [Accounts -> Nat]] /\ mid[t] = paid
      /\ \A x \in Tokens \ {t} : mid[x] = balance[x]
  <2>1. mid \in [Tokens -> [Accounts -> Nat]]
    BY <1>1, <1>3, PaidType
  <2> QED
    BY <1>1, <2>1 DEF Paid
<1> HIDE DEF mid
<1>5. balance'[t] = moved /\ \A x \in Tokens \ {t} : balance'[x] = balance[x]
  BY <1>3, <1>4 DEF Paid
<1> HIDE DEF tokens, fee
<1>7. paid \in [Accounts -> Nat] /\ balance[t] \in [Accounts -> Nat]
  BY <1>1, <1>4
<1>8. /\ \A x \in Accounts \ {user, config.tokens_receiver} : paid[x] = balance[t][x]
      /\ user # config.tokens_receiver =>
            /\ paid[user] = balance[t][user] - tokens
            /\ paid[config.tokens_receiver] = balance[t][config.tokens_receiver] + tokens
      /\ user = config.tokens_receiver => paid = balance[t]
  <2>1. user = config.tokens_receiver => paid = balance[t]
    BY DEF Transferred
  <2> DEFINE bal == balance[t]
             to == config.tokens_receiver
  <2>2. bal \in [Accounts -> Nat] /\ to \in Accounts /\ user \in Accounts
    BY <1>1, <1>7
  <2> HIDE DEF bal, to
  <2>3. /\ \A x \in Accounts \ {user, to} : Transferred(bal, user, to, tokens)[x] = bal[x]
        /\ user # to => /\ Transferred(bal, user, to, tokens)[user] = bal[user] - tokens
                       /\ Transferred(bal, user, to, tokens)[to] = bal[to] + tokens
    BY <1>2, <2>2, TransferMoves
  <2> QED
    BY <2>1, <2>3, Zenon DEF bal, to
<1> HIDE DEF paid
<1>9. /\ \A x \in Accounts \ {user, config.fee_receiver} : moved[x] = paid[x]
      /\ user # config.fee_receiver =>
            /\ moved[user] = paid[user] - fee
            /\ moved[config.fee_receiver] = paid[config.fee_receiver] + fee
      /\ user = config.fee_receiver => moved = paid
  <2>1. user = config.fee_receiver => moved = paid
    BY DEF Transferred
  <2> DEFINE bal == paid
             to == config.fee_receiver
  <2>2. bal \in [Accounts -> Nat] /\ to \in Accounts /\ user \in Accounts
    BY <1>1, <1>7
  <2> HIDE DEF bal, to
  <2>3. /\ \A x \in Accounts \ {user, to} : Transferred(bal, user, to, fee)[x] = bal[x]
        /\ user # to => /\ Transferred(bal, user, to, fee)[user] = bal[user] - fee
                       /\ Transferred(bal, user, to, fee)[to] = bal[to] + fee
    BY <1>2, <2>2, TransferMoves
  <2> QED
    BY <2>1, <2>3, Zenon DEF bal, to
<1> HIDE DEF moved
<1>10. /\ \A c \in Customers \ {user} : balance'[t][c] = balance[t][c]
       /\ user \in Customers => /\ tokens <= balance[t][user]
                                /\ fee <= balance[t][user] - tokens
                                /\ balance'[t][user] = (balance[t][user] - tokens) - fee
  <2>1. \A c \in Customers \ {user} : moved[c] = balance[t][c]
    BY <1>1, <1>8, <1>9
  <2>2. user \in Customers => /\ moved[user] = (balance[t][user] - tokens) - fee
                              /\ paid[user] = balance[t][user] - tokens
    BY <1>1, <1>8, <1>9
  <2>3. tokens <= balance[t][user] /\ fee <= paid[user]
    BY <1>3, <1>4 DEF CanPay, CanTransfer, tokens, fee
  <2> QED
    BY <1>5, <2>1, <2>2, <2>3
<1>12. balance'[t][redeemer_vault] >= balance[t][redeemer_vault]
  <2>1. balance[t][redeemer_vault] \in Nat /\ paid[redeemer_vault] \in Nat
    BY <1>1, <1>7
  <2>2. paid[redeemer_vault] >= balance[t][redeemer_vault]
    BY <1>1, <1>2, <1>8, <2>1
  <2>3. moved[redeemer_vault] >= paid[redeemer_vault] /\ moved[redeemer_vault] \in Int
    BY <1>1, <1>2, <1>9, <2>1
  <2> QED
    BY <1>5, <2>1, <2>2, <2>3
<1> QED
  BY <1>5, <1>10, <1>12 DEF tokens, fee

\* What flows with a deposit is at most the deposit.
LEMMA DepositFlow ==
    ASSUME Typed, Typed', ReceiversApart, NEW user \in Signers, NEW t \in Tokens, NEW d,
           d.fee_token_amount \in Nat, d.amount_token_wo_fee \in Nat, TakeDeposit(user, t, d)
    PROVE  Flow(t) \in Nat /\ Flow(t) <= d.amount_token_wo_fee + d.fee_token_amount
<1> DEFINE tokens == Raw(t, d.amount_token_wo_fee)
           fee == Raw(t, d.fee_token_amount)
<1>1. tokens \in Nat /\ fee \in Nat
  BY AmountsNat
<1>2. convert_to_base_9(tokens + fee, decimals[t]) <= d.amount_token_wo_fee + d.fee_token_amount
  BY VaultAssumption, PartsRoundDown DEF Raw
<1>3. /\ \A c \in Customers \ {user} : balance'[t][c] = balance[t][c]
      /\ user \in Customers => balance'[t][user] = (balance[t][user] - tokens) - fee
  BY DepositMoves
<1> HIDE DEF tokens, fee
<1>4. balance[t][user] \in Nat
  BY SignersAssumption DEF Typed, SharedTypeOK, VCTypeOK
<1>5. user \in Customers => Distance(balance'[t][user], balance[t][user]) <= tokens + fee
  BY <1>1, <1>3, <1>4 DEF Distance
<1>6. tokens + fee \in Nat
  BY <1>1
<1>7. Flow(t) \in Nat /\ Flow(t) <= convert_to_base_9(tokens + fee, decimals[t])
  BY <1>3, <1>5, <1>6, OneFlow
<1>8. convert_to_base_9(tokens + fee, decimals[t]) \in Nat
  BY <1>6, AmountsNat
<1> QED
  BY <1>2, <1>7, <1>8

\* The amount taken off the allowance by a deposit is the payment, which its
\* two parts add up to.
LEMMA DepositWithinGrant ==
    ASSUME GrantInv, Typed', ReceiversApart, NEW user \in Signers,
           NEW t \in Tokens \cap DOMAIN payment_mint_state,
           RateAvailable(t), MRateAvailable, NEW payment \in Nat, NEW is_instant \in BOOLEAN,
           NEW d, d = calc_deposit(user, t, payment, is_instant),
           Deposit(user, t, payment, is_instant, d),
           NEW rounding, TrackVaults(rounding),
           rounding[t] = 0 \/ rounding = RedeemRounding
    PROVE  GrantInv'
<1>1. /\ DepositValid(user, t, payment, is_instant, d)
      /\ UseAllowance(t, payment)
      /\ TakeDeposit(user, t, d)
  BY DEF Deposit
<1>2. Typed /\ VCTypeOK
  BY DEF GrantInv, Typed, SharedTypeOK
<1>3. d.fee_token_amount \in Nat /\ d.amount_token_wo_fee \in Nat
  BY <1>1, <1>2, DepositFigures
<1>4. d.amount_token_wo_fee + d.fee_token_amount = payment
  <2> DEFINE fee == truncate(get_fee_amount(user, t, payment, is_instant), decimals[t])
  <2>1. d.fee_token_amount = fee /\ d.amount_token_wo_fee = payment - fee
    BY DEF calc_deposit
  <2> HIDE DEF fee
  <2> QED
    BY <1>3, <2>1
<1>5. /\ Flow(t) \in Nat /\ Flow(t) <= d.amount_token_wo_fee + d.fee_token_amount
      /\ \A x \in Tokens \ {t} : balance'[x] = balance[x]
      /\ balance'[t][redeemer_vault] >= balance[t][redeemer_vault]
  BY <1>1, <1>2, <1>3, DepositFlow, DepositMoves
<1>6. rounding[t] = 0
  <2>1. /\ balance'[t][redeemer_vault] \in Nat /\ balance[t][redeemer_vault] \in Nat
    BY <1>2, VaultAssumption DEF Typed, SharedTypeOK, VCTypeOK
  <2>2. ~(balance'[t][redeemer_vault] < balance[t][redeemer_vault])
    BY <1>5, <2>1
  <2> QED
    BY <2>2 DEF RedeemRounding
<1>7. Flow(t) \in Int /\ rounding[t] \in Int /\ Flow(t) - rounding[t] <= payment
  BY <1>4, <1>5, <1>6
<1> QED
  BY <1>1, <1>5, <1>7, SpentWithinGrant

\* Dividing by way of another divisor loses little.
LEMMA QuotientByWay ==
    ASSUME NEW a \in Nat, NEW o \in Nat, o > 0, NEW r \in Nat, r > 0
    PROVE  a \div r <= ((a \div o) * o) \div r + (IF r # o THEN 1 + o \div r ELSE 0)
<1> DEFINE u == (a \div o) * o
           q == a \div r
           p == u \div r
           s == o \div r
<1>1. u \in Nat /\ u <= a /\ a < u + o
  <2>1. a \div o \in Nat /\ (a \div o) * o <= a /\ a < (a \div o) * o + o
    BY QuotientFacts
  <2> QED
    BY <2>1, ProductNat
<1>2. CASE r = o
  <2>1. a \div o \in Nat
    BY QuotientFacts
  <2>2. u \div o = a \div o
    BY <2>1, QuotientOfProduct
  <2> QED
    BY <1>2, <2>1, <2>2
<1>3. CASE r # o
  <2> HIDE DEF u
  <2>1. /\ q \in Nat /\ q * r <= a
        /\ p \in Nat /\ u < p * r + r
        /\ s \in Nat /\ o < s * r + r
    BY <1>1, QuotientFacts
  <2> HIDE DEF q, p, s
  <2> DEFINE qr == q * r
             pr == p * r
             sr == s * r
  <2>2. qr \in Nat /\ pr \in Nat /\ sr \in Nat
    BY <2>1, ProductNat
  <2>3. qr < pr + sr + r + r
    <3>1. qr <= a /\ u < pr + r /\ o < sr + r
      BY <2>1
    <3> HIDE DEF qr, pr, sr
    <3> QED
      BY <1>1, <2>2, <3>1
  <2>4. pr + sr + r + r = (p + s + 2) * r
    BY <2>1
  <2>5. q < p + s + 2
    <3> DEFINE k == p + s + 2
    <3>1. k \in Nat
      BY <2>1
    <3>2. qr < k * r
      BY <2>3, <2>4
    <3> HIDE DEF k
    <3> SUFFICES ASSUME k <= q PROVE FALSE
      BY <2>1, <3>1 DEF k
    <3>3. k * r <= q * r
      BY <2>1, <3>1, ProductMonotone
    <3>4. k * r \in Nat
      BY <3>1, ProductNat
    <3>5. k * r <= qr
      BY <3>3
    <3> HIDE DEF qr
    <3> QED
      BY <2>2, <3>2, <3>4, <3>5
  <2> QED
    BY <1>3, <2>1, <2>5 DEF u, q, p, s
<1> QED
  BY <1>2, <1>3

\* redeem_instant takes the gross payment by way of USD off the allowance and
\* pays out the net one, computed at once.
LEMMA RedeemWithinGrant ==
    ASSUME GrantInv, Typed', NEW user \in Signers, NEW t \in Tokens,
           NEW amount \in Args.amount_m_token, NEW least, RedeemInstant(user, t, amount, least),
           TrackVaults(RedeemRounding)
    PROVE  GrantInv'
<1> DEFINE rate == get_token_rate(t)
           fee == redeem_fee(user, t, amount, TRUE)
           wo_fee == amount - fee
           usd == MulDiv(amount, MRate, ONE)
           amount_payment_token == MulDiv(usd, ONE, rate)
           net == MulDiv(wo_fee, MRate, rate)
           payout == truncate(net, decimals[t])
           slack == IF rate # ONE THEN 1 + ONE \div rate ELSE 0
<1>1. /\ t \in DOMAIN payment_mint_state
      /\ RateAvailable(t) /\ MRateAvailable
      /\ RedeemValid(user, t, amount, TRUE)
      /\ UseAllowance(t, amount_payment_token)
      /\ balance' = Paid(t, balance, redeemer_vault, user, payout)
  BY DEF RedeemInstant
<1>2. /\ Typed /\ RedeemTyped /\ VCTypeOK
      /\ amount \in U64 /\ amount \in Nat
      /\ redeemer_vault \in Accounts \ Customers /\ user # redeemer_vault
  BY RedeemerAssumption, VaultAssumption, CustomersAssumption
     DEF GrantInv, Typed, RedeemTyped, SharedTypeOK, U64
<1>3. /\ rate \in Nat /\ rate > 0 /\ MRate \in Nat /\ ONE \in Nat /\ ONE > 0
  BY <1>1, <1>2, RatesType, VaultAssumption, WidthAssumption DEF Price
<1>4. fee \in Nat /\ wo_fee \in Nat
  <2>1. fee \in Nat /\ wo_fee \in U64
    BY <1>1, <1>2, RedeemFeeType, NetAmountType
  <2> HIDE DEF fee, wo_fee
  <2> QED
    BY <2>1 DEF U64
<1>5. wo_fee <= amount
  <2> HIDE DEF fee
  <2> QED
    BY <1>2, <1>4
<1> HIDE DEF rate, fee, wo_fee
<1>6. net \in Nat /\ net <= MulDiv(amount, MRate, rate)
  BY <1>2, <1>3, <1>4, <1>5, MulDivNat, MulDivMonotone
<1>7. payout \in Nat /\ payout <= net
  BY <1>6, VaultAssumption, TruncateFacts
<1>8. amount_payment_token \in Nat /\ slack \in Nat
      /\ MulDiv(amount, MRate, rate) <= amount_payment_token + slack
  <2> DEFINE a == amount * MRate
  <2>1. a \in Nat
    BY <1>2, <1>3, ProductNat
  <2>2. /\ MulDiv(amount, MRate, rate) = a \div rate
        /\ amount_payment_token = ((a \div ONE) * ONE) \div rate
    BY DEF MulDiv
  <2>3. usd \in Nat
    BY <1>2, <1>3, MulDivNat
  <2>4. amount_payment_token \in Nat
    <3> HIDE DEF usd
    <3> QED
      BY <1>3, <2>3, MulDivNat
  <2>5. ONE \div rate \in Nat
    BY <1>3, QuotientFacts
  <2> HIDE DEF a, amount_payment_token
  <2>6. a \div rate <= ((a \div ONE) * ONE) \div rate + slack
    BY <1>3, <2>1, QuotientByWay
  <2>7. slack \in Nat
    BY <2>5
  <2> HIDE DEF slack
  <2> QED
    BY <2>2, <2>4, <2>6, <2>7
<1>9. MulDiv(amount, MRate, rate) \in Nat
  BY <1>2, <1>3, MulDivNat
<1> HIDE DEF net, payout, amount_payment_token
<1>10. /\ Flow(t) \in Nat /\ Flow(t) <= payout
       /\ \A x \in Tokens \ {t} : balance'[x] = balance[x]
       /\ balance'[t] # balance[t] => balance'[t][redeemer_vault] < balance[t][redeemer_vault]
  BY <1>1, <1>2, <1>7, PayoutFlow, PayoutMoves
<1>11. balance'[t] # balance[t] => RedeemRounding[t] = slack
  BY <1>10 DEF RedeemRounding, rate
<1> HIDE DEF slack
<1>12. ASSUME balance'[t] # balance[t]
       PROVE  /\ Flow(t) \in Int /\ RedeemRounding[t] \in Int
              /\ Flow(t) - RedeemRounding[t] <= amount_payment_token
  <2> DEFINE flow == Flow(t)
             gross == MulDiv(amount, MRate, rate)
  <2>1. flow \in Nat /\ flow <= payout /\ gross \in Nat /\ gross <= amount_payment_token + slack
        /\ net <= gross
    BY <1>6, <1>8, <1>9, <1>10
  <2> HIDE DEF flow, gross
  <2>2. flow - slack <= amount_payment_token
    BY <1>6, <1>7, <1>8, <2>1
  <2> QED
    BY <1>8, <1>11, <1>12, <2>1, <2>2 DEF flow
<1> QED
  BY <1>1, <1>8, <1>10, <1>12, SpentWithinGrant

\* An approval takes what it pays off the allowance.
LEMMA ApprovalWithinGrant ==
    ASSUME GrantInv, Typed', ReceiversApart, NEW authority, NEW id,
           NEW rate \in Args.new_m_token_rate, NEW is_safe,
           \/ ApproveRedeemRequest(authority, id, rate, is_safe)
           \/ ApproveRedeemRequestFiat(authority, id, rate, is_safe),
           TrackVaults(NoRounding)
    PROVE  GrantInv'
<1> DEFINE request == redeem_requests[id]
           t == request.payment_mint
           payout == redeem_payout(request, rate)
<1>1. Typed /\ RedeemTyped /\ VCTypeOK
  BY DEF GrantInv, Typed, RedeemTyped, SharedTypeOK
<1>2. SettleRedeem(authority, id, rate, is_safe)
  BY DEF ApproveRedeemRequest, ApproveRedeemRequestFiat
<1>3. t \in DOMAIN payment_mint_state /\ UseAllowance(t, payout)
  BY <1>2 DEF SettleRedeem
<1>4. payout \in Nat /\ request.user \in Signers
  BY <1>1, <1>2, SettleRedeemType DEF RedeemRequestState
<1>5. CASE ApproveRedeemRequest(authority, id, rate, is_safe)
  <2>1. t \in Tokens /\ balance' = Paid(t, balance, redeemer.request_redeemer, request.user, payout)
    BY <1>5 DEF ApproveRedeemRequest
  <2>2. redeemer.request_redeemer \in Accounts \ Customers
    BY <1>1 DEF ReceiversApart, RedeemTyped, RedeemerTypeOK, Redeemer
  <2> HIDE DEF t, payout, request
  <2>3. /\ Flow(t) \in Nat /\ Flow(t) <= payout
        /\ \A x \in Tokens \ {t} : balance'[x] = balance[x]
    BY <1>1, <1>4, <2>1, <2>2, PayoutFlow, PayoutMoves
  <2>4. Flow(t) \in Int /\ NoRounding[t] \in Int /\ Flow(t) - NoRounding[t] <= payout
    BY <2>1, <2>3 DEF NoRounding
  <2> QED
    BY <1>3, <1>4, <2>1, <2>3, <2>4, SpentWithinGrant
<1>6. CASE ApproveRedeemRequestFiat(authority, id, rate, is_safe)
  <2>1. t = FIAT_MINT /\ UNCHANGED balance
    BY <1>6 DEF ApproveRedeemRequestFiat
  <2> HIDE DEF t, payout
  <2>2. UNCHANGED headroom
    BY <2>1, NothingFlows
  <2>3. /\ DOMAIN payment_mint_state' = DOMAIN payment_mint_state
        /\ \A x \in DOMAIN payment_mint_state \ {t} : payment_mint_state'[x] = payment_mint_state[x]
    BY <1>1, <1>3, AllowanceUsed
  <2>4. \A x \in Tokens : x # t
    BY <2>1, VaultAssumption
  <2> QED
    BY <2>2, <2>3, <2>4 DEF GrantInv, AllowanceWithinGrant
<1> QED
  BY <1>5, <1>6

LEMMA StepGrant ==
    ASSUME GrantInv, ReceiversApart, [HNext]_<<vars, historyVars>>
    PROVE  GrantInv'
<1>1. Typed /\ Typed'
  <2>1. [Next]_vars
    BY DEF HNext, Next
  <2> QED
    BY <2>1, StepTyped DEF GrantInv
<1>2. CASE UNCHANGED <<vars, historyVars>>
  BY <1>1, <1>2, GrantKept DEF vars, vcVars, adminVars, historyVars
<1>3. \A t \in Tokens, amount \in Args.amount_token : convert_to_base_9(amount, decimals[t]) \in Nat
  BY AmountsNat, MinterAssumption DEF U64
<1>4. CASE InstantNext /\ TrackVaults(RedeemRounding)
  <2>1. ASSUME NEW user \in Signers, NEW t \in Tokens, NEW amount \in Args.amount_token,
               NEW least, MintInstant(user, t, amount, least)
        PROVE  GrantInv'
    <3> DEFINE payment == convert_to_base_9(amount, decimals[t])
               d == calc_deposit(user, t, payment, TRUE)
    <3>1. /\ t \in Tokens \cap DOMAIN payment_mint_state
          /\ RateAvailable(t) /\ MRateAvailable
          /\ Deposit(user, t, payment, TRUE, d)
      BY <2>1 DEF MintInstant
    <3>2. payment \in Nat
      BY <1>3
    <3> HIDE DEF payment
    <3>3. d = calc_deposit(user, t, payment, TRUE)
      OBVIOUS
    <3> HIDE DEF d
    <3> QED
      BY <1>1, <1>4, <3>1, <3>2, <3>3, DepositWithinGrant
  <2> QED
    BY <1>1, <1>4, <2>1, RedeemWithinGrant DEF InstantNext, MinterInstant, RedeemerInstant
<1>5. CASE RequestsNext /\ TrackVaults(NoRounding)
  <2>1. ASSUME NEW user \in Signers, NEW t \in Tokens, NEW amount \in Args.amount_token,
               MintRequest(user, t, amount)
        PROVE  GrantInv'
    <3> DEFINE payment == convert_to_base_9(amount, decimals[t])
               d == calc_deposit(user, t, payment, FALSE)
    <3>1. /\ t \in Tokens \cap DOMAIN payment_mint_state
          /\ RateAvailable(t) /\ MRateAvailable
          /\ Deposit(user, t, payment, FALSE, d)
      BY <2>1 DEF MintRequest
    <3>2. payment \in Nat
      BY <1>3
    <3> HIDE DEF payment
    <3>3. d = calc_deposit(user, t, payment, FALSE)
      OBVIOUS
    <3> HIDE DEF d
    <3>4. NoRounding[t] = 0
      BY DEF NoRounding
    <3> QED
      BY <1>1, <1>5, <3>1, <3>2, <3>3, <3>4, DepositWithinGrant
  <2>2. UNCHANGED <<payment_mint_state, balance>> => GrantInv'
    BY <1>1, <1>5, NothingFlows, GrantKept
  <2>3. ASSUME \/ \E authority, id, rate, is_safe : ApproveMintRequest(authority, id, rate, is_safe)
               \/ \E authority, id : RejectMintRequest(authority, id)
               \/ \E authority : UpdateMinterVault(authority)
        PROVE  GrantInv'
    BY <2>2, <2>3 DEF ApproveMintRequest, RejectMintRequest, UpdateMinterVault, vcVars, adminVars
  <2>4. ASSUME \/ \E user, t, amount : RedeemRequest(user, t, amount)
               \/ \E user, amount : RedeemRequestFiat(user, amount)
        PROVE  GrantInv'
    <3>1. PICK user, t, amount, rate : CreateRedeemRequest(user, t, amount, rate)
      BY <2>4 DEF RedeemRequest, RedeemRequestFiat
    <3>2. UNCHANGED <<payment_mint_state, balance>>
      BY <3>1 DEF CreateRedeemRequest, adminVars
    <3> QED
      BY <2>2, <3>2
  <2>5. ASSUME \/ \E authority, id : RejectRedeemRequest(authority, id)
               \/ \E authority : UpdateRedeemerVault(authority)
               \/ \E t, owner, amount : ApproveDelegate(t, owner, amount)
        PROVE  GrantInv'
    BY <2>2, <2>5 DEF RejectRedeemRequest, UpdateRedeemerVault, ApproveDelegate, vcVars, adminVars
  <2>6. ASSUME MinterRequests PROVE GrantInv'
    BY <2>1, <2>3, <2>6 DEF MinterRequests
  <2>7. ASSUME RedeemerRequests PROVE GrantInv'
    BY <1>1, <1>5, <2>4, <2>5, <2>7, ApprovalWithinGrant DEF RedeemerRequests
  <2> QED
    BY <1>5, <2>6, <2>7 DEF RequestsNext
<1>6. CASE TrackGrants
  <2>1. headroom' = [t \in Tokens |->
           IF Granted(t) THEN payment_mint_state'[t].allowance ELSE headroom[t]]
    BY <1>6 DEF TrackGrants
  <2>2. \A t \in DOMAIN payment_mint_state' : payment_mint_state'[t].allowance \in Nat
    BY <1>1, WidthAssumption DEF Typed, SharedTypeOK, VCTypeOK, PaymentMintState, U128
  <2>3. ASSUME NEW t \in Tokens
        PROVE  /\ headroom'[t] \in Int
               /\ t \in DOMAIN payment_mint_state' /\ payment_mint_state'[t].allowance # MAX_UINT128
                    => payment_mint_state'[t].allowance <= headroom'[t]
    <3>1. CASE Granted(t)
      BY <2>1, <2>2, <3>1 DEF Granted
    <3>2. CASE ~Granted(t)
      <4>1. headroom'[t] = headroom[t] /\ headroom[t] \in Int
        BY <2>1, <3>2 DEF GrantInv
      <4>2. t \in DOMAIN payment_mint_state' =>
               /\ t \in DOMAIN payment_mint_state
               /\ payment_mint_state'[t].allowance = payment_mint_state[t].allowance
        BY <3>2 DEF Granted
      <4> QED
        BY <4>1, <4>2 DEF GrantInv, AllowanceWithinGrant
    <3> QED
      BY <3>1, <3>2
  <2>4. headroom' \in [Tokens -> Int]
    <3>1. headroom' = [t \in Tokens |-> headroom'[t]]
      BY <2>1
    <3> QED
      BY <2>3, <3>1
  <2> QED
    BY <1>1, <2>3, <2>4 DEF GrantInv, AllowanceWithinGrant
<1> QED
  BY <1>2, <1>4, <1>5, <1>6 DEF HNext

\* While the accounts that receive payments and fees and that pay approved
\* requests are no customer's, the allowance left of a token never exceeds what
\* the admin's last grant leaves after all that customers paid and received,
\* at whatever decimals, rates, fees and interleaving, but for the rounding of
\* redeem_instant (require_and_update_allowance in utils.rs).
THEOREM AllowanceAlwaysWithinGrant ==
    HSpec /\ []ReceiversApart => []AllowanceWithinGrant
<1>1. HInit => GrantInv
  <2> SUFFICES ASSUME HInit PROVE GrantInv
    OBVIOUS
  <2>1. Typed
    BY InitTyped DEF HInit
  <2>2. headroom = [t \in Tokens |->
           IF t \in DOMAIN payment_mint_state THEN payment_mint_state[t].allowance ELSE 0]
    BY DEF HInit
  <2>3. \A t \in DOMAIN payment_mint_state : payment_mint_state[t].allowance \in Nat
    BY <2>1, WidthAssumption DEF Typed, SharedTypeOK, VCTypeOK, PaymentMintState, U128
  <2>4. headroom \in [Tokens -> Int]
    BY <2>2, <2>3
  <2> QED
    BY <2>1, <2>2, <2>3, <2>4 DEF GrantInv, AllowanceWithinGrant
<1>2. GrantInv /\ ReceiversApart /\ [HNext]_<<vars, historyVars>> => GrantInv'
  BY StepGrant
<1>3. GrantInv => AllowanceWithinGrant
  BY DEF GrantInv
<1> QED
  BY <1>1, <1>2, <1>3, PTL DEF HSpec

-----------------------------------------------------------------------------
(* The wealth of the customers.                                            *)

\* A mint's decimals scale amounts up on the way to base 9, or down.
LEMMA TwoScales ==
    ASSUME NEW dec \in 0 .. MaxDecimals
    PROVE  \/ \E c \in Nat \ {0} : \A v \in Nat : /\ convert_to_base_9(v, dec) = v * c
                                                  /\ convert_from_base_9(v, dec) = v \div c
           \/ \E c \in Nat \ {0} : \A v \in Nat : /\ convert_to_base_9(v, dec) = v \div c
                                                  /\ convert_from_base_9(v, dec) = v * c
<1> USE BaseAssumption
<1>1. CASE Base > dec
  <2> DEFINE c == Radix ^ (Base - dec)
  <2>1. c \in Nat \ {0}
    <3>1. Base - dec \in 0 .. MaxDecimals
      BY <1>1
    <3> QED
      BY <3>1, RadixAssumption
  <2>2. \A v \in Nat : convert_to_base_9(v, dec) = v * c /\ convert_from_base_9(v, dec) = v \div c
    BY <1>1 DEF convert_to_base_9, convert_from_base_9, convert
  <2> HIDE DEF c
  <2> QED
    BY <2>1, <2>2
<1>2. CASE dec > Base
  <2> DEFINE c == Radix ^ (dec - Base)
  <2>1. c \in Nat \ {0}
    <3>1. dec - Base \in 0 .. MaxDecimals
      BY <1>2
    <3> QED
      BY <3>1, RadixAssumption
  <2>2. \A v \in Nat : convert_to_base_9(v, dec) = v \div c /\ convert_from_base_9(v, dec) = v * c
    BY <1>2 DEF convert_to_base_9, convert_from_base_9, convert
  <2> HIDE DEF c
  <2> QED
    BY <2>1, <2>2
<1>3. CASE dec = Base
  <2>1. Base - dec = 0 /\ dec - Base = 0 /\ Radix ^ 0 = 1
    BY <1>3, RadixAssumption
  <2>2. \A v \in Nat : convert_to_base_9(v, dec) = v * 1 /\ convert_from_base_9(v, dec) = v * 1
    BY <1>3, <2>1 DEF convert_to_base_9, convert_from_base_9, convert
  <2>3. \A v \in Nat : v \div 1 = v /\ v * 1 = v
    OBVIOUS
  <2> QED
    BY <2>2, <2>3
<1> QED
  BY <1>1, <1>2, <1>3

LEMMA QuotientShift ==
    ASSUME NEW a \in Nat, NEW x \in Nat, NEW c \in Nat, c > 0
    PROVE  /\ (a + x * c) \div c = a \div c + x
           /\ x * c <= a => (a - x * c) \div c = a \div c - x /\ a \div c >= x
<1> DEFINE q == a \div c
           xc == x * c
<1>1. q \in Nat /\ q * c <= a /\ a < q * c + c /\ xc \in Nat
  BY QuotientFacts, ProductNat
<1>2. (q + x) * c = q * c + x * c
  <2> HIDE DEF q
  <2> QED
    BY <1>1
<1>3. (a + xc) \div c = q + x
  <2> DEFINE p == (a + xc) \div c
  <2>1. p \in Nat /\ p * c <= a + xc /\ a + xc < p * c + c
    BY <1>1, QuotientFacts
  <2>2. p * c < (q + x) * c + c /\ (q + x) * c < p * c + c
    BY <1>1, <1>2, <2>1
  <2> HIDE DEF p, q, xc
  <2>3. p < q + x + 1 /\ q + x < p + 1
    BY <1>1, <2>1, <2>2
  <2> QED
    BY <1>1, <2>1, <2>3 DEF p
<1>4. ASSUME xc <= a PROVE (a - xc) \div c = q - x /\ q >= x
  <2>1. x <= q
    <3>1. x = xc \div c
      BY QuotientOfProduct
    <3> QED
      BY <1>1, <1>4, <3>1, QuotientMonotone
  <2> DEFINE y == q - x
  <2>2. y \in Nat /\ q = y + x
    BY <1>1, <2>1
  <2>3. q * c = y * c + x * c
    <3> HIDE DEF q, y
    <3> QED
      BY <1>1, <2>2
  <2> DEFINE p == (a - xc) \div c
             m == a - xc
  <2>4. m \in Nat
    BY <1>1, <1>4
  <2>5. p \in Nat /\ p * c <= m /\ m < p * c + c
    BY <2>4, QuotientFacts
  <2>6. p * c < y * c + c /\ y * c < p * c + c
    <3>1. y * c \in Nat /\ p * c \in Nat
      BY <2>2, <2>5, ProductNat
    <3> HIDE DEF y, p, q
    <3> QED
      BY <1>1, <2>3, <2>5, <3>1
  <2> HIDE DEF p, y, q, m, xc
  <2>7. p < y + 1 /\ y < p + 1
    BY <2>2, <2>5, <2>6
  <2>8. p = y
    BY <2>2, <2>5, <2>7
  <2> QED
    BY <2>1, <2>8 DEF p, y
<1> QED
  BY <1>3, <1>4

\* Whole units of a mint, in base 9.
Exact(x, dec) == truncate(x, dec) = x

LEMMA ExactAmounts ==
    ASSUME NEW dec \in 0 .. MaxDecimals, NEW a \in Nat, NEW b \in Nat
    PROVE  /\ Exact(convert_to_base_9(a, dec), dec)
           /\ Exact(truncate(a, dec), dec)
           /\ Exact(a, dec) /\ Exact(b, dec) /\ b <= a => Exact(a - b, dec)
<1>1. Exact(truncate(a, dec), dec)
  BY TruncateFacts DEF Exact
<1>2. convert_to_base_9(a, dec) \in Nat
  BY BaseAssumption, ConvertNat DEF convert_to_base_9
<1>3. CASE \E c \in Nat \ {0} : \A v \in Nat : /\ convert_to_base_9(v, dec) = v * c
                                              /\ convert_from_base_9(v, dec) = v \div c
  <2>1. PICK c \in Nat \ {0} : \A v \in Nat : /\ convert_to_base_9(v, dec) = v * c
                                              /\ convert_from_base_9(v, dec) = v \div c
    BY <1>3
  <2>2. \A v \in Nat : v \div c \in Nat /\ truncate(v, dec) = (v \div c) * c
    <3> SUFFICES ASSUME NEW v \in Nat
                 PROVE  v \div c \in Nat /\ truncate(v, dec) = (v \div c) * c
      OBVIOUS
    <3>1. v \div c \in Nat
      BY <2>1, QuotientFacts
    <3> QED
      BY <2>1, <3>1 DEF truncate
  <2>3. Exact(convert_to_base_9(a, dec), dec)
    <3>1. a * c \in Nat /\ (a * c) \div c = a
      BY <2>1, ProductNat, QuotientOfProduct
    <3> QED
      BY <2>1, <2>2, <3>1 DEF Exact
  <2>4. ASSUME Exact(a, dec), Exact(b, dec), b <= a PROVE Exact(a - b, dec)
    <3> DEFINE p == a \div c
               q == b \div c
    <3>1. p \in Nat /\ q \in Nat /\ a = p * c /\ b = q * c
      BY <2>2, <2>4 DEF Exact
    <3>2. p >= q
      <4>1. c \in Nat /\ c > 0
        BY <2>1
      <4>2. b \div c <= a \div c
        BY <2>4, <4>1, QuotientMonotone
      <4> QED
        BY <4>2
    <3> HIDE DEF p, q
    <3>3. a - b = (p - q) * c /\ p - q \in Nat /\ a - b \in Nat
      BY <2>1, <2>4, <3>1, <3>2
    <3>4. ((p - q) * c) \div c = p - q
      BY <2>1, <3>3, QuotientOfProduct
    <3>5. truncate(a - b, dec) = ((a - b) \div c) * c
      BY <2>2, <3>3
    <3> QED
      BY <3>3, <3>4, <3>5 DEF Exact
  <2> QED
    BY <1>1, <2>3, <2>4
<1>4. CASE \E c \in Nat \ {0} : \A v \in Nat : /\ convert_to_base_9(v, dec) = v \div c
                                              /\ convert_from_base_9(v, dec) = v * c
  <2>1. PICK c \in Nat \ {0} : \A v \in Nat : /\ convert_to_base_9(v, dec) = v \div c
                                              /\ convert_from_base_9(v, dec) = v * c
    BY <1>4
  <2>2. \A v \in Nat : Exact(v, dec)
    <3> SUFFICES ASSUME NEW v \in Nat PROVE Exact(v, dec)
      OBVIOUS
    <3>1. v * c \in Nat /\ (v * c) \div c = v
      BY <2>1, ProductNat, QuotientOfProduct
    <3> QED
      BY <2>1, <3>1 DEF truncate, Exact
  <2>3. b <= a => a - b \in Nat
    OBVIOUS
  <2> QED
    BY <1>1, <1>2, <2>2, <2>3
<1> QED
  BY <1>3, <1>4, TwoScales

\* What a balance is worth after an amount was received or paid.
LEMMA BalanceMoves ==
    ASSUME NEW dec \in 0 .. MaxDecimals, NEW held \in Nat, NEW x \in Nat,
           NEW raw, raw = convert_from_base_9(x, dec)
    PROVE  /\ raw \in Nat
           /\ convert_to_base_9(held + raw, dec) <= convert_to_base_9(held, dec) + x
           /\ Exact(x, dec) /\ raw <= held =>
                convert_to_base_9(held - raw, dec) = convert_to_base_9(held, dec) - x
<1>1. CASE \E c \in Nat \ {0} : \A v \in Nat : /\ convert_to_base_9(v, dec) = v * c
                                              /\ convert_from_base_9(v, dec) = v \div c
  <2>1. PICK c \in Nat \ {0} : \A v \in Nat : /\ convert_to_base_9(v, dec) = v * c
                                              /\ convert_from_base_9(v, dec) = v \div c
    BY <1>1
  <2>2. raw = x \div c /\ raw \in Nat /\ raw * c <= x
    <3>1. c \in Nat /\ c > 0 /\ raw = x \div c
      BY <2>1
    <3>2. x \div c \in Nat /\ (x \div c) * c <= x
      BY <3>1, QuotientFacts
    <3> QED
      BY <3>1, <3>2
  <2>3. (held + raw) * c = held * c + raw * c
    BY <2>1, <2>2
  <2>4. held * c \in Nat /\ raw * c \in Nat /\ held + raw \in Nat
    BY <2>1, <2>2, ProductNat
  <2>5. convert_to_base_9(held + raw, dec) <= convert_to_base_9(held, dec) + x
    BY <2>1, <2>2, <2>3, <2>4
  <2>6. ASSUME Exact(x, dec), raw <= held
        PROVE  convert_to_base_9(held - raw, dec) = convert_to_base_9(held, dec) - x
    <3>1. raw * c = x
      BY <2>1, <2>2, <2>6 DEF Exact, truncate
    <3>2. held - raw \in Nat /\ (held - raw) * c = held * c - raw * c
      BY <2>1, <2>2, <2>6
    <3> QED
      BY <2>1, <3>1, <3>2
  <2> QED
    BY <2>2, <2>5, <2>6
<1>2. CASE \E c \in Nat \ {0} : \A v \in Nat : /\ convert_to_base_9(v, dec) = v \div c
                                              /\ convert_from_base_9(v, dec) = v * c
  <2>1. PICK c \in Nat \ {0} : \A v \in Nat : /\ convert_to_base_9(v, dec) = v \div c
                                              /\ convert_from_base_9(v, dec) = v * c
    BY <1>2
  <2>2. raw = x * c /\ raw \in Nat
    BY <2>1, ProductNat
  <2>3. /\ (held + x * c) \div c = held \div c + x
        /\ x * c <= held => (held - x * c) \div c = held \div c - x
    <3>1. c \in Nat /\ c > 0
      BY <2>1
    <3> QED
      BY <3>1, QuotientShift
  <2>4. held + raw \in Nat /\ (raw <= held => held - raw \in Nat) /\ held \div c \in Nat
    BY <2>1, <2>2, QuotientFacts
  <2> QED
    BY <2>1, <2>2, <2>3, <2>4
<1> QED
  BY <1>1, <1>2, TwoScales

\* A product of a quotient with its divisor is at most what was divided.
LEMMA MulDivTimes ==
    ASSUME NEW a \in Nat, NEW b \in Nat, NEW c \in Nat, c > 0
    PROVE  MulDiv(a, b, c) \in Nat /\ MulDiv(a, b, c) * c <= a * b
<1> DEFINE ab == a * b
<1>1. ab \in Nat
  BY ProductNat
<1> HIDE DEF ab
<1>2. ab \div c \in Nat /\ (ab \div c) * c <= ab
  BY <1>1, QuotientFacts
<1> QED
  BY <1>2 DEF MulDiv, ab

\* The sum over one more.
LEMMA SumGrown ==
    ASSUME NEW f, NEW g, IsFiniteSet(DOMAIN f), NEW k, k \notin DOMAIN f,
           DOMAIN g = DOMAIN f \cup {k}, \A x \in DOMAIN g : g[x] \in Int,
           \A x \in DOMAIN f : f[x] = g[x]
    PROVE  SumFunction(g) = SumFunction(f) + g[k]
<1> DEFINE S == DOMAIN f
           T == DOMAIN g
<1>1. IsFiniteSet(T) /\ T \ {k} = S /\ k \in T
  BY FS_AddElement
<1>2. SumFunction(g) = SumFunctionOnSet(g, T) /\ SumFunction(f) = SumFunctionOnSet(f, S)
  BY DEF SumFunction
<1>3. \A x \in S : f[x] \in Int /\ g[x] = f[x]
  OBVIOUS
<1>4. SumFunctionOnSet(g, T) = g[k] + SumFunctionOnSet(g, T \ {k})
  BY <1>1, SumWithout
<1>5. SumFunctionOnSet(g, S) = SumFunctionOnSet(f, S)
  BY <1>3, SumEqual
<1>6. SumFunctionOnSet(f, S) \in Int /\ g[k] \in Int
  BY <1>1, <1>3, SumOfInts
<1> QED
  BY <1>1, <1>2, <1>4, <1>5, <1>6

\* The prices that stand: of a payment token, listed or not, and of the mToken.
CoinPrice(t) == Deployed.price[Deployed.payment_mint_state[t].data_feed]
MPrice == Deployed.price[m_mint_feed]

\* Every token has a price, mTokens have nine decimals, and no admin decides on
\* a request at a rate better for the customer than the price that stands.
PricesKnown ==
    /\ m_decimals = Base
    /\ IsFiniteSet(Tokens)
    /\ MPrice \in Price
    /\ \A t \in Tokens : CoinPrice(t) \in Price
    /\ \A rate \in Args.new_out_rate : rate >= MPrice
    /\ \A rate \in Args.new_m_token_rate : rate <= MPrice

\* Accounting's figures at those prices, of any balances and books.
CoinWorth(bal, u) ==
    [t \in Tokens |-> convert_to_base_9(bal[t][u], decimals[t]) * CoinPrice(t)]
MintClaim(requests, u) ==
    [id \in DOMAIN requests |->
        IF requests[id].user = u THEN requests[id].deposited_usd_wo_fees * ONE ELSE 0]
RedeemClaim(requests, u) ==
    [id \in DOMAIN requests |->
        IF requests[id].user = u
        THEN requests[id].m_token_amount * requests[id].m_token_rate ELSE 0]

Coins(bal, u) == SumFunction(CoinWorth(bal, u))
MintClaims(requests, u) == SumFunction(MintClaim(requests, u))
RedeemClaims(requests, u) == SumFunction(RedeemClaim(requests, u))

WealthOf(bal, m_bal, mints, redeems, u) ==
    Coins(bal, u) + m_bal[u] * MPrice + (MintClaims(mints, u) + RedeemClaims(redeems, u))

LEMMA CoinsTyped ==
    ASSUME PricesKnown, NEW bal \in [Tokens -> [Accounts -> Nat]], NEW u \in Accounts
    PROVE  /\ \A t \in Tokens : /\ CoinPrice(t) \in Nat
                                /\ convert_to_base_9(bal[t][u], decimals[t]) \in Nat
                                /\ CoinWorth(bal, u)[t] \in Nat
           /\ Coins(bal, u) \in Int
<1>1. ASSUME NEW t \in Tokens
      PROVE  /\ CoinPrice(t) \in Nat
             /\ convert_to_base_9(bal[t][u], decimals[t]) \in Nat
             /\ CoinWorth(bal, u)[t] \in Nat
  <2>1. CoinPrice(t) \in Nat
    BY WidthAssumption DEF PricesKnown, Price
  <2>2. convert_to_base_9(bal[t][u], decimals[t]) \in Nat
    BY AmountsNat
  <2>3. CoinWorth(bal, u)[t] = convert_to_base_9(bal[t][u], decimals[t]) * CoinPrice(t)
    BY DEF CoinWorth
  <2> QED
    BY <2>1, <2>2, <2>3, ProductNat
<1>2. DOMAIN CoinWorth(bal, u) = Tokens /\ IsFiniteSet(Tokens)
  BY DEF CoinWorth, PricesKnown
<1>3. Coins(bal, u) \in Int
  BY <1>1, <1>2, SumOfInts DEF Coins, SumFunction
<1> QED
  BY <1>1, <1>3

LEMMA CoinsChanged ==
    ASSUME PricesKnown, NEW bal \in [Tokens -> [Accounts -> Nat]],
           NEW new \in [Tokens -> [Accounts -> Nat]], NEW u \in Accounts, NEW t \in Tokens,
           \A x \in Tokens \ {t} : new[x][u] = bal[x][u]
    PROVE  Coins(new, u) = Coins(bal, u)
             + convert_to_base_9(new[t][u], decimals[t]) * CoinPrice(t)
             - convert_to_base_9(bal[t][u], decimals[t]) * CoinPrice(t)
<1> DEFINE f == CoinWorth(bal, u)
           g == CoinWorth(new, u)
<1>1. /\ \A x \in Tokens : f[x] \in Int /\ g[x] \in Int
      /\ IsFiniteSet(Tokens)
  <2>1. \A x \in Tokens : f[x] \in Int /\ g[x] \in Int
    BY CoinsTyped
  <2> QED
    BY <2>1 DEF PricesKnown
<1>2. /\ \A x \in Tokens \ {t} : g[x] = f[x]
      /\ g[t] = convert_to_base_9(new[t][u], decimals[t]) * CoinPrice(t)
      /\ f[t] = convert_to_base_9(bal[t][u], decimals[t]) * CoinPrice(t)
      /\ Coins(new, u) = SumFunctionOnSet(g, Tokens)
      /\ Coins(bal, u) = SumFunctionOnSet(f, Tokens)
  BY DEF CoinWorth, Coins, SumFunction
<1> HIDE DEF f, g
<1>3. SumFunctionOnSet(g, Tokens) = SumFunctionOnSet(f, Tokens) + g[t] - f[t]
  BY <1>1, <1>2, SumChanged
<1> QED
  BY <1>2, <1>3

LEMMA CoinsSame ==
    ASSUME PricesKnown, NEW bal \in [Tokens -> [Accounts -> Nat]],
           NEW new \in [Tokens -> [Accounts -> Nat]], NEW u \in Accounts,
           \A x \in Tokens : new[x][u] = bal[x][u]
    PROVE  Coins(new, u) = Coins(bal, u)
<1>1. CoinWorth(new, u) = CoinWorth(bal, u)
  BY DEF CoinWorth
<1> QED
  BY <1>1 DEF Coins

LEMMA CoinsFewer ==
    ASSUME PricesKnown, NEW bal \in [Tokens -> [Accounts -> Nat]],
           NEW new \in [Tokens -> [Accounts -> Nat]], NEW u \in Accounts,
           \A x \in Tokens : new[x][u] <= bal[x][u]
    PROVE  Coins(new, u) <= Coins(bal, u)
<1> DEFINE f == CoinWorth(bal, u)
           g == CoinWorth(new, u)
<1>1. IsFiniteSet(Tokens) /\ DOMAIN f = Tokens /\ DOMAIN g = Tokens
  BY DEF PricesKnown, CoinWorth
<1>2. ASSUME NEW x \in Tokens PROVE f[x] \in Int /\ g[x] \in Int /\ g[x] <= f[x]
  <2> DEFINE p == convert_to_base_9(new[x][u], decimals[x])
             q == convert_to_base_9(bal[x][u], decimals[x])
  <2>1. p \in Nat /\ q \in Nat /\ CoinPrice(x) \in Nat /\ f[x] \in Int /\ g[x] \in Int
    BY CoinsTyped
  <2>2. p <= q
    BY VaultAssumption, ConvertMonotone
  <2>3. g[x] = p * CoinPrice(x) /\ f[x] = q * CoinPrice(x)
    BY DEF CoinWorth
  <2> HIDE DEF p, q, f, g
  <2> QED
    BY <2>1, <2>2, <2>3, ProductMonotone
<1>3. Coins(new, u) = SumFunctionOnSet(g, Tokens) /\ Coins(bal, u) = SumFunctionOnSet(f, Tokens)
  BY <1>1 DEF Coins, SumFunction
<1> HIDE DEF f, g
<1> QED
  BY <1>1, <1>2, <1>3, SumMonotone

\* The claims of a book with natural amounts; a claim opened, a claim closed.
ClaimBook(mints, redeems) ==
    /\ IsFiniteSet(DOMAIN mints) /\ IsFiniteSet(DOMAIN redeems)
    /\ \A id \in DOMAIN mints : mints[id].deposited_usd_wo_fees \in Nat
    /\ \A id \in DOMAIN redeems :
          redeems[id].m_token_amount \in Nat /\ redeems[id].m_token_rate \in Nat

LEMMA BooksAreClaimBooks ==
    ASSUME NEW mints, NEW redeems,
           DOMAIN mints \subseteq RequestIds, \A id \in DOMAIN mints : mints[id] \in MintRequestState,
           DOMAIN redeems \subseteq RequestIds,
           \A id \in DOMAIN redeems : redeems[id] \in RedeemRequestState
    PROVE  ClaimBook(mints, redeems)
<1>1. IsFiniteSet(RequestIds)
  BY FS_Interval, VaultAssumption DEF RequestIds
<1>2. \A id \in DOMAIN redeems :
         redeems[id].m_token_amount \in Nat /\ redeems[id].m_token_rate \in Nat
  BY WidthAssumption DEF RedeemRequestState, U64, Price
<1>3. \A id \in DOMAIN mints : mints[id].deposited_usd_wo_fees \in Nat
  BY DEF MintRequestState, U64
<1> QED
  BY <1>1, <1>2, <1>3, FS_Subset DEF ClaimBook

LEMMA ClaimsTyped ==
    ASSUME NEW mints, NEW redeems, ClaimBook(mints, redeems), NEW u
    PROVE  /\ \A id \in DOMAIN mints : MintClaim(mints, u)[id] \in Nat
           /\ \A id \in DOMAIN redeems : RedeemClaim(redeems, u)[id] \in Nat
           /\ MintClaims(mints, u) \in Int /\ RedeemClaims(redeems, u) \in Int
<1>1. ONE \in Nat
  BY VaultAssumption, WidthAssumption DEF Price
<1>2. ASSUME NEW id \in DOMAIN mints PROVE MintClaim(mints, u)[id] \in Nat
  <2>1. mints[id].deposited_usd_wo_fees * ONE \in Nat
    BY <1>1, ProductNat DEF ClaimBook
  <2> QED
    BY <2>1 DEF MintClaim
<1>3. ASSUME NEW id \in DOMAIN redeems PROVE RedeemClaim(redeems, u)[id] \in Nat
  <2>1. redeems[id].m_token_amount * redeems[id].m_token_rate \in Nat
    BY ProductNat DEF ClaimBook
  <2> QED
    BY <2>1 DEF RedeemClaim
<1>4. /\ DOMAIN MintClaim(mints, u) = DOMAIN mints /\ IsFiniteSet(DOMAIN mints)
      /\ DOMAIN RedeemClaim(redeems, u) = DOMAIN redeems /\ IsFiniteSet(DOMAIN redeems)
  BY DEF MintClaim, RedeemClaim, ClaimBook
<1>5. MintClaims(mints, u) \in Int
  BY <1>2, <1>4, SumOfInts DEF MintClaims, SumFunction
<1>6. RedeemClaims(redeems, u) \in Int
  BY <1>3, <1>4, SumOfInts DEF RedeemClaims, SumFunction
<1> QED
  BY <1>2, <1>3, <1>5, <1>6

LEMMA MintClaimOpened ==
    ASSUME NEW mints, NEW redeems, ClaimBook(mints, redeems), NEW u,
           NEW k, k \notin DOMAIN mints, NEW terms, terms.deposited_usd_wo_fees \in Nat
    PROVE  MintClaims(WithEntry(mints, k, terms), u) = MintClaims(mints, u)
             + (IF terms.user = u THEN terms.deposited_usd_wo_fees * ONE ELSE 0)
<1> DEFINE opened == WithEntry(mints, k, terms)
           f == MintClaim(mints, u)
           g == MintClaim(opened, u)
           claim == IF terms.user = u THEN terms.deposited_usd_wo_fees * ONE ELSE 0
<1>1. /\ DOMAIN opened = DOMAIN mints \cup {k} /\ opened[k] = terms
      /\ \A id \in DOMAIN mints : opened[id] = mints[id]
  BY DEF WithEntry
<1> HIDE DEF opened
<1>2. /\ DOMAIN f = DOMAIN mints /\ DOMAIN g = DOMAIN mints \cup {k}
      /\ \A id \in DOMAIN f : g[id] = f[id]
      /\ g[k] = claim
  BY <1>1 DEF MintClaim
<1>3. claim \in Int
  <2>1. terms.deposited_usd_wo_fees * ONE \in Nat
    BY VaultAssumption, WidthAssumption, ProductNat DEF Price
  <2> QED
    BY <2>1
<1>4. IsFiniteSet(DOMAIN f) /\ \A id \in DOMAIN f : f[id] \in Int
  BY <1>2, ClaimsTyped DEF ClaimBook
<1> HIDE DEF f, g, claim
<1>5. SumFunction(g) = SumFunction(f) + g[k]
  <2>1. \A id \in DOMAIN g : g[id] \in Int
    BY <1>2, <1>3, <1>4
  <2> QED
    BY <1>2, <1>4, <2>1, SumGrown
<1> QED
  BY <1>2, <1>5 DEF f, g, opened, claim, MintClaims

LEMMA RedeemClaimOpened ==
    ASSUME NEW mints, NEW redeems, ClaimBook(mints, redeems), NEW u, NEW k,
           k \notin DOMAIN redeems, NEW terms,
           terms.m_token_amount \in Nat, terms.m_token_rate \in Nat
    PROVE  RedeemClaims(WithEntry(redeems, k, terms), u) = RedeemClaims(redeems, u)
             + (IF terms.user = u THEN terms.m_token_amount * terms.m_token_rate ELSE 0)
<1> DEFINE opened == WithEntry(redeems, k, terms)
           f == RedeemClaim(redeems, u)
           g == RedeemClaim(opened, u)
           claim == IF terms.user = u THEN terms.m_token_amount * terms.m_token_rate ELSE 0
<1>1. /\ DOMAIN opened = DOMAIN redeems \cup {k} /\ opened[k] = terms
      /\ \A id \in DOMAIN redeems : opened[id] = redeems[id]
  BY DEF WithEntry
<1> HIDE DEF opened
<1>2. /\ DOMAIN f = DOMAIN redeems /\ DOMAIN g = DOMAIN redeems \cup {k}
      /\ \A id \in DOMAIN f : g[id] = f[id]
      /\ g[k] = claim
  BY <1>1 DEF RedeemClaim
<1>3. claim \in Int
  <2>1. terms.m_token_amount * terms.m_token_rate \in Nat
    BY ProductNat
  <2> QED
    BY <2>1
<1>4. IsFiniteSet(DOMAIN f) /\ \A id \in DOMAIN f : f[id] \in Int
  BY <1>2, ClaimsTyped DEF ClaimBook
<1> HIDE DEF f, g, claim
<1>5. SumFunction(g) = SumFunction(f) + g[k]
  <2>1. \A id \in DOMAIN g : g[id] \in Int
    BY <1>2, <1>3, <1>4
  <2> QED
    BY <1>2, <1>4, <2>1, SumGrown
<1> QED
  BY <1>2, <1>5 DEF f, g, opened, claim, RedeemClaims

LEMMA MintClaimClosed ==
    ASSUME NEW mints, NEW redeems, ClaimBook(mints, redeems), NEW u, NEW k \in DOMAIN mints
    PROVE  MintClaims(WithoutEntry(mints, k), u) = MintClaims(mints, u)
             - (IF mints[k].user = u THEN mints[k].deposited_usd_wo_fees * ONE ELSE 0)
<1> DEFINE closed == WithoutEntry(mints, k)
           f == MintClaim(closed, u)
           g == MintClaim(mints, u)
           claim == IF mints[k].user = u THEN mints[k].deposited_usd_wo_fees * ONE ELSE 0
<1>1. /\ DOMAIN closed = DOMAIN mints \ {k}
      /\ \A id \in DOMAIN closed : closed[id] = mints[id]
  BY DEF WithoutEntry
<1> HIDE DEF closed
<1>2. /\ DOMAIN f = DOMAIN mints \ {k} /\ DOMAIN g = DOMAIN mints
      /\ \A id \in DOMAIN f : f[id] = g[id]
      /\ g[k] = claim
  BY <1>1 DEF MintClaim
<1>3. IsFiniteSet(DOMAIN g) /\ \A id \in DOMAIN g : g[id] \in Int
  BY <1>2, ClaimsTyped DEF ClaimBook
<1>4. MintClaims(mints, u) = SumFunction(g) /\ MintClaims(closed, u) = SumFunction(f)
  BY DEF MintClaims
<1> HIDE DEF f, g, claim
<1>5. IsFiniteSet(DOMAIN f) /\ DOMAIN g = DOMAIN f \cup {k} /\ k \notin DOMAIN f
  BY <1>2, <1>3, FS_RemoveElement
<1>6. SumFunction(g) = SumFunction(f) + g[k]
  BY <1>2, <1>3, <1>5, SumGrown
<1>7. SumFunction(f) \in Int /\ g[k] \in Int
  BY <1>2, <1>3, <1>5, SumOfInts DEF SumFunction
<1> QED
  BY <1>2, <1>4, <1>6, <1>7 DEF closed, claim

LEMMA RedeemClaimClosed ==
    ASSUME NEW mints, NEW redeems, ClaimBook(mints, redeems), NEW u, NEW k \in DOMAIN redeems
    PROVE  RedeemClaims(WithoutEntry(redeems, k), u) = RedeemClaims(redeems, u)
             - (IF redeems[k].user = u
                THEN redeems[k].m_token_amount * redeems[k].m_token_rate ELSE 0)
<1> DEFINE closed == WithoutEntry(redeems, k)
           f == RedeemClaim(closed, u)
           g == RedeemClaim(redeems, u)
           claim == IF redeems[k].user = u
                    THEN redeems[k].m_token_amount * redeems[k].m_token_rate ELSE 0
<1>1. /\ DOMAIN closed = DOMAIN redeems \ {k}
      /\ \A id \in DOMAIN closed : closed[id] = redeems[id]
  BY DEF WithoutEntry
<1> HIDE DEF closed
<1>2. /\ DOMAIN f = DOMAIN redeems \ {k} /\ DOMAIN g = DOMAIN redeems
      /\ \A id \in DOMAIN f : f[id] = g[id]
      /\ g[k] = claim
  BY <1>1 DEF RedeemClaim
<1>3. IsFiniteSet(DOMAIN g) /\ \A id \in DOMAIN g : g[id] \in Int
  BY <1>2, ClaimsTyped DEF ClaimBook
<1>4. RedeemClaims(redeems, u) = SumFunction(g) /\ RedeemClaims(closed, u) = SumFunction(f)
  BY DEF RedeemClaims
<1> HIDE DEF f, g, claim
<1>5. IsFiniteSet(DOMAIN f) /\ DOMAIN g = DOMAIN f \cup {k} /\ k \notin DOMAIN f
  BY <1>2, <1>3, FS_RemoveElement
<1>6. SumFunction(g) = SumFunction(f) + g[k]
  BY <1>2, <1>3, <1>5, SumGrown
<1>7. SumFunction(f) \in Int /\ g[k] \in Int
  BY <1>2, <1>3, <1>5, SumOfInts DEF SumFunction
<1> QED
  BY <1>2, <1>4, <1>6, <1>7 DEF closed, claim

\* Prices stand, every listed token is taken at its price, and the accounts that
\* receive payments and fees and that pay approved requests are no customer's.
StandingTerms ==
    /\ price = Deployed.price
    /\ \A t \in Tokens \cap DOMAIN payment_mint_state :
         RateAvailable(t) => get_token_rate(t) = CoinPrice(t)
    /\ ReceiversApart

\* Beside the vaults' instructions nobody gives a customer anything, but for
\* the customers among themselves.
NothingGiven ==
    CommonNext =>
        /\ \A t \in Tokens, c \in Customers : balance'[t][c] <= balance[t][c]
        /\ \/ \A c \in Customers : m_balance'[c] <= m_balance[c]
           \/ \E from, to \in Customers, amount \in Args.send : Send(from, to, amount)

\* Pending redeem requests are recorded at the prices that stand.
RecordedAtPrice ==
    \A id \in DOMAIN redeem_requests :
        /\ redeem_requests[id].m_token_rate = MPrice
        /\ redeem_requests[id].payment_mint \in Tokens =>
              redeem_requests[id].payment_mint_rate = CoinPrice(redeem_requests[id].payment_mint)

Owns(u) == WealthOf(balance, m_balance, mint_requests, redeem_requests, u)

\* The parts of a customer's wealth are integers.
LEMMA WealthTyped ==
    ASSUME PricesKnown, NEW bal \in [Tokens -> [Accounts -> Nat]],
           NEW m_bal \in [Accounts -> Nat], NEW mints, NEW redeems, ClaimBook(mints, redeems),
           NEW u \in Accounts
    PROVE  /\ Coins(bal, u) \in Int
           /\ m_bal[u] \in Nat /\ MPrice \in Nat /\ m_bal[u] * MPrice \in Nat
           /\ MintClaims(mints, u) \in Int /\ RedeemClaims(redeems, u) \in Int
           /\ WealthOf(bal, m_bal, mints, redeems, u) \in Int
<1>1. Coins(bal, u) \in Int
  BY CoinsTyped
<1>2. m_bal[u] \in Nat /\ MPrice \in Nat
  BY WidthAssumption DEF PricesKnown, Price
<1>3. m_bal[u] * MPrice \in Nat
  BY <1>2, ProductNat
<1>4. MintClaims(mints, u) \in Int /\ RedeemClaims(redeems, u) \in Int
  BY ClaimsTyped
<1> DEFINE worth == m_bal[u] * MPrice
<1>5. worth \in Int
  BY <1>3
<1>6. WealthOf(bal, m_bal, mints, redeems, u)
        = Coins(bal, u) + worth + (MintClaims(mints, u) + RedeemClaims(redeems, u))
  BY DEF WealthOf
<1> HIDE DEF worth
<1>7. WealthOf(bal, m_bal, mints, redeems, u) \in Int
  BY <1>1, <1>4, <1>5, <1>6
<1> QED
  BY <1>1, <1>2, <1>3, <1>4, <1>7

LEMMA TypedBooks ==
    Typed => /\ ClaimBook(mint_requests, redeem_requests)
             /\ balance \in [Tokens -> [Accounts -> Nat]]
             /\ m_balance \in [Accounts -> Nat]
             /\ Customers \subseteq Accounts /\ Signers \subseteq Accounts
<1>1. Typed => ClaimBook(mint_requests, redeem_requests)
  BY BooksAreClaimBooks DEF Typed, MinterTypeOK, RedeemerTypeOK
<1> QED
  BY <1>1, CustomersAssumption, SignersAssumption DEF Typed, SharedTypeOK, VCTypeOK, TATypeOK

\* A customer whose coins, mTokens and claims stay is as wealthy as before.
LEMMA SameWealth ==
    ASSUME PricesKnown, Typed, Typed', NEW u \in Customers,
           \A t \in Tokens : balance'[t][u] = balance[t][u],
           m_balance'[u] = m_balance[u],
           MintClaims(mint_requests', u) = MintClaims(mint_requests, u),
           RedeemClaims(redeem_requests', u) = RedeemClaims(redeem_requests, u)
    PROVE  Owns(u)' <= Owns(u)
<1>1. /\ balance \in [Tokens -> [Accounts -> Nat]] /\ balance' \in [Tokens -> [Accounts -> Nat]]
      /\ u \in Accounts
  BY TypedBooks DEF Typed, SharedTypeOK, VCTypeOK
<1>2. Coins(balance', u) = Coins(balance, u)
  BY <1>1, CoinsSame
<1>3. Owns(u)' = Owns(u)
  BY <1>2 DEF Owns, WealthOf
<1>4. Owns(u) \in Int
  BY <1>1, TypedBooks, WealthTyped DEF Owns
<1> QED
  BY <1>3, <1>4

\* Coins of a customer who is paid, of one who pays.
LEMMA CoinsPaidOut ==
    ASSUME PricesKnown, Typed, Typed', NEW t \in Tokens, NEW from \in Accounts \ Customers,
           NEW to \in Signers, NEW payout \in Nat, balance' = Paid(t, balance, from, to, payout)
    PROVE  /\ \A x \in Tokens, c \in Customers \ {to} : balance'[x][c] = balance[x][c]
           /\ to \in Customers =>
                Coins(balance', to) <= Coins(balance, to) + payout * CoinPrice(t)
<1>1. /\ \A x \in Tokens \ {t} : balance'[x] = balance[x]
      /\ \A c \in Customers \ {to} : balance'[t][c] = balance[t][c]
      /\ to \in Customers => balance'[t][to] = balance[t][to] + Raw(t, payout)
  BY PayoutMoves
<1>2. ASSUME to \in Customers
      PROVE  Coins(balance', to) <= Coins(balance, to) + payout * CoinPrice(t)
  <2> DEFINE new == balance'
             held == balance[t][to]
             p == CoinPrice(t)
             was == convert_to_base_9(held, decimals[t])
             is == convert_to_base_9(new[t][to], decimals[t])
  <2>1. /\ balance \in [Tokens -> [Accounts -> Nat]] /\ new \in [Tokens -> [Accounts -> Nat]]
        /\ to \in Accounts
    BY TypedBooks DEF Typed, SharedTypeOK, VCTypeOK
  <2>2. \A x \in Tokens \ {t} : new[x][to] = balance[x][to]
    BY <1>1
  <2>3. new[t][to] = held + Raw(t, payout)
    BY <1>1, <1>2
  <2> HIDE DEF new
  <2>4. Coins(new, to) = Coins(balance, to) + is * p - was * p
    BY <2>1, <2>2, CoinsChanged
  <2>5. held \in Nat /\ p \in Nat /\ was \in Nat /\ is \in Nat /\ Coins(balance, to) \in Int
    BY <2>1, CoinsTyped
  <2>6. is <= was + payout
    <3>1. decimals[t] \in 0 .. MaxDecimals
      BY VaultAssumption
    <3> HIDE DEF held
    <3> QED
      BY <2>3, <2>5, <3>1, BalanceMoves DEF Raw
  <2> HIDE DEF is, was, p
  <2>7. is * p <= (was + payout) * p
    BY <2>5, <2>6, ProductMonotone
  <2>8. (was + payout) * p = was * p + payout * p
    BY <2>5
  <2> DEFINE isp == is * p
             wasp == was * p
             pp == payout * p
             coins == Coins(balance, to)
  <2>9. isp \in Nat /\ wasp \in Nat /\ pp \in Nat /\ coins \in Int
        /\ Coins(new, to) = coins + isp - wasp /\ isp <= wasp + pp
    BY <2>4, <2>5, <2>7, <2>8, ProductNat
  <2> HIDE DEF isp, wasp, pp, coins
  <2>10. Coins(new, to) <= coins + pp
    BY <2>9
  <2> QED
    BY <2>10 DEF new, coins, pp, p
<1>3. \A x \in Tokens, c \in Customers \ {to} : balance'[x][c] = balance[x][c]
  BY <1>1
<1> QED
  BY <1>2, <1>3

LEMMA CoinsDeposited ==
    ASSUME PricesKnown, Typed, Typed', ReceiversApart, NEW user \in Signers, NEW t \in Tokens,
           NEW d, d.fee_token_amount \in Nat, d.amount_token_wo_fee \in Nat,
           Exact(d.fee_token_amount, decimals[t]), Exact(d.amount_token_wo_fee, decimals[t]),
           TakeDeposit(user, t, d)
    PROVE  /\ \A x \in Tokens, c \in Customers \ {user} : balance'[x][c] = balance[x][c]
           /\ user \in Customers =>
                Coins(balance', user) = Coins(balance, user)
                    - (d.amount_token_wo_fee + d.fee_token_amount) * CoinPrice(t)
<1> DEFINE tokens == d.amount_token_wo_fee
           fee == d.fee_token_amount
<1>1. /\ \A x \in Tokens \ {t} : balance'[x] = balance[x]
      /\ \A c \in Customers \ {user} : balance'[t][c] = balance[t][c]
      /\ user \in Customers =>
           /\ Raw(t, tokens) <= balance[t][user]
           /\ Raw(t, fee) <= balance[t][user] - Raw(t, tokens)
           /\ balance'[t][user] = (balance[t][user] - Raw(t, tokens)) - Raw(t, fee)
  BY DepositMoves
<1>2. tokens \in Nat /\ fee \in Nat /\ Exact(fee, decimals[t]) /\ Exact(tokens, decimals[t])
  OBVIOUS
<1> HIDE DEF tokens, fee
<1>3. ASSUME user \in Customers
      PROVE  Coins(balance', user) = Coins(balance, user) - (tokens + fee) * CoinPrice(t)
  <2> DEFINE new == balance'
             held == balance[t][user]
             left == held - Raw(t, tokens)
             p == CoinPrice(t)
             was == convert_to_base_9(held, decimals[t])
             is == convert_to_base_9(new[t][user], decimals[t])
  <2>1. /\ balance \in [Tokens -> [Accounts -> Nat]] /\ new \in [Tokens -> [Accounts -> Nat]]
        /\ user \in Accounts /\ decimals[t] \in 0 .. MaxDecimals
    BY TypedBooks, VaultAssumption DEF Typed, SharedTypeOK, VCTypeOK
  <2>2. \A x \in Tokens \ {t} : new[x][user] = balance[x][user]
    BY <1>1
  <2>3. /\ Raw(t, tokens) <= held /\ Raw(t, fee) <= left
        /\ new[t][user] = left - Raw(t, fee)
    BY <1>1, <1>3
  <2> HIDE DEF new
  <2>4. Coins(new, user) = Coins(balance, user) + is * p - was * p
    BY <2>1, <2>2, CoinsChanged
  <2>5. held \in Nat /\ p \in Nat /\ was \in Nat /\ is \in Nat /\ Coins(balance, user) \in Int
    BY <2>1, CoinsTyped
  <2> HIDE DEF held
  <2>6. Raw(t, tokens) \in Nat /\ convert_to_base_9(left, decimals[t]) = was - tokens
    BY <1>2, <2>1, <2>3, <2>5, BalanceMoves DEF Raw
  <2>7. left \in Nat
    BY <2>3, <2>5, <2>6
  <2> HIDE DEF left
  <2>8. is = convert_to_base_9(left, decimals[t]) - fee
    BY <1>2, <2>1, <2>3, <2>7, BalanceMoves DEF Raw
  <2> HIDE DEF is, was, p
  <2>9. is = was - (tokens + fee)
    BY <1>2, <2>5, <2>6, <2>8
  <2>10. is * p = was * p - (tokens + fee) * p
    BY <1>2, <2>5, <2>9
  <2> DEFINE isp == is * p
             wasp == was * p
             pp == (tokens + fee) * p
             coins == Coins(balance, user)
  <2>11. tokens + fee \in Nat
    BY <1>2
  <2>12. isp \in Nat /\ wasp \in Nat /\ pp \in Nat /\ coins \in Int
        /\ Coins(new, user) = coins + isp - wasp /\ isp = wasp - pp
    BY <2>4, <2>5, <2>10, <2>11, ProductNat
  <2> HIDE DEF isp, wasp, pp, coins
  <2>13. Coins(new, user) = coins - pp
    BY <2>12
  <2> QED
    BY <2>13 DEF new, coins, pp, p
<1>4. \A x \in Tokens, c \in Customers \ {user} : balance'[x][c] = balance[x][c]
  BY <1>1
<1> QED
  BY <1>3, <1>4 DEF tokens, fee

\* What a deposit is worth to its customer is at most what was paid for it.
LEMMA DepositWorth ==
    ASSUME PricesKnown, StandingTerms, Typed, Typed', NEW user \in Signers,
           NEW t \in Tokens \cap DOMAIN payment_mint_state, RateAvailable(t), MRateAvailable,
           NEW payment \in Nat, Exact(payment, decimals[t]), NEW is_instant \in BOOLEAN,
           NEW d, d = calc_deposit(user, t, payment, is_instant),
           Deposit(user, t, payment, is_instant, d)
    PROVE  /\ \A x \in Tokens, c \in Customers \ {user} : balance'[x][c] = balance[x][c]
           /\ user \in Customers =>
                Coins(balance', user) = Coins(balance, user) - payment * CoinPrice(t)
           /\ d.deposited_usd \in Nat /\ d.m_token_amount \in Nat
           /\ d.deposited_usd * ONE <= payment * CoinPrice(t)
           /\ d.m_token_amount * MPrice <= d.deposited_usd * ONE
<1>1. VCTypeOK /\ DepositValid(user, t, payment, is_instant, d) /\ TakeDeposit(user, t, d)
  BY DEF Typed, SharedTypeOK, Deposit
<1>2. /\ d.fee_token_amount \in Nat /\ d.amount_token_wo_fee \in Nat
      /\ d.mint_amount_in_usd \in Nat /\ d.deposited_usd \in Nat
      /\ d.deposited_usd <= d.mint_amount_in_usd /\ d.m_token_amount \in Nat
  BY <1>1, DepositFigures
<1> DEFINE rate == get_token_rate(t)
           gross_fee == get_fee_amount(user, t, payment, is_instant)
           fee == truncate(gross_fee, decimals[t])
<1>3. rate = CoinPrice(t) /\ rate \in Nat /\ ONE \in Nat /\ ONE > 0
      /\ MRate = MPrice /\ MPrice \in Nat /\ MPrice > 0
  BY VaultAssumption, WidthAssumption DEF StandingTerms, PricesKnown, Price, MRate, MPrice
<1>4. gross_fee \in Nat
  BY <1>1, FeeAmountType
<1> HIDE DEF rate, gross_fee
<1>5. /\ d.fee_token_amount = fee /\ d.amount_token_wo_fee = payment - fee
      /\ d.mint_amount_in_usd = MulDiv(payment, rate, ONE)
      /\ d.m_token_amount = MulDiv(d.deposited_usd, ONE, MRate)
  BY DEF calc_deposit, rate, gross_fee
<1>6. fee \in Nat /\ Exact(fee, decimals[t]) /\ fee <= payment
  <2>1. decimals[t] \in 0 .. MaxDecimals
    BY VaultAssumption
  <2>2. fee <= payment
    BY <1>1, <1>5 DEF DepositValid
  <2> QED
    BY <1>2, <1>4, <1>5, <2>1, <2>2, ExactAmounts
<1> HIDE DEF fee
<1>7. Exact(payment - fee, decimals[t])
  BY <1>6, VaultAssumption, ExactAmounts
<1>8. d.amount_token_wo_fee + d.fee_token_amount = payment
  BY <1>5, <1>6
<1>9. /\ \A x \in Tokens, c \in Customers \ {user} : balance'[x][c] = balance[x][c]
      /\ user \in Customers =>
           Coins(balance', user) = Coins(balance, user) - payment * CoinPrice(t)
  <2>1. /\ Exact(d.fee_token_amount, decimals[t]) /\ Exact(d.amount_token_wo_fee, decimals[t])
        /\ ReceiversApart
    BY <1>5, <1>6, <1>7 DEF StandingTerms
  <2> QED
    BY <1>1, <1>2, <1>8, <2>1, CoinsDeposited
<1>10. d.deposited_usd * ONE <= payment * CoinPrice(t)
  <2> DEFINE usd == d.mint_amount_in_usd
             net == d.deposited_usd
  <2>1. usd * ONE <= payment * rate
    BY <1>3, <1>5, MulDivTimes
  <2>2. net \in Nat /\ usd \in Nat /\ net <= usd
    BY <1>2
  <2> HIDE DEF usd, net
  <2>3. net * ONE <= usd * ONE /\ net * ONE \in Nat /\ usd * ONE \in Nat /\ payment * rate \in Nat
    BY <1>3, <2>2, ProductMonotone, ProductNat
  <2>4. net * ONE <= payment * rate
    BY <2>1, <2>3
  <2> QED
    BY <1>3, <2>4 DEF net
<1>11. d.m_token_amount * MPrice <= d.deposited_usd * ONE
  BY <1>2, <1>3, <1>5, MulDivTimes
<1> QED
  BY <1>2, <1>9, <1>10, <1>11

\* The steps of the vaults make no customer richer.
NobodyRicher == \A u \in Customers : Owns(u)' <= Owns(u)

LEMMA MintInstantWorth ==
    ASSUME PricesKnown, StandingTerms, Typed, Typed', NEW user \in Signers, NEW t \in Tokens,
           NEW amount \in Args.amount_token, NEW least, MintInstant(user, t, amount, least),
           UNCHANGED redeemerVars
    PROVE  NobodyRicher
<1> DEFINE payment == convert_to_base_9(amount, decimals[t])
           d == calc_deposit(user, t, payment, TRUE)
<1>1. /\ t \in Tokens \cap DOMAIN payment_mint_state
      /\ RateAvailable(t) /\ MRateAvailable
      /\ Deposit(user, t, payment, TRUE, d)
      /\ MintThroughAuthority(user, d.m_token_amount)
      /\ UNCHANGED <<mint_requests, redeem_requests>>
  BY DEF MintInstant, minterVars, redeemerVars
<1>2. payment \in Nat /\ Exact(payment, decimals[t])
  <2>1. amount \in Nat /\ decimals[t] \in 0 .. MaxDecimals
    BY MinterAssumption, VaultAssumption DEF U64
  <2> QED
    BY <2>1, AmountsNat, ExactAmounts
<1> HIDE DEF payment
<1>3. d = calc_deposit(user, t, payment, TRUE)
  OBVIOUS
<1> HIDE DEF d
<1>4. /\ \A x \in Tokens, c \in Customers \ {user} : balance'[x][c] = balance[x][c]
      /\ user \in Customers =>
           Coins(balance', user) = Coins(balance, user) - payment * CoinPrice(t)
      /\ d.deposited_usd \in Nat /\ d.m_token_amount \in Nat
      /\ d.deposited_usd * ONE <= payment * CoinPrice(t)
      /\ d.m_token_amount * MPrice <= d.deposited_usd * ONE
  BY <1>1, <1>2, <1>3, DepositWorth
<1>5. /\ ClaimBook(mint_requests, redeem_requests)
      /\ balance \in [Tokens -> [Accounts -> Nat]] /\ m_balance \in [Accounts -> Nat]
      /\ Customers \subseteq Accounts /\ user \in Accounts
  BY TypedBooks
<1>6. m_balance' = [m_balance EXCEPT ![user] = @ + d.m_token_amount]
  BY <1>1 DEF MintThroughAuthority, Mint, SplMint
<1>7. ASSUME NEW u \in Customers, u # user PROVE Owns(u)' <= Owns(u)
  <2>1. m_balance'[u] = m_balance[u]
    BY <1>5, <1>6, <1>7
  <2>2. \A x \in Tokens : balance'[x][u] = balance[x][u]
    BY <1>4, <1>7
  <2> QED
    BY <1>1, <2>1, <2>2, SameWealth
<1>8. ASSUME user \in Customers PROVE Owns(user)' <= Owns(user)
  <2> DEFINE coins == Coins(balance, user)
             held == m_balance[user]
             claims == MintClaims(mint_requests, user) + RedeemClaims(redeem_requests, user)
             paid == payment * CoinPrice(t)
             got == d.m_token_amount * MPrice
             worth == held * MPrice
             usd == d.deposited_usd * ONE
  <2>1. coins \in Int /\ held \in Nat /\ MPrice \in Nat /\ claims \in Int /\ worth \in Nat
    BY <1>5, WealthTyped
  <2>2. m_balance'[user] * MPrice = worth + got
    <3>1. m_balance'[user] = held + d.m_token_amount
      BY <1>5, <1>6
    <3> HIDE DEF held
    <3> QED
      BY <1>4, <2>1, <3>1
  <2>3. /\ Owns(user)' = (coins - paid) + m_balance'[user] * MPrice + claims
        /\ Owns(user) = coins + worth + claims
    BY <1>1, <1>4, <1>8 DEF Owns, WealthOf
  <2>4. CoinPrice(t) \in Nat /\ ONE \in Nat
    BY VaultAssumption, WidthAssumption DEF PricesKnown, Price
  <2>5. paid \in Nat /\ got \in Nat /\ usd \in Nat /\ got <= usd /\ usd <= paid
    BY <1>2, <1>4, <2>1, <2>4, ProductNat
  <2> HIDE DEF coins, held, claims, paid, got, worth, usd
  <2> QED
    BY <2>1, <2>2, <2>3, <2>5
<1> QED
  BY <1>7, <1>8 DEF NobodyRicher

LEMMA MintRequestWorth ==
    ASSUME PricesKnown, StandingTerms, Typed, Typed', NEW user \in Signers, NEW t \in Tokens,
           NEW amount \in Args.amount_token, MintRequest(user, t, amount), UNCHANGED redeemerVars
    PROVE  NobodyRicher
<1> DEFINE payment == convert_to_base_9(amount, decimals[t])
           d == calc_deposit(user, t, payment, FALSE)
           terms == [user                  |-> user,
                     payment_mint          |-> t,
                     deposited_usd         |-> d.mint_amount_in_usd,
                     deposited_usd_wo_fees |-> d.deposited_usd,
                     m_mint_rate           |-> MRate]
<1>1. /\ t \in Tokens \cap DOMAIN payment_mint_state
      /\ RateAvailable(t) /\ MRateAvailable
      /\ Deposit(user, t, payment, FALSE, d)
      /\ requests_count \notin DOMAIN mint_requests
      /\ mint_requests' = WithEntry(mint_requests, requests_count, terms)
      /\ UNCHANGED <<m_balance, redeem_requests>>
  BY DEF MintRequest, taVars, redeemerVars
<1>2. payment \in Nat /\ Exact(payment, decimals[t])
  <2>1. amount \in Nat /\ decimals[t] \in 0 .. MaxDecimals
    BY MinterAssumption, VaultAssumption DEF U64
  <2> QED
    BY <2>1, AmountsNat, ExactAmounts
<1> HIDE DEF payment
<1>3. d = calc_deposit(user, t, payment, FALSE)
  OBVIOUS
<1>4. terms.user = user /\ terms.deposited_usd_wo_fees = d.deposited_usd
  OBVIOUS
<1> HIDE DEF d, terms
<1>5. /\ \A x \in Tokens, c \in Customers \ {user} : balance'[x][c] = balance[x][c]
      /\ user \in Customers =>
           Coins(balance', user) = Coins(balance, user) - payment * CoinPrice(t)
      /\ d.deposited_usd \in Nat
      /\ d.deposited_usd * ONE <= payment * CoinPrice(t)
  BY <1>1, <1>2, <1>3, DepositWorth
<1>6. /\ ClaimBook(mint_requests, redeem_requests)
      /\ balance \in [Tokens -> [Accounts -> Nat]] /\ m_balance \in [Accounts -> Nat]
      /\ Customers \subseteq Accounts /\ user \in Accounts
  BY TypedBooks
<1>7. \A u \in Customers : MintClaims(mint_requests', u) = MintClaims(mint_requests, u)
        + (IF u = user THEN d.deposited_usd * ONE ELSE 0)
  <2> SUFFICES ASSUME NEW u \in Customers
               PROVE  MintClaims(mint_requests', u) = MintClaims(mint_requests, u)
                        + (IF u = user THEN d.deposited_usd * ONE ELSE 0)
    OBVIOUS
  <2> DEFINE opened == WithEntry(mint_requests, requests_count, terms)
  <2>1. MintClaims(opened, u) = MintClaims(mint_requests, u)
          + (IF terms.user = u THEN terms.deposited_usd_wo_fees * ONE ELSE 0)
    BY <1>1, <1>4, <1>5, <1>6, MintClaimOpened
  <2>2. mint_requests' = opened
    BY <1>1
  <2> HIDE DEF opened
  <2> QED
    BY <1>4, <2>1, <2>2
<1>8. ASSUME NEW u \in Customers, u # user PROVE Owns(u)' <= Owns(u)
  <2>1. MintClaims(mint_requests', u) = MintClaims(mint_requests, u)
    <3>1. MintClaims(mint_requests, u) \in Int
      BY <1>6, ClaimsTyped
    <3> QED
      BY <1>7, <1>8, <3>1
  <2>2. \A x \in Tokens : balance'[x][u] = balance[x][u]
    BY <1>5, <1>8
  <2> QED
    BY <1>1, <2>1, <2>2, SameWealth
<1>9. ASSUME user \in Customers PROVE Owns(user)' <= Owns(user)
  <2> DEFINE coins == Coins(balance, user)
             mints == MintClaims(mint_requests, user)
             redeems == RedeemClaims(redeem_requests, user)
             paid == payment * CoinPrice(t)
             worth == m_balance[user] * MPrice
             usd == d.deposited_usd * ONE
  <2>1. coins \in Int /\ mints \in Int /\ redeems \in Int /\ worth \in Nat
    BY <1>6, WealthTyped
  <2>2. /\ Owns(user)' = (coins - paid) + worth + ((mints + usd) + redeems)
        /\ Owns(user) = coins + worth + (mints + redeems)
    BY <1>1, <1>5, <1>7, <1>9 DEF Owns, WealthOf
  <2>3. CoinPrice(t) \in Nat /\ ONE \in Nat
    BY VaultAssumption, WidthAssumption DEF PricesKnown, Price
  <2>4. paid \in Nat /\ usd \in Nat /\ usd <= paid
    BY <1>2, <1>5, <2>3, ProductNat
  <2> HIDE DEF coins, mints, redeems, paid, worth, usd
  <2> QED
    BY <2>1, <2>2, <2>4
<1> QED
  BY <1>8, <1>9 DEF NobodyRicher

\* An approved mint is worth at most its claim, at no rate below the price.
LEMMA ApproveMintWorth ==
    ASSUME PricesKnown, StandingTerms, Typed, Typed', NEW authority, NEW id,
           NEW rate \in Args.new_out_rate, NEW is_safe,
           ApproveMintRequest(authority, id, rate, is_safe), UNCHANGED redeemerVars
    PROVE  NobodyRicher
<1> DEFINE request == mint_requests[id]
           usd == request.deposited_usd_wo_fees
           minted == MulDiv(usd, ONE, rate)
<1>0. /\ id \in DOMAIN mint_requests /\ request.user \in Accounts /\ usd \in Nat
  BY SignersAssumption DEF ApproveMintRequest, Typed, MinterTypeOK, MintRequestState, U64
<1> PICK user \in Accounts : user = request.user
  BY <1>0
<1>1. /\ id \in DOMAIN mint_requests
      /\ MintThroughAuthority(user, minted)
      /\ mint_requests' = WithoutEntry(mint_requests, id)
      /\ UNCHANGED <<balance, redeem_requests>>
  BY DEF ApproveMintRequest, vcVars, redeemerVars
<1>2. /\ ClaimBook(mint_requests, redeem_requests)
      /\ balance \in [Tokens -> [Accounts -> Nat]] /\ m_balance \in [Accounts -> Nat]
      /\ Customers \subseteq Accounts
  BY TypedBooks
<1>3. /\ user \in Accounts /\ usd \in Nat
  BY <1>0
<1>4. rate \in Nat /\ rate >= MPrice /\ MPrice \in Nat /\ rate > 0 /\ ONE \in Nat
  BY MinterAssumption, VaultAssumption, WidthAssumption DEF PricesKnown, Price, U64
<1>5. m_balance' = [m_balance EXCEPT ![user] = @ + minted]
  BY <1>1 DEF MintThroughAuthority, Mint, SplMint
<1>6. \A u \in Customers : MintClaims(mint_requests', u) = MintClaims(mint_requests, u)
        - (IF u = user THEN usd * ONE ELSE 0)
  <2> SUFFICES ASSUME NEW u \in Customers
               PROVE  MintClaims(mint_requests', u) = MintClaims(mint_requests, u)
                        - (IF u = user THEN usd * ONE ELSE 0)
    OBVIOUS
  <2> DEFINE closed == WithoutEntry(mint_requests, id)
  <2>1. MintClaims(closed, u) = MintClaims(mint_requests, u)
          - (IF mint_requests[id].user = u
             THEN mint_requests[id].deposited_usd_wo_fees * ONE ELSE 0)
    BY <1>1, <1>2, MintClaimClosed
  <2>2. mint_requests' = closed
    BY <1>1
  <2> HIDE DEF closed
  <2> QED
    BY <2>1, <2>2
<1> HIDE DEF usd, request
<1>7. minted \in Nat /\ minted * MPrice <= usd * ONE
  <2>1. minted \in Nat /\ minted * rate <= usd * ONE
    BY <1>3, <1>4, MulDivTimes
  <2> HIDE DEF minted
  <2>2. MPrice * minted <= rate * minted
    BY <1>4, <2>1, ProductMonotone
  <2>3. minted * MPrice = MPrice * minted /\ minted * rate = rate * minted
        /\ usd * ONE \in Nat /\ minted * MPrice \in Nat /\ minted * rate \in Nat
    BY <1>3, <1>4, <2>1, ProductNat
  <2> QED
    BY <2>1, <2>2, <2>3
<1> HIDE DEF minted
<1>8. ASSUME NEW u \in Customers, u # user PROVE Owns(u)' <= Owns(u)
  <2>1. MintClaims(mint_requests', u) = MintClaims(mint_requests, u)
    <3>1. MintClaims(mint_requests, u) \in Int
      BY <1>2, ClaimsTyped
    <3> QED
      BY <1>6, <1>8, <3>1
  <2>2. m_balance'[u] = m_balance[u]
    BY <1>2, <1>3, <1>5, <1>8
  <2> QED
    BY <1>1, <2>1, <2>2, SameWealth
<1>9. ASSUME user \in Customers PROVE Owns(user)' <= Owns(user)
  <2> DEFINE coins == Coins(balance, user)
             mints == MintClaims(mint_requests, user)
             redeems == RedeemClaims(redeem_requests, user)
             held == m_balance[user]
             worth == held * MPrice
             got == minted * MPrice
             claim == usd * ONE
  <2>1. coins \in Int /\ mints \in Int /\ redeems \in Int /\ worth \in Nat /\ held \in Nat
    BY <1>2, <1>3, WealthTyped
  <2>2. m_balance'[user] * MPrice = worth + got
    <3>1. m_balance'[user] = held + minted
      BY <1>2, <1>3, <1>5
    <3> HIDE DEF held
    <3> QED
      BY <1>4, <1>7, <2>1, <3>1
  <2>3. /\ Owns(user)' = coins + m_balance'[user] * MPrice + ((mints - claim) + redeems)
        /\ Owns(user) = coins + worth + (mints + redeems)
    BY <1>1, <1>6, <1>9 DEF Owns, WealthOf
  <2>4. got \in Nat /\ claim \in Nat /\ got <= claim
    BY <1>3, <1>4, <1>7, ProductNat
  <2> HIDE DEF coins, mints, redeems, held, worth, got, claim
  <2> QED
    BY <2>1, <2>2, <2>3, <2>4
<1> QED
  BY <1>8, <1>9 DEF NobodyRicher

\* A rejected request leaves its customer without the claim.
LEMMA RejectedMintWorth ==
    ASSUME PricesKnown, Typed, Typed', NEW id \in DOMAIN mint_requests,
           mint_requests' = WithoutEntry(mint_requests, id),
           UNCHANGED <<balance, m_balance, redeem_requests>>
    PROVE  NobodyRicher
<1> SUFFICES ASSUME NEW u \in Customers PROVE Owns(u)' <= Owns(u)
  BY DEF NobodyRicher
<1> DEFINE closed == WithoutEntry(mint_requests, id)
           claim == IF mint_requests[id].user = u
                    THEN mint_requests[id].deposited_usd_wo_fees * ONE ELSE 0
<1>1. /\ ClaimBook(mint_requests, redeem_requests)
      /\ balance \in [Tokens -> [Accounts -> Nat]] /\ m_balance \in [Accounts -> Nat]
      /\ u \in Accounts
  BY TypedBooks
<1>2. MintClaims(closed, u) = MintClaims(mint_requests, u) - claim
  BY <1>1, MintClaimClosed
<1>3. claim \in Nat
  <2>1. MintClaim(mint_requests, u)[id] \in Nat
    BY <1>1, ClaimsTyped
  <2> QED
    BY <2>1 DEF MintClaim
<1>4. mint_requests' = closed
  OBVIOUS
<1> HIDE DEF closed, claim
<1> DEFINE coins == Coins(balance, u)
           mints == MintClaims(mint_requests, u)
           redeems == RedeemClaims(redeem_requests, u)
           worth == m_balance[u] * MPrice
<1>5. coins \in Int /\ mints \in Int /\ redeems \in Int /\ worth \in Nat
  BY <1>1, WealthTyped
<1>6. /\ Owns(u)' = coins + worth + ((mints - claim) + redeems)
      /\ Owns(u) = coins + worth + (mints + redeems)
  BY <1>2, <1>4 DEF Owns, WealthOf
<1> HIDE DEF coins, mints, redeems, worth
<1> QED
  BY <1>3, <1>5, <1>6

LEMMA RejectedRedeemWorth ==
    ASSUME PricesKnown, Typed, Typed', NEW id \in DOMAIN redeem_requests,
           redeem_requests' = WithoutEntry(redeem_requests, id),
           UNCHANGED <<balance, m_balance, mint_requests>>
    PROVE  NobodyRicher
<1> SUFFICES ASSUME NEW u \in Customers PROVE Owns(u)' <= Owns(u)
  BY DEF NobodyRicher
<1> DEFINE closed == WithoutEntry(redeem_requests, id)
           claim == IF redeem_requests[id].user = u
                    THEN redeem_requests[id].m_token_amount * redeem_requests[id].m_token_rate
                    ELSE 0
<1>1. /\ ClaimBook(mint_requests, redeem_requests)
      /\ balance \in [Tokens -> [Accounts -> Nat]] /\ m_balance \in [Accounts -> Nat]
      /\ u \in Accounts
  BY TypedBooks
<1>2. RedeemClaims(closed, u) = RedeemClaims(redeem_requests, u) - claim
  BY <1>1, RedeemClaimClosed
<1>3. claim \in Nat
  <2>1. RedeemClaim(redeem_requests, u)[id] \in Nat
    BY <1>1, ClaimsTyped
  <2> QED
    BY <2>1 DEF RedeemClaim
<1>4. redeem_requests' = closed
  OBVIOUS
<1> HIDE DEF closed, claim
<1> DEFINE coins == Coins(balance, u)
           mints == MintClaims(mint_requests, u)
           redeems == RedeemClaims(redeem_requests, u)
           worth == m_balance[u] * MPrice
<1>5. coins \in Int /\ mints \in Int /\ redeems \in Int /\ worth \in Nat
  BY <1>1, WealthTyped
<1>6. /\ Owns(u)' = coins + worth + (mints + (redeems - claim))
      /\ Owns(u) = coins + worth + (mints + redeems)
  BY <1>2, <1>4 DEF Owns, WealthOf
<1> HIDE DEF coins, mints, redeems, worth
<1> QED
  BY <1>3, <1>5, <1>6

\* A fee in mTokens costs its customer the fee and no other customer anything.
LEMMA FeeCosts ==
    ASSUME PricesKnown, StandingTerms, Typed, NEW bal \in [Accounts -> Nat],
           NEW user \in Signers, NEW fee \in Nat, FeePayable(bal, user, fee)
    PROVE  /\ \A c \in Customers \ {user} : FeePaid(bal, user, fee)[c] = bal[c]
           /\ user \in Customers => FeePaid(bal, user, fee)[user] = bal[user] - fee
<1> DEFINE to == config.fee_receiver
<1>1. to \in Accounts /\ to \notin Customers /\ user \in Accounts /\ Customers \subseteq Accounts
  BY CustomersAssumption, SignersAssumption
     DEF Typed, SharedTypeOK, VCTypeOK, Config, StandingTerms, ReceiversApart
<1>2. MRaw(fee) = fee
  BY SameDecimals DEF PricesKnown
<1>3. FeePaid(bal, user, fee) = Transferred(bal, user, to, fee)
  BY <1>2 DEF FeePaid
<1> HIDE DEF to
<1>4. /\ \A x \in Accounts \ {user, to} : Transferred(bal, user, to, fee)[x] = bal[x]
      /\ user # to => Transferred(bal, user, to, fee)[user] = bal[user] - fee
  BY <1>1, TransferMoves
<1>5. user = to => Transferred(bal, user, to, fee) = bal
  BY DEF Transferred
<1> QED
  BY <1>1, <1>3, <1>4, <1>5

\* mTokens redeemed at once: the payout is worth at most what is burned.
LEMMA RedeemInstantWorth ==
    ASSUME PricesKnown, StandingTerms, Typed, Typed', NEW user \in Signers, NEW t \in Tokens,
           NEW amount \in Args.amount_m_token, NEW least,
           RedeemInstant(user, t, amount, least), UNCHANGED minterVars
    PROVE  NobodyRicher
<1> DEFINE rate == get_token_rate(t)
           fee == redeem_fee(user, t, amount, TRUE)
           wo_fee == amount - fee
           net == MulDiv(wo_fee, MRate, rate)
           payout == truncate(net, decimals[t])
           burned == Burned(user, wo_fee)
<1>1. /\ t \in Tokens \cap DOMAIN payment_mint_state
      /\ RateAvailable(t) /\ MRateAvailable
      /\ RedeemValid(user, t, amount, TRUE)
      /\ CanBurn(user, wo_fee)
      /\ FeePayable(burned, user, fee)
      /\ m_balance' = FeePaid(burned, user, fee)
      /\ balance' = Paid(t, balance, redeemer_vault, user, payout)
      /\ UNCHANGED <<mint_requests, redeem_requests>>
  BY DEF RedeemInstant, redeemerVars, minterVars
<1>2. /\ RedeemTyped /\ amount \in U64 /\ amount \in Nat
      /\ redeemer_vault \in Accounts \ Customers
  BY RedeemerAssumption, VaultAssumption, CustomersAssumption DEF Typed, RedeemTyped, U64
<1>3. /\ ClaimBook(mint_requests, redeem_requests)
      /\ balance \in [Tokens -> [Accounts -> Nat]] /\ m_balance \in [Accounts -> Nat]
      /\ Customers \subseteq Accounts /\ user \in Accounts
  BY TypedBooks
<1>4. rate = CoinPrice(t) /\ rate \in Nat /\ rate > 0 /\ MRate = MPrice /\ MPrice \in Nat
  BY <1>1, WidthAssumption DEF StandingTerms, PricesKnown, Price, MRate, MPrice
<1>5. fee \in Nat /\ wo_fee \in Nat
  <2>1. fee \in Nat /\ wo_fee \in U64
    BY <1>1, <1>2, RedeemFeeType, NetAmountType
  <2> HIDE DEF fee, wo_fee
  <2> QED
    BY <2>1 DEF U64
<1> HIDE DEF rate, fee, wo_fee
<1>6. net \in Nat /\ net * CoinPrice(t) <= wo_fee * MPrice
  BY <1>4, <1>5, MulDivTimes
<1> HIDE DEF net
<1>7. payout \in Nat /\ payout <= net
  BY <1>6, VaultAssumption, TruncateFacts
<1> HIDE DEF payout
<1>8. payout * CoinPrice(t) <= wo_fee * MPrice
  <2>1. payout * CoinPrice(t) <= net * CoinPrice(t)
    BY <1>4, <1>6, <1>7, ProductMonotone
  <2>2. /\ payout * CoinPrice(t) \in Nat /\ net * CoinPrice(t) \in Nat /\ wo_fee * MPrice \in Nat
    BY <1>4, <1>5, <1>6, <1>7, ProductNat
  <2> QED
    BY <1>6, <2>1, <2>2
<1>9. /\ \A x \in Tokens, c \in Customers \ {user} : balance'[x][c] = balance[x][c]
      /\ user \in Customers =>
           Coins(balance', user) <= Coins(balance, user) + payout * CoinPrice(t)
  BY <1>1, <1>2, <1>7, CoinsPaidOut
<1>10. /\ burned \in [Accounts -> Nat] /\ burned[user] = m_balance[user] - wo_fee
       /\ \A c \in Accounts \ {user} : burned[c] = m_balance[c]
  BY <1>1, <1>3, <1>5, DebitType DEF CanBurn, Burned
<1> HIDE DEF burned
<1>11. /\ \A c \in Customers \ {user} : m_balance'[c] = m_balance[c]
       /\ user \in Customers => m_balance'[user] = (m_balance[user] - wo_fee) - fee
  BY <1>1, <1>3, <1>5, <1>10, FeeCosts
<1>12. ASSUME NEW u \in Customers, u # user PROVE Owns(u)' <= Owns(u)
  <2>1. m_balance'[u] = m_balance[u] /\ \A x \in Tokens : balance'[x][u] = balance[x][u]
    BY <1>9, <1>11, <1>12
  <2> QED
    BY <1>1, <2>1, SameWealth
<1>13. ASSUME user \in Customers PROVE Owns(user)' <= Owns(user)
  <2> DEFINE coins == Coins(balance, user)
             mints == MintClaims(mint_requests, user)
             redeems == RedeemClaims(redeem_requests, user)
             held == m_balance[user]
             left == m_balance'[user]
             worth == held * MPrice
             rest == left * MPrice
             burnt == wo_fee * MPrice
             got == payout * CoinPrice(t)
  <2>1. coins \in Int /\ mints \in Int /\ redeems \in Int /\ worth \in Nat /\ held \in Nat
    BY <1>3, WealthTyped
  <2>2. left = (held - wo_fee) - fee /\ left \in Nat
    <3>1. m_balance' \in [Accounts -> Nat]
      BY DEF Typed, SharedTypeOK, TATypeOK
    <3> QED
      BY <1>3, <1>11, <1>13, <3>1
  <2>3. Coins(balance', user) \in Int
    <3>1. balance' \in [Tokens -> [Accounts -> Nat]]
      BY DEF Typed, SharedTypeOK, VCTypeOK
    <3> QED
      BY <1>3, <3>1, CoinsTyped
  <2>4. /\ Owns(user)' = Coins(balance', user) + rest + (mints + redeems)
        /\ Owns(user) = coins + worth + (mints + redeems)
    BY <1>1 DEF Owns, WealthOf
  <2>5. rest <= worth - burnt /\ rest \in Nat /\ burnt \in Nat
    <3> HIDE DEF held, left
    <3>1. left + wo_fee <= held /\ left + wo_fee \in Nat
      BY <1>5, <2>1, <2>2
    <3>2. (left + wo_fee) * MPrice <= held * MPrice
      BY <1>4, <2>1, <3>1, ProductMonotone
    <3>3. (left + wo_fee) * MPrice = left * MPrice + wo_fee * MPrice
      BY <1>4, <1>5, <2>2
    <3>4. rest \in Nat /\ burnt \in Nat
      BY <1>4, <1>5, <2>2, ProductNat
    <3>5. rest + burnt <= worth
      BY <3>2, <3>3
    <3> HIDE DEF rest, burnt, worth
    <3> QED
      BY <2>1, <3>4, <3>5
  <2>6. got \in Nat /\ got <= burnt /\ Coins(balance', user) <= coins + got
    BY <1>4, <1>7, <1>8, <1>9, <1>13, ProductNat
  <2> HIDE DEF coins, mints, redeems, held, left, worth, rest, burnt, got
  <2> DEFINE now_coins == Coins(balance', user)
  <2> HIDE DEF now_coins
  <2>7. now_coins \in Int /\ now_coins <= coins + got
    BY <2>3, <2>6 DEF now_coins
  <2>8. now_coins + rest + (mints + redeems) <= coins + worth + (mints + redeems)
    BY <2>1, <2>5, <2>6, <2>7
  <2> QED
    BY <2>4, <2>8 DEF now_coins
<1> QED
  BY <1>12, <1>13 DEF NobodyRicher

\* A redeem request claims what its escrow is worth, at the prices that stand.
LEMMA RedeemRequestWorth ==
    ASSUME PricesKnown, StandingTerms, RecordedAtPrice, Typed, Typed', NEW user \in Signers,
           NEW t \in DOMAIN payment_mint_state, NEW amount \in Args.amount_m_token,
           NEW payment_rate, t \in Tokens => payment_rate = CoinPrice(t),
           CreateRedeemRequest(user, t, amount, payment_rate), UNCHANGED minterVars
    PROVE  NobodyRicher /\ RecordedAtPrice'
<1> DEFINE fee == redeem_fee(user, t, amount, FALSE)
           wo_fee == amount - fee
           escrowed == Transferred(m_balance, user, redeemer_vault, MRaw(wo_fee))
           terms == redeem_terms(user, t, amount, fee, payment_rate)
<1>1. /\ MRateAvailable
      /\ requests_count \notin DOMAIN redeem_requests
      /\ RedeemValid(user, t, amount, FALSE)
      /\ CanMoveM(m_balance, user, redeemer_vault, MRaw(wo_fee))
      /\ FeePayable(escrowed, user, fee)
      /\ m_balance' = FeePaid(escrowed, user, fee)
      /\ redeem_requests' = WithEntry(redeem_requests, requests_count, terms)
      /\ UNCHANGED <<balance, mint_requests, price>>
  BY DEF CreateRedeemRequest, minterVars, envVars
<1>2. /\ RedeemTyped /\ amount \in U64 /\ amount \in Nat
      /\ redeemer_vault \in Accounts \ Customers /\ user # redeemer_vault
  BY RedeemerAssumption, VaultAssumption, CustomersAssumption DEF Typed, RedeemTyped, U64
<1>3. /\ ClaimBook(mint_requests, redeem_requests)
      /\ balance \in [Tokens -> [Accounts -> Nat]] /\ m_balance \in [Accounts -> Nat]
      /\ Customers \subseteq Accounts /\ user \in Accounts
  BY TypedBooks
<1>4. MRate = MPrice /\ MPrice \in Nat
  BY WidthAssumption DEF StandingTerms, PricesKnown, Price, MRate, MPrice
<1>5. fee \in Nat /\ wo_fee \in Nat
  <2>1. fee \in Nat /\ wo_fee \in U64
    BY <1>1, <1>2, RedeemFeeType, NetAmountType
  <2> HIDE DEF fee, wo_fee
  <2> QED
    BY <2>1 DEF U64
<1>6. /\ terms.user = user /\ terms.m_token_amount = wo_fee /\ terms.m_token_rate = MPrice
      /\ terms.payment_mint = t /\ terms.payment_mint_rate = payment_rate
  BY <1>4 DEF redeem_terms
<1> HIDE DEF terms, fee, wo_fee
<1>7. /\ MRaw(wo_fee) = wo_fee
      /\ escrowed \in [Accounts -> Nat] /\ escrowed[user] = m_balance[user] - wo_fee
      /\ \A c \in Customers \ {user} : escrowed[c] = m_balance[c]
  <2>1. MRaw(wo_fee) = wo_fee
    BY <1>5, SameDecimals DEF PricesKnown
  <2>2. escrowed = Transferred(m_balance, user, redeemer_vault, wo_fee)
        /\ CanTransfer(m_balance, user, wo_fee)
    BY <1>1, <2>1 DEF CanMoveM
  <2>3. escrowed \in [Accounts -> Nat]
    BY <1>2, <1>3, <1>5, <2>2, TransferredType
  <2>4. /\ \A x \in Accounts \ {user, redeemer_vault} : escrowed[x] = m_balance[x]
        /\ escrowed[user] = m_balance[user] - wo_fee
    BY <1>2, <1>3, <1>5, <2>2, TransferMoves
  <2> HIDE DEF escrowed
  <2> QED
    BY <1>2, <1>3, <2>1, <2>3, <2>4
<1> HIDE DEF escrowed
<1>8. /\ \A c \in Customers \ {user} : m_balance'[c] = m_balance[c]
      /\ user \in Customers => m_balance'[user] = (m_balance[user] - wo_fee) - fee
  BY <1>1, <1>3, <1>5, <1>7, FeeCosts
<1>9. \A u \in Customers : RedeemClaims(redeem_requests', u) = RedeemClaims(redeem_requests, u)
        + (IF u = user THEN wo_fee * MPrice ELSE 0)
  <2> SUFFICES ASSUME NEW u \in Customers
               PROVE  RedeemClaims(redeem_requests', u) = RedeemClaims(redeem_requests, u)
                        + (IF u = user THEN wo_fee * MPrice ELSE 0)
    OBVIOUS
  <2> DEFINE opened == WithEntry(redeem_requests, requests_count, terms)
  <2>1. RedeemClaims(opened, u) = RedeemClaims(redeem_requests, u)
          + (IF terms.user = u THEN terms.m_token_amount * terms.m_token_rate ELSE 0)
    BY <1>1, <1>3, <1>4, <1>5, <1>6, RedeemClaimOpened
  <2>2. redeem_requests' = opened
    BY <1>1
  <2> HIDE DEF opened
  <2> QED
    BY <1>6, <2>1, <2>2
<1>10. ASSUME NEW u \in Customers, u # user PROVE Owns(u)' <= Owns(u)
  <2>1. RedeemClaims(redeem_requests', u) = RedeemClaims(redeem_requests, u)
    <3>1. RedeemClaims(redeem_requests, u) \in Int
      BY <1>3, ClaimsTyped
    <3> QED
      BY <1>9, <1>10, <3>1
  <2>2. m_balance'[u] = m_balance[u]
    BY <1>8, <1>10
  <2> QED
    BY <1>1, <2>1, <2>2, SameWealth
<1>11. ASSUME user \in Customers PROVE Owns(user)' <= Owns(user)
  <2> DEFINE coins == Coins(balance, user)
             mints == MintClaims(mint_requests, user)
             redeems == RedeemClaims(redeem_requests, user)
             held == m_balance[user]
             left == m_balance'[user]
             worth == held * MPrice
             rest == left * MPrice
             claim == wo_fee * MPrice
  <2>1. coins \in Int /\ mints \in Int /\ redeems \in Int /\ worth \in Nat /\ held \in Nat
    BY <1>3, WealthTyped
  <2>2. left = (held - wo_fee) - fee /\ left \in Nat
    <3>1. m_balance' \in [Accounts -> Nat]
      BY DEF Typed, SharedTypeOK, TATypeOK
    <3> QED
      BY <1>3, <1>8, <1>11, <3>1
  <2>3. /\ Owns(user)' = coins + rest + (mints + (redeems + claim))
        /\ Owns(user) = coins + worth + (mints + redeems)
    BY <1>1, <1>9, <1>11 DEF Owns, WealthOf
  <2>4. rest <= worth - claim /\ rest \in Nat /\ claim \in Nat
    <3> HIDE DEF held, left
    <3>1. left + wo_fee <= held /\ left + wo_fee \in Nat
      BY <1>5, <2>1, <2>2
    <3>2. (left + wo_fee) * MPrice <= held * MPrice
      BY <1>4, <2>1, <3>1, ProductMonotone
    <3>3. (left + wo_fee) * MPrice = left * MPrice + wo_fee * MPrice
      BY <1>4, <1>5, <2>2
    <3>4. rest \in Nat /\ claim \in Nat
      BY <1>4, <1>5, <2>2, ProductNat
    <3>5. rest + claim <= worth
      BY <3>2, <3>3
    <3> HIDE DEF rest, claim, worth
    <3> QED
      BY <2>1, <3>4, <3>5
  <2> HIDE DEF coins, mints, redeems, held, left, worth, rest, claim
  <2> QED
    BY <2>1, <2>3, <2>4
<1>12. RecordedAtPrice'
  <2> DEFINE book == redeem_requests'
  <2>1. /\ DOMAIN book = DOMAIN redeem_requests \cup {requests_count}
        /\ book[requests_count] = terms
        /\ \A id \in DOMAIN redeem_requests : book[id] = redeem_requests[id]
    BY <1>1 DEF WithEntry
  <2> HIDE DEF book
  <2>2. \A id \in DOMAIN book :
           /\ book[id].m_token_rate = MPrice
           /\ book[id].payment_mint \in Tokens =>
                 book[id].payment_mint_rate = CoinPrice(book[id].payment_mint)
    BY <1>6, <2>1 DEF RecordedAtPrice
  <2> QED
    BY <2>2 DEF RecordedAtPrice, book, CoinPrice, MPrice
<1> QED
  BY <1>10, <1>11, <1>12 DEF NobodyRicher

\* An approved request pays at most its claim, at no rate above the price.
LEMMA SettledRedeemWorth ==
    ASSUME PricesKnown, StandingTerms, RecordedAtPrice, Typed, Typed', NEW authority, NEW id,
           NEW rate \in Args.new_m_token_rate, NEW is_safe,
           \/ ApproveRedeemRequest(authority, id, rate, is_safe)
           \/ ApproveRedeemRequestFiat(authority, id, rate, is_safe),
           UNCHANGED minterVars
    PROVE  NobodyRicher
<1> DEFINE request == redeem_requests[id]
           payout == redeem_payout(request, rate)
           tokens == request.m_token_amount
<1>1. SettleRedeem(authority, id, rate, is_safe)
  BY DEF ApproveRedeemRequest, ApproveRedeemRequestFiat
<1>2. /\ id \in DOMAIN redeem_requests
      /\ m_balance' = [m_balance EXCEPT ![redeemer_vault] = @ - tokens]
      /\ redeem_requests' = WithoutEntry(redeem_requests, id)
      /\ UNCHANGED mint_requests
  BY <1>1 DEF SettleRedeem, Burned, minterVars
<1>3. /\ ClaimBook(mint_requests, redeem_requests)
      /\ balance \in [Tokens -> [Accounts -> Nat]] /\ m_balance \in [Accounts -> Nat]
      /\ Customers \subseteq Accounts
      /\ RedeemTyped
      /\ redeemer_vault \in Accounts \ Customers
  BY TypedBooks, VaultAssumption, CustomersAssumption DEF Typed, RedeemTyped
<1>4. request \in RedeemRequestState /\ payout \in Nat
  BY <1>1, <1>3, SettleRedeemType
<1>5. /\ request.user \in Signers /\ tokens \in Nat
      /\ request.payment_mint_rate \in Nat /\ request.payment_mint_rate > 0
      /\ rate \in Nat /\ rate <= MPrice /\ MPrice \in Nat
      /\ request.m_token_rate = MPrice
  BY <1>2, <1>4, RedeemerAssumption, WidthAssumption
     DEF RedeemRequestState, U64, Price, PricesKnown, RecordedAtPrice
<1> PICK user \in Signers : user = request.user
  BY <1>5
<1>6. \A c \in Customers : m_balance'[c] = m_balance[c]
  BY <1>2, <1>3
<1>7. \A u \in Customers : RedeemClaims(redeem_requests', u) = RedeemClaims(redeem_requests, u)
        - (IF u = user THEN tokens * MPrice ELSE 0)
  <2> SUFFICES ASSUME NEW u \in Customers
               PROVE  RedeemClaims(redeem_requests', u) = RedeemClaims(redeem_requests, u)
                        - (IF u = user THEN tokens * MPrice ELSE 0)
    OBVIOUS
  <2> DEFINE closed == WithoutEntry(redeem_requests, id)
  <2>1. RedeemClaims(closed, u) = RedeemClaims(redeem_requests, u)
          - (IF redeem_requests[id].user = u
             THEN redeem_requests[id].m_token_amount * redeem_requests[id].m_token_rate ELSE 0)
    BY <1>2, <1>3, RedeemClaimClosed
  <2>2. redeem_requests' = closed
    BY <1>2
  <2> HIDE DEF closed
  <2> QED
    BY <1>5, <2>1, <2>2
<1>8. /\ \A x \in Tokens, c \in Customers \ {user} : balance'[x][c] = balance[x][c]
      /\ user \in Customers => Coins(balance', user) <= Coins(balance, user) + tokens * MPrice
  <2>1. CASE ApproveRedeemRequestFiat(authority, id, rate, is_safe)
    <3>1. UNCHANGED balance
      BY <2>1 DEF ApproveRedeemRequestFiat
    <3>2. tokens * MPrice \in Nat
      BY <1>5, ProductNat
    <3>3. \A u \in Customers : Coins(balance, u) \in Int
      BY <1>3, CoinsTyped
    <3> DEFINE claim == tokens * MPrice
    <3>4. claim \in Nat
      BY <3>2
    <3> HIDE DEF claim
    <3>5. user \in Customers => Coins(balance, user) <= Coins(balance, user) + claim
      BY <3>3, <3>4
    <3> QED
      BY <3>1, <3>5 DEF claim
  <2>2. CASE ApproveRedeemRequest(authority, id, rate, is_safe)
    <3>1. PICK t \in Tokens, payer \in Accounts \ Customers :
            /\ t = request.payment_mint
            /\ balance' = Paid(t, balance, payer, request.user, payout)
      <4>1. /\ request.payment_mint \in Tokens
            /\ balance' = Paid(request.payment_mint, balance, redeemer.request_redeemer,
                               request.user, payout)
        BY <2>2 DEF ApproveRedeemRequest
      <4>2. redeemer.request_redeemer \in Accounts \ Customers
        BY DEF StandingTerms, ReceiversApart, Typed, RedeemerTypeOK, Redeemer
      <4> QED
        BY <4>1, <4>2, Zenon
    <3>2. balance' = Paid(t, balance, payer, user, payout)
      BY <3>1
    <3> DEFINE p == CoinPrice(t)
               net == MulDiv(tokens, rate, p)
    <3>3. request.payment_mint_rate = p
      BY <1>2, <3>1 DEF RecordedAtPrice
    <3>4. p \in Nat /\ p > 0
      BY <1>5, <3>3
    <3>5. payout = truncate(net, decimals[t])
      <4>1. t # FIAT_MINT
        BY VaultAssumption
      <4> QED
        BY <3>1, <3>3, <4>1 DEF redeem_payout, pay_decimals
    <3> HIDE DEF request, payout, tokens, p
    <3>6. net \in Nat /\ net * p <= tokens * rate
      BY <1>5, <3>4, MulDivTimes
    <3> HIDE DEF net
    <3>7. payout <= net
      BY <3>5, <3>6, VaultAssumption, TruncateFacts
    <3>8. payout * p <= net * p
      BY <1>4, <3>4, <3>6, <3>7, ProductMonotone
    <3>9. rate * tokens <= MPrice * tokens
      BY <1>5, ProductMonotone
    <3>10. /\ payout * p \in Nat /\ net * p \in Nat /\ rate * tokens \in Nat
           /\ tokens * rate = rate * tokens /\ tokens * MPrice = MPrice * tokens
           /\ tokens * MPrice \in Nat
      BY <1>4, <1>5, <3>4, <3>6, ProductNat
    <3> DEFINE got == payout * p
               claim == tokens * MPrice
    <3>11. got <= claim /\ got \in Nat /\ claim \in Nat
      BY <3>6, <3>8, <3>9, <3>10
    <3> HIDE DEF got, claim
    <3>12. /\ \A x \in Tokens, c \in Customers \ {user} : balance'[x][c] = balance[x][c]
           /\ user \in Customers => Coins(balance', user) <= Coins(balance, user) + got
      BY <1>4, <3>2, CoinsPaidOut DEF got, p
    <3>13. user \in Customers => Coins(balance', user) \in Int /\ Coins(balance, user) \in Int
      <4>1. balance' \in [Tokens -> [Accounts -> Nat]]
        BY DEF Typed, SharedTypeOK, VCTypeOK
      <4> QED
        BY <1>3, <4>1, CoinsTyped
    <3>14. user \in Customers => Coins(balance', user) <= Coins(balance, user) + claim
      <4> DEFINE is == Coins(balance', user)
      <4> HIDE DEF is
      <4>1. user \in Customers => is <= Coins(balance, user) + got /\ is \in Int
        BY <3>12, <3>13 DEF is
      <4>2. user \in Customers => is <= Coins(balance, user) + claim
        BY <3>11, <3>13, <4>1
      <4> QED
        BY <4>2 DEF is
    <3> QED
      BY <3>12, <3>14 DEF claim
  <2> QED
    BY <2>1, <2>2
<1> HIDE DEF request, payout, tokens
<1>9. ASSUME NEW u \in Customers, u # user PROVE Owns(u)' <= Owns(u)
  <2>1. RedeemClaims(redeem_requests', u) = RedeemClaims(redeem_requests, u)
    <3>1. RedeemClaims(redeem_requests, u) \in Int
      BY <1>3, ClaimsTyped
    <3> QED
      BY <1>7, <1>9, <3>1
  <2>2. \A x \in Tokens : balance'[x][u] = balance[x][u]
    BY <1>8, <1>9
  <2>3. m_balance'[u] = m_balance[u]
    BY <1>6
  <2> QED
    BY <1>2, <2>1, <2>2, <2>3, SameWealth
<1>10. ASSUME user \in Customers PROVE Owns(user)' <= Owns(user)
  <2> DEFINE coins == Coins(balance, user)
             is == Coins(balance', user)
             mints == MintClaims(mint_requests, user)
             redeems == RedeemClaims(redeem_requests, user)
             worth == m_balance[user] * MPrice
             claim == tokens * MPrice
  <2>1. coins \in Int /\ mints \in Int /\ redeems \in Int /\ worth \in Nat
    BY <1>3, <1>10, WealthTyped
  <2>2. is \in Int
    <3>1. balance' \in [Tokens -> [Accounts -> Nat]]
      BY DEF Typed, SharedTypeOK, VCTypeOK
    <3> QED
      BY <1>3, <1>10, <3>1, CoinsTyped
  <2>3. /\ Owns(user)' = is + worth + (mints + (redeems - claim))
        /\ Owns(user) = coins + worth + (mints + redeems)
    BY <1>2, <1>6, <1>7, <1>10 DEF Owns, WealthOf
  <2>4. claim \in Nat /\ is <= coins + claim
    BY <1>5, <1>8, <1>10, ProductNat
  <2> HIDE DEF coins, is, mints, redeems, worth, claim
  <2>5. is + worth + (mints + (redeems - claim)) <= coins + worth + (mints + redeems)
    BY <2>1, <2>2, <2>4
  <2> QED
    BY <2>3, <2>5
<1> QED
  BY <1>9, <1>10 DEF NobodyRicher

\* What the customers own together, and what they started with.
Started(u) == Coins(Deployed.balance, u) + Deployed.m_balance[u] * MPrice
OwnedTogether == SumFunction([u \in Customers |-> Owns(u)])

ValueInv ==
    /\ Typed
    /\ RecordedAtPrice
    /\ OwnedTogether <= SumFunction([u \in Customers |-> Started(u)])

LEMMA OwnsTyped ==
    ASSUME PricesKnown, Typed
    PROVE  \A u \in Customers : Owns(u) \in Int
BY TypedBooks, WealthTyped DEF Owns

LEMMA OwnsTypedNext ==
    ASSUME PricesKnown, Typed'
    PROVE  \A u \in Customers : Owns(u)' \in Int
<1>1. Typed' => /\ ClaimBook(mint_requests', redeem_requests')
                /\ balance' \in [Tokens -> [Accounts -> Nat]]
                /\ m_balance' \in [Accounts -> Nat]
                /\ Customers \subseteq Accounts
  <2>1. Typed' => ClaimBook(mint_requests', redeem_requests')
    BY BooksAreClaimBooks DEF Typed, MinterTypeOK, RedeemerTypeOK
  <2> QED
    BY <2>1, CustomersAssumption, SignersAssumption DEF Typed, SharedTypeOK, VCTypeOK, TATypeOK
<1>2. ASSUME NEW u \in Customers
      PROVE  WealthOf(balance', m_balance', mint_requests', redeem_requests', u) \in Int
  BY <1>1, WealthTyped
<1>3. \A u \in Customers :
         Owns(u)' = WealthOf(balance', m_balance', mint_requests', redeem_requests', u)
  BY DEF Owns, WealthOf, MPrice, Coins, CoinWorth, CoinPrice, MintClaims, MintClaim, RedeemClaims,
         RedeemClaim
<1> QED
  BY <1>2, <1>3

\* What one gives another leaves the sum as it is.
LEMMA SumTransferred ==
    ASSUME NEW S, IsFiniteSet(S), NEW f \in [S -> Int], NEW from \in S, NEW to \in S, from # to,
           NEW x \in Int, NEW h \in [S -> Int], h[from] = f[from] - x, h[to] = f[to] + x,
           \A y \in S \ {from, to} : h[y] = f[y]
    PROVE  SumFunctionOnSet(h, S) = SumFunctionOnSet(f, S)
<1> DEFINE g == [f EXCEPT ![from] = @ - x]
<1>1. /\ g \in [S -> Int]
      /\ g[from] = f[from] - x /\ \A y \in S \ {from} : g[y] = f[y]
      /\ h[to] = f[to] + x /\ \A y \in S \ {to} : h[y] = g[y]
      /\ g[to] = f[to]
  OBVIOUS
<1>2. SumFunctionOnSet(f, S) \in Int
  BY SumOfInts
<1> HIDE DEF g
<1>3. SumFunctionOnSet(g, S) = SumFunctionOnSet(f, S) + g[from] - f[from]
  BY <1>1, SumChanged
<1>4. SumFunctionOnSet(h, S) = SumFunctionOnSet(g, S) + h[to] - g[to]
  <2>1. \A y \in S \ {to} : g[y] \in Int /\ h[y] = g[y]
    BY <1>1
  <2>2. g[to] \in Int /\ h[to] \in Int
    BY <1>1
  <2> QED
    BY <2>1, <2>2, SumChanged
<1>5. SumFunctionOnSet(h, S) = SumFunctionOnSet(f, S)
  <2>1. f[from] \in Int /\ f[to] \in Int
    OBVIOUS
  <2> QED
    BY <1>1, <1>2, <1>3, <1>4, <2>1
<1> QED
  BY <1>1, <1>5

\* If nobody is richer, all together are not.
LEMMA NobodyRicherTogether ==
    ASSUME PricesKnown, Typed, Typed', NobodyRicher
    PROVE  OwnedTogether' <= OwnedTogether
<1> DEFINE f == [u \in Customers |-> Owns(u)]
           g == [u \in Customers |-> Owns(u)]'
<1>1. /\ DOMAIN f = Customers /\ DOMAIN g = Customers
      /\ \A u \in Customers : g[u] \in Int /\ f[u] \in Int /\ g[u] <= f[u]
  BY OwnsTyped, OwnsTypedNext DEF NobodyRicher
<1>2. OwnedTogether = SumFunction(f) /\ OwnedTogether' = SumFunction(g)
  BY DEF OwnedTogether
<1> HIDE DEF f, g
<1>3. /\ OwnedTogether = SumFunctionOnSet(f, Customers)
      /\ OwnedTogether' = SumFunctionOnSet(g, Customers)
  BY <1>1, <1>2 DEF SumFunction
<1>4. SumFunctionOnSet(g, Customers) <= SumFunctionOnSet(f, Customers)
  BY <1>1, CustomersAssumption, SumMonotone
<1> QED
  BY <1>3, <1>4

\* Beside the vaults' instructions the customers gain nothing together.
LEMMA CommonWorth ==
    ASSUME PricesKnown, Typed, Typed', CommonNext, NothingGiven
    PROVE  OwnedTogether' <= OwnedTogether
<1>1. /\ ClaimBook(mint_requests, redeem_requests)
      /\ balance \in [Tokens -> [Accounts -> Nat]] /\ m_balance \in [Accounts -> Nat]
      /\ balance' \in [Tokens -> [Accounts -> Nat]] /\ m_balance' \in [Accounts -> Nat]
      /\ Customers \subseteq Accounts /\ MPrice \in Nat
  BY TypedBooks, WidthAssumption
     DEF Typed, SharedTypeOK, VCTypeOK, TATypeOK, PricesKnown, Price
<1>2. UNCHANGED <<mint_requests, redeem_requests>>
  BY OutsideRequests
<1>3. \A u \in Customers : Coins(balance', u) <= Coins(balance, u)
  <2>1. \A t \in Tokens, c \in Customers : balance'[t][c] <= balance[t][c]
    BY DEF NothingGiven
  <2> QED
    BY <1>1, <2>1, CoinsFewer
<1>4. ASSUME NEW u \in Customers, NEW gain \in Int,
             m_balance'[u] * MPrice = m_balance[u] * MPrice + gain
      PROVE  Owns(u)' <= Owns(u) + gain
  <2> DEFINE coins == Coins(balance, u)
             is == Coins(balance', u)
             worth == m_balance[u] * MPrice
             rest == m_balance'[u] * MPrice
             claims == MintClaims(mint_requests, u) + RedeemClaims(redeem_requests, u)
  <2>1. coins \in Int /\ is \in Int /\ worth \in Int /\ claims \in Int /\ is <= coins
    <3>1. u \in Accounts
      BY <1>1
    <3>2. coins \in Int /\ worth \in Nat /\ claims \in Int
      <4>1. /\ MintClaims(mint_requests, u) \in Int /\ RedeemClaims(redeem_requests, u) \in Int
            /\ coins \in Int /\ worth \in Nat
        BY <1>1, <3>1, WealthTyped
      <4> QED
        BY <4>1
    <3>3. is \in Int
      BY <1>1, <3>1, CoinsTyped
    <3>4. is <= coins
      BY <1>3
    <3> QED
      BY <3>2, <3>3, <3>4
  <2>2. Owns(u)' = is + rest + claims /\ Owns(u) = coins + worth + claims
    BY <1>2 DEF Owns, WealthOf
  <2>3. rest = worth + gain
    BY <1>4
  <2> HIDE DEF coins, is, worth, rest, claims
  <2>4. is + rest + claims <= coins + worth + claims + gain
    BY <1>4, <2>1, <2>3
  <2> QED
    BY <2>2, <2>4
<1>5. CASE \A c \in Customers : m_balance'[c] <= m_balance[c]
  <2> SUFFICES ASSUME NEW u \in Customers PROVE Owns(u)' <= Owns(u)
    BY NobodyRicherTogether DEF NobodyRicher
  <2> DEFINE worth == m_balance[u] * MPrice
             rest == m_balance'[u] * MPrice
  <2>1. m_balance'[u] \in Nat /\ m_balance[u] \in Nat /\ m_balance'[u] <= m_balance[u]
    BY <1>1, <1>5
  <2>2. rest <= worth /\ rest \in Nat /\ worth \in Nat
    BY <1>1, <2>1, ProductMonotone, ProductNat
  <2>3. rest = worth + (rest - worth) /\ rest - worth \in Int
    <3> HIDE DEF rest, worth
    <3> QED
      BY <2>2
  <2>4. Owns(u)' <= Owns(u) + (rest - worth)
    BY <1>4, <2>3
  <2>5. Owns(u)' \in Int /\ Owns(u) \in Int
    BY OwnsTyped, OwnsTypedNext
  <2> DEFINE next == Owns(u)'
  <2>6. next \in Int /\ next <= Owns(u) + (rest - worth)
    BY <2>4, <2>5
  <2> HIDE DEF rest, worth, next
  <2>7. next <= Owns(u)
    BY <2>2, <2>5, <2>6
  <2> QED
    BY <2>7 DEF next
<1>6. CASE \E from, to \in Customers, amount \in Args.send : Send(from, to, amount)
  <2>1. PICK from \in Customers, to \in Customers, amount \in Args.send : Send(from, to, amount)
    BY <1>6
  <2>2. amount \in Nat /\ m_balance' = Transferred(m_balance, from, to, amount)
    BY <2>1, TokenAuthorityAssumption DEF Send
  <2>3. CASE from = to
    BY <1>1, <1>5, <2>2, <2>3 DEF Transferred
  <2>4. CASE from # to
    <3> DEFINE x == amount * MPrice
               f == [u \in Customers |-> Owns(u)]
               g == [u \in Customers |-> Owns(u)]'
               h == [f EXCEPT ![from] = @ - x, ![to] = @ + x]
    <3>1. x \in Nat
      BY <1>1, <2>2, ProductNat
    <3>2. /\ \A c \in Customers \ {from, to} : m_balance'[c] = m_balance[c]
          /\ m_balance'[from] = m_balance[from] - amount
          /\ m_balance'[to] = m_balance[to] + amount
      <4>1. from \in Accounts /\ to \in Accounts /\ m_balance \in [Accounts -> Nat]
        BY <1>1, <2>1
      <4>2. /\ \A c \in Accounts \ {from, to} :
                  Transferred(m_balance, from, to, amount)[c] = m_balance[c]
            /\ from # to =>
                  /\ Transferred(m_balance, from, to, amount)[from] = m_balance[from] - amount
                  /\ Transferred(m_balance, from, to, amount)[to] = m_balance[to] + amount
        BY <2>2, <4>1, TransferMoves
      <4> QED
        BY <1>1, <2>2, <2>4, <4>2
    <3>3. /\ m_balance'[from] * MPrice = m_balance[from] * MPrice + (- x)
          /\ m_balance'[to] * MPrice = m_balance[to] * MPrice + x
      <4> DEFINE a == m_balance[from]
                 b == m_balance[to]
      <4>1. a \in Nat /\ b \in Nat
        BY <1>1
      <4>2. m_balance'[from] = a - amount /\ m_balance'[to] = b + amount
        BY <3>2
      <4> HIDE DEF a, b
      <4>3. (a - amount) * MPrice = a * MPrice + (- x) /\ (b + amount) * MPrice = b * MPrice + x
        BY <1>1, <2>2, <4>1
      <4> QED
        BY <4>2, <4>3 DEF a, b
    <3>4. Owns(from)' <= Owns(from) + (- x) /\ Owns(to)' <= Owns(to) + x
      <4> HIDE DEF x
      <4>1. - x \in Int /\ x \in Int
        BY <3>1
      <4> QED
        BY <1>4, <3>3, <4>1
    <3>5. \A u \in Customers \ {from, to} : Owns(u)' <= Owns(u) + 0
      <4> SUFFICES ASSUME NEW u \in Customers \ {from, to} PROVE Owns(u)' <= Owns(u) + 0
        OBVIOUS
      <4>1. m_balance'[u] * MPrice = m_balance[u] * MPrice + 0
        <5>1. m_balance[u] * MPrice \in Nat /\ m_balance'[u] = m_balance[u]
          BY <1>1, <3>2, ProductNat
        <5> QED
          BY <5>1
      <4> QED
        BY <1>4, <4>1
    <3>6. /\ f \in [Customers -> Int] /\ g \in [Customers -> Int]
          /\ g[from] <= f[from] + (- x) /\ g[to] <= f[to] + x
          /\ \A u \in Customers \ {from, to} : g[u] <= f[u] + 0
      BY OwnsTyped, OwnsTypedNext, <3>4, <3>5
    <3>7. OwnedTogether = SumFunctionOnSet(f, Customers)
          /\ OwnedTogether' = SumFunctionOnSet(g, Customers)
      BY DEF OwnedTogether, SumFunction
    <3> HIDE DEF f, g, x
    <3>8. h \in [Customers -> Int] /\ SumFunctionOnSet(h, Customers) = SumFunctionOnSet(f, Customers)
      <4>1. /\ from \in Customers /\ to \in Customers /\ IsFiniteSet(Customers) /\ x \in Int
            /\ f \in [Customers -> Int]
        BY <2>1, <3>1, <3>6, CustomersAssumption
      <4>2. /\ h \in [Customers -> Int] /\ h[from] = f[from] - x /\ h[to] = f[to] + x
            /\ \A u \in Customers \ {from, to} : h[u] = f[u]
        BY <2>4, <4>1
      <4> HIDE DEF h
      <4> QED
        BY <2>4, <4>1, <4>2, SumTransferred
    <3>9. \A u \in Customers : g[u] <= h[u]
      <4> SUFFICES ASSUME NEW u \in Customers PROVE g[u] <= h[u]
        OBVIOUS
      <4>1. f[u] \in Int /\ g[u] \in Int
        BY <3>6
      <4> QED
        BY <2>4, <3>1, <3>6, <4>1
    <3> HIDE DEF h
    <3>10. SumFunctionOnSet(g, Customers) <= SumFunctionOnSet(h, Customers)
      BY <3>6, <3>8, <3>9, CustomersAssumption, SumMonotone
    <3> QED
      BY <3>7, <3>8, <3>10
  <2> QED
    BY <2>3, <2>4
<1> QED
  BY <1>5, <1>6 DEF NothingGiven

\* The records of a book that only loses requests, or none.
LEMMA RecordsKept ==
    ASSUME RecordedAtPrice,
           \/ UNCHANGED redeem_requests
           \/ \E id : redeem_requests' = WithoutEntry(redeem_requests, id)
    PROVE  RecordedAtPrice'
<1> DEFINE book == redeem_requests'
<1>1. DOMAIN book \subseteq DOMAIN redeem_requests
      /\ \A id \in DOMAIN book : book[id] = redeem_requests[id]
  BY DEF WithoutEntry
<1> HIDE DEF book
<1>2. \A id \in DOMAIN book :
         /\ book[id].m_token_rate = MPrice
         /\ book[id].payment_mint \in Tokens =>
               book[id].payment_mint_rate = CoinPrice(book[id].payment_mint)
  BY <1>1 DEF RecordedAtPrice
<1> QED
  BY <1>2 DEF RecordedAtPrice, book, CoinPrice, MPrice

LEMMA NothingMovesWorth ==
    ASSUME PricesKnown, Typed, Typed',
           UNCHANGED <<balance, m_balance, mint_requests, redeem_requests>>
    PROVE  NobodyRicher
<1> SUFFICES ASSUME NEW u \in Customers PROVE Owns(u)' <= Owns(u)
  BY DEF NobodyRicher
<1> QED
  BY SameWealth

LEMMA MinterRequestsWorth ==
    ASSUME PricesKnown, StandingTerms, Typed, Typed', MinterRequests, UNCHANGED redeemerVars
    PROVE  NobodyRicher
<1>1. UNCHANGED redeem_requests
  BY DEF redeemerVars
<1>2. ASSUME NEW authority, NEW id, RejectMintRequest(authority, id) PROVE NobodyRicher
  <2>1. /\ id \in DOMAIN mint_requests /\ mint_requests' = WithoutEntry(mint_requests, id)
        /\ UNCHANGED <<balance, m_balance, redeem_requests>>
    BY <1>1, <1>2 DEF RejectMintRequest, vcVars, taVars
  <2> QED
    BY <2>1, RejectedMintWorth
<1>3. ASSUME NEW authority, UpdateMinterVault(authority) PROVE NobodyRicher
  <2>1. UNCHANGED <<balance, m_balance, mint_requests, redeem_requests>>
    BY <1>1, <1>3 DEF UpdateMinterVault, vcVars, taVars
  <2> QED
    BY <2>1, NothingMovesWorth
<1>4. ASSUME NEW user \in Signers, NEW t \in Tokens, NEW amount \in Args.amount_token,
             MintRequest(user, t, amount)
      PROVE  NobodyRicher
  BY <1>4, MintRequestWorth
<1>5. ASSUME NEW authority, NEW id, NEW rate \in Args.new_out_rate, NEW is_safe,
             ApproveMintRequest(authority, id, rate, is_safe)
      PROVE  NobodyRicher
  BY <1>5, ApproveMintWorth
<1> QED
  BY <1>2, <1>3, <1>4, <1>5 DEF MinterRequests

LEMMA RedeemerRequestsWorth ==
    ASSUME PricesKnown, StandingTerms, RecordedAtPrice, Typed, Typed', RedeemerRequests,
           UNCHANGED minterVars
    PROVE  NobodyRicher /\ RecordedAtPrice'
<1>1. UNCHANGED mint_requests
  BY DEF minterVars
<1>2. ASSUME NEW authority, NEW id, RejectRedeemRequest(authority, id)
      PROVE  NobodyRicher /\ RecordedAtPrice'
  <2>1. /\ id \in DOMAIN redeem_requests /\ redeem_requests' = WithoutEntry(redeem_requests, id)
        /\ UNCHANGED <<balance, m_balance, mint_requests>>
    BY <1>1, <1>2 DEF RejectRedeemRequest, vcVars, taVars
  <2> QED
    BY <2>1, RejectedRedeemWorth, RecordsKept
<1>3. ASSUME \/ \E authority : UpdateRedeemerVault(authority)
             \/ \E t, owner, amount : ApproveDelegate(t, owner, amount)
      PROVE  NobodyRicher /\ RecordedAtPrice'
  <2>1. UNCHANGED <<balance, m_balance, mint_requests, redeem_requests>>
    BY <1>1, <1>3 DEF UpdateRedeemerVault, ApproveDelegate, vcVars, taVars
  <2> QED
    BY <2>1, NothingMovesWorth, RecordsKept
<1>4. ASSUME NEW user \in Signers, NEW t \in Tokens, NEW amount \in Args.amount_m_token,
             RedeemRequest(user, t, amount)
      PROVE  NobodyRicher /\ RecordedAtPrice'
  <2>1. /\ t \in DOMAIN payment_mint_state /\ get_token_rate(t) = CoinPrice(t)
        /\ CreateRedeemRequest(user, t, amount, get_token_rate(t))
    BY <1>4 DEF RedeemRequest, StandingTerms
  <2> QED
    BY <2>1, RedeemRequestWorth
<1>5. ASSUME NEW user \in Signers, NEW amount \in Args.amount_m_token,
             RedeemRequestFiat(user, amount)
      PROVE  NobodyRicher /\ RecordedAtPrice'
  <2>1. /\ FIAT_MINT \in DOMAIN payment_mint_state /\ FIAT_MINT \notin Tokens
        /\ CreateRedeemRequest(user, FIAT_MINT, amount, ONE)
    BY <1>5, VaultAssumption DEF RedeemRequestFiat
  <2> QED
    BY <2>1, RedeemRequestWorth
<1>6. ASSUME NEW authority, NEW id, NEW rate \in Args.new_m_token_rate, NEW is_safe,
             \/ ApproveRedeemRequest(authority, id, rate, is_safe)
             \/ ApproveRedeemRequestFiat(authority, id, rate, is_safe)
      PROVE  NobodyRicher /\ RecordedAtPrice'
  <2>1. redeem_requests' = WithoutEntry(redeem_requests, id)
    BY <1>6 DEF ApproveRedeemRequest, ApproveRedeemRequestFiat, SettleRedeem
  <2> QED
    BY <1>6, <2>1, SettledRedeemWorth, RecordsKept
<1> QED
  BY <1>2, <1>3, <1>4, <1>5, <1>6 DEF RedeemerRequests

LEMMA StepValue ==
    ASSUME PricesKnown, ValueInv, StandingTerms, [Next]_vars, [NothingGiven]_vars
    PROVE  ValueInv'
<1> DEFINE Kept == RecordedAtPrice' /\ OwnedTogether' <= OwnedTogether
<1>1. Typed /\ Typed' /\ RecordedAtPrice
  BY StepTyped DEF ValueInv
<1>2. NobodyRicher => OwnedTogether' <= OwnedTogether
  BY <1>1, NobodyRicherTogether
<1>3. UNCHANGED redeem_requests => RecordedAtPrice'
  BY <1>1, RecordsKept
<1>4. ASSUME UNCHANGED vars PROVE Kept
  <2>1. UNCHANGED <<balance, m_balance, mint_requests, redeem_requests>>
    BY <1>4 DEF vars, taVars, vcVars, minterVars, redeemerVars
  <2> QED
    BY <1>1, <1>2, <1>3, <2>1, NothingMovesWorth
<1>5. ASSUME MinterInstant, UNCHANGED redeemerVars PROVE Kept
  <2>1. NobodyRicher
    BY <1>1, <1>5, MintInstantWorth DEF MinterInstant
  <2>2. UNCHANGED redeem_requests
    BY <1>5 DEF redeemerVars
  <2> QED
    BY <1>2, <1>3, <2>1, <2>2
<1>6. ASSUME RedeemerInstant, UNCHANGED minterVars PROVE Kept
  <2>1. NobodyRicher
    BY <1>1, <1>6, RedeemInstantWorth DEF RedeemerInstant
  <2>2. UNCHANGED redeem_requests
    BY <1>6 DEF RedeemerInstant, RedeemInstant, redeemerVars
  <2> QED
    BY <1>2, <1>3, <2>1, <2>2
<1>7. ASSUME MinterRequests, UNCHANGED redeemerVars PROVE Kept
  <2>1. UNCHANGED redeem_requests
    BY <1>7 DEF redeemerVars
  <2> QED
    BY <1>1, <1>2, <1>3, <1>7, <2>1, MinterRequestsWorth
<1>8. ASSUME RedeemerRequests, UNCHANGED minterVars PROVE Kept
  BY <1>1, <1>2, <1>8, RedeemerRequestsWorth
<1>9. ASSUME CommonNext, ~UNCHANGED vars PROVE Kept
  <2>1. NothingGiven /\ UNCHANGED redeem_requests
    BY <1>9, OutsideRequests
  <2> QED
    BY <1>1, <1>3, <1>9, <2>1, CommonWorth
<1>10. Kept
  <2> HIDE DEF Kept
  <2> QED
    BY <1>4, <1>5, <1>6, <1>7, <1>8, <1>9 DEF Next, InstantNext, RequestsNext
<1> QED
  <2> DEFINE start == SumFunction([u \in Customers |-> Started(u)])
             next == OwnedTogether'
  <2>1. start' = start
    BY DEF Started, Coins, CoinWorth, CoinPrice, MPrice
  <2>2. OwnedTogether <= start
    BY DEF ValueInv
  <2>3. OwnedTogether \in Int /\ next \in Int /\ start \in Int
    <3> DEFINE f == [u \in Customers |-> Owns(u)]
               g == [u \in Customers |-> Owns(u)]'
               s == [u \in Customers |-> Started(u)]
    <3>1. \A u \in Customers : Started(u) \in Int
      <4> SUFFICES ASSUME NEW u \in Customers PROVE Started(u) \in Int
        OBVIOUS
      <4> DEFINE coins == Coins(Deployed.balance, u)
                 worth == Deployed.m_balance[u] * MPrice
      <4>1. /\ Deployed.balance \in [Tokens -> [Accounts -> Nat]]
            /\ Deployed.m_balance[u] \in Nat /\ u \in Accounts /\ MPrice \in Nat
        BY DeployedAssumption, CustomersAssumption, SignersAssumption, WidthAssumption
           DEF PricesKnown, Price
      <4>2. coins \in Int /\ worth \in Int
        BY <4>1, CoinsTyped, ProductNat
      <4>3. Started(u) = coins + worth
        BY DEF Started
      <4> HIDE DEF coins, worth
      <4> QED
        BY <4>2, <4>3
    <3>2. /\ DOMAIN f = Customers /\ DOMAIN g = Customers /\ DOMAIN s = Customers
          /\ \A u \in Customers : f[u] \in Int /\ g[u] \in Int /\ s[u] \in Int
      BY <1>1, <3>1, OwnsTyped, OwnsTypedNext
    <3>3. OwnedTogether = SumFunction(f) /\ next = SumFunction(g) /\ start = SumFunction(s)
      BY DEF OwnedTogether
    <3> HIDE DEF f, g, s, next, start
    <3> QED
      BY <3>2, <3>3, CustomersAssumption, SumOfInts DEF SumFunction
  <2>4. next <= OwnedTogether
    BY <1>10
  <2> HIDE DEF start, next
  <2>5. next <= start
    BY <2>2, <2>3, <2>4
  <2>6. OwnedTogether' <= start'
    BY <2>1, <2>5 DEF next
  <2> QED
    BY <1>1, <1>10, <2>6 DEF ValueInv, start

LEMMA InitValue == PricesKnown /\ Init => ValueInv
<1> SUFFICES ASSUME PricesKnown, Init PROVE ValueInv
  OBVIOUS
<1>1. /\ Typed /\ mint_requests = << >> /\ redeem_requests = << >>
      /\ balance = Deployed.balance /\ m_balance = Deployed.m_balance
  BY InitTyped DEF Init, VCInit, MinterInit, RedeemerInit
<1>2. DOMAIN mint_requests = {} /\ DOMAIN redeem_requests = {}
  BY <1>1
<1>3. ASSUME NEW u \in Customers PROVE Owns(u) \in Int /\ Owns(u) = Started(u)
  <2>1. MintClaims(mint_requests, u) = 0 /\ RedeemClaims(redeem_requests, u) = 0
    <3>1. DOMAIN MintClaim(mint_requests, u) = {} /\ DOMAIN RedeemClaim(redeem_requests, u) = {}
      BY <1>2 DEF MintClaim, RedeemClaim
    <3> QED
      BY <3>1, SumOfNone DEF MintClaims, RedeemClaims, SumFunction
  <2> DEFINE coins == Coins(balance, u)
             worth == m_balance[u] * MPrice
  <2>2. coins \in Int /\ worth \in Nat
    BY <1>1, TypedBooks, WealthTyped
  <2>3. Owns(u) = coins + worth + (0 + 0)
    BY <2>1 DEF Owns, WealthOf
  <2>4. Started(u) = coins + worth
    BY <1>1 DEF Started
  <2> HIDE DEF coins, worth
  <2> QED
    BY <2>2, <2>3, <2>4
<1> DEFINE f == [u \in Customers |-> Owns(u)]
           s == [u \in Customers |-> Started(u)]
<1>4. f = s /\ DOMAIN f = Customers /\ \A u \in Customers : f[u] \in Int
  BY <1>3
<1>5. OwnedTogether = SumFunction(f)
  BY DEF OwnedTogether
<1> HIDE DEF f
<1>6. SumFunction(f) \in Int
  BY <1>4, CustomersAssumption, SumOfInts DEF SumFunction
<1>7. OwnedTogether <= SumFunction(s)
  BY <1>4, <1>5, <1>6
<1>8. RecordedAtPrice
  BY <1>2 DEF RecordedAtPrice
<1> QED
  BY <1>1, <1>7, <1>8 DEF ValueInv

LEMMA BaseToBase ==
    ASSUME NEW amount \in Nat
    PROVE  convert_to_base_9(amount, Base) = amount
<1>1. convert_to_base_9(amount, Base) = amount * Radix ^ (Base - Base)
  BY BaseAssumption DEF convert_to_base_9, convert
<1>2. Base - Base = 0
  BY BaseAssumption
<1>3. Radix ^ (Base - Base) = 1
  BY <1>2, RadixAssumption
<1> QED
  BY <1>1, <1>3

\* While prices stand, Accounting's figures are those of the proof.
LEMMA ValueInvGives ==
    ASSUME PricesKnown, ValueInv, price = Deployed.price
    PROVE  NoValueExtraction
<1>1. /\ m_balance \in [Accounts -> Nat] /\ Deployed.m_balance \in [Accounts -> Nat]
      /\ Customers \subseteq Accounts /\ MRate = MPrice /\ m_decimals = Base
  BY TypedBooks, DeployedAssumption DEF ValueInv, MRate, MPrice, PricesKnown
<1>2. ASSUME NEW bal, NEW m_bal \in [Accounts -> Nat], NEW u \in Customers
      PROVE  Worth(bal, m_bal, u) = Coins(bal, u) + m_bal[u] * MPrice
  <2>1. [t \in Tokens |-> TokenWorth(t, bal[t][u])] = CoinWorth(bal, u)
    BY DEF TokenWorth, CoinWorth, CoinPrice
  <2>2. MTokenWorth(m_bal[u]) = m_bal[u] * MPrice
    <3>1. m_bal[u] \in Nat
      BY <1>1
    <3>2. convert_to_base_9(m_bal[u], m_decimals) = m_bal[u]
      BY <1>1, <3>1, BaseToBase
    <3> QED
      BY <1>1, <3>2 DEF MTokenWorth
  <2> QED
    BY <2>1, <2>2 DEF Worth, Coins
<1>3. ASSUME NEW u \in Customers
      PROVE  Worth(balance, m_balance, u) + ClaimWorth(u) = Owns(u)
  <2>1. ClaimWorth(u) = MintClaims(mint_requests, u) + RedeemClaims(redeem_requests, u)
    BY DEF ClaimWorth, MintClaims, MintClaim, RedeemClaims, RedeemClaim
  <2>2. Worth(balance, m_balance, u) = Coins(balance, u) + m_balance[u] * MPrice
    BY <1>1, <1>2
  <2> QED
    BY <2>1, <2>2 DEF Owns, WealthOf
<1>4. ASSUME NEW u \in Customers
      PROVE  Worth(Deployed.balance, Deployed.m_balance, u) = Started(u)
  BY <1>1, <1>2 DEF Started
<1>5. /\ [u \in Customers |-> Worth(balance, m_balance, u) + ClaimWorth(u)]
           = [u \in Customers |-> Owns(u)]
      /\ [u \in Customers |-> Worth(Deployed.balance, Deployed.m_balance, u)]
           = [u \in Customers |-> Started(u)]
  BY <1>3, <1>4
<1> QED
  BY <1>5 DEF ValueInv, NoValueExtraction, OwnedTogether

\* While the prices stand and every listed token is taken at its price, the
\* accounts that take payments and fees and that pay are no customer's, and
\* nobody gives the customers anything beside the vaults' own instructions, no
\* sequence of deposits, redemptions, requests, approvals at no better rate,
\* rejections and transfers leaves the customers together with more than they
\* started with: every rounding is in the vaults' favour (utils.rs).
THEOREM CustomersNeverGetRicher ==
    ASSUME PricesKnown
    PROVE  Spec /\ []StandingTerms /\ [][NothingGiven]_vars => []NoValueExtraction
<1>1. Init => ValueInv
  BY InitValue
<1>2. ValueInv /\ StandingTerms /\ [Next]_vars /\ [NothingGiven]_vars => ValueInv'
  BY StepValue
<1>3. ValueInv /\ StandingTerms => NoValueExtraction
  BY ValueInvGives DEF StandingTerms
<1> QED
  BY <1>1, <1>2, <1>3, PTL DEF Spec
===============================================================================
