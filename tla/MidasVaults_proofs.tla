-------------------------- MODULE MidasVaults_proofs --------------------------
(***************************************************************************)
(* Theorems about the composed vaults, for any number of accounts, tokens, *)
(* roles and requests and any arguments of the instructions.               *)
(***************************************************************************)
EXTENDS MidasVaults, AccessControl_proofs, Decimals_proofs

-----------------------------------------------------------------------------
(* Type correctness of the access-control, token-authority and vault state *)
(* under every instruction of the common, the minter and the redeemer      *)
(* vault, as lemmas for the composed system.                               *)

\* PDAs: a partial function from D to R, with an entry written, changed or
\* removed.
LEMMA EntryWritten ==
    ASSUME NEW D, NEW R, NEW f, DOMAIN f \subseteq D, \A x \in DOMAIN f : f[x] \in R,
           NEW k \in D, NEW v \in R
    PROVE  /\ DOMAIN WithEntry(f, k, v) \subseteq D
           /\ \A x \in DOMAIN WithEntry(f, k, v) : WithEntry(f, k, v)[x] \in R
BY DEF WithEntry

LEMMA EntryRemoved ==
    ASSUME NEW D, NEW R, NEW f, DOMAIN f \subseteq D, \A x \in DOMAIN f : f[x] \in R, NEW k
    PROVE  /\ DOMAIN WithoutEntry(f, k) \subseteq D
           /\ \A x \in DOMAIN WithoutEntry(f, k) : WithoutEntry(f, k)[x] \in R
BY DEF WithoutEntry

LEMMA EntryChanged ==
    ASSUME NEW D, NEW R, NEW f, DOMAIN f \subseteq D, \A x \in DOMAIN f : f[x] \in R,
           NEW k, NEW v \in R
    PROVE  LET g == [f EXCEPT ![k] = v]
           IN  DOMAIN g \subseteq D /\ \A x \in DOMAIN g : g[x] \in R
<1> DEFINE g == [f EXCEPT ![k] = v]
<1> SUFFICES ASSUME NEW x \in DOMAIN f PROVE g[x] \in R
  OBVIOUS
<1> QED
  BY DEF g

-----------------------------------------------------------------------------
\* Balances.
LEMMA TransferredType ==
    ASSUME NEW S, NEW bal \in [S -> Nat], NEW from \in S, NEW to \in S, NEW amount \in Nat,
           CanTransfer(bal, from, amount)
    PROVE  Transferred(bal, from, to, amount) \in [S -> Nat]
<1>1. CASE from = to
  BY <1>1 DEF Transferred
<1>2. CASE from # to
  <2> DEFINE debited == [bal EXCEPT ![from] = @ - amount]
  <2>1. bal[from] - amount \in Nat
    BY DEF CanTransfer
  <2>2. debited \in [S -> Nat]
    BY <2>1
  <2>3. Transferred(bal, from, to, amount) = [debited EXCEPT ![to] = @ + amount]
    BY <1>2 DEF Transferred
  <2> HIDE DEF debited
  <2> QED
    BY <2>2, <2>3
<1> QED
  BY <1>1, <1>2

LEMMA CreditType ==
    ASSUME NEW S, NEW bal \in [S -> Nat], NEW to \in S, NEW amount \in Nat
    PROVE  [bal EXCEPT ![to] = @ + amount] \in [S -> Nat]
OBVIOUS

LEMMA DebitType ==
    ASSUME NEW S, NEW bal \in [S -> Nat], NEW from \in S, NEW amount \in Nat,
           bal[from] >= amount
    PROVE  [bal EXCEPT ![from] = @ - amount] \in [S -> Nat]
<1>1. bal[from] - amount \in Nat
  OBVIOUS
<1> QED
  BY <1>1

-----------------------------------------------------------------------------
\* The token-authority instructions.
LEMMA MintType ==
    ASSUME TATypeOK, NEW ta, NEW authority, NEW receiver \in Accounts, NEW amount \in Nat,
           Mint(ta, authority, receiver, amount)
    PROVE  TATypeOK'
<1> USE WidthAssumption
<1>1. m_balance' \in [Accounts -> Nat]
  BY CreditType DEF TATypeOK, Mint, SplMint
<1>2. m_supply' \in U64
  BY DEF TATypeOK, Mint, SplMint, U64
<1> QED
  BY <1>1, <1>2 DEF TATypeOK, Mint, Authorities

LEMMA TAGovernType == TATypeOK /\ TAGovern => TATypeOK'
<1> SUFFICES ASSUME TATypeOK, TAGovern PROVE TATypeOK'
  OBVIOUS
<1> USE TokenAuthorityAssumption, WidthAssumption
<1>1. ASSUME NEW ta \in TokenAuthorities, NEW ac_role \in Args.token_ac_role,
             NewTokenAuthority(ta, ac_role)
      PROVE  TATypeOK'
  <2>1. /\ DOMAIN token_authorities' \subseteq TokenAuthorities
        /\ \A x \in DOMAIN token_authorities' : token_authorities'[x] \in AcRoles
    <3>1. ac_role \in AcRoles
      OBVIOUS
    <3>2. token_authorities' = WithEntry(token_authorities, ta, ac_role)
      BY <1>1 DEF NewTokenAuthority
    <3> QED
      BY <3>1, <3>2, EntryWritten DEF TATypeOK
  <2> QED
    BY <1>1, <2>1 DEF TATypeOK, NewTokenAuthority, Authorities
<1>2. ASSUME NEW ta, NEW authority, NEW a \in Accounts, NEW amount \in Args.mint,
             Mint(ta, authority, a, amount)
      PROVE  TATypeOK'
  BY <1>2, MintType
<1>3. ASSUME NEW ta, NEW authority, NEW a \in Accounts, NEW amount \in Args.burn,
             Burn(ta, authority, a, amount)
      PROVE  TATypeOK'
  <2>1. amount \in Nat /\ m_balance[a] >= amount /\ m_supply >= amount
    BY <1>3 DEF Burn, CanBurn
  <2>2. m_balance' \in [Accounts -> Nat]
    BY <1>3, <2>1, DebitType DEF TATypeOK, Burn
  <2>3. m_supply' \in U64
    BY <1>3, <2>1 DEF TATypeOK, Burn, U64
  <2> QED
    BY <1>3, <2>2, <2>3 DEF TATypeOK, Burn, Authorities
<1>4. ASSUME NEW ta, NEW authority, NEW a \in Accounts,
             Freeze(ta, authority, a) \/ Thaw(ta, authority, a)
      PROVE  TATypeOK'
  BY <1>4 DEF TATypeOK, Freeze, Thaw, Authorities
<1>5. ASSUME NEW ta, NEW authority, NEW p \in Args.authority_type,
             NEW n \in Args.new_authority \cup {NoAuthority},
             SetAuthority(ta, authority, p, n)
      PROVE  TATypeOK'
  <2>1. m_authority' \in [MintPowers -> Authorities]
    BY <1>5 DEF TATypeOK, SetAuthority, Authorities
  <2> QED
    BY <1>5, <2>1 DEF TATypeOK, SetAuthority, Authorities
<1> QED
  BY <1>1, <1>2, <1>3, <1>4, <1>5 DEF TAGovern

-----------------------------------------------------------------------------
(* The vault_common instructions.                                          *)

SharedTypeOK == ACInv /\ TATypeOK /\ VCTypeOK

\* The state of each group depends on its own variables only.
LEMMA ACUnchanged == ACInv /\ UNCHANGED acVars => ACInv'
BY DEF ACInv, ACTypeOK, ListsExclusive, acVars

LEMMA TAUnchanged == TATypeOK /\ UNCHANGED taVars => TATypeOK'
BY DEF TATypeOK, taVars, Authorities

LEMMA VCUnchanged == VCTypeOK /\ UNCHANGED vcVars => VCTypeOK'
BY DEF VCTypeOK, vcVars, adminVars, limitVars, envVars

\* An instruction of vault_common that touches only what admins configure.
LEMMA AdminVarsType ==
    ASSUME SharedTypeOK, UNCHANGED <<requests_count, limitVars, balance, envVars, acVars, taVars>>,
           config' \in Config, paused' \in BOOLEAN,
           DOMAIN pause_inx' \subseteq VaultActionId,
           \A fn \in DOMAIN pause_inx' : pause_inx'[fn] \in BOOLEAN,
           DOMAIN payment_mint_state' \subseteq PaymentMints,
           \A t \in DOMAIN payment_mint_state' : payment_mint_state'[t] \in PaymentMintState,
           DOMAIN vault_account' \subseteq Accounts,
           \A a \in DOMAIN vault_account' : vault_account'[a] \in VaultAccount
    PROVE  SharedTypeOK'
<1>1. VCTypeOK'
  BY DEF SharedTypeOK, VCTypeOK, limitVars, envVars
<1> QED
  BY <1>1, ACUnchanged, TAUnchanged DEF SharedTypeOK

\* A conversion to base 9 of a u64 amount, and what a withdrawal then moves.
LEMMA AmountsNat ==
    /\ \A t \in Tokens, amount \in Nat :
         /\ convert_to_base_9(amount, decimals[t]) \in Nat
         /\ Raw(t, amount) \in Nat
    /\ \A amount \in Nat : convert_to_base_9(amount, m_decimals) \in Nat /\ MRaw(amount) \in Nat
<1> USE VaultAssumption, BaseAssumption
<1>1. Base \in 0 .. MaxDecimals
  OBVIOUS
<1>2. \A t \in Tokens : decimals[t] \in 0 .. MaxDecimals
  OBVIOUS
<1> QED
  BY <1>1, <1>2, ConvertNat DEF convert_to_base_9, convert_from_base_9, Raw, MRaw

LEMMA PaidType ==
    ASSUME NEW bal \in [Tokens -> [Accounts -> Nat]], NEW t \in Tokens,
           NEW from \in Accounts, NEW to \in Accounts, NEW amount \in Nat,
           CanPay(t, bal, from, amount)
    PROVE  Paid(t, bal, from, to, amount) \in [Tokens -> [Accounts -> Nat]]
<1>1. Raw(t, amount) \in Nat
  BY AmountsNat
<1>2. Transferred(bal[t], from, to, Raw(t, amount)) \in [Accounts -> Nat]
  BY <1>1, TransferredType DEF CanPay
<1> QED
  BY <1>2 DEF Paid

\* update_vault_common writes fees it has validated and options of their type.
LEMMA ConfigUpdatesType ==
    ASSUME NEW old \in Config PROVE ConfigUpdates(old) \subseteq Config
<1> USE VaultArgsAssumption, WidthAssumption, PercentAssumption
<1>1. Fees(Args.instant_fee, FALSE) \subseteq 0 .. ONE_HUNDRED_PERCENT
  BY DEF Fees, validate_fee, U64
<1>2. Fees(Args.variation_tolerance, TRUE) \subseteq 1 .. ONE_HUNDRED_PERCENT
  BY DEF Fees, validate_fee, U64
<1> QED
  BY <1>1, <1>2 DEF ConfigUpdates, Config

LEMMA VaultAccountUpdatesType ==
    ASSUME NEW old \in VaultAccount PROVE VaultAccountUpdates(old) \subseteq VaultAccount
BY VaultArgsAssumption DEF VaultAccountUpdates, VaultAccount

LEMMA PaymentMintUpdatesType ==
    ASSUME NEW old \in PaymentMintState PROVE PaymentMintUpdates(old) \subseteq PaymentMintState
<1> USE VaultArgsAssumption, WidthAssumption, PercentAssumption
<1>1. Fees(Args.fee, FALSE) \subseteq 0 .. ONE_HUNDRED_PERCENT
  BY DEF Fees, validate_fee, U64
<1> QED
  BY <1>1 DEF PaymentMintUpdates, PaymentMintState

LEMMA VaultAdminType == SharedTypeOK /\ VaultAdminNext => SharedTypeOK'
<1> SUFFICES ASSUME SharedTypeOK, NEW authority \in Signers,
                    \/ UpdateVaultCommon(authority)
                    \/ \E t \in PaymentMints :
                         \/ UpdatePaymentToken(authority, t)
                         \/ RemovePaymentToken(authority, t)
                         \/ \E state \in [data_feed : Args.data_feed, fee : Args.fee,
                                          allowance : Args.allowance, stable : Args.stable] :
                              AddPaymentToken(authority, t, state)
                    \/ \E fee \in Args.fee, allowance \in Args.allowance :
                         AddPaymentTokenFiat(authority, fee, allowance)
                    \/ \E account \in Accounts : UpdateVaultCommonAccount(authority, account)
                    \/ \E vault \in {minter_vault, redeemer_vault}, receiver \in Args.receiver,
                          amount \in Args.withdraw :
                         \/ WithdrawMToken(authority, vault, receiver, amount)
                         \/ \E t \in Tokens : WithdrawToken(authority, vault, t, receiver, amount)
             PROVE  SharedTypeOK'
  BY DEF VaultAdminNext
<1> USE VaultArgsAssumption, WidthAssumption, PercentAssumption
<1>1. CASE UpdateVaultCommon(authority)
  <2>1. config' \in Config
    BY <1>1, ConfigUpdatesType DEF UpdateVaultCommon, SharedTypeOK, VCTypeOK
  <2> QED
    BY <1>1, <2>1, AdminVarsType DEF UpdateVaultCommon, SharedTypeOK, VCTypeOK
<1>2. ASSUME NEW t \in PaymentMints, UpdatePaymentToken(authority, t)
      PROVE  SharedTypeOK'
  <2>1. PICK new \in PaymentMintUpdates(payment_mint_state[t]) :
           payment_mint_state' = [payment_mint_state EXCEPT ![t] = new]
    BY <1>2, Zenon DEF UpdatePaymentToken
  <2>2. new \in PaymentMintState
    BY <1>2, PaymentMintUpdatesType DEF UpdatePaymentToken, SharedTypeOK, VCTypeOK
  <2>3. /\ DOMAIN payment_mint_state' \subseteq PaymentMints
        /\ \A x \in DOMAIN payment_mint_state' : payment_mint_state'[x] \in PaymentMintState
    BY <2>1, <2>2, EntryChanged, Zenon DEF SharedTypeOK, VCTypeOK
  <2> QED
    BY <1>2, <2>3, AdminVarsType DEF UpdatePaymentToken, SharedTypeOK, VCTypeOK
<1>3. ASSUME NEW t \in PaymentMints, RemovePaymentToken(authority, t)
      PROVE  SharedTypeOK'
  <2>1. /\ DOMAIN payment_mint_state' \subseteq PaymentMints
        /\ \A x \in DOMAIN payment_mint_state' : payment_mint_state'[x] \in PaymentMintState
    BY <1>3, EntryRemoved, Zenon DEF RemovePaymentToken, SharedTypeOK, VCTypeOK
  <2> QED
    BY <1>3, <2>1, AdminVarsType DEF RemovePaymentToken, SharedTypeOK, VCTypeOK
<1>4. ASSUME NEW t \in PaymentMints,
             NEW state \in [data_feed : Args.data_feed, fee : Args.fee,
                            allowance : Args.allowance, stable : Args.stable],
             AddPaymentToken(authority, t, state)
      PROVE  SharedTypeOK'
  <2>1. state \in PaymentMintState
    BY <1>4 DEF AddPaymentToken, validate_fee, PaymentMintState, U64
  <2>2. /\ DOMAIN payment_mint_state' \subseteq PaymentMints
        /\ \A x \in DOMAIN payment_mint_state' : payment_mint_state'[x] \in PaymentMintState
    BY <1>4, <2>1, EntryWritten, Zenon DEF AddPaymentToken, SharedTypeOK, VCTypeOK
  <2> QED
    BY <1>4, <2>2, AdminVarsType DEF AddPaymentToken, SharedTypeOK, VCTypeOK
<1>5. ASSUME NEW fee \in Args.fee, NEW allowance \in Args.allowance,
             AddPaymentTokenFiat(authority, fee, allowance)
      PROVE  SharedTypeOK'
  <2> DEFINE entry == [data_feed |-> NoFeed, fee |-> fee, allowance |-> allowance,
                       stable |-> FALSE]
  <2>1. entry \in PaymentMintState
    BY <1>5 DEF AddPaymentTokenFiat, validate_fee, PaymentMintState, U64
  <2>2. payment_mint_state' = WithEntry(payment_mint_state, FIAT_MINT, entry)
    BY <1>5 DEF AddPaymentTokenFiat
  <2>3. FIAT_MINT \in PaymentMints
    BY DEF PaymentMints
  <2> HIDE DEF entry
  <2>4. /\ DOMAIN payment_mint_state' \subseteq PaymentMints
        /\ \A x \in DOMAIN payment_mint_state' : payment_mint_state'[x] \in PaymentMintState
    BY <2>1, <2>2, <2>3, EntryWritten, Zenon DEF SharedTypeOK, VCTypeOK
  <2> QED
    BY <1>5, <2>4, AdminVarsType DEF AddPaymentTokenFiat, SharedTypeOK, VCTypeOK
<1>6. ASSUME NEW account \in Accounts, UpdateVaultCommonAccount(authority, account)
      PROVE  SharedTypeOK'
  <2>1. PICK new \in VaultAccountUpdates(vault_account[account]) :
           vault_account' = [vault_account EXCEPT ![account] = new]
    BY <1>6, Zenon DEF UpdateVaultCommonAccount
  <2>2. new \in VaultAccount
    BY <1>6, VaultAccountUpdatesType DEF UpdateVaultCommonAccount, SharedTypeOK, VCTypeOK
  <2>3. /\ DOMAIN vault_account' \subseteq Accounts
        /\ \A x \in DOMAIN vault_account' : vault_account'[x] \in VaultAccount
    BY <2>1, <2>2, EntryChanged, Zenon DEF SharedTypeOK, VCTypeOK
  <2> QED
    BY <1>6, <2>3, AdminVarsType DEF UpdateVaultCommonAccount, SharedTypeOK, VCTypeOK
<1>7. ASSUME NEW vault \in {minter_vault, redeemer_vault}, NEW receiver \in Args.receiver,
             NEW amount \in Args.withdraw, WithdrawMToken(authority, vault, receiver, amount)
      PROVE  SharedTypeOK'
  <2> DEFINE moved == MRaw(convert_to_base_9(amount, m_decimals))
  <2>1. moved \in Nat
    BY AmountsNat DEF U64
  <2>2. /\ CanTransfer(m_balance, vault, moved)
        /\ m_balance' = Transferred(m_balance, vault, receiver, moved)
    BY <1>7 DEF WithdrawMToken, CanMoveM
  <2> HIDE DEF moved
  <2>3. m_balance' \in [Accounts -> Nat]
    BY <2>1, <2>2, TransferredType, VaultAssumption DEF SharedTypeOK, TATypeOK
  <2>4. TATypeOK'
    BY <1>7, <2>3 DEF WithdrawMToken, SharedTypeOK, TATypeOK, Authorities
  <2>5. UNCHANGED <<acVars, vcVars>>
    BY <1>7 DEF WithdrawMToken, vcVars
  <2> QED
    BY <2>4, <2>5, ACUnchanged, VCUnchanged DEF SharedTypeOK
<1>8. ASSUME NEW vault \in {minter_vault, redeemer_vault}, NEW receiver \in Args.receiver,
             NEW amount \in Args.withdraw, NEW t \in Tokens,
             WithdrawToken(authority, vault, t, receiver, amount)
      PROVE  SharedTypeOK'
  <2> DEFINE amount_base9 == convert_to_base_9(amount, decimals[t])
  <2>1. amount_base9 \in Nat
    BY AmountsNat DEF U64
  <2>2. /\ CanPay(t, balance, vault, amount_base9)
        /\ balance' = Paid(t, balance, vault, receiver, amount_base9)
    BY <1>8 DEF WithdrawToken
  <2> HIDE DEF amount_base9
  <2>3. balance' \in [Tokens -> [Accounts -> Nat]]
    BY <2>1, <2>2, PaidType, VaultAssumption DEF SharedTypeOK, VCTypeOK
  <2>4. VCTypeOK'
    BY <1>8, <2>3 DEF WithdrawToken, SharedTypeOK, VCTypeOK, adminVars, limitVars, envVars
  <2> QED
    BY <1>8, <2>4, ACUnchanged, TAUnchanged DEF WithdrawToken, SharedTypeOK
<1> QED
  BY <1>1, <1>2, <1>3, <1>4, <1>5, <1>6, <1>7, <1>8

LEMMA VaultPauserType == SharedTypeOK /\ VaultPauserNext => SharedTypeOK'
<1> SUFFICES ASSUME SharedTypeOK, NEW authority \in Signers,
                    \/ \E fn \in Args.fn_id :
                         \/ NewPauseInx(authority, fn)
                         \/ \E new_paused \in Args.paused :
                              UpdatePauseInx(authority, fn, new_paused)
                    \/ \E new_paused \in Args.paused : UpdatePause(authority, new_paused)
             PROVE  SharedTypeOK'
  BY DEF VaultPauserNext
<1> USE VaultArgsAssumption
<1>1. ASSUME NEW fn \in Args.fn_id, NewPauseInx(authority, fn)
      PROVE  SharedTypeOK'
  <2>1. /\ DOMAIN pause_inx' \subseteq VaultActionId
        /\ \A x \in DOMAIN pause_inx' : pause_inx'[x] \in BOOLEAN
    <3>1. fn \in VaultActionId
      OBVIOUS
    <3>2. PICK unpaused : unpaused \in BOOLEAN /\ pause_inx' = WithEntry(pause_inx, fn, unpaused)
      BY <1>1, Zenon DEF NewPauseInx
    <3> QED
      BY <3>1, <3>2 DEF WithEntry, SharedTypeOK, VCTypeOK
  <2> QED
    BY <1>1, <2>1, AdminVarsType DEF NewPauseInx, SharedTypeOK, VCTypeOK
<1>2. ASSUME NEW fn \in Args.fn_id, NEW new_paused \in Args.paused,
             UpdatePauseInx(authority, fn, new_paused)
      PROVE  SharedTypeOK'
  <2>1. /\ DOMAIN pause_inx' \subseteq VaultActionId
        /\ \A x \in DOMAIN pause_inx' : pause_inx'[x] \in BOOLEAN
    <3>1. new_paused \in BOOLEAN
      OBVIOUS
    <3>2. pause_inx' = [pause_inx EXCEPT ![fn] = new_paused]
      BY <1>2 DEF UpdatePauseInx
    <3> QED
      BY <3>1, <3>2, EntryChanged, Zenon DEF SharedTypeOK, VCTypeOK
  <2> QED
    BY <1>2, <2>1, AdminVarsType DEF UpdatePauseInx, SharedTypeOK, VCTypeOK
<1>3. ASSUME NEW new_paused \in Args.paused, UpdatePause(authority, new_paused)
      PROVE  SharedTypeOK'
  BY <1>3, AdminVarsType DEF UpdatePause, SharedTypeOK, VCTypeOK
<1> QED
  BY <1>1, <1>2, <1>3

LEMMA EnvironmentType == SharedTypeOK /\ EnvironmentNext => SharedTypeOK'
<1> SUFFICES ASSUME SharedTypeOK, EnvironmentNext PROVE SharedTypeOK'
  OBVIOUS
<1> USE VaultArgsAssumption
<1>1. ASSUME NEW f \in Feeds, NEW p \in Args.price, PriceMoves(f, p)
      PROVE  SharedTypeOK'
  <2>1. price' \in [Feeds -> Price \cup {NoPrice}]
    BY <1>1 DEF PriceMoves, SharedTypeOK, VCTypeOK
  <2>2. VCTypeOK'
    BY <1>1, <2>1 DEF PriceMoves, SharedTypeOK, VCTypeOK, adminVars, limitVars
  <2> QED
    BY <1>1, <2>2, ACUnchanged, TAUnchanged DEF PriceMoves, SharedTypeOK
<1>2. CASE Tick
  <2>1. VCTypeOK'
    BY <1>2 DEF Tick, SharedTypeOK, VCTypeOK, adminVars, limitVars
  <2> QED
    BY <1>2, <2>1, ACUnchanged, TAUnchanged DEF Tick, SharedTypeOK
<1>3. ASSUME NEW account \in Args.new_account, NewVaultCommonAccount(account)
      PROVE  SharedTypeOK'
  <2> DEFINE entry == [free_from_min_amount     |-> FALSE,
                       free_from_min_first_mint |-> FALSE,
                       waived_fee               |-> FALSE]
  <2>1. entry \in VaultAccount
    BY DEF VaultAccount
  <2>2. vault_account' = WithEntry(vault_account, account, entry)
    BY <1>3 DEF NewVaultCommonAccount
  <2> HIDE DEF entry
  <2>3. /\ DOMAIN vault_account' \subseteq Accounts
        /\ \A x \in DOMAIN vault_account' : vault_account'[x] \in VaultAccount
    <3>1. account \in Accounts
      OBVIOUS
    <3> QED
      BY <2>1, <2>2, <3>1, EntryWritten, Zenon DEF SharedTypeOK, VCTypeOK
  <2> QED
    BY <1>3, <2>3, AdminVarsType DEF NewVaultCommonAccount, SharedTypeOK, VCTypeOK
<1>4. ASSUME NEW from \in Signers, NEW to \in Accounts, NEW amount \in Args.send,
             Send(from, to, amount), UNCHANGED <<acVars, vcVars>>
      PROVE  SharedTypeOK'
  <2>1. m_balance' \in [Accounts -> Nat]
    BY <1>4, TransferredType, SignersAssumption, TokenAuthorityAssumption
       DEF Send, CanMoveM, SharedTypeOK, TATypeOK
  <2>2. TATypeOK'
    BY <1>4, <2>1 DEF Send, SharedTypeOK, TATypeOK, Authorities
  <2> QED
    BY <1>4, <2>2, ACUnchanged, VCUnchanged DEF SharedTypeOK
<1> QED
  BY <1>1, <1>2, <1>3, <1>4 DEF EnvironmentNext

LEMMA GovernanceType == SharedTypeOK /\ GovernanceNext => SharedTypeOK'
<1>1. SharedTypeOK /\ ACGovern /\ UNCHANGED <<taVars, vcVars>> => SharedTypeOK'
  BY ACStepInv, TAUnchanged, VCUnchanged DEF SharedTypeOK, ACNext
<1>2. SharedTypeOK /\ TAGovern /\ UNCHANGED <<acVars, vcVars>> => SharedTypeOK'
  BY TAGovernType, ACUnchanged, VCUnchanged DEF SharedTypeOK
<1> QED
  BY <1>1, <1>2 DEF GovernanceNext

\* Every step of the programs around the two vaults keeps the shared state typed.
LEMMA SharedStepType == SharedTypeOK /\ VCNext => SharedTypeOK'
BY VaultAdminType, VaultPauserType, EnvironmentType, GovernanceType DEF VCNext

\* The accounts as deployed are well typed.
LEMMA SharedInitType == VCInit => SharedTypeOK
<1> SUFFICES ASSUME VCInit PROVE SharedTypeOK
  OBVIOUS
<1> USE DeployedAssumption, VaultAssumption, TokenAuthorityAssumption
<1>1. ACInv
  BY DEF VCInit, ACInv, ACTypeOK, ListsExclusive
<1>2. TATypeOK
  BY DEF VCInit, TATypeOK, Authorities
<1>3. VCTypeOK
  <2>1. SECONDS_PER_DAY \in Nat /\ 0 \in U128 /\ 0 \in 0 .. MaxRequests
    BY WidthAssumption DEF U128
  <2> QED
    BY <2>1 DEF VCInit, VCTypeOK
<1> QED
  BY <1>1, <1>2, <1>3 DEF SharedTypeOK

-----------------------------------------------------------------------------
(* The checks and updates of utils.rs that both vaults use.               *)

LEMMA RatesType ==
    ASSUME VCTypeOK
    PROVE  /\ \A t \in DOMAIN payment_mint_state : RateAvailable(t) => get_token_rate(t) \in Price
           /\ MRateAvailable => MRate \in Price
<1> USE VaultAssumption
<1>1. \A t \in DOMAIN payment_mint_state : RateAvailable(t) => get_token_rate(t) \in Price
  BY DEF VCTypeOK, RateAvailable, get_token_rate, PaymentMintState
<1>2. MRateAvailable => MRate \in Price
  BY DEF VCTypeOK, MRateAvailable, MRate
<1> QED
  BY <1>1, <1>2

LEMMA FeeAmountType ==
    ASSUME VCTypeOK, NEW user, NEW t \in DOMAIN payment_mint_state,
           NEW amount \in Nat, NEW is_instant \in BOOLEAN
    PROVE  get_fee_amount(user, t, amount, is_instant) \in Nat
<1> DEFINE percent == FeePercent(payment_mint_state[t].fee, config.instant_fee, is_instant)
<1> USE PercentAssumption
<1>1. /\ payment_mint_state[t].fee \in Nat
      /\ config.instant_fee \in Nat
  BY DEF VCTypeOK, PaymentMintState, Config
<1>2. percent \in 0 .. ONE_HUNDRED_PERCENT
  BY <1>1 DEF FeePercent
<1> HIDE DEF percent
<1>3. FeeAmount(amount, percent) \in Nat
  BY <1>2, FeeFacts
<1> QED
  BY <1>3 DEF get_fee_amount, percent

LEMMA UseAllowanceType ==
    ASSUME VCTypeOK, NEW t \in DOMAIN payment_mint_state, NEW amount \in Nat,
           AllowanceCovers(t, amount), UseAllowance(t, amount)
    PROVE  /\ DOMAIN payment_mint_state' \subseteq PaymentMints
           /\ \A x \in DOMAIN payment_mint_state' : payment_mint_state'[x] \in PaymentMintState
<1>1. CASE payment_mint_state[t].allowance = MAX_UINT128
  BY <1>1 DEF VCTypeOK, UseAllowance
<1>2. CASE payment_mint_state[t].allowance # MAX_UINT128
  <2> DEFINE state == [payment_mint_state[t] EXCEPT !.allowance = @ - amount]
  <2>1. payment_mint_state[t] \in PaymentMintState
    BY DEF VCTypeOK
  <2>2. payment_mint_state[t].allowance - amount \in U128
    BY <1>2, <2>1, WidthAssumption DEF AllowanceCovers, PaymentMintState, U128
  <2>3. state \in PaymentMintState
    BY <2>1, <2>2 DEF PaymentMintState
  <2>4. payment_mint_state' = [payment_mint_state EXCEPT ![t] = state]
    BY <1>2 DEF UseAllowance
  <2> HIDE DEF state
  <2> QED
    BY <2>3, <2>4, EntryChanged, Zenon DEF VCTypeOK
<1> QED
  BY <1>1, <1>2

LEMMA UseDailyLimitType ==
    ASSUME VCTypeOK, NEW amount \in Nat, UseDailyLimit(amount)
    PROVE  instant_last_day' \in Nat /\ instant_daily_limit_used' \in U128
<1>1. current_day \in Nat
  <2>1. now \in Nat /\ SECONDS_PER_DAY \in Nat /\ SECONDS_PER_DAY > 0
    BY VaultAssumption DEF VCTypeOK
  <2> QED
    BY <2>1, QuotientFacts DEF current_day
<1>2. LimitUsedWith(amount) \in Nat
  BY DEF VCTypeOK, LimitUsedWith, U128
<1>3. config.instant_daily_limit \in U128
  BY DEF VCTypeOK, Config
<1> QED
  BY <1>1, <1>2, <1>3, WidthAssumption DEF UseDailyLimit, U128

-----------------------------------------------------------------------------
(* Deposits.                                                               *)

LEMMA DepositFigures ==
    ASSUME VCTypeOK, NEW user, NEW t \in Tokens \cap DOMAIN payment_mint_state,
           RateAvailable(t), MRateAvailable, NEW amount \in Nat, NEW is_instant \in BOOLEAN,
           NEW d, d = calc_deposit(user, t, amount, is_instant),
           DepositValid(user, t, amount, is_instant, d)
    PROVE  /\ d.fee_token_amount \in Nat
           /\ d.amount_token_wo_fee \in Nat
           /\ d.mint_amount_in_usd \in Nat
           /\ d.deposited_usd \in Nat
           /\ d.deposited_usd <= d.mint_amount_in_usd
           /\ d.m_token_amount \in Nat
<1> DEFINE rate == get_token_rate(t)
           fee == truncate(get_fee_amount(user, t, amount, is_instant), decimals[t])
           usd == MulDiv(amount, rate, ONE)
           fee_usd == MulDiv(fee, rate, ONE)
<1>1. rate \in Nat /\ MRate \in Nat /\ MRate > 0 /\ ONE \in Nat /\ ONE > 0
  BY RatesType, VaultAssumption, WidthAssumption DEF Price
<1>2. fee \in Nat
  BY FeeAmountType, TruncateFacts, VaultAssumption
<1> HIDE DEF rate, fee
<1>3. usd \in Nat /\ fee_usd \in Nat
  BY <1>1, <1>2, MulDivNat
<1> HIDE DEF usd, fee_usd
<1>4. /\ d.fee_token_amount = fee
      /\ d.mint_amount_in_usd = usd
      /\ d.fee_in_usd = fee_usd
      /\ d.amount_token_wo_fee = amount - fee
      /\ d.deposited_usd = usd - fee_usd
      /\ d.m_token_amount = MulDiv(usd - fee_usd, ONE, MRate)
  BY DEF calc_deposit, rate, fee, usd, fee_usd
<1>5. fee <= amount /\ fee_usd <= usd
  BY <1>4 DEF DepositValid
<1>6. amount - fee \in Nat /\ usd - fee_usd \in Nat /\ usd - fee_usd <= usd
  BY <1>2, <1>3, <1>5
<1>7. MulDiv(usd - fee_usd, ONE, MRate) \in Nat
  BY <1>1, <1>6, MulDivNat
<1> QED
  BY <1>2, <1>3, <1>4, <1>6, <1>7

\* The accounts a deposit touches stay well typed.
LEMMA DepositType ==
    ASSUME VCTypeOK, NEW user \in Signers, user \in DOMAIN vault_account,
           NEW t \in Tokens \cap DOMAIN payment_mint_state, NEW amount \in Nat,
           NEW is_instant, NEW d, d.fee_token_amount \in Nat, d.amount_token_wo_fee \in Nat,
           Deposit(user, t, amount, is_instant, d)
    PROVE  /\ DOMAIN payment_mint_state' \subseteq PaymentMints
           /\ \A x \in DOMAIN payment_mint_state' : payment_mint_state'[x] \in PaymentMintState
           /\ DOMAIN vault_account' \subseteq Accounts
           /\ \A a \in DOMAIN vault_account' : vault_account'[a] \in VaultAccount
           /\ balance' \in [Tokens -> [Accounts -> Nat]]
<1>1. /\ DOMAIN payment_mint_state' \subseteq PaymentMints
      /\ \A x \in DOMAIN payment_mint_state' : payment_mint_state'[x] \in PaymentMintState
  BY UseAllowanceType DEF Deposit, DepositValid
<1>2. /\ DOMAIN vault_account' \subseteq Accounts
      /\ \A a \in DOMAIN vault_account' : vault_account'[a] \in VaultAccount
  <2>1. CASE vault_account' = vault_account
    BY <2>1 DEF VCTypeOK
  <2>2. CASE vault_account' = [vault_account EXCEPT ![user].free_from_min_first_mint = TRUE]
    <3> DEFINE account == [vault_account[user] EXCEPT !.free_from_min_first_mint = TRUE]
    <3>1. account \in VaultAccount
      BY DEF VCTypeOK, VaultAccount
    <3>2. vault_account' = [vault_account EXCEPT ![user] = account]
      BY <2>2
    <3> HIDE DEF account
    <3> QED
      BY <3>1, <3>2, EntryChanged, Zenon DEF VCTypeOK
  <2> QED
    BY <2>1, <2>2 DEF Deposit, MarkFirstMint
<1>3. balance' \in [Tokens -> [Accounts -> Nat]]
  <2> DEFINE paid == Paid(t, balance, user, config.tokens_receiver, d.amount_token_wo_fee)
  <2>1. user \in Accounts /\ config.tokens_receiver \in Accounts /\ config.fee_receiver \in Accounts
    BY SignersAssumption DEF VCTypeOK, Config
  <2>2. /\ CanPay(t, balance, user, d.amount_token_wo_fee)
        /\ CanPay(t, paid, user, d.fee_token_amount)
        /\ balance' = Paid(t, paid, user, config.fee_receiver, d.fee_token_amount)
    BY DEF Deposit, TakeDeposit
  <2>3. paid \in [Tokens -> [Accounts -> Nat]]
    BY <2>1, <2>2, PaidType DEF VCTypeOK
  <2> HIDE DEF paid
  <2> QED
    BY <2>1, <2>2, <2>3, PaidType
<1> QED
  BY <1>1, <1>2, <1>3

LEMMA MintThroughAuthorityType ==
    ASSUME TATypeOK, NEW receiver \in Accounts, NEW amount \in Nat,
           MintThroughAuthority(receiver, amount)
    PROVE  TATypeOK'
BY MintType DEF MintThroughAuthority

-----------------------------------------------------------------------------
\* mint_instant.
LEMMA MinterInstantType ==
    SharedTypeOK /\ MinterTypeOK /\ MinterInstant => SharedTypeOK' /\ MinterTypeOK'
<1> SUFFICES ASSUME SharedTypeOK, MinterTypeOK, NEW user \in Signers, NEW t \in Tokens,
                    NEW amount \in Args.amount_token, NEW least \in Args.min_receive_amount,
                    MintInstant(user, t, amount, least)
             PROVE  SharedTypeOK' /\ MinterTypeOK'
  BY DEF MinterInstant
<1> DEFINE payment_amount == convert_to_base_9(amount, decimals[t])
           d == calc_deposit(user, t, payment_amount, TRUE)
<1>1. payment_amount \in Nat
  BY AmountsNat, MinterAssumption DEF U64
<1>2. /\ Deposit(user, t, payment_amount, TRUE, d)
      /\ UseDailyLimit(d.m_token_amount)
      /\ MintThroughAuthority(user, d.m_token_amount)
      /\ UNCHANGED <<config, paused, pause_inx, requests_count, envVars, acVars, minterVars>>
      /\ t \in Tokens \cap DOMAIN payment_mint_state
      /\ RateAvailable(t) /\ MRateAvailable
      /\ user \in DOMAIN vault_account
  BY DEF MintInstant, validate_common
<1> HIDE DEF payment_amount
<1>3. /\ d.fee_token_amount \in Nat
      /\ d.amount_token_wo_fee \in Nat
      /\ d.m_token_amount \in Nat
  BY <1>1, <1>2, DepositFigures DEF Deposit, SharedTypeOK
<1> HIDE DEF d
<1>4. VCTypeOK'
  <2>1. /\ DOMAIN payment_mint_state' \subseteq PaymentMints
        /\ \A x \in DOMAIN payment_mint_state' : payment_mint_state'[x] \in PaymentMintState
        /\ DOMAIN vault_account' \subseteq Accounts
        /\ \A a \in DOMAIN vault_account' : vault_account'[a] \in VaultAccount
        /\ balance' \in [Tokens -> [Accounts -> Nat]]
    BY <1>1, <1>2, <1>3, DepositType DEF SharedTypeOK
  <2>2. instant_last_day' \in Nat /\ instant_daily_limit_used' \in U128
    BY <1>2, <1>3, UseDailyLimitType DEF SharedTypeOK
  <2> QED
    BY <1>2, <2>1, <2>2 DEF SharedTypeOK, VCTypeOK, envVars
<1>5. TATypeOK'
  BY <1>2, <1>3, MintThroughAuthorityType, SignersAssumption DEF SharedTypeOK
<1> QED
  BY <1>2, <1>4, <1>5, ACUnchanged DEF SharedTypeOK, MinterTypeOK, minterVars

-----------------------------------------------------------------------------
\* The request instructions of the minter vault, one after the other.
LEMMA MintRequestType ==
    ASSUME SharedTypeOK, MinterTypeOK, NEW user \in Signers, NEW t \in Tokens,
           NEW amount \in Args.amount_token, MintRequest(user, t, amount)
    PROVE  SharedTypeOK' /\ MinterTypeOK'
<1> DEFINE payment_amount == convert_to_base_9(amount, decimals[t])
           d == calc_deposit(user, t, payment_amount, FALSE)
           request == [user                  |-> user,
                       payment_mint          |-> t,
                       deposited_usd         |-> d.mint_amount_in_usd,
                       deposited_usd_wo_fees |-> d.deposited_usd,
                       m_mint_rate           |-> MRate]
<1>1. payment_amount \in Nat
  BY AmountsNat, MinterAssumption DEF U64
<1>2. /\ Deposit(user, t, payment_amount, FALSE, d)
      /\ d.mint_amount_in_usd <= U64_MAX
      /\ mint_requests' = WithEntry(mint_requests, requests_count, request)
      /\ requests_count < MaxRequests /\ requests_count' = requests_count + 1
      /\ UNCHANGED <<config, paused, pause_inx, limitVars, envVars, acVars, taVars, minter>>
      /\ t \in Tokens \cap DOMAIN payment_mint_state
      /\ RateAvailable(t) /\ MRateAvailable
      /\ user \in DOMAIN vault_account
  BY DEF MintRequest, validate_common, UseRequestId
<1> HIDE DEF payment_amount
<1>3. /\ d.fee_token_amount \in Nat
      /\ d.amount_token_wo_fee \in Nat
      /\ d.mint_amount_in_usd \in Nat
      /\ d.deposited_usd \in Nat
      /\ d.deposited_usd <= d.mint_amount_in_usd
  BY <1>1, <1>2, DepositFigures DEF Deposit, SharedTypeOK
<1>4. request \in MintRequestState
  <2>1. MRate \in Price
    BY <1>2, RatesType DEF SharedTypeOK
  <2>2. d.mint_amount_in_usd <= U64_MAX
    BY <1>2
  <2> HIDE DEF d
  <2>3. d.mint_amount_in_usd \in U64 /\ d.deposited_usd \in U64
    BY <1>3, <2>2, WidthAssumption DEF U64
  <2> QED
    BY <2>1, <2>3 DEF MintRequestState
<1> HIDE DEF d, request
<1>5. requests_count \in RequestIds /\ requests_count' \in 0 .. MaxRequests
  BY <1>2, VaultAssumption DEF SharedTypeOK, VCTypeOK, RequestIds
<1>6. VCTypeOK'
  <2>1. /\ DOMAIN payment_mint_state' \subseteq PaymentMints
        /\ \A x \in DOMAIN payment_mint_state' : payment_mint_state'[x] \in PaymentMintState
        /\ DOMAIN vault_account' \subseteq Accounts
        /\ \A a \in DOMAIN vault_account' : vault_account'[a] \in VaultAccount
        /\ balance' \in [Tokens -> [Accounts -> Nat]]
    BY <1>1, <1>2, <1>3, DepositType DEF SharedTypeOK
  <2> QED
    BY <1>2, <1>5, <2>1 DEF SharedTypeOK, VCTypeOK, envVars, limitVars
<1>7. MinterTypeOK'
  <2>1. /\ DOMAIN mint_requests' \subseteq RequestIds
        /\ \A id \in DOMAIN mint_requests' : mint_requests'[id] \in MintRequestState
    BY <1>2, <1>4, <1>5, EntryWritten, Zenon DEF MinterTypeOK
  <2> QED
    BY <1>2, <2>1 DEF MinterTypeOK
<1> QED
  BY <1>2, <1>6, <1>7, ACUnchanged, TAUnchanged DEF SharedTypeOK

LEMMA ApproveMintRequestType ==
    ASSUME SharedTypeOK, MinterTypeOK, NEW authority, NEW id, NEW rate \in Args.new_out_rate,
           NEW is_safe, ApproveMintRequest(authority, id, rate, is_safe)
    PROVE  SharedTypeOK' /\ MinterTypeOK'
<1> DEFINE request == mint_requests[id]
           amount_to_mint == MulDiv(request.deposited_usd_wo_fees, ONE, rate)
<1>1. /\ id \in DOMAIN mint_requests
      /\ MulDivOk(request.deposited_usd_wo_fees, ONE, rate)
      /\ MintThroughAuthority(request.user, amount_to_mint)
      /\ mint_requests' = WithoutEntry(mint_requests, id)
      /\ UNCHANGED <<vcVars, acVars, minter>>
  BY DEF ApproveMintRequest
<1>2. request.user \in Signers /\ request.deposited_usd_wo_fees \in Nat
  BY <1>1 DEF MinterTypeOK, MintRequestState, U64
<1>3. amount_to_mint \in Nat
  <2>1. ONE \in Nat /\ rate \in Nat /\ rate > 0
    BY <1>1, MinterAssumption, VaultAssumption DEF MulDivOk, U64, Price
  <2> QED
    BY <1>2, <2>1, MulDivNat
<1> HIDE DEF amount_to_mint, request
<1>4. TATypeOK'
  BY <1>1, <1>2, <1>3, MintThroughAuthorityType, SignersAssumption DEF SharedTypeOK
<1>5. MinterTypeOK'
  <2>1. /\ DOMAIN mint_requests' \subseteq RequestIds
        /\ \A x \in DOMAIN mint_requests' : mint_requests'[x] \in MintRequestState
    BY <1>1, EntryRemoved, Zenon DEF MinterTypeOK
  <2> QED
    BY <1>1, <2>1 DEF MinterTypeOK
<1> QED
  BY <1>1, <1>4, <1>5, ACUnchanged, VCUnchanged DEF SharedTypeOK

LEMMA MinterRequestsType ==
    SharedTypeOK /\ MinterTypeOK /\ MinterRequests => SharedTypeOK' /\ MinterTypeOK'
<1> SUFFICES ASSUME SharedTypeOK, MinterTypeOK, MinterRequests
             PROVE  SharedTypeOK' /\ MinterTypeOK'
  OBVIOUS
<1>1. ASSUME NEW authority \in Signers, NEW id \in RequestIds, RejectMintRequest(authority, id)
      PROVE  SharedTypeOK' /\ MinterTypeOK'
  <2>1. /\ DOMAIN mint_requests' \subseteq RequestIds
        /\ \A x \in DOMAIN mint_requests' : mint_requests'[x] \in MintRequestState
    BY <1>1, EntryRemoved, Zenon DEF RejectMintRequest, MinterTypeOK
  <2> QED
    BY <1>1, <2>1, ACUnchanged, TAUnchanged, VCUnchanged
       DEF RejectMintRequest, SharedTypeOK, MinterTypeOK
<1>2. ASSUME NEW authority \in Signers, UpdateMinterVault(authority)
      PROVE  SharedTypeOK' /\ MinterTypeOK'
  <2>1. minter' \in Minter
    BY <1>2, MinterAssumption DEF UpdateMinterVault, MinterTypeOK, Minter
  <2> QED
    BY <1>2, <2>1, ACUnchanged, TAUnchanged, VCUnchanged
       DEF UpdateMinterVault, SharedTypeOK, MinterTypeOK
<1> QED
  BY <1>1, <1>2, MintRequestType, ApproveMintRequestType DEF MinterRequests

LEMMA MinterInitType == MinterInit => MinterTypeOK
BY MinterAssumption DEF MinterInit, MinterTypeOK

RedeemTyped == SharedTypeOK /\ RedeemerTypeOK

-----------------------------------------------------------------------------
(* Figures.                                                                *)

LEMMA RedeemFeeType ==
    ASSUME RedeemTyped, NEW user, NEW t \in DOMAIN payment_mint_state,
           NEW amount \in Nat, NEW is_instant \in BOOLEAN
    PROVE  redeem_fee(user, t, amount, is_instant) \in Nat
<1>1. get_fee_amount(user, t, amount, is_instant) \in Nat
  BY FeeAmountType DEF RedeemTyped, SharedTypeOK
<1>2. redeemer.fiat_flat_fee \in Nat
  BY WidthAssumption DEF RedeemTyped, RedeemerTypeOK, Redeemer, U64
<1> QED
  BY <1>1, <1>2 DEF redeem_fee

\* The mTokens that are left after the fee: positive, and within the u64 the
\* customer gave.
LEMMA NetAmountType ==
    ASSUME RedeemTyped, NEW user, NEW t \in DOMAIN payment_mint_state,
           NEW amount \in U64, NEW is_instant \in BOOLEAN,
           RedeemValid(user, t, amount, is_instant)
    PROVE  amount - redeem_fee(user, t, amount, is_instant) \in U64
<1> DEFINE fee == redeem_fee(user, t, amount, is_instant)
<1>1. fee \in Nat /\ amount \in Nat /\ amount <= U64_MAX
  BY RedeemFeeType, WidthAssumption DEF U64
<1>2. amount > fee
  BY DEF RedeemValid
<1> HIDE DEF fee
<1>3. amount - fee \in U64
  BY <1>1, <1>2, WidthAssumption DEF U64
<1> QED
  BY <1>3 DEF fee

LEMMA NoAmountMovesNothing == MRaw(0) = 0
<1> USE VaultAssumption, BaseAssumption, RadixAssumption
<1>1. CASE Base > m_decimals
  <2>1. Base - m_decimals \in 0 .. MaxDecimals
    BY <1>1
  <2>2. Radix ^ (Base - m_decimals) \in Nat /\ Radix ^ (Base - m_decimals) > 0
    BY <2>1
  <2>3. 0 \div Radix ^ (Base - m_decimals) = 0
    BY <2>2
  <2> QED
    BY <1>1, <2>3 DEF MRaw, convert_from_base_9, convert
<1>2. CASE ~(Base > m_decimals)
  <2>1. m_decimals - Base \in 0 .. MaxDecimals
    BY <1>2
  <2>2. Radix ^ (m_decimals - Base) \in Nat
    BY <2>1
  <2>3. 0 * Radix ^ (m_decimals - Base) = 0
    BY <2>2
  <2> QED
    BY <1>2, <2>3 DEF MRaw, convert_from_base_9, convert
<1> QED
  BY <1>1, <1>2

\* The fee leaves well-typed balances, whether there is one or not.
LEMMA FeePaidType ==
    ASSUME RedeemTyped, NEW bal \in [Accounts -> Nat], NEW user \in Accounts, NEW fee \in Nat,
           FeePayable(bal, user, fee)
    PROVE  FeePaid(bal, user, fee) \in [Accounts -> Nat]
<1>1. config.fee_receiver \in Accounts
  BY DEF RedeemTyped, SharedTypeOK, VCTypeOK, Config
<1>2. MRaw(fee) \in Nat /\ CanTransfer(bal, user, MRaw(fee))
  <2>1. CASE fee > 0
    BY <2>1, AmountsNat DEF FeePayable, CanMoveM
  <2>2. CASE fee = 0
    BY <2>2, NoAmountMovesNothing DEF CanTransfer
  <2> QED
    BY <2>1, <2>2
<1> QED
  BY <1>1, <1>2, TransferredType DEF FeePaid

\* A payout of a positive rate, truncated to the payment token's decimals.
LEMMA PayoutType ==
    ASSUME NEW t \in PaymentMints, NEW amount \in Nat, NEW rate \in Nat,
           NEW payment_rate \in Price
    PROVE  truncate(MulDiv(amount, rate, payment_rate), pay_decimals(t)) \in Nat
<1>1. payment_rate \in Nat /\ payment_rate > 0
  BY WidthAssumption DEF Price
<1>2. MulDiv(amount, rate, payment_rate) \in Nat
  BY <1>1, MulDivNat
<1>3. pay_decimals(t) \in 0 .. MaxDecimals
  BY VaultAssumption, BaseAssumption DEF pay_decimals, PaymentMints
<1> QED
  BY <1>2, <1>3, TruncateFacts

-----------------------------------------------------------------------------
\* redeem_instant.
LEMMA RedeemerInstantType == RedeemTyped /\ RedeemerInstant => RedeemTyped'
<1> SUFFICES ASSUME RedeemTyped, NEW user \in Signers, NEW t \in Tokens,
                    NEW amount \in Args.amount_m_token, NEW least \in Args.min_receive_amount,
                    RedeemInstant(user, t, amount, least)
             PROVE  RedeemTyped'
  BY DEF RedeemerInstant
<1> DEFINE rate == get_token_rate(t)
           fee == redeem_fee(user, t, amount, TRUE)
           wo_fee == amount - fee
           usd == MulDiv(amount, MRate, ONE)
           amount_payment_token == MulDiv(usd, ONE, rate)
           payout == truncate(MulDiv(wo_fee, MRate, rate), decimals[t])
<1>1. /\ t \in DOMAIN payment_mint_state
      /\ RateAvailable(t) /\ MRateAvailable
      /\ RedeemValid(user, t, amount, TRUE)
      /\ UseDailyLimit(amount)
  BY DEF RedeemInstant
<1>2. /\ AllowanceCovers(t, amount_payment_token)
      /\ UseAllowance(t, amount_payment_token)
      /\ CanBurn(user, wo_fee)
      /\ FeePayable(Burned(user, wo_fee), user, fee)
      /\ m_balance' = FeePaid(Burned(user, wo_fee), user, fee)
      /\ m_supply' = m_supply - wo_fee
      /\ CanPay(t, balance, redeemer_vault, payout)
      /\ balance' = Paid(t, balance, redeemer_vault, user, payout)
  BY DEF RedeemInstant
<1>3. UNCHANGED <<config, paused, pause_inx, vault_account, requests_count, envVars,
                  acVars, token_authorities, frozen, m_authority, redeemerVars>>
  BY DEF RedeemInstant
<1>4. user \in Accounts /\ redeemer_vault \in Accounts /\ amount \in U64 /\ amount \in Nat
  BY SignersAssumption, VaultAssumption, RedeemerAssumption DEF U64
<1>5. rate \in Price /\ MRate \in Price /\ ONE \in Price
  BY <1>1, RatesType, VaultAssumption DEF RedeemTyped, SharedTypeOK
<1>6. fee \in Nat /\ wo_fee \in U64
  BY <1>1, <1>4, RedeemFeeType, NetAmountType
<1> HIDE DEF rate, fee, wo_fee
<1>7. wo_fee \in Nat
  BY <1>6 DEF U64
<1>8. payout \in Nat
  <2>1. t \in PaymentMints /\ pay_decimals(t) = decimals[t]
    BY VaultAssumption DEF PaymentMints, pay_decimals
  <2>2. MRate \in Nat
    BY <1>5, WidthAssumption DEF Price
  <2> QED
    BY <1>5, <1>7, <2>1, <2>2, PayoutType
<1>9. amount_payment_token \in Nat
  <2>1. /\ rate \in Nat /\ rate > 0 /\ MRate \in Nat
        /\ ONE \in Nat /\ ONE > 0
    BY <1>5, WidthAssumption DEF Price
  <2>2. usd \in Nat
    BY <1>4, <2>1, MulDivNat
  <2> HIDE DEF usd
  <2> QED
    BY <2>1, <2>2, MulDivNat
<1> HIDE DEF payout, amount_payment_token
<1>10. TATypeOK'
  <2>1. Burned(user, wo_fee) \in [Accounts -> Nat]
    BY <1>2, <1>4, <1>7, DebitType DEF CanBurn, Burned, RedeemTyped, SharedTypeOK, TATypeOK
  <2>2. m_balance' \in [Accounts -> Nat]
    BY <1>2, <1>4, <1>6, <2>1, FeePaidType
  <2>3. m_supply' \in U64
    BY <1>2, <1>7, WidthAssumption DEF CanBurn, RedeemTyped, SharedTypeOK, TATypeOK, U64
  <2> QED
    BY <1>3, <2>2, <2>3 DEF RedeemTyped, SharedTypeOK, TATypeOK, Authorities
<1>11. VCTypeOK'
  <2>1. /\ DOMAIN payment_mint_state' \subseteq PaymentMints
        /\ \A x \in DOMAIN payment_mint_state' : payment_mint_state'[x] \in PaymentMintState
    BY <1>1, <1>2, <1>9, UseAllowanceType DEF RedeemTyped, SharedTypeOK
  <2>2. balance' \in [Tokens -> [Accounts -> Nat]]
    BY <1>2, <1>4, <1>8, PaidType DEF RedeemTyped, SharedTypeOK, VCTypeOK
  <2>3. instant_last_day' \in Nat /\ instant_daily_limit_used' \in U128
    BY <1>1, <1>4, UseDailyLimitType DEF RedeemTyped, SharedTypeOK
  <2> QED
    BY <1>3, <2>1, <2>2, <2>3 DEF RedeemTyped, SharedTypeOK, VCTypeOK, envVars
<1> QED
  BY <1>3, <1>10, <1>11, ACUnchanged DEF RedeemTyped, SharedTypeOK, RedeemerTypeOK, redeemerVars

-----------------------------------------------------------------------------
\* redeem_request and redeem_request_fiat.
LEMMA CreateRedeemRequestType ==
    ASSUME RedeemTyped, NEW user \in Signers, NEW t \in DOMAIN payment_mint_state,
           NEW amount \in U64, NEW rate \in Price,
           CreateRedeemRequest(user, t, amount, rate)
    PROVE  RedeemTyped'
<1> DEFINE fee == redeem_fee(user, t, amount, FALSE)
           wo_fee == amount - fee
           escrowed == Transferred(m_balance, user, redeemer_vault, MRaw(wo_fee))
           terms == redeem_terms(user, t, amount, fee, rate)
<1>1. /\ MRateAvailable
      /\ requests_count < MaxRequests /\ requests_count' = requests_count + 1
      /\ RedeemValid(user, t, amount, FALSE)
      /\ CanMoveM(m_balance, user, redeemer_vault, MRaw(wo_fee))
      /\ FeePayable(escrowed, user, fee)
      /\ m_balance' = FeePaid(escrowed, user, fee)
      /\ redeem_requests' = WithEntry(redeem_requests, requests_count, terms)
  BY DEF CreateRedeemRequest, UseRequestId
<1>2. UNCHANGED <<adminVars, limitVars, balance, envVars, acVars, token_authorities,
                  m_supply, frozen, m_authority, redeemer, delegated>>
  BY DEF CreateRedeemRequest
<1>3. user \in Accounts /\ redeemer_vault \in Accounts /\ amount \in Nat
  BY SignersAssumption, VaultAssumption DEF U64
<1>4. fee \in Nat /\ wo_fee \in U64
  BY <1>1, <1>3, RedeemFeeType, NetAmountType
<1>5. MRate \in Price
  BY <1>1, RatesType DEF RedeemTyped, SharedTypeOK
<1>6. t \in PaymentMints
  BY DEF RedeemTyped, SharedTypeOK, VCTypeOK
<1> HIDE DEF fee
<1>7. terms \in RedeemRequestState
  BY <1>4, <1>5, <1>6 DEF redeem_terms, RedeemRequestState
<1> HIDE DEF wo_fee, terms
<1>8. escrowed \in [Accounts -> Nat]
  <2>1. MRaw(wo_fee) \in Nat
    BY <1>4, AmountsNat DEF U64
  <2> QED
    BY <1>1, <1>3, <2>1, TransferredType DEF CanMoveM, RedeemTyped, SharedTypeOK, TATypeOK
<1> HIDE DEF escrowed
<1>9. TATypeOK'
  <2>1. m_balance' \in [Accounts -> Nat]
    BY <1>1, <1>3, <1>4, <1>8, FeePaidType
  <2> QED
    BY <1>2, <2>1 DEF RedeemTyped, SharedTypeOK, TATypeOK, Authorities
<1>10. requests_count \in RequestIds /\ requests_count' \in 0 .. MaxRequests
  BY <1>1, VaultAssumption DEF RedeemTyped, SharedTypeOK, VCTypeOK, RequestIds
<1>11. VCTypeOK'
  BY <1>2, <1>10 DEF RedeemTyped, SharedTypeOK, VCTypeOK, adminVars, limitVars, envVars
<1>12. RedeemerTypeOK'
  <2>1. /\ DOMAIN redeem_requests' \subseteq RequestIds
        /\ \A id \in DOMAIN redeem_requests' : redeem_requests'[id] \in RedeemRequestState
    BY <1>1, <1>7, <1>10, EntryWritten, Zenon DEF RedeemTyped, RedeemerTypeOK
  <2> QED
    BY <1>2, <2>1 DEF RedeemTyped, RedeemerTypeOK
<1> QED
  BY <1>2, <1>9, <1>11, <1>12, ACUnchanged DEF RedeemTyped, SharedTypeOK

\* What the two approvals have in common.
LEMMA SettleRedeemType ==
    ASSUME RedeemTyped, NEW authority, NEW id, NEW rate \in Args.new_m_token_rate, NEW is_safe,
           SettleRedeem(authority, id, rate, is_safe)
    PROVE  /\ redeem_requests[id] \in RedeemRequestState
           /\ redeem_payout(redeem_requests[id], rate) \in Nat
           /\ TATypeOK'
           /\ balance' \in [Tokens -> [Accounts -> Nat]] => VCTypeOK'
           /\ delegated' \in [Tokens -> [Accounts -> Nat]] => RedeemerTypeOK'
           /\ ACInv'
<1> DEFINE request == redeem_requests[id]
           t == request.payment_mint
           payout == redeem_payout(request, rate)
<1>1. /\ id \in DOMAIN redeem_requests
      /\ t \in DOMAIN payment_mint_state
      /\ CanBurn(redeemer_vault, request.m_token_amount)
      /\ m_balance' = Burned(redeemer_vault, request.m_token_amount)
      /\ m_supply' = m_supply - request.m_token_amount
      /\ AllowanceCovers(t, payout) /\ UseAllowance(t, payout)
      /\ redeem_requests' = WithoutEntry(redeem_requests, id)
  BY DEF SettleRedeem
<1>2. UNCHANGED <<config, paused, pause_inx, vault_account, requests_count, limitVars,
                  envVars, acVars, token_authorities, frozen, m_authority, redeemer>>
  BY DEF SettleRedeem
<1>3. request \in RedeemRequestState
  BY <1>1 DEF RedeemTyped, RedeemerTypeOK
<1>4. /\ request.m_token_amount \in Nat
      /\ request.payment_mint_rate \in Price
      /\ t \in PaymentMints /\ rate \in Nat
  BY <1>3, RedeemerAssumption DEF RedeemRequestState, U64
<1> HIDE DEF request
<1>5. payout \in Nat
  BY <1>4, PayoutType DEF redeem_payout
<1> HIDE DEF payout, t
<1>6. TATypeOK'
  <2>1. m_balance' \in [Accounts -> Nat]
    BY <1>1, <1>4, DebitType, VaultAssumption
       DEF CanBurn, Burned, RedeemTyped, SharedTypeOK, TATypeOK
  <2>2. m_supply' \in U64
    BY <1>1, <1>4, WidthAssumption DEF CanBurn, RedeemTyped, SharedTypeOK, TATypeOK, U64
  <2> QED
    BY <1>2, <2>1, <2>2 DEF RedeemTyped, SharedTypeOK, TATypeOK, Authorities
<1>7. balance' \in [Tokens -> [Accounts -> Nat]] => VCTypeOK'
  <2>1. /\ DOMAIN payment_mint_state' \subseteq PaymentMints
        /\ \A x \in DOMAIN payment_mint_state' : payment_mint_state'[x] \in PaymentMintState
    BY <1>1, <1>5, UseAllowanceType DEF RedeemTyped, SharedTypeOK
  <2> QED
    BY <1>2, <2>1 DEF RedeemTyped, SharedTypeOK, VCTypeOK, limitVars, envVars
<1>8. delegated' \in [Tokens -> [Accounts -> Nat]] => RedeemerTypeOK'
  <2>1. /\ DOMAIN redeem_requests' \subseteq RequestIds
        /\ \A x \in DOMAIN redeem_requests' : redeem_requests'[x] \in RedeemRequestState
    BY <1>1, EntryRemoved, Zenon DEF RedeemTyped, RedeemerTypeOK
  <2> QED
    BY <1>2, <2>1 DEF RedeemTyped, RedeemerTypeOK
<1>9. ACInv'
  BY <1>2, ACUnchanged DEF RedeemTyped, SharedTypeOK
<1> QED
  BY <1>3, <1>5, <1>6, <1>7, <1>8, <1>9 DEF request, payout

\* approve_redeem_request.
LEMMA ApproveRedeemRequestType ==
    ASSUME RedeemTyped, NEW authority, NEW id, NEW rate \in Args.new_m_token_rate, NEW is_safe,
           ApproveRedeemRequest(authority, id, rate, is_safe)
    PROVE  RedeemTyped'
<1> DEFINE request == redeem_requests[id]
           t == request.payment_mint
           payer == redeemer.request_redeemer
           payout == redeem_payout(request, rate)
<1>1. /\ SettleRedeem(authority, id, rate, is_safe)
      /\ t \in Tokens
      /\ CanDraw(t, payer, payout)
      /\ balance' = Paid(t, balance, payer, request.user, payout)
      /\ delegated' = Drawn(t, payer, request.user, payout)
  BY DEF ApproveRedeemRequest
<1>2. /\ request \in RedeemRequestState
      /\ payout \in Nat
      /\ TATypeOK'
      /\ balance' \in [Tokens -> [Accounts -> Nat]] => VCTypeOK'
      /\ delegated' \in [Tokens -> [Accounts -> Nat]] => RedeemerTypeOK'
      /\ ACInv'
  BY <1>1, SettleRedeemType
<1>3. request.user \in Accounts /\ payer \in Accounts
  BY <1>2, SignersAssumption DEF RedeemRequestState, RedeemTyped, RedeemerTypeOK, Redeemer
<1> HIDE DEF t, payer, payout, request
<1>4. balance' \in [Tokens -> [Accounts -> Nat]]
  BY <1>1, <1>2, <1>3, PaidType DEF CanDraw, RedeemTyped, SharedTypeOK, VCTypeOK
<1>5. delegated' \in [Tokens -> [Accounts -> Nat]]
  <2>1. CASE payer \in {redeemer_vault, request.user}
    BY <1>1, <2>1 DEF Drawn, RedeemTyped, RedeemerTypeOK
  <2>2. CASE payer \notin {redeemer_vault, request.user}
    <3> DEFINE allowed == [delegated[t] EXCEPT ![payer] = @ - Raw(t, payout)]
    <3>1. delegated[t] \in [Accounts -> Nat]
      BY <1>1 DEF RedeemTyped, RedeemerTypeOK
    <3>2. Raw(t, payout) \in Nat /\ delegated[t][payer] >= Raw(t, payout)
      BY <1>1, <1>2, <2>2, AmountsNat DEF CanDraw
    <3>3. allowed \in [Accounts -> Nat]
      BY <1>3, <3>1, <3>2, DebitType
    <3>4. delegated' = [delegated EXCEPT ![t] = allowed]
      BY <1>1, <2>2 DEF Drawn
    <3> HIDE DEF allowed
    <3> QED
      BY <3>3, <3>4 DEF RedeemTyped, RedeemerTypeOK
  <2> QED
    BY <2>1, <2>2
<1> QED
  BY <1>2, <1>4, <1>5 DEF RedeemTyped, SharedTypeOK

LEMMA RedeemerRequestsType == RedeemTyped /\ RedeemerRequests => RedeemTyped'
<1> SUFFICES ASSUME RedeemTyped, RedeemerRequests PROVE RedeemTyped'
  OBVIOUS
<1>1. ASSUME NEW user \in Signers, NEW amount \in Args.amount_m_token, NEW t \in Tokens,
             RedeemRequest(user, t, amount)
      PROVE  RedeemTyped'
  <2>1. get_token_rate(t) \in Price
    BY <1>1, RatesType DEF RedeemRequest, RedeemTyped, SharedTypeOK
  <2> QED
    BY <1>1, <2>1, CreateRedeemRequestType, RedeemerAssumption DEF RedeemRequest
<1>2. ASSUME NEW user \in Signers, NEW amount \in Args.amount_m_token,
             RedeemRequestFiat(user, amount)
      PROVE  RedeemTyped'
  BY <1>2, CreateRedeemRequestType, RedeemerAssumption, VaultAssumption DEF RedeemRequestFiat
<1>3. ASSUME NEW authority, NEW id, NEW rate \in Args.new_m_token_rate, NEW is_safe,
             ApproveRedeemRequestFiat(authority, id, rate, is_safe)
      PROVE  RedeemTyped'
  <2>1. /\ SettleRedeem(authority, id, rate, is_safe)
        /\ UNCHANGED <<balance, delegated>>
    BY <1>3 DEF ApproveRedeemRequestFiat
  <2>2. /\ balance' \in [Tokens -> [Accounts -> Nat]]
        /\ delegated' \in [Tokens -> [Accounts -> Nat]]
    BY <2>1 DEF RedeemTyped, SharedTypeOK, VCTypeOK, RedeemerTypeOK
  <2> QED
    BY <2>1, <2>2, SettleRedeemType DEF RedeemTyped, SharedTypeOK
<1>4. ASSUME NEW authority, NEW id, RejectRedeemRequest(authority, id)
      PROVE  RedeemTyped'
  <2>1. /\ DOMAIN redeem_requests' \subseteq RequestIds
        /\ \A x \in DOMAIN redeem_requests' : redeem_requests'[x] \in RedeemRequestState
    BY <1>4, EntryRemoved, Zenon DEF RejectRedeemRequest, RedeemTyped, RedeemerTypeOK
  <2> QED
    BY <1>4, <2>1, ACUnchanged, TAUnchanged, VCUnchanged
       DEF RejectRedeemRequest, RedeemTyped, SharedTypeOK, RedeemerTypeOK
<1>5. ASSUME NEW authority, UpdateRedeemerVault(authority)
      PROVE  RedeemTyped'
  <2>1. redeemer' \in Redeemer
    BY <1>5, RedeemerAssumption DEF UpdateRedeemerVault, RedeemTyped, RedeemerTypeOK, Redeemer
  <2> QED
    BY <1>5, <2>1, ACUnchanged, TAUnchanged, VCUnchanged
       DEF UpdateRedeemerVault, RedeemTyped, SharedTypeOK, RedeemerTypeOK
<1>6. ASSUME NEW t \in Tokens, NEW owner \in Signers, NEW amount \in Args.delegate,
             ApproveDelegate(t, owner, amount)
      PROVE  RedeemTyped'
  <2>1. amount \in Nat /\ owner \in Accounts
    BY RedeemerAssumption, SignersAssumption DEF U64
  <2>2. delegated' \in [Tokens -> [Accounts -> Nat]]
    BY <1>6, <2>1 DEF ApproveDelegate, RedeemTyped, RedeemerTypeOK
  <2> QED
    BY <1>6, <2>2, ACUnchanged, TAUnchanged, VCUnchanged
       DEF ApproveDelegate, RedeemTyped, SharedTypeOK, RedeemerTypeOK
<1> QED
  BY <1>1, <1>2, <1>3, <1>4, <1>5, <1>6, ApproveRedeemRequestType DEF RedeemerRequests

LEMMA RedeemerInitType == RedeemerInit => RedeemerTypeOK
BY RedeemerAssumption DEF RedeemerInit, RedeemerTypeOK

-----------------------------------------------------------------------------
(* Types.  The exclusion of the green and the black list is carried along, *)
(* for it is what update_account_ac leaves behind with the types.          *)

Typed == SharedTypeOK /\ MinterTypeOK /\ RedeemerTypeOK

LEMMA InitTyped == Init => Typed
BY SharedInitType, MinterInitType, RedeemerInitType DEF Init, Typed

LEMMA StepTyped == Typed /\ [Next]_vars => Typed'
<1> SUFFICES ASSUME Typed, [Next]_vars PROVE Typed'
  OBVIOUS
<1>1. UNCHANGED minterVars => MinterTypeOK'
  BY DEF Typed, MinterTypeOK, minterVars
<1>2. UNCHANGED redeemerVars => RedeemerTypeOK'
  BY DEF Typed, RedeemerTypeOK, redeemerVars
<1>3. ASSUME MinterInstant \/ MinterRequests, UNCHANGED redeemerVars
      PROVE  Typed'
  BY <1>2, <1>3, MinterInstantType, MinterRequestsType DEF Typed
<1>4. ASSUME RedeemerInstant \/ RedeemerRequests, UNCHANGED minterVars
      PROVE  Typed'
  BY <1>1, <1>4, RedeemerInstantType, RedeemerRequestsType DEF Typed, RedeemTyped
<1>5. CASE CommonNext
  BY <1>1, <1>2, <1>5, SharedStepType DEF Typed, CommonNext
<1>6. CASE UNCHANGED vars
  BY <1>1, <1>2, <1>6, ACUnchanged, TAUnchanged, VCUnchanged DEF Typed, SharedTypeOK, vars
<1> QED
  BY <1>3, <1>4, <1>5, <1>6 DEF Next, InstantNext, RequestsNext

\* Every account of the four programs and every token balance stays well typed:
\* no allowance, counter or balance goes below zero or beyond its width, and no
\* fee beyond 100%.
THEOREM VaultTypes == Spec => []TypeOK
<1>1. Spec => []Typed
  BY InitTyped, StepTyped, PTL DEF Spec
<1>2. Typed => TypeOK
  BY DEF Typed, SharedTypeOK, ACInv, TypeOK
<1> QED
  BY <1>1, <1>2, PTL

-----------------------------------------------------------------------------
(* What each group of steps leaves alone.                                  *)

books == <<requests_count, mint_requests, redeem_requests>>

LEMMA InstantKeepsBooks == InstantNext => UNCHANGED books /\ UNCHANGED acVars /\ UNCHANGED config
<1>1. ASSUME NEW user, NEW t, NEW amount, NEW least, MintInstant(user, t, amount, least),
             UNCHANGED redeemerVars
      PROVE  UNCHANGED books /\ UNCHANGED acVars /\ UNCHANGED config
  BY <1>1 DEF MintInstant, minterVars, redeemerVars, books
<1>2. ASSUME NEW user, NEW t, NEW amount, NEW least, RedeemInstant(user, t, amount, least),
             UNCHANGED minterVars
      PROVE  UNCHANGED books /\ UNCHANGED acVars /\ UNCHANGED config
  BY <1>2 DEF RedeemInstant, minterVars, redeemerVars, books
<1> QED
  BY <1>1, <1>2 DEF InstantNext, MinterInstant, RedeemerInstant

\* The management of the vault takes a vault admin; it neither mints nor burns,
\* grants no role, and leaves the daily counter and the request counter alone.
LEMMA AdminLeaves ==
    ASSUME VaultAdminNext
    PROVE  /\ UNCHANGED <<m_supply, limitVars, requests_count, acVars>>
           /\ \E authority \in Signers : HasVaultRole(authority, VAULT_ADMIN)
<1> DEFINE Left == UNCHANGED <<m_supply, limitVars, requests_count, acVars>>
<1>1. PICK authority \in Signers :
         \/ UpdateVaultCommon(authority)
         \/ \E t : \/ UpdatePaymentToken(authority, t)
                   \/ RemovePaymentToken(authority, t)
                   \/ \E state : AddPaymentToken(authority, t, state)
         \/ \E fee, allowance : AddPaymentTokenFiat(authority, fee, allowance)
         \/ \E account : UpdateVaultCommonAccount(authority, account)
         \/ \E vault, receiver, amount :
              \/ WithdrawMToken(authority, vault, receiver, amount)
              \/ \E t : WithdrawToken(authority, vault, t, receiver, amount)
  BY Zenon DEF VaultAdminNext
<1>2. ASSUME UpdateVaultCommon(authority)
      PROVE  Left
  BY <1>2 DEF UpdateVaultCommon, taVars
<1>3. ASSUME NEW t, \/ UpdatePaymentToken(authority, t)
                    \/ RemovePaymentToken(authority, t)
      PROVE  Left
  BY <1>3 DEF UpdatePaymentToken, RemovePaymentToken, taVars
<1>4. ASSUME NEW t, NEW state, AddPaymentToken(authority, t, state)
      PROVE  Left
  BY <1>4 DEF AddPaymentToken, taVars
<1>5. ASSUME NEW fee, NEW allowance, AddPaymentTokenFiat(authority, fee, allowance)
      PROVE  Left
  BY <1>5 DEF AddPaymentTokenFiat, taVars
<1>6. ASSUME NEW account, UpdateVaultCommonAccount(authority, account)
      PROVE  Left
  BY <1>6 DEF UpdateVaultCommonAccount, taVars
<1>7. ASSUME NEW vault, NEW receiver, NEW amount,
             WithdrawMToken(authority, vault, receiver, amount)
      PROVE  Left
  BY <1>7 DEF WithdrawMToken
<1>8. ASSUME NEW vault, NEW t, NEW receiver, NEW amount,
             WithdrawToken(authority, vault, t, receiver, amount)
      PROVE  Left
  BY <1>8 DEF WithdrawToken, taVars
<1>9. HasVaultRole(authority, VAULT_ADMIN)
  BY <1>1, Zenon
     DEF UpdateVaultCommon, UpdatePaymentToken, RemovePaymentToken, AddPaymentToken,
         AddPaymentTokenFiat, UpdateVaultCommonAccount, WithdrawMToken, WithdrawToken
<1>10. Left
  <2> HIDE DEF Left
  <2> QED BY <1>1, <1>2, <1>3, <1>4, <1>5, <1>6, <1>7, <1>8, Zenon
<1> QED
  BY <1>9, <1>10

LEMMA CommonKeepsBooks == CommonNext => UNCHANGED books
<1> USE DEF books, vcVars
<1>1. VaultAdminNext => UNCHANGED requests_count
  BY AdminLeaves
<1>2. VaultPauserNext => UNCHANGED requests_count
  BY DEF VaultPauserNext, NewPauseInx, UpdatePauseInx, UpdatePause
<1>3. EnvironmentNext => UNCHANGED requests_count
  BY DEF EnvironmentNext, PriceMoves, Tick, NewVaultCommonAccount
<1>4. GovernanceNext => UNCHANGED requests_count
  BY DEF GovernanceNext
<1> QED
  BY <1>1, <1>2, <1>3, <1>4 DEF CommonNext, VCNext, minterVars, redeemerVars

-----------------------------------------------------------------------------
(* The request books.                                                      *)

BookInv == Typed /\ IdsShared

LEMMA InitBookInv == Init => BookInv
BY InitTyped DEF Init, MinterInit, RedeemerInit, BookInv, IdsShared

\* A request of either kind takes the id next in line; a decision only removes.
LEMMA StepBookInv == BookInv /\ [Next]_vars => BookInv'
<1> SUFFICES ASSUME BookInv, [Next]_vars PROVE BookInv'
  OBVIOUS
<1>1. Typed /\ Typed'
  BY StepTyped DEF BookInv
<1>2. requests_count \in Nat
  BY <1>1, VaultAssumption DEF Typed, SharedTypeOK, VCTypeOK
<1>3. UNCHANGED books => IdsShared'
  BY DEF BookInv, IdsShared, books
<1>4. \A id \in DOMAIN mint_requests \cup DOMAIN redeem_requests : id \in Nat
  BY <1>1 DEF Typed, MinterTypeOK, RedeemerTypeOK, RequestIds
<1>5. ASSUME requests_count' = requests_count + 1,
             \/ /\ DOMAIN mint_requests' = DOMAIN mint_requests \cup {requests_count}
                /\ UNCHANGED redeem_requests
             \/ /\ DOMAIN redeem_requests' = DOMAIN redeem_requests \cup {requests_count}
                /\ UNCHANGED mint_requests
      PROVE  IdsShared'
  BY <1>2, <1>4, <1>5 DEF BookInv, IdsShared
<1>6. ASSUME UNCHANGED requests_count,
             DOMAIN mint_requests' \subseteq DOMAIN mint_requests,
             DOMAIN redeem_requests' \subseteq DOMAIN redeem_requests
      PROVE  IdsShared'
  BY <1>6 DEF BookInv, IdsShared
<1>7. ASSUME MinterRequests, UNCHANGED redeemerVars
      PROVE  IdsShared'
  <2>1. ASSUME NEW user, NEW t, NEW amount, MintRequest(user, t, amount)
        PROVE  IdsShared'
    BY <1>5, <1>7, <2>1 DEF MintRequest, UseRequestId, WithEntry, redeemerVars
  <2>2. ASSUME NEW authority, NEW id, NEW rate, NEW is_safe,
               \/ ApproveMintRequest(authority, id, rate, is_safe)
               \/ RejectMintRequest(authority, id)
        PROVE  IdsShared'
    BY <1>6, <1>7, <2>2
       DEF ApproveMintRequest, RejectMintRequest, WithoutEntry, redeemerVars, vcVars
  <2>3. ASSUME NEW authority, UpdateMinterVault(authority)
        PROVE  IdsShared'
    BY <1>3, <1>7, <2>3 DEF UpdateMinterVault, redeemerVars, vcVars, books
  <2> QED
    BY <1>7, <2>1, <2>2, <2>3 DEF MinterRequests
<1>8. ASSUME RedeemerRequests, UNCHANGED minterVars
      PROVE  IdsShared'
  <2>1. ASSUME NEW user, NEW t, NEW amount, NEW rate, CreateRedeemRequest(user, t, amount, rate)
        PROVE  IdsShared'
    BY <1>5, <1>8, <2>1 DEF CreateRedeemRequest, UseRequestId, WithEntry, minterVars
  <2>2. ASSUME NEW authority, NEW id, NEW rate, NEW is_safe,
               \/ SettleRedeem(authority, id, rate, is_safe)
               \/ RejectRedeemRequest(authority, id)
        PROVE  IdsShared'
    BY <1>6, <1>8, <2>2
       DEF SettleRedeem, RejectRedeemRequest, WithoutEntry, minterVars, vcVars
  <2>3. ASSUME NEW authority, UpdateRedeemerVault(authority)
        PROVE  IdsShared'
    BY <1>3, <1>8, <2>3 DEF UpdateRedeemerVault, minterVars, vcVars, books
  <2>4. ASSUME NEW t, NEW owner, NEW amount, ApproveDelegate(t, owner, amount)
        PROVE  IdsShared'
    BY <1>3, <1>8, <2>4 DEF ApproveDelegate, minterVars, vcVars, books
  <2> QED
    BY <1>8, <2>1, <2>2, <2>3, <2>4
       DEF RedeemerRequests, RedeemRequest, RedeemRequestFiat,
           ApproveRedeemRequest, ApproveRedeemRequestFiat
<1>9. CASE UNCHANGED vars
  BY <1>1, <1>3, <1>9 DEF BookInv, vars, vcVars, minterVars, redeemerVars, books
<1>10. CASE InstantNext \/ CommonNext
  BY <1>1, <1>3, <1>10, InstantKeepsBooks, CommonKeepsBooks DEF BookInv
<1> QED
  BY <1>1, <1>7, <1>8, <1>9, <1>10 DEF BookInv, Next, RequestsNext

\* No id is ever pending in both books (mint_request.rs and create_redeem_request
\* in utils.rs both take vault_common's requests_count and increment it).
THEOREM IdsNeverShared == Spec => []IdsShared
<1>1. Spec => []BookInv
  BY InitBookInv, StepBookInv, PTL DEF Spec
<1>2. BookInv => IdsShared
  BY DEF BookInv
<1> QED
  BY <1>1, <1>2, PTL

-----------------------------------------------------------------------------
(* The books implement the abstract book, where the mToken has the decimals *)
(* amounts are computed in: only then is what a request records what its    *)
(* escrow received.                                                         *)

LEMMA SameDecimals == m_decimals = Base => \A amount \in Nat : MRaw(amount) = amount
<1> SUFFICES ASSUME m_decimals = Base, NEW amount \in Nat PROVE MRaw(amount) = amount
  OBVIOUS
<1>1. MRaw(amount) = amount * Radix ^ (Base - Base)
  BY BaseAssumption DEF MRaw, convert_from_base_9, convert
<1>2. Base - Base = 0
  BY BaseAssumption
<1>3. Radix ^ (Base - Base) = 1
  BY <1>2, RadixAssumption
<1> QED
  BY <1>1, <1>3

\* The vault itself signs no instruction, so no customer's account is its own.
LEMMA EscrowApart == \A user \in Signers : user # redeemer_vault
BY VaultAssumption

LEMMA AmountsInBook == Typed => m_balance[redeemer_vault] \in Nat /\ m_supply \in Nat
BY VaultAssumption, WidthAssumption DEF Typed, SharedTypeOK, TATypeOK, U64

LEMMA InitBook == Init => Book!BookInit
<1> SUFFICES ASSUME Init PROVE Book!BookInit
  OBVIOUS
<1>1. Typed
  BY InitTyped
<1>2. requests_count = 0 /\ DOMAIN mint_requests = {} /\ DOMAIN redeem_requests = {}
  BY DEF Init, VCInit, MinterInit, RedeemerInit
<1> QED
  BY <1>1, <1>2, AmountsInBook DEF Book!BookInit

\* Whatever keeps the books is a step of the abstract book.
LEMMA BooksKept == Typed' /\ UNCHANGED books => Book!BookNext
<1> SUFFICES ASSUME Typed', UNCHANGED books PROVE Book!MoveTokens
  BY DEF Book!BookNext
<1>1. (m_balance[redeemer_vault])' \in Nat /\ m_supply' \in Nat
  BY VaultAssumption, WidthAssumption DEF Typed, SharedTypeOK, TATypeOK, U64
<1> QED
  BY <1>1 DEF Book!MoveTokens, books

\* mint_request opens a mint.
LEMMA MintRequestOpens ==
    ASSUME BookInv, Typed', NEW user, NEW t, NEW amount, MintRequest(user, t, amount),
           UNCHANGED redeemerVars
    PROVE  Book!OpenMint
<1>1. PICK request :
        /\ mint_requests' = WithEntry(mint_requests, requests_count, request)
        /\ requests_count' = requests_count + 1
        /\ UNCHANGED taVars
  BY DEF MintRequest, UseRequestId
<1>2. requests_count \notin DOMAIN mint_requests /\ requests_count \notin DOMAIN redeem_requests
  <2>1. requests_count \in Nat
    BY VaultAssumption DEF BookInv, Typed, SharedTypeOK, VCTypeOK
  <2> QED
    BY <2>1 DEF BookInv, IdsShared
<1>3. /\ DOMAIN mint_requests' = DOMAIN mint_requests \cup {requests_count}
      /\ mint_requests'[requests_count] \in MintRequestState
      /\ \A x \in DOMAIN mint_requests : mint_requests'[x] = mint_requests[x]
  BY <1>1, <1>2 DEF WithEntry, Typed, MinterTypeOK
<1> QED
  BY <1>1, <1>2, <1>3 DEF Book!OpenMint, Book!Opened, redeemerVars, taVars

\* A decision on a mint request closes it.  An approval adds to the supply and
\* credits the customer, who is not the redeemer vault ...
LEMMA MintApprovalCloses ==
    ASSUME BookInv, NEW authority, NEW id, NEW rate \in Args.new_out_rate, NEW is_safe,
           ApproveMintRequest(authority, id, rate, is_safe), UNCHANGED redeemerVars
    PROVE  Book!CloseMint
<1> DEFINE minted == MulDiv(mint_requests[id].deposited_usd_wo_fees, ONE, rate)
<1>1. /\ id \in DOMAIN mint_requests
      /\ mint_requests' = WithoutEntry(mint_requests, id)
      /\ requests_count' = requests_count
      /\ MulDivOk(mint_requests[id].deposited_usd_wo_fees, ONE, rate)
      /\ MintThroughAuthority(mint_requests[id].user, minted)
  BY DEF ApproveMintRequest, vcVars
<1>2. /\ DOMAIN mint_requests' = DOMAIN mint_requests \ {id}
      /\ \A x \in DOMAIN mint_requests' : mint_requests'[x] = mint_requests[x]
  BY <1>1 DEF WithoutEntry
<1>3. mint_requests[id].user \in Signers /\ mint_requests[id].deposited_usd_wo_fees \in Nat
  BY <1>1 DEF BookInv, Typed, MinterTypeOK, MintRequestState, U64
<1>4. minted \in Nat
  <2>1. ONE \in Nat /\ rate \in Nat /\ rate > 0
    BY <1>1, MinterAssumption, VaultAssumption DEF MulDivOk, U64, Price
  <2> QED
    BY <1>3, <2>1, MulDivNat
<1> HIDE DEF minted
<1>5. /\ m_supply' = m_supply + minted
      /\ m_balance' = [m_balance EXCEPT ![mint_requests[id].user] = @ + minted]
  BY <1>1 DEF MintThroughAuthority, Mint, SplMint
<1>6. m_balance'[redeemer_vault] = m_balance[redeemer_vault]
  BY <1>3, <1>5, EscrowApart, VaultAssumption DEF BookInv, Typed, SharedTypeOK, TATypeOK
<1>7. m_supply' >= m_supply
  BY <1>4, <1>5, AmountsInBook DEF BookInv
<1> QED
  BY <1>1, <1>2, <1>6, <1>7 DEF Book!CloseMint, Book!Closed, redeemerVars

\* ... a rejection nothing.
LEMMA MintRejectionCloses ==
    ASSUME BookInv, NEW authority, NEW id, RejectMintRequest(authority, id),
           UNCHANGED redeemerVars
    PROVE  Book!CloseMint
<1>1. /\ id \in DOMAIN mint_requests
      /\ mint_requests' = WithoutEntry(mint_requests, id)
      /\ UNCHANGED <<requests_count, m_balance, m_supply>>
  BY DEF RejectMintRequest, vcVars, taVars
<1>2. Book!Closed(mint_requests, mint_requests', id)
  BY <1>1 DEF WithoutEntry, Book!Closed
<1> QED
  BY <1>1, <1>2, AmountsInBook DEF Book!CloseMint, redeemerVars, BookInv

\* A redeem request opens with all of its mTokens in the escrow.
LEMMA RedeemRequestOpens ==
    ASSUME m_decimals = Base, BookInv, Typed', NEW user \in Signers,
           NEW t \in DOMAIN payment_mint_state, NEW amount \in U64, NEW rate \in Price,
           CreateRedeemRequest(user, t, amount, rate), UNCHANGED minterVars
    PROVE  Book!OpenRedeem
<1> DEFINE fee == redeem_fee(user, t, amount, FALSE)
           wo_fee == amount - fee
           escrowed == Transferred(m_balance, user, redeemer_vault, MRaw(wo_fee))
           terms == redeem_terms(user, t, amount, fee, rate)
<1>1. /\ requests_count' = requests_count + 1
      /\ RedeemValid(user, t, amount, FALSE)
      /\ CanMoveM(m_balance, user, redeemer_vault, MRaw(wo_fee))
      /\ FeePayable(escrowed, user, fee)
      /\ m_balance' = FeePaid(escrowed, user, fee)
      /\ redeem_requests' = WithEntry(redeem_requests, requests_count, terms)
      /\ m_supply' = m_supply
  BY DEF CreateRedeemRequest, UseRequestId
<1>2. RedeemTyped /\ user # redeemer_vault /\ user \in Accounts /\ redeemer_vault \in Accounts
  BY EscrowApart, SignersAssumption, VaultAssumption DEF BookInv, Typed, RedeemTyped
<1>3. fee \in Nat /\ wo_fee \in Nat
  <2>1. amount \in Nat
    BY DEF U64
  <2>2. RedeemTyped /\ RedeemValid(user, t, amount, FALSE) /\ FALSE \in BOOLEAN
    BY <1>1, <1>2
  <2>3. fee \in Nat
    BY <2>1, <2>2, RedeemFeeType
  <2>4. wo_fee \in U64
    BY <2>2, NetAmountType
  <2> HIDE DEF wo_fee, fee
  <2> QED
    BY <2>3, <2>4 DEF U64
<1>4. terms.m_token_amount = wo_fee
  BY DEF redeem_terms
<1> HIDE DEF fee, wo_fee, terms
<1>5. requests_count \notin DOMAIN redeem_requests /\ requests_count \notin DOMAIN mint_requests
  <2>1. requests_count \in Nat
    BY VaultAssumption DEF BookInv, Typed, SharedTypeOK, VCTypeOK
  <2> QED
    BY <2>1 DEF BookInv, IdsShared
<1>6. /\ DOMAIN redeem_requests' = DOMAIN redeem_requests \cup {requests_count}
      /\ redeem_requests'[requests_count] = terms
      /\ redeem_requests'[requests_count] \in RedeemRequestState
      /\ \A x \in DOMAIN redeem_requests : redeem_requests'[x] = redeem_requests[x]
  BY <1>1, <1>5 DEF WithEntry, Typed, RedeemerTypeOK
<1>7. m_balance'[redeemer_vault] >= m_balance[redeemer_vault] + wo_fee
  <2>1. MRaw(wo_fee) = wo_fee /\ MRaw(fee) = fee
    BY <1>3, SameDecimals
  <2>2. m_balance \in [Accounts -> Nat]
    BY DEF BookInv, Typed, SharedTypeOK, TATypeOK
  <2>3. escrowed \in [Accounts -> Nat]
    BY <1>1, <1>2, <1>3, <2>1, <2>2, TransferredType DEF CanMoveM
  <2>4. escrowed[redeemer_vault] = m_balance[redeemer_vault] + wo_fee
    BY <1>2, <2>1, <2>2 DEF Transferred
  <2> HIDE DEF escrowed
  <2>5. m_balance' = Transferred(escrowed, user, config.fee_receiver, fee)
    BY <1>1, <2>1 DEF FeePaid
  <2>6. m_balance'[redeemer_vault] \in {escrowed[redeemer_vault], escrowed[redeemer_vault] + fee}
    BY <1>2, <2>3, <2>5 DEF Transferred
  <2> QED
    BY <1>2, <1>3, <2>2, <2>4, <2>6
<1> QED
  BY <1>1, <1>4, <1>5, <1>6, <1>7 DEF Book!OpenRedeem, Book!Opened, minterVars

\* An approval burns exactly what the request holds in escrow.
LEMMA SettleBurnsEscrow ==
    ASSUME BookInv, NEW authority, NEW id, NEW rate, NEW is_safe,
           SettleRedeem(authority, id, rate, is_safe), UNCHANGED minterVars
    PROVE  Book!ApproveRedeem
<1>1. /\ id \in DOMAIN redeem_requests
      /\ redeem_requests' = WithoutEntry(redeem_requests, id)
      /\ m_balance' = Burned(redeemer_vault, redeem_requests[id].m_token_amount)
      /\ m_supply' = m_supply - redeem_requests[id].m_token_amount
      /\ requests_count' = requests_count
  BY DEF SettleRedeem
<1>2. /\ DOMAIN redeem_requests' = DOMAIN redeem_requests \ {id}
      /\ \A x \in DOMAIN redeem_requests' : redeem_requests'[x] = redeem_requests[x]
  BY <1>1 DEF WithoutEntry
<1>3. m_balance'[redeemer_vault]
        = m_balance[redeemer_vault] - redeem_requests[id].m_token_amount
  BY <1>1, VaultAssumption DEF Burned, BookInv, Typed, SharedTypeOK, TATypeOK
<1> QED
  BY <1>1, <1>2, <1>3 DEF Book!ApproveRedeem, Book!Closed, minterVars

LEMMA RedeemRejectionCloses ==
    ASSUME NEW authority, NEW id, RejectRedeemRequest(authority, id), UNCHANGED minterVars
    PROVE  Book!RejectRedeem
<1>1. /\ id \in DOMAIN redeem_requests
      /\ redeem_requests' = WithoutEntry(redeem_requests, id)
      /\ UNCHANGED <<requests_count, m_balance, m_supply>>
  BY DEF RejectRedeemRequest, vcVars, taVars
<1>2. /\ DOMAIN redeem_requests' = DOMAIN redeem_requests \ {id}
      /\ \A x \in DOMAIN redeem_requests' : redeem_requests'[x] = redeem_requests[x]
  BY <1>1 DEF WithoutEntry
<1> QED
  BY <1>1, <1>2 DEF Book!RejectRedeem, Book!Closed, minterVars

\* Every step of the two vaults is a step of the abstract book, or leaves the
\* book as it is.
LEMMA BookStep == m_decimals = Base /\ BookInv /\ [Next]_vars => [Book!BookNext]_(Book!bookVars)
<1> SUFFICES ASSUME m_decimals = Base, BookInv, [Next]_vars
             PROVE  [Book!BookNext]_(Book!bookVars)
  OBVIOUS
<1>1. Typed'
  BY StepTyped DEF BookInv
<1>2. UNCHANGED books => Book!BookNext
  BY <1>1, BooksKept
<1>3. CASE UNCHANGED vars
  BY <1>2, <1>3 DEF vars, vcVars, minterVars, redeemerVars, books
<1>4. CASE InstantNext \/ CommonNext
  BY <1>2, <1>4, InstantKeepsBooks, CommonKeepsBooks
<1>5. ASSUME MinterRequests, UNCHANGED redeemerVars
      PROVE  Book!BookNext
  <2>1. ASSUME NEW user, NEW t, NEW amount, MintRequest(user, t, amount)
        PROVE  Book!BookNext
    BY <1>1, <1>5, <2>1, MintRequestOpens DEF Book!BookNext
  <2>2. ASSUME NEW authority, NEW id, NEW rate \in Args.new_out_rate, NEW is_safe,
               ApproveMintRequest(authority, id, rate, is_safe)
        PROVE  Book!BookNext
    BY <1>5, <2>2, MintApprovalCloses DEF Book!BookNext
  <2>3. ASSUME NEW authority, NEW id, RejectMintRequest(authority, id)
        PROVE  Book!BookNext
    BY <1>5, <2>3, MintRejectionCloses DEF Book!BookNext
  <2>4. ASSUME NEW authority, UpdateMinterVault(authority)
        PROVE  Book!BookNext
    BY <1>2, <1>5, <2>4 DEF UpdateMinterVault, redeemerVars, vcVars, books
  <2> QED
    BY <1>5, <2>1, <2>2, <2>3, <2>4 DEF MinterRequests
<1>6. ASSUME RedeemerRequests, UNCHANGED minterVars
      PROVE  Book!BookNext
  <2>1. ASSUME NEW user \in Signers, NEW amount \in Args.amount_m_token,
               \/ \E t \in Tokens : RedeemRequest(user, t, amount)
               \/ RedeemRequestFiat(user, amount)
        PROVE  Book!BookNext
    <3>1. PICK t \in DOMAIN payment_mint_state, rate \in Price :
            CreateRedeemRequest(user, t, amount, rate)
      <4>1. ONE \in Price
        BY VaultAssumption
      <4>2. ASSUME NEW t \in Tokens, RedeemRequest(user, t, amount)
            PROVE  /\ t \in DOMAIN payment_mint_state
                   /\ get_token_rate(t) \in Price
                   /\ CreateRedeemRequest(user, t, amount, get_token_rate(t))
        BY <4>2, RatesType DEF RedeemRequest, BookInv, Typed, SharedTypeOK
      <4> QED
        BY <2>1, <4>1, <4>2 DEF RedeemRequestFiat
    <3>2. amount \in U64
      BY RedeemerAssumption
    <3> QED
      BY <1>1, <1>6, <3>1, <3>2, RedeemRequestOpens DEF Book!BookNext
  <2>2. ASSUME NEW authority, NEW id, NEW rate, NEW is_safe,
               SettleRedeem(authority, id, rate, is_safe)
        PROVE  Book!BookNext
    BY <1>6, <2>2, SettleBurnsEscrow DEF Book!BookNext
  <2>3. ASSUME NEW authority, NEW id, RejectRedeemRequest(authority, id)
        PROVE  Book!BookNext
    BY <1>6, <2>3, RedeemRejectionCloses DEF Book!BookNext
  <2>4. ASSUME NEW authority, UpdateRedeemerVault(authority)
        PROVE  Book!BookNext
    BY <1>2, <1>6, <2>4 DEF UpdateRedeemerVault, minterVars, vcVars, books
  <2>5. ASSUME NEW t, NEW owner, NEW amount, ApproveDelegate(t, owner, amount)
        PROVE  Book!BookNext
    BY <1>2, <1>6, <2>5 DEF ApproveDelegate, minterVars, vcVars, books
  <2> QED
    BY <1>6, <2>1, <2>2, <2>3, <2>4, <2>5
       DEF RedeemerRequests, ApproveRedeemRequest, ApproveRedeemRequestFiat
<1> QED
  BY <1>3, <1>4, <1>5, <1>6 DEF Next, RequestsNext

\* The request flows of the two vaults keep the promises of the abstract book
\* (mint_request.rs, approve_ and reject_mint_request.rs, and the requests of
\* the redeemer vault with create_redeem_request and approve_redeem_request in
\* utils.rs), if the mToken has the nine decimals its amounts are computed in.
THEOREM BookImplemented ==
    ASSUME m_decimals = Base PROVE Spec => BookSpec
<1>1. Spec => []BookInv
  BY InitBookInv, StepBookInv, PTL DEF Spec
<1>2. BookInv /\ [Next]_vars => [Book!BookNext]_(Book!bookVars)
  BY BookStep
<1>3. Init => Book!BookInit
  BY InitBook
<1> QED
  BY <1>1, <1>2, <1>3, PTL DEF Spec, BookSpec, Book!BookSpec

-----------------------------------------------------------------------------
(* Who can do what: the configuration, the requests and the supply.        *)

\* Nothing of a request is touched by an instruction of the other programs, of
\* vault_common, or by instant business.
LEMMA OutsideRequests ==
    InstantNext \/ CommonNext \/ UNCHANGED vars => UNCHANGED <<mint_requests, redeem_requests>>
BY InstantKeepsBooks, CommonKeepsBooks DEF books, vars, minterVars, redeemerVars

\* The request instructions leave roles, configuration and daily limit alone.
LEMMA RequestsKeepRoles ==
    RequestsNext => UNCHANGED acVars /\ UNCHANGED config /\ UNCHANGED limitVars
<1> DEFINE Kept == UNCHANGED acVars /\ UNCHANGED config /\ UNCHANGED limitVars
<1> USE DEF vcVars, adminVars
<1>1. ASSUME NEW user, NEW t, NEW amount, MintRequest(user, t, amount)
      PROVE  Kept
  BY <1>1 DEF MintRequest
<1>2. ASSUME NEW authority, NEW id, NEW rate, NEW is_safe,
             ApproveMintRequest(authority, id, rate, is_safe)
      PROVE  Kept
  BY <1>2 DEF ApproveMintRequest
<1>3. ASSUME NEW authority, NEW id,
             RejectMintRequest(authority, id) \/ RejectRedeemRequest(authority, id)
      PROVE  Kept
  BY <1>3 DEF RejectMintRequest, RejectRedeemRequest
<1>4. ASSUME NEW authority, UpdateMinterVault(authority) \/ UpdateRedeemerVault(authority)
      PROVE  Kept
  BY <1>4 DEF UpdateMinterVault, UpdateRedeemerVault
<1>5. ASSUME NEW user, NEW t, NEW amount, NEW rate, CreateRedeemRequest(user, t, amount, rate)
      PROVE  Kept
  BY <1>5 DEF CreateRedeemRequest
<1>6. ASSUME NEW authority, NEW id, NEW rate, NEW is_safe,
             SettleRedeem(authority, id, rate, is_safe)
      PROVE  Kept
  BY <1>6 DEF SettleRedeem
<1>7. ASSUME NEW t, NEW owner, NEW amount, ApproveDelegate(t, owner, amount)
      PROVE  Kept
  BY <1>7 DEF ApproveDelegate
<1>8. MinterRequests => Kept
  BY <1>1, <1>2, <1>3, <1>4 DEF MinterRequests
<1>9. RedeemerRequests => Kept
  BY <1>3, <1>4, <1>5, <1>6, <1>7
     DEF RedeemerRequests, RedeemRequest, RedeemRequestFiat, ApproveRedeemRequest,
         ApproveRedeemRequestFiat
<1> QED
  BY <1>8, <1>9 DEF RequestsNext

\* Roles change only by the admins of their ac_role.
LEMMA RolesUnderAdmin ==
    [Next]_vars => \A a \in Accounts : \A role :
        HasRole(config.ac_role, a, role)' /\ config' = config =>
            \/ HasRole(config.ac_role, a, role)
            \/ HasAdmin(config.ac_role)
<1> SUFFICES ASSUME [Next]_vars, NEW a \in Accounts, NEW role,
                    HasRole(config.ac_role, a, role)', config' = config
             PROVE  HasRole(config.ac_role, a, role) \/ HasAdmin(config.ac_role)
  OBVIOUS
<1>1. CASE UNCHANGED acVars
  BY <1>1 DEF acVars, HasRole
<1>2. CASE ACGovern
  <2>1. ASSUME NEW t \in Grantable, NEW authority \in Signers,
               \/ GrantRole(authority, t[1], t[2], t[3])
               \/ RevokeRole(authority, t[1], t[2], t[3])
        PROVE  HasRole(config.ac_role, a, role) \/ HasAdmin(config.ac_role)
    BY <2>1, SignersAssumption DEF GrantRole, RevokeRole, HasAdmin, HasRole
  <2>2. CASE UNCHANGED roles
    BY <2>2 DEF HasRole
  <2> QED
    BY <1>2, <2>1, <2>2 DEF ACGovern, UpdateAccountAc
<1>3. ACGovern \/ UNCHANGED acVars
  <2>1. VaultAdminNext => UNCHANGED acVars
    BY AdminLeaves
  <2>2. VaultPauserNext => UNCHANGED acVars
    BY DEF VaultPauserNext, NewPauseInx, UpdatePauseInx, UpdatePause
  <2>3. EnvironmentNext => UNCHANGED acVars
    BY DEF EnvironmentNext, PriceMoves, Tick, NewVaultCommonAccount
  <2>4. GovernanceNext => ACGovern \/ UNCHANGED acVars
    BY DEF GovernanceNext
  <2> QED
    BY <2>1, <2>2, <2>3, <2>4, InstantKeepsBooks, RequestsKeepRoles
       DEF Next, CommonNext, VCNext, vars
<1> QED
  BY <1>1, <1>2, <1>3

-----------------------------------------------------------------------------
\* The power to mint, exercised: whoever mints holds M_MINTER under the token
\* authority that holds the mint's power.
LEMMA MintNeedsMinter ==
    ASSUME NEW ta, NEW authority \in Accounts, NEW receiver, NEW amount,
           Mint(ta, authority, receiver, amount)
    PROVE  /\ ta = m_authority["MintTokens"] /\ ta \in DOMAIN token_authorities
           /\ \E a \in Accounts : HasRole(token_authorities[ta], a, M_MINTER)
BY DEF Mint, SplMint, HasTokenRole

\* mTokens are only ever created by holders of M_MINTER, be it a person or the
\* minter vault (mint.rs of token-authority; mint_token in utils.rs).
THEOREM MintersOnly == Spec => SupplyGrowsOnlyByMinters
<1> DEFINE ta == m_authority["MintTokens"]
           Minters == /\ ta \in DOMAIN token_authorities
                      /\ \E a \in Accounts : HasRole(token_authorities[ta], a, M_MINTER)
<1>1. BookInv /\ [Next]_vars => [m_supply' > m_supply => Minters]_vars
  <2> SUFFICES ASSUME BookInv, Next, m_supply' > m_supply PROVE Minters
    BY DEF BookInv
  <2>1. m_supply \in Nat
    BY AmountsInBook DEF BookInv
  <2> DEFINE Shrinks == \E amount \in Nat : m_supply' = m_supply - amount
  <2>2. Shrinks => FALSE
    BY <2>1
  <2>3. m_supply' = m_supply => FALSE
    BY <2>1
  <2> HIDE DEF Shrinks
  <2>4. minter_vault \in Accounts
    BY VaultAssumption
  <2>5. ASSUME NEW receiver, NEW amount, MintThroughAuthority(receiver, amount)
        PROVE  Minters
    BY <2>4, <2>5, MintNeedsMinter DEF MintThroughAuthority
  <2>6. CASE MinterInstant \/ MinterRequests
    <3>1. ASSUME NEW user, NEW t, NEW amount, NEW least, MintInstant(user, t, amount, least)
          PROVE  Minters
      BY <2>5, <3>1 DEF MintInstant
    <3>2. ASSUME NEW authority, NEW id, NEW rate, NEW is_safe,
                 ApproveMintRequest(authority, id, rate, is_safe)
          PROVE  Minters
      BY <2>5, <3>2 DEF ApproveMintRequest
    <3>3. ASSUME NEW user, NEW t, NEW amount, NEW authority, NEW id,
                 \/ MintRequest(user, t, amount) \/ RejectMintRequest(authority, id)
                 \/ UpdateMinterVault(authority)
          PROVE  FALSE
      BY <2>3, <3>3 DEF MintRequest, RejectMintRequest, UpdateMinterVault, taVars
    <3> QED
      BY <2>6, <3>1, <3>2, <3>3 DEF MinterInstant, MinterRequests
  <2>7. CASE RedeemerInstant
    <3>1. PICK user \in Signers, t \in Tokens, amount \in Args.amount_m_token,
               least \in Args.min_receive_amount : RedeemInstant(user, t, amount, least)
      BY <2>7 DEF RedeemerInstant
    <3>2. /\ t \in DOMAIN payment_mint_state /\ RedeemValid(user, t, amount, TRUE)
          /\ m_supply' = m_supply - (amount - redeem_fee(user, t, amount, TRUE))
      BY <3>1 DEF RedeemInstant
    <3>3. amount - redeem_fee(user, t, amount, TRUE) \in U64
      <4>1. RedeemTyped /\ amount \in U64 /\ TRUE \in BOOLEAN
        BY RedeemerAssumption DEF BookInv, Typed, RedeemTyped
      <4> QED
        BY <3>2, <4>1, NetAmountType
    <3> DEFINE wo_fee == amount - redeem_fee(user, t, amount, TRUE)
    <3>4. m_supply' = m_supply - wo_fee /\ wo_fee \in U64
      BY <3>2, <3>3
    <3> HIDE DEF wo_fee
    <3>5. wo_fee \in Nat
      BY <3>4 DEF U64
    <3> QED
      BY <2>2, <3>4, <3>5 DEF Shrinks
  <2>8. CASE RedeemerRequests
    <3>1. ASSUME NEW authority, NEW id, NEW rate, NEW is_safe,
                 SettleRedeem(authority, id, rate, is_safe)
          PROVE  FALSE
      <4>1. /\ id \in DOMAIN redeem_requests
            /\ m_supply' = m_supply - redeem_requests[id].m_token_amount
        BY <3>1 DEF SettleRedeem
      <4>2. redeem_requests[id].m_token_amount \in Nat
        BY <4>1 DEF BookInv, Typed, RedeemerTypeOK, RedeemRequestState, U64
      <4> QED
        BY <2>2, <4>1, <4>2 DEF Shrinks
    <3>2. ASSUME NEW user, NEW t, NEW amount, NEW rate, CreateRedeemRequest(user, t, amount, rate)
          PROVE  FALSE
      BY <2>3, <3>2 DEF CreateRedeemRequest
    <3>3. ASSUME NEW authority, NEW id, NEW t, NEW owner, NEW amount,
                 \/ RejectRedeemRequest(authority, id) \/ UpdateRedeemerVault(authority)
                 \/ ApproveDelegate(t, owner, amount)
          PROVE  FALSE
      BY <2>3, <3>3 DEF RejectRedeemRequest, UpdateRedeemerVault, ApproveDelegate, taVars
    <3> QED
      BY <2>8, <3>1, <3>2, <3>3
         DEF RedeemerRequests, RedeemRequest, RedeemRequestFiat, ApproveRedeemRequest,
             ApproveRedeemRequestFiat
  <2>9. CASE CommonNext
    <3>1. CASE TAGovern
      <4>1. ASSUME NEW a_ta, NEW authority \in Signers, NEW a, NEW amount,
                   Mint(a_ta, authority, a, amount)
            PROVE  Minters
        BY <4>1, MintNeedsMinter, SignersAssumption
      <4>2. ASSUME NEW a_ta, NEW authority, NEW a, NEW amount \in Args.burn,
                   Burn(a_ta, authority, a, amount)
            PROVE  FALSE
        BY <2>2, <4>2, TokenAuthorityAssumption DEF Burn, Shrinks
      <4>3. ASSUME NEW a_ta, NEW ac_role, NEW authority, NEW a, NEW p, NEW n,
                   \/ NewTokenAuthority(a_ta, ac_role) \/ Freeze(a_ta, authority, a)
                   \/ Thaw(a_ta, authority, a) \/ SetAuthority(a_ta, authority, p, n)
            PROVE  FALSE
        BY <2>3, <4>3 DEF NewTokenAuthority, Freeze, Thaw, SetAuthority
      <4> QED
        BY <3>1, <4>1, <4>2, <4>3 DEF TAGovern
    <3>2. VaultAdminNext => UNCHANGED m_supply
      BY AdminLeaves
    <3>3. VaultPauserNext => UNCHANGED m_supply
      BY DEF VaultPauserNext, NewPauseInx, UpdatePauseInx, UpdatePause, taVars
    <3>4. EnvironmentNext => UNCHANGED m_supply
      BY DEF EnvironmentNext, PriceMoves, Tick, NewVaultCommonAccount, Send, taVars
    <3>5. GovernanceNext => TAGovern \/ UNCHANGED m_supply
      BY DEF GovernanceNext, taVars
    <3> QED
      BY <2>3, <2>9, <3>1, <3>2, <3>3, <3>4, <3>5 DEF CommonNext, VCNext
  <2> QED
    BY <2>6, <2>7, <2>8, <2>9 DEF Next, InstantNext, RequestsNext
<1>2. Spec => []BookInv
  BY InitBookInv, StepBookInv, PTL DEF Spec
<1> QED
  BY <1>1, <1>2, PTL DEF Spec, SupplyGrowsOnlyByMinters

-----------------------------------------------------------------------------
\* What validate_common establishes.
LEMMA ValidatedIsOpen ==
    ASSUME NEW user, NEW fn, NEW fiat \in BOOLEAN, validate_common(user, fn, fiat)
    PROVE  fn \in OpenFunctions /\ ~Blocked(user, fiat)
<1>1. fn \in OpenFunctions
  BY DEF validate_common, validate_paused, OpenFunctions
<1>2. ~Blocked(user, fiat)
  BY DEF validate_common, validate_green_listed, Blocked
<1> QED
  BY <1>1, <1>2
===============================================================================
