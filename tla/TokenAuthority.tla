---------------------------- MODULE TokenAuthority ----------------------------
(***************************************************************************)
(* The token-authority program and the mToken mint it governs.  A PDA of   *)
(* the program is the mint's mint authority, freeze authority and          *)
(* permanent delegate; its instructions let role holders use them.  The    *)
(* SPL Token-2022 program itself is external: it is modelled by what it    *)
(* checks and does for the calls this repository makes.                    *)
(*                                                                         *)
(* Amounts are raw units of the mint.                                      *)
(***************************************************************************)
EXTENDS AccessControl, Decimals

CONSTANTS
    TokenAuthorities,   \* the program's PDAs, one per base_seed
    m_token_authority,  \* the PDA the mToken mint is created under
    NoAuthority,        \* set_authority with new_authority = None
    Args                \* per instruction argument, the finite set of
                        \* values an instance calls the instruction with

M_MINTER == "m_minter_role"
M_BURNER == "m_burner_role"
M_FREEZER == "m_freezer_role"

\* The AuthorityType values of set_authority that concern the mint's powers;
\* the others (fees, metadata, pointers) touch no state of this system.
MintPowers == {"MintTokens", "FreezeAccount", "PermanentDelegate"}

ASSUME TokenAuthorityAssumption ==
    /\ m_token_authority \in TokenAuthorities
    /\ {M_MINTER, M_BURNER, M_FREEZER} \subseteq RoleNames
    /\ Args.authority_type \subseteq MintPowers
    /\ Args.frozen \subseteq Accounts
    /\ Args.token_ac_role \subseteq AcRoles
    /\ Args.mint \subseteq Nat /\ Args.burn \subseteq Nat /\ Args.send \subseteq Nat

VARIABLES
    token_authorities,  \* TokenAuthorityState PDAs: base_seed -> ac_role
    m_balance,    \* mToken balance of each account's associated token account
    m_supply,     \* the mint's supply
    frozen,       \* accounts whose mToken account is frozen
    m_authority   \* holder of each power of the mint

taVars == <<token_authorities, m_balance, m_supply, frozen, m_authority>>

Authorities == Args.new_authority \cup TokenAuthorities \cup {NoAuthority}

\* -- the SPL token program (external) ---------------------------------------

\* A transfer fails on a frozen end or an insufficient balance; sending to
\* oneself changes nothing.
CanTransfer(bal, from, amount) == bal[from] >= amount

Transferred(bal, from, to, amount) ==
    IF from = to THEN bal
    ELSE [bal EXCEPT ![from] = @ - amount, ![to] = @ + amount]

CanMoveM(bal, from, to, amount) ==
    /\ CanTransfer(bal, from, amount)
    /\ from \notin frozen /\ to \notin frozen

SplMint(mint_authority, to, amount) ==
    /\ m_authority["MintTokens"] = mint_authority
    /\ to \notin frozen
    /\ m_supply + amount <= U64_MAX
    /\ m_supply' = m_supply + amount
    /\ m_balance' = [m_balance EXCEPT ![to] = @ + amount]

\* Burning from an account, by its owner or by the permanent delegate.
CanBurn(from, amount) ==
    m_balance[from] >= amount /\ m_supply >= amount /\ from \notin frozen

\* -- the token-authority instructions ---------------------------------------

\* Anyone creates a token authority, under any ac_role, once per base_seed.
NewTokenAuthority(ta, ac_role) ==
    /\ ta \notin DOMAIN token_authorities
    /\ token_authorities' = WithEntry(token_authorities, ta, ac_role)
    /\ UNCHANGED <<m_balance, m_supply, frozen, m_authority>>

\* The role the signer of an instruction of token authority ta must hold.
HasTokenRole(ta, authority, role) ==
    /\ ta \in DOMAIN token_authorities
    /\ HasRole(token_authorities[ta], authority, role)

\* Variant: no role is asked of the minter.
Mint_anyone(ta, authority, receiver, amount) ==
    /\ ta \in DOMAIN token_authorities
    /\ SplMint(ta, receiver, amount)
    /\ UNCHANGED <<token_authorities, frozen, m_authority>>

\* mint: also reached by cross-program call from the minter vault, whose PDA
\* then is the authority that must hold M_MINTER.
Mint(ta, authority, receiver, amount) ==
    /\ HasTokenRole(ta, authority, M_MINTER)
    /\ SplMint(ta, receiver, amount)
    /\ UNCHANGED <<token_authorities, frozen, m_authority>>

\* burn: from any account, with no consent of its owner.
Burn(ta, authority, from, amount) ==
    /\ HasTokenRole(ta, authority, M_BURNER)
    /\ m_authority["PermanentDelegate"] = ta
    /\ CanBurn(from, amount)
    /\ m_balance' = [m_balance EXCEPT ![from] = @ - amount]
    /\ m_supply' = m_supply - amount
    /\ UNCHANGED <<token_authorities, frozen, m_authority>>

Freeze(ta, authority, to_freeze) ==
    /\ HasTokenRole(ta, authority, M_FREEZER)
    /\ m_authority["FreezeAccount"] = ta
    /\ to_freeze \notin frozen
    /\ frozen' = frozen \cup {to_freeze}
    /\ UNCHANGED <<token_authorities, m_balance, m_supply, m_authority>>

Thaw(ta, authority, to_thaw) ==
    /\ HasTokenRole(ta, authority, M_FREEZER)
    /\ m_authority["FreezeAccount"] = ta
    /\ to_thaw \in frozen
    /\ frozen' = frozen \ {to_thaw}
    /\ UNCHANGED <<token_authorities, m_balance, m_supply, m_authority>>

\* set_authority: signed by the program's PDA, which must still hold the
\* authority; the program cannot take back what it hands to a stranger.
SetAuthority(ta, authority, authority_type, new_authority) ==
    /\ HasTokenRole(ta, authority, ADMIN)
    /\ m_authority[authority_type] = ta
    /\ m_authority' = [m_authority EXCEPT ![authority_type] = new_authority]
    /\ UNCHANGED <<token_authorities, m_balance, m_supply, frozen>>

\* A holder sends mTokens to another account with a plain SPL transfer.
Send(from, to, amount) ==
    /\ CanMoveM(m_balance, from, to, amount)
    /\ m_balance' = Transferred(m_balance, from, to, amount)
    /\ UNCHANGED <<token_authorities, m_supply, frozen, m_authority>>

\* The instructions a person signs, as the composed systems use them.
TAGovern ==
    \/ \E ta \in TokenAuthorities, ac_role \in Args.token_ac_role :
         NewTokenAuthority(ta, ac_role)
    \/ \E ta \in DOMAIN token_authorities, authority \in Signers :
         \/ \E a \in Accounts :
              \/ \E amount \in Args.mint : Mint(ta, authority, a, amount)
              \/ \E amount \in Args.burn : Burn(ta, authority, a, amount)
              \/ a \in Args.frozen /\ Freeze(ta, authority, a)
              \/ a \in Args.frozen /\ Thaw(ta, authority, a)
         \/ \E p \in Args.authority_type, n \in Args.new_authority \cup {NoAuthority} :
              SetAuthority(ta, authority, p, n)

-----------------------------------------------------------------------------
TATypeOK ==
    /\ DOMAIN token_authorities \subseteq TokenAuthorities
    /\ \A ta \in DOMAIN token_authorities : token_authorities[ta] \in AcRoles
    /\ m_balance \in [Accounts -> Nat]
    /\ m_supply \in U64
    /\ frozen \subseteq Accounts
    /\ m_authority \in [MintPowers -> Authorities]
===============================================================================
