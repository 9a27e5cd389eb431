----------------------------- MODULE MidasVaults -----------------------------
(***************************************************************************)
(* The midas-vaults program whole: a minter vault and a redeemer vault on  *)
(* one vault_common, with the access-control and token-authority programs  *)
(* beside them.  The two vaults share the configuration, the payment       *)
(* tokens and their allowances, the daily limit and the request counter.   *)
(***************************************************************************)
EXTENDS MinterVault, RedeemerVault

vars == <<acVars, taVars, vcVars, minterVars, redeemerVars>>

Init == VCInit /\ MinterInit /\ RedeemerInit

InstantNext ==
    \/ MinterInstant /\ UNCHANGED redeemerVars
    \/ RedeemerInstant /\ UNCHANGED minterVars

RequestsNext ==
    \/ MinterRequests /\ UNCHANGED redeemerVars
    \/ RedeemerRequests /\ UNCHANGED minterVars

CommonNext == VCNext /\ UNCHANGED <<minterVars, redeemerVars>>

Next == InstantNext \/ RequestsNext \/ CommonNext

Spec == Init /\ [][Next]_vars

-----------------------------------------------------------------------------
TypeOK ==
    /\ ACTypeOK
    /\ TATypeOK
    /\ VCTypeOK
    /\ MinterTypeOK
    /\ RedeemerTypeOK

\* The two books never share an id, although each request account's address is
\* derived from its own vault and only the counter is common: a request of
\* either kind uses an id up.
IdsShared ==
    /\ DOMAIN mint_requests \cap DOMAIN redeem_requests = {}
    /\ \A id \in DOMAIN mint_requests \cup DOMAIN redeem_requests : id < requests_count

\* The requests as the abstract book keeps them.  Book!BookSpec: ids are given
\* in order and never again, terms never change while a request is pending, a
\* redeem request escrows what it records, its approval burns exactly that and
\* its rejection nothing, whatever else happens between the two.
Book == INSTANCE RequestBook WITH
    MintTerms <- MintRequestState,
    RedeemTerms <- RedeemRequestState,
    next_id <- requests_count,
    mints <- mint_requests,
    redeems <- redeem_requests,
    escrow <- m_balance[redeemer_vault],
    supply <- m_supply

BookSpec == Book!BookSpec

-----------------------------------------------------------------------------
\* New business is only taken while the vault and the very instruction that
\* takes it are open, from a customer who is not black listed, and who is green
\* listed where that is required.  Whatever the admins do meanwhile, closing
\* one switch is enough (validate_common).  An instant operation is counted
\* against the daily limit and is one customer's: mTokens are made for the
\* customer, or the customer's are destroyed.
Blocked(user, fiat) ==
    \/ account_ac[<<vault_ac, user>>].black_listed
    \/ (fiat \/ config.greenlist_enforced) /\ ~account_ac[<<vault_ac, user>>].green_listed

OpenFunctions == {fn \in DOMAIN pause_inx : ~pause_inx[fn] /\ ~paused}

Instant == limitVars' # limitVars
MintedInstantly(user) ==
    Instant /\ m_supply' > m_supply /\ m_balance'[user] > m_balance[user]
RedeemedInstantly(user) ==
    Instant /\ m_supply' < m_supply /\ m_balance'[user] < m_balance[user]

BusinessOnlyWhenOpen ==
    [][/\ Instant => \E user \in Signers : MintedInstantly(user) \/ RedeemedInstantly(user)
       /\ \A user \in Signers :
            /\ MintedInstantly(user) => "MintInstant" \in OpenFunctions /\ ~Blocked(user, FALSE)
            /\ RedeemedInstantly(user) => "RedeemInstant" \in OpenFunctions /\ ~Blocked(user, FALSE)
       /\ \A id \in DOMAIN mint_requests' \ DOMAIN mint_requests :
            "MintRequest" \in OpenFunctions /\ ~Blocked(mint_requests'[id].user, FALSE)
       /\ \A id \in DOMAIN redeem_requests' \ DOMAIN redeem_requests :
            LET request == redeem_requests'[id]
                fiat == request.payment_mint = FIAT_MINT
            IN  /\ (IF fiat THEN "RedeemRequestFiat" ELSE "RedeemRequest") \in OpenFunctions
                /\ ~Blocked(request.user, fiat)]_vars

\* mTokens come into existence only by way of the token authority that holds
\* the mint's power, and only while someone (a person or the minter vault)
\* holds M_MINTER under it: an instant mint, an approval and a direct mint are
\* all stopped by revoking the role or handing the power over.
SupplyGrowsOnlyByMinters ==
    [][m_supply' > m_supply =>
        LET ta == m_authority["MintTokens"]
        IN  /\ ta \in DOMAIN token_authorities
            /\ \E a \in Accounts : HasRole(token_authorities[ta], a, M_MINTER)]_vars

\* A vault whose ac_role has neither an admin nor a vault admin has nobody
\* left for good.  Its configuration and its pending requests never change
\* again, no payment token is listed, removed or given other terms (what is
\* left of an allowance is only used up), and no mTokens leave the escrow
\* unless a holder of M_BURNER burns them by the mint's permanent delegate,
\* which is not the vault's.
Orphaned ==
    \A a \in Accounts : /\ ~HasRole(config.ac_role, a, ADMIN)
                        /\ ~HasVaultRole(a, VAULT_ADMIN)

TermsStand ==
    /\ DOMAIN payment_mint_state' = DOMAIN payment_mint_state
    /\ \A t \in DOMAIN payment_mint_state :
         LET left == payment_mint_state'[t].allowance
         IN  /\ left <= payment_mint_state[t].allowance
             /\ payment_mint_state'[t] = [payment_mint_state[t] EXCEPT !.allowance = left]

CanBurnElsewhere ==
    LET ta == m_authority["PermanentDelegate"]
    IN  /\ ta \in DOMAIN token_authorities
        /\ \E a \in Accounts : HasRole(token_authorities[ta], a, M_BURNER)

OrphanedVaultStranded ==
    [][Orphaned =>
        /\ Orphaned'
        /\ UNCHANGED <<config, minter, redeemer>>
        /\ TermsStand
        /\ m_balance'[redeemer_vault] < m_balance[redeemer_vault] => CanBurnElsewhere
        /\ \A id \in DOMAIN mint_requests :
              id \in DOMAIN mint_requests' /\ mint_requests'[id] = mint_requests[id]
        /\ \A id \in DOMAIN redeem_requests :
              id \in DOMAIN redeem_requests' /\ redeem_requests'[id] = redeem_requests[id]]_vars

-----------------------------------------------------------------------------
\* A vault admin decides on every request sooner or later, one way or the
\* other.  This is the service the request instructions presuppose; the
\* program itself has no timeout.
Decides(id) ==
    /\ \E authority \in Signers :
         \/ RejectMintRequest(authority, id) /\ UNCHANGED redeemerVars
         \/ RejectRedeemRequest(authority, id) /\ UNCHANGED minterVars
         \/ \E rate \in Args.new_out_rate, is_safe \in Args.is_safe :
              ApproveMintRequest(authority, id, rate, is_safe) /\ UNCHANGED redeemerVars
         \/ \E rate \in Args.new_m_token_rate, is_safe \in Args.is_safe :
              /\ \/ ApproveRedeemRequest(authority, id, rate, is_safe)
                 \/ ApproveRedeemRequestFiat(authority, id, rate, is_safe)
              /\ UNCHANGED minterVars

FairSpec == Spec /\ \A id \in RequestIds : WF_vars(Decides(id))

Pending(id) == id \in DOMAIN mint_requests \cup DOMAIN redeem_requests

\* Under that service every request is settled, or the vault has no admin: no
\* pause, list, payment token, feed, freeze or configuration change that comes
\* between can leave a request that no decision closes.
RequestsSettled ==
    \A id \in RequestIds :
        Pending(id) ~> (~Pending(id) \/ ~\E a \in Signers : HasVaultRole(a, VAULT_ADMIN))
===============================================================================
