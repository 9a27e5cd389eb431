----------------------------- MODULE RequestBook -----------------------------
(***************************************************************************)
(* What the request flows of midas-vaults promise, whoever runs them: one  *)
(* book for the mint and the redeem requests of a vault_common.  A request *)
(* gets the next id, keeps its terms while it is pending, and is settled   *)
(* once.  A redeem request puts its mTokens in escrow; approving it burns  *)
(* exactly these, rejecting it burns and moves nothing.  Rates, fees,      *)
(* roles, payment tokens, limits and pauses are none of the book's matter. *)
(***************************************************************************)
EXTENDS Integers

CONSTANTS
    MintTerms,     \* what a mint request records
    RedeemTerms    \* what a redeem request records, with an m_token_amount

VARIABLES
    next_id,       \* the id of the next request
    mints,         \* pending mint requests: id -> terms
    redeems,       \* pending redeem requests: id -> terms
    escrow,        \* mTokens in the redeemer vault's account
    supply         \* mTokens in existence

bookVars == <<next_id, mints, redeems, escrow, supply>>

\* Requests of one kind after opening id or closing it; the others keep
\* their terms.
Opened(old, new, id, Terms) ==
    /\ id \notin DOMAIN old
    /\ DOMAIN new = DOMAIN old \cup {id}
    /\ new[id] \in Terms
    /\ \A other \in DOMAIN old : new[other] = old[other]
Closed(old, new, id) ==
    /\ id \in DOMAIN old
    /\ DOMAIN new = DOMAIN old \ {id}
    /\ \A other \in DOMAIN new : new[other] = old[other]

BookInit ==
    /\ next_id = 0
    /\ DOMAIN mints = {} /\ DOMAIN redeems = {}
    /\ escrow \in Nat /\ supply \in Nat

OpenMint ==
    /\ Opened(mints, mints', next_id, MintTerms)
    /\ next_id \notin DOMAIN redeems
    /\ next_id' = next_id + 1
    /\ UNCHANGED <<redeems, escrow, supply>>

\* The escrow receives all of the request's mTokens.
OpenRedeem ==
    /\ Opened(redeems, redeems', next_id, RedeemTerms)
    /\ next_id \notin DOMAIN mints
    /\ next_id' = next_id + 1
    /\ escrow' >= escrow + redeems'[next_id].m_token_amount
    /\ UNCHANGED <<mints, supply>>

\* Approved, the request mints something; rejected, it mints nothing.
CloseMint ==
    /\ \E id \in DOMAIN mints : Closed(mints, mints', id)
    /\ supply' >= supply
    /\ UNCHANGED <<next_id, redeems, escrow>>

ApproveRedeem ==
    \E id \in DOMAIN redeems :
       /\ Closed(redeems, redeems', id)
       /\ escrow' = escrow - redeems[id].m_token_amount
       /\ supply' = supply - redeems[id].m_token_amount
       /\ UNCHANGED <<next_id, mints>>

RejectRedeem ==
    /\ \E id \in DOMAIN redeems : Closed(redeems, redeems', id)
    /\ UNCHANGED <<next_id, mints, escrow, supply>>

\* Instant operations, transfers and the other programs leave the book alone.
MoveTokens ==
    /\ escrow' \in Nat /\ supply' \in Nat
    /\ UNCHANGED <<next_id, mints, redeems>>

BookNext ==
    OpenMint \/ OpenRedeem \/ CloseMint \/ ApproveRedeem \/ RejectRedeem \/ MoveTokens

BookSpec == BookInit /\ [][BookNext]_bookVars
===============================================================================
