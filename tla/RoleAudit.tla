------------------------------- MODULE RoleAudit -------------------------------
(***************************************************************************)
(* scripts/verify/verify-no-roles.ts: do some addresses still have roles or*)
(* token authorities anywhere?  It reads the chain network by network, the *)
(* role accounts in batches and the mints one by one, while others go on   *)
(* granting, revoking and handing over.  A network that cannot be reached  *)
(* is reported, a mint that cannot be read is skipped.                     *)
(***************************************************************************)
EXTENDS AccessControl, SequencesExt

CONSTANTS
    Audited,      \* the addresses that are verified
    Networks,     \* the networks asked for, in order
    ListedRoles,  \* network -> the ac_roles the file of addresses lists
    ListedMints,  \* network -> the mTokens it lists, in order
    Types,        \* the authorities of a mint
    BATCH_SIZE,   \* role accounts read in one call
    NoExit

ASSUME AuditedAssumption == Audited \subseteq Accounts
ASSUME BatchAssumption == BATCH_SIZE \in Nat \ {0}

\* What is verified is finite, and no ac_role is a mint.
ASSUME ListsAssumption ==
    /\ IsFiniteSet(Audited) /\ IsFiniteSet(RoleNames)
    /\ Networks \in Seq(ToSet(Networks))
    /\ \A n \in ToSet(Networks) :
         /\ IsFiniteSet(ListedRoles[n]) /\ ListedRoles[n] \subseteq AcRoles
         /\ ListedMints[n] \in Seq(ToSet(ListedMints[n]))
         /\ ToSet(ListedMints[n]) \cap AcRoles = {}

VARIABLES
    authorities,  \* mint -> type -> account
    results,      \* this network's role accounts read so far: found or not
    mint_hits,    \* this network's authority hits so far
    mints_read,   \* this network's mints done so far
    current,      \* the number of the network
    hits,         \* powers of targets reported so far, over all networks
    failed,       \* networks that were not verified
    unread,       \* mints that were skipped
    exit,         \* the exit code
    steady        \* powers that targets have had ever since the audit began

auditVars == <<results, mint_hits, mints_read, current, hits, failed, unread, exit>>
raVars == <<acVars, authorities, auditVars, steady>>

\* Roles and authorities alike: what it is over, who has it, which one.
Powers(role_set, authority_of) ==
    {p \in role_set : p[2] \in Audited}
      \cup {<<x[1], authority_of[x[1]][x[2]], x[2]>> : x \in
              {y \in (DOMAIN authority_of) \X Types : authority_of[y[1]][y[2]] \in Audited}}

Reading == exit = NoExit /\ current =< Len(Networks)
Network == Networks[current]

\* phase1: every target, every listed ac_role, every role.
PdaEntries == SetToSeq(Audited \X ListedRoles[Network] \X RoleNames)
Triple(entry) == <<entry[2], entry[1], entry[3]>>

\* Variant: only whole batches are read.
RolesRead_whole_batches == Len(results) + BATCH_SIZE > Len(PdaEntries)

RolesRead == Len(results) = Len(PdaEntries)

\* batchGetAccounts, one call.
ReadBatch ==
    /\ Reading /\ ~RolesRead
    /\ LET batch == SubSeq(PdaEntries, Len(results) + 1,
                           IF Len(results) + BATCH_SIZE < Len(PdaEntries)
                           THEN Len(results) + BATCH_SIZE ELSE Len(PdaEntries))
       IN  results' = results \o [n \in DOMAIN batch |-> Triple(batch[n]) \in roles]
    /\ UNCHANGED <<mint_hits, mints_read, current, hits, failed, unread, exit>>

RoleHits == {Triple(PdaEntries[n]) : n \in {i \in DOMAIN results : results[i]}}

\* The call fails: what was read of this network is lost.
NetworkFails ==
    /\ Reading /\ ~RolesRead
    /\ failed' = failed \cup {Network}
    /\ current' = current + 1
    /\ results' = << >>
    /\ UNCHANGED <<mint_hits, mints_read, hits, unread, exit>>

\* verifyAuthorities, one mint: it is read (in two calls, which share nothing
\* but the mint), or skipped after an error.
ReadMint ==
    /\ Reading /\ RolesRead /\ mints_read < Len(ListedMints[Network])
    /\ LET mint == ListedMints[Network][mints_read + 1]
       IN  \/ /\ mint_hits' = mint_hits \cup {p \in Powers({}, authorities) : p[1] = mint}
              /\ UNCHANGED unread
           \/ unread' = unread \cup {mint} /\ UNCHANGED mint_hits
    /\ mints_read' = mints_read + 1
    /\ UNCHANGED <<results, current, hits, failed, exit>>

\* The network's result; the scan of all role accounts (phase2) counts them
\* and changes nothing.
NetworkDone ==
    /\ Reading /\ RolesRead /\ mints_read = Len(ListedMints[Network])
    /\ hits' = hits \cup RoleHits \cup mint_hits
    /\ current' = current + 1
    /\ results' = << >> /\ mint_hits' = {} /\ mints_read' = 0
    /\ UNCHANGED <<failed, unread, exit>>

\* Variant: networks that failed are forgotten in the end.
ExitCode_hits == IF hits # {} THEN 1 ELSE 0

ExitCode == IF hits # {} THEN 1 ELSE IF failed # {} THEN 2 ELSE 0

Report ==
    /\ exit = NoExit /\ current > Len(Networks)
    /\ exit' = ExitCode
    /\ UNCHANGED <<results, mint_hits, mints_read, current, hits, failed, unread>>

\* set_authority: whoever has an authority hands it over.
PassOn(mint, type, to) ==
    /\ authorities' = [authorities EXCEPT ![mint][type] = to]
    /\ UNCHANGED <<acVars, auditVars>>

RAInit ==
    /\ results = << >> /\ mint_hits = {} /\ mints_read = 0
    /\ current = 1
    /\ hits = {} /\ failed = {} /\ unread = {}
    /\ exit = NoExit
    /\ steady = Powers(roles, authorities)

RANext ==
    /\ \/ /\ ReadBatch \/ NetworkFails \/ ReadMint \/ NetworkDone \/ Report
          /\ UNCHANGED <<acVars, authorities>>
       \/ ACGovern /\ UNCHANGED <<authorities, auditVars>>
       \/ \E mint \in DOMAIN authorities, type \in Types, to \in Accounts : PassOn(mint, type, to)
    /\ steady' = steady \cap Powers(roles', authorities')

\* The audit of a chain in any state that its programs allow.
RASpec ==
    /\ ACTypeOK /\ ListsExclusive /\ (DOMAIN authorities) \cap AcRoles = {}
    /\ RAInit
    /\ [][RANext]_raVars

-----------------------------------------------------------------------------
\* What the audit vouches for, read piece by piece from a chain that moves: an
\* address that it does not warn of has had no role under a listed ac_role and
\* no authority over a listed mint all along, unless the network is reported
\* as failed or the mint was skipped; and exit code 0 leaves no network out
\* (main, batchGetAccounts, verifyAuthorities).
AuditMissesNothing ==
    exit # NoExit =>
        /\ exit = 0 => failed = {}
        /\ \A p \in steady, n \in ToSet(Networks) \ failed :
             p[1] \in ListedRoles[n] \cup (ToSet(ListedMints[n]) \ unread) =>
                 exit = 1 /\ \E h \in hits : h[2] = p[2]
===============================================================================
