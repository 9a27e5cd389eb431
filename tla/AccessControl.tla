---------------------------- MODULE AccessControl ----------------------------
(***************************************************************************)
(* The access-control program: roles under an access-control role account, *)
(* and the per-account green/black list kept under an access-control       *)
(* account.  Every instruction is one atomic action: a Solana transaction  *)
(* takes effect as a whole or not at all, so an early return or a missing  *)
(* account is a disabled action.                                           *)
(*                                                                         *)
(* An AccountAccessControlRoleState account carries no data: holding a     *)
(* role is the existence of the PDA (ac_role, account, role), modelled as  *)
(* membership of the set `roles`.                                          *)
(***************************************************************************)
EXTENDS Naturals

CONSTANTS
    Accounts,    \* the public keys that hold roles, own tokens or are listed
    Signers,     \* the accounts with a private key: all but program addresses
    AcRoles,     \* addresses of AccessControlRoleState accounts
    Acs,         \* addresses of AccessControlState accounts
    RoleNames,   \* the role seeds that may be granted
    Grantable    \* (ac_role, account, role) triples an instance grants or revokes

ADMIN == "admin_role"
UPDATE_ACCOUNT_AC == "update_account_ac_role"

ASSUME RoleNamesAssumption == {ADMIN, UPDATE_ACCOUNT_AC} \subseteq RoleNames
ASSUME SignersAssumption == Signers \subseteq Accounts
ASSUME GrantableAssumption == Grantable \subseteq AcRoles \X Accounts \X RoleNames

VARIABLES
    ac_role_states,  \* the AccessControlRoleState accounts that exist
    roles,           \* the AccountAccessControlRoleState PDAs that exist
    ac_states,       \* AccessControlState accounts: address -> its ac_role
    account_ac       \* AccountAccessControlState PDAs: (ac, account) -> lists

acVars == <<ac_role_states, roles, ac_states, account_ac>>

AccountAc == [green_listed : BOOLEAN, black_listed : BOOLEAN]

\* Partial functions stand for the set of initialised PDAs of a kind.
PartialFunctions(D, R) == UNION {[S -> R] : S \in SUBSET D}

\* f with the PDA at k initialised to v; f without the closed PDA at k.
WithEntry(f, k, v) == [x \in DOMAIN f \cup {k} |-> IF x = k THEN v ELSE f[x]]
WithoutEntry(f, k) == [x \in DOMAIN f \ {k} |-> f[x]]

HasRole(ac_role, account, role) == <<ac_role, account, role>> \in roles
RolesOf(ac_role) == {t \in roles : t[1] = ac_role}
HasAdmin(ac_role) == \E a \in Accounts : HasRole(ac_role, a, ADMIN)

\* The values an Option<bool> argument leaves a field with.
OptionBool(current) == BOOLEAN \cup {current}

ACInit ==
    /\ ac_role_states = {}
    /\ roles = {}
    /\ ac_states = << >>
    /\ account_ac = << >>

\* The creator of an access-control role becomes its first admin.
NewAcRole(authority, ac_role) ==
    /\ ac_role \notin ac_role_states
    /\ <<ac_role, authority, ADMIN>> \notin roles
    /\ ac_role_states' = ac_role_states \cup {ac_role}
    /\ roles' = roles \cup {<<ac_role, authority, ADMIN>>}
    /\ UNCHANGED <<ac_states, account_ac>>

\* `init` of the role PDA fails when the account already holds the role.
GrantRole(authority, ac_role, account, role) ==
    /\ ac_role \in ac_role_states
    /\ HasRole(ac_role, authority, ADMIN)
    /\ ~HasRole(ac_role, account, role)
    /\ roles' = roles \cup {<<ac_role, account, role>>}
    /\ UNCHANGED <<ac_role_states, ac_states, account_ac>>

\* Variant: anyone may give up a role of its own.
RevokeRole_or_renounce(authority, ac_role, account, role) ==
    /\ ac_role \in ac_role_states
    /\ HasRole(ac_role, authority, ADMIN) \/ authority = account
    /\ HasRole(ac_role, account, role)
    /\ roles' = roles \ {<<ac_role, account, role>>}
    /\ UNCHANGED <<ac_role_states, ac_states, account_ac>>

\* Nothing keeps an admin from revoking the last admin, itself included.
RevokeRole(authority, ac_role, account, role) ==
    /\ ac_role \in ac_role_states
    /\ HasRole(ac_role, authority, ADMIN)
    /\ HasRole(ac_role, account, role)
    /\ roles' = roles \ {<<ac_role, account, role>>}
    /\ UNCHANGED <<ac_role_states, ac_states, account_ac>>

\* Variant: `init_if_needed` in place of `init`.
NewAc_if_needed(ac, ac_role) ==
    /\ ac \in Acs /\ ac_role \in ac_role_states
    /\ ac_states' = WithEntry(ac_states, ac, ac_role)
    /\ UNCHANGED <<ac_role_states, roles, account_ac>>

\* Anyone may create an access-control account for any existing ac_role.
NewAc(ac, ac_role) ==
    /\ ac \in Acs \ DOMAIN ac_states
    /\ ac_role \in ac_role_states
    /\ ac_states' = WithEntry(ac_states, ac, ac_role)
    /\ UNCHANGED <<ac_role_states, roles, account_ac>>

\* Anyone may create the list entry of any account, once.
NewAccountAc(ac, account) ==
    /\ ac \in DOMAIN ac_states
    /\ <<ac, account>> \notin DOMAIN account_ac
    /\ account_ac' = WithEntry(account_ac, <<ac, account>>,
                               [green_listed |-> FALSE, black_listed |-> FALSE])
    /\ UNCHANGED <<ac_role_states, roles, ac_states>>

\* Variant: the two flags of one call exclude one another, not the two of the
\* account: an absent flag is not looked at.
UpdateAccountAc_args_only(authority, ac, account) ==
    /\ ac \in DOMAIN ac_states
    /\ <<ac, account>> \in DOMAIN account_ac
    /\ HasRole(ac_states[ac], authority, UPDATE_ACCOUNT_AC)
    /\ \E flag \in BOOLEAN :
         \/ account_ac' = [account_ac EXCEPT ![<<ac, account>>].green_listed = flag]
         \/ account_ac' = [account_ac EXCEPT ![<<ac, account>>].black_listed = flag]
    /\ UNCHANGED <<ac_role_states, roles, ac_states>>

\* green_listed and black_listed are options: absent leaves the flag as it is.
UpdateAccountAc(authority, ac, account) ==
    /\ ac \in DOMAIN ac_states
    /\ <<ac, account>> \in DOMAIN account_ac
    /\ HasRole(ac_states[ac], authority, UPDATE_ACCOUNT_AC)
    /\ LET state == account_ac[<<ac, account>>]
       IN  \E green \in OptionBool(state.green_listed),
              black \in OptionBool(state.black_listed) :
             /\ ~(black /\ green)
             /\ account_ac' = [account_ac EXCEPT ![<<ac, account>>] =
                                 [green_listed |-> green, black_listed |-> black]]
    /\ UNCHANGED <<ac_role_states, roles, ac_states>>

\* The part that runs after deployment, shared by the composed systems.
ACGovern ==
    \/ \E t \in Grantable, authority \in Signers :
         \/ GrantRole(authority, t[1], t[2], t[3])
         \/ RevokeRole(authority, t[1], t[2], t[3])
    \/ \E authority \in Signers, k \in DOMAIN account_ac :
         UpdateAccountAc(authority, k[1], k[2])

ACNext ==
    \/ \E authority \in Signers, ac_role \in AcRoles : NewAcRole(authority, ac_role)
    \/ \E ac \in Acs, ac_role \in AcRoles : NewAc(ac, ac_role)
    \/ \E ac \in Acs, account \in Accounts : NewAccountAc(ac, account)
    \/ ACGovern

ACSpec == ACInit /\ [][ACNext]_acVars

-----------------------------------------------------------------------------
\* Types of the accounts of the program, and that the two lists of an account
\* exclude one another (update_account_ac refuses to leave both flags set).
ACTypeOK ==
    /\ ac_role_states \subseteq AcRoles
    /\ roles \subseteq ac_role_states \X Accounts \X RoleNames
    /\ DOMAIN ac_states \subseteq Acs
    /\ \A ac \in DOMAIN ac_states : ac_states[ac] \in ac_role_states
    /\ DOMAIN account_ac \subseteq (DOMAIN ac_states) \X Accounts
    /\ \A k \in DOMAIN account_ac : account_ac[k] \in AccountAc

\* No account is green listed and black listed at once, whichever order the
\* two optional flags of update_account_ac are given in over time.
ListsExclusive ==
    \A k \in DOMAIN account_ac :
        ~(account_ac[k].green_listed /\ account_ac[k].black_listed)

\* Once the last admin of an access-control role is gone, the role set below
\* it is frozen for good: no sequence of instructions grants or revokes there
\* again (revoke_role lets an admin remove itself, and nothing restores it).
OrphanedRolesFrozen ==
    [][\A r \in ac_role_states : ~HasAdmin(r) => RolesOf(r)' = RolesOf(r)]_acVars

\* A list entry changes only while its access-control account's own ac_role
\* has a holder of UPDATE_ACCOUNT_AC, and the link from entry to ac_role never
\* changes: admins of another ac_role can never take over an existing list.
ListsChangeUnderRole ==
    [][\A k \in DOMAIN account_ac :
         /\ k \in DOMAIN account_ac'
         /\ ac_states'[k[1]] = ac_states[k[1]]
         /\ account_ac'[k] # account_ac[k] =>
              \E a \in Accounts : HasRole(ac_states[k[1]], a, UPDATE_ACCOUNT_AC)]_acVars
===============================================================================
