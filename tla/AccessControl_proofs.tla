------------------------- MODULE AccessControl_proofs -------------------------
(***************************************************************************)
(* Theorems about the access-control program.  The type invariant is       *)
(* inductive as it stands, and with it the exclusion of the two lists; the *)
(* two action properties follow from one step under the invariant.         *)
(***************************************************************************)
EXTENDS AccessControl, TLAPS

ACInv == ACTypeOK /\ ListsExclusive

\* The entry new_account_ac writes, and any other pair that is not both.
LEMMA AccountAcFacts ==
    ASSUME NEW green \in BOOLEAN, NEW black \in BOOLEAN, ~(black /\ green),
           NEW entry, entry = [green_listed |-> green, black_listed |-> black]
    PROVE  entry \in AccountAc /\ ~(entry.green_listed /\ entry.black_listed)
BY DEF AccountAc

LEMMA ACInitInv == ACInit => ACInv
BY DEF ACInit, ACInv, ACTypeOK, ListsExclusive

\* Every instruction keeps the accounts well typed and the lists exclusive.
LEMMA ACStepInv == ACInv /\ [ACNext]_acVars => ACInv'
<1> SUFFICES ASSUME ACInv, [ACNext]_acVars PROVE ACInv'
  OBVIOUS
<1> USE SignersAssumption, GrantableAssumption, RoleNamesAssumption
<1>1. ASSUME NEW authority \in Signers, NEW ac_role \in AcRoles, NewAcRole(authority, ac_role)
      PROVE  ACInv'
  BY <1>1 DEF ACInv, ACTypeOK, ListsExclusive, NewAcRole, ADMIN
<1>2. ASSUME NEW t \in Grantable, NEW authority \in Signers,
             GrantRole(authority, t[1], t[2], t[3])
      PROVE  ACInv'
  BY <1>2 DEF ACInv, ACTypeOK, ListsExclusive, GrantRole
<1>3. ASSUME NEW t \in Grantable, NEW authority \in Signers,
             RevokeRole(authority, t[1], t[2], t[3])
      PROVE  ACInv'
  BY <1>3 DEF ACInv, ACTypeOK, ListsExclusive, RevokeRole
<1>4. ASSUME NEW ac \in Acs, NEW ac_role \in AcRoles, NewAc(ac, ac_role)
      PROVE  ACInv'
  <2>1. /\ DOMAIN ac_states' = DOMAIN ac_states \cup {ac}
        /\ ac_states'[ac] = ac_role
        /\ \A x \in DOMAIN ac_states : x # ac => ac_states'[x] = ac_states[x]
    BY <1>4 DEF NewAc, WithEntry
  <2> QED
    BY <1>4, <2>1 DEF ACInv, ACTypeOK, ListsExclusive, NewAc
<1>5. ASSUME NEW ac \in Acs, NEW account \in Accounts, NewAccountAc(ac, account)
      PROVE  ACInv'
  <2> DEFINE k == <<ac, account>>
  <2>1. /\ DOMAIN account_ac' = DOMAIN account_ac \cup {k}
        /\ account_ac'[k] = [green_listed |-> FALSE, black_listed |-> FALSE]
        /\ \A x \in DOMAIN account_ac : x # k => account_ac'[x] = account_ac[x]
    BY <1>5 DEF NewAccountAc, WithEntry
  <2>2. k \in (DOMAIN ac_states) \X Accounts
    BY <1>5 DEF NewAccountAc
  <2>3. \A x \in DOMAIN account_ac' :
           /\ account_ac'[x] \in AccountAc
           /\ ~(account_ac'[x].green_listed /\ account_ac'[x].black_listed)
    <3> SUFFICES ASSUME NEW x \in DOMAIN account_ac'
                 PROVE  /\ account_ac'[x] \in AccountAc
                        /\ ~(account_ac'[x].green_listed /\ account_ac'[x].black_listed)
      OBVIOUS
    <3>1. CASE x = k
      BY <2>1, <3>1, AccountAcFacts
    <3>2. CASE x # k
      BY <2>1, <3>2 DEF ACInv, ACTypeOK, ListsExclusive
    <3> QED
      BY <3>1, <3>2
  <2> HIDE DEF k
  <2> QED
    BY <1>5, <2>1, <2>2, <2>3 DEF ACInv, ACTypeOK, ListsExclusive, NewAccountAc
<1>6. ASSUME NEW authority \in Signers, NEW k \in DOMAIN account_ac,
             UpdateAccountAc(authority, k[1], k[2])
      PROVE  ACInv'
  <2>1. <<k[1], k[2]>> = k
    BY DEF ACInv, ACTypeOK
  <2>2. PICK green \in OptionBool(account_ac[k].green_listed),
             black \in OptionBool(account_ac[k].black_listed) :
          /\ ~(black /\ green)
          /\ account_ac' = [account_ac EXCEPT ![k] =
                              [green_listed |-> green, black_listed |-> black]]
    BY <1>6, <2>1, Zenon DEF UpdateAccountAc
  <2>3. green \in BOOLEAN /\ black \in BOOLEAN
    BY <2>2 DEF ACInv, ACTypeOK, AccountAc, OptionBool
  <2>4. /\ DOMAIN account_ac' = DOMAIN account_ac
        /\ account_ac'[k] = [green_listed |-> green, black_listed |-> black]
        /\ \A x \in DOMAIN account_ac : x # k => account_ac'[x] = account_ac[x]
    BY <2>2, Zenon
  <2>5. account_ac'[k] \in AccountAc
        /\ ~(account_ac'[k].green_listed /\ account_ac'[k].black_listed)
    BY <2>2, <2>3, <2>4, AccountAcFacts
  <2> QED
    BY <1>6, <2>4, <2>5 DEF ACInv, ACTypeOK, ListsExclusive, UpdateAccountAc
<1>7. CASE UNCHANGED acVars
  BY <1>7 DEF ACInv, ACTypeOK, ListsExclusive, acVars
<1> QED
  BY <1>1, <1>2, <1>3, <1>4, <1>5, <1>6, <1>7 DEF ACNext, ACGovern

\* Types, and the exclusion of the green and the black list, hold in every
\* reachable state (update_account_ac.rs checks the pair it is about to leave).
THEOREM TypesAndLists == ACSpec => [](ACTypeOK /\ ListsExclusive)
<1>1. ACSpec => []ACInv
  BY ACInitInv, ACStepInv, PTL DEF ACSpec
<1> QED
  BY <1>1, PTL DEF ACInv

\* Roles and list entries are only of accounts that exist (new_ac.rs: a list
\* belongs to an access-control role).
THEOREM ACTypes == ACSpec => []ACTypeOK
BY TypesAndLists, PTL

\* An access-control role whose last admin is gone never changes again
\* (grant_role.rs and revoke_role.rs both ask for a holder of admin_role).
THEOREM OrphanedRoles == ACSpec => OrphanedRolesFrozen
<1> DEFINE Frozen == \A r \in ac_role_states : ~HasAdmin(r) => RolesOf(r)' = RolesOf(r)
<1>1. ACInv /\ [ACNext]_acVars => [Frozen]_acVars
  <2> SUFFICES ASSUME ACInv, ACNext, NEW r \in ac_role_states, ~HasAdmin(r)
               PROVE  RolesOf(r)' = RolesOf(r)
    BY DEF OrphanedRolesFrozen
  <2> USE SignersAssumption, GrantableAssumption DEF HasRole
  <2>2. ASSUME NEW authority \in Signers, NEW ac_role \in AcRoles,
               NewAcRole(authority, ac_role)
        PROVE  RolesOf(r)' = RolesOf(r)
    BY <2>2 DEF NewAcRole, RolesOf
  <2>3. ASSUME NEW t \in Grantable, NEW authority \in Signers,
               \/ GrantRole(authority, t[1], t[2], t[3])
               \/ RevokeRole(authority, t[1], t[2], t[3])
        PROVE  RolesOf(r)' = RolesOf(r)
    <3>1. t[1] # r
      BY <2>3 DEF GrantRole, RevokeRole, HasAdmin
    <3> QED
      BY <2>3, <3>1 DEF GrantRole, RevokeRole, RolesOf
  <2>4. ASSUME UNCHANGED roles
        PROVE  RolesOf(r)' = RolesOf(r)
    BY <2>4 DEF RolesOf
  <2> QED
    BY <2>2, <2>3, <2>4 DEF ACNext, ACGovern, NewAc, NewAccountAc, UpdateAccountAc
<1>2. ACSpec => []ACInv
  BY ACInitInv, ACStepInv, PTL DEF ACSpec
<1> QED
  BY <1>1, <1>2, PTL DEF ACSpec, OrphanedRolesFrozen

\* A list entry changes only under the ac_role its list was created with.
THEOREM ListsUnderRole == ACSpec => ListsChangeUnderRole
<1> DEFINE Kept ==
      \A k \in DOMAIN account_ac :
         /\ k \in DOMAIN account_ac'
         /\ ac_states'[k[1]] = ac_states[k[1]]
         /\ account_ac'[k] # account_ac[k] =>
              \E a \in Accounts : HasRole(ac_states[k[1]], a, UPDATE_ACCOUNT_AC)
<1>1. ACInv /\ [ACNext]_acVars => [Kept]_acVars
  <2> SUFFICES ASSUME ACInv, ACNext PROVE Kept
    OBVIOUS
  <2>1. ASSUME NEW ac \in Acs, NEW ac_role \in AcRoles, NewAc(ac, ac_role)
        PROVE  Kept
    <3>1. \A x \in DOMAIN ac_states : ac_states'[x] = ac_states[x]
      BY <2>1 DEF NewAc, WithEntry
    <3> QED
      BY <2>1, <3>1 DEF NewAc, ACInv, ACTypeOK
  <2>2. ASSUME NEW ac \in Acs, NEW account \in Accounts, NewAccountAc(ac, account)
        PROVE  Kept
    <3>1. /\ DOMAIN account_ac \subseteq DOMAIN account_ac'
          /\ \A x \in DOMAIN account_ac : account_ac'[x] = account_ac[x]
      BY <2>2 DEF NewAccountAc, WithEntry
    <3> QED
      BY <2>2, <3>1 DEF NewAccountAc
  <2>3. ASSUME NEW authority \in Signers, NEW j \in DOMAIN account_ac,
               UpdateAccountAc(authority, j[1], j[2])
        PROVE  Kept
    <3>1. <<j[1], j[2]>> = j
      BY DEF ACInv, ACTypeOK
    <3>2. /\ DOMAIN account_ac' = DOMAIN account_ac
          /\ \A x \in DOMAIN account_ac : x # j => account_ac'[x] = account_ac[x]
      BY <2>3, <3>1 DEF UpdateAccountAc
    <3>3. HasRole(ac_states[j[1]], authority, UPDATE_ACCOUNT_AC)
      BY <2>3 DEF UpdateAccountAc
    <3> QED
      BY <2>3, <3>2, <3>3, SignersAssumption DEF UpdateAccountAc
  <2>4. ASSUME UNCHANGED <<ac_states, account_ac>>
        PROVE  Kept
    BY <2>4
  <2> QED
    BY <2>1, <2>2, <2>3, <2>4 DEF ACNext, ACGovern, NewAcRole, GrantRole, RevokeRole
<1>2. ACSpec => []ACInv
  BY ACInitInv, ACStepInv, PTL DEF ACSpec
<1> QED
  BY <1>1, <1>2, PTL DEF ACSpec, ListsChangeUnderRole
===============================================================================
