------------------------- MODULE MCRolesAndDeployment -------------------------
(***************************************************************************)
(* Who may do what, and the scripts that set it up.  A behaviour is about  *)
(* one of: two access-control roles and a list, from an empty chain; an    *)
(* audit of two networks, while roles and authorities of its targets       *)
(* change; one mToken deployed and handed over, with room for scripts to   *)
(* fail; and what the network's mTokens share, which touches other entries *)
(* of the file and another ac_role.                                        *)
(***************************************************************************)
EXTENDS RoleAudit, NetworkDeployment

CONSTANTS
    alice, bob, roleA, roleB, mintA, mintB,
    NetKeys,      \* bound: accounts created for the network
    NetFailures   \* bound: crashes and dropped transactions there

VARIABLE subject   \* what the behaviour is about

MCRoleNames == {"admin_role", "update_account_ac_role"}
MCGrantable == {roleA, roleB} \X {alice, bob} \X MCRoleNames
MCNetworks == <<"devnet", "mainnet">>
MCListedRoles == [devnet |-> {roleA, roleB}, mainnet |-> {}]
MCListedMints == [devnet |-> <<mintA>>, mainnet |-> <<mintB>>]

AllTasks == Components \cup
    {"transfer", "grant-admin", "revoke-deployer", "grant-operational"}
\* A feed over an account that is given is a manual feed without its price.
\* The timelock and the override of one mToken are deployed like the global pair.
SomeNetTasks == {"acRoleGlobal", "ac", "feed", "global-grant-admin", "global-revoke-deployer"}

NoRoles == ac_role_states = {} /\ roles = {} /\ authorities = << >>

MRInit ==
    /\ ac_states = << >> /\ account_ac = << >>
    /\ \/ subject \in {"lists", "mToken", "network"} /\ NoRoles
       \/ /\ subject = "audit" /\ ac_role_states = AcRoles
          /\ \E role \in AcRoles, name \in RoleNames :
                roles = {<<roleA, alice, ADMIN>>, <<roleB, alice, ADMIN>>, <<role, bob, name>>}
          /\ \E owner \in Accounts :
                authorities = [m \in {mintA, mintB} |-> [t \in Types |-> IF m = mintA THEN owner ELSE bob]]
    /\ RAInit /\ DPInit /\ NDInit

MRNext ==
    /\ UNCHANGED subject
    /\ \/ /\ subject = "lists" /\ ACNext
          /\ UNCHANGED <<authorities, auditVars, steady, dpVars, netVars>>
       \/ /\ subject = "audit" /\ RANext /\ UNCHANGED <<dpVars, netVars>>
          /\ {t \in roles' : t[2] \notin Audited} = {t \in roles : t[2] \notin Audited}
          /\ Cardinality({t \in roles' : t[2] \in Audited}) =< 2
       \/ subject = "mToken" /\ DPNext /\ UNCHANGED <<raVars, netVars>>
       \/ /\ subject = "network" /\ NDNext /\ UNCHANGED <<raVars, addresses, script, hasty>>
          /\ Cardinality(DOMAIN ledger'.accounts) =< NetKeys
          /\ failures' =< NetFailures

MRSpec == MRInit /\ [][MRNext]_<<raVars, dpVars, netVars, subject>>
===============================================================================
