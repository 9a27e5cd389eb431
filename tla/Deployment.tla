------------------------------ MODULE Deployment ------------------------------
(***************************************************************************)
(* The scripts that deploy an mToken and hand it over (scripts/deploy,     *)
(* scripts/tasks).  Each script reads the file of deployed addresses and   *)
(* the chain, sends transactions through a custodian's signer, and then    *)
(* saves what it deployed.  It may stop anywhere: a transaction it sent    *)
(* may land before that, later, in any order, or never.  The operator runs *)
(* one script at a time, and any of them again.                            *)
(*                                                                         *)
(* A transaction is a sequence of instructions that all succeed or change  *)
(* nothing.  The network's own accounts (global ac_role and ac) are there. *)
(***************************************************************************)
EXTENDS Naturals, FiniteSets, SequencesExt

CONSTANTS
    deployer, ac_admin, token_manager, vaults_manager, oracle_manager,  \* the wallets
    None,        \* no address, no script, no result
    Tasks,       \* the scripts the operator runs
    MaxKeys,     \* bound: key pairs and seeds in use at once
    MaxPending,  \* bound: a script starts with fewer transactions in flight
    MaxFailures  \* bound: crashes, timeouts and dropped transactions

Components == {"acRole", "mToken", "tokenAuthority", "mTokenDataFeed", "minter", "redeemer"}

\* The key pairs and seeds the scripts generate, by what they are for.
Keys == Components \X (1 .. MaxKeys)

ASSUME NoneAssumption == None \notin Keys
ASSUME BoundsAssumption == {MaxKeys, MaxPending, MaxFailures} \subseteq Nat

\* The deployer's wallet is none of those the token is handed over to, and an
\* account the scripts create is not a wallet.
ASSUME WalletsAssumption ==
    /\ deployer \notin {ac_admin, token_manager, vaults_manager, oracle_manager}
    /\ {deployer, ac_admin} \cap (Keys \cup {None}) = {}

VARIABLES
    ledger,     \* the accounts on chain, their roles and powers
    addresses,  \* common/addresses.ts: component -> key or None
    flight,     \* transactions sent, neither landed nor dropped
    script,     \* the running script, or None
    hasty,      \* a script was started while a transaction was pending
    failures    \* crashes, timeouts and dropped transactions so far

dpVars == <<ledger, addresses, flight, script, hasty, failures>>

\* The components each is deployed with.
Uses == [acRole |-> {}, mToken |-> {}, tokenAuthority |-> {"acRole"},
         mTokenDataFeed |-> {"acRole"},
         minter |-> {"acRole", "mToken", "mTokenDataFeed", "tokenAuthority"},
         redeemer |-> {"acRole", "mToken", "mTokenDataFeed"}]

\* ROLE_GROUPS
ROLE_GROUPS == [
    ACCESS_CONTROL_ADMIN |-> {"admin_role", "update_account_ac_role"},
    TOKEN_MANAGER |-> {"m_minter_role", "m_burner_role", "m_freezer_role"},
    VAULTS_MANAGER |-> {"vault_admin_role", "vault_pauser_role"},
    ORACLE_MANAGER |-> {"data_feed_admin"}]
ADMIN_ROLE == "admin_role"
FEED_ADMIN == "data_feed_admin"
M_MINTER == "m_minter_role"

\* Variant: the role of a manual feed's deployment is forgotten.
AutoRoles_no_feed == {ADMIN_ROLE} \cup ROLE_GROUPS.VAULTS_MANAGER

\* DEPLOYER_AUTO_ROLES
AutoRoles == {ADMIN_ROLE} \cup ROLE_GROUPS.VAULTS_MANAGER \cup ROLE_GROUPS.ORACLE_MANAGER

\* TOKEN_AUTHORITY_TYPES, in the order they are transferred
TOKEN_AUTHORITY_TYPES == <<"MintTokens", "FreezeAccount", "PermanentDelegate">>

-----------------------------------------------------------------------------
(* The chain: what an instruction needs and what it does.                  *)

Exists(l, key) == key \in DOMAIN l.accounts
Holds(l, ac_role, account, role) == <<ac_role, account, role>> \in l.roles

\* The instructions that create an account.
CREATIONS == {"newAcRole", "newAc", "newMint", "newFeed", "newPullFeed", "newTokenAuthority",
              "newTimelock", "newVault"}

\* The condition under which instruction i succeeds.
Allowed(l, i) ==
    CASE i.op \in CREATIONS \ {"newVault"} -> ~Exists(l, i.key)
      [] i.op = "grantRole" ->
           /\ Holds(l, i.ac_role, i.by, ADMIN_ROLE)
           /\ ~Holds(l, i.ac_role, i.account, i.role)
      [] i.op = "revokeRole" ->
           /\ Holds(l, i.ac_role, i.by, ADMIN_ROLE)
           /\ Holds(l, i.ac_role, i.account, i.role)
      [] i.op = "newManualFeed" ->
           /\ Exists(l, i.key) /\ i.key \notin l.manual
           /\ Holds(l, l.accounts[i.key].acRole, i.by, FEED_ADMIN)
      [] i.op = "newVault" ->
           /\ ~Exists(l, i.key)
           /\ \A role \in ROLE_GROUPS.VAULTS_MANAGER : Holds(l, i.uses.acRole, deployer, role)
      [] i.op = "setAuthority" -> l.powers[i.key][i.type] = deployer

\* The ledger after the instructions of S, no two of which are about the same
\* account, role or power.
Executed(l, S) ==
    LET of(ops) == {i \in S : i.op \in ops}
        triples(op) == {<<i.ac_role, i.account, i.role>> : i \in of({op})}
        moves(k, t) == {i \in of({"setAuthority"}) : i.key = k /\ i.type = t}
    IN  [accounts |-> [k \in DOMAIN l.accounts \cup {i.key : i \in of(CREATIONS)} |->
             IF k \in DOMAIN l.accounts THEN l.accounts[k]
             ELSE (CHOOSE i \in of(CREATIONS) : i.key = k).uses],
         roles |-> (l.roles \cup triples("grantRole") \cup
                      {<<i.key, deployer, ADMIN_ROLE>> : i \in of({"newAcRole"})})
                   \ triples("revokeRole"),
         manual |-> l.manual \cup {i.key : i \in of({"newManualFeed"})},
         powers |-> [k \in DOMAIN l.powers \cup {i.key : i \in of({"newMint"})} |->
             [t \in ToSet(TOKEN_AUTHORITY_TYPES) |->
                 IF moves(k, t) # {} THEN (CHOOSE i \in moves(k, t) : TRUE).to
                 ELSE IF k \in DOMAIN l.powers THEN l.powers[k][t] ELSE deployer]]]

\* What a transaction makes of the ledger; None if an instruction fails where
\* those before it were executed.
Before(tx, n) == {tx.inx[m] : m \in {j \in DOMAIN tx.inx : j < n}}
Outcome(l, tx) ==
    IF \A n \in DOMAIN tx.inx : Allowed(Executed(l, Before(tx, n)), tx.inx[n])
    THEN Executed(l, ToSet(tx.inx)) ELSE None

-----------------------------------------------------------------------------
(* The transactions the scripts build from the addresses they read.        *)

Create(op, key) ==
    [op |-> op, key |-> key, uses |-> [c \in Uses[key[1]] |-> addresses[c]]]
Grant(account, role, by) ==
    [op |-> "grantRole", ac_role |-> addresses.acRole, account |-> account, role |-> role, by |-> by]
Revoke(account, role, by) == [Grant(account, role, by) EXCEPT !.op = "revokeRole"]

\* Variant: the vault is not given the role to mint with.
MinterInx_no_minter(key) ==
    <<Grant(deployer, "vault_admin_role", deployer), Grant(deployer, "vault_pauser_role", deployer),
      Create("newVault", key)>>

\* deployMinterVault: grants, new_common_vault, new_minter_vault and its pause
\* accounts in one transaction.
MinterInx(key) ==
    <<Grant(deployer, "vault_admin_role", deployer), Grant(deployer, "vault_pauser_role", deployer),
      Grant(key, M_MINTER, deployer), Create("newVault", key)>>

\* deployRedeemerVault: the deployer's roles come from the minter's deployment.
RedeemerInx(key) == <<Create("newVault", key)>>

\* deployManualFeed, after its base feed is there: FEED_ADMIN unless it is
\* granted already, then the ManualFeedState.
ManualFeedTxs(key) ==
    (IF Holds(ledger, addresses.acRole, deployer, FEED_ADMIN) THEN << >>
     ELSE <<<<Grant(deployer, FEED_ADMIN, deployer)>>>>)
    \o <<<<[op |-> "newManualFeed", key |-> key, by |-> deployer]>>>>

\* transferAuthority for each type: skipped if the PDA has it, an error if it
\* is anybody else's.
MoveTxs(t) ==
    IF ledger.powers[addresses.mToken][t] # deployer THEN << >>
    ELSE <<<<[op |-> "setAuthority", key |-> addresses.mToken, type |-> t,
              to |-> addresses.tokenAuthority]>>>>
TransferTxs ==
    MoveTxs(TOKEN_AUTHORITY_TYPES[1]) \o MoveTxs(TOKEN_AUTHORITY_TYPES[2])
      \o MoveTxs(TOKEN_AUTHORITY_TYPES[3])

-----------------------------------------------------------------------------
(* A script at work.                                                       *)

Idle == script = None
Fails == failures < MaxFailures /\ failures' = failures + 1

\* Two transactions with the same instructions are still two transactions.
Tx(inx) ==
    [id |-> CHOOSE n \in 1 .. Cardinality(flight) + 1 : \A t \in flight : t.id # n, inx |-> inx]

\* Keypair.generate() and generateSeed(): a key that nothing refers to, as
\* long as fewer than MaxKeys are in use.
UsedKeys ==
    DOMAIN ledger.accounts
      \cup {i.key : i \in {j \in UNION {ToSet(t.inx) : t \in flight} : "key" \in DOMAIN j}}
NewKeys(c) ==
    LET used == UsedKeys
    IN  {k \in ({c} \X (1 .. MaxKeys)) \ used :
            /\ Cardinality(used) < MaxKeys
            /\ \A n \in 1 .. k[2] - 1 : <<c, n>> \in used}

\* The start of a script that finds something to do.
Started(task) ==
    /\ Idle
    /\ task \in Tasks
    /\ Cardinality(flight) < MaxPending
    /\ hasty' = (hasty \/ flight # {})
    /\ UNCHANGED failures

\* waitForTx: the script stays until its transaction is confirmed.
SendAndWait(task, key, inx, todo) ==
    LET tx == Tx(inx)
    IN  /\ flight' = flight \cup {tx}
        /\ script' = [task |-> task, key |-> key, tx |-> tx, confirmed |-> FALSE, todo |-> todo]
        /\ UNCHANGED <<ledger, addresses>>

\* waitForTx: false.  The script ends with the approval pending.
SendAndLeave(inx) ==
    /\ flight' = flight \cup {Tx(inx)}
    /\ UNCHANGED <<ledger, addresses, script>>

Saved(c) == addresses[c] # None
AllSaved(S) == \A c \in S : Saved(c)

\* Variant: what is saved is not looked at.
Deploys_always(c) == TRUE

\* Whether a deployment script has anything to deploy: nothing is saved, or
\* what is saved is not on chain.  The mint's script gives up in that case.
Deploys(c) == ~Saved(c) \/ (c # "mToken" /\ ~Exists(ledger, addresses[c]))

DeployAcRole ==
    /\ Started("acRole") /\ Deploys("acRole")
    /\ \E key \in NewKeys("acRole") :
           SendAndWait("acRole", key, <<Create("newAcRole", key)>>, << >>)

DeployMint ==
    /\ Started("mToken") /\ Saved("acRole") /\ Deploys("mToken")
    /\ \E key \in NewKeys("mToken") :
           SendAndWait("mToken", key, <<Create("newMint", key)>>, << >>)

\* The seed is the saved one if there is one.
DeployTokenAuthority ==
    /\ Started("tokenAuthority") /\ AllSaved({"acRole", "mToken"}) /\ Deploys("tokenAuthority")
    /\ \E key \in IF Saved("tokenAuthority") THEN {addresses.tokenAuthority} ELSE NewKeys("tokenAuthority") :
           SendAndWait("tokenAuthority", key,
                       <<Create("newTokenAuthority", key)>>, << >>)

DeployDataFeed ==
    /\ Started("mTokenDataFeed") /\ Saved("acRole") /\ Deploys("mTokenDataFeed")
    /\ \E key \in NewKeys("mTokenDataFeed") :
           SendAndWait("mTokenDataFeed", key, <<Create("newFeed", key)>>, << >>)

DeployMinterVault ==
    /\ Started("minter")
    /\ AllSaved({"acRole", "mToken", "mTokenDataFeed", "tokenAuthority"})
    /\ \E key \in NewKeys("minter") : SendAndWait("minter", key, MinterInx(key), << >>)

DeployRedeemerVault ==
    /\ Started("redeemer")
    /\ AllSaved({"acRole", "mToken", "mTokenDataFeed"})
    /\ \E key \in NewKeys("redeemer") : SendAndWait("redeemer", key, RedeemerInx(key), << >>)

TransferAuthorities ==
    /\ Started("transfer") /\ AllSaved({"mToken", "tokenAuthority"})
    /\ TransferTxs # << >>
    /\ SendAndWait("transfer", None, Head(TransferTxs), Tail(TransferTxs))

GrantAdmin ==
    /\ Started("grant-admin") /\ Saved("acRole")
    /\ Holds(ledger, addresses.acRole, deployer, ADMIN_ROLE)
    /\ LET missing == {r \in ROLE_GROUPS.ACCESS_CONTROL_ADMIN :
                         ~Holds(ledger, addresses.acRole, ac_admin, r)}
       IN  /\ missing # {}
           /\ SendAndWait("grant-admin", None,
                  SetToSeq({Grant(ac_admin, r, deployer) : r \in missing}), << >>)

\* Variant: the deployer's ADMIN_ROLE is revoked whoever else has it.
CanRevokeAdmin_always == TRUE

\* The deployer's own ADMIN_ROLE may go once the AC admin has it.
CanRevokeAdmin == Holds(ledger, addresses.acRole, ac_admin, ADMIN_ROLE)

\* revoke-deployer-roles.ts: the roles the deployer has now, ADMIN_ROLE last.
RevokeDeployer ==
    /\ Started("revoke-deployer") /\ Saved("acRole")
    /\ Holds(ledger, addresses.acRole, deployer, ADMIN_ROLE)
    /\ LET others == {r \in AutoRoles \ {ADMIN_ROLE} : Holds(ledger, addresses.acRole, deployer, r)}
           order == SetToSeq(others) \o (IF CanRevokeAdmin THEN <<ADMIN_ROLE>> ELSE << >>)
       IN  /\ order # << >>
           /\ SendAndLeave([n \in DOMAIN order |-> Revoke(deployer, order[n], deployer)])

OperationalGrants ==
    {<<token_manager, r>> : r \in ROLE_GROUPS.TOKEN_MANAGER}
      \cup {<<vaults_manager, r>> : r \in ROLE_GROUPS.VAULTS_MANAGER}
      \cup {<<oracle_manager, r>> : r \in ROLE_GROUPS.ORACLE_MANAGER}
      \cup {<<ac_admin, "update_account_ac_role">>}

GrantOperational ==
    /\ Started("grant-operational") /\ Saved("acRole")
    /\ Holds(ledger, addresses.acRole, ac_admin, ADMIN_ROLE)
    /\ LET missing == {g \in OperationalGrants :
                         ~Holds(ledger, addresses.acRole, g[1], g[2])}
       IN  /\ missing # {}
           /\ SendAndLeave(SetToSeq({Grant(g[1], g[2], ac_admin) : g \in missing}))

-----------------------------------------------------------------------------
(* What follows a confirmation, and what may happen instead of it.         *)

SendNext(todo) ==
    /\ script' = [script EXCEPT !.tx = Tx(Head(todo)), !.confirmed = FALSE, !.todo = Tail(todo)]
    /\ flight' = flight \cup {Tx(Head(todo))}
    /\ UNCHANGED <<ledger, addresses, hasty, failures>>

\* deployManualFeed goes on from its base feed.
BaseFeedDone ==
    /\ ~Idle /\ script.task = "mTokenDataFeed" /\ script.confirmed
    /\ script.tx.inx[1].op = "newFeed"
    /\ SendNext(ManualFeedTxs(script.key))

NextTx ==
    /\ ~Idle /\ script.confirmed /\ script.todo # << >>
    /\ SendNext(script.todo)

\* All the script's transactions are confirmed.
Complete ==
    script.confirmed /\ script.todo = << >> /\ script.tx.inx[1].op # "newFeed"

\* registerAddress and saveAddressesToFile; the other scripts just end.
Finish ==
    /\ ~Idle /\ Complete
    /\ addresses' = IF script.task \in Components
                    THEN [addresses EXCEPT ![script.task] = script.key] ELSE addresses
    /\ script' = None
    /\ UNCHANGED <<ledger, flight, hasty, failures>>

\* A failed or overdue transaction ends the script, but for the transfer of
\* authorities, which reports it and goes on with the next one.
GoesOn == [script EXCEPT !.confirmed = TRUE]
Failing == IF script.task = "transfer" THEN GoesOn ELSE None

\* deployManualFeed goes on without its grant if the error says that the role
\* is there already; what the signer's errors say is not known.
GrantedAlready ==
    /\ script.task = "mTokenDataFeed"
    /\ script.tx.inx[1].op = "grantRole"
    /\ Holds(ledger, script.tx.inx[1].ac_role, deployer, FEED_ADMIN)

\* A transaction takes effect, or fails on chain.
Land(tx) ==
    LET result == Outcome(ledger, tx)
    IN  /\ flight' = flight \ {tx}
        /\ ledger' = IF result = None THEN ledger ELSE result
        /\ \/ script' = IF Idle \/ (~Idle /\ (script.tx # tx \/ script.confirmed)) THEN script
                        ELSE IF result = None THEN Failing ELSE GoesOn
           \/ ~Idle /\ script.tx = tx /\ result = None /\ GrantedAlready /\ script' = GoesOn
        /\ UNCHANGED <<addresses, hasty, failures>>

\* It is rejected by an approver, or expires.
Drop(tx) ==
    /\ Fails
    /\ flight' = flight \ {tx}
    /\ UNCHANGED <<ledger, addresses, script, hasty>>

\* No confirmation within the script's timeout.
Timeout ==
    /\ ~Idle /\ ~script.confirmed /\ Fails
    /\ script' = Failing
    /\ UNCHANGED <<ledger, addresses, flight, hasty>>

\* The script is killed, wherever it is.
Crash ==
    /\ ~Idle /\ Fails
    /\ script' = None
    /\ UNCHANGED <<ledger, addresses, flight, hasty>>

DPInit ==
    /\ ledger = [accounts |-> << >>, roles |-> {}, manual |-> {}, powers |-> << >>]
    /\ addresses = [c \in Components |-> None]
    /\ flight = {}
    /\ script = None
    /\ hasty = FALSE
    /\ failures = 0

Deploy ==
    \/ DeployAcRole \/ DeployMint \/ DeployTokenAuthority
    \/ DeployDataFeed \/ DeployMinterVault \/ DeployRedeemerVault

HandOver ==
    \/ GrantAdmin \/ RevokeDeployer \/ GrantOperational
    \/ TransferAuthorities

DPNext ==
    \/ Deploy
    \/ HandOver
    \/ BaseFeedDone \/ NextTx \/ Finish \/ Timeout \/ Crash
    \/ \E tx \in flight : Land(tx) \/ Drop(tx)

DPSpec == DPInit /\ [][DPNext]_dpVars

-----------------------------------------------------------------------------
(* What verify-mtoken-state.ts shows of the token of the file: who has the *)
(* mint's powers, and which components the other accounts refer to.        *)

MintReport == ledger.powers[addresses.mToken]

\* An account that the file names and that is fetched: its fields, or a warning.
Fetched(c, fields) ==
    IF Exists(ledger, addresses[c]) THEN [d \in fields |-> ledger.accounts[addresses[c]][d]]
    ELSE None

TokenAuthorityReport == Fetched("tokenAuthority", {"acRole"})
DataFeedReport == Fetched("mTokenDataFeed", {"acRole"})
HasPrice == addresses.mTokenDataFeed \in ledger.manual
MinterVaultReport == Fetched("minter", {"mToken", "acRole", "mTokenDataFeed", "tokenAuthority"})
RedeemerVaultReport == Fetched("redeemer", {"mToken", "acRole", "mTokenDataFeed"})

\* main: a section for each that the file names.
TokenReport ==
    [tokenAuthority |-> TokenAuthorityReport, mTokenDataFeed |-> DataFeedReport,
     minter |-> MinterVaultReport, redeemer |-> RedeemerVaultReport]

-----------------------------------------------------------------------------
\* The file names one deployment that is there: each component in it exists, a
\* manual feed has its price, and what verify-mtoken-state.ts shows of it refers
\* to the others in the file, wherever scripts were stopped and however many
\* attempts left other accounts behind (registerAddress after waitForTx, the
\* checks for saved addresses in scripts/tasks/deploy).
SavedTogether ==
    /\ \A c \in Components : Saved(c) => Exists(ledger, addresses[c])
    /\ Saved("mTokenDataFeed") => HasPrice
    /\ \A c \in DOMAIN TokenReport :
         Saved(c) => TokenReport[c] = [d \in Uses[c] |-> addresses[d]]

\* The minter vault of the file may mint once the authorities are transferred:
\* it has M_MINTER, and the mint's powers are with the deployer or with the
\* token authority the vault was given (deployMinterVault, transferAuthority).
MinterReady ==
    /\ Saved("minter") => Holds(ledger, addresses.acRole, addresses.minter, M_MINTER)
    /\ Saved("mToken") =>
         \A t \in ToSet(TOKEN_AUTHORITY_TYPES) :
             MintReport[t] \in {deployer, addresses.tokenAuthority} \ {None}

\* No ac_role is ever without an admin, whatever pending transactions of the
\* hand-over land, in whatever order (revoke-deployer-roles.ts).
AdminNeverLost ==
    \A k \in DOMAIN ledger.accounts : k[1] = "acRole" =>
        \E a \in {deployer, ac_admin} : Holds(ledger, k, a, ADMIN_ROLE)

\* Once the deployer's ADMIN_ROLE is gone, so are all its roles, provided that the
\* operator waited for pending approvals between the scripts
\* (scripts/README.md, DEPLOYER_AUTO_ROLES).
HandOverClean ==
    ~hasty => \A t \in ledger.roles :
        t[2] = deployer => Holds(ledger, t[1], deployer, ADMIN_ROLE)
===============================================================================
