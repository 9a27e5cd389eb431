--------------------------- MODULE NetworkDeployment ---------------------------
(***************************************************************************)
(* The scripts that deploy what the mTokens of a network share: the global *)
(* ac_role and ac, the pair that overrides them for one mToken, the        *)
(* timelock and the feed of a payment token; and the hand-over of the      *)
(* global ac_role (scripts/tasks/deploy, scripts/tasks/manage/global-ac).  *)
(*                                                                         *)
(* Two of them may run at the same time.  Each reads the file of addresses *)
(* when it starts and writes it whole when it ends, with its own addresses *)
(* in it.  Chain, keys and transactions are those of Deployment.           *)
(***************************************************************************)
EXTENDS Deployment

CONSTANTS
    feed_signer,  \* the wallet of the action update-feed-ptoken
    NetTasks,     \* the scripts the operator runs
    FeedModes,    \* modes that the payment token's feed may be configured with
    MaxRunning    \* bound: scripts at work at the same time

NetComponents == {"acRoleGlobal", "ac", "timelock", "overrideAcRole", "overrideAc", "feed"}

VARIABLES
    file,        \* common/addresses.ts, network and override part: component -> key or None
    running,     \* the scripts at work
    refused,     \* feeds whose newManualFeed failed or was dropped
    overlapped   \* two scripts have been at work at once

netVars == <<file, running, refused, overlapped>>
ndVars == <<ledger, flight, failures, netVars>>

\* What each component is deployed with, by which instruction, as what account.
Needs == [acRoleGlobal |-> {}, ac |-> {"acRoleGlobal"}, timelock |-> {},
          overrideAcRole |-> {}, overrideAc |-> {"overrideAcRole"}, feed |-> {"acRoleGlobal"}]
Op == [acRoleGlobal |-> "newAcRole", ac |-> "newAc", timelock |-> "newTimelock",
       overrideAcRole |-> "newAcRole", overrideAc |-> "newAc", feed |-> "newFeed"]
KeyKind == [acRoleGlobal |-> "acRole", ac |-> "ac", timelock |-> "timelock",
            overrideAcRole |-> "acRole", overrideAc |-> "ac", feed |-> "feed"]

-----------------------------------------------------------------------------
(* A script at work: its task, the file as it read it, what it deploys and *)
(* how far it is.                                                          *)

\* require...Address: what c is deployed with is saved.
Ready(c) == \A d \in Needs[c] : file[d] # None

\* Variant: what is saved is not looked at.
Unsaved_any(c) == TRUE

\* A script has nothing to do for what is saved already.
Unsaved(c) == file[c] = None

\* A new account of component c, under the ac_role that `read` names.
CreateNet(c, key, read, mode) ==
    [op |-> Op[c], key |-> key,
     uses |-> IF Needs[c] = {} THEN << >>
              ELSE [acRole |-> read[CHOOSE d \in Needs[c] : TRUE], mode |-> mode]]

GrantNet(account, role, by) ==
    [op |-> "grantRole", ac_role |-> file.acRoleGlobal, account |-> account, role |-> role, by |-> by]

NetStarts(task) ==
    /\ task \in NetTasks
    /\ Cardinality(running) < MaxRunning
    /\ Cardinality(flight) < MaxPending
    /\ overlapped' = (overlapped \/ running # {})
    /\ UNCHANGED <<ledger, failures, file, refused>>

\* It sends a transaction and waits for it.
Waits(task, key, mode, inx) ==
    /\ flight' = flight \cup {Tx(inx)}
    /\ running' = running \cup
         {[task |-> task, read |-> file, key |-> key, mode |-> mode, tx |-> Tx(inx), confirmed |-> FALSE]}

\* The scripts of one account.
DeployNet(c) ==
    /\ NetStarts(c) /\ Unsaved(c) /\ Ready(c)
    /\ \E key \in NewKeys(KeyKind[c]) :
           Waits(c, key, None, <<CreateNet(c, key, file, None)>>)

DeployGlobalAcRole == DeployNet("acRoleGlobal")
DeployGlobalAc == DeployNet("ac")
DeployNetworkTimelock == DeployNet("timelock")
DeployAcRoleOverride == DeployNet("overrideAcRole")
DeployAcOverride == DeployNet("overrideAc")

\* deploySwitchboardFeed: a feed of the oracle's own program.
NewPullFeed(key) == [op |-> "newPullFeed", key |-> key, uses |-> << >>]

\* deploy-payment-token-feed.ts.  The mode is the configuration's: a manual
\* feed, or one over an account that is given, or over a Switchboard feed that
\* the script creates first.
DeployPaymentFeed(mode) ==
    /\ NetStarts("feed") /\ Unsaved("feed") /\ Ready("feed")
    /\ IF mode = "switchboard"
       THEN \E key \in NewKeys("pullFeed") : Waits("feed", key, mode, <<NewPullFeed(key)>>)
       ELSE \E key \in NewKeys("feed") :
                Waits("feed", key, mode, <<CreateNet("feed", key, file, mode)>>)

GrantGlobalAdmin ==
    /\ NetStarts("global-grant-admin") /\ file.acRoleGlobal # None
    /\ Holds(ledger, file.acRoleGlobal, deployer, ADMIN_ROLE)
    /\ LET missing == {r \in ROLE_GROUPS.ACCESS_CONTROL_ADMIN :
                         ~Holds(ledger, file.acRoleGlobal, ac_admin, r)}
       IN  /\ missing # {}
           /\ Waits("global-grant-admin", None, None,
                    SetToSeq({GrantNet(ac_admin, r, deployer) : r \in missing}))

\* Only once the AC admin has ADMIN_ROLE; it does not wait.
RevokeGlobalAdmin ==
    /\ NetStarts("global-revoke-deployer") /\ file.acRoleGlobal # None
    /\ \A a \in {deployer, ac_admin} : Holds(ledger, file.acRoleGlobal, a, ADMIN_ROLE)
    /\ flight' = flight \cup {Tx(<<[GrantNet(deployer, ADMIN_ROLE, deployer) EXCEPT !.op = "revokeRole"]>>)}
    /\ UNCHANGED running

-----------------------------------------------------------------------------
(* What follows a confirmation.                                            *)

Goes(r, next) == running' = (running \ {r}) \cup next

\* The Switchboard feed is there: now the feed that reads it.
SwitchboardDone(r) ==
    /\ r.confirmed /\ r.tx.inx[1].op = "newPullFeed"
    /\ \E key \in NewKeys("feed") :
         LET tx == Tx(<<CreateNet("feed", key, r.read, r.mode)>>)
         IN  /\ flight' = flight \cup {tx}
             /\ Goes(r, {[r EXCEPT !.key = key, !.tx = tx, !.confirmed = FALSE]})
    /\ UNCHANGED <<ledger, failures, file, refused, overlapped>>

\* deployManualFeed for a payment token, by the wallet that governs the global
\* ac_role: FEED_ADMIN, unless it has it, and the ManualFeedState.  Neither is
\* waited for.
ManualPriceTxs(r) ==
    LET role == r.read.acRoleGlobal
    IN  (IF Holds(ledger, role, feed_signer, FEED_ADMIN) THEN << >>
         ELSE <<<<[GrantNet(feed_signer, FEED_ADMIN, feed_signer) EXCEPT !.ac_role = role]>>>>)
        \o <<<<[op |-> "newManualFeed", key |-> r.key, by |-> feed_signer]>>>>

\* Variant: a grant that is pending ends the deployment.
PriceTxs_grant_first(r) ==
    IF r.task = "feed" /\ r.mode = "manual" THEN <<Head(ManualPriceTxs(r))>> ELSE << >>

\* What a script sends last and does not wait for.
PriceTxs(r) == IF r.task = "feed" /\ r.mode = "manual" THEN ManualPriceTxs(r) ELSE << >>

Sent(inxs) == flight \cup {Tx(inx) : inx \in ToSet(inxs)}

\* Its last confirmation has come.
Closing(r) == r.confirmed /\ r.tx.inx[1].op # "newPullFeed"

\* Variant: the file is read again before it is written.
SavedFile_merged(r) ==
    IF r.task \in NetComponents THEN [file EXCEPT ![r.task] = r.key] ELSE file

\* register... and saveAddressesToFile: the file as the script read it, with
\* its own component.
SavedFile(r) ==
    IF r.task \in NetComponents THEN [r.read EXCEPT ![r.task] = r.key] ELSE file

NetFinish(r) ==
    /\ Closing(r)
    /\ flight' = Sent(PriceTxs(r))
    /\ file' = SavedFile(r)
    /\ Goes(r, {})
    /\ UNCHANGED <<ledger, failures, refused, overlapped>>

\* It is killed among its last calls: some were made, nothing is saved.
NetKilled(r) ==
    /\ Fails
    /\ \E n \in 0 .. IF Closing(r) THEN Len(PriceTxs(r)) ELSE 0 :
           flight' = Sent(SubSeq(PriceTxs(r), 1, n))
    /\ Goes(r, {})
    /\ UNCHANGED <<ledger, file, refused, overlapped>>

\* What becomes of the manual price that tx was to create.
Lost(tx) == {i.key : i \in {j \in ToSet(tx.inx) : j.op = "newManualFeed"}}

\* A transaction takes effect, or fails on chain; a failed one ends the script
\* that waits for it.
NetLand(tx) ==
    LET result == Outcome(ledger, tx)
        waiting == {r \in running : r.tx = tx /\ ~r.confirmed}
    IN  /\ flight' = flight \ {tx}
        /\ ledger' = IF result = None THEN ledger ELSE result
        /\ refused' = IF result = None THEN refused \cup Lost(tx) ELSE refused
        /\ running' = (running \ waiting) \cup
             (IF result = None THEN {} ELSE {[r EXCEPT !.confirmed = TRUE] : r \in waiting})
        /\ UNCHANGED <<failures, file, overlapped>>

\* It is rejected by an approver, or expires; a script that waits for it runs
\* into its timeout.
NetDrop(tx) ==
    /\ Fails
    /\ flight' = flight \ {tx}
    /\ refused' = refused \cup Lost(tx)
    /\ running' = {r \in running : r.tx # tx \/ r.confirmed}
    /\ UNCHANGED <<ledger, file, overlapped>>

NDInit ==
    /\ file = [c \in NetComponents |-> None]
    /\ running = {}
    /\ refused = {}
    /\ overlapped = FALSE

NDNext ==
    \/ DeployGlobalAcRole \/ DeployGlobalAc \/ DeployNetworkTimelock
    \/ DeployAcRoleOverride \/ DeployAcOverride
    \/ \E mode \in FeedModes : DeployPaymentFeed(mode)
    \/ GrantGlobalAdmin \/ RevokeGlobalAdmin
    \/ \E r \in running : SwitchboardDone(r) \/ NetFinish(r) \/ NetKilled(r)
    \/ \E tx \in flight : NetLand(tx) \/ NetDrop(tx)

NDSpec == DPInit /\ NDInit /\ [][NDNext]_ndVars

-----------------------------------------------------------------------------
\* The file names one deployment even when scripts ran at the same time: each
\* account is on chain and under the ac_role that the file names beside it.
\* One script may undo what the other saved, but never mixes with it
\* (saveAddressesToFile, the checks of scripts/tasks/deploy).
FileConsistent ==
    \A c \in NetComponents : file[c] # None =>
        /\ Exists(ledger, file[c])
        /\ \A d \in Needs[c] : ledger.accounts[file[c]].acRole = file[d]

\* As long as scripts run one at a time, an address that is saved stays, though
\* transactions of earlier scripts are still pending (existing* in
\* scripts/tasks/deploy).
NothingForgotten ==
    [][\A c \in NetComponents :
         file[c] # None /\ ~overlapped' => file'[c] = file[c]]_file

\* The feed of a payment token is saved before its price is there, but never
\* without one to come: unless the chain or an approver refused it, the
\* ManualFeedState exists or is on its way (deployManualFeed, isPaymentToken).
PricedOrPending ==
    LET f == file.feed
    IN  f # None /\ ledger.accounts[f].mode = "manual" =>
            \/ f \in ledger.manual \cup refused
            \/ \E tx \in flight : f \in Lost(tx)
===============================================================================
