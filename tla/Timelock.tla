------------------------------- MODULE Timelock -------------------------------
(***************************************************************************)
(* The scripts that keep the programs' upgrade authority behind a timelock *)
(* (scripts/deploy/timelock.ts, tasks/upgrade, tasks/manage/timelock).  A  *)
(* script reads the chain, builds one transaction from what it read, hands *)
(* it to the custodian and ends (waitForTx: false): the transaction lands  *)
(* later, in any order, or never.  Scripts of several operators overlap.   *)
(*                                                                         *)
(* The Squads program and the loader are modelled by what the scripts rely *)
(* on.  All the reads of one script are one step; the program data's size  *)
(* (the extension before an upgrade) and rents are left out.               *)
(***************************************************************************)
EXTENDS Integers, FiniteSets

CONSTANTS
    vault,        \* getVaultPda of the timelock
    Operators,    \* the wallets that run the scripts
    Programs,     \* programAddresses
    Buffers,      \* buffer accounts; the key pair of each is used once
    stranger,     \* a key that none of them holds
    None,         \* no argument
    Delay,        \* networkConfig.timelock.delay
    MaxIndex,     \* bound: transactions of the timelock
    MaxTime,      \* bound: the clock
    MaxCode,      \* bound: versions written to a buffer
    MaxPending,   \* bound: a script starts with fewer transactions in flight
    MaxDrops      \* bound: transactions that never land

ASSUME DelayAssumption == Delay \in Nat
ASSUME BoundsAssumption == {MaxIndex, MaxTime, MaxCode, MaxPending, MaxDrops} \subseteq Nat
ASSUME KeysAssumption ==
    /\ vault \notin Operators
    /\ {None, stranger} \cap (Operators \cup {vault}) = {}

VARIABLES
    now,          \* the chain's clock, and the scripts'
    programs,     \* program -> [authority, code]
    buffers,      \* buffer -> [owner, code]
    timelock,     \* the multisig account: [members, time_lock, transaction_index]
    proposals,    \* index -> [change, status, since]: transaction and proposal
    signer_index, \* transaction_index of the multisig that is the member, if it is one
    flight,       \* transactions handed to the custodian
    announced,    \* what scripts printed: [index, change]; not kept once raced
    raced,        \* a script was started with a transaction pending, or one was refused
    drops         \* transactions that never landed so far

tlVars == <<now, programs, buffers, timelock, proposals, signer_index,
            flight, announced, raced, drops>>
chainVars == <<now, programs, buffers, timelock, proposals, signer_index>>

\* The member of the timelock is the operators' wallet, or a multisig of
\* theirs, by which every transaction for the timelock is then wrapped.
MemberKinds == {"wallet", "multisig"}

Upgrade(p, b) == [kind |-> "upgrade", program |-> p, buffer |-> b]
SetAuthority(p, to) == [kind |-> "setAuthority", program |-> p, to |-> to]
IsUpgrade(change) == change.kind = "upgrade"

\* Variant: the timelock is created without the configured delay.
CreatedTimelock_no_delay(member) == [member |-> member, time_lock |-> 0, transaction_index |-> 0]

\* deployTimelock: one member with every permission, threshold 1.
CreatedTimelock(member) == [member |-> member, time_lock |-> Delay, transaction_index |-> 0]

Wrapped == timelock.member = "multisig"

-----------------------------------------------------------------------------
(* What a script sends.                                                    *)

\* wrapTxWithSquadsSigner: the transaction is the next one of the member
\* multisig, created, approved, executed and closed in one go.
Outer == IF Wrapped THEN signer_index + 1 ELSE 0

Send(tx) ==
    /\ Cardinality(flight) < MaxPending
    /\ flight' = flight \cup {tx}
    /\ raced' = (raced \/ flight # {})
    /\ UNCHANGED chainVars
    /\ UNCHANGED drops

Unannounced == announced' = IF raced' THEN {} ELSE announced

\* Variant: the index is told from the proposals that are there.
NextIndex_live == Cardinality(DOMAIN proposals) + 1

\* sendTxWithTimelock: the index a new transaction gets if none comes before.
NextIndex == timelock.transaction_index + 1

\* sendTxWithTimelock, action 'create': create, propose and approve; the index
\* is printed whatever becomes of the transaction.
SendCreate(change) ==
    /\ Send([op |-> "create", index |-> NextIndex, change |-> change, outer |-> Outer])
    /\ announced' = IF raced' THEN {} ELSE announced \cup {[index |-> NextIndex, change |-> change]}

\* Nobody checks the buffer.
ProposeUpgrade(p, b) ==
    /\ programs[p].authority = vault
    /\ SendCreate(Upgrade(p, b))

\* The vault, or the wallet of the operator itself.
Targets(payer) == {vault, payer}

\* transfer-upgrade-authority.ts: to the vault if no --authority is given; from
\* the vault by way of the timelock.
TransferUpgradeAuthority(payer, p, authority) ==
    LET current == programs[p].authority
        newAuthority == IF authority = None THEN vault ELSE authority
    IN  /\ current # newAuthority
        /\ newAuthority \in Targets(payer)
        /\ IF current = vault
           THEN SendCreate(SetAuthority(p, newAuthority))
           ELSE /\ Send([op |-> "transfer", program |-> p, from |-> current, to |-> newAuthority,
                         by |-> payer])
                /\ Unannounced

\* Variant: the first account of the first instruction is taken for the program.
ProgramOf_data(change) == vault

\* execute-upgrade-program.ts takes the second account of the first instruction
\* for the program: in a transfer of authority, that is the vault.
ProgramOf(change) == IF IsUpgrade(change) THEN change.program ELSE vault

Approved(i) == i \in DOMAIN proposals /\ proposals[i].status = "approved"
Matured(i) == proposals[i].since + timelock.time_lock <= now

ExecuteUpgrade(i) ==
    /\ Approved(i) /\ Matured(i)
    /\ LET p == ProgramOf(proposals[i].change)
       IN  p \in Programs /\ programs[p].authority = vault
    /\ Send([op |-> "execute", index |-> i, outer |-> Outer])
    /\ Unannounced

\* cancel-transaction.ts: neither the proposal nor its status is read; the
\* member that cancels is always the payer.
CancelTransaction(i) ==
    /\ Send([op |-> "cancel", index |-> i, member |-> "wallet", outer |-> Outer])
    /\ Unannounced

-----------------------------------------------------------------------------
(* The chain: Squads v4 and the upgradeable loader.                        *)

WithProposal(i, proposal) ==
    [j \in DOMAIN proposals \cup {i} |-> IF j = i THEN proposal ELSE proposals[j]]

\* Upgrade and close need the buffer in the vault's hands, and use it up.
Possible(change) ==
    /\ programs[change.program].authority = vault
    /\ IsUpgrade(change) =>
         change.buffer \in DOMAIN buffers /\ buffers[change.buffer].owner = vault

Happens(change) ==
    IF IsUpgrade(change)
    THEN /\ programs' = [programs EXCEPT ![change.program].code = buffers[change.buffer].code]
         /\ buffers' = [b \in DOMAIN buffers \ {change.buffer} |-> buffers[b]]
    ELSE /\ programs' = [programs EXCEPT ![change.program].authority = change.to]
         /\ UNCHANGED buffers

\* Who may: vaultTransactionCreate takes the next index only, proposalApprove
\* approves at threshold 1; vaultTransactionExecute wants an approved proposal
\* that stood for the time lock, proposalCancel an approved one and a member.
Executable(i) == Approved(i) /\ Matured(i) /\ Possible(proposals[i].change)

InTurn(tx) == (tx.op # "transfer" /\ Wrapped) => tx.outer = signer_index + 1

Accepted(tx) ==
    /\ InTurn(tx)
    /\ CASE tx.op = "create" ->
              /\ tx.index = timelock.transaction_index + 1
              /\ tx.index <= MaxIndex /\ now + Delay <= MaxTime
         [] tx.op = "execute" -> Executable(tx.index)
         [] tx.op = "cancel" -> Approved(tx.index) /\ tx.member = timelock.member
         [] tx.op = "transfer" -> tx.by = tx.from /\ programs[tx.program].authority = tx.from

Create(tx) ==
    /\ timelock' = [timelock EXCEPT !.transaction_index = tx.index]
    /\ proposals' = WithProposal(tx.index,
                       [change |-> tx.change, status |-> "approved", since |-> now])
    /\ UNCHANGED <<programs, buffers>>

\* All the instructions, or nothing happens.
Execute(i) ==
    /\ Happens(proposals[i].change)
    /\ proposals' = [proposals EXCEPT ![i].status = "executed"]
    /\ UNCHANGED timelock

\* vaultTransactionAccountsClose follows at once.
Cancel(i) ==
    /\ proposals' = [j \in DOMAIN proposals \ {i} |-> proposals[j]]
    /\ UNCHANGED <<programs, buffers, timelock>>

Transfer(tx) ==
    /\ programs' = [programs EXCEPT ![tx.program].authority = tx.to]
    /\ UNCHANGED <<buffers, timelock, proposals>>

\* A wrapped transaction also takes its place among the member's own.
Land(tx) ==
    /\ Accepted(tx)
    /\ \/ tx.op = "create" /\ Create(tx)
       \/ tx.op = "execute" /\ Execute(tx.index)
       \/ tx.op = "cancel" /\ Cancel(tx.index)
       \/ tx.op = "transfer" /\ Transfer(tx)
    /\ signer_index' = IF tx.op # "transfer" /\ Wrapped THEN tx.outer ELSE signer_index
    /\ flight' = flight \ {tx}
    /\ UNCHANGED <<now, announced, raced, drops>>

\* The transaction fails on chain.
Fail(tx) ==
    /\ ~Accepted(tx)
    /\ flight' = flight \ {tx}
    /\ UNCHANGED chainVars
    /\ UNCHANGED <<announced, raced, drops>>

\* An approver refuses it, or it expires with the custodian.
Refuse(tx) ==
    /\ Accepted(tx) /\ drops < MaxDrops
    /\ drops' = drops + 1
    /\ flight' = flight \ {tx}
    /\ raced' = TRUE /\ announced' = {}
    /\ UNCHANGED chainVars

\* A member executes a proposal by the multisig's own application: the only
\* way for a transfer of authority.
ExecuteElsewhere(i) ==
    /\ Executable(i)
    /\ Execute(i)
    /\ UNCHANGED <<now, signer_index, flight, announced, raced, drops>>

\* The loader's command line writes a buffer and hands it to the vault.
WriteBuffer(b) ==
    /\ b \in DOMAIN buffers /\ buffers[b].owner \in Operators /\ buffers[b].code < MaxCode
    /\ buffers' = [buffers EXCEPT ![b].code = @ + 1]
    /\ UNCHANGED <<now, programs, timelock, proposals, signer_index, flight, announced, raced, drops>>

HandBuffer(b) ==
    /\ b \in DOMAIN buffers /\ buffers[b].owner \in Operators
    /\ buffers' = [buffers EXCEPT ![b].owner = vault]
    /\ UNCHANGED <<now, programs, timelock, proposals, signer_index, flight, announced, raced, drops>>

Tick ==
    /\ now < MaxTime
    /\ now' = now + 1
    /\ UNCHANGED <<programs, buffers, timelock, proposals, signer_index, flight, announced, raced, drops>>

-----------------------------------------------------------------------------
TLInit ==
    /\ now = 0
    /\ \E owner \in Operators :
         /\ programs = [p \in Programs |-> [authority |-> owner, code |-> 0]]
         /\ buffers = [b \in Buffers |-> [owner |-> owner, code |-> 1]]
    /\ \E member \in MemberKinds : timelock = CreatedTimelock(member)
    /\ proposals = << >>
    /\ signer_index = 0
    /\ flight = {}
    /\ announced = {}
    /\ raced = FALSE
    /\ drops = 0

Scripts ==
    \/ \E p \in Programs, b \in Buffers : ProposeUpgrade(p, b)
    \/ \E payer \in Operators, p \in Programs,
          authority \in Operators \cup {vault, stranger, None} :
         TransferUpgradeAuthority(payer, p, authority)
    \/ \E i \in 1 .. MaxIndex : ExecuteUpgrade(i) \/ CancelTransaction(i)

Chain ==
    \/ \E tx \in flight : Land(tx) \/ Fail(tx) \/ Refuse(tx)
    \/ \E i \in 1 .. MaxIndex : ExecuteElsewhere(i)
    \/ \E b \in Buffers : WriteBuffer(b) \/ HandBuffer(b)
    \/ Tick

TLNext == Scripts \/ Chain

TLSpec == TLInit /\ [][TLNext]_tlVars

\* The operators go on with an upgrade until it is done, and the custodian
\* sends what they approve: a transaction lands, or fails, or is refused, the
\* last only so often.
Settles == \E tx \in flight : Land(tx) \/ Fail(tx)
LandsExecute(i) == \E tx \in flight : tx.op = "execute" /\ tx.index = i /\ (Land(tx) \/ Fail(tx))

TLFairSpec ==
    /\ TLSpec
    /\ WF_tlVars(Tick) /\ WF_tlVars(Settles)
    /\ \A i \in 1 .. MaxIndex : SF_tlVars(ExecuteUpgrade(i)) /\ WF_tlVars(LandsExecute(i))

-----------------------------------------------------------------------------
Changes == [kind : {"upgrade"}, program : Programs, buffer : Buffers]
    \cup [kind : {"setAuthority"}, program : Programs, to : Operators]

\* Types: no upgrade authority leaves the vault and the operators, and each
\* proposal has an index that was given out, no later than now
\* (transfer-upgrade-authority.ts, sendTxWithTimelock).
TLTypeOK ==
    /\ now \in Nat
    /\ programs \in [Programs -> [authority : Operators \cup {vault}, code : Nat]]
    /\ DOMAIN buffers \subseteq Buffers
    /\ buffers \in [DOMAIN buffers -> [owner : Operators \cup {vault}, code : Nat]]
    /\ timelock \in [member : MemberKinds, time_lock : Nat, transaction_index : Nat]
    /\ DOMAIN proposals \subseteq 1 .. timelock.transaction_index
    /\ \A i \in DOMAIN proposals :
         proposals[i] \in [change : Changes, status : {"approved", "executed"}, since : 0 .. now]
    /\ signer_index \in Nat
    /\ announced \subseteq [index : Nat, change : Changes]
    /\ raced \in BOOLEAN /\ drops \in Nat

\* What the scripts build is a gate before every program of the vault: each
\* change of one was announced, stood for the configured delay, happens at most
\* once and not after it was cancelled, whatever scripts overlap and in
\* whatever order their transactions land (sendTxWithTimelock, deployTimelock,
\* execute-upgrade-program.ts, cancel-transaction.ts).
ApprovedOnes == {i \in DOMAIN proposals : proposals[i].status = "approved"}

Gate == INSTANCE UpgradeGate WITH
    next <- timelock.transaction_index,
    standing <- [i \in ApprovedOnes |->
                   [change |-> proposals[i].change, since |-> proposals[i].since]]

GateSpec == Gate!GateSpec

\* The number an operator is told names the operator's own change or none, so
\* that nobody executes or cancels somebody else's, provided that no script is
\* started while a transaction is pending (propose-upgrade-program.ts,
\* transfer-upgrade-authority.ts).
AnnouncedIsOwn ==
    ~raced => \A a \in announced :
        a.index \in DOMAIN proposals => proposals[a.index].change = a.change

\* An approved upgrade is done or cancelled in the end, or it has lost what it
\* needs: the program left the vault, or its buffer is not the vault's.
UpgradesSettled ==
    \A i \in 1 .. MaxIndex :
        (Approved(i) /\ IsUpgrade(proposals[i].change))
          ~> (~Approved(i) \/ ~Possible(proposals[i].change))
===============================================================================
