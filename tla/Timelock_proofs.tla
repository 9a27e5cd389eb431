---------------------------- MODULE Timelock_proofs ----------------------------
(***************************************************************************)
(* Theorems about the timelock scripts: types, and that they build the     *)
(* gate of UpgradeGate, for any operators, programs, buffers and delay.    *)
(***************************************************************************)
EXTENDS Timelock, TLAPS

Owners == Operators \cup {vault}

\* What a transaction in flight may ask for: the change of a program, by one
\* of those who may own it.
TxOK(tx) ==
    /\ tx.op \in {"create", "execute", "cancel", "transfer"}
    /\ tx.op = "create" => tx.index \in Nat /\ tx.change \in Changes
    /\ tx.op \in {"execute", "cancel"} => tx.index \in Nat
    /\ tx.op # "transfer" => tx.outer \in Nat
    /\ tx.op = "transfer" => tx.program \in Programs /\ tx.from \in Operators /\ tx.to \in Owners

FlightOK == \A tx \in flight : TxOK(tx)

\* The delay in force is the configured one.
TLInv == TLTypeOK /\ FlightOK /\ timelock.time_lock = Delay

LEMMA InitInv == TLInit => TLInv
<1>. SUFFICES ASSUME TLInit PROVE TLInv OBVIOUS
<1>1. programs \in [Programs -> [authority : Operators \cup {vault}, code : Nat]]
  BY DEF TLInit
<1>2. DOMAIN buffers \subseteq Buffers
      /\ buffers \in [DOMAIN buffers -> [owner : Operators \cup {vault}, code : Nat]]
  BY DEF TLInit
<1>3. timelock \in [member : MemberKinds, time_lock : Nat, transaction_index : Nat]
      /\ timelock.time_lock = Delay
  BY DelayAssumption DEF TLInit, CreatedTimelock
<1>4. DOMAIN proposals = {} BY DEF TLInit
<1>. QED BY <1>1, <1>2, <1>3, <1>4 DEF TLInit, TLInv, TLTypeOK, FlightOK

LEMMA OuterIndex == ASSUME TLTypeOK PROVE Outer \in Nat
BY DEF TLTypeOK, Outer

\* A script that sends a well-formed transaction and announces only a change.
LEMMA SendKeeps ==
    ASSUME TLInv, NEW tx, TxOK(tx), Send(tx),
           announced' \subseteq announced \cup [index : Nat, change : Changes]
    PROVE TLInv'
<1>1. TLTypeOK'
  <2>1. raced' \in BOOLEAN BY DEF Send, TLInv, TLTypeOK
  <2>2. announced' \subseteq [index : Nat, change : Changes] BY DEF TLInv, TLTypeOK
  <2>. QED BY <2>1, <2>2 DEF TLInv, TLTypeOK, Send, chainVars
<1>2. FlightOK' BY DEF TLInv, FlightOK, Send, TxOK
<1>3. (timelock.time_lock = Delay)' BY DEF TLInv, Send, chainVars
<1>. QED BY <1>1, <1>2, <1>3 DEF TLInv

LEMMA CreateKeeps ==
    ASSUME TLInv, NEW change \in Changes, SendCreate(change)
    PROVE TLInv'
<1>. DEFINE tx == [op |-> "create", index |-> NextIndex, change |-> change, outer |-> Outer]
<1>1. NextIndex \in Nat BY DEF TLInv, TLTypeOK, NextIndex
<1>2. TxOK(tx) BY <1>1, OuterIndex DEF TxOK, TLInv
<1>3. Send(tx) BY DEF SendCreate
<1>4. announced' \subseteq announced \cup [index : Nat, change : Changes]
  BY <1>1 DEF SendCreate
<1>. QED BY <1>2, <1>3, <1>4, SendKeeps

LEMMA Unannounces == ASSUME Unannounced PROVE announced' \subseteq announced \cup [index : Nat, change : Changes]
BY DEF Unannounced

LEMMA ScriptKeeps == ASSUME TLInv, Scripts PROVE TLInv'
<1>1. ASSUME NEW p \in Programs, NEW b \in Buffers, ProposeUpgrade(p, b) PROVE TLInv'
  <2>1. Upgrade(p, b) \in Changes BY DEF Upgrade, Changes
  <2>. QED BY <1>1, <2>1, CreateKeeps DEF ProposeUpgrade
<1>2. ASSUME NEW payer \in Operators, NEW p \in Programs,
             NEW authority \in Operators \cup {vault, stranger, None},
             TransferUpgradeAuthority(payer, p, authority)
      PROVE TLInv'
  <2>. DEFINE current == programs[p].authority
              to == IF authority = None THEN vault ELSE authority
              tx == [op |-> "transfer", program |-> p, from |-> current, to |-> to, by |-> payer]
  <2>1. current \in Owners /\ current # to /\ to \in {vault, payer}
    BY <1>2 DEF TransferUpgradeAuthority, Targets, TLInv, TLTypeOK, Owners
  <2>2. CASE current = vault
    <3>1. to \in Operators BY <2>1, <2>2
    <3>2. SetAuthority(p, to) \in Changes BY <3>1 DEF SetAuthority, Changes
    <3>3. SendCreate(SetAuthority(p, to)) BY <1>2, <2>2 DEF TransferUpgradeAuthority
    <3>. QED BY <3>2, <3>3, CreateKeeps
  <2>3. CASE current # vault
    <3>1. TxOK(tx) BY <2>1, <2>3 DEF TxOK, Owners
    <3>2. Send(tx) /\ Unannounced BY <1>2, <2>3 DEF TransferUpgradeAuthority
    <3>. QED BY <3>1, <3>2, SendKeeps, Unannounces
  <2>. QED BY <2>2, <2>3
<1>3. ASSUME NEW i \in 1 .. MaxIndex, ExecuteUpgrade(i) PROVE TLInv'
  <2>1. TxOK([op |-> "execute", index |-> i, outer |-> Outer])
    BY OuterIndex, BoundsAssumption DEF TxOK, TLInv
  <2>. QED BY <1>3, <2>1, SendKeeps, Unannounces DEF ExecuteUpgrade
<1>4. ASSUME NEW i \in 1 .. MaxIndex, CancelTransaction(i) PROVE TLInv'
  <2>1. TxOK([op |-> "cancel", index |-> i, member |-> "wallet", outer |-> Outer])
    BY OuterIndex, BoundsAssumption DEF TxOK, TLInv
  <2>. QED BY <1>4, <2>1, SendKeeps, Unannounces DEF CancelTransaction
<1>. QED BY <1>1, <1>2, <1>3, <1>4 DEF Scripts

-----------------------------------------------------------------------------
\* A change that is made leaves the accounts well typed.
LEMMA HappensKeeps ==
    ASSUME TLInv, NEW change \in Changes, Possible(change), Happens(change)
    PROVE /\ programs' \in [Programs -> [authority : Owners, code : Nat]]
          /\ DOMAIN buffers' \subseteq Buffers
          /\ buffers' \in [DOMAIN buffers' -> [owner : Owners, code : Nat]]
<1>. USE DEF TLInv, TLTypeOK, Owners
<1>1. CASE IsUpgrade(change)
  <2>1. change.program \in Programs /\ change.buffer \in DOMAIN buffers
    BY <1>1 DEF Possible, IsUpgrade, Changes
  <2>2. buffers[change.buffer].code \in Nat BY <2>1
  <2>. QED BY <1>1, <2>1, <2>2 DEF Happens
<1>2. CASE ~IsUpgrade(change)
  <2>1. change.program \in Programs /\ change.to \in Operators BY <1>2 DEF IsUpgrade, Changes
  <2>. QED BY <1>2, <2>1 DEF Happens
<1>. QED BY <1>1, <1>2

\* The parts of the type invariant that an execution or a landing leaves alone.
LEMMA ExecuteKeeps ==
    ASSUME TLInv, NEW i, Executable(i), Execute(i),
           UNCHANGED <<now, announced, raced, drops>>, signer_index' \in Nat,
           flight' \subseteq flight
    PROVE TLInv'
<1>1. i \in DOMAIN proposals /\ proposals[i].change \in Changes
  BY DEF Executable, Approved, TLInv, TLTypeOK
<1>2. /\ programs' \in [Programs -> [authority : Owners, code : Nat]]
      /\ DOMAIN buffers' \subseteq Buffers
      /\ buffers' \in [DOMAIN buffers' -> [owner : Owners, code : Nat]]
  BY <1>1, HappensKeeps DEF Executable, Execute
<1>3. \A j \in DOMAIN proposals' :
        proposals'[j] \in [change : Changes, status : {"approved", "executed"}, since : 0 .. now']
  BY <1>1 DEF Execute, TLInv, TLTypeOK
<1>4. DOMAIN proposals' \subseteq 1 .. timelock'.transaction_index
  BY DEF Execute, TLInv, TLTypeOK
<1>5. FlightOK' BY DEF TLInv, FlightOK, TxOK
<1>. QED BY <1>2, <1>3, <1>4, <1>5 DEF TLInv, TLTypeOK, Execute, Owners

LEMMA LandKeeps == ASSUME TLInv, NEW tx \in flight, Land(tx) PROVE TLInv'
<1>1. TxOK(tx) /\ Accepted(tx) BY DEF TLInv, FlightOK, Land
<1>2. signer_index' \in Nat BY <1>1 DEF Land, TLInv, TLTypeOK, TxOK
<1>3. FlightOK' BY DEF Land, TLInv, FlightOK, TxOK
<1>4. CASE tx.op = "create" /\ Create(tx)
  <2>1. tx.index = timelock.transaction_index + 1 /\ tx.change \in Changes
    BY <1>1, <1>4 DEF Accepted, TxOK
  <2>2. timelock' = [timelock EXCEPT !.transaction_index = tx.index] BY <1>4 DEF Create
  <2>3. timelock' \in [member : MemberKinds, time_lock : Nat, transaction_index : Nat]
        /\ timelock'.time_lock = Delay /\ timelock'.transaction_index = tx.index
    BY <2>1, <2>2 DEF TLInv, TLTypeOK
  <2>4. DOMAIN proposals' \subseteq 1 .. timelock'.transaction_index
    BY <1>4, <2>1, <2>3 DEF Create, WithProposal, TLInv, TLTypeOK
  <2>5. now' = now /\ now \in Nat BY DEF Land, TLInv, TLTypeOK
  <2>6. \A j \in DOMAIN proposals' :
          proposals'[j] \in [change : Changes, status : {"approved", "executed"}, since : 0 .. now']
    BY <1>4, <2>1, <2>5 DEF Create, WithProposal, TLInv, TLTypeOK
  <2>. QED BY <1>2, <1>3, <1>4, <2>3, <2>4, <2>5, <2>6 DEF Land, Create, TLInv, TLTypeOK
<1>5. CASE tx.op = "execute" /\ Execute(tx.index)
  <2>1. Executable(tx.index) BY <1>1, <1>5 DEF Accepted
  <2>. QED BY <1>2, <1>5, <2>1, ExecuteKeeps DEF Land
<1>6. CASE tx.op = "cancel" /\ Cancel(tx.index)
  BY <1>2, <1>3, <1>6 DEF Land, Cancel, TLInv, TLTypeOK
<1>7. CASE tx.op = "transfer" /\ Transfer(tx)
  <2>1. tx.program \in Programs /\ tx.to \in Owners BY <1>1, <1>7 DEF TxOK
  <2>2. programs' \in [Programs -> [authority : Owners, code : Nat]]
    BY <1>7, <2>1 DEF Transfer, TLInv, TLTypeOK, Owners
  <2>. QED BY <1>2, <1>3, <1>7, <2>2 DEF Land, Transfer, TLInv, TLTypeOK, Owners
<1>. QED BY <1>4, <1>5, <1>6, <1>7 DEF Land

LEMMA ChainKeeps == ASSUME TLInv, Chain PROVE TLInv'
<1>1. ASSUME NEW tx \in flight, Land(tx) PROVE TLInv' BY <1>1, LandKeeps
<1>2. ASSUME NEW tx \in flight, Fail(tx) PROVE TLInv'
  BY <1>2 DEF Fail, chainVars, TLInv, TLTypeOK, FlightOK, TxOK
<1>3. ASSUME NEW tx \in flight, Refuse(tx) PROVE TLInv'
  BY <1>3 DEF Refuse, chainVars, TLInv, TLTypeOK, FlightOK, TxOK
<1>4. ASSUME NEW i \in 1 .. MaxIndex, ExecuteElsewhere(i) PROVE TLInv'
  <2>1. signer_index' \in Nat BY <1>4 DEF ExecuteElsewhere, TLInv, TLTypeOK
  <2>. QED BY <1>4, <2>1, ExecuteKeeps DEF ExecuteElsewhere
<1>5. ASSUME NEW b \in Buffers, WriteBuffer(b) PROVE TLInv'
  BY <1>5 DEF WriteBuffer, TLInv, TLTypeOK, FlightOK, TxOK
<1>6. ASSUME NEW b \in Buffers, HandBuffer(b) PROVE TLInv'
  BY <1>6 DEF HandBuffer, TLInv, TLTypeOK, FlightOK, TxOK
<1>7. ASSUME Tick PROVE TLInv'
  <2>1. now' \in Nat /\ 0 .. now \subseteq 0 .. now' BY <1>7 DEF Tick, TLInv, TLTypeOK
  <2>2. \A i \in DOMAIN proposals' :
          proposals'[i] \in [change : Changes, status : {"approved", "executed"}, since : 0 .. now']
    BY <1>7, <2>1 DEF Tick, TLInv, TLTypeOK
  <2>. QED BY <1>7, <2>1, <2>2 DEF Tick, TLInv, TLTypeOK, FlightOK, TxOK
<1>. QED BY <1>1, <1>2, <1>3, <1>4, <1>5, <1>6, <1>7 DEF Chain

LEMMA StepKeeps == TLInv /\ [TLNext]_tlVars => TLInv'
<1>. SUFFICES ASSUME TLInv, [TLNext]_tlVars PROVE TLInv' OBVIOUS
<1>1. CASE Scripts BY <1>1, ScriptKeeps
<1>2. CASE Chain BY <1>2, ChainKeeps
<1>3. CASE UNCHANGED tlVars
  BY <1>3 DEF tlVars, TLInv, TLTypeOK, FlightOK, TxOK
<1>. QED BY <1>1, <1>2, <1>3 DEF TLNext

\* Types of the timelock's accounts, of what scripts announce and of what the
\* upgrade authorities may become (transfer-upgrade-authority.ts:67).
THEOREM TimelockTypes == TLSpec => []TLTypeOK
<1>1. TLInv => TLTypeOK BY DEF TLInv
<1>. QED BY InitInv, StepKeeps, <1>1, PTL DEF TLSpec

-----------------------------------------------------------------------------
(* The refinement.                                                         *)

standing == [i \in ApprovedOnes |->
               [change |-> proposals[i].change, since |-> proposals[i].since]]

LEMMA InitMapped == TLInit => Gate!GateInit
BY DEF TLInit, Gate!GateInit, CreatedTimelock, ApprovedOnes

\* What a step that leaves chain and proposals alone shows of the gate: nothing.
LEMMA Invisible ==
    ASSUME UNCHANGED <<now, programs, buffers, timelock, proposals>>
    PROVE UNCHANGED Gate!gateVars
<1>1. ApprovedOnes' = ApprovedOnes BY DEF ApprovedOnes
<1>2. standing' = standing BY <1>1 DEF standing
<1>. QED BY <1>2 DEF Gate!gateVars, standing

\* An approved proposal that is executed is a standing change that is made.
LEMMA ExecuteMapped ==
    ASSUME TLInv, NEW i, Executable(i), Execute(i), UNCHANGED now
    PROVE Gate!GateNext
<1>. DEFINE S == standing
<1>1. i \in ApprovedOnes /\ i \in DOMAIN S
      /\ S[i].change = proposals[i].change /\ S[i].since = proposals[i].since
  BY DEF Executable, Approved, ApprovedOnes, standing
<1>2. ApprovedOnes' = ApprovedOnes \ {i}
  BY <1>1 DEF Execute, ApprovedOnes, TLInv, TLTypeOK
<1>3. \A j \in ApprovedOnes' : proposals'[j] = proposals[j]
  BY <1>2 DEF Execute, ApprovedOnes
<1>4. standing' = [j \in DOMAIN S \ {i} |-> S[j]]
  BY <1>2, <1>3 DEF standing
<1>5. S[i].since + Delay <= now BY <1>1 DEF Executable, Matured, TLInv
<1>6. Gate!Possible(S[i].change)
  BY <1>1 DEF Executable, Possible, Gate!Possible, IsUpgrade, Gate!IsUpgrade
<1>7. Gate!Happens(S[i].change)
  BY <1>1 DEF Execute, Happens, Gate!Happens, IsUpgrade, Gate!IsUpgrade
<1>8. Gate!Enact(i)
  BY <1>1, <1>4, <1>5, <1>6, <1>7 DEF Gate!Enact, Gate!Without, standing, Execute
<1>. QED BY <1>1, <1>8 DEF Gate!GateNext, standing

LEMMA CreateMapped ==
    ASSUME TLInv, NEW tx \in flight, tx.op = "create", Accepted(tx), Create(tx), UNCHANGED now
    PROVE Gate!GateNext
<1>. DEFINE n == timelock.transaction_index
            c == [change |-> tx.change, since |-> now]
<1>1. tx.index = n + 1 /\ tx.change \in Changes /\ n \in Nat
  BY DEF Accepted, TLInv, FlightOK, TxOK, TLTypeOK
<1>2. timelock'.transaction_index = n + 1
  BY <1>1 DEF Create, TLInv, TLTypeOK
<1>3. n + 1 \notin DOMAIN proposals BY <1>1 DEF TLInv, TLTypeOK
<1>4. /\ DOMAIN proposals' = DOMAIN proposals \cup {n + 1}
      /\ proposals'[n + 1] = [change |-> tx.change, status |-> "approved", since |-> now]
      /\ \A j \in DOMAIN proposals : proposals'[j] = proposals[j]
  BY <1>1, <1>3 DEF Create, WithProposal
<1>5. ApprovedOnes' = ApprovedOnes \cup {n + 1} /\ n + 1 \notin ApprovedOnes
  BY <1>3, <1>4 DEF ApprovedOnes
<1>6. standing' = [j \in ApprovedOnes \cup {n + 1} |-> IF j = n + 1 THEN c ELSE standing[j]]
  BY <1>4, <1>5 DEF standing, ApprovedOnes
<1>7. tx.change \in Gate!Changes BY <1>1 DEF Changes, Gate!Changes
<1>8. DOMAIN standing = ApprovedOnes BY DEF standing
<1>9. \E change \in Gate!Changes :
        standing' = [j \in DOMAIN standing \cup {timelock.transaction_index'} |->
                       IF j = timelock.transaction_index'
                       THEN [change |-> change, since |-> now] ELSE standing[j]]
  BY <1>2, <1>6, <1>7, <1>8
<1>10. UNCHANGED <<now, programs, buffers>> BY DEF Create
<1>11. Gate!Announce
  BY <1>2, <1>9, <1>10 DEF Gate!Announce, standing
<1>. QED BY <1>11 DEF Gate!GateNext

LEMMA CancelMapped ==
    ASSUME TLInv, NEW i, Approved(i), Cancel(i), UNCHANGED now
    PROVE Gate!GateNext
<1>1. i \in ApprovedOnes BY DEF Approved, ApprovedOnes
<1>2. ApprovedOnes' = ApprovedOnes \ {i} /\ \A j \in ApprovedOnes' : proposals'[j] = proposals[j]
  BY DEF Cancel, ApprovedOnes
<1>3. standing' = [j \in DOMAIN standing \ {i} |-> standing[j]]
  BY <1>2 DEF standing
<1>4. Gate!Withdraw(i)
  BY <1>1, <1>3 DEF Gate!Withdraw, Gate!Without, Cancel, standing
<1>. QED BY <1>1, <1>4 DEF Gate!GateNext, standing

\* What leaves timelock and proposals alone leaves the standing changes.
LEMMA Standing ==
    ASSUME UNCHANGED <<timelock, proposals>>
    PROVE UNCHANGED <<timelock.transaction_index, standing>>
BY DEF standing, ApprovedOnes

LEMMA TransferMapped ==
    ASSUME TLInv, NEW tx \in flight, tx.op = "transfer", Accepted(tx), Transfer(tx), UNCHANGED now
    PROVE Gate!GateNext
<1>1. /\ tx.program \in Programs /\ tx.from \in Operators /\ tx.to \in Operators \cup {vault}
      /\ programs[tx.program].authority = tx.from
  BY DEF TLInv, FlightOK, TxOK, Owners, Accepted
<1>2. tx.program \in DOMAIN programs BY <1>1 DEF TLInv, TLTypeOK
<1>3. Gate!HandProgram
  BY <1>1, <1>2, Standing DEF Gate!HandProgram, Transfer, standing
<1>. QED BY <1>3 DEF Gate!GateNext

LEMMA LandMapped ==
    ASSUME TLInv, NEW tx \in flight, Land(tx)
    PROVE Gate!GateNext
<1>1. Accepted(tx) /\ UNCHANGED now BY DEF Land
<1>2. CASE tx.op = "create" /\ Create(tx) BY <1>1, <1>2, CreateMapped
<1>3. CASE tx.op = "execute" /\ Execute(tx.index)
  BY <1>1, <1>3, ExecuteMapped DEF Accepted
<1>4. CASE tx.op = "cancel" /\ Cancel(tx.index)
  BY <1>1, <1>4, CancelMapped DEF Accepted
<1>5. CASE tx.op = "transfer" /\ Transfer(tx) BY <1>1, <1>5, TransferMapped
<1>. QED BY <1>2, <1>3, <1>4, <1>5 DEF Land

\* A script's step shows nothing of the gate.
LEMMA ScriptInvisible == ASSUME Scripts PROVE UNCHANGED <<now, programs, buffers, timelock, proposals>>
BY DEF Scripts, ProposeUpgrade, TransferUpgradeAuthority, ExecuteUpgrade, CancelTransaction,
       SendCreate, Send, chainVars

LEMMA BufferMapped ==
    ASSUME TLInv, NEW b \in Buffers, WriteBuffer(b) \/ HandBuffer(b)
    PROVE Gate!GateNext
<1>1. /\ b \in DOMAIN buffers /\ buffers[b].owner \in Operators
      /\ UNCHANGED <<now, programs, timelock, proposals>>
  BY DEF WriteBuffer, HandBuffer
<1>2. /\ buffers' = [buffers EXCEPT ![b] = buffers'[b]]
      /\ buffers'[b].owner \in Operators \cup {vault}
  BY <1>1 DEF WriteBuffer, HandBuffer, TLInv, TLTypeOK
<1>3. Gate!OwnBuffer BY <1>1, <1>2, Standing DEF Gate!OwnBuffer, standing
<1>. QED BY <1>3 DEF Gate!GateNext

LEMMA StepMapped == TLInv /\ [TLNext]_tlVars => [Gate!GateNext]_Gate!gateVars
<1>. SUFFICES ASSUME TLInv, [TLNext]_tlVars PROVE Gate!GateNext \/ UNCHANGED Gate!gateVars
  OBVIOUS
<1>1. CASE Scripts BY <1>1, ScriptInvisible, Invisible
<1>2. ASSUME NEW tx \in flight, Land(tx) PROVE Gate!GateNext BY <1>2, LandMapped
<1>3. ASSUME NEW tx \in flight, Fail(tx) \/ Refuse(tx) PROVE UNCHANGED Gate!gateVars
  BY <1>3, Invisible DEF Fail, Refuse, chainVars
<1>4. ASSUME NEW i \in 1 .. MaxIndex, ExecuteElsewhere(i) PROVE Gate!GateNext
  BY <1>4, ExecuteMapped DEF ExecuteElsewhere
<1>5. ASSUME NEW b \in Buffers, WriteBuffer(b) \/ HandBuffer(b) PROVE Gate!GateNext
  BY <1>5, BufferMapped
<1>6. CASE Tick
  <2>1. Gate!Later BY <1>6, Standing DEF Tick, Gate!Later, standing
  <2>. QED BY <2>1 DEF Gate!GateNext
<1>7. CASE UNCHANGED tlVars BY <1>7, Invisible DEF tlVars
<1>. QED BY <1>1, <1>2, <1>3, <1>4, <1>5, <1>6, <1>7 DEF TLNext, Chain

\* The scripts implement the gate: whatever scripts overlap and in whatever
\* order their transactions land, an upgrade of a program under the vault was
\* announced, stood for the delay and happens once, unless it was withdrawn.
THEOREM GateImplemented == TLSpec => GateSpec
<1>1. TLSpec => []TLInv BY InitInv, StepKeeps, PTL DEF TLSpec
<1>. QED BY <1>1, InitMapped, StepMapped, PTL DEF TLSpec, GateSpec, Gate!GateSpec

-----------------------------------------------------------------------------
(* What operators are told.  As long as no script was started beside       *)
(* another transaction, at most one is in flight and it names the numbers  *)
(* that come next; an announced number is not given out to another change, *)
(* for the only failures left are those that every later transaction meets *)
(* as well: the bounds of the model.                                       *)

Full == timelock.transaction_index + 1 > MaxIndex \/ now + Delay > MaxTime

Underway(a) == \E tx \in flight : tx.op = "create" /\ tx.index = a.index /\ tx.change = a.change

AnnouncedOK ==
    \A a \in announced :
        /\ a.index <= timelock.transaction_index + 1
        /\ a.index = timelock.transaction_index + 1 => Underway(a) \/ Full
        /\ a.index \in DOMAIN proposals => proposals[a.index].change = a.change

NumbersNext ==
    \A tx \in flight :
        /\ tx.op = "create" => tx.index = timelock.transaction_index + 1
        /\ InTurn(tx)

Alone == \A tx, other \in flight : tx = other

AnnInv == ~raced => AnnouncedOK /\ NumbersNext /\ Alone

LEMMA InitAnn == TLInit => AnnInv
BY DEF TLInit, AnnInv, AnnouncedOK, NumbersNext, Alone

\* A script that is started while nothing is in flight.
LEMMA SendAlone ==
    ASSUME TLInv, AnnInv, NEW tx, Send(tx), InTurn(tx),
           tx.op = "create" => tx.index = NextIndex,
           \A a \in announced' : a \in announced
             \/ (tx.op = "create" /\ a.index = tx.index /\ a.change = tx.change)
    PROVE AnnInv'
<1>. SUFFICES ASSUME ~raced' PROVE AnnouncedOK' /\ NumbersNext' /\ Alone'
  BY DEF AnnInv
<1>1. ~raced /\ flight = {} /\ flight' = {tx} /\ UNCHANGED chainVars BY DEF Send
<1>2. AnnouncedOK BY <1>1 DEF AnnInv
<1>3. timelock.transaction_index \in Nat BY DEF TLInv, TLTypeOK
<1>4. DOMAIN proposals \subseteq 1 .. timelock.transaction_index BY DEF TLInv, TLTypeOK
<1>5. ASSUME NEW a \in announced'
      PROVE /\ a.index <= timelock.transaction_index + 1
            /\ a.index = timelock.transaction_index + 1 => Underway(a)' \/ Full
            /\ a.index \in DOMAIN proposals => proposals[a.index].change = a.change
  <2>1. CASE a \in announced
    <3>1. ~Underway(a) BY <1>1 DEF Underway
    <3>. QED BY <1>2, <2>1, <3>1 DEF AnnouncedOK
  <2>2. CASE tx.op = "create" /\ a.index = tx.index /\ a.change = tx.change
    <3>1. a.index = timelock.transaction_index + 1 BY <2>2 DEF NextIndex
    <3>2. Underway(a)' BY <1>1, <2>2 DEF Underway
    <3>3. a.index \notin DOMAIN proposals BY <1>3, <1>4, <3>1
    <3>. QED BY <1>3, <3>1, <3>2, <3>3
  <2>. QED BY <1>5, <2>1, <2>2
<1>6. AnnouncedOK' BY <1>1, <1>5 DEF AnnouncedOK, chainVars, Full
<1>7. NumbersNext' BY <1>1 DEF NumbersNext, chainVars, InTurn, Wrapped, NextIndex
<1>8. Alone' BY <1>1 DEF Alone
<1>. QED BY <1>6, <1>7, <1>8

LEMMA UnannouncedAlone ==
    ASSUME TLInv, AnnInv, NEW tx, Send(tx), Unannounced, tx.op # "create", InTurn(tx)
    PROVE AnnInv'
<1>1. \A a \in announced' : a \in announced BY DEF Unannounced
<1>. QED BY <1>1, SendAlone

LEMMA CreateAlone ==
    ASSUME TLInv, AnnInv, NEW change, SendCreate(change)
    PROVE AnnInv'
<1>. DEFINE tx == [op |-> "create", index |-> NextIndex, change |-> change, outer |-> Outer]
<1>1. InTurn(tx) BY DEF InTurn, Outer
<1>2. \A a \in announced' : a \in announced
        \/ (tx.op = "create" /\ a.index = tx.index /\ a.change = tx.change)
  BY DEF SendCreate
<1>3. Send(tx) /\ tx.index = NextIndex BY DEF SendCreate
<1>. HIDE DEF tx
<1>. QED BY <1>1, <1>2, <1>3, SendAlone

LEMMA ScriptAlone == ASSUME TLInv, AnnInv, Scripts PROVE AnnInv'
<1>1. ASSUME NEW p \in Programs, NEW b \in Buffers, ProposeUpgrade(p, b) PROVE AnnInv'
  BY <1>1, CreateAlone DEF ProposeUpgrade
<1>2. ASSUME NEW payer \in Operators, NEW p \in Programs,
             NEW authority \in Operators \cup {vault, stranger, None},
             TransferUpgradeAuthority(payer, p, authority)
      PROVE AnnInv'
  <2>. DEFINE to == IF authority = None THEN vault ELSE authority
              tx == [op |-> "transfer", program |-> p, from |-> programs[p].authority,
                     to |-> to, by |-> payer]
  <2>1. CASE SendCreate(SetAuthority(p, to)) BY <2>1, CreateAlone
  <2>2. CASE Send(tx) /\ Unannounced
    <3>1. InTurn(tx) /\ tx.op # "create" BY DEF InTurn
    <3>. HIDE DEF tx
    <3>. QED BY <2>2, <3>1, UnannouncedAlone
  <2>. QED BY <1>2, <2>1, <2>2 DEF TransferUpgradeAuthority
<1>3. ASSUME NEW i \in 1 .. MaxIndex, ExecuteUpgrade(i) PROVE AnnInv'
  <2>1. InTurn([op |-> "execute", index |-> i, outer |-> Outer]) BY DEF InTurn, Outer
  <2>. QED BY <1>3, <2>1, UnannouncedAlone DEF ExecuteUpgrade
<1>4. ASSUME NEW i \in 1 .. MaxIndex, CancelTransaction(i) PROVE AnnInv'
  <2>1. InTurn([op |-> "cancel", index |-> i, member |-> "wallet", outer |-> Outer])
    BY DEF InTurn, Outer
  <2>. QED BY <1>4, <2>1, UnannouncedAlone DEF CancelTransaction
<1>. QED BY <1>1, <1>2, <1>3, <1>4 DEF Scripts

\* The only transaction in flight, settled without a word to anybody.
LEMMA SettledAlone ==
    ASSUME AnnInv, NEW tx \in flight, flight' = flight \ {tx},
           UNCHANGED <<announced, raced>>, AnnouncedOK => AnnouncedOK'
    PROVE AnnInv'
<1>. SUFFICES ASSUME ~raced PROVE AnnouncedOK' /\ NumbersNext' /\ Alone'
  BY DEF AnnInv
<1>1. AnnouncedOK /\ Alone BY DEF AnnInv
<1>2. flight' = {} BY <1>1 DEF Alone
<1>. QED BY <1>1, <1>2 DEF NumbersNext, Alone

LEMMA LandAlone == ASSUME TLInv, AnnInv, NEW tx \in flight, Land(tx) PROVE AnnInv'
<1>. SUFFICES ASSUME ~raced, AnnouncedOK PROVE AnnouncedOK'
  BY SettledAlone DEF Land, AnnInv
<1>1. Accepted(tx) /\ UNCHANGED <<now, announced, raced>> BY DEF Land
<1>2. \A other \in flight : other = tx BY DEF AnnInv, Alone
<1>3. timelock.transaction_index \in Nat BY DEF TLInv, TLTypeOK
<1>4. DOMAIN proposals \subseteq 1 .. timelock.transaction_index BY DEF TLInv, TLTypeOK
<1>5. \A a \in announced : a.index \in Nat BY DEF TLInv, TLTypeOK
<1>6. timelock.transaction_index + 1 \notin DOMAIN proposals BY <1>3, <1>4
<1>7. CASE tx.op = "create" /\ Create(tx)
  <2>1. /\ tx.index = timelock.transaction_index + 1 /\ ~Full
    <3>1. MaxIndex \in Nat /\ MaxTime \in Nat /\ Delay \in Nat /\ now \in Nat
      BY BoundsAssumption, DelayAssumption DEF TLInv, TLTypeOK
    <3>. QED BY <1>1, <1>3, <1>7, <3>1 DEF Accepted, Full
  <2>2. timelock' = [timelock EXCEPT !.transaction_index = tx.index] BY <1>7 DEF Create
  <2>3. timelock'.transaction_index = tx.index BY <2>2 DEF TLInv, TLTypeOK
  <2>4. proposals' = WithProposal(tx.index,
                       [change |-> tx.change, status |-> "approved", since |-> now])
    BY <1>7 DEF Create
  <2>5. /\ DOMAIN proposals' = DOMAIN proposals \cup {tx.index}
        /\ \A j \in DOMAIN proposals :
             j # tx.index => proposals'[j] = proposals[j]
        /\ proposals'[tx.index].change = tx.change
    BY <2>4 DEF WithProposal
  <2>6. ASSUME NEW a \in announced
        PROVE /\ a.index <= tx.index
              /\ a.index \in DOMAIN proposals' => proposals'[a.index].change = a.change
    <3>1. a.index <= tx.index BY <2>1 DEF AnnouncedOK
    <3>2. CASE a.index = tx.index
      <4>1. Underway(a) BY <2>1, <3>2 DEF AnnouncedOK
      <4>2. tx.change = a.change BY <1>2, <4>1 DEF Underway
      <4>. QED BY <2>5, <3>1, <3>2, <4>2
    <3>3. CASE a.index # tx.index
      BY <2>5, <3>1, <3>3 DEF AnnouncedOK
    <3>. QED BY <3>2, <3>3
  <2>. QED BY <1>1, <1>3, <1>5, <2>1, <2>3, <2>6 DEF AnnouncedOK
<1>8. ASSUME tx.op # "create", timelock' = timelock, DOMAIN proposals' \subseteq DOMAIN proposals,
             \A j \in DOMAIN proposals' : proposals'[j].change = proposals[j].change
      PROVE AnnouncedOK'
  <2>1. \A a \in announced : ~Underway(a) BY <1>2, <1>8 DEF Underway
  <2>. QED BY <1>1, <1>8, <2>1 DEF AnnouncedOK, Full
<1>9. CASE tx.op = "execute" /\ Execute(tx.index)
  <2>1. DOMAIN proposals' = DOMAIN proposals
        /\ \A j \in DOMAIN proposals' : proposals'[j].change = proposals[j].change
    BY <1>9 DEF Execute, TLInv, TLTypeOK
  <2>. QED BY <1>8, <1>9, <2>1 DEF Execute
<1>10. CASE tx.op = "cancel" /\ Cancel(tx.index) BY <1>8, <1>10 DEF Cancel
<1>11. CASE tx.op = "transfer" /\ Transfer(tx) BY <1>8, <1>11 DEF Transfer
<1>. QED BY <1>7, <1>9, <1>10, <1>11 DEF Land

\* Only the bounds make the transaction fail that was sent alone, and they
\* stay in the way.
LEMMA FailAlone == ASSUME TLInv, AnnInv, NEW tx \in flight, Fail(tx) PROVE AnnInv'
<1>. SUFFICES ASSUME ~raced, AnnouncedOK PROVE AnnouncedOK'
  BY SettledAlone DEF Fail, AnnInv
<1>1. UNCHANGED chainVars /\ UNCHANGED <<announced, raced>> BY DEF Fail
<1>2. \A other \in flight : other = tx BY DEF AnnInv, Alone
<1>3. NumbersNext BY DEF AnnInv
<1>4. ASSUME NEW a \in announced, a.index = timelock.transaction_index + 1 PROVE Full
  <2>1. CASE Underway(a)
    <3>1. tx.op = "create" BY <1>2, <2>1 DEF Underway
    <3>2. MaxIndex \in Nat /\ MaxTime \in Nat /\ Delay \in Nat /\ now \in Nat
          /\ timelock.transaction_index \in Nat
      BY BoundsAssumption, DelayAssumption DEF TLInv, TLTypeOK
    <3>. QED BY <1>3, <3>1, <3>2 DEF Fail, Accepted, NumbersNext, Full
  <2>. QED BY <1>4, <2>1 DEF AnnouncedOK
<1>. QED BY <1>1, <1>4 DEF AnnouncedOK, Full, chainVars

\* Nothing else gives numbers out, and the clock does not run backwards.
LEMMA QuietAlone ==
    ASSUME AnnInv, UNCHANGED <<timelock, signer_index, flight, announced, raced>>,
           Full => Full', DOMAIN proposals' = DOMAIN proposals,
           \A j \in DOMAIN proposals : proposals'[j].change = proposals[j].change
    PROVE AnnInv'
<1>1. AnnouncedOK => AnnouncedOK' BY DEF AnnouncedOK, Underway
<1>2. NumbersNext => NumbersNext' BY DEF NumbersNext, InTurn, Wrapped
<1>. QED BY <1>1, <1>2 DEF AnnInv, Alone

LEMMA ChainAlone == ASSUME TLInv, AnnInv, Chain PROVE AnnInv'
<1>1. ASSUME NEW tx \in flight, Land(tx) PROVE AnnInv' BY <1>1, LandAlone
<1>2. ASSUME NEW tx \in flight, Fail(tx) PROVE AnnInv' BY <1>2, FailAlone
<1>3. ASSUME NEW tx \in flight, Refuse(tx) PROVE AnnInv' BY <1>3 DEF Refuse, AnnInv
<1>4. ASSUME NEW i \in 1 .. MaxIndex, ExecuteElsewhere(i) PROVE AnnInv'
  <2>1. DOMAIN proposals' = DOMAIN proposals
        /\ \A j \in DOMAIN proposals : proposals'[j].change = proposals[j].change
    BY <1>4 DEF ExecuteElsewhere, Execute, TLInv, TLTypeOK
  <2>. QED BY <1>4, <2>1, QuietAlone DEF ExecuteElsewhere, Execute, Full
<1>5. ASSUME NEW b \in Buffers, WriteBuffer(b) PROVE AnnInv'
  BY <1>5, QuietAlone DEF WriteBuffer, Full
<1>6. ASSUME NEW b \in Buffers, HandBuffer(b) PROVE AnnInv'
  BY <1>6, QuietAlone DEF HandBuffer, Full
<1>7. ASSUME Tick PROVE AnnInv'
  <2>1. Full => Full'
    BY <1>7, BoundsAssumption, DelayAssumption DEF Tick, Full, TLInv, TLTypeOK
  <2>. QED BY <1>7, <2>1, QuietAlone DEF Tick
<1>. QED BY <1>1, <1>2, <1>3, <1>4, <1>5, <1>6, <1>7 DEF Chain

LEMMA StepAnn == TLInv /\ AnnInv /\ [TLNext]_tlVars => AnnInv'
<1>. SUFFICES ASSUME TLInv, AnnInv, [TLNext]_tlVars PROVE AnnInv' OBVIOUS
<1>1. CASE Scripts BY <1>1, ScriptAlone
<1>2. CASE Chain BY <1>2, ChainAlone
<1>3. CASE UNCHANGED tlVars BY <1>3, QuietAlone DEF tlVars, Full
<1>. QED BY <1>1, <1>2, <1>3 DEF TLNext

\* The number a script prints is that of the operator's own change or of none,
\* for any number of operators, programs and buffers, while no script is
\* started beside a pending transaction (sendTxWithTimelock).
THEOREM OwnNumberAnnounced == TLSpec => []AnnouncedIsOwn
<1>1. AnnInv => AnnouncedIsOwn BY DEF AnnInv, AnnouncedOK, AnnouncedIsOwn
<1>2. TLInv /\ AnnInv /\ [TLNext]_tlVars => (TLInv /\ AnnInv)' BY StepKeeps, StepAnn
<1>. QED BY InitInv, InitAnn, <1>1, <1>2, PTL DEF TLSpec
===============================================================================
