----------------------------- MODULE UpgradeGate -----------------------------
(***************************************************************************)
(* What a timelock over the programs' upgrade authority promises.  A       *)
(* change of a program that is under the vault is announced, stands for at *)
(* least Delay, and then happens once, or is withdrawn and never happens.  *)
(* Outside the vault the program is its owner's.                           *)
(***************************************************************************)
EXTENDS Naturals

CONSTANTS
    vault,      \* the upgrade authority the timelock acts with
    Operators,  \* the other keys that own programs and buffers
    Programs, Buffers,
    Delay       \* how long a change stands before it may happen

VARIABLES
    now,       \* the chain's clock
    programs,  \* program -> [authority, code]
    buffers,   \* buffer -> [owner, code]; a buffer that was used is gone
    next,      \* changes announced so far
    standing   \* number -> [change, since]: announced, neither done nor withdrawn

gateVars == <<now, programs, buffers, next, standing>>

\* The two kinds of changes: new code from a buffer, or another authority.
Changes == [kind : {"upgrade"}, program : Programs, buffer : Buffers]
    \cup [kind : {"setAuthority"}, program : Programs, to : Operators]
IsUpgrade(change) == change.kind = "upgrade"

\* Whether the vault can make the change as things stand.
Possible(change) ==
    /\ programs[change.program].authority = vault
    /\ IsUpgrade(change) =>
         /\ change.buffer \in DOMAIN buffers
         /\ buffers[change.buffer].owner = vault

Happens(change) ==
    IF IsUpgrade(change)
    THEN /\ programs' = [programs EXCEPT ![change.program].code = buffers[change.buffer].code]
         /\ buffers' = [b \in DOMAIN buffers \ {change.buffer} |-> buffers[b]]
    ELSE /\ programs' = [programs EXCEPT ![change.program].authority = change.to]
         /\ UNCHANGED buffers

Without(i) == [j \in DOMAIN standing \ {i} |-> standing[j]]

Announce ==
    /\ next' = next + 1
    /\ \E change \in Changes :
         standing' = [j \in DOMAIN standing \cup {next'} |->
                        IF j = next' THEN [change |-> change, since |-> now] ELSE standing[j]]
    /\ UNCHANGED <<now, programs, buffers>>

Enact(i) ==
    /\ i \in DOMAIN standing
    /\ standing[i].since + Delay <= now
    /\ Possible(standing[i].change)
    /\ Happens(standing[i].change)
    /\ standing' = Without(i)
    /\ UNCHANGED <<now, next>>

Withdraw(i) ==
    /\ i \in DOMAIN standing
    /\ standing' = Without(i)
    /\ UNCHANGED <<now, programs, buffers, next>>

\* An owner hands its program over.
HandProgram ==
    /\ \E p \in DOMAIN programs, to \in Operators \cup {vault} :
         /\ programs[p].authority \in Operators
         /\ programs' = [programs EXCEPT ![p].authority = to]
    /\ UNCHANGED <<now, buffers, next, standing>>

\* A buffer is written and handed over by its owner; the vault writes none.
OwnBuffer ==
    /\ \E b \in DOMAIN buffers :
         /\ buffers[b].owner \in Operators
         /\ buffers'[b].owner \in Operators \cup {vault}
         /\ buffers' = [buffers EXCEPT ![b] = buffers'[b]]
    /\ UNCHANGED <<now, programs, next, standing>>

Later == now' = now + 1 /\ UNCHANGED <<programs, buffers, next, standing>>

GateNext ==
    \/ Announce
    \/ \E i \in DOMAIN standing : Enact(i) \/ Withdraw(i)
    \/ HandProgram \/ OwnBuffer \/ Later

GateInit == next = 0 /\ standing = << >>

GateSpec == GateInit /\ [][GateNext]_gateVars
===============================================================================
