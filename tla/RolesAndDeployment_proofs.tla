----------------------- MODULE RolesAndDeployment_proofs -----------------------
(***************************************************************************)
(* The deployment of an mToken and of a network, and the audit of roles.   *)
(***************************************************************************)
EXTENDS RoleAudit, NetworkDeployment, AccessControl_proofs, FiniteSetTheorems, SequenceTheorems

-----------------------------------------------------------------------------
(* Sequences of the elements of a finite set.                              *)

\* Every element of S is in SetToSeq(S), and nothing else.
LEMMA SetToSeqFacts ==
    ASSUME NEW S, IsFiniteSet(S)
    PROVE  /\ SetToSeq(S) \in Seq(S)
           /\ \A x \in S : \E n \in DOMAIN SetToSeq(S) : SetToSeq(S)[n] = x
<1> DEFINE D == 1 .. Cardinality(S)
<1>1. Cardinality(S) \in Nat /\ \E f \in [D -> S] : IsInjective(f)
  BY FS_CardinalityType DEF ExistsBijection, Bijection, Injection
<1>2. SetToSeq(S) \in [D -> S] /\ IsInjective(SetToSeq(S))
  BY <1>1 DEF SetToSeq
<1>3. SetToSeq(S) \in Injection(D, S)
  BY <1>2 DEF Injection
<1>4. Cardinality(D) = Cardinality(S)
  BY <1>1, FS_Interval
<1>5. SetToSeq(S) \in Surjection(D, S)
  BY <1>3, <1>4, FS_Injection
<1> HIDE DEF D
<1>6. \A x \in S : \E n \in DOMAIN SetToSeq(S) : SetToSeq(S)[n] = x
  BY <1>2, <1>5 DEF Surjection
<1>7. SetToSeq(S) \in Seq(S)
  BY <1>1, <1>2 DEF D
<1> QED
  BY <1>6, <1>7

-----------------------------------------------------------------------------
(* The audit.                                                              *)

\* The part of network n, m of whose mints have been done, that p is over.
OverMint(p, n, m) == \E j \in 1 .. m : p[1] = ListedMints[n][j] /\ p[1] \notin unread
Over(p, n) == p[1] \in ListedRoles[n] \cup (ToSet(ListedMints[n]) \ unread)

\* This network, as far as it was read: whatever a target has had all along has
\* been seen, role by role and mint by mint.
NetworkInv ==
    /\ Len(results) =< Len(PdaEntries)
    /\ \A n \in DOMAIN results : Triple(PdaEntries[n]) \in steady => results[n]
    /\ mints_read =< Len(ListedMints[Network])
    /\ ~RolesRead => mints_read = 0
    /\ \A p \in steady : OverMint(p, Network, mints_read) => p \in mint_hits

\* The networks before it.
DoneInv ==
    \A m \in 1 .. current - 1 :
        m =< Len(Networks) /\ Networks[m] \notin failed =>
            \A p \in steady : Over(p, Networks[m]) => p \in hits

AuditInv ==
    /\ ACInv
    /\ (DOMAIN authorities) \cap AcRoles = {}
    /\ steady \subseteq Powers(roles, authorities)
    /\ current \in Nat \ {0} /\ mints_read \in Nat
    /\ results \in Seq(BOOLEAN)
    /\ current =< Len(Networks) => NetworkInv
    /\ DoneInv
    /\ exit # NoExit => current > Len(Networks) /\ exit = ExitCode

\* The role accounts of a network are all among the entries.
LEMMA EntriesFacts ==
    ASSUME NEW n \in ToSet(Networks)
    PROVE  LET entries == SetToSeq(Audited \X ListedRoles[n] \X RoleNames)
           IN  /\ entries \in Seq(Audited \X ListedRoles[n] \X RoleNames)
               /\ \A e \in Audited \X ListedRoles[n] \X RoleNames :
                      \E j \in DOMAIN entries : entries[j] = e
<1> DEFINE A == Audited
           B == ListedRoles[n]
           P == (A \X B) \X RoleNames
           T == A \X B \X RoleNames
           f == [x \in P |-> <<x[1][1], x[1][2], x[2]>>]
<1>2. IsFiniteSet(A) /\ IsFiniteSet(B) /\ IsFiniteSet(RoleNames)
  BY ListsAssumption
<1>3. IsFiniteSet(P)
  <2>1. IsFiniteSet(A \X B)
    BY <1>2, FS_Product
  <2> QED
    BY <1>2, <2>1, FS_Product
<1>4. f \in Surjection(P, T)
  <2>1. f \in [P -> T]
    OBVIOUS
  <2>2. ASSUME NEW y \in T PROVE \E x \in P : f[x] = y
    <3>1. <<<<y[1], y[2]>>, y[3]>> \in P
      OBVIOUS
    <3>2. f[<<<<y[1], y[2]>>, y[3]>>] = y
      BY <3>1
    <3> QED
      BY <3>1, <3>2
  <2> HIDE DEF f, P, T
  <2> QED
    BY <2>1, <2>2 DEF Surjection
<1>5. IsFiniteSet(T)
  <2> HIDE DEF f, P, T
  <2> QED
    BY <1>3, <1>4, FS_Surjection
<1> QED
  BY <1>5, SetToSeqFacts

LEMMA PdaFacts ==
    ASSUME current \in Nat \ {0}, current =< Len(Networks)
    PROVE  /\ Network \in ToSet(Networks)
           /\ PdaEntries \in Seq(Audited \X ListedRoles[Network] \X RoleNames)
           /\ \A e \in Audited \X ListedRoles[Network] \X RoleNames :
                  \E n \in DOMAIN PdaEntries : PdaEntries[n] = e
<1>1. Network \in ToSet(Networks)
  BY ListsAssumption DEF Network, ToSet
<1> QED
  BY <1>1, EntriesFacts DEF PdaEntries

\* A power over a listed ac_role is a role account, and among the entries.
LEMMA RolePowers ==
    ASSUME AuditInv, current =< Len(Networks),
           NEW p \in steady, p[1] \in ListedRoles[Network]
    PROVE  /\ p \in roles
           /\ \E n \in DOMAIN PdaEntries : Triple(PdaEntries[n]) = p
<1>1. Network \in ToSet(Networks)
  BY PdaFacts DEF AuditInv
<1>2. p[1] \in AcRoles
  BY <1>1, ListsAssumption
<1>3. p \in roles /\ p[2] \in Audited
  <2>1. p \in Powers(roles, authorities)
    BY DEF AuditInv
  <2>2. ASSUME NEW x \in (DOMAIN authorities) \X Types
        PROVE  p # <<x[1], authorities[x[1]][x[2]], x[2]>>
    BY <1>2 DEF AuditInv
  <2> QED
    BY <2>1, <2>2 DEF Powers
<1>4. p = <<p[1], p[2], p[3]>> /\ p[3] \in RoleNames
  BY <1>3 DEF AuditInv, ACInv, ACTypeOK
<1>5. <<p[2], p[1], p[3]>> \in Audited \X ListedRoles[Network] \X RoleNames
  BY <1>3, <1>4
<1>6. PICK n \in DOMAIN PdaEntries : PdaEntries[n] = <<p[2], p[1], p[3]>>
  BY <1>5, PdaFacts DEF AuditInv
<1>7. Triple(PdaEntries[n]) = p
  BY <1>4, <1>6 DEF Triple
<1> QED
  BY <1>3, <1>7

\* What others do to the chain leaves what was seen as it is.
LEMMA AuditEnvironment ==
    ASSUME AuditInv, UNCHANGED auditVars, steady' \subseteq steady
    PROVE  /\ current' =< Len(Networks) => NetworkInv'
           /\ DoneInv'
           /\ exit' # NoExit => current' > Len(Networks) /\ exit' = ExitCode'
<1>1. PdaEntries' = PdaEntries /\ Network' = Network
  BY DEF auditVars, PdaEntries, Network
<1>2. RolesRead' = RolesRead
  BY <1>1 DEF auditVars, RolesRead
<1>3. current' =< Len(Networks) => NetworkInv'
  BY <1>1, <1>2 DEF AuditInv, NetworkInv, auditVars, OverMint
<1>4. DoneInv'
  BY DEF AuditInv, DoneInv, auditVars, Over
<1> QED
  BY <1>3, <1>4 DEF AuditInv, auditVars, ExitCode

LEMMA ReadBatchInv ==
    ASSUME AuditInv, ReadBatch, UNCHANGED acVars, steady' \subseteq steady
    PROVE  NetworkInv' /\ DoneInv' /\ results' \in Seq(BOOLEAN) /\ exit' = NoExit
<1> DEFINE L == Len(results)
           last == IF L + BATCH_SIZE < Len(PdaEntries) THEN L + BATCH_SIZE ELSE Len(PdaEntries)
           batch == SubSeq(PdaEntries, L + 1, last)
           more == [n \in DOMAIN batch |-> Triple(batch[n]) \in roles]
           Entries == Audited \X ListedRoles[Network] \X RoleNames
<1>1. /\ current =< Len(Networks) /\ current \in Nat \ {0} /\ NetworkInv
      /\ L \in Nat /\ results \in Seq(BOOLEAN)
      /\ PdaEntries \in Seq(Entries) /\ Len(PdaEntries) \in Nat
      /\ DOMAIN PdaEntries = 1 .. Len(PdaEntries)
  BY PdaFacts DEF AuditInv, ReadBatch, Reading
<1>2. L < Len(PdaEntries) /\ mints_read = 0
  BY <1>1 DEF NetworkInv, ReadBatch, RolesRead
<1>3. last \in Nat /\ L < last /\ last =< Len(PdaEntries)
  BY <1>1, <1>2, BatchAssumption
<1>4. /\ batch \in Seq(Entries) /\ Len(batch) = last - L
      /\ \A n \in 1 .. last - L : batch[n] = PdaEntries[L + n]
  <2>1. \A n \in L + 1 .. last : PdaEntries[n] \in Entries
    BY <1>1, <1>3
  <2> HIDE DEF last, L, Entries
  <2> QED
    BY <1>1, <1>3, <2>1, SubSeqProperties
<1>5. /\ more \in Seq(BOOLEAN) /\ Len(more) = last - L
      /\ \A n \in 1 .. last - L : more[n] = (Triple(PdaEntries[L + n]) \in roles)
  <2> HIDE DEF last, L, Entries, batch
  <2>1. DOMAIN batch = 1 .. last - L
    BY <1>4
  <2>2. last - L \in Nat
    BY <1>1, <1>3
  <2>3. more \in [1 .. last - L -> BOOLEAN]
    BY <2>1
  <2>4. \A n \in 1 .. last - L : more[n] = (Triple(batch[n]) \in roles)
    BY <2>1
  <2> HIDE DEF more
  <2>5. more \in Seq(BOOLEAN) /\ Len(more) = last - L
    BY <2>2, <2>3
  <2> QED
    BY <1>4, <2>4, <2>5
<1>6. results' = results \o more
  BY DEF ReadBatch
<1> HIDE DEF more, batch, last
<1>7. /\ results' \in Seq(BOOLEAN) /\ Len(results') = last
      /\ DOMAIN results' = 1 .. last
      /\ \A n \in 1 .. last : results'[n] = IF n =< L THEN results[n] ELSE more[n - L]
  BY <1>1, <1>3, <1>5, <1>6, ConcatProperties
<1>8. PdaEntries' = PdaEntries /\ Network' = Network
  BY DEF ReadBatch, PdaEntries, Network
<1>9. ASSUME NEW n \in DOMAIN results', Triple(PdaEntries[n]) \in steady
      PROVE  results'[n]
  <2>1. CASE n =< L
    BY <1>1, <1>7, <1>9, <2>1 DEF NetworkInv
  <2>2. CASE n > L
    <3>1. n - L \in 1 .. last - L /\ L + (n - L) = n /\ n \in 1 .. Len(PdaEntries)
      BY <1>1, <1>3, <1>7, <2>2
    <3>2. results'[n] = (Triple(PdaEntries[n]) \in roles)
      BY <1>5, <1>7, <2>2, <3>1
    <3>3. PdaEntries[n] \in Entries
      BY <1>1, <3>1
    <3>4. Triple(PdaEntries[n])[1] \in ListedRoles[Network]
      BY <3>3 DEF Triple
    <3> QED
      BY <1>1, <1>9, <3>2, <3>4, RolePowers
  <2> QED
    BY <1>1, <1>3, <1>7, <2>1, <2>2
<1>10. NetworkInv'
  <2>1. mints_read' = 0 /\ Len(results') =< Len(PdaEntries)'
    BY <1>2, <1>3, <1>7, <1>8 DEF ReadBatch
  <2>2. \A n \in DOMAIN results' : Triple(PdaEntries'[n]) \in steady' => results'[n]
    BY <1>8, <1>9
  <2>3. 0 =< Len(ListedMints[Network])
    BY <1>1, <1>2 DEF NetworkInv
  <2>4. (\A p \in steady : OverMint(p, Network, mints_read) => p \in mint_hits)'
    BY <2>1 DEF OverMint
  <2> QED
    BY <1>8, <2>1, <2>2, <2>3, <2>4 DEF NetworkInv
<1>11. DoneInv'
  BY DEF AuditInv, ReadBatch, DoneInv, Over
<1> QED
  BY <1>7, <1>10, <1>11 DEF ReadBatch, Reading

\* The network that is left behind is covered, or failed; nothing is read of
\* the next one.
LEMMA NetworkFresh ==
    ASSUME AuditInv, current =< Len(Networks), current' = current + 1,
           results' = << >>, mints_read' = 0
    PROVE  current' =< Len(Networks) => NetworkInv'
<1> SUFFICES ASSUME current' =< Len(Networks) PROVE NetworkInv'
  OBVIOUS
<1>1. current' \in Nat \ {0}
  BY DEF AuditInv
<1>2. Network' \in ToSet(Networks) /\ Len(PdaEntries') \in Nat
  <2>1. Network' \in ToSet(Networks)
    BY <1>1, ListsAssumption DEF Network, ToSet
  <2>2. PdaEntries' \in Seq(Audited \X ListedRoles[Network'] \X RoleNames)
    BY <2>1, EntriesFacts DEF PdaEntries
  <2> QED
    BY <2>1, <2>2
<1>3. Len(ListedMints[Network']) \in Nat
  BY <1>2, ListsAssumption
<1> QED
  BY <1>2, <1>3 DEF NetworkInv, OverMint

LEMMA NetworkDoneInv ==
    ASSUME AuditInv, NetworkDone, steady' \subseteq steady
    PROVE  DoneInv'
<1>1. current =< Len(Networks) /\ NetworkInv /\ RolesRead /\ current \in Nat \ {0}
  BY DEF AuditInv, NetworkDone, Reading
<1>2. ASSUME NEW p \in steady, Over(p, Network)
      PROVE  p \in hits'
  <2>1. CASE p[1] \in ListedRoles[Network]
    <3>1. PICK n \in DOMAIN PdaEntries : Triple(PdaEntries[n]) = p
      BY <1>1, <2>1, RolePowers
    <3>2. DOMAIN results = DOMAIN PdaEntries
      BY <1>1, PdaFacts DEF AuditInv, RolesRead
    <3>3. p \in RoleHits
      BY <1>1, <3>1, <3>2 DEF NetworkInv, RoleHits
    <3> QED
      BY <3>3 DEF NetworkDone
  <2>2. CASE p[1] \in ToSet(ListedMints[Network]) \ unread
    <3>1. Network \in ToSet(Networks)
      BY <1>1, PdaFacts
    <3>2. PICK j \in 1 .. Len(ListedMints[Network]) : p[1] = ListedMints[Network][j]
      BY <2>2, <3>1, ListsAssumption DEF ToSet
    <3>3. OverMint(p, Network, mints_read)
      BY <2>2, <3>2 DEF OverMint, NetworkDone
    <3> QED
      BY <1>1, <3>3 DEF NetworkInv, NetworkDone
  <2> QED
    BY <1>2, <2>1, <2>2 DEF Over
<1>3. ASSUME NEW m \in 1 .. current, m =< Len(Networks), Networks[m] \notin failed,
             NEW p \in steady, Over(p, Networks[m])
      PROVE  p \in hits'
  <2>1. CASE m = current
    BY <1>2, <1>3, <2>1 DEF Network
  <2>2. CASE m # current
    BY <1>1, <1>3, <2>2 DEF AuditInv, DoneInv, NetworkDone
  <2> QED
    BY <2>1, <2>2
<1> QED
  BY <1>1, <1>3 DEF DoneInv, Over, NetworkDone

LEMMA NetworkFailsInv ==
    ASSUME AuditInv, NetworkFails, steady' \subseteq steady
    PROVE  DoneInv' /\ mints_read' = 0
<1>1. current =< Len(Networks) /\ current \in Nat \ {0} /\ mints_read = 0
  BY DEF AuditInv, NetworkFails, Reading, NetworkInv
<1>2. ASSUME NEW m \in 1 .. current, m =< Len(Networks), Networks[m] \notin failed',
             NEW p \in steady, Over(p, Networks[m])
      PROVE  p \in hits
  <2>1. m # current
    BY <1>2 DEF NetworkFails, Network
  <2> QED
    BY <1>1, <1>2, <2>1 DEF AuditInv, DoneInv, NetworkFails
<1> QED
  BY <1>1, <1>2 DEF DoneInv, Over, NetworkFails

LEMMA ReadMintInv ==
    ASSUME AuditInv, ReadMint, UNCHANGED <<acVars, authorities>>, steady' \subseteq steady
    PROVE  NetworkInv' /\ DoneInv' /\ mints_read' \in Nat
<1> DEFINE mint == ListedMints[Network][mints_read + 1]
<1>1. /\ current =< Len(Networks) /\ NetworkInv /\ current \in Nat \ {0}
      /\ mints_read \in Nat /\ RolesRead /\ mints_read < Len(ListedMints[Network])
      /\ mints_read' = mints_read + 1 /\ unread \subseteq unread'
  BY DEF AuditInv, ReadMint, Reading
<1>2. PdaEntries' = PdaEntries /\ Network' = Network /\ RolesRead' = RolesRead
  BY DEF ReadMint, PdaEntries, Network, RolesRead
<1>3. Network \in ToSet(Networks)
  BY <1>1, PdaFacts
<1>4. mint \in ToSet(ListedMints[Network]) /\ Len(ListedMints[Network]) \in Nat
  BY <1>1, <1>3, ListsAssumption DEF ToSet
<1>5. ASSUME NEW p \in steady, OverMint(p, Network, mints_read + 1), p[1] \notin unread'
      PROVE  p \in mint_hits'
  <2>1. CASE p[1] = mint
    <3>1. p \in Powers(roles, authorities) /\ p[1] \notin AcRoles
      BY <1>3, <1>4, <2>1, ListsAssumption DEF AuditInv
    <3>2. p \notin roles
      BY <3>1 DEF AuditInv, ACInv, ACTypeOK
    <3>3. p \in Powers({}, authorities)
      BY <3>1, <3>2 DEF Powers
    <3>4. mint \notin unread'
      BY <1>5, <2>1
    <3> QED
      BY <2>1, <3>3, <3>4 DEF ReadMint
  <2>2. CASE p[1] # mint
    <3>1. OverMint(p, Network, mints_read)
      BY <1>1, <1>5, <2>2 DEF OverMint
    <3> QED
      BY <1>1, <3>1 DEF NetworkInv, ReadMint
  <2> QED
    BY <2>1, <2>2
<1>6. NetworkInv'
  <2>1. /\ Len(results') =< Len(PdaEntries')
        /\ \A n \in DOMAIN results' : Triple(PdaEntries'[n]) \in steady' => results'[n]
    BY <1>1, <1>2 DEF NetworkInv, ReadMint
  <2>2. mints_read' =< Len(ListedMints[Network'])
    BY <1>1, <1>2, <1>4
  <2>3. \A p \in steady' : OverMint(p, Network, mints_read)' => p \in mint_hits'
    BY <1>1, <1>2, <1>5 DEF OverMint
  <2> QED
    BY <1>1, <1>2, <2>1, <2>2, <2>3 DEF NetworkInv
<1>7. DoneInv'
  BY <1>1 DEF AuditInv, ReadMint, DoneInv, Over
<1> QED
  BY <1>1, <1>6, <1>7

LEMMA AuditStepInv == AuditInv /\ [RANext]_raVars => AuditInv'
<1> SUFFICES ASSUME AuditInv, [RANext]_raVars PROVE AuditInv'
  OBVIOUS
<1>1. /\ steady' \subseteq steady
      /\ steady' \subseteq Powers(roles', authorities')
  BY DEF RANext, raVars, acVars, AuditInv
<1>2. ACInv' /\ DOMAIN authorities' = DOMAIN authorities
  <2>1. ACInv /\ [ACNext]_acVars
    BY DEF AuditInv, RANext, raVars, acVars, ACNext, PassOn
  <2>2. DOMAIN authorities' = DOMAIN authorities
    BY DEF RANext, raVars, PassOn
  <2> QED
    BY <2>1, <2>2, ACStepInv
<1>3. ASSUME UNCHANGED auditVars PROVE AuditInv'
  BY <1>1, <1>2, <1>3, AuditEnvironment DEF AuditInv, auditVars
<1>4. ASSUME ReadBatch, UNCHANGED <<acVars, authorities>> PROVE AuditInv'
  BY <1>1, <1>2, <1>4, ReadBatchInv DEF AuditInv, ReadBatch
<1>5. ASSUME NetworkFails, UNCHANGED <<acVars, authorities>> PROVE AuditInv'
  <2>1. current' \in Nat \ {0} /\ results' = << >> /\ exit' = NoExit /\ current' = current + 1
        /\ current =< Len(Networks)
    BY <1>5 DEF AuditInv, NetworkFails, Reading
  <2>2. DoneInv' /\ mints_read' = 0
    BY <1>1, <1>5, NetworkFailsInv
  <2>3. current' =< Len(Networks) => NetworkInv'
    BY <2>1, <2>2, NetworkFresh
  <2> QED
    BY <1>1, <1>2, <2>1, <2>2, <2>3 DEF AuditInv
<1>6. ASSUME ReadMint, UNCHANGED <<acVars, authorities>> PROVE AuditInv'
  BY <1>1, <1>2, <1>6, ReadMintInv DEF AuditInv, ReadMint, Reading
<1>7. ASSUME NetworkDone, UNCHANGED <<acVars, authorities>> PROVE AuditInv'
  <2>1. current' \in Nat \ {0} /\ results' = << >> /\ exit' = NoExit /\ current' = current + 1
        /\ current =< Len(Networks) /\ mints_read' = 0
    BY <1>7 DEF AuditInv, NetworkDone, Reading
  <2>2. DoneInv'
    BY <1>1, <1>7, NetworkDoneInv
  <2>3. current' =< Len(Networks) => NetworkInv'
    BY <2>1, NetworkFresh
  <2> QED
    BY <1>1, <1>2, <2>1, <2>2, <2>3 DEF AuditInv
<1>8. ASSUME Report, UNCHANGED <<acVars, authorities>> PROVE AuditInv'
  <2>1. exit' = ExitCode' /\ current' > Len(Networks)
    BY <1>8 DEF Report, ExitCode
  <2>2. DoneInv'
    BY <1>1, <1>8 DEF AuditInv, DoneInv, Over, Report
  <2>3. ~(current' =< Len(Networks))
    BY <1>8, ListsAssumption DEF AuditInv, Report
  <2> QED
    BY <1>1, <1>2, <1>8, <2>1, <2>2, <2>3 DEF AuditInv, Report
<1> QED
  BY <1>3, <1>4, <1>5, <1>6, <1>7, <1>8 DEF RANext, PassOn, raVars

LEMMA AuditInitInv ==
    ACTypeOK /\ ListsExclusive /\ (DOMAIN authorities) \cap AcRoles = {} /\ RAInit => AuditInv
<1> SUFFICES ASSUME ACTypeOK, ListsExclusive, (DOMAIN authorities) \cap AcRoles = {}, RAInit
             PROVE  AuditInv
  OBVIOUS
<1>1. current =< Len(Networks) => NetworkInv
  <2> SUFFICES ASSUME current =< Len(Networks) PROVE NetworkInv
    OBVIOUS
  <2>1. current = 1 /\ results = << >> /\ mints_read = 0
    BY DEF RAInit
  <2>2. Network \in ToSet(Networks) /\ Len(PdaEntries) \in Nat
    <3>1. Network \in ToSet(Networks)
          /\ PdaEntries \in Seq(Audited \X ListedRoles[Network] \X RoleNames)
      BY <2>1, PdaFacts
    <3> QED
      BY <3>1
  <2>3. Len(ListedMints[Network]) \in Nat
    BY <2>2, ListsAssumption
  <2> QED
    BY <2>1, <2>2, <2>3 DEF NetworkInv, OverMint
<1>2. DoneInv
  BY DEF RAInit, DoneInv
<1> QED
  BY <1>1, <1>2 DEF RAInit, AuditInv, ACInv

\* An audit that ends without a warning about a target has missed none of the
\* powers the target had all along, however the chain moved meanwhile
\* (verify-no-roles.ts).
THEOREM AuditComplete == RASpec => []AuditMissesNothing
<1>1. AuditInv => AuditMissesNothing
  <2> SUFFICES ASSUME AuditInv, exit # NoExit
               PROVE  /\ exit = 0 => failed = {}
                      /\ \A p \in steady, n \in ToSet(Networks) \ failed :
                           p[1] \in ListedRoles[n] \cup (ToSet(ListedMints[n]) \ unread) =>
                               exit = 1 /\ \E h \in hits : h[2] = p[2]
    BY DEF AuditMissesNothing
  <2>1. exit = ExitCode /\ current > Len(Networks) /\ current \in Nat \ {0} /\ DoneInv
    BY DEF AuditInv
  <2>2. ASSUME NEW p \in steady, NEW n \in ToSet(Networks) \ failed, Over(p, n)
        PROVE  p \in hits
    <3>1. PICK m \in 1 .. Len(Networks) : n = Networks[m]
      BY ListsAssumption DEF ToSet
    <3> QED
      BY <2>1, <2>2, <3>1, ListsAssumption DEF DoneInv
  <2> QED
    BY <2>1, <2>2 DEF ExitCode, Over
<1> QED
  BY <1>1, AuditInitInv, AuditStepInv, PTL DEF RASpec

-----------------------------------------------------------------------------
(* What a transaction does to the ledger.                                  *)

Making(S) == {i \in S : i.op \in CREATIONS}
Triples(S, op) == {<<i.ac_role, i.account, i.role>> : i \in {j \in S : j.op = op}}

\* Accounts are added, never changed.
LEMMA ExecutedAccounts ==
    ASSUME NEW l, NEW S
    PROVE  LET e == Executed(l, S)
           IN  /\ DOMAIN e.accounts = DOMAIN l.accounts \cup {i.key : i \in Making(S)}
               /\ \A k \in DOMAIN l.accounts : e.accounts[k] = l.accounts[k]
               /\ \A k \in DOMAIN e.accounts \ DOMAIN l.accounts :
                      \E i \in Making(S) : i.key = k /\ e.accounts[k] = i.uses
<1> DEFINE e == Executed(l, S)
<1>1. e.accounts = [k \in DOMAIN l.accounts \cup {i.key : i \in Making(S)} |->
             IF k \in DOMAIN l.accounts THEN l.accounts[k]
             ELSE (CHOOSE i \in Making(S) : i.key = k).uses]
  BY DEF Executed, Making
<1> HIDE DEF e
<1>2. ASSUME NEW k \in DOMAIN e.accounts \ DOMAIN l.accounts
      PROVE  \E i \in Making(S) : i.key = k /\ e.accounts[k] = i.uses
  BY <1>1, <1>2
<1> QED
  BY <1>1, <1>2 DEF e

LEMMA ExecutedRoles ==
    ASSUME NEW l, NEW S
    PROVE  /\ Executed(l, S).roles =
                (l.roles \cup Triples(S, "grantRole")
                   \cup {<<i.key, deployer, ADMIN_ROLE>> : i \in {j \in S : j.op = "newAcRole"}})
                \ Triples(S, "revokeRole")
           /\ Executed(l, S).manual = l.manual \cup {i.key : i \in {j \in S : j.op = "newManualFeed"}}
BY DEF Executed, Triples

-----------------------------------------------------------------------------
(* One mToken: what is true while scripts are started, stopped and lost.   *)

\* What an account may be deployed with.  Vaults may be deployed again, the
\* others keep the address that is saved.
Kept == Components \ {"minter", "redeemer"}
UsesSaved(key) == [c \in Uses[key[1]] |-> addresses[c]]

AddressesInv ==
    /\ addresses \in [Components -> Keys \cup {None}]
    /\ \A c \in Components : Saved(c) => addresses[c][1] = c

\* Every account, left behind or not, refers to saved components; a minter vault
\* has its role, an ac_role its admin, a mint its powers where they belong.
AccountInv(k) ==
    /\ k \in Keys /\ AllSaved(Uses[k[1]])
    /\ ledger.accounts[k] = UsesSaved(k)
    /\ k[1] = "minter" => Holds(ledger, addresses.acRole, k, M_MINTER)
    /\ k[1] = "mToken" => k \in DOMAIN ledger.powers
AccountsInv == \A k \in DOMAIN ledger.accounts : AccountInv(k)
PowersInv ==
    \A k \in DOMAIN ledger.powers, t \in ToSet(TOKEN_AUTHORITY_TYPES) :
        \/ ledger.powers[k][t] = deployer
        \/ Saved("tokenAuthority") /\ ledger.powers[k][t] = addresses.tokenAuthority
RolesInv ==
    \A t \in ledger.roles : t = <<t[1], t[2], t[3]>> /\ (t[2] = deployer => t[3] \in AutoRoles)

\* An instruction that was sent: what it creates refers to saved components,
\* and what it grants or moves is what the hand-over expects.
CreationInv(i) ==
    /\ i.key \in Keys /\ AllSaved(Uses[i.key[1]])
    /\ i.uses = UsesSaved(i.key)
    /\ i.key[1] = "mToken" => i.op = "newMint"
    /\ i.key[1] = "acRole" => i.op = "newAcRole"
InstructionInv(i) ==
    /\ i.op \in CREATIONS \cup {"grantRole", "newManualFeed", "setAuthority"}
    /\ i.op \in CREATIONS => CreationInv(i)
    /\ i.op = "grantRole" /\ i.account = deployer => i.by = deployer /\ i.role \in AutoRoles
    /\ i.op = "setAuthority" => Saved("tokenAuthority") /\ i.to = addresses.tokenAuthority
RevokeInv(i) ==
    /\ i.op = "revokeRole" /\ i.account = deployer
    /\ Saved("acRole") /\ i.ac_role = addresses.acRole
    /\ i.role = ADMIN_ROLE => Holds(ledger, addresses.acRole, ac_admin, ADMIN_ROLE)
MinterGranted(S) ==
    \A i \in Making(S) : i.key[1] = "minter" =>
        <<addresses.acRole, i.key, M_MINTER>> \in Triples(S, "grantRole")

\* A transaction revokes, or builds; it never does both.
TxInv(S) ==
    \/ \A i \in S : RevokeInv(i)
    \/ (\A i \in S : InstructionInv(i)) /\ MinterGranted(S)
FlightInv == \A tx \in flight : TxInv(ToSet(tx.inx))

\* The script at work: what it deploys is not saved yet, and what is confirmed
\* is on chain.
MoveInxs ==
    {<<[op |-> "setAuthority", key |-> addresses.mToken, type |-> t,
        to |-> addresses.tokenAuthority]>> : t \in ToSet(TOKEN_AUTHORITY_TYPES)}
FeedInx(key) == <<[op |-> "newManualFeed", key |-> key, by |-> deployer]>>

Creating ==
    /\ \E i \in Making(ToSet(script.tx.inx)) : i.key = script.key
    /\ script.todo = << >>
    /\ script.confirmed => Exists(ledger, script.key)
    /\ script.task = "mTokenDataFeed" => script.tx.inx[1].op = "newFeed"
GrantingFeed ==
    /\ script.task = "mTokenDataFeed"
    /\ script.tx.inx[1].op = "grantRole" /\ script.todo = <<FeedInx(script.key)>>
    /\ Exists(ledger, script.key)
PricingFeed ==
    /\ script.task = "mTokenDataFeed"
    /\ script.tx.inx = FeedInx(script.key) /\ script.todo = << >>
    /\ Exists(ledger, script.key)
    /\ script.confirmed => script.key \in ledger.manual
Deploying ==
    /\ script.task \in Components
    /\ script.key \in Keys /\ script.key[1] = script.task
    /\ script.task \in Kept => ~Saved(script.task)
    /\ Creating \/ GrantingFeed \/ PricingFeed
Handing ==
    /\ script.task \in {"transfer", "grant-admin"}
    /\ AllSaved({"mToken", "tokenAuthority"}) \/ script.todo = << >>
    /\ script.todo \in Seq(MoveInxs)
ScriptInv ==
    ~Idle =>
        /\ script = [task |-> script.task, key |-> script.key, tx |-> script.tx,
                     confirmed |-> script.confirmed, todo |-> script.todo]
        /\ Deploying \/ Handing

\* As long as the operator waits for approvals, the deployer's admin role goes
\* last, in one transaction with every role it has.
RevokesAdmin(S) == \E i \in S : i.op = "revokeRole" /\ i.role = ADMIN_ROLE
AloneInv ==
    ~hasty => \A tx \in flight : RevokesAdmin(ToSet(tx.inx)) =>
        /\ flight = {tx} /\ Idle
        /\ \A t \in ledger.roles :
             t[1] = addresses.acRole /\ t[2] = deployer => t \in Triples(ToSet(tx.inx), "revokeRole")

\* Each component of the file exists and refers to the others in the file.
Together ==
    \A c \in Components : Saved(c) =>
        /\ Exists(ledger, addresses[c])
        /\ c = "mTokenDataFeed" => addresses[c] \in ledger.manual
        /\ \A d \in Uses[c] : ledger.accounts[addresses[c]][d] = addresses[d]

DPInv ==
    /\ AddressesInv /\ Together
    /\ AccountsInv /\ PowersInv /\ RolesInv /\ AdminNeverLost
    /\ FlightInv /\ ScriptInv
    /\ HandOverClean /\ AloneInv

\* A power is the deployer's, or moved by an instruction, or what it was.
LEMMA ExecutedPowers ==
    ASSUME NEW l, NEW S
    PROVE  LET e == Executed(l, S)
           IN  /\ DOMAIN e.powers = DOMAIN l.powers \cup {i.key : i \in {j \in S : j.op = "newMint"}}
               /\ \A k \in DOMAIN e.powers, t \in ToSet(TOKEN_AUTHORITY_TYPES) :
                      \/ e.powers[k][t] = deployer
                      \/ \E i \in S : i.op = "setAuthority" /\ e.powers[k][t] = i.to
                      \/ k \in DOMAIN l.powers /\ e.powers[k][t] = l.powers[k][t]
<1> DEFINE e == Executed(l, S)
           moves(k, t) == {i \in {j \in S : j.op \in {"setAuthority"}} : i.key = k /\ i.type = t}
           T == ToSet(TOKEN_AUTHORITY_TYPES)
           D == DOMAIN l.powers \cup {i.key : i \in {j \in S : j.op = "newMint"}}
<1>1. e.powers = [k \in D |-> [t \in T |->
                 IF moves(k, t) # {} THEN (CHOOSE i \in moves(k, t) : TRUE).to
                 ELSE IF k \in DOMAIN l.powers THEN l.powers[k][t] ELSE deployer]]
  BY DEF Executed
<1> HIDE DEF e, T, D
<1>2. ASSUME NEW k \in D, NEW t \in T
      PROVE  \/ e.powers[k][t] = deployer
             \/ \E i \in S : i.op = "setAuthority" /\ e.powers[k][t] = i.to
             \/ k \in DOMAIN l.powers /\ e.powers[k][t] = l.powers[k][t]
  <2>1. e.powers[k][t] =
           IF moves(k, t) # {} THEN (CHOOSE i \in moves(k, t) : TRUE).to
           ELSE IF k \in DOMAIN l.powers THEN l.powers[k][t] ELSE deployer
    BY <1>1, <1>2
  <2>2. CASE moves(k, t) # {}
    <3>1. (CHOOSE i \in moves(k, t) : TRUE) \in moves(k, t)
      BY <2>2
    <3> QED
      BY <2>1, <2>2, <3>1
  <2> QED
    BY <2>1, <2>2
<1> QED
  BY <1>1, <1>2 DEF e, T, D

LEMMA UsesFacts ==
    /\ \A c \in Components : Uses[c] \subseteq Kept /\ c \notin Uses[c]
    /\ "acRole" \in Uses["minter"]
    /\ Kept = {"acRole", "mToken", "tokenAuthority", "mTokenDataFeed"}
BY DEF Uses, Components, Kept

\* What was sent stays in order: what it refers to keeps its address, and the
\* admin it counts on keeps its role.
LEMMA SentStable ==
    ASSUME \A c \in Kept : Saved(c) => addresses'[c] = addresses[c],
           \A r : Holds(ledger, r, ac_admin, ADMIN_ROLE) => Holds(ledger', r, ac_admin, ADMIN_ROLE),
           NEW S, TxInv(S)
    PROVE  TxInv(S)'
<1>1. ASSUME \A i \in S : RevokeInv(i) PROVE \A i \in S : RevokeInv(i)'
  <2>1. "acRole" \in Kept
    BY UsesFacts
  <2> QED
    BY <1>1, <2>1 DEF RevokeInv, Saved
<1>2. ASSUME \A i \in S : InstructionInv(i), MinterGranted(S)
      PROVE  (\A i \in S : InstructionInv(i)') /\ MinterGranted(S)'
  <2>1. ASSUME NEW i \in S, CreationInv(i) PROVE CreationInv(i)'
    <3>1. i.key[1] \in Components
      BY <2>1 DEF CreationInv, Keys
    <3>2. Uses[i.key[1]] \subseteq Kept /\ AllSaved(Uses[i.key[1]])
      BY <2>1, <3>1, UsesFacts DEF CreationInv
    <3>3. \A c \in Uses[i.key[1]] : Saved(c)' /\ addresses'[c] = addresses[c]
      BY <3>2 DEF AllSaved, Saved
    <3>4. UsesSaved(i.key)' = UsesSaved(i.key) /\ AllSaved(Uses[i.key[1]])'
      BY <3>3 DEF UsesSaved, AllSaved
    <3> QED
      BY <2>1, <3>4 DEF CreationInv
  <2>2. "tokenAuthority" \in Kept
    BY UsesFacts
  <2>3. ASSUME NEW i \in S PROVE InstructionInv(i)'
    BY <1>2, <2>1, <2>2 DEF InstructionInv, Saved
  <2>4. ASSUME NEW i \in Making(S), i.key[1] = "minter"
        PROVE  addresses'.acRole = addresses.acRole
    <3>1. AllSaved(Uses["minter"])
      BY <1>2, <2>4 DEF InstructionInv, CreationInv, Making
    <3> QED
      BY <3>1, UsesFacts DEF AllSaved
  <2> QED
    BY <1>2, <2>3, <2>4 DEF MinterGranted
<1> QED
  BY <1>1, <1>2 DEF TxInv

\* What a transaction that was sent leaves standing.
LEMMA LandKeeps ==
    ASSUME NEW S, TxInv(S), ledger' = Executed(ledger, S), RolesInv
    PROVE  /\ DOMAIN ledger.accounts \subseteq DOMAIN ledger'.accounts
           /\ \A k \in DOMAIN ledger.accounts : ledger'.accounts[k] = ledger.accounts[k]
           /\ ledger.manual \subseteq ledger'.manual
           /\ \A r, a, n : a # deployer /\ Holds(ledger, r, a, n) => Holds(ledger', r, a, n)
           /\ \A i \in Making(S) : Exists(ledger', i.key)
           /\ \A i \in S : i.op = "newManualFeed" => i.key \in ledger'.manual
<1>1. \A x \in Triples(S, "revokeRole") : x[2] = deployer
  BY DEF TxInv, RevokeInv, InstructionInv, CREATIONS, Triples
<1>2. \A r, a, n : a # deployer /\ Holds(ledger, r, a, n) => Holds(ledger', r, a, n)
  BY <1>1, ExecutedRoles DEF Holds
<1>3. /\ ledger.manual \subseteq ledger'.manual
      /\ \A i \in S : i.op = "newManualFeed" => i.key \in ledger'.manual
  BY ExecutedRoles
<1>4. /\ DOMAIN ledger.accounts \subseteq DOMAIN ledger'.accounts
      /\ \A k \in DOMAIN ledger.accounts : ledger'.accounts[k] = ledger.accounts[k]
      /\ \A i \in Making(S) : Exists(ledger', i.key)
  BY ExecutedAccounts DEF Exists
<1> QED
  BY <1>2, <1>3, <1>4

LEMMA LandAccounts ==
    ASSUME DPInv, NEW S, TxInv(S), ledger' = Executed(ledger, S), UNCHANGED addresses
    PROVE  AccountsInv' /\ PowersInv'
<1>1. ASSUME NEW k \in DOMAIN ledger'.accounts, k \in DOMAIN ledger.accounts
      PROVE  AccountInv(k)'
  <2>1. AccountInv(k) /\ ledger'.accounts[k] = ledger.accounts[k]
    BY <1>1, LandKeeps DEF DPInv, AccountsInv
  <2>2. k # deployer
    BY <2>1, WalletsAssumption DEF AccountInv
  <2>3. k[1] = "minter" => Holds(ledger', addresses.acRole, k, M_MINTER)
    BY <2>1, <2>2, LandKeeps DEF AccountInv, DPInv
  <2>4. DOMAIN ledger.powers \subseteq DOMAIN ledger'.powers
    BY ExecutedPowers
  <2> QED
    BY <2>1, <2>3, <2>4 DEF AccountInv, UsesSaved, AllSaved, Saved
<1>2. ASSUME NEW k \in DOMAIN ledger'.accounts, k \notin DOMAIN ledger.accounts
      PROVE  AccountInv(k)'
  <2>1. PICK i \in Making(S) : i.key = k /\ ledger'.accounts[k] = i.uses
    BY <1>2, ExecutedAccounts
  <2>2. (\A j \in S : InstructionInv(j)) /\ MinterGranted(S)
    BY <2>1 DEF TxInv, Making, CREATIONS, RevokeInv
  <2>3. CreationInv(i)
    BY <2>1, <2>2 DEF InstructionInv, Making
  <2>4. k # deployer
    BY <2>1, <2>3, WalletsAssumption DEF CreationInv
  <2>5. k[1] = "minter" => Holds(ledger', addresses.acRole, k, M_MINTER)
    <3> SUFFICES ASSUME k[1] = "minter" PROVE <<addresses.acRole, k, M_MINTER>> \in ledger'.roles
      BY DEF Holds
    <3>1. <<addresses.acRole, k, M_MINTER>> \in Triples(S, "grantRole")
      BY <2>1, <2>2 DEF MinterGranted
    <3>2. Triples(S, "revokeRole") = {}
      BY <2>2 DEF Triples, InstructionInv, CREATIONS
    <3> QED
      BY <3>1, <3>2, ExecutedRoles
  <2>6. k[1] = "mToken" => k \in DOMAIN ledger'.powers
    BY <2>1, <2>3, ExecutedPowers DEF CreationInv, Making
  <2> QED
    BY <2>1, <2>3, <2>5, <2>6 DEF AccountInv, CreationInv, UsesSaved, AllSaved, Saved
<1>3. AccountsInv'
  BY <1>1, <1>2 DEF AccountsInv
<1>4. PowersInv'
  <2> SUFFICES ASSUME NEW k \in DOMAIN ledger'.powers, NEW t \in ToSet(TOKEN_AUTHORITY_TYPES)
               PROVE  \/ ledger'.powers[k][t] = deployer
                      \/ Saved("tokenAuthority")' /\ ledger'.powers[k][t] = addresses'.tokenAuthority
    BY DEF PowersInv
  <2>1. CASE \E i \in S : i.op = "setAuthority" /\ ledger'.powers[k][t] = i.to
    BY <2>1 DEF TxInv, RevokeInv, InstructionInv, Saved
  <2>2. CASE k \in DOMAIN ledger.powers /\ ledger'.powers[k][t] = ledger.powers[k][t]
    BY <2>2 DEF DPInv, PowersInv, Saved
  <2> QED
    BY <2>1, <2>2, ExecutedPowers
<1> QED
  BY <1>3, <1>4

\* Whoever grants has the admin role where it grants, also after all of the
\* transaction.
LEMMA GrantedByAdmin ==
    ASSUME NEW l, NEW tx, Outcome(l, tx) # None,
           \A i \in ToSet(tx.inx) : i.op # "revokeRole",
           NEW i \in ToSet(tx.inx), i.op = "grantRole"
    PROVE  Holds(Executed(l, ToSet(tx.inx)), i.ac_role, i.by, ADMIN_ROLE)
<1>1. PICK n \in DOMAIN tx.inx : i = tx.inx[n]
  BY DEF ToSet
<1> DEFINE B == Before(tx, n)
<1>2. Allowed(Executed(l, B), tx.inx[n])
  BY <1>1 DEF Outcome
<1>3. Holds(Executed(l, B), i.ac_role, i.by, ADMIN_ROLE)
  BY <1>1, <1>2 DEF Allowed, CREATIONS
<1>4. B \subseteq ToSet(tx.inx)
  BY DEF Before, ToSet
<1> HIDE DEF B
<1>5. Triples(B, "grantRole") \subseteq Triples(ToSet(tx.inx), "grantRole")
      /\ Triples(ToSet(tx.inx), "revokeRole") = {}
      /\ {j \in B : j.op = "newAcRole"} \subseteq {j \in ToSet(tx.inx) : j.op = "newAcRole"}
  BY <1>4 DEF Triples
<1>6. Executed(l, B).roles \subseteq Executed(l, ToSet(tx.inx)).roles
  BY <1>5, ExecutedRoles
<1> QED
  BY <1>3, <1>6 DEF Holds

\* The roles of the ledger after a transaction that builds, or that revokes.
LEMMA LandRoles ==
    ASSUME DPInv, NEW tx \in flight, ledger' = Executed(ledger, ToSet(tx.inx)),
           Outcome(ledger, tx) # None, UNCHANGED <<addresses, hasty>>
    PROVE  RolesInv' /\ AdminNeverLost' /\ HandOverClean'
<1> DEFINE S == ToSet(tx.inx)
           Made == {<<i.key, deployer, ADMIN_ROLE>> : i \in {j \in S : j.op = "newAcRole"}}
<1> USE DEF Holds
<1>1. TxInv(S) /\ RolesInv /\ AdminNeverLost /\ HandOverClean /\ AloneInv
  BY DEF DPInv, FlightInv
<1>2. ledger'.roles = (ledger.roles \cup Triples(S, "grantRole") \cup Made) \ Triples(S, "revokeRole")
  BY ExecutedRoles
<1>3. ADMIN_ROLE \in AutoRoles
  BY DEF AutoRoles
<1>4. \A t \in Triples(S, "grantRole") : t[2] = deployer => t[3] \in AutoRoles
  BY <1>1 DEF Triples, TxInv, RevokeInv, InstructionInv
<1>5. RolesInv'
  <2>1. \A t \in Triples(S, "grantRole") \cup Made : t = <<t[1], t[2], t[3]>>
    BY DEF Triples
  <2>2. \A t \in Made : t[3] \in AutoRoles
    BY <1>3
  <2> HIDE DEF Made
  <2> QED
    BY <1>1, <1>2, <1>4, <2>1, <2>2 DEF RolesInv
<1>6. CASE \A i \in S : RevokeInv(i)
  <2>1. Made = {} /\ Triples(S, "grantRole") = {} /\ Making(S) = {}
    BY <1>6 DEF RevokeInv, Triples, Making, CREATIONS
  <2>2. ledger'.roles = ledger.roles \ Triples(S, "revokeRole")
    BY <1>2, <2>1
  <2>3. ASSUME NEW t \in Triples(S, "revokeRole")
        PROVE  /\ t[1] = addresses.acRole /\ t[2] = deployer
               /\ t[3] = ADMIN_ROLE => RevokesAdmin(S) /\ Holds(ledger, addresses.acRole, ac_admin, ADMIN_ROLE)
    BY <1>6, <2>3 DEF RevokeInv, Triples, RevokesAdmin
  <2>4. deployer # ac_admin
    BY WalletsAssumption
  <2>5. DOMAIN ledger'.accounts = DOMAIN ledger.accounts
    <3>1. DOMAIN ledger'.accounts = DOMAIN ledger.accounts \cup {i.key : i \in Making(S)}
      BY ExecutedAccounts
    <3>2. \A k \in DOMAIN ledger'.accounts \ DOMAIN ledger.accounts : FALSE
      BY <2>1, ExecutedAccounts
    <3> QED
      BY <3>1, <3>2
  <2>6. AdminNeverLost'
    <3> SUFFICES ASSUME NEW k \in DOMAIN ledger.accounts, k[1] = "acRole"
                 PROVE  \E a \in {deployer, ac_admin} : <<k, a, ADMIN_ROLE>> \in ledger'.roles
      BY <2>5 DEF AdminNeverLost
    <3>1. PICK a \in {deployer, ac_admin} : <<k, a, ADMIN_ROLE>> \in ledger.roles
      BY <1>1 DEF AdminNeverLost
    <3>2. CASE <<k, a, ADMIN_ROLE>> \in Triples(S, "revokeRole")
      <4>1. k = addresses.acRole /\ <<addresses.acRole, ac_admin, ADMIN_ROLE>> \in ledger.roles
        BY <2>3, <3>2
      <4>2. <<addresses.acRole, ac_admin, ADMIN_ROLE>> \notin Triples(S, "revokeRole")
        BY <2>3, <2>4
      <4> QED
        BY <2>2, <4>1, <4>2
    <3>3. CASE <<k, a, ADMIN_ROLE>> \notin Triples(S, "revokeRole")
      BY <2>2, <3>1, <3>3
    <3> QED
      BY <3>2, <3>3
  <2>7. HandOverClean'
    <3> SUFFICES ASSUME ~hasty, NEW t \in ledger'.roles, t[2] = deployer
                 PROVE  <<t[1], deployer, ADMIN_ROLE>> \in ledger'.roles
      BY DEF HandOverClean
    <3>1. t \in ledger.roles /\ t \notin Triples(S, "revokeRole")
          /\ <<t[1], deployer, ADMIN_ROLE>> \in ledger.roles
      BY <1>1, <2>2 DEF HandOverClean
    <3>2. CASE <<t[1], deployer, ADMIN_ROLE>> \in Triples(S, "revokeRole")
      <4>1. t[1] = addresses.acRole /\ RevokesAdmin(S)
        BY <2>3, <3>2
      <4> QED
        BY <1>1, <3>1, <4>1 DEF AloneInv
    <3>3. CASE <<t[1], deployer, ADMIN_ROLE>> \notin Triples(S, "revokeRole")
      BY <2>2, <3>1, <3>3
    <3> QED
      BY <3>2, <3>3
  <2> QED
    BY <1>5, <2>6, <2>7
<1>7. CASE (\A i \in S : InstructionInv(i)) /\ MinterGranted(S)
  <2>1. \A i \in S : i.op # "revokeRole"
    BY <1>7 DEF InstructionInv, CREATIONS
  <2>2. Triples(S, "revokeRole") = {}
    BY <2>1 DEF Triples
  <2>3. ledger'.roles = ledger.roles \cup Triples(S, "grantRole") \cup Made
    BY <1>2, <2>2
  <2>4. ASSUME NEW k \in DOMAIN ledger'.accounts \ DOMAIN ledger.accounts, k[1] = "acRole"
        PROVE  <<k, deployer, ADMIN_ROLE>> \in ledger'.roles
    <3>1. PICK i \in Making(S) : i.key = k
      BY <2>4, ExecutedAccounts
    <3>2. i.op = "newAcRole" /\ i \in S
      BY <1>7, <2>4, <3>1 DEF InstructionInv, CreationInv, Making
    <3> QED
      BY <2>3, <3>1, <3>2
  <2>5. AdminNeverLost'
    BY <1>1, <2>3, <2>4 DEF AdminNeverLost
  <2>6. HandOverClean'
    <3> SUFFICES ASSUME ~hasty, NEW t \in ledger'.roles, t[2] = deployer
                 PROVE  <<t[1], deployer, ADMIN_ROLE>> \in ledger'.roles
      BY DEF HandOverClean
    <3>1. CASE t \in ledger.roles
      BY <1>1, <2>3, <3>1 DEF HandOverClean
    <3>2. CASE t \in Triples(S, "grantRole")
      <4>1. PICK i \in S : i.op = "grantRole" /\ t = <<i.ac_role, i.account, i.role>>
        BY <3>2 DEF Triples
      <4>2. i.by = deployer
        BY <1>7, <4>1 DEF InstructionInv
      <4> QED
        BY <2>1, <4>1, <4>2, GrantedByAdmin
    <3>3. CASE t \in Made
      BY <2>3, <3>3
    <3> QED
      BY <2>3, <3>1, <3>2, <3>3
  <2> QED
    BY <1>5, <2>5, <2>6
<1> QED
  BY <1>1, <1>6, <1>7 DEF TxInv

LEMMA LandSaved ==
    ASSUME DPInv, NEW S, TxInv(S), ledger' = Executed(ledger, S), UNCHANGED addresses
    PROVE  Together'
BY LandKeeps DEF DPInv, Together, Exists, Saved

\* The script goes on where it was; nothing it has confirmed is undone.
LEMMA ScriptGoesOn ==
    ASSUME ScriptInv, UNCHANGED addresses,
           DOMAIN ledger.accounts \subseteq DOMAIN ledger'.accounts,
           ledger.manual \subseteq ledger'.manual,
           \/ script' = None \/ script' = script
           \/ /\ ~Idle /\ script' = GoesOn
              /\ \/ /\ \A i \in Making(ToSet(script.tx.inx)) : Exists(ledger', i.key)
                    /\ \A i \in ToSet(script.tx.inx) : i.op = "newManualFeed" => i.key \in ledger'.manual
                 \/ script.task = "transfer"
                 \/ GrantedAlready
    PROVE  ScriptInv'
<1> SUFFICES ASSUME script' # None, ~Idle
             PROVE  /\ script' = [task |-> script'.task, key |-> script'.key, tx |-> script'.tx,
                                  confirmed |-> script'.confirmed, todo |-> script'.todo]
                    /\ Deploying' \/ Handing'
  BY DEF ScriptInv, Idle
<1>1. /\ script = [task |-> script.task, key |-> script.key, tx |-> script.tx,
                   confirmed |-> script.confirmed, todo |-> script.todo]
      /\ Deploying \/ Handing
  BY DEF ScriptInv
<1>2. /\ script' = [task |-> script'.task, key |-> script'.key, tx |-> script'.tx,
                    confirmed |-> script'.confirmed, todo |-> script'.todo]
      /\ script'.task = script.task /\ script'.key = script.key
      /\ script'.tx = script.tx /\ script'.todo = script.todo
      /\ script' = script \/ script' = GoesOn
  BY <1>1 DEF GoesOn
<1>3. ASSUME Handing PROVE Handing'
  BY <1>2, <1>3 DEF Handing, MoveInxs, AllSaved, Saved
<1>4. ASSUME Deploying PROVE Deploying'
  <2>1. /\ script'.task \in Components /\ script'.key \in Keys /\ script'.key[1] = script'.task
        /\ script'.task \in Kept => ~Saved(script.task)'
    BY <1>2, <1>4 DEF Deploying, Saved
  <2>2. ASSUME Creating PROVE Creating'
    <3>1. script'.confirmed => Exists(ledger', script.key)
      <4>1. CASE script' = script
        BY <2>2, <4>1 DEF Creating, Exists
      <4>2. CASE script' # script
        <5>1. ~GrantedAlready /\ script.task # "transfer"
          BY <1>4, <2>2 DEF Deploying, Creating, GrantedAlready, Components
        <5> QED
          BY <2>2, <4>2, <5>1 DEF Creating
      <4> QED
        BY <4>1, <4>2
    <3> QED
      BY <1>2, <2>2, <3>1 DEF Creating
  <2>3. ASSUME GrantingFeed PROVE GrantingFeed'
    BY <1>2, <2>3 DEF GrantingFeed, FeedInx, Exists
  <2>4. ASSUME PricingFeed PROVE PricingFeed'
    <3>1. script.tx.inx = FeedInx(script.key) /\ FeedInx(script.key)[1] \in ToSet(FeedInx(script.key))
          /\ FeedInx(script.key)[1].op = "newManualFeed" /\ FeedInx(script.key)[1].key = script.key
      BY <2>4 DEF PricingFeed, FeedInx, ToSet
    <3>2. script'.confirmed => script.key \in ledger'.manual
      <4>1. CASE script' = script
        BY <2>4, <4>1 DEF PricingFeed
      <4>2. CASE script' # script
        <5>1. ~GrantedAlready /\ script.task # "transfer"
          BY <1>4, <2>4, <3>1 DEF Deploying, PricingFeed, GrantedAlready
        <5> QED
          BY <3>1, <4>2, <5>1
      <4> QED
        BY <4>1, <4>2
    <3> QED
      BY <1>2, <2>4, <3>2 DEF PricingFeed, FeedInx, Exists
  <2> QED
    BY <1>4, <2>1, <2>2, <2>3, <2>4 DEF Deploying
<1> QED
  BY <1>1, <1>2, <1>3, <1>4

LEMMA LandInv ==
    ASSUME DPInv, NEW tx \in flight, Land(tx)
    PROVE  DPInv'
<1> DEFINE S == ToSet(tx.inx)
<1>1. TxInv(S) /\ flight' = flight \ {tx} /\ UNCHANGED <<addresses, hasty>>
  BY DEF DPInv, FlightInv, Land
<1>2. AddressesInv'
  BY <1>1 DEF DPInv, AddressesInv, Saved
<1>3. AloneInv'
  BY <1>1 DEF DPInv, AloneInv
<1>4. CASE Outcome(ledger, tx) = None
  <2>1. ledger' = ledger
    BY <1>4 DEF Land
  <2>2. Together' /\ AccountsInv' /\ PowersInv' /\ RolesInv' /\ AdminNeverLost' /\ HandOverClean'
    BY <1>1, <2>1 DEF DPInv, Together, AccountsInv, PowersInv, RolesInv, AdminNeverLost,
       HandOverClean, AccountInv, UsesSaved, AllSaved, Saved
  <2>3. FlightInv'
    BY <1>1, <2>1, SentStable DEF DPInv, FlightInv
  <2>4. ScriptInv'
    <3>1. \/ script' = None \/ script' = script
          \/ ~Idle /\ script' = GoesOn /\ (script.task = "transfer" \/ GrantedAlready)
      BY <1>4 DEF Land, Failing
    <3> QED
      BY <1>1, <2>1, <3>1, ScriptGoesOn DEF DPInv
  <2> QED
    BY <1>2, <1>3, <2>2, <2>3, <2>4 DEF DPInv
<1>5. CASE Outcome(ledger, tx) # None
  <2>1. ledger' = Executed(ledger, S)
    BY <1>5 DEF Land, Outcome
  <2>2. /\ DOMAIN ledger.accounts \subseteq DOMAIN ledger'.accounts
        /\ ledger.manual \subseteq ledger'.manual
        /\ \A r : Holds(ledger, r, ac_admin, ADMIN_ROLE) => Holds(ledger', r, ac_admin, ADMIN_ROLE)
        /\ \A i \in Making(S) : Exists(ledger', i.key)
        /\ \A i \in S : i.op = "newManualFeed" => i.key \in ledger'.manual
    BY <1>1, <2>1, LandKeeps, WalletsAssumption DEF DPInv
  <2>3. AccountsInv' /\ PowersInv'
    BY <1>1, <2>1, LandAccounts
  <2>4. RolesInv' /\ AdminNeverLost' /\ HandOverClean'
    BY <1>1, <1>5, <2>1, LandRoles
  <2>5. Together'
    BY <1>1, <2>1, LandSaved
  <2>6. FlightInv'
    BY <1>1, <2>2, SentStable DEF DPInv, FlightInv
  <2>7. ScriptInv'
    <3>1. \/ script' = script
          \/ ~Idle /\ script' = GoesOn /\ script.tx = tx
      BY <1>5 DEF Land
    <3> HIDE DEF S
    <3> QED
      BY <1>1, <2>2, <3>1, ScriptGoesOn DEF DPInv, S
  <2> QED
    BY <1>2, <1>3, <2>3, <2>4, <2>5, <2>6, <2>7 DEF DPInv
<1> QED
  BY <1>4, <1>5

\* What holds of the chain and the file while neither changes.
LEMMA ChainSame ==
    ASSUME DPInv, UNCHANGED <<ledger, addresses>>, hasty => hasty'
    PROVE  /\ AddressesInv' /\ Together'
           /\ AccountsInv' /\ PowersInv' /\ RolesInv' /\ AdminNeverLost' /\ HandOverClean'
           /\ \A S : TxInv(S) => TxInv(S)'
<1>1. AddressesInv' /\ Together'
  BY DEF DPInv, AddressesInv, Together, Saved
<1>2. AccountsInv' /\ PowersInv'
  BY DEF DPInv, AccountsInv, PowersInv, AccountInv, UsesSaved, AllSaved, Saved
<1>3. RolesInv' /\ AdminNeverLost' /\ HandOverClean'
  BY DEF DPInv, RolesInv, AdminNeverLost, HandOverClean
<1>4. \A S : TxInv(S) => TxInv(S)'
  BY SentStable
<1> QED
  BY <1>1, <1>2, <1>3, <1>4

\* Transactions that are dropped, and scripts that stop.
LEMMA DropInv ==
    ASSUME DPInv, UNCHANGED <<ledger, addresses, hasty>>, flight' \subseteq flight,
           script' = script \/ script' = None \/ (~Idle /\ script.task = "transfer" /\ script' = GoesOn)
    PROVE  DPInv'
<1>1. FlightInv'
  BY ChainSame DEF DPInv, FlightInv
<1>2. ScriptInv'
  BY ScriptGoesOn DEF DPInv
<1>3. AloneInv'
  <2> SUFFICES ASSUME ~hasty, NEW tx \in flight', RevokesAdmin(ToSet(tx.inx))
               PROVE  /\ flight' = {tx} /\ Idle'
                      /\ \A t \in ledger.roles : t[1] = addresses.acRole /\ t[2] = deployer =>
                             t \in Triples(ToSet(tx.inx), "revokeRole")
    BY DEF AloneInv
  <2> QED
    BY DEF DPInv, AloneInv, Idle
<1> QED
  BY <1>1, <1>2, <1>3, ChainSame DEF DPInv

\* A transaction that builds is sent.
LEMMA SendInv ==
    ASSUME DPInv, UNCHANGED <<ledger, addresses>>, NEW tx, flight' = flight \cup {tx},
           TxInv(ToSet(tx.inx)), ~RevokesAdmin(ToSet(tx.inx)),
           (~Idle /\ hasty' = hasty) \/ hasty' = (hasty \/ flight # {}),
           ScriptInv'
    PROVE  DPInv'
<1>0. hasty => hasty'
  BY Zenon
<1>1. FlightInv'
  BY <1>0, ChainSame DEF DPInv, FlightInv
<1>2. AloneInv'
  BY DEF DPInv, AloneInv
<1> QED
  BY <1>0, <1>1, <1>2, ChainSame DEF DPInv

LEMMA NewKeyFacts ==
    ASSUME NEW c \in Components, NEW key \in NewKeys(c)
    PROVE  key \in Keys /\ key[1] = c
BY DEF NewKeys, Keys

\* What was saved by a script that is not a vault's need not be deployed again.
LEMMA DeploysUnsaved ==
    ASSUME DPInv, NEW c \in Components, Deploys(c)
    PROVE  ~Saved(c)
BY DEF DPInv, Together, Deploys

\* The sequences that are written out.
LEMMA ToSetFacts ==
    /\ ToSet(<< >>) = {}
    /\ \A a : ToSet(<<a>>) = {a}
    /\ \A a, b : ToSet(<<a, b>>) = {a, b}
    /\ \A a, b, c, d : ToSet(<<a, b, c, d>>) = {a, b, c, d}
BY DEF ToSet

LEMMA OneSeq ==
    ASSUME NEW T
    PROVE  << >> \in Seq(T) /\ \A a \in T : <<a>> \in Seq(T) /\ <<a>> # << >>
OBVIOUS

LEMMA TodoFacts ==
    /\ \A a : << >> \o <<a>> = <<a>> /\ Head(<<a>>) = a /\ Tail(<<a>>) = << >>
    /\ \A a, b : <<a>> \o <<b>> = <<a, b>> /\ Head(<<a, b>>) = a /\ Tail(<<a, b>>) = <<b>>
<1>1. ASSUME NEW a PROVE << >> \o <<a>> = <<a>> /\ Head(<<a>>) = a /\ Tail(<<a>>) = << >>
  <2>1. <<a>> \in Seq({a}) /\ << >> \in Seq({a}) /\ Len(<<a>>) = 1
    OBVIOUS
  <2>2. Head(<<a>>) = a /\ Tail(<<a>>) \in Seq({a}) /\ Len(Tail(<<a>>)) = 0
    BY <2>1, HeadTailProperties
  <2> QED
    BY <2>1, <2>2, EmptySeq, ConcatEmptySeq
<1>2. ASSUME NEW a, NEW b
      PROVE  <<a>> \o <<b>> = <<a, b>> /\ Head(<<a, b>>) = a /\ Tail(<<a, b>>) = <<b>>
  <2> DEFINE T == {a, b}
  <2>1. <<a>> \in Seq(T) /\ <<b>> \in Seq(T) /\ <<a, b>> \in Seq(T)
        /\ Len(<<a>>) = 1 /\ Len(<<b>>) = 1 /\ Len(<<a, b>>) = 2
    OBVIOUS
  <2>2. /\ <<a>> \o <<b>> \in Seq(T) /\ Len(<<a>> \o <<b>>) = 2
        /\ (<<a>> \o <<b>>)[1] = a /\ (<<a>> \o <<b>>)[2] = b
    BY <2>1, ConcatProperties
  <2>3. /\ Head(<<a, b>>) = a /\ Tail(<<a, b>>) \in Seq(T) /\ Len(Tail(<<a, b>>)) = 1
        /\ Tail(<<a, b>>)[1] = b
    BY <2>1, HeadTailProperties
  <2> HIDE DEF T
  <2>4. <<a>> \o <<b>> = <<a, b>>
    <3>1. <<a, b>>[1] = a /\ <<a, b>>[2] = b
      OBVIOUS
    <3> DEFINE x == <<a>> \o <<b>>
               y == <<a, b>>
    <3>2. x \in Seq(T) /\ y \in Seq(T) /\ Len(x) = 2 /\ Len(y) = 2
          /\ x[1] = y[1] /\ x[2] = y[2]
      BY <2>1, <2>2, <3>1
    <3> HIDE DEF x, y
    <3>3. \A i \in 1 .. Len(x) : x[i] = y[i]
      BY <3>2
    <3>4. x = y
      BY <3>2, <3>3, SeqEqual
    <3> QED
      BY <3>4 DEF x, y
  <2>5. Tail(<<a, b>>) = <<b>>
    BY <2>1, <2>3, SeqEqual
  <2> QED
    BY <2>3, <2>4, <2>5
<1> QED
  BY <1>1, <1>2

\* A script starts to deploy.
LEMMA StartInv ==
    ASSUME DPInv, NEW task \in Components, Started(task),
           NEW key \in Keys, key[1] = task, task \in Kept => ~Saved(task),
           NEW inx, SendAndWait(task, key, inx, << >>),
           \A i \in ToSet(inx) : InstructionInv(i), MinterGranted(ToSet(inx)),
           \E i \in Making(ToSet(inx)) : i.key = key,
           task = "mTokenDataFeed" => inx[1].op = "newFeed"
    PROVE  DPInv'
<1> DEFINE tx == Tx(inx)
<1>1. tx.inx = inx
  BY DEF Tx
<1>2. TxInv(ToSet(inx)) /\ ~RevokesAdmin(ToSet(inx))
  BY DEF TxInv, RevokesAdmin, InstructionInv, CREATIONS
<1>3. /\ script' = [task |-> task, key |-> key, tx |-> tx, confirmed |-> FALSE, todo |-> << >>]
      /\ flight' = flight \cup {tx} /\ UNCHANGED <<ledger, addresses>>
      /\ hasty' = (hasty \/ flight # {})
  BY DEF SendAndWait, Started
<1> HIDE DEF tx
<1>4. ScriptInv'
  <2>1. Creating'
    BY <1>1, <1>3 DEF Creating
  <2> QED
    BY <1>3, <2>1 DEF ScriptInv, Deploying, Saved
<1> QED
  BY <1>1, <1>2, <1>3, <1>4, SendInv

LEMMA CreateFacts ==
    ASSUME NEW op \in CREATIONS, NEW key \in Keys, AllSaved(Uses[key[1]]),
           key[1] = "mToken" => op = "newMint", key[1] = "acRole" => op = "newAcRole"
    PROVE  /\ InstructionInv(Create(op, key))
           /\ Create(op, key).key = key /\ Create(op, key).op = op
BY DEF InstructionInv, CreationInv, Create, UsesSaved, CREATIONS

LEMMA GrantFacts ==
    ASSUME NEW account, NEW role, NEW by, account = deployer => by = deployer /\ role \in AutoRoles
    PROVE  /\ InstructionInv(Grant(account, role, by))
           /\ Grant(account, role, by).op = "grantRole"
           /\ <<Grant(account, role, by).ac_role, Grant(account, role, by).account,
                Grant(account, role, by).role>> = <<addresses.acRole, account, role>>
BY DEF InstructionInv, Grant, CREATIONS

\* The scripts of one account.
LEMMA OneAccountInv ==
    ASSUME DPInv, NEW task \in Components, task # "minter", Started(task),
           task \in Kept => Deploys(task), AllSaved(Uses[task]),
           NEW op \in CREATIONS, task = "mToken" => op = "newMint", task = "acRole" => op = "newAcRole",
           task = "mTokenDataFeed" => op = "newFeed",
           NEW key \in Keys, key[1] = task, SendAndWait(task, key, <<Create(op, key)>>, << >>)
    PROVE  DPInv'
<1> DEFINE inx == <<Create(op, key)>>
<1>1. ToSet(inx) = {Create(op, key)} /\ inx[1] = Create(op, key)
  BY ToSetFacts
<1>2. /\ InstructionInv(Create(op, key))
      /\ Create(op, key).key = key /\ Create(op, key).op = op
  BY CreateFacts
<1>3. task \in Kept => ~Saved(task)
  BY DeploysUnsaved
<1>4. MinterGranted(ToSet(inx)) /\ \E i \in Making(ToSet(inx)) : i.key = key
  BY <1>1, <1>2 DEF MinterGranted, Making
<1>5. task = "mTokenDataFeed" => inx[1].op = "newFeed"
  BY <1>1, <1>2
<1> HIDE DEF inx
<1>6. SendAndWait(task, key, inx, << >>) /\ \A i \in ToSet(inx) : InstructionInv(i)
  BY <1>1, <1>2 DEF inx
<1> QED
  BY <1>3, <1>4, <1>5, <1>6, StartInv

LEMMA DeployStepInv == ASSUME DPInv, Deploy PROVE DPInv'
<1> USE DEF Components
<1>1. CASE DeployAcRole
  <2>1. PICK key \in NewKeys("acRole") :
            SendAndWait("acRole", key, <<Create("newAcRole", key)>>, << >>)
    BY <1>1 DEF DeployAcRole
  <2>2. AllSaved(Uses["acRole"])
    BY DEF Uses, AllSaved
  <2> QED
    BY <1>1, <2>1, <2>2, NewKeyFacts, OneAccountInv DEF DeployAcRole, CREATIONS
<1>2. CASE DeployMint
  <2>1. PICK key \in NewKeys("mToken") :
            SendAndWait("mToken", key, <<Create("newMint", key)>>, << >>)
    BY <1>2 DEF DeployMint
  <2>2. AllSaved(Uses["mToken"])
    BY DEF Uses, AllSaved
  <2> QED
    BY <1>2, <2>1, <2>2, NewKeyFacts, OneAccountInv DEF DeployMint, CREATIONS
<1>3. CASE DeployTokenAuthority
  <2>1. ~Saved("tokenAuthority")
    BY <1>3, DeploysUnsaved DEF DeployTokenAuthority
  <2>2. PICK key \in NewKeys("tokenAuthority") :
            SendAndWait("tokenAuthority", key, <<Create("newTokenAuthority", key)>>, << >>)
    BY <1>3, <2>1 DEF DeployTokenAuthority
  <2>3. AllSaved(Uses["tokenAuthority"])
    BY <1>3 DEF Uses, AllSaved, DeployTokenAuthority
  <2> QED
    BY <1>3, <2>2, <2>3, NewKeyFacts, OneAccountInv DEF DeployTokenAuthority, CREATIONS
<1>4. CASE DeployDataFeed
  <2>1. PICK key \in NewKeys("mTokenDataFeed") :
            SendAndWait("mTokenDataFeed", key, <<Create("newFeed", key)>>, << >>)
    BY <1>4 DEF DeployDataFeed
  <2>2. AllSaved(Uses["mTokenDataFeed"])
    BY <1>4 DEF Uses, AllSaved, DeployDataFeed
  <2> QED
    BY <1>4, <2>1, <2>2, NewKeyFacts, OneAccountInv DEF DeployDataFeed, CREATIONS
<1>5. CASE DeployRedeemerVault
  <2>1. PICK key \in NewKeys("redeemer") :
            SendAndWait("redeemer", key, <<Create("newVault", key)>>, << >>)
    BY <1>5 DEF DeployRedeemerVault, RedeemerInx
  <2>2. AllSaved(Uses["redeemer"]) /\ "redeemer" \notin Kept
    BY <1>5 DEF Uses, AllSaved, DeployRedeemerVault, Kept
  <2> QED
    BY <1>5, <2>1, <2>2, NewKeyFacts, OneAccountInv DEF DeployRedeemerVault, CREATIONS
<1>6. CASE DeployMinterVault
  <2>1. PICK key \in NewKeys("minter") : SendAndWait("minter", key, MinterInx(key), << >>)
    BY <1>6 DEF DeployMinterVault
  <2>2. key \in Keys /\ key[1] = "minter" /\ key # deployer
    BY NewKeyFacts, WalletsAssumption
  <2>3. AllSaved(Uses["minter"]) /\ "minter" \notin Kept
    BY <1>6 DEF Uses, AllSaved, DeployMinterVault, Kept
  <2> DEFINE a == Grant(deployer, "vault_admin_role", deployer)
             b == Grant(deployer, "vault_pauser_role", deployer)
             c == Grant(key, M_MINTER, deployer)
             d == Create("newVault", key)
             inx == MinterInx(key)
  <2>4. ToSet(inx) = {a, b, c, d}
    BY ToSetFacts DEF MinterInx
  <2>5. InstructionInv(d) /\ d.key = key /\ d.op = "newVault"
    BY <2>2, <2>3, CreateFacts DEF CREATIONS
  <2>6. /\ InstructionInv(c) /\ c.op = "grantRole"
        /\ <<c.ac_role, c.account, c.role>> = <<addresses.acRole, key, M_MINTER>>
    BY <2>2, GrantFacts
  <2>7. InstructionInv(a) /\ InstructionInv(b) /\ a.op = "grantRole" /\ b.op = "grantRole"
    BY GrantFacts DEF AutoRoles, ROLE_GROUPS
  <2> HIDE DEF a, b, c, d, inx
  <2>8. \A i \in ToSet(inx) : InstructionInv(i)
    BY <2>4, <2>5, <2>6, <2>7
  <2>9. Making(ToSet(inx)) = {d}
    BY <2>4, <2>5, <2>6, <2>7 DEF Making, CREATIONS
  <2>10. MinterGranted(ToSet(inx))
    <3>1. <<addresses.acRole, key, M_MINTER>> \in Triples(ToSet(inx), "grantRole")
      BY <2>4, <2>6 DEF Triples
    <3> QED
      BY <2>5, <2>9, <3>1 DEF MinterGranted
  <2>11. SendAndWait("minter", key, inx, << >>) /\ Started("minter")
    BY <1>6, <2>1 DEF DeployMinterVault, inx
  <2> QED
    BY <2>2, <2>3, <2>5, <2>8, <2>9, <2>10, <2>11, StartInv
<1> QED
  BY <1>1, <1>2, <1>3, <1>4, <1>5, <1>6 DEF Deploy

LEMMA SetToSeqSet ==
    ASSUME NEW S, IsFiniteSet(S)
    PROVE  ToSet(SetToSeq(S)) = S
<1>1. SetToSeq(S) \in Seq(S) /\ \A x \in S : \E n \in DOMAIN SetToSeq(S) : SetToSeq(S)[n] = x
  BY SetToSeqFacts
<1>2. \A n \in DOMAIN SetToSeq(S) : SetToSeq(S)[n] \in S
  BY <1>1
<1> QED
  BY <1>1, <1>2 DEF ToSet

LEMMA ConcatSet ==
    ASSUME NEW T, NEW s \in Seq(T), NEW t \in Seq(T)
    PROVE  ToSet(s \o t) = ToSet(s) \cup ToSet(t)
<1> DEFINE c == s \o t
<1>1. /\ c \in Seq(T) /\ Len(c) = Len(s) + Len(t)
      /\ Len(s) \in Nat /\ Len(t) \in Nat
      /\ \A i \in 1 .. Len(s) + Len(t) : c[i] = IF i <= Len(s) THEN s[i] ELSE t[i - Len(s)]
      /\ DOMAIN s = 1 .. Len(s) /\ DOMAIN t = 1 .. Len(t)
  BY ConcatProperties
<1> HIDE DEF c
<1>2. DOMAIN c = 1 .. Len(s) + Len(t)
  BY <1>1
<1>3. ASSUME NEW x \in ToSet(c) PROVE x \in ToSet(s) \cup ToSet(t)
  <2>1. PICK i \in 1 .. Len(s) + Len(t) : x = c[i]
    BY <1>2, <1>3 DEF ToSet
  <2>2. CASE i <= Len(s)
    BY <1>1, <2>1, <2>2 DEF ToSet
  <2>3. CASE ~(i <= Len(s))
    <3>1. i - Len(s) \in 1 .. Len(t)
      BY <1>1, <2>3
    <3> QED
      BY <1>1, <2>1, <2>3, <3>1 DEF ToSet
  <2> QED
    BY <2>2, <2>3
<1>4. ASSUME NEW x \in ToSet(s) PROVE x \in ToSet(c)
  <2>1. PICK i \in 1 .. Len(s) : x = s[i]
    BY <1>1, <1>4 DEF ToSet
  <2>2. i \in 1 .. Len(s) + Len(t) /\ c[i] = x
    BY <1>1, <2>1
  <2> QED
    BY <1>2, <2>2 DEF ToSet
<1>5. ASSUME NEW x \in ToSet(t) PROVE x \in ToSet(c)
  <2>1. PICK i \in 1 .. Len(t) : x = t[i]
    BY <1>1, <1>5 DEF ToSet
  <2>2. /\ i + Len(s) \in 1 .. Len(s) + Len(t) /\ ~(i + Len(s) <= Len(s))
        /\ (i + Len(s)) - Len(s) = i
    BY <1>1, <2>1
  <2>3. c[i + Len(s)] = x
    BY <1>1, <2>1, <2>2
  <2> QED
    BY <1>2, <2>2, <2>3 DEF ToSet
<1>6. ToSet(c) = ToSet(s) \cup ToSet(t)
  BY <1>3, <1>4, <1>5
<1> QED
  BY <1>6 DEF c

\* Images and small sets are finite.
LEMMA ImageFinite ==
    ASSUME NEW S, IsFiniteSet(S), NEW f, DOMAIN f = S, NEW T, T = {f[x] : x \in S}
    PROVE  IsFiniteSet(T)
<1>1. [x \in S |-> f[x]] \in Surjection(S, T)
  BY DEF Surjection
<1> QED
  BY <1>1, FS_Surjection

LEMMA SmallFinite == \A a, b, c : IsFiniteSet({a, b, c})
<1> TAKE a, b, c
<1>1. IsFiniteSet({a})
  BY FS_Singleton
<1>2. IsFiniteSet({a} \cup {b})
  BY <1>1, FS_AddElement
<1>3. IsFiniteSet(({a} \cup {b}) \cup {c})
  BY <1>2, FS_AddElement
<1>4. ({a} \cup {b}) \cup {c} = {a, b, c}
  OBVIOUS
<1> QED
  BY <1>3, <1>4

LEMMA GrantsFinite ==
    /\ IsFiniteSet(AutoRoles)
    /\ IsFiniteSet(ROLE_GROUPS.ACCESS_CONTROL_ADMIN)
    /\ IsFiniteSet(OperationalGrants)
    /\ \A g \in OperationalGrants : g[1] # deployer
<1>1. IsFiniteSet(AutoRoles)
  <2>1. AutoRoles = {ADMIN_ROLE, "vault_admin_role", "vault_pauser_role"} \cup
                      {"data_feed_admin", "data_feed_admin", "data_feed_admin"}
    BY DEF AutoRoles, ROLE_GROUPS
  <2> QED
    BY <2>1, SmallFinite, FS_Union
<1>2. IsFiniteSet(ROLE_GROUPS.ACCESS_CONTROL_ADMIN)
  <2>1. ROLE_GROUPS.ACCESS_CONTROL_ADMIN \subseteq {"admin_role", "update_account_ac_role", "none"}
    BY DEF ROLE_GROUPS
  <2>2. IsFiniteSet({"admin_role", "update_account_ac_role", "none"})
    BY SmallFinite
  <2> QED
    BY <2>1, <2>2, FS_Subset
<1>3. /\ IsFiniteSet(OperationalGrants)
      /\ \A g \in OperationalGrants : g[1] # deployer
  <2> DEFINE A == {<<token_manager, "m_minter_role">>, <<token_manager, "m_burner_role">>,
                   <<token_manager, "m_freezer_role">>}
             B == {<<vaults_manager, "vault_admin_role">>, <<vaults_manager, "vault_pauser_role">>,
                   <<oracle_manager, "data_feed_admin">>}
             x == <<ac_admin, "update_account_ac_role">>
             C == {x, x, x}
  <2>1. OperationalGrants = A \cup B \cup C
    BY DEF OperationalGrants, ROLE_GROUPS
  <2>2. IsFiniteSet(A) /\ IsFiniteSet(B) /\ IsFiniteSet(C)
    BY SmallFinite
  <2>3. \A g \in A \cup B \cup C : g[1] # deployer
    BY WalletsAssumption
  <2> HIDE DEF A, B, C
  <2>4. IsFiniteSet(A \cup B)
    BY <2>2, FS_Union
  <2>5. IsFiniteSet(A \cup B \cup C)
    BY <2>2, <2>4, FS_Union
  <2> QED
    BY <2>1, <2>3, <2>5
<1> QED
  BY <1>1, <1>2, <1>3

\* A transaction of grants to others than the deployer.
LEMMA GrantsInv ==
    ASSUME DPInv, NEW G, NEW inx, ToSet(inx) = G,
           \A i \in G : \E a, r, b : a # deployer /\ i = Grant(a, r, b)
    PROVE  TxInv(G) /\ ~RevokesAdmin(G)
<1>1. \A i \in G : InstructionInv(i) /\ i.op = "grantRole"
  BY GrantFacts
<1> QED
  BY <1>1 DEF TxInv, RevokesAdmin, MinterGranted, Making, CREATIONS

\* A script of the hand-over starts and waits.
LEMMA HandInv ==
    ASSUME DPInv, NEW task \in {"transfer", "grant-admin"}, Started(task),
           NEW inx, NEW todo \in Seq(MoveInxs), SendAndWait(task, None, inx, todo),
           AllSaved({"mToken", "tokenAuthority"}) \/ todo = << >>,
           TxInv(ToSet(inx)), ~RevokesAdmin(ToSet(inx))
    PROVE  DPInv'
<1> DEFINE tx == Tx(inx)
<1>1. tx.inx = inx
  BY DEF Tx
<1>2. /\ script' = [task |-> task, key |-> None, tx |-> tx, confirmed |-> FALSE, todo |-> todo]
      /\ flight' = flight \cup {tx} /\ UNCHANGED <<ledger, addresses>>
      /\ hasty' = (hasty \/ flight # {})
  BY DEF SendAndWait, Started
<1> HIDE DEF tx
<1>3. ScriptInv'
  <2>1. Handing'
    BY <1>2 DEF Handing, AllSaved, Saved, MoveInxs
  <2> QED
    BY <1>2, <2>1 DEF ScriptInv
<1> QED
  BY <1>1, <1>2, <1>3, SendInv

\* The transfer of one authority.
LEMMA MoveFacts ==
    ASSUME AllSaved({"mToken", "tokenAuthority"}), NEW inx \in MoveInxs
    PROVE  TxInv(ToSet(inx)) /\ ~RevokesAdmin(ToSet(inx))
<1>1. PICK t \in ToSet(TOKEN_AUTHORITY_TYPES) :
          inx = <<[op |-> "setAuthority", key |-> addresses.mToken, type |-> t,
                   to |-> addresses.tokenAuthority]>>
  BY DEF MoveInxs
<1> DEFINE i == [op |-> "setAuthority", key |-> addresses.mToken, type |-> t,
                 to |-> addresses.tokenAuthority]
<1>2. ToSet(inx) = {i}
  BY <1>1, ToSetFacts
<1>3. InstructionInv(i) /\ i.op = "setAuthority"
  BY DEF InstructionInv, AllSaved, CREATIONS
<1> HIDE DEF i
<1> QED
  BY <1>2, <1>3 DEF TxInv, RevokesAdmin, MinterGranted, Making, CREATIONS

LEMMA TransferInv == ASSUME DPInv, TransferAuthorities PROVE DPInv'
<1> DEFINE Move(n) == MoveTxs(TOKEN_AUTHORITY_TYPES[n])
<1>1. \A n \in 1 .. 3 : TOKEN_AUTHORITY_TYPES[n] \in ToSet(TOKEN_AUTHORITY_TYPES)
  BY DEF TOKEN_AUTHORITY_TYPES, ToSet
<1>2. \A n \in 1 .. 3 : Move(n) \in Seq(MoveInxs)
  <2> SUFFICES ASSUME NEW t \in ToSet(TOKEN_AUTHORITY_TYPES)
               PROVE  MoveTxs(t) \in Seq(MoveInxs)
    BY <1>1
  <2> DEFINE move == <<[op |-> "setAuthority", key |-> addresses.mToken, type |-> t,
                        to |-> addresses.tokenAuthority]>>
  <2>1. move \in MoveInxs
    BY DEF MoveInxs
  <2>2. MoveTxs(t) = << >> \/ MoveTxs(t) = <<move>>
    BY DEF MoveTxs
  <2> HIDE DEF move
  <2> QED
    BY <2>1, <2>2, OneSeq
<1>3. TransferTxs = (Move(1) \o Move(2)) \o Move(3)
  BY DEF TransferTxs
<1> HIDE DEF Move
<1>4. Move(1) \o Move(2) \in Seq(MoveInxs)
  BY <1>2, ConcatProperties
<1>5. TransferTxs \in Seq(MoveInxs)
  BY <1>2, <1>3, <1>4, ConcatProperties
<1>6. TransferTxs # << >> /\ AllSaved({"mToken", "tokenAuthority"}) /\ Started("transfer")
      /\ SendAndWait("transfer", None, Head(TransferTxs), Tail(TransferTxs))
  BY DEF TransferAuthorities
<1>7. Head(TransferTxs) \in MoveInxs /\ Tail(TransferTxs) \in Seq(MoveInxs)
  BY <1>5, <1>6, HeadTailProperties
<1>8. TxInv(ToSet(Head(TransferTxs))) /\ ~RevokesAdmin(ToSet(Head(TransferTxs)))
  BY <1>6, <1>7, MoveFacts
<1> QED
  BY <1>6, <1>7, <1>8, HandInv

LEMMA GrantAdminInv == ASSUME DPInv, GrantAdmin PROVE DPInv'
<1> DEFINE missing == {r \in ROLE_GROUPS.ACCESS_CONTROL_ADMIN :
                         ~Holds(ledger, addresses.acRole, ac_admin, r)}
           G == {Grant(ac_admin, r, deployer) : r \in missing}
           inx == SetToSeq(G)
<1>1. IsFiniteSet(missing)
  BY GrantsFinite, FS_Subset
<1>2. IsFiniteSet(G)
  <2> DEFINE f == [r \in missing |-> Grant(ac_admin, r, deployer)]
  <2>1. DOMAIN f = missing /\ G = {f[r] : r \in missing}
    OBVIOUS
  <2> HIDE DEF f, G, missing
  <2> QED
    BY <1>1, <2>1, ImageFinite
<1>3. Started("grant-admin") /\ SendAndWait("grant-admin", None, inx, << >>)
  BY DEF GrantAdmin
<1>4. \A i \in G : \E a, r, b : a # deployer /\ i = Grant(a, r, b)
  BY WalletsAssumption
<1>5. << >> \in Seq(MoveInxs)
  OBVIOUS
<1> HIDE DEF missing, G
<1>6. ToSet(inx) = G
  BY <1>2, SetToSeqSet
<1> HIDE DEF inx
<1>7. TxInv(ToSet(inx)) /\ ~RevokesAdmin(ToSet(inx))
  BY <1>4, <1>6, GrantsInv
<1> QED
  BY <1>3, <1>5, <1>7, HandInv

LEMMA OperationalInv == ASSUME DPInv, GrantOperational PROVE DPInv'
<1> DEFINE missing == {g \in OperationalGrants : ~Holds(ledger, addresses.acRole, g[1], g[2])}
           G == {Grant(g[1], g[2], ac_admin) : g \in missing}
           inx == SetToSeq(G)
           tx == Tx(inx)
<1>1. IsFiniteSet(missing)
  BY GrantsFinite, FS_Subset
<1>2. IsFiniteSet(G)
  <2> DEFINE f == [g \in missing |-> Grant(g[1], g[2], ac_admin)]
  <2>1. DOMAIN f = missing /\ G = {f[g] : g \in missing}
    OBVIOUS
  <2> HIDE DEF f, G, missing
  <2> QED
    BY <1>1, <2>1, ImageFinite
<1>3. /\ flight' = flight \cup {tx} /\ UNCHANGED <<ledger, addresses, script>>
      /\ hasty' = (hasty \/ flight # {}) /\ Idle
  BY DEF GrantOperational, Started, SendAndLeave
<1>4. \A i \in G : \E a, r, b : a # deployer /\ i = Grant(a, r, b)
  BY GrantsFinite
<1> HIDE DEF missing, G
<1>5. ToSet(inx) = G
  BY <1>2, SetToSeqSet
<1> HIDE DEF inx
<1>6. TxInv(ToSet(inx)) /\ ~RevokesAdmin(ToSet(inx))
  BY <1>4, <1>5, GrantsInv
<1>7. tx.inx = inx
  BY DEF Tx
<1> HIDE DEF tx
<1>8. ScriptInv'
  BY <1>3 DEF ScriptInv, Idle
<1> QED
  BY <1>3, <1>6, <1>7, <1>8, SendInv

LEMMA RevokeStepInv == ASSUME DPInv, RevokeDeployer PROVE DPInv'
<1> DEFINE role == addresses.acRole
           others == {r \in AutoRoles \ {ADMIN_ROLE} : Holds(ledger, role, deployer, r)}
           last == IF CanRevokeAdmin THEN <<ADMIN_ROLE>> ELSE << >>
           order == SetToSeq(others) \o last
           inx == [n \in DOMAIN order |-> Revoke(deployer, order[n], deployer)]
           tx == Tx(inx)
           S == ToSet(inx)
<1>1. /\ flight' = flight \cup {tx} /\ UNCHANGED <<ledger, addresses, script>>
      /\ hasty' = (hasty \/ flight # {}) /\ Idle /\ Saved("acRole")
      /\ Holds(ledger, role, deployer, ADMIN_ROLE)
  BY DEF RevokeDeployer, Started, SendAndLeave
<1>2. ToSet(order) = others \cup (IF CanRevokeAdmin THEN {ADMIN_ROLE} ELSE {})
  <2>1. IsFiniteSet(others)
    BY GrantsFinite, FS_Subset
  <2> DEFINE T == others \cup {ADMIN_ROLE}
  <2> HIDE DEF others
  <2>2. SetToSeq(others) \in Seq(T) /\ ToSet(SetToSeq(others)) = others
    <3>1. SetToSeq(others) \in Seq(others) /\ others \subseteq T
      BY <2>1, SetToSeqFacts
    <3> HIDE DEF T
    <3> QED
      BY <2>1, <3>1, SetToSeqSet, SeqMonotonic
  <2>3. last \in Seq(T) /\ ToSet(last) = IF CanRevokeAdmin THEN {ADMIN_ROLE} ELSE {}
    <3>1. ADMIN_ROLE \in T
      OBVIOUS
    <3> HIDE DEF T
    <3> QED
      BY <3>1, ToSetFacts, OneSeq
  <2> HIDE DEF T, last
  <2> QED
    BY <2>2, <2>3, ConcatSet
<1>3. S = {Revoke(deployer, r, deployer) : r \in ToSet(order)}
  <2> HIDE DEF order
  <2>1. DOMAIN inx = DOMAIN order /\ \A n \in DOMAIN order : inx[n] = Revoke(deployer, order[n], deployer)
    OBVIOUS
  <2> HIDE DEF inx
  <2> QED
    BY <2>1 DEF ToSet
<1>4. \A r : /\ Revoke(deployer, r, deployer).op = "revokeRole"
             /\ Revoke(deployer, r, deployer).account = deployer
             /\ Revoke(deployer, r, deployer).ac_role = role
             /\ Revoke(deployer, r, deployer).role = r
  BY DEF Revoke, Grant
<1> HIDE DEF order, inx
<1>5. TxInv(S)
  <2> SUFFICES ASSUME NEW r \in ToSet(order) PROVE RevokeInv(Revoke(deployer, r, deployer))
    BY <1>3 DEF TxInv
  <2>1. r = ADMIN_ROLE => CanRevokeAdmin
    BY <1>2
  <2> QED
    BY <1>1, <1>4, <2>1 DEF RevokeInv, CanRevokeAdmin
<1>6. tx.inx = inx
  BY DEF Tx
<1> HIDE DEF tx
<1>7. FlightInv'
  <2>1. hasty => hasty'
    BY <1>1, Zenon
  <2> HIDE DEF S
  <2>2. \A t \in flight' : TxInv(ToSet(t.inx))
    BY <1>1, <1>5, <1>6 DEF DPInv, FlightInv, S
  <2>3. \A t \in flight' : TxInv(ToSet(t.inx))'
    BY <1>1, <2>1, <2>2, ChainSame
  <2> QED
    BY <2>3 DEF FlightInv
<1>8. AloneInv'
  <2> SUFFICES ASSUME ~hasty', NEW t \in flight', RevokesAdmin(ToSet(t.inx))
               PROVE  /\ flight' = {t} /\ Idle'
                      /\ \A x \in ledger.roles : x[1] = role /\ x[2] = deployer =>
                             x \in Triples(ToSet(t.inx), "revokeRole")
    BY <1>1 DEF AloneInv
  <2>1. flight = {} /\ t = tx /\ flight' = {t} /\ Idle'
    BY <1>1 DEF Idle
  <2>2. PICK i \in S : i.role = ADMIN_ROLE
    BY <1>6, <2>1 DEF RevokesAdmin
  <2>3. CanRevokeAdmin
    BY <1>2, <1>3, <1>4, <2>2
  <2>4. ASSUME NEW x \in ledger.roles, x[1] = role, x[2] = deployer
        PROVE  x \in Triples(S, "revokeRole")
    <3>1. x = <<role, deployer, x[3]>> /\ x[3] \in AutoRoles
      BY <2>4 DEF DPInv, RolesInv
    <3>2. x[3] \in ToSet(order)
      BY <1>2, <2>3, <3>1 DEF Holds
    <3>3. Revoke(deployer, x[3], deployer) \in S
      BY <1>3, <3>2
    <3> HIDE DEF S
    <3> QED
      BY <1>4, <3>1, <3>3 DEF Triples
  <2> QED
    BY <1>6, <2>1, <2>4
<1>9. ScriptInv'
  BY <1>1 DEF ScriptInv, Idle
<1>10. hasty => hasty'
  BY <1>1, Zenon
<1> QED
  BY <1>1, <1>7, <1>8, <1>9, <1>10, ChainSame DEF DPInv

\* The base feed is there: its role, or its price.
LEMMA BaseFeedInv == ASSUME DPInv, BaseFeedDone PROVE DPInv'
<1> DEFINE todo == ManualFeedTxs(script.key)
           tx == Tx(Head(todo))
           grant == <<Grant(deployer, FEED_ADMIN, deployer)>>
           price == FeedInx(script.key)
<1>1. /\ ~Idle /\ script.task = "mTokenDataFeed" /\ script.confirmed
      /\ script.tx.inx[1].op = "newFeed" /\ UNCHANGED <<ledger, addresses, hasty>>
      /\ script' = [script EXCEPT !.tx = tx, !.confirmed = FALSE, !.todo = Tail(todo)]
      /\ flight' = flight \cup {tx}
  BY DEF BaseFeedDone, SendNext
<1>2. /\ Deploying /\ Creating
      /\ script = [task |-> script.task, key |-> script.key, tx |-> script.tx,
                   confirmed |-> script.confirmed, todo |-> script.todo]
  <2>1. ~Handing
    BY <1>1 DEF Handing
  <2>2. ~GrantingFeed
    BY <1>1 DEF GrantingFeed
  <2>3. ~PricingFeed
    BY <1>1 DEF PricingFeed, FeedInx
  <2> QED
    BY <1>1, <2>1, <2>2, <2>3 DEF DPInv, ScriptInv, Deploying
<1>3. Exists(ledger, script.key)
  BY <1>1, <1>2 DEF Creating
<1>4. tx.inx = Head(todo)
  BY DEF Tx
<1>5. \/ Head(todo) = price /\ Tail(todo) = << >>
      \/ Head(todo) = grant /\ Tail(todo) = <<price>>
  <2>1. todo = << >> \o <<price>> \/ todo = <<grant>> \o <<price>>
    BY DEF ManualFeedTxs, FeedInx
  <2>2. << >> \o <<price>> = <<price>> /\ Head(<<price>>) = price /\ Tail(<<price>>) = << >>
    BY TodoFacts
  <2>3. /\ <<grant>> \o <<price>> = <<grant, price>>
        /\ Head(<<grant, price>>) = grant /\ Tail(<<grant, price>>) = <<price>>
    <3> HIDE DEF grant, price
    <3> QED
      BY TodoFacts
  <2> HIDE DEF grant, price, todo
  <2> QED
    BY <2>1, <2>2, <2>3, Zenon
<1>6. TxInv(ToSet(Head(todo))) /\ ~RevokesAdmin(ToSet(Head(todo)))
  <2>1. CASE Head(todo) = price
    <3> DEFINE i == [op |-> "newManualFeed", key |-> script.key, by |-> deployer]
    <3>1. ToSet(price) = {i}
      BY ToSetFacts DEF FeedInx
    <3>2. InstructionInv(i) /\ i.op = "newManualFeed"
      BY DEF InstructionInv, CREATIONS
    <3> HIDE DEF i, price, todo
    <3> QED
      BY <2>1, <3>1, <3>2 DEF TxInv, RevokesAdmin, MinterGranted, Making, CREATIONS
  <2>2. CASE Head(todo) = grant
    <3> DEFINE i == Grant(deployer, FEED_ADMIN, deployer)
    <3>1. ToSet(grant) = {i}
      BY ToSetFacts
    <3>2. InstructionInv(i) /\ i.op = "grantRole"
      BY GrantFacts DEF AutoRoles, ROLE_GROUPS, FEED_ADMIN
    <3> HIDE DEF i, grant, todo
    <3> QED
      BY <2>2, <3>1, <3>2 DEF TxInv, RevokesAdmin, MinterGranted, Making, CREATIONS
  <2> QED
    BY <1>5, <2>1, <2>2
<1> HIDE DEF todo, tx
<1>7. /\ script' = [task |-> script'.task, key |-> script'.key, tx |-> script'.tx,
                    confirmed |-> script'.confirmed, todo |-> script'.todo]
      /\ script'.task = script.task /\ script'.key = script.key
      /\ script'.tx = tx /\ script'.todo = Tail(todo) /\ script'.confirmed = FALSE
  BY <1>1, <1>2
<1>8. GrantingFeed' \/ PricingFeed'
  <2>1. CASE Head(todo) = price /\ Tail(todo) = << >>
    BY <1>1, <1>3, <1>4, <1>7, <2>1 DEF PricingFeed, FeedInx
  <2>2. CASE Head(todo) = grant /\ Tail(todo) = <<price>>
    <3>1. grant[1].op = "grantRole"
      BY GrantFacts DEF AutoRoles, ROLE_GROUPS, FEED_ADMIN
    <3> QED
      BY <1>1, <1>3, <1>4, <1>7, <2>2, <3>1 DEF GrantingFeed, FeedInx
  <2> QED
    BY <1>5, <2>1, <2>2
<1>9. ScriptInv'
  <2>1. Deploying'
    BY <1>1, <1>2, <1>7, <1>8 DEF Deploying, Saved
  <2> QED
    BY <1>7, <2>1 DEF ScriptInv
<1> QED
  BY <1>1, <1>4, <1>6, <1>9, SendInv

\* The next transaction of a script that waits for each of them.
LEMMA NextTxInv == ASSUME DPInv, NextTx PROVE DPInv'
<1> DEFINE todo == script.todo
           tx == Tx(Head(todo))
<1>1. /\ ~Idle /\ todo # << >> /\ UNCHANGED <<ledger, addresses, hasty>>
      /\ script' = [script EXCEPT !.tx = tx, !.confirmed = FALSE, !.todo = Tail(todo)]
      /\ flight' = flight \cup {tx}
  BY DEF NextTx, SendNext
<1>2. /\ Deploying \/ Handing
      /\ script = [task |-> script.task, key |-> script.key, tx |-> script.tx,
                   confirmed |-> script.confirmed, todo |-> script.todo]
  BY <1>1 DEF DPInv, ScriptInv
<1>3. tx.inx = Head(todo)
  BY DEF Tx
<1> HIDE DEF tx
<1>4. /\ script' = [task |-> script'.task, key |-> script'.key, tx |-> script'.tx,
                    confirmed |-> script'.confirmed, todo |-> script'.todo]
      /\ script'.task = script.task /\ script'.key = script.key
      /\ script'.tx = tx /\ script'.todo = Tail(todo) /\ script'.confirmed = FALSE
  BY <1>1, <1>2
<1>5. CASE Handing
  <2>1. /\ Head(todo) \in MoveInxs /\ Tail(todo) \in Seq(MoveInxs)
        /\ AllSaved({"mToken", "tokenAuthority"})
    BY <1>1, <1>5, HeadTailProperties DEF Handing
  <2>2. TxInv(ToSet(Head(todo))) /\ ~RevokesAdmin(ToSet(Head(todo)))
    BY <2>1, MoveFacts
  <2>3. ScriptInv'
    <3>1. MoveInxs' = MoveInxs /\ AllSaved({"mToken", "tokenAuthority"})'
      BY <1>1, <2>1 DEF MoveInxs, AllSaved, Saved
    <3>2. Handing'
      BY <1>4, <1>5, <2>1, <3>1 DEF Handing
    <3> QED
      BY <1>4, <3>2 DEF ScriptInv
  <2> QED
    BY <1>1, <1>3, <2>2, <2>3, SendInv
<1>6. CASE Deploying
  <2> DEFINE price == FeedInx(script.key)
             i == [op |-> "newManualFeed", key |-> script.key, by |-> deployer]
  <2>1. GrantingFeed
    BY <1>1, <1>6 DEF Deploying, Creating, PricingFeed
  <2>2. Head(todo) = price /\ Tail(todo) = << >> /\ Exists(ledger, script.key)
    BY <2>1, TodoFacts DEF GrantingFeed
  <2>3. TxInv(ToSet(price)) /\ ~RevokesAdmin(ToSet(price))
    <3>1. ToSet(price) = {i}
      BY ToSetFacts DEF FeedInx
    <3>2. InstructionInv(i) /\ i.op = "newManualFeed"
      BY DEF InstructionInv, CREATIONS
    <3> HIDE DEF i, price
    <3> QED
      BY <3>1, <3>2 DEF TxInv, RevokesAdmin, MinterGranted, Making, CREATIONS
  <2>4. ScriptInv'
    <3>1. PricingFeed'
      BY <1>1, <1>3, <1>4, <2>1, <2>2 DEF PricingFeed, GrantingFeed, FeedInx
    <3>2. Deploying'
      BY <1>1, <1>4, <1>6, <3>1 DEF Deploying, Saved
    <3> QED
      BY <1>4, <3>2 DEF ScriptInv
  <2> QED
    BY <1>1, <1>3, <2>2, <2>3, <2>4, SendInv
<1> QED
  BY <1>2, <1>5, <1>6

\* What is saved is on chain, and all that others in the file refer to stays.
LEMMA FinishInv == ASSUME DPInv, Finish PROVE DPInv'
<1> DEFINE c == script.task
           k == script.key
<1>1. /\ ~Idle /\ Complete /\ script' = None /\ UNCHANGED <<ledger, flight, hasty>>
      /\ addresses' = IF c \in Components THEN [addresses EXCEPT ![c] = k] ELSE addresses
  BY DEF Finish
<1>2. ScriptInv' /\ Idle'
  BY <1>1 DEF ScriptInv, Idle
<1>3. CASE c \notin Components
  BY <1>1, <1>2, <1>3, DropInv
<1>4. CASE c \in Components
  <2>1. Deploying
    BY <1>1, <1>4 DEF DPInv, ScriptInv, Handing, Components
  <2>2. /\ Exists(ledger, k) /\ k \in Keys /\ k[1] = c
        /\ c = "mTokenDataFeed" => k \in ledger.manual
        /\ c \in Kept => ~Saved(c)
    <3>1. CASE Creating
      BY <1>1, <2>1, <3>1 DEF Deploying, Creating, Complete
    <3>2. ~GrantingFeed
      BY <1>1, OneSeq DEF GrantingFeed, Complete
    <3>3. CASE PricingFeed
      BY <1>1, <2>1, <3>3 DEF Deploying, PricingFeed, Complete
    <3> QED
      BY <2>1, <3>1, <3>2, <3>3 DEF Deploying
  <2>3. AccountInv(k)
    BY <2>2 DEF DPInv, AccountsInv, Exists
  <2> HIDE DEF c, k
  <2>4. \A d \in Components : addresses'[d] = IF d = c THEN k ELSE addresses[d]
    BY <1>1, <1>4 DEF DPInv, AddressesInv
  <2>5. \A d \in Kept : Saved(d) => addresses'[d] = addresses[d]
    BY <2>2, <2>4 DEF Kept
  <2>6. \A d \in Components : AllSaved(Uses[d]) =>
            AllSaved(Uses[d])' /\ \A e \in Uses[d] : addresses'[e] = addresses[e]
    BY <2>5, UsesFacts DEF AllSaved, Saved
  <2>7. AddressesInv'
    <3>1. addresses' \in [Components -> Keys \cup {None}]
      BY <1>1, <1>4, <2>2 DEF DPInv, AddressesInv
    <3> QED
      BY <2>2, <2>4, <3>1 DEF DPInv, AddressesInv, Saved
  <2>8. AccountsInv'
    <3> SUFFICES ASSUME NEW x \in DOMAIN ledger.accounts PROVE AccountInv(x)'
      BY <1>1 DEF AccountsInv
    <3>1. AccountInv(x) /\ x[1] \in Components
      BY DEF DPInv, AccountsInv, AccountInv, Keys
    <3>2. AllSaved(Uses[x[1]])' /\ UsesSaved(x)' = UsesSaved(x)
      BY <2>6, <3>1 DEF AccountInv, UsesSaved
    <3>3. x[1] = "minter" => addresses'.acRole = addresses.acRole
      BY <2>6, <3>1, UsesFacts DEF AccountInv
    <3> QED
      BY <1>1, <3>1, <3>2, <3>3 DEF AccountInv
  <2>9. PowersInv'
    <3>1. "tokenAuthority" \in Kept
      BY UsesFacts
    <3> QED
      BY <1>1, <2>5, <3>1 DEF DPInv, PowersInv, Saved
  <2>10. Together'
    <3> SUFFICES ASSUME NEW d \in Components, Saved(d)'
                 PROVE  /\ Exists(ledger, addresses'[d])
                        /\ d = "mTokenDataFeed" => addresses'[d] \in ledger.manual
                        /\ \A e \in Uses[d] : ledger.accounts[addresses'[d]][e] = addresses'[e]
      BY <1>1 DEF Together
    <3>1. ASSUME NEW x, x = addresses'[d], AccountInv(x), x[1] = d
          PROVE  \A e \in Uses[d] : ledger.accounts[x][e] = addresses'[e]
      BY <2>6, <3>1 DEF AccountInv, UsesSaved
    <3>2. CASE d = c
      BY <2>2, <2>3, <2>4, <3>1, <3>2
    <3>3. CASE d # c
      <4>1. addresses'[d] = addresses[d] /\ Saved(d)
        BY <2>4, <3>3 DEF Saved
      <4>2. Exists(ledger, addresses[d]) /\ addresses[d][1] = d
            /\ (d = "mTokenDataFeed" => addresses[d] \in ledger.manual)
        BY <4>1 DEF DPInv, Together, AddressesInv
      <4>3. AccountInv(addresses[d])
        BY <4>2 DEF DPInv, AccountsInv, Exists
      <4> QED
        BY <3>1, <4>1, <4>2, <4>3
    <3> QED
      BY <3>2, <3>3
  <2>11. FlightInv'
    BY <1>1, <2>5, SentStable DEF DPInv, FlightInv
  <2>12. RolesInv' /\ AdminNeverLost' /\ HandOverClean'
    BY <1>1 DEF DPInv, RolesInv, AdminNeverLost, HandOverClean
  <2>13. AloneInv'
    BY <1>1 DEF DPInv, AloneInv
  <2> QED
    BY <1>2, <2>7, <2>8, <2>9, <2>10, <2>11, <2>12, <2>13 DEF DPInv
<1> QED
  BY <1>3, <1>4

LEMMA DPInitInv == DPInit => DPInv
<1> SUFFICES ASSUME DPInit PROVE DPInv
  OBVIOUS
<1>1. ledger.roles = {} /\ DOMAIN ledger.accounts = {} /\ DOMAIN ledger.powers = {}
  BY DEF DPInit
<1>2. addresses \in [Components -> Keys \cup {None}] /\ \A c \in Components : ~Saved(c)
  BY DEF DPInit, Saved
<1> QED
  BY <1>1, <1>2 DEF DPInit, DPInv, AddressesInv, Together, AccountsInv, PowersInv, RolesInv,
     AdminNeverLost, FlightInv, ScriptInv, Idle, HandOverClean, AloneInv

LEMMA DPStepInv == DPInv /\ [DPNext]_dpVars => DPInv'
<1> SUFFICES ASSUME DPInv, [DPNext]_dpVars PROVE DPInv'
  OBVIOUS
<1>1. CASE Deploy
  BY <1>1, DeployStepInv
<1>2. CASE HandOver
  BY <1>2, TransferInv, GrantAdminInv, OperationalInv, RevokeStepInv DEF HandOver
<1>3. CASE BaseFeedDone \/ NextTx
  BY <1>3, BaseFeedInv, NextTxInv
<1>4. CASE Finish
  BY <1>4, FinishInv
<1>5. CASE Timeout \/ Crash
  BY <1>5, DropInv DEF Timeout, Crash, Failing
<1>6. ASSUME NEW tx \in flight, Land(tx) PROVE DPInv'
  BY <1>6, LandInv
<1>7. ASSUME NEW tx \in flight, Drop(tx) PROVE DPInv'
  BY <1>7, DropInv DEF Drop
<1>8. CASE UNCHANGED dpVars
  BY <1>8, DropInv DEF dpVars
<1> QED
  BY <1>1, <1>2, <1>3, <1>4, <1>5, <1>6, <1>7, <1>8 DEF DPNext

LEMMA DeploymentInvariant == DPSpec => []DPInv
BY DPInitInv, DPStepInv, PTL DEF DPSpec

\* The file of addresses names one deployment that is there and hangs together,
\* whatever scripts were stopped where, and whatever landed late
\* (registerAddress after waitForTx, shown by verify-mtoken-state.ts).
THEOREM DeploymentConsistent == DPSpec => []SavedTogether
<1>1. DPInv => SavedTogether
  <2> SUFFICES ASSUME Together PROVE SavedTogether
    BY DEF DPInv
  <2>1. ASSUME NEW c \in Components, Saved(c), NEW S, S = Uses[c]
        PROVE  Fetched(c, S) = [d \in Uses[c] |-> addresses[d]]
    BY <2>1 DEF Together, Fetched
  <2>2. /\ Uses["tokenAuthority"] = {"acRole"}
        /\ Uses["mTokenDataFeed"] = {"acRole"}
        /\ Uses["minter"] = {"mToken", "acRole", "mTokenDataFeed", "tokenAuthority"}
        /\ Uses["redeemer"] = {"mToken", "acRole", "mTokenDataFeed"}
    BY DEF Uses
  <2>3. {"tokenAuthority", "mTokenDataFeed", "minter", "redeemer"} \subseteq Components
    BY DEF Components
  <2>4. Saved("tokenAuthority") =>
           TokenAuthorityReport = [d \in Uses["tokenAuthority"] |-> addresses[d]]
    BY <2>1, <2>2, <2>3 DEF TokenAuthorityReport
  <2>5. Saved("mTokenDataFeed") =>
           DataFeedReport = [d \in Uses["mTokenDataFeed"] |-> addresses[d]]
    BY <2>1, <2>2, <2>3 DEF DataFeedReport
  <2>6. Saved("minter") => MinterVaultReport = [d \in Uses["minter"] |-> addresses[d]]
    BY <2>1, <2>2, <2>3 DEF MinterVaultReport
  <2>7. Saved("redeemer") => RedeemerVaultReport = [d \in Uses["redeemer"] |-> addresses[d]]
    BY <2>1, <2>2, <2>3 DEF RedeemerVaultReport
  <2>8. \A c \in DOMAIN TokenReport :
         Saved(c) => TokenReport[c] = [d \in Uses[c] |-> addresses[d]]
    BY <2>4, <2>5, <2>6, <2>7 DEF TokenReport
  <2>9. Saved("mTokenDataFeed") => HasPrice
    BY <2>3 DEF Together, HasPrice
  <2> QED
    BY <2>8, <2>9 DEF SavedTogether, Together
<1> QED
  BY <1>1, DeploymentInvariant, PTL

\* The saved minter vault has its role, the saved mint its powers with the
\* deployer or with the saved token authority (deployMinterVault,
\* transferAuthority).
THEOREM MinterVaultReady == DPSpec => []MinterReady
<1>1. DPInv => MinterReady
  <2> SUFFICES ASSUME DPInv PROVE MinterReady
    OBVIOUS
  <2>1. ASSUME Saved("minter") PROVE Holds(ledger, addresses.acRole, addresses.minter, M_MINTER)
    <3>1. Exists(ledger, addresses.minter) /\ addresses.minter[1] = "minter"
      BY <2>1 DEF DPInv, Together, AddressesInv, Components
    <3> QED
      BY <3>1 DEF DPInv, AccountsInv, AccountInv, Exists
  <2>2. ASSUME Saved("mToken"), NEW t \in ToSet(TOKEN_AUTHORITY_TYPES)
        PROVE  MintReport[t] \in {deployer, addresses.tokenAuthority} \ {None}
    <3>1. Exists(ledger, addresses.mToken) /\ addresses.mToken[1] = "mToken"
      BY <2>2 DEF DPInv, Together, AddressesInv, Components
    <3>2. addresses.mToken \in DOMAIN ledger.powers
      BY <3>1 DEF DPInv, AccountsInv, AccountInv, Exists
    <3>3. deployer # None
      BY WalletsAssumption
    <3> QED
      BY <3>2, <3>3 DEF DPInv, PowersInv, Saved, MintReport
  <2> QED
    BY <2>1, <2>2 DEF MinterReady
<1> QED
  BY <1>1, DeploymentInvariant, PTL

\* No ac_role of a deployment is ever without an admin
\* (revoke-deployer-roles.ts, canRevokeAdmin).
THEOREM AdminStays == DPSpec => []AdminNeverLost
<1>1. DPInv => AdminNeverLost
  BY DEF DPInv
<1> QED
  BY <1>1, DeploymentInvariant, PTL

\* The deployer's admin role goes last, if the operator waits for approvals
\* (revoke-deployer-roles.ts, DEPLOYER_AUTO_ROLES).
THEOREM HandOverComplete == DPSpec => []HandOverClean
<1>1. DPInv => HandOverClean
  BY DEF DPInv
<1> QED
  BY <1>1, DeploymentInvariant, PTL

-----------------------------------------------------------------------------
(* What the mTokens of a network share, deployed by scripts that may run   *)
(* at the same time.                                                       *)

\* A file, as it is or as a script has read it: what it names is on chain, under
\* the ac_role that it names beside it.
ReadInv(read) ==
    \A c \in NetComponents : read[c] # None =>
        /\ Exists(ledger, read[c])
        /\ \A d \in Needs[c] : read[d] # None /\ ledger.accounts[read[c]].acRole = read[d]

\* A manual feed has its price, or one was sent for it.
Priced(f) ==
    f # None /\ ledger.accounts[f].mode = "manual" =>
        \/ f \in ledger.manual \cup refused
        \/ \E tx \in flight : f \in Lost(tx)

FileInv(read) ==
    /\ read = [c \in NetComponents |-> read[c]]
    /\ ReadInv(read) /\ Priced(read.feed)

\* A script that deploys: first, for some feeds, what the feed reads; then its
\* own account, with what the file named.
NetCreating(r) ==
    /\ r.read[r.task] = None
    /\ \A d \in Needs[r.task] : r.read[d] # None
    /\ \/ r.task = "feed" /\ r.tx.inx = <<NewPullFeed(r.key)>>
       \/ /\ r.tx.inx = <<CreateNet(r.task, r.key, r.read, r.mode)>>
          /\ r.confirmed =>
               /\ Exists(ledger, r.key)
               /\ ledger.accounts[r.key] = CreateNet(r.task, r.key, r.read, r.mode).uses
RunInv(r) ==
    /\ r = [task |-> r.task, read |-> r.read, key |-> r.key, mode |-> r.mode,
            tx |-> r.tx, confirmed |-> r.confirmed]
    /\ FileInv(r.read)
    /\ r.task \in NetComponents => NetCreating(r)

\* One script at a time: it has read the file as it is.
AloneNetInv ==
    ~overlapped =>
        /\ \A r \in running : r.read = file
        /\ \A r, q \in running : r = q

NDInv == FileInv(file) /\ (\A r \in running : RunInv(r)) /\ AloneNetInv

\* Accounts stay as they were created, and prices that are there, refused or on
\* their way do not vanish.
Grows ==
    /\ \A k \in DOMAIN ledger.accounts :
          k \in DOMAIN ledger'.accounts /\ ledger'.accounts[k] = ledger.accounts[k]
    /\ \A f : (f \in ledger.manual \cup refused \/ \E tx \in flight : f \in Lost(tx)) =>
              (f \in ledger'.manual \cup refused' \/ \E tx \in flight' : f \in Lost(tx))

LEMMA NeedsFacts ==
    /\ \A c \in NetComponents : c \notin Needs[c] /\ Needs[c] \subseteq NetComponents
    /\ \A c \in NetComponents : \A d \in Needs[c] : Needs[c] = {d}
    /\ Needs["feed"] # {} /\ "feed" \in NetComponents
    /\ \A c \in NetComponents : Op[c] \in CREATIONS \ {"newVault", "newPullFeed"}
BY DEF Needs, NetComponents, Op, CREATIONS

LEMMA PricedStable ==
    ASSUME NEW f, Priced(f), f # None => Exists(ledger, f), Grows
    PROVE  Priced(f)'
BY DEF Priced, Grows, Exists

LEMMA FileStable ==
    ASSUME NEW read, FileInv(read), Grows
    PROVE  FileInv(read)'
<1>1. read.feed # None => Exists(ledger, read.feed)
  BY NeedsFacts DEF FileInv, ReadInv
<1>2. Priced(read.feed)'
  BY <1>1, PricedStable DEF FileInv
<1>3. ReadInv(read)'
  BY DEF FileInv, ReadInv, Grows, Exists
<1> QED
  BY <1>2, <1>3 DEF FileInv

LEMMA RunStable ==
    ASSUME NEW r, RunInv(r), Grows
    PROVE  RunInv(r)'
<1>1. FileInv(r.read)'
  BY FileStable DEF RunInv
<1>2. NetCreating(r) => NetCreating(r)'
  BY DEF NetCreating, Grows, Exists
<1> QED
  BY <1>1, <1>2 DEF RunInv

\* While the chain stays, sending is all that happens to prices.
LEMMA SendGrows ==
    ASSUME UNCHANGED <<ledger, refused>>, flight \subseteq flight'
    PROVE  Grows
BY DEF Grows

LEMMA TxInx == \A inx : Tx(inx).inx = inx
BY DEF Tx

\* A script starts and waits.
LEMMA NetStartInv ==
    ASSUME NDInv, NEW task, NEW key, NEW mode, NEW inx,
           NetStarts(task), Waits(task, key, mode, inx),
           task \in NetComponents =>
               /\ file[task] = None /\ Ready(task)
               /\ \/ task = "feed" /\ inx = <<NewPullFeed(key)>>
                  \/ inx = <<CreateNet(task, key, file, mode)>>
    PROVE  NDInv'
<1> DEFINE new == [task |-> task, read |-> file, key |-> key, mode |-> mode, tx |-> Tx(inx),
                   confirmed |-> FALSE]
<1>1. /\ running' = running \cup {new} /\ UNCHANGED <<ledger, refused, file>>
      /\ flight \subseteq flight' /\ overlapped' = (overlapped \/ running # {})
  BY DEF NetStarts, Waits
<1>2. Grows
  BY <1>1, SendGrows
<1>3. FileInv(file)'
  BY <1>1, <1>2, FileStable DEF NDInv
<1>4. ASSUME NEW r, r = new PROVE RunInv(r)'
  <2>1. /\ r.task = task /\ r.read = file /\ r.key = key /\ r.mode = mode /\ r.confirmed = FALSE
        /\ r.tx.inx = inx
        /\ r = [task |-> r.task, read |-> r.read, key |-> r.key, mode |-> r.mode,
                tx |-> r.tx, confirmed |-> r.confirmed]
    BY <1>4, TxInx
  <2>2. r.task \in NetComponents => NetCreating(r)'
    BY <2>1 DEF NetCreating, Ready
  <2>3. FileInv(r.read)'
    BY <1>2, <2>1, FileStable DEF NDInv
  <2> QED
    BY <2>1, <2>2, <2>3 DEF RunInv
<1>5. \A r \in running' : RunInv(r)'
  BY <1>1, <1>2, <1>4, RunStable DEF NDInv
<1>6. AloneNetInv'
  <2>1. ~overlapped' => running = {}
    BY <1>1, Zenon
  <2>2. new.read = file
    OBVIOUS
  <2> HIDE DEF new
  <2> QED
    BY <1>1, <2>1, <2>2 DEF AloneNetInv
<1> QED
  BY <1>3, <1>5, <1>6 DEF NDInv

LEMMA OneNetInv ==
    ASSUME NDInv, NEW c \in NetComponents, DeployNet(c)
    PROVE  NDInv'
<1>1. PICK key \in NewKeys(KeyKind[c]) : Waits(c, key, None, <<CreateNet(c, key, file, None)>>)
  BY DEF DeployNet
<1> QED
  BY <1>1, NetStartInv DEF DeployNet, Unsaved

LEMMA PaymentFeedInv ==
    ASSUME NDInv, NEW mode \in FeedModes, DeployPaymentFeed(mode)
    PROVE  NDInv'
<1>1. CASE mode = "switchboard"
  <2>1. PICK key \in NewKeys("pullFeed") : Waits("feed", key, mode, <<NewPullFeed(key)>>)
    BY <1>1 DEF DeployPaymentFeed
  <2> QED
    BY <2>1, NetStartInv DEF DeployPaymentFeed, Unsaved
<1>2. CASE mode # "switchboard"
  <2>1. PICK key \in NewKeys("feed") : Waits("feed", key, mode, <<CreateNet("feed", key, file, mode)>>)
    BY <1>2 DEF DeployPaymentFeed
  <2> QED
    BY <2>1, NetStartInv DEF DeployPaymentFeed, Unsaved
<1> QED
  BY <1>1, <1>2

LEMMA GlobalAdminInv ==
    ASSUME NDInv, GrantGlobalAdmin \/ RevokeGlobalAdmin
    PROVE  NDInv'
<1>1. CASE GrantGlobalAdmin
  <2> DEFINE missing == {r \in ROLE_GROUPS.ACCESS_CONTROL_ADMIN :
                           ~Holds(ledger, file.acRoleGlobal, ac_admin, r)}
             inx == SetToSeq({GrantNet(ac_admin, r, deployer) : r \in missing})
  <2>1. NetStarts("global-grant-admin") /\ Waits("global-grant-admin", None, None, inx)
    BY <1>1 DEF GrantGlobalAdmin
  <2> HIDE DEF inx
  <2> QED
    BY <2>1, NetStartInv DEF NetComponents
<1>2. CASE RevokeGlobalAdmin
  <2>1. /\ UNCHANGED <<ledger, refused, file, running>> /\ flight \subseteq flight'
        /\ overlapped' = (overlapped \/ running # {})
    BY <1>2 DEF RevokeGlobalAdmin, NetStarts
  <2>2. FileInv(file)' /\ \A r \in running : RunInv(r)'
    BY <2>1, SendGrows, FileStable, RunStable DEF NDInv
  <2>3. AloneNetInv'
    BY <2>1 DEF AloneNetInv
  <2> QED
    BY <2>1, <2>2, <2>3 DEF NDInv
<1> QED
  BY <1>1, <1>2

\* The instruction a deploying script waits for.
LEMMA CreateNetFacts ==
    ASSUME NEW c \in NetComponents, NEW key, NEW read, NEW mode
    PROVE  LET i == CreateNet(c, key, read, mode)
           IN  /\ i.op = Op[c] /\ i.key = key
               /\ \A d \in Needs[c] : i.uses.acRole = read[d] /\ i.uses.mode = mode
<1> DEFINE i == CreateNet(c, key, read, mode)
<1>1. i.op = Op[c] /\ i.key = key
  BY DEF CreateNet
<1>2. ASSUME NEW d \in Needs[c] PROVE i.uses.acRole = read[d] /\ i.uses.mode = mode
  <2>1. Needs[c] = {d} /\ Needs[c] # {} /\ (CHOOSE x \in Needs[c] : TRUE) = d
    BY NeedsFacts
  <2> QED
    BY <2>1 DEF CreateNet
<1> QED
  BY <1>1, <1>2

LEMMA SwitchboardInv ==
    ASSUME NDInv, NEW q \in running, SwitchboardDone(q)
    PROVE  NDInv'
<1> DEFINE FeedTx(key) == Tx(<<CreateNet("feed", key, q.read, q.mode)>>)
<1>1. PICK key \in NewKeys("feed") :
        /\ flight' = flight \cup {FeedTx(key)}
        /\ Goes(q, {[q EXCEPT !.key = key, !.tx = FeedTx(key), !.confirmed = FALSE]})
  BY DEF SwitchboardDone
<1> DEFINE inx == <<CreateNet("feed", key, q.read, q.mode)>>
           new == [q EXCEPT !.key = key, !.tx = Tx(inx), !.confirmed = FALSE]
<1>2. /\ running' = (running \ {q}) \cup {new} /\ UNCHANGED <<ledger, refused, file, overlapped>>
      /\ flight \subseteq flight' /\ q.tx.inx[1].op = "newPullFeed"
  BY <1>1 DEF SwitchboardDone, Goes
<1>3. Grows
  BY <1>2, SendGrows
<1>4. FileInv(file)'
  BY <1>2, <1>3, FileStable DEF NDInv
<1>5. RunInv(q)
  BY DEF NDInv
<1>6. ASSUME NEW r, r = new PROVE RunInv(r)' /\ r.read = q.read
  <2>1. /\ r.task = q.task /\ r.read = q.read /\ r.key = key /\ r.mode = q.mode
        /\ r.confirmed = FALSE /\ r.tx = Tx(inx)
        /\ r = [task |-> r.task, read |-> r.read, key |-> r.key, mode |-> r.mode,
                tx |-> r.tx, confirmed |-> r.confirmed]
    BY <1>5, <1>6 DEF RunInv
  <2>2. ASSUME q.task \in NetComponents PROVE NetCreating(r)'
    <3>1. q.task = "feed" /\ NetCreating(q)
      <4>1. NetCreating(q)
        BY <1>5, <2>2 DEF RunInv
      <4>2. q.tx.inx # <<CreateNet(q.task, q.key, q.read, q.mode)>>
        BY <1>2, <2>2, CreateNetFacts, NeedsFacts
      <4> QED
        BY <4>1, <4>2 DEF NetCreating
    <3>2. r.tx.inx = inx
      BY <2>1, TxInx
    <3> QED
      BY <2>1, <3>1, <3>2 DEF NetCreating
  <2>3. FileInv(r.read)'
    BY <1>3, <1>5, <2>1, FileStable DEF RunInv
  <2> QED
    BY <2>1, <2>2, <2>3 DEF RunInv
<1>7. \A r \in running' : RunInv(r)'
  BY <1>2, <1>3, <1>6, RunStable DEF NDInv
<1>8. AloneNetInv'
  <2>1. new.read = q.read
    BY <1>6
  <2> HIDE DEF new
  <2> QED
    BY <1>2, <2>1 DEF NDInv, AloneNetInv
<1> QED
  BY <1>4, <1>7, <1>8 DEF NDInv

\* The price of a manual feed is among what its script sends last.
LEMMA PriceSent ==
    ASSUME NEW r, r.task = "feed", r.mode = "manual", flight' = Sent(PriceTxs(r))
    PROVE  \E tx \in flight' : r.key \in Lost(tx)
<1> DEFINE i == [op |-> "newManualFeed", key |-> r.key, by |-> feed_signer]
           g == <<[GrantNet(feed_signer, FEED_ADMIN, feed_signer) EXCEPT !.ac_role = r.read.acRoleGlobal]>>
           price == <<i>>
<1>1. PriceTxs(r) = << >> \o <<price>> \/ PriceTxs(r) = <<g>> \o <<price>>
  BY DEF PriceTxs, ManualPriceTxs
<1>2. ToSet(price) = {i} /\ i.op = "newManualFeed" /\ i.key = r.key
  BY ToSetFacts
<1> HIDE DEF price, g, i
<1>3. price \in ToSet(PriceTxs(r))
  <2>1. << >> \o <<price>> = <<price>> /\ <<g>> \o <<price>> = <<g, price>>
    BY TodoFacts
  <2>2. ToSet(<<price>>) = {price} /\ ToSet(<<g, price>>) = {g, price}
    BY ToSetFacts
  <2> QED
    BY <1>1, <2>1, <2>2
<1>4. Tx(price) \in flight' /\ Tx(price).inx = price
  BY <1>3, TxInx DEF Sent
<1>5. r.key \in Lost(Tx(price))
  BY <1>2, <1>4 DEF Lost
<1> QED
  BY <1>4, <1>5

LEMMA NetFinishInv ==
    ASSUME NDInv, NEW q \in running, NetFinish(q)
    PROVE  NDInv'
<1>1. /\ running' = running \ {q} /\ UNCHANGED <<ledger, refused, overlapped>>
      /\ flight' = Sent(PriceTxs(q)) /\ file' = SavedFile(q)
      /\ q.confirmed /\ q.tx.inx[1].op # "newPullFeed"
  BY DEF NetFinish, Goes, Closing
<1>2. Grows
  BY <1>1, SendGrows DEF Sent
<1>3. \A r \in running' : RunInv(r)'
  BY <1>1, <1>2, RunStable DEF NDInv
<1>4. AloneNetInv'
  BY <1>1 DEF NDInv, AloneNetInv
<1>5. CASE q.task \notin NetComponents
  <2>1. file' = file
    BY <1>1, <1>5 DEF SavedFile
  <2>2. FileInv(file)'
    BY <1>2, <2>1, FileStable DEF NDInv
  <2> QED
    BY <1>3, <1>4, <2>2 DEF NDInv
<1>6. CASE q.task \in NetComponents
  <2> DEFINE c == q.task
             k == q.key
             i == CreateNet(c, k, q.read, q.mode)
  <2>1. RunInv(q) /\ NetCreating(q)
    BY <1>6 DEF NDInv, RunInv
  <2>2. Exists(ledger, k) /\ ledger.accounts[k] = i.uses
    <3>1. q.tx.inx # <<NewPullFeed(q.key)>>
      BY <1>1 DEF NewPullFeed
    <3> QED
      BY <1>1, <2>1, <3>1 DEF NetCreating
  <2>3. /\ file' = [x \in NetComponents |-> file'[x]]
        /\ \A x \in NetComponents : file'[x] = IF x = c THEN k ELSE q.read[x]
    BY <1>1, <1>6, <2>1 DEF SavedFile, RunInv, FileInv
  <2>4. /\ q.read[c] = None
        /\ \A d \in Needs[c] : q.read[d] # None /\ ledger.accounts[k].acRole = q.read[d]
    BY <1>6, <2>1, <2>2, CreateNetFacts DEF NetCreating
  <2>5. ReadInv(q.read) /\ Priced(q.read.feed)
    BY <2>1 DEF RunInv, FileInv
  <2> HIDE DEF c, k, i
  <2>6. ReadInv(file)'
    <3> SUFFICES ASSUME NEW x \in NetComponents, file'[x] # None
                 PROVE  /\ Exists(ledger, file'[x])
                        /\ \A d \in Needs[x] :
                             file'[d] # None /\ ledger.accounts[file'[x]].acRole = file'[d]
      BY <1>1 DEF ReadInv
    <3>1. CASE x = c
      BY <2>2, <2>3, <2>4, <3>1, NeedsFacts
    <3>2. CASE x # c
      <4>1. file'[x] = q.read[x] /\ Exists(ledger, q.read[x])
        BY <2>3, <2>5, <3>2 DEF ReadInv
      <4>2. \A d \in Needs[x] : q.read[d] # None /\ ledger.accounts[q.read[x]].acRole = q.read[d]
        BY <2>3, <2>5, <3>2 DEF ReadInv
      <4>3. \A d \in Needs[x] : file'[d] = q.read[d]
        BY <2>3, <2>4, <4>2, NeedsFacts
      <4> QED
        BY <4>1, <4>2, <4>3
    <3> QED
      BY <3>1, <3>2
  <2>7. Priced(file.feed)'
    <3>1. CASE c = "feed"
      <4>1. file'.feed = k
        BY <2>3, <3>1, NeedsFacts
      <4>2. ledger.accounts[k].mode = q.mode
        BY <1>6, <2>2, <3>1, CreateNetFacts, NeedsFacts DEF c, i
      <4> QED
        BY <1>1, <3>1, <4>1, <4>2, PriceSent DEF Priced, c, k
    <3>2. CASE c # "feed"
      <4>1. file'.feed = q.read.feed
        BY <2>3, <3>2, NeedsFacts
      <4>2. q.read.feed # None => Exists(ledger, q.read.feed)
        BY <2>5, NeedsFacts DEF ReadInv
      <4>3. \A f : f = q.read.feed => Priced(f)'
        BY <1>2, <2>5, <4>2, PricedStable
      <4> QED
        BY <4>1, <4>3 DEF Priced
    <3> QED
      BY <3>1, <3>2
  <2>8. FileInv(file)'
    BY <2>3, <2>6, <2>7 DEF FileInv
  <2> QED
    BY <1>3, <1>4, <2>8 DEF NDInv
<1> QED
  BY <1>5, <1>6

LEMMA NetKilledInv ==
    ASSUME NDInv, NEW q \in running, NetKilled(q)
    PROVE  NDInv'
<1>1. /\ running' = running \ {q} /\ UNCHANGED <<ledger, refused, overlapped, file>>
      /\ flight \subseteq flight'
  BY DEF NetKilled, Goes, Sent
<1>2. FileInv(file)' /\ \A r \in running' : RunInv(r)'
  BY <1>1, SendGrows, FileStable, RunStable DEF NDInv
<1>3. AloneNetInv'
  BY <1>1 DEF NDInv, AloneNetInv
<1> QED
  BY <1>2, <1>3 DEF NDInv

\* An account that is created alone is what it was to be.
LEMMA LandCreated ==
    ASSUME NEW tx, NEW i, tx.inx = <<i>>, i.op \in CREATIONS \ {"newVault"},
           Outcome(ledger, tx) # None
    PROVE  LET e == Executed(ledger, ToSet(tx.inx))
           IN  Exists(e, i.key) /\ e.accounts[i.key] = i.uses
<1>1. ToSet(tx.inx) = {i} /\ Making({i}) = {i}
  BY ToSetFacts DEF Making
<1>2. Before(tx, 1) = {}
  BY DEF Before
<1>3. Allowed(Executed(ledger, {}), i)
  BY <1>2 DEF Outcome
<1>4. i.key \notin DOMAIN ledger.accounts
  <2>1. i.key \notin DOMAIN Executed(ledger, {}).accounts
    BY <1>3 DEF Allowed, Exists, CREATIONS
  <2> QED
    BY <2>1, ExecutedAccounts
<1> DEFINE e == Executed(ledger, {i})
<1>5. DOMAIN e.accounts = DOMAIN ledger.accounts \cup {j.key : j \in Making({i})}
      /\ \A k \in DOMAIN e.accounts \ DOMAIN ledger.accounts :
             \E j \in Making({i}) : j.key = k /\ e.accounts[k] = j.uses
  BY ExecutedAccounts
<1> HIDE DEF e
<1>6. i.key \in DOMAIN e.accounts /\ e.accounts[i.key] = i.uses
  BY <1>1, <1>4, <1>5
<1> QED
  BY <1>1, <1>6 DEF Exists, e

LEMMA NetLandInv ==
    ASSUME NDInv, NEW tx \in flight, NetLand(tx)
    PROVE  NDInv'
<1> DEFINE result == Outcome(ledger, tx)
           waiting == {r \in running : r.tx = tx /\ ~r.confirmed}
<1>1. /\ flight' = flight \ {tx} /\ UNCHANGED <<file, overlapped>>
      /\ ledger' = IF result = None THEN ledger ELSE result
      /\ refused' = IF result = None THEN refused \cup Lost(tx) ELSE refused
      /\ running' = (running \ waiting) \cup
           (IF result = None THEN {} ELSE {[r EXCEPT !.confirmed = TRUE] : r \in waiting})
  BY DEF NetLand
<1>2. result # None => ledger' = Executed(ledger, ToSet(tx.inx))
  BY <1>1 DEF Outcome
<1>3. Grows
  <2>1. CASE result = None
    BY <1>1, <2>1 DEF Grows
  <2>2. CASE result # None
    <3>1. /\ ledger.manual \cup Lost(tx) \subseteq ledger'.manual
      BY <1>2, <2>2, ExecutedRoles DEF Lost
    <3>2. \A k \in DOMAIN ledger.accounts :
             k \in DOMAIN ledger'.accounts /\ ledger'.accounts[k] = ledger.accounts[k]
      BY <1>2, <2>2, ExecutedAccounts
    <3> QED
      BY <1>1, <2>2, <3>1, <3>2 DEF Grows
  <2> QED
    BY <2>1, <2>2
<1> HIDE DEF result
<1>4. FileInv(file)'
  BY <1>1, <1>3, FileStable DEF NDInv
<1>5. ASSUME NEW q \in waiting, result # None, NEW r, r = [q EXCEPT !.confirmed = TRUE]
      PROVE  RunInv(r)' /\ r.read = q.read
  <2>1. RunInv(q) /\ RunInv(q)' /\ q.tx = tx
    BY <1>3, <1>5, RunStable DEF NDInv
  <2>2. /\ r.task = q.task /\ r.read = q.read /\ r.key = q.key /\ r.mode = q.mode
        /\ r.tx = q.tx /\ r.confirmed = TRUE
        /\ r = [task |-> r.task, read |-> r.read, key |-> r.key, mode |-> r.mode,
                tx |-> r.tx, confirmed |-> r.confirmed]
    BY <1>5, <2>1 DEF RunInv
  <2>3. ASSUME q.task \in NetComponents PROVE NetCreating(r)'
    <3> DEFINE i == CreateNet(q.task, q.key, q.read, q.mode)
    <3>1. NetCreating(q)
      BY <2>1, <2>3 DEF RunInv
    <3>2. ASSUME q.tx.inx = <<i>> PROVE Exists(ledger', q.key) /\ ledger'.accounts[q.key] = i.uses
      <4>1. i.op \in CREATIONS \ {"newVault"} /\ i.key = q.key
        BY <2>3, CreateNetFacts, NeedsFacts
      <4> HIDE DEF i
      <4> QED
        BY <1>2, <1>5, <2>1, <3>2, <4>1, LandCreated DEF result
    <3> QED
      BY <2>2, <3>1, <3>2 DEF NetCreating
  <2> QED
    BY <2>1, <2>2, <2>3 DEF RunInv
<1>6. \A r \in running' : RunInv(r)'
  BY <1>1, <1>3, <1>5, RunStable DEF NDInv
<1>7. AloneNetInv'
  <2> SUFFICES ASSUME ~overlapped
               PROVE  /\ \A r \in running' : r.read = file
                      /\ \A r, p \in running' : r = p
    BY <1>1 DEF AloneNetInv
  <2>1. (\A r \in running : r.read = file) /\ \A r, p \in running : r = p
    BY DEF NDInv, AloneNetInv
  <2>2. \A r \in running' : r.read = file
    BY <1>1, <1>5, <2>1
  <2>3. \A r, p \in running' : r = p
    <3>1. CASE waiting = {}
      BY <1>1, <2>1, <3>1
    <3>2. CASE waiting # {}
      <4>1. PICK q \in waiting : TRUE
        BY <3>2
      <4>2. running = {q} /\ waiting = {q}
        BY <2>1, <4>1
      <4> HIDE DEF waiting
      <4>3. running' \subseteq {[q EXCEPT !.confirmed = TRUE]}
        BY <1>1, <4>2
      <4> QED
        BY <4>3
    <3> QED
      BY <3>1, <3>2
  <2> QED
    BY <2>2, <2>3
<1> QED
  BY <1>4, <1>6, <1>7 DEF NDInv

LEMMA NetDropInv ==
    ASSUME NDInv, NEW tx \in flight, NetDrop(tx)
    PROVE  NDInv'
<1>1. /\ flight' = flight \ {tx} /\ UNCHANGED <<ledger, file, overlapped>>
      /\ refused' = refused \cup Lost(tx) /\ running' \subseteq running
  BY DEF NetDrop
<1>2. Grows
  BY <1>1 DEF Grows
<1>3. FileInv(file)' /\ \A r \in running' : RunInv(r)'
  BY <1>1, <1>2, FileStable, RunStable DEF NDInv
<1>4. AloneNetInv'
  BY <1>1 DEF NDInv, AloneNetInv
<1> QED
  BY <1>3, <1>4 DEF NDInv

LEMMA NDInitInv == DPInit /\ NDInit => NDInv
<1> SUFFICES ASSUME NDInit PROVE NDInv
  OBVIOUS
<1>1. file = [c \in NetComponents |-> None] /\ running = {}
  BY DEF NDInit
<1>2. file = [c \in NetComponents |-> file[c]] /\ \A c \in NetComponents : file[c] = None
  BY <1>1
<1>3. FileInv(file)
  BY <1>2, NeedsFacts DEF FileInv, ReadInv, Priced
<1> QED
  BY <1>1, <1>3 DEF NDInv, AloneNetInv

LEMMA NDStepInv == NDInv /\ [NDNext]_ndVars => NDInv'
<1> SUFFICES ASSUME NDInv, [NDNext]_ndVars PROVE NDInv'
  OBVIOUS
<1>1. ASSUME NEW c \in NetComponents, DeployNet(c) PROVE NDInv'
  BY <1>1, OneNetInv
<1>2. CASE \/ DeployGlobalAcRole \/ DeployGlobalAc \/ DeployNetworkTimelock
           \/ DeployAcRoleOverride \/ DeployAcOverride
  BY <1>1, <1>2 DEF DeployGlobalAcRole, DeployGlobalAc, DeployNetworkTimelock,
     DeployAcRoleOverride, DeployAcOverride, NetComponents
<1>3. ASSUME NEW mode \in FeedModes, DeployPaymentFeed(mode) PROVE NDInv'
  BY <1>3, PaymentFeedInv
<1>4. CASE GrantGlobalAdmin \/ RevokeGlobalAdmin
  BY <1>4, GlobalAdminInv
<1>5. ASSUME NEW r \in running, SwitchboardDone(r) \/ NetFinish(r) \/ NetKilled(r) PROVE NDInv'
  BY <1>5, SwitchboardInv, NetFinishInv, NetKilledInv
<1>6. ASSUME NEW tx \in flight, NetLand(tx) \/ NetDrop(tx) PROVE NDInv'
  BY <1>6, NetLandInv, NetDropInv
<1>7. CASE UNCHANGED ndVars
  <2>1. UNCHANGED <<ledger, flight, file, running, refused, overlapped>>
    BY <1>7 DEF ndVars, netVars
  <2>2. FileInv(file)' /\ \A r \in running' : RunInv(r)'
    BY <2>1, SendGrows, FileStable, RunStable DEF NDInv
  <2> QED
    BY <2>1, <2>2 DEF NDInv, AloneNetInv
<1> QED
  BY <1>2, <1>3, <1>4, <1>5, <1>6, <1>7 DEF NDNext

LEMMA NetworkInvariant == NDSpec => []NDInv
BY NDInitInv, NDStepInv, PTL DEF NDSpec

\* The network's part of the file never mixes two deployments, though scripts
\* overwrite what others saved meanwhile (saveAddressesToFile).
THEOREM NetworkFileConsistent == NDSpec => []FileConsistent
<1>1. NDInv => FileConsistent
  BY DEF NDInv, FileInv, ReadInv, FileConsistent
<1> QED
  BY <1>1, NetworkInvariant, PTL

\* A manual payment-token feed that is saved has its price, or one on its way
\* or refused (deployManualFeed).
THEOREM FeedPriced == NDSpec => []PricedOrPending
<1>1. NDInv => PricedOrPending
  BY DEF NDInv, FileInv, Priced, PricedOrPending
<1> QED
  BY <1>1, NetworkInvariant, PTL

\* Scripts that run one at a time keep what is saved (existing* in
\* scripts/tasks/deploy).
THEOREM SavedStays == NDSpec => NothingForgotten
<1> DEFINE Stays == \A c \in NetComponents : file[c] # None /\ ~overlapped' => file'[c] = file[c]
<1>1. NDInv /\ [NDNext]_ndVars => [Stays]_file
  <2> SUFFICES ASSUME NDInv, NDNext, file' # file,
                      NEW c \in NetComponents, file[c] # None, ~overlapped'
               PROVE  file'[c] = file[c]
    BY DEF ndVars, netVars
  <2>1. PICK r \in running : NetFinish(r)
    BY DEF NDNext, DeployGlobalAcRole, DeployGlobalAc, DeployNetworkTimelock, DeployAcRoleOverride,
       DeployAcOverride, DeployNet, DeployPaymentFeed, NetStarts, GrantGlobalAdmin,
       RevokeGlobalAdmin, SwitchboardDone, NetKilled, NetLand, NetDrop
  <2>2. r.read = file /\ file' = SavedFile(r) /\ RunInv(r)
    BY <2>1 DEF NDInv, AloneNetInv, NetFinish
  <2>3. r.task \in NetComponents => r.read[r.task] = None
    BY <2>2 DEF RunInv, NetCreating
  <2> QED
    BY <2>2, <2>3 DEF SavedFile, RunInv, FileInv
<1> QED
  BY <1>1, NetworkInvariant, PTL DEF NDSpec, NothingForgotten

===============================================================================
