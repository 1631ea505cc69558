--------------------------- MODULE RegistryProofs ---------------------------
(***************************************************************************)
(* Proofs about the validator registry, for any signers, threshold, delay  *)
(* and candidate sets.                                                     *)
(***************************************************************************)
EXTENDS HeaderOracle, DataTheorems

\* What holds of a proposal and of the time its quorum came together.
ProposalInv(p, since) ==
    /\ p \in Proposal
    /\ since \in Nat
    /\ ~p.exists => p.approved = {}
    /\ p.approvalCount = Cardinality(p.approved)
    /\ since # 0 <=> p.approvalCount >= threshold
    /\ p.readyAt = IF since = 0 THEN 0 ELSE since + timelockDelay

(***************************************************************************)
(* The inductive invariant: TimelockFollowsQuorum needs to know as well    *)
(* that a proposal not made yet has no approvals, and that the recorded    *)
(* time of the quorum is that of the approvals there are.                  *)
(***************************************************************************)
RegistryInv ==
    /\ timestamp \in Nat \ {0}
    /\ DOMAIN proposals = ProposalIds /\ DOMAIN quorumSince = ProposalIds
    /\ \A id \in ProposalIds : ProposalInv(proposals[id], quorumSince[id])

\* Approvals are by signers, of which there are finitely many.
LEMMA ApprovalsFinite ==
    ASSUME NEW p \in Proposal
    PROVE  IsFiniteSet(p.approved) /\ Cardinality(p.approved) \in Nat
  <1>1. p.approved \subseteq Signers BY DEF Proposal
  <1>2. IsFiniteSet(Signers) BY RegistryAssumption
  <1>3. IsFiniteSet(p.approved) BY <1>1, <1>2, FS_Subset
  <1>4. QED BY <1>3, FS_CardinalityType

\* The constants an arithmetic step needs.
LEMMA ThresholdType == threshold \in Nat \ {0} /\ timelockDelay \in Nat
  <1>1. IsFiniteSet(Signers) /\ threshold \in 1 .. Cardinality(Signers)
    BY RegistryAssumption
  <1>2. Cardinality(Signers) \in Nat BY <1>1, FS_CardinalityType
  <1>3. QED BY <1>1, <1>2, RegistryAssumption

\* _approve, by a signer who has not approved yet.
LEMMA ApproveKeeps ==
    ASSUME NEW id \in ProposalIds, NEW p, ProposalInv(p, quorumSince[id]), p.exists,
           NEW signer \in Signers, signer \notin p.approved, timestamp \in Nat \ {0}
    PROVE  ProposalInv(Approve(p, signer), QuorumSince(id, Approve(p, signer)))
  <1> DEFINE q == Approve(p, signer)
  <1>1. p \in Proposal BY DEF ProposalInv
  <1>2. Cardinality(p.approved \cup {signer}) = Cardinality(p.approved) + 1
    BY <1>1, ApprovalsFinite, FS_AddElement
  <1>3. /\ q.approved = p.approved \cup {signer}
        /\ q.approvalCount = p.approvalCount + 1
        /\ q.exists = p.exists
        /\ q.readyAt = IF p.approvalCount + 1 = threshold /\ p.readyAt = 0
                       THEN timestamp + timelockDelay ELSE p.readyAt
    BY <1>1 DEF Approve, Proposal
  <1>4. q \in Proposal
    <2>1. /\ p.approved \cup {signer} \in SUBSET Signers
          /\ p.approvalCount + 1 \in Nat
          /\ timestamp + timelockDelay \in Nat
      BY <1>1, ThresholdType DEF Proposal
    <2>2. QED BY <1>1, <2>1 DEF Approve, Proposal
  <1>5. p.approvalCount \in Nat /\ p.readyAt \in Nat BY <1>1 DEF Proposal
  <1>6. q.approvalCount = Cardinality(q.approved)
    BY <1>2, <1>3 DEF ProposalInv
  <1>7. QED
    BY <1>3, <1>4, <1>5, <1>6, ThresholdType DEF ProposalInv, QuorumSince

\* revokeApproval, by a signer who has approved.
LEMMA RevokeKeeps ==
    ASSUME NEW id \in ProposalIds, NEW p, ProposalInv(p, quorumSince[id]), p.exists,
           NEW signer \in Signers, signer \in p.approved, timestamp \in Nat \ {0}
    PROVE  ProposalInv(Revoke(p, signer), QuorumSince(id, Revoke(p, signer)))
  <1> DEFINE q == Revoke(p, signer)
  <1>1. p \in Proposal BY DEF ProposalInv
  <1>2. /\ Cardinality(p.approved \ {signer}) = Cardinality(p.approved) - 1
        /\ Cardinality(p.approved \ {signer}) \in Nat
    BY <1>1, ApprovalsFinite, FS_RemoveElement, FS_CardinalityType, FS_Subset
  <1>3. /\ q.approved = p.approved \ {signer}
        /\ q.approvalCount = p.approvalCount - 1
        /\ q.exists = p.exists
        /\ q.readyAt = IF p.approvalCount - 1 < threshold THEN 0 ELSE p.readyAt
    BY <1>1 DEF Revoke, Proposal
  <1>4. p.approvalCount = Cardinality(p.approved) BY DEF ProposalInv
  <1>5. q \in Proposal
    BY <1>1, <1>2, <1>4 DEF Revoke, Proposal
  <1>6. q.approvalCount = Cardinality(q.approved)
    BY <1>2, <1>3, <1>4
  <1>7. p.approvalCount \in Nat /\ p.readyAt \in Nat /\ q.approvalCount \in Nat
    BY <1>1, <1>5 DEF Proposal
  <1>8. QED
    BY <1>3, <1>5, <1>6, <1>7, ThresholdType DEF ProposalInv, QuorumSince

\* A proposal replaced by one that keeps the invariant.
LEMMA RecordKeeps ==
    ASSUME RegistryInv, NEW id \in ProposalIds, NEW p, Record(id, p),
           ProposalInv(p, QuorumSince(id, p))
    PROVE  RegistryInv'
  <1>1. timestamp' = timestamp BY DEF Record
  <1>2. DOMAIN proposals' = ProposalIds /\ DOMAIN quorumSince' = ProposalIds
    BY DEF Record, RegistryInv
  <1>3. ASSUME NEW x \in ProposalIds
        PROVE  ProposalInv(proposals'[x], quorumSince'[x])
    <2>1. CASE x = id
      BY <2>1 DEF Record, RegistryInv
    <2>2. CASE x # id
      <3>1. proposals'[x] = proposals[x] /\ quorumSince'[x] = quorumSince[x]
        BY <2>2 DEF Record, RegistryInv
      <3>2. QED BY <3>1 DEF RegistryInv
    <2>3. QED BY <2>1, <2>2
  <1>4. QED BY <1>1, <1>2, <1>3 DEF RegistryInv, ProposalInv
-----------------------------------------------------------------------------
\* Initially nothing is proposed.
LEMMA RegistryInitInv == RegistryInit => RegistryInv
  <1>1. NoProposal \in Proposal /\ Cardinality({}) = 0
    BY FS_EmptySet DEF NoProposal, Proposal
  <1>2. ASSUME RegistryInit, NEW id \in ProposalIds
        PROVE  ProposalInv(proposals[id], quorumSince[id])
    <2>1. proposals[id] = NoProposal /\ quorumSince[id] = 0
      BY <1>2 DEF RegistryInit
    <2>2. /\ NoProposal.approved = {} /\ NoProposal.approvalCount = 0
          /\ NoProposal.readyAt = 0
      BY DEF NoProposal
    <2>3. ProposalInv(NoProposal, 0)
      BY <1>1, <2>2, ThresholdType DEF ProposalInv
    <2>4. QED BY <2>1, <2>3
  <1>3. ASSUME RegistryInit
        PROVE  /\ timestamp \in Nat \ {0}
               /\ DOMAIN proposals = ProposalIds /\ DOMAIN quorumSince = ProposalIds
    <2>1. /\ timestamp = 1
          /\ proposals = [id \in ProposalIds |-> NoProposal]
          /\ quorumSince = [id \in ProposalIds |-> 0]
      BY <1>3 DEF RegistryInit
    <2>2. QED BY <2>1
  <1>4. QED BY <1>2, <1>3 DEF RegistryInv

\* Every step keeps the invariant: one case per external function.
LEMMA RegistryStep == RegistryInv /\ [RegistryNext]_registryVars => RegistryInv'
  <1> SUFFICES ASSUME RegistryInv, [RegistryNext]_registryVars PROVE RegistryInv'
    OBVIOUS
  <1>1. \A id \in ProposalIds : ProposalInv(proposals[id], quorumSince[id])
    BY DEF RegistryInv
  <1>2. timestamp \in Nat \ {0} BY DEF RegistryInv
  <1>3. ASSUME NEW id \in ProposalIds, NEW signer \in Signers,
               ProposeEpochTransition(signer, id)
        PROVE  RegistryInv'
    <2> DEFINE p == [NoProposal EXCEPT !.exists = TRUE]
    <2>1. proposals[id].approved = {} /\ ProposalInv(proposals[id], quorumSince[id])
      BY <1>1, <1>3 DEF ProposeEpochTransition, ProposalInv
    <2>2. Cardinality({}) = 0 BY FS_EmptySet
    <2>3. quorumSince[id] = 0
      BY <2>1, <2>2, ThresholdType DEF ProposalInv
    <2>4. /\ p \in Proposal /\ p.approved = {} /\ p.approvalCount = 0
          /\ p.readyAt = 0 /\ p.exists
      BY DEF Proposal, NoProposal
    <2>5. ProposalInv(p, quorumSince[id])
      BY <2>2, <2>3, <2>4, ThresholdType DEF ProposalInv
    <2>6. ProposalInv(Approve(p, signer), QuorumSince(id, Approve(p, signer)))
      BY <1>2, <2>4, <2>5, ApproveKeeps
    <2>7. QED BY <1>3, <2>6, RecordKeeps DEF ProposeEpochTransition
  <1>4. ASSUME NEW id \in ProposalIds, NEW signer \in Signers,
               ApproveEpochTransition(signer, id)
        PROVE  RegistryInv'
    <2>1. ProposalInv(Approve(proposals[id], signer),
                      QuorumSince(id, Approve(proposals[id], signer)))
      BY <1>1, <1>2, <1>4, ApproveKeeps DEF ApproveEpochTransition
    <2>2. QED BY <1>4, <2>1, RecordKeeps DEF ApproveEpochTransition
  <1>5. ASSUME NEW id \in ProposalIds, NEW signer \in Signers,
               RevokeApproval(signer, id)
        PROVE  RegistryInv'
    <2>1. ProposalInv(Revoke(proposals[id], signer),
                      QuorumSince(id, Revoke(proposals[id], signer)))
      BY <1>1, <1>2, <1>5, RevokeKeeps DEF RevokeApproval, Revocable
    <2>2. QED BY <1>5, <2>1, RecordKeeps DEF RevokeApproval
  <1>6. ASSUME NEW id \in ProposalIds, ExecuteEpochTransition(id)
        PROVE  RegistryInv'
    <2>1. proposals' = [proposals EXCEPT ![id].executed = TRUE]
          /\ UNCHANGED <<timestamp, quorumSince>>
      BY <1>6 DEF ExecuteEpochTransition
    <2>2. DOMAIN proposals' = ProposalIds /\ DOMAIN quorumSince' = ProposalIds
      BY <2>1 DEF RegistryInv
    <2>3. ASSUME NEW x \in ProposalIds
          PROVE  ProposalInv(proposals'[x], quorumSince'[x])
      <3>1. ProposalInv(proposals[x], quorumSince[x]) BY <1>1
      <3>2. proposals'[x] = IF x = id THEN [proposals[x] EXCEPT !.executed = TRUE]
                            ELSE proposals[x]
        BY <2>1 DEF RegistryInv
      <3>3. quorumSince'[x] = quorumSince[x] BY <2>1
      <3>4. CASE x = id
        <4>1. proposals[x] \in Proposal BY <3>1 DEF ProposalInv
        <4>2. /\ proposals'[x] \in Proposal
              /\ proposals'[x].exists = proposals[x].exists
              /\ proposals'[x].approved = proposals[x].approved
              /\ proposals'[x].approvalCount = proposals[x].approvalCount
              /\ proposals'[x].readyAt = proposals[x].readyAt
          BY <3>2, <3>4, <4>1 DEF Proposal
        <4>3. QED BY <3>1, <3>3, <4>2 DEF ProposalInv
      <3>5. QED BY <3>1, <3>2, <3>3, <3>4
    <2>4. QED BY <2>1, <2>2, <2>3 DEF RegistryInv, ProposalInv
  <1>7. CASE NextBlock
    BY <1>2, <1>7 DEF NextBlock, RegistryInv, ProposalInv
  <1>8. CASE UNCHANGED registryVars
    BY <1>8 DEF registryVars, RegistryInv, ProposalInv
  <1>9. QED BY <1>3, <1>4, <1>5, <1>6, <1>7, <1>8 DEF RegistryNext

\* The invariant holds in every behaviour.
LEMMA RegistryAlwaysInv == RegistrySpec => []RegistryInv
  BY RegistryInitInv, RegistryStep, PTL DEF RegistrySpec

(***************************************************************************)
(* The timelock runs exactly while a quorum approves, from when it last    *)
(* came together, for any number of signers and any threshold.             *)
(***************************************************************************)
THEOREM TimelockSound == RegistrySpec => []TimelockFollowsQuorum
  <1>1. RegistryInv => TimelockFollowsQuorum
    BY ThresholdType DEF RegistryInv, ProposalInv, TimelockFollowsQuorum
  <1>2. QED BY <1>1, RegistryAlwaysInv, PTL

(***************************************************************************)
(* No proposal is executed before a quorum has approved of it for the      *)
(* whole timelock without a break.                                         *)
(***************************************************************************)
THEOREM NothingSkipsTheTimelock == RegistrySpec => ExecutedAfterTimelock
  <1> DEFINE Late(id) == ~proposals[id].executed /\ proposals'[id].executed =>
                             /\ Cardinality(proposals[id].approved) >= threshold
                             /\ quorumSince[id] # 0
                             /\ quorumSince[id] + timelockDelay <= timestamp
  <1>1. ASSUME RegistryInv, [RegistryNext]_registryVars, NEW id \in ProposalIds
        PROVE  Late(id)
    <2>1. ProposalInv(proposals[id], quorumSince[id]) BY <1>1 DEF RegistryInv
    <2>2. ASSUME NEW x \in ProposalIds, ExecuteEpochTransition(x) PROVE Late(id)
      <3>1. CASE x = id
        BY <2>1, <2>2, <3>1 DEF ExecuteEpochTransition, ProposalInv
      <3>2. CASE x # id
        BY <1>1, <2>2, <3>2 DEF ExecuteEpochTransition, RegistryInv
      <3>3. QED BY <3>1, <3>2
    <2>3. ASSUME NEW x \in ProposalIds, NEW p, Record(x, p), ~p.executed
          PROVE  Late(id)
      BY <1>1, <2>3 DEF Record, RegistryInv
    <2>4. ASSUME NEW x \in ProposalIds, NEW signer \in Signers,
                 ProposeEpochTransition(signer, x)
          PROVE  Late(id)
      <3>1. ~Approve([NoProposal EXCEPT !.exists = TRUE], signer).executed
        BY DEF Approve, NoProposal
      <3>2. QED BY <2>3, <2>4, <3>1 DEF ProposeEpochTransition
    <2>5. ASSUME NEW x \in ProposalIds, NEW signer \in Signers,
                 ApproveEpochTransition(signer, x)
          PROVE  Late(id)
      <3>1. proposals[x] \in Proposal BY <1>1 DEF RegistryInv, ProposalInv
      <3>2. ~Approve(proposals[x], signer).executed
        BY <2>5, <3>1 DEF ApproveEpochTransition, Approve, Proposal
      <3>3. QED BY <2>3, <2>5, <3>2 DEF ApproveEpochTransition
    <2>6. ASSUME NEW x \in ProposalIds, NEW signer \in Signers,
                 RevokeApproval(signer, x)
          PROVE  Late(id)
      <3>1. proposals[x] \in Proposal BY <1>1 DEF RegistryInv, ProposalInv
      <3>2. ~Revoke(proposals[x], signer).executed
        BY <2>6, <3>1 DEF RevokeApproval, Revocable, Revoke, Proposal
      <3>3. QED BY <2>3, <2>6, <3>2 DEF RevokeApproval
    <2>7. CASE NextBlock BY <2>7 DEF NextBlock
    <2>8. CASE UNCHANGED registryVars BY <2>8 DEF registryVars
    <2>9. QED BY <1>1, <2>2, <2>4, <2>5, <2>6, <2>7, <2>8 DEF RegistryNext
  <1>2. RegistryInv /\ [RegistryNext]_registryVars =>
            [\A id \in ProposalIds : Late(id)]_registryVars
    BY <1>1
  <1>3. QED
    BY <1>2, RegistryAlwaysInv, PTL DEF RegistrySpec, ExecutedAfterTimelock

\* What is known of the stakes: enough to say what an update leaves alone.
StakesInv ==
    /\ genesisSet \in BOOLEAN
    /\ currentEpoch \in Nat
    /\ DOMAIN stakeByEpoch = RegistryEpochs
    /\ DOMAIN totalStakeByEpoch = RegistryEpochs

\* Epochs are executed in sequence, so the stakes stay known.
LEMMA StakesAlwaysInv == RegistrySpec => []StakesInv
  <1>1. ASSUME RegistryInit PROVE StakesInv
    <2>1. /\ genesisSet = FALSE /\ currentEpoch = 0
          /\ stakeByEpoch = [e \in RegistryEpochs |-> [k \in PkHashes |-> 0]]
          /\ totalStakeByEpoch = [e \in RegistryEpochs |-> 0]
      BY <1>1 DEF RegistryInit
    <2>2. DOMAIN stakeByEpoch = RegistryEpochs BY <2>1, Zenon
    <2>3. QED BY <2>1, <2>2 DEF StakesInv
  <1>2. StakesInv /\ [RegistryNext]_registryVars => StakesInv'
    <2> SUFFICES ASSUME StakesInv, [RegistryNext]_registryVars PROVE StakesInv'
      OBVIOUS
    <2>1. ASSUME NEW id \in ProposalIds, ExecuteEpochTransition(id)
          PROVE  StakesInv'
      <3>1. id.epoch \in Nat BY RegistryAssumption DEF ProposalIds, RegistryEpochs
      <3>2. QED BY <2>1, <3>1 DEF ExecuteEpochTransition, StakesInv
    <2>2. CASE UNCHANGED <<genesisSet, currentEpoch, stakeByEpoch, totalStakeByEpoch>>
      BY <2>2 DEF StakesInv
    <2>3. QED
      BY <2>1, <2>2 DEF RegistryNext, ProposeEpochTransition, ApproveEpochTransition,
         RevokeApproval, Record, NextBlock, registryVars
  <1>3. QED BY <1>1, <1>2, PTL DEF RegistrySpec

(***************************************************************************)
(* The stakes of an executed epoch never change, whatever is proposed.     *)
(***************************************************************************)
THEOREM ExecutedEpochsFrozen == RegistrySpec => EpochsFrozen
  <1> DEFINE Frozen(e) == genesisSet /\ e <= currentEpoch =>
                              /\ stakeByEpoch'[e] = stakeByEpoch[e]
                              /\ totalStakeByEpoch'[e] = totalStakeByEpoch[e]
  <1>1. ASSUME StakesInv, [RegistryNext]_registryVars, NEW e \in RegistryEpochs
        PROVE  Frozen(e)
    <2>1. ASSUME NEW id \in ProposalIds, ExecuteEpochTransition(id)
          PROVE  Frozen(e)
      <3>1. CASE genesisSet /\ e <= currentEpoch
        <4>1. id.epoch = currentEpoch + 1
          BY <2>1, <3>1 DEF ExecuteEpochTransition, EpochInSequence, ExpectedEpoch
        <4>2. e \in Nat BY RegistryAssumption DEF RegistryEpochs
        <4>3. e # id.epoch BY <1>1, <3>1, <4>1, <4>2 DEF StakesInv
        <4>4. QED BY <1>1, <2>1, <4>3 DEF ExecuteEpochTransition, StakesInv
      <3>2. QED BY <3>1
    <2>2. CASE UNCHANGED <<genesisSet, currentEpoch, stakeByEpoch, totalStakeByEpoch>>
      BY <2>2
    <2>3. QED
      BY <1>1, <2>1, <2>2 DEF RegistryNext, ProposeEpochTransition,
         ApproveEpochTransition, RevokeApproval, Record, NextBlock, registryVars
  <1>2. StakesInv /\ [RegistryNext]_registryVars =>
            [\A e \in RegistryEpochs : Frozen(e)]_registryVars
    BY <1>1
  <1>3. QED BY <1>2, StakesAlwaysInv, PTL DEF RegistrySpec, EpochsFrozen

(***************************************************************************)
(* The invariant behind the order of epochs: what was executed belongs to  *)
(* an epoch that was reached, and each such epoch has exactly one.         *)
(***************************************************************************)
SequenceInv ==
    /\ StakesInv
    /\ RegistryInv
    /\ \A id \in ProposalIds : proposals[id].executed =>
          proposals[id].exists /\ genesisSet /\ id.epoch <= currentEpoch
    /\ \A x, y \in ProposalIds :
          proposals[x].executed /\ proposals[y].executed /\ x.epoch = y.epoch => x = y
    /\ \A e \in RegistryEpochs : genesisSet /\ e <= currentEpoch =>
          \E id \in ProposalIds : id.epoch = e /\ proposals[id].executed

\* What every step but an execution does.
ExecutesNothing ==
    /\ \A id \in ProposalIds :
          /\ proposals'[id].executed = proposals[id].executed
          /\ proposals[id].exists => proposals'[id].exists
    /\ UNCHANGED <<genesisSet, currentEpoch>>

LEMMA OthersExecuteNothing ==
    ASSUME SequenceInv, [RegistryNext]_registryVars,
           ~ \E id \in ProposalIds : ExecuteEpochTransition(id)
    PROVE  ExecutesNothing
  <1>0. RegistryInv /\ \A x \in ProposalIds : proposals[x] \in Proposal
    BY DEF SequenceInv, RegistryInv, ProposalInv
  <1>1. ASSUME NEW x \in ProposalIds, NEW p, Record(x, p), p.exists,
               p.executed = proposals[x].executed
        PROVE  ExecutesNothing
    BY <1>0, <1>1 DEF Record, RegistryInv, ExecutesNothing
  <1>2. ASSUME NEW x \in ProposalIds, NEW signer \in Signers,
               ProposeEpochTransition(signer, x)
        PROVE  ExecutesNothing
    <2> DEFINE p == Approve([NoProposal EXCEPT !.exists = TRUE], signer)
    <2>1. p.executed = FALSE /\ p.exists = TRUE BY DEF Approve, NoProposal
    <2>2. proposals[x].executed = FALSE
      BY <1>0, <1>2 DEF SequenceInv, ProposeEpochTransition, Proposal
    <2>3. Record(x, p) BY <1>2 DEF ProposeEpochTransition
    <2> HIDE DEF p
    <2>4. QED BY <1>1, <2>1, <2>2, <2>3
  <1>3. ASSUME NEW x \in ProposalIds, NEW signer \in Signers,
               ApproveEpochTransition(signer, x)
        PROVE  ExecutesNothing
    <2>1. /\ Approve(proposals[x], signer).executed = proposals[x].executed
          /\ Approve(proposals[x], signer).exists
      BY <1>0, <1>3 DEF Approve, Proposal, ApproveEpochTransition
    <2>2. QED BY <1>1, <1>3, <2>1 DEF ApproveEpochTransition
  <1>4. ASSUME NEW x \in ProposalIds, NEW signer \in Signers, RevokeApproval(signer, x)
        PROVE  ExecutesNothing
    <2>1. /\ Revoke(proposals[x], signer).executed = proposals[x].executed
          /\ Revoke(proposals[x], signer).exists
      BY <1>0, <1>4 DEF Revoke, Proposal, RevokeApproval, Revocable
    <2>2. QED BY <1>1, <1>4, <2>1 DEF RevokeApproval
  <1>5. CASE NextBlock BY <1>5 DEF NextBlock, ExecutesNothing
  <1>6. CASE UNCHANGED registryVars BY <1>6 DEF registryVars, ExecutesNothing
  <1>7. QED BY <1>2, <1>3, <1>4, <1>5, <1>6 DEF RegistryNext

\* Proposals compete for an epoch, and one of them takes it.
LEMMA SequenceStep ==
    ASSUME SequenceInv, StakesInv', RegistryInv', [RegistryNext]_registryVars
    PROVE  SequenceInv'
  <1>0. /\ currentEpoch \in Nat /\ genesisSet \in BOOLEAN
        /\ \A id \in ProposalIds : id.epoch \in RegistryEpochs /\ id.epoch \in Nat
    BY RegistryAssumption DEF SequenceInv, StakesInv, ProposalIds, RegistryEpochs
  <1>1. ASSUME NEW x \in ProposalIds, ExecuteEpochTransition(x)
        PROVE  SequenceInv'
    <2>1. /\ x.epoch = ExpectedEpoch /\ genesisSet' = TRUE /\ currentEpoch' = x.epoch
          /\ proposals[x].exists /\ ~ proposals[x].executed
          /\ proposals' = [proposals EXCEPT ![x].executed = TRUE]
      BY <1>1 DEF ExecuteEpochTransition, EpochInSequence
    <2>2. \A id \in ProposalIds :
            /\ proposals'[id].executed <=> id = x \/ proposals[id].executed
            /\ proposals'[id].exists = proposals[id].exists
      <3>1. DOMAIN proposals = ProposalIds /\ proposals[x] \in Proposal
        BY DEF SequenceInv, RegistryInv, ProposalInv
      <3>2. QED BY <2>1, <3>1 DEF Proposal
    <2>3. \A id \in ProposalIds : proposals[id].executed => id.epoch < x.epoch
      BY <1>0, <2>1 DEF SequenceInv, ExpectedEpoch
    <2>4. \A e \in RegistryEpochs : e < x.epoch => genesisSet /\ e <= currentEpoch
      <3>1. \A e \in RegistryEpochs : e \in Nat BY RegistryAssumption DEF RegistryEpochs
      <3>2. QED BY <1>0, <2>1, <3>1 DEF ExpectedEpoch
    <2>5. \A id \in ProposalIds : proposals'[id].executed =>
            proposals'[id].exists /\ genesisSet' /\ id.epoch <= currentEpoch'
      BY <1>0, <2>1, <2>2, <2>3 DEF SequenceInv
    <2>6. \A y, z \in ProposalIds :
            proposals'[y].executed /\ proposals'[z].executed /\ y.epoch = z.epoch => y = z
      BY <1>0, <2>2, <2>3 DEF SequenceInv
    <2>7. ASSUME NEW e \in RegistryEpochs, e <= currentEpoch'
          PROVE  \E id \in ProposalIds : id.epoch = e /\ proposals'[id].executed
      <3>1. e \in Nat /\ x.epoch \in Nat BY <1>0, RegistryAssumption DEF RegistryEpochs
      <3>2. CASE e = x.epoch BY <2>2, <3>2
      <3>3. CASE e < x.epoch
        <4>1. PICK id \in ProposalIds : id.epoch = e /\ proposals[id].executed
          BY <2>4, <3>3 DEF SequenceInv
        <4>2. QED BY <2>2, <4>1
      <3>4. QED BY <2>1, <2>7, <3>1, <3>2, <3>3
    <2>8. QED BY <2>5, <2>6, <2>7 DEF SequenceInv
  <1>2. CASE ~ \E id \in ProposalIds : ExecuteEpochTransition(id)
    <2>1. ExecutesNothing BY <1>2, OthersExecuteNothing
    <2>2. QED BY <2>1 DEF SequenceInv, ExecutesNothing
  <1>3. QED BY <1>1, <1>2

LEMMA SequenceAlwaysInv == RegistrySpec => []SequenceInv
  <1>1. RegistryInit => SequenceInv
    <2> SUFFICES ASSUME RegistryInit PROVE SequenceInv
      OBVIOUS
    <2>1. RegistryInv BY RegistryInitInv
    <2>2. /\ genesisSet = FALSE /\ currentEpoch = 0
          /\ \A id \in ProposalIds : proposals[id] = NoProposal
      BY DEF RegistryInit
    <2>3. StakesInv
      <3>1. /\ stakeByEpoch = [e \in RegistryEpochs |-> [k \in PkHashes |-> 0]]
            /\ totalStakeByEpoch = [e \in RegistryEpochs |-> 0]
        BY DEF RegistryInit
      <3>2. DOMAIN stakeByEpoch = RegistryEpochs BY <3>1, Zenon
      <3>3. QED BY <2>2, <3>1, <3>2 DEF StakesInv
    <2>4. QED BY <2>1, <2>2, <2>3 DEF SequenceInv, NoProposal
  <1>2. SequenceInv /\ StakesInv' /\ RegistryInv' /\ [RegistryNext]_registryVars => SequenceInv'
    BY SequenceStep
  <1>3. QED BY <1>1, <1>2, StakesAlwaysInv, RegistryAlwaysInv, PTL DEF RegistrySpec

(***************************************************************************)
(* executeEpochTransition sets the epochs one after the other, each once,  *)
(* however many proposals for it are ready.                                *)
(***************************************************************************)
THEOREM EpochsInSequence == RegistrySpec => []OneProposalPerEpoch
  <1>1. ASSUME SequenceInv, NEW e \in RegistryEpochs
        PROVE  Cardinality({id \in ProposalIds : id.epoch = e /\ proposals[id].executed})
                  = IF genesisSet /\ e <= currentEpoch THEN 1 ELSE 0
    <2> DEFINE executed == {id \in ProposalIds : id.epoch = e /\ proposals[id].executed}
    <2>1. CASE genesisSet /\ e <= currentEpoch
      <3>1. PICK id \in ProposalIds : id.epoch = e /\ proposals[id].executed
        BY <1>1, <2>1 DEF SequenceInv
      <3>2. executed = {id} BY <1>1, <3>1 DEF SequenceInv
      <3>3. Cardinality({id}) = 1 BY FS_Singleton
      <3>4. QED BY <2>1, <3>2, <3>3
    <2>2. CASE ~ (genesisSet /\ e <= currentEpoch)
      <3>1. executed = {} BY <1>1, <2>2 DEF SequenceInv
      <3>2. QED BY <2>2, <3>1, FS_EmptySet
    <2>3. QED BY <2>1, <2>2
  <1>2. SequenceInv => OneProposalPerEpoch BY <1>1 DEF OneProposalPerEpoch
  <1>3. QED BY <1>2, SequenceAlwaysInv, PTL

-----------------------------------------------------------------------------
\* Every key of a list has its last entry, and the last entries are a part of all.
LEMMA ListedWithinTotal ==
    ASSUME NEW set \in ValidatorSets, NEW f,
           \A k \in PkHashes :
              f[k] = IF \E i \in DOMAIN set : set[i].pkHash = k
                     THEN ListedStake(set, k) ELSE 0
    PROVE  /\ TotalStake(set) \in Nat
           /\ \A k \in PkHashes : f[k] \in Nat
           /\ SumFunctionOnSet(f, PkHashes) <= TotalStake(set)
  <1> DEFINE D == DOMAIN set
             entries(k) == {i \in D : set[i].pkHash = k}
             K == {k \in PkHashes : entries(k) # {}}
             last == [k \in K |-> CHOOSE i \in entries(k) : \A j \in entries(k) : j <= i]
             g == [i \in D |-> set[i].stake]
  <1>1. /\ IsFiniteSet(D) /\ D \subseteq Int
        /\ \A i \in D : set[i].pkHash \in PkHashes /\ set[i].stake \in Nat
    <2>1. set \in Seq([pkHash : PkHashes, stake : Nat]) BY RegistryAssumption
    <2>2. Len(set) \in Nat /\ D = 1 .. Len(set) BY <2>1
    <2>3. IsFiniteSet(1 .. Len(set)) BY <2>2, FS_Interval
    <2>4. ASSUME NEW E, set \in Seq(E) PROVE \A i \in DOMAIN set : set[i] \in E
      BY <2>4
    <2>5. \A i \in D : set[i] \in [pkHash : PkHashes, stake : Nat] BY <2>1, <2>4
    <2>6. QED BY <2>2, <2>3, <2>5
  <1>2. ASSUME NEW k \in K
        PROVE  /\ last[k] \in D /\ set[last[k]].pkHash = k
               /\ f[k] = set[last[k]].stake
    <2> HIDE DEF D
    <2>1. IsFiniteSet(entries(k)) /\ entries(k) \subseteq Int /\ entries(k) # {}
      BY <1>1, FS_Subset
    <2>2. \E i \in entries(k) : \A j \in entries(k) : j <= i
      BY <2>1, FiniteHasMax
    <2>3. last[k] \in entries(k) BY <2>2
    <2>4. ListedStake(set, k) = set[last[k]].stake BY <2>1 DEF ListedStake, D
    <2>5. f[k] = ListedStake(set, k) BY <2>1 DEF D
    <2>6. QED BY <2>3, <2>4, <2>5
  <1>3. IsFiniteSet(PkHashes) BY RegistryAssumption
  <1>4. IsFiniteSet(K) /\ IsFiniteSet(PkHashes \ K) /\ K \subseteq PkHashes
    BY <1>3, FS_Subset
  <1>5. \A i \in D : g[i] \in Nat BY <1>1
  <1>6. \A x, y \in K : last[x] = last[y] => x = y
    <2> HIDE DEF last, K
    <2>1. QED BY <1>2
  <1>7. \A k \in K : f[k] \in Nat /\ g[last[k]] = f[k] BY <1>1, <1>2
  <1>8. \A k \in PkHashes \ K : f[k] = 0 OBVIOUS
  <1>9. {last[k] : k \in K} \in SUBSET D
    <2> HIDE DEF last, K, D
    <2>1. QED BY <1>2
  <1>10. TotalStake(set) = SumFunctionOnSet(g, D) BY DEF TotalStake
  <1> HIDE DEF K, g, D, last
  <1>11. SumFunctionOnSet(g, {last[k] : k \in K}) = SumFunctionOnSet(f, K)
    <2>1. \A x \in K : f[x] \in Int /\ g[last[x]] = f[x] BY <1>7
    <2>2. QED BY <1>4, <1>6, <2>1, SumImage
  <1>12. SumFunctionOnSet(g, {last[k] : k \in K}) <= SumFunctionOnSet(g, D)
    BY <1>1, <1>5, <1>9, SumSubset
  <1>13. SumFunctionOnSet(f, PkHashes) = SumFunctionOnSet(f, K)
    <2>1. K \cup (PkHashes \ K) = PkHashes BY <1>4
    <2>2. \A k \in K \cup (PkHashes \ K) : f[k] \in Int BY <1>7, <1>8
    <2>3. SumFunctionOnSet(f, K \cup (PkHashes \ K))
            = SumFunctionOnSet(f, K) + SumFunctionOnSet(f, PkHashes \ K)
      BY <1>4, <2>2, SumUnion
    <2>4. SumFunctionOnSet(f, PkHashes \ K) = 0 BY <1>4, <1>8, SumZero
    <2>5. SumFunctionOnSet(f, K) \in Int BY <1>4, <1>7, SumType
    <2>6. SumFunctionOnSet(f, PkHashes) = SumFunctionOnSet(f, K) + SumFunctionOnSet(f, PkHashes \ K)
      BY <2>1, <2>3, Zenon
    <2>7. QED BY <2>4, <2>5, <2>6
  <1>14. SumFunctionOnSet(g, D) \in Nat BY <1>1, <1>5, SumNat
  <1>15. \A k \in PkHashes : f[k] \in Nat BY <1>7, <1>8
  <1>16. QED BY <1>10, <1>11, <1>12, <1>13, <1>14, <1>15

(***************************************************************************)
(* The invariant behind the totals: an epoch not executed yet has no stake *)
(* at all, so that an execution, which leaves alone the stake of a key its *)
(* list does not name, sets every stake there is.                          *)
(***************************************************************************)
WeighedInv ==
    /\ StakesInv
    /\ \A e \in RegistryEpochs :
          /\ \A k \in PkHashes : stakeByEpoch[e][k] \in Nat
          /\ totalStakeByEpoch[e] \in Nat
          /\ SumFunctionOnSet(stakeByEpoch[e], PkHashes) <= totalStakeByEpoch[e]
          /\ ~ (genesisSet /\ e <= currentEpoch) =>
                /\ totalStakeByEpoch[e] = 0
                /\ \A k \in PkHashes : stakeByEpoch[e][k] = 0
                /\ DOMAIN stakeByEpoch[e] = PkHashes

LEMMA WeighedInit == RegistryInit => WeighedInv
  <1> SUFFICES ASSUME RegistryInit PROVE WeighedInv
    OBVIOUS
  <1>1. /\ genesisSet = FALSE /\ currentEpoch = 0
        /\ stakeByEpoch = [e \in RegistryEpochs |-> [k \in PkHashes |-> 0]]
        /\ totalStakeByEpoch = [e \in RegistryEpochs |-> 0]
    BY DEF RegistryInit
  <1>2. StakesInv
    <2>1. DOMAIN stakeByEpoch = RegistryEpochs BY <1>1, Zenon
    <2>2. QED BY <1>1, <2>1 DEF StakesInv
  <1>3. ASSUME NEW e \in RegistryEpochs
        PROVE  /\ \A k \in PkHashes : stakeByEpoch[e][k] = 0
               /\ DOMAIN stakeByEpoch[e] = PkHashes
               /\ SumFunctionOnSet(stakeByEpoch[e], PkHashes) = 0
    <2>1. stakeByEpoch[e] = [k \in PkHashes |-> 0] BY <1>1, Zenon
    <2>2. DOMAIN stakeByEpoch[e] = PkHashes BY <2>1, Zenon
    <2>3. \A k \in PkHashes : stakeByEpoch[e][k] = 0 BY <2>1
    <2>4. QED BY <2>2, <2>3, RegistryAssumption, SumZero
  <1>4. QED BY <1>1, <1>2, <1>3 DEF WeighedInv

LEMMA WeighedStep ==
    ASSUME WeighedInv, StakesInv', [RegistryNext]_registryVars
    PROVE  WeighedInv'
  <1>1. ASSUME NEW id \in ProposalIds, ExecuteEpochTransition(id)
        PROVE  WeighedInv'
    <2> DEFINE e == id.epoch
               f == [k \in PkHashes |->
                       IF \E i \in DOMAIN id.set : id.set[i].pkHash = k
                       THEN ListedStake(id.set, k) ELSE stakeByEpoch[e][k]]
    <2>1. /\ e \in RegistryEpochs /\ e \in Nat /\ id.set \in ValidatorSets
          /\ currentEpoch \in Nat /\ genesisSet \in BOOLEAN
      BY RegistryAssumption DEF ProposalIds, RegistryEpochs, WeighedInv, StakesInv
    <2>2. /\ e = ExpectedEpoch /\ genesisSet' = TRUE /\ currentEpoch' = e
          /\ stakeByEpoch' = [stakeByEpoch EXCEPT ![e] = f]
          /\ totalStakeByEpoch' = [totalStakeByEpoch EXCEPT ![e] = TotalStake(id.set)]
      BY <1>1 DEF ExecuteEpochTransition, EpochInSequence
    <2>3. ~ (genesisSet /\ e <= currentEpoch) BY <2>1, <2>2 DEF ExpectedEpoch
    <2>4. \A k \in PkHashes :
            f[k] = IF \E i \in DOMAIN id.set : id.set[i].pkHash = k
                   THEN ListedStake(id.set, k) ELSE 0
      BY <2>1, <2>3 DEF WeighedInv
    <2> HIDE DEF f
    <2>5. /\ TotalStake(id.set) \in Nat
          /\ \A k \in PkHashes : f[k] \in Nat
          /\ SumFunctionOnSet(f, PkHashes) <= TotalStake(id.set)
      BY <2>1, <2>4, ListedWithinTotal
    <2> HIDE DEF e
    <2>6. /\ stakeByEpoch'[e] = f /\ totalStakeByEpoch'[e] = TotalStake(id.set)
          /\ \A d \in RegistryEpochs : d # e =>
                /\ stakeByEpoch'[d] = stakeByEpoch[d]
                /\ totalStakeByEpoch'[d] = totalStakeByEpoch[d]
      BY <2>1, <2>2 DEF WeighedInv, StakesInv
    <2>7. ASSUME NEW d \in RegistryEpochs
          PROVE  /\ \A k \in PkHashes : stakeByEpoch'[d][k] \in Nat
                 /\ totalStakeByEpoch'[d] \in Nat
                 /\ SumFunctionOnSet(stakeByEpoch'[d], PkHashes) <= totalStakeByEpoch'[d]
                 /\ ~ (genesisSet' /\ d <= currentEpoch') =>
                       /\ totalStakeByEpoch'[d] = 0
                       /\ \A k \in PkHashes : stakeByEpoch'[d][k] = 0
                       /\ DOMAIN stakeByEpoch'[d] = PkHashes
      <3>1. CASE d = e
        <4>1. d <= currentEpoch' BY <2>1, <2>2, <3>1
        <4>2. QED BY <2>2, <2>5, <2>6, <3>1, <4>1
      <3>2. CASE d # e
        <4>1. d \in Nat BY RegistryAssumption DEF RegistryEpochs
        <4>2. ~ (genesisSet' /\ d <= currentEpoch') => ~ (genesisSet /\ d <= currentEpoch)
          BY <2>1, <2>2, <4>1 DEF ExpectedEpoch
        <4>3. QED BY <2>6, <3>2, <4>2 DEF WeighedInv
      <3>3. QED BY <3>1, <3>2
    <2>8. QED BY <2>7 DEF WeighedInv
  <1>2. CASE UNCHANGED <<genesisSet, currentEpoch, stakeByEpoch, totalStakeByEpoch>>
    BY <1>2 DEF WeighedInv, StakesInv
  <1>3. QED
    BY <1>1, <1>2 DEF RegistryNext, ProposeEpochTransition, ApproveEpochTransition,
       RevokeApproval, Record, NextBlock, registryVars

LEMMA WeighedAlwaysInv == RegistrySpec => []WeighedInv
  <1>1. WeighedInv /\ StakesInv' /\ [RegistryNext]_registryVars => WeighedInv'
    BY WeighedStep
  <1>2. QED BY <1>1, WeighedInit, StakesAlwaysInv, PTL DEF RegistrySpec

(***************************************************************************)
(* The total stored for an epoch covers every stake stored for it, also    *)
(* when the list names a key more than once.                               *)
(***************************************************************************)
THEOREM TotalCoversStakes == RegistrySpec => []StakeWithinTotal
  <1>1. WeighedInv => StakeWithinTotal BY DEF WeighedInv, StakeWithinTotal
  <1>2. QED BY <1>1, WeighedAlwaysInv, PTL

-----------------------------------------------------------------------------
\* The keys that signed a root for a block.
Signatories(b, root) == {k \in PkHashes : root \in signed[k][b]}

(***************************************************************************)
(* The invariant of the oracle: the signatures that finalized a root stay  *)
(* on record, their stake stays frozen, and only a faulty key has signed   *)
(* two roots for one block.                                                *)
(***************************************************************************)
OracleInv ==
    /\ WeighedInv
    /\ DOMAIN signed = PkHashes
    /\ \A k \in PkHashes : DOMAIN signed[k] = Blocks
    /\ \A k \in PkHashes \ Faulty, b \in Blocks : \A r, q \in signed[k][b] : r = q
    /\ finalizations \subseteq [block : Blocks, epoch : RegistryEpochs, root : Roots]
    /\ \A f \in finalizations :
          /\ genesisSet /\ f.epoch <= currentEpoch
          /\ SumFunctionOnSet(stakeByEpoch[f.epoch], Signatories(f.block, f.root))
                >= QuorumThreshold(f.epoch)

\* The keys of an epoch are finitely many, and so are those of a part of it.
LEMMA KeysFinite ==
    ASSUME NEW T \in SUBSET PkHashes
    PROVE  IsFiniteSet(T)
  BY RegistryAssumption, FS_Subset

\* The stakes that are added up are numbers.
LEMMA SignedStakeType ==
    ASSUME WeighedInv, NEW b, NEW root, NEW epoch \in RegistryEpochs,
           NEW keys \in Submissions
    PROVE  SignedStake(b, root, epoch, keys) \in Int
  <1> DEFINE valid == {i \in DOMAIN keys : root \in signed[keys[i]][b]}
             g == [i \in DOMAIN keys |-> StakeAt(epoch, keys[i])]
  <1>1. PICK n \in Nat : keys \in [1 .. n -> PkHashes]
    BY OracleAssumption DEF Submissions
  <1>2. IsFiniteSet(DOMAIN keys)
    <2>1. DOMAIN keys = 1 .. n BY <1>1, Zenon
    <2>2. IsFiniteSet(1 .. n) BY <1>1, FS_Interval
    <2>3. QED BY <2>1, <2>2, Zenon
  <1>3. IsFiniteSet(valid) BY <1>2, FS_Subset
  <1>4. \A i \in DOMAIN keys : keys[i] \in PkHashes BY <1>1, Zenon
  <1>5. \A k \in PkHashes : stakeByEpoch[epoch][k] \in Nat BY DEF WeighedInv
  <1>6. \A i \in valid : g[i] \in Int BY <1>4, <1>5 DEF StakeAt
  <1>7. SignedStake(b, root, epoch, keys) = SumFunctionOnSet(g, valid)
    BY DEF SignedStake
  <1> HIDE DEF valid, g
  <1>8. QED BY <1>3, <1>6, <1>7, SumType

\* submitHeader counts no key twice, since the keys are in increasing order.
LEMMA SubmissionWithinSignatories ==
    ASSUME WeighedInv, NEW b, NEW root, NEW epoch \in RegistryEpochs,
           NEW keys \in Submissions, StrictlyIncreasing(keys)
    PROVE  SignedStake(b, root, epoch, keys)
              <= SumFunctionOnSet(stakeByEpoch[epoch], Signatories(b, root))
  <1> DEFINE valid == {i \in DOMAIN keys : root \in signed[keys[i]][b]}
             g == [i \in DOMAIN keys |-> StakeAt(epoch, keys[i])]
             f == stakeByEpoch[epoch]
             A == Signatories(b, root)
  <1>1. PICK n \in Nat : keys \in [1 .. n -> PkHashes]
    BY OracleAssumption DEF Submissions
  <1>2. /\ IsFiniteSet(DOMAIN keys) /\ DOMAIN keys \subseteq Int
        /\ \A i \in DOMAIN keys : keys[i] \in PkHashes /\ keys[i] \in Nat
    <2>1. DOMAIN keys = 1 .. n BY <1>1, Zenon
    <2>2. IsFiniteSet(1 .. n) BY <1>1, FS_Interval
    <2>3. IsFiniteSet(DOMAIN keys) BY <2>1, <2>2, Zenon
    <2>4. \A i \in 1 .. n : i \in Int /\ keys[i] \in PkHashes /\ keys[i] \in Nat
      <3>1. PkHashes \subseteq Nat BY RegistryAssumption
      <3>2. \A i \in 1 .. n : i \in Int OBVIOUS
      <3>3. \A i \in 1 .. n : keys[i] \in PkHashes BY <1>1, Zenon
      <3>4. QED BY <3>1, <3>2, <3>3, Zenon
    <2>5. QED BY <2>1, <2>3, <2>4, Zenon
  <1>3. IsFiniteSet(valid) BY <1>2, FS_Subset
  <1>4. \A k \in PkHashes : f[k] \in Nat BY DEF WeighedInv
  <1>5. \A i \in valid : g[i] \in Int /\ f[keys[i]] = g[i]
    BY <1>2, <1>4 DEF StakeAt
  <1>6. ASSUME NEW i \in valid, NEW j \in valid, keys[i] = keys[j] PROVE i = j
    <2>1. i \in Int /\ j \in Int /\ keys[i] \in Nat BY <1>2
    <2>2. CASE i < j
      <3>1. keys[i] < keys[j] BY <2>2 DEF StrictlyIncreasing
      <3>2. QED BY <1>6, <2>1, <3>1
    <2>3. CASE j < i
      <3>1. keys[j] < keys[i] BY <2>3 DEF StrictlyIncreasing
      <3>2. QED BY <1>6, <2>1, <3>1
    <2>4. QED BY <2>1, <2>2, <2>3
  <1>7. {keys[i] : i \in valid} \in SUBSET A
    <2>1. \A i \in valid : keys[i] \in A BY <1>2 DEF Signatories
    <2> HIDE DEF valid, A
    <2>2. QED BY <2>1
  <1>8. SignedStake(b, root, epoch, keys) = SumFunctionOnSet(g, valid)
    BY DEF SignedStake
  <1>9. A \in SUBSET PkHashes BY DEF Signatories
  <1> HIDE DEF valid, g, f, A
  <1>10. SumFunctionOnSet(f, {keys[i] : i \in valid}) = SumFunctionOnSet(g, valid)
    BY <1>3, <1>5, <1>6, SumImage
  <1>11. SumFunctionOnSet(f, {keys[i] : i \in valid}) <= SumFunctionOnSet(f, A)
    BY <1>4, <1>7, <1>9, KeysFinite, SumSubset
  <1>12. QED BY <1>8, <1>10, <1>11 DEF f, A

\* An epoch without stake has no quorum, for its threshold is one.
LEMMA QuorumOnlyOfExecuted ==
    ASSUME WeighedInv, NEW epoch \in RegistryEpochs, NEW A \in SUBSET PkHashes,
           SumFunctionOnSet(stakeByEpoch[epoch], A) >= QuorumThreshold(epoch)
    PROVE  genesisSet /\ epoch <= currentEpoch
  <1> SUFFICES ASSUME ~ (genesisSet /\ epoch <= currentEpoch) PROVE FALSE
    OBVIOUS
  <1>1. totalStakeByEpoch[epoch] = 0 /\ \A k \in A : stakeByEpoch[epoch][k] = 0
    BY DEF WeighedInv
  <1>2. SumFunctionOnSet(stakeByEpoch[epoch], A) = 0
    BY <1>1, KeysFinite, SumZero
  <1>3. QuorumThreshold(epoch) = 1 BY <1>1 DEF QuorumThreshold
  <1>4. QED BY <1>2, <1>3

\* A quorum is a natural number of more than two thirds.
LEMMA QuorumIsTwoThirds ==
    ASSUME WeighedInv, NEW epoch \in RegistryEpochs
    PROVE  /\ QuorumThreshold(epoch) \in Nat
           /\ 3 * QuorumThreshold(epoch) > 2 * totalStakeByEpoch[epoch]
  <1>1. totalStakeByEpoch[epoch] \in Nat BY DEF WeighedInv
  <1>2. QED BY <1>1 DEF QuorumThreshold

\* Two quorums of an epoch have more than a third of its stake in common.
LEMMA QuorumsIntersect ==
    ASSUME WeighedInv, NEW epoch \in RegistryEpochs,
           NEW A \in SUBSET PkHashes, NEW B \in SUBSET PkHashes,
           SumFunctionOnSet(stakeByEpoch[epoch], A) >= QuorumThreshold(epoch),
           SumFunctionOnSet(stakeByEpoch[epoch], B) >= QuorumThreshold(epoch)
    PROVE  3 * SumFunctionOnSet(stakeByEpoch[epoch], A \cap B)
              > totalStakeByEpoch[epoch]
  <1> DEFINE f == stakeByEpoch[epoch]
             total == totalStakeByEpoch[epoch]
  <1>1. /\ total \in Nat /\ \A k \in PkHashes : f[k] \in Nat
        /\ SumFunctionOnSet(f, PkHashes) <= total
    BY DEF WeighedInv
  <1>2. QuorumThreshold(epoch) \in Nat /\ 3 * QuorumThreshold(epoch) > 2 * total
    BY QuorumIsTwoThirds
  <1>3. /\ SumFunctionOnSet(f, A) >= QuorumThreshold(epoch)
        /\ SumFunctionOnSet(f, B) >= QuorumThreshold(epoch)
    OBVIOUS
  <1> HIDE DEF f, total
  <1>4. /\ IsFiniteSet(PkHashes) /\ IsFiniteSet(A) /\ IsFiniteSet(B) /\ IsFiniteSet(B \ A)
        /\ IsFiniteSet(A \cap B)
    BY RegistryAssumption, FS_Subset
  <1>5. SumFunctionOnSet(f, A \cup (B \ A))
          = SumFunctionOnSet(f, A) + SumFunctionOnSet(f, B \ A)
    <2>1. \A k \in A \cup (B \ A) : f[k] \in Int BY <1>1
    <2>2. A \cap (B \ A) = {} OBVIOUS
    <2>3. QED BY <1>4, <2>1, <2>2, SumUnion
  <1>6. SumFunctionOnSet(f, A \cup (B \ A)) <= SumFunctionOnSet(f, PkHashes)
    <2>1. A \cup (B \ A) \in SUBSET PkHashes OBVIOUS
    <2>2. QED BY <1>1, <1>4, <2>1, SumSubset
  <1>7. SumFunctionOnSet(f, B) = SumFunctionOnSet(f, A \cap B) + SumFunctionOnSet(f, B \ A)
    <2>1. \A k \in (A \cap B) \cup (B \ A) : f[k] \in Int BY <1>1
    <2>2. (A \cap B) \cap (B \ A) = {} OBVIOUS
    <2>3. SumFunctionOnSet(f, (A \cap B) \cup (B \ A))
            = SumFunctionOnSet(f, A \cap B) + SumFunctionOnSet(f, B \ A)
      BY <1>4, <2>1, <2>2, SumUnion
    <2>4. (A \cap B) \cup (B \ A) = B OBVIOUS
    <2>5. QED BY <2>3, <2>4, Zenon
  <1>8. /\ SumFunctionOnSet(f, A) \in Nat /\ SumFunctionOnSet(f, B) \in Nat
        /\ SumFunctionOnSet(f, A \cap B) \in Nat /\ SumFunctionOnSet(f, B \ A) \in Nat
        /\ SumFunctionOnSet(f, PkHashes) \in Nat
        /\ SumFunctionOnSet(f, A \cup (B \ A)) \in Nat
    <2>1. /\ \A k \in A : f[k] \in Nat
          /\ \A k \in B : f[k] \in Nat
      BY <1>1
    <2>2. SumFunctionOnSet(f, A) + SumFunctionOnSet(f, B \ A) \in Nat
      BY <1>4, <2>1, SumNat
    <2>3. QED BY <1>1, <1>4, <1>5, <2>1, <2>2, SumNat
  <1>9. \A a, c, d, e, p, q, t \in Nat :
           a >= q /\ c + d >= q /\ 3 * q > 2 * t /\ a + d <= p /\ p <= t => 3 * c > t
    OBVIOUS
  <1>10. 3 * SumFunctionOnSet(f, A \cap B) > total
    <2>1. SumFunctionOnSet(f, A \cap B) + SumFunctionOnSet(f, B \ A) >= QuorumThreshold(epoch)
      BY <1>3, <1>7
    <2>2. SumFunctionOnSet(f, A) + SumFunctionOnSet(f, B \ A) <= SumFunctionOnSet(f, PkHashes)
      BY <1>5, <1>6
    <2> DEFINE a == SumFunctionOnSet(f, A)
               c == SumFunctionOnSet(f, A \cap B)
               d == SumFunctionOnSet(f, B \ A)
               p == SumFunctionOnSet(f, PkHashes)
               q == QuorumThreshold(epoch)
    <2>3. a \in Nat /\ c \in Nat /\ d \in Nat /\ p \in Nat /\ q \in Nat
      BY <1>2, <1>8
    <2>4. a >= q /\ c + d >= q /\ 3 * q > 2 * total /\ a + d <= p /\ p <= total
      BY <1>1, <1>2, <1>3, <2>1, <2>2
    <2> HIDE DEF a, c, d, p, q
    <2>5. 3 * c > total BY <1>1, <1>9, <2>3, <2>4
    <2>6. QED BY <2>5 DEF c
  <1>11. QED BY <1>10 DEF f, total

LEMMA OracleInitInv == OracleInit => OracleInv
  <1> SUFFICES ASSUME OracleInit PROVE OracleInv
    OBVIOUS
  <1>1. /\ signed = [k \in PkHashes |-> [b \in Blocks |-> {}]]
        /\ finalizations = {}
    BY DEF OracleInit
  <1>2. WeighedInv BY WeighedInit DEF OracleInit
  <1>3. DOMAIN signed = PkHashes BY <1>1, Zenon
  <1>4. \A k \in PkHashes : signed[k] = [b \in Blocks |-> {}] BY <1>1, Zenon
  <1>5. \A k \in PkHashes : DOMAIN signed[k] = Blocks BY <1>4, Zenon
  <1>6. \A k \in PkHashes, b \in Blocks : signed[k][b] = {} BY <1>4
  <1>7. QED BY <1>1, <1>2, <1>3, <1>5, <1>6 DEF OracleInv

\* A step of the registry leaves alone every epoch that has finalized something.
LEMMA RegistryKeepsOracle ==
    ASSUME OracleInv, WeighedInv', [RegistryNext]_registryVars, UNCHANGED oracleVars
    PROVE  OracleInv'
  <1>1. signed' = signed /\ finalizations' = finalizations BY DEF oracleVars
  <1>2. WeighedInv BY DEF OracleInv
  <1>3. ASSUME NEW e \in RegistryEpochs, genesisSet, e <= currentEpoch
        PROVE  /\ genesisSet' /\ e <= currentEpoch'
               /\ stakeByEpoch'[e] = stakeByEpoch[e]
               /\ totalStakeByEpoch'[e] = totalStakeByEpoch[e]
    <2>1. e \in Nat /\ currentEpoch \in Nat /\ genesisSet \in BOOLEAN
      BY <1>2, RegistryAssumption DEF RegistryEpochs, WeighedInv, StakesInv
    <2>2. ASSUME NEW id \in ProposalIds, ExecuteEpochTransition(id)
          PROVE  /\ genesisSet' /\ e <= currentEpoch'
                 /\ stakeByEpoch'[e] = stakeByEpoch[e]
                 /\ totalStakeByEpoch'[e] = totalStakeByEpoch[e]
      <3>1. /\ id.epoch = currentEpoch + 1 /\ currentEpoch' = id.epoch /\ genesisSet' = TRUE
        BY <1>3, <2>2 DEF ExecuteEpochTransition, EpochInSequence, ExpectedEpoch
      <3>2. e # id.epoch BY <1>3, <2>1, <3>1
      <3>3. /\ stakeByEpoch'[e] = stakeByEpoch[e]
            /\ totalStakeByEpoch'[e] = totalStakeByEpoch[e]
        BY <1>2, <2>2, <3>2 DEF ExecuteEpochTransition, WeighedInv, StakesInv
      <3>4. QED BY <1>3, <2>1, <3>1, <3>3
    <2>3. CASE UNCHANGED <<genesisSet, currentEpoch, stakeByEpoch, totalStakeByEpoch>>
      BY <1>3, <2>3
    <2>4. QED
      BY <2>2, <2>3 DEF RegistryNext, ProposeEpochTransition, ApproveEpochTransition,
         RevokeApproval, Record, NextBlock, registryVars
  <1>4. ASSUME NEW f \in finalizations'
        PROVE  /\ genesisSet' /\ f.epoch <= currentEpoch'
               /\ SumFunctionOnSet(stakeByEpoch'[f.epoch], Signatories(f.block, f.root)')
                     >= QuorumThreshold(f.epoch)'
    <2>1. /\ f \in finalizations /\ f.epoch \in RegistryEpochs
          /\ genesisSet /\ f.epoch <= currentEpoch
          /\ SumFunctionOnSet(stakeByEpoch[f.epoch], Signatories(f.block, f.root))
                >= QuorumThreshold(f.epoch)
      BY <1>1 DEF OracleInv
    <2>2. Signatories(f.block, f.root)' = Signatories(f.block, f.root)
      BY <1>1 DEF Signatories
    <2>3. QuorumThreshold(f.epoch)' = QuorumThreshold(f.epoch)
      BY <1>3, <2>1 DEF QuorumThreshold
    <2>4. stakeByEpoch'[f.epoch] = stakeByEpoch[f.epoch] BY <1>3, <2>1
    <2>5. genesisSet' /\ f.epoch <= currentEpoch' BY <1>3, <2>1
    <2>6. QED BY <2>1, <2>2, <2>3, <2>4, <2>5
  <1>5. QED BY <1>1, <1>4 DEF OracleInv

\* A signature adds to what is on record.
LEMMA SignKeeps ==
    ASSUME OracleInv, NEW k \in PkHashes, NEW b \in Blocks, NEW root \in Roots,
           Sign(k, b, root)
    PROVE  OracleInv'
  <1>1. /\ signed' = [signed EXCEPT ![k][b] = @ \cup {root}]
        /\ k \in Faulty \/ signed[k][b] = {}
        /\ finalizations' = finalizations
        /\ genesisSet' = genesisSet /\ currentEpoch' = currentEpoch
        /\ stakeByEpoch' = stakeByEpoch /\ totalStakeByEpoch' = totalStakeByEpoch
    BY DEF Sign, registryVars
  <1>2. WeighedInv' BY <1>1 DEF OracleInv, WeighedInv, StakesInv
  <1>3. /\ DOMAIN signed' = PkHashes
        /\ \A j \in PkHashes : DOMAIN signed'[j] = Blocks
        /\ \A j \in PkHashes, c \in Blocks :
              signed'[j][c] = IF j = k /\ c = b THEN signed[j][c] \cup {root}
                              ELSE signed[j][c]
    BY <1>1 DEF OracleInv
  <1>4. \A j \in PkHashes \ Faulty, c \in Blocks : \A r, q \in signed'[j][c] : r = q
    BY <1>1, <1>3 DEF OracleInv
  <1>5. ASSUME NEW f \in finalizations
        PROVE  SumFunctionOnSet(stakeByEpoch[f.epoch], Signatories(f.block, f.root)')
                  >= QuorumThreshold(f.epoch)
    <2> DEFINE A == Signatories(f.block, f.root)
               B == Signatories(f.block, f.root)'
               s == stakeByEpoch[f.epoch]
    <2>1. f.block \in Blocks /\ f.epoch \in RegistryEpochs BY DEF OracleInv
    <2>2. A \in SUBSET B /\ B \in SUBSET PkHashes /\ A \in SUBSET PkHashes
      BY <1>3, <2>1 DEF Signatories
    <2>3. \A j \in PkHashes : s[j] \in Nat BY <2>1 DEF OracleInv, WeighedInv
    <2>4. SumFunctionOnSet(s, A) >= QuorumThreshold(f.epoch) BY DEF OracleInv
    <2>5. QuorumThreshold(f.epoch) \in Nat BY <2>1, QuorumIsTwoThirds DEF OracleInv
    <2> HIDE DEF A, B, s
    <2>6. IsFiniteSet(A) /\ IsFiniteSet(B) BY <2>2, KeysFinite
    <2>7. SumFunctionOnSet(s, A) <= SumFunctionOnSet(s, B)
      BY <2>2, <2>3, <2>6, SumSubset
    <2>8. SumFunctionOnSet(s, A) \in Nat /\ SumFunctionOnSet(s, B) \in Nat
      BY <2>2, <2>3, <2>6, SumNat
    <2>9. SumFunctionOnSet(s, B) >= QuorumThreshold(f.epoch)
      BY <2>4, <2>5, <2>7, <2>8
    <2>10. QED BY <2>9 DEF B, s
  <1>6. \A f \in finalizations : QuorumThreshold(f.epoch)' = QuorumThreshold(f.epoch)
    BY <1>1 DEF QuorumThreshold
  <1>7. \A f \in finalizations' :
          /\ genesisSet' /\ f.epoch <= currentEpoch'
          /\ SumFunctionOnSet(stakeByEpoch'[f.epoch], Signatories(f.block, f.root)')
                >= QuorumThreshold(f.epoch)'
    BY <1>1, <1>5, <1>6 DEF OracleInv
  <1>8. finalizations' \subseteq [block : Blocks, epoch : RegistryEpochs, root : Roots]
    BY <1>1 DEF OracleInv
  <1>9. QED BY <1>2, <1>3, <1>4, <1>7, <1>8 DEF OracleInv

\* A submission is recorded with the signatures it was made of.
LEMMA SubmitHeaderKeeps ==
    ASSUME OracleInv, NEW b \in Blocks, NEW root \in Roots,
           NEW epoch \in RegistryEpochs, NEW keys \in Submissions,
           SubmitHeader(b, root, epoch, keys)
    PROVE  OracleInv'
  <1> DEFINE new == [block |-> b, epoch |-> epoch, root |-> root]
  <1>1. /\ StrictlyIncreasing(keys)
        /\ SignedStake(b, root, epoch, keys) >= QuorumThreshold(epoch)
        /\ finalizations' = finalizations \cup {new}
        /\ signed' = signed
        /\ genesisSet' = genesisSet /\ currentEpoch' = currentEpoch
        /\ stakeByEpoch' = stakeByEpoch /\ totalStakeByEpoch' = totalStakeByEpoch
    BY DEF SubmitHeader, registryVars
  <1>2. WeighedInv BY DEF OracleInv
  <1>3. WeighedInv' BY <1>1 DEF OracleInv, WeighedInv, StakesInv
  <1>4. SumFunctionOnSet(stakeByEpoch[epoch], Signatories(b, root)) >= QuorumThreshold(epoch)
    <2> DEFINE A == Signatories(b, root)
    <2>1. A \in SUBSET PkHashes BY DEF Signatories
    <2>2. \A k \in A : stakeByEpoch[epoch][k] \in Nat BY <1>2, <2>1 DEF WeighedInv
    <2> HIDE DEF A
    <2>3. SumFunctionOnSet(stakeByEpoch[epoch], A) \in Nat
      BY <2>1, <2>2, KeysFinite, SumNat
    <2>4. SignedStake(b, root, epoch, keys) <= SumFunctionOnSet(stakeByEpoch[epoch], A)
      BY <1>1, <1>2, SubmissionWithinSignatories DEF A
    <2>5. SignedStake(b, root, epoch, keys) \in Int
      BY <1>2, SignedStakeType
    <2>6. QuorumThreshold(epoch) \in Nat BY <1>2, QuorumIsTwoThirds
    <2>7. SumFunctionOnSet(stakeByEpoch[epoch], A) >= QuorumThreshold(epoch)
      BY <1>1, <2>3, <2>4, <2>5, <2>6
    <2>8. QED BY <2>7 DEF A
  <1>5. genesisSet /\ epoch <= currentEpoch
    <2>1. Signatories(b, root) \in SUBSET PkHashes BY DEF Signatories
    <2>2. QED BY <1>2, <1>4, <2>1, QuorumOnlyOfExecuted
  <1>6. new.block = b /\ new.epoch = epoch /\ new.root = root
        /\ new \in [block : Blocks, epoch : RegistryEpochs, root : Roots]
    OBVIOUS
  <1> HIDE DEF new
  <1>7. \A f \in finalizations \cup {new} :
          /\ genesisSet /\ f.epoch <= currentEpoch
          /\ SumFunctionOnSet(stakeByEpoch[f.epoch], Signatories(f.block, f.root))
                >= QuorumThreshold(f.epoch)
    <2>1. \A f \in finalizations :
            /\ genesisSet /\ f.epoch <= currentEpoch
            /\ SumFunctionOnSet(stakeByEpoch[f.epoch], Signatories(f.block, f.root))
                  >= QuorumThreshold(f.epoch)
      BY DEF OracleInv
    <2>2. /\ genesisSet /\ new.epoch <= currentEpoch
          /\ SumFunctionOnSet(stakeByEpoch[new.epoch], Signatories(new.block, new.root))
                >= QuorumThreshold(new.epoch)
      BY <1>4, <1>5, <1>6
    <2>3. QED BY <2>1, <2>2
  <1>8. \A e, c, r : Signatories(c, r)' = Signatories(c, r)
                     /\ QuorumThreshold(e)' = QuorumThreshold(e)
    BY <1>1 DEF Signatories, QuorumThreshold
  <1>9. \A f \in finalizations' :
          /\ genesisSet' /\ f.epoch <= currentEpoch'
          /\ SumFunctionOnSet(stakeByEpoch'[f.epoch], Signatories(f.block, f.root)')
                >= QuorumThreshold(f.epoch)'
    BY <1>1, <1>7, <1>8
  <1>10. finalizations' \subseteq [block : Blocks, epoch : RegistryEpochs, root : Roots]
    BY <1>1, <1>6 DEF OracleInv
  <1>11. QED BY <1>1, <1>3, <1>9, <1>10 DEF OracleInv

\* A step is the registry's, a signature or a submission.
LEMMA OracleStep ==
    ASSUME OracleInv, StakesInv', [OracleNext]_<<registryVars, oracleVars>>
    PROVE  OracleInv'
  <1>1. CASE RegistryNext /\ UNCHANGED oracleVars
    <2>1. WeighedInv' BY <1>1, WeighedStep DEF OracleInv
    <2>2. QED BY <1>1, <2>1, RegistryKeepsOracle
  <1>2. CASE UNCHANGED <<registryVars, oracleVars>>
    <2>1. UNCHANGED registryVars /\ UNCHANGED oracleVars BY <1>2
    <2>2. WeighedInv' BY <2>1, WeighedStep DEF OracleInv
    <2>3. QED BY <2>1, <2>2, RegistryKeepsOracle
  <1>3. QED BY <1>1, <1>2, SignKeeps, SubmitHeaderKeeps DEF OracleNext

\* The oracle's registry is a registry.
LEMMA OracleRefinesRegistry == OracleSpec => RegistrySpec
  <1>1. OracleInit => RegistryInit BY DEF OracleInit
  <1>2. [OracleNext]_<<registryVars, oracleVars>> => [RegistryNext]_registryVars
    BY DEF OracleNext, Sign, SubmitHeader
  <1>3. QED BY <1>1, <1>2, PTL DEF OracleSpec, RegistrySpec

LEMMA OracleAlwaysInv == OracleSpec => []OracleInv
  <1>1. OracleInv /\ StakesInv' /\ [OracleNext]_<<registryVars, oracleVars>> => OracleInv'
    BY OracleStep
  <1>2. QED
    BY <1>1, OracleInitInv, OracleRefinesRegistry, StakesAlwaysInv, PTL DEF OracleSpec

(***************************************************************************)
(* An epoch that governance has not executed finalizes nothing: its stakes *)
(* are all zero, and the threshold of a total of zero is one.              *)
(***************************************************************************)
THEOREM OnlyExecutedEpochsFinalize == OracleSpec => []FinalizedByExecutedEpoch
  <1>1. OracleInv => FinalizedByExecutedEpoch BY DEF OracleInv, FinalizedByExecutedEpoch
  <1>2. QED BY <1>1, OracleAlwaysInv, PTL

(***************************************************************************)
(* What submitHeader accepted is justified at any later time by the keys   *)
(* that signed and the stakes stored for the epoch.                        *)
(***************************************************************************)
THEOREM QuorumStaysOnRecord == OracleSpec => []QuorumOnRecord
  <1>1. OracleInv => QuorumOnRecord BY DEF OracleInv, QuorumOnRecord, Signatories
  <1>2. QED BY <1>1, OracleAlwaysInv, PTL

(***************************************************************************)
(* Two roots finalized by an epoch for one block share keys with more than *)
(* a third of its stake, which signed both and so are faulty.              *)
(***************************************************************************)
THEOREM NoConflictingRoots == OracleSpec => []OneRootPerEpoch
  <1>1. ASSUME OracleInv, NEW f \in finalizations, NEW g \in finalizations,
               f.block = g.block, f.epoch = g.epoch, f.root # g.root
        PROVE  ~ (3 * FaultyStake(f.epoch) <= totalStakeByEpoch[f.epoch])
    <2> DEFINE A == Signatories(f.block, f.root)
               B == Signatories(g.block, g.root)
               s == stakeByEpoch[f.epoch]
    <2>1. /\ WeighedInv /\ f.epoch \in RegistryEpochs /\ f.block \in Blocks
          /\ SumFunctionOnSet(s, A) >= QuorumThreshold(f.epoch)
          /\ SumFunctionOnSet(s, B) >= QuorumThreshold(f.epoch)
      BY <1>1 DEF OracleInv
    <2>2. /\ A \in SUBSET PkHashes /\ B \in SUBSET PkHashes /\ Faulty \in SUBSET PkHashes
      BY OracleAssumption DEF Signatories
    <2>3. A \cap B \in SUBSET Faulty
      BY <1>1, <2>1 DEF OracleInv, Signatories
    <2>4. /\ \A k \in PkHashes : s[k] \in Nat /\ totalStakeByEpoch[f.epoch] \in Nat
      BY <2>1 DEF WeighedInv
    <2> HIDE DEF A, B
    <2>5. 3 * SumFunctionOnSet(s, A \cap B) > totalStakeByEpoch[f.epoch]
      BY <2>1, <2>2, QuorumsIntersect
    <2>6. IsFiniteSet(Faulty) /\ IsFiniteSet(A \cap B) BY <2>2, KeysFinite
    <2>7. \A k \in Faulty : s[k] \in Nat BY <2>2, <2>4
    <2>8. SumFunctionOnSet(s, A \cap B) <= SumFunctionOnSet(s, Faulty)
      BY <2>3, <2>6, <2>7, SumSubset
    <2>9. SumFunctionOnSet(s, Faulty) \in Nat /\ SumFunctionOnSet(s, A \cap B) \in Nat
      BY <2>3, <2>6, <2>7, SumNat
    <2>10. totalStakeByEpoch[f.epoch] \in Nat BY <2>1 DEF WeighedInv
    <2>11. QED BY <2>5, <2>8, <2>9, <2>10 DEF FaultyStake
  <1>2. OracleInv => OneRootPerEpoch BY <1>1 DEF OneRootPerEpoch
  <1>3. QED BY <1>2, OracleAlwaysInv, PTL
=============================================================================
