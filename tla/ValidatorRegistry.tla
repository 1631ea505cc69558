------------------------- MODULE ValidatorRegistry -------------------------
(***************************************************************************)
(* SuwappuDagValidatorRegistry.sol: the validator set of each epoch is     *)
(* proposed, approved by `threshold' of the signers and executed after a   *)
(* timelock, one epoch after the other.  One action per external function; *)
(* a call that reverts is a disabled action.                               *)
(***************************************************************************)
EXTENDS Naturals, FiniteSets, Sequences, Functions

CONSTANTS
    Signers,          \* the accounts of the multisig
    PkHashes,         \* hashes of validator public keys, ordered
    ValidatorSets,    \* what can be proposed: sequences of [pkHash, stake]
    threshold,        \* approvals needed
    timelockDelay,    \* time from the last needed approval to execution
    MaxEpoch,         \* bound: the last epoch proposed
    MaxTime           \* bound: the last timestamp of a block

ASSUME RegistryAssumption ==
    /\ IsFiniteSet(Signers)
    /\ PkHashes \subseteq Nat \ {0}                    \* of 256 bits
    /\ IsFiniteSet(PkHashes)
    /\ \A s \in ValidatorSets :
          /\ s \in Seq([pkHash : PkHashes, stake : Nat])
    /\ threshold \in 1 .. Cardinality(Signers)
    /\ timelockDelay \in Nat
    /\ MaxEpoch \in Nat
    /\ MaxTime \in Nat \ {0}

RegistryEpochs == 0 .. MaxEpoch

\* keccak256(abi.encode(epoch, pkHashes, stakes)): one id for each content.
ProposalIds == [epoch : RegistryEpochs, set : ValidatorSets]

Proposal == [exists : BOOLEAN, approved : SUBSET Signers, approvalCount : Nat,
             readyAt : Nat, executed : BOOLEAN]

NoProposal == [exists |-> FALSE, approved |-> {}, approvalCount |-> 0,
               readyAt |-> 0, executed |-> FALSE]

VARIABLES
    timestamp,            \* of the current block
    genesisSet, currentEpoch,
    stakeByEpoch, totalStakeByEpoch,
    proposals,
    quorumSince           \* history: since when a proposal has its quorum, or 0

registryVars == <<timestamp, genesisSet, currentEpoch, stakeByEpoch,
                  totalStakeByEpoch, proposals, quorumSince>>

RegistryInit ==
    /\ timestamp = 1
    /\ genesisSet = FALSE
    /\ currentEpoch = 0
    /\ stakeByEpoch = [e \in RegistryEpochs |-> [k \in PkHashes |-> 0]]
    /\ totalStakeByEpoch = [e \in RegistryEpochs |-> 0]
    /\ proposals = [id \in ProposalIds |-> NoProposal]
    /\ quorumSince = [id \in ProposalIds |-> 0]

\* The one epoch that can be proposed or executed now.
ExpectedEpoch == IF genesisSet THEN currentEpoch + 1 ELSE 0

-----------------------------------------------------------------------------
\* A slip: an approval beyond the threshold starts the timelock again.
ApproveRestarting(p, signer) ==
    LET count == p.approvalCount + 1
    IN  [p EXCEPT !.approved = @ \cup {signer},
                  !.approvalCount = count,
                  !.readyAt = IF count >= threshold
                              THEN timestamp + timelockDelay ELSE @]

\* _approve
Approve(p, signer) ==
    LET count == p.approvalCount + 1
    IN  [p EXCEPT !.approved = @ \cup {signer},
                  !.approvalCount = count,
                  !.readyAt = IF count = threshold /\ @ = 0
                              THEN timestamp + timelockDelay ELSE @]

\* A slip: the timelock goes on although the quorum is gone.
RevokeKeepingTimelock(p, signer) ==
    [p EXCEPT !.approved = @ \ {signer},
              !.approvalCount = @ - 1]

Revoke(p, signer) ==
    LET count == p.approvalCount - 1
    IN  [p EXCEPT !.approved = @ \ {signer},
                  !.approvalCount = count,
                  !.readyAt = IF count < threshold THEN 0 ELSE @]

\* Since when the approvals make a quorum, once a proposal becomes p.
QuorumSince(id, p) ==
    IF Cardinality(p.approved) < threshold THEN 0
    ELSE IF quorumSince[id] = 0 THEN timestamp
    ELSE quorumSince[id]

Record(id, p) ==
    /\ proposals' = [proposals EXCEPT ![id] = p]
    /\ quorumSince' = [quorumSince EXCEPT ![id] = QuorumSince(id, p)]
    /\ UNCHANGED <<timestamp, genesisSet, currentEpoch, stakeByEpoch, totalStakeByEpoch>>

-----------------------------------------------------------------------------
ProposeEpochTransition(signer, id) ==
    /\ id.epoch = ExpectedEpoch
    /\ ~proposals[id].exists
    /\ Record(id, Approve([NoProposal EXCEPT !.exists = TRUE], signer))

ApproveEpochTransition(signer, id) ==
    /\ proposals[id].exists
    /\ ~proposals[id].executed
    /\ signer \notin proposals[id].approved
    /\ Record(id, Approve(proposals[id], signer))

Revocable(p, signer) == p.exists /\ ~p.executed /\ signer \in p.approved

RevokeApproval(signer, id) ==
    /\ Revocable(proposals[id], signer)
    /\ Record(id, Revoke(proposals[id], signer))

\* The stake a list gives a key: the last entry for it counts.
ListedStake(set, k) ==
    LET entries == {i \in DOMAIN set : set[i].pkHash = k}
    IN  IF entries = {} THEN 0
        ELSE set[CHOOSE i \in entries : \A j \in entries : j <= i].stake

\* A slip: a key that was seen before is left out of the total, although its
\* stake is replaced by the later one.
TotalOfFirsts(set) ==
    SumFunctionOnSet([i \in DOMAIN set |-> set[i].stake],
        {i \in DOMAIN set : \A j \in 1 .. i - 1 : set[j].pkHash # set[i].pkHash})

\* The sum over all entries of the list, repeated keys included.
TotalStake(set) ==
    SumFunctionOnSet([i \in DOMAIN set |-> set[i].stake], DOMAIN set)

\* A slip: the epoch was checked when it was proposed.
AnyProposedEpoch(id) == TRUE

EpochInSequence(id) == id.epoch = ExpectedEpoch

\* executeEpochTransition: anyone may call.
ExecuteEpochTransition(id) ==
    LET p == proposals[id]
        e == id.epoch
    IN  /\ p.exists
        /\ ~p.executed
        /\ p.readyAt # 0
        /\ p.readyAt <= timestamp
        /\ EpochInSequence(id)
        /\ stakeByEpoch' = [stakeByEpoch EXCEPT ![e] =
              [k \in PkHashes |->
                  IF \E i \in DOMAIN id.set : id.set[i].pkHash = k
                  THEN ListedStake(id.set, k) ELSE @[k]]]
        /\ totalStakeByEpoch' = [totalStakeByEpoch EXCEPT ![e] = TotalStake(id.set)]
        /\ currentEpoch' = e
        /\ genesisSet' = TRUE
        /\ proposals' = [proposals EXCEPT ![id].executed = TRUE]
        /\ UNCHANGED <<timestamp, quorumSince>>

\* A block with a later timestamp.
NextBlock ==
    /\ timestamp < MaxTime                             \* bound
    /\ timestamp' = timestamp + 1
    /\ UNCHANGED <<genesisSet, currentEpoch, stakeByEpoch, totalStakeByEpoch,
                   proposals, quorumSince>>

RegistryNext ==
    \/ \E id \in ProposalIds :
          \/ \E signer \in Signers :
                \/ ProposeEpochTransition(signer, id)
                \/ ApproveEpochTransition(signer, id)
                \/ RevokeApproval(signer, id)
          \/ ExecuteEpochTransition(id)
    \/ NextBlock

RegistrySpec == RegistryInit /\ [][RegistryNext]_registryVars

\* A slip: two thirds are enough, and no stake at all for an unknown epoch.
ThresholdWithoutOne(epoch) == (totalStakeByEpoch[epoch] * 2) \div 3

QuorumThreshold(epoch) == (totalStakeByEpoch[epoch] * 2) \div 3 + 1

StakeAt(epoch, pkHash) == stakeByEpoch[epoch][pkHash]

-----------------------------------------------------------------------------
(***************************************************************************)
(* The timelock of a proposal runs exactly while a quorum of signers       *)
(* approves of it, and from the moment it last came together: approvals    *)
(* beyond the quorum do not move it, losing the quorum stops it.           *)
(***************************************************************************)
TimelockFollowsQuorum ==
    \A id \in ProposalIds :
        LET p == proposals[id]
        IN  /\ p.approvalCount = Cardinality(p.approved)
            /\ p.readyAt # 0 <=> Cardinality(p.approved) >= threshold
            /\ p.readyAt # 0 => p.readyAt = quorumSince[id] + timelockDelay

(***************************************************************************)
(* Whatever is executed had the approval of a quorum without a break for   *)
(* the whole of the timelock.                                              *)
(***************************************************************************)
ExecutedAfterTimelock ==
    [][\A id \in ProposalIds :
          ~proposals[id].executed /\ proposals'[id].executed =>
              /\ Cardinality(proposals[id].approved) >= threshold
              /\ quorumSince[id] # 0
              /\ quorumSince[id] + timelockDelay <= timestamp]_registryVars

(***************************************************************************)
(* Epochs follow one another without a gap, each set by one proposal only, *)
(* although several proposals for an epoch can be ready at the same time.  *)
(***************************************************************************)
OneProposalPerEpoch ==
    \A e \in RegistryEpochs :
        Cardinality({id \in ProposalIds : id.epoch = e /\ proposals[id].executed})
            = IF genesisSet /\ e <= currentEpoch THEN 1 ELSE 0

(***************************************************************************)
(* The stake of an epoch that was set never changes: the oracle may count  *)
(* signatures against it at any later time.                                *)
(***************************************************************************)
EpochsFrozen ==
    [][\A e \in RegistryEpochs :
          genesisSet /\ e <= currentEpoch =>
              /\ stakeByEpoch'[e] = stakeByEpoch[e]
              /\ totalStakeByEpoch'[e] = totalStakeByEpoch[e]]_registryVars

(***************************************************************************)
(* The total a quorum is measured by is never less than the stake that can *)
(* sign, also when a proposal names a key twice.                           *)
(***************************************************************************)
StakeWithinTotal ==
    \A e \in RegistryEpochs :
        SumFunctionOnSet(stakeByEpoch[e], PkHashes) <= totalStakeByEpoch[e]
=============================================================================
