---------------------------- MODULE HeaderOracle ----------------------------
(***************************************************************************)
(* SuwappuDagQuorumHeaderOracle.sol on top of its validator registry: a    *)
(* state root is finalized for a block once keys with more than two thirds *)
(* of an epoch's stake have signed it.  What the validators sign is        *)
(* external: a key outside Faulty signs at most one root for each block.   *)
(* The signed digest names the block and the root, not the epoch.          *)
(***************************************************************************)
EXTENDS ValidatorRegistry

CONSTANTS
    Blocks, Roots,
    NoRoot,        \* nothing finalized
    Faulty,        \* keys that sign whatever they like
    MaxKeys        \* bound: keys of a submission

ASSUME OracleAssumption ==
    /\ NoRoot \notin Roots
    /\ Faulty \subseteq PkHashes
    /\ MaxKeys \in Nat

VARIABLES
    signed,            \* signed[k][b]: roots the key signed for the block
    headerStateRoot,
    finalizations      \* history: every [block, epoch, root] ever finalized

oracleVars == <<signed, headerStateRoot, finalizations>>

OracleInit ==
    /\ RegistryInit
    /\ signed = [k \in PkHashes |-> [b \in Blocks |-> {}]]
    /\ headerStateRoot = [b \in Blocks |-> NoRoot]
    /\ finalizations = {}

\* A validator signs the digest of a header.
Sign(k, b, root) ==
    /\ root \notin signed[k][b]
    /\ k \in Faulty \/ signed[k][b] = {}
    /\ signed' = [signed EXCEPT ![k][b] = @ \cup {root}]
    /\ UNCHANGED <<registryVars, headerStateRoot, finalizations>>

\* A slip: keys may come in any order, or more than once.
AnyOrder(keys) == TRUE

StrictlyIncreasing(keys) ==
    \A i, j \in DOMAIN keys : i < j => keys[i] < keys[j]

\* The stake of the submitted keys whose signatures verify.
SignedStake(b, root, epoch, keys) ==
    LET valid == {i \in DOMAIN keys : root \in signed[keys[i]][b]}
    IN  SumFunctionOnSet([i \in DOMAIN keys |-> StakeAt(epoch, keys[i])], valid)

\* submitHeader: anyone may call, naming any epoch.
SubmitHeader(b, root, epoch, keys) ==
    /\ StrictlyIncreasing(keys)
    /\ SignedStake(b, root, epoch, keys) >= QuorumThreshold(epoch)
    /\ headerStateRoot' = [headerStateRoot EXCEPT ![b] = root]
    /\ finalizations' = finalizations \cup {[block |-> b, epoch |-> epoch, root |-> root]}
    /\ UNCHANGED <<registryVars, signed>>

Submissions == UNION {[1 .. n -> PkHashes] : n \in 0 .. MaxKeys}

OracleNext ==
    \/ RegistryNext /\ UNCHANGED oracleVars
    \/ \E b \in Blocks, root \in Roots :
          \/ \E k \in PkHashes : Sign(k, b, root)
          \/ \E epoch \in RegistryEpochs, keys \in Submissions :
                SubmitHeader(b, root, epoch, keys)

OracleSpec == OracleInit /\ [][OracleNext]_<<registryVars, oracleVars>>

-----------------------------------------------------------------------------
FaultyStake(epoch) == SumFunctionOnSet(stakeByEpoch[epoch], Faulty)

(***************************************************************************)
(* While at most a third of an epoch's stake is faulty, the epoch's        *)
(* validators never finalize two roots for one block.                      *)
(***************************************************************************)
OneRootPerEpoch ==
    \A f, g \in finalizations :
        f.block = g.block /\ f.epoch = g.epoch
        /\ 3 * FaultyStake(f.epoch) <= totalStakeByEpoch[f.epoch]
            => f.root = g.root

(***************************************************************************)
(* Nothing is finalized by an epoch that governance has not executed, for  *)
(* which both the total and every stake read as zero.                      *)
(***************************************************************************)
FinalizedByExecutedEpoch ==
    \A f \in finalizations : genesisSet /\ f.epoch <= currentEpoch

(***************************************************************************)
(* Keys that did sign a finalized root hold a quorum of the epoch for      *)
(* good: later epochs and later signatures take nothing from it.           *)
(***************************************************************************)
QuorumOnRecord ==
    \A f \in finalizations :
        SumFunctionOnSet(stakeByEpoch[f.epoch],
                         {k \in PkHashes : f.root \in signed[k][f.block]})
            >= QuorumThreshold(f.epoch)
=============================================================================
