---------------------------- MODULE ChainContext -----------------------------
(***************************************************************************)
(* MonadChainContext (chain.rs): what the block executor tells the EVM of  *)
(* the last blocks, and whether the sender of a transaction may spend its  *)
(* reserve.  The executor is external: it gives the two blocks before this *)
(* one as sets and this one as lists, with the index of the transaction.   *)
(***************************************************************************)
EXTENDS Naturals, Sequences

CONSTANTS
    Senders,     \* accounts that send transactions
    Histories    \* this block and the two before it

Transactions == [sender : Senders, authorities : SUBSET Senders]

ASSUME ChainAssumption ==
    Histories \subseteq [grandparent : Seq(Transactions), parent : Seq(Transactions),
                         current : Seq(Transactions)]

Involved(block) ==
    UNION {{block[i].sender} \cup block[i].authorities : i \in DOMAIN block}

\* The context of the transaction at that place of the current block.
Context(history, place) ==
    [parent_senders_and_authorities      |-> Involved(history.parent),
     grandparent_senders_and_authorities |-> Involved(history.grandparent),
     current_block_senders     |-> [i \in DOMAIN history.current |->
                                       history.current[i].sender],
     current_block_authorities |-> [i \in DOMAIN history.current |->
                                       history.current[i].authorities],
     current_tx_index          |-> place]

\* A slip: who is an authority of the transaction itself is not looked at.
CanDipByEarlier(chain, sender, delegated) ==
    /\ ~delegated
    /\ sender \notin chain.grandparent_senders_and_authorities
    /\ sender \notin chain.parent_senders_and_authorities
    /\ \A i \in DOMAIN chain.current_block_senders :
          i < chain.current_tx_index =>
              /\ chain.current_block_senders[i] # sender
              /\ sender \notin chain.current_block_authorities[i]

\* sender_can_dip
SenderCanDip(chain, sender, delegated) ==
    /\ ~delegated
    /\ sender \notin chain.grandparent_senders_and_authorities
    /\ sender \notin chain.parent_senders_and_authorities
    /\ \A i \in DOMAIN chain.current_block_senders :
          i < chain.current_tx_index => chain.current_block_senders[i] # sender
    /\ \A i \in DOMAIN chain.current_block_authorities :
          i <= chain.current_tx_index => sender \notin chain.current_block_authorities[i]
=============================================================================
