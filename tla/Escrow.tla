------------------------------- MODULE Escrow -------------------------------
(***************************************************************************)
(* What the staking precompile promises those who entrust money to it: an  *)
(* escrow.  Stake is moved by its owner alone, comes back in full, to the  *)
(* account it is filed under and not before it is due, and every reward is *)
(* paid out of what that validator was given for it.  How rewards are      *)
(* shared, which epoch a stake counts from and who produces blocks are not *)
(* the business of the escrow.                                             *)
(***************************************************************************)
EXTENDS Integers

CONSTANTS
    Accounts,
    Validators,
    Tickets,    \* the ids a withdrawal can be filed under
    Funds,      \* what each account owns at the start
    Delays,     \* epochs between a request and its payment
    Minted      \* rewards a block can bring

VARIABLES
    now,        \* the epoch
    wallet,     \* wallet[a]: balance of an account
    stake,      \* stake[v][a]: what a has entrusted to v
    request,    \* request[v][a][w]: stake under way back to a
    pot         \* pot[v]: rewards of v that have not been paid

escrowVars == <<now, wallet, stake, request, pot>>

NoRequest == [amount |-> 0, due |-> 0]

EscrowInit ==
    /\ now = 0
    /\ wallet = [a \in Accounts |-> Funds]
    /\ stake = [v \in Validators |-> [a \in Accounts |-> 0]]
    /\ request =
          [v \in Validators |-> [a \in Accounts |-> [w \in Tickets |-> NoRequest]]]
    /\ pot = [v \in Validators |-> 0]

\* An account stakes what it owns, for itself or for another.
Deposit(payer, v, a, amount) ==
    /\ wallet' = [wallet EXCEPT ![payer] = @ - amount]
    /\ stake' = [stake EXCEPT ![v][a] = @ + amount]
    /\ UNCHANGED <<now, request, pot>>

\* Rewards are staked instead of paid.
Restake(v, a, amount) ==
    /\ pot' = [pot EXCEPT ![v] = @ - amount]
    /\ stake' = [stake EXCEPT ![v][a] = @ + amount]
    /\ UNCHANGED <<now, wallet, request>>

\* Stake is asked back under a free ticket.
Leave(v, a, w, amount) ==
    /\ request[v][a][w] = NoRequest
    /\ stake' = [stake EXCEPT ![v][a] = @ - amount]
    /\ \E delay \in Delays :
          request' = [request EXCEPT ![v][a][w] =
                         [amount |-> amount, due |-> now + delay]]
    /\ UNCHANGED <<now, wallet, pot>>

\* A request that is due is paid in full, with what it earned on the way.
Return(v, a, w, reward) ==
    /\ request[v][a][w] # NoRequest
    /\ request[v][a][w].due <= now
    /\ wallet' = [wallet EXCEPT ![a] = @ + (request[v][a][w].amount + reward)]
    /\ request' = [request EXCEPT ![v][a][w] = NoRequest]
    /\ pot' = [pot EXCEPT ![v] = @ - reward]
    /\ UNCHANGED <<now, stake>>

\* Rewards are paid.
Collect(v, a, reward) ==
    /\ wallet' = [wallet EXCEPT ![a] = @ + reward]
    /\ pot' = [pot EXCEPT ![v] = @ - reward]
    /\ UNCHANGED <<now, stake, request>>

\* An account gives a validator's delegators a reward.
Donate(payer, v, amount) ==
    /\ wallet' = [wallet EXCEPT ![payer] = @ - amount]
    /\ pot' = [pot EXCEPT ![v] = @ + amount]
    /\ UNCHANGED <<now, stake, request>>

\* The reward of a block, the one thing that brings new money.
Mint(v, amount) ==
    /\ pot' = [pot EXCEPT ![v] = @ + amount]
    /\ UNCHANGED <<now, wallet, stake, request>>

Advance ==
    /\ now' > now
    /\ UNCHANGED <<wallet, stake, request, pot>>

EscrowNext ==
    \/ Advance
    \/ \E v \in Validators :
          \/ \E amount \in Minted : Mint(v, amount)
          \/ \E a \in Accounts :
                \/ \E amount \in 0 .. wallet[a] : Donate(a, v, amount)
                \/ \E payer \in Accounts : \E amount \in 1 .. wallet[payer] :
                      Deposit(payer, v, a, amount)
                \/ \E amount \in 1 .. pot[v] :
                      Restake(v, a, amount) \/ Collect(v, a, amount)
                \/ \E w \in Tickets :
                      \/ \E amount \in 1 .. stake[v][a] : Leave(v, a, w, amount)
                      \/ \E reward \in 0 .. pot[v] : Return(v, a, w, reward)

EscrowSpec == EscrowInit /\ [][EscrowNext]_escrowVars
=============================================================================
