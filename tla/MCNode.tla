------------------------------- MODULE MCNode -------------------------------
(***************************************************************************)
(* A handful of transactions for TLC.                                      *)
(***************************************************************************)
EXTENDS DevNode

CONSTANTS alice, bob, zero

Tx(sender, nonce, gasPrice, to, value) ==
  [sender |-> sender, nonce |-> nonce, gasPrice |-> gasPrice, gasLimit |-> 1,
   to |-> to, value |-> value]

\* Two that compete for a nonce, a successor of whichever wins, and one that
\* its sender can pay for only after it was paid itself.
First == Tx(alice, 0, 1, bob, 1)
Rival == Tx(alice, 0, 0, bob, 0)
Second == Tx(alice, 1, 0, bob, 1)
Returned == Tx(bob, 0, 0, alice, 1)

\* One that does not decode, and one signed for another chain.
Garbage == Tx(zero, 0, 0, zero, 0)
Foreign == Tx(bob, 0, 0, zero, 0)

Good == {First, Rival, Second, Returned}

TheTxs == Good \cup {Garbage, Foreign}
NotDecoded == {Garbage}
ForAnother == {Foreign}
MayPanic == {Second}
=============================================================================
