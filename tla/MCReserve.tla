----------------------------- MODULE MCReserve ------------------------------
(***************************************************************************)
(* One account of each kind, for TLC.                                      *)
(***************************************************************************)
EXTENDS ReserveBalance

CONSTANTS user, wallet

FundedWith == [a \in Accounts |-> IF a = user THEN 2 ELSE 1]

WithCode == [a \in Accounts |-> IF a = wallet THEN "eip7702" ELSE "none"]

From(sender, authorities) == [sender |-> sender, authorities |-> authorities]

\* What may be on record of a block before this one, and of this one.
Older == {<<>>, <<From(user, {})>>, <<From(wallet, {user})>>}

Begun == Older \cup {<<From(wallet, {})>>}

\* Every transaction there is, after a little history, and with another to come.
RecentBlocks ==
    {[grandparent |-> g, parent |-> p, current |-> b \o <<From(s, A)>>] :
        g \in Older, p \in Older, b \in Begun, s \in Senders, A \in SUBSET Senders}
=============================================================================
