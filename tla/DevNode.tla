------------------------------ MODULE DevNode -------------------------------
(***************************************************************************)
(* The dev node: crates/suwappu-node/src/node.rs and rpc.rs.               *)
(*                                                                         *)
(* Clients send requests, each of which one worker of the HTTP server      *)
(* handles from beginning to end.  The state of the chain is behind one    *)
(* mutex.  A transaction holds it from the look at the chain id to the     *)
(* receipt, and takes the database out of the state while the EVM runs.    *)
(* eth_call and eth_estimateGas copy the database and let go of the mutex  *)
(* before they execute.  eth_getBlockByNumber takes it twice.              *)
(*                                                                         *)
(* A worker that panics poisons the mutex if it holds it.  Every use of    *)
(* the mutex unwraps the lock, so that all later requests panic as well;   *)
(* their connections are closed without an answer.                         *)
(*                                                                         *)
(* A receipt, the stored transaction and the block hash are written        *)
(* together and are one entry here: the number of the block.               *)
(***************************************************************************)
EXTENDS Execution, FiniteSets, Functions

CONSTANTS
  Clients,
  DEV_ACCOUNTS,  \* accounts with funds from the start
  PREFUND_WEI,
  Inspected,     \* accounts whose nonce clients ask for
  Malformed,     \* transactions that do not decode, or of a kind not supported
  OtherChain,    \* those signed for another chain
  Panicking,     \* those whose execution may panic
  NoTx,          \* model value
  Free           \* model value: nobody has the mutex

ASSUME NodeAssumption ==
  /\ DEV_ACCOUNTS \subseteq Accounts
  /\ PREFUND_WEI \in Nat
  /\ Inspected \subseteq Accounts
  /\ Malformed \cup OtherChain \cup Panicking \subseteq Txs
  /\ IsFiniteSet(Txs)
  /\ NoTx \notin Txs
  /\ Free \notin Clients

VARIABLES
  db,            \* NodeState::db
  block_number,
  receipts,      \* block of every transaction mined
  lock,          \* who holds the mutex
  poisoned,
  worker         \* what each client's worker is doing

nodeVars == <<db, block_number, receipts, lock, poisoned, worker>>

Genesis ==
  [a \in Accounts |-> IF a \in DEV_ACCOUNTS THEN [nonce |-> 0, balance |-> PREFUND_WEI]
                      ELSE NewAccount]

NotMined == 0

(***************************************************************************)
(* A worker: the request it handles, how far it is, the database it owns   *)
(* and the number of the block it mines, what became of the execution, and *)
(* its last answer.  `asked' is a history variable: the answer that an     *)
(* immediate look would have given when the request came.                  *)
(***************************************************************************)
Methods == {"none", "send", "nonce", "receipt", "number", "block", "call"}

Idle ==
  [method |-> "none", at |-> "idle", tx |-> NoTx, account |-> Beneficiary,
   evm |-> EmptyDb, number |-> 0, result |-> "none", asked |-> 0, answer |-> 0,
   answered |-> FALSE]

NodeInit ==
  /\ db = Genesis
  /\ block_number = 0
  /\ receipts = [tx \in Txs |-> NotMined]
  /\ lock = Free
  /\ poisoned = FALSE
  /\ worker = [c \in Clients |-> Idle]

-----------------------------------------------------------------------------
(***************************************************************************)
(* Requests and answers.                                                   *)
(***************************************************************************)
Mined == {tx \in Txs : receipts[tx] # NotMined}

MinedBy(a) == Cardinality({tx \in Mined : tx.sender = a})

\* What an immediate and undisturbed look at the chain gives.
Look(method, account, tx) ==
  CASE method \in {"nonce", "call"}   -> MinedBy(account)
    [] method = "receipt"            -> receipts[tx]
    [] method \in {"number", "block"} -> block_number
    [] method \in {"send", "none"}    -> 0

Begun(method, account, tx) ==
  [Idle EXCEPT !.method = method, !.at = "begun", !.tx = tx, !.account = account,
               !.asked = Look(method, account, tx)]

Request(c) ==
  /\ worker[c].at = "idle"
  /\ \/ \E tx \in Txs, method \in {"send", "receipt"} :
          worker' = [worker EXCEPT ![c] = Begun(method, Beneficiary, tx)]
     \/ \E a \in Inspected, method \in {"nonce", "call"} :
          worker' = [worker EXCEPT ![c] = Begun(method, a, NoTx)]
     \/ \E method \in {"number", "block"} :
          worker' = [worker EXCEPT ![c] = Begun(method, Beneficiary, NoTx)]
  /\ UNCHANGED <<db, block_number, receipts, lock, poisoned>>

\* The request is over: with an answer, an error, or a closed connection.
Over(c, answered, answer) ==
  worker' = [worker EXCEPT ![c] = [Idle EXCEPT !.answered = answered, !.answer = answer]]

Step(c, from) == worker[c].at = from

\* lock().unwrap(): a poisoned mutex makes the worker panic.
Acquire(c, to) ==
  /\ lock = Free
  /\ IF poisoned THEN Over(c, FALSE, 0) /\ UNCHANGED lock
     ELSE /\ lock' = c
          /\ worker' = [worker EXCEPT ![c].at = to]

\* Reading methods: one look at the state under the mutex.
Read(c) ==
  /\ Step(c, "begun")
  /\ worker[c].method \in {"nonce", "receipt", "number"}
  /\ Acquire(c, "reading")
  /\ UNCHANGED <<db, block_number, receipts, poisoned>>

Found(c) ==
  CASE worker[c].method = "nonce"   -> db[worker[c].account].nonce
    [] worker[c].method = "receipt" -> receipts[worker[c].tx]
    [] worker[c].method = "number"  -> block_number

AnswerRead(c) ==
  /\ Step(c, "reading")
  /\ Over(c, TRUE, Found(c))
  /\ lock' = Free
  /\ UNCHANGED <<db, block_number, receipts, poisoned>>

-----------------------------------------------------------------------------
(***************************************************************************)
(* eth_getBlockByNumber "latest": block_number(), then get_block().        *)
(***************************************************************************)
BlockNumber(c) ==
  /\ Step(c, "begun")
  /\ worker[c].method = "block"
  /\ Acquire(c, "latest")
  /\ UNCHANGED <<db, block_number, receipts, poisoned>>

Latest(c) ==
  /\ Step(c, "latest")
  /\ worker' = [worker EXCEPT ![c].number = block_number, ![c].at = "get_block"]
  /\ lock' = Free
  /\ UNCHANGED <<db, block_number, receipts, poisoned>>

GetBlock(c) ==
  /\ Step(c, "get_block")
  /\ Acquire(c, "got_block")
  /\ UNCHANGED <<db, block_number, receipts, poisoned>>

AnswerBlock(c) ==
  /\ Step(c, "got_block")
  /\ Over(c, TRUE, worker[c].number)
  /\ lock' = Free
  /\ UNCHANGED <<db, block_number, receipts, poisoned>>

-----------------------------------------------------------------------------
(***************************************************************************)
(* eth_call and eth_estimateGas: on a copy, without the mutex.             *)
(***************************************************************************)
EthCall(c) ==
  /\ Step(c, "begun")
  /\ worker[c].method = "call"
  /\ Acquire(c, "cloning")
  /\ UNCHANGED <<db, block_number, receipts, poisoned>>

CloneDb(c) ==
  /\ Step(c, "cloning")
  /\ worker' = [worker EXCEPT ![c].evm = db, ![c].at = "calling"]
  /\ lock' = Free
  /\ UNCHANGED <<db, block_number, receipts, poisoned>>

\* The call answers from its copy, whatever was mined in the meantime.
AnswerCall(c) ==
  /\ Step(c, "calling")
  /\ \/ Over(c, TRUE, worker[c].evm[worker[c].account].nonce)
     \/ Over(c, FALSE, 0)
  /\ UNCHANGED <<db, block_number, receipts, lock, poisoned>>

-----------------------------------------------------------------------------
(***************************************************************************)
(* eth_sendRawTransaction.                                                 *)
(***************************************************************************)
RejectMalformed(c) ==
  /\ Step(c, "begun")
  /\ worker[c].method = "send"
  /\ worker[c].tx \in Malformed
  /\ Over(c, TRUE, NotMined)
  /\ UNCHANGED <<db, block_number, receipts, lock, poisoned>>

SendRawTransaction(c) ==
  /\ Step(c, "begun")
  /\ worker[c].method = "send"
  /\ worker[c].tx \notin Malformed
  /\ Acquire(c, "locked")
  /\ UNCHANGED <<db, block_number, receipts, poisoned>>

RejectChainId(c) ==
  /\ Step(c, "locked")
  /\ worker[c].tx \in OtherChain
  /\ Over(c, TRUE, NotMined)
  /\ lock' = Free
  /\ UNCHANGED <<db, block_number, receipts, poisoned>>

\* A slip: the transaction runs on a copy, without the mutex, as a call does.
TakeCopy(c) ==
  /\ Step(c, "locked")
  /\ worker[c].tx \notin OtherChain
  /\ worker' = [worker EXCEPT ![c].evm = db, ![c].number = block_number + 1,
                              ![c].at = "executing"]
  /\ lock' = Free
  /\ UNCHANGED <<db, block_number, receipts, poisoned>>

TakeDb(c) ==
  /\ Step(c, "locked")
  /\ worker[c].tx \notin OtherChain
  /\ worker' = [worker EXCEPT ![c].evm = db, ![c].number = block_number + 1,
                              ![c].at = "executing"]
  /\ db' = EmptyDb
  /\ UNCHANGED <<block_number, receipts, lock, poisoned>>

\* transact_commit: the state changes if the transaction is valid, whether it
\* succeeds or not.
Execute(c) ==
  LET w == worker[c] IN
  /\ Step(c, "executing")
  /\ IF Valid(w.evm, w.tx)
     THEN \E after \in Outcomes(w.evm, w.tx) :
            worker' = [worker EXCEPT ![c].evm = after, ![c].result = "mined",
                                     ![c].at = "executed"]
     ELSE worker' = [worker EXCEPT ![c].result = "invalid", ![c].at = "executed"]
  /\ UNCHANGED <<db, block_number, receipts, lock, poisoned>>

\* A slip: the mutex is of a kind that knows no poison.
PanicUnnoticed(c) ==
  /\ Step(c, "executing")
  /\ worker[c].tx \in Panicking
  /\ Over(c, FALSE, 0)
  /\ lock' = Free
  /\ UNCHANGED <<db, block_number, receipts, poisoned>>

\* The guard of the mutex is dropped while the worker unwinds.
Panic(c) ==
  /\ Step(c, "executing")
  /\ worker[c].tx \in Panicking
  /\ Over(c, FALSE, 0)
  /\ lock' = Free
  /\ poisoned' = TRUE
  /\ UNCHANGED <<db, block_number, receipts>>

\* A slip: the database comes back only with a transaction that was valid.
RestoreMined(c) ==
  /\ Step(c, "executed")
  /\ db' = IF worker[c].result = "mined" THEN worker[c].evm ELSE db
  /\ worker' = [worker EXCEPT ![c].evm = EmptyDb, ![c].at = "restored"]
  /\ UNCHANGED <<block_number, receipts, lock, poisoned>>

RestoreDb(c) ==
  /\ Step(c, "executed")
  /\ db' = worker[c].evm
  /\ worker' = [worker EXCEPT ![c].evm = EmptyDb, ![c].at = "restored"]
  /\ UNCHANGED <<block_number, receipts, lock, poisoned>>

\* A slip: a transaction that is not valid yet is tried again until it is.
AwaitTurn(c) ==
  /\ Step(c, "restored")
  /\ worker[c].result = "invalid"
  /\ worker' = [worker EXCEPT ![c].result = "none", ![c].at = "locked"]
  /\ UNCHANGED <<db, block_number, receipts, lock, poisoned>>

RejectInvalid(c) ==
  /\ Step(c, "restored")
  /\ worker[c].result = "invalid"
  /\ Over(c, TRUE, NotMined)
  /\ lock' = Free
  /\ UNCHANGED <<db, block_number, receipts, poisoned>>

Record(c) ==
  /\ Step(c, "restored")
  /\ worker[c].result = "mined"
  /\ block_number' = worker[c].number
  /\ receipts' = [receipts EXCEPT ![worker[c].tx] = worker[c].number]
  /\ Over(c, TRUE, worker[c].number)
  /\ lock' = Free
  /\ UNCHANGED <<db, poisoned>>

-----------------------------------------------------------------------------
\* The steps of a worker once it has a request.
Work(c) ==
  \/ Read(c) \/ AnswerRead(c)
  \/ BlockNumber(c) \/ Latest(c) \/ GetBlock(c) \/ AnswerBlock(c)
  \/ EthCall(c) \/ CloneDb(c) \/ AnswerCall(c)
  \/ RejectMalformed(c) \/ SendRawTransaction(c) \/ RejectChainId(c)
  \/ TakeDb(c) \/ Execute(c) \/ Panic(c) \/ RestoreDb(c)
  \/ RejectInvalid(c) \/ Record(c)

NodeNext == \E c \in Clients : Request(c) \/ Work(c)

(***************************************************************************)
(* A worker with work to do goes on; execution ends because gas does.      *)
(* Clients need not send anything.  The mutex is not fair: a worker may    *)
(* wait for ever while others take turns.                                  *)
(***************************************************************************)
NodeSpec ==
  /\ NodeInit
  /\ [][NodeNext]_nodeVars
  /\ \A c \in Clients : WF_nodeVars(Work(c))

-----------------------------------------------------------------------------
Worker ==
  [method : Methods,
   at : {"idle", "begun", "reading", "latest", "get_block", "got_block", "cloning",
         "calling", "locked", "executing", "executed", "restored"},
   tx : Txs \cup {NoTx}, account : Accounts, evm : [Accounts -> Account],
   number : Nat, result : {"none", "mined", "invalid"}, asked : Nat, answer : Nat,
   answered : BOOLEAN]

\* Type correctness of the node; no transaction overdraws a balance.
NodeTypeOK ==
  /\ db \in [Accounts -> Account]
  /\ block_number \in Nat
  /\ receipts \in [Txs -> Nat]
  /\ lock \in Clients \cup {Free}
  /\ poisoned \in BOOLEAN
  /\ worker \in [Clients -> Worker]

(***************************************************************************)
(* The ledger that the node implements.  A transaction is applied at the   *)
(* moment its execution commits, in the database that the worker owns.     *)
(***************************************************************************)
HolderAt(places) == lock # Free /\ worker[lock].at \in places

Chain == IF HolderAt({"executing", "executed"}) THEN worker[lock].evm ELSE db

Applied == HolderAt({"executed", "restored"}) /\ worker[lock].result = "mined"

ChainHeight == IF Applied THEN worker[lock].number ELSE block_number

ChainBlock ==
  IF Applied THEN [receipts EXCEPT ![worker[lock].tx] = worker[lock].number]
  ELSE receipts

L == INSTANCE Ledger
  WITH accounts <- Chain, height <- ChainHeight, block <- ChainBlock, lost <- poisoned

\* Whatever the clients do at the same time, and although calls run on copies
\* and the database is away while a transaction runs, the node is a serial
\* ledger: nothing is applied twice, skipped or undone.
ImplementsLedger == L!LedgerSpec

\* One transaction per block, numbered without a gap; and the nonces mined of
\* every sender are those below its next one, each once, although clients
\* race for a nonce and repeat themselves.
OneBlockPerTransaction ==
  /\ \A n \in 1 .. block_number : Cardinality({tx \in Txs : receipts[tx] = n}) = 1
  /\ \A tx \in Txs : receipts[tx] <= block_number
  /\ lock = Free /\ ~ poisoned =>
       \A a \in Accounts :
         /\ db[a].nonce = MinedBy(a)
         /\ {tx.nonce : tx \in {t \in Mined : t.sender = a}} = 0 .. db[a].nonce - 1

\* Whatever is executed, and even if the sender asked for far more gas than it
\* used: what the senders pay is what the beneficiary and the receivers get.
\* Only a panic loses ether, and then all of it: nobody ever finds a part of
\* the accounts in the database that it leaves behind.
EtherConserved ==
  LET balance == [a \in Accounts |-> Chain[a].balance]
  IN  SumFunction(balance) =
        IF poisoned THEN 0 ELSE PREFUND_WEI * Cardinality(DEV_ACCOUNTS)

\* No answer is older than its request: nonces, receipts and block numbers
\* never go back between the two, so no answer comes from the empty database
\* that a running transaction leaves in the state, nor from one that a panic
\* left there.
FreshAnswer(c) ==
  LET w == worker[c] IN
  /\ w.at # "idle" /\ worker'[c].at = "idle"
  /\ w.method # "send" /\ worker'[c].answered
  => worker'[c].answer \in w.asked .. Look(w.method, w.account, w.tx)

FreshAnswers == [][\A c \in Clients : FreshAnswer(c)]_nodeVars

\* Whoever has the mutex gives it back, by an answer or by a panic.
MutexReleased == \A c \in Clients : lock = c ~> lock # c
=============================================================================
