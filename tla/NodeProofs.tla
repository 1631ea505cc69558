----------------------------- MODULE NodeProofs ------------------------------
(***************************************************************************)
(* Proofs about the dev node, for any clients, accounts and transactions:  *)
(* type correctness, the mutex, that the node implements the ledger, that  *)
(* it keeps all ether and mines a transaction once, and that its answers   *)
(* are no older than the requests.                                         *)
(***************************************************************************)
EXTENDS DevNode, DataTheorems

\* Where a worker holds the mutex.
Critical == {"reading", "latest", "got_block", "cloning", "locked", "executing",
             "executed", "restored"}

Executing == {"executing", "executed", "restored"}

\* The mutex excludes: who holds it is where it is held, and nobody else is;
\* once poisoned, nobody ever holds it again.
MutexInv ==
  /\ \A c \in Clients : worker[c].at \in Critical <=> lock = c
  /\ poisoned => lock = Free

\* What a worker is about, and that the database is away while one executes.
JobInv ==
  \A c \in Clients :
    LET w == worker[c] IN
    /\ w.method \in {"send", "receipt"} => w.tx \in Txs
    /\ w.at = "reading" => w.method \in {"nonce", "receipt", "number"}
    /\ w.at \in Executing \cup {"locked"} => w.method = "send"
    /\ w.at \in Executing => w.number = block_number + 1
    /\ w.at \in {"executing", "executed"} => db = EmptyDb

\* Every transaction in a block is behind its sender's nonce, so that none can
\* be valid again.
NonceInv ==
  ~ poisoned =>
    \A tx \in Txs : ChainBlock[tx] # 0 => tx.nonce < Chain[tx.sender].nonce

(***************************************************************************)
(* The inductive invariant: that each step is a step of the ledger needs   *)
(* the mutex, the number a worker carries, and the nonces.                 *)
(***************************************************************************)
NodeInv == NodeTypeOK /\ MutexInv /\ JobInv /\ NonceInv

-----------------------------------------------------------------------------
\* A fee is a number; a transaction is what it is said to be.
LEMMA TxType ==
  ASSUME NEW tx \in Txs
  PROVE  /\ tx.sender \in Accounts /\ tx.to \in Accounts
         /\ tx.nonce \in Nat /\ tx.value \in Nat
         /\ Fee(tx) \in Nat
  <1>1. tx \in [sender : Accounts, nonce : Nat, gasPrice : Nat,
                gasLimit : Nat, to : Accounts, value : Nat]
    BY ExecutionAssumption
  <1>2. \A m, n \in Nat : m * n \in Nat
    OBVIOUS
  <1>3. QED BY <1>1, <1>2 DEF Fee

\* A valid transaction leaves accounts behind, with no balance below zero,
\* and moves the nonce of its sender and no other.
LEMMA OutcomesType ==
  ASSUME NEW old \in [Accounts -> Account], NEW tx \in Txs, Valid(old, tx),
         NEW after \in Outcomes(old, tx)
  PROVE  /\ after \in [Accounts -> Account]
         /\ after[tx.sender].nonce = old[tx.sender].nonce + 1
         /\ \A a \in Accounts \ {tx.sender} : after[a].nonce = old[a].nonce
  <1> DEFINE charged == Debited(Counted(old, tx.sender), tx.sender, Fee(tx))
             paid    == Debited(charged, tx.sender, tx.value)
             moved   == Credited(paid, tx.to, tx.value)
             Nonces(d) == /\ d[tx.sender].nonce = old[tx.sender].nonce + 1
                          /\ \A a \in Accounts \ {tx.sender} : d[a].nonce = old[a].nonce
  <1>0. /\ tx.sender \in Accounts /\ tx.to \in Accounts /\ Beneficiary \in Accounts
        /\ tx.value \in Nat /\ Fee(tx) \in Nat
    BY TxType, ExecutionAssumption
  <1>1. /\ Counted(old, tx.sender) \in [Accounts -> Account]
        /\ Counted(old, tx.sender)[tx.sender].balance = old[tx.sender].balance
        /\ Nonces(Counted(old, tx.sender))
    BY <1>0 DEF Counted, Account
  <1>2. /\ charged \in [Accounts -> Account]
        /\ charged[tx.sender].balance >= tx.value
        /\ Nonces(charged)
    BY <1>0, <1>1 DEF Debited, Account, Valid
  <1>3. /\ paid \in [Accounts -> Account]
        /\ Nonces(paid)
    BY <1>0, <1>2 DEF Debited, Account
  <1>4. moved \in [Accounts -> Account] /\ Nonces(moved)
    BY <1>0, <1>3 DEF Credited, Account
  <1>5. \A d \in [Accounts -> Account] :
          Nonces(d) => Settled(d, tx) \in [Accounts -> Account] /\ Nonces(Settled(d, tx))
    BY <1>0 DEF Settled, Credited, Account
  <1>6. after \in {Settled(charged, tx), Settled(moved, tx)}
    BY DEF Outcomes
  <1> HIDE DEF charged, paid, moved
  <1>7. after \in [Accounts -> Account] /\ Nonces(after)
    BY <1>2, <1>4, <1>5, <1>6
  <1>8. QED BY <1>7

LEMMA EmptyDbType == EmptyDb \in [Accounts -> Account]
  BY DEF EmptyDb, NewAccount, Account

LEMMA GenesisType == Genesis \in [Accounts -> Account]
  BY NodeAssumption DEF Genesis, NewAccount, Account

LEMMA IdleType == Idle \in Worker
  BY EmptyDbType, ExecutionAssumption DEF Idle, Worker, Methods

\* What an immediate look shows is a number.
LEMMA LookType ==
  ASSUME NodeTypeOK, NEW method \in Methods, NEW a \in Accounts, NEW tx,
         method = "receipt" => tx \in Txs
  PROVE  Look(method, a, tx) \in Nat
  <1>1. {t \in Mined : t.sender = a} \subseteq Txs BY DEF Mined
  <1>2. IsFiniteSet({t \in Mined : t.sender = a}) BY <1>1, NodeAssumption, FS_Subset
  <1>3. MinedBy(a) \in Nat BY <1>2, FS_CardinalityType DEF MinedBy
  <1>4. block_number \in Nat /\ (method = "receipt" => receipts[tx] \in Nat)
    BY DEF NodeTypeOK
  <1>5. QED BY <1>3, <1>4 DEF Look, Methods

-----------------------------------------------------------------------------
\* A worker that goes on to another place, and nobody else.
Moves(c, to) == worker' = [worker EXCEPT ![c].at = to]

Places == {"idle", "begun", "reading", "latest", "get_block", "got_block", "cloning",
           "calling", "locked", "executing", "executed", "restored"}

LEMMA OverWorker ==
  ASSUME NodeTypeOK, NEW c \in Clients, NEW answered \in BOOLEAN, NEW answer \in Nat,
         Over(c, answered, answer)
  PROVE  /\ worker' \in [Clients -> Worker]
         /\ worker'[c].at = "idle" /\ worker'[c].method = "none"
         /\ \A k \in Clients \ {c} : worker'[k] = worker[k]
  BY IdleType DEF Over, NodeTypeOK, Worker, Idle

LEMMA MovesWorker ==
  ASSUME NodeTypeOK, NEW c \in Clients, NEW to \in Places, Moves(c, to)
  PROVE  /\ worker' \in [Clients -> Worker]
         /\ worker'[c] = [worker[c] EXCEPT !.at = to]
         /\ \A k \in Clients \ {c} : worker'[k] = worker[k]
  <1>1. worker[c] \in Worker /\ worker \in [Clients -> Worker] BY DEF NodeTypeOK
  <1>2. [worker[c] EXCEPT !.at = to] \in Worker BY <1>1 DEF Worker, Places
  <1>3. worker' = [worker EXCEPT ![c] = [worker[c] EXCEPT !.at = to]] BY DEF Moves
  <1>4. QED BY <1>1, <1>2, <1>3

\* What a request leaves behind.
LEMMA RequestWorker ==
  ASSUME NodeTypeOK, NEW c \in Clients, Request(c)
  PROVE  /\ worker' \in [Clients -> Worker]
         /\ worker[c].at = "idle" /\ worker'[c].at = "begun"
         /\ worker'[c].method \in {"send", "receipt"} => worker'[c].tx \in Txs
         /\ \A k \in Clients \ {c} : worker'[k] = worker[k]
  <1> DEFINE Good(w) == /\ w \in Worker /\ w.at = "begun"
                        /\ w.method \in {"send", "receipt"} => w.tx \in Txs
             Puts(w) == worker' = [worker EXCEPT ![c] = w]
  <1>1. ASSUME NEW w, Good(w), Puts(w)
        PROVE  /\ worker' \in [Clients -> Worker]
               /\ worker'[c].at = "begun"
               /\ worker'[c].method \in {"send", "receipt"} => worker'[c].tx \in Txs
               /\ \A k \in Clients \ {c} : worker'[k] = worker[k]
    BY <1>1 DEF NodeTypeOK
  <1>2. ASSUME NEW method \in Methods, NEW a \in Accounts, NEW tx \in Txs \cup {NoTx},
               method \in {"send", "receipt"} => tx \in Txs
        PROVE  Good(Begun(method, a, tx))
    <2>1. Look(method, a, tx) \in Nat BY <1>2, LookType
    <2>2. QED BY <1>2, <2>1, IdleType DEF Begun, Worker, Idle
  <1> HIDE DEF Good
  <1>3. PICK w : Good(w) /\ Puts(w)
    <2>1. CASE \E tx \in Txs, method \in {"send", "receipt"} :
                 Puts(Begun(method, Beneficiary, tx))
      <3>1. PICK tx \in Txs, method \in {"send", "receipt"} :
                    Puts(Begun(method, Beneficiary, tx))
        BY <2>1
      <3>2. Good(Begun(method, Beneficiary, tx)) BY <1>2, ExecutionAssumption DEF Methods
      <3>3. QED BY <3>1, <3>2
    <2>2. CASE \E a \in Inspected, method \in {"nonce", "call"} :
                 Puts(Begun(method, a, NoTx))
      <3>1. PICK a \in Inspected, method \in {"nonce", "call"} : Puts(Begun(method, a, NoTx))
        BY <2>2
      <3>2. a \in Accounts BY NodeAssumption
      <3>3. Good(Begun(method, a, NoTx)) BY <3>2, <1>2 DEF Methods
      <3>4. QED BY <3>1, <3>3
    <2>3. CASE \E method \in {"number", "block"} : Puts(Begun(method, Beneficiary, NoTx))
      <3>1. PICK method \in {"number", "block"} : Puts(Begun(method, Beneficiary, NoTx))
        BY <2>3
      <3>2. Good(Begun(method, Beneficiary, NoTx)) BY <1>2, ExecutionAssumption DEF Methods
      <3>3. QED BY <3>1, <3>2
    <2>4. QED BY <2>1, <2>2, <2>3 DEF Request
  <1>4. worker[c].at = "idle" BY DEF Request
  <1>5. QED BY <1>1, <1>3, <1>4

\* Once the mutex is free it is taken, or found to be poisoned.
LEMMA AcquireWorker ==
  ASSUME NodeTypeOK, NEW c \in Clients, NEW to \in Places, Acquire(c, to)
  PROVE  /\ worker' \in [Clients -> Worker]
         /\ lock = Free
         /\ \A k \in Clients \ {c} : worker'[k] = worker[k]
         /\ \/ /\ poisoned /\ lock' = lock
               /\ worker'[c].at = "idle" /\ worker'[c].method = "none"
            \/ /\ ~ poisoned /\ lock' = c
               /\ worker'[c] = [worker[c] EXCEPT !.at = to]
  <1>1. CASE poisoned
    BY <1>1, OverWorker DEF Acquire
  <1>2. CASE ~ poisoned
    BY <1>2, MovesWorker DEF Acquire, Moves
  <1>3. QED BY <1>1, <1>2

-----------------------------------------------------------------------------
(***************************************************************************)
(* The view of the ledger changes only with the worker that executes.      *)
(***************************************************************************)
LEMMA ViewUnchanged ==
  ASSUME UNCHANGED <<db, block_number, receipts, lock>>,
         lock # Free => worker'[lock] = worker[lock]
  PROVE  UNCHANGED <<Chain, ChainHeight, ChainBlock>>
  BY DEF Chain, ChainHeight, ChainBlock, Applied, HolderAt

LEMMA ViewAtRest ==
  ASSUME UNCHANGED <<db, block_number, receipts>>,
         ~ HolderAt(Executing), ~ HolderAt(Executing)'
  PROVE  UNCHANGED <<Chain, ChainHeight, ChainBlock>>
  BY DEF Chain, ChainHeight, ChainBlock, Applied, HolderAt, Executing

\* The type of the view.
LEMMA ViewType ==
  ASSUME NodeTypeOK, JobInv
  PROVE  /\ Chain \in [Accounts -> Account]
         /\ ChainHeight \in Nat
         /\ ChainBlock \in [Txs -> Nat]
  <1>1. lock # Free => lock \in Clients BY DEF NodeTypeOK
  <1>2. QED BY <1>1 DEF Chain, ChainHeight, ChainBlock, Applied, HolderAt, NodeTypeOK,
                        Worker, JobInv, Executing

-----------------------------------------------------------------------------
(***************************************************************************)
(* The steps.  Most of them are quiet: a worker that does not execute a    *)
(* transaction takes the mutex, gives it back, or does neither.            *)
(***************************************************************************)
View == <<Chain, ChainHeight, ChainBlock, poisoned>>

\* What a worker must be after a quiet step.
Sound(w) ==
  /\ w.at \notin Executing
  /\ w.method \in {"send", "receipt"} => w.tx \in Txs
  /\ w.at = "reading" => w.method \in {"nonce", "receipt", "number"}
  /\ w.at = "locked" => w.method = "send"

QuietStep(c) ==
  /\ UNCHANGED <<db, block_number, receipts, poisoned>>
  /\ worker' \in [Clients -> Worker]
  /\ \A k \in Clients \ {c} : worker'[k] = worker[k]
  /\ worker[c].at \notin Executing /\ Sound(worker'[c])
  /\ \/ lock' = lock
     \/ lock = Free /\ lock' = c
     \/ lock = c /\ lock' = Free
  /\ worker'[c].at \in Critical <=> lock' = c
  /\ poisoned => lock' = Free

LEMMA QuietView ==
  ASSUME NodeInv, NEW c \in Clients, QuietStep(c)
  PROVE  UNCHANGED View
  <1>0. Free \notin Clients /\ Executing \subseteq Critical
    BY NodeAssumption DEF Executing, Critical
  <1>1. lock \in Clients \cup {Free} BY DEF NodeInv, NodeTypeOK
  <1>2. UNCHANGED <<db, block_number, receipts, poisoned>> BY DEF QuietStep
  <1>3. CASE lock \in Clients \ {c}
    <2>1. lock' = lock /\ worker'[lock] = worker[lock] BY <1>0, <1>3 DEF QuietStep
    <2>2. QED BY <1>2, <2>1, ViewUnchanged DEF View
  <1>4. CASE lock \in {c, Free}
    <2>1. lock' \in {c, Free} BY <1>4 DEF QuietStep
    <2>2. worker[c].at \notin Executing /\ worker'[c].at \notin Executing
      BY DEF QuietStep, Sound
    <2>3. ~ HolderAt(Executing) BY <1>4, <2>2 DEF HolderAt
    <2>4. ~ HolderAt(Executing)' BY <2>1, <2>2 DEF HolderAt
    <2>5. QED BY <1>2, <2>3, <2>4, ViewAtRest DEF View
  <1>5. QED BY <1>1, <1>3, <1>4

LEMMA QuietInv ==
  ASSUME NodeInv, NEW c \in Clients, QuietStep(c)
  PROVE  NodeInv'
  <1>0. Free \notin Clients BY NodeAssumption
  <1>1. NodeTypeOK' BY DEF NodeInv, NodeTypeOK, QuietStep
  <1>2. MutexInv'
    <2>1. ASSUME NEW k \in Clients
          PROVE  worker'[k].at \in Critical <=> lock' = k
      <3>1. CASE k = c BY <3>1 DEF QuietStep
      <3>2. CASE k # c
        <4>1. worker'[k] = worker[k] BY <3>2 DEF QuietStep
        <4>2. worker[k].at \in Critical <=> lock = k BY DEF NodeInv, MutexInv
        <4>3. lock' = k <=> lock = k BY <1>0, <3>2 DEF QuietStep
        <4>4. QED BY <4>1, <4>2, <4>3
      <3>3. QED BY <3>1, <3>2
    <2>2. poisoned' => lock' = Free BY DEF QuietStep
    <2>3. QED BY <2>1, <2>2 DEF MutexInv
  <1>3. JobInv'
    <2> SUFFICES ASSUME NEW k \in Clients
                 PROVE  /\ worker'[k].method \in {"send", "receipt"}
                             => worker'[k].tx \in Txs
                        /\ worker'[k].at = "reading"
                             => worker'[k].method \in {"nonce", "receipt", "number"}
                        /\ worker'[k].at \in Executing \cup {"locked"}
                             => worker'[k].method = "send"
                        /\ worker'[k].at \in Executing => worker'[k].number = block_number' + 1
                        /\ worker'[k].at \in {"executing", "executed"} => db' = EmptyDb
      BY DEF JobInv
    <2>1. db' = db /\ block_number' = block_number BY DEF QuietStep
    <2>2. CASE k = c BY <2>2 DEF QuietStep, Sound, Executing
    <2>3. CASE k # c
      <3>1. worker'[k] = worker[k] BY <2>3 DEF QuietStep
      <3>2. QED BY <2>1, <3>1 DEF NodeInv, JobInv
    <2>4. QED BY <2>2, <2>3
  <1>4. NonceInv'
    <2>1. NonceInv BY DEF NodeInv
    <2>2. UNCHANGED View BY QuietView
    <2>3. QED BY <2>1, <2>2 DEF NonceInv, View
  <1>5. QED BY <1>1, <1>2, <1>3, <1>4 DEF NodeInv

\* To take the mutex is quiet, and so is to find it poisoned.
LEMMA AcquireQuiet ==
  ASSUME NodeInv, NEW c \in Clients, NEW to \in Critical \ Executing,
         to = "locked" => worker[c].method = "send",
         to = "reading" => worker[c].method \in {"nonce", "receipt", "number"},
         Acquire(c, to), UNCHANGED <<db, block_number, receipts, poisoned>>
  PROVE  QuietStep(c)
  <1>0. Free \notin Clients BY NodeAssumption
  <1>1. NodeTypeOK BY DEF NodeInv
  <1>2. to \in Places BY DEF Critical, Places
  <1>3. /\ worker' \in [Clients -> Worker] /\ lock = Free
        /\ \A k \in Clients \ {c} : worker'[k] = worker[k]
        /\ \/ /\ poisoned /\ lock' = lock
              /\ worker'[c].at = "idle" /\ worker'[c].method = "none"
           \/ /\ ~ poisoned /\ lock' = c
              /\ worker'[c] = [worker[c] EXCEPT !.at = to]
    BY <1>1, <1>2, AcquireWorker
  <1>4. worker[c] \in Worker BY DEF NodeInv, NodeTypeOK
  <1>5. worker[c].at \notin Critical BY <1>0, <1>3 DEF NodeInv, MutexInv
  <1>6. worker[c].at \notin Executing BY <1>5 DEF Critical, Executing
  <1>7. CASE poisoned
    BY <1>0, <1>3, <1>6, <1>7 DEF QuietStep, Sound, Executing, Critical
  <1>8. CASE ~ poisoned
    <2>1. /\ lock' = c /\ worker'[c].at = to
          /\ worker'[c].method = worker[c].method /\ worker'[c].tx = worker[c].tx
      BY <1>3, <1>4, <1>8 DEF Worker
    <2>2. worker[c].method \in {"send", "receipt"} => worker[c].tx \in Txs
      BY DEF NodeInv, JobInv
    <2>3. QED BY <1>3, <1>6, <1>8, <2>1, <2>2 DEF QuietStep, Sound
  <1>9. QED BY <1>7, <1>8

\* So is an answer, with the mutex given back or without it.
LEMMA OverQuiet ==
  ASSUME NodeInv, NEW c \in Clients, NEW answered \in BOOLEAN, NEW answer \in Nat,
         worker[c].at \notin Executing, Over(c, answered, answer),
         UNCHANGED <<db, block_number, receipts, poisoned>>,
         lock' = IF worker[c].at \in Critical THEN Free ELSE lock
  PROVE  QuietStep(c)
  <1>0. Free \notin Clients BY NodeAssumption
  <1>1. /\ worker' \in [Clients -> Worker]
        /\ worker'[c].at = "idle" /\ worker'[c].method = "none"
        /\ \A k \in Clients \ {c} : worker'[k] = worker[k]
    BY OverWorker DEF NodeInv
  <1>2. worker[c].at \in Critical <=> lock = c BY DEF NodeInv, MutexInv
  <1>3. poisoned => lock = Free BY DEF NodeInv, MutexInv
  <1>4. QED BY <1>0, <1>1, <1>2, <1>3 DEF QuietStep, Sound, Critical, Executing

\* A worker that gives the mutex back and goes on with what it saw.
LEMMA LeaveQuiet ==
  ASSUME NodeInv, NEW c \in Clients, NEW w \in Worker,
         worker[c].at \in Critical \ Executing,
         worker' = [worker EXCEPT ![c] = w],
         w.at \notin Critical, w.method = worker[c].method, w.tx = worker[c].tx,
         UNCHANGED <<db, block_number, receipts, poisoned>>, lock' = Free
  PROVE  QuietStep(c)
  <1>0. Free \notin Clients BY NodeAssumption
  <1>1. worker \in [Clients -> Worker] BY DEF NodeInv, NodeTypeOK
  <1>2. worker' \in [Clients -> Worker] /\ worker'[c] = w
        /\ \A k \in Clients \ {c} : worker'[k] = worker[k]
    BY <1>1
  <1>3. lock = c BY DEF NodeInv, MutexInv
  <1>4. w.method \in {"send", "receipt"} => w.tx \in Txs BY DEF NodeInv, JobInv
  <1>5. w.at \notin Executing /\ w.at # "locked" /\ w.at # "reading" BY DEF Executing, Critical
  <1>6. QED BY <1>0, <1>2, <1>3, <1>4, <1>5 DEF QuietStep, Sound

LEMMA Requests ==
  ASSUME NodeInv, NEW c \in Clients, Request(c)
  PROVE  QuietStep(c)
  <1>0. Free \notin Clients BY NodeAssumption
  <1>1. /\ worker' \in [Clients -> Worker]
        /\ worker[c].at = "idle" /\ worker'[c].at = "begun"
        /\ worker'[c].method \in {"send", "receipt"} => worker'[c].tx \in Txs
        /\ \A k \in Clients \ {c} : worker'[k] = worker[k]
    BY RequestWorker DEF NodeInv
  <1>2. UNCHANGED <<db, block_number, receipts, lock, poisoned>> BY DEF Request
  <1>3. lock # c BY <1>1 DEF NodeInv, MutexInv, Critical
  <1>4. poisoned => lock = Free BY DEF NodeInv, MutexInv
  <1>5. QED BY <1>0, <1>1, <1>2, <1>3, <1>4 DEF QuietStep, Sound, Executing, Critical

LEMMA Reads ==
  ASSUME NodeInv, NEW c \in Clients,
         Read(c) \/ BlockNumber(c) \/ GetBlock(c) \/ EthCall(c) \/ SendRawTransaction(c)
  PROVE  QuietStep(c)
  <1>1. CASE Read(c)
    BY <1>1, AcquireQuiet DEF Read, Critical, Executing
  <1>2. CASE BlockNumber(c)
    BY <1>2, AcquireQuiet DEF BlockNumber, Critical, Executing
  <1>3. CASE GetBlock(c)
    BY <1>3, AcquireQuiet DEF GetBlock, Critical, Executing
  <1>4. CASE EthCall(c)
    BY <1>4, AcquireQuiet DEF EthCall, Critical, Executing
  <1>5. CASE SendRawTransaction(c)
    BY <1>5, AcquireQuiet DEF SendRawTransaction, Critical, Executing
  <1>6. QED BY <1>1, <1>2, <1>3, <1>4, <1>5

LEMMA Answers ==
  ASSUME NodeInv, NEW c \in Clients,
         \/ AnswerRead(c) \/ AnswerBlock(c) \/ AnswerCall(c)
         \/ RejectMalformed(c) \/ RejectChainId(c)
  PROVE  QuietStep(c)
  <1>0. /\ worker[c] \in Worker /\ db \in [Accounts -> Account]
        /\ block_number \in Nat /\ receipts \in [Txs -> Nat]
    BY DEF NodeInv, NodeTypeOK
  <1>a. worker[c].number \in Nat /\ worker[c].account \in Accounts
        /\ worker[c].evm \in [Accounts -> Account]
    BY <1>0 DEF Worker
  <1>b. \A d \in [Accounts -> Account], a \in Accounts : d[a].nonce \in Nat
    BY DEF Account
  <1>1. CASE AnswerRead(c)
    <2>1. Found(c) \in Nat BY <1>0, <1>a, <1>b, <1>1 DEF NodeInv, JobInv, AnswerRead, Step, Found
    <2>2. QED BY <1>1, <2>1, OverQuiet DEF AnswerRead, Step, Critical, Executing
  <1>2. CASE AnswerBlock(c)
    BY <1>2, <1>a, OverQuiet DEF AnswerBlock, Step, Critical, Executing
  <1>3. CASE AnswerCall(c)
    <2>1. worker[c].at = "calling" /\ UNCHANGED <<db, block_number, receipts, lock, poisoned>>
      BY <1>3 DEF AnswerCall, Step
    <2>2. CASE Over(c, TRUE, worker[c].evm[worker[c].account].nonce)
      BY <2>1, <2>2, <1>a, <1>b, OverQuiet DEF Critical, Executing
    <2>3. CASE Over(c, FALSE, 0)
      BY <2>1, <2>3, OverQuiet DEF Critical, Executing
    <2>4. QED BY <1>3, <2>2, <2>3 DEF AnswerCall
  <1>4. CASE RejectMalformed(c)
    BY <1>4, OverQuiet DEF RejectMalformed, Step, NotMined, Critical, Executing
  <1>5. CASE RejectChainId(c)
    BY <1>5, OverQuiet DEF RejectChainId, Step, NotMined, Critical, Executing
  <1>6. QED BY <1>1, <1>2, <1>3, <1>4, <1>5

LEMMA Copies ==
  ASSUME NodeInv, NEW c \in Clients, Latest(c) \/ CloneDb(c)
  PROVE  QuietStep(c)
  <1>1. worker[c] \in Worker /\ db \in [Accounts -> Account] /\ block_number \in Nat
    BY DEF NodeInv, NodeTypeOK
  <1>2. CASE Latest(c)
    <2> DEFINE w == [worker[c] EXCEPT !.number = block_number, !.at = "get_block"]
    <2>1. w \in Worker /\ w.at = "get_block" /\ w.method = worker[c].method
          /\ w.tx = worker[c].tx
      BY <1>1 DEF Worker
    <2>2. worker' = [worker EXCEPT ![c] = w] BY <1>2 DEF Latest
    <2>3. worker[c].at = "latest" /\ lock' = Free
          /\ UNCHANGED <<db, block_number, receipts, poisoned>>
      BY <1>2 DEF Latest, Step
    <2> HIDE DEF w
    <2>4. QED BY <2>1, <2>2, <2>3, LeaveQuiet DEF Critical, Executing
  <1>3. CASE CloneDb(c)
    <2> DEFINE w == [worker[c] EXCEPT !.evm = db, !.at = "calling"]
    <2>1. w \in Worker /\ w.at = "calling" /\ w.method = worker[c].method
          /\ w.tx = worker[c].tx
      BY <1>1 DEF Worker
    <2>2. worker' = [worker EXCEPT ![c] = w] BY <1>3 DEF CloneDb
    <2>3. worker[c].at = "cloning" /\ lock' = Free
          /\ UNCHANGED <<db, block_number, receipts, poisoned>>
      BY <1>3 DEF CloneDb, Step
    <2> HIDE DEF w
    <2>4. QED BY <2>1, <2>2, <2>3, LeaveQuiet DEF Critical, Executing
  <1>4. QED BY <1>2, <1>3

-----------------------------------------------------------------------------
(***************************************************************************)
(* The steps of a transaction that has the mutex.                          *)
(***************************************************************************)
LEMMA Holder ==
  ASSUME NodeInv, NEW c \in Clients, worker[c].at \in Executing \cup {"locked"}
  PROVE  /\ lock = c /\ c # Free /\ ~ poisoned
         /\ worker \in [Clients -> Worker] /\ worker[c] \in Worker
         /\ worker[c].method = "send" /\ worker[c].tx \in Txs
         /\ \A k \in Clients \ {c} : worker[k].at \notin Critical
         /\ worker[c].at \in Executing => worker[c].number = block_number + 1
         /\ worker[c].at \in {"executing", "executed"} => db = EmptyDb
  <1>1. worker[c].at \in Critical BY DEF Executing, Critical
  <1>2. lock = c BY <1>1 DEF NodeInv, MutexInv
  <1>3. c # Free BY NodeAssumption
  <1>4. \A k \in Clients \ {c} : worker[k].at \notin Critical
    BY <1>2 DEF NodeInv, MutexInv
  <1>5. ~ poisoned BY <1>2, <1>3 DEF NodeInv, MutexInv
  <1>6. worker \in [Clients -> Worker] /\ worker[c] \in Worker BY DEF NodeInv, NodeTypeOK
  <1>7. QED BY <1>2, <1>3, <1>4, <1>5, <1>6 DEF NodeInv, JobInv

\* What a worker must be that still has the mutex, when the chain is `d' and
\* `n' blocks high.
Busy(w, d, n) ==
  /\ w.at \in Executing /\ w.method = "send" /\ w.tx \in Txs /\ w.number = n + 1
  /\ w.at \in {"executing", "executed"} => d = EmptyDb

LEMMA HolderStays ==
  ASSUME NodeInv, NodeTypeOK', NEW c \in Clients,
         worker[c].at \in Executing \cup {"locked"},
         NEW w, Busy(w, db', block_number'), worker' = [worker EXCEPT ![c] = w],
         UNCHANGED <<lock, poisoned>>
  PROVE  MutexInv' /\ JobInv'
  <1>1. /\ lock = c /\ c # Free /\ ~ poisoned /\ worker \in [Clients -> Worker]
        /\ \A k \in Clients \ {c} : worker[k].at \notin Critical
    BY Holder
  <1>2. worker'[c] = w /\ \A k \in Clients \ {c} : worker'[k] = worker[k]
    BY <1>1
  <1>3. w.at \in Critical BY DEF Busy, Critical, Executing
  <1>4. MutexInv' BY <1>1, <1>2, <1>3 DEF MutexInv
  <1>5. JobInv'
    BY <1>1, <1>2 DEF NodeInv, JobInv, Busy, Critical, Executing
  <1>6. QED BY <1>4, <1>5

LEMMA HolderLeaves ==
  ASSUME NodeInv, NEW c \in Clients,
         worker[c].at \in Executing \cup {"locked"},
         NEW answered \in BOOLEAN, NEW answer \in Nat, Over(c, answered, answer),
         lock' = Free
  PROVE  MutexInv' /\ JobInv'
  <1>1. /\ lock = c /\ c # Free /\ ~ poisoned
        /\ \A k \in Clients \ {c} : worker[k].at \notin Critical
    BY Holder
  <1>2. /\ worker'[c].at = "idle" /\ worker'[c].method = "none"
        /\ \A k \in Clients \ {c} : worker'[k] = worker[k]
    BY OverWorker DEF NodeInv
  <1>3. Free \notin Clients BY NodeAssumption
  <1>4. MutexInv' BY <1>1, <1>2, <1>3 DEF MutexInv, Critical
  <1>5. JobInv' BY <1>1, <1>2 DEF NodeInv, JobInv, Critical, Executing
  <1>6. QED BY <1>4, <1>5

\* The view of the ledger while a worker has the mutex.
LEMMA ViewOfHolder ==
  ASSUME lock # Free
  PROVE  /\ worker[lock].at \in {"executing", "executed"} => Chain = worker[lock].evm
         /\ worker[lock].at \notin {"executing", "executed"} => Chain = db
         /\ worker[lock].at \notin {"executed", "restored"} =>
              ChainHeight = block_number /\ ChainBlock = receipts
         /\ worker[lock].result # "mined" =>
              ChainHeight = block_number /\ ChainBlock = receipts
         /\ worker[lock].at \in {"executed", "restored"} /\ worker[lock].result = "mined" =>
              /\ ChainHeight = worker[lock].number
              /\ ChainBlock = [receipts EXCEPT ![worker[lock].tx] = worker[lock].number]
  BY DEF Chain, ChainHeight, ChainBlock, Applied, HolderAt

LEMMA ViewFree ==
  ASSUME lock = Free
  PROVE  Chain = db /\ ChainHeight = block_number /\ ChainBlock = receipts
  BY DEF Chain, ChainHeight, ChainBlock, Applied, HolderAt

LEMMA TakeDbStep ==
  ASSUME NodeInv, NEW c \in Clients, TakeDb(c)
  PROVE  NodeInv' /\ UNCHANGED View
  <1> DEFINE w == [worker[c] EXCEPT !.evm = db, !.number = block_number + 1,
                                    !.at = "executing"]
  <1>1. worker[c].at = "locked" BY DEF TakeDb, Step
  <1>2. /\ lock = c /\ c # Free /\ worker \in [Clients -> Worker] /\ worker[c] \in Worker
        /\ worker[c].method = "send" /\ worker[c].tx \in Txs
    BY <1>1, Holder
  <1>3. db \in [Accounts -> Account] /\ block_number \in Nat BY DEF NodeInv, NodeTypeOK
  <1>4. /\ w \in Worker /\ w.at = "executing" /\ w.evm = db /\ w.number = block_number + 1
        /\ w.method = "send" /\ w.tx = worker[c].tx
    <2> DEFINE u == [worker[c] EXCEPT !.evm = db, !.at = "executing"]
    <2>1. /\ u \in Worker /\ u.at = "executing" /\ u.evm = db
          /\ u.method = worker[c].method /\ u.tx = worker[c].tx
      BY <1>2, <1>3 DEF Worker
    <2>2. w = [u EXCEPT !.number = block_number + 1]
      BY <1>2 DEF Worker
    <2>3. block_number + 1 \in Nat BY <1>3
    <2> HIDE DEF u, w
    <2>4. w \in Worker /\ w.at = u.at /\ w.evm = u.evm /\ w.method = u.method /\ w.tx = u.tx
          /\ w.number = block_number + 1
      BY <2>1, <2>2, <2>3 DEF Worker
    <2>5. QED BY <1>2, <2>1, <2>4
  <1>5. worker' = [worker EXCEPT ![c] = w] /\ db' = EmptyDb
        /\ UNCHANGED <<block_number, receipts, lock, poisoned>>
    BY DEF TakeDb
  <1> HIDE DEF w
  <1>6. worker'[c] = w BY <1>2, <1>5
  <1>7. NodeTypeOK' BY <1>2, <1>4, <1>5, EmptyDbType DEF NodeInv, NodeTypeOK
  <1>8. Busy(w, db', block_number') BY <1>2, <1>4, <1>5 DEF Busy, Executing
  <1>9. MutexInv' /\ JobInv' BY <1>1, <1>5, <1>7, <1>8, HolderStays
  <1>10. Chain = db /\ ChainHeight = block_number /\ ChainBlock = receipts
    BY <1>1, <1>2, ViewOfHolder
  <1>11. Chain' = w.evm /\ ChainHeight' = block_number' /\ ChainBlock' = receipts'
    BY <1>2, <1>4, <1>5, <1>6 DEF Chain, ChainHeight, ChainBlock, Applied, HolderAt
  <1>12. UNCHANGED View BY <1>4, <1>5, <1>10, <1>11 DEF View
  <1>13. NonceInv' BY <1>12 DEF NodeInv, NonceInv, View
  <1>14. QED BY <1>7, <1>9, <1>12, <1>13 DEF NodeInv

LEMMA RestoreDbStep ==
  ASSUME NodeInv, NEW c \in Clients, RestoreDb(c)
  PROVE  NodeInv' /\ UNCHANGED View
  <1> DEFINE w == [worker[c] EXCEPT !.evm = EmptyDb, !.at = "restored"]
  <1>1. worker[c].at = "executed" BY DEF RestoreDb, Step
  <1>2. /\ lock = c /\ c # Free /\ worker \in [Clients -> Worker] /\ worker[c] \in Worker
        /\ worker[c].method = "send" /\ worker[c].tx \in Txs
        /\ worker[c].number = block_number + 1
    BY <1>1, Holder DEF Executing
  <1>4. /\ w \in Worker /\ w.at = "restored" /\ w.result = worker[c].result
        /\ w.number = worker[c].number
        /\ w.method = "send" /\ w.tx = worker[c].tx
    BY <1>2, EmptyDbType DEF Worker
  <1>5. worker' = [worker EXCEPT ![c] = w] /\ db' = worker[c].evm
        /\ UNCHANGED <<block_number, receipts, lock, poisoned>>
    BY DEF RestoreDb
  <1> HIDE DEF w
  <1>6. worker'[c] = w BY <1>2, <1>5
  <1>3. worker[c].evm \in [Accounts -> Account] BY <1>2 DEF Worker
  <1>7. NodeTypeOK' BY <1>2, <1>3, <1>4, <1>5 DEF NodeInv, NodeTypeOK
  <1>8. Busy(w, db', block_number') BY <1>2, <1>4, <1>5 DEF Busy, Executing
  <1>9. MutexInv' /\ JobInv' BY <1>1, <1>5, <1>7, <1>8, HolderStays DEF Executing
  <1>10. Chain = worker[c].evm BY <1>1, <1>2, ViewOfHolder
  <1>11. Chain' = db' BY <1>2, <1>4, <1>5, <1>6 DEF Chain, HolderAt
  <1>12. ChainHeight' = ChainHeight /\ ChainBlock' = ChainBlock
    BY <1>1, <1>2, <1>4, <1>5, <1>6 DEF ChainHeight, ChainBlock, Applied, HolderAt
  <1>13. UNCHANGED View BY <1>5, <1>10, <1>11, <1>12 DEF View
  <1>14. NonceInv' BY <1>13 DEF NodeInv, NonceInv, View
  <1>15. QED BY <1>7, <1>9, <1>13, <1>14 DEF NodeInv

LEMMA RejectInvalidStep ==
  ASSUME NodeInv, NEW c \in Clients, RejectInvalid(c)
  PROVE  NodeInv' /\ UNCHANGED View
  <1>1. worker[c].at = "restored" /\ worker[c].result = "invalid"
        /\ Over(c, TRUE, 0) /\ lock' = Free
        /\ UNCHANGED <<db, block_number, receipts, poisoned>>
    BY DEF RejectInvalid, Step, NotMined
  <1>2. lock = c /\ c # Free BY <1>1, Holder DEF Executing
  <1>3. worker' \in [Clients -> Worker] BY <1>1, OverWorker DEF NodeInv
  <1>4. NodeTypeOK' BY <1>1, <1>3 DEF NodeInv, NodeTypeOK
  <1>5. MutexInv' /\ JobInv' BY <1>1, HolderLeaves DEF Executing
  <1>6. Chain = db /\ ChainHeight = block_number /\ ChainBlock = receipts
    BY <1>1, <1>2, ViewOfHolder
  <1>7. Chain' = db' /\ ChainHeight' = block_number' /\ ChainBlock' = receipts'
    BY <1>1 DEF Chain, ChainHeight, ChainBlock, Applied, HolderAt
  <1>8. UNCHANGED View BY <1>1, <1>6, <1>7 DEF View
  <1>9. NonceInv' BY <1>8 DEF NodeInv, NonceInv, View
  <1>10. QED BY <1>4, <1>5, <1>8, <1>9 DEF NodeInv

LEMMA RecordStep ==
  ASSUME NodeInv, NEW c \in Clients, Record(c)
  PROVE  NodeInv' /\ UNCHANGED View
  <1>1. worker[c].at = "restored" /\ worker[c].result = "mined"
        /\ Over(c, TRUE, worker[c].number) /\ lock' = Free
        /\ block_number' = worker[c].number
        /\ receipts' = [receipts EXCEPT ![worker[c].tx] = worker[c].number]
        /\ UNCHANGED <<db, poisoned>>
    BY DEF Record, Step
  <1>2. lock = c /\ c # Free /\ worker[c] \in Worker /\ worker[c].tx \in Txs
    BY <1>1, Holder DEF Executing
  <1>a. worker[c].number \in Nat BY <1>2 DEF Worker
  <1>3. worker' \in [Clients -> Worker] BY <1>1, <1>a, OverWorker DEF NodeInv
  <1>4. NodeTypeOK' BY <1>1, <1>2, <1>3, <1>a DEF NodeInv, NodeTypeOK
  <1>5. MutexInv' /\ JobInv' BY <1>1, <1>a, HolderLeaves DEF Executing
  <1>6. /\ Chain = db /\ ChainHeight = worker[c].number
        /\ ChainBlock = [receipts EXCEPT ![worker[c].tx] = worker[c].number]
    BY <1>1, <1>2, ViewOfHolder
  <1>7. Chain' = db' /\ ChainHeight' = block_number' /\ ChainBlock' = receipts'
    BY <1>1 DEF Chain, ChainHeight, ChainBlock, Applied, HolderAt
  <1>8. UNCHANGED View BY <1>1, <1>6, <1>7 DEF View
  <1>9. NonceInv' BY <1>8 DEF NodeInv, NonceInv, View
  <1>10. QED BY <1>4, <1>5, <1>8, <1>9 DEF NodeInv

-----------------------------------------------------------------------------
(***************************************************************************)
(* The two steps that the ledger sees.                                     *)
(***************************************************************************)
LEMMA MineKeepsNonces ==
  ASSUME NodeInv, NEW tx \in Txs, Chain \in [Accounts -> Account],
         ChainBlock \in [Txs -> Nat], ChainHeight \in Nat, L!Mine(tx)
  PROVE  NonceInv'
  <1>1. /\ ~ poisoned /\ Valid(Chain, tx) /\ Chain' \in Outcomes(Chain, tx)
        /\ ChainBlock' = [ChainBlock EXCEPT ![tx] = ChainHeight + 1]
    BY DEF L!Mine, L!Valid, L!Fee, L!Outcomes, L!Settled, L!Credited, L!Debited, L!Counted,
           Valid, Fee, Outcomes, Settled, Credited, Debited, Counted
  <1>2. /\ Chain' \in [Accounts -> Account]
        /\ Chain'[tx.sender].nonce = Chain[tx.sender].nonce + 1
        /\ \A a \in Accounts \ {tx.sender} : Chain'[a].nonce = Chain[a].nonce
    BY <1>1, OutcomesType
  <1>3. SUFFICES ASSUME NEW t \in Txs, ChainBlock'[t] # 0
                 PROVE  t.nonce < Chain'[t.sender].nonce
    BY DEF NonceInv
  <1>4. /\ t.sender \in Accounts /\ t.nonce \in Nat /\ tx.sender \in Accounts
        /\ tx.nonce \in Nat
    BY TxType
  <1>5. \A a \in Accounts : Chain[a].nonce \in Nat BY DEF Account
  <1>6. CASE t = tx
    <2>1. tx.nonce = Chain[tx.sender].nonce BY <1>1 DEF Valid
    <2>2. QED BY <1>2, <1>4, <1>6, <2>1
  <1>7. CASE t # tx
    <2>1. ChainBlock[t] # 0 BY <1>1, <1>3, <1>7
    <2>2. t.nonce < Chain[t.sender].nonce BY <1>1, <2>1 DEF NodeInv, NonceInv
    <2>3. CASE t.sender = tx.sender BY <1>2, <1>4, <1>5, <2>2, <2>3
    <2>4. CASE t.sender # tx.sender
      <3>1. Chain'[t.sender].nonce = Chain[t.sender].nonce BY <1>2, <1>4, <2>4
      <3>2. QED BY <2>2, <3>1
    <2>5. QED BY <2>3, <2>4
  <1>8. QED BY <1>6, <1>7

LEMMA ExecuteStep ==
  ASSUME NodeInv, NEW c \in Clients, Execute(c)
  PROVE  NodeInv' /\ ((\E tx \in Txs : L!Mine(tx)) \/ UNCHANGED View)
  <1> DEFINE tx == worker[c].tx
             old == worker[c].evm
  <1>1. worker[c].at = "executing" /\ UNCHANGED <<db, block_number, receipts, lock, poisoned>>
    BY DEF Execute, Step
  <1>2. /\ lock = c /\ c # Free /\ ~ poisoned
        /\ worker \in [Clients -> Worker] /\ worker[c] \in Worker
        /\ worker[c].method = "send" /\ tx \in Txs
        /\ worker[c].number = block_number + 1 /\ db = EmptyDb
    BY <1>1, Holder DEF Executing
  <1>3. old \in [Accounts -> Account] /\ block_number \in Nat /\ receipts \in [Txs -> Nat]
    BY <1>2 DEF Worker, NodeInv, NodeTypeOK
  <1>4. Chain = old /\ ChainHeight = block_number /\ ChainBlock = receipts
    BY <1>1, <1>2, ViewOfHolder
  <1>5. ASSUME NEW w \in Worker, worker' = [worker EXCEPT ![c] = w],
               w.at = "executed", w.method = "send", w.tx = tx, w.number = block_number + 1
        PROVE  NodeTypeOK' /\ MutexInv' /\ JobInv' /\ worker'[c] = w
    <2>1. NodeTypeOK' BY <1>1, <1>2, <1>5 DEF NodeInv, NodeTypeOK
    <2>2. Busy(w, db', block_number') BY <1>1, <1>2, <1>5 DEF Busy, Executing
    <2>3. MutexInv' /\ JobInv' BY <1>1, <1>5, <2>1, <2>2, HolderStays DEF Executing
    <2>4. QED BY <1>2, <1>5, <2>1, <2>3
  <1>6. CASE Valid(old, tx)
    <2>1. PICK after \in Outcomes(old, tx) :
                 worker' = [worker EXCEPT ![c].evm = after, ![c].result = "mined",
                                          ![c].at = "executed"]
      BY <1>6 DEF Execute
    <2>2. after \in [Accounts -> Account] BY <1>2, <1>3, <1>6, OutcomesType
    <2> DEFINE u == [worker[c] EXCEPT !.evm = after, !.at = "executed"]
               w == [worker[c] EXCEPT !.evm = after, !.result = "mined", !.at = "executed"]
    <2>3. /\ u \in Worker /\ u.at = "executed" /\ u.evm = after
          /\ u.method = worker[c].method /\ u.tx = tx /\ u.number = worker[c].number
      BY <1>2, <2>2 DEF Worker
    <2>4. w = [u EXCEPT !.result = "mined"] BY <1>2 DEF Worker
    <2>5. worker' = [worker EXCEPT ![c] = w] BY <2>1
    <2> HIDE DEF u, w
    <2>6. /\ w \in Worker /\ w.at = u.at /\ w.evm = u.evm /\ w.method = u.method
          /\ w.tx = u.tx /\ w.number = u.number /\ w.result = "mined"
      BY <2>3, <2>4 DEF Worker
    <2>7. NodeTypeOK' /\ MutexInv' /\ JobInv' /\ worker'[c] = w
      BY <1>2, <1>5, <2>3, <2>5, <2>6
    <2>8. /\ Chain' = after /\ ChainHeight' = block_number + 1
          /\ ChainBlock' = [receipts EXCEPT ![tx] = block_number + 1]
      BY <1>1, <1>2, <2>3, <2>6, <2>7 DEF Chain, ChainHeight, ChainBlock, Applied, HolderAt
    <2>9. receipts[tx] = 0
      <3>1. tx.nonce = Chain[tx.sender].nonce BY <1>4, <1>6 DEF Valid
      <3>2. ChainBlock[tx] # 0 => tx.nonce < Chain[tx.sender].nonce
        BY <1>2 DEF NodeInv, NonceInv
      <3>3. tx.nonce \in Nat BY <1>2, TxType
      <3>4. QED BY <1>4, <3>1, <3>2, <3>3
    <2>10. L!Mine(tx)
      <3>1. L!Valid(Chain, tx) BY <1>4, <1>6 DEF L!Valid, L!Fee, Valid, Fee
      <3>2. Chain' \in L!Outcomes(Chain, tx)
        BY <1>4, <2>8 DEF L!Outcomes, L!Settled, L!Credited, L!Debited, L!Counted, L!Fee,
                          Outcomes, Settled, Credited, Debited, Counted, Fee
      <3>3. QED BY <1>1, <1>2, <1>4, <2>8, <2>9, <3>1, <3>2 DEF L!Mine
    <2>11. NonceInv' BY <1>2, <1>3, <1>4, <2>10, MineKeepsNonces
    <2>12. QED BY <1>2, <2>7, <2>10, <2>11 DEF NodeInv
  <1>7. CASE ~ Valid(old, tx)
    <2> DEFINE w == [worker[c] EXCEPT !.result = "invalid", !.at = "executed"]
    <2>1. /\ w \in Worker /\ w.at = "executed" /\ w.evm = old /\ w.result = "invalid"
          /\ w.method = worker[c].method /\ w.tx = tx /\ w.number = worker[c].number
      BY <1>2 DEF Worker
    <2>2. worker' = [worker EXCEPT ![c] = w] BY <1>7 DEF Execute
    <2> HIDE DEF w
    <2>3. NodeTypeOK' /\ MutexInv' /\ JobInv' /\ worker'[c] = w BY <1>2, <1>5, <2>1, <2>2
    <2>4. Chain' = old /\ ChainHeight' = block_number /\ ChainBlock' = receipts
      BY <1>1, <1>2, <2>1, <2>3 DEF Chain, ChainHeight, ChainBlock, Applied, HolderAt
    <2>5. UNCHANGED View BY <1>1, <1>4, <2>4 DEF View
    <2>6. NonceInv' BY <2>5 DEF NodeInv, NonceInv, View
    <2>7. QED BY <2>3, <2>5, <2>6 DEF NodeInv
  <1>8. QED BY <1>6, <1>7

LEMMA PanicStep ==
  ASSUME NodeInv, NEW c \in Clients, Panic(c)
  PROVE  NodeInv' /\ L!Lose
  <1>1. /\ worker[c].at = "executing" /\ Over(c, FALSE, 0) /\ lock' = Free
        /\ poisoned' = TRUE /\ UNCHANGED <<db, block_number, receipts>>
    BY DEF Panic, Step
  <1>2. lock = c /\ c # Free /\ ~ poisoned /\ db = EmptyDb
    BY <1>1, Holder DEF Executing
  <1>3. worker' \in [Clients -> Worker] BY <1>1, OverWorker DEF NodeInv
  <1>4. NodeTypeOK' BY <1>1, <1>3 DEF NodeInv, NodeTypeOK
  <1>5. MutexInv' /\ JobInv' BY <1>1, HolderLeaves DEF Executing
  <1>6. NonceInv' BY <1>1 DEF NonceInv
  <1>7. ChainHeight = block_number /\ ChainBlock = receipts BY <1>1, <1>2, ViewOfHolder
  <1>8. Chain' = db' /\ ChainHeight' = block_number' /\ ChainBlock' = receipts'
    BY <1>1 DEF Chain, ChainHeight, ChainBlock, Applied, HolderAt
  <1>9. EmptyDb = L!EmptyDb BY DEF EmptyDb, NewAccount, L!EmptyDb, L!NewAccount
  <1>10. L!Lose BY <1>1, <1>2, <1>7, <1>8, <1>9 DEF L!Lose
  <1>11. QED BY <1>4, <1>5, <1>6, <1>10 DEF NodeInv

-----------------------------------------------------------------------------
LEMMA NodeInitInv == NodeInit => NodeInv /\ L!LedgerInit
  <1> SUFFICES ASSUME NodeInit PROVE NodeInv /\ L!LedgerInit
    OBVIOUS
  <1>0. Free \notin Clients BY NodeAssumption
  <1>1. lock = Free /\ ~ poisoned /\ receipts = [tx \in Txs |-> 0]
        /\ db = Genesis /\ block_number = 0 /\ worker = [c \in Clients |-> Idle]
    BY DEF NodeInit, NotMined
  <1>2. NodeTypeOK
    <2>1. worker \in [Clients -> Worker] BY <1>1, IdleType
    <2>2. receipts \in [Txs -> Nat] BY <1>1
    <2>3. poisoned \in BOOLEAN BY DEF NodeInit
    <2>4. QED BY <1>1, <2>1, <2>2, <2>3, GenesisType DEF NodeTypeOK
  <1>3. \A c \in Clients : worker[c].at = "idle" /\ worker[c].method = "none"
    BY <1>1 DEF Idle
  <1>4. MutexInv BY <1>0, <1>1, <1>3 DEF MutexInv, Critical
  <1>5. JobInv BY <1>3 DEF JobInv, Executing
  <1>6. Chain = db /\ ChainHeight = block_number /\ ChainBlock = receipts
    BY <1>1, ViewFree
  <1>7. NonceInv BY <1>1, <1>6 DEF NonceInv
  <1>8. L!LedgerInit BY <1>1, <1>6 DEF L!LedgerInit
  <1>9. QED BY <1>2, <1>4, <1>5, <1>7, <1>8 DEF NodeInv

\* Every step of the node keeps the invariant, and is a step of the ledger or
\* one the ledger does not see.
LEMMA NodeStep ==
  ASSUME NodeInv, NodeNext
  PROVE  NodeInv' /\ (L!LedgerNext \/ UNCHANGED View)
  <1>1. PICK c \in Clients : Request(c) \/ Work(c) BY DEF NodeNext
  <1>2. CASE \/ Request(c) \/ Read(c) \/ BlockNumber(c) \/ GetBlock(c) \/ EthCall(c)
             \/ SendRawTransaction(c) \/ AnswerRead(c) \/ AnswerBlock(c) \/ AnswerCall(c)
             \/ RejectMalformed(c) \/ RejectChainId(c) \/ Latest(c) \/ CloneDb(c)
    <2>1. QuietStep(c) BY <1>2, Requests, Reads, Answers, Copies
    <2>2. QED BY <2>1, QuietInv, QuietView
  <1>3. CASE TakeDb(c) BY <1>3, TakeDbStep
  <1>4. CASE Execute(c) BY <1>4, ExecuteStep DEF L!LedgerNext
  <1>5. CASE Panic(c) BY <1>5, PanicStep DEF L!LedgerNext
  <1>6. CASE RestoreDb(c) BY <1>6, RestoreDbStep
  <1>7. CASE RejectInvalid(c) BY <1>7, RejectInvalidStep
  <1>8. CASE Record(c) BY <1>8, RecordStep
  <1>9. QED BY <1>1, <1>2, <1>3, <1>4, <1>5, <1>6, <1>7, <1>8 DEF Work

LEMMA NodeStutter ==
  ASSUME NodeInv, UNCHANGED nodeVars
  PROVE  NodeInv' /\ UNCHANGED View
  <1>1. UNCHANGED <<db, block_number, receipts, lock, poisoned, worker>> BY DEF nodeVars
  <1>2. UNCHANGED View
    BY <1>1 DEF View, Chain, ChainHeight, ChainBlock, Applied, HolderAt
  <1>3. NodeTypeOK' /\ MutexInv' /\ JobInv'
    BY <1>1 DEF NodeInv, NodeTypeOK, MutexInv, JobInv
  <1>4. NonceInv' BY <1>2 DEF NodeInv, NonceInv, View
  <1>5. QED BY <1>2, <1>3, <1>4 DEF NodeInv

\* The invariant holds, whoever sends what in which order.
LEMMA NodeInvariant == NodeSpec => []NodeInv
  <1>1. NodeInit => NodeInv BY NodeInitInv
  <1>2. NodeInv /\ [NodeNext]_nodeVars => NodeInv' BY NodeStep, NodeStutter
  <1>3. QED BY <1>1, <1>2, PTL DEF NodeSpec

\* NodeState (node.rs) keeps its types, and no transaction overdraws a balance.
THEOREM NodeTypeCorrect == NodeSpec => []NodeTypeOK
  <1>1. NodeInv => NodeTypeOK BY DEF NodeInv
  <1>2. QED BY <1>1, NodeInvariant, PTL

\* The node with its mutex, its copies and its database that is away while a
\* transaction runs (send_raw_transaction) implements the serial ledger.
THEOREM NodeImplementsLedger == NodeSpec => ImplementsLedger
  <1>1. NodeInit => L!LedgerInit BY NodeInitInv
  <1>2. NodeInv /\ [NodeNext]_nodeVars => [L!LedgerNext]_(L!ledgerVars)
    <2>1. UNCHANGED View => UNCHANGED L!ledgerVars BY DEF View, L!ledgerVars
    <2>2. QED BY <2>1, NodeStep, NodeStutter
  <1>3. QED BY <1>1, <1>2, NodeInvariant, PTL DEF NodeSpec, ImplementsLedger, L!LedgerSpec

-----------------------------------------------------------------------------
(***************************************************************************)
(* What follows from the ledger: its steps are few.                        *)
(***************************************************************************)
Balances(d) == [a \in Accounts |-> d[a].balance]

TotalBalance(d) == SumFunctionOnSet(Balances(d), Accounts)

\* Accounts in the middle of a transaction.
Books == [Accounts -> [nonce : Int, balance : Int]]

\* A balance that changes moves the total by as much.
LEMMA BalanceChanged ==
  ASSUME NEW d \in Books, NEW e \in Books, NEW a \in Accounts,
         \A x \in Accounts \ {a} : e[x].balance = d[x].balance
  PROVE  TotalBalance(e) = TotalBalance(d) - d[a].balance + e[a].balance
  <1> DEFINE f == Balances(d)
             g == Balances(e)
  <1>1. /\ \A x \in Accounts : f[x] \in Int /\ g[x] \in Int
        /\ \A x \in Accounts \ {a} : g[x] = f[x]
        /\ f[a] = d[a].balance /\ g[a] = e[a].balance
    BY DEF Balances, Books
  <1>2. IsFiniteSet(Accounts) BY ExecutionAssumption
  <1> HIDE DEF f, g
  <1>3. SumFunctionOnSet(g, Accounts) = SumFunctionOnSet(f, Accounts) - f[a] + g[a]
    BY <1>1, <1>2, SumChange
  <1>4. QED BY <1>1, <1>3 DEF TotalBalance, f, g

LEMMA TotalType ==
  ASSUME NEW d \in Books
  PROVE  TotalBalance(d) \in Int
  <1>1. \A x \in Accounts : Balances(d)[x] \in Int BY DEF Balances, Books
  <1>2. QED BY <1>1, ExecutionAssumption, SumType DEF TotalBalance

LEMMA CreditedTotal ==
  ASSUME NEW d \in Books, NEW a \in Accounts, NEW n \in Int
  PROVE  /\ Credited(d, a, n) \in Books
         /\ TotalBalance(Credited(d, a, n)) = TotalBalance(d) + n
  <1> DEFINE e == Credited(d, a, n)
  <1>1. /\ e \in Books /\ e[a].balance = d[a].balance + n /\ d[a].balance \in Int
        /\ \A x \in Accounts \ {a} : e[x].balance = d[x].balance
    BY DEF Credited, Books
  <1> HIDE DEF e
  <1>2. TotalBalance(e) = TotalBalance(d) - d[a].balance + e[a].balance
    BY <1>1, BalanceChanged
  <1>3. TotalBalance(d) \in Int BY TotalType
  <1>4. TotalBalance(e) = TotalBalance(d) + n BY <1>1, <1>2, <1>3
  <1>5. QED BY <1>1, <1>4 DEF e

LEMMA DebitedTotal ==
  ASSUME NEW d \in Books, NEW a \in Accounts, NEW n \in Int
  PROVE  /\ Debited(d, a, n) \in Books
         /\ TotalBalance(Debited(d, a, n)) = TotalBalance(d) - n
  <1> DEFINE e == Debited(d, a, n)
  <1>1. /\ e \in Books /\ e[a].balance = d[a].balance - n /\ d[a].balance \in Int
        /\ \A x \in Accounts \ {a} : e[x].balance = d[x].balance
    BY DEF Debited, Books
  <1> HIDE DEF e
  <1>2. TotalBalance(e) = TotalBalance(d) - d[a].balance + e[a].balance
    BY <1>1, BalanceChanged
  <1>3. TotalBalance(d) \in Int BY TotalType
  <1>4. TotalBalance(e) = TotalBalance(d) - n BY <1>1, <1>2, <1>3
  <1>5. QED BY <1>1, <1>4 DEF e

\* A transaction moves ether between accounts, also when sender, receiver and
\* beneficiary are the same.
LEMMA OutcomesConserve ==
  ASSUME NEW d \in [Accounts -> Account], NEW tx \in Txs, NEW after \in Outcomes(d, tx)
  PROVE  TotalBalance(after) = TotalBalance(d)
  <1> DEFINE counted == Counted(d, tx.sender)
             charged == Debited(counted, tx.sender, Fee(tx))
             paid    == Debited(charged, tx.sender, tx.value)
             moved   == Credited(paid, tx.to, tx.value)
             total   == TotalBalance(d)
  <1>0. /\ tx.sender \in Accounts /\ tx.to \in Accounts /\ Beneficiary \in Accounts
        /\ tx.value \in Int /\ Fee(tx) \in Int
    BY TxType, ExecutionAssumption
  <1>1. d \in Books BY DEF Books, Account
  <1>2. total \in Int BY <1>1, TotalType
  <1>3. /\ counted \in Books
        /\ \A x \in Accounts : counted[x].balance = d[x].balance
    BY <1>0, <1>1 DEF Counted, Books
  <1>4. TotalBalance(counted) = total
    <2>1. Balances(counted) = Balances(d) BY <1>3 DEF Balances
    <2>2. QED BY <2>1 DEF TotalBalance
  <1>5. after \in {Settled(charged, tx), Settled(moved, tx)} BY DEF Outcomes
  <1> HIDE DEF counted, total
  <1>6. charged \in Books /\ TotalBalance(charged) = total - Fee(tx)
    BY <1>0, <1>3, <1>4, DebitedTotal
  <1> HIDE DEF charged
  <1>7. paid \in Books /\ TotalBalance(paid) = total - Fee(tx) - tx.value
    BY <1>0, <1>6, DebitedTotal
  <1> HIDE DEF paid
  <1>8. moved \in Books /\ TotalBalance(moved) = total - Fee(tx) - tx.value + tx.value
    BY <1>0, <1>7, CreditedTotal
  <1> HIDE DEF moved
  <1>9. TotalBalance(Settled(charged, tx)) = total - Fee(tx) + Fee(tx)
    BY <1>0, <1>6, CreditedTotal DEF Settled
  <1>10. TotalBalance(Settled(moved, tx)) = total - Fee(tx) - tx.value + tx.value + Fee(tx)
    BY <1>0, <1>8, CreditedTotal DEF Settled
  <1>11. TotalBalance(after) = total BY <1>0, <1>2, <1>5, <1>9, <1>10
  <1>12. QED BY <1>11 DEF total

\* The accounts of the genesis have what was given out.
LEMMA GenesisTotal == TotalBalance(Genesis) = PREFUND_WEI * Cardinality(DEV_ACCOUNTS)
  <1> DEFINE f == Balances(Genesis)
             Others == Accounts \ DEV_ACCOUNTS
  <1>1. /\ \A x \in DEV_ACCOUNTS : f[x] = PREFUND_WEI
        /\ \A x \in Others : f[x] = 0
    BY NodeAssumption DEF Balances, Genesis, NewAccount
  <1>2. DEV_ACCOUNTS \subseteq Accounts /\ PREFUND_WEI \in Int BY NodeAssumption
  <1>3. IsFiniteSet(DEV_ACCOUNTS) /\ IsFiniteSet(Others)
    BY <1>2, ExecutionAssumption, FS_Subset
  <1>4. DEV_ACCOUNTS \cup Others = Accounts /\ DEV_ACCOUNTS \cap Others = {} BY <1>2
  <1>5. \A x \in DEV_ACCOUNTS \cup Others : f[x] \in Int BY <1>1, <1>2
  <1> HIDE DEF f, Others
  <1>6. SumFunctionOnSet(f, DEV_ACCOUNTS \cup Others)
          = SumFunctionOnSet(f, DEV_ACCOUNTS) + SumFunctionOnSet(f, Others)
    BY <1>3, <1>4, <1>5, SumUnion
  <1>7. SumFunctionOnSet(f, DEV_ACCOUNTS) = PREFUND_WEI * Cardinality(DEV_ACCOUNTS)
    BY <1>1, <1>2, <1>3, SumSame
  <1>8. SumFunctionOnSet(f, Others) = 0 BY <1>1, <1>3, SumZero
  <1>9. SumFunctionOnSet(f, DEV_ACCOUNTS) \in Int BY <1>3, <1>5, SumType
  <1>10. SumFunctionOnSet(f, Accounts) = SumFunctionOnSet(f, DEV_ACCOUNTS \cup Others)
    BY <1>4, Zenon
  <1>11. SumFunctionOnSet(f, Accounts) = PREFUND_WEI * Cardinality(DEV_ACCOUNTS)
    BY <1>6, <1>7, <1>8, <1>9, <1>10
  <1>12. QED BY <1>11 DEF TotalBalance, f

LEMMA EmptyTotal == TotalBalance(EmptyDb) = 0
  <1>1. \A x \in Accounts : Balances(EmptyDb)[x] = 0 BY DEF Balances, EmptyDb, NewAccount
  <1>2. QED BY <1>1, ExecutionAssumption, SumZero DEF TotalBalance

\* The total of the ledger stays what it was at genesis until all is lost.
EtherInv ==
  IF poisoned THEN Chain = EmptyDb
  ELSE TotalBalance(Chain) = PREFUND_WEI * Cardinality(DEV_ACCOUNTS)

\* Of the steps of the ledger only one applies a transaction.
LEMMA MineOutcome ==
  ASSUME NEW tx \in Txs, L!Mine(tx)
  PROVE  /\ ~ poisoned /\ ~ poisoned' /\ Valid(Chain, tx) /\ Chain' \in Outcomes(Chain, tx)
         /\ ChainBlock[tx] = 0 /\ ChainHeight' = ChainHeight + 1
         /\ ChainBlock' = [ChainBlock EXCEPT ![tx] = ChainHeight + 1]
  BY DEF L!Mine, L!Valid, L!Fee, L!Outcomes, L!Settled, L!Credited, L!Debited, L!Counted,
         Valid, Fee, Outcomes, Settled, Credited, Debited, Counted

LEMMA EtherStep ==
  ASSUME NodeInv, EtherInv, [NodeNext]_nodeVars
  PROVE  EtherInv'
  <1>1. L!LedgerNext \/ UNCHANGED View BY NodeStep, NodeStutter
  <1>2. Chain \in [Accounts -> Account] BY ViewType DEF NodeInv
  <1>3. ASSUME NEW tx \in Txs, L!Mine(tx) PROVE EtherInv'
    BY <1>2, <1>3, MineOutcome, OutcomesConserve DEF EtherInv
  <1>4. CASE L!Lose
    <2>1. EmptyDb = L!EmptyDb BY DEF EmptyDb, NewAccount, L!EmptyDb, L!NewAccount
    <2>2. QED BY <1>4, <2>1 DEF L!Lose, EtherInv
  <1>5. CASE UNCHANGED View BY <1>5 DEF View, EtherInv
  <1>6. QED BY <1>1, <1>3, <1>4, <1>5 DEF L!LedgerNext

LEMMA EtherInvariant == NodeSpec => []EtherInv
  <1>1. NodeInit => EtherInv
    <2>1. NodeInit => lock = Free /\ db = Genesis /\ ~ poisoned BY DEF NodeInit
    <2>2. QED BY <2>1, ViewFree, GenesisTotal DEF EtherInv
  <1>2. NodeInv /\ EtherInv /\ [NodeNext]_nodeVars => EtherInv' BY EtherStep
  <1>3. QED BY <1>1, <1>2, NodeInvariant, PTL DEF NodeSpec

(***************************************************************************)
(* Fees, values and what refund, reimburse_caller and reward_beneficiary   *)
(* of handler.rs make of the gas limit add up: no ether comes or goes, but *)
(* all of it with the database that a panic takes along.                   *)
(***************************************************************************)
THEOREM NoEtherMade == NodeSpec => []EtherConserved
  <1>1. EtherInv => EtherConserved
    <2>1. DOMAIN Balances(Chain) = Accounts BY DEF Balances
    <2>2. SumFunction(Balances(Chain)) = TotalBalance(Chain)
      BY <2>1 DEF SumFunction, TotalBalance
    <2>3. QED BY <2>2, EmptyTotal DEF EtherInv, EtherConserved, Balances
  <1>2. QED BY <1>1, EtherInvariant, PTL

(***************************************************************************)
(* Where the database is.  If the genesis funds anybody, the state of the  *)
(* node holds the empty database exactly while the worker that has the     *)
(* mutex executes a transaction, and for ever after a panic: whoever gets  *)
(* the mutex and answers finds the accounts.                               *)
(***************************************************************************)
DatabaseInPlace ==
  DEV_ACCOUNTS # {} /\ PREFUND_WEI > 0 =>
    (db = EmptyDb <=> poisoned \/ HolderAt({"executing", "executed"}))

\* A worker is inside the mutex of the state exactly while it holds it, none
\* ever is again after a panic (every lock().unwrap() of node.rs), and the
\* database that send_raw_transaction takes out is back before the mutex is
\* given up, unless the worker panics.
THEOREM MutualExclusion == NodeSpec => [](MutexInv /\ DatabaseInPlace)
  <1>1. NodeInv => MutexInv BY DEF NodeInv
  <1>2. ASSUME NodeInv, EtherInv, DEV_ACCOUNTS # {}, PREFUND_WEI > 0
        PROVE  db = EmptyDb <=> poisoned \/ HolderAt({"executing", "executed"})
    <2>1. CASE poisoned
      <3>1. lock = Free BY <1>1, <1>2, <2>1 DEF MutexInv
      <3>2. QED BY <1>2, <2>1, <3>1, ViewFree DEF EtherInv
    <2>2. CASE HolderAt({"executing", "executed"})
      <3>1. lock \in Clients /\ worker[lock].at \in {"executing", "executed"}
        BY <1>2, <2>2 DEF HolderAt, NodeInv, NodeTypeOK
      <3>2. QED BY <1>2, <2>2, <3>1 DEF NodeInv, JobInv
    <2>3. CASE ~ poisoned /\ ~ HolderAt({"executing", "executed"})
      <3>1. TotalBalance(db) = PREFUND_WEI * Cardinality(DEV_ACCOUNTS)
        BY <1>2, <2>3 DEF EtherInv, Chain
      <3>2. Cardinality(DEV_ACCOUNTS) \in Nat /\ Cardinality(DEV_ACCOUNTS) # 0
        <4>1. IsFiniteSet(DEV_ACCOUNTS)
          BY NodeAssumption, ExecutionAssumption, FS_Subset
        <4>2. QED BY <1>2, <4>1, FS_CardinalityType, FS_EmptySet
      <3>3. PREFUND_WEI \in Nat BY NodeAssumption
      <3>4. \A m, n \in Nat : m > 0 /\ n # 0 => m * n # 0 OBVIOUS
      <3>5. TotalBalance(db) # 0 BY <1>2, <3>1, <3>2, <3>3, <3>4
      <3>6. QED BY <2>3, <3>5, EmptyTotal
    <2>4. QED BY <2>1, <2>2, <2>3
  <1>3. NodeInv /\ EtherInv => DatabaseInPlace BY <1>2 DEF DatabaseInPlace
  <1>4. QED BY <1>1, <1>3, NodeInvariant, EtherInvariant, PTL

-----------------------------------------------------------------------------
\* The numbers of blocks: none beyond the last, each given, and to one only.
Numbered(numbers, last) ==
  /\ \A tx \in Txs : numbers[tx] <= last
  /\ \A n \in 1 .. last : \E tx \in Txs : numbers[tx] = n
  /\ \A t, u \in Txs : numbers[t] = numbers[u] /\ numbers[t] # 0 => t = u

\* The transactions of a sender that have a block.
Sent(numbers, a) == {tx \in Txs : numbers[tx] # 0 /\ tx.sender = a}

\* They used up the nonces below the next one, each once.
NoncesUsed(d, numbers) ==
  \A a \in Accounts :
    /\ Cardinality(Sent(numbers, a)) = d[a].nonce
    /\ {tx.nonce : tx \in Sent(numbers, a)} = 0 .. d[a].nonce - 1

(***************************************************************************)
(* Both the ledger and the node number their blocks without a gap; the     *)
(* node is one behind while its worker has not recorded the transaction.   *)
(***************************************************************************)
CountInv ==
  /\ Numbered(ChainBlock, ChainHeight)
  /\ Numbered(receipts, block_number)
  /\ ~ poisoned => NoncesUsed(Chain, ChainBlock)

LEMMA MineNumbered ==
  ASSUME NEW r \in [Txs -> Nat], NEW h \in Nat, NEW tx \in Txs, r[tx] = 0, Numbered(r, h)
  PROVE  Numbered([r EXCEPT ![tx] = h + 1], h + 1)
  <1> DEFINE q == [r EXCEPT ![tx] = h + 1]
  <1>1. q[tx] = h + 1 /\ \A t \in Txs \ {tx} : q[t] = r[t] /\ r[t] \in Nat
    OBVIOUS
  <1>2. /\ \A t \in Txs : r[t] <= h
        /\ \A n \in 1 .. h : \E t \in Txs : r[t] = n
        /\ \A t, u \in Txs : r[t] = r[u] /\ r[t] # 0 => t = u
    BY DEF Numbered
  <1> HIDE DEF q
  <1>3. \A t \in Txs : q[t] <= h + 1 BY <1>1, <1>2
  <1>4. ASSUME NEW n \in 1 .. h + 1 PROVE \E t \in Txs : q[t] = n
    <2>1. CASE n = h + 1 BY <1>1, <2>1
    <2>2. CASE n # h + 1
      <3>1. n \in 1 .. h /\ n # 0 BY <2>2
      <3>2. PICK t \in Txs : r[t] = n BY <1>2, <3>1
      <3>3. t # tx BY <3>1, <3>2
      <3>4. QED BY <1>1, <3>2, <3>3
    <2>3. QED BY <2>1, <2>2
  <1>5. ASSUME NEW t \in Txs, NEW u \in Txs, q[t] = q[u], q[t] # 0 PROVE t = u
    <2>1. \A x \in Txs \ {tx} : q[x] # h + 1 BY <1>1, <1>2
    <2>2. QED BY <1>1, <1>2, <1>5, <2>1
  <1>6. Numbered(q, h + 1) BY <1>3, <1>4, <1>5 DEF Numbered
  <1>7. QED BY <1>6 DEF q

LEMMA SentFinite ==
  ASSUME NEW r, NEW a
  PROVE  IsFiniteSet(Sent(r, a))
  BY NodeAssumption, FS_Subset DEF Sent

LEMMA MineUsesNonce ==
  ASSUME NEW d \in [Accounts -> Account], NEW r \in [Txs -> Nat], NEW n \in Nat \ {0},
         NEW tx \in Txs, r[tx] = 0, Valid(d, tx), NEW after \in Outcomes(d, tx),
         NoncesUsed(d, r)
  PROVE  NoncesUsed(after, [r EXCEPT ![tx] = n])
  <1> DEFINE q == [r EXCEPT ![tx] = n]
  <1>1. /\ after[tx.sender].nonce = d[tx.sender].nonce + 1
        /\ \A a \in Accounts \ {tx.sender} : after[a].nonce = d[a].nonce
    BY OutcomesType
  <1>2. /\ tx.sender \in Accounts /\ tx.nonce = d[tx.sender].nonce
        /\ \A a \in Accounts : d[a].nonce \in Nat
    BY TxType DEF Valid, Account
  <1>3. \A t \in Txs : q[t] # 0 <=> t = tx \/ r[t] # 0 OBVIOUS
  <1> HIDE DEF q
  <1>4. ASSUME NEW a \in Accounts
        PROVE  /\ Cardinality(Sent(q, a)) = after[a].nonce
               /\ {t.nonce : t \in Sent(q, a)} = 0 .. after[a].nonce - 1
    <2>1. /\ Cardinality(Sent(r, a)) = d[a].nonce
          /\ {t.nonce : t \in Sent(r, a)} = 0 .. d[a].nonce - 1
      BY DEF NoncesUsed
    <2>2. CASE a = tx.sender
      <3>1. Sent(q, a) = Sent(r, a) \cup {tx} BY <1>3, <2>2 DEF Sent
      <3>2. tx \notin Sent(r, a) BY DEF Sent
      <3>3. Cardinality(Sent(r, a) \cup {tx}) = d[a].nonce + 1
        <4>1. IsFiniteSet(Sent(r, a)) BY SentFinite
        <4>2. Cardinality(Sent(r, a) \cup {tx}) = Cardinality(Sent(r, a)) + 1
          BY <3>2, <4>1, FS_AddElement
        <4>3. QED BY <2>1, <4>2
      <3>4. {t.nonce : t \in Sent(q, a)} = {t.nonce : t \in Sent(r, a)} \cup {d[a].nonce}
        BY <1>2, <2>2, <3>1
      <3>5. \A m \in Nat : (0 .. m - 1) \cup {m} = 0 .. (m + 1) - 1 OBVIOUS
      <3>6. {t.nonce : t \in Sent(q, a)} = 0 .. (d[a].nonce + 1) - 1
        BY <1>2, <2>1, <3>4, <3>5
      <3>7. Cardinality(Sent(q, a)) = d[a].nonce + 1 BY <3>1, <3>3, Zenon
      <3>8. after[a].nonce = d[a].nonce + 1 BY <1>1, <2>2
      <3>9. QED BY <3>6, <3>7, <3>8
    <2>3. CASE a # tx.sender
      <3>1. Sent(q, a) = Sent(r, a) BY <1>3, <2>3 DEF Sent
      <3>2. after[a].nonce = d[a].nonce BY <1>1, <2>3
      <3>3. QED BY <2>1, <3>1, <3>2, Zenon
    <2>4. QED BY <2>2, <2>3
  <1>5. NoncesUsed(after, q) BY <1>4 DEF NoncesUsed
  <1>6. QED BY <1>5 DEF q

\* The last block is recorded as the mutex is given back.
LEMMA ReceiptsFollow ==
  ASSUME NodeInv, [NodeNext]_nodeVars
  PROVE  UNCHANGED <<receipts, block_number>> \/ lock' = Free
  BY DEF NodeNext, Request, Work, Read, AnswerRead, BlockNumber, Latest, GetBlock,
         AnswerBlock, EthCall, CloneDb, AnswerCall, RejectMalformed, SendRawTransaction,
         RejectChainId, TakeDb, Execute, Panic, RestoreDb, RejectInvalid, Record, nodeVars

LEMMA CountStep ==
  ASSUME NodeInv, NodeInv', CountInv, [NodeNext]_nodeVars
  PROVE  CountInv'
  <1>1. L!LedgerNext \/ UNCHANGED View BY NodeStep, NodeStutter
  <1>2. /\ Chain \in [Accounts -> Account] /\ ChainHeight \in Nat
        /\ ChainBlock \in [Txs -> Nat]
    BY ViewType DEF NodeInv
  <1>3. /\ Numbered(ChainBlock, ChainHeight)'
        /\ poisoned' \/ NoncesUsed(Chain, ChainBlock)'
    <2>1. ASSUME NEW tx \in Txs, L!Mine(tx)
          PROVE  /\ Numbered(ChainBlock, ChainHeight)'
                 /\ NoncesUsed(Chain, ChainBlock)'
      <3>1. /\ ~ poisoned /\ Valid(Chain, tx) /\ Chain' \in Outcomes(Chain, tx)
            /\ ChainBlock[tx] = 0 /\ ChainHeight' = ChainHeight + 1
            /\ ChainBlock' = [ChainBlock EXCEPT ![tx] = ChainHeight + 1]
        BY <2>1, MineOutcome
      <3>2. Numbered([ChainBlock EXCEPT ![tx] = ChainHeight + 1], ChainHeight + 1)
        BY <1>2, <3>1, MineNumbered DEF CountInv
      <3>3. ChainHeight + 1 \in Nat \ {0} BY <1>2
      <3>4. NoncesUsed(Chain', [ChainBlock EXCEPT ![tx] = ChainHeight + 1])
        BY <1>2, <3>1, <3>3, MineUsesNonce DEF CountInv
      <3>5. QED BY <3>1, <3>2, <3>4 DEF Numbered, NoncesUsed, Sent
    <2>2. CASE L!Lose
      <3>1. poisoned' /\ ChainHeight' = ChainHeight /\ ChainBlock' = ChainBlock
        BY <2>2 DEF L!Lose
      <3>2. QED BY <3>1 DEF CountInv, Numbered
    <2>3. CASE UNCHANGED View
      <3>1. /\ Chain' = Chain /\ ChainHeight' = ChainHeight /\ ChainBlock' = ChainBlock
            /\ poisoned' = poisoned
        BY <2>3 DEF View
      <3>2. QED BY <3>1 DEF CountInv, Numbered, NoncesUsed, Sent
    <2>4. QED BY <1>1, <2>1, <2>2, <2>3 DEF L!LedgerNext
  <1>4. Numbered(receipts, block_number)'
    <2>1. CASE UNCHANGED <<receipts, block_number>> BY <2>1 DEF CountInv, Numbered
    <2>2. CASE lock' = Free
      <3>1. ChainBlock' = receipts' /\ ChainHeight' = block_number'
        BY <2>2 DEF ChainBlock, ChainHeight, Applied, HolderAt
      <3>2. QED BY <1>3, <3>1 DEF Numbered
    <2>3. QED BY <2>1, <2>2, ReceiptsFollow
  <1>5. QED BY <1>3, <1>4 DEF CountInv

LEMMA CountInit ==
  ASSUME NodeInit
  PROVE  CountInv
  <1>1. /\ Chain = db /\ ChainHeight = block_number /\ ChainBlock = receipts
    BY ViewFree DEF NodeInit
  <1>2. block_number = 0 /\ (\A tx \in Txs : receipts[tx] = 0) /\ db = Genesis
    BY DEF NodeInit, NotMined
  <1>3. \A a \in Accounts : db[a].nonce = 0 BY <1>2 DEF Genesis, NewAccount
  <1>4. \A a : Sent(receipts, a) = {} BY <1>2 DEF Sent
  <1>5. NoncesUsed(db, receipts)
    <2>1. SUFFICES ASSUME NEW a \in Accounts
                   PROVE  /\ Cardinality(Sent(receipts, a)) = 0
                          /\ {tx.nonce : tx \in Sent(receipts, a)} = 0 .. 0 - 1
      BY <1>3 DEF NoncesUsed
    <2>2. Cardinality(Sent(receipts, a)) = 0 BY <1>4, FS_EmptySet
    <2>3. 0 .. 0 - 1 = {} OBVIOUS
    <2>4. {tx.nonce : tx \in Sent(receipts, a)} = {} BY <1>4
    <2>5. QED BY <2>2, <2>3, <2>4
  <1>6. Numbered(receipts, block_number) BY <1>2 DEF Numbered
  <1>7. QED BY <1>1, <1>5, <1>6 DEF CountInv

(***************************************************************************)
(* send_raw_transaction makes one block for each transaction it accepts,   *)
(* numbered without a gap, and accepts the nonces of a sender in order,    *)
(* each once, whoever races for it.                                        *)
(***************************************************************************)
THEOREM BlocksCountTransactions == NodeSpec => []OneBlockPerTransaction
  <1>1. NodeInv /\ NodeInv' /\ CountInv /\ [NodeNext]_nodeVars => CountInv' BY CountStep
  <1>2. NodeInv /\ CountInv => OneBlockPerTransaction
    <2> SUFFICES ASSUME NodeInv, CountInv PROVE OneBlockPerTransaction
      OBVIOUS
    <2>1. ASSUME NEW n \in 1 .. block_number
          PROVE  Cardinality({tx \in Txs : receipts[tx] = n}) = 1
      <3>0. block_number \in Nat BY DEF NodeInv, NodeTypeOK
      <3>1. n # 0 BY <3>0
      <3>2. PICK tx \in Txs : receipts[tx] = n BY DEF CountInv, Numbered
      <3>3. {t \in Txs : receipts[t] = n} = {tx} BY <3>1, <3>2 DEF CountInv, Numbered
      <3>4. Cardinality({tx}) = 1 BY FS_Singleton
      <3>5. QED BY <3>3, <3>4, Zenon
    <2>2. ASSUME lock = Free, ~ poisoned, NEW a \in Accounts
          PROVE  /\ db[a].nonce = MinedBy(a)
                 /\ {tx.nonce : tx \in {t \in Mined : t.sender = a}} = 0 .. db[a].nonce - 1
      <3>1. Chain = db /\ ChainBlock = receipts BY <2>2, ViewFree
      <3>2. {t \in Mined : t.sender = a} = Sent(receipts, a)
        BY DEF Mined, Sent, NotMined
      <3>3. /\ Cardinality(Sent(receipts, a)) = db[a].nonce
            /\ {tx.nonce : tx \in Sent(receipts, a)} = 0 .. db[a].nonce - 1
        BY <2>2, <3>1 DEF CountInv, NoncesUsed
      <3>4. MinedBy(a) = Cardinality(Sent(receipts, a)) BY <3>2 DEF MinedBy
      <3>5. QED BY <3>2, <3>3, <3>4, Zenon
    <2>3. \A tx \in Txs : receipts[tx] <= block_number BY DEF CountInv, Numbered
    <2>4. QED BY <2>1, <2>2, <2>3 DEF OneBlockPerTransaction
  <1>3. NodeInit => CountInv BY CountInit
  <1>4. QED BY <1>1, <1>2, <1>3, NodeInvariant, PTL DEF NodeSpec

-----------------------------------------------------------------------------
(***************************************************************************)
(* What a request is going to answer is no older than the request, and it  *)
(* is not newer than the chain.                                            *)
(***************************************************************************)
Fresh(c) ==
  LET w == worker[c] IN
  /\ w.asked <= Look(w.method, w.account, w.tx)
  /\ w.at \in {"latest", "get_block", "got_block"} => w.method = "block"
  /\ w.at \in {"cloning", "calling"} => w.method = "call"
  /\ w.at \in {"get_block", "got_block"} => w.number \in w.asked .. block_number
  /\ w.at = "calling" => w.evm[w.account].nonce \in w.asked .. MinedBy(w.account)

FreshInv == \A c \in Clients : Fresh(c)

\* The chain a later look shows.
Later ==
  /\ block_number' \in Nat /\ block_number <= block_number'
  /\ \A tx \in Txs : receipts'[tx] \in Nat /\ receipts[tx] <= receipts'[tx]
  /\ \A a \in Accounts : MinedBy(a)' \in Nat /\ MinedBy(a) <= MinedBy(a)'

\* How many transactions of an account were mined is a number.
LEMMA MinedByType ==
  ASSUME NEW a
  PROVE  MinedBy(a) = Cardinality(Sent(receipts, a)) /\ MinedBy(a) \in Nat
  <1>1. {t \in Mined : t.sender = a} = Sent(receipts, a) BY DEF Mined, Sent, NotMined
  <1>2. MinedBy(a) = Cardinality(Sent(receipts, a)) BY <1>1, Zenon DEF MinedBy
  <1>3. Cardinality(Sent(receipts, a)) \in Nat BY SentFinite, FS_CardinalityType
  <1>4. QED BY <1>2, <1>3, Zenon

\* Recording is what changes the chain that a look shows.
LEMMA RecordChanges ==
  ASSUME [NodeNext]_nodeVars
  PROVE  \/ UNCHANGED <<receipts, block_number>>
         \/ \E c \in Clients : Record(c)
  BY DEF NodeNext, Request, Work, Read, AnswerRead, BlockNumber, Latest, GetBlock,
         AnswerBlock, EthCall, CloneDb, AnswerCall, RejectMalformed, SendRawTransaction,
         RejectChainId, TakeDb, Execute, Panic, RestoreDb, RejectInvalid, nodeVars

\* Receipts are not taken back and numbers only grow.
LEMMA ChainGrows ==
  ASSUME NodeInv, CountInv, [NodeNext]_nodeVars
  PROVE  Later
  <1>0. block_number \in Nat /\ receipts \in [Txs -> Nat] BY DEF NodeInv, NodeTypeOK
  <1>1. CASE UNCHANGED <<receipts, block_number>>
    <2>1. \A a \in Accounts : MinedBy(a)' = MinedBy(a) BY <1>1 DEF MinedBy, Mined
    <2>2. \A a \in Accounts : MinedBy(a) \in Nat BY MinedByType
    <2>3. QED BY <1>0, <1>1, <2>1, <2>2 DEF Later
  <1>2. ASSUME NEW c \in Clients, Record(c)
        PROVE  Later
    <2> DEFINE tx == worker[c].tx
               n == worker[c].number
    <2>1. worker[c].at = "restored" BY <1>2 DEF Record, Step
    <2>2. tx \in Txs /\ n = block_number + 1 BY <2>1, Holder DEF Executing
    <2>3. block_number' = n /\ receipts' = [receipts EXCEPT ![tx] = n]
      BY <1>2 DEF Record
    <2>4. receipts[tx] <= block_number BY <2>2 DEF CountInv, Numbered
    <2> HIDE DEF tx, n
    <2>5. \A t \in Txs : receipts'[t] \in Nat /\ receipts[t] <= receipts'[t] BY <1>0, <2>2, <2>3, <2>4
    <2>6. ASSUME NEW a \in Accounts PROVE MinedBy(a)' \in Nat /\ MinedBy(a) <= MinedBy(a)'
      <3>1. Sent(receipts, a) \subseteq Sent(receipts', a)
        BY <1>0, <2>2, <2>3 DEF Sent
      <3>2. Cardinality(Sent(receipts, a)) <= Cardinality(Sent(receipts', a))
        BY <3>1, SentFinite, FS_Subset
      <3>3. MinedBy(a) = Cardinality(Sent(receipts, a)) BY MinedByType
      <3>4. MinedBy(a)' = Cardinality(Sent(receipts', a))
        <4>1. {t \in Mined' : t.sender = a} = Sent(receipts', a) BY DEF Mined, Sent, NotMined
        <4>2. QED BY <4>1, Zenon DEF MinedBy
      <3>5. Cardinality(Sent(receipts', a)) \in Nat BY SentFinite, FS_CardinalityType
      <3>6. QED BY <3>2, <3>3, <3>4, <3>5, Zenon
    <2>7. QED BY <1>0, <2>2, <2>3, <2>5, <2>6 DEF Later
  <1>3. QED BY <1>1, <1>2, RecordChanges

\* A worker that goes on with its request, and sees nothing new on the way.
LEMMA StaysFresh ==
  ASSUME NodeInv, Later, NEW c \in Clients, Fresh(c), NEW w, NEW n,
         w = worker[c], n = worker'[c],
         n.method = w.method, n.account = w.account, n.tx = w.tx, n.asked = w.asked,
         n.at \in {"latest", "get_block", "got_block"} => w.method = "block",
         n.at \in {"cloning", "calling"} => w.method = "call",
         n.at \in {"get_block", "got_block"} =>
           \/ w.at \in {"get_block", "got_block"} /\ n.number = w.number
           \/ n.number = block_number,
         n.at = "calling" =>
           \/ w.at = "calling" /\ n.evm = w.evm
           \/ n.evm[w.account].nonce = MinedBy(w.account)
  PROVE  Fresh(c)'
  <1>1. w \in Worker /\ block_number \in Nat /\ receipts \in [Txs -> Nat]
    BY DEF NodeInv, NodeTypeOK
  <1>2. /\ w.method \in Methods /\ w.account \in Accounts /\ w.asked \in Nat
    BY <1>1 DEF Worker
  <1>3. w.method = "receipt" => w.tx \in Txs BY DEF NodeInv, JobInv
  <1>4. MinedBy(w.account) \in Nat BY MinedByType
  <1>5. /\ block_number' \in Nat /\ block_number <= block_number'
        /\ MinedBy(w.account)' \in Nat /\ MinedBy(w.account) <= MinedBy(w.account)'
        /\ w.method = "receipt" =>
             receipts'[w.tx] \in Nat /\ receipts[w.tx] <= receipts'[w.tx]
    BY <1>2, <1>3 DEF Later
  <1>6. /\ w.asked <= Look(w.method, w.account, w.tx)
        /\ w.at \in {"get_block", "got_block"} => w.number \in w.asked .. block_number
        /\ w.at = "calling" => w.evm[w.account].nonce \in w.asked .. MinedBy(w.account)
    BY DEF Fresh
  <1>7. n.asked <= Look(n.method, n.account, n.tx)'
    BY <1>1, <1>2, <1>3, <1>4, <1>5, <1>6 DEF Look, Methods
  <1>8. n.at \in {"get_block", "got_block"} => n.number \in n.asked .. block_number'
    <2>1. w.method = "block" /\ w.number \in w.asked .. block_number =>
            w.number \in w.asked .. block_number'
      BY <1>1, <1>2, <1>5
    <2>2. w.method = "block" => block_number \in w.asked .. block_number'
      BY <1>1, <1>2, <1>5, <1>6 DEF Look
    <2>3. QED BY <1>6, <2>1, <2>2
  <1>9. n.at = "calling" => n.evm[n.account].nonce \in n.asked .. MinedBy(n.account)'
    <2>1. w.evm[w.account].nonce \in w.asked .. MinedBy(w.account) =>
            w.evm[w.account].nonce \in w.asked .. MinedBy(w.account)'
      BY <1>2, <1>4, <1>5
    <2>2. w.method = "call" => MinedBy(w.account) \in w.asked .. MinedBy(w.account)'
      BY <1>2, <1>4, <1>5, <1>6 DEF Look
    <2>3. QED BY <1>6, <2>1, <2>2
  <1>10. QED BY <1>7, <1>8, <1>9 DEF Fresh

\* Who reads or copies under the mutex finds the nonces that were mined.
LEMMA ReaderSeesChain ==
  ASSUME NodeInv, CountInv, NEW c \in Clients,
         worker[c].at \in Critical \ Executing, NEW a \in Accounts
  PROVE  db[a].nonce = MinedBy(a)
  <1>1. lock = c /\ ~ poisoned
    BY NodeAssumption DEF NodeInv, MutexInv
  <1>2. Chain = db /\ ChainBlock = receipts
    BY <1>1 DEF Chain, ChainBlock, Applied, HolderAt, Executing
  <1>3. Cardinality(Sent(receipts, a)) = db[a].nonce BY <1>1, <1>2 DEF CountInv, NoncesUsed
  <1>4. QED BY <1>3, MinedByType, Zenon

\* A worker that only moves on.
LEMMA MovesFresh ==
  ASSUME NodeInv, Later, NEW c \in Clients, Fresh(c), NEW to, Moves(c, to),
         to \in {"latest", "get_block", "got_block"} => worker[c].method = "block",
         to = "cloning" => worker[c].method = "call",
         to # "calling",
         to \in {"get_block", "got_block"} => worker[c].at = "get_block"
  PROVE  Fresh(c)'
  <1>1. worker[c] \in Worker /\ worker'[c] = [worker[c] EXCEPT !.at = to]
    BY DEF NodeInv, NodeTypeOK, Moves
  <1>2. /\ worker'[c].method = worker[c].method /\ worker'[c].account = worker[c].account
        /\ worker'[c].tx = worker[c].tx /\ worker'[c].asked = worker[c].asked
        /\ worker'[c].at = to /\ worker'[c].number = worker[c].number
    BY <1>1 DEF Worker
  <1>3. QED BY <1>2, StaysFresh

\* A worker without a request has nothing to answer.
LEMMA IdleFresh ==
  ASSUME NEW c \in Clients, worker'[c].at = "idle", worker'[c].method = "none",
         worker'[c].asked = 0
  PROVE  Fresh(c)'
  BY DEF Fresh, Look

\* Nobody's step makes another's answer too old.
LEMMA OthersFresh ==
  ASSUME NodeInv, Later, NEW c \in Clients, Fresh(c), worker'[c] = worker[c]
  PROVE  Fresh(c)'
  <1>1. /\ worker[c].at \in {"latest", "get_block", "got_block"} => worker[c].method = "block"
        /\ worker[c].at \in {"cloning", "calling"} => worker[c].method = "call"
    BY DEF Fresh
  <1>2. QED BY <1>1, StaysFresh

\* An answer from what the worker carries, read after it was asked.
LEMMA OverFresh ==
  ASSUME NodeTypeOK, NEW c \in Clients, NEW answered, NEW answer, Over(c, answered, answer)
  PROVE  /\ Fresh(c)'
         /\ worker'[c].answered = answered /\ worker'[c].answer = answer
         /\ \A k \in Clients \ {c} : worker'[k] = worker[k]
  <1>1. /\ worker'[c] = [Idle EXCEPT !.answered = answered, !.answer = answer]
        /\ \A k \in Clients \ {c} : worker'[k] = worker[k]
    BY DEF NodeTypeOK, Over
  <1>2. /\ worker'[c].at = "idle" /\ worker'[c].method = "none" /\ worker'[c].asked = 0
        /\ worker'[c].answered = answered /\ worker'[c].answer = answer
    BY <1>1 DEF Idle
  <1>3. QED BY <1>1, <1>2, IdleFresh

\* A request that has just come has seen nothing.
LEMMA RequestFresh ==
  ASSUME NodeInv, NEW c \in Clients, Request(c)
  PROVE  Fresh(c)' /\ \A k \in Clients \ {c} : worker'[k] = worker[k]
  <1>0. /\ UNCHANGED <<db, block_number, receipts>> /\ worker \in [Clients -> Worker]
        /\ block_number \in Nat /\ receipts \in [Txs -> Nat]
    BY DEF Request, NodeInv, NodeTypeOK
  <1>1. PICK method \in Methods, a \in Accounts, tx \in Txs \cup {NoTx} :
          /\ method = "receipt" => tx \in Txs
          /\ worker' = [worker EXCEPT ![c] = Begun(method, a, tx)]
    BY NodeAssumption, ExecutionAssumption DEF Request, Methods
  <1>2. /\ worker'[c] = Begun(method, a, tx)
        /\ \A k \in Clients \ {c} : worker'[k] = worker[k]
    BY <1>0, <1>1
  <1>3. /\ worker'[c].method = method /\ worker'[c].account = a /\ worker'[c].tx = tx
        /\ worker'[c].at = "begun" /\ worker'[c].asked = Look(method, a, tx)
    BY <1>2 DEF Begun, Idle
  <1>4. Look(method, a, tx) \in Nat BY <1>1, LookType DEF NodeInv
  <1>5. MinedBy(a)' = MinedBy(a) BY <1>0 DEF MinedBy, Mined
  <1>6. LET w == worker[c] IN Look(w.method, w.account, w.tx)' = Look(method, a, tx)
    BY <1>0, <1>1, <1>3, <1>5 DEF Look, Methods
  <1>7. QED BY <1>2, <1>3, <1>4, <1>6 DEF Fresh

\* What each step leaves to be answered, and what it answers.
LEMMA FreshStep ==
  ASSUME NodeInv, CountInv, FreshInv, [NodeNext]_nodeVars
  PROVE  FreshInv' /\ \A c \in Clients : FreshAnswer(c)
  <1> USE DEF FreshInv
  <1>0. Later BY ChainGrows
  <1>a. worker \in [Clients -> Worker] /\ NodeTypeOK BY DEF NodeInv, NodeTypeOK
  <1>1. CASE UNCHANGED nodeVars
    <2>1. worker' = worker BY <1>1 DEF nodeVars
    <2>2. QED BY <1>0, <2>1, OthersFresh DEF FreshAnswer
  <1>2. ASSUME NEW c \in Clients, Fresh(c)', FreshAnswer(c),
               \A k \in Clients \ {c} : worker'[k] = worker[k]
        PROVE  FreshInv' /\ \A k \in Clients : FreshAnswer(k)
    BY <1>0, <1>2, OthersFresh DEF FreshAnswer
  \* Whoever ends without an answer, or has been sent a transaction.
  <1>3. ASSUME NEW c \in Clients, NEW answered, NEW answer, Over(c, answered, answer),
               \/ ~ answered
               \/ worker[c].method = "send"
               \/ answer \in worker[c].asked
                             .. Look(worker[c].method, worker[c].account, worker[c].tx)
        PROVE  FreshInv' /\ \A k \in Clients : FreshAnswer(k)
    <2>1. FreshAnswer(c) BY <1>a, <1>3, OverFresh DEF FreshAnswer
    <2>2. QED BY <1>a, <1>2, <1>3, <2>1, OverFresh
  \* Whoever goes on.
  <1>4. ASSUME NEW c \in Clients, Fresh(c)', worker'[c].at # "idle",
               \A k \in Clients \ {c} : worker'[k] = worker[k]
        PROVE  FreshInv' /\ \A k \in Clients : FreshAnswer(k)
    BY <1>2, <1>4 DEF FreshAnswer
  <1>5. ASSUME NEW c \in Clients, NEW to, Moves(c, to), to # "calling", to # "idle",
               to \in {"latest", "get_block", "got_block"} => worker[c].method = "block",
               to = "cloning" => worker[c].method = "call",
               to \in {"get_block", "got_block"} => worker[c].at = "get_block"
        PROVE  FreshInv' /\ \A k \in Clients : FreshAnswer(k)
    <2>1. Fresh(c)' BY <1>0, <1>5, MovesFresh
    <2>2. worker'[c].at = to /\ \A k \in Clients \ {c} : worker'[k] = worker[k]
      BY <1>a, <1>5 DEF Moves, Worker
    <2>3. QED BY <1>4, <1>5, <2>1, <2>2
  <1>6. ASSUME NEW c \in Clients, NEW to, Acquire(c, to), to # "calling", to # "idle",
               to \in {"latest", "get_block", "got_block"} => worker[c].method = "block",
               to = "cloning" => worker[c].method = "call",
               to \in {"get_block", "got_block"} => worker[c].at = "get_block"
        PROVE  FreshInv' /\ \A k \in Clients : FreshAnswer(k)
    <2>1. Over(c, FALSE, 0) \/ Moves(c, to) BY <1>6 DEF Acquire, Moves
    <2>2. QED BY <1>3, <1>5, <1>6, <2>1
  <1>7. ASSUME NEW c \in Clients, Request(c)
        PROVE  FreshInv' /\ \A k \in Clients : FreshAnswer(k)
    <2>1. worker[c].at = "idle" BY <1>7 DEF Request
    <2>2. FreshAnswer(c) BY <2>1 DEF FreshAnswer
    <2>3. QED BY <1>2, <1>7, <2>2, RequestFresh
  <1>8. ASSUME NEW c \in Clients, Work(c)
        PROVE  FreshInv' /\ \A k \in Clients : FreshAnswer(k)
    <2>0. /\ worker[c] \in Worker /\ worker[c].method \in Methods
          /\ worker[c].account \in Accounts /\ worker[c].asked \in Nat
          /\ worker[c].number \in Nat
          /\ block_number \in Nat /\ receipts \in [Txs -> Nat]
          /\ MinedBy(worker[c].account) \in Nat
      BY <1>a, MinedByType DEF Worker, NodeTypeOK
    <2>a. Fresh(c) OBVIOUS
    <2>1. CASE Read(c) BY <1>6, <2>1 DEF Read
    <2>2. CASE AnswerRead(c)
      <3>1. worker[c].at = "reading" /\ Over(c, TRUE, Found(c))
        BY <2>2 DEF AnswerRead, Step
      <3>2. worker[c].method \in {"nonce", "receipt", "number"}
        BY <3>1 DEF NodeInv, JobInv
      <3>3. db[worker[c].account].nonce = MinedBy(worker[c].account)
        BY <2>0, <3>1, ReaderSeesChain DEF Critical, Executing
      <3>4. worker[c].method = "receipt" => worker[c].tx \in Txs BY DEF NodeInv, JobInv
      <3>5. /\ Found(c) = Look(worker[c].method, worker[c].account, worker[c].tx)
            /\ Found(c) \in Nat
        BY <2>0, <3>2, <3>3, <3>4 DEF Found, Look
      <3>6. worker[c].asked <= Look(worker[c].method, worker[c].account, worker[c].tx)
        BY <2>a DEF Fresh
      <3>7. Found(c) \in worker[c].asked
                          .. Look(worker[c].method, worker[c].account, worker[c].tx)
        BY <2>0, <3>5, <3>6
      <3>8. QED BY <1>3, <3>1, <3>7
    <2>3. CASE BlockNumber(c) BY <1>6, <2>3 DEF BlockNumber
    <2>4. CASE Latest(c)
      <3>1. /\ worker[c].at = "latest"
            /\ worker' = [worker EXCEPT ![c].number = block_number, ![c].at = "get_block"]
        BY <2>4 DEF Latest, Step
      <3>2. /\ worker'[c] = [worker[c] EXCEPT !.number = block_number, !.at = "get_block"]
            /\ \A k \in Clients \ {c} : worker'[k] = worker[k]
        BY <1>a, <3>1
      <3>3. /\ worker'[c].method = worker[c].method /\ worker'[c].account = worker[c].account
            /\ worker'[c].tx = worker[c].tx /\ worker'[c].asked = worker[c].asked
            /\ worker'[c].at = "get_block" /\ worker'[c].number = block_number
        BY <2>0, <3>2 DEF Worker
      <3>4. worker[c].method = "block" BY <2>a, <3>1 DEF Fresh
      <3>5. Fresh(c)' BY <1>0, <2>a, <3>3, <3>4, StaysFresh
      <3>6. QED BY <1>4, <3>2, <3>3, <3>5
    <2>5. CASE GetBlock(c)
      <3>1. worker[c].at = "get_block" /\ Acquire(c, "got_block")
        BY <2>5 DEF GetBlock, Step
      <3>2. worker[c].method = "block" BY <2>a, <3>1 DEF Fresh
      <3>3. QED BY <1>6, <3>1, <3>2
    <2>6. CASE AnswerBlock(c)
      <3>1. worker[c].at = "got_block" /\ Over(c, TRUE, worker[c].number)
        BY <2>6 DEF AnswerBlock, Step
      <3>2. /\ worker[c].method = "block"
            /\ worker[c].number \in worker[c].asked .. block_number
        BY <2>a, <3>1 DEF Fresh
      <3>3. Look(worker[c].method, worker[c].account, worker[c].tx) = block_number
        BY <3>2 DEF Look
      <3>4. QED BY <1>3, <3>1, <3>2, <3>3
    <2>7. CASE EthCall(c) BY <1>6, <2>7 DEF EthCall
    <2>8. CASE CloneDb(c)
      <3>1. /\ worker[c].at = "cloning"
            /\ worker' = [worker EXCEPT ![c].evm = db, ![c].at = "calling"]
        BY <2>8 DEF CloneDb, Step
      <3>2. /\ worker'[c] = [worker[c] EXCEPT !.evm = db, !.at = "calling"]
            /\ \A k \in Clients \ {c} : worker'[k] = worker[k]
        BY <1>a, <3>1
      <3>3. /\ worker'[c].method = worker[c].method /\ worker'[c].account = worker[c].account
            /\ worker'[c].tx = worker[c].tx /\ worker'[c].asked = worker[c].asked
            /\ worker'[c].at = "calling" /\ worker'[c].evm = db
        BY <2>0, <3>2 DEF Worker
      <3>4. worker[c].method = "call" BY <2>a, <3>1 DEF Fresh
      <3>5. db[worker[c].account].nonce = MinedBy(worker[c].account)
        BY <2>0, <3>1, ReaderSeesChain DEF Critical, Executing
      <3>6. Fresh(c)' BY <1>0, <2>a, <3>3, <3>4, <3>5, StaysFresh
      <3>7. QED BY <1>4, <3>2, <3>3, <3>6
    <2>9. CASE AnswerCall(c)
      <3>1. /\ worker[c].at = "calling"
            /\ \/ Over(c, TRUE, worker[c].evm[worker[c].account].nonce)
               \/ Over(c, FALSE, 0)
        BY <2>9 DEF AnswerCall, Step
      <3>2. /\ worker[c].method = "call"
            /\ worker[c].evm[worker[c].account].nonce
                 \in worker[c].asked .. MinedBy(worker[c].account)
        BY <2>a, <3>1 DEF Fresh
      <3>3. Look(worker[c].method, worker[c].account, worker[c].tx)
              = MinedBy(worker[c].account)
        BY <3>2 DEF Look
      <3>4. QED BY <1>3, <3>1, <3>2, <3>3
    <2>10. CASE RejectMalformed(c) BY <1>3, <2>10 DEF RejectMalformed
    <2>11. CASE SendRawTransaction(c) BY <1>6, <2>11 DEF SendRawTransaction
    <2>12. CASE RejectChainId(c) \/ RejectInvalid(c) \/ Record(c)
      <3>1. worker[c].at \in Executing \cup {"locked"}
        BY <2>12 DEF RejectChainId, RejectInvalid, Record, Step, Executing
      <3>2. worker[c].method = "send" BY <3>1, Holder
      <3>3. PICK answer : Over(c, TRUE, answer)
        BY <2>12 DEF RejectChainId, RejectInvalid, Record
      <3>4. QED BY <1>3, <3>2, <3>3
    <2>13. CASE TakeDb(c) \/ Execute(c) \/ RestoreDb(c)
      <3>1. /\ worker'[c].method = worker[c].method /\ worker'[c].account = worker[c].account
            /\ worker'[c].tx = worker[c].tx /\ worker'[c].asked = worker[c].asked
            /\ worker'[c].at \in Executing
            /\ \A k \in Clients \ {c} : worker'[k] = worker[k]
        <4>1. CASE TakeDb(c)
          <5>1. worker'[c] = [worker[c] EXCEPT !.evm = db, !.number = block_number + 1,
                                               !.at = "executing"]
            BY <1>a, <4>1 DEF TakeDb
          <5>2. \A k \in Clients \ {c} : worker'[k] = worker[k] BY <1>a, <4>1 DEF TakeDb
          <5>3. QED BY <2>0, <5>1, <5>2 DEF Worker, Executing
        <4>2. CASE Execute(c)
          <5>1. \/ worker'[c] = [worker[c] EXCEPT !.result = "invalid", !.at = "executed"]
                \/ \E after : worker'[c] = [worker[c] EXCEPT !.evm = after, !.result = "mined",
                                                             !.at = "executed"]
            <6>1. CASE Valid(worker[c].evm, worker[c].tx)
              <7>1. PICK after : worker' = [worker EXCEPT ![c].evm = after,
                                              ![c].result = "mined", ![c].at = "executed"]
                BY <4>2, <6>1 DEF Execute
              <7>2. QED BY <1>a, <7>1
            <6>2. CASE ~ Valid(worker[c].evm, worker[c].tx)
              BY <1>a, <4>2, <6>2 DEF Execute
            <6>3. QED BY <6>1, <6>2
          <5>2. \A k \in Clients \ {c} : worker'[k] = worker[k] BY <1>a, <4>2 DEF Execute
          <5>3. QED BY <2>0, <5>1, <5>2 DEF Worker, Executing
        <4>3. CASE RestoreDb(c)
          <5>1. worker'[c] = [worker[c] EXCEPT !.evm = EmptyDb, !.at = "restored"]
            BY <1>a, <4>3 DEF RestoreDb
          <5>2. \A k \in Clients \ {c} : worker'[k] = worker[k] BY <1>a, <4>3 DEF RestoreDb
          <5>3. QED BY <2>0, <5>1, <5>2 DEF Worker, Executing
        <4>4. QED BY <2>13, <4>1, <4>2, <4>3
      <3>2. Fresh(c)' BY <1>0, <2>a, <3>1, StaysFresh DEF Executing
      <3>3. QED BY <1>4, <3>1, <3>2 DEF Executing
    <2>14. CASE Panic(c) BY <1>3, <2>14 DEF Panic
    <2>15. QED BY <1>8, <2>1, <2>2, <2>3, <2>4, <2>5, <2>6, <2>7, <2>8, <2>9, <2>10, <2>11,
                  <2>12, <2>13, <2>14 DEF Work
  <1>9. QED BY <1>1, <1>7, <1>8 DEF NodeNext

(***************************************************************************)
(* Whatever is mined meanwhile, an answer of rpc.rs is no older than its   *)
(* request and no newer than the chain: neither the copy of a call nor the *)
(* number of eth_getBlockByNumber, both used without the mutex, nor the    *)
(* empty database of a running transaction gives a stale one.              *)
(***************************************************************************)
THEOREM AnswersAreFresh == NodeSpec => FreshAnswers
  <1>1. NodeInit => CountInv /\ FreshInv
    <2>1. ASSUME NodeInit PROVE FreshInv
      BY <2>1 DEF NodeInit, FreshInv, Fresh, Idle, Look
    <2>2. QED BY <2>1, CountInit
  <1>2. NodeInv /\ NodeInv' /\ CountInv /\ [NodeNext]_nodeVars => CountInv' BY CountStep
  <1>3. NodeInv /\ CountInv /\ FreshInv /\ [NodeNext]_nodeVars =>
          FreshInv' /\ [\A c \in Clients : FreshAnswer(c)]_nodeVars
    BY FreshStep
  <1>4. QED BY <1>1, <1>2, <1>3, NodeInvariant, PTL DEF NodeSpec, FreshAnswers
=============================================================================
