---------------------------- MODULE EthereumNode ----------------------------
(***************************************************************************)
(* The Ethereum node that src/src/services/transaction_watcher_signer_     *)
(* service.ts and src/src/utils/signer.ts talk to.  It is external to the  *)
(* repository: what is modelled is what the code relies on when it calls   *)
(* eth_getTransactionCount, eth_sendTransaction, eth_getTransactionByHash  *)
(* and eth_blockNumber, and the gas station it asks for a price.           *)
(*                                                                         *)
(* A transaction is its content; its hash, which is a function of the      *)
(* content, is the transaction itself.                                     *)
(***************************************************************************)
EXTENDS Integers

CONSTANTS
    Signer,        \* public addresses of the relay's keys
    MetaTxn,       \* 0x meta-transactions (a row's refHash)
    SelfTransfer,  \* the payload of the zero-value transaction that unsticks
    MaxNonce,      \* bound: nonces are 0 .. MaxNonce
    MaxGasPrice,   \* bound: the gas station quotes 1 .. MaxGasPrice
    MaxHead,       \* bound: the chain's height
    MaxTxnBlock    \* bound: only blocks up to this height hold transactions,
                   \* so that what is mined can still be confirmed

ASSUME NodeAssumption ==
    /\ SelfTransfer \notin MetaTxn
    /\ MaxNonce \in Nat
    /\ MaxGasPrice \in Nat \ {0}
    /\ MaxHead \in Nat
    /\ MaxTxnBlock \in 0 .. MaxHead

Nonce == 0 .. MaxNonce
GasPrice == 1 .. MaxGasPrice + 1

RelayTx == [from : Signer, nonce : Nonce, payload : MetaTxn, gasPrice : GasPrice]
SelfTx == [from : Signer, nonce : Nonce, payload : {SelfTransfer}, gasPrice : GasPrice]
Tx == RelayTx \cup SelfTx

NotMined == 0

VARIABLES
    sent,      \* every transaction the network was ever given
    pool,      \* the transactions pending in this node's mempool
    block,     \* the block each transaction is mined in, or NotMined
    head,      \* the number of the latest block
    gasPrice   \* what the gas station quotes

nodeVars == <<sent, pool, block, head, gasPrice>>

NodeTypeOK ==
    /\ sent \subseteq Tx
    /\ pool \subseteq sent
    /\ block \in [Tx -> 0 .. MaxHead]
    /\ head \in 0 .. MaxHead
    /\ gasPrice \in 1 .. MaxGasPrice

NodeInit ==
    /\ sent = {}
    /\ pool = {}
    /\ block = [t \in Tx |-> NotMined]
    /\ head = 0
    /\ gasPrice = 1

SameSlot(t, u) == t.from = u.from /\ t.nonce = u.nonce

IsMined(t) == block[t] # NotMined
SlotMined(s, n) == \E t \in sent : t.from = s /\ t.nonce = n /\ IsMined(t)
SlotPending(s, n) == \E t \in pool : t.from = s /\ t.nonce = n

\* eth_getTransactionByHash answers with an object, and not with null.
Knows(t) == t \in pool \/ IsMined(t)

\* n is what eth_getTransactionCount(s, 'pending') answers.
IsPendingNonce(s, n) ==
    /\ \A m \in 0 .. n - 1 : SlotMined(s, m) \/ SlotPending(s, m)
    /\ ~ SlotMined(s, n)
    /\ ~ SlotPending(s, n)

\* eth_sendTransaction refuses a nonce that is used up, a transaction that is
\* already pending, and a replacement that does not pay more.
Accepts(t) ==
    /\ ~ SlotMined(t.from, t.nonce)
    /\ \A u \in pool : SameSlot(t, u) => u.gasPrice < t.gasPrice

Receive(t) ==
    /\ sent' = sent \cup {t}
    /\ pool' = {u \in pool : ~ SameSlot(t, u)} \cup {t}
    /\ UNCHANGED <<block, head, gasPrice>>

-----------------------------------------------------------------------------
\* A miner may hold any transaction the network was given, also one that this
\* node has replaced or forgotten; nonces of an account are used in order.
Mine(t) ==
    /\ head < MaxTxnBlock
    /\ t \in sent
    /\ ~ SlotMined(t.from, t.nonce)
    /\ \A m \in 0 .. t.nonce - 1 : SlotMined(t.from, m)
    /\ block' = [block EXCEPT ![t] = head + 1]
    /\ head' = head + 1
    /\ pool' = {u \in pool : ~ SameSlot(t, u)}
    /\ UNCHANGED <<sent, gasPrice>>

MineEmptyBlock ==
    /\ head < MaxHead
    /\ head' = head + 1
    /\ UNCHANGED <<sent, pool, block, gasPrice>>

\* The blocks from b on are replaced by empty ones; the node knows only the
\* transactions in kept of those they held, as pending ones.
Reorg(b, kept) ==
    LET undone == {t \in sent : block[t] >= b}
    IN  /\ b \in 1 .. head
        /\ undone # {}
        /\ kept \subseteq undone
        /\ block' = [t \in Tx |-> IF t \in undone THEN NotMined ELSE block[t]]
        /\ pool' = pool \cup kept
        /\ UNCHANGED <<sent, head, gasPrice>>

\* The node's mempool evicts a transaction, or restarts without it.
Forget(t) ==
    /\ t \in pool
    /\ pool' = pool \ {t}
    /\ UNCHANGED <<sent, block, head, gasPrice>>

GasPriceMoves ==
    /\ gasPrice' \in 1 .. MaxGasPrice
    /\ gasPrice' # gasPrice
    /\ UNCHANGED <<sent, pool, block, head>>
=============================================================================
