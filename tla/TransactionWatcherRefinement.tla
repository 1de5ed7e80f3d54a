-------------------- MODULE TransactionWatcherRefinement --------------------
(***************************************************************************)
(* The transaction watcher implements MetaTxnLedger, as long as one pass   *)
(* runs at a time, no crash or lost answer separates a broadcast from the  *)
(* row that records it, and no block is undone.                            *)
(*                                                                         *)
(* A meta-transaction counts as relayed from the moment the node takes its *)
(* transaction, not from the later one at which the row says so.           *)
(***************************************************************************)
EXTENDS TransactionWatcher

OnNetwork(r) == \E t \in sent : t.payload = r

ReportOf(r) ==
    CASE rows[r].status = "absent" -> "unknown"
      [] rows[r].status = "unsubmitted" /\ ~ OnNetwork(r) -> "queued"
      [] rows[r].status = "unsubmitted" /\ OnNetwork(r) -> "relayed"
      [] rows[r].status \in PendingStatus -> "relayed"
      [] rows[r].status \in {"included", "confirmed"} -> "executed"
      [] rows[r].status \in {"dropped", "aborted"} -> "failed"
      [] rows[r].status = "cancelled" -> "rejected"

Ledger == INSTANCE MetaTxnLedger
    WITH report <- [r \in MetaTxn |-> ReportOf(r)],
         executed <- {r \in MetaTxn : \E t \in sent : t.payload = r /\ IsMined(t)}

\* The watcher's steps are the ledger's, or invisible to a client: a row moves
\* from queued to relayed once, to executed only after the chain executed it, and
\* never out of executed, failed or rejected.
ImplementsLedger == Ledger!LedgerSpec

\* And it keeps the ledger's promise to empty the queue.
ImplementsFairLedger == Ledger!LedgerFairSpec
=============================================================================
