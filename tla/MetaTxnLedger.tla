---------------------------- MODULE MetaTxnLedger ----------------------------
(***************************************************************************)
(* What the meta-transaction relay promises to a client that polls the     *)
(* status of its meta-transactions (GET /meta_transaction/v0/status): each *)
(* is relayed at most once, is reported as executed only when the chain    *)
(* has executed it, and a final answer is never taken back.  How rows,     *)
(* passes, signers and replacements achieve that is left open here.        *)
(***************************************************************************)
CONSTANT MetaTxn

VARIABLES
    report,    \* what the relay reports of each meta-transaction
    executed   \* the meta-transactions the chain has executed

ledgerVars == <<report, executed>>

Report == {"unknown", "queued", "relayed", "executed", "failed", "rejected"}

LedgerTypeOK == report \in [MetaTxn -> Report] /\ executed \subseteq MetaTxn

LedgerInit ==
    /\ report = [r \in MetaTxn |-> "unknown"]
    /\ executed = {}

Moves(r, from, to) ==
    /\ report[r] = from
    /\ report' = [report EXCEPT ![r] = to]

Queue(r) == Moves(r, "unknown", "queued") /\ UNCHANGED executed
Reject(r) == Moves(r, "queued", "rejected") /\ UNCHANGED executed
Relay(r) == Moves(r, "queued", "relayed") /\ UNCHANGED executed

\* The chain executes only what was relayed, once.  It may do so after the relay
\* has given the transaction up as dropped: a node that forgets a transaction
\* does not take it back from the network.
Execute(r) ==
    /\ report[r] \in {"relayed", "failed"}
    /\ r \notin executed
    /\ executed' = executed \cup {r}
    /\ UNCHANGED report

\* Success is reported only after the fact.
ReportExecuted(r) == r \in executed /\ Moves(r, "relayed", "executed") /\ UNCHANGED executed
ReportFailed(r) == Moves(r, "relayed", "failed") /\ UNCHANGED executed

LedgerNext ==
    \E r \in MetaTxn :
        \/ Queue(r) \/ Reject(r) \/ Relay(r)
        \/ Execute(r) \/ ReportExecuted(r) \/ ReportFailed(r)

LedgerSpec == LedgerInit /\ [][LedgerNext]_ledgerVars

\* The relay answers for what it has accepted: no row waits in the queue forever.
LedgerFairness ==
    \A r \in MetaTxn : WF_ledgerVars(Reject(r) \/ Relay(r))

LedgerFairSpec == LedgerSpec /\ LedgerFairness
=============================================================================
