------------------------ MODULE MCTransactionWatcher ------------------------
EXTENDS TransactionWatcherRefinement, TLC

CONSTANTS s1, s2, m1, m2, interval

OneSigner == {s1}
TwoSigners == {s1, s2}
OneTxn == {m1}
TwoTxns == {m1, m2}
OnlyInterval == {}
FixedKeys == {{s1}}
RotatedKeys == {{s1}, {s2}}
NoFaults == {}
NodeFaults == {"readError", "forget"}
AllButCrashes == {"readError", "reorg", "forget"}
AllButReorgs == {"crash", "dbError", "readError", "lostReply", "forget"}
Symmetric == Permutations({m1, m2})
=============================================================================
