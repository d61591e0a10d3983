---------------------------- MODULE MCAgentJobs ----------------------------
EXTENDS AgentJobs, TLC
CONSTANTS t1, t2, w1, w2, c1
OneConfig == {c1}
UndoOne == {<<t1, "restore">>}
PostOneUndoOther == {<<t1, "recategorize">>, <<t2, "restore">>}
OneTxn == {t1}
TwoTxns == {t1, t2}
OneWorker == {w1}
TwoWorkers == {w1, w2}
Symmetry == Permutations({t1, t2}) \cup Permutations({w1, w2})
=============================================================================
