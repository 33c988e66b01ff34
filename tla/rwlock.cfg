SPECIFICATION FairSpec
CONSTANT Thread = {t1, t2, t3, t4}
INVARIANTS TypeOK Exclusion CountersExact NoLostWakeup
PROPERTIES KeepsPromise LockMoves ReadersGetIn
