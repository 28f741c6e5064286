---------------------------- MODULE MCStoreJournal ----------------------------
EXTENDS StoreJournal

CONSTANTS k1, k2, r

OneRoot == [k \in Keys |-> r]

\* The steps a crash does no harm at.
SafeSteps == Steps \ {"create", "swap", "untag", "print"}

================================================================================
