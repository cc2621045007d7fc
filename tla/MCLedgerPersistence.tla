------------------------ MODULE MCLedgerPersistence ------------------------
EXTENDS LedgerPersistence, TLC

EmptyFile == <<>>
Symmetry == Permutations(Writers)
=============================================================================
