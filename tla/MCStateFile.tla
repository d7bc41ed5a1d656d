----------------------------- MODULE MCStateFile -----------------------------
EXTENDS StateFile

ObserveOnly == {Observe}
=============================================================================
