------------------------------ MODULE MC_Stats ------------------------------
(* Two miners' addresses for the statistics aggregator.                    *)
EXTENDS Stats

CONSTANTS w1, w2

MCWallets == {w1, w2}

\* Addresses play symmetric roles: no code compares or orders them.
MCSymmetry == Permutations(MCWallets)
=============================================================================
