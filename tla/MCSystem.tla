------------------------------ MODULE MCSystem ------------------------------
\* A small instance of System for TLC: a transaction with every instruction, so
\* that its second delivery meets a tracked pool.
EXTENDS System, TLC

CONSTANTS p1, t1

MCSolSide == [p \in Pools |-> "base"]
Ix(o) == [op |-> o, pool |-> p1]
MCTxOf == [s \in Sigs |-> <<Ix("initialize2"), Ix("withdraw"), Ix("swap")>>]
MCTxs == {MCTxOf[s] : s \in Sigs}

=============================================================================
