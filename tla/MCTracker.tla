----------------------------- MODULE MCTracker ------------------------------
\* Small instances of Tracker for TLC.
EXTENDS Tracker, TLC

CONSTANT p1

MCSolSide == [p \in Pools |-> IF p = p1 THEN "base" ELSE "quote"]

Ix(o, p) == [op |-> o, pool |-> p]

\* one instruction of each kind
SingleTxs == { <<Ix(o, p)>> : o \in {"initialize2", "withdraw", "swap"}, p \in Pools }

\* liquidity removed and the first swap after it in one transaction
MixedTxs == SingleTxs \cup { <<Ix("withdraw", p), Ix("swap", p)>> : p \in Pools }

\* two instructions of one transaction, on any pools
PairTxs == { <<Ix(o1, p), Ix(o2, q)>> :
               o1 \in {"initialize2", "swap"}, o2 \in {"withdraw", "swap"},
               p, q \in Pools }

Symmetry == Permutations(Workers)

=============================================================================
