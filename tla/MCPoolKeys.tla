----------------------------- MODULE MCPoolKeys -----------------------------
\* A small instance of PoolKeys for TLC.
EXTENDS PoolKeys, TLC

CONSTANTS p1, p2

\* one pool of each useful kind
MCSolSide == p1 :> "base" @@ p2 :> "neither"

=============================================================================
