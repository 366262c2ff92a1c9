--------------------------- MODULE MCLookupTables ---------------------------
\* Small instances of LookupTables for TLC.
EXTENDS LookupTables, TLC

CONSTANTS t1, t2

Lk(t, w, r) == [table |-> t, writable |-> w, readonly |-> r]

\* within one table; two aligned tables; two interleaved ones
MCLookups ==
  { <<Lk(t1, <<1>>, <<0>>)>>,
    <<Lk(t1, <<0>>, <<>>), Lk(t2, <<0>>, <<1>>)>>,
    <<Lk(t1, <<0>>, <<1>>), Lk(t2, <<0>>, <<>>)>> }

OneTableLookups == { <<Lk(t1, <<0>>, <<>>)>>, <<Lk(t1, <<1>>, <<0>>)>> }

Symmetry == Permutations(Workers)

=============================================================================
