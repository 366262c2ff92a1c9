----------------------------- MODULE MCTradeApi -----------------------------
\* A small instance of TradeApi for TLC: trades of two pools, two at the
\* ends of their columns, one with a tip and one with an amount past it; the second page, of one row, of a search by two terms;
\* and an offset without a limit.
EXTENDS TradeApi, TLC

CONSTANTS pA, pB

Row(p, a, n, t) == [amm_id |-> p, action |-> a, compute_limit |-> 0, compute_price |-> 0,
                    amount |-> n, timestamp |-> 0, tip_amount |-> t]
MCTrades == { Row(pA, "BUY", BigMax, 0), Row(pA, "SELL", -BigMax - 1, IntMax),
              Row(pB, "BUY", 0, IntMax + 1), Row(pB, "BUY", BigMax + 1, 0) }

Term(c, o, v) == [column |-> c, op |-> o, value |-> v]
MCFilters ==
  { [query |-> <<Term("amm_id", "=", pA), Term("action", "!=", "SELL")>>,
     limit |-> 1, offset |-> 1],
    [query |-> <<>>, limit |-> 0, offset |-> 1] }

Symmetry == Permutations(Clients)

=============================================================================
