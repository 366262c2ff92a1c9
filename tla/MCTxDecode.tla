----------------------------- MODULE MCTxDecode -----------------------------
\* A small instance of TxDecode for TLC: every order of up to three of the
\* instructions below, over a few sets of token balances.
EXTENDS TxDecode, TLC

CONSTANTS pA, pB, mint, vA, vB, user, jito, bloxroute, payer, program, authority

MCPoolMint == [p \in {pA, pB} |-> mint]
MCVault == pA :> vA @@ pB :> vB
MCTipAccounts == "jito" :> {jito} @@ "bloxroute" :> {bloxroute}

Ix(p, t, v, a) == [prog |-> p, tag |-> t, value |-> v, accounts |-> a]
SwapOn(p) == [prog |-> "swap", pool |-> p]

\* static keys 1 payer, 2 bloXroute, 3 Jito, 4 last; 5 is loaded from a table
Instructions ==
  { Ix("compute", 2, 3, <<>>), Ix("compute", 3, 2, <<>>), Ix("compute", 3, 6, <<>>),
    Ix("system", 2, 1, <<1, 2>>), Ix("system", 2, 5, <<1, 2>>),
    Ix("system", 2, 7, <<1, 3>>), Ix("system", 2, 9, <<1, 5>>),
    Ix("system", 0, 2, <<1, 2>>), Ix("system", 1, 0, <<1>>),
    SwapOn(pA), SwapOn(pB), [prog |-> "other"] }

\* the runtime refuses two compute instructions of one kind
Accepted(s) ==
  \A i, j \in DOMAIN s :
    i < j /\ s[i].prog = "compute" /\ s[j].prog = "compute" => s[i].tag # s[j].tag

Orders == {s \in BoundedSeq(Instructions, 3) : Accepted(s)}

B(acc, owner, n) == [mint |-> mint, owner |-> owner, account |-> acc, amount |-> n]

\* a user buys, sells; the vault appears in the transaction; two pools at once
Balances ==
  { [pre |-> <<B(user, user, 1), B(vA, authority, 5)>>,
     post |-> <<B(user, user, 3), B(vA, authority, 3)>>],
    [pre |-> <<B(user, user, 4), B(vA, authority, 5)>>,
     post |-> <<B(vA, authority, 9)>>],
    [pre |-> <<>>, post |-> <<B(vA, authority, 9)>>],
    [pre |-> <<B(vA, authority, 5), B(vB, authority, 8)>>,
     post |-> <<B(vA, authority, 3), B(vB, authority, 9)>>] }

MCTxs ==
  { [ins |-> s, static |-> <<payer, bloxroute, jito, k>>, loaded |-> <<user>>,
     pre |-> b.pre, post |-> b.post] :
      s \in Orders, k \in {program, bloxroute}, b \in Balances }

=============================================================================
