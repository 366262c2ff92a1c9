------------------------------ MODULE TxDecode ------------------------------
(***************************************************************************)
(* What ProcessResponse reads from a transaction for the trade it records:  *)
(* the compute limit and price, the tip, the last swap and the amount its   *)
(* pool gained or lost.  One goroutine, one transaction at a time; the      *)
(* handlers called on the way are module Tracker's.                         *)
(***************************************************************************)
EXTENDS Integers, FiniteSets, SequencesExt

CONSTANTS
  Txs,         \* transactions: [ins, static, loaded, pre, post]
  PoolMint,    \* [pool -> the mint traded against wrapped SOL]
  Vault,       \* [pool -> the token account of that mint]
  Authority,   \* config.RAYDIUM_AUTHORITY, the owner of the vaults
  TipAccounts, \* [{"jito", "bloxroute"} -> the accounts tips are sent to]
  NoPool,      \* the pool of no trade
  Word         \* bound: 2^32, small; a u64 is below Word * Word

IsSeq(s) == s \in Seq(Range(s))

\* What the runtime lets through: a u32 of units and u64s elsewhere, accounts that
\* the message has, a swap of a known pool.
WellFormed(i, t) ==
  /\ i.prog \in {"compute", "system", "swap", "other"}
  /\ i.prog = "compute" => i.value \in 0..Word * Word - 1 /\ (i.tag = 2 => i.value < Word)
  /\ i.prog = "system" => /\ i.value \in 0..Word * Word - 1
                          /\ IsSeq(i.accounts)
                          /\ Range(i.accounts) \subseteq 1..Len(t.static) + Len(t.loaded)
  /\ i.prog = "swap" => i.pool \in DOMAIN PoolMint

\* Token balances: an account is listed once and keeps its mint and owner.
Consistent(t) ==
  /\ IsSeq(t.pre) /\ IsSeq(t.post)
  /\ \A b \in Range(t.pre) \cup Range(t.post) : b.amount \in Nat
  /\ \A b, c \in Range(t.pre) \cup Range(t.post) :
       b.account = c.account => b.mint = c.mint /\ b.owner = c.owner
  /\ \A s \in {t.pre, t.post} : \A j, k \in DOMAIN s : s[j].account = s[k].account => j = k

ASSUME DecodeAssumption ==
  /\ Word \in Nat \ {0}
  /\ NoPool \notin DOMAIN PoolMint
  /\ \A t \in Txs : /\ IsSeq(t.ins) /\ IsSeq(t.static) /\ IsSeq(t.loaded)
                    /\ t.static # <<>>
                    /\ \A i \in Range(t.ins) : WellFormed(i, t)
                    /\ Consistent(t)

VARIABLES
  tx,     \* the transaction
  at,     \* the instruction the loop is at
  limit,  \* computeLimit
  price,  \* computePrice
  tip,    \* tip and tipAmount: [name, amount]
  swap,   \* index of the SwapBaseIn remembered, 0 for none
  trade,  \* the trade handed to SetTrade, or NoTrade
  pc      \* "loop", "done" or "panic"

vars == <<tx, at, limit, price, tip, swap, trade, pc>>

NoTrade == [pool |-> NoPool]
NoTip == [name |-> "", amount |-> 0]

TypeOK ==
  /\ at \in 1..Len(tx.ins) + 1
  /\ limit \in 0..Word - 1
  /\ price \in 0..Word - 1
  /\ tip.name \in {"", "jito", "bloxroute"} /\ tip.amount \in Int
  /\ -(Word * Word) <= 2 * tip.amount /\ 2 * tip.amount < Word * Word
  /\ swap \in 0..at - 1
  /\ pc \in {"loop", "done", "panic"}
  /\ trade # NoTrade => pc = "done" /\ trade.pool \in DOMAIN PoolMint

\* One call; another one starts from fresh locals, so calls are not told apart.
Init ==
  /\ tx \in Txs
  /\ pc = "loop"
  /\ at = 1 /\ swap = 0
  /\ limit = 0 /\ price = 0
  /\ tip = NoTip
  /\ trade = NoTrade

\* The loop is at an instruction of program p.
Is(p) == pc = "loop" /\ at <= Len(tx.ins) /\ tx.ins[at].prog = p

Skip == at' = at + 1

\* mutants of DecodeCompute: all 64 bits read; the tags swapped
DecodeComputeWide(i) == [tag |-> i.tag, value |-> i.value]
DecodeComputeSwapped(i) == [tag |-> 5 - i.tag, value |-> i.value % Word]

\* One byte of tag and four of value, whatever the instruction carries: of the
\* 64 bits of a unit price the lower half is read.
DecodeCompute(i) == [tag |-> i.tag, value |-> i.value % Word]

Budget ==
  /\ Is("compute")
  /\ LET c == DecodeCompute(tx.ins[at]) IN
       /\ limit' = IF c.tag = 2 THEN c.value ELSE limit
       /\ price' = IF c.tag = 3 THEN c.value ELSE price
  /\ Skip
  /\ UNCHANGED <<tx, tip, swap, trade, pc>>

\* An account index past the static keys stands for the last static key.
Destination(i) ==
  LET k == i.accounts[2] IN
    IF k > Len(tx.static) THEN Last(tx.static) ELSE tx.static[k]

\* Declared, and never filled by the program.
JitoTipAccounts == {}

\* mutant of TipOf: the first tip stays
TipOfFirst(dest, amount) ==
  IF tip # NoTip THEN tip
  ELSE IF dest \in JitoTipAccounts THEN [name |-> "jito", amount |-> amount]
  ELSE IF dest \in TipAccounts["bloxroute"]
       THEN [name |-> "bloxroute", amount |-> amount] ELSE tip

TipOf(dest, amount) ==
  IF dest \in JitoTipAccounts THEN [name |-> "jito", amount |-> amount]
  ELSE IF dest \in TipAccounts["bloxroute"]
       THEN [name |-> "bloxroute", amount |-> amount] ELSE tip

\* Eight bytes read into an int64.
DecodeTransfer(i) ==
  IF 2 * i.value < Word * Word THEN i.value ELSE i.value - Word * Word

\* Any instruction of the system program is read as a transfer, its tag unseen.
Transfer ==
  /\ Is("system")
  /\ Len(tx.ins[at].accounts) >= 2
  /\ tip' = TipOf(Destination(tx.ins[at]), DecodeTransfer(tx.ins[at]))
  /\ Skip
  /\ UNCHANGED <<tx, limit, price, swap, trade, pc>>

\* accounts[1] of an instruction with one account: index out of range.
ShortTransfer ==
  /\ Is("system")
  /\ Len(tx.ins[at].accounts) < 2
  /\ pc' = "panic"
  /\ UNCHANGED <<tx, at, limit, price, tip, swap, trade>>

\* mutant of Swap: the first one is kept
SwapFirst ==
  /\ Is("swap")
  /\ swap' = IF swap = 0 THEN at ELSE swap
  /\ Skip
  /\ UNCHANGED <<tx, limit, price, tip, trade, pc>>

Swap ==
  /\ Is("swap")
  /\ swap' = at
  /\ Skip
  /\ UNCHANGED <<tx, limit, price, tip, trade, pc>>

\* Initialize2 and Withdraw, whose handlers touch none of these variables;
\* SwapBaseOut, data that does not decode, other programs.
Other ==
  /\ Is("other")
  /\ Skip
  /\ UNCHANGED <<tx, limit, price, tip, swap, trade, pc>>

\* mutant of VaultIn: any owner's account of the mint
VaultInAnyOwner(balances, mint) == SelectInSeq(balances, LAMBDA b : b.mint = mint)

\* The first entry of the mint owned by the authority of all pools, 0 for none.
VaultIn(balances, mint) ==
  SelectInSeq(balances, LAMBDA b : b.mint = mint /\ b.owner = Authority)

GetBalanceFromTransaction(pre, post, mint) ==
  LET i == VaultIn(pre, mint)
      j == VaultIn(post, mint)
  IN  IF i = 0 \/ j = 0 THEN 0 ELSE pre[i].amount - post[j].amount

TradeOf(pool) ==
  LET amount == GetBalanceFromTransaction(tx.pre, tx.post, PoolMint[pool])
  IN  [pool |-> pool, amount |-> amount,
       action |-> IF amount > 0 THEN "BUY" ELSE "SELL",
       limit |-> limit, price |-> price, tip |-> tip]

\* After the loop: the swap remembered becomes the trade.
Finish ==
  /\ pc = "loop"
  /\ at > Len(tx.ins)
  /\ pc' = "done"
  /\ trade' = IF swap = 0 THEN NoTrade ELSE TradeOf(tx.ins[swap].pool)
  /\ UNCHANGED <<tx, at, limit, price, tip, swap>>

Next == Budget \/ Transfer \/ ShortTransfer \/ Swap \/ Other \/ Finish

Spec == Init /\ [][Next]_vars

-----------------------------------------------------------------------------
(* Properties: the trade against what the transaction did                  *)

Of(p) == {k \in DOMAIN tx.ins : tx.ins[k].prog = p}

\* A trade is that of the last swap of the transaction, whatever stands between
\* or after; a system instruction with one account, anywhere in it, loses it.
TradeOfLastSwap ==
  pc = "done" =>
    /\ \A k \in Of("system") : Len(tx.ins[k].accounts) >= 2
    /\ (trade = NoTrade) <=> (Of("swap") = {})
    /\ trade # NoTrade => trade.pool = tx.ins[Max(Of("swap"))].pool

\* What the runtime charges by: the value of the instruction with that tag, 0
\* without one; a transaction with two of them fails and is not delivered.
Charged(tag) ==
  LET K == {k \in Of("compute") : tx.ins[k].tag = tag}
  IN  IF K = {} THEN 0 ELSE tx.ins[Max(K)].value

\* A trade carries the unit limit of the transaction and its unit price modulo
\* 2^32: the price is exact as long as it fits four bytes.
ComputeAsCharged ==
  trade # NoTrade =>
    /\ trade.limit = Charged(2)
    /\ trade.price = Charged(3) % Word

Key(k) == (tx.static \o tx.loaded)[k]

\* Transfers that reach an account of `name`.
Tips(name) ==
  {k \in Of("system") : /\ tx.ins[k].tag = 2
                        /\ Len(tx.ins[k].accounts) >= 2
                        /\ Key(tx.ins[k].accounts[2]) \in TipAccounts[name]}

\* Every system instruction is a transfer to a static key, of lamports an int64
\* holds (there are fewer than that).
PlainTransfers ==
  \A k \in Of("system") : /\ tx.ins[k].tag = 2
                          /\ 2 * tx.ins[k].value < Word * Word
                          /\ \A a \in Range(tx.ins[k].accounts) : a <= Len(tx.static)

\* The tip of a trade is the last transfer to bloXroute's account, when the
\* system instructions are plain transfers: the clamping of loaded accounts, the
\* unread tag and the sign of what is read are the only ways to a wrong tip.  A tip sent to Jito is never
\* recorded: nothing fills JitoTipAccounts.
TipIsLastTransfer ==
  trade # NoTrade /\ PlainTransfers =>
    trade.tip = IF Tips("bloxroute") = {} THEN NoTip
                ELSE [name |-> "bloxroute", amount |-> tx.ins[Max(Tips("bloxroute"))].value]

\* Accounts of the mint that belong to the authority, before and after.
Vaults(mint) ==
  {b.account : b \in {c \in Range(tx.pre) \cup Range(tx.post) :
                        c.mint = mint /\ c.owner = Authority}}

Held(balances, account) ==
  LET B == {b \in Range(balances) : b.account = account}
  IN  IF B = {} THEN 0 ELSE (CHOOSE b \in B : TRUE).amount

\* The authority owns the vaults of all pools, and entries are not told apart
\* by account: the amount is the change of the swapped pool's vault, and BUY
\* means that it lost tokens, when no other pool of the mint is in the
\* transaction and the vault existed before and after it.
AmountIsVaultChange ==
  trade # NoTrade =>
    LET v == Vault[trade.pool] IN
      Vaults(PoolMint[trade.pool]) = {v} /\ (\E b \in Range(tx.pre) : b.account = v)
                                        /\ (\E b \in Range(tx.post) : b.account = v) =>
        /\ trade.amount = Held(tx.pre, v) - Held(tx.post, v)
        /\ trade.action = "BUY" <=> Held(tx.post, v) < Held(tx.pre, v)

=============================================================================
