--------------------------- MODULE TxDecodeProofs ---------------------------
(***************************************************************************)
(* What ProcessResponse has gathered at any instruction is what the prefix  *)
(* read so far says: the last swap, the last compute limit and price, the   *)
(* last tip.  For transactions of any length.                               *)
(***************************************************************************)
EXTENDS TxDecode, WellFoundedInduction, TLAPS

-----------------------------------------------------------------------------
(* Numbers and positions                                                   *)

\* k is the last position of K.
IsLast(k, K) == k \in K /\ \A j \in K : j <= k

\* A last position is the maximum.
LEMMA LastIsMax ==
  ASSUME NEW K \in SUBSET Nat, NEW k, IsLast(k, K)
  PROVE  Max(K) = k
<1>1. k \in K /\ \A j \in K : k >= j
  BY DEF IsLast
<1>2. \A x \in K : (\A y \in K : x >= y) => x = k
  BY <1>1
<1> QED
  BY <1>1, <1>2 DEF Max

\* A set of positions that is not empty has a first one.
LEMMA FirstIsMin ==
  ASSUME NEW K \in SUBSET Nat, K # {}
  PROVE  Min(K) \in K /\ \A j \in K : Min(K) <= j
<1> DEFINE R == {ss \in Nat \X Nat : ss[1] < ss[2]}
<1>1. OpToRel(<, Nat) = R
  BY DEF OpToRel
<1>2. IsWellFoundedOn(R, Nat)
  BY <1>1, NatLessThanWellFounded, Zenon
<1> HIDE DEF R
<1>3. PICK x \in K : \A y \in K : ~ (<<y, x>> \in R)
  BY <1>2, WFMin, Zenon
<1>4. ASSUME NEW y \in K PROVE x <= y
  <2>1. <<y, x>> \in Nat \X Nat /\ <<y, x>>[1] = y /\ <<y, x>>[2] = x
    OBVIOUS
  <2>2. ~(y < x)
    BY <1>3, <2>1, Zenon DEF R
  <2> QED
    BY <2>2
<1> QED
  BY <1>4 DEF Min

\* What a uint32 keeps of a number, and when it keeps it all.
LEMMA ModWord ==
  ASSUME NEW v \in Nat
  PROVE  v % Word \in 0..Word - 1 /\ (v < Word => v % Word = v)
BY DecodeAssumption

\* The elements of a sequence are found at its positions.
LEMMA Positions ==
  ASSUME NEW s, IsSeq(s)
  PROVE  Len(s) \in Nat /\ DOMAIN s = 1..Len(s) /\ \A k \in 1..Len(s) : s[k] \in Range(s)
BY DEF IsSeq, Range

-----------------------------------------------------------------------------
(* The prefix read so far                                                  *)

\* Its instructions of program p.
Before(p) == {k \in 1..at - 1 : tx.ins[k].prog = p}
BeforeTag(tag) == {k \in Before("compute") : tx.ins[k].tag = tag}
BeforeTip == {k \in Tips("bloxroute") : k < at}

\* v is the value of the last compute instruction with the tag, in one word.
ReadInto(v, tag) ==
  \/ BeforeTag(tag) = {} /\ v = 0
  \/ \E k : IsLast(k, BeforeTag(tag)) /\ v = tx.ins[k].value % Word

PosInv ==
  /\ tx \in Txs
  /\ pc \in {"loop", "done", "panic"}
  /\ at \in 1..Len(tx.ins) + 1
  /\ pc = "done" => at = Len(tx.ins) + 1
  /\ trade = IF pc = "done" /\ swap # 0 THEN TradeOf(tx.ins[swap].pool) ELSE NoTrade

SwapInv ==
  /\ \A k \in Before("system") : Len(tx.ins[k].accounts) >= 2
  /\ \/ Before("swap") = {} /\ swap = 0
     \/ IsLast(swap, Before("swap"))

\* The numbers of two words, with a sign.
IsInt64(n) == n \in Int /\ -(Word * Word) <= 2 * n /\ 2 * n < Word * Word

ComputeInv == ReadInto(limit, 2) /\ ReadInto(price, 3)

TipInv ==
  /\ tip.name \in {"", "jito", "bloxroute"} /\ IsInt64(tip.amount)
  /\ PlainTransfers =>
       \/ BeforeTip = {} /\ tip = NoTip
       \/ \E k : IsLast(k, BeforeTip)
                 /\ tip = [name |-> "bloxroute", amount |-> tx.ins[k].value]

LoopInv == PosInv /\ SwapInv /\ ComputeInv /\ TipInv

\* An instruction of a transaction that is delivered.
LEMMA InsFacts ==
  ASSUME tx \in Txs, NEW k \in 1..Len(tx.ins)
  PROVE  WellFormed(tx.ins[k], tx)
BY Positions, DecodeAssumption

\* The lengths of what is delivered.
LEMMA LenFacts ==
  ASSUME tx \in Txs
  PROVE  Len(tx.ins) \in Nat /\ DOMAIN tx.ins = 1..Len(tx.ins)
BY Positions, DecodeAssumption

\* One instruction further, the prefix has that instruction more.
LEMMA PrefixGrows ==
  ASSUME PosInv, NEW q, Is(q), at' = at + 1, tx' = tx
  PROVE  /\ at \in 1..Len(tx.ins) /\ tx.ins[at].prog = q
         /\ \A p : Before(p)' = IF p = q THEN Before(p) \cup {at} ELSE Before(p)
<1>1. at \in 1..Len(tx.ins) /\ tx.ins[at].prog = q /\ at \in Nat
  BY LenFacts DEF PosInv, Is
<1>2. 1..at' - 1 = 1..at - 1 \cup {at}
  BY <1>1
<1>3. \A p : Before(p)' = {k \in 1..at - 1 \cup {at} : tx.ins[k].prog = p}
  BY <1>2 DEF Before
<1> QED
  BY <1>1, <1>3 DEF Before

\* The instruction the loop has just read is the last of its prefix.
LEMMA NewestIsLast ==
  ASSUME PosInv, NEW K, K \subseteq 1..at - 1
  PROVE  IsLast(at, K \cup {at})
BY LenFacts DEF PosInv, IsLast

-----------------------------------------------------------------------------
(* One instruction                                                         *)

\* The loop moves on within the transaction.
LEMMA ReadKeepsPos ==
  ASSUME PosInv, NEW q, Is(q), Skip, UNCHANGED <<tx, trade, pc>>
  PROVE  PosInv'
BY LenFacts DEF PosInv, Is, Skip

\* Instructions of other programs change no set of positions.
LEMMA OthersKeepCompute ==
  ASSUME PosInv, ComputeInv, NEW q, Is(q), q # "compute", Skip, UNCHANGED <<tx, limit, price>>
  PROVE  ComputeInv'
<1>1. \A tag : BeforeTag(tag)' = BeforeTag(tag)
  BY PrefixGrows DEF Skip, BeforeTag
<1> QED
  BY <1>1 DEF ComputeInv, ReadInto, IsLast

\* A tip is seen in a system instruction only.
LEMMA OthersKeepTip ==
  ASSUME PosInv, TipInv, NEW q, Is(q), q # "system", Skip, UNCHANGED <<tx, tip>>
  PROVE  TipInv'
<1>1. at \notin Tips("bloxroute") /\ Tips("bloxroute")' = Tips("bloxroute") /\ PlainTransfers' = PlainTransfers
  BY PrefixGrows DEF Skip, Tips, Of, Key, PlainTransfers
<1>2. BeforeTip' = BeforeTip
  BY <1>1, LenFacts DEF BeforeTip, Skip, PosInv, Tips, Of
<1> QED
  BY <1>1, <1>2 DEF TipInv, IsLast

\* So with the swaps.
LEMMA OthersKeepSwap ==
  ASSUME PosInv, SwapInv, NEW q, Is(q), q # "swap", Skip, UNCHANGED <<tx, swap>>,
         q = "system" => Len(tx.ins[at].accounts) >= 2
  PROVE  SwapInv'
<1>1. Before("swap")' = Before("swap")
  BY PrefixGrows DEF Skip
<1>2. \A k \in Before("system")' : (k = at /\ q = "system") \/ k \in Before("system")
  BY PrefixGrows DEF Skip
<1> QED
  BY <1>1, <1>2 DEF SwapInv, IsLast

\* A compute instruction sets the local of its tag.
LEMMA BudgetKeeps == ASSUME LoopInv, Budget PROVE LoopInv'
<1> DEFINE i == tx.ins[at]
<1>1. Is("compute") /\ Skip /\ UNCHANGED <<tx, tip, swap, trade, pc>>
  BY DEF Budget
<1>2. /\ limit' = IF i.tag = 2 THEN i.value % Word ELSE limit
      /\ price' = IF i.tag = 3 THEN i.value % Word ELSE price
  BY DEF Budget, DecodeCompute
<1>3. at \in 1..Len(tx.ins) /\ i.prog = "compute" /\ at \in Nat
  BY <1>1, PrefixGrows, LenFacts DEF LoopInv, Skip
<1>4. \A tag : BeforeTag(tag)' = IF tag = i.tag THEN BeforeTag(tag) \cup {at} ELSE BeforeTag(tag)
  <2>1. Before("compute")' = Before("compute") \cup {at}
    BY <1>1, PrefixGrows DEF LoopInv, Skip
  <2> QED
    BY <1>1, <2>1 DEF BeforeTag
<1>5. \A tag : BeforeTag(tag) \subseteq 1..at - 1
  BY DEF BeforeTag, Before
<1>6. \A tag : tag = i.tag => IsLast(at, BeforeTag(tag)')
  BY <1>4, <1>5, NewestIsLast DEF LoopInv
<1>7. ASSUME NEW v, NEW w, NEW tag, ReadInto(v, tag),
             w = IF i.tag = tag THEN i.value % Word ELSE v
      PROVE  \/ BeforeTag(tag)' = {} /\ w = 0
             \/ \E k : IsLast(k, BeforeTag(tag)') /\ w = tx.ins[k].value % Word
  <2>1. CASE i.tag = tag
    BY <1>6, <1>7, <2>1
  <2>2. CASE i.tag # tag
    BY <1>4, <1>7, <2>2 DEF ReadInto
  <2> QED
    BY <2>1, <2>2
<1>8. ComputeInv'
  <2>1. ReadInto(limit, 2) /\ ReadInto(price, 3)
    BY DEF LoopInv, ComputeInv
  <2>2. \/ BeforeTag(2)' = {} /\ limit' = 0
        \/ \E k : IsLast(k, BeforeTag(2)') /\ limit' = tx.ins[k].value % Word
    BY <1>2, <1>7, <2>1
  <2>3. \/ BeforeTag(3)' = {} /\ price' = 0
        \/ \E k : IsLast(k, BeforeTag(3)') /\ price' = tx.ins[k].value % Word
    BY <1>2, <1>7, <2>1
  <2>4. ReadInto(limit, 2)' /\ ReadInto(price, 3)'
    BY <1>1, <2>2, <2>3 DEF ReadInto, IsLast
  <2> QED
    BY <2>4 DEF ComputeInv
<1> QED
  BY <1>1, <1>8, ReadKeepsPos, OthersKeepTip, OthersKeepSwap DEF LoopInv

\* A swap is remembered by its position, the last one.
LEMMA SwapKeeps == ASSUME LoopInv, Swap PROVE LoopInv'
<1>1. /\ Is("swap") /\ Skip /\ swap' = at
      /\ UNCHANGED <<tx, limit, price, tip, trade, pc>>
  BY DEF Swap
<1>2. PosInv'
  BY <1>1, LenFacts DEF LoopInv, PosInv, Is, Skip
<1>3. Before("swap")' = Before("swap") \cup {at} /\ Before("system")' = Before("system")
  BY <1>1, PrefixGrows DEF LoopInv, Skip
<1>4. IsLast(at, Before("swap")')
  BY <1>3, NewestIsLast DEF LoopInv, Before
<1>5. SwapInv'
  BY <1>1, <1>3, <1>4 DEF LoopInv, SwapInv, IsLast
<1> QED
  BY <1>1, <1>2, <1>5, OthersKeepCompute, OthersKeepTip DEF LoopInv

\* For a plain transfer the clamped index is the account itself.
LEMMA DestinationIsKey ==
  ASSUME tx \in Txs, PlainTransfers, NEW k \in Of("system"), Len(tx.ins[k].accounts) >= 2
  PROVE  Key(tx.ins[k].accounts[2]) = Destination(tx.ins[k])
<1> DEFINE a == tx.ins[k].accounts
<1>1. k \in 1..Len(tx.ins) /\ tx.ins[k].prog = "system"
  BY LenFacts DEF Of
<1>2. IsSeq(a) /\ Range(a) \subseteq 1..Len(tx.static) + Len(tx.loaded)
  BY <1>1, InsFacts DEF WellFormed
<1>3. a[2] \in Range(a)
  <2>1. Len(a) \in Nat /\ \A j \in 1..Len(a) : a[j] \in Range(a)
    BY <1>2, Positions
  <2> QED
    BY <2>1
<1>4. a[2] <= Len(tx.static)
  BY <1>3 DEF PlainTransfers
<1>5. tx.static \in Seq(Range(tx.static)) /\ tx.loaded \in Seq(Range(tx.loaded))
  BY DecodeAssumption DEF IsSeq
<1>6. Len(tx.static) \in Nat /\ Len(tx.loaded) \in Nat
  BY <1>5
<1>7. a[2] \in 1..Len(tx.static)
  <2>1. a[2] \in 1..Len(tx.static) + Len(tx.loaded)
    BY <1>2, <1>3, Zenon
  <2> QED
    BY <1>4, <1>6, <2>1
<1> HIDE DEF a
<1>8. (tx.static \o tx.loaded)[a[2]] = tx.static[a[2]]
  <2> DEFINE S == Range(tx.static) \cup Range(tx.loaded)
  <2>1. tx.static \in Seq(S) /\ tx.loaded \in Seq(S)
    BY <1>5
  <2> HIDE DEF S
  <2>2. ASSUME NEW u \in Seq(S), NEW v \in Seq(S), NEW j \in 1..Len(u) PROVE (u \o v)[j] = u[j]
    OBVIOUS
  <2> QED
    BY <1>7, <2>1, <2>2, Zenon
<1>9. ~(a[2] > Len(tx.static))
  BY <1>6, <1>7
<1> QED
  BY <1>8, <1>9 DEF Key, Destination, a

\* What is read of eight bytes has a sign and fits them.
LEMMA ReadIsInt64 ==
  ASSUME NEW i, i.value \in 0..Word * Word - 1
  PROVE  IsInt64(DecodeTransfer(i))
<1>1. PICK W \in Int : W = Word * Word
  BY DecodeAssumption
<1> QED
  BY <1>1 DEF IsInt64, DecodeTransfer

\* A transfer to the tip account of bloXroute becomes the tip.
LEMMA TransferKeeps == ASSUME LoopInv, Transfer PROVE LoopInv'
<1> DEFINE i == tx.ins[at]
           paid == Destination(i) \in TipAccounts["bloxroute"]
<1>1. /\ Is("system") /\ Skip /\ Len(i.accounts) >= 2
      /\ UNCHANGED <<tx, limit, price, swap, trade, pc>>
  BY DEF Transfer
<1>2. tip' = IF paid THEN [name |-> "bloxroute", amount |-> DecodeTransfer(i)] ELSE tip
  BY DEF Transfer, TipOf, JitoTipAccounts
<1>3. at \in 1..Len(tx.ins) /\ i.prog = "system" /\ at \in Nat /\ tx \in Txs
  BY <1>1, PrefixGrows, LenFacts DEF LoopInv, PosInv, Skip
<1>4. i.value \in 0..Word * Word - 1
  BY <1>3, InsFacts DEF WellFormed
<1>5. tip'.name \in {"", "jito", "bloxroute"} /\ IsInt64(tip'.amount)
  BY <1>2, <1>4, ReadIsInt64 DEF LoopInv, TipInv
<1>6. /\ Tips("bloxroute")' = Tips("bloxroute") /\ PlainTransfers' = PlainTransfers
      /\ Tips("bloxroute") \subseteq 1..Len(tx.ins)
  BY <1>1, <1>3, LenFacts DEF Tips, Of, Key, PlainTransfers
<1>7. BeforeTip' = {k \in Tips("bloxroute") : k < at \/ k = at}
  BY <1>1, <1>3, <1>6, LenFacts DEF BeforeTip, Skip
<1>8. ASSUME PlainTransfers
      PROVE  \/ BeforeTip' = {} /\ tip' = NoTip
             \/ \E k : IsLast(k, BeforeTip')
                       /\ tip' = [name |-> "bloxroute", amount |-> tx.ins[k].value]
  <2>1. at \in Of("system")
    BY <1>3, LenFacts DEF Of
  <2>2. i.tag = 2 /\ DecodeTransfer(i) = i.value
    BY <1>8, <2>1 DEF PlainTransfers, DecodeTransfer
  <2>3. at \in Tips("bloxroute") <=> paid
    BY <1>1, <1>3, <1>8, <2>1, <2>2, DestinationIsKey DEF Tips
  <2>4. CASE paid
    <3>1. IsLast(at, BeforeTip')
      BY <1>3, <1>6, <1>7, <2>3, <2>4, LenFacts DEF IsLast
    <3> QED
      BY <1>2, <2>2, <2>4, <3>1
  <2>5. CASE ~paid
    <3>1. BeforeTip' = BeforeTip
      BY <1>7, <2>3, <2>5 DEF BeforeTip
    <3>2. tip' = tip
      BY <1>2, <2>5
    <3> QED
      BY <1>8, <3>1, <3>2 DEF LoopInv, TipInv
  <2> QED
    BY <2>4, <2>5
<1>9. TipInv'
  BY <1>1, <1>5, <1>6, <1>8 DEF TipInv, IsLast
<1> QED
  BY <1>1, <1>9, ReadKeepsPos, OthersKeepCompute, OthersKeepSwap DEF LoopInv

\* The invariant of the loop.
LEMMA LoopInvariant == Spec => []LoopInv
<1>1. Init => LoopInv
  <2> SUFFICES ASSUME Init PROVE LoopInv
    OBVIOUS
  <2>1. /\ tx \in Txs /\ pc = "loop" /\ at = 1 /\ swap = 0 /\ limit = 0 /\ price = 0
        /\ tip = NoTip /\ trade = NoTrade
    BY DEF Init
  <2>2. PosInv
    BY <2>1, LenFacts DEF PosInv
  <2>3. \A p : Before(p) = {}
    BY <2>1 DEF Before
  <2>4. BeforeTip = {}
    BY <2>1, LenFacts DEF BeforeTip, Tips, Of
  <2>5. IsInt64(0)
    BY DecodeAssumption DEF IsInt64
  <2> QED
    BY <2>1, <2>2, <2>3, <2>4, <2>5 DEF LoopInv, SwapInv, ComputeInv, ReadInto, BeforeTag, TipInv, NoTip
<1>2. ASSUME LoopInv, [Next]_vars PROVE LoopInv'
  <2>1. CASE Other
    <3>1. /\ Is("other") /\ Skip
          /\ UNCHANGED <<tx, limit, price, tip, swap, trade, pc>>
      BY <2>1 DEF Other
    <3> QED
      BY <1>2, <3>1, ReadKeepsPos, OthersKeepCompute, OthersKeepTip, OthersKeepSwap DEF LoopInv
  <2>2. ASSUME UNCHANGED <<tx, at, limit, price, tip, swap>>
        PROVE  SwapInv' /\ ComputeInv' /\ TipInv'
    BY <1>2, <2>2 DEF LoopInv, SwapInv, ComputeInv, TipInv, ReadInto, BeforeTag, Before,
                      BeforeTip, Tips, Of, Key, PlainTransfers, IsLast
  <2>3. CASE ShortTransfer
    <3>1. PosInv'
      BY <1>2, <2>3 DEF ShortTransfer, LoopInv, PosInv, Is
    <3> QED
      BY <2>2, <2>3, <3>1 DEF ShortTransfer, LoopInv
  <2>4. CASE Finish
    <3>1. at = Len(tx.ins) + 1
      BY <1>2, <2>4, LenFacts DEF Finish, LoopInv, PosInv
    <3>2. trade' = IF swap # 0 THEN TradeOf(tx.ins[swap].pool)' ELSE NoTrade
      BY <2>4 DEF Finish, TradeOf
    <3>3. PosInv'
      BY <1>2, <2>4, <3>1, <3>2 DEF Finish, LoopInv, PosInv, TradeOf
    <3> QED
      BY <2>2, <2>4, <3>3 DEF Finish, LoopInv
  <2>5. CASE UNCHANGED vars
    <3>1. PosInv'
      BY <1>2, <2>5 DEF vars, LoopInv, PosInv, TradeOf
    <3> QED
      BY <2>2, <2>5, <3>1 DEF vars, LoopInv
  <2> QED
    BY <1>2, <2>1, <2>3, <2>4, <2>5, BudgetKeeps, SwapKeeps, TransferKeeps DEF Next
<1> QED
  BY <1>1, <1>2, PTL DEF Spec

-----------------------------------------------------------------------------
(* The trade                                                               *)

\* A call that has returned has read the whole transaction.
LEMMA WholeIsRead ==
  ASSUME LoopInv, pc = "done"
  PROVE  /\ \A p : Before(p) = Of(p)
         /\ BeforeTip = Tips("bloxroute")
<1>1. at = Len(tx.ins) + 1 /\ Len(tx.ins) \in Nat /\ DOMAIN tx.ins = 1..Len(tx.ins)
  BY LenFacts DEF LoopInv, PosInv
<1>2. 1..at - 1 = DOMAIN tx.ins
  BY <1>1
<1>3. \A k \in DOMAIN tx.ins : k < at
  BY <1>1
<1>4. Tips("bloxroute") \subseteq DOMAIN tx.ins
  BY DEF Tips, Of
<1> QED
  BY <1>2, <1>3, <1>4 DEF Before, Of, BeforeTip

\* A trade is made when the call returns, of the swap remembered, whose pool is
\* not that of no trade.
LEMMA TradeFacts ==
  ASSUME LoopInv
  PROVE  /\ trade # NoTrade => pc = "done" /\ swap # 0
         /\ pc = "done" /\ swap # 0 =>
              /\ trade = TradeOf(tx.ins[swap].pool)
              /\ trade.pool = tx.ins[swap].pool /\ trade # NoTrade
              /\ trade.pool \in DOMAIN PoolMint
<1>1. trade # NoTrade => pc = "done" /\ swap # 0
  BY DEF LoopInv, PosInv
<1>2. ASSUME pc = "done", swap # 0
      PROVE  /\ trade = TradeOf(tx.ins[swap].pool)
             /\ trade.pool = tx.ins[swap].pool /\ trade # NoTrade
             /\ trade.pool \in DOMAIN PoolMint
  <2>1. trade = TradeOf(tx.ins[swap].pool)
    BY <1>2 DEF LoopInv, PosInv
  <2>2. trade.pool = tx.ins[swap].pool
    BY <2>1 DEF TradeOf
  <2>3. swap \in 1..Len(tx.ins) /\ tx.ins[swap].prog = "swap" /\ tx \in Txs
    BY <1>2, LenFacts DEF LoopInv, SwapInv, PosInv, IsLast, Before
  <2>4. tx.ins[swap].pool \in DOMAIN PoolMint
    BY <2>3, InsFacts DEF WellFormed
  <2>5. trade.pool # NoPool
    BY <2>2, <2>4, DecodeAssumption
  <2>6. NoTrade.pool = NoPool
    BY DEF NoTrade
  <2> QED
    BY <2>1, <2>2, <2>4, <2>5, <2>6
<1> QED
  BY <1>1, <1>2

\* The values read fit the words they are read into.
LEMMA ReadFits ==
  ASSUME LoopInv, NEW v, NEW tag, ReadInto(v, tag)
  PROVE  v \in 0..Word - 1
<1>1. CASE v = 0
  BY <1>1, DecodeAssumption
<1>2. ASSUME NEW k, IsLast(k, BeforeTag(tag)), v = tx.ins[k].value % Word
      PROVE  v \in 0..Word - 1
  <2>1. k \in 1..Len(tx.ins) /\ tx.ins[k].prog = "compute" /\ tx \in Txs
    BY <1>2, LenFacts DEF LoopInv, PosInv, IsLast, BeforeTag, Before
  <2>2. tx.ins[k].value \in Nat
    <3>1. tx.ins[k].value \in 0..Word * Word - 1
      BY <2>1, InsFacts DEF WellFormed
    <3>2. Word * Word \in Int
      BY DecodeAssumption
    <3> QED
      BY <3>1, <3>2
  <2> QED
    BY <1>2, <2>2, ModWord
<1> QED
  BY <1>1, <1>2 DEF ReadInto

\* The locals of the call keep their types; no trade is made before its end.
THEOREM DecodeTypes == Spec => []TypeOK
<1>1. ASSUME LoopInv PROVE TypeOK
  <2>1. at \in 1..Len(tx.ins) + 1 /\ pc \in {"loop", "done", "panic"}
    BY <1>1 DEF LoopInv, PosInv
  <2>2. limit \in 0..Word - 1 /\ price \in 0..Word - 1
    BY <1>1, ReadFits DEF LoopInv, ComputeInv
  <2>3. tip.name \in {"", "jito", "bloxroute"} /\ IsInt64(tip.amount)
    BY <1>1 DEF LoopInv, TipInv
  <2>4. swap \in 0..at - 1
    BY <1>1, LenFacts DEF LoopInv, PosInv, SwapInv, IsLast, Before
  <2> QED
    BY <1>1, <2>1, <2>2, <2>3, <2>4, TradeFacts DEF TypeOK, IsInt64
<1> QED
  BY <1>1, LoopInvariant, PTL

\* A transaction yields one trade or none, that of its last swap.
THEOREM TradeIsOfLastSwap == Spec => []TradeOfLastSwap
<1>1. ASSUME LoopInv, pc = "done" PROVE TradeOfLastSwap
  <2>1. \A k \in Of("system") : Len(tx.ins[k].accounts) >= 2
    BY <1>1, WholeIsRead DEF LoopInv, SwapInv
  <2>2. CASE Of("swap") = {}
    <3>1. swap = 0
      BY <1>1, <2>2, WholeIsRead DEF LoopInv, SwapInv, IsLast
    <3>2. trade = NoTrade
      BY <1>1, <3>1, TradeFacts
    <3> QED
      BY <2>1, <2>2, <3>2 DEF TradeOfLastSwap
  <2>3. CASE Of("swap") # {}
    <3>1. IsLast(swap, Of("swap"))
      BY <1>1, <2>3, WholeIsRead DEF LoopInv, SwapInv
    <3>2. Of("swap") \in SUBSET Nat /\ swap # 0
      BY <1>1, <3>1, LenFacts DEF Of, LoopInv, PosInv, IsLast
    <3>3. swap = Max(Of("swap"))
      BY <3>1, <3>2, LastIsMax
    <3> QED
      BY <1>1, <2>1, <2>3, <3>2, <3>3, TradeFacts DEF TradeOfLastSwap
  <2> QED
    BY <2>2, <2>3
<1>2. LoopInv => TradeOfLastSwap
  BY <1>1 DEF TradeOfLastSwap
<1> QED
  BY <1>2, LoopInvariant, PTL

\* A trade carries the compute limit of its transaction, and its price as far as
\* four bytes hold it.
THEOREM ComputeIsAsCharged == Spec => []ComputeAsCharged
<1>1. ASSUME LoopInv, pc = "done", NEW v, NEW tag, ReadInto(v, tag)
      PROVE  v = Charged(tag) % Word /\ (tag = 2 => Charged(tag) \in 0..Word - 1)
  <2> DEFINE K == {k \in Of("compute") : tx.ins[k].tag = tag}
  <2>1. BeforeTag(tag) = K
    BY <1>1, WholeIsRead DEF BeforeTag
  <2>2. K \in SUBSET Nat /\ K \subseteq 1..Len(tx.ins) /\ tx \in Txs
    BY <1>1, LenFacts DEF Of, LoopInv, PosInv
  <2>3. Charged(tag) = IF K = {} THEN 0 ELSE tx.ins[Max(K)].value
    BY DEF Charged
  <2>4. CASE K = {}
    <3>1. Charged(tag) = 0 /\ v = 0
      BY <1>1, <2>1, <2>3, <2>4 DEF ReadInto, IsLast
    <3> QED
      BY <3>1, DecodeAssumption
  <2>5. CASE K # {}
    <3>1. PICK k : IsLast(k, K) /\ v = tx.ins[k].value % Word
      BY <1>1, <2>1, <2>5 DEF ReadInto
    <3>2. k = Max(K)
      BY <2>2, <3>1, LastIsMax
    <3>3. k \in 1..Len(tx.ins) /\ tx.ins[k].prog = "compute" /\ tx.ins[k].tag = tag
      BY <2>2, <3>1 DEF IsLast, Of
    <3>4. tx.ins[k].value \in 0..Word * Word - 1 /\ (tag = 2 => tx.ins[k].value < Word)
      BY <2>2, <3>3, InsFacts DEF WellFormed
    <3> QED
      BY <2>3, <2>5, <3>1, <3>2, <3>4, DecodeAssumption
  <2> QED
    BY <2>4, <2>5
<1>2. ASSUME LoopInv, trade # NoTrade
      PROVE  trade.limit = Charged(2) /\ trade.price = Charged(3) % Word
  <2>1. pc = "done" /\ trade = TradeOf(tx.ins[swap].pool)
    BY <1>2, TradeFacts
  <2>2. trade.limit = limit /\ trade.price = price
    BY <2>1 DEF TradeOf
  <2>3. limit = Charged(2) % Word /\ Charged(2) \in 0..Word - 1 /\ price = Charged(3) % Word
    BY <1>1, <1>2, <2>1 DEF LoopInv, ComputeInv
  <2>4. Charged(2) % Word = Charged(2)
    BY <2>3, ModWord, DecodeAssumption
  <2> QED
    BY <2>2, <2>3, <2>4
<1>3. LoopInv => ComputeAsCharged
  BY <1>2 DEF ComputeAsCharged
<1> QED
  BY <1>3, LoopInvariant, PTL

\* Of plain transfers the last one to bloXroute is the tip of the trade.
THEOREM TipIsOfLastTransfer == Spec => []TipIsLastTransfer
<1>1. ASSUME LoopInv, trade # NoTrade, PlainTransfers
      PROVE  trade.tip = IF Tips("bloxroute") = {} THEN NoTip
                         ELSE [name |-> "bloxroute",
                               amount |-> tx.ins[Max(Tips("bloxroute"))].value]
  <2>1. pc = "done" /\ trade = TradeOf(tx.ins[swap].pool)
    BY <1>1, TradeFacts
  <2>2. trade.tip = tip /\ BeforeTip = Tips("bloxroute")
    BY <1>1, <2>1, WholeIsRead DEF TradeOf
  <2>3. Tips("bloxroute") \in SUBSET Nat
    BY <1>1, LenFacts DEF Tips, Of, LoopInv, PosInv
  <2>4. \/ Tips("bloxroute") = {} /\ tip = NoTip
        \/ \E k : IsLast(k, Tips("bloxroute"))
                  /\ tip = [name |-> "bloxroute", amount |-> tx.ins[k].value]
    BY <1>1, <2>2 DEF LoopInv, TipInv
  <2> QED
    BY <2>2, <2>3, <2>4, LastIsMax DEF IsLast
<1>2. LoopInv => TipIsLastTransfer
  BY <1>1 DEF TipIsLastTransfer
<1> QED
  BY <1>2, LoopInvariant, PTL

-----------------------------------------------------------------------------
(* The amount                                                              *)

\* VaultIn is the first position of such an entry, if there is one.
LEMMA VaultInFinds ==
  ASSUME NEW s, IsSeq(s), NEW mint
  PROVE  LET I == {k \in 1..Len(s) : s[k].mint = mint /\ s[k].owner = Authority}
         IN  /\ I = {} => VaultIn(s, mint) = 0
             /\ I # {} => VaultIn(s, mint) \in I
<1> DEFINE I == {k \in 1..Len(s) : s[k].mint = mint /\ s[k].owner = Authority}
<1>1. VaultIn(s, mint) = IF I # {} THEN Min(I) ELSE 0
  BY DEF VaultIn, SelectInSeq
<1>2. I \in SUBSET Nat
  BY Positions
<1> HIDE DEF I
<1>3. I # {} => Min(I) \in I
  BY <1>2, FirstIsMin
<1>4. (I = {} => VaultIn(s, mint) = 0) /\ (I # {} => VaultIn(s, mint) \in I)
  BY <1>1, <1>3
<1> QED
  BY <1>4 DEF I

\* The one vault of the authority among the balances: VaultIn finds its entry, and
\* that entry is what the account holds.
LEMMA VaultIsFound ==
  ASSUME NEW s, IsSeq(s), NEW mint, NEW v,
         \A j, k \in DOMAIN s : s[j].account = s[k].account => j = k,
         \A b \in Range(s) : b.mint = mint /\ b.owner = Authority => b.account = v,
         NEW e \in Range(s), e.account = v, e.mint = mint, e.owner = Authority
  PROVE  LET i == VaultIn(s, mint) IN i \in 1..Len(s) /\ s[i].amount = Held(s, v)
<1> DEFINE I == {k \in 1..Len(s) : s[k].mint = mint /\ s[k].owner = Authority}
           i == VaultIn(s, mint)
           B == {b \in Range(s) : b.account = v}
<1>1. Len(s) \in Nat /\ DOMAIN s = 1..Len(s) /\ \A k \in 1..Len(s) : s[k] \in Range(s)
  BY Positions
<1>2. PICK n \in 1..Len(s) : s[n] = e
  BY <1>1 DEF Range
<1>3. n \in I
  BY <1>2
<1>4. i \in I
  BY <1>3, VaultInFinds
<1>5. i \in 1..Len(s) /\ s[i].account = v /\ s[i] \in Range(s)
  BY <1>1, <1>4
<1>6. \A b \in B : b = s[i]
  <2> SUFFICES ASSUME NEW b \in B PROVE b = s[i]
    OBVIOUS
  <2>1. PICK k \in 1..Len(s) : s[k] = b
    BY <1>1 DEF Range
  <2> QED
    BY <1>1, <1>5, <2>1
<1>7. s[i] \in B
  BY <1>5
<1> HIDE DEF B, I, i
<1>8. B # {} /\ (CHOOSE b \in B : TRUE) = s[i]
  BY <1>6, <1>7
<1>9. Held(s, v) = s[i].amount
  BY <1>8 DEF Held, B
<1> QED
  BY <1>5, <1>9 DEF i

\* With one pool of the mint in the transaction, the amount of the trade is what
\* the pool's vault lost.
THEOREM AmountIsOfVault == Spec => []AmountIsVaultChange
<1>1. ASSUME LoopInv, trade # NoTrade, NEW mint, mint = PoolMint[trade.pool],
             NEW v, Vaults(mint) = {v},
             \E b \in Range(tx.pre) : b.account = v,
             \E b \in Range(tx.post) : b.account = v
      PROVE  LET lost == Held(tx.pre, v) - Held(tx.post, v) IN
               /\ trade.amount = lost
               /\ trade.action = "BUY" <=> Held(tx.post, v) < Held(tx.pre, v)
  <2>1. Consistent(tx)
    BY <1>1, DecodeAssumption DEF LoopInv, PosInv
  <2>2. PICK c \in Range(tx.pre) \cup Range(tx.post) :
          c.mint = mint /\ c.owner = Authority /\ c.account = v
    BY <1>1 DEF Vaults
  <2>3. \A b \in Range(tx.pre) \cup Range(tx.post) :
          /\ b.mint = mint /\ b.owner = Authority => b.account = v
          /\ b.account = v => b.mint = mint /\ b.owner = Authority
    BY <1>1, <2>1, <2>2 DEF Vaults, Consistent
  <2> DEFINE i == VaultIn(tx.pre, mint)
             j == VaultIn(tx.post, mint)
  <2>4. i \in 1..Len(tx.pre) /\ tx.pre[i].amount = Held(tx.pre, v)
    BY <1>1, <2>1, <2>3, VaultIsFound DEF Consistent
  <2>5. j \in 1..Len(tx.post) /\ tx.post[j].amount = Held(tx.post, v)
    BY <1>1, <2>1, <2>3, VaultIsFound DEF Consistent
  <2>6. /\ i # 0 /\ tx.pre[i].amount \in Nat
        /\ j # 0 /\ tx.post[j].amount \in Nat
    BY <2>1, <2>4, <2>5, Positions DEF Consistent
  <2>7. GetBalanceFromTransaction(tx.pre, tx.post, mint) = tx.pre[i].amount - tx.post[j].amount
    BY <2>6 DEF GetBalanceFromTransaction
  <2>8. trade = TradeOf(trade.pool)
    BY <1>1, TradeFacts
  <2> HIDE DEF i, j
  <2>9. /\ trade.amount = tx.pre[i].amount - tx.post[j].amount
        /\ trade.action = IF trade.amount > 0 THEN "BUY" ELSE "SELL"
    BY <1>1, <2>7, <2>8 DEF TradeOf
  <2> QED
    BY <2>4, <2>5, <2>6, <2>9
<1>2. LoopInv => AmountIsVaultChange
  BY <1>1 DEF AmountIsVaultChange
<1> QED
  BY <1>2, LoopInvariant, PTL

=============================================================================
