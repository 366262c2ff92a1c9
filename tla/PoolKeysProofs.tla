--------------------------- MODULE PoolKeysProofs ---------------------------
(***************************************************************************)
(* GetPoolKeys keeps its types and stores the keys of a pool at most once   *)
(* per goroutine, for any number of pools and goroutines.  The step lemmas  *)
(* are used again where GetPoolKeys is called (module TrackerProofs).       *)
(***************************************************************************)
EXTENDS PoolKeys, TLAPS

KeysInv == KeysTypeOK /\ SavesOncePerCaller

\* An entry is never removed, and who stored one finds it there: what makes
\* SavesOncePerCaller inductive.
SavedIsStored == \A p \in Pools : savedBy[p] # {} => keys[p] \in Keys

KeysIInv == KeysInv /\ SavedIsStored

\* A call keeps the invariant from the question on.
LEMMA AskKeepsKeys ==
  ASSUME NEW c \in Workers, NEW p \in Pools, KeysIInv, Ask(c, p)
  PROVE  KeysIInv'
BY PoolKeysAssumption
   DEF KeysIInv, KeysInv, KeysTypeOK, SavesOncePerCaller, SavedIsStored, Filling,
       Ask, Go, Steps, Keys

\* Every step inside GetPoolKeys keeps the invariant.
LEMMA AdvanceKeepsKeys ==
  ASSUME NEW c \in Workers, KeysIInv, Advance(c)
  PROVE  KeysIInv'
<1> USE PoolKeysAssumption
    DEF KeysIInv, KeysInv, KeysTypeOK, SavesOncePerCaller, SavedIsStored, Filling,
        Go, Steps, Keys
<1>1. CASE Lookup(c)
  \* a caller in savedBy[p] finds the entry, so it does not fill again
  BY <1>1 DEF Lookup
<1>2. CASE FetchLiquidity(c)
  BY <1>2 DEF FetchLiquidity
<1>3. CASE FetchMarket(c)
  BY <1>3 DEF FetchMarket
<1>4. CASE Save(c)
  BY <1>4 DEF Save
<1> QED
  BY <1>1, <1>2, <1>3, <1>4 DEF Advance

\* A caller that stops keeps the invariant, with or without its pool.
LEMMA StopKeepsKeys ==
  ASSUME NEW c \in Workers, KeysIInv, Go(c, "idle", NoKeys),
         amm' = amm \/ amm' = [amm EXCEPT ![c] = NoKeys],
         UNCHANGED <<keys, savedBy>>
  PROVE  KeysIInv'
BY PoolKeysAssumption
   DEF KeysIInv, KeysInv, KeysTypeOK, SavesOncePerCaller, SavedIsStored, Filling,
       Go, Steps, Keys

\* So does the death of the process.
LEMMA DropKeepsKeys == KeysIInv /\ DropCalls => KeysIInv'
BY PoolKeysAssumption
   DEF KeysIInv, KeysInv, KeysTypeOK, SavesOncePerCaller, SavedIsStored, Filling,
       DropCalls, Steps, Keys

\* The invariant of the cache holds in every reachable state.
THEOREM KeysInvariant == KeysSpec => []KeysIInv
<1>1. KeysInit => KeysIInv
  BY PoolKeysAssumption
     DEF KeysInit, KeysIInv, KeysInv, KeysTypeOK, SavesOncePerCaller,
         SavedIsStored, Filling, Steps, Keys
<1>2. KeysIInv /\ [KeysNext]_keysVars => KeysIInv'
  <2> SUFFICES ASSUME KeysIInv, [KeysNext]_keysVars PROVE KeysIInv'
    OBVIOUS
  <2>1. ASSUME NEW c \in Workers, Collect(c) PROVE KeysIInv'
    BY <2>1, StopKeepsKeys DEF Collect
  <2>2. CASE UNCHANGED keysVars
    BY <2>2 DEF keysVars, KeysIInv, KeysInv, KeysTypeOK, SavesOncePerCaller,
                SavedIsStored, Filling
  <2> QED
    BY <2>1, <2>2, AskKeepsKeys, AdvanceKeepsKeys, DropKeepsKeys DEF KeysNext
<1> QED
  BY <1>1, <1>2, PTL DEF KeysSpec

\* The cache and the calls keep their types.
THEOREM PoolKeysTypes == KeysSpec => []KeysTypeOK
BY KeysInvariant, PTL DEF KeysIInv, KeysInv

\* Without a lock around the HGet and the HSet a pool is still filled at most
\* once by each goroutine.
THEOREM OneFillPerCaller == KeysSpec => []SavesOncePerCaller
BY KeysInvariant, PTL DEF KeysIInv, KeysInv

\* Keys that came of a failed fetch are final as soon as nobody is filling the
\* pool: every later call takes the entry and fetches nothing.
THEOREM PoisonStays == KeysSpec => PoisonIsPermanent
<1>1. ASSUME KeysIInv, [KeysNext]_keysVars, NEW p \in Pools, Poisoned(p)
      PROVE  Poisoned(p)'
  <2> USE <1>1, PoolKeysAssumption
      DEF KeysIInv, KeysInv, KeysTypeOK, Poisoned, Filling, Go, Steps, Keys
  <2>1. ASSUME NEW c \in Workers, NEW q \in Pools, Ask(c, q) PROVE Poisoned(p)'
    BY <2>1 DEF Ask
  <2>2. ASSUME NEW c \in Workers, Lookup(c) PROVE Poisoned(p)'
    \* a caller asking for p is answered
    BY <2>2 DEF Lookup
  <2>3. ASSUME NEW c \in Workers, FetchLiquidity(c) \/ FetchMarket(c) PROVE Poisoned(p)'
    BY <2>3 DEF FetchLiquidity, FetchMarket
  <2>4. ASSUME NEW c \in Workers, Save(c) PROVE Poisoned(p)'
    \* whoever is about to store works on another pool
    BY <2>4 DEF Save
  <2>5. ASSUME NEW c \in Workers, Collect(c) PROVE Poisoned(p)'
    BY <2>5 DEF Collect
  <2>6. CASE DropCalls \/ UNCHANGED keysVars
    BY <2>6 DEF DropCalls, keysVars
  <2> QED
    BY <2>1, <2>2, <2>3, <2>4, <2>5, <2>6 DEF KeysNext, Advance
<1>2. KeysIInv /\ [KeysNext]_keysVars => [\A p \in Pools : Poisoned(p) => Poisoned(p)']_keysVars
  BY <1>1
<1> QED
  BY <1>2, KeysInvariant, PTL DEF KeysSpec, PoisonIsPermanent

=============================================================================
