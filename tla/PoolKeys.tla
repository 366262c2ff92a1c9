------------------------------ MODULE PoolKeys ------------------------------
(***************************************************************************)
(* liquidity.GetPoolKeys: the keys of an AMM pool, read from redis or, on a *)
(* miss, assembled from two RPC answers and stored.  Callers are goroutines *)
(* with no lock between the HGet and the HSet.  The RPC helpers turn a       *)
(* failed account fetch into a zeroed state with a nil error.                *)
(***************************************************************************)
EXTENDS Naturals, FiniteSets

CONSTANTS
  Pools,         \* ammId accounts
  Workers,       \* the goroutines that call GetPoolKeys
  NoKeys,        \* redis.Nil for the poolkeys field
  SolSide        \* [Pools -> {"base", "quote", "neither"}]: the wrapped SOL mint

ASSUME PoolKeysAssumption ==
  /\ SolSide \in [Pools -> {"base", "quote", "neither"}]
  /\ NoKeys \notin {"complete", "marketless", "empty"}
  /\ NoKeys \notin Pools

VARIABLES
  keys,     \* redis: what HGet <ammId> poolkeys yields
  step,     \* caller: where it is in GetPoolKeys
  amm,      \* caller: the pool it works on
  found,    \* caller: pKey as assembled so far, or as returned
  savedBy   \* history: callers whose HSet for a pool succeeded

keysVars == <<keys, step, amm, found, savedBy>>

\* A stored RaydiumPoolKeys always carries its ID.  The liquidity state gives
\* mints and vaults, the market state the market fields; each may be zeroed.
Keys == {"complete", "marketless", "empty"}

Steps == {"idle", "lookup", "liquidity", "market", "save", "answered", "refused"}

KeysTypeOK ==
  /\ keys \in [Pools -> Keys \cup {NoKeys}]
  /\ step \in [Workers -> Steps]
  /\ amm \in [Workers -> Pools \cup {NoKeys}]
  /\ \A c \in Workers : step[c] # "idle" => amm[c] \in Pools
  /\ found \in [Workers -> Keys \cup {NoKeys}]
  /\ \A c \in Workers :
       step[c] \in {"market", "save", "answered"} => found[c] \in Keys
  /\ savedBy \in [Pools -> SUBSET Workers]

KeysInit ==
  /\ keys = [p \in Pools |-> NoKeys]
  /\ step = [c \in Workers |-> "idle"]
  /\ amm = [c \in Workers |-> NoKeys]
  /\ found = [c \in Workers |-> NoKeys]
  /\ savedBy = [p \in Pools |-> {}]

Go(c, s, k) ==
  /\ step' = [step EXCEPT ![c] = s]
  /\ found' = [found EXCEPT ![c] = k]

\* GetPoolKeys(ammId) is called.
Ask(c, p) ==
  /\ step[c] = "idle"
  /\ Go(c, "lookup", NoKeys)
  /\ amm' = [amm EXCEPT ![c] = p]
  /\ UNCHANGED <<keys, savedBy>>

\* mutant of Lookup: a hit is not used
LookupMissesAlways(c) ==
  /\ step[c] = "lookup"
  /\ Go(c, "liquidity", NoKeys)
  /\ UNCHANGED <<keys, amm, savedBy>>

\* mutant of Lookup: an entry without mints is fetched again
LookupRefetchesEmpty(c) ==
  /\ step[c] = "lookup"
  /\ IF keys[amm[c]] \in {NoKeys, "empty"}
     THEN Go(c, "liquidity", NoKeys)
     ELSE Go(c, "answered", keys[amm[c]])
  /\ UNCHANGED <<keys, amm, savedBy>>

\* storage.GetPoolKeys: a redis error is returned, a stored entry is final
\* (its ID is never zero), "key not found" goes on to the RPC.
Lookup(c) ==
  /\ step[c] = "lookup"
  /\ \/ Go(c, "refused", NoKeys)
     \/ /\ keys[amm[c]] \in Keys
        /\ Go(c, "answered", keys[amm[c]])
     \/ /\ keys[amm[c]] = NoKeys
        /\ Go(c, "liquidity", NoKeys)
  /\ UNCHANGED <<keys, amm, savedBy>>

\* rpc.GetLiquidityState: only undecodable base64 is an error; a transport or
\* RPC error, a missing account and a short one all give the zero state.
FetchLiquidity(c) ==
  /\ step[c] = "liquidity"
  /\ \/ Go(c, "market", "marketless")
     \/ Go(c, "market", "empty")
     \/ Go(c, "refused", NoKeys)
  /\ UNCHANGED <<keys, amm, savedBy>>

\* rpc.GetMarketState of state.MarketId, the zero key after a zero state: no
\* market is ever decoded from that.
FetchMarket(c) ==
  /\ step[c] = "market"
  /\ \/ /\ found[c] = "marketless"
        /\ Go(c, "save", "complete")
     \/ Go(c, "save", found[c])
     \/ Go(c, "refused", NoKeys)
  /\ UNCHANGED <<keys, amm, savedBy>>

\* mutant of Save: store and return nothing
SaveReturnsNothing(c) ==
  /\ step[c] = "save"
  /\ Go(c, "answered", NoKeys)
  /\ keys' = [keys EXCEPT ![amm[c]] = found[c]]
  /\ savedBy' = [savedBy EXCEPT ![amm[c]] = @ \cup {c}]
  /\ UNCHANGED amm

\* mutant of Save: start over until the entry can be read back
SaveThenRetry(c) ==
  /\ step[c] = "save"
  /\ Go(c, "lookup", NoKeys)
  /\ UNCHANGED <<keys, amm, savedBy>>

\* storage.SetPoolKeys, its error dropped; the caller gets pKey either way.
Save(c) ==
  /\ step[c] = "save"
  /\ Go(c, "answered", found[c])
  /\ \/ /\ keys' = [keys EXCEPT ![amm[c]] = found[c]]
        /\ savedBy' = [savedBy EXCEPT ![amm[c]] = @ \cup {c}]
     \/ UNCHANGED <<keys, savedBy>>
  /\ UNCHANGED amm

\* The caller takes the answer.
Collect(c) ==
  /\ step[c] \in {"answered", "refused"}
  /\ Go(c, "idle", NoKeys)
  /\ amm' = [amm EXCEPT ![c] = NoKeys]
  /\ UNCHANGED <<keys, savedBy>>

\* The process dies: every call in flight is gone, redis stays.
DropCalls ==
  /\ step' = [c \in Workers |-> "idle"]
  /\ amm' = [c \in Workers |-> NoKeys]
  /\ found' = [c \in Workers |-> NoKeys]
  /\ UNCHANGED <<keys, savedBy>>

\* One step inside GetPoolKeys.
Advance(c) == Lookup(c) \/ FetchLiquidity(c) \/ FetchMarket(c) \/ Save(c)

KeysNext ==
  \/ \E c \in Workers : (\E p \in Pools : Ask(c, p)) \/ Advance(c) \/ Collect(c)
  \/ DropCalls

KeysSpec == KeysInit /\ [][KeysNext]_keysVars

\* redis and the RPC node answer: http.Client has no timeout of its own.
KeysFairSpec ==
  KeysSpec /\ \A c \in Workers : WF_keysVars(Advance(c)) /\ WF_keysVars(Collect(c))

-----------------------------------------------------------------------------
(* GetMint and GetPoolSolBalance, on the keys k of pool p                  *)

BaseIsSol(k, p)  == k # "empty" /\ SolSide[p] = "base"
QuoteIsSol(k, p) == k # "empty" /\ SolSide[p] = "quote"

\* GetMint returns no error; zeroed mints are not wrapped SOL.
HasMint(k, p) == BaseIsSol(k, p) \/ QuoteIsSol(k, p)

\* mutant of SolVault: the two vaults swapped
SolVaultSwapped(k, p) == IF BaseIsSol(k, p) THEN "quote" ELSE "base"

\* The vault GetPoolSolBalance asks the balance of (`swap` is BaseIsSol).
SolVault(k, p) == IF BaseIsSol(k, p) THEN "base" ELSE "quote"

-----------------------------------------------------------------------------
(* Properties                                                              *)

Filling(c, p) == amm[c] = p /\ step[c] \in {"liquidity", "market", "save"}

\* GetPoolKeys reads and writes the cache without a lock, so callers that
\* missed together each store what they fetched; but nobody stores the keys of
\* one pool twice, so a pool costs at most one successful fill per goroutine.
SavesOncePerCaller ==
  \A c \in Workers, p \in Pools : c \in savedBy[p] => ~Filling(c, p)

\* A pool whose keys were stored from a failed fetch, with nobody still
\* filling it, keeps them for ever: GetPoolKeys takes any entry as final.
Poisoned(p) == keys[p] = "empty" /\ \A c \in Workers : ~Filling(c, p)
PoisonIsPermanent == [][\A p \in Pools : Poisoned(p) => Poisoned(p)']_keysVars

\* A call comes back to its goroutine as long as redis and the RPC answer:
\* no step of GetPoolKeys loops.
CallsReturn == \A c \in Workers : step[c] # "idle" ~> step[c] = "idle"

\* poolkeys.go:15, "otherwise fetch from RPC and store in storage": what is
\* stored was fetched.
StoredKeysWereFetched == \A p \in Pools : keys[p] \in {NoKeys, "complete"}

=============================================================================
