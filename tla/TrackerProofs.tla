--------------------------- MODULE TrackerProofs ----------------------------
(***************************************************************************)
(* ProcessResponse under any number of workers, pools and transactions:     *)
(* the types, the order of the trade table, what the status of a pool and   *)
(* the rows imply, and the refinement of TradeLedger.                       *)
(***************************************************************************)
EXTENDS Tracker, PoolKeysProofs

-----------------------------------------------------------------------------
(* Types                                                                   *)

\* The types of the variables Tracker adds to those of PoolKeys.
TrackTypeOK ==
  /\ pc \in [Workers -> PCs]
  /\ rest \in [Workers -> Seq(Instr)]
  /\ swap \in [Workers -> Pools \cup {NoSwap}]
  /\ stamp \in [Workers -> Nat]
  /\ tracker \in [Pools -> Statuses]
  /\ rows \in Seq(Row)
  /\ mutex \in Workers \cup {Free}
  /\ now \in Nat
  /\ low \subseteq Pools
  /\ runs \in Nat
  /\ everLow \subseteq Pools
  /\ lateBy \in [Pools -> SUBSET Workers]
  /\ untracked \subseteq Pools

\* A worker inside a handler has a pool.
Busy == \A w \in Workers : pc[w] \notin {"idle", "next"} => amm[w] \in Pools

\* Only the two handlers that need them wait for pool keys.
KeysAskedInHandlers ==
  \A w \in Workers : step[w] # "idle" => pc[w] \in {"withdraw", "swap"}

\* The types of a state, split by the module that declares the variable.
LEMMA TypeParts == TypeOK <=> KeysTypeOK /\ TrackTypeOK /\ Busy
BY DEF TypeOK, TrackTypeOK, Busy

\* The loop of ProcessResponse is at an instruction with a pool.
LEMMA HeadIsInstr ==
  ASSUME NEW w \in Workers, rest \in [Workers -> Seq(Instr)], rest[w] # <<>>
  PROVE  Head(rest[w]) \in Instr /\ Tail(rest[w]) \in Seq(Instr)
<1>1. rest[w] \in Seq(Instr)
  OBVIOUS
<1> QED
  BY <1>1

\* That instruction names one of the pools.
LEMMA HeadPool ==
  ASSUME NEW w \in Workers, rest \in [Workers -> Seq(Instr)], rest[w] # <<>>
  PROVE  Head(rest[w]).pool \in Pools
BY HeadIsInstr DEF Instr

\* Every step of the program keeps the invariant of GetPoolKeys's part.
LEMMA KeysStepInv ==
  KeysIInv /\ TypeOK /\ KeysAskedInHandlers /\ [Next]_vars => KeysIInv'
<1> SUFFICES ASSUME KeysIInv, TypeOK, KeysAskedInHandlers, [Next]_vars
             PROVE  KeysIInv'
  OBVIOUS
<1>same. ASSUME UNCHANGED keysVars PROVE KeysIInv'
  BY <1>same DEF keysVars, KeysIInv, KeysInv, KeysTypeOK, SavesOncePerCaller,
                 SavedIsStored, Filling
<1>stop. ASSUME NEW w \in Workers, Leave(w) \/ TakeKeys(w) PROVE KeysIInv'
  BY <1>stop, StopKeepsKeys DEF Leave, TakeKeys
<1>init. ASSUME NEW w \in Workers, BeginInit(w) PROVE KeysIInv'
  \* the handler uses amm[w] without calling GetPoolKeys
  <2>1. Head(rest[w]).pool \in Pools
    BY <1>init, HeadPool DEF BeginInit, TypeOK
  <2> QED
    BY <1>init, <2>1
       DEF BeginInit, KeysAskedInHandlers, KeysIInv, KeysInv, KeysTypeOK, SavesOncePerCaller,
           SavedIsStored, Filling
<1>swap. ASSUME NEW w \in Workers, BeginWithdraw(w) \/ BeginSwap(w) PROVE KeysIInv'
  <2>1. CASE BeginWithdraw(w)
    <3>1. Head(rest[w]).pool \in Pools
      BY <2>1, HeadPool DEF BeginWithdraw, TypeOK
    <3> QED
      BY <2>1, <3>1, AskKeepsKeys DEF BeginWithdraw
  <2>2. CASE BeginSwap(w)
    <3>1. swap[w] \in Pools
      BY <2>2 DEF BeginSwap, TypeOK
    <3> QED
      BY <2>2, <3>1, AskKeepsKeys DEF BeginSwap
  <2> QED
    BY <1>swap, <2>1, <2>2
<1>1. ASSUME NEW w \in Workers, Dispatch(w) \/ Work(w) \/ NilTracker(w)
      PROVE  KeysIInv'
  BY <1>1, <1>same, <1>stop, <1>init, <1>swap, AdvanceKeepsKeys, DropKeepsKeys
     DEF Dispatch, Work, NilTracker, SkipInstr, RememberSwap, EndRun, KeysStep,
         KeysRefused, InitStatus, InitPause, CheckReserve, Track, SwapMint,
         SwapStatus, Lock, Insert, Restart
<1>2. ASSUME NEW p \in Pools, Drain(p) \/ Refill(p) PROVE KeysIInv'
  BY <1>2, <1>same DEF Drain, Refill
<1>3. CASE DeleteAll \/ Tick
  BY <1>3, <1>same DEF DeleteAll, Tick
<1>4. CASE Restart
  BY <1>4, DropKeepsKeys DEF Restart
<1>5. CASE UNCHANGED vars
  BY <1>5, <1>same DEF vars
<1> QED
  BY <1>1, <1>2, <1>3, <1>4, <1>5 DEF Next

\* SetTrade inserts one row or none.
LEMMA InsertOutcome ==
  ASSUME NEW w \in Workers, Insert(w)
  PROVE  \/ /\ rows' = Append(rows, [pool |-> amm[w], ts |-> stamp[w]])
            /\ \/ lateBy' = lateBy
               \/ lateBy' = [lateBy EXCEPT ![amm[w]] = @ \cup {w}]
         \/ rows' = rows /\ lateBy' = lateBy
BY DEF Insert, Inserted

\* An INSERT makes nobody but its own worker late.
LEMMA LateAfterInsert ==
  ASSUME NEW w \in Workers, Insert(w), lateBy \in [Pools -> SUBSET Workers],
         NEW p \in Pools, NEW v \in lateBy'[p]
  PROVE  v = w \/ v \in lateBy[p]
<1>1. lateBy' = lateBy \/ lateBy' = [lateBy EXCEPT ![amm[w]] = @ \cup {w}]
  BY InsertOutcome
<1> QED
  BY <1>1

\* The table stays a sequence of rows, the late workers stay workers.
LEMMA InsertTypes ==
  ASSUME NEW w \in Workers, Insert(w), amm[w] \in Pools, stamp[w] \in Nat,
         rows \in Seq(Row), lateBy \in [Pools -> SUBSET Workers]
  PROVE  rows' \in Seq(Row) /\ lateBy' \in [Pools -> SUBSET Workers]
<1> DEFINE row == [pool |-> amm[w], ts |-> stamp[w]]
<1>1. row \in Row
  BY DEF Row
<1>2. lateBy' \in [Pools -> SUBSET Workers]
  BY InsertOutcome
<1>3. rows' = Append(rows, row) \/ rows' = rows
  BY InsertOutcome
<1> HIDE DEF row
<1>4. rows' \in Seq(Row)
  BY <1>1, <1>3
<1> QED
  BY <1>2, <1>4

\* Every step keeps every variable in its type, and calls of GetPoolKeys inside
\* the two handlers.
LEMMA TypeStep ==
  ASSUME TypeOK, KeysIInv, KeysAskedInHandlers, [Next]_vars
  PROVE  TypeOK' /\ KeysAskedInHandlers'
<1> DEFINE T == TrackTypeOK /\ Busy /\ KeysAskedInHandlers
<1>keys. KeysTypeOK'
  BY KeysStepInv DEF KeysIInv, KeysInv
<1> USE DEF TypeOK, KeysTypeOK, TrackTypeOK, Busy, KeysAskedInHandlers
<1>1. ASSUME NEW w \in Workers, Dispatch(w) PROVE T'
  BY <1>1, TrackerAssumption DEF Dispatch, At, PCs, keysVars, chain
<1>2. ASSUME NEW w \in Workers, SkipInstr(w) PROVE T'
  BY <1>2, HeadIsInstr DEF SkipInstr, At, chain, keysVars
<1>3. ASSUME NEW w \in Workers, RememberSwap(w) PROVE T'
  BY <1>3, HeadIsInstr, HeadPool DEF RememberSwap, chain, keysVars
<1>4. ASSUME NEW w \in Workers, BeginInit(w) PROVE T'
  BY <1>4, HeadIsInstr, HeadPool DEF BeginInit, At, PCs, chain
<1>5. ASSUME NEW w \in Workers, BeginWithdraw(w) PROVE T'
  BY <1>5, HeadIsInstr, HeadPool DEF BeginWithdraw, At, PCs, Ask, Go, chain
<1>6. ASSUME NEW w \in Workers, BeginSwap(w) PROVE T'
  BY <1>6 DEF BeginSwap, At, PCs, Ask, Go, chain
<1>7. ASSUME NEW w \in Workers, EndRun(w) PROVE T'
  BY <1>7 DEF EndRun, At, PCs, keysVars, chain
<1>8. ASSUME NEW w \in Workers, KeysStep(w) PROVE T'
  BY <1>8 DEF KeysStep, Advance, Lookup, FetchLiquidity, FetchMarket, Save, Go, trackVars
<1>9. ASSUME NEW w \in Workers, KeysRefused(w) PROVE T'
  BY <1>9 DEF KeysRefused, At, PCs, Leave, Go, chain
<1>10. ASSUME NEW w \in Workers, InitStatus(w) PROVE T'
  <2>1. CASE At(w, "initPause") /\ UNCHANGED keysVars
    BY <1>10, <2>1 DEF InitStatus, At, PCs, keysVars, chain
  <2>2. CASE Leave(w) /\ At(w, "next")
    BY <1>10, <2>2 DEF InitStatus, At, PCs, Leave, Go, chain
  <2> QED
    BY <1>10, <2>1, <2>2 DEF InitStatus
<1>11. ASSUME NEW w \in Workers, InitPause(w) PROVE T'
  BY <1>11 DEF InitPause, At, PCs, Leave, Go, Statuses, chain
<1>12. ASSUME NEW w \in Workers, CheckReserve(w) PROVE T'
  <2>1. CASE TakeKeys(w) /\ At(w, "track")
    BY <1>12, <2>1 DEF CheckReserve, At, PCs, TakeKeys, Go, chain
  <2>2. CASE Leave(w) /\ At(w, "next")
    BY <1>12, <2>2 DEF CheckReserve, At, PCs, Leave, Go, chain
  <2> QED
    BY <1>12, <2>1, <2>2 DEF CheckReserve
<1>13. ASSUME NEW w \in Workers, Track(w) PROVE T'
  BY <1>13 DEF Track, At, PCs, Leave, Go, Statuses, chain
<1>14. ASSUME NEW w \in Workers, SwapMint(w) PROVE T'
  BY <1>14 DEF SwapMint, At, PCs, Leave, TakeKeys, Go, chain
<1>15. ASSUME NEW w \in Workers, SwapStatus(w) PROVE T'
  BY <1>15 DEF SwapStatus, At, PCs, Leave, Go, keysVars, chain
<1>16. ASSUME NEW w \in Workers, Lock(w) PROVE T'
  BY <1>16 DEF Lock, At, PCs, keysVars, chain
<1>17. ASSUME NEW w \in Workers, Insert(w) PROVE T'
  <2>1. amm[w] \in Pools
    BY <1>17 DEF Insert
  <2>2. rows' \in Seq(Row) /\ lateBy' \in [Pools -> SUBSET Workers]
    BY <1>17, <2>1, InsertTypes
  <2> QED
    BY <1>17, <2>2 DEF Insert, At, PCs, Leave, Go, chain
<1>18. ASSUME NEW w \in Workers, NilTracker(w) PROVE T'
  BY <1>18 DEF NilTracker, Restart, DropCalls, PCs, chain
<1>19. ASSUME NEW p \in Pools, Drain(p) \/ Refill(p) PROVE T'
  BY <1>19 DEF Drain, Refill, keysVars, job
<1>20. ASSUME DeleteAll PROVE T'
  BY <1>20 DEF DeleteAll, keysVars, job, chain
<1>21. ASSUME Tick PROVE T'
  BY <1>21 DEF Tick, keysVars, job
<1>22. ASSUME Restart PROVE T'
  BY <1>22 DEF Restart, DropCalls, PCs, chain
<1>23. ASSUME UNCHANGED vars PROVE T'
  BY <1>23 DEF vars, keysVars, trackVars
<1>all. T'
  BY <1>1, <1>2, <1>3, <1>4, <1>5, <1>6, <1>7, <1>8, <1>9, <1>10, <1>11, <1>12, <1>13, <1>14, <1>15, <1>16, <1>17, <1>18, <1>19, <1>20, <1>21, <1>22, <1>23
     DEF Next, Work
<1> QED
  BY <1>keys, <1>all, TypeParts

\* The invariant behind the types, together with that of GetPoolKeys.
TypeInv == TypeOK /\ KeysIInv /\ KeysAskedInHandlers

\* Every step of the handlers keeps the types and the calls of GetPoolKeys.
LEMMA TypeInvStep == TypeInv /\ [Next]_vars => TypeInv'
BY TypeStep, KeysStepInv DEF TypeInv

\* They hold when the program starts on empty stores.
LEMMA TypeInvInit == Init => TypeInv
<1> SUFFICES ASSUME Init PROVE TypeInv
  OBVIOUS
<1>1. KeysIInv
  BY PoolKeysAssumption
     DEF Init, KeysInit, KeysIInv, KeysInv, KeysTypeOK, SavesOncePerCaller,
         SavedIsStored, Filling, Steps, Keys
<1>2. TrackTypeOK
  BY TrackerAssumption DEF Init, TrackTypeOK, PCs, Statuses
<1>3. Busy /\ KeysAskedInHandlers
  BY DEF Init, KeysInit, Busy, KeysAskedInHandlers
<1> QED
  BY <1>1, <1>2, <1>3, TypeParts DEF TypeInv, KeysIInv, KeysInv

\* The types, the cache invariant of GetPoolKeys and the place of its calls in
\* the two handlers hold in every reachable state.
THEOREM TypeInvariant == Spec => []TypeInv
BY TypeInvInit, TypeInvStep, PTL DEF Spec

\* Type correctness of ProcessResponse, redis, MySQL and GetPoolKeys together.
THEOREM TrackerTypes == Spec => []TypeOK
BY TypeInvariant, PTL DEF TypeInv

\* GetPoolKeys fills a pool at most once per worker inside ProcessResponse too.
THEOREM TrackerOneFillPerWorker == Spec => []SavesOncePerCaller
BY TypeInvariant, PTL DEF TypeInv, KeysIInv, KeysInv

-----------------------------------------------------------------------------
(* Steps that only move a worker                                           *)

Critical == {"initPause", "track", "lock", "insert"}

\* Worker w goes to a place from which nothing is written; nothing else changes.
Quiet(w) ==
  /\ pc'[w] \notin Critical
  /\ \A v \in Workers \ {w} : pc'[v] = pc[v] /\ amm'[v] = amm[v]
  /\ UNCHANGED <<stamp, tracker, rows, mutex, now, low, everLow, lateBy>>

\* Most steps are quiet; the others are named here one by one.
LEMMA QuietSteps ==
  ASSUME NEW w \in Workers, TypeInv, Dispatch(w) \/ Work(w)
  PROVE  \/ Quiet(w)
         \/ InitStatus(w) /\ At(w, "initPause") /\ UNCHANGED keysVars
         \/ InitPause(w)
         \/ CheckReserve(w) /\ TakeKeys(w) /\ At(w, "track")
         \/ Track(w)
         \/ SwapStatus(w) /\ At(w, "lock") /\ UNCHANGED keysVars
         \/ Lock(w)
         \/ Insert(w)
<1> USE DEF TypeInv, TypeOK, KeysTypeOK
<1>1. ASSUME \/ Dispatch(w) \/ SkipInstr(w) \/ RememberSwap(w) \/ BeginInit(w)
             \/ EndRun(w)
      PROVE  Quiet(w)
  BY <1>1 DEF Dispatch, SkipInstr, RememberSwap, BeginInit, EndRun, At, Quiet,
              Critical, chain, keysVars
<1>2. ASSUME BeginWithdraw(w) \/ BeginSwap(w) PROVE Quiet(w)
  BY <1>2 DEF BeginWithdraw, BeginSwap, Ask, At, Quiet, Critical, chain
<1>3. ASSUME KeysStep(w) PROVE Quiet(w)
  BY <1>3 DEF KeysStep, Advance, Lookup, FetchLiquidity, FetchMarket, Save,
              trackVars, Quiet, Critical
<1>4. ASSUME KeysRefused(w) \/ SwapMint(w) PROVE Quiet(w)
  BY <1>4 DEF KeysRefused, SwapMint, Leave, TakeKeys, At, Quiet, Critical, chain
<1>5. ASSUME Leave(w), At(w, "next") \/ At(w, "idle"),
             UNCHANGED <<stamp, tracker, rows, mutex, chain, lateBy>>
      PROVE  Quiet(w)
  BY <1>5 DEF Leave, At, Quiet, Critical, chain
<1>6. ASSUME InitStatus(w)
      PROVE  Quiet(w) \/ (At(w, "initPause") /\ UNCHANGED keysVars)
  BY <1>5, <1>6 DEF InitStatus
<1>7. ASSUME CheckReserve(w)
      PROVE  Quiet(w) \/ (TakeKeys(w) /\ At(w, "track"))
  BY <1>5, <1>7 DEF CheckReserve
<1>8. ASSUME SwapStatus(w)
      PROVE  Quiet(w) \/ (At(w, "lock") /\ UNCHANGED keysVars)
  BY <1>5, <1>8 DEF SwapStatus
<1> QED
  BY <1>1, <1>2, <1>3, <1>4, <1>6, <1>7, <1>8 DEF Work

-----------------------------------------------------------------------------
(* Status of a pool                                                        *)

\* What a worker about to write knows is still true when it writes: a pool
\* once seen low stays so in history, and an entry is never removed.
StatusInv ==
  /\ TypeInv
  /\ low \subseteq everLow
  /\ \A w \in Workers : pc[w] = "track" => amm[w] \in everLow
  /\ \A w \in Workers :
       pc[w] \in {"initPause", "lock", "insert"} => tracker[amm[w]] # "NOT_TRACKED"
  /\ TrackedWasDrained
  /\ RowsOnlyForTracked
  /\ OneLateRowPerWorker

\* An INSERT leaves the rows as they are or appends one of the worker's pool.
LEMMA RowsAfterInsert ==
  ASSUME NEW w \in Workers, TypeOK, Insert(w)
  PROVE  /\ Len(rows) \in Nat
         /\ \/ rows' = rows
            \/ /\ Len(rows') = Len(rows) + 1
               /\ \A i \in 1..Len(rows) : rows'[i] = rows[i]
               /\ rows'[Len(rows) + 1].pool = amm[w]
               /\ rows'[Len(rows) + 1].ts = stamp[w]
<1>1. rows \in Seq(Row)
  BY DEF TypeOK
<1> DEFINE row == [pool |-> amm[w], ts |-> stamp[w]]
<1>2. rows' = Append(rows, row) \/ rows' = rows
  BY InsertOutcome
<1>3. row.pool = amm[w] /\ row.ts = stamp[w]
  OBVIOUS
<1> HIDE DEF row
<1>4. CASE rows' = Append(rows, row)
  BY <1>1, <1>3, <1>4
<1> QED
  BY <1>1, <1>2, <1>4

\* Every step of the handlers keeps what their decisions rest on.
LEMMA StatusStep == StatusInv /\ [Next]_vars => StatusInv'
<1> SUFFICES ASSUME StatusInv, [Next]_vars PROVE StatusInv'
  OBVIOUS
<1>t. TypeInv'
  BY TypeInvStep DEF StatusInv
<1>i. \A i \in 1..Len(rows) : rows[i].pool \in Pools
  <2>1. rows \in Seq(Row)
    BY DEF StatusInv, TypeInv, TypeOK
  <2>2. \A i \in 1..Len(rows) : rows[i] \in Row
    BY <2>1
  <2> QED
    BY <2>2 DEF Row
<1>quiet. ASSUME NEW w \in Workers, Quiet(w) PROVE StatusInv'
  BY <1>quiet, <1>t DEF StatusInv, TrackedWasDrained, RowsOnlyForTracked,
     OneLateRowPerWorker, Quiet, Critical
<1> USE DEF StatusInv, TypeInv, TypeOK
<1>1. ASSUME NEW w \in Workers, InitStatus(w), At(w, "initPause"), UNCHANGED keysVars
      PROVE  StatusInv'
  <2>1. tracker[amm[w]] # "NOT_TRACKED"
    BY <1>1 DEF InitStatus, At, PCs
  <2> QED
    BY <1>1, <1>t, <2>1
       DEF InitStatus, At, keysVars, chain, TrackedWasDrained, RowsOnlyForTracked,
           OneLateRowPerWorker
<1>2. ASSUME NEW w \in Workers, InitPause(w) PROVE StatusInv'
  <2>1. amm[w] \in Pools /\ tracker[amm[w]] # "NOT_TRACKED"
    BY <1>2 DEF InitPause
  <2>2. CASE tracker' = tracker /\ lateBy' = lateBy
    BY <1>2, <1>t, <1>i, <2>2
       DEF InitPause, At, Leave, chain, TrackedWasDrained, RowsOnlyForTracked,
           OneLateRowPerWorker
  <2>3. CASE /\ tracker' = [tracker EXCEPT ![amm[w]] = "PAUSE"]
             /\ lateBy' = [lateBy EXCEPT ![amm[w]] = {}]
    BY <1>2, <1>t, <1>i, <2>1, <2>3
       DEF InitPause, At, Leave, chain, TrackedWasDrained, RowsOnlyForTracked,
           OneLateRowPerWorker
  <2> QED
    BY <1>2, <2>2, <2>3 DEF InitPause
<1>3. ASSUME NEW w \in Workers, CheckReserve(w), TakeKeys(w), At(w, "track")
      PROVE  StatusInv'
  \* the vault that was read is the one of wrapped SOL
  <2>1. amm[w] \in low
    BY <1>3 DEF CheckReserve, At, PCs, IsLow, HasMint, SolVault, BaseIsSol, QuoteIsSol
  <2> QED
    BY <1>3, <1>t, <2>1 DEF CheckReserve, TakeKeys, At, chain, TrackedWasDrained, RowsOnlyForTracked,
           OneLateRowPerWorker
<1>4. ASSUME NEW w \in Workers, Track(w) PROVE StatusInv'
  <2>1. amm[w] \in Pools /\ amm[w] \in everLow
    BY <1>4 DEF Track
  <2>2. CASE tracker' = tracker
    BY <1>4, <1>t, <1>i, <2>2 DEF Track, At, Leave, chain, TrackedWasDrained, RowsOnlyForTracked,
           OneLateRowPerWorker
  <2>3. CASE tracker' = [tracker EXCEPT ![amm[w]] = "TRIGGER_ONLY"]
    BY <1>4, <1>t, <1>i, <2>1, <2>3 DEF Track, At, Leave, chain, TrackedWasDrained, RowsOnlyForTracked,
           OneLateRowPerWorker
  <2> QED
    BY <1>4, <2>2, <2>3 DEF Track
<1>5. ASSUME NEW w \in Workers, SwapStatus(w), At(w, "lock"), UNCHANGED keysVars
      PROVE  StatusInv'
  <2>1. tracker[amm[w]] = "TRIGGER_ONLY"
    BY <1>5 DEF SwapStatus, At, PCs
  <2> QED
    BY <1>5, <1>t, <2>1 DEF SwapStatus, At, keysVars, chain, TrackedWasDrained, RowsOnlyForTracked,
           OneLateRowPerWorker
<1>6. ASSUME NEW w \in Workers, Lock(w) PROVE StatusInv'
  BY <1>6, <1>t DEF Lock, At, keysVars, chain, TrackedWasDrained, RowsOnlyForTracked,
           OneLateRowPerWorker
<1>7. ASSUME NEW w \in Workers, Insert(w) PROVE StatusInv'
  <2>1. amm[w] \in Pools /\ tracker[amm[w]] # "NOT_TRACKED"
    BY <1>7 DEF Insert
  <2>2. RowsOnlyForTracked'
    <3>1. tracker' = tracker
      BY <1>7 DEF Insert
    <3>2. RowsOnlyForTracked /\ TypeOK
      OBVIOUS
    <3> HIDE DEF StatusInv, TypeInv, TypeOK
    <3> QED
      BY <1>7, <2>1, <3>1, <3>2, RowsAfterInsert DEF RowsOnlyForTracked
  <2>3. OneLateRowPerWorker'
    \* w leaves "insert" with the step that puts it into lateBy
    <3> SUFFICES ASSUME NEW p \in Pools, NEW v \in Workers,
                        tracker'[p] = "PAUSE", v \in lateBy'[p]
                 PROVE  ~(amm'[v] = p /\ pc'[v] \in {"lock", "insert"})
      BY DEF OneLateRowPerWorker
    <3>1. CASE v = w
      BY <1>7, <3>1 DEF Insert, At
    <3>2. CASE v # w
      <4>1. v \in lateBy[p]
        BY <1>7, <3>2, LateAfterInsert
      <4>2. pc'[v] = pc[v] /\ amm'[v] = amm[v] /\ tracker' = tracker
        BY <1>7, <3>2 DEF Insert, At, Leave, KeysIInv, KeysInv, KeysTypeOK
      <4> QED
        BY <4>1, <4>2 DEF OneLateRowPerWorker
    <3> QED
      BY <3>1, <3>2
  <2> QED
    BY <1>7, <1>t, <2>2, <2>3 DEF Insert, At, Leave, chain, TrackedWasDrained
<1>8. ASSUME Restart PROVE StatusInv'
  BY <1>8, <1>t DEF Restart, chain, TrackedWasDrained, RowsOnlyForTracked,
           OneLateRowPerWorker
<1>9. ASSUME NEW p \in Pools, Drain(p) \/ Refill(p) PROVE StatusInv'
  BY <1>9, <1>t DEF Drain, Refill, keysVars, job, TrackedWasDrained, RowsOnlyForTracked,
           OneLateRowPerWorker
<1>10. ASSUME DeleteAll \/ Tick PROVE StatusInv'
  BY <1>10, <1>t DEF DeleteAll, Tick, keysVars, job, chain, TrackedWasDrained, RowsOnlyForTracked,
           OneLateRowPerWorker
<1>11. ASSUME UNCHANGED vars PROVE StatusInv'
  BY <1>11, <1>t DEF vars, keysVars, trackVars, TrackedWasDrained, RowsOnlyForTracked,
           OneLateRowPerWorker
<1> QED
  BY <1>quiet, <1>1, <1>2, <1>3, <1>4, <1>5, <1>6, <1>7, <1>8, <1>9, <1>10, <1>11,
     QuietSteps DEF Next, NilTracker

\* With no entry and no row there is nothing to keep.
LEMMA StatusInit == Init => StatusInv
<1> SUFFICES ASSUME Init PROVE StatusInv
  OBVIOUS
<1>1. TypeInv
  BY TypeInvInit
<1> QED
  BY <1>1 DEF Init, StatusInv, TrackedWasDrained, RowsOnlyForTracked,
              OneLateRowPerWorker

\* What a handler learnt of a pool before it writes stays true until it writes,
\* in every reachable state.
THEOREM StatusInvariant == Spec => []StatusInv
BY StatusInit, StatusStep, PTL DEF Spec

\* A pool has an entry in redis only if its SOL vault was at one SOL or less.
THEOREM OnlyDrainedAreTracked == Spec => []TrackedWasDrained
BY StatusInvariant, PTL DEF StatusInv

\* Trades are recorded only of pools that have an entry in redis.
THEOREM OnlyTrackedAreRecorded == Spec => []RowsOnlyForTracked
BY StatusInvariant, PTL DEF StatusInv

\* After a pause each worker records at most one more trade of the pool.
THEOREM LateRowsAreBounded == Spec => []OneLateRowPerWorker
BY StatusInvariant, PTL DEF StatusInv

-----------------------------------------------------------------------------
(* Order of the rows                                                       *)

\* dbMutex keeps anybody else from inserting between the timestamp a worker
\* takes and its INSERT, so that timestamp is still the latest of the table.
OrderInv ==
  /\ TypeInv
  /\ now <= MaxTime
  /\ \A w \in Workers : pc[w] = "insert" => mutex = w
  /\ \A i \in 1..Len(rows) : rows[i].ts <= now
  /\ \A w \in Workers : pc[w] = "insert" =>
       stamp[w] <= now /\ \A i \in 1..Len(rows) : rows[i].ts <= stamp[w]
  /\ RowsInTimeOrder

\* The timestamps of the rows are seconds.
LEMMA RowTime == ASSUME TypeOK PROVE \A i \in 1..Len(rows) : rows[i].ts \in Nat
<1>1. \A i \in 1..Len(rows) : rows[i] \in Row
  BY DEF TypeOK
<1> QED
  BY <1>1 DEF Row

\* Every step keeps the timestamp taken under dbMutex the latest of the table.
LEMMA OrderStep == OrderInv /\ [Next]_vars => OrderInv'
<1> SUFFICES ASSUME OrderInv, [Next]_vars PROVE OrderInv'
  OBVIOUS
<1>t. TypeInv'
  BY TypeInvStep DEF OrderInv
<1>i. \A i \in 1..Len(rows) : rows[i].ts \in Nat
  BY RowTime DEF OrderInv, TypeInv
<1>now. now <= MaxTime
  BY DEF OrderInv
<1>same. ASSUME UNCHANGED <<stamp, rows, mutex, now>>,
                \A v \in Workers : pc'[v] = "insert" => pc[v] = "insert"
         PROVE  OrderInv'
  BY <1>same, <1>t DEF OrderInv, RowsInTimeOrder
<1> USE DEF OrderInv, TypeInv, TypeOK
<1>1. ASSUME NEW w \in Workers, Quiet(w) PROVE OrderInv'
  BY <1>1, <1>same DEF Quiet, Critical
<1>2. ASSUME NEW w \in Workers,
             \/ InitStatus(w) /\ At(w, "initPause") /\ UNCHANGED keysVars
             \/ CheckReserve(w) /\ TakeKeys(w) /\ At(w, "track")
             \/ SwapStatus(w) /\ At(w, "lock") /\ UNCHANGED keysVars
      PROVE  OrderInv'
  BY <1>2, <1>same DEF InitStatus, CheckReserve, SwapStatus, At, chain
<1>3. ASSUME NEW w \in Workers, InitPause(w) \/ Track(w) PROVE OrderInv'
  BY <1>3, <1>same DEF InitPause, Track, At, chain
<1>4. ASSUME NEW w \in Workers, Lock(w) PROVE OrderInv'
  <2>1. UNCHANGED <<rows, now>> /\ mutex' = w /\ stamp'[w] = now
    BY <1>4 DEF Lock, chain
  <2>2. \A v \in Workers : pc'[v] = "insert" => v = w
    \* dbMutex was free, so nobody else is between its timestamp and its INSERT
    BY <1>4, TrackerAssumption DEF Lock, At
  <2>3. now \in Nat /\ RowsInTimeOrder /\ \A i \in 1..Len(rows) : rows[i].ts <= now
    OBVIOUS
  <2> HIDE DEF OrderInv, TypeInv, TypeOK
  <2>4. RowsInTimeOrder'
    BY <2>1, <2>3 DEF RowsInTimeOrder
  <2>5. \A i \in 1..Len(rows') : rows'[i].ts <= now'
    BY <2>1, <2>3
  <2>6. \A v \in Workers : pc'[v] = "insert" =>
          stamp'[v] <= now' /\ \A i \in 1..Len(rows') : rows'[i].ts <= stamp'[v]
    BY <2>1, <2>2, <2>3
  <2> QED
    BY <1>t, <1>now, <2>1, <2>2, <2>4, <2>5, <2>6 DEF OrderInv
<1>5. ASSUME NEW w \in Workers, Insert(w) PROVE OrderInv'
  <2>1. pc[w] = "insert" /\ pc' = [pc EXCEPT ![w] = "idle"] /\ stamp' = stamp
        /\ now' = now
    BY <1>5 DEF Insert, At, chain
  <2>2. \A v \in Workers : pc'[v] # "insert"
    \* w held the mutex
    BY <2>1, TrackerAssumption
  <2>3. stamp[w] \in Nat /\ now \in Nat /\ stamp[w] <= now
        /\ \A i \in 1..Len(rows) : rows[i].ts <= stamp[w] /\ rows[i].ts <= now
    BY <2>1
  <2>4. RowsInTimeOrder /\ TypeOK
    OBVIOUS
  <2> HIDE DEF OrderInv, TypeInv, TypeOK
  <2>5. \A i \in 1..Len(rows') : rows'[i].ts <= now
    BY <1>5, <2>3, <2>4, RowsAfterInsert
  <2>6. RowsInTimeOrder'
    BY <1>5, <2>3, <2>4, RowsAfterInsert DEF RowsInTimeOrder
  <2> QED
    BY <1>t, <1>now, <2>1, <2>2, <2>5, <2>6 DEF OrderInv
<1>6. ASSUME Restart PROVE OrderInv'
  BY <1>6, <1>t DEF Restart, chain, RowsInTimeOrder
<1>7. ASSUME NEW p \in Pools, Drain(p) \/ Refill(p) PROVE OrderInv'
  BY <1>7, <1>same DEF Drain, Refill, job
<1>8. ASSUME DeleteAll PROVE OrderInv'
  BY <1>8, <1>t DEF DeleteAll, job, chain, RowsInTimeOrder
<1>9. ASSUME Tick PROVE OrderInv'
  BY <1>9, <1>t, <1>i, TrackerAssumption DEF Tick, job, RowsInTimeOrder
<1>10. ASSUME UNCHANGED vars PROVE OrderInv'
  BY <1>10, <1>same DEF vars, trackVars
<1> QED
  BY <1>1, <1>2, <1>3, <1>4, <1>5, <1>6, <1>7, <1>8, <1>9, <1>10, QuietSteps
     DEF Next, NilTracker

\* The empty table is in order.
LEMMA OrderInit == Init => OrderInv
BY TypeInvInit, TrackerAssumption DEF Init, OrderInv, RowsInTimeOrder

\* Between the timestamp and the INSERT of SetTrade nobody else inserts, in
\* every reachable state.
THEOREM OrderInvariant == Spec => []OrderInv
BY OrderInit, OrderStep, PTL DEF Spec

\* A run leaves the INSERT by Insert alone.
LEMMA OnlyInsertLeaves ==
  ASSUME NEW w \in Workers, TypeInv, pc[w] = "insert", Dispatch(w) \/ Work(w)
  PROVE  Insert(w)
<1>1. step[w] = "idle"
  BY DEF TypeInv, TypeOK, KeysTypeOK, KeysAskedInHandlers
<1>2. ~Dispatch(w)
  BY DEF Dispatch
<1>3. ~(SkipInstr(w) \/ RememberSwap(w) \/ BeginInit(w) \/ BeginWithdraw(w))
  BY DEF SkipInstr, RememberSwap, BeginInit, BeginWithdraw
<1>4. ~(BeginSwap(w) \/ EndRun(w) \/ KeysStep(w) \/ KeysRefused(w))
  BY <1>1 DEF BeginSwap, EndRun, KeysStep, KeysRefused
<1>5. ~(InitStatus(w) \/ InitPause(w) \/ CheckReserve(w) \/ Track(w))
  BY <1>1 DEF InitStatus, InitPause, CheckReserve, Track
<1>6. ~(SwapMint(w) \/ SwapStatus(w) \/ Lock(w))
  BY <1>1 DEF SwapMint, SwapStatus, Lock
<1> QED
  BY <1>2, <1>3, <1>4, <1>5, <1>6 DEF Work

\* Every step keeps dbMutex with the worker at its INSERT.
LEMMA HolderStep == TypeInv /\ HolderInserts /\ [Next]_vars => HolderInserts'
<1> SUFFICES ASSUME TypeInv, HolderInserts, [Next]_vars PROVE HolderInserts'
  OBVIOUS
<1>t. pc \in [Workers -> PCs] /\ Free \notin Workers
  BY TrackerAssumption DEF TypeInv, TypeOK
<1>same. ASSUME mutex' = mutex, \A v \in Workers : pc'[v] = "insert" <=> pc[v] = "insert"
         PROVE  HolderInserts'
  BY <1>same DEF HolderInserts
<1>1. ASSUME NEW w \in Workers, Dispatch(w) \/ Work(w) PROVE HolderInserts'
  <2>1. CASE Insert(w)
    BY <1>t, <2>1 DEF Insert, At, HolderInserts
  <2>2. CASE Lock(w)
    BY <1>t, <2>2 DEF Lock, At, HolderInserts
  <2>3. CASE ~Insert(w) /\ ~Lock(w)
    <3>1. pc[w] # "insert"
      BY <1>1, <2>3, OnlyInsertLeaves
    <3>2. \/ Quiet(w)
          \/ InitStatus(w) /\ At(w, "initPause")
          \/ InitPause(w)
          \/ CheckReserve(w) /\ At(w, "track")
          \/ Track(w)
          \/ SwapStatus(w) /\ At(w, "lock")
      BY <1>1, <2>3, QuietSteps
    <3>3. mutex' = mutex /\ pc'[w] # "insert"
      BY <1>t, <3>2 DEF Quiet, Critical, InitStatus, InitPause, CheckReserve, Track, SwapStatus, At
    <3>4. \A v \in Workers \ {w} : pc'[v] = pc[v]
      BY <1>t, <3>2 DEF Quiet, InitPause, Track, At
    <3> QED
      BY <1>same, <3>1, <3>3, <3>4
  <2> QED
    BY <2>1, <2>2, <2>3
<1>2. ASSUME Restart PROVE HolderInserts'
  BY <1>2, <1>t DEF Restart, HolderInserts
<1>3. ASSUME \/ \E p \in Pools : Drain(p) \/ Refill(p)
             \/ DeleteAll \/ Tick \/ UNCHANGED vars
      PROVE  HolderInserts'
  BY <1>3, <1>same DEF Drain, Refill, DeleteAll, Tick, job, vars, trackVars
<1> QED
  BY <1>1, <1>2, <1>3 DEF Next, NilTracker

\* No run, no failure and no restart leaves dbMutex locked, for any number of
\* workers.
THEOREM MutexIsGivenBack == Spec => []HolderInserts
<1>1. Init => HolderInserts
  BY TrackerAssumption DEF Init, HolderInserts
<1> QED
  BY <1>1, HolderStep, TypeInvariant, PTL DEF Spec

\* The trade table is in the order of its timestamps.
THEOREM RowsAreInTimeOrder == Spec => []RowsInTimeOrder
BY OrderInvariant, PTL DEF OrderInv

-----------------------------------------------------------------------------
(* Refinement of TradeLedger                                               *)

\* Every step of the handlers is a step of the ledger or leaves it alone.
LEMMA LedgerStep ==
  ASSUME StatusInv, OrderInv, [Next]_vars
  PROVE  [Ledger!LedgerNext]_(Ledger!ledgerVars)
<1> DEFINE phase == [p \in Pools |-> Phase(tracker[p])]
<1>same. ASSUME UNCHANGED <<everLow, tracker, rows>>
         PROVE  UNCHANGED Ledger!ledgerVars
  BY <1>same DEF Ledger!ledgerVars
<1>1. ASSUME NEW w \in Workers, Quiet(w) PROVE UNCHANGED Ledger!ledgerVars
  BY <1>1, <1>same DEF Quiet
<1>2. ASSUME NEW w \in Workers, InitStatus(w) \/ CheckReserve(w) \/ SwapStatus(w) \/ Lock(w)
      PROVE  UNCHANGED Ledger!ledgerVars
  BY <1>2, <1>same DEF InitStatus, CheckReserve, SwapStatus, Lock, chain
<1>type. TypeOK
  BY DEF StatusInv, TypeInv
<1>3. ASSUME NEW w \in Workers, InitPause(w)
      PROVE  (Ledger!Pause(amm[w]) /\ amm[w] \in Pools) \/ UNCHANGED Ledger!ledgerVars
  <2>1. amm[w] \in Pools /\ tracker[amm[w]] # "NOT_TRACKED" /\ UNCHANGED <<everLow, rows>>
    BY <1>3, <1>type DEF InitPause, StatusInv, TypeOK, chain
  <2>2. CASE tracker' = tracker
    BY <1>same, <2>1, <2>2
  <2>3. CASE tracker' = [tracker EXCEPT ![amm[w]] = "PAUSE"]
    <3>1. phase' = [phase EXCEPT ![amm[w]] = "paused"]
      BY <1>type, <2>1, <2>3 DEF TypeOK, Phase
    <3>2. phase[amm[w]] # "new"
      BY <2>1 DEF Phase
    <3> QED
      BY <2>1, <3>1, <3>2 DEF Ledger!Pause
  <2> QED
    BY <1>3, <2>2, <2>3 DEF InitPause
<1>4. ASSUME NEW w \in Workers, Track(w)
      PROVE  (Ledger!Track(amm[w]) /\ amm[w] \in Pools) \/ UNCHANGED Ledger!ledgerVars
  <2>1. amm[w] \in Pools /\ amm[w] \in everLow /\ UNCHANGED <<everLow, rows>>
    BY <1>4, <1>type DEF Track, StatusInv, TypeOK, chain
  <2>2. CASE tracker' = tracker
    BY <1>same, <2>1, <2>2
  <2>3. CASE tracker' = [tracker EXCEPT ![amm[w]] = "TRIGGER_ONLY"]
    <3>1. phase' = [phase EXCEPT ![amm[w]] = "tracked"]
      BY <1>type, <2>1, <2>3 DEF TypeOK, Phase
    <3> QED
      BY <2>1, <3>1 DEF Ledger!Track
  <2> QED
    BY <1>4, <2>2, <2>3 DEF Track
<1>5. ASSUME NEW w \in Workers, Insert(w)
      PROVE  \/ /\ Ledger!Record(amm[w], stamp[w])
                /\ amm[w] \in Pools
                /\ stamp[w] \in 0..MaxTime
             \/ UNCHANGED Ledger!ledgerVars
  <2>1. amm[w] \in Pools /\ tracker[amm[w]] # "NOT_TRACKED" /\ UNCHANGED <<everLow, tracker>>
    BY <1>5, <1>type DEF Insert, StatusInv, TypeOK, chain
  <2>2. stamp[w] \in 0..MaxTime
    BY <1>5, <1>type, TrackerAssumption DEF Insert, OrderInv, TypeOK
  <2>3. \A i \in 1..Len(rows) : rows[i].ts <= stamp[w]
    BY <1>5 DEF Insert, OrderInv
  <2>4. CASE rows' = rows
    BY <1>same, <2>1, <2>4
  <2>5. CASE rows' = Append(rows, [pool |-> amm[w], ts |-> stamp[w]])
    <3>1. phase' = phase /\ phase[amm[w]] # "new"
      BY <2>1 DEF Phase
    <3> QED
      BY <2>1, <2>2, <2>3, <2>5, <3>1 DEF Ledger!Record
  <2> QED
    BY <1>5, <2>4, <2>5, InsertOutcome
<1>6. ASSUME Restart \/ Tick PROVE UNCHANGED Ledger!ledgerVars
  BY <1>6, <1>same DEF Restart, Tick, chain
<1>7. ASSUME DeleteAll PROVE Ledger!Empty
  <2>1. rows' = <<>> /\ UNCHANGED <<everLow, tracker>>
    BY <1>7 DEF DeleteAll, chain
  <2> QED
    BY <2>1 DEF Ledger!Empty
<1>8. ASSUME NEW p \in Pools, Drain(p) PROVE Ledger!Drained(p)
  <2>1. everLow' = everLow \cup {p} /\ UNCHANGED <<tracker, rows>>
    BY <1>8 DEF Drain
  <2> QED
    BY <2>1 DEF Ledger!Drained
<1>9. ASSUME NEW p \in Pools, Refill(p) PROVE UNCHANGED Ledger!ledgerVars
  BY <1>9, <1>same DEF Refill
<1>10. ASSUME UNCHANGED vars PROVE UNCHANGED Ledger!ledgerVars
  BY <1>10, <1>same DEF vars, trackVars
<1>11. ASSUME NEW w \in Workers, Dispatch(w) \/ Work(w) \/ NilTracker(w)
       PROVE  [Ledger!LedgerNext]_(Ledger!ledgerVars)
  BY <1>1, <1>2, <1>3, <1>4, <1>5, <1>6, <1>11, QuietSteps
     DEF NilTracker, StatusInv, Ledger!LedgerNext
<1> QED
  BY <1>6, <1>7, <1>8, <1>9, <1>10, <1>11 DEF Next, Ledger!LedgerNext

\* The handlers implement the ledger: they track drained pools only, pause and
\* record tracked pools only, and record in the order of time.
THEOREM TrackerImplementsLedger == Spec => ImplementsLedger
<1>1. Init => Ledger!LedgerInit
  BY DEF Init, Ledger!LedgerInit, Phase
<1> QED
  BY <1>1, LedgerStep, StatusInvariant, OrderInvariant, PTL
     DEF Spec, ImplementsLedger, Ledger!LedgerSpec

=============================================================================
