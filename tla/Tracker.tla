------------------------------ MODULE Tracker -------------------------------
(***************************************************************************)
(* bot.ProcessResponse run by several workers at once: initialize2, withdraw *)
(* and swap instructions read and write the tracking status of a pool in    *)
(* redis and record trades in MySQL.  GetPoolKeys (module PoolKeys) is       *)
(* called inside.  No lock covers a read of the status and the step taken    *)
(* on it; dbMutex covers the timestamp and the INSERT of a trade.           *)
(***************************************************************************)
EXTENDS PoolKeys, Sequences

CONSTANTS
  Txs,         \* transactions: sequences of Raydium instructions [op, pool]
  NoSwap,      \* no SwapBaseIn seen in the transaction so far
  Free,        \* dbMutex is not held
  RedisFails,  \* BOOLEAN: an HSet of the status may fail
  MaxRuns,     \* bound: calls of ProcessResponse
  MaxTime      \* bound: seconds

Instr == [op : {"initialize2", "withdraw", "swap"}, pool : Pools]

ASSUME TrackerAssumption ==
  /\ Txs \subseteq Seq(Instr)
  /\ NoSwap \notin Pools
  /\ Free \notin Workers
  /\ RedisFails \in BOOLEAN
  /\ MaxRuns \in Nat
  /\ MaxTime \in Nat

VARIABLES
  pc,        \* worker: where it is in ProcessResponse
  rest,      \* worker: instructions the loop has not reached
  swap,      \* worker: pool of the last SwapBaseIn seen (isProcess, ix)
  stamp,     \* worker: trade.Timestamp
  tracker,   \* redis: Status of a pool, NOT_TRACKED when there is no entry
  rows,      \* MySQL: the trade table, in insertion order
  mutex,     \* dbMutex: its holder or Free
  now,       \* time.Now().Unix()
  low,       \* chain: pools whose SOL vault holds at most LAMPORTS_PER_SOL
  runs,      \* calls of ProcessResponse so far (bounds the model)
  everLow,   \* history: pools that were low at some time
  lateBy,    \* history: workers that recorded a trade of a pool since its pause
  untracked  \* history: pools logged as untracked, no withdraw begun since

trackVars == <<pc, rest, swap, stamp, tracker, rows, mutex, now, low, runs,
               everLow, lateBy, untracked>>
vars == <<keysVars, trackVars>>
job   == <<pc, rest, swap, stamp>>
chain == <<now, low, everLow>>

Row == [pool : Pools, ts : Nat]
Statuses == {"TRIGGER_ONLY", "BOTH", "PAUSE", "NOT_TRACKED"}
PCs == {"idle", "next", "initStatus", "initPause", "withdraw", "track",
        "swap", "swapStatus", "lock", "insert"}

TypeOK ==
  /\ KeysTypeOK
  /\ pc \in [Workers -> PCs]
  /\ \A w \in Workers : pc[w] \notin {"idle", "next"} => amm[w] \in Pools
  /\ rest \in [Workers -> Seq(Instr)]
  /\ swap \in [Workers -> Pools \cup {NoSwap}]
  /\ stamp \in [Workers -> Nat]
  /\ tracker \in [Pools -> Statuses]
  /\ rows \in Seq(Row)
  /\ mutex \in Workers \cup {Free}
  /\ now \in Nat
  /\ low \subseteq Pools
  /\ runs \in Nat
  /\ everLow \subseteq Pools
  /\ lateBy \in [Pools -> SUBSET Workers]
  /\ untracked \subseteq Pools

Init ==
  /\ KeysInit
  /\ pc = [w \in Workers |-> "idle"]
  /\ rest = [w \in Workers |-> <<>>]
  /\ swap = [w \in Workers |-> NoSwap]
  /\ stamp = [w \in Workers |-> 0]
  /\ tracker = [p \in Pools |-> "NOT_TRACKED"]
  /\ rows = <<>>
  /\ mutex = Free
  /\ now = 0
  /\ low = {}
  /\ runs = 0
  /\ everLow = {}
  /\ lateBy = [p \in Pools |-> {}]
  /\ untracked = {}

At(w, s) == pc' = [pc EXCEPT ![w] = s]

\* The worker is done with GetPoolKeys, with or without the pool itself.
TakeKeys(w) ==
  /\ Go(w, "idle", NoKeys)
  /\ UNCHANGED <<keys, amm, savedBy>>
Leave(w) ==
  /\ Go(w, "idle", NoKeys)
  /\ amm' = [amm EXCEPT ![w] = NoKeys]
  /\ UNCHANGED <<keys, savedBy>>

\* A worker takes a response from txChannel and calls ProcessResponse.
Dispatch(w) ==
  /\ pc[w] = "idle"
  /\ runs < MaxRuns
  /\ \E tx \in Txs : rest' = [rest EXCEPT ![w] = tx]
  /\ swap' = [swap EXCEPT ![w] = NoSwap]
  /\ runs' = runs + 1
  /\ At(w, "next")
  /\ UNCHANGED <<keysVars, stamp, tracker, rows, mutex, chain, lateBy, untracked>>

\* The loop reaches an instruction whose ammId cannot be resolved (lookup
\* table unavailable or too short): the handler returns.
SkipInstr(w) ==
  /\ pc[w] = "next"
  /\ rest[w] # <<>>
  /\ Head(rest[w]).op # "swap"
  /\ rest' = [rest EXCEPT ![w] = Tail(@)]
  /\ UNCHANGED <<keysVars, pc, swap, stamp, tracker, rows, mutex, chain, runs,
                 lateBy, untracked>>

\* A swap is only remembered, the last one wins.
RememberSwap(w) ==
  /\ pc[w] = "next"
  /\ rest[w] # <<>>
  /\ Head(rest[w]).op = "swap"
  /\ swap' = [swap EXCEPT ![w] = Head(rest[w]).pool]
  /\ rest' = [rest EXCEPT ![w] = Tail(@)]
  /\ UNCHANGED <<keysVars, pc, stamp, tracker, rows, mutex, chain, runs,
                 lateBy, untracked>>

\* processInitialize2 and processWithdraw are called within the loop.
BeginInit(w) ==
  /\ pc[w] = "next"
  /\ rest[w] # <<>>
  /\ Head(rest[w]).op = "initialize2"
  /\ amm' = [amm EXCEPT ![w] = Head(rest[w]).pool]
  /\ rest' = [rest EXCEPT ![w] = Tail(@)]
  /\ At(w, "initStatus")
  /\ UNCHANGED <<keys, step, found, savedBy, swap, stamp, tracker, rows, mutex,
                 chain, runs, lateBy, untracked>>

BeginWithdraw(w) ==
  /\ pc[w] = "next"
  /\ rest[w] # <<>>
  /\ Head(rest[w]).op = "withdraw"
  /\ Ask(w, Head(rest[w]).pool)
  /\ rest' = [rest EXCEPT ![w] = Tail(@)]
  /\ untracked' = untracked \ {Head(rest[w]).pool}
  /\ At(w, "withdraw")
  /\ UNCHANGED <<swap, stamp, tracker, rows, mutex, chain, runs, lateBy>>

\* After the loop: processSwapBaseIn, unless no swap was seen or one of its
\* accounts cannot be resolved.
BeginSwap(w) ==
  /\ pc[w] = "next"
  /\ rest[w] = <<>>
  /\ swap[w] # NoSwap
  /\ Ask(w, swap[w])
  /\ At(w, "swap")
  /\ UNCHANGED <<rest, swap, stamp, tracker, rows, mutex, chain, runs, lateBy,
                 untracked>>

EndRun(w) ==
  /\ pc[w] = "next"
  /\ rest[w] = <<>>
  /\ At(w, "idle")
  /\ UNCHANGED <<keysVars, rest, swap, stamp, tracker, rows, mutex, chain, runs,
                 lateBy, untracked>>

\* A step inside GetPoolKeys.
KeysStep(w) ==
  /\ pc[w] \in {"withdraw", "swap"}
  /\ Advance(w)
  /\ UNCHANGED trackVars

\* GetPoolKeys returned an error: the handler returns.
KeysRefused(w) ==
  /\ step[w] = "refused"
  /\ Leave(w)
  /\ At(w, IF pc[w] = "withdraw" THEN "next" ELSE "idle")
  /\ UNCHANGED <<rest, swap, stamp, tracker, rows, mutex, chain, runs, lateBy,
                 untracked>>

-----------------------------------------------------------------------------
(* processInitialize2                                                      *)

\* mutant of InitStatus: pause whatever the status is
InitStatusUnchecked(w) ==
  /\ pc[w] = "initStatus"
  /\ At(w, "initPause")
  /\ UNCHANGED <<keysVars, rest, swap, stamp, tracker, rows, mutex, chain, runs,
                 lateBy, untracked>>

\* GetAmmTrackingStatus: on an error or any other status there is nothing to do.
InitStatus(w) ==
  /\ pc[w] = "initStatus"
  /\ \/ /\ tracker[amm[w]] \in {"TRIGGER_ONLY", "BOTH"}
        /\ At(w, "initPause")
        /\ UNCHANGED keysVars
     \/ Leave(w) /\ At(w, "next")
  /\ UNCHANGED <<rest, swap, stamp, tracker, rows, mutex, chain, runs, lateBy,
                 untracked>>

\* "Untracked because of initialize2" is logged, then PauseAmmTracking, whose
\* HSet error is dropped.
InitPause(w) ==
  /\ pc[w] = "initPause"
  /\ \/ /\ tracker' = [tracker EXCEPT ![amm[w]] = "PAUSE"]
        /\ lateBy' = [lateBy EXCEPT ![amm[w]] = {}]
     \/ RedisFails /\ UNCHANGED <<tracker, lateBy>>
  /\ untracked' = untracked \cup {amm[w]}
  /\ Leave(w)
  /\ At(w, "next")
  /\ UNCHANGED <<rest, swap, stamp, rows, mutex, chain, runs>>

-----------------------------------------------------------------------------
(* processWithdraw                                                         *)

\* The other vault of a pool holds its rent only.
IsLow(p, vault) == vault = SolSide[p] => p \in low

\* After the keys and half a second: GetPoolSolBalance.  No mint, an RPC
\* error or a balance above one SOL end the handler.
CheckReserve(w) ==
  /\ pc[w] = "withdraw"
  /\ step[w] = "answered"
  /\ \/ /\ HasMint(found[w], amm[w])
        /\ IsLow(amm[w], SolVault(found[w], amm[w]))
        /\ TakeKeys(w)
        /\ At(w, "track")
     \/ Leave(w) /\ At(w, "next")
  /\ UNCHANGED <<rest, swap, stamp, tracker, rows, mutex, chain, runs, lateBy,
                 untracked>>

\* mutant of Track: Status left at its zero value and not validated
TrackNoStatus(w) ==
  /\ pc[w] = "track"
  /\ tracker' = [tracker EXCEPT ![amm[w]] = ""]
  /\ Leave(w)
  /\ At(w, "next")
  /\ UNCHANGED <<rest, swap, stamp, rows, mutex, chain, runs, lateBy, untracked>>

\* TrackedAmm: the status is overwritten, whatever it is by now.
Track(w) ==
  /\ pc[w] = "track"
  /\ \/ tracker' = [tracker EXCEPT ![amm[w]] = "TRIGGER_ONLY"]
     \/ RedisFails /\ UNCHANGED tracker
  /\ Leave(w)
  /\ At(w, "next")
  /\ UNCHANGED <<rest, swap, stamp, rows, mutex, chain, runs, lateBy, untracked>>

-----------------------------------------------------------------------------
(* processSwapBaseIn                                                       *)

\* GetMint: a pool without wrapped SOL, or with zeroed keys, is not recorded.
SwapMint(w) ==
  /\ pc[w] = "swap"
  /\ step[w] = "answered"
  /\ IF HasMint(found[w], amm[w])
     THEN TakeKeys(w) /\ At(w, "swapStatus")
     ELSE Leave(w) /\ At(w, "idle")
  /\ UNCHANGED <<rest, swap, stamp, tracker, rows, mutex, chain, runs, lateBy,
                 untracked>>

\* mutants of SwapStatus: no status check at all; paused pools recorded too
SwapStatusUnchecked(w) ==
  /\ pc[w] = "swapStatus"
  /\ At(w, "lock")
  /\ UNCHANGED <<keysVars, rest, swap, stamp, tracker, rows, mutex, chain, runs,
                 lateBy, untracked>>
SwapStatusAnyEntry(w) ==
  /\ pc[w] = "swapStatus"
  /\ IF tracker[amm[w]] # "NOT_TRACKED"
     THEN At(w, "lock") /\ UNCHANGED keysVars
     ELSE Leave(w) /\ At(w, "idle")
  /\ UNCHANGED <<rest, swap, stamp, tracker, rows, mutex, chain, runs, lateBy,
                 untracked>>

\* GetAmmTrackingStatus with its error dropped (see NilTracker).
SwapStatus(w) ==
  /\ pc[w] = "swapStatus"
  /\ IF tracker[amm[w]] = "TRIGGER_ONLY"
     THEN At(w, "lock") /\ UNCHANGED keysVars
     ELSE Leave(w) /\ At(w, "idle")
  /\ UNCHANGED <<rest, swap, stamp, tracker, rows, mutex, chain, runs, lateBy,
                 untracked>>

\* mutant of Lock: SetTrade without dbMutex
LockSkipped(w) ==
  /\ pc[w] = "lock"
  /\ stamp' = [stamp EXCEPT ![w] = now]
  /\ At(w, "insert")
  /\ UNCHANGED <<keysVars, rest, swap, tracker, rows, mutex, chain, runs, lateBy,
                 untracked>>

\* SetTrade: dbMutex.Lock, then the timestamp is taken.
Lock(w) ==
  /\ pc[w] = "lock"
  /\ mutex = Free
  /\ mutex' = w
  /\ stamp' = [stamp EXCEPT ![w] = now]
  /\ At(w, "insert")
  /\ UNCHANGED <<keysVars, rest, swap, tracker, rows, chain, runs, lateBy, untracked>>

\* the row is inserted
Inserted(w) ==
  /\ rows' = Append(rows, [pool |-> amm[w], ts |-> stamp[w]])
  /\ lateBy' = IF tracker[amm[w]] = "PAUSE"
               THEN [lateBy EXCEPT ![amm[w]] = @ \cup {w}] ELSE lateBy

\* mutant of Insert: an early return that leaves dbMutex locked
InsertKeepsLock(w) ==
  /\ pc[w] = "insert"
  /\ \/ Inserted(w) /\ mutex' = Free
     \/ UNCHANGED <<rows, lateBy, mutex>>
  /\ Leave(w)
  /\ At(w, "idle")
  /\ UNCHANGED <<rest, swap, stamp, tracker, chain, runs, untracked>>

\* The INSERT, its error logged and dropped; the deferred Unlock.
Insert(w) ==
  /\ pc[w] = "insert"
  /\ mutex' = Free
  /\ Inserted(w) \/ UNCHANGED <<rows, lateBy>>
  /\ Leave(w)
  /\ At(w, "idle")
  /\ UNCHANGED <<rest, swap, stamp, tracker, chain, runs, untracked>>

-----------------------------------------------------------------------------
(* Process and surroundings                                                *)

\* The process dies and is started again: redis, MySQL and the chain stay.
Restart ==
  /\ DropCalls
  /\ pc' = [w \in Workers |-> "idle"]
  /\ rest' = [w \in Workers |-> <<>>]
  /\ swap' = [w \in Workers |-> NoSwap]
  /\ stamp' = [w \in Workers |-> 0]
  /\ mutex' = Free
  /\ UNCHANGED <<tracker, rows, chain, runs, lateBy, untracked>>

\* A redis error in GetAmmTrackingStatus leaves a nil tracker, which the swap
\* handler dereferences: the panic takes the whole process down.
NilTracker(w) ==
  /\ pc[w] = "swapStatus"
  /\ Restart

\* DELETE on the trade API: TRUNCATE, without dbMutex.
DeleteAll ==
  /\ rows' = <<>>
  /\ UNCHANGED <<keysVars, job, tracker, mutex, chain, runs, lateBy, untracked>>

Tick ==
  /\ now < MaxTime
  /\ now' = now + 1
  /\ UNCHANGED <<keysVars, job, tracker, rows, mutex, low, everLow, runs, lateBy,
                 untracked>>

\* Liquidity leaves and comes back on chain.
Drain(p) ==
  /\ low' = low \cup {p}
  /\ everLow' = everLow \cup {p}
  /\ UNCHANGED <<keysVars, job, tracker, rows, mutex, now, runs, lateBy, untracked>>
Refill(p) ==
  /\ low' = low \ {p}
  /\ UNCHANGED <<keysVars, job, tracker, rows, mutex, now, everLow, runs, lateBy,
                 untracked>>

\* One step of a run of ProcessResponse.
Work(w) ==
  \/ SkipInstr(w) \/ RememberSwap(w) \/ BeginInit(w) \/ BeginWithdraw(w)
  \/ BeginSwap(w) \/ EndRun(w) \/ KeysStep(w) \/ KeysRefused(w)
  \/ InitStatus(w) \/ InitPause(w)
  \/ CheckReserve(w) \/ Track(w)
  \/ SwapMint(w) \/ SwapStatus(w) \/ Lock(w) \/ Insert(w)

Next ==
  \/ \E w \in Workers : Dispatch(w) \/ Work(w) \/ NilTracker(w)
  \/ \E p \in Pools : Drain(p) \/ Refill(p)
  \/ DeleteAll \/ Tick \/ Restart

Spec == Init /\ [][Next]_vars

-----------------------------------------------------------------------------
(* Properties                                                              *)

\* A pool has an entry only when its SOL vault was seen at one SOL or less:
\* whatever keys the withdraw handler was given, it read the right vault.
TrackedWasDrained == \A p \in Pools : tracker[p] # "NOT_TRACKED" => p \in everLow

\* A trade is recorded only of a pool that has been tracked, whatever happened
\* to its status while the swap handler was on its way.
RowsOnlyForTracked ==
  \A i \in 1..Len(rows) : tracker[rows[i].pool] # "NOT_TRACKED"

\* The table is in timestamp order: dbMutex covers the stamp and the INSERT.
RowsInTimeOrder ==
  \A i, j \in 1..Len(rows) : i < j => rows[i].ts <= rows[j].ts

\* dbMutex is held by the worker at its INSERT and by nobody else: whatever
\* fails, and whenever the process dies, no run leaves it locked behind it.
HolderInserts == \A w \in Workers : mutex = w <=> pc[w] = "insert"

\* Swap handlers that read the status before a pause still record, but no
\* worker does so twice: at most one late trade per worker.
OneLateRowPerWorker ==
  \A p \in Pools, w \in Workers :
    tracker[p] = "PAUSE" /\ w \in lateBy[p]
      => ~(amm[w] = p /\ pc[w] \in {"lock", "insert"})

\* Every run ends: dbMutex is released on each path of SetTrade.
RunsEnd == \A w \in Workers : pc[w] # "idle" ~> pc[w] = "idle"

Phase(s) == IF s = "NOT_TRACKED" THEN "new"
            ELSE IF s = "PAUSE" THEN "paused" ELSE "tracked"

Ledger == INSTANCE TradeLedger WITH
            Times   <- 0..MaxTime,
            drained <- everLow,
            phase   <- [p \in Pools |-> Phase(tracker[p])],
            ledger  <- rows

\* The handlers together keep what module TradeLedger promises.
ImplementsLedger == Ledger!LedgerSpec

\* process.go:182 ("Untracked because of initialize2"): a pool reported as
\* untracked is not tracked until a later withdraw asks for it.
UntrackedIsNotTracked == \A p \in untracked : tracker[p] # "TRIGGER_ONLY"

=============================================================================
