# lp-remove-tracker: TLA+ models and proofs

The program subscribes to two Geyser gRPC streams of Solana transactions,
watches Raydium AMM pools for the removal of their liquidity, and from then on
records the swaps of such a pool in MySQL, until the pool is initialised again.
An HTTP API reads the recorded trades and can delete them all. Pool keys, lookup
tables and the tracking status of pools live in redis.

There are no tests and no design documents in the repository, so everything
below is read from the code; line numbers are those of `src/`.

## 1. The system

| Component | Code | State it keeps | Operations | Interacts by |
|---|---|---|---|---|
| Transaction intake | `main.go`, `generators/grpc.go` | the streams, the unbuffered `txChannel`, the `processed` map, one timer per finished run | subscribe, receive, hand over, Load, Store, process, arm a timer, expire | two listeners send on the channel that 2·CPU workers range over; a worker calls `ProcessResponse` |
| Instruction handlers | `library/process.go`, `library/tracker.go`, `library/trade.go`, `storage/tracker.go`, `storage/trade.go` | redis: status of a pool; MySQL: the trade table; `dbMutex` | the loop over instructions, initialize2, withdraw, swap, `SetTrade`, delete all | calls pool keys, lookup tables, RPC, redis and MySQL |
| Pool keys cache | `liquidity/poolkeys.go`, `storage/poolkeys.go` | redis: keys of a pool | HGet, fetch liquidity, fetch market, HSet | called by the withdraw and swap handlers |
| RPC client | `rpc/rpc.go` | none | one HTTP call each, without a timeout | called by pool keys, handlers, lookup tables |
| Address lookup tables | `library/lookup.go`, `storage/lookup.go`, `getPublicKeyFromTx` | redis: a copy of a table | number the loaded accounts, get, fetch, store, pick | called by every handler to resolve an account |
| Transaction decoding | the body of `ProcessResponse`, `coder/`, `library/transaction.go` | locals of one call | decode compute, transfer and AMM instructions; find the vault's balances | gives the swap handler what a trade is made of |
| Trade HTTP API | `handler/`, `utils/`, `storage/trade.go` | the trade table (shared) | search, list, delete all | reads and truncates the table the handlers write |
| Database and redis connections | `adapter/`, `database/init.go`, `storage/storage.go` | connection pools | connect, create, USE, migrate | used by every store |
| WebSocket client | `generators/wsclient.go`, `rpc/wsrpc.go` | one connection, a subscription | connect, send, read, reconnect | no caller |
| Broadcast pool, token chunks | `pool/bloxroute.go`, `library/chunk.go` | a wait group; redis | broadcast; get, set | no caller; the pool does not compile at this commit |

What is hard about it:

* **Two deliveries of one transaction.** Both streams carry it; `Load` and
  `Store` of `processed` are two calls, and each run deletes the mark a minute
  later, whoever set it.
* **No lock over status and step.** The handlers read the status or a balance,
  then act; several workers do so on one pool, and a withdraw sleeps half a
  second and makes several RPC calls in between.
* **Errors that look like answers.** A failed account fetch is a zeroed state
  with a nil error, and is then cached. Errors of HSet and of INSERT are dropped.
* **Panics and restarts.** Nothing recovers: one nil pointer or short slice ends
  the process with all its runs, while redis and MySQL keep what they have.
* **Caches that are never refreshed**, of pools and of tables that grow.
* **One `USE` for a pool of connections.** The database is selected on the one
  connection that happened to run the statement; any other connection of the
  `sql.DB` has none, unless the DSN names it.
* **Widths and positions** in the decoding of a transaction.

`PROJECT.json` lists each hazard at its line, with the properties aimed at it.

## 2. Modules

| Module | Models | Used by |
|---|---|---|
| `Ingest` | intake; `ProcessResponse` is the interval from Store to Finish | |
| `PoolKeys` | `GetPoolKeys`, `GetMint`, the choice of vault in `GetPoolSolBalance` | extended by `Tracker` |
| `TradeLedger` | abstract: what the two stores promise their readers | instantiated by `Tracker` |
| `Tracker` | `ProcessResponse` by several workers, redis, MySQL, chain, clock | |
| `LookupTables` | resolution of a loaded account | |
| `TxDecode` | what the loop of `ProcessResponse` gathers for a trade | |
| `System` | the program from the streams to the trade table: the intake with `ProcessResponse` as its run | extends `Tracker`, instantiates `Ingest` |
| `DbPool` | the start of `main()` and the one `sql.DB`: its idle connections, which of them have the database | extended by `TradeApi` |
| `TradeApi` | search, DELETE and INSERT on that pool, their queries and answers | |
| `MCPoolKeys`, `MCTracker`, `MCLookupTables`, `MCTxDecode`, `MCSystem`, `MCTradeApi` | constants of the TLC instances | |
| `SequenceLemmas` | lemmas about sequences: what FlattenSeq returns, counting, induction up to a bound | extended by `LookupProofs` and `TradeApiProofs` |
| `IngestProofs`, `PoolKeysProofs`, `TrackerProofs`, `SystemProofs`, `TradeApiProofs`, `LookupProofs`, `TxDecodeProofs` | theorems | |

### Ingest

`lpc`/`held` is a listener goroutine (`recv` in `stream.Recv`, `send` blocked at
`txChannel <-`), `wpc`/`wsig` a worker (`range`, `load`, `store`, `process`,
`arm`), `processed` the keys of the `sync.Map`, `timers` the pending
`time.AfterFunc`s. `Take` is the rendezvous on the unbuffered channel. A panic
(`Panic` in a handler, `RecvPanics` in a listener) ends the process: `Die`
forgets all memory and `Restart` is the operator's. `RecvFails` is what the code
does on a dead stream: the error is dropped, the loop goes round. `raced` is
history: the signatures of which two deliveries passed the Load together. `Return`
models the deferred `close` which both listeners would run on the same channel;
the loop has no way to reach it (`LoopErr`), and `EveryReceivedIsTaken` is broken
as soon as it gets one.

### PoolKeys

A caller goes `lookup` → `liquidity` → `market` → `save`; each step is one
redis or RPC call and other callers interleave. Keys are `complete`,
`marketless` or `empty`, which is all that `GetMint`, `GetPoolSolBalance` and
the cache tell apart. A stored entry always counts as a hit.

### Tracker

Extends `PoolKeys`: the same `Workers` are callers, so a run is in `GetPoolKeys`
exactly while its `pc` is `withdraw` or `swap`. `rest` holds the instructions the
loop has not reached, `swap` the last SwapBaseIn (`isProcess`, `ix`), handled
after the loop (`EndRun`, `BeginSwap`). Each redis, MySQL or RPC access is a step
of its own; `Lock` takes `dbMutex` and the timestamp, `Insert` inserts and
releases. An HSet of a status may be lost, an INSERT may fail, `NilTracker` is
the nil dereference at `process.go:284`. Two of the four statuses are never
written: no reachable code stores TRACKED_BOTH or NOT_TRACKED, and NOT_TRACKED is
what a missing entry reads as. `UntrackedAmm`, `GetAllTrackedAmm` and
`GetAllTracked` have no caller.

`TradeLedger` is the promise: tracked only after drained, paused only after
tracked, rows only for such pools and in time order, the table may be emptied.
The refinement maps `everLow` to `drained`, the status to a phase and `rows` to
the ledger.

### LookupTables

One resolution is `get` → `fetch` → `store` → `pick`. `GenerateTableLookup` is the
program's numbering of the loaded keys and `LoadedAddresses` the runtime's. A
transaction only refers to addresses its tables held when it was executed, and
loads none of them twice (`LookupAssumption`; the runtime refuses it otherwise);
tables only grow; the RPC node may answer with an older length.

### TxDecode

One call of `ProcessResponse` on one transaction, restricted to the locals it
keeps for the trade: compute limit and price, tip, last swap; then amount and
action from the token balances. The Initialize2 and Withdraw handlers and the
status check before the trade are those of `Tracker`, so `trade` here is the
trade recorded if the pool is tracked. A u64 has two words of size `Word`; of
the price the program reads one, and the lamports of a transfer it reads into an
int64 (`DecodeTransfer`), so that a number in the upper half would come out
negative. `Txs` may be any transactions the streams can deliver:
`DecodeAssumption` says what that is (lists of the lengths the runtime accepts,
balances that agree with the accounts).

### System

The workers of `Ingest` call the `ProcessResponse` of `Tracker`. `Start` is
`Ingest`'s Store joined with `Tracker`'s `Dispatch` of that transaction, `Return`
is `Finish`, possible once the run is over; `Process` is one step of the run
(`Work`). `ProcessDies` is any panic, of a listener or inside a run: memory of
both halves is gone, redis and MySQL stay. Streams, timers and hand-over leave the
handlers alone (`Apart`), the chain, the clock and DELETE leave the intake alone
(`Around`). `recorded` counts the rows of a signature per worker until its first
timer fires. The two properties `ImplementsIngest` and `ImplementsTracker` are the
interface: the interval that `Ingest` takes a run to be really is one, and the runs
that `Tracker` lets come from nowhere may be those the intake lets through.

### DbPool

`boot` is the statement `main()` is at, from the redis pings to `ListenAndServe`,
each of which may fail. `log.Fatal` ends the process (`BootFails`) up to the gRPC
clients; a failed `ListenAndServe` does not, and leaves a program without an API
(`headless`). `idle` is `sql.DB`'s list of free connections, latest last, at most
two, TRUE where the database is selected; `conn` is what each caller holds.
`Borrow` takes the latest idle connection or opens one, which has the database
only if the DSN names it; `GiveBack` keeps it or closes it; `Lose` and `IdleEnds`
are the server's. `database/sql` and MySQL are not in the repository and are
modelled from the calls made to them.

### TradeApi

A client goes `prepare` → `preparing` → `run` → `running` → `reading`; the first
two are `PrepareContext`, which gives its connection back, and the rest
`QueryContext`, which takes one again; DELETE is the same without the rows. `Writer`
is the goroutine in `SetTrade`, one at a time under `dbMutex`. `RowsCut` is the
connection lost while rows arrive, which the code answers with 200 as it does not
ask `rows.Err`. A query is what `BuildSearchQuery` makes of a filter, `Execute`
what MySQL does with it (`Scan` the table row by row, then LIMIT and OFFSET) and
`Parses` what MySQL refuses. `Page` says the same without a scan: the rows whose
rank among the matching ones is after `offset` and within `limit`, where a number
that is not positive counts as none, as in the code. `Fits` is the numeric columns of
`migrations/trade.sql`, INT and BIGINT: MySQL in its default, strict mode refuses
a row with a number out of range. `Scan` and `PublicKeyFromBase58` (`storage/trade.go:79-93`)
cannot fail on rows that `SetTrade` wrote, and nothing else writes any.
`seen`, `cut`, `emptied` and `lost` are history, so that
an answer can be compared with the table it was taken from.

## 3. What the runs check

| Run | Instance | Shows |
|---|---|---|
| `ingest` | 2 listeners, 2 workers, 2 signatures, 4 receptions | no delivery is dropped in favour of a run that never happens (`NoSilentDrop`), only after two deliveries passed the Load together can a timer delete the mark of another run (`MarkIsOfOneRun`), marks do not leak (`NoMarkLeak`, `MarksAreReleased`), the Load/Store race costs at most one run per worker (`RunOncePerWorker`), one dead stream does not stop the other (`EveryReceivedIsTaken`) |
| `ingest_dead_stream` | 2 listeners, 1 signature | **violation**: a stream that fails does not end the receive loop |
| `poolkeys` | 2 callers, 2 pools | unlocked fills are bounded by one per caller; calls return; keys stored from a failed fetch are permanent |
| `poolkeys_stored` | the same | **violation**: keys are stored that were never fetched |
| `tracker_safety` | 2 workers, 1 pool, 4 runs, crashes, lost writes | rows in time order, `dbMutex` never left locked (`HolderInserts`), at most one late row per worker, refinement of `TradeLedger` |
| `tracker_pools` | 2 workers, 2 pools, transactions of 2 instructions | a pool is tracked only if its own SOL vault was low; rows only of pools with an entry |
| `tracker_untracked` | redis never fails | **violation**: a pool reported as untracked is tracked again by a withdraw already under way |
| `lookup` | 2 workers, 2 growing tables, 3 shapes of lookups | an answer is the account the runtime loaded if the tables are aligned; the two numberings agree exactly then; an outdated copy stays outdated |
| `lookup_stored` | 1 table | **violation** of the TODO at `lookup.go:19`: tables are stored |
| `tx_decode` | every order of up to 3 of 12 instructions, 4 sets of balances, 2 sets of keys | the trade is that of the last swap, its limit exact and its price exact modulo a word, its tip the last plain transfer to bloXroute, its amount the change of the pool's vault, each under the named condition |
| `system` | 1 listener, 2 workers, 1 transaction of three instructions delivered twice, panics | a worker records a transaction once (`RecordedOncePerWorker`), only the death of the process keeps a delivery from a run that ends, if only on a handler's error (`LostOnlyByDeath`), every run ends (`RunsEnd`), refinement of `Ingest` and of `Tracker` |
| `trade_api` | 2 clients and `SetTrade`, 4 trades, 2 filters, both kinds of DSN, MySQL with and without the schema | transactions and requests meet a complete schema (`ServesWithSchema`), the connection `USE` was sent on is enough while it is the only one, where a trade is lost only if a column cannot hold it (`FirstConnectionSuffices`); once gone it is never replaced (`LostDatabaseStaysLost`), an answer is a page of the table at one moment (`AnswersArePages`) |

The four violations are the `findings` of `PROJECT.json`, with the lines they
contradict.

### Bounds

* Two listeners and two workers are what every race here needs: each hazard
  listed is one actor acting between two steps of one other. The properties
  proved hold for any number.
* `MaxReceived = 4` lets a signature arrive on both streams, expire and arrive
  again while the first run's second timer is pending.
* `MaxRuns` 3 or 4 gives withdraw, swap, initialize2 and one more run racing
  them. `MaxTime = 1` gives two timestamps, enough to invert an order.
* `MaxSize = 2` gives a table before and after growth.
* Three instructions suffice for `tx_decode`: its properties relate the trade to a
  swap and at most two others (two tips, two swaps, limit and price). `Word = 4`
  has values below and above the word.
* `system` has one transaction with initialize2, withdraw and swap, so that the
  first run tracks the pool and the second, of the other delivery, meets it
  tracked: both can record it, pause it and queue for `dbMutex`. One listener
  delivers twice: for the workers the two deliveries are those of two streams, and
  `ingest` has two. The clock stands still (`MaxTime = 0`), as order in time is
  checked in `tracker_safety`, and redis answers (`RedisFails = FALSE`; a panic may
  come at any step of a run all the same).
* `trade_api` has two clients and a writer, so that all idle connections can be in
  use and a third is opened, which does not fit in the pool again. `IntMax = 1` and
  `BigMax = 2`, with trades whose numbers are at the end of a column and one past it,
  and `MaxRows = 3` with a filter of LIMIT 1 OFFSET 1 make refused
  rows and pages in the middle of the table.
* Symmetry is used on workers in `tracker_safety`, `tracker_pools` and `lookup`
  and on clients in `trade_api`, none of which checks liveness.

`tx_decode` switches the deadlock check off: a call ends. Everywhere else the
system keeps going, or at least the chain does, and the check is on.

### Fairness

* `Ingest`: workers and timers are scheduled (weak). `Take` is strongly fair per
  listener: the Go runtime queues blocked senders first-in first-out, and a
  worker that comes back to `range` serves the queue's head. Nothing is assumed of
  the streams, and `ProcessResponse` is assumed to return or panic.
* `PoolKeys`: redis and the RPC node answer. `http.Client` has no timeout
  (`rpc.go:85`), so this is an assumption about the node; the property then says
  that nothing in the code keeps a call from returning.
* `System`: a worker's goroutine and the timers run (weak), so redis, MySQL and
  the RPC node answer. Strong fairness is asked twice: of `Take`, as above, and of
  the step that takes `dbMutex`, as a `sync.Mutex` in starvation mode is handed to
  the goroutine that waits longest. Nothing is assumed of `ProcessResponse`: that a
  run ends, which `Ingest` takes for granted, is `RunsEnd` here. A panic is
  always possible and never due.
* `Tracker` and `TradeApi` are checked for safety only.

## 4. What is proved

All theorems hold for every value of the constants under the `ASSUME`s of the
modules.

| Theorem | Statement |
|---|---|
| `IngestTypes`, `NeverDroppedUnprocessed`, `MarksAlwaysHaveATimer`, `AtMostOneRunPerWorker`, `MarksAreOfOneRun` | `TypeOK`, `NoSilentDrop`, `NoMarkLeak`, `RunOncePerWorker`, `MarkIsOfOneRun` of `Ingest` |
| `PoolKeysTypes`, `OneFillPerCaller` | `KeysTypeOK`, `SavesOncePerCaller` of `PoolKeys` |
| `TrackerTypes`, `TrackerOneFillPerWorker` | `TypeOK` of `Tracker`, and the bound on fills inside it |
| `OnlyDrainedAreTracked`, `OnlyTrackedAreRecorded`, `LateRowsAreBounded`, `RowsAreInTimeOrder`, `MutexIsGivenBack` | the five safety invariants of `Tracker` |
| `TrackerImplementsLedger` | `Tracker` implements `TradeLedger` |
| `SystemImplementsTracker`, `SystemImplementsIngest` | `System` implements both its parts |
| `SystemTypes`, `SystemRecordsOncePerWorker` | `SysTypeOK`, `RecordedOncePerWorker` of `System` |
| `SystemRowsInTimeOrder`, `SystemNeverDropsUnprocessed` | `RowsInTimeOrder` and `NoSilentDrop` for the whole program |
| `SystemNeverLeaksMarks`, `SystemMarksAreOfOneRun`, `SystemImplementsLedger`, `SystemLateRowsAreBounded` | `NoMarkLeak`, `MarkIsOfOneRun`, `ImplementsLedger` and `OneLateRowPerWorker` for the whole program |
| `LookupTypes`, `RuntimeOrderIffAligned`, `AnswersAreLoaded` | the three invariants of `LookupTables`, for transactions that load any number of accounts |
| `TradeApiTypes`, `AnswersAreThePages` | `TypeOK` and `AnswersArePages` of `TradeApi` |
| `SelectIsPage`, `PagesTile` | the SELECT written for a filter returns `Page`, for every table, terms, LIMIT and OFFSET; consecutive pages, taken while rows are added, are one page of both lengths |
| `AlwaysServesWithSchema`, `FirstConnectionIsEnough`, `DatabaseLostForGood`, `PoolTypes` | `ServesWithSchema`, `FirstConnectionSuffices`, `LostDatabaseStaysLost` of `TradeApi`, `PoolTypeOK` of `DbPool` |
| `PoisonStays`, `OutdatedForEver` | the action properties `PoisonIsPermanent` of `PoolKeys`, `OutdatedStaysOutdated` of `LookupTables` |
| `DecodeTypes`, `TradeIsOfLastSwap`, `ComputeIsAsCharged`, `TipIsOfLastTransfer`, `AmountIsOfVault` | the five invariants of `TxDecode`, for transactions of any length |

**Ingest** (`MarksInv`). `RunOncePerWorker` is not inductive: nothing in it keeps
a worker that ran a signature from finding it unmarked. What does is that a
signature which ran, or is running, stays marked until one of its timers fires
(`MarkedUntilExpired`); after that the property makes no claim. `NoSilentDrop` and
`NoMarkLeak` go along in the same induction. `MarkIsOfOneRun` has one of its own
(`RaceInv`): a signature that never raced has one worker between its Load and its
timer, or one timer pending, or neither; the worker has its mark from Store on, and
so has the timer, which is why the next worker to find no mark finds none of the
other two.

**PoolKeys** (`KeysIInv`). A caller that saved is not filling again because what
it saved is still there (`SavedIsStored`: redis entries are never removed), so
its next lookup hits.

**Tracker**. `TypeInv` adds that a worker is inside `GetPoolKeys` only in the two
states that call it. `StatusInv` ties a worker's position to the pool's status:
one that is about to pause, lock or insert works on a pool with an entry, one
about to track on a pool that was low, and none of these can be undone, since no
step removes an entry or a member of `everLow`. `QuietSteps` collects the steps
that touch none of that state. `OrderInv` says that only the mutex's holder is in
`insert`, that its stamp is at most `now` and at least every row's. With both,
each step of `Tracker` is a step of `TradeLedger` or a stutter (`LedgerStep`).

**System**. Each of its steps is a step of each part or a stutter (`TrackerStep`,
`IngestStep`), which carries every theorem about a part over to the program;
`IngestProofs` is taken by INSTANCE, as it names its actions like `Tracker` does.
`LinkInv` adds that a worker is inside a run only between Store and Finish.
`RecordedOncePerWorker` is not inductive: a worker could be inside a second run of
what it has recorded. `RecordedInv` says why not: it has then run that
transaction, or is about to return from that run, and `RunOncePerWorker` of the
intake excludes another.

**TradeApi**. `SchemaInv` gives each step of `main()` the part of the schema that
the steps before it have made, in this start or an earlier one.
`FirstConnectionSuffices` needs that no connection without the database gets into
the pool: `FirstInv` says that until a connection is lost or two callers overlap
there is one connection in all, idle or held, with the database; `ConnInv` that a
caller holds one exactly in the states between `Borrow` and `GiveBack`; `FailInv`
that requests in flight are what their clients asked for.

`SelectIsPage` compares the scan with the count: what a scan has found in the
first n rows has as its i-th element the row whose rank is i (`ScanCounts`), so
that cutting it at OFFSET and LIMIT takes the rows whose ranks those bounds
select (`ExecuteAt`). A scan of a longer table continues that of its first rows
(`ScanOfPrefix`), so an answer stays a prefix of its page while rows are added
(`ExecuteOfPrefix`) and a full page stays what it was (`PagesTile`).
`AnswersArePages` is not inductive, as nothing in it speaks of rows still on their
way; `RowsInv` says that those are what the search returns of the first `seen`
rows, that these rows are still in the table unless `emptied`, and that a
statement which runs has been parsed.

**LookupTables**. The program numbers the loaded accounts table by table, the
runtime first the writable ones of all tables and then the read-only ones. If the
tables are aligned, each prefix of the program's order is the two prefixes of the
runtime's joined, as a table with writable keys has no read-only key in front of
it (`AlignedOrder`). If not, some read-only key precedes a writable key of a later
table in the program's order and follows it in the runtime's; `FlattenAt` says at
which place of a flattened list each part begins, and since no account is loaded
twice the two lists differ (`MisalignedOrder`). `AnswerInv` adds to the types that
an answer is the key its worker was asked for.

**Induction over data**. The library's induction theorems cannot be used, as they
take an operator. `UpTo` of `SequenceLemmas` takes a set instead: a set that holds
0, and with n < m also n + 1, holds 0..m, from the least element of its complement.
A scan, a flattening or a count is then a function on 0..m, its recursive definition
is shown to have a solution step by step, and a fact about each of its values is such
a set.

**Final copies and keys** (`OutdatedForEver`, `PoisonStays`). A step that leaves an
outdated copy, or keys of a failed fetch, in redis leaves nobody about to overwrite
it, since who is about to store has missed the entry. `CopiesInv` and `KeysIInv`
give the types this needs.

**TxDecode** (`LoopInv`). What the locals hold is what the prefix read so far says:
`swap` is the last swap of the prefix, limit and price are those of its last
compute instructions, `tip` is its last plain transfer. Each property is `LoopInv`
at the end of the loop. That the first balance found is the only one with that mint
and owner takes the least index of the list (`FirstIsMin`, by well-founded
induction on the naturals).

**Assumptions the model makes of the world**: the clock does not go back; an
INSERT that reports an error has applied or has not by the time it is reported;
redis applies one command at a time; the runtime executed a transaction before
it is delivered, so its instructions and balances are consistent
(`DecodeAssumption`); MySQL is in strict mode, its default; MySQL
scans a table without an index in the order of insertion.

**Only model-checked**: the five properties that are temporal under fairness
(`EveryReceivedIsTaken`, `MarksAreReleased`, `CallsReturn`, `RunsEnd`,
`LostOnlyByDeath`), as liveness is beyond the prover used here. Every invariant,
action property and refinement that a run checks and that holds is also a theorem.
The four violations are TLC's alone.

## 5. Not modelled, and why

* WebSocket client, broadcast pool, token chunks: no caller in the program. The
  client closes its connection as soon as it is built, the pool does not compile at
  this commit; a model would describe code that never runs.
* `UntrackedAmm`, `GetAllTrackedAmm`, `SetLookupTable`, `GetLatestBlockhash`, the
  trade `List` and other functions without a caller.
* Filters that do not decode or name no column: they are answered at once and
  change nothing. The JSON of an answer.
* Binary layouts of pool and market accounts, key parsing, logging,
  configuration, type declarations: data without control.

## 6. Plan

Done: `Ingest`, `PoolKeys`, `TradeLedger`, `Tracker`, `LookupTables`, `TxDecode`,
`DbPool`, `TradeApi`, `System`, and the proof of every safety property and
refinement the runs check.

Left, each waiting for something:

1. The WebSocket client, should the program get a caller for it: connect, reader,
   sender and reconnection.
2. The liveness properties, with a prover that reasons about ENABLED.
3. `TradeApi` joined to `System`: the writer would then be the worker that holds
   `dbMutex`. The two share the table and nothing else, and each lets the other's
   steps happen at any time: `Tracker`'s INSERT may fail and its table may be
   emptied, `TradeApi`'s writer may come at any time.
