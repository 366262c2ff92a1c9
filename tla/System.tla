------------------------------- MODULE System -------------------------------
(***************************************************************************)
(* The program from the streams to the trade table: the workers of module    *)
(* Ingest call ProcessResponse, whose steps are those of module Tracker, in  *)
(* one process that dies with all of both.  A delivery, its run and its row  *)
(* are one history here.                                                    *)
(***************************************************************************)
EXTENDS Tracker

CONSTANTS
  Sources,      \* see Ingest
  Sigs,         \* transaction signatures
  NoSig,        \* "no transaction held"
  MaxReceived,  \* bound: transactions read from all streams together
  TxOf          \* [Sigs -> Txs]: the instructions of a transaction

ASSUME SystemAssumption ==
  /\ NoSig \notin Sigs
  /\ TxOf \in [Sigs -> Txs]
  /\ MaxReceived \in Nat
  /\ MaxReceived <= MaxRuns

VARIABLES
  stream, lpc, held, channel, wpc, wsig, processed, timers, exit, received,
  ranBy, expired, raced,  \* see Ingest
  recorded         \* history: [sig -> [worker -> rows inserted by this process
                   \* before a timer of the signature fired]]

In == INSTANCE Ingest

inVars == <<stream, lpc, held, channel, wpc, wsig, processed, timers, exit,
            received, ranBy, expired, raced>>
sysVars == <<vars, inVars, recorded>>
nothingRecorded == [s \in Sigs |-> [w \in Workers |-> 0]]

SysTypeOK ==
  /\ TypeOK
  /\ In!TypeOK
  /\ recorded \in [Sigs -> [Workers -> Nat]]
  /\ \A w \in Workers : pc[w] # "idle" => wpc[w] = "process"

SysInit == Init /\ In!Init /\ recorded = nothingRecorded

\* Streams, listeners, hand-over, the processed map and its timers: no run moves.
Apart == UNCHANGED <<vars, recorded>>
Receive(l) == (In!Recv(l) \/ In!RecvFails(l) \/ In!StreamBreaks(l)) /\ Apart
Take(l)    == (\E w \in Workers : In!Take(l, w)) /\ Apart
Expire(s)  == In!Expire(s) /\ Apart
Rerun      == In!Restart /\ Apart

\* mutant of Start: the mark is left to the end of the run
StartUnmarked(w) ==
  /\ exit = "no"
  /\ wpc[w] = "store"
  /\ wpc' = [wpc EXCEPT ![w] = "process"]
  /\ UNCHANGED <<stream, lpc, held, channel, wsig, processed, timers, exit,
                 received, ranBy, expired, raced, recorded>>
  /\ Dispatch(w)
  /\ rest'[w] = TxOf[wsig[w]]

\* The mark is stored and ProcessResponse called with the transaction.
Start(w) ==
  /\ In!Store(w)
  /\ Dispatch(w)
  /\ rest'[w] = TxOf[wsig[w]]
  /\ UNCHANGED recorded

\* A step of ProcessResponse; the table is longer when its INSERT has applied.
Process(w) ==
  /\ exit = "no"
  /\ Work(w)
  /\ recorded' =
       IF Len(rows') > Len(rows) /\ wsig[w] \notin expired
       THEN [recorded EXCEPT ![wsig[w]][w] = @ + 1] ELSE recorded
  /\ UNCHANGED inVars

\* mutant of Return: the worker does not wait for ProcessResponse
ReturnAtOnce(w) ==
  /\ In!Finish(w)
  /\ UNCHANGED <<vars, recorded>>

\* ProcessResponse returns to the worker.
Return(w) ==
  /\ pc[w] = "idle"
  /\ In!Finish(w)
  /\ UNCHANGED <<vars, recorded>>

\* What a worker goroutine does on its own.
Worker(w) ==
  \/ (In!Load(w) \/ In!Arm(w)) /\ Apart
  \/ Start(w) \/ Process(w) \/ Return(w)

\* mutant of ProcessDies: a worker's panic is recovered
ProcessDiesRecovered ==
  /\ \E w \in Workers : /\ pc[w] # "idle"
                         /\ At(w, "idle")
                         /\ UNCHANGED <<keysVars, rest, swap, stamp>>
  /\ UNCHANGED <<tracker, rows, mutex, chain, runs, lateBy, untracked>>
  /\ UNCHANGED <<inVars, recorded>>

\* A panic of a listener or inside a run (the nil tracker, an index out of
\* range): whoever panics, all runs are gone.
ProcessDies ==
  /\ (\E l \in Sources : In!RecvPanics(l)) \/ (\E w \in Workers : In!Panic(w))
  /\ Restart
  /\ recorded' = nothingRecorded

\* DELETE on the API; the clock and the chain.
Around ==
  /\ \/ exit = "no" /\ DeleteAll
     \/ Tick
     \/ \E p \in Pools : Drain(p) \/ Refill(p)
  /\ UNCHANGED <<inVars, recorded>>

SysNext ==
  \/ \E l \in Sources : Receive(l) \/ Take(l)
  \/ \E w \in Workers : Worker(w)
  \/ \E s \in Sigs : Expire(s)
  \/ Rerun \/ ProcessDies \/ Around

SysSpec == SysInit /\ [][SysNext]_sysVars

\* Workers and timers run, redis, MySQL and the RPC node answer.  The runtime
\* serves blocked senders in their order and hands dbMutex to the goroutine
\* that waits longest.  Nothing is assumed of ProcessResponse itself.
SysFairness ==
  /\ \A w \in Workers : WF_sysVars(Worker(w)) /\ SF_sysVars(pc[w] = "lock" /\ Process(w))
  /\ \A l \in Sources : SF_sysVars(Take(l))
  /\ \A s \in Sigs : WF_sysVars(Expire(s))

SysFairSpec == SysSpec /\ SysFairness

-----------------------------------------------------------------------------
(* Properties                                                              *)

\* Two deliveries can both pass the Load and be recorded twice; but until a timer
\* of the signature fires, a worker records a transaction at most once in the
\* life of a process: the table holds one row per worker of it, never more.
RecordedOncePerWorker ==
  \A s \in Sigs, w \in Workers : recorded[s][w] <= 1

\* What a listener has read gets a run that ends, for this delivery or for another
\* of the same transaction, unless the process dies first: a busy pool, the dropped
\* duplicate or a lock queue never loses it.  A run also ends when a handler gives
\* up on an error (process.go:206-210); what it recorded by then is not said here.
LostOnlyByDeath ==
  \A l \in Sources, s \in Sigs :
    lpc[l] = "send" /\ held[l] = s ~> ranBy[s] # {} \/ exit # "no"

\* The intake around real runs is the one of Ingest, where a run is an interval:
\* what is said there of marks and timers is said of the program.
ImplementsIngest == In!Spec

\* The handlers, called with what the intake lets through and killed with it,
\* are those of Tracker, where runs come from nowhere.
ImplementsTracker == Spec

=============================================================================
