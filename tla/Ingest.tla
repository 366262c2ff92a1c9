------------------------------- MODULE Ingest -------------------------------
(***************************************************************************)
(* Transaction intake: the gRPC listeners started by main(), the unbuffered *)
(* channel they share, the pool of worker goroutines that range over it,    *)
(* and the `processed` map that drops a signature seen again within a       *)
(* minute of its processing.  ProcessResponse itself is one interval here   *)
(* (between Store and Finish); module Tracker opens it up.                  *)
(***************************************************************************)
EXTENDS Naturals, FiniteSets

CONSTANTS
  Sources,      \* the subscriptions: one listener goroutine each
  Workers,      \* the worker goroutines, twice the number of CPUs
  Sigs,         \* transaction signatures
  NoSig,        \* "no transaction held"
  MaxReceived   \* bound: transactions read from all streams together

ASSUME IngestAssumption ==
  /\ NoSig \notin Sigs
  /\ MaxReceived \in Nat

VARIABLES
  stream,     \* [Sources -> {"up", "broken"}]: the server side of a subscription
  lpc,        \* listener: "recv" in stream.Recv, "send" at txChannel<-, "done" returned
  held,       \* listener: the transaction it is sending
  channel,    \* txChannel: "open" or "closed"
  wpc,        \* worker: "range", "load", "store", "process", "arm"
  wsig,       \* worker: signature of the response it took
  processed,  \* the keys of the sync.Map
  timers,     \* [Sigs -> Nat]: pending AfterFunc callbacks of a signature
  exit,       \* why the process is gone: "no", "panic" (nil, index), "channel"
  received,   \* transactions read so far (bounds the model)
  ranBy,      \* history: workers that finished ProcessResponse for a signature
  expired,    \* history: signatures one of whose timers has fired
  raced       \* history: signatures that two workers took past the Load together,
              \* until the last of their runs and timers is over

vars == <<stream, lpc, held, channel, wpc, wsig, processed, timers, exit,
          received, ranBy, expired, raced>>
memory == <<lpc, held, channel, wpc, wsig, processed, timers, ranBy, expired, raced>>

TypeOK ==
  /\ stream \in [Sources -> {"up", "broken"}]
  /\ lpc \in [Sources -> {"recv", "send", "done"}]
  /\ held \in [Sources -> Sigs \cup {NoSig}]
  /\ \A l \in Sources : lpc[l] = "send" => held[l] \in Sigs
  /\ channel \in {"open", "closed"}
  /\ wpc \in [Workers -> {"range", "load", "store", "process", "arm"}]
  /\ wsig \in [Workers -> Sigs \cup {NoSig}]
  /\ \A w \in Workers : wpc[w] # "range" => wsig[w] \in Sigs
  /\ processed \subseteq Sigs
  /\ timers \in [Sigs -> Nat]
  /\ exit \in {"no", "panic", "channel"}
  /\ received \in Nat
  /\ ranBy \in [Sigs -> SUBSET Workers]
  /\ expired \subseteq Sigs
  /\ raced \subseteq Sigs

\* Each listener has subscribed and sent its request: an error there ends the
\* program before anything is received.
Subscribed ==
  /\ stream = [l \in Sources |-> "up"]
  /\ lpc = [l \in Sources |-> "recv"]
  /\ held = [l \in Sources |-> NoSig]

Init ==
  /\ Subscribed
  /\ channel = "open"
  /\ wpc = [w \in Workers |-> "range"]
  /\ wsig = [w \in Workers |-> NoSig]
  /\ processed = {}
  /\ timers = [s \in Sigs |-> 0]
  /\ exit = "no"
  /\ received = 0
  /\ ranBy = [s \in Sigs |-> {}]
  /\ expired = {}
  /\ raced = {}

\* A Go panic ends the process: everything kept in memory is gone.
Die(reason) ==
  /\ exit' = reason
  /\ lpc' = [l \in Sources |-> "recv"]
  /\ held' = [l \in Sources |-> NoSig]
  /\ channel' = "open"
  /\ wpc' = [w \in Workers |-> "range"]
  /\ wsig' = [w \in Workers |-> NoSig]
  /\ processed' = {}
  /\ timers' = [s \in Sigs |-> 0]
  /\ ranBy' = [s \in Sigs |-> {}]
  /\ expired' = {}
  /\ raced' = {}
  /\ UNCHANGED <<stream, received>>

-----------------------------------------------------------------------------
(* Listeners: GrpcSubscribeByAddresses                                     *)

\* Recv yields a transaction; the listener moves on to txChannel <- response,
\* which panics at once on a closed channel.
Recv(l) ==
  /\ exit = "no"
  /\ lpc[l] = "recv"
  /\ stream[l] = "up"
  /\ received < MaxReceived
  /\ IF channel = "closed"
     THEN Die("channel")
     ELSE \E s \in Sigs :
            /\ lpc' = [lpc EXCEPT ![l] = "send"]
            /\ held' = [held EXCEPT ![l] = s]
            /\ received' = received + 1
            /\ UNCHANGED <<stream, channel, wpc, wsig, processed, timers, exit,
                           ranBy, expired, raced>>

\* Building the response panics (meta without ComputeUnitsConsumed, which the
\* listener dereferences): nothing recovers.
RecvPanics(l) ==
  /\ exit = "no"
  /\ lpc[l] = "recv"
  /\ stream[l] = "up"
  /\ Die("panic")

\* mutant of LoopErr: the error of Recv is the one tested
LoopErrOfRecv(l) == IF stream[l] = "broken" THEN "eof" ELSE "nil"

\* The `err` the receive loop tests is the one stream.Send left, nil on entry;
\* `resp, _ := stream.Recv()` drops the receive error.
LoopErr(l) == "nil"

\* return from the loop runs the deferred close(txChannel): a second close, or
\* a sender blocked on the channel, panics.
Return(l) ==
  IF channel = "closed" \/ (\E k \in Sources : lpc[k] = "send")
  THEN Die("channel")
  ELSE /\ lpc' = [lpc EXCEPT ![l] = "done"]
       /\ channel' = "closed"
       /\ UNCHANGED <<stream, held, wpc, wsig, processed, timers, exit,
                      received, ranBy, expired, raced>>

\* Recv on a dead stream: a nil response, no transaction, round the loop again
\* unless the tested error is set.
RecvFails(l) ==
  /\ exit = "no"
  /\ lpc[l] = "recv"
  /\ stream[l] = "broken"
  /\ IF LoopErr(l) = "nil" THEN UNCHANGED vars ELSE Return(l)

-----------------------------------------------------------------------------
(* Workers: the goroutines of main()                                       *)

\* mutant of Take: the response is not handed over
TakeNothing(l, w) ==
  /\ exit = "no"
  /\ lpc[l] = "send"
  /\ wpc[w] = "range"
  /\ lpc' = [lpc EXCEPT ![l] = "recv"]
  /\ wpc' = [wpc EXCEPT ![w] = "load"]
  /\ UNCHANGED <<stream, held, channel, wsig, processed, timers, exit, received,
                 ranBy, expired, raced>>

\* Rendezvous on the unbuffered channel.
Take(l, w) ==
  /\ exit = "no"
  /\ channel = "open"
  /\ lpc[l] = "send"
  /\ wpc[w] = "range"
  /\ lpc' = [lpc EXCEPT ![l] = "recv"]
  /\ held' = [held EXCEPT ![l] = NoSig]
  /\ wpc' = [wpc EXCEPT ![w] = "load"]
  /\ wsig' = [wsig EXCEPT ![w] = held[l]]
  /\ UNCHANGED <<stream, channel, processed, timers, exit, received, ranBy, expired, raced>>

\* mutant of Load: LoadOrStore, with the mark kept by a worker that then skips
LoadMarksAndSkips(w) ==
  /\ exit = "no"
  /\ wpc[w] = "load"
  /\ wpc' = [wpc EXCEPT ![w] = "range"]
  /\ processed' = processed \cup {wsig[w]}
  /\ UNCHANGED <<stream, lpc, held, channel, wsig, timers, exit, received,
                 ranBy, expired, raced>>

\* The worker is between Load and Store.
Entering(w, s) == wsig[w] = s /\ wpc[w] = "store"

\* The worker is in ProcessResponse for s, or back from it with no timer armed.
Running(w, s) == wsig[w] = s /\ wpc[w] \in {"process", "arm"}

\* processed.Load: skip the response when the signature is marked.
Load(w) ==
  /\ exit = "no"
  /\ wpc[w] = "load"
  /\ wpc' = [wpc EXCEPT ![w] = IF wsig[w] \in processed THEN "range" ELSE "store"]
  /\ raced' = IF wsig[w] \notin processed /\ \E v \in Workers \ {w} : Entering(v, wsig[w])
              THEN raced \cup {wsig[w]} ELSE raced
  /\ UNCHANGED <<stream, lpc, held, channel, wsig, processed, timers, exit,
                 received, ranBy, expired>>

\* mutant of Store: the timer is armed before the run as well
StoreArms(w) ==
  /\ exit = "no"
  /\ wpc[w] = "store"
  /\ wpc' = [wpc EXCEPT ![w] = "process"]
  /\ processed' = processed \cup {wsig[w]}
  /\ timers' = [timers EXCEPT ![wsig[w]] = @ + 1]
  /\ UNCHANGED <<stream, lpc, held, channel, wsig, exit, received, ranBy, expired, raced>>

\* mutant of Store: the mark is not stored
StoreNothing(w) ==
  /\ exit = "no"
  /\ wpc[w] = "store"
  /\ wpc' = [wpc EXCEPT ![w] = "process"]
  /\ UNCHANGED <<stream, lpc, held, channel, wsig, processed, timers, exit,
                 received, ranBy, expired, raced>>

\* processed.Store: a separate call, another worker may come between.
Store(w) ==
  /\ exit = "no"
  /\ wpc[w] = "store"
  /\ wpc' = [wpc EXCEPT ![w] = "process"]
  /\ processed' = processed \cup {wsig[w]}
  /\ UNCHANGED <<stream, lpc, held, channel, wsig, timers, exit, received,
                 ranBy, expired, raced>>

\* ProcessResponse returns.
Finish(w) ==
  /\ exit = "no"
  /\ wpc[w] = "process"
  /\ wpc' = [wpc EXCEPT ![w] = "arm"]
  /\ ranBy' = [ranBy EXCEPT ![wsig[w]] = @ \cup {w}]
  /\ UNCHANGED <<stream, lpc, held, channel, wsig, processed, timers, exit,
                 received, expired, raced>>

\* ProcessResponse panics (nil tracker, index out of range): nothing recovers.
Panic(w) ==
  /\ exit = "no"
  /\ wpc[w] = "process"
  /\ Die("panic")

\* mutant of Arm: the timer is not armed
ArmNothing(w) ==
  /\ exit = "no"
  /\ wpc[w] = "arm"
  /\ wpc' = [wpc EXCEPT ![w] = "range"]
  /\ UNCHANGED <<stream, lpc, held, channel, wsig, processed, timers, exit,
                 received, ranBy, expired, raced>>

\* time.AfterFunc(1 minute, Delete), armed after the processing.
Arm(w) ==
  /\ exit = "no"
  /\ wpc[w] = "arm"
  /\ wpc' = [wpc EXCEPT ![w] = "range"]
  /\ timers' = [timers EXCEPT ![wsig[w]] = @ + 1]
  /\ UNCHANGED <<stream, lpc, held, channel, wsig, processed, exit, received,
                 ranBy, expired, raced>>

\* A timer fires and deletes the mark, whoever set it.
Expire(s) ==
  /\ exit = "no"
  /\ timers[s] > 0
  /\ timers' = [timers EXCEPT ![s] = @ - 1]
  /\ processed' = processed \ {s}
  /\ expired' = expired \cup {s}
  /\ raced' = IF timers[s] > 1 \/ \E w \in Workers : Entering(w, s) \/ Running(w, s)
              THEN raced ELSE raced \ {s}
  /\ UNCHANGED <<stream, lpc, held, channel, wpc, wsig, exit, received, ranBy>>

-----------------------------------------------------------------------------
(* Surroundings                                                            *)

\* The server ends the stream or the connection is lost; nothing resubscribes.
StreamBreaks(l) ==
  /\ stream[l] = "up"
  /\ stream' = [stream EXCEPT ![l] = "broken"]
  /\ UNCHANGED <<memory, exit, received>>

\* The operator starts the program again: fresh memory, fresh subscriptions.
Restart ==
  /\ exit # "no"
  /\ exit' = "no"
  /\ stream' = [l \in Sources |-> "up"]
  /\ UNCHANGED <<memory, received>>

Next ==
  \/ \E l \in Sources : Recv(l) \/ RecvPanics(l) \/ RecvFails(l) \/ StreamBreaks(l)
  \/ \E l \in Sources, w \in Workers : Take(l, w)
  \/ \E w \in Workers : Load(w) \/ Store(w) \/ Finish(w) \/ Panic(w) \/ Arm(w)
  \/ \E s \in Sigs : Expire(s)
  \/ Restart

Spec == Init /\ [][Next]_vars

\* Workers and runtime timers are scheduled; a sender blocked on a channel is
\* queued first-in first-out by the Go runtime, so it is served whenever
\* workers keep coming back.  ProcessResponse is assumed to return or panic.
Fairness ==
  /\ \A w \in Workers : WF_vars(Load(w) \/ Store(w) \/ Finish(w) \/ Arm(w))
  /\ \A l \in Sources : SF_vars(\E w \in Workers : Take(l, w))
  /\ \A l \in Sources : WF_vars(RecvFails(l))
  /\ \A s \in Sigs : WF_vars(Expire(s))

FairSpec == Spec /\ Fairness

-----------------------------------------------------------------------------
(* Properties                                                              *)

Processing(w, s) == wpc[w] = "process" /\ wsig[w] = s

\* A marked signature, which every later delivery is dropped for (main.go's
\* Load), has been processed or is being processed: no delivery is dropped in
\* favour of a run that never happens.
NoSilentDrop ==
  \A s \in processed : ranBy[s] # {} \/ \E w \in Workers : Processing(w, s)

\* Every mark has somebody who will remove it: a pending timer or a worker
\* that is still to arm one.  The map does not grow for ever.
NoMarkLeak ==
  \A s \in processed :
    timers[s] > 0 \/ \E w \in Workers : wsig[w] = s /\ wpc[w] \in {"process", "arm"}

\* Load and Store are two calls, so two workers may both run a signature; but
\* until the first timer of the signature fires, no worker runs it twice.
RunOncePerWorker ==
  \A w \in Workers :
    wpc[w] \in {"store", "process"} /\ wsig[w] \notin expired
      => w \notin ranBy[wsig[w]]

\* A timer deletes the mark of its signature, whoever set it, so that one run's
\* timer can delete the mark of another that is still under way.  It takes two
\* deliveries that passed the Load together for that: otherwise a run has its mark
\* to its end, there is no second run or timer beside it, and after it one timer;
\* and when all of them are over, the signature is as good as new.
MarkIsOfOneRun ==
  \A s \in Sigs \ raced :
    /\ timers[s] <= 1
    /\ \A v, w \in Workers :
         Running(v, s) /\ Running(w, s) => v = w /\ s \in processed /\ timers[s] = 0

\* What a listener has read is taken by a worker, even when the other stream
\* is dead, unless the process panics meanwhile; it never does so on a closed
\* channel.
EveryReceivedIsTaken ==
  \A l \in Sources :
    lpc[l] = "send" ~> (lpc[l] = "recv" /\ exit # "channel")

\* A signature does not stay marked: its minute ends.
MarksAreReleased == \A s \in Sigs : s \in processed ~> s \notin processed

\* grpc.go:187-190 ("Error occurred in receiving update", break): a stream that
\* fails ends the receive loop.
StreamErrorEndsLoop ==
  \A l \in Sources : stream[l] = "broken" ~> (lpc[l] = "done" \/ exit # "no")

=============================================================================
