---------------------------- MODULE IngestProofs ----------------------------
(***************************************************************************)
(* The intake keeps its types, and its marks stay tied to runs and timers,  *)
(* for any number of listeners, workers and signatures.                     *)
(***************************************************************************)
EXTENDS Ingest, TLAPS

\* Every step of the intake keeps every variable of module Ingest in its type.
LEMMA TypeStep == TypeOK /\ [Next]_vars => TypeOK'
<1> SUFFICES ASSUME TypeOK, [Next]_vars PROVE TypeOK'
  OBVIOUS
<1> USE DEF TypeOK
<1>1. ASSUME NEW l \in Sources, Recv(l) PROVE TypeOK'
  BY <1>1 DEF Recv, Die
<1>2. ASSUME NEW l \in Sources, RecvFails(l) PROVE TypeOK'
  BY <1>2 DEF RecvFails, Return, Die, vars
<1>3. ASSUME NEW l \in Sources, StreamBreaks(l) PROVE TypeOK'
  BY <1>3 DEF StreamBreaks, memory
<1>4. ASSUME NEW l \in Sources, NEW w \in Workers, Take(l, w) PROVE TypeOK'
  BY <1>4 DEF Take
<1>5. ASSUME NEW w \in Workers, Load(w) PROVE TypeOK'
  BY <1>5 DEF Load
<1>6. ASSUME NEW w \in Workers, Store(w) PROVE TypeOK'
  BY <1>6 DEF Store
<1>7. ASSUME NEW w \in Workers, Finish(w) PROVE TypeOK'
  BY <1>7 DEF Finish
<1>8. ASSUME NEW w \in Workers, Panic(w) PROVE TypeOK'
  BY <1>8 DEF Panic, Die
<1>9. ASSUME NEW w \in Workers, Arm(w) PROVE TypeOK'
  BY <1>9 DEF Arm
<1>10. ASSUME NEW s \in Sigs, Expire(s) PROVE TypeOK'
  BY <1>10 DEF Expire
<1>11. ASSUME NEW l \in Sources, RecvPanics(l) PROVE TypeOK'
  BY <1>11 DEF RecvPanics, Die
<1>12. CASE Restart
  BY <1>12 DEF Restart, memory
<1>13. CASE UNCHANGED vars
  BY <1>13 DEF vars
<1> QED
  BY <1>1, <1>2, <1>3, <1>4, <1>5, <1>6, <1>7, <1>8, <1>9, <1>10, <1>11, <1>12,
     <1>13 DEF Next

\* Type correctness of the listeners, the workers, the map and its timers.
THEOREM IngestTypes == Spec => []TypeOK
<1>1. Init => TypeOK
  BY IngestAssumption DEF Init, Subscribed, TypeOK
<1> QED
  BY <1>1, TypeStep, PTL DEF Spec

-----------------------------------------------------------------------------
(* Marks                                                                   *)

\* Until a timer of s fires, s is marked from the first run of it on: this is
\* what keeps a worker from finding s unmarked again.
MarkedUntilExpired ==
  \A s \in Sigs \ expired :
    ranBy[s] # {} \/ (\E w \in Workers : Running(w, s)) => s \in processed

MarksInv ==
  /\ TypeOK
  /\ NoSilentDrop
  /\ NoMarkLeak
  /\ MarkedUntilExpired
  /\ RunOncePerWorker

\* Every step keeps the marks tied to runs and timers.
LEMMA MarksStep == MarksInv /\ [Next]_vars => MarksInv'
<1> SUFFICES ASSUME MarksInv, [Next]_vars PROVE MarksInv'
  OBVIOUS
<1>0. TypeOK'
  BY TypeStep DEF MarksInv
<1> DEFINE Inv == NoSilentDrop /\ NoMarkLeak /\ MarkedUntilExpired /\ RunOncePerWorker
<1>die. ASSUME NEW r, Die(r) PROVE Inv'
  BY <1>die DEF Die, NoSilentDrop, NoMarkLeak, MarkedUntilExpired, Running,
                RunOncePerWorker
<1>same. ASSUME wpc' = wpc, wsig' = wsig, processed' = processed,
                timers' = timers, ranBy' = ranBy, expired' = expired
         PROVE Inv'
  BY <1>same DEF MarksInv, NoSilentDrop, Processing, NoMarkLeak,
                 MarkedUntilExpired, Running, RunOncePerWorker
<1>1. ASSUME NEW l \in Sources, Recv(l) \/ RecvFails(l) \/ StreamBreaks(l) PROVE Inv'
  BY <1>1, <1>die, <1>same
     DEF Recv, RecvFails, StreamBreaks, Return, memory, vars
<1>2. ASSUME NEW l \in Sources, NEW w \in Workers, Take(l, w) PROVE Inv'
  <2> USE <1>2 DEF MarksInv, TypeOK, Take
  <2>1. NoSilentDrop'
    BY DEF NoSilentDrop, Processing
  <2>2. NoMarkLeak'
    BY DEF NoMarkLeak
  <2>3. MarkedUntilExpired'
    BY DEF MarkedUntilExpired, Running
  <2>4. RunOncePerWorker'
    BY DEF RunOncePerWorker
  <2> QED
    BY <2>1, <2>2, <2>3, <2>4
<1>3. ASSUME NEW w \in Workers, Load(w) PROVE Inv'
  <2> USE <1>3 DEF MarksInv, TypeOK, Load
  <2>1. NoSilentDrop'
    BY DEF NoSilentDrop, Processing
  <2>2. NoMarkLeak'
    BY DEF NoMarkLeak
  <2>3. MarkedUntilExpired'
    BY DEF MarkedUntilExpired, Running
  <2>4. RunOncePerWorker'
    \* an unmarked signature whose timers have not fired was never run
    BY DEF RunOncePerWorker, MarkedUntilExpired
  <2> QED
    BY <2>1, <2>2, <2>3, <2>4
<1>4. ASSUME NEW w \in Workers, Store(w) PROVE Inv'
  <2> USE <1>4 DEF MarksInv, TypeOK, Store
  <2>1. NoSilentDrop'
    BY DEF NoSilentDrop, Processing
  <2>2. NoMarkLeak'
    BY DEF NoMarkLeak
  <2>3. MarkedUntilExpired'
    BY DEF MarkedUntilExpired, Running
  <2>4. RunOncePerWorker'
    BY DEF RunOncePerWorker
  <2> QED
    BY <2>1, <2>2, <2>3, <2>4
<1>5. ASSUME NEW w \in Workers, Finish(w) PROVE Inv'
  <2> USE <1>5 DEF MarksInv, TypeOK, Finish
  <2>1. NoSilentDrop'
    BY DEF NoSilentDrop, Processing
  <2>2. NoMarkLeak'
    BY DEF NoMarkLeak
  <2>3. MarkedUntilExpired'
    BY DEF MarkedUntilExpired, Running
  <2>4. RunOncePerWorker'
    BY DEF RunOncePerWorker
  <2> QED
    BY <2>1, <2>2, <2>3, <2>4
<1>6. ASSUME NEW w \in Workers, Panic(w) PROVE Inv'
  BY <1>6, <1>die DEF Panic
<1>7. ASSUME NEW w \in Workers, Arm(w) PROVE Inv'
  <2> USE <1>7 DEF MarksInv, TypeOK, Arm
  <2>1. NoSilentDrop'
    BY DEF NoSilentDrop, Processing
  <2>2. NoMarkLeak'
    BY DEF NoMarkLeak
  <2>3. MarkedUntilExpired'
    BY DEF MarkedUntilExpired, Running
  <2>4. RunOncePerWorker'
    BY DEF RunOncePerWorker
  <2> QED
    BY <2>1, <2>2, <2>3, <2>4
<1>8. ASSUME NEW s \in Sigs, Expire(s) PROVE Inv'
  <2> USE <1>8 DEF MarksInv, TypeOK, Expire
  <2>1. NoSilentDrop'
    BY DEF NoSilentDrop, Processing
  <2>2. NoMarkLeak'
    BY DEF NoMarkLeak
  <2>3. MarkedUntilExpired'
    BY DEF MarkedUntilExpired, Running
  <2>4. RunOncePerWorker'
    BY DEF RunOncePerWorker
  <2> QED
    BY <2>1, <2>2, <2>3, <2>4
<1>9. ASSUME Restart PROVE Inv'
  BY <1>9, <1>same DEF Restart, memory
<1>10. ASSUME NEW l \in Sources, RecvPanics(l) PROVE Inv'
  BY <1>10, <1>die DEF RecvPanics
<1>11. ASSUME UNCHANGED vars PROVE Inv'
  BY <1>11, <1>same DEF vars
<1> QED
  BY <1>0, <1>1, <1>2, <1>3, <1>4, <1>5, <1>6, <1>7, <1>8, <1>9, <1>10, <1>11
     DEF Next, MarksInv

\* A worker that has passed the Load for s and owes it a timer.
Owner(w, s) == Entering(w, s) \/ Running(w, s)

\* Without a race there is one owner of s or one timer, and s is marked by then:
\* what lets a delivery of s past the Load finds neither.
RaceInv ==
  \A s \in Sigs \ raced :
    /\ timers[s] <= 1
    /\ timers[s] = 1 => s \in processed
    /\ \A w \in Workers : Owner(w, s) => timers[s] = 0
    /\ \A w \in Workers : Running(w, s) => s \in processed
    /\ \A v, w \in Workers : Owner(v, s) /\ Owner(w, s) => v = w

\* Every step keeps it: a race is what a second owner is called.
LEMMA RaceStep == TypeOK /\ RaceInv /\ [Next]_vars => RaceInv'
<1> SUFFICES ASSUME TypeOK, RaceInv, [Next]_vars PROVE RaceInv'
  OBVIOUS
<1> USE DEF RaceInv, Owner, Entering, Running
<1>die. ASSUME NEW r, Die(r) PROVE RaceInv'
  BY <1>die DEF Die
<1>same. ASSUME wpc' = wpc, wsig' = wsig, processed' = processed, timers' = timers,
                raced' = raced
         PROVE RaceInv'
  BY <1>same
<1>1. ASSUME NEW l \in Sources, Recv(l) \/ RecvFails(l) \/ StreamBreaks(l) PROVE RaceInv'
  BY <1>1, <1>die, <1>same DEF Recv, RecvFails, StreamBreaks, Return, memory, vars
<1>2. ASSUME NEW l \in Sources, NEW w \in Workers, Take(l, w) PROVE RaceInv'
  BY <1>2 DEF Take, TypeOK
<1>3. ASSUME NEW w \in Workers, Load(w) PROVE RaceInv'
  BY <1>3 DEF Load, TypeOK
<1>4. ASSUME NEW w \in Workers, Store(w) PROVE RaceInv'
  BY <1>4 DEF Store, TypeOK
<1>5. ASSUME NEW w \in Workers, Finish(w) PROVE RaceInv'
  BY <1>5 DEF Finish, TypeOK
<1>6. ASSUME NEW w \in Workers, Arm(w) PROVE RaceInv'
  BY <1>6 DEF Arm, TypeOK
<1>7. ASSUME NEW s \in Sigs, Expire(s) PROVE RaceInv'
  BY <1>7 DEF Expire, TypeOK
<1>8. ASSUME NEW w \in Workers, Panic(w) PROVE RaceInv'
  BY <1>8, <1>die DEF Panic
<1>9. ASSUME NEW l \in Sources, RecvPanics(l) PROVE RaceInv'
  BY <1>9, <1>die DEF RecvPanics
<1>10. ASSUME Restart \/ UNCHANGED vars PROVE RaceInv'
  BY <1>10, <1>same DEF Restart, memory, vars
<1> QED
  BY <1>1, <1>2, <1>3, <1>4, <1>5, <1>6, <1>7, <1>8, <1>9, <1>10 DEF Next

\* Without a race no timer deletes the mark of a run under way, and no worker
\* runs the signature beside it.
THEOREM MarksAreOfOneRun == Spec => []MarkIsOfOneRun
<1>1. Init => RaceInv
  BY DEF Init, RaceInv, Owner, Entering, Running
<1>2. RaceInv => MarkIsOfOneRun
  BY DEF RaceInv, Owner, MarkIsOfOneRun
<1> QED
  BY <1>1, <1>2, RaceStep, IngestTypes, PTL DEF Spec

\* The inductive invariant of the marks holds in every reachable state.
THEOREM MarksInvariant == Spec => []MarksInv
<1>1. Init => MarksInv
  BY IngestAssumption
     DEF Init, Subscribed, MarksInv, TypeOK, NoSilentDrop, NoMarkLeak, MarkedUntilExpired,
         Running, RunOncePerWorker
<1> QED
  BY <1>1, MarksStep, PTL DEF Spec

\* A marked signature has been run or is being run: a second delivery is never
\* dropped in favour of a run that does not happen.
THEOREM NeverDroppedUnprocessed == Spec => []NoSilentDrop
BY MarksInvariant, PTL DEF MarksInv

\* Every mark has a pending timer or a worker still to arm one.
THEOREM MarksAlwaysHaveATimer == Spec => []NoMarkLeak
BY MarksInvariant, PTL DEF MarksInv

\* Load and Store do not exclude each other, yet within the minute of a
\* signature no worker runs it a second time.
THEOREM AtMostOneRunPerWorker == Spec => []RunOncePerWorker
BY MarksInvariant, PTL DEF MarksInv

=============================================================================
