---------------------------- MODULE SystemProofs ----------------------------
(***************************************************************************)
(* The whole program inherits what is proved of its parts, and records a     *)
(* transaction at most once per worker.                                     *)
(***************************************************************************)
EXTENDS System, TrackerProofs

InP == INSTANCE IngestProofs

\* Each step of the program is one of the handlers', or none.
LEMMA TrackerStep == [SysNext]_sysVars => [Next]_vars
<1> SUFFICES ASSUME [SysNext]_sysVars PROVE [Next]_vars
  OBVIOUS
<1>1. ASSUME NEW l \in Sources, Receive(l) \/ Take(l) PROVE UNCHANGED vars
  BY <1>1 DEF Receive, Take, Apart
<1>2. ASSUME NEW w \in Workers, Worker(w) PROVE [Next]_vars
  BY <1>2 DEF Worker, Apart, Start, Process, Return, Next
<1>3. ASSUME (\E s \in Sigs : Expire(s)) \/ Rerun PROVE UNCHANGED vars
  BY <1>3 DEF Expire, Rerun, Apart
<1>4. ASSUME ProcessDies \/ Around PROVE Next
  BY <1>4 DEF ProcessDies, Around, Next
<1>5. ASSUME UNCHANGED sysVars PROVE UNCHANGED vars
  BY <1>5 DEF sysVars
<1> QED
  BY <1>1, <1>2, <1>3, <1>4, <1>5 DEF SysNext

\* The handlers inside the program are those of Tracker.
THEOREM SystemImplementsTracker == SysSpec => ImplementsTracker
<1>1. SysInit => Init
  BY DEF SysInit
<1> QED
  BY <1>1, TrackerStep, PTL DEF SysSpec, ImplementsTracker, Spec

\* Each step of the program is one of the intake's, or none.
LEMMA IngestStep == [SysNext]_sysVars => [In!Next]_(In!vars)
<1> SUFFICES ASSUME [SysNext]_sysVars PROVE [In!Next]_(In!vars)
  OBVIOUS
<1>1. ASSUME NEW l \in Sources, Receive(l) \/ Take(l) PROVE In!Next
  BY <1>1 DEF Receive, Take, In!Next
<1>2. ASSUME NEW w \in Workers, Worker(w) PROVE [In!Next]_(In!vars)
  BY <1>2 DEF Worker, Start, Process, Return, In!Next, inVars, In!vars
<1>3. ASSUME NEW s \in Sigs, Expire(s) PROVE In!Next
  BY <1>3 DEF Expire, In!Next
<1>4. ASSUME Rerun \/ ProcessDies PROVE In!Next
  BY <1>4 DEF Rerun, ProcessDies, In!Next
<1>5. ASSUME Around \/ UNCHANGED sysVars PROVE UNCHANGED In!vars
  BY <1>5 DEF Around, sysVars, inVars, In!vars
<1> QED
  BY <1>1, <1>2, <1>3, <1>4, <1>5 DEF SysNext

\* The intake inside the program is that of Ingest, whatever a run does.
THEOREM SystemImplementsIngest == SysSpec => ImplementsIngest
<1>1. SysInit => In!Init
  BY DEF SysInit
<1> QED
  BY <1>1, IngestStep, PTL DEF SysSpec, ImplementsIngest, In!Spec

\* IngestProofs, taken with this program's constants and variables, speaks of the
\* same intake.
LEMMA SameIntake == ImplementsIngest => InP!Spec
<1>1. In!Init => InP!Init
  BY DEF In!Init, In!Subscribed, InP!Init, InP!Subscribed
<1>2. [In!Next]_(In!vars) => [InP!Next]_(InP!vars)
  <2>1. UNCHANGED In!vars => UNCHANGED InP!vars
    BY DEF In!vars, InP!vars
  <2>2. In!Next => InP!Next
    BY DEF In!Next, In!Recv, In!RecvPanics, In!RecvFails, In!StreamBreaks, In!Take,
           In!Load, In!Store, In!Finish, In!Panic, In!Arm, In!Expire, In!Restart,
           In!Die, In!Return, In!LoopErr, In!memory, In!vars, In!Entering, In!Running,
           InP!Next, InP!Recv, InP!RecvPanics, InP!RecvFails, InP!StreamBreaks,
           InP!Take, InP!Load, InP!Store, InP!Finish, InP!Panic, InP!Arm, InP!Expire,
           InP!Restart, InP!Die, InP!Return, InP!LoopErr, InP!memory, InP!vars,
           InP!Entering, InP!Running
  <2> QED
    BY <2>1, <2>2
<1> QED
  BY <1>1, <1>2, PTL DEF ImplementsIngest, In!Spec, InP!Spec

\* What is proved of the intake holds in the program.
LEMMA MarksInSystem == SysSpec => []InP!MarksInv
<1>1. InP!Spec => []InP!MarksInv
  BY InP!MarksInvariant, SystemAssumption
<1> QED
  BY <1>1, SystemImplementsIngest, SameIntake, PTL

-----------------------------------------------------------------------------
(* Rows of a transaction                                                   *)

\* Only the INSERT makes the table longer, and it ends the run.
LEMMA OnlyInsertRecords ==
  ASSUME NEW w \in Workers, TypeOK, Work(w), Len(rows') > Len(rows)
  PROVE  pc[w] = "insert" /\ pc'[w] = "idle"
<1>1. CASE Insert(w)
  BY <1>1 DEF Insert, At, TypeOK
<1>2. CASE ~Insert(w)
  <2>1. rows' = rows
    BY <1>2 DEF Work, SkipInstr, RememberSwap, BeginInit, BeginWithdraw, BeginSwap,
       EndRun, KeysStep, KeysRefused, InitStatus, InitPause, CheckReserve, Track,
       SwapMint, SwapStatus, Lock, trackVars
  <2> QED
    BY <2>1 DEF TypeOK
<1> QED
  BY <1>1, <1>2

\* The other workers stay where they are in ProcessResponse.
LEMMA WorkIsLocal ==
  ASSUME NEW w \in Workers, TypeOK, Work(w), NEW v \in Workers, v # w
  PROVE  pc'[v] = pc[v]
BY DEF TypeOK, Work, SkipInstr, RememberSwap, BeginInit, BeginWithdraw, BeginSwap,
   EndRun, KeysStep, KeysRefused, InitStatus, InitPause, CheckReserve, Track,
   SwapMint, SwapStatus, Lock, Insert, At, trackVars

\* An idle worker has no step in ProcessResponse that is not one to idle.
LEMMA IdleStaysIdle ==
  ASSUME NEW w \in Workers, TypeOK, Work(w), pc[w] = "idle"
  PROVE  pc'[w] = "idle"
BY DEF TypeOK, Work, SkipInstr, RememberSwap, BeginInit, BeginWithdraw, BeginSwap,
   EndRun, KeysStep, KeysRefused, InitStatus, InitPause, CheckReserve, Track,
   SwapMint, SwapStatus, Lock, Insert, At, trackVars

-----------------------------------------------------------------------------
(* Types                                                                   *)

\* A worker is inside ProcessResponse only between Store and Finish.
RunsInside == \A w \in Workers : pc[w] # "idle" => wpc[w] = "process"

\* Nobody closes txChannel: the receive loops never end.
LinkInv ==
  /\ channel = "open"
  /\ recorded \in [Sigs -> [Workers -> Nat]]
  /\ RunsInside

\* Every step keeps the channel open and the runs inside their interval.
LEMMA LinkStep ==
  TypeOK /\ InP!TypeOK /\ LinkInv /\ [SysNext]_sysVars => LinkInv'
<1> SUFFICES ASSUME TypeOK, InP!TypeOK, LinkInv, [SysNext]_sysVars PROVE LinkInv'
  OBVIOUS
<1> USE DEF LinkInv, RunsInside
<1>1. ASSUME NEW l \in Sources, Receive(l) \/ Take(l) PROVE LinkInv'
  BY <1>1 DEF Receive, Take, Apart, vars, InP!TypeOK, In!Recv, In!RecvFails, In!LoopErr,
     In!vars, In!StreamBreaks, In!memory, In!Take, trackVars
<1>2. ASSUME NEW w \in Workers, (In!Load(w) \/ In!Arm(w)) /\ Apart PROVE LinkInv'
  BY <1>2 DEF Apart, vars, InP!TypeOK, In!Load, In!Arm, trackVars
<1>3. ASSUME NEW w \in Workers, Start(w) PROVE LinkInv'
  BY <1>3 DEF Start, In!Store, Dispatch, At, TypeOK, InP!TypeOK
<1>4. ASSUME NEW w \in Workers, Process(w) PROVE LinkInv'
  <2>1. UNCHANGED <<channel, wpc>> /\ Work(w)
    BY <1>4 DEF Process, inVars
  <2>2. RunsInside'
    BY <2>1, WorkIsLocal, IdleStaysIdle DEF InP!TypeOK
  <2>3. recorded' \in [Sigs -> [Workers -> Nat]]
    <3>1. CASE Len(rows') > Len(rows)
      <4>1. wsig[w] \in Sigs
        BY <2>1, <3>1, OnlyInsertRecords DEF InP!TypeOK
      <4> QED
        BY <1>4, <4>1 DEF Process
    <3>2. CASE ~(Len(rows') > Len(rows))
      BY <1>4, <3>2 DEF Process
    <3> QED
      BY <3>1, <3>2
  <2> QED
    BY <2>1, <2>2, <2>3
<1>5. ASSUME NEW w \in Workers, Return(w) PROVE LinkInv'
  BY <1>5 DEF Return, In!Finish, vars, trackVars, InP!TypeOK
<1>6. ASSUME NEW s \in Sigs, Expire(s) PROVE LinkInv'
  BY <1>6 DEF Expire, Apart, In!Expire, vars, trackVars
<1>7. CASE Rerun
  BY <1>7 DEF Rerun, Apart, In!Restart, In!memory, vars, trackVars
<1>8. CASE ProcessDies
  <2>1. channel' = "open" /\ recorded' = nothingRecorded /\ pc' = [w \in Workers |-> "idle"]
    BY <1>8 DEF ProcessDies, In!RecvPanics, In!Panic, In!Die, Restart
  <2> QED
    BY <2>1 DEF nothingRecorded
<1>9. CASE Around
  BY <1>9 DEF Around, inVars, DeleteAll, Tick, Drain, Refill, job
<1>10. CASE UNCHANGED sysVars
  BY <1>10 DEF sysVars, inVars, vars, trackVars
<1> QED
  BY <1>1, <1>2, <1>3, <1>4, <1>5, <1>6, <1>7, <1>8, <1>9, <1>10 DEF SysNext, Worker

\* What is proved of the handlers and of the intake, and what ties them together.
Parts == TypeOK /\ InP!MarksInv /\ LinkInv

LEMMA PartsHold == SysSpec => []Parts
<1>1. SysInit => LinkInv
  BY DEF SysInit, Init, In!Init, LinkInv, RunsInside, nothingRecorded
<1>2. SysSpec => []TypeOK
  BY SystemImplementsTracker, TrackerTypes, PTL DEF ImplementsTracker
<1>3. InP!MarksInv => InP!TypeOK
  BY DEF InP!MarksInv
<1> QED
  BY <1>1, <1>2, <1>3, MarksInSystem, LinkStep, PTL DEF SysSpec, Parts

\* Type correctness of the program, with every run inside its worker's interval
\* between Store and Finish.
THEOREM SystemTypes == SysSpec => []SysTypeOK
<1>1. Parts => SysTypeOK
  BY DEF Parts, LinkInv, RunsInside, SysTypeOK, InP!MarksInv, InP!TypeOK, In!TypeOK
<1> QED
  BY <1>1, PartsHold, PTL

-----------------------------------------------------------------------------
(* One row per worker                                                      *)

\* A worker that has recorded a transaction has run it, or is about to return
\* from that run; so, by RunOncePerWorker, it is not inside another one.
RecordedInv ==
  /\ RecordedOncePerWorker
  /\ \A s \in Sigs \ expired, w \in Workers :
       recorded[s][w] # 0 =>
         \/ w \in ranBy[s]
         \/ wpc[w] = "process" /\ wsig[w] = s /\ pc[w] = "idle"

\* Every step of the program keeps it.
LEMMA RecordedStep == Parts /\ RecordedInv /\ [SysNext]_sysVars => RecordedInv'
<1> SUFFICES ASSUME Parts, RecordedInv, [SysNext]_sysVars PROVE RecordedInv'
  OBVIOUS
<1>types. InP!TypeOK /\ TypeOK /\ LinkInv
  BY DEF Parts, InP!MarksInv
<1> USE DEF RecordedInv, RecordedOncePerWorker
<1>1. ASSUME NEW l \in Sources, Receive(l) PROVE RecordedInv'
  BY <1>1, <1>types DEF LinkInv, Receive, Apart, vars, trackVars, In!Recv, In!RecvFails,
     In!LoopErr, In!vars, In!StreamBreaks, In!memory
<1>2. ASSUME NEW l \in Sources, Take(l) PROVE RecordedInv'
  BY <1>2, <1>types DEF Take, Apart, vars, trackVars, In!Take, InP!TypeOK
<1>3. ASSUME NEW w \in Workers, (In!Load(w) \/ In!Arm(w)) /\ Apart PROVE RecordedInv'
  BY <1>3, <1>types DEF InP!TypeOK, In!Load, In!Arm, Apart, vars, trackVars
<1>4. ASSUME NEW w \in Workers, Start(w) PROVE RecordedInv'
  BY <1>4, <1>types DEF InP!TypeOK, Start, In!Store, Dispatch, At, TypeOK
<1>5. ASSUME NEW w \in Workers, Process(w) PROVE RecordedInv'
  <2>1. Work(w) /\ UNCHANGED <<ranBy, wpc, wsig, expired>>
    BY <1>5 DEF Process, inVars
  <2>2. \A v \in Workers : v # w => pc'[v] = pc[v]
    BY <1>types, <2>1, WorkIsLocal
  <2>3. pc[w] = "idle" => pc'[w] = "idle"
    BY <1>types, <2>1, IdleStaysIdle
  <2>4. CASE recorded' = recorded
    BY <2>1, <2>2, <2>3, <2>4
  <2>5. CASE Len(rows') > Len(rows) /\ wsig[w] \notin expired
    <3>1. pc[w] = "insert" /\ pc'[w] = "idle"
      BY <1>types, <2>1, <2>5, OnlyInsertRecords
    <3>2. wpc[w] = "process" /\ wsig[w] \in Sigs
      BY <1>types, <3>1 DEF LinkInv, RunsInside, InP!TypeOK
    <3>3. recorded[wsig[w]][w] = 0
      BY <2>5, <3>1, <3>2 DEF Parts, InP!MarksInv, InP!RunOncePerWorker
    <3>4. recorded' = [recorded EXCEPT ![wsig[w]][w] = 1]
      BY <1>5, <2>5, <3>3 DEF Process
    <3>5. \A s \in Sigs, v \in Workers :
            recorded'[s][v] = IF s = wsig[w] /\ v = w THEN 1 ELSE recorded[s][v]
      BY <1>types, <3>2, <3>4 DEF LinkInv
    <3> QED
      BY <2>1, <2>2, <3>1, <3>2, <3>5
  <2> QED
    BY <1>5, <2>4, <2>5 DEF Process
<1>6. ASSUME NEW w \in Workers, Return(w) PROVE RecordedInv'
  BY <1>6, <1>types DEF InP!TypeOK, Return, In!Finish, vars, trackVars
<1>7. ASSUME NEW s \in Sigs, Expire(s) PROVE RecordedInv'
  BY <1>7 DEF Expire, In!Expire, Apart, vars, trackVars
<1>8. CASE Rerun
  BY <1>8 DEF Rerun, In!Restart, In!memory, Apart, vars, trackVars
<1>9. CASE ProcessDies
  <2>1. recorded' = nothingRecorded
    BY <1>9 DEF ProcessDies
  <2> QED
    BY <2>1 DEF nothingRecorded
<1>10. CASE Around
  BY <1>10 DEF Around, inVars, DeleteAll, Tick, Drain, Refill, job
<1>11. CASE UNCHANGED sysVars
  BY <1>11 DEF sysVars, inVars, vars, trackVars
<1> QED
  BY <1>1, <1>2, <1>3, <1>4, <1>5, <1>6, <1>7, <1>8, <1>9, <1>10, <1>11
     DEF SysNext, Worker

\* However often the streams carry a transaction, a process records it at most
\* once per worker before one of its timers fires.
THEOREM SystemRecordsOncePerWorker == SysSpec => []RecordedOncePerWorker
<1>1. SysInit => RecordedInv
  BY DEF SysInit, nothingRecorded, RecordedInv, RecordedOncePerWorker
<1>2. RecordedInv => RecordedOncePerWorker
  BY DEF RecordedInv
<1> QED
  BY <1>1, <1>2, RecordedStep, PartsHold, PTL DEF SysSpec

\* The trade table stays in the order of time with the intake in front of it.
THEOREM SystemRowsInTimeOrder == SysSpec => []RowsInTimeOrder
BY SystemImplementsTracker, RowsAreInTimeOrder, PTL DEF ImplementsTracker

\* No delivery is dropped in favour of a run that never happens, now that runs
\* are those of ProcessResponse.
THEOREM SystemNeverDropsUnprocessed == SysSpec => []In!NoSilentDrop
<1>1. InP!MarksInv => In!NoSilentDrop
  BY DEF InP!MarksInv, InP!NoSilentDrop, InP!Processing, In!NoSilentDrop, In!Processing
<1> QED
  BY <1>1, MarksInSystem, PTL

\* Every mark of a delivery has a timer, or a run that will arm one, whatever
\* path that run takes through ProcessResponse.
THEOREM SystemNeverLeaksMarks == SysSpec => []In!NoMarkLeak
<1>1. InP!MarksInv => In!NoMarkLeak
  BY DEF InP!MarksInv, InP!NoMarkLeak, In!NoMarkLeak
<1> QED
  BY <1>1, MarksInSystem, PTL

\* Unless two deliveries pass the Load together, a transaction is marked for the
\* whole of its run, whatever ProcessResponse does and however long it takes, and
\* no other worker handles it meanwhile.
THEOREM SystemMarksAreOfOneRun == SysSpec => []In!MarkIsOfOneRun
<1>1. InP!Spec => []InP!MarkIsOfOneRun
  BY InP!MarksAreOfOneRun, SystemAssumption
<1>2. InP!MarkIsOfOneRun => In!MarkIsOfOneRun
  BY DEF InP!MarkIsOfOneRun, InP!Running, In!MarkIsOfOneRun, In!Running
<1> QED
  BY <1>1, <1>2, SystemImplementsIngest, SameIntake, PTL

\* The two stores keep what TradeLedger promises their readers, with the intake
\* deciding which transactions run, how often and when.
THEOREM SystemImplementsLedger == SysSpec => ImplementsLedger
BY SystemImplementsTracker, TrackerImplementsLedger, PTL DEF ImplementsTracker

\* However deliveries overlap, a paused pool gets one more row of each worker.
THEOREM SystemLateRowsAreBounded == SysSpec => []OneLateRowPerWorker
BY SystemImplementsTracker, LateRowsAreBounded, PTL DEF ImplementsTracker

=============================================================================
