--------------------------- MODULE TradeApiProofs ---------------------------
(***************************************************************************)
(* What holds of the connection pool and of the trade table for any number  *)
(* of clients: the program serves on a whole schema, the connection USE was *)
(* sent on serves as long as it is the only one, a database the pool has    *)
(* lost stays lost, and an answer is the page that its filter stands for,   *)
(* whatever the table, the filter and the requests beside it.               *)
(***************************************************************************)
EXTENDS TradeApi, SequenceLemmas, TLAPS

Schema == {"database", "amms", "trades"}
Boots == Starting \cup {"connected", "listening", "serving", "headless", "down"}

-----------------------------------------------------------------------------
(* The schema                                                              *)

\* What a start has created so far.  Nothing drops a table, so an earlier start
\* that failed halfway only helps.
SchemaInv ==
  /\ schema \subseteq Schema
  /\ boot \in Boots
  /\ boot \in Boots \ {"redis", "ping", "create", "down"} => "database" \in schema
  /\ boot \in {"trades", "grpc", "connected", "listening", "serving", "headless"} => "amms" \in schema
  /\ boot \in {"grpc", "connected", "listening", "serving", "headless"} => "trades" \in schema

\* Only main() moves boot forward or touches the schema; callers leave both alone.
LEMMA CallersLeaveMain ==
  ASSUME \/ SetTrade \/ Inserted \/ InsertLost
         \/ \E a \in Callers : Connect(a)
         \/ \E c \in Clients : \/ Request(c) \/ Prepared(c) \/ Refused(c) \/ Queried(c)
                               \/ RowsRead(c) \/ RowsCut(c) \/ DeleteAll(c) \/ StatementLost(c)
  PROVE  UNCHANGED <<dsn, schema, boot>>
<1>1. ASSUME NEW a \in Callers, Connect(a) PROVE UNCHANGED <<dsn, schema, boot>>
  BY <1>1 DEF Connect, Borrow, server
<1>2. CASE SetTrade \/ Inserted \/ InsertLost
  BY <1>2 DEF SetTrade, Inserted, InsertLost, poolVars, GiveBack, Lose, server
<1>3. ASSUME NEW c \in Clients,
             \/ Request(c) \/ Prepared(c) \/ Refused(c) \/ Queried(c)
             \/ RowsRead(c) \/ RowsCut(c) \/ DeleteAll(c) \/ StatementLost(c)
      PROVE UNCHANGED <<dsn, schema, boot>>
  BY <1>3 DEF Request, Prepared, Refused, Queried, RowsRead, RowsCut, DeleteAll,
              StatementLost, poolVars, GiveBack, Lose, server
<1> QED
  BY <1>1, <1>2, <1>3

\* Each step of main() has done its part before the next begins.
LEMMA BootKeepsSchema == SchemaInv /\ Boot => SchemaInv'
<1> SUFFICES ASSUME SchemaInv, Boot PROVE SchemaInv'
  OBVIOUS
<1> USE DEF SchemaInv, Schema, Boots, Starting, At, To, server
<1>1. CASE InitRedis \/ Ping \/ GrpcConnect \/ Listen \/ Serve \/ BootFails
  BY <1>1 DEF InitRedis, Ping, GrpcConnect, Listen, Serve, BootFails
<1>2. CASE CreateDatabase \/ UseDatabase
  BY <1>2 DEF CreateDatabase, UseDatabase
<1>3. CASE Migrate("amms", "trades") \/ Migrate("trades", "grpc")
  BY <1>3 DEF Migrate
<1> QED
  BY <1>1, <1>2, <1>3 DEF Boot

\* What a start has created stands in every reachable state.
LEMMA SchemaInvariant == Spec => []SchemaInv
<1>1. Init => SchemaInv
  BY DEF Init, PoolInit, SchemaInv, Schema, Boots, Starting
<1>2. SchemaInv /\ [Next]_vars => SchemaInv'
  <2> SUFFICES ASSUME SchemaInv, [Next]_vars PROVE SchemaInv'
    OBVIOUS
  <2>1. CASE UNCHANGED <<schema, boot>>
    BY <2>1 DEF SchemaInv
  <2>2. CASE Restart \/ Crash
    BY <2>2 DEF Restart, Crash, PoolDies, server, SchemaInv, Boots, Starting
  <2>3. CASE IdleEnds \/ UNCHANGED vars
    BY <2>3, <2>1 DEF IdleEnds, server, vars, poolVars
  <2> QED
    BY <2>1, <2>2, <2>3, CallersLeaveMain, BootKeepsSchema DEF Next
<1> QED
  BY <1>1, <1>2, PTL DEF Spec

\* main() lets transactions and requests in only when the database and both
\* tables exist, whatever failed in this start or an earlier one.
THEOREM AlwaysServesWithSchema == Spec => []ServesWithSchema
<1>1. SchemaInv => ServesWithSchema
  BY DEF SchemaInv, Schema, Boots, ServesWithSchema, Up
<1> QED
  BY <1>1, SchemaInvariant, PTL

-----------------------------------------------------------------------------
(* The pool                                                                *)

Steps == {"idle", "prepare", "preparing", "run", "running", "reading"}
Holders == {"preparing", "running", "reading"}

\* Types of the pool and of the callers; there are callers only once main() has
\* started them, and main() itself keeps one connection at most.
ConnInv ==
  /\ dsn \in {"plain", "named"}
  /\ boot \in Boots
  /\ idle \in Seq(BOOLEAN) /\ Len(idle) <= MaxIdle
  /\ conn \in [Callers -> {"none", "with", "without"}]
  /\ broke \in BOOLEAN /\ overlap \in BOOLEAN /\ lost \in BOOLEAN
  /\ step \in [Callers -> Steps]
  /\ \A a \in Callers : conn[a] # "none" <=> step[a] \in Holders
  /\ ~Up => \A a \in Callers : step[a] = "idle"
  /\ boot \in Starting => Len(idle) <= 1
  /\ boot \in {"redis", "ping", "down"} => idle = <<>>

\* A pool may be empty.
LEMMA NothingIdle == <<>> \in Seq(BOOLEAN) /\ Len(<<>>) <= 1 /\ Len(<<>>) <= MaxIdle
BY DEF MaxIdle

\* main() has one connection, whatever it did on it.
LEMMA MainHasOne ==
  ASSUME idle \in Seq(BOOLEAN), Len(idle) <= 1, NEW c \in BOOLEAN, MainPuts(c)
  PROVE  idle' = <<c>>
<1>1. CASE idle = <<>>
  BY <1>1 DEF MainPuts
<1>2. CASE idle # <<>>
  <2>1. Len(idle) = 1
    BY <1>2
  <2>2. idle' = [idle EXCEPT ![1] = c]
    BY <1>2, <2>1 DEF MainPuts
  <2> QED
    BY <2>1, <2>2
<1> QED
  BY <1>1, <1>2

\* The connection lent is the one put back last, or a new one.
LEMMA BorrowTakes ==
  ASSUME idle \in Seq(BOOLEAN), NEW a, Borrow(a)
  PROVE  /\ idle' \in Seq(BOOLEAN) /\ Len(idle') <= Len(idle)
         /\ \A i \in DOMAIN idle' : i \in DOMAIN idle /\ idle'[i] = idle[i]
         /\ idle # <<>> => Last(idle) = idle[Len(idle)] /\ Len(idle) \in DOMAIN idle
         /\ Len(idle) = 1 => idle' = <<>>
<1>1. CASE idle = <<>>
  BY <1>1 DEF Borrow
<1>2. CASE idle # <<>>
  <2>1. idle' = SubSeq(idle, 1, Len(idle) - 1)
    BY <1>2 DEF Borrow, Front
  <2> QED
    BY <1>2, <2>1 DEF Last
<1> QED
  BY <1>1, <1>2

\* What is put back is put last, or closed.
LEMMA GiveBackPuts ==
  ASSUME idle \in Seq(BOOLEAN), Len(idle) <= MaxIdle, NEW a, GiveBack(a)
  PROVE  /\ idle' \in Seq(BOOLEAN) /\ Len(idle') <= MaxIdle
         /\ \A i \in DOMAIN idle' : \/ i \in DOMAIN idle /\ idle'[i] = idle[i]
                                    \/ idle'[i] = Selected(conn[a])
         /\ idle = <<>> => idle' = <<Selected(conn[a])>>
<1> DEFINE b == Selected(conn[a])
<1>1. b \in BOOLEAN
  BY DEF Selected
<1>2. idle' = IF Len(idle) < MaxIdle THEN Append(idle, b) ELSE idle
  BY DEF GiveBack
<1> HIDE DEF b
<1>3. CASE Len(idle) < MaxIdle
  <2>1. idle' = Append(idle, b)
    BY <1>2, <1>3
  <2>2. idle' \in Seq(BOOLEAN) /\ Len(idle') = Len(idle) + 1 /\ idle'[Len(idle) + 1] = b
        /\ \A i \in 1..Len(idle) : idle'[i] = idle[i]
    BY <1>1, <2>1
  <2>3. idle = <<>> => idle' = <<b>>
    BY <1>1, <2>1
  <2>4. Len(idle') <= MaxIdle
    BY <1>3, <2>2 DEF MaxIdle
  <2>5. \A i \in DOMAIN idle' : (i \in DOMAIN idle /\ idle'[i] = idle[i]) \/ idle'[i] = b
    BY <2>2
  <2> QED
    BY <2>2, <2>3, <2>4, <2>5 DEF b
<1>4. CASE ~(Len(idle) < MaxIdle)
  <2>1. idle' = idle /\ idle # <<>>
    BY <1>2, <1>4 DEF MaxIdle
  <2> QED
    BY <2>1
<1> QED
  BY <1>3, <1>4

\* The pool loses one of its idle connections.
LEMMA IdleEndsDrops ==
  ASSUME idle \in Seq(BOOLEAN), IdleEnds
  PROVE  /\ idle' \in Seq(BOOLEAN) /\ Len(idle') = Len(idle) - 1
         /\ \A i \in DOMAIN idle' : \E j \in DOMAIN idle : idle'[i] = idle[j]
<1>1. PICK i \in DOMAIN idle : idle' = RemoveAt(idle, i)
  BY DEF IdleEnds
<1> DEFINE head == SubSeq(idle, 1, i - 1)
           tail == SubSeq(idle, i + 1, Len(idle))
<1>2. idle' = head \o tail
  BY <1>1 DEF RemoveAt
<1>3. head \in Seq(BOOLEAN) /\ Len(head) = i - 1 /\ \A j \in 1..i - 1 : head[j] = idle[j]
  OBVIOUS
<1>4. tail \in Seq(BOOLEAN) /\ Len(tail) = Len(idle) - i
      /\ \A j \in 1..Len(idle) - i : tail[j] = idle[i + j]
  OBVIOUS
<1> HIDE DEF head, tail
<1>i. i \in 1..Len(idle) /\ Len(idle) \in Nat
  OBVIOUS
<1>5. idle' \in Seq(BOOLEAN) /\ Len(idle') = Len(idle) - 1
  BY <1>2, <1>3, <1>4, <1>i
<1>6. ASSUME NEW j \in DOMAIN idle' PROVE \E k \in DOMAIN idle : idle'[j] = idle[k]
  <2>1. j \in 1..Len(idle) - 1 /\ \A k \in 1..Len(idle) : k \in DOMAIN idle
    BY <1>5
  <2>2. CASE j < i
    <3>1. idle'[j] = head[j]
      BY <1>2, <1>3, <1>4, <1>i, <2>1, <2>2
    <3>2. j \in 1..i - 1 /\ j \in 1..Len(idle)
      BY <1>i, <2>1, <2>2
    <3> QED
      BY <1>3, <2>1, <3>1, <3>2
  <2>3. CASE ~(j < i)
    <3>1. idle'[j] = tail[j - (i - 1)]
      BY <1>2, <1>3, <1>4, <1>i, <2>1, <2>3
    <3>2. j - (i - 1) \in 1..Len(idle) - i /\ i + (j - (i - 1)) = j + 1
          /\ j + 1 \in 1..Len(idle)
      BY <1>i, <2>1, <2>3
    <3>3. tail[j - (i - 1)] = idle[j + 1]
      BY <1>4, <3>2
    <3> QED
      BY <2>1, <3>1, <3>2, <3>3
  <2> QED
    BY <2>2, <2>3
<1> QED
  BY <1>5, <1>6

\* A step of one caller: it holds a connection exactly while it says so.
LEMMA CallerKeepsConn ==
  ASSUME ConnInv, Up, NEW a \in Callers, NEW s \in Steps,
         conn' = conn \/ (conn' = [conn EXCEPT ![a] = "none"])
                      \/ \E k \in {"with", "without"} : conn' = [conn EXCEPT ![a] = k],
         step' = [step EXCEPT ![a] = s],
         conn'[a] # "none" <=> s \in Holders,
         idle' \in Seq(BOOLEAN), Len(idle') <= MaxIdle,
         UNCHANGED <<dsn, boot>>,
         broke' \in BOOLEAN, overlap' \in BOOLEAN, lost' \in BOOLEAN
  PROVE  ConnInv'
<1>1. conn' \in [Callers -> {"none", "with", "without"}] /\ step' \in [Callers -> Steps]
  BY DEF ConnInv
<1>2. \A b \in Callers : conn'[b] # "none" <=> step'[b] \in Holders
  BY DEF ConnInv
<1>3. boot \notin Starting \cup {"down"} /\ Up'
  BY DEF Up, Starting
<1> QED
  BY <1>1, <1>2, <1>3 DEF ConnInv, Starting, Up

\* A caller in a handler finds the process up.
LEMMA BusyIsUp == ASSUME ConnInv, NEW a \in Callers, step[a] # "idle" PROVE Up
BY DEF ConnInv

\* Taking a connection.
LEMMA ConnectKeepsConn == ASSUME ConnInv, NEW a \in Callers, Connect(a) PROVE ConnInv'
<1> DEFINE k == IF idle = <<>> THEN Open ELSE IF Last(idle) THEN "with" ELSE "without"
<1>1. step[a] \in {"prepare", "run"} /\ Borrow(a)
  BY DEF Connect, Holding
<1>2. Holding[step[a]] \in {"preparing", "running"}
  BY <1>1 DEF Holding
<1>3. /\ conn' = [conn EXCEPT ![a] = k] /\ k \in {"with", "without"}
      /\ UNCHANGED <<dsn, boot, broke, lost>> /\ overlap' \in BOOLEAN
  BY <1>1 DEF Connect, Borrow, Open, server, ConnInv
<1> HIDE DEF k
<1>4. idle' \in Seq(BOOLEAN) /\ Len(idle') <= MaxIdle
  BY <1>1, BorrowTakes DEF ConnInv, MaxIdle
<1>5. Up
  BY <1>1, BusyIsUp
<1>6. step' = [step EXCEPT ![a] = Holding[step[a]]] /\ conn'[a] = k
  BY <1>3 DEF Connect, Move, ConnInv
<1> QED
  BY <1>2, <1>3, <1>4, <1>5, <1>6, CallerKeepsConn DEF Steps, Holders, ConnInv

\* Putting a connection back, or losing it, at the end of a statement.
LEMMA ReleaseKeepsConn ==
  ASSUME ConnInv, NEW a \in Callers, step[a] # "idle", NEW s \in {"idle", "run"},
         GiveBack(a) \/ Lose(a), Move(a, s), lost' \in BOOLEAN
  PROVE  ConnInv'
<1>1. Up
  BY BusyIsUp
<1>2. /\ conn' = [conn EXCEPT ![a] = "none"] /\ UNCHANGED <<dsn, boot>>
      /\ broke' \in BOOLEAN /\ overlap' \in BOOLEAN
  BY DEF GiveBack, Lose, server, ConnInv
<1>3. idle' \in Seq(BOOLEAN) /\ Len(idle') <= MaxIdle
  BY GiveBackPuts DEF Lose, ConnInv
<1>4. conn'[a] = "none" /\ s \in Steps /\ s \notin Holders
  BY <1>2 DEF ConnInv, Steps, Holders
<1> QED
  BY <1>1, <1>2, <1>3, <1>4, CallerKeepsConn DEF Move

\* A step of a handler that leaves the pool alone.
LEMMA MoveKeepsConn ==
  ASSUME ConnInv, Up, NEW a \in Callers, NEW s \in Steps,
         s \in Holders <=> step[a] \in Holders,
         UNCHANGED poolVars, Move(a, s), lost' \in BOOLEAN
  PROVE  ConnInv'
BY CallerKeepsConn DEF Move, poolVars, ConnInv

\* The steps of the clients and of the writer.
CallerStep ==
  \/ SetTrade \/ Inserted \/ InsertLost
  \/ \E a \in Callers : Connect(a)
  \/ \E c \in Clients : \/ Request(c) \/ Prepared(c) \/ Refused(c) \/ Queried(c)
                        \/ RowsRead(c) \/ RowsCut(c) \/ DeleteAll(c) \/ StatementLost(c)

\* They keep the types of the pool, and every connection in one place.
LEMMA CallersKeepConn == ConnInv /\ CallerStep => ConnInv'
<1> SUFFICES ASSUME ConnInv, CallerStep PROVE ConnInv'
  OBVIOUS
<1> lost \in BOOLEAN /\ Writer \in Callers
  BY DEF ConnInv, Callers
<1>1. CASE SetTrade
  BY <1>1, MoveKeepsConn DEF SetTrade, Up, Steps, Holders
<1>2. CASE Inserted
  BY <1>2, ReleaseKeepsConn DEF Inserted
<1>3. CASE InsertLost
  <2>1. step[Writer] # "idle"
    BY <1>3 DEF InsertLost, NoneToBorrow, ConnInv, Holders
  <2> QED
    BY <1>3, <2>1, ReleaseKeepsConn DEF InsertLost
<1>4. ASSUME NEW c \in Clients, Request(c) \/ Queried(c) PROVE ConnInv'
  <2>1. c \in Callers
    BY DEF Callers
  <2>2. CASE Request(c)
    BY <2>1, <2>2, MoveKeepsConn DEF Request, Up, Steps, Holders
  <2>3. CASE Queried(c)
    BY <2>1, <2>3, MoveKeepsConn, BusyIsUp DEF Queried, Running, Steps, Holders
  <2> QED
    BY <1>4, <2>2, <2>3
<1>5. ASSUME NEW c \in Clients, Prepared(c) \/ Refused(c) \/ RowsRead(c) \/ RowsCut(c) \/ DeleteAll(c)
      PROVE ConnInv'
  <2>1. /\ c \in Callers /\ step[c] # "idle" /\ lost' = lost
        /\ GiveBack(c) \/ Lose(c)
        /\ \E s \in {"idle", "run"} : Move(c, s)
    BY <1>5 DEF Callers, Prepared, Refused, RowsRead, RowsCut, DeleteAll, Running, Fails
  <2> QED
    BY <2>1, ReleaseKeepsConn
<1>6. ASSUME NEW c \in Clients, StatementLost(c) PROVE ConnInv'
  <2>1. c \in Callers /\ step[c] # "idle"
    BY <1>6 DEF Callers, StatementLost, NoneToBorrow, ConnInv, Holders
  <2> QED
    BY <1>6, <2>1, ReleaseKeepsConn DEF StatementLost, Fails
<1> QED
  BY <1>1, <1>2, <1>3, <1>4, <1>5, <1>6, ConnectKeepsConn DEF CallerStep

\* main() prepares a statement and puts its connection back.
LEMMA MainStepKeepsConn ==
  ASSUME ConnInv, UNCHANGED apiVars, boot \in {"ping", "create", "use", "amms", "trades"},
         NEW s \in Starting \ {"redis", "ping"}, To(s), NEW c \in BOOLEAN, MainPuts(c)
  PROVE  ConnInv'
<1>1. idle' = <<c>>
  BY MainHasOne DEF ConnInv, Starting
<1>2. Len(idle') = 1 /\ idle' \in Seq(BOOLEAN)
  BY <1>1
<1>3. ~Up /\ ~Up' /\ boot' = s
  BY DEF Up, To, Starting
<1> QED
  BY <1>2, <1>3 DEF ConnInv, To, Boots, Starting, apiVars, MaxIdle

\* The start of the program, on its one connection.
LEMMA BootKeepsConn == ConnInv /\ Boot /\ UNCHANGED apiVars => ConnInv'
<1> SUFFICES ASSUME ConnInv, Boot, UNCHANGED apiVars PROVE ConnInv'
  OBVIOUS
<1>1. CASE Ping \/ CreateDatabase \/ UseDatabase \/ Migrate("amms", "trades") \/ Migrate("trades", "grpc")
  <2>1. MainConn \in BOOLEAN
    <3>1. idle # <<>> => Last(idle) \in BOOLEAN
      BY DEF ConnInv, Last
    <3> QED
      BY <3>1 DEF MainConn
  <2> QED
    BY <1>1, <2>1, MainStepKeepsConn
       DEF Ping, CreateDatabase, UseDatabase, Migrate, At, Starting
<1>2. CASE InitRedis \/ GrpcConnect \/ Listen \/ BootFails
  <2>1. ~Up /\ UNCHANGED <<dsn, conn, broke, overlap, step, lost>> /\ boot' \in Boots
    BY <1>2 DEF InitRedis, GrpcConnect, Listen, BootFails, At, To, Up, Starting, apiVars, Boots, server
  <2>2. idle' = IF boot' = "down" THEN <<>> ELSE idle
    BY <1>2 DEF InitRedis, GrpcConnect, Listen, BootFails, At, To
  <2>3. /\ boot' \in {"redis", "ping"} => boot = "redis"
        /\ boot' \in Starting => boot \in Starting
    BY <1>2 DEF InitRedis, GrpcConnect, Listen, BootFails, At, To, Starting
  <2>4. idle' \in Seq(BOOLEAN) /\ Len(idle') <= MaxIdle /\ (boot' \in Starting => Len(idle') <= 1)
    BY <2>2, <2>3, NothingIdle DEF ConnInv, MaxIdle
  <2> QED
    BY <2>1, <2>2, <2>3, <2>4 DEF ConnInv
<1>3. CASE Serve
  BY <1>3 DEF Serve, At, To, ConnInv, Up, Boots, Starting, apiVars
<1> QED
  BY <1>1, <1>2, <1>3 DEF Boot

\* Its end, its restart and the loss of an idle connection.
LEMMA EndsKeepConn ==
  ConnInv /\ (((Restart \/ IdleEnds) /\ UNCHANGED apiVars) \/ Crash) => ConnInv'
<1> SUFFICES ASSUME ConnInv, ((Restart \/ IdleEnds) /\ UNCHANGED apiVars) \/ Crash PROVE ConnInv'
  OBVIOUS
<1>1. CASE Restart /\ UNCHANGED apiVars
  BY <1>1, NothingIdle DEF Restart, ConnInv, apiVars, Up, Boots, Starting, server
<1>2. CASE IdleEnds /\ UNCHANGED apiVars
  <2>1. UNCHANGED <<dsn, boot, conn, overlap, step, lost>> /\ broke' \in BOOLEAN
    BY <1>2 DEF IdleEnds, apiVars, server
  <2>2. idle' \in Seq(BOOLEAN) /\ Len(idle') = Len(idle) - 1 /\ idle # <<>>
    BY <1>2, IdleEndsDrops DEF ConnInv, IdleEnds
  <2>3. Len(idle') <= MaxIdle /\ (boot' \in Starting => Len(idle') <= 1)
    BY <2>1, <2>2 DEF ConnInv, MaxIdle
  <2>4. Up' = Up
    BY <2>1 DEF Up
  <2> QED
    BY <2>1, <2>2, <2>3, <2>4 DEF ConnInv
<1>3. CASE Crash
  <2>1. /\ dsn' = dsn /\ boot' = "down" /\ idle' = <<>> /\ UNCHANGED <<broke, overlap>>
        /\ conn' = [a \in Callers |-> "none"] /\ step' = [a \in Callers |-> "idle"] /\ ~lost'
    BY <1>3 DEF Crash, PoolDies, Quiet, server
  <2>2. lost' \in BOOLEAN
    BY <1>3 DEF Crash, Quiet
  <2> QED
    BY <2>1, <2>2, NothingIdle DEF ConnInv, Up, Boots, Starting, Steps, Holders
<1> QED
  BY <1>1, <1>2, <1>3

\* The pool has its types and every caller its connection, in every reachable
\* state.
LEMMA ConnInvariant == Spec => []ConnInv
<1>1. Init => ConnInv
  <2> SUFFICES ASSUME Init PROVE ConnInv
    OBVIOUS
  <2>1. /\ dsn \in {"plain", "named"} /\ boot = "redis" /\ idle = <<>>
        /\ conn = [a \in Callers |-> "none"] /\ broke = FALSE /\ overlap = FALSE
    BY DEF Init, PoolInit
  <2>2. step = [a \in Callers |-> "idle"] /\ lost = FALSE
    BY DEF Init, Quiet
  <2> QED
    BY <2>1, <2>2, NothingIdle DEF ConnInv, Up, Boots, Starting, Steps, Holders
<1>2. ConnInv /\ UNCHANGED vars => ConnInv'
  BY DEF ConnInv, vars, poolVars, apiVars, Up
<1>3. Next => \/ CallerStep \/ (Boot /\ UNCHANGED apiVars)
              \/ ((Restart \/ IdleEnds) /\ UNCHANGED apiVars) \/ Crash
  BY DEF Next, CallerStep
<1> QED
  BY <1>1, <1>2, <1>3, CallersKeepConn, BootKeepsConn, EndsKeepConn, PTL DEF Spec

\* The pool keeps its types and its two idle connections at most.
THEOREM PoolTypes == Spec => []PoolTypeOK
<1>1. SchemaInv /\ ConnInv => PoolTypeOK
  BY DEF SchemaInv, Schema, ConnInv, Boots, PoolTypeOK
<1> QED
  BY <1>1, SchemaInvariant, ConnInvariant, PTL

-----------------------------------------------------------------------------
(* A lost database                                                         *)

\* No connection has the database: neither an idle one nor one in use.
NoneSelected ==
  /\ \A i \in DOMAIN idle : ~idle[i]
  /\ \A a \in Callers : conn[a] # "with"

\* Callers hand such connections round and open more of them.
LEMMA CallersKeepNone ==
  ASSUME ConnInv, CallerStep, NoneSelected, dsn = "plain"
  PROVE  NoneSelected' /\ table' = table
<1> USE DEF NoneSelected
<1>1. ASSUME NEW a \in Callers, Connect(a) PROVE NoneSelected' /\ table' = table
  <2> DEFINE k == IF idle = <<>> THEN Open ELSE IF Last(idle) THEN "with" ELSE "without"
  <2>1. Borrow(a) /\ conn' = [conn EXCEPT ![a] = k] /\ table' = table
    BY <1>1 DEF Connect, Borrow
  <2>2. k = "without"
    BY <2>1, BorrowTakes DEF Open, ConnInv
  <2>3. \A i \in DOMAIN idle' : ~idle'[i]
    BY <2>1, BorrowTakes DEF ConnInv
  <2> HIDE DEF k
  <2> QED
    BY <2>1, <2>2, <2>3 DEF ConnInv
<1>2. ASSUME NEW a \in Callers, GiveBack(a) \/ Lose(a), step[a] # "idle" PROVE NoneSelected'
  <2>1. conn' = [conn EXCEPT ![a] = "none"]
    BY <1>2 DEF GiveBack, Lose
  <2>2. \A i \in DOMAIN idle' : ~idle'[i]
    <3>1. CASE GiveBack(a)
      BY <3>1, GiveBackPuts DEF ConnInv, Selected
    <3>2. CASE Lose(a)
      BY <3>2 DEF Lose
    <3> QED
      BY <1>2, <3>1, <3>2
  <2> QED
    BY <2>1, <2>2 DEF ConnInv
<1>3. CASE UNCHANGED poolVars /\ table' = table
  BY <1>3 DEF poolVars
<1>4. CASE Inserted \/ InsertLost
  <2>1. Writer \in Callers /\ ~Selected(conn[Writer]) /\ step[Writer] # "idle"
    BY <1>4 DEF Callers, Selected, Inserted, InsertLost, NoneToBorrow, ConnInv, Holders
  <2>2. table' = table /\ (GiveBack(Writer) \/ Lose(Writer))
    BY <1>4, <2>1 DEF Inserted, InsertLost
  <2> QED
    BY <1>2, <1>4, <2>1, <2>2 DEF Inserted, InsertLost
<1>5. ASSUME NEW c \in Clients, Prepared(c) \/ Refused(c) \/ RowsRead(c) \/ RowsCut(c) \/ StatementLost(c)
      PROVE NoneSelected' /\ table' = table
  <2>1. c \in Callers /\ step[c] # "idle"
    BY <1>5 DEF Callers, Prepared, Refused, RowsRead, RowsCut, StatementLost, NoneToBorrow, ConnInv, Holders
  <2>2. GiveBack(c) \/ Lose(c)
    BY <1>5 DEF Prepared, Refused, RowsRead, RowsCut, StatementLost
  <2>3. table' = table
    BY <1>5 DEF Prepared, Refused, RowsRead, RowsCut, StatementLost, Fails
  <2> QED
    BY <1>2, <2>1, <2>2, <2>3
<1>6. ASSUME NEW c \in Clients, DeleteAll(c) PROVE FALSE
  \* its TRUNCATE finds no database
  BY <1>6 DEF DeleteAll, Selected, Callers
<1>7. ASSUME NEW c \in Clients, Request(c) \/ Queried(c) PROVE UNCHANGED poolVars /\ table' = table
  BY <1>7 DEF Request, Queried
<1>8. CASE SetTrade
  BY <1>8, <1>3 DEF SetTrade
<1> QED
  BY <1>1, <1>3, <1>4, <1>5, <1>6, <1>7, <1>8 DEF CallerStep

\* Once the connection USE was sent on is gone, the table is neither written nor
\* emptied until the program is started again.
THEOREM DatabaseLostForGood == Spec => LostDatabaseStaysLost
<1>1. ASSUME ConnInv, [Next]_vars, DatabaseLost
      PROVE  table' = table /\ (DatabaseLost' \/ boot' = "down")
  <2>1. Up /\ dsn = "plain" /\ NoneSelected
    BY <1>1 DEF DatabaseLost, NoneSelected
  <2>2. ASSUME NoneSelected', Up', dsn' = dsn PROVE DatabaseLost'
    BY <2>1, <2>2 DEF DatabaseLost, NoneSelected
  <2>3. CASE CallerStep
    BY <1>1, <2>1, <2>2, <2>3, CallersLeaveMain, CallersKeepNone DEF CallerStep, Up
  <2>4. CASE Boot /\ UNCHANGED apiVars
    <3>1. CASE Serve
      BY <2>1, <2>2, <2>4, <3>1 DEF Serve, To, Up, NoneSelected, apiVars
    <3>2. CASE ~Serve
      BY <2>1, <2>4, <3>2
         DEF Boot, InitRedis, Ping, CreateDatabase, UseDatabase, Migrate,
             GrpcConnect, Listen, BootFails, At, Up, Starting
    <3> QED
      BY <3>1, <3>2
  <2>5. CASE IdleEnds /\ UNCHANGED apiVars
    BY <1>1, <2>1, <2>2, <2>5, IdleEndsDrops DEF IdleEnds, server, ConnInv, NoneSelected, Up, apiVars
  <2>6. CASE Crash
    BY <2>6 DEF Crash, PoolDies
  <2>7. ~Restart
    BY <2>1 DEF Restart, Up
  <2>8. CASE UNCHANGED vars
    BY <1>1, <2>8 DEF vars, poolVars, apiVars, DatabaseLost, Up
  <2> QED
    BY <1>1, <2>3, <2>4, <2>5, <2>6, <2>7, <2>8 DEF Next, CallerStep
<1> QED
  BY <1>1, ConnInvariant, PTL DEF Spec, LostDatabaseStaysLost

-----------------------------------------------------------------------------
(* The first connection                                                    *)

\* The steps of main() after USE.
Served == {"amms", "trades", "grpc", "connected", "listening", "serving", "headless"}

\* One connection in all, with the database: put back, or in one caller's hands.
OneSelected ==
  \/ idle = <<TRUE>> /\ \A a \in Callers : conn[a] = "none"
  \/ idle = <<>> /\ \E a \in Callers :
       conn[a] = "with" /\ \A b \in Callers \ {a} : conn[b] = "none"

\* While nothing breaks, a DSN with the database gives it to every connection,
\* and without overlap there is no second one.
FirstInv ==
  ~broke =>
    /\ dsn = "named" => /\ \A i \in DOMAIN idle : idle[i]
                        /\ \A a \in Callers : conn[a] # "without"
    /\ ~overlap /\ boot \in Served => OneSelected

\* Whoever holds a connection then has the database.
LEMMA HeldIsSelected ==
  ASSUME ConnInv, FirstInv, ~broke, overlap => dsn = "named",
         NEW a \in Callers, conn[a] # "none"
  PROVE  Selected(conn[a])
<1>1. boot \in Served
  BY DEF ConnInv, Up, Served, Holders
<1>2. CASE dsn = "named"
  BY <1>2 DEF FirstInv, ConnInv, Selected
<1>3. CASE ~overlap
  BY <1>1, <1>3 DEF FirstInv, OneSelected, Selected
<1> QED
  BY <1>2, <1>3 DEF ConnInv

\* Taking a connection takes the only one, or opens one like it.
LEMMA ConnectKeepsFirst ==
  ASSUME ConnInv, FirstInv, NEW a \in Callers, Connect(a)
  PROVE  FirstInv'
<1> SUFFICES ASSUME ~broke' PROVE FirstInv'
  BY DEF FirstInv
<1> DEFINE k == IF idle = <<>> THEN Open ELSE IF Last(idle) THEN "with" ELSE "without"
<1>1. /\ Borrow(a) /\ conn' = [conn EXCEPT ![a] = k] /\ UNCHANGED <<dsn, boot, broke>>
      /\ overlap' = (overlap \/ \E b \in Callers \ {a} : conn[b] # "none")
  BY DEF Connect, Borrow, server
<1>2. conn[a] = "none" /\ boot \in Served
  BY DEF Connect, Holding, ConnInv, Holders, Served, Up
<1>3. ASSUME dsn = "named"
      PROVE  k = "with" /\ \A i \in DOMAIN idle' : idle'[i]
  <2>1. \A i \in DOMAIN idle : idle[i]
    BY <1>1, <1>3 DEF FirstInv
  <2> QED
    BY <1>1, <1>3, <2>1, BorrowTakes DEF ConnInv, Open
<1>4. ASSUME ~overlap'
      PROVE  k = "with" /\ idle' = <<>> /\ \A b \in Callers \ {a} : conn[b] = "none"
  <2>1. ~overlap /\ \A b \in Callers \ {a} : conn[b] = "none"
    BY <1>1, <1>4
  <2>2. idle = <<TRUE>>
    BY <1>1, <1>2, <2>1 DEF FirstInv, OneSelected
  <2>3. Len(idle) = 1 /\ idle[1] = TRUE /\ idle # <<>>
    BY <2>2
  <2> QED
    BY <1>1, <2>1, <2>3, BorrowTakes DEF ConnInv
<1> HIDE DEF k
<1>5. dsn' = "named" => /\ \A i \in DOMAIN idle' : idle'[i]
                        /\ \A b \in Callers : conn'[b] # "without"
  BY <1>1, <1>3 DEF FirstInv, ConnInv
<1>6. ~overlap' => OneSelected'
  BY <1>1, <1>4 DEF OneSelected, ConnInv
<1> QED
  BY <1>5, <1>6 DEF FirstInv

\* Putting it back makes it the only one again; losing it ends the claim.
LEMMA ReleaseKeepsFirst ==
  ASSUME ConnInv, FirstInv, NEW a \in Callers, conn[a] # "none" \/ Lose(a),
         GiveBack(a) \/ Lose(a)
  PROVE  FirstInv'
<1>1. CASE Lose(a)
  BY <1>1 DEF Lose, FirstInv
<1>2. CASE GiveBack(a) /\ ~broke /\ conn[a] # "none"
  <2>1. conn' = [conn EXCEPT ![a] = "none"] /\ UNCHANGED <<dsn, boot, broke, overlap>>
    BY <1>2 DEF GiveBack, server
  <2>2. dsn = "named" => /\ \A i \in DOMAIN idle' : idle'[i]
                         /\ \A b \in Callers : conn'[b] # "without"
    <3> SUFFICES ASSUME dsn = "named"
                 PROVE  /\ \A i \in DOMAIN idle' : idle'[i]
                        /\ \A b \in Callers : conn'[b] # "without"
      OBVIOUS
    <3>1. Selected(conn[a])
      BY <1>2, HeldIsSelected
    <3>2. \A i \in DOMAIN idle' : idle'[i]
      BY <1>2, <3>1, GiveBackPuts DEF ConnInv, FirstInv
    <3> QED
      BY <1>2, <2>1, <3>2 DEF ConnInv, FirstInv
  <2>3. ASSUME ~overlap, boot \in Served PROVE OneSelected'
    <3>1. idle = <<>> /\ conn[a] = "with" /\ \A b \in Callers \ {a} : conn[b] = "none"
      BY <1>2, <2>3 DEF FirstInv, OneSelected
    <3>2. idle' = <<TRUE>>
      BY <1>2, <3>1, GiveBackPuts DEF ConnInv, Selected
    <3> QED
      BY <2>1, <3>1, <3>2 DEF OneSelected, ConnInv
  <2> QED
    BY <2>1, <2>2, <2>3 DEF FirstInv
<1>3. CASE GiveBack(a) /\ broke
  BY <1>3 DEF GiveBack, FirstInv
<1> QED
  BY <1>1, <1>2, <1>3

\* Only these steps of callers touch the pool.
LEMMA CallersKeepFirst == ConnInv /\ FirstInv /\ CallerStep => FirstInv'
<1> SUFFICES ASSUME ConnInv, FirstInv, CallerStep PROVE FirstInv'
  OBVIOUS
<1>1. CASE UNCHANGED poolVars
  BY <1>1 DEF poolVars, FirstInv, OneSelected
<1>2. ASSUME NEW c \in Clients,
             \/ Prepared(c) \/ Refused(c) \/ RowsRead(c) \/ RowsCut(c)
             \/ DeleteAll(c) \/ StatementLost(c)
      PROVE FirstInv'
  <2>1. c \in Callers /\ (GiveBack(c) \/ Lose(c))
    BY <1>2 DEF Callers, Prepared, Refused, RowsRead, RowsCut, DeleteAll, StatementLost
  <2>2. conn[c] # "none" \/ Lose(c)
    BY <1>2, <2>1 DEF Prepared, Refused, RowsRead, DeleteAll, StatementLost, RowsCut,
                      Running, ConnInv, Holders
  <2> QED
    BY <2>1, <2>2, ReleaseKeepsFirst
<1>3. CASE Inserted \/ InsertLost
  <2>1. Writer \in Callers /\ (conn[Writer] # "none" \/ Lose(Writer))
    BY <1>3 DEF Callers, Inserted, InsertLost, ConnInv, Holders
  <2> QED
    BY <1>3, <2>1, ReleaseKeepsFirst DEF Inserted, InsertLost
<1>4. CASE SetTrade \/ \E c \in Clients : Request(c) \/ Queried(c)
  BY <1>1, <1>4 DEF SetTrade, Request, Queried
<1> QED
  BY <1>2, <1>3, <1>4, ConnectKeepsFirst DEF CallerStep

\* A statement of main() keeps the claim when it leaves a connection with the
\* database wherever the claim needs one.
LEMMA MainStepKeepsFirst ==
  ASSUME ConnInv, FirstInv, boot \in Starting, UNCHANGED <<dsn, conn, broke, overlap>>,
         NEW c \in BOOLEAN, MainPuts(c),
         ~broke /\ dsn = "named" => c = TRUE, boot' \in Served => c = TRUE
  PROVE  FirstInv'
<1>1. idle \in Seq(BOOLEAN) /\ Len(idle) <= 1
  BY DEF ConnInv
<1>2. idle' = <<c>>
  BY <1>1, MainHasOne
<1>3. ASSUME c = TRUE PROVE idle' = <<TRUE>> /\ \A i \in DOMAIN idle' : idle'[i]
  <2>1. idle' = <<TRUE>>
    BY <1>2, <1>3, Zenon
  <2>2. DOMAIN idle' = 1..1 /\ idle'[1] = TRUE
    BY <2>1
  <2>3. \A i \in 1..1 : i = 1
    OBVIOUS
  <2> QED
    BY <2>1, <2>2, <2>3, Zenon
<1>4. \A a \in Callers : conn[a] = "none"
  BY DEF ConnInv, Up, Starting, Holders
<1> QED
  BY <1>3, <1>4 DEF FirstInv, OneSelected

\* USE leaves the one connection of main() with the database, and no step of
\* the start opens another.
LEMMA MainKeepsFirst ==
  ConnInv /\ FirstInv /\ ((Boot \/ Restart \/ IdleEnds) /\ UNCHANGED apiVars) => FirstInv'
<1> SUFFICES ASSUME ConnInv, FirstInv, Boot \/ Restart \/ IdleEnds, UNCHANGED apiVars
             PROVE  FirstInv'
  OBVIOUS
<1>1. ~Up => \A a \in Callers : conn[a] = "none"
  BY DEF ConnInv, Holders
<1>2. CASE Ping \/ CreateDatabase \/ UseDatabase \/ Migrate("amms", "trades") \/ Migrate("trades", "grpc")
  <2>1. boot \in Starting /\ UNCHANGED <<dsn, conn, broke, overlap>>
    BY <1>2 DEF Ping, CreateDatabase, UseDatabase, Migrate, At, To, Starting
  <2>2. idle # <<>> => Last(idle) \in BOOLEAN
    BY DEF ConnInv, Last
  <2>3. MainConn \in BOOLEAN
    BY <2>2 DEF MainConn
  <2>4. ~broke /\ dsn = "named" => MainConn = TRUE
    BY DEF MainConn, FirstInv, ConnInv, Last
  <2>5. CASE UseDatabase
    BY <2>1, <2>5, MainStepKeepsFirst DEF UseDatabase
  <2>6. CASE Ping \/ CreateDatabase
    BY <2>1, <2>3, <2>4, <2>6, MainStepKeepsFirst DEF Ping, CreateDatabase, To, Served
  <2>7. CASE Migrate("amms", "trades") \/ Migrate("trades", "grpc")
    BY <2>1, <2>3, <2>7, MainStepKeepsFirst DEF Migrate
  <2> QED
    BY <1>2, <2>5, <2>6, <2>7
<1>3. CASE InitRedis \/ BootFails \/ Restart
  <2>1. ~Up /\ idle' = <<>> /\ UNCHANGED <<dsn, conn>> /\ boot' \notin Served
    BY <1>3 DEF InitRedis, BootFails, Restart, At, To, server, Up, Starting, Served, ConnInv
  <2> QED
    BY <1>1, <2>1 DEF FirstInv
<1>4. CASE GrpcConnect \/ Listen \/ Serve
  BY <1>4 DEF GrpcConnect, Listen, Serve, At, To, FirstInv, OneSelected, Served
<1>5. CASE IdleEnds
  BY <1>5 DEF IdleEnds, FirstInv
<1> QED
  BY <1>2, <1>3, <1>4, <1>5 DEF Boot

\* Who has failed: nobody before the program is up, and then as the property says.
FailInv ==
  /\ answer = [c \in Clients |-> answer[c]]
  /\ req \in [Callers -> Filters \cup Trades \cup {Delete, NoRequest}]
  /\ \A c \in Clients : step[c] # "idle" => req[c] \in Filters \cup {Delete}
  /\ ~Up => ~lost /\ \A c \in Clients : answer[c].code # "error"
  /\ FirstConnectionSuffices

\* A step after which nobody has failed who had not.
LEMMA NobodyFails ==
  ASSUME FailInv, dsn' = dsn, Up' = Up,
         broke => broke', overlap => overlap', lost' => lost,
         \A c \in Clients : answer'[c].code = "error" =>
           answer[c].code = "error" /\ req'[c] = req[c]
  PROVE  FirstConnectionSuffices' /\ (~Up' => ~lost' /\ \A c \in Clients : answer'[c].code # "error")
BY DEF FailInv, FirstConnectionSuffices

\* A request that fails while the pool serves has an OFFSET and no LIMIT.
LEMMA RefusedKeepsFail ==
  ASSUME ConnInv, FirstInv, FailInv, NEW c \in Clients, Refused(c)
  PROVE  FailInv'
<1>1. c \in Callers /\ step[c] # "idle" /\ conn[c] # "none"
  BY DEF Refused, Callers, ConnInv, Holders
<1>2. Up
  BY <1>1, BusyIsUp
<1>3. /\ UNCHANGED <<dsn, boot, broke, overlap, req, lost>>
      /\ step' = [step EXCEPT ![c] = "idle"]
      /\ answer' = [answer EXCEPT ![c] = [code |-> "error", rows |-> <<>>]]
  BY DEF Refused, GiveBack, Fails, Move, Answer, server
<1>4. ~broke /\ (overlap => dsn = "named") =>
        req[c] # Delete /\ req[c].offset > 0 /\ req[c].limit <= 0
  <2> SUFFICES ASSUME ~broke, overlap => dsn = "named"
               PROVE  req[c] # Delete /\ req[c].offset > 0 /\ req[c].limit <= 0
    OBVIOUS
  <2>1. req[c] # Delete /\ ~Parses(BuildSearchQuery(req[c]))
    BY <1>1, HeldIsSelected DEF Refused
  <2>2. req[c].limit \in Int /\ req[c].offset \in Int
    BY <1>1, <2>1, TradeApiAssumption DEF FailInv
  <2> QED
    BY <2>1, <2>2 DEF Parses, BuildSearchQuery
<1>5. \A d \in Clients : answer'[d].code = "error" => d = c \/ answer[d].code = "error"
  BY <1>3 DEF FailInv
<1>6. FirstConnectionSuffices'
  BY <1>3, <1>4, <1>5 DEF FailInv, FirstConnectionSuffices
<1>7. /\ answer' = [d \in Clients |-> answer'[d]]
      /\ \A d \in Clients : step'[d] # "idle" => step[d] # "idle"
  BY <1>3 DEF FailInv, ConnInv, Callers
<1> QED
  BY <1>2, <1>3, <1>6, <1>7 DEF FailInv, Up

\* So does every other step of a caller: a lost connection is no claim of ours,
\* and an INSERT that finds its table only fails on a number too large.
LEMMA CallersKeepFail ==
  ConnInv /\ FirstInv /\ FailInv /\ CallerStep => FailInv'
<1> SUFFICES ASSUME ConnInv, FirstInv, FailInv, CallerStep PROVE FailInv'
  OBVIOUS
<1>0. UNCHANGED <<dsn, boot>> /\ Up' = Up
  BY CallersLeaveMain DEF CallerStep, Up
<1>1. ASSUME NEW c \in Clients, Request(c) PROVE FailInv'
  <2>1. PICK r \in Filters \cup {Delete} : req' = [req EXCEPT ![c] = r]
    BY <1>1 DEF Request
  <2>2. /\ answer' = [answer EXCEPT ![c] = None] /\ UNCHANGED <<poolVars, lost>>
        /\ step' = [step EXCEPT ![c] = "prepare"] /\ c \in Callers
    BY <1>1 DEF Request, Move, Callers
  <2>3. \A d \in Clients : answer'[d].code = "error" => answer[d].code = "error" /\ req'[d] = req[d]
    BY <2>1, <2>2 DEF None, FailInv, Callers
  <2>4. FirstConnectionSuffices' /\ (~Up' => ~lost' /\ \A d \in Clients : answer'[d].code # "error")
    BY <1>0, <2>2, <2>3, NobodyFails DEF poolVars
  <2>5. req' \in [Callers -> Filters \cup Trades \cup {Delete, NoRequest}]
    BY <2>1, <2>2 DEF FailInv
  <2>6. \A d \in Clients : step'[d] # "idle" => req'[d] \in Filters \cup {Delete}
    BY <2>1, <2>2 DEF FailInv, ConnInv, Callers
  <2>7. answer' = [d \in Clients |-> answer'[d]]
    BY <2>2 DEF FailInv
  <2> QED
    BY <2>4, <2>5, <2>6, <2>7 DEF FailInv
<1>2. CASE SetTrade
  <2>1. PICK t \in Trades : req' = [req EXCEPT ![Writer] = t]
    BY <1>2 DEF SetTrade
  <2>2. /\ UNCHANGED <<poolVars, answer, lost>> /\ step' = [step EXCEPT ![Writer] = "run"]
        /\ Writer \in Callers /\ Writer \notin Clients
    BY <1>2, DbPoolAssumption DEF SetTrade, Move, Callers
  <2>3. \A d \in Clients : req'[d] = req[d] /\ step'[d] = step[d]
    BY <2>1, <2>2 DEF FailInv, ConnInv, Callers
  <2>4. req' \in [Callers -> Filters \cup Trades \cup {Delete, NoRequest}]
    BY <2>1, <2>2 DEF FailInv
  <2>5. FirstConnectionSuffices' /\ (~Up' => ~lost' /\ \A d \in Clients : answer'[d].code # "error")
    BY <1>0, <2>2, <2>3, NobodyFails DEF poolVars
  <2> QED
    BY <2>2, <2>3, <2>4, <2>5 DEF FailInv
\* the requests and their steps stay in their sets
<1>3. ASSUME NEW a \in Callers, step[a] # "idle", NEW s, Move(a, s), req' = req,
             answer' = answer \/ \E x : a \in Clients /\ answer' = [answer EXCEPT ![a] = x]
      PROVE  /\ answer' = [d \in Clients |-> answer'[d]]
             /\ req' \in [Callers -> Filters \cup Trades \cup {Delete, NoRequest}]
             /\ \A d \in Clients : step'[d] # "idle" => req'[d] \in Filters \cup {Delete}
  BY <1>3 DEF Move, FailInv, ConnInv, Callers
<1>4. ASSUME NEW a \in Callers, Connect(a) PROVE FailInv'
  <2>1. step[a] # "idle" /\ \E s : Move(a, s)
    BY <1>4 DEF Connect, Holding
  <2>2. UNCHANGED <<answer, req, lost, dsn, broke>> /\ (overlap => overlap')
    BY <1>4 DEF Connect, Borrow, server
  <2>3. FirstConnectionSuffices' /\ (~Up' => ~lost' /\ \A d \in Clients : answer'[d].code # "error")
    BY <1>0, <2>2, NobodyFails
  <2> QED
    BY <1>3, <2>1, <2>2, <2>3 DEF FailInv
<1>5. ASSUME NEW c \in Clients, Prepared(c) \/ Queried(c) PROVE FailInv'
  <2>1. c \in Callers /\ step[c] # "idle" /\ \E s : Move(c, s)
    BY <1>5 DEF Prepared, Queried, Running, Callers
  <2>2. UNCHANGED <<answer, req, lost, dsn, broke, overlap>>
    BY <1>5 DEF Prepared, Queried, GiveBack, server, poolVars
  <2>3. FirstConnectionSuffices' /\ (~Up' => ~lost' /\ \A d \in Clients : answer'[d].code # "error")
    BY <1>0, <2>2, NobodyFails
  <2> QED
    BY <1>3, <2>1, <2>2, <2>3 DEF FailInv
<1>6. ASSUME NEW c \in Clients, RowsRead(c) \/ RowsCut(c) \/ DeleteAll(c) PROVE FailInv'
  <2>1. /\ c \in Callers /\ step[c] # "idle" /\ Move(c, "idle")
        /\ GiveBack(c) \/ Lose(c)
        /\ UNCHANGED <<req, lost>>
    BY <1>6 DEF RowsRead, RowsCut, DeleteAll, Running, Callers
  <2>2. PICK code \in {"ok", "deleted"} : \E rows : answer' = [answer EXCEPT ![c] = [code |-> code, rows |-> rows]]
    BY <1>6 DEF RowsRead, RowsCut, DeleteAll, Answer
  <2>3. (broke => broke') /\ (overlap => overlap')
    BY <2>1 DEF GiveBack, Lose
  <2>4. \A d \in Clients : answer'[d].code = "error" => answer[d].code = "error"
    BY <2>2 DEF FailInv
  <2>5. FirstConnectionSuffices' /\ (~Up' => ~lost' /\ \A d \in Clients : answer'[d].code # "error")
    BY <1>0, <2>1, <2>3, <2>4, NobodyFails
  <2> QED
    BY <1>3, <2>1, <2>2, <2>5 DEF FailInv
<1>7. ASSUME NEW c \in Clients, StatementLost(c) PROVE FailInv'
  <2>1. /\ c \in Callers /\ step[c] # "idle" /\ Move(c, "idle") /\ broke' /\ UNCHANGED req
        /\ \E x : answer' = [answer EXCEPT ![c] = x]
    BY <1>7 DEF StatementLost, Fails, Answer, Lose, NoneToBorrow, Callers, ConnInv, Holders
  <2>2. Up
    BY <2>1, BusyIsUp
  <2> QED
    BY <1>0, <1>3, <2>1, <2>2 DEF FailInv, FirstConnectionSuffices
<1>8. CASE InsertLost
  <2>1. /\ Writer \in Callers /\ step[Writer] # "idle" /\ Move(Writer, "idle")
        /\ broke' /\ UNCHANGED <<req, answer>>
    BY <1>8 DEF InsertLost, Lose, NoneToBorrow, Callers, ConnInv, Holders
  <2>2. Up
    BY <2>1, BusyIsUp
  <2> QED
    BY <1>0, <1>3, <2>1, <2>2 DEF FailInv, FirstConnectionSuffices
<1>9. CASE Inserted
  <2>1. /\ Writer \in Callers /\ step[Writer] # "idle" /\ Move(Writer, "idle")
        /\ conn[Writer] # "none" /\ UNCHANGED <<req, answer, dsn, broke, overlap>>
    BY <1>9 DEF Inserted, GiveBack, Callers, ConnInv, Holders, server
  <2>2. Up
    BY <2>1, BusyIsUp
  <2>3. ~broke /\ (overlap => dsn = "named") => (lost' => lost)
    BY <1>9, <2>1, HeldIsSelected DEF Inserted
  <2>4. FirstConnectionSuffices'
    BY <2>1, <2>3 DEF FailInv, FirstConnectionSuffices
  <2> QED
    BY <1>0, <1>3, <2>1, <2>2, <2>4 DEF FailInv
<1> QED
  BY <1>1, <1>2, <1>4, <1>5, <1>6, <1>7, <1>8, <1>9, RefusedKeepsFail DEF CallerStep

\* Nobody fails but as the property says, in every reachable state.
LEMMA FailInvariant == Spec => []FailInv
<1>1. Init => FirstInv /\ FailInv
  <2> SUFFICES ASSUME Init PROVE FirstInv /\ FailInv
    OBVIOUS
  <2>1. boot = "redis" /\ idle = <<>> /\ conn = [a \in Callers |-> "none"]
    BY DEF Init, PoolInit
  <2>2. FirstInv
    BY <2>1 DEF FirstInv, Served
  <2>3. /\ answer = [c \in Clients |-> None] /\ req = [a \in Callers |-> NoRequest]
        /\ step = [a \in Callers |-> "idle"] /\ lost = FALSE
    BY DEF Init, Quiet
  <2> QED
    BY <2>2, <2>3 DEF FailInv, FirstConnectionSuffices, None, Callers
<1>2. ASSUME ConnInv, FirstInv, FailInv, [Next]_vars PROVE FirstInv' /\ FailInv'
  <2>1. CASE CallerStep
    BY <1>2, <2>1, CallersKeepFirst, CallersKeepFail
  <2>2. CASE (Boot \/ Restart \/ IdleEnds) /\ UNCHANGED apiVars
    <3>1. FirstInv'
      BY <1>2, <2>2, MainKeepsFirst
    <3>2. CASE Restart
      BY <1>2, <2>2, <3>1, <3>2 DEF Restart, apiVars, FailInv, FirstConnectionSuffices, Up
    <3>3. ASSUME Boot \/ IdleEnds PROVE dsn' = dsn /\ (broke => broke') /\ (overlap' = overlap)
      <4>1. CASE IdleEnds
        BY <4>1 DEF IdleEnds, server
      <4>2. BootFails => UNCHANGED <<dsn, broke, overlap>>
        BY DEF BootFails, server
      <4>3. Boot => BootFails \/ \E s : To(s)
        BY DEF Boot, InitRedis, Ping, CreateDatabase, UseDatabase,
               Migrate, GrpcConnect, Listen, Serve
      <4>4. CASE Boot
        BY <4>2, <4>3, <4>4 DEF To
      <4> QED
        BY <3>3, <4>1, <4>4
    <3>4. ASSUME Boot \/ IdleEnds, Up PROVE Up'
      BY <3>4 DEF IdleEnds, Boot, InitRedis, Ping, CreateDatabase, UseDatabase,
                  Migrate, GrpcConnect, Listen, Serve, BootFails, At, To, Up, Starting
    <3>5. CASE Boot \/ IdleEnds
      BY <1>2, <2>2, <3>1, <3>3, <3>4, <3>5 DEF apiVars, FailInv, FirstConnectionSuffices
    <3> QED
      BY <2>2, <3>2, <3>5
  <2>3. CASE Crash
    <3>1. /\ boot' = "down" /\ idle' = <<>> /\ conn' = [a \in Callers |-> "none"]
          /\ answer' = [c \in Clients |-> None] /\ req' = [a \in Callers |-> NoRequest]
          /\ step' = [a \in Callers |-> "idle"] /\ lost' = FALSE
      BY <2>3 DEF Crash, PoolDies, Quiet
    <3> QED
      BY <3>1 DEF FirstInv, Served, FailInv, FirstConnectionSuffices, None, Callers
  <2>4. CASE UNCHANGED vars
    BY <1>2, <2>4 DEF vars, poolVars, apiVars, FirstInv, OneSelected, FailInv, FirstConnectionSuffices, Up
  <2> QED
    BY <1>2, <2>1, <2>2, <2>3, <2>4 DEF Next, CallerStep
<1> QED
  BY <1>1, <1>2, ConnInvariant, PTL DEF Spec

\* The connection USE was sent on is enough as long as it is the only one in
\* use and stays open, for any number of clients; a DSN that names the database
\* makes it enough under any overlap.
THEOREM FirstConnectionIsEnough == Spec => []FirstConnectionSuffices
<1>1. FailInv => FirstConnectionSuffices
  BY DEF FailInv
<1> QED
  BY <1>1, FailInvariant, PTL

-----------------------------------------------------------------------------
(* What a search returns                                                   *)

\* f solves the recursion of Scan for the first n rows.
Scans(where, rows, n, f) ==
  f = [i \in 0..n |-> IF i = 0 THEN <<>>
                      ELSE IF Satisfies(where, rows[i]) THEN Append(f[i-1], rows[i])
                      ELSE f[i-1]]

\* There is a solution for every number of rows.
LEMMA ScanSolution ==
  ASSUME NEW where, NEW rows, NEW n \in Nat
  PROVE  \E f : Scans(where, rows, n, f)
<1> DEFINE Solved(m) == \E f : Scans(where, rows, m, f)
           S == {m \in 0..n : Solved(m)}
<1>1. 0 \in S
  <2> DEFINE e == [i \in 0..0 |-> <<>>]
  <2>1. \A i \in 0..0 : i = 0
    OBVIOUS
  <2>2. Scans(where, rows, 0, e)
    BY <2>1 DEF Scans
  <2> HIDE DEF e
  <2>3. Solved(0)
    BY <2>2, Zenon
  <2> HIDE DEF Solved
  <2> QED
    BY <2>3
<1>2. ASSUME NEW m \in 0..n-1, m \in S PROVE m + 1 \in S
  <2>1. PICK f : Scans(where, rows, m, f)
    BY <1>2
  <2> HIDE DEF S
  <2> DEFINE last == IF Satisfies(where, rows[m+1]) THEN Append(f[m], rows[m+1]) ELSE f[m]
             g == [i \in 0..m+1 |-> IF i = m + 1 THEN last ELSE f[i]]
  <2>2. \A i \in 0..m : f[i] = IF i = 0 THEN <<>>
                               ELSE IF Satisfies(where, rows[i]) THEN Append(f[i-1], rows[i])
                               ELSE f[i-1]
    BY <2>1 DEF Scans
  <2>3. \A i \in 0..m : i \in 0..m+1 /\ i # m + 1 /\ (i # 0 => i - 1 \in 0..m+1 /\ i - 1 # m + 1)
    OBVIOUS
  <2>4. m \in 0..m /\ m + 1 # 0 /\ (m + 1) - 1 = m
    OBVIOUS
  <2>5. m + 1 \in 0..m+1 /\ \A i \in 0..m+1 : i = m + 1 \/ i \in 0..m
    OBVIOUS
  <2>6. \A i \in 0..m : g[i] = f[i] /\ (i # 0 => g[i-1] = f[i-1])
    BY <2>3
  <2>7. g[m+1] = last
    BY <2>5
  <2>8. g = [i \in 0..m+1 |-> g[i]]
    OBVIOUS
  <2> HIDE DEF g
  <2>9. ASSUME NEW i \in 0..m+1
        PROVE  g[i] = IF i = 0 THEN <<>>
                      ELSE IF Satisfies(where, rows[i]) THEN Append(g[i-1], rows[i])
                      ELSE g[i-1]
    <3>1. CASE i \in 0..m
      BY <2>2, <2>6, <3>1
    <3>2. CASE i = m + 1
      BY <2>4, <2>6, <2>7, <3>2
    <3> QED
      BY <2>5, <3>1, <3>2
  <2>10. Scans(where, rows, m + 1, g)
    BY <2>8, <2>9 DEF Scans
  <2>11. m + 1 \in 0..n
    OBVIOUS
  <2>12. Solved(m+1)
    BY <2>10, Zenon
  <2> HIDE DEF Solved
  <2> QED
    BY <2>11, <2>12 DEF S
<1> HIDE DEF S
<1>3. 0..n \subseteq S
  BY <1>1, <1>2, UpTo
<1>4. n \in S
  BY <1>3
<1> QED
  BY <1>4 DEF S

\* found[n] is what a scan has found in the first n rows.
ScanOf(where, rows, found) ==
  /\ found \in [0..Len(rows) -> Seq(Trades)]
  /\ found[0] = <<>>
  /\ \A n \in 1..Len(rows) :
       found[n] = IF Satisfies(where, rows[n]) THEN Append(found[n-1], rows[n]) ELSE found[n-1]
  /\ Scan(where, rows) = found[Len(rows)]

\* A scan goes through the rows one by one.
LEMMA ScanRuns ==
  ASSUME NEW where, NEW rows \in Seq(Trades)
  PROVE  \E found : ScanOf(where, rows, found)
<1> DEFINE m == Len(rows)
           found == CHOOSE f : Scans(where, rows, m, f)
<1>1. m \in Nat /\ 0 \in 0..m /\ m \in 0..m /\ \A i \in 1..m : rows[i] \in Trades /\ i \in 0..m /\ i # 0
  OBVIOUS
<1>2. Scans(where, rows, m, found)
  <2>1. \E f : Scans(where, rows, m, f)
    BY <1>1, ScanSolution
  <2> QED
    BY <2>1, Zenon
<1>3. Scan(where, rows) = found[m]
  BY DEF Scan, Scans
<1> HIDE DEF found, m
<1>4. found[0] = <<>> /\ found = [i \in 0..m |-> found[i]]
  BY <1>1, <1>2 DEF Scans
<1>5. \A i \in 1..m : found[i] = IF Satisfies(where, rows[i]) THEN Append(found[i-1], rows[i])
                                 ELSE found[i-1]
  BY <1>1, <1>2 DEF Scans
<1> DEFINE S == {i \in 0..m : found[i] \in Seq(Trades)}
<1>6. 0 \in S
  <2>1. found[0] \in Seq(Trades)
    BY <1>4, EmptySeq
  <2> QED
    BY <1>1, <2>1
<1>7. ASSUME NEW i \in 0..m-1, i \in S PROVE i + 1 \in S
  <2>1. PICK h \in 1..m : h = i + 1 /\ h - 1 = i /\ h \in 0..m
    BY <1>1
  <2>2. found[h] = IF Satisfies(where, rows[h]) THEN Append(found[i], rows[h]) ELSE found[i]
    BY <1>5, <2>1
  <2>3. found[i] \in Seq(Trades) /\ rows[h] \in Trades
    BY <1>1, <1>7
  <2>4. found[h] \in Seq(Trades)
    BY <2>2, <2>3
  <2> QED
    BY <2>1, <2>4
<1> HIDE DEF S
<1>8. 0..m \subseteq S
  BY <1>1, <1>6, <1>7, UpTo
<1>9. \A i \in 0..m : found[i] \in Seq(Trades)
  BY <1>8 DEF S
<1> QED
  BY <1>3, <1>4, <1>5, <1>9 DEF ScanOf, m

\* Sequences of which one continues the other.
LEMMA PrefixIs ==
  ASSUME NEW x \in Seq(Trades), NEW y \in Seq(Trades)
  PROVE  IsPrefix(x, y) <=> Len(x) <= Len(y) /\ \A k \in 1..Len(x) : x[k] = y[k]
<1>1. Len(x) \in Nat /\ Len(y) \in Nat
  BY LenProperties
<1>2. SubSeq(x, 1, Len(x)) = x
  BY SubSeqFull
<1>3. ASSUME Len(x) <= Len(y)
      PROVE  SubSeq(y, 1, Len(x)) = x <=> \A k \in 1..Len(x) : x[k] = y[k]
  <2> DEFINE z == SubSeq(y, 1, Len(x))
  <2>1. z \in Seq(Trades) /\ Len(z) = Len(x) /\ \A k \in 1..Len(x) : z[k] = y[k]
    BY <1>1, <1>3
  <2> HIDE DEF z
  <2>2. ASSUME \A k \in 1..Len(x) : x[k] = y[k] PROVE z = x
    BY <2>1, <2>2, SeqEqual
  <2>3. z = x <=> \A k \in 1..Len(x) : x[k] = y[k]
    BY <2>1, <2>2
  <2> QED
    BY <2>3 DEF z
<1> QED
  BY <1>1, <1>2, <1>3 DEF IsPrefix

\* The smaller of two numbers.
LEMMA MinOfTwo ==
  ASSUME NEW a \in Int, NEW b \in Int
  PROVE  Min({a, b}) = IF a <= b THEN a ELSE b
<1> DEFINE Least(x) == x \in {a, b} /\ \A y \in {a, b} : x <= y
<1>1. Least(IF a <= b THEN a ELSE b)
  OBVIOUS
<1>2. \A x, y : Least(x) /\ Least(y) => x = y
  OBVIOUS
<1>3. Min({a, b}) = CHOOSE x : Least(x)
  BY DEF Min
<1> HIDE DEF Least
<1> QED
  BY <1>1, <1>2, <1>3

\* The last row of what a scan has found that LIMIT and OFFSET let through.
LastRow(q, n) == IF q.limit = 0 \/ q.offset + q.limit > n THEN n ELSE q.offset + q.limit

\* x is what is returned of what a scan has found.
Returns(x, q, found) ==
  /\ LastRow(q, Len(found)) \in Nat /\ Len(found) \in Nat
  /\ LastRow(q, Len(found)) <= Len(found)
  /\ x \in Seq(Trades)
  /\ Len(x) = IF q.offset < LastRow(q, Len(found)) THEN LastRow(q, Len(found)) - q.offset ELSE 0
  /\ \A k \in 1..Len(x) : q.offset + k \in 1..Len(found) /\ x[k] = found[q.offset + k]

\* A SELECT returns the rows found from after the OFFSET up to that one.
LEMMA ExecuteAt ==
  ASSUME NEW q, q.limit \in Nat, q.offset \in Nat, Parses(q), NEW rows,
         NEW found \in Seq(Trades), Scan(q.where, rows) = found
  PROVE  /\ LastRow(q, Len(found)) \in Nat /\ Len(found) \in Nat
         /\ LastRow(q, Len(found)) <= Len(found)
         /\ Execute(q, rows) \in Seq(Trades)
         /\ Len(Execute(q, rows)) = IF q.offset < LastRow(q, Len(found))
                                    THEN LastRow(q, Len(found)) - q.offset ELSE 0
         /\ \A k \in 1..Len(Execute(q, rows)) : /\ q.offset + k \in 1..Len(found)
                                                /\ Execute(q, rows)[k] = found[q.offset + k]
<1>1. Len(found) \in Nat /\ DOMAIN found = 1..Len(found) /\ \A k \in 1..Len(found) : found[k] \in Trades
  BY LenProperties
<1>2. CASE q.limit = 0
  <2>1. Execute(q, rows) = found /\ q.offset = 0 /\ LastRow(q, Len(found)) = Len(found)
    BY <1>2 DEF Execute, Parses, LastRow
  <2> QED
    BY <1>1, <2>1
<1>3. CASE q.limit # 0
  <2> DEFINE n == Len(found)
             lo == q.offset
             hi == LastRow(q, n)
  <2>1. hi \in Nat /\ hi <= n /\ hi = IF lo + q.limit <= n THEN lo + q.limit ELSE n
    BY <1>1, <1>3 DEF LastRow
  <2>2. Min({lo + q.limit, n}) = hi
    BY <1>1, <2>1, MinOfTwo
  <2>3. Execute(q, rows) = SubSeq(found, lo + 1, hi)
    BY <1>3, <2>2 DEF Execute
  <2>4. \A k \in lo + 1..hi : found[k] \in Trades
    BY <1>1, <2>1
  <2>l. lo \in Nat /\ lo + 1 \in Int /\ hi \in Int /\ n \in Nat
    BY <1>1, <2>1
  <2> HIDE DEF lo, hi
  <2>5. /\ SubSeq(found, lo + 1, hi) \in Seq(Trades)
        /\ Len(SubSeq(found, lo + 1, hi)) = IF lo + 1 <= hi THEN hi - (lo + 1) + 1 ELSE 0
        /\ \A k \in 1..hi - (lo + 1) + 1 : SubSeq(found, lo + 1, hi)[k] = found[lo + 1 + k - 1]
    BY <2>l, <2>4, SubSeqProperties
  <2>6. /\ lo + 1 <= hi <=> lo < hi
        /\ hi - (lo + 1) + 1 = hi - lo
        /\ \A k \in 1..hi - lo : lo + 1 + k - 1 = lo + k /\ lo + k \in 1..n
    <3> HIDE DEF n
    <3>1. (lo + 1 <= hi <=> lo < hi) /\ hi - (lo + 1) + 1 = hi - lo
      BY <2>l
    <3>2. ASSUME NEW k \in 1..hi - lo PROVE lo + 1 + k - 1 = lo + k /\ lo + k \in 1..n
      BY <2>1, <2>l
    <3> QED
      BY <3>1, <3>2
  <2>7. Len(Execute(q, rows)) = IF lo < hi THEN hi - lo ELSE 0
    BY <2>3, <2>5, <2>6
  <2>8. \A k \in 1..Len(Execute(q, rows)) : k \in 1..hi - lo
    BY <2>1, <2>7
  <2>9. \A k \in 1..hi - lo : Execute(q, rows)[k] = found[lo + k]
    BY <2>3, <2>5, <2>6
  <2> QED
    BY <1>1, <2>1, <2>3, <2>5, <2>6, <2>7, <2>8, <2>9 DEF lo, hi
<1> QED
  BY <1>2, <1>3

\* The same, of a name for what is returned.
LEMMA ExecuteReturns ==
  ASSUME NEW q, q.limit \in Nat, q.offset \in Nat, Parses(q), NEW rows,
         NEW found \in Seq(Trades), Scan(q.where, rows) = found,
         NEW x, x = Execute(q, rows)
  PROVE  Returns(x, q, found)
<1>1. Returns(Execute(q, rows), q, found)
  BY ExecuteAt DEF Returns
<1> QED
  BY <1>1

\* A scan of the first rows of a table finds the first of what it finds in the
\* whole of it.
LEMMA ScanOfPrefix ==
  ASSUME NEW where, NEW rows \in Seq(Trades), NEW s \in 0..Len(rows)
  PROVE  \E e \in Seq(Trades), f \in Seq(Trades) :
           /\ Scan(where, SubSeq(rows, 1, s)) = e
           /\ Scan(where, rows) = f
           /\ Len(e) <= Len(f) /\ \A k \in 1..Len(e) : f[k] = e[k]
<1> DEFINE m == Len(rows)
           part == SubSeq(rows, 1, s)
<1>1. m \in Nat /\ s \in Nat /\ s <= m
  OBVIOUS
<1>2. part \in Seq(Trades) /\ Len(part) = s /\ \A i \in 1..s : part[i] = rows[i]
  OBVIOUS
<1>3. PICK F : ScanOf(where, rows, F)
  BY ScanRuns
<1>4. PICK E : ScanOf(where, part, E)
  BY <1>2, ScanRuns
<1>5. \A n \in 0..m : F[n] \in Seq(Trades)
  BY <1>3 DEF ScanOf
<1>6. \A n \in 1..m : F[n] = IF Satisfies(where, rows[n]) THEN Append(F[n-1], rows[n]) ELSE F[n-1]
  BY <1>3 DEF ScanOf
<1>7. \A n \in 1..s : E[n] = IF Satisfies(where, part[n]) THEN Append(E[n-1], part[n]) ELSE E[n-1]
  BY <1>2, <1>4 DEF ScanOf
<1>8. F[0] = <<>> /\ E[0] = <<>> /\ Scan(where, rows) = F[m] /\ Scan(where, part) = E[s]
  BY <1>2, <1>3, <1>4 DEF ScanOf
<1>r. \A n \in 1..m : rows[n] \in Trades
  OBVIOUS
<1> HIDE DEF m, part
\* the scans agree as long as both have rows
<1>9. E[s] = F[s]
  <2> DEFINE S == {n \in 0..s : E[n] = F[n]}
  <2>1. 0 \in S
    BY <1>1, <1>8
  <2>2. ASSUME NEW n \in 0..s-1, n \in S PROVE n + 1 \in S
    <3>1. PICK h \in 1..s : h = n + 1 /\ h - 1 = n /\ h \in 0..s /\ h \in 1..m
      BY <1>1
    <3>2. part[h] = rows[h] /\ E[h-1] = F[h-1]
      BY <1>2, <2>2, <3>1
    <3>3. E[h] = F[h]
      BY <1>6, <1>7, <3>1, <3>2
    <3> QED
      BY <3>1, <3>3
  <2> HIDE DEF S
  <2>3. 0..s \subseteq S
    BY <1>1, <2>1, <2>2, UpTo
  <2>4. s \in S
    BY <1>1, <2>3
  <2> QED
    BY <2>4 DEF S
\* and the scan of the table goes on from there
<1>10. Len(F[s]) <= Len(F[m]) /\ \A k \in 1..Len(F[s]) : F[m][k] = F[s][k]
  <2> DEFINE Goes(n) == Len(F[s]) <= Len(F[n]) /\ \A k \in 1..Len(F[s]) : F[n][k] = F[s][k]
             S == {n \in 0..m : s <= n => Goes(n)}
  <2>1. Goes(s) /\ s \in 0..m /\ m \in 0..m /\ 0 \in 0..m
    BY <1>1, <1>5
  <2>2. ASSUME NEW n \in 0..m-1, Goes(n) PROVE Goes(n + 1)
    <3>1. PICK h \in 1..m : h = n + 1 /\ h - 1 = n /\ h \in 0..m /\ n \in 0..m
      BY <1>1
    <3>2. PICK u \in Seq(Trades), t \in Trades, v \in Seq(Trades), w \in Seq(Trades) :
            u = F[n] /\ t = rows[h] /\ v = F[h] /\ w = F[s]
      BY <1>5, <1>r, <2>1, <3>1
    <3>3. v = u \/ v = Append(u, t)
      BY <1>6, <3>1, <3>2
    <3>4. /\ Len(u) \in Nat /\ Len(v) \in Nat /\ Len(w) \in Nat /\ Len(u) <= Len(v)
          /\ \A k \in 1..Len(u) : v[k] = u[k]
      <4>1. CASE v = u
        BY <4>1, LenProperties
      <4>2. CASE v = Append(u, t)
        <5>1. Len(u) \in Nat /\ Len(v) = Len(u) + 1 /\ \A k \in 1..Len(u) : v[k] = u[k]
          BY <4>2, LenProperties, AppendProperties
        <5> QED
          BY <5>1, LenProperties
      <4> QED
        BY <3>3, <4>1, <4>2
    <3>5. Len(w) <= Len(u) /\ \A k \in 1..Len(w) : u[k] = w[k]
      BY <2>2, <3>2
    <3>6. Len(w) <= Len(v) /\ \A k \in 1..Len(w) : v[k] = w[k]
      BY <3>4, <3>5
    <3> QED
      BY <3>1, <3>2, <3>6
  <2> HIDE DEF Goes
  <2>3. 0 \in S
    BY <1>1, <2>1
  <2>4. ASSUME NEW n \in 0..m-1, n \in S PROVE n + 1 \in S
    <3>1. n + 1 \in 0..m
      BY <1>1
    <3>2. CASE s <= n
      BY <2>2, <2>4, <3>1, <3>2
    <3>3. CASE s = n + 1
      BY <2>1, <3>1, <3>3
    <3>4. CASE s > n + 1
      BY <1>1, <3>1, <3>4
    <3> QED
      BY <1>1, <3>1, <3>2, <3>3, <3>4
  <2> HIDE DEF S
  <2>5. 0..m \subseteq S
    BY <1>1, <2>3, <2>4, UpTo
  <2>6. m \in S
    BY <2>1, <2>5
  <2> QED
    BY <1>1, <2>6 DEF S, Goes
<1> QED
  BY <1>1, <1>5, <1>8, <1>9, <1>10 DEF part

\* What a SELECT returns of the first rows of a table is a prefix of what it
\* returns of the whole of it.
LEMMA ExecuteOfPrefix ==
  ASSUME NEW q, q.limit \in Nat, q.offset \in Nat, Parses(q),
         NEW rows \in Seq(Trades), NEW s \in 0..Len(rows)
  PROVE  IsPrefix(Execute(q, SubSeq(rows, 1, s)), Execute(q, rows))
<1> DEFINE part == SubSeq(rows, 1, s)
<1>1. PICK e \in Seq(Trades), f \in Seq(Trades) :
        /\ Scan(q.where, part) = e
        /\ Scan(q.where, rows) = f
        /\ Len(e) <= Len(f) /\ \A k \in 1..Len(e) : f[k] = e[k]
  BY ScanOfPrefix
<1> HIDE DEF part
<1>2. PICK x \in Seq(Trades), y \in Seq(Trades) : x = Execute(q, part) /\ y = Execute(q, rows)
  BY <1>1, ExecuteAt
<1> DEFINE lo == q.offset
           he == LastRow(q, Len(e))
           hf == LastRow(q, Len(f))
<1>3. /\ he \in Nat /\ Len(e) \in Nat /\ he <= Len(e)
      /\ Len(x) = IF lo < he THEN he - lo ELSE 0
      /\ \A k \in 1..Len(x) : lo + k \in 1..Len(e) /\ x[k] = e[lo + k]
  <2>1. Returns(x, q, e)
    BY <1>1, <1>2, ExecuteReturns
  <2> QED
    BY <2>1 DEF Returns
<1>4. /\ hf \in Nat /\ Len(f) \in Nat /\ hf <= Len(f)
      /\ Len(y) = IF lo < hf THEN hf - lo ELSE 0
      /\ \A k \in 1..Len(y) : lo + k \in 1..Len(f) /\ y[k] = f[lo + k]
  <2>1. Returns(y, q, f)
    BY <1>1, <1>2, ExecuteReturns
  <2> QED
    BY <2>1 DEF Returns
<1>5. he <= hf
  BY <1>1, <1>3, <1>4 DEF LastRow
<1> HIDE DEF he, hf
<1>6. Len(x) <= Len(y) /\ Len(x) \in Nat /\ Len(y) \in Nat
  BY <1>3, <1>4, <1>5
<1>7. \A k \in 1..Len(x) : x[k] = y[k]
  <2> SUFFICES ASSUME NEW k \in 1..Len(x) PROVE x[k] = y[k]
    OBVIOUS
  <2>1. k \in 1..Len(y)
    BY <1>6
  <2> QED
    BY <1>1, <1>3, <1>4, <2>1
<1> QED
  BY <1>2, <1>6, <1>7, PrefixIs DEF part

\* I are the rows that match, and count[n] is how many of the first n do.
CountOf(where, rows, I, count) ==
  /\ I \in SUBSET (1..Len(rows))
  /\ \A i \in 1..Len(rows) : i \in I <=> Satisfies(where, rows[i])
  /\ count \in [0..Len(rows) -> Nat] /\ count[0] = 0
  /\ \A n \in 1..Len(rows) : count[n] = IF n \in I THEN count[n-1] + 1 ELSE count[n-1]

\* A scan has found the i-th matching row as its i-th, and nothing else.
LEMMA ScanCounts ==
  ASSUME NEW where, NEW rows \in Seq(Trades), NEW I, NEW count, CountOf(where, rows, I, count)
  PROVE  \E found \in Seq(Trades) :
           /\ Scan(where, rows) = found
           /\ Len(found) = count[Len(rows)]
           /\ \A i \in I : count[i] \in 1..Len(found) /\ found[count[i]] = rows[i]
           /\ \A v \in 1..Len(found) : \E i \in I : count[i] = v
<1> DEFINE m == Len(rows)
<1>1. /\ m \in Nat /\ 0 \in 0..m /\ m \in 0..m /\ \A i \in 1..m : rows[i] \in Trades
      /\ \A i \in 1..m : i \in I <=> Satisfies(where, rows[i])
      /\ \A i \in I : i \in 1..m
  BY DEF CountOf
<1>2. PICK F : ScanOf(where, rows, F)
  BY ScanRuns
<1>3. /\ F \in [0..m -> Seq(Trades)] /\ F[0] = <<>> /\ Scan(where, rows) = F[m]
      /\ \A n \in 1..m : F[n] = IF Satisfies(where, rows[n]) THEN Append(F[n-1], rows[n]) ELSE F[n-1]
  BY <1>2 DEF ScanOf
<1>4. /\ count \in [0..m -> Nat] /\ count[0] = 0
      /\ \A n \in 1..m : count[n] = IF n \in I THEN count[n-1] + 1 ELSE count[n-1]
  BY DEF CountOf
<1> HIDE DEF m
<1> DEFINE Counts(n) == /\ Len(F[n]) = count[n]
                        /\ \A i \in I : i <= n => /\ count[i] \in 1..count[n]
                                                  /\ F[n][count[i]] = rows[i]
                        /\ \A v \in 1..count[n] : \E i \in I : i <= n /\ count[i] = v
           S == {n \in 0..m : Counts(n)}
<1>5. 0 \in S
  <2>1. \A i \in I : ~(i <= 0)
    BY <1>1
  <2>2. Len(F[0]) = 0 /\ 1..count[0] = {}
    BY <1>3, <1>4
  <2> QED
    BY <1>1, <1>4, <2>1, <2>2
<1>6. ASSUME NEW n \in 0..m-1, n \in S PROVE n + 1 \in S
  <2>1. PICK h \in 1..m : h = n + 1 /\ h - 1 = n /\ h \in 0..m /\ n \in 0..m
    BY <1>1
  <2>2. PICK u \in Seq(Trades), t \in Trades, v \in Seq(Trades), c \in Nat :
          u = F[n] /\ t = rows[h] /\ v = F[h] /\ c = count[n]
    BY <1>1, <1>3, <1>4, <2>1
  <2>3. /\ Len(u) = c
        /\ \A i \in I : i <= n => count[i] \in 1..c /\ u[count[i]] = rows[i]
        /\ \A x \in 1..c : \E i \in I : i <= n /\ count[i] = x
    BY <1>6, <2>2
  <2>4. \A i \in I : i <= h <=> i <= n \/ i = h
    BY <1>1, <2>1
  <2>5. CASE h \notin I
    <3>1. v = u /\ count[h] = c
      BY <1>1, <1>3, <1>4, <2>1, <2>2, <2>5
    <3>2. \A i \in I : i <= h <=> i <= n
      BY <2>4, <2>5
    <3>3. Counts(h)
      BY <2>2, <2>3, <3>1, <3>2
    <3> QED
      BY <2>1, <3>3
  <2>6. CASE h \in I
    <3>1. v = Append(u, t) /\ count[h] = c + 1
      BY <1>1, <1>3, <1>4, <2>1, <2>2, <2>6
    <3>2. Len(v) = c + 1 /\ v[c + 1] = t /\ \A k \in 1..c : v[k] = u[k]
      BY <2>3, <3>1, AppendProperties
    <3>3. 1..c \subseteq 1..c + 1 /\ c + 1 \in 1..c + 1 /\ \A x \in 1..c + 1 : x \in 1..c \/ x = c + 1
      OBVIOUS
    <3>4. ASSUME NEW i \in I, i <= h
          PROVE  count[i] \in 1..c + 1 /\ v[count[i]] = rows[i]
      BY <2>2, <2>3, <2>4, <3>1, <3>2, <3>3, <3>4
    <3>5. h <= h
      BY <2>1
    <3>6. ASSUME NEW x \in 1..c + 1 PROVE \E i \in I : i <= h /\ count[i] = x
      BY <2>3, <2>4, <2>6, <3>1, <3>3, <3>5
    <3>7. Counts(h)
      BY <2>2, <3>1, <3>2, <3>4, <3>6
    <3> QED
      BY <2>1, <3>7
  <2> QED
    BY <2>5, <2>6
<1> HIDE DEF S
<1>7. 0..m \subseteq S
  BY <1>1, <1>5, <1>6, UpTo
<1>8. m \in S
  BY <1>1, <1>7
<1>9. Counts(m)
  BY <1>8 DEF S
<1>10. \A i \in I : i <= m
  BY <1>1
<1>11. PICK found \in Seq(Trades) : found = F[m]
  BY <1>1, <1>3
<1>12. Scan(where, rows) = found /\ Len(found) = count[m]
  BY <1>3, <1>9, <1>11
<1>13. \A i \in I : count[i] \in 1..Len(found) /\ found[count[i]] = rows[i]
  BY <1>9, <1>10, <1>11, <1>12
<1>14. \A v \in 1..Len(found) : \E i \in I : count[i] = v
  BY <1>9, <1>12
<1> QED
  BY <1>12, <1>13, <1>14 DEF m

\* Of c matching rows, those from after row lo up to row hi are on the page.
OnPage(c, lo, hi) ==
  IF c <= lo THEN 0 ELSE IF c <= hi THEN c - lo ELSE IF lo < hi THEN hi - lo ELSE 0

\* One more matching row is on the page when it is among these.
LEMMA OnPageStep ==
  ASSUME NEW c \in Nat, NEW lo \in Nat, NEW hi \in Nat
  PROVE  OnPage(c + 1, lo, hi) = IF lo < c + 1 /\ c + 1 <= hi THEN OnPage(c, lo, hi) + 1
                                 ELSE OnPage(c, lo, hi)
BY DEF OnPage

\* The SELECT that BuildSearchQuery writes returns the page the filter stands
\* for, for any table, any terms, any limit and any offset MySQL accepts.
THEOREM SelectIsPage ==
  ASSUME NEW f, f.limit \in Int, f.offset \in Int, Parses(BuildSearchQuery(f)),
         NEW rows \in Seq(Trades)
  PROVE  Execute(BuildSearchQuery(f), rows) = Page(f, rows)
<1> DEFINE q == BuildSearchQuery(f)
           m == Len(rows)
           lo == IF f.offset > 0 THEN f.offset ELSE 0
           I == {i \in DOMAIN rows : Satisfies(f.query, rows[i])}
           P == {i \in I : /\ Cardinality({j \in I : j <= i}) > lo
                           /\ f.limit > 0 => Cardinality({j \in I : j <= i}) <= lo + f.limit}
<1>1. /\ q.where = f.query /\ q.offset = lo /\ q.limit = (IF f.limit > 0 THEN f.limit ELSE 0)
      /\ q.limit \in Nat /\ q.offset \in Nat /\ Parses(q) /\ lo \in Nat
  BY DEF BuildSearchQuery
<1>2. m \in Nat /\ I \in SUBSET (1..m) /\ P \in SUBSET (1..m)
  OBVIOUS
<1>3. Page(f, rows) = [n \in 1..Cardinality(P) |->
                         rows[CHOOSE i \in P : Cardinality({j \in P : j <= i}) = n]]
  BY DEF Page
<1>4. PICK c \in [0..m -> Nat] :
        /\ c[0] = 0
        /\ \A n \in 1..m : c[n] = IF n \in I THEN c[n-1] + 1 ELSE c[n-1]
        /\ \A n \in 0..m : Cardinality({j \in I : j <= n}) = c[n]
        /\ Cardinality(I) = c[m]
  BY <1>2, CountUpTo
<1>5. PICK found \in Seq(Trades) :
        /\ Scan(f.query, rows) = found
        /\ Len(found) = c[m]
        /\ \A i \in I : c[i] \in 1..Len(found) /\ found[c[i]] = rows[i]
        /\ \A v \in 1..Len(found) : \E i \in I : c[i] = v
  <2>1. CountOf(f.query, rows, I, c)
    BY <1>2, <1>4 DEF CountOf
  <2> HIDE DEF I
  <2> QED
    BY <2>1, ScanCounts
<1> DEFINE hi == LastRow(q, Len(found))
           L == IF lo < hi THEN hi - lo ELSE 0
<1>6. /\ hi \in Nat /\ hi <= Len(found) /\ Len(found) \in Nat
      /\ Execute(q, rows) \in Seq(Trades) /\ Len(Execute(q, rows)) = L
      /\ \A k \in 1..L : lo + k \in 1..Len(found) /\ Execute(q, rows)[k] = found[lo + k]
  <2>1. Scan(q.where, rows) = found /\ q.offset = lo
    BY <1>1, <1>5
  <2> HIDE DEF q
  <2>2. /\ hi \in Nat /\ hi <= Len(found) /\ Len(found) \in Nat
        /\ Execute(q, rows) \in Seq(Trades)
        /\ Len(Execute(q, rows)) = IF q.offset < hi THEN hi - q.offset ELSE 0
        /\ \A k \in 1..Len(Execute(q, rows)) : /\ q.offset + k \in 1..Len(found)
                                                /\ Execute(q, rows)[k] = found[q.offset + k]
    BY <1>1, <2>1, ExecuteAt
  <2> HIDE DEF lo, hi
  <2> QED
    BY <2>1, <2>2
\* the page is the matching rows from after row lo up to row hi
<1>7. ASSUME NEW i \in I PROVE i \in P <=> lo < c[i] /\ c[i] <= hi
  <2>1. i \in 0..m /\ c[i] \in Nat /\ c[i] <= Len(found)
    BY <1>2, <1>4, <1>5
  <2>2. i \in P <=> c[i] > lo /\ (f.limit > 0 => c[i] <= lo + f.limit)
    BY <1>4, <2>1
  <2>3. hi = IF f.limit > 0 /\ lo + f.limit <= Len(found) THEN lo + f.limit ELSE Len(found)
    BY <1>1, <1>6 DEF LastRow
  <2> QED
    BY <1>1, <1>6, <2>1, <2>2, <2>3
<1>8. P \subseteq I
  OBVIOUS
<1>9. PICK p \in [0..m -> Nat] :
        /\ p[0] = 0
        /\ \A n \in 1..m : p[n] = IF n \in P THEN p[n-1] + 1 ELSE p[n-1]
        /\ \A n \in 0..m : Cardinality({j \in P : j <= n}) = p[n]
        /\ Cardinality(P) = p[m]
  BY <1>2, CountUpTo
<1> HIDE DEF I, P, q, m, lo, hi
<1>10. \A n \in 0..m : p[n] = OnPage(c[n], lo, hi)
  <2> DEFINE S == {n \in 0..m : p[n] = OnPage(c[n], lo, hi)}
  <2>1. 0 \in S
    BY <1>1, <1>2, <1>4, <1>9 DEF OnPage
  <2>2. ASSUME NEW n \in 0..m-1, n \in S PROVE n + 1 \in S
    <3>1. PICK h \in 1..m : h = n + 1 /\ h - 1 = n /\ h \in 0..m /\ n \in 0..m
      BY <1>2
    <3>2. /\ c[h] = IF h \in I THEN c[n] + 1 ELSE c[n]
          /\ p[h] = IF h \in P THEN p[n] + 1 ELSE p[n]
          /\ p[n] = OnPage(c[n], lo, hi) /\ c[n] \in Nat
      BY <1>4, <1>9, <2>2, <3>1
    <3>3. CASE h \notin I
      BY <1>8, <3>1, <3>2, <3>3
    <3>4. CASE h \in I
      <4>1. h \in P <=> lo < c[n] + 1 /\ c[n] + 1 <= hi
        BY <1>7, <3>2, <3>4
      <4>2. OnPage(c[n] + 1, lo, hi) = IF h \in P THEN p[n] + 1 ELSE p[n]
        BY <1>1, <1>6, <3>2, <4>1, OnPageStep
      <4> QED
        BY <3>1, <3>2, <3>4, <4>2
    <3> QED
      BY <3>3, <3>4
  <2> HIDE DEF S
  <2>3. 0..m \subseteq S
    BY <1>2, <2>1, <2>2, UpTo
  <2> QED
    BY <2>3 DEF S
<1>11. Cardinality(P) = L
  <2>1. p[m] = OnPage(Len(found), lo, hi)
    BY <1>2, <1>5, <1>10
  <2>2. OnPage(Len(found), lo, hi) = L
    BY <1>1, <1>6 DEF OnPage
  <2> QED
    BY <1>9, <2>1, <2>2
<1>12. ASSUME NEW i \in P
       PROVE  Cardinality({j \in P : j <= i}) = c[i] - lo /\ c[i] \in Nat /\ rows[i] = found[c[i]]
  <2>1. i \in I /\ i \in 0..m
    BY <1>2, <1>8
  <2>2. lo < c[i] /\ c[i] <= hi /\ c[i] \in Nat
    BY <1>4, <1>7, <2>1
  <2>3. Cardinality({j \in P : j <= i}) = OnPage(c[i], lo, hi)
    BY <1>9, <1>10, <2>1
  <2>4. OnPage(c[i], lo, hi) = c[i] - lo
    BY <1>1, <2>2 DEF OnPage
  <2> QED
    BY <1>5, <2>1, <2>2, <2>3, <2>4
<1>13. ASSUME NEW k \in 1..L
       PROVE  rows[CHOOSE i \in P : Cardinality({j \in P : j <= i}) = k] = found[lo + k]
  <2>1. lo + k \in 1..Len(found) /\ lo < lo + k /\ lo + k <= hi
    BY <1>1, <1>6
  <2>2. PICK i \in I : c[i] = lo + k
    BY <1>5, <2>1
  <2>3. i \in P
    BY <1>7, <2>1, <2>2
  <2>4. Cardinality({j \in P : j <= i}) = k
    BY <1>1, <1>12, <2>2, <2>3
  <2> DEFINE x == CHOOSE y \in P : Cardinality({j \in P : j <= y}) = k
  <2>5. x \in P /\ Cardinality({j \in P : j <= x}) = k
    BY <2>3, <2>4, Zenon
  <2> HIDE DEF x
  <2>6. c[x] = lo + k
    <3>1. c[x] - lo = k /\ c[x] \in Nat
      BY <1>12, <2>5
    <3> QED
      BY <1>1, <3>1
  <2>7. rows[x] = found[lo + k]
    BY <1>12, <2>5, <2>6
  <2> QED
    BY <2>7 DEF x
<1> DEFINE page == [n \in 1..L |-> rows[CHOOSE i \in P : Cardinality({j \in P : j <= i}) = n]]
<1>14. Page(f, rows) = page
  BY <1>3, <1>11 DEF P, I, lo
<1> DEFINE x == Execute(q, rows)
<1>15. x \in Seq(Trades) /\ Len(x) = L /\ \A k \in 1..L : x[k] = page[k]
  BY <1>6, <1>13
<1>16. x = page
  <2>1. x = [k \in 1..L |-> x[k]]
    BY <1>15
  <2>2. page = [k \in 1..L |-> page[k]]
    OBVIOUS
  <2> HIDE DEF x, page, L
  <2> QED
    BY <1>15, <2>1, <2>2
<1> QED
  BY <1>14, <1>16 DEF q

\* p is what LIMIT a and OFFSET lo let through of what a scan has found.
Slice(p, found, lo, a) ==
  /\ p \in Seq(Trades)
  /\ Len(p) = IF lo + a <= Len(found) THEN a
              ELSE IF lo < Len(found) THEN Len(found) - lo ELSE 0
  /\ \A i \in 1..Len(p) : p[i] = found[lo + i]

\* A filter with a LIMIT makes a statement that MySQL accepts.
LEMMA LimitParses ==
  ASSUME NEW f, f.limit \in Nat \ {0}, f.offset \in Nat
  PROVE  LET q == BuildSearchQuery(f)
         IN  /\ f.limit \in Int /\ f.offset \in Int
             /\ q.where = f.query /\ q.limit = f.limit /\ q.offset = f.offset
             /\ q.limit \in Nat /\ q.offset \in Nat /\ q.limit # 0 /\ Parses(q)
BY DEF BuildSearchQuery, Parses

\* What such a statement returns.
LEMMA ExecuteIsSlice ==
  ASSUME NEW q, q.limit \in Nat, q.offset \in Nat, Parses(q), q.limit # 0, NEW rows,
         NEW found \in Seq(Trades), Scan(q.where, rows) = found
  PROVE  Slice(Execute(q, rows), found, q.offset, q.limit)
<1>1. /\ Execute(q, rows) \in Seq(Trades) /\ Len(found) \in Nat
      /\ Len(Execute(q, rows)) = IF q.offset < LastRow(q, Len(found))
                                 THEN LastRow(q, Len(found)) - q.offset ELSE 0
      /\ \A k \in 1..Len(Execute(q, rows)) : Execute(q, rows)[k] = found[q.offset + k]
  BY ExecuteAt
<1>2. LastRow(q, Len(found)) =
        IF q.offset + q.limit > Len(found) THEN Len(found) ELSE q.offset + q.limit
  BY DEF LastRow
<1>3. Len(Execute(q, rows)) = IF q.offset + q.limit <= Len(found) THEN q.limit
                              ELSE IF q.offset < Len(found) THEN Len(found) - q.offset ELSE 0
  BY <1>1, <1>2
<1> QED
  BY <1>1, <1>3 DEF Slice

\* The page of a filter with a LIMIT.
LEMMA PageIsSlice ==
  ASSUME NEW f, f.limit \in Nat \ {0}, f.offset \in Nat, NEW rows \in Seq(Trades),
         NEW found \in Seq(Trades), Scan(f.query, rows) = found
  PROVE  Slice(Page(f, rows), found, f.offset, f.limit)
<1>1. PICK q :
        /\ q = BuildSearchQuery(f) /\ Parses(q) /\ f.limit \in Int /\ f.offset \in Int
        /\ q.where = f.query /\ q.limit = f.limit /\ q.offset = f.offset
        /\ q.limit \in Nat /\ q.offset \in Nat /\ q.limit # 0
  BY LimitParses
<1>2. Page(f, rows) = Execute(q, rows)
  BY <1>1, SelectIsPage
<1>3. Scan(q.where, rows) = found
  BY <1>1
<1>4. Slice(Execute(q, rows), found, q.offset, q.limit)
  BY <1>1, <1>3, ExecuteIsSlice
<1> QED
  BY <1>1, <1>2, <1>4

\* c is the rows of x and then those of y.
Joined(c, x, y) ==
  /\ c \in Seq(Trades) /\ Len(c) = Len(x) + Len(y)
  /\ \A i \in 1..Len(x) : c[i] = x[i]
  /\ \A j \in 1..Len(y) : c[Len(x) + j] = y[j]

\* Concatenation joins.
LEMMA JoinedIs ==
  ASSUME NEW x \in Seq(Trades), NEW y \in Seq(Trades), NEW c, c = x \o y
  PROVE  Joined(c, x, y)
BY ConcatAt DEF Joined

\* A full slice of what an earlier scan has found and the slice after it.
LEMMA SlicesJoin ==
  ASSUME NEW early \in Seq(Trades), NEW found \in Seq(Trades),
         Len(early) <= Len(found), \A k \in 1..Len(early) : found[k] = early[k],
         NEW lo \in Nat, NEW a \in Nat, NEW b \in Nat, a # 0,
         NEW x \in Seq(Trades), NEW y \in Seq(Trades), NEW z \in Seq(Trades),
         NEW c, c = x \o y,
         Slice(x, early, lo, a), Slice(y, found, lo + a, b), Slice(z, found, lo, a + b),
         Len(x) = a
  PROVE  c = z
<1>1. Len(early) \in Nat /\ Len(found) \in Nat
  BY LenProperties
<1>2. /\ Len(x) = IF lo + a <= Len(early) THEN a
                  ELSE IF lo < Len(early) THEN Len(early) - lo ELSE 0
      /\ \A i \in 1..Len(x) : x[i] = early[lo + i]
  BY DEF Slice
<1>3. /\ Len(y) = IF lo + a + b <= Len(found) THEN b
                  ELSE IF lo + a < Len(found) THEN Len(found) - (lo + a) ELSE 0
      /\ \A i \in 1..Len(y) : y[i] = found[lo + a + i]
  BY DEF Slice
<1>4. /\ Len(z) = IF lo + (a + b) <= Len(found) THEN a + b
                  ELSE IF lo < Len(found) THEN Len(found) - lo ELSE 0
      /\ \A i \in 1..Len(z) : z[i] = found[lo + i]
  BY DEF Slice
\* the first page was full, and the rows after it are those of the second
<1>5. Len(x) = a /\ lo + a <= Len(early)
  BY <1>1, <1>2
<1>6. Len(y) \in Nat /\ Len(z) = a + Len(y)
  <2>1. lo + a <= Len(found) /\ Len(found) \in Nat /\ a # 0
    BY <1>1, <1>5
  <2>2. /\ Len(y) = IF lo + a + b <= Len(found) THEN b ELSE Len(found) - (lo + a)
        /\ Len(z) = IF lo + a + b <= Len(found) THEN a + b ELSE Len(found) - lo
    <3>1. CASE lo + a + b <= Len(found)
      BY <1>3, <1>4, <2>1, <3>1
    <3>2. CASE ~(lo + a + b <= Len(found))
      <4>1. Len(y) = Len(found) - (lo + a)
        BY <1>3, <2>1, <3>2
      <4>2. Len(z) = Len(found) - lo
        BY <1>4, <2>1, <3>2
      <4> QED
        BY <3>2, <4>1, <4>2
    <3> QED
      BY <3>1, <3>2
  <2> QED
    BY <2>1, <2>2
<1>7. /\ c \in Seq(Trades) /\ Len(c) = Len(x) + Len(y)
      /\ \A i \in 1..Len(x) : c[i] = x[i]
      /\ \A j \in 1..Len(y) : c[Len(x) + j] = y[j]
  <2>1. Joined(c, x, y)
    BY JoinedIs
  <2> QED
    BY <2>1 DEF Joined
<1>8. /\ c \in Seq(Trades) /\ Len(c) = a + Len(y)
      /\ \A i \in 1..a : c[i] = x[i]
      /\ \A j \in 1..Len(y) : c[a + j] = y[j]
  BY <1>5, <1>7
<1>9. ASSUME NEW i \in 1..a PROVE c[i] = z[i]
  <2>1. i \in 1..Len(x) /\ lo + i \in 1..Len(early) /\ i \in 1..Len(z)
    BY <1>1, <1>5, <1>6
  <2>2. x[i] = early[lo + i] /\ early[lo + i] = found[lo + i] /\ z[i] = found[lo + i]
    BY <1>2, <1>4, <2>1
  <2> QED
    BY <1>8, <2>2
<1>10. ASSUME NEW j \in 1..Len(y) PROVE c[a + j] = z[a + j]
  <2>1. a + j \in 1..Len(z) /\ lo + a + j = lo + (a + j)
    BY <1>6
  <2>2. y[j] = found[lo + a + j] /\ z[a + j] = found[lo + (a + j)]
    BY <1>3, <1>4, <2>1
  <2>3. c[a + j] = y[j]
    BY <1>8
  <2> QED
    BY <2>1, <2>2, <2>3
<1>11. ASSUME NEW i \in 1..Len(z) PROVE c[i] = z[i]
  <2>1. i <= a \/ \E j \in 1..Len(y) : i = a + j
    <3>1. CASE i > a
      <4>1. i - a \in 1..Len(y) /\ i = a + (i - a)
        BY <1>6, <3>1
      <4> QED
        BY <4>1
    <3> QED
      BY <1>6, <3>1
  <2>2. CASE i <= a
    BY <1>6, <1>9, <2>2
  <2>3. CASE \E j \in 1..Len(y) : i = a + j
    BY <1>10, <2>3
  <2> QED
    BY <2>1, <2>2, <2>3
<1> QED
  BY <1>6, <1>8, <1>11, SeqEqual

\* g asks for the page after that of f, and h for both in one.
Consecutive(f, g, h) ==
  /\ f.limit \in Nat \ {0} /\ g.limit \in Nat \ {0} /\ h.limit = f.limit + g.limit
  /\ f.offset \in Nat /\ g.offset = f.offset + f.limit /\ h.offset = f.offset
  /\ f.query = h.query /\ g.query = h.query

\* A client that asks for one page after another with GET /trade neither skips a
\* row nor gets one twice: a full page, and the next one taken from a table that
\* has grown since, make one page of both lengths.
THEOREM PagesTile ==
  ASSUME NEW f, NEW g, NEW h, Consecutive(f, g, h),
         NEW before \in Seq(Trades), NEW rows \in Seq(Trades), IsPrefix(before, rows),
         Len(Page(f, before)) = f.limit
  PROVE  Page(f, before) \o Page(g, rows) = Page(h, rows)
<1>1. Len(before) \in 0..Len(rows) /\ SubSeq(rows, 1, Len(before)) = before
  BY LenProperties, SubSeqFull DEF IsPrefix
<1>2. PICK early \in Seq(Trades), found \in Seq(Trades) :
        /\ Scan(h.query, before) = early /\ Scan(h.query, rows) = found
        /\ Len(early) <= Len(found) /\ \A k \in 1..Len(early) : found[k] = early[k]
  <2>1. PICK n \in 0..Len(rows) : SubSeq(rows, 1, n) = before
    BY <1>1
  <2>2. \E early \in Seq(Trades), found \in Seq(Trades) :
          /\ Scan(h.query, SubSeq(rows, 1, n)) = early /\ Scan(h.query, rows) = found
          /\ Len(early) <= Len(found) /\ \A k \in 1..Len(early) : found[k] = early[k]
    BY ScanOfPrefix
  <2> QED
    BY <2>1, <2>2
<1>3. Scan(f.query, before) = early /\ Scan(g.query, rows) = found
  BY <1>2 DEF Consecutive
<1>4. PICK lo \in Nat, a \in Nat, b \in Nat :
        /\ lo = f.offset /\ a = f.limit /\ b = g.limit /\ a # 0
        /\ lo + a = g.offset /\ a + b = h.limit /\ lo = h.offset
  BY DEF Consecutive
<1>5. /\ f.limit \in Nat \ {0} /\ g.limit \in Nat \ {0} /\ h.limit \in Nat \ {0}
      /\ f.offset \in Nat /\ g.offset \in Nat /\ h.offset \in Nat
  BY DEF Consecutive
<1>6. /\ Slice(Page(f, before), early, lo, a)
      /\ Slice(Page(g, rows), found, lo + a, b)
      /\ Slice(Page(h, rows), found, lo, a + b)
  BY <1>2, <1>3, <1>4, <1>5, PageIsSlice
<1>7. /\ Page(f, before) \in Seq(Trades) /\ Page(g, rows) \in Seq(Trades)
      /\ Page(h, rows) \in Seq(Trades)
  BY <1>6 DEF Slice
<1>8. Len(Page(f, before)) = a
  BY <1>4
<1>9. PICK x \in Seq(Trades), y \in Seq(Trades), z \in Seq(Trades) :
        x = Page(f, before) /\ y = Page(g, rows) /\ z = Page(h, rows)
  BY <1>7
<1>10. /\ Slice(x, early, lo, a) /\ Slice(y, found, lo + a, b) /\ Slice(z, found, lo, a + b)
       /\ Len(x) = a
  BY <1>6, <1>8, <1>9
<1>11. ASSUME NEW c, c = x \o y PROVE c = z
  BY <1>2, <1>4, <1>10, <1>11, SlicesJoin
<1> QED
  BY <1>9, <1>11

-----------------------------------------------------------------------------
(* What a client is answered with                                          *)

\* What the search of a client returns of the rows that were there when it ran.
Searched(c) == Execute(BuildSearchQuery(req[c]), SubSeq(table, 1, seen[c]))

\* A client that has searched and whose rows are still in the table.
Current(c) ==
  /\ req[c] \in Filters
  /\ Parses(BuildSearchQuery(req[c]))
  /\ seen[c] <= Len(table)

\* The rows on their way to a client are those of its search, and its answer is
\* what has arrived of them.
RowsOf(c) ==
  /\ result[c] \in Seq(Trades) /\ answer[c].rows \in Seq(Trades)
  /\ answer[c].code \in {"none", "ok", "deleted", "error"}
  /\ step[c] \in {"run", "running"} /\ req[c] # Delete => Parses(BuildSearchQuery(req[c]))
  /\ step[c] # "idle" => answer[c].code = "none"
  /\ step[c] = "reading" /\ c \notin emptied => Current(c) /\ result[c] = Searched(c)
  /\ answer[c].code = "ok" /\ c \notin emptied =>
       /\ Current(c)
       /\ IsPrefix(answer[c].rows, Searched(c))
       /\ c \notin cut => answer[c].rows = Searched(c)

RowsInv ==
  /\ table \in Seq(Trades)
  /\ step[Writer] # "idle" => req[Writer] \in Trades
  /\ result = [c \in Clients |-> result[c]]
  /\ seen \in [Clients -> Nat]
  /\ cut \subseteq Clients /\ emptied \subseteq Clients
  /\ \A c \in Clients : RowsOf(c)

\* A filter makes a statement with numbers for LIMIT and OFFSET.
LEMMA QueryTyped ==
  ASSUME NEW f \in Filters
  PROVE  /\ f.limit \in Int /\ f.offset \in Int
         /\ BuildSearchQuery(f).limit \in Nat /\ BuildSearchQuery(f).offset \in Nat
<1>1. f.limit \in Int /\ f.offset \in Int
  BY TradeApiAssumption
<1> QED
  BY <1>1 DEF BuildSearchQuery

\* A search returns rows of the table.
LEMMA ExecuteTyped ==
  ASSUME NEW f \in Filters, Parses(BuildSearchQuery(f)), NEW rows \in Seq(Trades)
  PROVE  Execute(BuildSearchQuery(f), rows) \in Seq(Trades)
<1>1. \E found : ScanOf(BuildSearchQuery(f).where, rows, found)
  BY ScanRuns
<1>2. PICK found \in Seq(Trades) : Scan(BuildSearchQuery(f).where, rows) = found
  BY <1>1 DEF ScanOf
<1> QED
  BY <1>2, QueryTyped, ExecuteAt

\* Rows added at the end change no search that has run.
LEMMA AppendKeepsSearched ==
  ASSUME table \in Seq(Trades), NEW t \in Trades, table' = Append(table, t),
         NEW c, req'[c] = req[c], seen'[c] = seen[c], seen[c] \in Nat, Current(c)
  PROVE  Current(c)' /\ Searched(c)' = Searched(c) /\ table' \in Seq(Trades)
<1>1. /\ table' \in Seq(Trades) /\ Len(table') = Len(table) + 1 /\ Len(table) \in Nat
      /\ \A i \in 1..Len(table) : table'[i] = table[i]
  BY AppendProperties, LenProperties
<1>2. seen[c] <= Len(table)
  BY DEF Current
<1>3. SubSeq(table', 1, seen[c]) = SubSeq(table, 1, seen[c])
  <2> DEFINE x == SubSeq(table', 1, seen[c])
             y == SubSeq(table, 1, seen[c])
  <2>1. x \in Seq(Trades) /\ Len(x) = seen[c] /\ \A i \in 1..seen[c] : x[i] = table'[i]
    BY <1>1, <1>2
  <2>2. y \in Seq(Trades) /\ Len(y) = seen[c] /\ \A i \in 1..seen[c] : y[i] = table[i]
    BY <1>1, <1>2
  <2>3. \A i \in 1..seen[c] : table'[i] = table[i]
    BY <1>1, <1>2
  <2> HIDE DEF x, y
  <2>4. x = y
    BY <2>1, <2>2, <2>3, SeqEqual
  <2> QED
    BY <2>4 DEF x, y
<1>4. Searched(c)' = Execute(BuildSearchQuery(req[c]), SubSeq(table', 1, seen[c]))
  BY DEF Searched
<1>5. Searched(c)' = Searched(c)
  BY <1>3, <1>4 DEF Searched
<1>6. Current(c)'
  BY <1>1, <1>2 DEF Current
<1> QED
  BY <1>1, <1>5, <1>6

\* A client of which nothing changes while a row may be added.
LEMMA OthersKeepRows ==
  ASSUME NEW c, RowsOf(c), seen[c] \in Nat, table \in Seq(Trades),
         table' = table \/ \E t \in Trades : table' = Append(table, t),
         step'[c] = step[c], req'[c] = req[c], result'[c] = result[c],
         answer'[c] = answer[c], seen'[c] = seen[c],
         c \in cut' <=> c \in cut, c \in emptied' <=> c \in emptied
  PROVE  RowsOf(c)'
<1>1. ASSUME Current(c) PROVE Current(c)' /\ Searched(c)' = Searched(c)
  <2>1. CASE table' = table
    BY <1>1, <2>1 DEF Current, Searched
  <2>2. CASE \E t \in Trades : table' = Append(table, t)
    BY <1>1, <2>2, AppendKeepsSearched
  <2> QED
    BY <2>1, <2>2
<1> QED
  BY <1>1 DEF RowsOf

\* A step of one client that leaves the table and the others alone.
LEMMA ClientKeepsRows ==
  ASSUME ConnInv, RowsInv, NEW c \in Clients, NEW s, Move(c, s), table' = table,
         req'[Writer] = req[Writer],
         result' = [d \in Clients |-> result'[d]], seen' \in [Clients -> Nat],
         cut' \subseteq Clients, emptied' \subseteq Clients,
         \A d \in Clients \ {c} :
           /\ req'[d] = req[d] /\ result'[d] = result[d] /\ answer'[d] = answer[d]
           /\ seen'[d] = seen[d] /\ (d \in cut' <=> d \in cut) /\ (d \in emptied' <=> d \in emptied),
         RowsOf(c)'
  PROVE  RowsInv'
<1>1. \A d \in Callers \ {c} : step'[d] = step[d]
  BY DEF Move, ConnInv
<1>2. Writer \in Callers \ {c} /\ \A d \in Clients \ {c} : d \in Callers \ {c}
  BY DbPoolAssumption DEF Callers
<1>3. ASSUME NEW d \in Clients \ {c} PROVE RowsOf(d)'
  <2>1. RowsOf(d) /\ seen[d] \in Nat /\ table \in Seq(Trades)
    BY DEF RowsInv
  <2>2. step'[d] = step[d]
    BY <1>1, <1>2
  <2> QED
    BY <2>1, <2>2, OthersKeepRows
<1>4. \A d \in Clients : RowsOf(d)'
  BY <1>3
<1> QED
  BY <1>1, <1>2, <1>4 DEF RowsInv

\* A step of the writer, which may add a row.
LEMMA WriterKeepsRows ==
  ASSUME ConnInv, RowsInv, NEW s, Move(Writer, s),
         s # "idle" => req'[Writer] \in Trades,
         table' = table \/ \E t \in Trades : table' = Append(table, t),
         \A d \in Clients : req'[d] = req[d],
         UNCHANGED <<result, answer, seen, cut, emptied>>
  PROVE  RowsInv'
<1>1. \A d \in Clients : step'[d] = step[d]
  BY DbPoolAssumption DEF Move, ConnInv, Callers
<1>2. step'[Writer] = s
  BY DEF Move, ConnInv, Callers
<1>3. ASSUME NEW d \in Clients PROVE RowsOf(d)'
  <2>1. RowsOf(d) /\ seen[d] \in Nat /\ table \in Seq(Trades)
    BY DEF RowsInv
  <2> QED
    BY <1>1, <2>1, OthersKeepRows
<1>4. table' \in Seq(Trades)
  BY AppendProperties DEF RowsInv
<1> QED
  BY <1>2, <1>3, <1>4 DEF RowsInv

\* A step that ends a request without rows, or goes on with its statement.
LEMMA NoAnswerKeepsRows ==
  ASSUME ConnInv, FailInv, RowsInv, NEW c \in Clients,
         NEW s \in {"idle", "preparing", "run", "running"}, Move(c, s),
         UNCHANGED <<table, req, result, seen, cut, emptied>>,
         \/ /\ answer' = answer /\ s # "idle" /\ step[c] # "idle"
            /\ s \in {"run", "running"} /\ req[c] # Delete => Parses(BuildSearchQuery(req[c]))
         \/ s = "idle" /\ Answer(c, "error", <<>>)
  PROVE  RowsInv'
<1>1. step'[c] = s /\ answer = [d \in Clients |-> answer[d]] /\ RowsOf(c)
  BY DEF Move, ConnInv, FailInv, RowsInv, Callers
<1>2. CASE /\ answer' = answer /\ s # "idle" /\ step[c] # "idle"
           /\ s \in {"run", "running"} /\ req[c] # Delete => Parses(BuildSearchQuery(req[c]))
  <2>1. RowsOf(c)'
    BY <1>1, <1>2 DEF RowsOf
  <2> QED
    BY <1>2, <2>1, ClientKeepsRows DEF RowsInv
<1>3. CASE s = "idle" /\ Answer(c, "error", <<>>)
  <2>1. answer'[c].code = "error" /\ answer'[c].rows = <<>> /\ answer'[c].rows \in Seq(Trades)
    BY <1>1, <1>3, EmptySeq DEF Answer
  <2>2. RowsOf(c)'
    BY <1>1, <1>3, <2>1 DEF RowsOf
  <2>3. \A d \in Clients \ {c} : answer'[d] = answer[d]
    BY <1>1, <1>3 DEF Answer
  <2> QED
    BY <2>2, <2>3, ClientKeepsRows DEF RowsInv
<1> QED
  BY <1>2, <1>3

\* The last rows have arrived, or the connection is lost before they have.
LEMMA AnswerKeepsRows ==
  ASSUME ConnInv, FailInv, RowsInv, NEW c \in Clients, RowsRead(c) \/ RowsCut(c)
  PROVE  RowsInv'
<1>1. /\ step[c] = "reading" /\ Move(c, "idle") /\ step'[c] = "idle"
      /\ result' = [result EXCEPT ![c] = <<>>]
      /\ UNCHANGED <<table, req, seen, emptied>>
  BY DEF RowsRead, RowsCut, Move, ConnInv, Callers
<1>2. PICK n \in 0..Len(result[c]) :
        /\ answer' = [answer EXCEPT ![c] = [code |-> "ok", rows |-> SubSeq(result[c], 1, n)]]
        /\ \/ n = Len(result[c]) /\ cut' = cut
           \/ cut' = cut \cup {c}
  <2>1. CASE RowsRead(c)
    <3>1. result[c] \in Seq(Trades)
      BY DEF RowsInv, RowsOf
    <3>2. SubSeq(result[c], 1, Len(result[c])) = result[c] /\ Len(result[c]) \in 0..Len(result[c])
      BY <3>1, SubSeqFull, LenProperties
    <3> QED
      BY <2>1, <3>2 DEF RowsRead, Answer
  <2>2. CASE RowsCut(c)
    BY <2>2 DEF RowsCut, Answer
  <2> QED
    BY <2>1, <2>2
<1>3. PICK r \in Seq(Trades), a \in Seq(Trades) : r = result[c] /\ a = SubSeq(r, 1, n)
  <2>1. PICK r \in Seq(Trades) : r = result[c]
    BY DEF RowsInv, RowsOf
  <2>2. Len(r) \in Nat /\ n \in 0..Len(r)
    BY <2>1, LenProperties
  <2>3. SubSeq(r, 1, n) \in Seq(Trades)
    BY <2>2
  <2> QED
    BY <2>1, <2>3
<1>4. IsPrefix(a, r) /\ (n = Len(r) => a = r)
  <2>1. /\ Len(r) \in Nat /\ Len(a) \in Nat /\ n \in 0..Len(r)
        /\ Len(a) = n /\ \A k \in 1..n : a[k] = r[k]
    BY <1>3
  <2>2. Len(a) <= Len(r) /\ \A k \in 1..Len(a) : a[k] = r[k]
    BY <2>1
  <2>3. IsPrefix(a, r)
    BY <2>2, PrefixIs
  <2>4. SubSeq(r, 1, Len(r)) = r
    BY SubSeqFull
  <2> QED
    BY <1>3, <2>3, <2>4
<1>5. answer'[c].code = "ok" /\ answer'[c].rows = a
  BY <1>2, <1>3 DEF FailInv
<1>6. Searched(c)' = Searched(c) /\ Current(c)' = Current(c) /\ (c \in emptied' <=> c \in emptied)
  BY <1>1 DEF Searched, Current
<1>7. c \notin emptied => Current(c) /\ r = Searched(c)
  BY <1>1, <1>3 DEF RowsInv, RowsOf
<1>8. result'[c] = <<>> /\ result'[c] \in Seq(Trades)
  BY <1>1, EmptySeq DEF RowsInv
<1>9. c \notin cut' => a = r
  BY <1>2, <1>3, <1>4
<1>10. RowsOf(c)'
  BY <1>1, <1>4, <1>5, <1>6, <1>7, <1>8, <1>9 DEF RowsOf
<1>11. \A d \in Clients \ {c} : /\ result'[d] = result[d] /\ answer'[d] = answer[d]
                                /\ d \in cut' <=> d \in cut
  BY <1>1, <1>2 DEF RowsInv, FailInv
<1>12. result' = [d \in Clients |-> result'[d]] /\ cut' \subseteq Clients
  BY <1>1, <1>2 DEF RowsInv
<1> QED
  BY <1>1, <1>10, <1>11, <1>12, ClientKeepsRows DEF RowsInv

\* A new request forgets the last answer.
LEMMA RequestKeepsRows ==
  ASSUME ConnInv, FailInv, RowsInv, NEW c \in Clients, Request(c)
  PROVE  RowsInv'
<1>1. /\ Move(c, "prepare") /\ step'[c] = "prepare" /\ table' = table /\ result' = result
      /\ answer' = [answer EXCEPT ![c] = None] /\ seen' = [seen EXCEPT ![c] = 0]
      /\ cut' = cut \ {c} /\ emptied' = emptied \ {c}
  BY DEF Request, Move, ConnInv, Callers
<1>2. PICK r : req' = [req EXCEPT ![c] = r]
  BY DEF Request
<1>3. answer'[c].code = "none" /\ answer'[c].rows \in Seq(Trades)
  BY <1>1, EmptySeq DEF FailInv, None
<1>4. RowsOf(c)'
  BY <1>1, <1>3 DEF RowsInv, RowsOf
<1>5. \A d \in Clients \ {c} : /\ req'[d] = req[d] /\ answer'[d] = answer[d] /\ seen'[d] = seen[d]
                               /\ (d \in cut' <=> d \in cut) /\ (d \in emptied' <=> d \in emptied)
  BY <1>1, <1>2 DEF RowsInv, FailInv, Callers
<1>6. req'[Writer] = req[Writer] /\ seen' \in [Clients -> Nat]
      /\ cut' \subseteq Clients /\ emptied' \subseteq Clients
  BY <1>1, <1>2, DbPoolAssumption DEF RowsInv, FailInv, Callers
<1> QED
  BY <1>1, <1>4, <1>5, <1>6, ClientKeepsRows DEF RowsInv

\* The SELECT reads the table as it stands.
LEMMA QueriedKeepsRows ==
  ASSUME ConnInv, FailInv, RowsInv, NEW c \in Clients, Queried(c)
  PROVE  RowsInv'
<1>1. /\ step[c] = "running" /\ req[c] # Delete /\ Move(c, "reading") /\ step'[c] = "reading"
      /\ result' = [result EXCEPT ![c] = Execute(BuildSearchQuery(req[c]), table)]
      /\ seen' = [seen EXCEPT ![c] = Len(table)]
      /\ UNCHANGED <<table, req, answer, cut, emptied>>
  BY DEF Queried, Running, Move, ConnInv, Callers
<1>2. /\ table \in Seq(Trades) /\ Len(table) \in Nat /\ RowsOf(c)
      /\ req[c] \in Filters /\ Parses(BuildSearchQuery(req[c]))
  BY <1>1, LenProperties DEF RowsInv, RowsOf, FailInv
<1>3. Execute(BuildSearchQuery(req[c]), table) \in Seq(Trades)
  BY <1>2, ExecuteTyped
<1>4. result'[c] = Execute(BuildSearchQuery(req[c]), table) /\ seen'[c] = Len(table)
  BY <1>1 DEF RowsInv
<1>5. SubSeq(table, 1, Len(table)) = table
  BY <1>2, SubSeqFull
<1>6. result'[c] = Searched(c)' /\ Current(c)'
  <2>1. Searched(c)' = Execute(BuildSearchQuery(req'[c]), SubSeq(table', 1, seen'[c]))
    BY DEF Searched
  <2>2. req'[c] = req[c] /\ SubSeq(table', 1, seen'[c]) = table
    BY <1>1, <1>4, <1>5
  <2>3. Current(c)'
    BY <1>1, <1>2, <1>4 DEF Current
  <2> QED
    BY <1>4, <2>1, <2>2, <2>3
<1>7. RowsOf(c)'
  BY <1>1, <1>2, <1>3, <1>4, <1>6 DEF RowsOf
<1>8. /\ \A d \in Clients \ {c} : result'[d] = result[d] /\ seen'[d] = seen[d]
      /\ result' = [d \in Clients |-> result'[d]] /\ seen' \in [Clients -> Nat]
  BY <1>1, <1>2 DEF RowsInv
<1> QED
  BY <1>1, <1>7, <1>8, ClientKeepsRows DEF RowsInv

\* TRUNCATE: every answer so far, and every search whose rows are on their way,
\* is of the rows it has removed.
LEMMA DeleteAllKeepsRows ==
  ASSUME ConnInv, FailInv, RowsInv, NEW c \in Clients, DeleteAll(c)
  PROVE  RowsInv'
<1>1. /\ step[c] = "running" /\ table' = <<>> /\ UNCHANGED <<req, result, seen, cut>>
      /\ step' = [step EXCEPT ![c] = "idle"]
      /\ emptied' = {d \in Clients : step[d] = "reading" \/ answer[d].code = "ok"}
      /\ answer' = [answer EXCEPT ![c] = [code |-> "deleted", rows |-> <<>>]]
  BY DEF DeleteAll, Running, Move, Answer
<1>2. <<>> \in Seq(Trades)
  BY EmptySeq
<1>3. ASSUME NEW d \in Clients PROVE RowsOf(d)'
  <2>1. RowsOf(d)
    BY DEF RowsInv
  <2>2. CASE d = c
    <3>1. step'[d] = "idle" /\ answer'[d].code = "deleted" /\ answer'[d].rows = <<>>
      BY <1>1, <2>2 DEF ConnInv, FailInv, Callers
    <3> QED
      BY <1>1, <1>2, <2>1, <3>1 DEF RowsOf
  <2>3. CASE d # c
    <3>1. step'[d] = step[d] /\ answer'[d] = answer[d]
      BY <1>1, <2>3 DEF ConnInv, FailInv, Callers
    <3>2. step'[d] = "reading" \/ answer'[d].code = "ok" => d \in emptied'
      BY <1>1, <3>1
    <3> QED
      BY <1>1, <2>1, <3>1, <3>2 DEF RowsOf
  <2> QED
    BY <2>2, <2>3
<1>4. step'[Writer] = step[Writer]
  BY <1>1, DbPoolAssumption DEF ConnInv, Callers
<1> QED
  BY <1>1, <1>2, <1>3, <1>4 DEF RowsInv

\* The steps of the callers.
LEMMA CallersKeepRows ==
  ConnInv /\ FailInv /\ RowsInv /\ CallerStep => RowsInv'
<1> SUFFICES ASSUME ConnInv, FailInv, RowsInv, CallerStep PROVE RowsInv'
  OBVIOUS
<1>1. CASE SetTrade
  <2>1. PICK t \in Trades : req' = [req EXCEPT ![Writer] = t]
    BY <1>1 DEF SetTrade
  <2>2. req'[Writer] = t /\ \A d \in Clients : req'[d] = req[d]
    BY <2>1, DbPoolAssumption DEF FailInv, Callers
  <2>3. Move(Writer, "run") /\ UNCHANGED <<table, result, answer, seen, cut, emptied>>
    BY <1>1 DEF SetTrade
  <2> QED
    BY <2>2, <2>3, WriterKeepsRows
<1>2. CASE Inserted \/ InsertLost
  <2>1. step[Writer] # "idle"
    BY <1>2 DEF Inserted, InsertLost, NoneToBorrow, ConnInv, Holders, Callers
  <2>2. req[Writer] \in Trades
    BY <2>1 DEF RowsInv
  <2>3. table' = table \/ table' = Append(table, req[Writer])
    BY <1>2 DEF Inserted, InsertLost
  <2>4. Move(Writer, "idle") /\ UNCHANGED <<req, result, answer, seen, cut, emptied>>
    BY <1>2 DEF Inserted, InsertLost
  <2> QED
    BY <2>2, <2>3, <2>4, WriterKeepsRows
<1>3. CASE Connect(Writer)
  <2>1. step[Writer] # "idle" /\ Move(Writer, Holding[step[Writer]])
        /\ UNCHANGED <<table, req, result, answer, seen, cut, emptied>>
    BY <1>3 DEF Connect, Holding
  <2>2. req[Writer] \in Trades
    BY <2>1 DEF RowsInv
  <2> QED
    BY <2>1, <2>2, WriterKeepsRows
<1>4. ASSUME NEW c \in Clients, Connect(c) PROVE RowsInv'
  <2>1. /\ step[c] \in {"prepare", "run"} /\ Move(c, Holding[step[c]])
        /\ UNCHANGED <<table, req, result, answer, seen, cut, emptied>>
    BY <1>4 DEF Connect, Holding
  <2>2. \/ step[c] = "prepare" /\ Holding[step[c]] = "preparing"
        \/ step[c] = "run" /\ Holding[step[c]] = "running"
    BY <2>1 DEF Holding
  <2>3. Holding[step[c]] = "running" /\ req[c] # Delete => Parses(BuildSearchQuery(req[c]))
    BY <2>2 DEF RowsInv, RowsOf
  <2> QED
    BY <2>1, <2>2, <2>3, NoAnswerKeepsRows
<1>5. ASSUME NEW c \in Clients, Prepared(c) PROVE RowsInv'
  BY <1>5, NoAnswerKeepsRows DEF Prepared
<1>6. ASSUME NEW c \in Clients, Refused(c) \/ StatementLost(c) PROVE RowsInv'
  BY <1>6, NoAnswerKeepsRows DEF Refused, StatementLost, Fails
<1> QED
  BY <1>1, <1>2, <1>3, <1>4, <1>5, <1>6, RequestKeepsRows, QueriedKeepsRows,
     AnswerKeepsRows, DeleteAllKeepsRows DEF CallerStep, Callers

\* Nobody has asked for anything.
LEMMA NoRows ==
  ASSUME table' \in Seq(Trades),
         step' = Quiet.step, result' = Quiet.result, answer' = Quiet.answer,
         seen' = Quiet.seen, cut' = Quiet.cut, emptied' = Quiet.emptied
  PROVE  RowsInv'
<1>1. /\ step' = [a \in Callers |-> "idle"] /\ result' = [c \in Clients |-> <<>>]
      /\ answer' = [c \in Clients |-> None] /\ seen' = [c \in Clients |-> 0]
      /\ cut' = {} /\ emptied' = {}
  BY DEF Quiet
<1>2. <<>> \in Seq(Trades) /\ None.rows = <<>> /\ None.code = "none"
  BY EmptySeq DEF None
<1>3. ASSUME NEW c \in Clients PROVE RowsOf(c)'
  <2>1. step'[c] = "idle" /\ result'[c] = <<>> /\ answer'[c] = None
    BY <1>1 DEF Callers
  <2> QED
    BY <1>2, <2>1 DEF RowsOf
<1>4. step'[Writer] = "idle"
  BY <1>1 DEF Callers
<1> QED
  BY <1>1, <1>3, <1>4 DEF RowsInv

\* The rows and the answers of every client are those of its search, in every
\* reachable state.
LEMMA RowsInvariant == Spec => []RowsInv
<1>1. Init => RowsInv
  <2> SUFFICES ASSUME Init PROVE RowsInv
    OBVIOUS
  <2>1. /\ step = [a \in Callers |-> "idle"] /\ result = [c \in Clients |-> <<>>]
        /\ answer = [c \in Clients |-> None] /\ seen = [c \in Clients |-> 0]
        /\ cut = {} /\ emptied = {} /\ table = <<>>
    BY DEF Init, Quiet
  <2>2. <<>> \in Seq(Trades) /\ None.rows = <<>> /\ None.code = "none"
    BY EmptySeq DEF None
  <2>3. ASSUME NEW c \in Clients PROVE RowsOf(c)
    <3>1. step[c] = "idle" /\ result[c] = <<>> /\ answer[c] = None
      BY <2>1 DEF Callers
    <3> QED
      BY <2>2, <3>1 DEF RowsOf
  <2>4. step[Writer] = "idle"
    BY <2>1 DEF Callers
  <2> QED
    BY <2>1, <2>2, <2>3, <2>4 DEF RowsInv
<1>2. ASSUME RowsInv, UNCHANGED apiVars PROVE RowsInv'
  <2>1. ASSUME NEW c \in Clients PROVE RowsOf(c)'
    BY <1>2 DEF apiVars, RowsInv, RowsOf, Current, Searched
  <2> QED
    BY <1>2, <2>1 DEF apiVars, RowsInv
<1>3. ASSUME RowsInv, Crash PROVE RowsInv'
  BY <1>3, NoRows DEF Crash, RowsInv
<1>4. ConnInv /\ FailInv /\ RowsInv /\ [Next]_vars => RowsInv'
  <2>1. [Next]_vars => CallerStep \/ UNCHANGED apiVars \/ Crash
    BY DEF Next, CallerStep, vars
  <2> QED
    BY <1>2, <1>3, <2>1, CallersKeepRows
<1> QED
  BY <1>1, <1>4, ConnInvariant, FailInvariant, PTL DEF Spec

\* Every variable of the pool and of the trade table keeps its type.
THEOREM TradeApiTypes == Spec => []TypeOK
<1>1. SchemaInv /\ ConnInv => PoolTypeOK
  BY DEF SchemaInv, Schema, ConnInv, Boots, PoolTypeOK
<1>2. SchemaInv /\ ConnInv /\ FailInv /\ RowsInv => TypeOK
  <2> SUFFICES ASSUME SchemaInv, ConnInv, FailInv, RowsInv PROVE TypeOK
    OBVIOUS
  <2>1. \A c \in Clients : /\ result[c] \in Seq(Trades) /\ answer[c].rows \in Seq(Trades)
                           /\ answer[c].code \in {"none", "ok", "deleted", "error"}
    BY DEF RowsInv, RowsOf
  <2>2. /\ step \in [Callers -> {"idle", "prepare", "preparing", "run", "running", "reading"}]
        /\ \A a \in Callers : conn[a] # "none" <=> step[a] \in {"preparing", "running", "reading"}
        /\ lost \in BOOLEAN
    BY DEF ConnInv, Steps, Holders
  <2> QED
    BY <1>1, <2>1, <2>2 DEF TypeOK, FailInv, RowsInv
<1> QED
  BY <1>2, SchemaInvariant, ConnInvariant, FailInvariant, RowsInvariant, PTL

\* A prefix of a prefix.
LEMMA PrefixOfPrefix ==
  ASSUME NEW x \in Seq(Trades), NEW y \in Seq(Trades), NEW z \in Seq(Trades),
         IsPrefix(x, y), IsPrefix(y, z)
  PROVE  IsPrefix(x, z)
<1>1. /\ Len(x) <= Len(y) /\ \A k \in 1..Len(x) : x[k] = y[k]
      /\ Len(y) <= Len(z) /\ \A k \in 1..Len(y) : y[k] = z[k]
  BY PrefixIs
<1>2. Len(x) \in Nat /\ Len(y) \in Nat /\ Len(z) \in Nat
  BY LenProperties
<1>3. Len(x) <= Len(z) /\ \A k \in 1..Len(x) : x[k] = z[k]
  BY <1>1, <1>2
<1> QED
  BY <1>3, PrefixIs

\* An answer of GET /trade is the page its filter stands for, in the table its
\* search read, and keeps that place while rows are added, for any number of
\* clients and of rows.
THEOREM AnswersAreThePages == Spec => []AnswersArePages
<1>1. ASSUME RowsInv, NEW c \in Clients, answer[c].code = "ok", c \notin emptied
      PROVE  /\ IsPrefix(answer[c].rows, Page(req[c], table))
             /\ c \notin cut => answer[c].rows = Page(req[c], SubSeq(table, 1, seen[c]))
  <2> DEFINE part == SubSeq(table, 1, seen[c])
  <2>1. /\ table \in Seq(Trades) /\ Len(table) \in Nat /\ seen[c] \in Nat
        /\ answer[c].rows \in Seq(Trades) /\ Current(c)
        /\ IsPrefix(answer[c].rows, Searched(c))
        /\ c \notin cut => answer[c].rows = Searched(c)
    BY <1>1, LenProperties DEF RowsInv, RowsOf
  <2>2. PICK f \in Filters : f = req[c] /\ Parses(BuildSearchQuery(f)) /\ seen[c] \in 0..Len(table)
    BY <2>1 DEF Current
  <2>3. part \in Seq(Trades)
    BY <2>1, <2>2
  <2>4. /\ f.limit \in Int /\ f.offset \in Int
        /\ BuildSearchQuery(f).limit \in Nat /\ BuildSearchQuery(f).offset \in Nat
    BY QueryTyped
  <2>5. Searched(c) = Execute(BuildSearchQuery(f), part)
    BY <2>2 DEF Searched
  <2>6. /\ Execute(BuildSearchQuery(f), part) = Page(f, part)
        /\ Execute(BuildSearchQuery(f), table) = Page(f, table)
    BY <2>1, <2>2, <2>3, <2>4, SelectIsPage
  <2>7. /\ Execute(BuildSearchQuery(f), part) \in Seq(Trades)
        /\ Execute(BuildSearchQuery(f), table) \in Seq(Trades)
    BY <2>1, <2>2, <2>3, ExecuteTyped
  <2>8. IsPrefix(Execute(BuildSearchQuery(f), part), Execute(BuildSearchQuery(f), table))
    BY <2>1, <2>2, <2>4, ExecuteOfPrefix
  <2>9. IsPrefix(answer[c].rows, Page(f, table))
    BY <2>1, <2>5, <2>6, <2>7, <2>8, PrefixOfPrefix
  <2> QED
    BY <2>1, <2>2, <2>5, <2>6, <2>9
<1>2. RowsInv => AnswersArePages
  BY <1>1 DEF AnswersArePages
<1> QED
  BY <1>2, RowsInvariant, PTL

=============================================================================
