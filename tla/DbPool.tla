------------------------------- MODULE DbPool -------------------------------
(***************************************************************************)
(* The connections to MySQL: how main() opens the one sql.DB, selects the   *)
(* database on one of its connections and runs the migrations, and how that *)
(* pool then lends connections to the goroutines that run statements.       *)
(***************************************************************************)
EXTENDS Integers, Sequences, SequencesExt

CONSTANTS
  Clients,   \* HTTP requests in flight, one goroutine each
  Writer     \* the goroutine in SetTrade: dbMutex admits one at a time

ASSUME DbPoolAssumption == Writer \notin Clients

Callers == Clients \cup {Writer}

VARIABLES
  dsn,     \* MYSQL_DSN: "named" when it names the database, "plain" when not
  schema,  \* MySQL: what exists of {"database", "amms", "trades"}
  boot,    \* main(): the step of its start it is at, or where that ended
  idle,    \* sql.DB.freeConn, latest last: TRUE when the database is selected
  conn,    \* caller: "with" or "without" the database; "none" held
  broke,   \* history: a connection was lost or refused since main() started
  overlap  \* history: two callers held connections at once since then

poolVars == <<dsn, schema, boot, idle, conn, broke, overlap>>
server == <<dsn, schema>>

MaxIdle == 2   \* database/sql's default; the program sets no limit

Starting == {"redis", "ping", "create", "use", "amms", "trades", "grpc"}

PoolTypeOK ==
  /\ dsn \in {"plain", "named"}
  /\ schema \subseteq {"database", "amms", "trades"}
  /\ boot \in Starting \cup {"connected", "listening", "serving", "headless", "down"}
  /\ idle \in Seq(BOOLEAN) /\ Len(idle) <= MaxIdle
  /\ conn \in [Callers -> {"none", "with", "without"}]
  /\ broke \in BOOLEAN
  /\ overlap \in BOOLEAN

PoolInit ==
  /\ dsn \in {"plain", "named"}
  /\ schema \in {{}, {"database", "amms", "trades"}}
  /\ boot = "redis"
  /\ idle = <<>>
  /\ conn = [a \in Callers |-> "none"]
  /\ broke = FALSE
  /\ overlap = FALSE

\* A statement finds its table: the connection has the database selected.
Selected(c) == c = "with"

\* The server refuses a connection to a database that does not exist.
CanOpen == dsn = "named" => "database" \in schema

-----------------------------------------------------------------------------
(* main(): one goroutine, each statement on the connection last put back    *)

\* What the next statement of main() runs on, and what it leaves in the pool.
MainConn == IF idle = <<>> THEN dsn = "named" ELSE Last(idle)
MainPuts(c) ==
  idle' = IF idle = <<>> THEN <<c>> ELSE [idle EXCEPT ![Len(idle)] = c]

At(s) == boot = s
To(s) == boot' = s /\ UNCHANGED <<dsn, conn, broke, overlap>>

\* InitRedisClients pings databases 1 to 7.
InitRedis == At("redis") /\ To("ping") /\ UNCHANGED <<schema, idle>>

\* sql.Open connects to nothing; Ping does.
Ping ==
  /\ At("ping")
  /\ CanOpen
  /\ MainPuts(MainConn)
  /\ To("create")
  /\ UNCHANGED schema

CreateDatabase ==
  /\ At("create")
  /\ CanOpen
  /\ MainPuts(MainConn)
  /\ schema' = schema \cup {"database"}
  /\ To("use")

\* USE changes the one connection it is sent on.
UseDatabase ==
  /\ At("use")
  /\ CanOpen
  /\ MainPuts(TRUE)
  /\ To("amms")
  /\ UNCHANGED schema

\* mutant of Migrate: a file that fails is logged only
MigrateOrLog(file, next) ==
  /\ At(file)
  /\ CanOpen
  /\ MainPuts(MainConn)
  /\ schema' = IF MainConn THEN schema \cup {file} ELSE schema
  /\ To(next)

\* The files of migrations/ in the order of their names; an error is fatal.
Migrate(file, next) ==
  /\ At(file)
  /\ CanOpen
  /\ MainConn
  /\ MainPuts(MainConn)
  /\ schema' = schema \cup {file}
  /\ To(next)

\* Two gRPC clients; grpc.NewClient connects to nothing yet.
GrpcConnect == At("grpc") /\ To("connected") /\ UNCHANGED <<schema, idle>>

\* The workers and the listeners are started, before there is an API.
Listen == At("connected") /\ To("listening") /\ UNCHANGED <<schema, idle>>

\* ListenAndServe serves, or returns an error that is dropped: main() waits for
\* the workers, without an API.
Serve ==
  /\ At("listening")
  /\ \/ To("serving")
     \/ To("headless")
  /\ UNCHANGED <<schema, idle>>

\* Any error of the start is fatal: nothing has been started yet.
BootFails ==
  /\ boot \in Starting
  /\ boot' = "down"
  /\ idle' = <<>>
  /\ UNCHANGED <<server, conn, broke, overlap>>

Boot ==
  \/ InitRedis \/ Ping \/ CreateDatabase \/ UseDatabase
  \/ Migrate("amms", "trades") \/ Migrate("trades", "grpc")
  \/ GrpcConnect \/ Listen \/ Serve \/ BootFails

\* The operator starts the program again.
Restart ==
  /\ boot = "down"
  /\ boot' = "redis"
  /\ broke' = FALSE
  /\ overlap' = FALSE
  /\ UNCHANGED <<server, idle, conn>>

-----------------------------------------------------------------------------
(* sql.DB                                                                  *)

\* mutant of Open: every connection selects the database
OpenSelects == "with"

\* A new connection has the database the DSN names.
Open == IF dsn = "named" THEN "with" ELSE "without"

\* The connection used last, or a new one: there is no limit on them.
Borrow(a) ==
  /\ conn' = [conn EXCEPT ![a] = IF idle = <<>> THEN Open
                                 ELSE IF Last(idle) THEN "with" ELSE "without"]
  /\ idle' = IF idle = <<>> THEN idle ELSE Front(idle)
  /\ overlap' = (overlap \/ \E b \in Callers \ {a} : conn[b] # "none")
  /\ UNCHANGED <<server, boot, broke>>

\* mutant of GiveBack: nothing is kept
GiveBackClosed(a) ==
  /\ conn' = [conn EXCEPT ![a] = "none"]
  /\ UNCHANGED <<server, boot, idle, broke, overlap>>

\* Two connections are kept idle, a third is closed.
GiveBack(a) ==
  /\ conn' = [conn EXCEPT ![a] = "none"]
  /\ idle' = IF Len(idle) < MaxIdle THEN Append(idle, Selected(conn[a])) ELSE idle
  /\ UNCHANGED <<server, boot, broke, overlap>>

\* The connection of a statement, or of an attempt to open one, is lost.
Lose(a) ==
  /\ conn' = [conn EXCEPT ![a] = "none"]
  /\ broke' = TRUE
  /\ UNCHANGED <<server, boot, idle, overlap>>

\* The server closes an idle connection (wait_timeout, a restart): the driver
\* notices and the pool drops it before it is used.
IdleEnds ==
  /\ \E i \in DOMAIN idle : idle' = RemoveAt(idle, i)
  /\ broke' = TRUE
  /\ UNCHANGED <<server, boot, conn, overlap>>

\* The process dies: all connections are gone, the server keeps its data.
PoolDies ==
  /\ boot' = "down"
  /\ idle' = <<>>
  /\ conn' = [a \in Callers |-> "none"]
  /\ UNCHANGED <<server, broke, overlap>>

=============================================================================
