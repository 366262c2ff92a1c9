------------------------------ MODULE TradeApi ------------------------------
(***************************************************************************)
(* The trade table and the statements that reach it through module DbPool:  *)
(* the INSERT of SetTrade, the search of GET /trade (a prepare and a query, *)
(* each on a connection of its own) and the TRUNCATE of DELETE /trade.      *)
(***************************************************************************)
EXTENDS DbPool, FiniteSets

CONSTANTS
  Trades,    \* what SetTrade inserts: records of columns
  Filters,   \* MySQLFilter: [query, limit, offset], query a sequence of
             \* [column, op, value] with op in {"=", "!="}
  Delete,    \* DELETE /trade
  NoRequest, \* no request; nothing to insert
  IntMax,    \* the largest value of an INT column, 2^31 - 1
  BigMax,    \* the largest value of a BIGINT column, 2^63 - 1
  MaxRows    \* bound: rows in the table when SetTrade is called

ASSUME TradeApiAssumption ==
  /\ \A f \in Filters : f.limit \in Int /\ f.offset \in Int
  /\ NoRequest \notin Filters \cup Trades \cup {Delete}
  /\ Delete \notin Filters
  /\ IntMax \in Nat /\ BigMax \in Nat
  /\ MaxRows \in Nat

VARIABLES
  table,    \* MySQL: the rows of trades, in the order of the clustered index
  step,     \* caller: where it is in its handler or in SetTrade
  req,      \* client: its filter or Delete; Writer: its trade
  result,   \* client: the rows the server sends, still unread
  answer,   \* client: [code, rows] of its last response
  seen,     \* history: rows in the table when that search ran
  cut,      \* history: clients whose search lost its connection halfway
  emptied,  \* history: clients whose search ran before the last TRUNCATE
  lost      \* history: SetTrade has returned with no row for a trade that fits

apiVars == <<table, step, req, result, answer, seen, cut, emptied, lost>>
vars == <<poolVars, apiVars>>

None == [code |-> "none", rows |-> <<>>]

TypeOK ==
  /\ PoolTypeOK
  /\ table \in Seq(Trades)
  /\ step \in [Callers -> {"idle", "prepare", "preparing", "run", "running", "reading"}]
  /\ \A a \in Callers : conn[a] # "none" <=> step[a] \in {"preparing", "running", "reading"}
  /\ req \in [Callers -> Filters \cup Trades \cup {Delete, NoRequest}]
  /\ \A c \in Clients : result[c] \in Seq(Trades) /\ answer[c].rows \in Seq(Trades)
  /\ \A c \in Clients : answer[c].code \in {"none", "ok", "deleted", "error"}
  /\ seen \in [Clients -> Nat]
  /\ cut \subseteq Clients /\ emptied \subseteq Clients
  /\ lost \in BOOLEAN

\* No request and no trade in flight, nothing in the history.
Quiet ==
  [step    |-> [a \in Callers |-> "idle"],
   req     |-> [a \in Callers |-> NoRequest],
   result  |-> [c \in Clients |-> <<>>],
   answer  |-> [c \in Clients |-> None],
   seen    |-> [c \in Clients |-> 0],
   cut     |-> {},
   emptied |-> {},
   lost    |-> FALSE]

Init ==
  /\ PoolInit
  /\ table = <<>>
  /\ step = Quiet.step /\ req = Quiet.req
  /\ result = Quiet.result /\ answer = Quiet.answer /\ seen = Quiet.seen
  /\ cut = Quiet.cut /\ emptied = Quiet.emptied /\ lost = Quiet.lost

-----------------------------------------------------------------------------
(* Queries                                                                 *)

\* mutant of BuildSearchQuery: OFFSET left out
BuildNoOffset(f) ==
  [where |-> f.query, limit |-> f.limit, offset |-> 0]

\* One term after another, joined by AND; LIMIT and OFFSET only when positive.
BuildSearchQuery(f) ==
  [where  |-> f.query,
   limit  |-> IF f.limit > 0 THEN f.limit ELSE 0,
   offset |-> IF f.offset > 0 THEN f.offset ELSE 0]

\* MySQL knows no OFFSET without a LIMIT.
Parses(q) == q.offset > 0 => q.limit > 0

Holds(term, t) ==
  IF term.op = "=" THEN t[term.column] = term.value ELSE t[term.column] # term.value

\* The terms of a WHERE.
Satisfies(where, t) == \A k \in DOMAIN where : Holds(where[k], t)

\* No ORDER BY and no index: MySQL scans the rows as they were inserted.
Scan(where, rows) ==
  LET found[n \in 0..Len(rows)] ==
        IF n = 0 THEN <<>>
        ELSE IF Satisfies(where, rows[n]) THEN Append(found[n-1], rows[n])
        ELSE found[n-1]
  IN  found[Len(rows)]

Execute(q, rows) ==
  LET found == Scan(q.where, rows)
  IN  IF q.limit = 0 THEN found
      ELSE SubSeq(found, q.offset + 1, Min({q.offset + q.limit, Len(found)}))

\* The numeric columns of migrations/trade.sql: MySQL refuses a row with a number
\* out of the range of its column.  The amount is a difference of two u64s, the
\* price a uint32, the tip and the timestamp are int64s; the VARCHARs hold keys,
\* signatures and words, which are short.
Fits(t) ==
  /\ {t.compute_limit, t.compute_price, t.tip_amount, t.timestamp} \subseteq -IntMax - 1..IntMax
  /\ t.amount \in -BigMax - 1..BigMax

-----------------------------------------------------------------------------
(* Callers                                                                 *)

Move(a, s) == step' = [step EXCEPT ![a] = s]
Answer(c, code, rows) == answer' = [answer EXCEPT ![c] = [code |-> code, rows |-> rows]]

\* GET /trade with a filter that decodes (another is answered at once), or
\* DELETE /trade.
Request(c) ==
  /\ boot = "serving"
  /\ step[c] = "idle"
  /\ \E r \in Filters \cup {Delete} : req' = [req EXCEPT ![c] = r]
  /\ Move(c, "prepare")
  /\ answer' = [answer EXCEPT ![c] = None]
  /\ seen' = [seen EXCEPT ![c] = 0]
  /\ cut' = cut \ {c}
  /\ emptied' = emptied \ {c}
  /\ UNCHANGED <<poolVars, table, result, lost>>

\* A swap handler has dbMutex and calls Set.
SetTrade ==
  /\ boot \in {"listening", "serving", "headless"}
  /\ step[Writer] = "idle"
  /\ Len(table) < MaxRows
  /\ \E t \in Trades : req' = [req EXCEPT ![Writer] = t]
  /\ Move(Writer, "run")
  /\ UNCHANGED <<poolVars, table, result, answer, seen, cut, emptied, lost>>

Holding == [prepare |-> "preparing", run |-> "running"]

\* PrepareContext, QueryContext, ExecContext and Exec take a connection.
Connect(a) ==
  /\ step[a] \in DOMAIN Holding
  /\ Borrow(a)
  /\ Move(a, Holding[step[a]])
  /\ UNCHANGED <<table, req, result, answer, seen, cut, emptied, lost>>

\* 500, or 504 when the client has gone.
Fails(c) ==
  /\ Move(c, "idle")
  /\ Answer(c, "error", <<>>)
  /\ UNCHANGED <<table, req, result, seen, cut, emptied, lost>>

\* A client is at its statement, as SELECT or as TRUNCATE.
Running(c) == c \in Clients /\ step[c] = "running"

\* mutant of Prepared: the statement keeps its connection until it is closed
PreparedKeeps(c) ==
  /\ c \in Clients
  /\ step[c] = "preparing"
  /\ Move(c, "run")
  /\ UNCHANGED <<poolVars, table, req, result, answer, seen, cut, emptied, lost>>

\* The server has parsed the statement; the connection goes back.
Prepared(c) ==
  /\ step[c] = "preparing"
  /\ Selected(conn[c])
  /\ req[c] # Delete => Parses(BuildSearchQuery(req[c]))
  /\ GiveBack(c)
  /\ Move(c, "run")
  /\ UNCHANGED <<table, req, result, answer, seen, cut, emptied, lost>>

\* No database selected, or a syntax error.
Refused(c) ==
  /\ \/ step[c] \in {"preparing", "running"} /\ ~Selected(conn[c])
     \/ step[c] = "preparing" /\ req[c] # Delete /\ ~Parses(BuildSearchQuery(req[c]))
  /\ GiveBack(c)
  /\ Fails(c)

\* The SELECT reads the table as it stands; its rows are still to be sent.
Queried(c) ==
  /\ Running(c) /\ req[c] # Delete /\ Selected(conn[c])
  /\ result' = [result EXCEPT ![c] = Execute(BuildSearchQuery(req[c]), table)]
  /\ seen' = [seen EXCEPT ![c] = Len(table)]
  /\ Move(c, "reading")
  /\ UNCHANGED <<poolVars, table, req, answer, cut, emptied, lost>>

\* rows.Next has reached the end.  Scan and PublicKeyFromBase58 fail on no row:
\* SetTrade is the only writer of the table, fills every column and writes the
\* keys as PublicKey.String gives them.
RowsRead(c) ==
  /\ step[c] = "reading"
  /\ Answer(c, "ok", result[c])
  /\ result' = [result EXCEPT ![c] = <<>>]
  /\ GiveBack(c)
  /\ Move(c, "idle")
  /\ UNCHANGED <<table, req, seen, cut, emptied, lost>>

\* The connection is lost while rows arrive: rows.Next returns false, rows.Err
\* is not asked, and what has arrived is the answer.
RowsCut(c) ==
  /\ step[c] = "reading"
  /\ \E n \in 0..Len(result[c]) : Answer(c, "ok", SubSeq(result[c], 1, n))
  /\ result' = [result EXCEPT ![c] = <<>>]
  /\ cut' = cut \cup {c}
  /\ Lose(c)
  /\ Move(c, "idle")
  /\ UNCHANGED <<table, req, seen, emptied, lost>>

\* TRUNCATE: searches that have run keep the rows already sent to them.
DeleteAll(c) ==
  /\ Running(c) /\ req[c] = Delete /\ Selected(conn[c])
  /\ table' = <<>>
  /\ emptied' = {d \in Clients : step[d] = "reading" \/ answer[d].code = "ok"}
  /\ Answer(c, "deleted", <<>>)
  /\ GiveBack(c)
  /\ Move(c, "idle")
  /\ UNCHANGED <<req, result, seen, cut, lost>>

\* The INSERT: its error is logged, SetTrade returns nil.
Inserted ==
  /\ step[Writer] = "running"
  /\ GiveBack(Writer)
  /\ Move(Writer, "idle")
  /\ IF Selected(conn[Writer]) /\ Fits(req[Writer])
     THEN table' = Append(table, req[Writer]) /\ UNCHANGED lost
     ELSE lost' = (lost \/ Fits(req[Writer])) /\ UNCHANGED table
  /\ UNCHANGED <<req, result, answer, seen, cut, emptied>>

NoneToBorrow(a) == step[a] \in {"prepare", "run"} /\ idle = <<>>

\* The connection of a statement cannot be opened, or is lost while it runs.
StatementLost(c) ==
  /\ c \in Clients
  /\ conn[c] # "none" \/ NoneToBorrow(c)
  /\ step[c] # "reading"
  /\ Lose(c)
  /\ Fails(c)

\* So may be the writer's, with or without its row.
InsertLost ==
  /\ conn[Writer] # "none" \/ NoneToBorrow(Writer)
  /\ Lose(Writer)
  /\ Move(Writer, "idle")
  /\ \/ lost' = (lost \/ Fits(req[Writer])) /\ UNCHANGED table
     \/ /\ step[Writer] = "running" /\ Selected(conn[Writer]) /\ Fits(req[Writer])
        /\ table' = Append(table, req[Writer])
        /\ UNCHANGED lost
  /\ UNCHANGED <<req, result, answer, seen, cut, emptied>>

\* The process dies with every request and every trade in flight.
Crash ==
  /\ boot # "down"
  /\ PoolDies
  /\ step' = Quiet.step /\ req' = Quiet.req
  /\ result' = Quiet.result /\ answer' = Quiet.answer /\ seen' = Quiet.seen
  /\ cut' = Quiet.cut /\ emptied' = Quiet.emptied /\ lost' = Quiet.lost
  /\ UNCHANGED table

Next ==
  \/ (Boot \/ Restart \/ IdleEnds) /\ UNCHANGED apiVars
  \/ SetTrade \/ Inserted \/ InsertLost \/ Crash
  \/ \E a \in Callers : Connect(a)
  \/ \E c \in Clients : \/ Request(c) \/ Prepared(c) \/ Refused(c) \/ Queried(c)
                        \/ RowsRead(c) \/ RowsCut(c) \/ DeleteAll(c) \/ StatementLost(c)

Spec == Init /\ [][Next]_vars

-----------------------------------------------------------------------------
(* Properties                                                              *)

Up == boot \in {"listening", "serving", "headless"}

\* The program only takes transactions and requests once the database and both
\* tables exist, whatever failed in this start or an earlier one.
ServesWithSchema == Up => schema = {"database", "amms", "trades"}

\* USE is sent once, on one connection.  As long as no two callers are at MySQL
\* at a time and no connection is lost, that one serves them all: no trade is
\* lost but one with a number that its column cannot hold (a trade refused takes
\* neither the connection nor another trade with it), no request fails but one with
\* an OFFSET and no LIMIT.  A DSN that names the database gives the same under
\* any overlap.
FirstConnectionSuffices ==
  ~broke /\ (overlap => dsn = "named") =>
    /\ ~lost
    /\ \A c \in Clients : answer[c].code = "error" =>
         req[c] # Delete /\ req[c].offset > 0 /\ req[c].limit <= 0

\* No connection has the database selected, and no new one will.
DatabaseLost ==
  /\ Up
  /\ dsn = "plain"
  /\ \A i \in DOMAIN idle : ~idle[i]
  /\ \A a \in Callers : conn[a] # "with"

\* Once the pool has lost the connection USE was sent on, nothing brings the
\* database back: until the program is restarted no row is added or removed,
\* while SetTrade goes on returning nil.
LostDatabaseStaysLost ==
  [][DatabaseLost => table' = table /\ (DatabaseLost' \/ boot' = "down")]_vars

\* The rows a filter stands for: those that satisfy every term, without the
\* first `offset` of them, when it is positive, and at most `limit` of them.
Page(f, rows) ==
  LET I == {i \in DOMAIN rows : Satisfies(f.query, rows[i])}
      rank(i) == Cardinality({j \in I : j <= i})
      skip == IF f.offset > 0 THEN f.offset ELSE 0
      P == {i \in I : rank(i) > skip /\ (f.limit > 0 => rank(i) <= skip + f.limit)}
  IN  [n \in 1..Cardinality(P) |-> rows[CHOOSE i \in P : Cardinality({j \in P : j <= i}) = n]]

\* An answer is the page its filter stands for, as of one moment of the search,
\* and stays in that place while rows are added, so that a client that asks for
\* page after page neither skips nor repeats a row, until the table is emptied.
\* It is short only when its connection was lost halfway.
AnswersArePages ==
  \A c \in Clients : answer[c].code = "ok" /\ c \notin emptied =>
    /\ IsPrefix(answer[c].rows, Page(req[c], table))
    /\ c \notin cut => answer[c].rows = Page(req[c], SubSeq(table, 1, seen[c]))

=============================================================================
