---------------------------- MODULE LookupTables ----------------------------
(***************************************************************************)
(* Account keys loaded from address lookup tables: GenerateTableLookup puts *)
(* the loaded keys of a transaction in an order, getPublicKeyFromTx picks   *)
(* one and GetLookupTable finds its table in redis or at the RPC node.  A    *)
(* table on chain only grows; the cached copy is never refreshed.           *)
(***************************************************************************)
EXTENDS Naturals, FiniteSets, SequencesExt

CONSTANTS
  Workers,   \* goroutines resolving accounts
  Tables,    \* lookup table accounts
  Lookups,   \* address_table_lookups of transactions: sequences of
             \* [table, writable, readonly], the last two sequences of indexes
  NoTable,   \* no entry in redis; no address
  MaxSize    \* bound: addresses in a table

VARIABLES
  size,      \* [Tables -> Nat]: addresses in the table on chain
  frozen,    \* tables without an authority
  cache,     \* redis: [size, authority] or NoTable
  pc,        \* worker: "idle", "get", "fetch", "store", "pick"
  tx,        \* worker: the lookups of the transaction
  pos,       \* worker: lookupIndex, counted from 1
  copy,      \* worker: the table as it has it
  answer     \* worker: the last address it resolved, <<table, index>>, or NoTable

vars == <<size, frozen, cache, pc, tx, pos, copy, answer>>

\* mutant of GenerateTableLookup: read-only keys first
ReadonlyFirst(lookups) ==
  FlattenSeq([i \in DOMAIN lookups |->
    [j \in DOMAIN lookups[i].readonly |-> <<lookups[i].table, lookups[i].readonly[j]>>] \o
    [j \in DOMAIN lookups[i].writable |-> <<lookups[i].table, lookups[i].writable[j]>>]])

\* Table after table, its writable keys and then its read-only ones.
GenerateTableLookup(lookups) ==
  FlattenSeq([i \in DOMAIN lookups |->
    [j \in DOMAIN lookups[i].writable |-> <<lookups[i].table, lookups[i].writable[j]>>] \o
    [j \in DOMAIN lookups[i].readonly |-> <<lookups[i].table, lookups[i].readonly[j]>>]])

\* The order in which the Solana runtime numbers them: the writable keys of
\* all tables come before the read-only keys of any.
LoadedAddresses(lookups) ==
  FlattenSeq([i \in DOMAIN lookups |->
    [j \in DOMAIN lookups[i].writable |-> <<lookups[i].table, lookups[i].writable[j]>>]]) \o
  FlattenSeq([i \in DOMAIN lookups |->
    [j \in DOMAIN lookups[i].readonly |-> <<lookups[i].table, lookups[i].readonly[j]>>]])

\* The runtime refuses a transaction that loads an account twice.
ASSUME LookupAssumption ==
  /\ Lookups \subseteq Seq([table : Tables, writable : Seq(Nat), readonly : Seq(Nat)])
  /\ \A l \in Lookups : IsInjective(LoadedAddresses(l))
  /\ NoTable \notin Tables
  /\ MaxSize \in Nat

Copies == [size : 0..MaxSize, authority : BOOLEAN]

\* The table and the index a worker looks for.
Wanted(w) == GenerateTableLookup(tx[w])[pos[w]]

TypeOK ==
  /\ size \in [Tables -> 0..MaxSize]
  /\ frozen \subseteq Tables
  /\ cache \in [Tables -> Copies \cup {NoTable}]
  /\ pc \in [Workers -> {"idle", "get", "fetch", "store", "pick"}]
  /\ tx \in [Workers -> Lookups \cup {<<>>}]
  /\ \A w \in Workers : pc[w] # "idle" => pos[w] \in DOMAIN GenerateTableLookup(tx[w])
  /\ copy \in [Workers -> Copies \cup {NoTable}]
  /\ \A w \in Workers : pc[w] \in {"store", "pick"} => copy[w] \in Copies
  /\ answer \in [Workers -> (Tables \X (0..MaxSize - 1)) \cup {NoTable}]

Init ==
  /\ size \in [Tables -> 0..MaxSize]
  /\ frozen \in SUBSET Tables
  /\ cache = [t \in Tables |-> NoTable]
  /\ pc = [w \in Workers |-> "idle"]
  /\ tx = [w \in Workers |-> <<>>]
  /\ pos = [w \in Workers |-> 0]
  /\ copy = [w \in Workers |-> NoTable]
  /\ answer = [w \in Workers |-> NoTable]

Go(w, s, c) ==
  /\ pc' = [pc EXCEPT ![w] = s]
  /\ copy' = [copy EXCEPT ![w] = c]

\* getPublicKeyFromTx for an account beyond the static keys.  The runtime has
\* executed the transaction, so the table holds every index it uses.
Resolve(w) ==
  /\ pc[w] = "idle"
  /\ \E l \in Lookups :
       /\ \A k \in DOMAIN LoadedAddresses(l) :
            LoadedAddresses(l)[k][2] < size[LoadedAddresses(l)[k][1]]
       /\ \E k \in DOMAIN GenerateTableLookup(l) : pos' = [pos EXCEPT ![w] = k]
       /\ tx' = [tx EXCEPT ![w] = l]
  /\ Go(w, "get", NoTable)
  /\ answer' = [answer EXCEPT ![w] = NoTable]
  /\ UNCHANGED <<size, frozen, cache>>

\* mutant of Get: a copy too short for the index is fetched again
GetRefreshesShort(w) ==
  /\ pc[w] = "get"
  /\ LET c == cache[Wanted(w)[1]] IN
       IF c # NoTable /\ c.authority /\ Wanted(w)[2] < c.size
       THEN Go(w, "pick", c)
       ELSE Go(w, "fetch", NoTable)
  /\ UNCHANGED <<size, frozen, cache, tx, pos, answer>>

\* storage.GetLookup: an error is returned; an entry is used when it has an
\* authority; anything else goes to the RPC node.
Get(w) ==
  /\ pc[w] = "get"
  /\ \/ Go(w, "idle", NoTable)
     \/ LET c == cache[Wanted(w)[1]] IN
          IF c # NoTable /\ c.authority
          THEN Go(w, "pick", c)
          ELSE Go(w, "fetch", NoTable)
  /\ UNCHANGED <<size, frozen, cache, tx, pos, answer>>

\* rpc.GetLookupTable: the node may lag behind; a missing account gives a
\* zeroed table and no error.
Fetch(w) ==
  /\ pc[w] = "fetch"
  /\ \/ \E n \in 0..size[Wanted(w)[1]] :
          Go(w, "store", [size |-> n, authority |-> Wanted(w)[1] \notin frozen])
     \/ Go(w, "store", [size |-> 0, authority |-> FALSE])
     \/ Go(w, "idle", NoTable)
  /\ UNCHANGED <<size, frozen, cache, tx, pos, answer>>

\* storage.SetLookup, its error dropped.
Store(w) ==
  /\ pc[w] = "store"
  /\ Go(w, "pick", copy[w])
  /\ cache' = [cache EXCEPT ![Wanted(w)[1]] = copy[w]] \/ UNCHANGED cache
  /\ UNCHANGED <<size, frozen, tx, pos, answer>>

\* mutants of Pick: indexes counted from one, unchecked; the position used as the index
PickFromOne(w) ==
  /\ pc[w] = "pick"
  /\ answer' = [answer EXCEPT ![w] = <<Wanted(w)[1], Wanted(w)[2] + 1>>]
  /\ Go(w, "idle", NoTable)
  /\ UNCHANGED <<size, frozen, cache, tx, pos>>
PickPosition(w) ==
  /\ pc[w] = "pick"
  /\ answer' = [answer EXCEPT ![w] = IF pos[w] - 1 < copy[w].size
                                     THEN <<Wanted(w)[1], pos[w] - 1>> ELSE NoTable]
  /\ Go(w, "idle", NoTable)
  /\ UNCHANGED <<size, frozen, cache, tx, pos>>

\* "lookup table index out of range", or the address.
Pick(w) ==
  /\ pc[w] = "pick"
  /\ answer' = [answer EXCEPT ![w] = IF Wanted(w)[2] < copy[w].size
                                     THEN Wanted(w) ELSE NoTable]
  /\ Go(w, "idle", NoTable)
  /\ UNCHANGED <<size, frozen, cache, tx, pos>>

\* On chain: a table with an authority is extended, or loses its authority.
Extend(t) ==
  /\ t \notin frozen
  /\ size[t] < MaxSize
  /\ size' = [size EXCEPT ![t] = @ + 1]
  /\ UNCHANGED <<frozen, cache, pc, tx, pos, copy, answer>>
Freeze(t) ==
  /\ frozen' = frozen \cup {t}
  /\ UNCHANGED <<size, cache, pc, tx, pos, copy, answer>>

Next ==
  \/ \E w \in Workers : Resolve(w) \/ Get(w) \/ Fetch(w) \/ Store(w) \/ Pick(w)
  \/ \E t \in Tables : Extend(t) \/ Freeze(t)

Spec == Init /\ [][Next]_vars

-----------------------------------------------------------------------------
(* Properties                                                              *)

\* No table has a read-only key in front of a writable key of a later table.
Aligned(lookups) ==
  \A i, j \in DOMAIN lookups :
    i < j => lookups[i].readonly = <<>> \/ lookups[j].writable = <<>>

\* The account getPublicKeyFromTx answers with is the one the runtime loaded,
\* however stale the copy of the table is, as long as the tables are aligned.
AnswerIsLoaded ==
  \A w \in Workers :
    answer[w] # NoTable /\ Aligned(tx[w]) => answer[w] = LoadedAddresses(tx[w])[pos[w]]

\* GenerateTableLookup numbers the loaded keys as the runtime does for the
\* aligned transactions and for no other: any interleaving is misread.
OrderIsRuntimeOrderIffAligned ==
  \A w \in Workers :
    GenerateTableLookup(tx[w]) = LoadedAddresses(tx[w]) <=> Aligned(tx[w])

\* A table that was extended after it had been cached, with nobody about to
\* store it, stays at its old length for ever: its new addresses are never found.
Outdated(t) ==
  /\ cache[t] # NoTable
  /\ cache[t].authority
  /\ cache[t].size < size[t]
  /\ \A w \in Workers : pc[w] \in {"fetch", "store"} => Wanted(w)[1] # t
OutdatedStaysOutdated == [][\A t \in Tables : Outdated(t) => Outdated(t)']_vars

\* lookup.go:19, "TODO: Lookup table is not store in redis!!!"
NeverStored == \A t \in Tables : cache[t] = NoTable

=============================================================================
