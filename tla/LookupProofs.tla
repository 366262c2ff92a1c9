---------------------------- MODULE LookupProofs ----------------------------
(***************************************************************************)
(* The copies of lookup tables in redis, which GetLookupTable never repairs, *)
(* when the program numbers the loaded accounts as the runtime does, and the *)
(* account that a resolution then answers with: for any number of workers,   *)
(* transactions that load any number of accounts and tables of any size.     *)
(***************************************************************************)
EXTENDS LookupTables, SequenceLemmas, TLAPS

\* A copy as far as the RPC node's answers can make one.
AnyCopy == [size : Int, authority : BOOLEAN]

\* What a worker is about to store is a copy, and redis holds nothing else.
CopiesInv ==
  /\ size \in [Tables -> Nat]
  /\ cache \in [Tables -> AnyCopy \cup {NoTable}]
  /\ pc \in [Workers -> {"idle", "get", "fetch", "store", "pick"}]
  /\ tx = [w \in Workers |-> tx[w]]
  /\ pos = [w \in Workers |-> pos[w]]
  /\ copy = [w \in Workers |-> copy[w]]
  /\ \A w \in Workers : pc[w] = "store" => copy[w] \in AnyCopy

\* A worker's step to a state that is not "store" passes no copy to redis.
LEMMA GoKeepsCopies ==
  ASSUME CopiesInv, NEW w \in Workers, NEW c,
         NEW s \in {"idle", "get", "fetch", "store", "pick"}, Go(w, s, c),
         s = "store" => c \in AnyCopy,
         UNCHANGED <<size, cache, tx, pos>>
  PROVE  CopiesInv'
BY DEF CopiesInv, Go

\* Copies are made by the node alone and passed on by the workers.
LEMMA CopiesInvariant == Spec => []CopiesInv
<1>1. Init => CopiesInv
  BY LookupAssumption DEF Init, CopiesInv
<1>2. ASSUME CopiesInv, [Next]_vars PROVE CopiesInv'
  <2>1. ASSUME NEW w \in Workers, Resolve(w) PROVE CopiesInv'
    <3>1. PICK l, k : tx' = [tx EXCEPT ![w] = l] /\ pos' = [pos EXCEPT ![w] = k]
      BY <2>1 DEF Resolve
    <3> QED
      BY <1>2, <2>1, <3>1 DEF Resolve, CopiesInv, Go
  <2>2. ASSUME NEW w \in Workers, Get(w) \/ Pick(w) PROVE CopiesInv'
    BY <1>2, <2>2, GoKeepsCopies DEF Get, Pick
  <2>3. ASSUME NEW w \in Workers, Fetch(w) PROVE CopiesInv'
    <3> DEFINE t == Wanted(w)[1]
    <3>1. \A n \in 0..size[t] : [size |-> n, authority |-> t \notin frozen] \in AnyCopy
      BY DEF AnyCopy
    <3>2. [size |-> 0, authority |-> FALSE] \in AnyCopy
      BY DEF AnyCopy
    <3> QED
      BY <1>2, <2>3, <3>1, <3>2, GoKeepsCopies DEF Fetch
  <2>4. ASSUME NEW w \in Workers, Store(w) PROVE CopiesInv'
    BY <1>2, <2>4 DEF Store, Go, CopiesInv
  <2>5. ASSUME NEW t \in Tables, Extend(t) \/ Freeze(t) PROVE CopiesInv'
    BY <1>2, <2>5 DEF Extend, Freeze, CopiesInv
  <2>6. CASE UNCHANGED vars
    BY <1>2, <2>6 DEF vars, CopiesInv
  <2> QED
    BY <1>2, <2>1, <2>2, <2>3, <2>4, <2>5, <2>6 DEF Next
<1> QED
  BY <1>1, <1>2, PTL DEF Spec

\* No worker is between the fetch and the store of a table.
NobodyStores(t) == \A w \in Workers : pc[w] \in {"fetch", "store"} => Wanted(w)[1] # t

\* A worker whose lookup is under way goes on with the same table.
LEMMA SameTable ==
  ASSUME NEW w, UNCHANGED <<tx, pos>>
  PROVE  Wanted(w)' = Wanted(w)
BY DEF Wanted

\* A step of a worker that stays away from the fetch of t.
LEMMA GoStaysAway ==
  ASSUME CopiesInv, NEW t \in Tables, Outdated(t), NEW w \in Workers, NEW c,
         NEW s \in {"idle", "get", "fetch", "store", "pick"}, Go(w, s, c),
         s \in {"fetch", "store"} => Wanted(w)[1] # t,
         UNCHANGED <<size, cache, tx, pos>>
  PROVE  Outdated(t)'
<1>1. \A v \in Workers : Wanted(v)' = Wanted(v)
  BY SameTable
<1>2. \A v \in Workers : v # w => pc'[v] = pc[v]
  BY DEF Go, CopiesInv
<1>3. pc'[w] = s
  BY DEF Go, CopiesInv
<1> QED
  BY <1>1, <1>2, <1>3 DEF Outdated

\* A cached table that was extended on chain is never fetched again: its new
\* addresses stay out of range for every transaction to come.
THEOREM OutdatedForEver == Spec => OutdatedStaysOutdated
<1>1. ASSUME CopiesInv, [Next]_vars, NEW t \in Tables, Outdated(t)
      PROVE  Outdated(t)'
  <2>1. ASSUME NEW w \in Workers, Resolve(w) PROVE Outdated(t)'
    <3>1. pc' = [pc EXCEPT ![w] = "get"] /\ UNCHANGED <<size, cache>>
      BY <2>1 DEF Resolve, Go
    <3>2. PICK l, k : tx' = [tx EXCEPT ![w] = l] /\ pos' = [pos EXCEPT ![w] = k]
      BY <2>1 DEF Resolve
    <3>3. \A v \in Workers : v # w => pc'[v] = pc[v] /\ Wanted(v)' = Wanted(v)
      BY <1>1, <3>1, <3>2 DEF CopiesInv, Wanted
    <3>4. pc'[w] = "get"
      BY <1>1, <3>1 DEF CopiesInv
    <3> QED
      BY <1>1, <3>1, <3>3, <3>4 DEF Outdated
  <2>2. ASSUME NEW w \in Workers, Get(w) PROVE Outdated(t)'
    \* a worker that asks for t finds a copy with an authority
    <3>1. CASE Go(w, "idle", NoTable)
      BY <1>1, <2>2, <3>1, GoStaysAway DEF Get
    <3>2. CASE Go(w, "pick", cache[Wanted(w)[1]])
      BY <1>1, <2>2, <3>2, GoStaysAway DEF Get
    <3>3. CASE Go(w, "fetch", NoTable) /\ ~(cache[Wanted(w)[1]] # NoTable /\ cache[Wanted(w)[1]].authority)
      <4>1. Wanted(w)[1] # t
        BY <1>1, <3>3 DEF Outdated
      <4> QED
        BY <1>1, <2>2, <3>3, <4>1, GoStaysAway DEF Get
    <3> QED
      BY <2>2, <3>1, <3>2, <3>3 DEF Get
  <2>3. ASSUME NEW w \in Workers, Fetch(w) PROVE Outdated(t)'
    <3>1. Wanted(w)[1] # t /\ UNCHANGED <<size, cache, tx, pos>>
      BY <1>1, <2>3 DEF Fetch, Outdated
    <3>2. \E c : Go(w, "store", c) \/ Go(w, "idle", c)
      BY <2>3 DEF Fetch
    <3> QED
      BY <1>1, <3>1, <3>2, GoStaysAway
  <2>4. ASSUME NEW w \in Workers, Store(w) PROVE Outdated(t)'
    <3>1. Wanted(w)[1] # t
      BY <1>1, <2>4 DEF Store, Outdated
    <3>2. cache'[t] = cache[t] /\ UNCHANGED <<size, tx, pos>>
      BY <1>1, <2>4, <3>1 DEF Store, CopiesInv
    <3>3. \A v \in Workers : /\ Wanted(v)' = Wanted(v)
                             /\ pc'[v] = IF v = w THEN "pick" ELSE pc[v]
      BY <1>1, <2>4, <3>2, SameTable DEF Store, Go, CopiesInv
    <3> QED
      BY <1>1, <3>2, <3>3 DEF Outdated
  <2>5. ASSUME NEW w \in Workers, Pick(w) PROVE Outdated(t)'
    BY <1>1, <2>5, GoStaysAway DEF Pick
  <2>6. ASSUME NEW u \in Tables, Extend(u) PROVE Outdated(t)'
    <3>1. size'[t] >= size[t] /\ UNCHANGED <<cache, pc, tx, pos>>
      BY <1>1, <2>6 DEF Extend, CopiesInv
    <3>2. size'[t] \in Nat /\ size[t] \in Nat /\ cache[t].size \in Int
      BY <1>1, <2>6 DEF Extend, CopiesInv, Outdated, AnyCopy
    <3> QED
      BY <1>1, <3>1, <3>2, SameTable DEF Outdated
  <2>7. ASSUME UNCHANGED <<size, cache, pc, tx, pos>> PROVE Outdated(t)'
    BY <1>1, <2>7, SameTable DEF Outdated
  <2> QED
    BY <1>1, <2>1, <2>2, <2>3, <2>4, <2>5, <2>6, <2>7 DEF Next, Freeze, vars
<1>2. CopiesInv /\ [Next]_vars => [\A t \in Tables : Outdated(t) => Outdated(t)']_vars
  BY <1>1
<1> QED
  BY <1>2, CopiesInvariant, PTL DEF Spec, OutdatedStaysOutdated

-----------------------------------------------------------------------------
(* The order of the loaded keys                                            *)

AnyLookups == Seq([table : Tables, writable : Seq(Nat), readonly : Seq(Nat)])
Address == Tables \X Nat

\* The writable and the read-only keys of a transaction, table by table.
Writable(l) ==
  [i \in DOMAIN l |-> [j \in DOMAIN l[i].writable |-> <<l[i].table, l[i].writable[j]>>]]
Readonly(l) ==
  [i \in DOMAIN l |-> [j \in DOMAIN l[i].readonly |-> <<l[i].table, l[i].readonly[j]>>]]
Both(l) == [i \in DOMAIN l |-> Writable(l)[i] \o Readonly(l)[i]]

\* A function on 1..n is a sequence of n elements.
LEMMA FunctionIsSeq ==
  ASSUME NEW n \in Nat, NEW S, NEW f \in [1..n -> S]
  PROVE  f \in Seq(S) /\ Len(f) = n
BY SeqDef, LenProperties

\* Each table contributes as many keys as it has indexes.
LEMMA Parts ==
  ASSUME NEW l \in AnyLookups
  PROVE  /\ Len(l) \in Nat /\ DOMAIN l = 1..Len(l)
         /\ Writable(l) \in Seq(Seq(Address)) /\ Len(Writable(l)) = Len(l)
         /\ Readonly(l) \in Seq(Seq(Address)) /\ Len(Readonly(l)) = Len(l)
         /\ Both(l) \in Seq(Seq(Address)) /\ Len(Both(l)) = Len(l)
         /\ \A i \in 1..Len(l) :
              /\ Len(Writable(l)[i]) = Len(l[i].writable) /\ Len(l[i].writable) \in Nat
              /\ Len(Readonly(l)[i]) = Len(l[i].readonly) /\ Len(l[i].readonly) \in Nat
              /\ l[i].writable = <<>> <=> Len(l[i].writable) = 0
              /\ l[i].readonly = <<>> <=> Len(l[i].readonly) = 0
              /\ Writable(l)[i] \in Seq(Address) /\ Readonly(l)[i] \in Seq(Address)
              /\ Both(l)[i] = Writable(l)[i] \o Readonly(l)[i]
<1>1. Len(l) \in Nat /\ DOMAIN l = 1..Len(l)
  BY DEF AnyLookups
<1>2. ASSUME NEW i \in 1..Len(l)
      PROVE  /\ Len(Writable(l)[i]) = Len(l[i].writable) /\ Len(l[i].writable) \in Nat
             /\ Len(Readonly(l)[i]) = Len(l[i].readonly) /\ Len(l[i].readonly) \in Nat
             /\ l[i].writable = <<>> <=> Len(l[i].writable) = 0
             /\ l[i].readonly = <<>> <=> Len(l[i].readonly) = 0
             /\ Writable(l)[i] \in Seq(Address) /\ Readonly(l)[i] \in Seq(Address)
             /\ Both(l)[i] = Writable(l)[i] \o Readonly(l)[i]
  <2>1. l[i].table \in Tables /\ l[i].writable \in Seq(Nat) /\ l[i].readonly \in Seq(Nat)
    <3>1. l[i] \in [table : Tables, writable : Seq(Nat), readonly : Seq(Nat)]
      BY <1>1, LenProperties DEF AnyLookups
    <3> QED
      BY <3>1
  <2>2. ASSUME NEW ks \in Seq(Nat), NEW f,
               f = [j \in DOMAIN ks |-> <<l[i].table, ks[j]>>]
        PROVE  f \in Seq(Address) /\ Len(f) = Len(ks) /\ Len(ks) \in Nat /\ (ks = <<>> <=> Len(ks) = 0)
    <3>1. DOMAIN ks = 1..Len(ks) /\ Len(ks) \in Nat /\ \A j \in 1..Len(ks) : ks[j] \in Nat
      OBVIOUS
    <3>2. f \in [1..Len(ks) -> Address]
      BY <2>1, <2>2, <3>1 DEF Address
    <3>3. ks = <<>> <=> Len(ks) = 0
      BY EmptySeq
    <3>4. f \in Seq(Address) /\ Len(f) = Len(ks)
      BY <3>1, <3>2, FunctionIsSeq
    <3> QED
      BY <3>1, <3>3, <3>4
  <2>3. Writable(l)[i] = [j \in DOMAIN l[i].writable |-> <<l[i].table, l[i].writable[j]>>]
    BY <1>1 DEF Writable
  <2>4. Readonly(l)[i] = [j \in DOMAIN l[i].readonly |-> <<l[i].table, l[i].readonly[j]>>]
    BY <1>1 DEF Readonly
  <2>5. Both(l)[i] = Writable(l)[i] \o Readonly(l)[i]
    BY <1>1 DEF Both
  <2>6. Writable(l)[i] \in Seq(Address) /\ Len(Writable(l)[i]) = Len(l[i].writable)
        /\ Len(l[i].writable) \in Nat /\ (l[i].writable = <<>> <=> Len(l[i].writable) = 0)
    BY <2>1, <2>2, <2>3
  <2>7. Readonly(l)[i] \in Seq(Address) /\ Len(Readonly(l)[i]) = Len(l[i].readonly)
        /\ Len(l[i].readonly) \in Nat /\ (l[i].readonly = <<>> <=> Len(l[i].readonly) = 0)
    BY <2>1, <2>2, <2>4
  <2> QED
    BY <2>5, <2>6, <2>7
<1>3. \A i \in 1..Len(l) : Both(l)[i] \in Seq(Address)
  BY <1>2, ConcatAt
<1>4. /\ Writable(l) = [i \in 1..Len(l) |-> Writable(l)[i]]
      /\ Readonly(l) = [i \in 1..Len(l) |-> Readonly(l)[i]]
      /\ Both(l) = [i \in 1..Len(l) |-> Both(l)[i]]
  BY <1>1 DEF Writable, Readonly, Both
<1>5. /\ Writable(l) \in [1..Len(l) -> Seq(Address)]
      /\ Readonly(l) \in [1..Len(l) -> Seq(Address)]
      /\ Both(l) \in [1..Len(l) -> Seq(Address)]
  BY <1>2, <1>3, <1>4
<1>6. ASSUME NEW f \in [1..Len(l) -> Seq(Address)] PROVE f \in Seq(Seq(Address)) /\ Len(f) = Len(l)
  BY <1>1, FunctionIsSeq
<1> QED
  BY <1>1, <1>2, <1>5, <1>6

\* The two orders in terms of the parts.
LEMMA Orders ==
  ASSUME NEW l
  PROVE  /\ GenerateTableLookup(l) = FlattenSeq(Both(l))
         /\ LoadedAddresses(l) = FlattenSeq(Writable(l)) \o FlattenSeq(Readonly(l))
<1>1. Both(l) = [i \in DOMAIN l |->
        [j \in DOMAIN l[i].writable |-> <<l[i].table, l[i].writable[j]>>] \o
        [j \in DOMAIN l[i].readonly |-> <<l[i].table, l[i].readonly[j]>>]]
  BY DEF Both, Writable, Readonly
<1> QED
  BY <1>1 DEF GenerateTableLookup, LoadedAddresses, Writable, Readonly

\* With no read-only key in front of a later writable one, joining the tables
\* one by one gives the writable keys of all and then the read-only keys of all.
LEMMA AlignedOrder ==
  ASSUME NEW l \in AnyLookups, Aligned(l)
  PROVE  GenerateTableLookup(l) = LoadedAddresses(l)
<1> DEFINE n == Len(l)
           W == Writable(l)
           R == Readonly(l)
           B == Both(l)
<1>1. n \in Nat /\ \A i \in 1..n : W[i] \in Seq(Address) /\ R[i] \in Seq(Address)
                                   /\ B[i] = W[i] \o R[i]
  BY Parts
<1>2. /\ W \in Seq(Seq(Address)) /\ Len(W) = n
      /\ R \in Seq(Seq(Address)) /\ Len(R) = n
      /\ B \in Seq(Seq(Address)) /\ Len(B) = n
  BY Parts
<1>3. ASSUME NEW i \in 1..n, NEW j \in 1..n, i < j PROVE R[i] = <<>> \/ W[j] = <<>>
  <2>1. l[i].readonly = <<>> \/ l[j].writable = <<>>
    BY <1>3, Parts DEF Aligned
  <2>2. Len(R[i]) = 0 \/ Len(W[j]) = 0
    BY <2>1, Parts
  <2> QED
    BY <1>1, <2>2, EmptySeq
<1> HIDE DEF n, W, R, B
<1>4. PICK w \in [0..n -> Seq(Address)] :
        /\ w[0] = <<>>
        /\ \A i \in 1..n : w[i] = w[i-1] \o W[i]
        /\ FlattenSeq(W) = w[n]
  <2>1. \E run \in [0..Len(W) -> Seq(Address)] :
          /\ run[0] = <<>>
          /\ \A i \in 1..Len(W) : run[i] = run[i-1] \o W[i]
          /\ FlattenSeq(W) = run[Len(W)]
    BY <1>2, FlattenRun, Zenon
  <2> QED
    BY <1>2, <2>1, Zenon
<1>5. PICK r \in [0..n -> Seq(Address)] :
        /\ r[0] = <<>>
        /\ \A i \in 1..n : r[i] = r[i-1] \o R[i]
        /\ FlattenSeq(R) = r[n]
  <2>1. \E run \in [0..Len(R) -> Seq(Address)] :
          /\ run[0] = <<>>
          /\ \A i \in 1..Len(R) : run[i] = run[i-1] \o R[i]
          /\ FlattenSeq(R) = run[Len(R)]
    BY <1>2, FlattenRun, Zenon
  <2> QED
    BY <1>2, <2>1, Zenon
<1>6. PICK b \in [0..n -> Seq(Address)] :
        /\ b[0] = <<>>
        /\ \A i \in 1..n : b[i] = b[i-1] \o B[i]
        /\ FlattenSeq(B) = b[n]
  <2>1. \E run \in [0..Len(B) -> Seq(Address)] :
          /\ run[0] = <<>>
          /\ \A i \in 1..Len(B) : run[i] = run[i-1] \o B[i]
          /\ FlattenSeq(B) = run[Len(B)]
    BY <1>2, FlattenRun, Zenon
  <2> QED
    BY <1>2, <2>1, Zenon
\* in front of a table with writable keys there are no read-only keys
<1>7. ASSUME NEW h \in 1..n, W[h] # <<>> PROVE r[h-1] = <<>>
  <2> DEFINE S == {k \in 0..h-1 : r[k] = <<>>}
  <2>1. 0 \in S
    BY <1>1, <1>5
  <2>2. ASSUME NEW k \in 0..(h-1)-1, k \in S PROVE k + 1 \in S
    <3>1. PICK j \in 1..n : j = k + 1 /\ j - 1 = k /\ j < h /\ j \in 0..h-1
      BY <1>1
    <3>2. r[j] = r[j-1] \o R[j] /\ R[j] = <<>>
      BY <1>5, <1>3, <1>7, <3>1
    <3>3. r[j-1] = <<>>
      BY <2>2, <3>1
    <3>4. r[j] = <<>>
      BY <3>2, <3>3, ConcatEmptySeq
    <3> QED
      BY <3>1, <3>4
  <2> HIDE DEF S
  <2>3. h - 1 \in Nat
    BY <1>1
  <2>4. 0..h-1 \subseteq S
    BY <2>1, <2>2, <2>3, UpTo
  <2>5. h - 1 \in S
    BY <2>3, <2>4
  <2> QED
    BY <2>5 DEF S
<1> DEFINE S == {m \in 0..n : b[m] = w[m] \o r[m]}
<1>8. 0 \in S
  <2>1. 0 \in 0..n /\ b[0] = <<>> /\ w[0] \o r[0] = <<>>
    BY <1>1, <1>4, <1>5, <1>6, EmptySeq, ConcatEmptySeq
  <2> QED
    BY <2>1
<1>9. ASSUME NEW m \in 0..n-1, m \in S PROVE m + 1 \in S
  <2>1. PICK h \in 1..n : h = m + 1 /\ h - 1 = m /\ h \in 0..n /\ m \in 0..n
    BY <1>1
  <2>2. PICK wm \in Seq(Address), rm \in Seq(Address), Wh \in Seq(Address), Rh \in Seq(Address) :
          wm = w[m] /\ rm = r[m] /\ Wh = W[h] /\ Rh = R[h]
    BY <1>1, <1>4, <1>5, <2>1
  <2>3. b[h] = (wm \o rm) \o (Wh \o Rh) /\ w[h] = wm \o Wh /\ r[h] = rm \o Rh
    BY <1>1, <1>4, <1>5, <1>6, <1>9, <2>1, <2>2
  <2>4. (wm \o rm) \o (Wh \o Rh) = (wm \o Wh) \o (rm \o Rh)
    <3>1. CASE Wh = <<>>
      BY <3>1, ConcatEmptySeq, ConcatAssociative
    <3>2. CASE rm = <<>>
      <4>1. (wm \o rm) \o (Wh \o Rh) = wm \o (Wh \o Rh)
        BY <3>2, ConcatEmptySeq
      <4>2. rm \o Rh = Rh
        BY <3>2, ConcatEmptySeq
      <4>3. (wm \o Wh) \o Rh = wm \o (Wh \o Rh)
        BY ConcatAssociative
      <4> QED
        BY <4>1, <4>2, <4>3
    <3> QED
      BY <1>7, <2>1, <2>2, <3>1, <3>2
  <2> QED
    BY <2>1, <2>3, <2>4
<1> HIDE DEF S
<1>10. 0..n \subseteq S
  BY <1>1, <1>8, <1>9, UpTo
<1>11. n \in S
  BY <1>1, <1>10
<1>12. b[n] = w[n] \o r[n]
  BY <1>11 DEF S
<1> QED
  BY <1>4, <1>5, <1>6, <1>12, Orders DEF W, R, B

\* A read-only key in front of a writable key of a later table comes first in
\* GenerateTableLookup and last in the runtime's order.
LEMMA MisalignedOrder ==
  ASSUME NEW l \in AnyLookups, IsInjective(LoadedAddresses(l)),
         GenerateTableLookup(l) = LoadedAddresses(l)
  PROVE  Aligned(l)
<1> SUFFICES ASSUME NEW i \in DOMAIN l, NEW j \in DOMAIN l, i < j,
                    l[i].readonly # <<>>, l[j].writable # <<>>
             PROVE  FALSE
  BY DEF Aligned
<1> DEFINE n == Len(l)
           W == Writable(l)
           R == Readonly(l)
           B == Both(l)
           G == FlattenSeq(B)
           L == FlattenSeq(W) \o FlattenSeq(R)
<1>1. G = L /\ IsInjective(L)
  BY Orders
<1>2. /\ W \in Seq(Seq(Address)) /\ Len(W) = n
      /\ R \in Seq(Seq(Address)) /\ Len(R) = n
      /\ B \in Seq(Seq(Address)) /\ Len(B) = n
  BY Parts
<1>3. n \in Nat /\ i \in 1..n /\ j \in 1..n
  BY Parts
<1>4. /\ W[i] \in Seq(Address) /\ R[i] \in Seq(Address) /\ B[i] = W[i] \o R[i]
      /\ W[j] \in Seq(Address) /\ R[j] \in Seq(Address) /\ B[j] = W[j] \o R[j]
      /\ Len(W[i]) \in Nat /\ Len(R[i]) \in Nat \ {0} /\ Len(W[j]) \in Nat \ {0}
  BY <1>3, Parts
<1> HIDE DEF n, W, R, B
<1>5. Len(W[i]) + 1 \in 1..Len(B[i]) /\ B[i][Len(W[i]) + 1] = R[i][1]
      /\ Len(B[i]) = Len(W[i]) + Len(R[i])
  <2>1. 1 \in 1..Len(R[i])
    BY <1>4
  <2>2. PICK u : u = B[i]
    OBVIOUS
  <2>3. PICK s \in Seq(Address), t \in Seq(Address) : s = W[i] /\ t = R[i] /\ u = B[i]
    BY <1>4, <2>2
  <2>4. 1 \in 1..Len(t) /\ u = s \o t
    BY <1>4, <2>1, <2>3
  <2>5. Len(s) + 1 \in 1..Len(u) /\ u[Len(s) + 1] = t[1] /\ Len(u) = Len(s) + Len(t)
    BY <2>4, ConcatAt
  <2> QED
    BY <2>3, <2>5
<1>6. 1 \in 1..Len(B[j]) /\ B[j][1] = W[j][1]
  <2>u. PICK u : u = B[j]
    OBVIOUS
  <2>1. PICK s \in Seq(Address), t \in Seq(Address) : s = W[j] /\ t = R[j] /\ u = B[j]
    BY <1>4, <2>u
  <2>2. 1 \in 1..Len(s) /\ u = s \o t
    BY <1>4, <2>1
  <2>3. u[1] = s[1] /\ Len(u) \in Nat /\ Len(s) <= Len(u)
    BY <2>2, ConcatAt
  <2>4. 1 \in 1..Len(u)
    <3>1. \A a, b \in Nat : 1 \in 1..a /\ a <= b => 1 \in 1..b
      OBVIOUS
    <3> QED
      BY <2>2, <2>3, <3>1
  <2> QED
    BY <2>1, <2>3, <2>4
\* in GenerateTableLookup the read-only key of i precedes the writable one of j
<1>7. \E p, q \in 1..Len(G) : p < q /\ G[p] = R[i][1] /\ G[q] = W[j][1]
  <2>1. PICK start : StartsOf(B, start)
    BY <1>2, FlattenAt
  <2> DEFINE p == start[i-1] + (Len(W[i]) + 1)
             q == start[j-1] + 1
  <2>2. p \in 1..Len(G) /\ G[p] = R[i][1] /\ q \in 1..Len(G) /\ G[q] = W[j][1]
    BY <1>2, <1>3, <1>5, <1>6, <2>1 DEF StartsOf
  <2>3. start[i] <= start[j-1] /\ start[i] = start[i-1] + Len(B[i])
        /\ start[i-1] \in Nat /\ start[j-1] \in Nat /\ start[i] \in Nat
    <3>1. i - 1 \in 0..n /\ i \in 0..n /\ j - 1 \in 0..n /\ i <= j - 1
      BY <1>3
    <3> QED
      BY <1>2, <1>3, <2>1, <3>1 DEF StartsOf
  <2>4. p < q
    <3>1. \A a, b, c, d, e \in Nat : a <= b /\ a = c + (d + e) /\ e # 0 => c + (d + 1) < b + 1
      OBVIOUS
    <3>2. start[i] = start[i-1] + (Len(W[i]) + Len(R[i]))
      BY <1>5, <2>3
    <3>3. Len(R[i]) \in Nat /\ Len(R[i]) # 0
      BY <1>4
    <3> QED
      BY <1>4, <2>3, <3>1, <3>2, <3>3, Zenon
  <2> QED
    BY <2>2, <2>4
\* in the runtime's order it comes after
<1>8. \E p, q \in 1..Len(L) : p > q /\ L[p] = R[i][1] /\ L[q] = W[j][1]
  <2>1. PICK u \in Seq(Address), v \in Seq(Address) : u = FlattenSeq(W) /\ v = FlattenSeq(R)
    BY <1>2, FlattenAt
  <2>2. \E q \in 1..Len(u) : u[q] = W[j][1]
    <3>1. PICK start : StartsOf(W, start)
      BY <1>2, FlattenAt
    <3>2. 1 \in 1..Len(W[j])
      BY <1>4
    <3> QED
      BY <1>2, <1>3, <2>1, <3>1, <3>2 DEF StartsOf
  <2>3. \E r \in 1..Len(v) : v[r] = R[i][1]
    <3>1. PICK start : StartsOf(R, start)
      BY <1>2, FlattenAt
    <3>2. 1 \in 1..Len(R[i])
      BY <1>4
    <3> QED
      BY <1>2, <1>3, <2>1, <3>1, <3>2 DEF StartsOf
  <2>4. PICK q \in 1..Len(u), r \in 1..Len(v) : u[q] = W[j][1] /\ v[r] = R[i][1]
    BY <2>2, <2>3
  <2>5. L = u \o v
    BY <2>1
  <2> HIDE DEF L
  <2>6. /\ Len(u) \in Nat /\ Len(v) \in Nat /\ Len(L) = Len(u) + Len(v) /\ L[q] = u[q]
        /\ Len(u) + r \in 1..Len(L) /\ L[Len(u) + r] = v[r]
    BY <2>5, ConcatAt
  <2>7. q \in 1..Len(L) /\ Len(u) + r > q
    BY <2>6
  <2> QED
    BY <2>4, <2>6, <2>7
<1>9. DOMAIN L = 1..Len(L)
  <2>1. FlattenSeq(B) \in Seq(Address)
    BY <1>2, FlattenAt
  <2> QED
    BY <1>1, <2>1
<1> HIDE DEF G, L
<1> QED
  BY <1>1, <1>7, <1>8, <1>9 DEF IsInjective

-----------------------------------------------------------------------------
(* What a worker answers                                                   *)

\* Every loaded key is an index into a table; the transactions of the runs and
\* the empty one a worker starts with.
LEMMA KeysTyped ==
  ASSUME NEW l \in Lookups \cup {<<>>}
  PROVE  /\ l \in AnyLookups
         /\ GenerateTableLookup(l) \in Seq(Address)
         /\ \A k \in DOMAIN GenerateTableLookup(l) : GenerateTableLookup(l)[k] \in Address
<1>1. l \in AnyLookups
  BY LookupAssumption, EmptySeq DEF AnyLookups
<1>2. GenerateTableLookup(l) \in Seq(Address)
  BY <1>1, Parts, Orders, FlattenAt
<1> QED
  BY <1>1, <1>2, LenProperties

\* A worker answers with the key it wants or not at all.
AnswerInv ==
  /\ TypeOK
  /\ pos = [w \in Workers |-> pos[w]]
  /\ \A w \in Workers : answer[w] # NoTable => answer[w] = Wanted(w)

\* A worker under way wants an index of a table.
LEMMA WantedTyped ==
  ASSUME AnswerInv, NEW w \in Workers, pc[w] # "idle"
  PROVE  Wanted(w) \in Address /\ Wanted(w)[1] \in Tables /\ Wanted(w)[2] \in Nat
         /\ Wanted(w) = <<Wanted(w)[1], Wanted(w)[2]>>
<1>1. tx[w] \in Lookups \cup {<<>>} /\ pos[w] \in DOMAIN GenerateTableLookup(tx[w])
  BY DEF AnswerInv, TypeOK
<1>2. Wanted(w) \in Address
  BY <1>1, KeysTyped DEF Wanted
<1> QED
  BY <1>2 DEF Address

\* A step of a worker under way that leaves the answers alone.
LEMMA GoKeepsAnswers ==
  ASSUME AnswerInv, NEW w \in Workers, pc[w] # "idle", NEW c \in Copies \cup {NoTable},
         NEW s \in {"idle", "get", "fetch", "store", "pick"}, Go(w, s, c),
         s \in {"store", "pick"} => c \in Copies,
         cache' \in [Tables -> Copies \cup {NoTable}],
         UNCHANGED <<size, frozen, tx, pos, answer>>
  PROVE  AnswerInv'
<1>1. \A v \in Workers : Wanted(v)' = Wanted(v)
  BY SameTable
<1>2. \A v \in Workers : pc'[v] = IF v = w THEN s ELSE pc[v]
  BY DEF Go, AnswerInv, TypeOK
<1>3. \A v \in Workers : copy'[v] = IF v = w THEN c ELSE copy[v]
  BY DEF Go, AnswerInv, TypeOK
<1>4. pc' \in [Workers -> {"idle", "get", "fetch", "store", "pick"}]
      /\ copy' \in [Workers -> Copies \cup {NoTable}]
  BY DEF Go, AnswerInv, TypeOK
<1>5. \A v \in Workers : pc'[v] # "idle" => pos'[v] \in DOMAIN GenerateTableLookup(tx'[v])
  BY <1>2 DEF AnswerInv, TypeOK
<1>6. \A v \in Workers : pc'[v] \in {"store", "pick"} => copy'[v] \in Copies
  BY <1>2, <1>3 DEF AnswerInv, TypeOK
<1> QED
  BY <1>1, <1>4, <1>5, <1>6 DEF AnswerInv, TypeOK, Copies

\* Every step passes on what the worker wants.
LEMMA AnswerInvariant == Spec => []AnswerInv
<1>1. Init => AnswerInv
  BY LookupAssumption DEF Init, AnswerInv, TypeOK
<1>2. ASSUME AnswerInv, [Next]_vars PROVE AnswerInv'
  <2>1. ASSUME NEW w \in Workers, Resolve(w) PROVE AnswerInv'
    <3>1. PICK l, k :
            /\ l \in Lookups /\ k \in DOMAIN GenerateTableLookup(l)
            /\ tx' = [tx EXCEPT ![w] = l]
            /\ pos' = [pos EXCEPT ![w] = k]
      BY <2>1 DEF Resolve
    <3>2. /\ pc' = [pc EXCEPT ![w] = "get"] /\ copy' = [copy EXCEPT ![w] = NoTable]
          /\ answer' = [answer EXCEPT ![w] = NoTable] /\ UNCHANGED <<size, frozen, cache>>
      BY <2>1 DEF Resolve, Go
    <3>3. /\ pc' \in [Workers -> {"idle", "get", "fetch", "store", "pick"}]
          /\ tx' \in [Workers -> Lookups \cup {<<>>}]
          /\ copy' \in [Workers -> Copies \cup {NoTable}]
          /\ answer' \in [Workers -> (Tables \X (0..MaxSize - 1)) \cup {NoTable}]
          /\ pos' = [v \in Workers |-> pos'[v]]
      BY <1>2, <3>1, <3>2 DEF AnswerInv, TypeOK
    <3>4. ASSUME NEW v \in Workers
          PROVE  /\ pc'[v] # "idle" => pos'[v] \in DOMAIN GenerateTableLookup(tx'[v])
                 /\ pc'[v] \in {"store", "pick"} => copy'[v] \in Copies
                 /\ answer'[v] # NoTable => answer'[v] = Wanted(v)'
      <4>1. CASE v = w
        <5>1. tx'[v] = l /\ pos'[v] = k /\ pc'[v] = "get" /\ answer'[v] = NoTable
          BY <1>2, <3>1, <3>2, <4>1 DEF AnswerInv, TypeOK
        <5>2. pos'[v] \in DOMAIN GenerateTableLookup(tx'[v])
          BY <3>1, <5>1, Zenon
        <5> QED
          BY <5>1, <5>2, Zenon
      <4>2. CASE v # w
        <5>1. tx'[v] = tx[v] /\ pos'[v] = pos[v] /\ pc'[v] = pc[v]
              /\ answer'[v] = answer[v] /\ copy'[v] = copy[v]
          BY <1>2, <3>1, <3>2, <4>2 DEF AnswerInv, TypeOK
        <5>2. Wanted(v)' = Wanted(v)
          BY <5>1 DEF Wanted
        <5> QED
          BY <1>2, <5>1, <5>2 DEF AnswerInv, TypeOK
      <4> QED
        BY <4>1, <4>2
    <3> QED
      BY <1>2, <3>2, <3>3, <3>4 DEF AnswerInv, TypeOK
  <2>2. ASSUME NEW w \in Workers, Get(w) PROVE AnswerInv'
    <3>1. cache[Wanted(w)[1]] \in Copies \cup {NoTable}
      BY <1>2, <2>2, WantedTyped DEF Get, AnswerInv, TypeOK
    <3>2. UNCHANGED <<size, frozen, cache, tx, pos, answer>> /\ pc[w] # "idle"
          /\ cache' \in [Tables -> Copies \cup {NoTable}]
      BY <1>2, <2>2 DEF Get, AnswerInv, TypeOK
    <3>3. CASE Go(w, "idle", NoTable) \/ Go(w, "fetch", NoTable)
      BY <1>2, <3>2, <3>3, GoKeepsAnswers
    <3>4. CASE cache[Wanted(w)[1]] # NoTable /\ Go(w, "pick", cache[Wanted(w)[1]])
      BY <1>2, <3>1, <3>2, <3>4, GoKeepsAnswers
    <3> QED
      BY <2>2, <3>3, <3>4 DEF Get
  <2>3. ASSUME NEW w \in Workers, Fetch(w) PROVE AnswerInv'
    <3> DEFINE t == Wanted(w)[1]
    <3>1. UNCHANGED <<size, frozen, cache, tx, pos, answer>> /\ pc[w] # "idle"
          /\ cache' \in [Tables -> Copies \cup {NoTable}]
      BY <1>2, <2>3 DEF Fetch, AnswerInv, TypeOK
    <3>2. size[t] \in 0..MaxSize /\ MaxSize \in Nat
      BY <1>2, <3>1, WantedTyped, LookupAssumption DEF AnswerInv, TypeOK
    <3>3. \A n \in 0..size[t] : [size |-> n, authority |-> t \notin frozen] \in Copies
      BY <3>2 DEF Copies
    <3>4. [size |-> 0, authority |-> FALSE] \in Copies
      BY <3>2 DEF Copies
    <3>5. CASE \E c \in Copies : Go(w, "store", c)
      BY <1>2, <3>1, <3>5, GoKeepsAnswers
    <3>6. CASE Go(w, "idle", NoTable)
      BY <1>2, <3>1, <3>6, GoKeepsAnswers
    <3> QED
      BY <2>3, <3>3, <3>4, <3>5, <3>6 DEF Fetch
  <2>4. ASSUME NEW w \in Workers, Store(w) PROVE AnswerInv'
    <3>1. copy[w] \in Copies /\ pc[w] # "idle" /\ UNCHANGED <<size, frozen, tx, pos, answer>>
          /\ Go(w, "pick", copy[w])
      BY <1>2, <2>4 DEF Store, AnswerInv, TypeOK
    <3>2. cache' \in [Tables -> Copies \cup {NoTable}]
      BY <1>2, <2>4, <3>1 DEF Store, AnswerInv, TypeOK
    <3> QED
      BY <1>2, <3>1, <3>2, GoKeepsAnswers
  <2>5. ASSUME NEW w \in Workers, Pick(w) PROVE AnswerInv'
    <3>1. /\ pc[w] = "pick" /\ copy[w] \in Copies /\ UNCHANGED <<size, frozen, cache, tx, pos>>
          /\ pc' = [pc EXCEPT ![w] = "idle"] /\ copy' = [copy EXCEPT ![w] = NoTable]
          /\ answer' = [answer EXCEPT ![w] = IF Wanted(w)[2] < copy[w].size
                                             THEN Wanted(w) ELSE NoTable]
      BY <1>2, <2>5 DEF Pick, Go, AnswerInv, TypeOK
    <3>2. \A v \in Workers : Wanted(v)' = Wanted(v)
      BY <3>1, SameTable
    <3>3. Wanted(w)[2] < copy[w].size => Wanted(w) \in Tables \X (0..MaxSize - 1)
      <4>1. copy[w].size \in 0..MaxSize /\ MaxSize \in Nat
        BY <3>1, LookupAssumption DEF Copies
      <4>2. Wanted(w)[1] \in Tables /\ Wanted(w)[2] \in Nat /\ Wanted(w) = <<Wanted(w)[1], Wanted(w)[2]>>
        BY <1>2, <3>1, WantedTyped
      <4>3. Wanted(w)[2] < copy[w].size => Wanted(w)[2] \in 0..MaxSize - 1
        BY <4>1, <4>2
      <4> QED
        BY <4>2, <4>3
    <3>4. answer' \in [Workers -> (Tables \X (0..MaxSize - 1)) \cup {NoTable}]
      BY <1>2, <3>1, <3>3 DEF AnswerInv, TypeOK
    <3>5. \A v \in Workers : answer'[v] # NoTable => answer'[v] = Wanted(v)'
      BY <1>2, <3>1, <3>2 DEF AnswerInv, TypeOK
    <3>6. \A v \in Workers : pc'[v] = IF v = w THEN "idle" ELSE pc[v]
      BY <1>2, <3>1 DEF AnswerInv, TypeOK
    <3>7. \A v \in Workers : v # w => copy'[v] = copy[v]
      BY <1>2, <3>1 DEF AnswerInv, TypeOK
    <3>8. /\ pc' \in [Workers -> {"idle", "get", "fetch", "store", "pick"}]
          /\ copy' \in [Workers -> Copies \cup {NoTable}]
      BY <1>2, <3>1 DEF AnswerInv, TypeOK
    <3> QED
      BY <1>2, <3>1, <3>4, <3>5, <3>6, <3>7, <3>8 DEF AnswerInv, TypeOK
  <2>6. ASSUME NEW t \in Tables, Extend(t) \/ Freeze(t) PROVE AnswerInv'
    <3>1. UNCHANGED <<cache, pc, tx, pos, copy, answer>>
      BY <2>6 DEF Extend, Freeze
    <3>2. size' \in [Tables -> 0..MaxSize] /\ frozen' \subseteq Tables
      <4>1. MaxSize \in Nat /\ size \in [Tables -> 0..MaxSize] /\ frozen \subseteq Tables
        BY <1>2, LookupAssumption DEF AnswerInv, TypeOK
      <4>2. CASE Extend(t)
        <5>1. size[t] + 1 \in 0..MaxSize
          BY <4>1, <4>2 DEF Extend
        <5> QED
          BY <4>1, <4>2, <5>1 DEF Extend
      <4>3. CASE Freeze(t)
        BY <4>1, <4>3 DEF Freeze
      <4> QED
        BY <2>6, <4>2, <4>3
    <3>3. \A v \in Workers : Wanted(v)' = Wanted(v)
      BY <3>1, SameTable
    <3> QED
      BY <1>2, <3>1, <3>2, <3>3 DEF AnswerInv, TypeOK, Copies
  <2>7. CASE UNCHANGED vars
    <3>1. \A v \in Workers : Wanted(v)' = Wanted(v)
      BY <2>7, SameTable DEF vars
    <3> QED
      BY <1>2, <2>7, <3>1 DEF vars, AnswerInv, TypeOK, Copies
  <2> QED
    BY <1>2, <2>1, <2>2, <2>3, <2>4, <2>5, <2>6, <2>7 DEF Next
<1> QED
  BY <1>1, <1>2, PTL DEF Spec

\* The state of the workers and of redis keeps its type; a worker under way has
\* a key to look for, and an answer is an index the table can have.
THEOREM LookupTypes == Spec => []TypeOK
<1>1. AnswerInv => TypeOK
  BY DEF AnswerInv
<1> QED
  BY <1>1, AnswerInvariant, PTL

\* getPublicKeyFromTx numbers the loaded keys as the runtime did exactly when
\* no table has a read-only key in front of a later table's writable key, for
\* any number of tables and keys.
THEOREM RuntimeOrderIffAligned == Spec => []OrderIsRuntimeOrderIffAligned
<1>1. ASSUME NEW l \in Lookups \cup {<<>>}
      PROVE  GenerateTableLookup(l) = LoadedAddresses(l) <=> Aligned(l)
  <2>1. CASE l \in Lookups
    BY <2>1, KeysTyped, AlignedOrder, MisalignedOrder, LookupAssumption
  <2>2. CASE l = <<>>
    <3>1. Aligned(l)
      BY <2>2 DEF Aligned
    <3> QED
      BY <3>1, KeysTyped, AlignedOrder
  <2> QED
    BY <2>1, <2>2
<1>2. AnswerInv => OrderIsRuntimeOrderIffAligned
  BY <1>1 DEF AnswerInv, TypeOK, OrderIsRuntimeOrderIffAligned
<1> QED
  BY <1>2, AnswerInvariant, PTL

\* However stale the copy of the table, the account getPublicKeyFromTx answers
\* with for an aligned transaction is the one the runtime loaded.
THEOREM AnswersAreLoaded == Spec => []AnswerIsLoaded
<1>1. AnswerInv => AnswerIsLoaded
  <2> SUFFICES ASSUME AnswerInv, NEW w \in Workers, answer[w] # NoTable, Aligned(tx[w])
               PROVE  answer[w] = LoadedAddresses(tx[w])[pos[w]]
    BY DEF AnswerIsLoaded
  <2>1. tx[w] \in AnyLookups
    BY KeysTyped DEF AnswerInv, TypeOK
  <2>2. GenerateTableLookup(tx[w]) = LoadedAddresses(tx[w])
    BY <2>1, AlignedOrder
  <2> QED
    BY <2>2 DEF AnswerInv, Wanted
<1> QED
  BY <1>1, AnswerInvariant, PTL

=============================================================================
