---------------------------- MODULE TradeLedger -----------------------------
(***************************************************************************)
(* What the tracker promises the readers of its two stores: a pool is       *)
(* tracked only after it was seen drained, paused only after it was         *)
(* tracked, and trades are recorded of such pools only, in the order of     *)
(* their timestamps.  The whole table may be emptied at any time.           *)
(***************************************************************************)
EXTENDS Naturals, Sequences

CONSTANTS Pools, Times

VARIABLES
  drained,   \* pools whose SOL vault was at one SOL or less at some time
  phase,     \* [Pools -> {"new", "tracked", "paused"}]
  ledger     \* recorded trades, [pool, ts], oldest first

ledgerVars == <<drained, phase, ledger>>

LedgerInit ==
  /\ drained = {}
  /\ phase = [p \in Pools |-> "new"]
  /\ ledger = <<>>

Drained(p) ==
  /\ drained' = drained \cup {p}
  /\ UNCHANGED <<phase, ledger>>

Track(p) ==
  /\ p \in drained
  /\ phase' = [phase EXCEPT ![p] = "tracked"]
  /\ UNCHANGED <<drained, ledger>>

Pause(p) ==
  /\ phase[p] # "new"
  /\ phase' = [phase EXCEPT ![p] = "paused"]
  /\ UNCHANGED <<drained, ledger>>

Record(p, t) ==
  /\ phase[p] # "new"
  /\ \A i \in 1..Len(ledger) : ledger[i].ts <= t
  /\ ledger' = Append(ledger, [pool |-> p, ts |-> t])
  /\ UNCHANGED <<drained, phase>>

Empty ==
  /\ ledger' = <<>>
  /\ UNCHANGED <<drained, phase>>

LedgerNext ==
  \/ \E p \in Pools : Drained(p) \/ Track(p) \/ Pause(p)
  \/ \E p \in Pools, t \in Times : Record(p, t)
  \/ Empty

LedgerSpec == LedgerInit /\ [][LedgerNext]_ledgerVars

=============================================================================
