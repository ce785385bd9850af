---------------------------- MODULE AtomicMetrics ----------------------------
(* metrics/generic: counters and gauges kept in one atomic word each, that   *)
(* several goroutines update while the goroutine of a WriteLoop reads or     *)
(* resets them, and the flag with which dogstatsd and influxstatsd remember  *)
(* that a gauge has been touched since it was last read.                     *)
(*                                                                           *)
(* A float is abstracted to the set of updates it sums: 0 is the empty set,  *)
(* adding delta number i to a value adds i to the set, and a Set replaces    *)
(* it. Two values are equal as words iff they sum the same updates.          *)
EXTENDS Naturals

CONSTANTS Threads,   \* goroutines that update metrics
          Counters,  \* the counters
          Gauges,    \* the gauges
          Nobody,    \* no metric
          MaxOps     \* bound: updates in a behaviour

Cells == Counters \cup Gauges
Ids == 1 .. MaxOps

ASSUME CellsAssumption ==
  /\ Counters \cap Gauges = {}
  /\ Nobody \notin Cells
  /\ MaxOps \in Nat

VARIABLES ops,     \* updates begun
          bits,    \* the word of each metric
          flag,    \* Gauge.set
          upd,     \* each updating goroutine: its point, metric, update, `old'
          rdr,     \* the reading goroutine: its point, metric, `old'
          added,   \* per counter, the updates whose Add has returned (history)
          taken,   \* per counter, what ValueReset has returned (history)
          seen     \* per gauge, the value read with its flag set (history)

atomicVars == <<ops, bits, flag, upd, rdr, added, taken, seen>>

Updates == [pc : {"idle", "load", "cas", "store", "touch"},
            cell : Cells \cup {Nobody}, id : 0 .. MaxOps, old : SUBSET Ids]
Reads == [pc : {"idle", "load", "cas", "swap", "value"},
          cell : Cells \cup {Nobody}, old : SUBSET Ids, set : BOOLEAN]

AtomicTypeOK ==
  /\ ops \in 0 .. MaxOps
  /\ bits \in [Cells -> SUBSET Ids]
  /\ flag \in [Gauges -> BOOLEAN]
  /\ upd \in [Threads -> Updates]
  /\ rdr \in Reads
  /\ added \in [Counters -> SUBSET Ids]
  /\ taken \in [Counters -> SUBSET Ids]
  /\ seen \in [Gauges -> SUBSET Ids]

NoUpdate == [pc |-> "idle", cell |-> Nobody, id |-> 0, old |-> {}]
NoRead == [pc |-> "idle", cell |-> Nobody, old |-> {}, set |-> FALSE]

AtomicInit ==
  /\ ops = 0
  /\ bits = [c \in Cells |-> {}]
  /\ flag = [g \in Gauges |-> FALSE]
  /\ upd = [t \in Threads |-> NoUpdate]
  /\ rdr = NoRead
  /\ added = [c \in Counters |-> {}]
  /\ taken = [c \in Counters |-> {}]
  /\ seen = [g \in Gauges |-> {}]

-----------------------------------------------------------------------------

UpdTo(t, to) == upd' = [upd EXCEPT ![t].pc = to]

(* A goroutine calls Add on a counter or on a gauge, or Set on a gauge.      *)
Begin(t, c, point) ==
  /\ upd[t].pc = "idle" /\ ops < MaxOps
  /\ ops' = ops + 1
  /\ upd' = [upd EXCEPT ![t] =
       [pc |-> point, cell |-> c, id |-> ops + 1, old |-> {}]]
  /\ UNCHANGED <<bits, flag, rdr, added, taken, seen>>

Add(t, c) == c \in Cells /\ Begin(t, c, "load")
Set(t, g) == g \in Gauges /\ Begin(t, g, "store")

(* The loop of Add: load the word, and swap in the sum if the word is still  *)
(* the same. Mutant: the sum is stored whatever the word is by now.          *)
AddLoad(t) ==
  /\ upd[t].pc = "load"
  /\ upd' = [upd EXCEPT ![t].old = bits[upd[t].cell], ![t].pc = "cas"]
  /\ UNCHANGED <<ops, bits, flag, rdr, added, taken, seen>>

AddDone(t) ==
  LET c == upd[t].cell IN
  /\ added' = IF c \in Counters
              THEN [added EXCEPT ![c] = @ \cup {upd[t].id}] ELSE added
  /\ UpdTo(t, IF c \in Gauges THEN "touch" ELSE "idle")

AddStores(t) ==
  /\ upd[t].pc = "cas"
  /\ bits' = [bits EXCEPT ![upd[t].cell] = upd[t].old \cup {upd[t].id}]
  /\ AddDone(t)
  /\ UNCHANGED <<ops, flag, rdr, taken, seen>>

AddSwaps(t) ==
  /\ upd[t].pc = "cas" /\ bits[upd[t].cell] = upd[t].old
  /\ bits' = [bits EXCEPT ![upd[t].cell] = upd[t].old \cup {upd[t].id}]
  /\ AddDone(t)
  /\ UNCHANGED <<ops, flag, rdr, taken, seen>>

AddRetries(t) ==
  /\ upd[t].pc = "cas" /\ bits[upd[t].cell] # upd[t].old
  /\ UpdTo(t, "load")
  /\ UNCHANGED <<ops, bits, flag, rdr, added, taken, seen>>

SetStores(t) ==
  /\ upd[t].pc = "store"
  /\ bits' = [bits EXCEPT ![upd[t].cell] = {upd[t].id}]
  /\ UpdTo(t, "touch")
  /\ UNCHANGED <<ops, flag, rdr, added, taken, seen>>

(* touch of dogstatsd and influxstatsd, after the value has been changed.    *)
Touch(t) ==
  /\ upd[t].pc = "touch"
  /\ flag' = [flag EXCEPT ![upd[t].cell] = TRUE]
  /\ UpdTo(t, "idle")
  /\ UNCHANGED <<ops, bits, rdr, added, taken, seen>>

Updating(t) ==
  AddLoad(t) \/ AddSwaps(t) \/ AddRetries(t) \/ SetStores(t) \/ Touch(t)

-----------------------------------------------------------------------------

(* Counter.ValueReset: the same loop with 0 for the sum.                     *)
ResetBegin(c) ==
  /\ rdr.pc = "idle" /\ c \in Counters
  /\ rdr' = [rdr EXCEPT !.pc = "load", !.cell = c]
  /\ UNCHANGED <<ops, bits, flag, upd, added, taken, seen>>

ResetLoad ==
  /\ rdr.pc = "load"
  /\ rdr' = [rdr EXCEPT !.pc = "cas", !.old = bits[rdr.cell]]
  /\ UNCHANGED <<ops, bits, flag, upd, added, taken, seen>>

ResetSwaps ==
  /\ rdr.pc = "cas" /\ bits[rdr.cell] = rdr.old
  /\ bits' = [bits EXCEPT ![rdr.cell] = {}]
  /\ taken' = [taken EXCEPT ![rdr.cell] = @ \cup rdr.old]
  /\ rdr' = NoRead
  /\ UNCHANGED <<ops, flag, upd, added, seen>>

ResetRetries ==
  /\ rdr.pc = "cas" /\ bits[rdr.cell] # rdr.old
  /\ rdr' = [rdr EXCEPT !.pc = "load"]
  /\ UNCHANGED <<ops, bits, flag, upd, added, taken, seen>>

(* read of dogstatsd and influxstatsd: the flag is swapped for 0, then the   *)
(* value is loaded; it counts only if the flag was set. Mutant: the flag is   *)
(* cleared once more when the value is loaded.                               *)
GaugeSwap(g) ==
  /\ rdr.pc = "idle" /\ g \in Gauges
  /\ rdr' = [pc |-> "value", cell |-> g, old |-> {}, set |-> flag[g]]
  /\ flag' = [flag EXCEPT ![g] = FALSE]
  /\ UNCHANGED <<ops, bits, upd, added, taken, seen>>

GaugeValueClears ==
  /\ rdr.pc = "value"
  /\ seen' = IF rdr.set THEN [seen EXCEPT ![rdr.cell] = bits[rdr.cell]] ELSE seen
  /\ flag' = [flag EXCEPT ![rdr.cell] = FALSE]
  /\ rdr' = NoRead
  /\ UNCHANGED <<ops, bits, upd, added, taken>>

GaugeValue ==
  /\ rdr.pc = "value"
  /\ seen' = IF rdr.set THEN [seen EXCEPT ![rdr.cell] = bits[rdr.cell]] ELSE seen
  /\ rdr' = NoRead
  /\ UNCHANGED <<ops, bits, flag, upd, added, taken>>

Reading == ResetLoad \/ ResetRetries \/ ResetSwaps \/ GaugeValue

AtomicNext ==
  \/ \E t \in Threads :
       \/ \E c \in Cells : Add(t, c) \/ Set(t, c)
       \/ Updating(t)
  \/ \E c \in Cells : ResetBegin(c) \/ GaugeSwap(c)
  \/ Reading

AtomicSpec == AtomicInit /\ [][AtomicNext]_atomicVars

-----------------------------------------------------------------------------

(* Counter.Add and Counter.ValueReset (src/metrics/generic/generic.go:42-75) *)
(* conserve: every delta whose Add has returned is either still in the word  *)
(* or in exactly one value that ValueReset has returned, and nothing else is.*)
CounterConserves ==
  \A c \in Counters :
    /\ bits[c] \cup taken[c] = added[c]
    /\ bits[c] \cap taken[c] = {}

(* No update of a gauge is overlooked: unless the goroutine that made it is  *)
(* still to touch the gauge or the reader is between its swap and its load,  *)
(* a gauge with a clear flag holds the value that was last read to be        *)
(* written (src/metrics/dogstatsd/dogstatsd.go:398-405).                     *)
GaugeNoticed ==
  \A g \in Gauges :
    \/ flag[g]
    \/ \E t \in Threads : upd[t].pc = "touch" /\ upd[t].cell = g
    \/ rdr.pc = "value" /\ rdr.cell = g /\ rdr.set
    \/ seen[g] = bits[g]
=============================================================================
