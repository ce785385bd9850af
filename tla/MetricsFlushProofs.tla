------------------------- MODULE MetricsFlushProofs -------------------------
(* For any number of goroutines, metrics, names, labels and updates, and any *)
(* backend: the compare-and-swap loops of a counter lose and double no       *)
(* delta, the flag of a gauge hides no value, no update is reported twice,   *)
(* and none is lost but by a failed write or by a late append.               *)
EXTENDS MetricsFlush, FiniteSetTheorems, TLAPS

(* Where an updating goroutine may be for its metric, and which update it is *)
(* making: one that was begun, that no other goroutine is making, and that a *)
(* counter has not got yet.                                                  *)
UpdatersOK ==
  \A t \in Threads :
    /\ upd[t].pc \in {"load", "cas"} => upd[t].cell \in Cells
    /\ upd[t].pc \in {"store", "touch"} => upd[t].cell \in Gauges
    /\ upd[t].pc # "idle" => upd[t].id \in 1 .. ops

IdsDiffer ==
  \A t, u \in Threads :
    t # u /\ upd[t].pc # "idle" /\ upd[u].pc # "idle" => upd[t].id # upd[u].id

AddedOK ==
  \A c \in Counters :
    /\ added[c] \subseteq 1 .. ops
    /\ \A t \in Threads :
         upd[t].pc \in {"load", "cas"} /\ upd[t].cell = c => upd[t].id \notin added[c]

ReaderOK ==
  /\ rdr.pc \in {"load", "cas"} => rdr.cell \in Counters
  /\ rdr.pc = "value" => rdr.cell \in Gauges

(* The inductive invariant.                                                  *)
AInv ==
  /\ AtomicTypeOK /\ UpdatersOK /\ IdsDiffer /\ AddedOK /\ ReaderOK
  /\ CounterConserves /\ GaugeNoticed

(* What one action needs of the others.                                      *)
USE DEF Cells, Ids

(* The metrics start with nothing added and nothing to notice.               *)
LEMMA InitAInv == AtomicInit => AInv
  BY CellsAssumption DEF AtomicInit, AInv, AtomicTypeOK, UpdatersOK, IdsDiffer, AddedOK, ReaderOK,
     CounterConserves, GaugeNoticed, NoUpdate, NoRead, Updates, Reads

(* Add and Set only begin here: no metric changes yet.                       *)
LEMMA BeginAInv ==
  ASSUME AInv, NEW t \in Threads, NEW c \in Cells, NEW p \in {"load", "store"},
         p = "store" => c \in Gauges, Begin(t, c, p)
  PROVE  AInv'
  <1> USE CellsAssumption DEF AInv, Begin
  <1>1. AtomicTypeOK'
    BY DEF AtomicTypeOK, Updates
  <1>2. UpdatersOK'
    BY DEF AtomicTypeOK, Updates, UpdatersOK
  <1>3. IdsDiffer'
    BY DEF AtomicTypeOK, Updates, UpdatersOK, IdsDiffer
  <1>4. AddedOK'
    BY DEF AtomicTypeOK, Updates, UpdatersOK, AddedOK
  <1>5. ReaderOK' /\ CounterConserves'
    BY DEF ReaderOK, CounterConserves
  <1>6. GaugeNoticed'
    BY DEF AtomicTypeOK, Updates, GaugeNoticed
  <1> QED BY <1>1, <1>2, <1>3, <1>4, <1>5, <1>6

(* The load of Add changes only the goroutine that makes it ...              *)
LEMMA LoadAInv ==
  ASSUME AInv, NEW t \in Threads, AddLoad(t)
  PROVE  AInv'
  <1> USE CellsAssumption DEF AInv, AddLoad, UpdTo
  <1>1. AtomicTypeOK'
    BY DEF AtomicTypeOK, Updates, UpdatersOK
  <1>2. UpdatersOK'
    BY DEF AtomicTypeOK, Updates, UpdatersOK
  <1>3. IdsDiffer'
    BY DEF AtomicTypeOK, Updates, IdsDiffer
  <1>4. AddedOK'
    BY DEF AtomicTypeOK, Updates, AddedOK
  <1>5. ReaderOK' /\ CounterConserves'
    BY DEF ReaderOK, CounterConserves
  <1>6. GaugeNoticed'
    BY DEF AtomicTypeOK, Updates, GaugeNoticed
  <1> QED BY <1>1, <1>2, <1>3, <1>4, <1>5, <1>6

(* ... and so does a failed compare-and-swap.                                *)
LEMMA RetryAInv ==
  ASSUME AInv, NEW t \in Threads, AddRetries(t)
  PROVE  AInv'
  <1> USE CellsAssumption DEF AInv, AddRetries, UpdTo
  <1>1. AtomicTypeOK'
    BY DEF AtomicTypeOK, Updates, UpdatersOK
  <1>2. UpdatersOK'
    BY DEF AtomicTypeOK, Updates, UpdatersOK
  <1>3. IdsDiffer'
    BY DEF AtomicTypeOK, Updates, IdsDiffer
  <1>4. AddedOK'
    BY DEF AtomicTypeOK, Updates, AddedOK
  <1>5. ReaderOK' /\ CounterConserves'
    BY DEF ReaderOK, CounterConserves
  <1>6. GaugeNoticed'
    BY DEF AtomicTypeOK, Updates, GaugeNoticed
  <1> QED BY <1>1, <1>2, <1>3, <1>4, <1>5, <1>6

(* A compare-and-swap of Add that succeeds adds one delta to the word: on a  *)
(* counter the delta has then been added, on a gauge a touch follows.        *)
LEMMA SwapAInv ==
  ASSUME AInv, NEW t \in Threads, AddSwaps(t)
  PROVE  AInv'
  <1> DEFINE c == upd[t].cell
             i == upd[t].id
  <1> USE CellsAssumption DEF AInv, AddSwaps, AddDone, UpdTo
  <1>1. /\ c \in Cells /\ i \in 1 .. ops /\ i \in Ids
        /\ bits' = [bits EXCEPT ![c] = bits[c] \cup {i}]
    BY DEF AtomicTypeOK, Updates, UpdatersOK
  <1>2. upd' = [upd EXCEPT ![t].pc = IF c \in Gauges THEN "touch" ELSE "idle"]
    OBVIOUS
  <1>3. added' = IF c \in Counters THEN [added EXCEPT ![c] = added[c] \cup {i}] ELSE added
    OBVIOUS
  <1>4. AtomicTypeOK'
    BY <1>1, <1>2, <1>3 DEF AtomicTypeOK, Updates
  <1>5. UpdatersOK' /\ IdsDiffer'
    BY <1>1, <1>2 DEF AtomicTypeOK, Updates, UpdatersOK, IdsDiffer
  <1>6. AddedOK'
    BY <1>1, <1>2, <1>3 DEF AtomicTypeOK, Updates, UpdatersOK, IdsDiffer, AddedOK
  <1>7. ReaderOK'
    BY DEF ReaderOK
  <1>8. CounterConserves'
    BY <1>1, <1>3 DEF AtomicTypeOK, AddedOK, CounterConserves
  <1>9. GaugeNoticed'
    BY <1>1, <1>2 DEF AtomicTypeOK, Updates, GaugeNoticed
  <1> QED BY <1>4, <1>5, <1>6, <1>7, <1>8, <1>9

(* Set replaces the word of a gauge, and a touch follows ...                 *)
LEMMA SetAInv ==
  ASSUME AInv, NEW t \in Threads, SetStores(t)
  PROVE  AInv'
  <1> DEFINE g == upd[t].cell
  <1> USE CellsAssumption DEF AInv, SetStores, UpdTo
  <1>0. g \in Gauges /\ g \notin Counters /\ g \in Cells /\ upd[t].id \in Ids
    BY DEF AtomicTypeOK, Updates, UpdatersOK
  <1>1. AtomicTypeOK'
    BY <1>0 DEF AtomicTypeOK, Updates
  <1>2. UpdatersOK' /\ IdsDiffer' /\ AddedOK'
    <2>1. UpdatersOK'
      BY <1>0 DEF AtomicTypeOK, Updates, UpdatersOK
    <2>2. IdsDiffer'
      BY DEF AtomicTypeOK, Updates, IdsDiffer
    <2>3. AddedOK'
      BY DEF AtomicTypeOK, Updates, AddedOK
    <2> QED BY <2>1, <2>2, <2>3
  <1>3. ReaderOK'
    BY DEF ReaderOK
  <1>4. \A c \in Counters : bits'[c] = bits[c]
    BY <1>0 DEF AtomicTypeOK
  <1>5. CounterConserves'
    BY <1>4 DEF CounterConserves
  <1>6. GaugeNoticed'
    BY <1>0 DEF AtomicTypeOK, Updates, GaugeNoticed
  <1> QED BY <1>1, <1>2, <1>3, <1>5, <1>6

(* ... which sets the flag.                                                  *)
LEMMA TouchAInv ==
  ASSUME AInv, NEW t \in Threads, Touch(t)
  PROVE  AInv'
  <1> USE CellsAssumption DEF AInv, Touch, UpdTo
  <1>0. upd[t].cell \in Gauges
    BY DEF AtomicTypeOK, Updates, UpdatersOK
  <1>1. AtomicTypeOK'
    <2>1. upd \in [Threads -> Updates] /\ upd[t] \in Updates
      BY DEF AtomicTypeOK
    <2>2. [upd[t] EXCEPT !.pc = "idle"] \in Updates
      BY <2>1 DEF Updates
    <2>3. upd' \in [Threads -> Updates]
      BY <2>1, <2>2
    <2>4. flag' \in [Gauges -> BOOLEAN]
      BY <1>0 DEF AtomicTypeOK
    <2> QED BY <2>3, <2>4 DEF AtomicTypeOK
  <1>2. UpdatersOK' /\ IdsDiffer' /\ AddedOK'
    <2>1. UpdatersOK'
      BY <1>0 DEF AtomicTypeOK, Updates, UpdatersOK
    <2>2. IdsDiffer'
      BY DEF AtomicTypeOK, Updates, IdsDiffer
    <2>3. AddedOK'
      BY DEF AtomicTypeOK, Updates, AddedOK
    <2> QED BY <2>1, <2>2, <2>3
  <1>3. ReaderOK' /\ CounterConserves'
    BY DEF ReaderOK, CounterConserves
  <1>4. \A g \in Gauges : g # upd[t].cell => flag'[g] = flag[g]
    BY <1>0 DEF AtomicTypeOK
  <1>5. flag'[upd[t].cell] = TRUE
    BY <1>0 DEF AtomicTypeOK
  <1>6. \A u \in Threads : upd'[u].cell = upd[u].cell /\ (u # t => upd'[u].pc = upd[u].pc)
    BY DEF AtomicTypeOK, Updates
  <1>7. GaugeNoticed'
    BY <1>4, <1>5, <1>6 DEF GaugeNoticed
  <1> QED BY <1>1, <1>2, <1>3, <1>7

(* A read that is not between the swap and the load of a gauge, neither      *)
(* before nor after the step, is not what keeps the gauge noticed.           *)
LEMMA NoticedWithoutReader ==
  ASSUME GaugeNoticed, rdr.pc # "value", UNCHANGED <<flag, upd, seen>>,
         \A g \in Gauges : bits'[g] = bits[g]
  PROVE  GaugeNoticed'
  BY DEF GaugeNoticed

(* ValueReset: only its compare-and-swap changes a counter, and takes from   *)
(* the word what it returns.                                                 *)
LEMMA ResetAInv ==
  ASSUME AInv, (\E c \in Counters : ResetBegin(c)) \/ ResetLoad \/ ResetRetries \/ ResetSwaps
  PROVE  AInv'
  <1> USE CellsAssumption DEF AInv
  <1>1. UpdatersOK' /\ IdsDiffer' /\ AddedOK'
    BY DEF UpdatersOK, IdsDiffer, AddedOK, ResetBegin, ResetLoad, ResetRetries, ResetSwaps
  <1>2. ASSUME NEW c \in Counters, ResetBegin(c) PROVE AInv'
    <2> USE <1>2 DEF ResetBegin
    <2>1. AtomicTypeOK' /\ ReaderOK'
      BY DEF AtomicTypeOK, Reads, ReaderOK
    <2>2. CounterConserves' /\ GaugeNoticed'
      BY NoticedWithoutReader DEF CounterConserves
    <2> QED BY <1>1, <2>1, <2>2
  <1>3. ASSUME ResetLoad PROVE AInv'
    <2> USE <1>3 DEF ResetLoad
    <2>1. AtomicTypeOK' /\ ReaderOK'
      BY DEF AtomicTypeOK, Reads, ReaderOK
    <2>2. CounterConserves' /\ GaugeNoticed'
      BY NoticedWithoutReader DEF CounterConserves
    <2> QED BY <1>1, <2>1, <2>2
  <1>4. ASSUME ResetRetries PROVE AInv'
    <2> USE <1>4 DEF ResetRetries
    <2>1. AtomicTypeOK' /\ ReaderOK'
      BY DEF AtomicTypeOK, Reads, ReaderOK
    <2>2. CounterConserves' /\ GaugeNoticed'
      BY NoticedWithoutReader DEF CounterConserves
    <2> QED BY <1>1, <2>1, <2>2
  <1>5. ASSUME ResetSwaps PROVE AInv'
    <2> USE <1>5 DEF ResetSwaps, NoRead
    <2>1. rdr.cell \in Counters /\ rdr.cell \notin Gauges /\ rdr.old \subseteq Ids
      BY DEF AtomicTypeOK, Reads, ReaderOK
    <2>2. AtomicTypeOK' /\ ReaderOK'
      BY <2>1 DEF AtomicTypeOK, Reads, ReaderOK
    <2>3. CounterConserves'
      BY <2>1 DEF AtomicTypeOK, CounterConserves
    <2>4. \A g \in Gauges : bits'[g] = bits[g]
      BY <2>1 DEF AtomicTypeOK
    <2>5. GaugeNoticed'
      BY <2>4, NoticedWithoutReader
    <2> QED BY <1>1, <2>2, <2>3, <2>5
  <1> QED BY <1>2, <1>3, <1>4, <1>5

(* The read of a gauge takes its flag first and its value afterwards.        *)
LEMMA GaugeAInv ==
  ASSUME AInv, (\E g \in Gauges : GaugeSwap(g)) \/ GaugeValue
  PROVE  AInv'
  <1> USE CellsAssumption DEF AInv, NoRead
  <1>1. UpdatersOK' /\ IdsDiffer' /\ AddedOK'
    BY DEF UpdatersOK, IdsDiffer, AddedOK, GaugeSwap, GaugeValue
  <1>2. ASSUME NEW g \in Gauges, GaugeSwap(g) PROVE AInv'
    <2> USE <1>2 DEF GaugeSwap
    <2>1. AtomicTypeOK' /\ ReaderOK'
      BY DEF AtomicTypeOK, Reads, ReaderOK
    <2>2. CounterConserves'
      BY DEF CounterConserves
    <2>3. \A h \in Gauges : h # g => flag'[h] = flag[h]
      BY DEF AtomicTypeOK
    <2>4. rdr'.pc = "value" /\ rdr'.cell = g /\ rdr'.set = flag[g]
      OBVIOUS
    <2>5. GaugeNoticed'
      BY <2>3, <2>4 DEF GaugeNoticed
    <2> QED BY <1>1, <2>1, <2>2, <2>5
  <1>3. ASSUME GaugeValue PROVE AInv'
    <2> USE <1>3 DEF GaugeValue
    <2>1. AtomicTypeOK' /\ ReaderOK'
      BY DEF AtomicTypeOK, Reads, ReaderOK
    <2>2. CounterConserves'
      BY DEF CounterConserves
    <2>3. rdr.cell \in Gauges
      BY DEF ReaderOK
    <2>4. \A h \in Gauges : seen'[h] = (IF rdr.set /\ h = rdr.cell THEN bits[h] ELSE seen[h])
      BY <2>3 DEF AtomicTypeOK
    <2>5. GaugeNoticed'
      BY <2>4 DEF GaugeNoticed
    <2> QED BY <1>1, <2>1, <2>2, <2>5
  <1> QED BY <1>2, <1>3

(* An update of a Space takes a number, and leaves the metrics alone.        *)
LEMMA NumberAInv ==
  ASSUME AInv, ops < MaxOps, ops' = ops + 1,
         UNCHANGED <<bits, flag, upd, rdr, added, taken, seen>>
  PROVE  AInv'
  <1> USE CellsAssumption DEF AInv
  <1>1. AtomicTypeOK'
    BY DEF AtomicTypeOK
  <1>2. UpdatersOK' /\ IdsDiffer' /\ AddedOK'
    BY DEF AtomicTypeOK, UpdatersOK, IdsDiffer, AddedOK
  <1>3. ReaderOK' /\ CounterConserves' /\ GaugeNoticed'
    BY DEF ReaderOK, CounterConserves, GaugeNoticed
  <1> QED BY <1>1, <1>2, <1>3

(* A step that leaves the metrics alone keeps their invariant.               *)
LEMMA StutterAInv == AInv /\ UNCHANGED atomicVars => AInv'
  BY DEF AInv, atomicVars, AtomicTypeOK, UpdatersOK, IdsDiffer, AddedOK, ReaderOK,
     CounterConserves, GaugeNoticed

(* Whatever a goroutine and the flusher do next.                             *)
LEMMA NextAInv == AInv /\ [Next]_vars => AInv'
  <1> SUFFICES ASSUME AInv, [Next]_vars PROVE AInv'
    OBVIOUS
  <1>1. ASSUME NEW t \in Threads, UpdateBegins(t) PROVE AInv'
    <2>1. PICK k \in DOMAIN Metrics[backend] : \E how \in Metrics[backend][k] : Forward(t, k, how)
      BY <1>1 DEF UpdateBegins
    <2>2. PICK how \in Metrics[backend][k] : Forward(t, k, how)
      BY <2>1
    <2>3. CASE \E n \in Names, l \in Labels : NodeFor(t, k, n, l, how = "add")
      BY <2>3, NumberAInv DEF NodeFor
    <2>4. CASE SampledOut(t)
      BY <2>4, NumberAInv DEF SampledOut
    <2>5. CASE \E c \in Cells : Add(t, c)
      BY <2>5, BeginAInv DEF Add
    <2>6. CASE \E g \in Gauges : Set(t, g)
      BY <2>6, BeginAInv DEF Set
    <2> QED BY <2>2, <2>3, <2>4, <2>5, <2>6 DEF Forward
  <1>2. ASSUME NEW t \in Threads, UpdateGoesOn(t) PROVE AInv'
    <2>1. CASE Observed(t)
      BY <2>1, StutterAInv DEF Observed
    <2>2. CASE Updating(t)
      BY <2>2, LoadAInv, RetryAInv, SwapAInv, SetAInv, TouchAInv DEF Updating
    <2> QED BY <1>2, <2>1, <2>2 DEF UpdateGoesOn
  <1>3. ASSUME FlushStep PROVE AInv'
    <2>1. CASE GaugeRead
      BY <2>1, GaugeAInv DEF GaugeRead, GaugeSwap
    <2>2. CASE GaugeWrite
      BY <2>2, GaugeAInv DEF GaugeWrite
    <2>3. CASE CounterReset
      BY <2>3, ResetAInv DEF CounterReset, ResetBegin
    <2>4. CASE CounterWrite
      BY <2>4, ResetAInv DEF CounterWrite
    <2>5. CASE SectionBegins \/ WalkCollects \/ PointFails \/ WalkWrites \/ SectionEnds
      BY <2>5, StutterAInv DEF SectionBegins, WalkCollects, PointFails, WalkWrites, SectionEnds
    <2>6. CASE InfluxWrite \/ SendBegins \/ Acquire \/ PutMetricData \/ SendReturns
      BY <2>6, StutterAInv DEF InfluxWrite, SendBegins, Acquire, PutMetricData, SendReturns
    <2> QED BY <1>3, <2>1, <2>2, <2>3, <2>4, <2>5, <2>6 DEF FlushStep
  <1>4. CASE Ticks \/ Cancel \/ LoopReturns
    BY <1>4, StutterAInv DEF Ticks, Tick, Cancel, LoopReturns
  <1>5. CASE UNCHANGED vars
    BY <1>5, StutterAInv DEF vars
  <1> QED BY <1>1, <1>2, <1>3, <1>4, <1>5 DEF Next

(* The inductive invariant holds in every state of every behaviour.          *)
THEOREM AInvHolds == Spec => []AInv
  <1>1. Init => AInv
    BY InitAInv DEF Init
  <1> QED BY <1>1, NextAInv, PTL DEF Spec

(* Counter.Add and Counter.ValueReset conserve every delta: none is lost and *)
(* none is returned twice, however their loops interleave.                   *)
THEOREM CounterConservation == Spec => []CounterConserves
  <1>1. AInv => CounterConserves
    BY DEF AInv
  <1> QED BY <1>1, AInvHolds, PTL

(* The touch and the read of a gauge leave no value unnoticed.               *)
THEOREM GaugeNotice == Spec => []GaugeNoticed
  <1>1. AInv => GaugeNoticed
    BY DEF AInv
  <1> QED BY <1>1, AInvHolds, PTL

-----------------------------------------------------------------------------

(* From here on: no update is reported twice, and none is lost but by a late *)
(* append. Where an observation is: the lists of the heap, the roots a walk  *)
(* has still to visit, the nodes that a walk can still reach.                *)
In(x, l) == UNION {heap[x][l][p] : p \in DOMAIN heap[x][l]}
InHeap(i) == \E x \in DOMAIN heap, l \in Labels : i \in In(x, l)
InCounter(i) == \E c \in Counters : i \in added[c]
ToWalk == IF fl.pc = "walk" /\ Current.store = "space" THEN fl.todo ELSE {}
Live(x) == x \in ToWalk \/ \E k \in Kinds : x \in Roots(k)
Retired(i) == \E x \in DOMAIN heap, l \in Labels : i \in In(x, l) /\ ~Live(x)

Nodes == [Labels -> Seq(SUBSET Ids)]
Observations ==
  [pc : {"idle", "node"}, kind : Kinds \cup {"none"}, name : Names \cup {Nobody},
   label : Labels \cup {Nobody}, id : 0 .. MaxOps, node : Nat, add : BOOLEAN]
Flushes ==
  [pc : {"idle", "section", "walk", "send", "wait", "ended"}, sec : Nat,
   todo : SUBSET (Nat \cup Cells), err : BOOLEAN]
Requests == [lines : SUBSET SUBSET Ids, st : {"ready", "put", "done"}]

FlushTypes ==
  /\ backend \in Backends
  /\ heap \in Seq(Nodes)
  /\ space \in [Kinds -> [Names -> 0 .. Len(heap)]]
  /\ obs \in [Threads -> Observations]
  /\ appended \in [Kinds -> SUBSET Ids]
  /\ fl \in Flushes
  /\ batch \in SUBSET SUBSET Ids
  /\ requests \in Seq(Requests)
  /\ reported \in [Ids -> 0 .. 2]
  /\ dropped \in SUBSET Ids

(* Where the flush is, and when its batch and its requests are empty.        *)
Control ==
  /\ fl.pc \in {"section", "walk"} => fl.sec \in DOMAIN WriteTo[backend]
  /\ fl.pc # "wait" => requests = <<>>
  /\ fl.pc \in {"idle", "wait", "ended"} \/ ~Collects => batch = {}
  /\ Collects /\ fl.pc = "section" => ~fl.err
  /\ Collects /\ fl.pc = "walk" /\ fl.err => batch = {} /\ fl.todo = {}

(* A node is the root of one name, or waits to be walked, or is retired.     *)
RootsApart ==
  /\ \A k, m \in Kinds : \A n, o \in Names :
       space[k][n] # 0 /\ space[k][n] = space[m][o] => k = m /\ n = o
  /\ \A x \in ToWalk : x \in DOMAIN heap /\ \A k \in Kinds : x \notin Roots(k)

(* An observation between nodeFor and its append has a number of its own,    *)
(* that is in no list yet, and a node of its own kind.                       *)
Pending ==
  \A t \in Threads : obs[t].pc = "node" =>
    /\ obs[t].kind \in Kinds /\ obs[t].name \in Names /\ obs[t].label \in Labels
    /\ obs[t].node \in DOMAIN heap /\ obs[t].id \in 1 .. ops
    /\ ~InHeap(obs[t].id) /\ ~InCounter(obs[t].id)
    /\ \A u \in Threads :
         /\ u # t /\ obs[u].pc = "node" => obs[u].id # obs[t].id
         /\ upd[u].pc # "idle" => upd[u].id # obs[t].id
    /\ \A k \in Kinds : obs[t].node \in Roots(k) => k = obs[t].kind
    /\ obs[t].node \in ToWalk => Current.kind = obs[t].kind

(* An update is in one list of the heap, or in one counter, once it is made. *)
OnePlace ==
  /\ \A x, y \in DOMAIN heap : \A l, m \in Labels : \A i \in In(x, l) :
       i \in In(y, m) => x = y /\ l = m
  /\ \A i \in Ids : InHeap(i) => i \in 1 .. ops /\ ~InCounter(i)
  /\ \A c, d \in Counters : c # d => added[c] \cap added[d] = {}
  /\ \A t \in Threads : upd[t].pc \in {"load", "cas"} /\ upd[t].cell \in Counters =>
       ~InHeap(upd[t].id) /\ ~InCounter(upd[t].id)
  /\ \A k \in Kinds : \A i \in appended[k] : InHeap(i)

(* What counts is not among the gauges, of which only the last is written.   *)
GaugesApart ==
  \A k \in Summed : \A i \in appended[k] : \A x \in DOMAIN heap : \A l \in Labels :
    i \in In(x, l) => /\ x \notin Roots("gauges")
                      /\ x \in ToWalk => Current.kind # "gauges"

(* The inductive invariant of the space and its nodes.                       *)
SInv == FlushTypes /\ Control /\ RootsApart /\ Pending /\ OnePlace /\ GaugesApart

(* What can still be reported has not been, and is in one place to be        *)
(* reported from.                                                            *)
Unreported ==
  /\ \A c \in Counters : \A i \in bits[c] : reported[i] = 0
  /\ \A x \in DOMAIN heap : Live(x) => \A l \in Labels : \A i \in In(x, l) : reported[i] = 0
  /\ \A i \in UNION batch : reported[i] = 0 /\ Retired(i)
  /\ \A b \in DOMAIN requests : requests[b].st # "done" =>
       \A i \in UNION requests[b].lines : reported[i] = 0 /\ Retired(i)

LinesApart ==
  /\ \A v, w \in batch : v # w => v \cap w = {}
  /\ \A a, b \in DOMAIN requests :
       a # b => (UNION requests[a].lines) \cap (UNION requests[b].lines) = {}

RInv ==
  /\ Unreported /\ LinesApart
  /\ \A i \in Ids : reported[i] < 2 /\ (reported[i] # 0 => InHeap(i) \/ InCounter(i))

-----------------------------------------------------------------------------

(* What the tables of the backends have in common.                           *)
SectionOK(b, e) ==
  /\ e.kind \in Kinds /\ e.store \in {"space", "flag", "reset"}
  /\ e.lines \in {"sum", "stats", "last", "each"}
  /\ e.store = "space" => (e.lines = "last" <=> e.kind = "gauges")
  /\ b \in {"influx", "cloudwatch2"} => e.store = "space" /\ e.lines # "each" /\ e.checked

(* The six tables are well formed, whatever the backend.                     *)
LEMMA Tables ==
  ASSUME NEW b \in Backends
  PROVE  /\ DOMAIN Metrics[b] \subseteq Kinds
         /\ DOMAIN WriteTo[b] = 1 .. Len(WriteTo[b]) /\ Len(WriteTo[b]) \in Nat \ {0}
         /\ \A s \in DOMAIN WriteTo[b] : SectionOK(b, WriteTo[b][s])
  <1>1. b \in {"statsd", "dogstatsd", "influxstatsd", "influx", "graphite", "cloudwatch2"}
    BY TablesAssumption
  <1> DEFINE Fine(table, secs) ==
        /\ DOMAIN table \subseteq Kinds
        /\ DOMAIN secs = 1 .. Len(secs) /\ Len(secs) \in Nat \ {0}
        /\ \A s \in DOMAIN secs : SectionOK(b, secs[s])
  <1>2. CASE b = "statsd"
    <2>1. Fine(StatsdMetrics, StatsdWriteTo)
      BY <1>2, TablesAssumption DEF StatsdMetrics, StatsdWriteTo, Section, SectionOK
    <2> QED BY <1>2, <2>1 DEF Metrics, WriteTo
  <1>3. CASE b = "dogstatsd"
    <2>1. Fine(DogstatsdMetrics, DogstatsdWriteTo)
      BY <1>3, TablesAssumption DEF DogstatsdMetrics, DogstatsdWriteTo, Section, Unchecked, SectionOK
    <2> QED BY <1>3, <2>1 DEF Metrics, WriteTo
  <1>4. CASE b = "influxstatsd"
    <2>1. Fine(InfluxstatsdMetrics, InfluxstatsdWriteTo)
      BY <1>4, TablesAssumption DEF InfluxstatsdMetrics, InfluxstatsdWriteTo, Section, Unchecked, SectionOK
    <2> QED BY <1>4, <2>1 DEF Metrics, WriteTo
  <1>5. CASE b = "influx"
    <2>1. Fine(InfluxMetrics, InfluxWriteTo)
      BY <1>5, TablesAssumption DEF InfluxMetrics, InfluxWriteTo, Section, SectionOK
    <2> QED BY <1>5, <2>1 DEF Metrics, WriteTo
  <1>6. CASE b = "graphite"
    <2>1. Fine(GraphiteMetrics, GraphiteWriteTo)
      BY <1>6, TablesAssumption DEF GraphiteMetrics, GraphiteWriteTo, Section, SectionOK
    <2> QED BY <1>6, <2>1 DEF Metrics, WriteTo
  <1>7. CASE b = "cloudwatch2"
    <2>1. Fine(CloudwatchMetrics, CloudwatchSend)
      BY <1>7, TablesAssumption DEF CloudwatchMetrics, CloudwatchSend, Section, SectionOK
    <2> QED BY <1>7, <2>1 DEF Metrics, WriteTo
  <1> QED BY <1>1, <1>2, <1>3, <1>4, <1>5, <1>6, <1>7

(* So is the section that the flush is in.                                   *)
LEMMA CurrentOK ==
  ASSUME FlushTypes, Control, fl.pc \in {"section", "walk"}
  PROVE  SectionOK(backend, Current)
  BY Tables DEF FlushTypes, Control, Current

(* Held is what is in the lists of the nodes.                                *)
LEMMA HeldIsIn ==
  ASSUME NEW S, NEW i
  PROVE  i \in Held(S) <=> \E x \in S, l \in Labels : i \in In(x, l)
  BY DEF Held, Walked, In

(* A line carries observations of one list; all of them, for what counts.    *)
LEMMA LineOfOneList ==
  ASSUME FlushTypes, Control, fl.pc = "walk", NEW x \in DOMAIN heap, NEW v \in Lines(x)
  PROVE  \E l \in Labels : v \subseteq In(x, l) /\ heap[x][l] # <<>> /\ v \in LinesOf(heap[x][l])
  <1>1. PICK list \in Walked(x) : v \in LinesOf(list)
    BY DEF Lines
  <1>2. PICK l \in Labels : list = heap[x][l] /\ list # <<>>
    BY <1>1 DEF Walked
  <1>3. list \in Seq(SUBSET Ids)
    BY <1>2 DEF FlushTypes, Nodes
  <1>4. Len(list) \in DOMAIN list
    BY <1>2, <1>3
  <1>5. Current.lines \in {"sum", "stats", "last", "each"}
    BY CurrentOK DEF SectionOK
  <1>6. v \subseteq UNION {list[p] : p \in DOMAIN list}
    BY <1>1, <1>4, <1>5 DEF LinesOf, Stats
  <1> QED BY <1>1, <1>2, <1>6 DEF In

(* All of them, unless only the last is written.                             *)
LEMMA LinesCarryAll ==
  ASSUME FlushTypes, Control, fl.pc = "walk", Current.lines # "last",
         NEW x \in DOMAIN heap, NEW l \in Labels, NEW i \in In(x, l)
  PROVE  i \in UNION Lines(x)
  <1> DEFINE list == heap[x][l]
  <1>1. list \in Seq(SUBSET Ids)
    BY DEF FlushTypes, Nodes
  <1>2. PICK p \in DOMAIN list : i \in list[p]
    BY DEF In
  <1>3. list \in Walked(x)
    BY <1>1, <1>2 DEF Walked
  <1>4. Current.lines \in {"sum", "stats", "each"}
    BY CurrentOK DEF SectionOK
  <1>5. \E v \in LinesOf(list) : i \in v
    BY <1>2, <1>4 DEF LinesOf, Stats
  <1> QED BY <1>3, <1>5 DEF Lines

(* Where an update is that is made and not reported: what Buffered collects. *)
InBuffer(i) ==
  \/ \E k \in Summed : \E x \in Roots(k), l \in Labels : i \in In(x, l)
  \/ \E x \in ToWalk, l \in Labels : i \in In(x, l)
  \/ i \in UNION batch
  \/ \E b \in DOMAIN requests : requests[b].st # "done" /\ i \in UNION requests[b].lines
  \/ \E c \in Counters : i \in bits[c]

(* Buffered collects just these places.                                      *)
LEMMA BufferedIs ==
  ASSUME FlushTypes, NEW i
  PROVE  i \in Buffered <=> InBuffer(i)
  <1> DEFINE A == Held(UNION {Roots(k) : k \in Summed})
             B == IF fl.pc = "walk" /\ Current.store = "space" THEN Held(fl.todo) ELSE {}
             C == UNION {UNION requests[b].lines : b \in InState("ready") \cup InState("put")}
             D == UNION {bits[c] : c \in Counters}
  <1>1. i \in A <=> \E k \in Summed : \E x \in Roots(k), l \in Labels : i \in In(x, l)
    <2>1. \A x : x \in UNION {Roots(k) : k \in Summed} <=> \E k \in Summed : x \in Roots(k)
      OBVIOUS
    <2> QED BY <2>1, HeldIsIn
  <1>2. i \in B <=> \E x \in ToWalk, l \in Labels : i \in In(x, l)
    BY HeldIsIn DEF ToWalk
  <1>3. \A b \in DOMAIN requests : requests[b].st # "done" <=> b \in InState("ready") \cup InState("put")
    <2>1. \A b \in DOMAIN requests : requests[b] \in Requests
      BY DEF FlushTypes
    <2> QED BY <2>1 DEF Requests, InState
  <1>4. i \in C <=> \E b \in DOMAIN requests : requests[b].st # "done" /\ i \in UNION requests[b].lines
    BY <1>3 DEF InState
  <1>5. i \in D <=> \E c \in Counters : i \in bits[c]
    OBVIOUS
  <1>6. Buffered = A \cup B \cup (UNION batch) \cup C \cup D
    BY DEF Buffered
  <1> HIDE DEF A, B, C, D
  <1>7. i \in Buffered <=> i \in A \/ i \in B \/ i \in UNION batch \/ i \in C \/ i \in D
    BY <1>6
  <1> QED BY <1>1, <1>2, <1>4, <1>5, <1>7, Zenon DEF InBuffer

(* Made and not lost: still buffered, or reported, or dropped by a failure.  *)
Kept(i) == InBuffer(i) \/ reported[i] # 0 \/ i \in dropped
NothingLost == \A i \in Made' : Kept(i)' \/ (i \in Made /\ ~Kept(i))

LateRule == FlushTypes => Late = {i \in Made : ~Kept(i)}

(* An update is late iff it is made and not kept, in this state ...          *)
LEMMA LateIsNotKept == LateRule
  BY BufferedIs DEF LateRule, Late, Kept

(* ... and in the next one.                                                  *)
LEMMA LateIsNotKeptNext == LateRule'
  BY LateIsNotKept, PTL

(* The invariant of the nodes under a step of the flush that leaves them     *)
(* alone, apart from having walked some.                                     *)
LEMMA WalkKeepsSInv ==
  ASSUME SInv, FlushTypes', Control',
         UNCHANGED <<ops, upd, added, heap, space, obs, appended>>,
         ToWalk' \subseteq ToWalk, ToWalk' # {} => Current'.kind = Current.kind
  PROVE  SInv'
  <1>1. RootsApart'
    BY DEF SInv, RootsApart, Roots
  <1>2. Pending'
    BY DEF SInv, Pending, InHeap, In, InCounter, Roots
  <1>3. OnePlace'
    BY DEF SInv, OnePlace, InHeap, In, InCounter
  <1>4. GaugesApart'
    BY DEF SInv, GaugesApart, In, Roots
  <1> QED BY <1>1, <1>2, <1>3, <1>4 DEF SInv

(* The lines in out are reported, and nothing that is reported stays behind. *)
LEMMA ReportKeepsRInv ==
  ASSUME AtomicTypeOK, SInv, RInv, FlushTypes', NEW out \in SUBSET SUBSET Ids,
         UNCHANGED <<heap, space, added>>, ToWalk' \subseteq ToWalk,
         \A c \in Counters : bits'[c] \subseteq bits[c],
         reported' = [i \in Ids |-> IF i \in UNION out /\ reported[i] < 2
                                    THEN reported[i] + 1 ELSE reported[i]],
         \A i \in UNION out :
           /\ reported[i] = 0 /\ (InHeap(i) \/ InCounter(i))
           /\ \A c \in Counters : i \notin bits'[c]
           /\ \A x \in DOMAIN heap : \A l \in Labels : i \in In(x, l) => ~Live(x)'
           /\ i \notin UNION batch'
           /\ \A b \in DOMAIN requests' : requests'[b].st # "done" => i \notin UNION requests'[b].lines,
         \A i \in UNION batch' : reported[i] = 0 /\ Retired(i)',
         \A b \in DOMAIN requests' : requests'[b].st # "done" =>
           \A i \in UNION requests'[b].lines : reported[i] = 0 /\ Retired(i)',
         LinesApart'
  PROVE  RInv'
  <1>1. \A i \in Ids : i \notin UNION out => reported'[i] = reported[i]
    OBVIOUS
  <1>2. \A i \in UNION out : reported'[i] = 1
    OBVIOUS
  <1>3. \A x \in DOMAIN heap : Live(x)' => Live(x)
    BY DEF Live, Roots
  <1>4. \A x \in DOMAIN heap, l \in Labels : In(x, l) \subseteq Ids /\ In(x, l)' = In(x, l)
    BY DEF SInv, FlushTypes, Nodes, In
  <1>5. \A i \in Ids : (InHeap(i)' <=> InHeap(i)) /\ (InCounter(i)' <=> InCounter(i))
    BY DEF InHeap, InCounter, In
  <1>6. \A i \in Ids : reported'[i] < 2 /\ (reported'[i] # 0 => InHeap(i)' \/ InCounter(i)')
    BY <1>1, <1>2, <1>5 DEF RInv
  <1>7. \A c \in Counters : \A i \in bits'[c] : reported'[i] = 0
    BY <1>1 DEF RInv, Unreported, AtomicTypeOK
  <1>8. \A x \in DOMAIN heap' : Live(x)' => \A l \in Labels : \A i \in In(x, l)' : reported'[i] = 0
    <2> SUFFICES ASSUME NEW x \in DOMAIN heap, Live(x)', NEW l \in Labels, NEW i \in In(x, l)
                 PROVE  reported'[i] = 0
      BY <1>4
    <2>1. i \in Ids /\ i \notin UNION out /\ reported[i] = 0
      BY <1>3, <1>4 DEF RInv, Unreported
    <2> QED BY <1>1, <2>1
  <1>9. \A i \in UNION batch' : reported'[i] = 0
    BY <1>1 DEF FlushTypes
  <1>10. \A b \in DOMAIN requests' : requests'[b].st # "done" =>
           \A i \in UNION requests'[b].lines : reported'[i] = 0
    <2> SUFFICES ASSUME NEW b \in DOMAIN requests', requests'[b].st # "done", NEW i \in UNION requests'[b].lines
                 PROVE  reported'[i] = 0
      OBVIOUS
    <2>1. requests'[b] \in Requests
      BY DEF FlushTypes
    <2>2. i \in Ids
      BY <2>1 DEF Requests
    <2> QED BY <1>1, <2>2
  <1> QED BY <1>6, <1>7, <1>8, <1>9, <1>10 DEF RInv, Unreported

Safe == SInv' /\ RInv' /\ NothingLost

(* A step that neither moves an update nor walks a node.                     *)
LEMMA QuietStep ==
  ASSUME AtomicTypeOK, SInv, RInv, FlushTypes', Control',
         UNCHANGED <<ops, bits, upd, added, spaceVars, batch, requests, reported, dropped>>,
         ToWalk' = ToWalk, ToWalk # {} => Current'.kind = Current.kind
  PROVE  Safe
  <1> USE DEF spaceVars
  <1>1. SInv'
    BY WalkKeepsSInv
  <1>2. \A x \in DOMAIN heap : (Live(x)' <=> Live(x)) /\ \A l \in Labels : In(x, l)' = In(x, l)
    BY DEF Live, Roots, In
  <1>3. \A i : (Retired(i)' <=> Retired(i)) /\ (InHeap(i)' <=> InHeap(i)) /\ (InCounter(i)' <=> InCounter(i))
    BY <1>2 DEF Retired, InHeap, InCounter
  <1>4. RInv'
    BY <1>2, <1>3 DEF RInv, Unreported, LinesApart
  <1>5. NothingLost
    <2>1. Made' = Made
      BY DEF Made
    <2>2. \A k \in Kinds : Roots(k)' = Roots(k)
      BY DEF Roots
    <2>3. \A i : InBuffer(i)' <=> InBuffer(i)
      BY <2>2 DEF InBuffer, In, Summed
    <2> QED BY <2>1, <2>3 DEF NothingLost, Kept
  <1> QED BY <1>1, <1>4, <1>5 DEF Safe

(* The steps of WriteLoop itself.                                            *)
LEMMA TickSafe ==
  ASSUME AInv, SInv, RInv, UNCHANGED backend, Tick \/ Cancel \/ LoopReturns
  PROVE  Safe
  <1>1. AtomicTypeOK /\ FlushTypes /\ Control /\ fl \in Flushes /\ backend \in Backends
    BY DEF AInv, SInv, FlushTypes
  <1>2. UNCHANGED <<ops, bits, upd, added, spaceVars, batch, requests, reported, dropped>>
    BY DEF Tick, Cancel, LoopReturns, atomicVars
  <1>3. CASE Cancel
    <2>1. FlushTypes' /\ Control' /\ ToWalk' = ToWalk /\ Current' = Current
      BY <1>1, <1>2, <1>3 DEF Cancel, FlushTypes, Control, Collects, ToWalk, Current, spaceVars
    <2> QED BY <1>1, <1>2, <2>1, QuietStep
  <1>4. CASE Tick \/ LoopReturns
    <2>1. fl.pc = "idle" /\ fl'.pc \in {"section", "ended"} /\ fl' \in Flushes
      <3>1. CASE Tick
        BY <1>1, <3>1 DEF Tick, Flushes
      <3>2. CASE LoopReturns
        BY <1>1, <3>2 DEF LoopReturns, Flushes
      <3> QED BY <1>4, <3>1, <3>2
    <2>2. ToWalk' = ToWalk /\ ToWalk = {}
      BY <2>1 DEF ToWalk
    <2>3. 1 \in DOMAIN WriteTo[backend]
      BY <1>1, Tables
    <2>4. FlushTypes' /\ Control'
      BY <1>1, <1>2, <1>4, <2>1, <2>3 DEF Tick, LoopReturns, FlushTypes, Control, Collects, Flushes, spaceVars
    <2> QED BY <1>1, <1>2, <2>2, <2>4, QuietStep
  <1> QED BY <1>3, <1>4

(* The end of a section: its walk is over, so no node waits.                 *)
LEMMA SectionEndsSafe ==
  ASSUME AInv, SInv, RInv, UNCHANGED backend, SectionEnds
  PROVE  Safe
  <1>1. AtomicTypeOK /\ FlushTypes /\ Control /\ fl \in Flushes /\ backend \in Backends
    BY DEF AInv, SInv, FlushTypes
  <1>2. UNCHANGED <<ops, bits, upd, added, spaceVars, batch, requests, reported, dropped>>
    BY DEF SectionEnds, atomicVars
  <1>3. fl.pc = "walk" /\ fl.todo = {} /\ fl.sec \in DOMAIN WriteTo[backend] /\ requests = <<>>
    BY <1>1 DEF SectionEnds, Control
  <1>4. SectionOK(backend, Current)
    BY <1>1, <1>3, CurrentOK
  <1>5. CASE ~Leaves /\ fl.sec < Len(WriteTo[backend])
    <2>1. fl' = [fl EXCEPT !.pc = "section", !.sec = @ + 1]
      BY <1>5 DEF SectionEnds
    <2>2. fl.sec + 1 \in DOMAIN WriteTo[backend] /\ fl.sec + 1 \in Nat
      BY <1>1, <1>3, <1>5, Tables
    <2>3. fl' \in Flushes /\ fl'.pc = "section" /\ fl'.sec = fl.sec + 1 /\ fl'.err = fl.err
      BY <1>1, <2>1, <2>2 DEF Flushes
    <2>4. Collects => ~fl.err
      BY <1>4, <1>5 DEF Leaves, SectionOK, Collects
    <2>5. FlushTypes' /\ Control'
      BY <1>1, <1>2, <1>3, <2>2, <2>3, <2>4 DEF FlushTypes, Control, Collects, spaceVars
    <2>6. ToWalk' = ToWalk /\ ToWalk = {}
      BY <1>3, <2>3 DEF ToWalk
    <2> QED BY <1>1, <1>2, <2>5, <2>6, QuietStep
  <1>6. CASE ~(~Leaves /\ fl.sec < Len(WriteTo[backend]))
    <2>1. fl' = [fl EXCEPT !.pc = IF Collects /\ ~fl.err THEN "send" ELSE "idle"]
      BY <1>6 DEF SectionEnds
    <2>2. fl' \in Flushes /\ fl'.pc = (IF Collects /\ ~fl.err THEN "send" ELSE "idle")
      BY <1>1, <2>1 DEF Flushes
    <2>3. FlushTypes' /\ Control'
      BY <1>1, <1>2, <1>3, <2>2 DEF FlushTypes, Control, Collects, spaceVars
    <2>4. ToWalk' = ToWalk /\ ToWalk = {}
      BY <1>3, <2>2 DEF ToWalk
    <2> QED BY <1>1, <1>2, <2>3, <2>4, QuietStep
  <1> QED BY <1>5, <1>6

(* The reads of gauges, and ValueReset up to its compare-and-swap.           *)
LEMMA ReaderSafe ==
  ASSUME AInv, SInv, RInv, UNCHANGED backend, GaugeRead \/ GaugeWrite \/ CounterReset
  PROVE  Safe
  <1>1. AtomicTypeOK /\ FlushTypes /\ Control /\ fl \in Flushes /\ backend \in Backends
    BY DEF AInv, SInv, FlushTypes
  <1>2. UNCHANGED <<ops, bits, upd, added, spaceVars, batch, requests, reported, dropped>>
    BY DEF GaugeRead, GaugeWrite, CounterReset, GaugeSwap, GaugeValue, ResetBegin, ResetLoad, ResetRetries
  <1>3. fl.pc = "walk" /\ Current.store \in {"flag", "reset"}
    BY DEF GaugeRead, GaugeWrite, CounterReset
  <1>4. SectionOK(backend, Current) /\ fl.sec \in DOMAIN WriteTo[backend] /\ requests = <<>>
    BY <1>1, <1>3, CurrentOK DEF Control
  <1>5. ~Collects
    BY <1>3, <1>4 DEF SectionOK, Collects
  <1>6. fl' \in Flushes /\ fl'.pc = "walk" /\ fl'.sec = fl.sec
    <2>1. CASE GaugeRead
      BY <1>1, <2>1 DEF GaugeRead, Flushes
    <2>2. CASE GaugeWrite
      BY <1>1, <2>2 DEF GaugeWrite, Flushes
    <2>3. CASE CounterReset
      BY <1>1, <2>3 DEF CounterReset, Flushes
    <2> QED BY <1>3, <2>1, <2>2, <2>3
  <1>7. FlushTypes' /\ Control'
    BY <1>1, <1>2, <1>4, <1>5, <1>6 DEF FlushTypes, Control, Collects, spaceVars
  <1>8. Current' = Current /\ ToWalk' = ToWalk
    BY <1>3, <1>6 DEF Current, ToWalk
  <1> QED BY <1>1, <1>2, <1>7, <1>8, QuietStep

(* The same where nothing is reported.                                       *)
LEMMA QuietKeepsRInv ==
  ASSUME AtomicTypeOK, SInv, RInv, FlushTypes', UNCHANGED <<heap, space, added, reported>>,
         ToWalk' \subseteq ToWalk, \A c \in Counters : bits'[c] \subseteq bits[c],
         \A i \in UNION batch' : reported[i] = 0 /\ Retired(i)',
         \A b \in DOMAIN requests' : requests'[b].st # "done" =>
           \A i \in UNION requests'[b].lines : reported[i] = 0 /\ Retired(i)',
         LinesApart'
  PROVE  RInv'
  <1> DEFINE out == {}
  <1>1. out \in SUBSET SUBSET Ids /\ \A i : i \notin UNION out
    OBVIOUS
  <1>2. reported' = [i \in Ids |-> IF i \in UNION out /\ reported[i] < 2 THEN reported[i] + 1 ELSE reported[i]]
    BY <1>1 DEF SInv, FlushTypes
  <1> HIDE DEF out
  <1> QED BY <1>1, <1>2, ReportKeepsRInv

(* The lines of a root that waits to be walked carry all that counts, ...    *)
LEMMA MadeIsCarried ==
  ASSUME AInv, SInv, fl.pc = "walk", Current.store = "space",
         NEW x \in fl.todo, NEW l \in Labels, NEW i \in Made, i \in In(x, l)
  PROVE  i \in UNION Lines(x)
  <1>1. x \in ToWalk /\ x \in DOMAIN heap /\ InHeap(i)
    BY DEF SInv, RootsApart, ToWalk, InHeap
  <1>2. i \in Ids
    BY <1>1 DEF SInv, FlushTypes, Nodes, In
  <1>3. PICK k \in Summed : i \in appended[k]
    <2>1. ~InCounter(i)
      BY <1>1, <1>2 DEF SInv, OnePlace
    <2> QED BY <2>1 DEF Made, InCounter
  <1>4. Current.kind # "gauges"
    BY <1>1, <1>3 DEF SInv, GaugesApart
  <1>5. Current.lines # "last"
    BY <1>4, CurrentOK DEF SInv, SectionOK
  <1> QED BY <1>1, <1>5, LinesCarryAll DEF SInv

(* ... and nothing that has been reported, or that is anywhere else.         *)
LEMMA LineIsFresh ==
  ASSUME AInv, SInv, RInv, fl.pc = "walk", Current.store = "space",
         NEW x \in fl.todo, NEW v \in Lines(x), NEW i \in v
  PROVE  /\ x \in DOMAIN heap /\ i \in Ids /\ reported[i] = 0 /\ InHeap(i) /\ Live(x)
         /\ \A k \in Kinds : x \notin Roots(k)
         /\ \A c \in Counters : i \notin bits[c]
         /\ \A y \in DOMAIN heap, m \in Labels : i \in In(y, m) => y = x
         /\ \E l \in Labels : i \in In(x, l)
  <1>1. x \in DOMAIN heap /\ Live(x) /\ \A k \in Kinds : x \notin Roots(k)
    BY DEF SInv, RootsApart, ToWalk, Live
  <1>2. PICK l \in Labels : i \in In(x, l)
    BY <1>1, LineOfOneList DEF SInv
  <1>3. i \in Ids
    BY <1>1, <1>2 DEF SInv, FlushTypes, Nodes, In
  <1>4. InHeap(i) /\ reported[i] = 0
    BY <1>1, <1>2 DEF InHeap, RInv, Unreported
  <1>5. ~InCounter(i)
    BY <1>3, <1>4 DEF SInv, OnePlace
  <1>6. \A c \in Counters : i \notin bits[c]
    BY <1>5 DEF AInv, CounterConserves, InCounter
  <1>7. \A y \in DOMAIN heap, m \in Labels : i \in In(y, m) => y = x
    BY <1>1, <1>2 DEF SInv, OnePlace
  <1> QED BY <1>1, <1>2, <1>3, <1>4, <1>6, <1>7

(* Lines carry updates and nothing else.                                     *)
LEMMA LinesOfIds ==
  ASSUME SInv, fl.pc = "walk", NEW x \in DOMAIN heap
  PROVE  Lines(x) \in SUBSET SUBSET Ids
  <1> SUFFICES ASSUME NEW v \in Lines(x) PROVE v \subseteq Ids
    OBVIOUS
  <1>1. PICK l \in Labels : v \subseteq In(x, l)
    BY LineOfOneList DEF SInv
  <1>2. In(x, l) \subseteq Ids
    BY DEF SInv, FlushTypes, Nodes, In
  <1> QED BY <1>1, <1>2

(* What a step of the flush leaves alone when it has only walked.            *)
LEMMA WalkFrame ==
  ASSUME SInv, UNCHANGED spaceVars, ToWalk' \subseteq ToWalk
  PROVE  /\ \A k \in Kinds : Roots(k)' = Roots(k)
         /\ \A x, l : In(x, l)' = In(x, l)
         /\ \A x : Live(x)' => Live(x)
         /\ \A i : Retired(i) => Retired(i)'
  BY DEF spaceVars, Roots, In, Live, Retired

(* A root is walked into the batch: its lines share nothing with others.     *)
LEMMA WalkCollectsSafe ==
  ASSUME AInv, SInv, RInv, UNCHANGED backend, WalkCollects
  PROVE  Safe
  <1>1. AtomicTypeOK /\ FlushTypes /\ Control /\ fl \in Flushes /\ backend \in Backends
    BY DEF AInv, SInv, FlushTypes
  <1>2. /\ UNCHANGED <<ops, bits, upd, added, space, heap, obs, appended, requests, reported, dropped>>
        /\ UNCHANGED spaceVars
        /\ fl.pc = "walk" /\ Current.store = "space" /\ Collects
    BY DEF WalkCollects, atomicVars, spaceVars
  <1>3. PICK n \in fl.todo : batch' = batch \cup Lines(n) /\ fl' = [fl EXCEPT !.todo = @ \ {n}]
    BY DEF WalkCollects
  <1>4. fl' \in Flushes /\ fl'.pc = "walk" /\ fl'.todo = fl.todo \ {n} /\ fl'.sec = fl.sec /\ fl'.err = fl.err
    BY <1>1, <1>2, <1>3 DEF Flushes
  <1>5. Current' = Current /\ ToWalk = fl.todo /\ ToWalk' = ToWalk \ {n}
    BY <1>2, <1>4 DEF Current, ToWalk
  <1>6. n \in DOMAIN heap /\ Live(n) /\ \A k \in Kinds : n \notin Roots(k)
    BY <1>5 DEF SInv, RootsApart, Live
  <1>7. FlushTypes' /\ Control'
    <2>1. batch' \in SUBSET SUBSET Ids
      BY <1>1, <1>2, <1>3, <1>6, LinesOfIds DEF FlushTypes
    <2>2. ~fl.err
      BY <1>1, <1>2, <1>3 DEF Control
    <2> QED BY <1>1, <1>2, <1>4, <2>1, <2>2 DEF FlushTypes, Control, Collects
  <1>8. SInv'
    BY <1>2, <1>5, <1>7, WalkKeepsSInv
  <1>9. /\ \A k \in Kinds : Roots(k)' = Roots(k)
        /\ \A x, l : In(x, l)' = In(x, l)
        /\ \A i : Retired(i) => Retired(i)'
    BY <1>2, <1>5, WalkFrame
  <1>10. ~Live(n)'
    BY <1>5, <1>6, <1>9 DEF Live
  <1>11. \A i \in UNION batch' : reported[i] = 0 /\ Retired(i)'
    <2> SUFFICES ASSUME NEW v \in batch', NEW i \in v PROVE reported[i] = 0 /\ Retired(i)'
      OBVIOUS
    <2>1. CASE v \in batch
      BY <1>9, <2>1 DEF RInv, Unreported
    <2>2. CASE v \in Lines(n)
      <3>1. PICK l \in Labels : i \in In(n, l)
        BY <1>2, <2>2, LineIsFresh
      <3>2. Retired(i)'
        BY <1>2, <1>6, <1>9, <1>10, <3>1 DEF Retired
      <3> QED BY <1>2, <2>2, <3>2, LineIsFresh
    <2> QED BY <1>3, <2>1, <2>2
  <1>12. LinesApart'
    <2>1. \A v, w \in Lines(n) : v # w => v \cap w = {}
      <3> SUFFICES ASSUME NEW v \in Lines(n), NEW w \in Lines(n), v # w, NEW i \in v \cap w PROVE FALSE
        OBVIOUS
      <3>1. PICK l \in Labels : v \subseteq In(n, l) /\ v \in LinesOf(heap[n][l])
        BY <1>1, <1>2, <1>6, LineOfOneList
      <3>2. PICK m \in Labels : w \subseteq In(n, m) /\ w \in LinesOf(heap[n][m])
        BY <1>1, <1>2, <1>6, LineOfOneList
      <3>3. l = m
        BY <1>6, <3>1, <3>2 DEF SInv, OnePlace
      <3>4. Current.lines \in {"sum", "stats", "last"}
        BY <1>1, <1>2, CurrentOK DEF SectionOK, Collects
      <3> QED BY <3>1, <3>2, <3>3, <3>4 DEF LinesOf
    <2>2. \A v \in Lines(n), w \in batch : v \cap w = {}
      <3> SUFFICES ASSUME NEW v \in Lines(n), NEW w \in batch, NEW i \in v \cap w PROVE FALSE
        OBVIOUS
      <3>1. Retired(i)
        BY DEF RInv, Unreported
      <3>2. PICK y \in DOMAIN heap, m \in Labels : i \in In(y, m) /\ ~Live(y)
        BY <3>1 DEF Retired
      <3>3. y = n
        BY <1>2, <3>2, LineIsFresh
      <3> QED BY <1>6, <3>2, <3>3
    <2> QED BY <1>2, <1>3, <2>1, <2>2 DEF RInv, LinesApart
  <1>13. RInv'
    <2>1. \A b \in DOMAIN requests' : requests'[b].st # "done" =>
            \A i \in UNION requests'[b].lines : reported[i] = 0 /\ Retired(i)'
      BY <1>2, <1>9 DEF RInv, Unreported
    <2> QED BY <1>1, <1>2, <1>5, <1>7, <1>11, <1>12, <2>1, QuietKeepsRInv
  <1>14. NothingLost
    <2>1. Made' = Made
      BY <1>2 DEF Made
    <2>2. ASSUME NEW i \in Made, InBuffer(i) PROVE InBuffer(i)'
      <3>1. CASE \E l \in Labels : i \in In(n, l)
        <4>1. i \in UNION batch'
          BY <1>2, <1>3, <3>1, MadeIsCarried
        <4> QED BY <4>1 DEF InBuffer
      <3>2. CASE ~\E l \in Labels : i \in In(n, l)
        BY <1>2, <1>3, <1>5, <1>9, <2>2, <3>2 DEF InBuffer, Summed
      <3> QED BY <3>1, <3>2
    <2> QED BY <1>2, <2>1, <2>2 DEF NothingLost, Kept
  <1> QED BY <1>8, <1>13, <1>14 DEF Safe

(* What Report records.                                                      *)
LEMMA ReportTypes ==
  ASSUME FlushTypes, NEW out \in SUBSET SUBSET Ids, NEW lost \in SUBSET SUBSET Ids, Report(out, lost)
  PROVE  /\ reported' \in [Ids -> 0 .. 2] /\ dropped' \in SUBSET Ids
         /\ \A i \in Ids : reported[i] # 0 => reported'[i] # 0
         /\ \A i \in UNION out : reported'[i] # 0
         /\ \A i \in dropped : i \in dropped'
         /\ \A i \in UNION lost : i \in dropped'
  <1>1. \A i \in Ids : reported[i] \in 0 .. 2
    BY DEF FlushTypes
  <1>2. \A i \in UNION out : i \in Ids
    OBVIOUS
  <1>3. reported' = [i \in Ids |-> IF i \in UNION out /\ reported[i] < 2 THEN reported[i] + 1 ELSE reported[i]]
    BY DEF Report
  <1>4. /\ reported' \in [Ids -> 0 .. 2]
        /\ \A i \in Ids : reported[i] # 0 => reported'[i] # 0
        /\ \A i \in UNION out : reported'[i] # 0
    BY <1>1, <1>2, <1>3, CellsAssumption
  <1> QED BY <1>4 DEF Report, FlushTypes

(* No line written, no update reported.                                      *)
LEMMA ReportNothing ==
  ASSUME FlushTypes, NEW lost, Report({}, lost)
  PROVE  reported' = reported
  <1>1. \A i : i \notin UNION {}
    OBVIOUS
  <1> QED BY <1>1 DEF Report, FlushTypes

(* Nodes hold updates and nothing else.                                      *)
LEMMA HeldOfIds ==
  ASSUME SInv, NEW S \in SUBSET DOMAIN heap
  PROVE  Held(S) \subseteq Ids
  <1>1. \A x \in S, l \in Labels : In(x, l) \subseteq Ids
    BY DEF SInv, FlushTypes, Nodes, In
  <1> QED BY <1>1, HeldIsIn

(* influx loses its batch and the rest of the walk: both are dropped.        *)
LEMMA PointFailsSafe ==
  ASSUME AInv, SInv, RInv, UNCHANGED backend, PointFails
  PROVE  Safe
  <1>1. AtomicTypeOK /\ FlushTypes /\ Control /\ fl \in Flushes /\ backend \in Backends
    BY DEF AInv, SInv, FlushTypes
  <1>2. /\ UNCHANGED <<ops, bits, upd, added, space, heap, obs, appended, requests>>
        /\ UNCHANGED spaceVars /\ batch' = {}
        /\ fl.pc = "walk" /\ Current.store = "space" /\ Collects
    BY DEF PointFails, atomicVars, spaceVars, Collects
  <1>3. fl' = [fl EXCEPT !.todo = {}, !.err = TRUE]
    BY DEF PointFails
  <1>4. fl' \in Flushes /\ fl'.pc = "walk" /\ fl'.todo = {} /\ fl'.sec = fl.sec /\ fl'.err = TRUE
    BY <1>1, <1>2, <1>3 DEF Flushes
  <1>5. Current' = Current /\ ToWalk = fl.todo /\ ToWalk' = {}
    BY <1>2, <1>4 DEF Current, ToWalk
  <1>6. fl.todo \in SUBSET DOMAIN heap
    BY <1>5 DEF SInv, RootsApart
  <1>7. batch \cup {Held(fl.todo)} \in SUBSET SUBSET Ids
    <2>1. Held(fl.todo) \subseteq Ids
      BY <1>6, HeldOfIds
    <2>2. batch \in SUBSET SUBSET Ids
      BY <1>1 DEF FlushTypes
    <2> QED BY <2>1, <2>2
  <1>8. Report({}, batch \cup {Held(fl.todo)})
    BY DEF PointFails
  <1>9. /\ reported' = reported /\ dropped' \in SUBSET Ids
        /\ \A i \in dropped : i \in dropped'
        /\ \A i \in UNION (batch \cup {Held(fl.todo)}) : i \in dropped'
    <2> DEFINE none == {}
               lost == batch \cup {Held(fl.todo)}
    <2>1. none \in SUBSET SUBSET Ids /\ lost \in SUBSET SUBSET Ids /\ Report(none, lost)
      BY <1>7, <1>8
    <2>2. reported' = reported
      BY <1>1, <1>8, ReportNothing
    <2> HIDE DEF none, lost
    <2>3. /\ dropped' \in SUBSET Ids /\ \A i \in dropped : i \in dropped'
          /\ \A i \in UNION lost : i \in dropped'
      BY <1>1, <2>1, ReportTypes
    <2> QED BY <2>2, <2>3 DEF lost
  <1>10. FlushTypes' /\ Control'
    BY <1>1, <1>2, <1>4, <1>9 DEF FlushTypes, Control, Collects
  <1>11. SInv'
    BY <1>2, <1>5, <1>10, WalkKeepsSInv
  <1>12. /\ \A k \in Kinds : Roots(k)' = Roots(k)
         /\ \A x, l : In(x, l)' = In(x, l)
         /\ \A i : Retired(i) => Retired(i)'
    BY <1>2, <1>5, WalkFrame
  <1>13. RInv'
    <2>1. \A b \in DOMAIN requests' : requests'[b].st # "done" =>
            \A i \in UNION requests'[b].lines : reported[i] = 0 /\ Retired(i)'
      BY <1>2, <1>12 DEF RInv, Unreported
    <2>2. LinesApart'
      BY <1>2 DEF RInv, LinesApart
    <2> QED BY <1>1, <1>2, <1>5, <1>9, <1>10, <2>1, <2>2, QuietKeepsRInv
  <1>14. NothingLost
    <2>1. Made' = Made
      BY <1>2 DEF Made
    <2>2. ASSUME NEW i \in Made, InBuffer(i) PROVE Kept(i)'
      <3>1. CASE \E x \in ToWalk, l \in Labels : i \in In(x, l)
        BY <1>5, <1>9, <3>1, HeldIsIn DEF Kept
      <3>2. CASE i \in UNION batch
        BY <1>9, <3>2 DEF Kept
      <3>3. CASE ~(i \in UNION batch \/ \E x \in ToWalk, l \in Labels : i \in In(x, l))
        BY <1>2, <1>12, <2>2, <3>3 DEF InBuffer, Summed, Kept
      <3> QED BY <3>1, <3>2, <3>3
    <2> QED BY <1>9, <2>1, <2>2 DEF NothingLost, Kept
  <1> QED BY <1>11, <1>13, <1>14 DEF Safe

(* A root is walked and written: each line is reported or dropped.           *)
LEMMA WalkWritesSafe ==
  ASSUME AInv, SInv, RInv, UNCHANGED backend, WalkWrites
  PROVE  Safe
  <1>1. AtomicTypeOK /\ FlushTypes /\ Control /\ fl \in Flushes /\ backend \in Backends
    BY DEF AInv, SInv, FlushTypes
  <1>2. /\ UNCHANGED <<ops, bits, upd, added, space, heap, obs, appended, requests, batch>>
        /\ UNCHANGED spaceVars
        /\ fl.pc = "walk" /\ Current.store = "space" /\ ~Collects
    BY DEF WalkWrites, atomicVars, spaceVars
  <1>3. batch = {} /\ requests = <<>>
    BY <1>1, <1>2 DEF Control
  <1> DEFINE Walks(n, written) ==
          LET lost == Lines(n) \ written IN
          IF lost = {}
          THEN /\ Report(written, {})
               /\ fl' = [fl EXCEPT !.todo = @ \ {n}, !.err = (@ /\ Lines(n) = {})]
          ELSE /\ Report(written, lost \cup {Held(fl.todo \ {n})})
               /\ fl' = [fl EXCEPT !.todo = {}, !.err = TRUE]
  <1>p. PICK n \in fl.todo : \E written \in SUBSET Lines(n) : Walks(n, written)
    BY DEF WalkWrites
  <1>4. PICK written \in SUBSET Lines(n) : Walks(n, written)
    BY <1>p
  <1>5. fl.todo = ToWalk /\ fl.todo \in SUBSET DOMAIN heap
    BY <1>2 DEF ToWalk, SInv, RootsApart
  <1>6. Lines(n) \in SUBSET SUBSET Ids /\ written \in SUBSET SUBSET Ids /\ Held(fl.todo \ {n}) \subseteq Ids
    BY <1>2, <1>5, LinesOfIds, HeldOfIds
  <1>7. /\ fl' \in Flushes /\ fl'.pc = "walk" /\ fl'.todo \subseteq fl.todo \ {n} /\ fl'.sec = fl.sec
        /\ reported' = [i \in Ids |-> IF i \in UNION written /\ reported[i] < 2
                                      THEN reported[i] + 1 ELSE reported[i]]
        /\ reported' \in [Ids -> 0 .. 2] /\ dropped' \in SUBSET Ids
        /\ \A i \in Ids : reported[i] # 0 => reported'[i] # 0
        /\ \A i \in UNION written : reported'[i] # 0
        /\ \A i \in dropped : i \in dropped'
        /\ \A i \in UNION (Lines(n) \ written) : i \in dropped'
        /\ \A x \in ToWalk \ {n} : x \notin fl'.todo => \A l \in Labels : \A i \in In(x, l) : i \in dropped'
    <2>1. CASE Lines(n) \ written = {}
      <3>1. Report(written, {}) /\ fl' = [fl EXCEPT !.todo = @ \ {n}, !.err = (@ /\ Lines(n) = {})]
        BY <1>4, <2>1
      <3>2. fl' \in Flushes /\ fl'.pc = "walk" /\ fl'.todo = fl.todo \ {n} /\ fl'.sec = fl.sec
        BY <1>1, <1>2, <3>1 DEF Flushes
      <3> DEFINE none == {}
      <3>3. none \in SUBSET SUBSET Ids /\ Report(written, none)
        BY <3>1
      <3> HIDE DEF none
      <3>4. /\ reported' \in [Ids -> 0 .. 2] /\ dropped' \in SUBSET Ids
            /\ \A i \in Ids : reported[i] # 0 => reported'[i] # 0
            /\ \A i \in UNION written : reported'[i] # 0
            /\ \A i \in dropped : i \in dropped'
        BY <1>1, <1>6, <3>3, ReportTypes
      <3> QED BY <1>5, <2>1, <3>1, <3>2, <3>4 DEF Report
    <2>2. CASE Lines(n) \ written # {}
      <3> DEFINE lost == (Lines(n) \ written) \cup {Held(fl.todo \ {n})}
      <3>1. Report(written, lost) /\ fl' = [fl EXCEPT !.todo = {}, !.err = TRUE]
        BY <1>4, <2>2
      <3>2. fl' \in Flushes /\ fl'.pc = "walk" /\ fl'.todo = {} /\ fl'.sec = fl.sec
        BY <1>1, <1>2, <3>1 DEF Flushes
      <3>3. lost \in SUBSET SUBSET Ids
        BY <1>6
      <3>4. Held(fl.todo \ {n}) \in lost /\ \A w \in Lines(n) \ written : w \in lost
        OBVIOUS
      <3> HIDE DEF lost
      <3>5. /\ reported' \in [Ids -> 0 .. 2] /\ dropped' \in SUBSET Ids
            /\ \A i \in Ids : reported[i] # 0 => reported'[i] # 0
            /\ \A i \in UNION written : reported'[i] # 0
            /\ \A i \in dropped : i \in dropped'
            /\ \A i \in UNION lost : i \in dropped'
        BY <1>1, <1>6, <3>1, <3>3, ReportTypes
      <3>6. \A x \in ToWalk \ {n} : \A l \in Labels : \A i \in In(x, l) : i \in Held(fl.todo \ {n})
        BY <1>5, HeldIsIn
      <3>7. \A x \in ToWalk \ {n} : \A l \in Labels : \A i \in In(x, l) : i \in dropped'
        BY <3>4, <3>5, <3>6
      <3>8. \A i \in UNION (Lines(n) \ written) : i \in dropped'
        BY <3>4, <3>5
      <3> QED BY <3>1, <3>2, <3>5, <3>7, <3>8 DEF Report
    <2> QED BY <2>1, <2>2
  <1>8. Current' = Current /\ ToWalk' = fl'.todo /\ ToWalk' \subseteq ToWalk \ {n}
    BY <1>2, <1>5, <1>7 DEF Current, ToWalk
  <1>9. FlushTypes' /\ Control'
    BY <1>1, <1>2, <1>3, <1>7 DEF FlushTypes, Control, Collects
  <1>10. SInv'
    BY <1>2, <1>8, <1>9, WalkKeepsSInv
  <1>11. /\ \A k \in Kinds : Roots(k)' = Roots(k)
         /\ \A x, l : In(x, l)' = In(x, l)
    BY <1>2, <1>8, WalkFrame
  <1>12. RInv'
    <2>1. ASSUME NEW i \in UNION written
          PROVE  /\ reported[i] = 0 /\ (InHeap(i) \/ InCounter(i))
                 /\ \A c \in Counters : i \notin bits'[c]
                 /\ \A x \in DOMAIN heap : \A l \in Labels : i \in In(x, l) => ~Live(x)'
      <3>1. PICK v \in Lines(n) : i \in v
        BY <2>1
      <3>2. ~Live(n)'
        BY <1>2, <1>8, <1>11, <3>1, LineIsFresh DEF Live
      <3> QED BY <1>2, <3>1, <3>2, LineIsFresh
    <2>2. LinesApart'
      BY <1>2 DEF RInv, LinesApart
    <2>3. batch' = {} /\ requests' = <<>>
      BY <1>2, <1>3
    <2>4. \A i \in UNION written :
            /\ reported[i] = 0 /\ (InHeap(i) \/ InCounter(i))
            /\ \A c \in Counters : i \notin bits'[c]
            /\ \A x \in DOMAIN heap : \A l \in Labels : i \in In(x, l) => ~Live(x)'
            /\ i \notin UNION batch'
            /\ \A b \in DOMAIN requests' : requests'[b].st # "done" => i \notin UNION requests'[b].lines
      BY <2>1, <2>3
    <2>5. \A i \in UNION batch' : reported[i] = 0 /\ Retired(i)'
      BY <2>3
    <2>6. \A b \in DOMAIN requests' : requests'[b].st # "done" =>
           \A i \in UNION requests'[b].lines : reported[i] = 0 /\ Retired(i)'
      BY <2>3
    <2>7. ToWalk' \subseteq ToWalk /\ \A c \in Counters : bits'[c] \subseteq bits[c]
      BY <1>2, <1>8
    <2> QED BY <1>1, <1>2, <1>6, <1>7, <1>9, <2>2, <2>4, <2>5, <2>6, <2>7, ReportKeepsRInv
  <1>13. NothingLost
    <2>1. Made' = Made
      BY <1>2 DEF Made
    <2>2. ASSUME NEW i \in Made, InBuffer(i) PROVE Kept(i)'
      <3>1. CASE \E l \in Labels : i \in In(n, l)
        <4>1. i \in UNION Lines(n)
          BY <1>2, <3>1, MadeIsCarried
        <4> QED BY <1>7, <4>1 DEF Kept
      <3>2. CASE \E x \in ToWalk \ {n}, l \in Labels : i \in In(x, l)
        BY <1>7, <1>8, <1>11, <3>2 DEF Kept, InBuffer
      <3>3. CASE ~\E x \in ToWalk, l \in Labels : i \in In(x, l)
        BY <1>2, <1>11, <2>2, <3>3 DEF InBuffer, Summed, Kept
      <3> QED BY <3>1, <3>2, <3>3
    <2>3. \A i \in Made : i \in Ids
      BY <1>1 DEF Made, FlushTypes, Summed, AtomicTypeOK
    <2> QED BY <1>7, <2>1, <2>2, <2>3 DEF NothingLost, Kept
  <1> QED BY <1>10, <1>12, <1>13 DEF Safe

(* A write or a request of some lines succeeds or fails.                     *)
LEMMA ReportEither ==
  ASSUME FlushTypes, NEW S \in SUBSET SUBSET Ids, Report(S, {}) \/ Report({}, S)
  PROVE  \E out \in SUBSET SUBSET Ids :
           /\ out \subseteq S
           /\ reported' = [i \in Ids |-> IF i \in UNION out /\ reported[i] < 2
                                         THEN reported[i] + 1 ELSE reported[i]]
           /\ reported' \in [Ids -> 0 .. 2] /\ dropped' \in SUBSET Ids
           /\ \A i \in Ids : reported[i] # 0 => reported'[i] # 0
           /\ \A i \in dropped : i \in dropped'
           /\ \A i \in UNION S : reported'[i] # 0 \/ i \in dropped'
  <1> DEFINE none == {}
  <1>1. none \in SUBSET SUBSET Ids /\ none \subseteq S /\ (Report(S, none) \/ Report(none, S))
    OBVIOUS
  <1> HIDE DEF none
  <1>2. CASE Report(S, none)
    <2>1. reported' = [i \in Ids |-> IF i \in UNION S /\ reported[i] < 2 THEN reported[i] + 1 ELSE reported[i]]
      BY <1>2 DEF Report
    <2> QED BY <1>1, <1>2, <2>1, ReportTypes
  <1>3. CASE Report(none, S)
    <2>1. reported' = [i \in Ids |-> IF i \in UNION none /\ reported[i] < 2 THEN reported[i] + 1 ELSE reported[i]]
      BY <1>3 DEF Report
    <2> QED BY <1>1, <1>3, <2>1, ReportTypes
  <1> QED BY <1>1, <1>2, <1>3

(* ValueReset takes a counter to zero, and its line is written or not.       *)
LEMMA CounterWriteSafe ==
  ASSUME AInv, SInv, RInv, UNCHANGED backend, CounterWrite
  PROVE  Safe
  <1>1. AtomicTypeOK /\ FlushTypes /\ Control /\ fl \in Flushes /\ backend \in Backends
    BY DEF AInv, SInv, FlushTypes
  <1>2. /\ UNCHANGED <<ops, upd, added, space, heap, obs, appended, requests, batch>>
        /\ UNCHANGED spaceVars
        /\ fl.pc = "walk" /\ Current.store = "reset"
    BY DEF CounterWrite, ResetSwaps, spaceVars
  <1>3. ~Collects /\ batch = {} /\ requests = <<>>
    <2>1. SectionOK(backend, Current)
      BY <1>1, <1>2, CurrentOK
    <2> QED BY <1>1, <1>2, <2>1 DEF Control, SectionOK, Collects
  <1>4. fl' \in Flushes /\ fl'.pc = "walk" /\ fl'.sec = fl.sec
    <2>1. CASE UNCHANGED fl
      BY <1>1, <1>2, <2>1
    <2>2. CASE fl' = [fl EXCEPT !.err = TRUE, !.todo = {}]
      BY <1>1, <1>2, <2>2 DEF Flushes
    <2> QED BY <2>1, <2>2 DEF CounterWrite
  <1>5. Current' = Current /\ ToWalk = {} /\ ToWalk' = {}
    BY <1>2, <1>4 DEF Current, ToWalk
  <1> DEFINE c == rdr.cell
             S == {rdr.old}
  <1>6. /\ c \in Counters /\ c \notin Gauges /\ rdr.old = bits[c] /\ S \in SUBSET SUBSET Ids
        /\ bits' = [bits EXCEPT ![c] = {}]
    BY <1>1, CellsAssumption DEF CounterWrite, ResetSwaps, AInv, ReaderOK, AtomicTypeOK, Reads
  <1>7. Report(S, {}) \/ Report({}, S)
    BY DEF CounterWrite
  <1>8. UNION S = bits[c]
    BY <1>6
  <1>9. bits'[c] = {} /\ \A d \in Counters : d # c => bits'[d] = bits[d]
    BY <1>1, <1>6 DEF AtomicTypeOK
  <1> HIDE DEF c, S
  <1>10. PICK out \in SUBSET SUBSET Ids :
           /\ out \subseteq S
           /\ reported' = [i \in Ids |-> IF i \in UNION out /\ reported[i] < 2
                                         THEN reported[i] + 1 ELSE reported[i]]
           /\ reported' \in [Ids -> 0 .. 2] /\ dropped' \in SUBSET Ids
           /\ \A i \in Ids : reported[i] # 0 => reported'[i] # 0
           /\ \A i \in dropped : i \in dropped'
           /\ \A i \in UNION S : reported'[i] # 0 \/ i \in dropped'
    BY <1>1, <1>6, <1>7, ReportEither
  <1>11. FlushTypes' /\ Control'
    BY <1>1, <1>2, <1>3, <1>4, <1>10 DEF FlushTypes, Control, Collects
  <1>12. SInv'
    BY <1>2, <1>5, <1>11, WalkKeepsSInv
  <1>13. /\ \A k \in Kinds : Roots(k)' = Roots(k)
         /\ \A x, l : In(x, l)' = In(x, l)
    BY <1>2, <1>5, WalkFrame
  <1>14. RInv'
    <2>1. ASSUME NEW i \in UNION out
          PROVE  /\ reported[i] = 0 /\ InCounter(i) /\ ~InHeap(i)
                 /\ \A d \in Counters : i \notin bits'[d]
      <3>1. i \in bits[c] /\ i \in Ids
        BY <1>1, <1>6, <1>8, <1>10 DEF AtomicTypeOK
      <3>2. i \in added[c] /\ \A d \in Counters : bits[d] \subseteq added[d]
        BY <1>6, <3>1 DEF AInv, CounterConserves
      <3>3. InCounter(i) /\ ~InHeap(i) /\ \A d \in Counters : d # c => i \notin added[d]
        BY <1>6, <3>1, <3>2 DEF SInv, OnePlace, InCounter
      <3>4. reported[i] = 0
        BY <1>6, <3>1 DEF RInv, Unreported
      <3> QED BY <1>9, <3>2, <3>3, <3>4
    <2>2. LinesApart'
      BY <1>2 DEF RInv, LinesApart
    <2>3. batch' = {} /\ requests' = <<>>
      BY <1>2, <1>3
    <2>4. \A i \in UNION out :
            /\ reported[i] = 0 /\ (InHeap(i) \/ InCounter(i))
            /\ \A d \in Counters : i \notin bits'[d]
            /\ \A x \in DOMAIN heap : \A l \in Labels : i \in In(x, l) => ~Live(x)'
            /\ i \notin UNION batch'
            /\ \A b \in DOMAIN requests' : requests'[b].st # "done" => i \notin UNION requests'[b].lines
      BY <2>1, <2>3 DEF InHeap
    <2>5. \A i \in UNION batch' : reported[i] = 0 /\ Retired(i)'
      BY <2>3
    <2>6. \A b \in DOMAIN requests' : requests'[b].st # "done" =>
           \A i \in UNION requests'[b].lines : reported[i] = 0 /\ Retired(i)'
      BY <2>3
    <2>7. ToWalk' \subseteq ToWalk /\ \A d \in Counters : bits'[d] \subseteq bits[d]
      BY <1>5, <1>9
    <2> QED BY <1>1, <1>2, <1>10, <1>11, <2>2, <2>4, <2>5, <2>6, <2>7, ReportKeepsRInv
  <1>15. NothingLost
    <2>1. Made' = Made
      BY <1>2 DEF Made
    <2>2. ASSUME NEW i \in Made, InBuffer(i) PROVE Kept(i)'
      <3>1. CASE i \in bits[c]
        BY <1>8, <1>10, <3>1 DEF Kept
      <3>2. CASE \E d \in Counters : d # c /\ i \in bits[d]
        BY <1>9, <3>2 DEF Kept, InBuffer
      <3>3. CASE ~\E d \in Counters : i \in bits[d]
        BY <1>2, <1>5, <1>13, <2>2, <3>3 DEF InBuffer, Summed, Kept
      <3> QED BY <3>1, <3>2, <3>3
    <2>3. \A i \in Made : i \in Ids
      BY <1>1 DEF Made, FlushTypes, Summed, AtomicTypeOK
    <2> QED BY <1>10, <2>1, <2>2, <2>3 DEF NothingLost, Kept
  <1> QED BY <1>12, <1>14, <1>15 DEF Safe

(* The batch of influx is written or dropped as one.                         *)
LEMMA InfluxWriteSafe ==
  ASSUME AInv, SInv, RInv, UNCHANGED backend, InfluxWrite
  PROVE  Safe
  <1>1. AtomicTypeOK /\ FlushTypes /\ Control /\ fl \in Flushes /\ backend \in Backends
    BY DEF AInv, SInv, FlushTypes
  <1>2. /\ UNCHANGED <<ops, bits, upd, added, space, heap, obs, appended, requests>>
        /\ UNCHANGED spaceVars
        /\ fl.pc = "send" /\ batch' = {} /\ requests = <<>>
    BY <1>1 DEF InfluxWrite, atomicVars, spaceVars, Control
  <1>3. fl' \in Flushes /\ fl'.pc = "idle"
    BY <1>1 DEF InfluxWrite, Flushes
  <1>4. ToWalk = {} /\ ToWalk' = {}
    BY <1>2, <1>3 DEF ToWalk
  <1>5. batch \in SUBSET SUBSET Ids /\ (Report(batch, {}) \/ Report({}, batch))
    BY <1>1 DEF InfluxWrite, FlushTypes
  <1>6. PICK out \in SUBSET SUBSET Ids :
           /\ out \subseteq batch
           /\ reported' = [i \in Ids |-> IF i \in UNION out /\ reported[i] < 2
                                         THEN reported[i] + 1 ELSE reported[i]]
           /\ reported' \in [Ids -> 0 .. 2] /\ dropped' \in SUBSET Ids
           /\ \A i \in Ids : reported[i] # 0 => reported'[i] # 0
           /\ \A i \in dropped : i \in dropped'
           /\ \A i \in UNION batch : reported'[i] # 0 \/ i \in dropped'
    BY <1>1, <1>5, ReportEither
  <1>7. FlushTypes' /\ Control'
    BY <1>1, <1>2, <1>3, <1>6 DEF FlushTypes, Control, Collects
  <1>8. SInv'
    BY <1>2, <1>4, <1>7, WalkKeepsSInv
  <1>9. /\ \A k \in Kinds : Roots(k)' = Roots(k)
        /\ \A x, l : In(x, l)' = In(x, l)
        /\ \A x : Live(x)' => Live(x)
    BY <1>2, <1>4, WalkFrame
  <1>10. RInv'
    <2>1. ASSUME NEW i \in UNION out
          PROVE  /\ reported[i] = 0 /\ InHeap(i)
                 /\ \A d \in Counters : i \notin bits'[d]
                 /\ \A x \in DOMAIN heap : \A l \in Labels : i \in In(x, l) => ~Live(x)'
      <3>1. reported[i] = 0 /\ Retired(i) /\ i \in Ids
        BY <1>6 DEF RInv, Unreported
      <3>2. PICK y \in DOMAIN heap, m \in Labels : i \in In(y, m) /\ ~Live(y)
        BY <3>1 DEF Retired
      <3>3. InHeap(i) /\ ~InCounter(i) /\ \A x \in DOMAIN heap : \A l \in Labels : i \in In(x, l) => x = y
        BY <3>1, <3>2 DEF InHeap, SInv, OnePlace
      <3>4. \A d \in Counters : i \notin bits[d]
        BY <3>3 DEF AInv, CounterConserves, InCounter
      <3> QED BY <1>2, <1>9, <3>1, <3>2, <3>3, <3>4
    <2>2. LinesApart'
      BY <1>2 DEF RInv, LinesApart
    <2>3. batch' = {} /\ requests' = <<>>
      BY <1>2
    <2>4. \A i \in UNION out :
            /\ reported[i] = 0 /\ (InHeap(i) \/ InCounter(i))
            /\ \A d \in Counters : i \notin bits'[d]
            /\ \A x \in DOMAIN heap : \A l \in Labels : i \in In(x, l) => ~Live(x)'
            /\ i \notin UNION batch'
            /\ \A b \in DOMAIN requests' : requests'[b].st # "done" => i \notin UNION requests'[b].lines
      <3>1. \A i : i \notin UNION batch' /\ \A b : b \notin DOMAIN requests'
        BY <2>3
      <3> QED BY <2>1, <3>1
    <2>5. \A i \in UNION batch' : reported[i] = 0 /\ Retired(i)'
      BY <2>3
    <2>6. \A b \in DOMAIN requests' : requests'[b].st # "done" =>
           \A i \in UNION requests'[b].lines : reported[i] = 0 /\ Retired(i)'
      BY <2>3
    <2>7. ToWalk' \subseteq ToWalk /\ \A d \in Counters : bits'[d] \subseteq bits[d]
      BY <1>2, <1>4
    <2> QED BY <1>1, <1>2, <1>6, <1>7, <2>2, <2>4, <2>5, <2>6, <2>7, ReportKeepsRInv
  <1>11. NothingLost
    <2>1. Made' = Made
      BY <1>2 DEF Made
    <2>2. ASSUME NEW i \in Made, InBuffer(i) PROVE Kept(i)'
      <3>1. CASE i \in UNION batch
        BY <1>6, <3>1 DEF Kept
      <3>2. CASE i \notin UNION batch
        BY <1>2, <1>4, <1>9, <2>2, <3>2 DEF InBuffer, Summed, Kept
      <3> QED BY <3>1, <3>2
    <2>3. \A i \in Made : i \in Ids
      BY <1>1 DEF Made, FlushTypes, Summed, AtomicTypeOK
    <2> QED BY <1>6, <2>1, <2>2, <2>3 DEF NothingLost, Kept
  <1> QED BY <1>8, <1>10, <1>11 DEF Safe

(* Multiplication by a natural number is monotone.                           *)
LEMMA TimesMonotone ==
  ASSUME NEW a \in Int, NEW b \in Int, NEW m \in Nat, a <= b
  PROVE  a * m <= b * m
  OBVIOUS

(* What division with a remainder says, for the batch of a position.         *)
LEMMA Division ==
  ASSUME NEW x \in Nat, NEW m \in Nat \ {0}
  PROVE  /\ x \div m \in Nat /\ (x \div m) * m <= x
         /\ x < ((x \div m) + 1) * m
  OBVIOUS

(* SetToSeq lists every element of a finite set once.                        *)
LEMMA Listing ==
  ASSUME NEW S, IsFiniteSet(S)
  PROVE  /\ SetToSeq(S) \in [1 .. Cardinality(S) -> S] /\ Cardinality(S) \in Nat
         /\ \A p, q \in 1 .. Cardinality(S) : SetToSeq(S)[p] = SetToSeq(S)[q] => p = q
         /\ \A v \in S : \E p \in 1 .. Cardinality(S) : SetToSeq(S)[p] = v
  <1> DEFINE n == Cardinality(S)
             s == SetToSeq(S)
  <1>1. n \in Nat /\ \E f \in [1 .. n -> S] : IsInjective(f)
    BY FS_CardinalityType DEF ExistsBijection, Bijection, Injection
  <1>2. s \in [1 .. n -> S] /\ IsInjective(s)
    BY <1>1 DEF SetToSeq
  <1>3. Cardinality(1 .. n) = n
    BY <1>1, FS_Interval
  <1>4. s \in Injection(1 .. n, S)
    BY <1>2 DEF Injection
  <1>5. s \in Surjection(1 .. n, S)
    BY <1>3, <1>4, FS_Injection
  <1>6. \A v \in S : \E p \in 1 .. n : s[p] = v
    BY <1>5 DEF Surjection
  <1> HIDE DEF s, n
  <1>7. \A p, q \in 1 .. n : s[p] = s[q] => p = q
    BY <1>2 DEF IsInjective
  <1> QED BY <1>1, <1>2, <1>6, <1>7 DEF s, n

(* Send cuts its datums into batches: each datum is in one of them.          *)
LEMMA BatchesPartition ==
  ASSUME batch \in SUBSET SUBSET Ids
  PROVE  /\ Batches \in Seq(SUBSET batch)
         /\ \A v \in batch : \E b \in DOMAIN Batches : v \in Batches[b]
         /\ \A a, b \in DOMAIN Batches : a # b => Batches[a] \cap Batches[b] = {}
  <1> DEFINE m == Cardinality(batch)
             d == SetToSeq(batch)
             n == (m + BatchSize - 1) \div BatchSize
             last(b) == IF b * BatchSize < m THEN b * BatchSize ELSE m
             At(b) == {p \in 1 .. m : (b - 1) * BatchSize + 1 <= p /\ p <= last(b)}
  <1>1. IsFiniteSet(batch)
    <2>1. IsFiniteSet(Ids)
      BY CellsAssumption, FS_Interval
    <2>2. IsFiniteSet(SUBSET SUBSET Ids) /\ IsFiniteSet(SUBSET Ids)
      BY <2>1, FS_SUBSET
    <2> QED BY <2>2, FS_Subset
  <1>2. /\ d \in [1 .. m -> batch] /\ m \in Nat
        /\ \A p, q \in 1 .. m : d[p] = d[q] => p = q
        /\ \A v \in batch : \E p \in 1 .. m : d[p] = v
    BY <1>1, Listing
  <1>3. d \in Seq(batch) /\ Len(d) = m
    BY <1>2
  <1>4. BatchSize \in Nat \ {0}
    BY FlushAssumption
  <1>5. n \in Nat /\ m + BatchSize - 1 < (n + 1) * BatchSize
    <2> HIDE DEF m
    <2>1. m + BatchSize - 1 \in Nat
      BY <1>2, <1>4
    <2> QED BY <1>4, <2>1, Division
  <1>6. Batches = [b \in 1 .. n |-> ToSet(SubSeq(d, (b - 1) * BatchSize + 1, last(b)))]
    BY <1>3 DEF Batches
  <1> HIDE DEF d, m, n
  <1>7. ASSUME NEW b \in 1 .. n
        PROVE  Batches[b] = {d[p] : p \in At(b)}
    <2> DEFINE lo == (b - 1) * BatchSize
               hi == last(b)
               sub == SubSeq(d, lo + 1, hi)
    <2>1. lo \in Nat /\ hi \in Nat /\ hi <= m
      BY <1>2, <1>4, <1>5
    <2>2. lo < m
      <3>1. b * BatchSize <= n * BatchSize
        BY <1>4, <1>5, TimesMonotone
      <3>2. n * BatchSize <= m + BatchSize - 1
        BY <1>2, <1>4, Division DEF n
      <3>3. lo = b * BatchSize - BatchSize /\ b * BatchSize \in Nat
        BY <1>4, <1>5
      <3> QED BY <1>2, <1>4, <1>5, <3>1, <3>2, <3>3
    <2>3. lo < hi
      BY <1>2, <1>4, <2>1, <2>2
    <2> HIDE DEF lo, hi
    <2>4. DOMAIN sub = 1 .. (hi - lo) /\ \A p \in 1 .. (hi - lo) : sub[p] = d[lo + p]
      BY <1>2, <1>3, <2>1, <2>3
    <2>5. ToSet(sub) = {sub[p] : p \in DOMAIN sub}
      BY DEF ToSet
    <2>6. \A p \in 1 .. (hi - lo) : lo + p \in (lo + 1) .. hi
      BY <2>1
    <2>7. \A q \in (lo + 1) .. hi : q - lo \in 1 .. (hi - lo) /\ lo + (q - lo) = q
      BY <2>1
    <2>8. ToSet(sub) = {d[q] : q \in (lo + 1) .. hi}
      <3>1. ASSUME NEW v \in ToSet(sub) PROVE v \in {d[q] : q \in (lo + 1) .. hi}
        BY <2>4, <2>5, <2>6, <3>1
      <3>2. ASSUME NEW v \in {d[q] : q \in (lo + 1) .. hi} PROVE v \in ToSet(sub)
        <4>1. PICK q \in (lo + 1) .. hi : v = d[q]
          BY <3>2
        <4>2. q - lo \in 1 .. (hi - lo) /\ sub[q - lo] = d[q]
          BY <2>4, <2>7
        <4> QED BY <2>4, <2>5, <4>1, <4>2
      <3> QED BY <3>1, <3>2
    <2>9. At(b) = (lo + 1) .. hi
      BY <1>2, <2>1 DEF lo, hi
    <2>10. Batches[b] = ToSet(sub)
      BY <1>6 DEF lo, hi
    <2> QED BY <2>8, <2>9, <2>10
  <1>8. DOMAIN Batches = 1 .. n
    BY <1>6
  <1>9. Batches \in Seq(SUBSET batch)
    <2>1. \A b \in 1 .. n : Batches[b] \in SUBSET batch
      BY <1>2, <1>7
    <2>2. Batches \in [1 .. n -> SUBSET batch]
      BY <1>6, <2>1
    <2> QED BY <1>5, <2>2
  <1>10. ASSUME NEW v \in batch PROVE \E b \in 1 .. n : v \in Batches[b]
    <2>1. PICK p \in 1 .. m : d[p] = v
      BY <1>2
    <2> DEFINE q == (p - 1) \div BatchSize
    <2>2. q \in Nat /\ q * BatchSize <= p - 1 /\ p - 1 < (q + 1) * BatchSize
      BY <1>2, <1>4, Division
    <2> HIDE DEF q
    <2>3. q + 1 \in 1 .. n
      <3>1. ASSUME n <= q PROVE FALSE
        <4>1. n * BatchSize <= q * BatchSize
          BY <1>4, <1>5, <2>2, <3>1, TimesMonotone
        <4>2. (n + 1) * BatchSize = n * BatchSize + BatchSize /\ n * BatchSize \in Nat /\ q * BatchSize \in Nat
          BY <1>4, <1>5, <2>2
        <4> QED BY <1>2, <1>4, <1>5, <2>2, <4>1, <4>2
      <3> QED BY <1>5, <2>2, <3>1
    <2>4. p \in At(q + 1)
      <3>1. (q + 1) - 1 = q /\ q * BatchSize \in Nat /\ (q + 1) * BatchSize \in Nat
        BY <1>4, <2>2
      <3> QED BY <1>2, <2>2, <3>1
    <2> QED BY <1>7, <2>1, <2>3, <2>4
  <1>11. ASSUME NEW a \in 1 .. n, NEW b \in 1 .. n, a < b, NEW v \in Batches[a], v \in Batches[b]
         PROVE  FALSE
    <2>1. PICK p \in At(a) : v = d[p]
      BY <1>7, <1>11
    <2>2. PICK q \in At(b) : v = d[q]
      BY <1>7, <1>11
    <2>3. p = q
      BY <1>2, <2>1, <2>2
    <2>4. a * BatchSize <= (b - 1) * BatchSize
      BY <1>4, <1>5, <1>11, TimesMonotone
    <2>5. a * BatchSize \in Nat /\ (b - 1) * BatchSize \in Nat
      BY <1>4, <1>5
    <2> QED BY <1>2, <2>1, <2>2, <2>3, <2>4, <2>5
  <1>12. \A a, b \in 1 .. n : a # b => Batches[a] \cap Batches[b] = {}
    <2> SUFFICES ASSUME NEW a \in 1 .. n, NEW b \in 1 .. n, a # b, NEW v \in Batches[a] \cap Batches[b]
                 PROVE  FALSE
      OBVIOUS
    <2>1. a < b \/ b < a
      BY <1>5
    <2> QED BY <1>11, <2>1
  <1> QED BY <1>8, <1>9, <1>10, <1>12

(* The datums of cloudwatch2 become requests that share none of them.        *)
LEMMA SendBeginsSafe ==
  ASSUME AInv, SInv, RInv, UNCHANGED backend, SendBegins
  PROVE  Safe
  <1>1. AtomicTypeOK /\ FlushTypes /\ Control /\ fl \in Flushes /\ backend \in Backends
    BY DEF AInv, SInv, FlushTypes
  <1>2. /\ UNCHANGED <<ops, bits, upd, added, space, heap, obs, appended, reported, dropped>>
        /\ UNCHANGED spaceVars
        /\ fl.pc = "send" /\ batch' = {} /\ requests = <<>>
    BY <1>1 DEF SendBegins, atomicVars, spaceVars, Control
  <1>3. fl' \in Flushes /\ fl'.pc = "wait"
    BY <1>1 DEF SendBegins, Flushes
  <1>4. ToWalk = {} /\ ToWalk' = {}
    BY <1>2, <1>3 DEF ToWalk
  <1>5. /\ Batches \in Seq(SUBSET batch) /\ batch \in SUBSET SUBSET Ids
        /\ \A v \in batch : \E b \in DOMAIN Batches : v \in Batches[b]
        /\ \A a, b \in DOMAIN Batches : a # b => Batches[a] \cap Batches[b] = {}
    BY <1>1, BatchesPartition DEF FlushTypes
  <1>6. requests' = [b \in DOMAIN Batches |-> [lines |-> Batches[b], st |-> "ready"]]
    BY DEF SendBegins
  <1>7. DOMAIN requests' = DOMAIN Batches
    BY <1>6
  <1>8. \A b \in DOMAIN Batches :
          /\ requests'[b].lines = Batches[b] /\ requests'[b].st = "ready"
          /\ Batches[b] \subseteq batch /\ requests'[b] \in Requests
    <2> SUFFICES ASSUME NEW b \in DOMAIN Batches
                 PROVE  /\ requests'[b].lines = Batches[b] /\ requests'[b].st = "ready"
                        /\ Batches[b] \subseteq batch /\ requests'[b] \in Requests
      OBVIOUS
    <2>1. Batches[b] \in SUBSET batch
      BY <1>5
    <2>2. Batches[b] \in SUBSET SUBSET Ids
      BY <1>5, <2>1
    <2>3. requests'[b] = [lines |-> Batches[b], st |-> "ready"]
      BY <1>6
    <2> QED BY <2>1, <2>2, <2>3 DEF Requests
  <1>9. requests' \in Seq(Requests)
    <2>1. DOMAIN Batches = 1 .. Len(Batches) /\ Len(Batches) \in Nat
      BY <1>5
    <2> QED BY <1>6, <1>8, <2>1
  <1>10. FlushTypes' /\ Control'
    BY <1>1, <1>2, <1>3, <1>9 DEF FlushTypes, Control, Collects
  <1>11. SInv'
    BY <1>2, <1>4, <1>10, WalkKeepsSInv
  <1>12. /\ \A k \in Kinds : Roots(k)' = Roots(k)
         /\ \A x, l : In(x, l)' = In(x, l)
         /\ \A i : Retired(i) => Retired(i)'
    BY <1>2, <1>4, WalkFrame
  <1>13. RInv'
    <2>1. \A b \in DOMAIN requests' : requests'[b].st # "done" =>
            \A i \in UNION requests'[b].lines : reported[i] = 0 /\ Retired(i)'
      <3>1. \A b \in DOMAIN requests' : \A i \in UNION requests'[b].lines : i \in UNION batch
        BY <1>7, <1>8
      <3> QED BY <1>12, <3>1 DEF RInv, Unreported
    <2>2. \A a, b \in DOMAIN requests' :
            a # b => (UNION requests'[a].lines) \cap (UNION requests'[b].lines) = {}
      <3> SUFFICES ASSUME NEW a \in DOMAIN Batches, NEW b \in DOMAIN Batches, a # b,
                          NEW v \in Batches[a], NEW w \in Batches[b], NEW i \in v, i \in w
                   PROVE  FALSE
        BY <1>7, <1>8
      <3>1. v \in batch /\ w \in batch
        BY <1>8
      <3>2. v # w
        BY <1>5
      <3> QED BY <3>1, <3>2 DEF RInv, LinesApart
    <2>3. LinesApart'
      BY <1>2, <2>2 DEF LinesApart
    <2>4. \A i \in UNION batch' : reported[i] = 0 /\ Retired(i)'
      BY <1>2
    <2>5. ToWalk' \subseteq ToWalk /\ \A c \in Counters : bits'[c] \subseteq bits[c]
      BY <1>2, <1>4
    <2> QED BY <1>1, <1>2, <1>10, <2>1, <2>3, <2>4, <2>5, QuietKeepsRInv
  <1>14. NothingLost
    <2>1. Made' = Made
      BY <1>2 DEF Made
    <2>2. ASSUME NEW i \in Made, InBuffer(i) PROVE InBuffer(i)'
      <3>1. CASE i \in UNION batch
        <4>1. PICK b \in DOMAIN Batches : i \in UNION Batches[b]
          BY <1>5, <3>1
        <4> QED BY <1>7, <1>8, <4>1 DEF InBuffer
      <3>2. CASE i \notin UNION batch
        BY <1>2, <1>4, <1>12, <2>2, <3>2 DEF InBuffer, Summed
      <3> QED BY <3>1, <3>2
    <2> QED BY <1>2, <2>1, <2>2 DEF NothingLost, Kept
  <1> QED BY <1>11, <1>13, <1>14 DEF Safe

(* A function on an initial interval is a sequence.                          *)
LEMMA IsSeq ==
  ASSUME NEW S, NEW n \in Nat, NEW f \in [1 .. n -> S]
  PROVE  f \in Seq(S)
  OBVIOUS

(* The state of a request changes, and its lines stay.                       *)
LEMMA RequestTo ==
  ASSUME FlushTypes, NEW b \in DOMAIN requests, NEW st \in {"ready", "put", "done"},
         requests' = [requests EXCEPT ![b].st = st]
  PROVE  /\ requests' \in Seq(Requests) /\ DOMAIN requests' = DOMAIN requests /\ requests # <<>>
         /\ \A a \in DOMAIN requests : /\ requests'[a].lines = requests[a].lines
                                       /\ a # b => requests'[a].st = requests[a].st
         /\ requests'[b].st = st
  <1>1. requests \in Seq(Requests)
    BY DEF FlushTypes
  <1>2. DOMAIN requests = 1 .. Len(requests) /\ Len(requests) \in Nat
    BY <1>1
  <1>3. \A a \in DOMAIN requests : requests[a] \in Requests
    BY <1>1
  <1>4. \A a \in DOMAIN requests : requests'[a] \in Requests
    BY <1>3 DEF Requests
  <1>5. requests' \in Seq(Requests)
    <2>1. DOMAIN requests' = 1 .. Len(requests) /\ requests' \in [1 .. Len(requests) -> Requests]
      BY <1>2, <1>4
    <2> QED BY <1>2, <2>1, IsSeq
  <1> QED BY <1>3, <1>5 DEF Requests

(* A request takes a place in the semaphore.                                 *)
LEMMA AcquireSafe ==
  ASSUME AInv, SInv, RInv, UNCHANGED backend, Acquire
  PROVE  Safe
  <1>1. AtomicTypeOK /\ FlushTypes /\ Control /\ fl \in Flushes /\ backend \in Backends
    BY DEF AInv, SInv, FlushTypes
  <1>2. /\ UNCHANGED <<ops, bits, upd, added, space, heap, obs, appended, fl, batch, reported, dropped>>
        /\ UNCHANGED spaceVars
    BY DEF Acquire, atomicVars, spaceVars
  <1>3. PICK b \in InState("ready") : requests' = [requests EXCEPT ![b].st = "put"]
    BY DEF Acquire
  <1>4. b \in DOMAIN requests /\ requests[b].st = "ready"
    BY DEF InState
  <1>5. /\ requests' \in Seq(Requests) /\ DOMAIN requests' = DOMAIN requests /\ requests # <<>>
        /\ \A a \in DOMAIN requests : requests'[a].lines = requests[a].lines
        /\ \A a \in DOMAIN requests : (requests'[a].st # "done") <=> (requests[a].st # "done")
    BY <1>1, <1>3, <1>4, RequestTo
  <1>6. Current' = Current /\ ToWalk' = ToWalk
    BY <1>2 DEF ToWalk, Current
  <1>7. FlushTypes' /\ Control'
    BY <1>1, <1>2, <1>5 DEF FlushTypes, Control, Collects
  <1>8. SInv'
    BY <1>2, <1>6, <1>7, WalkKeepsSInv
  <1>9. /\ \A k \in Kinds : Roots(k)' = Roots(k)
        /\ \A x, l : In(x, l)' = In(x, l)
        /\ \A i : Retired(i) => Retired(i)'
    BY <1>2, <1>6, WalkFrame
  <1>10. RInv'
    <2>1. \A a \in DOMAIN requests' : requests'[a].st # "done" =>
            \A i \in UNION requests'[a].lines : reported[i] = 0 /\ Retired(i)'
      BY <1>5, <1>9 DEF RInv, Unreported
    <2>2. LinesApart'
      BY <1>2, <1>5 DEF RInv, LinesApart
    <2>3. \A i \in UNION batch' : reported[i] = 0 /\ Retired(i)'
      BY <1>2, <1>9 DEF RInv, Unreported
    <2> QED BY <1>1, <1>2, <1>6, <1>7, <2>1, <2>2, <2>3, QuietKeepsRInv
  <1>11. NothingLost
    <2>1. Made' = Made
      BY <1>2 DEF Made
    <2>2. ASSUME NEW i \in Made, InBuffer(i) PROVE InBuffer(i)'
      BY <1>2, <1>5, <1>6, <1>9, <2>2 DEF InBuffer, Summed
    <2> QED BY <1>2, <2>1, <2>2 DEF NothingLost, Kept
  <1> QED BY <1>8, <1>10, <1>11 DEF Safe

(* A request succeeds or fails: its datums are reported or dropped.          *)
LEMMA PutSafe ==
  ASSUME AInv, SInv, RInv, UNCHANGED backend, PutMetricData
  PROVE  Safe
  <1>1. AtomicTypeOK /\ FlushTypes /\ Control /\ fl \in Flushes /\ backend \in Backends
    BY DEF AInv, SInv, FlushTypes
  <1>2. /\ UNCHANGED <<ops, bits, upd, added, space, heap, obs, appended, fl, batch>>
        /\ UNCHANGED spaceVars
    BY DEF PutMetricData, atomicVars, spaceVars
  <1>3. PICK b \in InState("put") :
          /\ Report(requests[b].lines, {}) \/ Report({}, requests[b].lines)
          /\ requests' = [requests EXCEPT ![b].st = "done"]
    BY DEF PutMetricData
  <1>4. b \in DOMAIN requests /\ requests[b].st = "put" /\ requests[b] \in Requests
    BY <1>1 DEF InState, FlushTypes
  <1>5. /\ requests' \in Seq(Requests) /\ DOMAIN requests' = DOMAIN requests /\ requests # <<>>
        /\ \A a \in DOMAIN requests : requests'[a].lines = requests[a].lines
        /\ \A a \in DOMAIN requests : (requests'[a].st # "done") <=> (a # b /\ requests[a].st # "done")
    BY <1>1, <1>3, <1>4, RequestTo
  <1>6. Current' = Current /\ ToWalk' = ToWalk
    BY <1>2 DEF ToWalk, Current
  <1> DEFINE S == requests[b].lines
  <1>7. S \in SUBSET SUBSET Ids /\ (Report(S, {}) \/ Report({}, S))
    BY <1>3, <1>4 DEF Requests
  <1> HIDE DEF S
  <1>8. PICK out \in SUBSET SUBSET Ids :
           /\ out \subseteq S
           /\ reported' = [i \in Ids |-> IF i \in UNION out /\ reported[i] < 2
                                         THEN reported[i] + 1 ELSE reported[i]]
           /\ reported' \in [Ids -> 0 .. 2] /\ dropped' \in SUBSET Ids
           /\ \A i \in Ids : reported[i] # 0 => reported'[i] # 0
           /\ \A i \in dropped : i \in dropped'
           /\ \A i \in UNION S : reported'[i] # 0 \/ i \in dropped'
    BY <1>1, <1>7, ReportEither
  <1>9. FlushTypes' /\ Control'
    BY <1>1, <1>2, <1>5, <1>8 DEF FlushTypes, Control, Collects
  <1>10. SInv'
    BY <1>2, <1>6, <1>9, WalkKeepsSInv
  <1>11. /\ \A k \in Kinds : Roots(k)' = Roots(k)
         /\ \A x, l : In(x, l)' = In(x, l)
         /\ \A x : Live(x)' => Live(x)
         /\ \A i : Retired(i) => Retired(i)'
    BY <1>2, <1>6, WalkFrame
  <1>12. batch = {}
    BY <1>1, <1>5 DEF Control
  <1>13. RInv'
    <2>1. ASSUME NEW i \in UNION out
          PROVE  /\ reported[i] = 0 /\ InHeap(i)
                 /\ \A d \in Counters : i \notin bits'[d]
                 /\ \A x \in DOMAIN heap : \A l \in Labels : i \in In(x, l) => ~Live(x)'
                 /\ \A a \in DOMAIN requests : a # b => i \notin UNION requests[a].lines
      <3>1. i \in UNION requests[b].lines /\ i \in Ids
        BY <1>8 DEF S
      <3>2. reported[i] = 0 /\ Retired(i)
        BY <1>4, <3>1 DEF RInv, Unreported
      <3>3. PICK y \in DOMAIN heap, m \in Labels : i \in In(y, m) /\ ~Live(y)
        BY <3>2 DEF Retired
      <3>4. InHeap(i) /\ ~InCounter(i) /\ \A x \in DOMAIN heap : \A l \in Labels : i \in In(x, l) => x = y
        BY <3>1, <3>3 DEF InHeap, SInv, OnePlace
      <3>5. \A d \in Counters : i \notin bits[d]
        BY <3>4 DEF AInv, CounterConserves, InCounter
      <3>6. \A a \in DOMAIN requests : a # b => i \notin UNION requests[a].lines
        BY <1>4, <3>1 DEF RInv, LinesApart
      <3> QED BY <1>2, <1>11, <3>2, <3>3, <3>4, <3>5, <3>6
    <2>2. LinesApart'
      BY <1>2, <1>5 DEF RInv, LinesApart
    <2>3. \A i : i \notin UNION batch'
      BY <1>2, <1>12
    <2>4. \A i \in UNION out :
            /\ reported[i] = 0 /\ (InHeap(i) \/ InCounter(i))
            /\ \A d \in Counters : i \notin bits'[d]
            /\ \A x \in DOMAIN heap : \A l \in Labels : i \in In(x, l) => ~Live(x)'
            /\ i \notin UNION batch'
            /\ \A a \in DOMAIN requests' : requests'[a].st # "done" => i \notin UNION requests'[a].lines
      BY <1>5, <2>1, <2>3
    <2>5. \A i \in UNION batch' : reported[i] = 0 /\ Retired(i)'
      BY <2>3
    <2>6. \A a \in DOMAIN requests' : requests'[a].st # "done" =>
           \A i \in UNION requests'[a].lines : reported[i] = 0 /\ Retired(i)'
      BY <1>5, <1>11 DEF RInv, Unreported
    <2>7. ToWalk' \subseteq ToWalk /\ \A d \in Counters : bits'[d] \subseteq bits[d]
      BY <1>2, <1>6
    <2> QED BY <1>1, <1>2, <1>8, <1>9, <2>2, <2>4, <2>5, <2>6, <2>7, ReportKeepsRInv
  <1>14. NothingLost
    <2>1. Made' = Made
      BY <1>2 DEF Made
    <2>2. ASSUME NEW i \in Made, InBuffer(i) PROVE Kept(i)'
      <3>1. CASE i \in UNION S
        BY <1>8, <3>1 DEF Kept
      <3>2. CASE i \notin UNION S
        <4>1. InBuffer(i)'
          BY <1>2, <1>5, <1>6, <1>11, <2>2, <3>2 DEF InBuffer, Summed, S
        <4> QED BY <4>1 DEF Kept
      <3> QED BY <3>1, <3>2
    <2>3. \A i \in Made : i \in Ids
      BY <1>1 DEF Made, FlushTypes, Summed, AtomicTypeOK
    <2> QED BY <1>8, <2>1, <2>2, <2>3 DEF NothingLost, Kept
  <1> QED BY <1>10, <1>13, <1>14 DEF Safe

(* Send returns when every request is done.                                  *)
LEMMA SendReturnsSafe ==
  ASSUME AInv, SInv, RInv, UNCHANGED backend, SendReturns
  PROVE  Safe
  <1>1. AtomicTypeOK /\ FlushTypes /\ Control /\ fl \in Flushes /\ backend \in Backends
    BY DEF AInv, SInv, FlushTypes
  <1>2. /\ UNCHANGED <<ops, bits, upd, added, space, heap, obs, appended, batch, reported, dropped>>
        /\ UNCHANGED spaceVars
        /\ fl.pc = "wait" /\ requests' = <<>>
        /\ \A b \in DOMAIN requests : requests[b].st = "done"
    BY DEF SendReturns, atomicVars, spaceVars, InState
  <1>3. fl' \in Flushes /\ fl'.pc = "idle"
    BY <1>1 DEF SendReturns, Flushes
  <1>4. ToWalk = {} /\ ToWalk' = {}
    BY <1>2, <1>3 DEF ToWalk
  <1>5. FlushTypes' /\ Control'
    BY <1>1, <1>2, <1>3 DEF FlushTypes, Control, Collects
  <1>6. SInv'
    BY <1>2, <1>4, <1>5, WalkKeepsSInv
  <1>7. /\ \A k \in Kinds : Roots(k)' = Roots(k)
        /\ \A x, l : In(x, l)' = In(x, l)
        /\ \A i : Retired(i) => Retired(i)'
    BY <1>2, <1>4, WalkFrame
  <1>8. RInv'
    <2>1. LinesApart'
      BY <1>2 DEF RInv, LinesApart
    <2>2. \A i \in UNION batch' : reported[i] = 0 /\ Retired(i)'
      BY <1>2, <1>7 DEF RInv, Unreported
    <2>3. \A b \in DOMAIN requests' : FALSE
      BY <1>2
    <2>4. ToWalk' \subseteq ToWalk /\ \A d \in Counters : bits'[d] \subseteq bits[d]
      BY <1>2, <1>4
    <2> QED BY <1>1, <1>2, <1>5, <2>1, <2>2, <2>3, <2>4, QuietKeepsRInv
  <1>9. NothingLost
    <2>1. Made' = Made
      BY <1>2 DEF Made
    <2>2. ASSUME NEW i \in Made, InBuffer(i) PROVE InBuffer(i)'
      BY <1>2, <1>4, <1>7, <2>2 DEF InBuffer, Summed
    <2> QED BY <1>2, <2>1, <2>2 DEF NothingLost, Kept
  <1> QED BY <1>6, <1>8, <1>9 DEF Safe

(* Reset hands the roots of a space over to the walk.                        *)
LEMMA SectionBeginsSafe ==
  ASSUME AInv, SInv, RInv, UNCHANGED backend, SectionBegins
  PROVE  Safe
  <1>1. AtomicTypeOK /\ FlushTypes /\ Control /\ fl \in Flushes /\ backend \in Backends
    BY DEF AInv, SInv, FlushTypes
  <1>2. /\ UNCHANGED <<ops, bits, upd, added, heap, obs, appended, batch, requests, reported, dropped>>
        /\ fl.pc = "section" /\ requests = <<>>
    BY <1>1 DEF SectionBegins, atomicVars, spaceVars, Control
  <1>3. SectionOK(backend, Current) /\ fl.sec \in DOMAIN WriteTo[backend] /\ (Collects => ~fl.err) /\ ToWalk = {}
    BY <1>1, <1>2, CurrentOK DEF Control, ToWalk
  <1>4. CASE Current.store \in {"flag", "reset"}
    <2>1. UNCHANGED spaceVars /\ \E S \in {Gauges, Counters} : fl' = [fl EXCEPT !.pc = "walk", !.todo = S]
      BY <1>4 DEF SectionBegins
    <2>2. fl' \in Flushes /\ fl'.pc = "walk" /\ fl'.sec = fl.sec /\ fl'.err = fl.err
      <3>1. PICK S \in {Gauges, Counters} : fl' = [fl EXCEPT !.pc = "walk", !.todo = S]
        BY <2>1
      <3>2. S \in SUBSET (Nat \cup Cells)
        OBVIOUS
      <3> QED BY <1>1, <3>1, <3>2 DEF Flushes
    <2>3. FlushTypes' /\ Control'
      BY <1>1, <1>2, <1>3, <2>1, <2>2 DEF FlushTypes, Control, Collects, spaceVars
    <2>4. ToWalk' = {}
      BY <1>4, <2>2 DEF ToWalk, Current
    <2> QED BY <1>1, <1>2, <1>3, <2>1, <2>3, <2>4, QuietStep
  <1>5. CASE Current.store = "space"
    <2> DEFINE k == Current.kind
    <2>1. k \in Kinds /\ space' = [space EXCEPT ![k] = EmptySpace] /\ fl' = [fl EXCEPT !.pc = "walk", !.todo = Roots(k)]
      BY <1>3, <1>5 DEF SectionBegins, SectionOK, Reset
    <2>2. \A j \in Kinds : space[j] \in [Names -> 0 .. Len(heap)] /\ Len(heap) \in Nat
      BY <1>1 DEF FlushTypes
    <2>3. \A j \in Kinds : \A n \in Names : space'[j][n] = (IF j = k THEN 0 ELSE space[j][n])
      BY <1>1, <2>1 DEF FlushTypes, EmptySpace
    <2>4. \A j \in Kinds : Roots(j)' = (IF j = k THEN {} ELSE Roots(j))
      BY <2>3 DEF Roots
    <2>5. \A j \in Kinds : Roots(j) \subseteq DOMAIN heap /\ Roots(j) \subseteq Nat
      BY <1>1, <2>2 DEF Roots, FlushTypes
    <2>6. fl' \in Flushes /\ fl'.pc = "walk" /\ fl'.sec = fl.sec /\ fl'.err = fl.err /\ fl'.todo = Roots(k)
      <3>1. Roots(k) \in SUBSET (Nat \cup Cells)
        BY <2>1, <2>5
      <3> QED BY <1>1, <2>1, <3>1 DEF Flushes
    <2>7. Current' = Current /\ ToWalk' = Roots(k)
      BY <1>5, <2>6 DEF ToWalk, Current
    <2> HIDE DEF k
    <2>8. FlushTypes' /\ Control'
      <3>1. space' \in [Kinds -> [Names -> 0 .. Len(heap)]]
        BY <1>1, <2>1, <2>2 DEF FlushTypes, EmptySpace
      <3> QED BY <1>1, <1>2, <1>3, <2>6, <3>1 DEF FlushTypes, Control, Collects
    <2>9. RootsApart'
      <3>1. \A j, m \in Kinds : \A n, o \in Names :
              space'[j][n] # 0 /\ space'[j][n] = space'[m][o] => j = m /\ n = o
        BY <2>3 DEF SInv, RootsApart
      <3>2. ASSUME NEW x \in Roots(k) PROVE x \in DOMAIN heap /\ \A j \in Kinds : x \notin Roots(j)'
        <4>1. x \in DOMAIN heap
          BY <2>1, <2>5
        <4>2. \A j \in Kinds : j # k => x \notin Roots(j)
          BY <2>1 DEF SInv, RootsApart, Roots
        <4> QED BY <2>4, <4>1, <4>2
      <3> QED BY <1>2, <2>7, <3>1, <3>2 DEF RootsApart
    <2>10. \A x, l : In(x, l)' = In(x, l)
      BY <1>2 DEF In
    <2>11. \A i : (InHeap(i)' <=> InHeap(i)) /\ (InCounter(i)' <=> InCounter(i))
      BY <1>2, <2>10 DEF InHeap, InCounter
    <2>12. Pending'
      <3> SUFFICES ASSUME NEW t \in Threads, obs[t].pc = "node"
                   PROVE  /\ \A j \in Kinds : obs[t].node \in Roots(j)' => j = obs[t].kind
                          /\ obs[t].node \in ToWalk' => Current'.kind = obs[t].kind
        BY <1>2, <2>11 DEF SInv, Pending
      <3>1. \A j \in Kinds : obs[t].node \in Roots(j) => j = obs[t].kind
        BY DEF SInv, Pending
      <3> QED BY <2>1, <2>4, <2>7, <3>1 DEF k
    <2>13. OnePlace'
      BY <1>2, <2>10, <2>11 DEF SInv, OnePlace
    <2>14. GaugesApart'
      <3>1. "gauges" \in Kinds /\ k = Current.kind
        BY TablesAssumption DEF k
      <3> QED BY <1>2, <2>4, <2>7, <2>10, <3>1 DEF SInv, GaugesApart
    <2>15. SInv'
      BY <2>8, <2>9, <2>12, <2>13, <2>14 DEF SInv
    <2>16. \A x : Live(x)' <=> Live(x)
      BY <1>3, <2>1, <2>4, <2>7 DEF Live
    <2>17. \A i : Retired(i)' <=> Retired(i)
      BY <1>2, <2>10, <2>16 DEF Retired
    <2>18. RInv'
      BY <1>2, <2>10, <2>11, <2>16, <2>17 DEF RInv, Unreported, LinesApart
    <2>19. NothingLost
      <3>1. Made' = Made
        BY <1>2 DEF Made
      <3>2. ASSUME NEW i \in Made, InBuffer(i) PROVE InBuffer(i)'
        BY <1>2, <1>3, <2>1, <2>4, <2>7, <2>10, <3>2 DEF InBuffer, Summed
      <3> QED BY <1>2, <3>1, <3>2 DEF NothingLost, Kept
    <2> QED BY <2>15, <2>18, <2>19 DEF Safe
  <1> QED BY <1>3, <1>4, <1>5 DEF SectionOK

(* Everything of the flush stays while a goroutine updates.                  *)
LEMMA OutsideFlush ==
  ASSUME UNCHANGED <<backend, flushVars>>
  PROVE  /\ UNCHANGED <<backend, fl, batch, requests, reported, dropped>>
         /\ ToWalk' = ToWalk /\ Current' = Current /\ (Control' <=> Control)
  BY DEF flushVars, ToWalk, Current, Control, Collects

(* What the goroutine's own step may be where no list and no counter changes.*)
LEMMA UpdaterSafe ==
  ASSUME AInv, SInv, RInv, AInv', UNCHANGED <<backend, flushVars, spaceVars, added>>,
         ops' \in {ops, ops + 1}, \A c \in Counters : bits'[c] = bits[c],
         \A u \in Threads : upd'[u].pc # "idle" =>
           upd'[u].id = ops + 1 \/ (upd[u].pc # "idle" /\ upd'[u].id = upd[u].id),
         \A u \in Threads : upd'[u].pc \in {"load", "cas"} /\ upd'[u].cell \in Counters =>
           \/ upd'[u].id = ops + 1
           \/ upd[u].pc \in {"load", "cas"} /\ upd[u].cell \in Counters /\ upd'[u].id = upd[u].id
  PROVE  Safe
  <1>1. /\ UNCHANGED <<backend, fl, batch, requests, reported, dropped>>
        /\ ToWalk' = ToWalk /\ Current' = Current /\ Control'
    BY OutsideFlush DEF SInv
  <1>2. /\ UNCHANGED <<space, heap, obs, appended, added>>
        /\ \A x, l : In(x, l)' = In(x, l)
        /\ \A k : Roots(k)' = Roots(k)
        /\ \A i : (InHeap(i)' <=> InHeap(i)) /\ (InCounter(i)' <=> InCounter(i))
    BY DEF spaceVars, In, Roots, InHeap, InCounter
  <1>3. ops \in 0 .. MaxOps /\ ops + 1 \notin 1 .. ops /\ 1 .. ops \subseteq 1 .. ops'
    BY CellsAssumption DEF AInv, AtomicTypeOK
  <1>4. \A i \in Ids : InHeap(i) \/ InCounter(i) => i \in 1 .. ops
    BY DEF SInv, OnePlace, AInv, AddedOK, InCounter
  <1>5. \A u \in Threads : upd'[u].pc # "idle" => upd'[u].id \in Ids
    <2>1. \A u \in Threads : upd'[u].pc # "idle" => upd'[u].id \in 1 .. ops'
      BY DEF AInv, UpdatersOK
    <2>2. ops' \in 0 .. MaxOps
      BY DEF AInv, AtomicTypeOK
    <2> QED BY <2>1, <2>2, CellsAssumption
  <1>6. FlushTypes'
    BY <1>1, <1>2 DEF SInv, FlushTypes
  <1>7. RootsApart' /\ GaugesApart'
    BY <1>1, <1>2 DEF SInv, RootsApart, GaugesApart
  <1>8. Pending'
    <2> SUFFICES ASSUME NEW t \in Threads, obs[t].pc = "node"
                 PROVE  /\ obs[t].id \in 1 .. ops'
                        /\ \A u \in Threads : upd'[u].pc # "idle" => upd'[u].id # obs[t].id
      BY <1>1, <1>2 DEF SInv, Pending
    <2>1. /\ obs[t].id \in 1 .. ops
          /\ \A u \in Threads : upd[u].pc # "idle" => upd[u].id # obs[t].id
      BY DEF SInv, Pending
    <2> QED BY <1>3, <2>1
  <1>9. OnePlace'
    <2>1. \A i \in Ids : InHeap(i)' => i \in 1 .. ops' /\ ~InCounter(i)'
      BY <1>2, <1>3 DEF SInv, OnePlace
    <2>2. ASSUME NEW u \in Threads, upd'[u].pc \in {"load", "cas"}, upd'[u].cell \in Counters
          PROVE  ~InHeap(upd'[u].id) /\ ~InCounter(upd'[u].id)
      <3>1. CASE upd'[u].id = ops + 1
        BY <1>3, <1>4, <1>5, <2>2, <3>1
      <3>2. CASE upd[u].pc \in {"load", "cas"} /\ upd[u].cell \in Counters /\ upd'[u].id = upd[u].id
        BY <3>2 DEF SInv, OnePlace
      <3> QED BY <2>2, <3>1, <3>2
    <2>3. \A u \in Threads : (upd[u].pc \in {"load", "cas"} /\ upd[u].cell \in Counters =>
                               ~InHeap(upd[u].id) /\ ~InCounter(upd[u].id))'
      BY <1>2, <2>2 DEF InHeap, InCounter
    <2> QED BY <1>2, <2>1, <2>3 DEF SInv, OnePlace
  <1>10. SInv'
    BY <1>1, <1>6, <1>7, <1>8, <1>9 DEF SInv
  <1>11. \A x : Live(x)' <=> Live(x)
    BY <1>1, <1>2 DEF Live
  <1>12. \A i : Retired(i)' <=> Retired(i)
    BY <1>2, <1>11 DEF Retired
  <1>13. RInv'
    BY <1>1, <1>2, <1>11, <1>12 DEF RInv, Unreported, LinesApart
  <1>14. NothingLost
    <2>1. Made' = Made
      BY <1>2 DEF Made
    <2>2. \A i : InBuffer(i)' <=> InBuffer(i)
      BY <1>1, <1>2 DEF InBuffer
    <2> QED BY <1>1, <2>1, <2>2 DEF NothingLost, Kept
  <1> QED BY <1>10, <1>13, <1>14 DEF Safe

(* Add and Set of a metric begin.                                            *)
LEMMA BeginSafe ==
  ASSUME AInv, SInv, RInv, AInv', UNCHANGED <<backend, flushVars, spaceVars>>,
         NEW t \in Threads, NEW c \in Cells, NEW p \in {"load", "store"}, Begin(t, c, p)
  PROVE  Safe
  <1>1. \A u \in Threads : upd'[u].pc # "idle" =>
          upd'[u].id = ops + 1 \/ (upd[u].pc # "idle" /\ upd'[u] = upd[u])
    BY DEF Begin, AInv, AtomicTypeOK
  <1>2. \A u \in Threads : upd'[u].id = ops + 1 \/ upd'[u] = upd[u]
    BY DEF Begin, AInv, AtomicTypeOK
  <1>3. UNCHANGED added /\ ops' \in {ops, ops + 1} /\ \A d \in Counters : bits'[d] = bits[d]
    BY DEF Begin
  <1> QED BY <1>1, <1>2, <1>3, UpdaterSafe

(* An update that the sample rate skips.                                     *)
LEMMA SampledOutSafe ==
  ASSUME AInv, SInv, RInv, AInv', UNCHANGED <<backend, flushVars>>, NEW t \in Threads, SampledOut(t)
  PROVE  Safe
  <1>1. UNCHANGED <<backend, flushVars, spaceVars, added>>
    BY DEF SampledOut
  <1>2. UNCHANGED upd /\ ops' \in {ops, ops + 1} /\ \A d \in Counters : bits'[d] = bits[d]
    BY DEF SampledOut
  <1> QED BY <1>1, <1>2, UpdaterSafe

(* The steps of Add and Set that change no counter.                          *)
LEMMA UpdateMovesSafe ==
  ASSUME AInv, SInv, RInv, AInv', UNCHANGED <<backend, flushVars, spaceVars>>,
         NEW t \in Threads, AddLoad(t) \/ AddRetries(t) \/ SetStores(t) \/ Touch(t)
  PROVE  Safe
  <1>1. upd \in [Threads -> Updates]
    BY DEF AInv, AtomicTypeOK
  <1>2. upd[t].pc # "idle" /\ \A u \in Threads :
          /\ upd'[u].cell = upd[u].cell /\ upd'[u].id = upd[u].id
          /\ u # t => upd'[u].pc = upd[u].pc
          /\ upd'[t].pc \in {"load", "cas"} => upd[t].pc \in {"load", "cas"}
    <2>1. CASE AddLoad(t)
      BY <1>1, <2>1 DEF AddLoad, Updates
    <2>2. CASE AddRetries(t)
      BY <1>1, <2>2 DEF AddRetries, UpdTo, Updates
    <2>3. CASE SetStores(t)
      BY <1>1, <2>3 DEF SetStores, UpdTo, Updates
    <2>4. CASE Touch(t)
      BY <1>1, <2>4 DEF Touch, UpdTo, Updates
    <2> QED BY <2>1, <2>2, <2>3, <2>4
  <1>3. \A c \in Counters : bits'[c] = bits[c]
    <2>1. CASE SetStores(t)
      <3>1. upd[t].cell \in Gauges /\ upd[t].cell \notin Counters
        BY <2>1, CellsAssumption DEF SetStores, AInv, UpdatersOK
      <3> QED BY <2>1, <3>1 DEF SetStores, AInv, AtomicTypeOK
    <2>2. CASE ~SetStores(t)
      BY <2>2 DEF AddLoad, AddRetries, Touch
    <2> QED BY <2>1, <2>2
  <1>4. UNCHANGED added /\ ops' \in {ops, ops + 1}
    BY DEF AddLoad, AddRetries, SetStores, Touch
  <1> QED BY <1>2, <1>3, <1>4, UpdaterSafe

(* A delta gets into its counter, where it was not before.                   *)
LEMMA AddSwapsSafe ==
  ASSUME AInv, SInv, RInv, AInv', UNCHANGED <<backend, flushVars, spaceVars>>,
         NEW t \in Threads, AddSwaps(t)
  PROVE  Safe
  <1>0. PICK c, i : c = upd[t].cell /\ i = upd[t].id
    OBVIOUS
  <1>1. /\ upd \in [Threads -> Updates] /\ c \in Cells /\ i \in 1 .. ops /\ i \in Ids
        /\ upd[t].pc = "cas" /\ UNCHANGED ops
        /\ bits' = [bits EXCEPT ![c] = bits[c] \cup {i}]
        /\ upd' = [upd EXCEPT ![t].pc = IF c \in Gauges THEN "touch" ELSE "idle"]
        /\ added' = IF c \in Counters THEN [added EXCEPT ![c] = added[c] \cup {i}] ELSE added
    BY <1>0, CellsAssumption DEF AInv, AddSwaps, AddDone, UpdTo, AtomicTypeOK, Updates, UpdatersOK
  <1>2. \A u \in Threads :
          /\ upd'[u].cell = upd[u].cell /\ upd'[u].id = upd[u].id
          /\ u # t => upd'[u].pc = upd[u].pc
          /\ upd'[t].pc \notin {"load", "cas"}
    BY <1>1 DEF Updates
  <1>3. CASE c \notin Counters
    <2>1. UNCHANGED added /\ ops' \in {ops, ops + 1} /\ \A d \in Counters : bits'[d] = bits[d]
      BY <1>1, <1>3 DEF AInv, AtomicTypeOK
    <2> QED BY <1>1, <1>2, <2>1, UpdaterSafe
  <1>4. CASE c \in Counters
    <2>1. /\ UNCHANGED <<backend, fl, batch, requests, reported, dropped>>
          /\ ToWalk' = ToWalk /\ Current' = Current /\ Control'
      BY OutsideFlush DEF SInv
    <2>2. /\ UNCHANGED <<space, heap, obs, appended>>
          /\ \A x, l : In(x, l)' = In(x, l)
          /\ \A k : Roots(k)' = Roots(k)
          /\ \A j : InHeap(j)' <=> InHeap(j)
      BY DEF spaceVars, In, Roots, InHeap
    <2>3. \A d \in Counters :
            /\ added'[d] = IF d = c THEN added[d] \cup {i} ELSE added[d]
            /\ bits'[d] = IF d = c THEN bits[d] \cup {i} ELSE bits[d]
      BY <1>1, <1>4 DEF AInv, AtomicTypeOK
    <2>4. ~InHeap(i) /\ ~InCounter(i)
      BY <1>0, <1>1, <1>4 DEF SInv, OnePlace
    <2>5. \A j : InCounter(j)' <=> (InCounter(j) \/ j = i)
      BY <1>4, <2>3 DEF InCounter
    <2>6. FlushTypes'
      BY <2>1, <2>2 DEF SInv, FlushTypes
    <2>7. RootsApart' /\ GaugesApart'
      BY <2>1, <2>2 DEF SInv, RootsApart, GaugesApart
    <2>8. Pending'
      <3> SUFFICES ASSUME NEW s \in Threads, obs[s].pc = "node"
                   PROVE  /\ ~InCounter(obs[s].id)'
                          /\ \A u \in Threads : upd'[u].pc # "idle" => upd'[u].id # obs[s].id
        BY <1>1, <2>1, <2>2 DEF SInv, Pending
      <3>1. /\ ~InCounter(obs[s].id)
            /\ \A u \in Threads : upd[u].pc # "idle" => upd[u].id # obs[s].id
        BY DEF SInv, Pending
      <3>2. obs[s].id # i
        BY <1>0, <1>1, <3>1
      <3>3. ~InCounter(obs[s].id)'
        BY <2>2, <2>3, <3>1, <3>2 DEF InCounter
      <3>4. \A u \in Threads : upd'[u].pc # "idle" => upd[u].pc # "idle"
        BY <1>1, <1>2
      <3> QED BY <1>2, <3>1, <3>3, <3>4
    <2>9. OnePlace'
      <3>1. \A j \in Ids : InHeap(j)' => j \in 1 .. ops' /\ ~InCounter(j)'
        BY <1>1, <2>2, <2>4, <2>5 DEF SInv, OnePlace
      <3>2. \A d, e \in Counters : d # e => added'[d] \cap added'[e] = {}
        <4>1. \A d, e \in Counters : d # e => added[d] \cap added[e] = {}
          BY DEF SInv, OnePlace
        <4>2. \A d \in Counters : i \notin added[d]
          BY <2>4 DEF InCounter
        <4>3. \A d \in Counters : added'[d] = IF d = c THEN added[d] \cup {i} ELSE added[d]
          BY <2>3
        <4> QED BY <4>1, <4>2, <4>3
      <3>3. ASSUME NEW u \in Threads, upd'[u].pc \in {"load", "cas"}, upd'[u].cell \in Counters
            PROVE  ~InHeap(upd[u].id) /\ ~InCounter(upd[u].id) /\ upd[u].id # i
        <4>1. u # t /\ upd[u].pc \in {"load", "cas"} /\ upd[u].cell \in Counters
          BY <1>2, <3>3
        <4> QED BY <1>0, <1>1, <4>1 DEF SInv, OnePlace, AInv, IdsDiffer
      <3>4. \A u \in Threads : (upd[u].pc \in {"load", "cas"} /\ upd[u].cell \in Counters =>
                                 ~InHeap(upd[u].id) /\ ~InCounter(upd[u].id))'
        <4>1. \A u \in Threads : upd'[u].pc \in {"load", "cas"} /\ upd'[u].cell \in Counters =>
                ~InHeap(upd'[u].id) /\ ~InCounter(upd'[u].id) /\ upd'[u].id # i
          BY <1>2, <3>3
        <4>2. \A u \in Threads : ~InHeap(upd'[u].id) => ~InHeap(upd[u].id)'
          BY <2>2 DEF InHeap
        <4>3. \A u \in Threads : ~InCounter(upd'[u].id) /\ upd'[u].id # i => ~InCounter(upd[u].id)'
          BY <2>3 DEF InCounter
        <4> QED BY <4>1, <4>2, <4>3
      <3> QED BY <2>2, <3>1, <3>2, <3>4 DEF SInv, OnePlace
    <2>10. SInv'
      BY <2>1, <2>6, <2>7, <2>8, <2>9 DEF SInv
    <2>11. \A x : Live(x)' <=> Live(x)
      BY <2>1, <2>2 DEF Live
    <2>12. \A j : Retired(j)' <=> Retired(j)
      BY <2>2, <2>11 DEF Retired
    <2>13. RInv'
      <3>1. reported[i] = 0
        BY <1>1, <2>4 DEF RInv
      <3>2. \A d \in Counters : \A j \in bits'[d] : reported'[j] = 0
        BY <2>1, <2>3, <3>1 DEF RInv, Unreported
      <3>3. \A j \in Ids : reported'[j] < 2 /\ (reported'[j] # 0 => InHeap(j)' \/ InCounter(j)')
        BY <2>1, <2>2, <2>5 DEF RInv
      <3> QED BY <2>1, <2>2, <2>11, <2>12, <3>2, <3>3 DEF RInv, Unreported, LinesApart
    <2>14. NothingLost
      <3>1. \A j : j \in Made' => j \in Made \/ j = i
        <4>1. \A j : j \in Made' <=> (\E k \in Summed : j \in appended'[k]) \/ InCounter(j)'
          BY DEF Made, InCounter
        <4>2. \A j : j \in Made <=> (\E k \in Summed : j \in appended[k]) \/ InCounter(j)
          BY DEF Made, InCounter
        <4> QED BY <2>2, <2>5, <4>1, <4>2
      <3>2. \A j : InBuffer(j) => InBuffer(j)'
        BY <2>1, <2>2, <2>3 DEF InBuffer
      <3>3. InBuffer(i)'
        <4>1. i \in bits'[c]
          BY <1>4, <2>3
        <4> QED BY <1>4, <4>1 DEF InBuffer
      <3> QED BY <2>1, <3>1, <3>2, <3>3 DEF NothingLost, Kept
    <2> QED BY <2>10, <2>13, <2>14 DEF Safe
  <1> QED BY <1>3, <1>4

(* nodeFor returns the root of the name, or makes one that is nobody's.      *)
LEMMA NodeForSafe ==
  ASSUME AInv, SInv, RInv, AInv', UNCHANGED <<backend, flushVars>>,
         NEW t \in Threads, NEW k \in Kinds, NEW n \in Names, NEW l \in Labels, NEW add \in BOOLEAN,
         NodeFor(t, k, n, l, add)
  PROVE  Safe
  <1> DEFINE new == Len(heap) + 1
             fresh == space[k][n] = 0
             node == IF fresh THEN new ELSE space[k][n]
  <1>1. /\ UNCHANGED <<backend, fl, batch, requests, reported, dropped>>
        /\ ToWalk' = ToWalk /\ Current' = Current /\ Control'
    BY OutsideFlush DEF SInv
  <1>2. /\ heap \in Seq(Nodes) /\ Len(heap) \in Nat /\ DOMAIN heap = 1 .. Len(heap)
        /\ space \in [Kinds -> [Names -> 0 .. Len(heap)]] /\ obs \in [Threads -> Observations]
    BY DEF SInv, FlushTypes
  <1>3. /\ UNCHANGED <<bits, upd, added, appended>> /\ ops' = ops + 1 /\ ops \in 0 .. MaxOps /\ ops < MaxOps
        /\ heap' = IF fresh THEN Append(heap, EmptyNode) ELSE heap
        /\ space' = [space EXCEPT ![k][n] = node]
        /\ obs' = [obs EXCEPT ![t] = [pc |-> "node", kind |-> k, name |-> n, label |-> l,
                                      id |-> ops + 1, node |-> node, add |-> add]]
    BY DEF NodeFor, AInv, AtomicTypeOK
  <1>4. EmptyNode \in Nodes
    BY DEF EmptyNode, Nodes
  <1>5. /\ heap' \in Seq(Nodes) /\ Len(heap') \in Nat /\ DOMAIN heap' = 1 .. Len(heap')
        /\ Len(heap') = (IF fresh THEN Len(heap) + 1 ELSE Len(heap))
        /\ \A x \in DOMAIN heap : heap'[x] = heap[x]
        /\ fresh => heap'[new] = EmptyNode
    BY <1>2, <1>3, <1>4
  <1>6. node \in DOMAIN heap' /\ node # 0 /\ node \in Nat
    BY <1>2, <1>5
  <1>7. \A j \in Kinds : \A o \in Names : space'[j][o] = (IF j = k /\ o = n THEN node ELSE space[j][o])
    BY <1>2, <1>3
  <1>8. \A x \in DOMAIN heap, m \in Labels : x \in DOMAIN heap' /\ In(x, m)' = In(x, m)
    BY <1>2, <1>5 DEF In
  <1>9. \A x \in DOMAIN heap', m \in Labels : x \in DOMAIN heap \/ In(x, m)' = {}
    BY <1>2, <1>5 DEF In, EmptyNode
  <1>10. \A i : (InHeap(i)' <=> InHeap(i)) /\ (InCounter(i)' <=> InCounter(i))
    BY <1>3, <1>8, <1>9 DEF InHeap, InCounter
  <1>11. \A j \in Kinds : Roots(j) \subseteq Roots(j)' /\ Roots(j)' \subseteq Roots(j) \cup {new}
    <2>1. ~fresh => node \in Roots(k)
      BY <1>2 DEF Roots
    <2>2. \A j \in Kinds : Roots(j)' \subseteq Roots(j) \cup {node} /\ (node \in Roots(j)' /\ j # k => node \in Roots(j))
      BY <1>7 DEF Roots
    <2>3. \A j \in Kinds : Roots(j) \subseteq Roots(j)'
      <3> SUFFICES ASSUME NEW j \in Kinds, NEW x \in Roots(j) PROVE x \in Roots(j)'
        OBVIOUS
      <3>1. PICK o \in Names : x = space[j][o] /\ x # 0
        BY DEF Roots
      <3>2. space'[j][o] = x
        BY <1>7, <3>1
      <3> QED BY <3>1, <3>2 DEF Roots
    <2>4. \A j \in Kinds : Roots(j)' \subseteq Roots(j) \cup {new}
      <3>1. CASE fresh
        BY <2>2, <3>1
      <3>2. CASE ~fresh
        BY <2>1, <2>2, <3>2
      <3> QED BY <3>1, <3>2
    <2> QED BY <2>3, <2>4
  <1>12. \A j \in Kinds : Roots(j) \subseteq DOMAIN heap
    BY <1>2 DEF Roots
  <1>13. new \notin DOMAIN heap /\ ToWalk \subseteq DOMAIN heap
    BY <1>2 DEF SInv, RootsApart
  <1>14. \A j \in Kinds : node \in Roots(j)' => j = k
    <2>1. ASSUME NEW j \in Kinds, node \in Roots(j)', j # k PROVE FALSE
      <3>1. PICK o \in Names : space[j][o] = node
        BY <1>7, <2>1 DEF Roots
      <3>2. CASE fresh
        BY <1>2, <3>1, <3>2
      <3>3. CASE ~fresh
        BY <2>1, <3>1, <3>3 DEF SInv, RootsApart
      <3> QED BY <3>2, <3>3
    <2> QED BY <2>1
  <1>15. node \notin ToWalk
    <2>1. CASE fresh
      BY <1>13, <2>1
    <2>2. CASE ~fresh
      <3>1. node \in Roots(k)
        BY <1>2, <2>2 DEF Roots
      <3> QED BY <3>1 DEF SInv, RootsApart
    <2> QED BY <2>1, <2>2
  <1> DEFINE o1 == [pc |-> "node", kind |-> k, name |-> n, label |-> l,
                    id |-> ops + 1, node |-> node, add |-> add]
  <1>16. obs' \in [Threads -> Observations] /\ obs'[t] = o1 /\ \A u \in Threads : u # t => obs'[u] = obs[u]
    <2>1. o1 \in Observations
      BY <1>3, <1>6, CellsAssumption DEF Observations
    <2> HIDE DEF o1
    <2>2. obs' = [obs EXCEPT ![t] = o1]
      BY <1>3 DEF o1
    <2> QED BY <1>2, <2>1, <2>2
  <1> HIDE DEF fresh, node, new
  <1>17. FlushTypes'
    <2>1. space' \in [Kinds -> [Names -> 0 .. Len(heap')]]
      <3>1. node \in 0 .. Len(heap') /\ \A j \in Kinds : \A o \in Names : space[j][o] \in 0 .. Len(heap')
        BY <1>2, <1>5, <1>6
      <3>2. \A j \in Kinds : space'[j] = [o \in Names |-> IF j = k /\ o = n THEN node ELSE space[j][o]]
        BY <1>2, <1>3
      <3>3. \A j \in Kinds : space'[j] \in [Names -> 0 .. Len(heap')]
        <4> SUFFICES ASSUME NEW j \in Kinds PROVE space'[j] \in [Names -> 0 .. Len(heap')]
          OBVIOUS
        <4>1. \A o \in Names : (IF j = k /\ o = n THEN node ELSE space[j][o]) \in 0 .. Len(heap')
          BY <3>1
        <4> QED BY <3>2, <4>1
      <3> QED BY <1>2, <1>3, <3>3
    <2> QED BY <1>1, <1>3, <1>5, <1>16, <2>1 DEF SInv, FlushTypes
  <1>18. RootsApart'
    <2>1. \A j \in Kinds : \A o \in Names : node = space[j][o] => j = k /\ o = n
      BY <1>2, <1>6 DEF SInv, RootsApart, node, new, fresh
    <2>2. \A j, m \in Kinds : \A o, p \in Names :
            space'[j][o] # 0 /\ space'[j][o] = space'[m][p] => j = m /\ o = p
      BY <1>7, <2>1 DEF SInv, RootsApart
    <2>3. \A x \in ToWalk : x \in DOMAIN heap' /\ \A j \in Kinds : x \notin Roots(j)'
      BY <1>2, <1>5, <1>11, <1>13 DEF SInv, RootsApart
    <2> QED BY <1>1, <2>2, <2>3 DEF RootsApart
  <1>19. \A i \in Ids : InHeap(i) \/ InCounter(i) => i \in 1 .. ops
    BY DEF SInv, OnePlace, AInv, AddedOK, InCounter
  <1>20. ops + 1 \in Ids /\ ops + 1 \notin 1 .. ops /\ ops + 1 \in 1 .. ops' /\ 1 .. ops \subseteq 1 .. ops'
    BY <1>3, CellsAssumption
  <1>21. Pending'
    <2>1. \A u \in Threads : u # t /\ obs[u].pc = "node" =>
            /\ obs[u].kind \in Kinds /\ obs[u].name \in Names /\ obs[u].label \in Labels
            /\ obs[u].node \in DOMAIN heap' /\ obs[u].id \in 1 .. ops
            /\ ~InHeap(obs[u].id) /\ ~InCounter(obs[u].id)
            /\ \A j \in Kinds : obs[u].node \in Roots(j)' => j = obs[u].kind
            /\ obs[u].node \in ToWalk' => Current'.kind = obs[u].kind
      <3>1. \A u \in Threads : u # t /\ obs[u].pc = "node" =>
              obs[u].node \in DOMAIN heap /\ \A j \in Kinds : obs[u].node \in Roots(j) => j = obs[u].kind
        BY DEF SInv, Pending
      <3>2. \A u \in Threads : u # t /\ obs[u].pc = "node" =>
              obs[u].node \in DOMAIN heap' /\ \A j \in Kinds : obs[u].node \in Roots(j)' => j = obs[u].kind
        BY <1>8, <1>11, <1>13, <3>1, <1>2, <1>5
      <3> QED BY <1>1, <3>2 DEF SInv, Pending
    <2>2. \A u, v \in Threads : obs[u].pc = "node" =>
            /\ v # u /\ obs[v].pc = "node" => obs[v].id # obs[u].id
            /\ upd[v].pc # "idle" => upd[v].id # obs[u].id
      BY DEF SInv, Pending
    <2>3. \A u \in Threads : upd[u].pc # "idle" => upd[u].id \in 1 .. ops
      BY DEF AInv, UpdatersOK
    <2> SUFFICES ASSUME NEW s \in Threads, obs'[s].pc = "node"
                 PROVE  /\ obs'[s].kind \in Kinds /\ obs'[s].name \in Names /\ obs'[s].label \in Labels
                        /\ obs'[s].node \in DOMAIN heap' /\ obs'[s].id \in 1 .. ops'
                        /\ ~InHeap(obs'[s].id) /\ ~InCounter(obs'[s].id)
                        /\ \A u \in Threads :
                             /\ u # s /\ obs'[u].pc = "node" => obs'[u].id # obs'[s].id
                             /\ upd[u].pc # "idle" => upd[u].id # obs'[s].id
                        /\ \A j \in Kinds : obs'[s].node \in Roots(j)' => j = obs'[s].kind
                        /\ obs'[s].node \in ToWalk' => Current'.kind = obs'[s].kind
      <3>1. \A s \in Threads : (InHeap(obs[s].id)' <=> InHeap(obs'[s].id)) /\ (InCounter(obs[s].id)' <=> InCounter(obs'[s].id))
        BY <1>3, <1>8, <1>9 DEF InHeap, InCounter
      <3> QED BY <1>3, <3>1 DEF Pending
    <2>4. CASE s = t
      <3>1. ~InHeap(ops + 1) /\ ~InCounter(ops + 1)
        BY <1>19, <1>20
      <3> QED BY <1>1, <1>6, <1>14, <1>15, <1>16, <1>20, <2>1, <2>3, <2>4, <3>1
    <2>5. CASE s # t
      <3>1. obs'[s] = obs[s]
        BY <1>16, <2>5
      <3> QED BY <1>16, <1>20, <2>1, <2>2, <2>5, <3>1
    <2> QED BY <2>4, <2>5
  <1>22. OnePlace'
    <2>1. \A x, y \in DOMAIN heap' : \A j, m \in Labels : \A i \in In(x, j)' : i \in In(y, m)' => x = y /\ j = m
      BY <1>8, <1>9 DEF SInv, OnePlace
    <2>2. \A i \in Ids : InHeap(i)' => i \in 1 .. ops' /\ ~InCounter(i)'
      BY <1>10, <1>20 DEF SInv, OnePlace
    <2>3. \A u \in Threads : (upd[u].pc \in {"load", "cas"} /\ upd[u].cell \in Counters =>
                               ~InHeap(upd[u].id) /\ ~InCounter(upd[u].id))'
      BY <1>3, <1>10 DEF SInv, OnePlace
    <2>4. \A j \in Kinds : \A i \in appended'[j] : InHeap(i)'
      BY <1>3, <1>10 DEF SInv, OnePlace
    <2>5. \A c, d \in Counters : c # d => added'[c] \cap added'[d] = {}
      BY <1>3 DEF SInv, OnePlace
    <2> QED BY <2>1, <2>2, <2>3, <2>4, <2>5 DEF OnePlace
  <1>23. GaugesApart'
    <2>1. "gauges" \in Kinds
      BY TablesAssumption
    <2> SUFFICES ASSUME NEW j \in Summed, NEW i \in appended[j], NEW x \in DOMAIN heap', NEW m \in Labels, i \in In(x, m)'
                 PROVE  x \notin Roots("gauges")' /\ (x \in ToWalk => Current.kind # "gauges")
      BY <1>1, <1>3 DEF GaugesApart
    <2>2. x \in DOMAIN heap /\ i \in In(x, m)
      BY <1>8, <1>9
    <2>3. x \notin Roots("gauges") /\ (x \in ToWalk => Current.kind # "gauges")
      BY <2>2 DEF SInv, GaugesApart
    <2> QED BY <1>11, <1>13, <2>1, <2>2, <2>3
  <1>24. SInv'
    BY <1>1, <1>17, <1>18, <1>21, <1>22, <1>23 DEF SInv
  <1>25. \A x \in DOMAIN heap : Live(x)' <=> Live(x)
    BY <1>1, <1>11, <1>13 DEF Live
  <1>26. \A i : Retired(i)' <=> Retired(i)
    BY <1>8, <1>9, <1>25 DEF Retired
  <1>27. RInv'
    <2>1. \A x \in DOMAIN heap' : Live(x)' => \A m \in Labels : \A i \in In(x, m)' : reported'[i] = 0
      BY <1>1, <1>8, <1>9, <1>25 DEF RInv, Unreported
    <2>2. \A i \in Ids : reported'[i] < 2 /\ (reported'[i] # 0 => InHeap(i)' \/ InCounter(i)')
      BY <1>1, <1>10 DEF RInv
    <2> QED BY <1>1, <1>3, <1>26, <2>1, <2>2 DEF RInv, Unreported, LinesApart
  <1>28. NothingLost
    <2>1. Made' = Made
      BY <1>3 DEF Made
    <2>2. \A i : InBuffer(i) => InBuffer(i)'
      BY <1>1, <1>3, <1>8, <1>11, <1>12, <1>13 DEF InBuffer, Summed
    <2> QED BY <1>1, <2>1, <2>2 DEF NothingLost, Kept
  <1> QED BY <1>24, <1>27, <1>28 DEF Safe

(* What a list holds after an append.                                        *)
LEMMA AppendedUnion ==
  ASSUME NEW s \in Seq(SUBSET Ids), NEW v \in SUBSET Ids
  PROVE  /\ Append(s, v) \in Seq(SUBSET Ids)
         /\ UNION {Append(s, v)[p] : p \in DOMAIN Append(s, v)} = (UNION {s[p] : p \in DOMAIN s}) \cup v
  <1>1. /\ Len(s) \in Nat /\ DOMAIN s = 1 .. Len(s) /\ Append(s, v) \in Seq(SUBSET Ids)
        /\ DOMAIN Append(s, v) = 1 .. (Len(s) + 1)
        /\ \A p \in 1 .. Len(s) : Append(s, v)[p] = s[p]
        /\ Append(s, v)[Len(s) + 1] = v
    OBVIOUS
  <1>2. PICK n \in Nat : n = Len(s)
    BY <1>1
  <1>3. PICK a : a = Append(s, v)
    OBVIOUS
  <1>4. \A p \in 1 .. (n + 1) : p \in 1 .. n \/ p = n + 1
    OBVIOUS
  <1>5. (\A p \in 1 .. n : p \in 1 .. (n + 1)) /\ n + 1 \in 1 .. (n + 1)
    OBVIOUS
  <1>6. \A i : (\E p \in DOMAIN a : i \in a[p]) <=> (\E p \in DOMAIN s : i \in s[p]) \/ i \in v
    BY <1>1, <1>2, <1>3, <1>4, <1>5
  <1>7. \A i : i \in UNION {a[p] : p \in DOMAIN a} <=> i \in (UNION {s[p] : p \in DOMAIN s}) \cup v
    BY <1>6
  <1>8. UNION {a[p] : p \in DOMAIN a} = (UNION {s[p] : p \in DOMAIN s}) \cup v
    BY <1>7, Zenon
  <1> QED BY <1>1, <1>3, <1>8

(* An append puts one new observation into one list ...                      *)
LEMMA AppendTo ==
  ASSUME SInv, NEW t \in Threads, Observed(t), NEW o, o = obs[t]
  PROVE  /\ o.node \in DOMAIN heap /\ o.label \in Labels /\ o.id \in Ids
         /\ heap' \in Seq(Nodes) /\ DOMAIN heap' = DOMAIN heap /\ Len(heap') = Len(heap)
         /\ \A x \in DOMAIN heap, l \in Labels :
              In(x, l)' = IF x = o.node /\ l = o.label THEN In(x, l) \cup {o.id} ELSE In(x, l)
  <1> DEFINE list == heap[o.node][o.label]
             value == IF o.add /\ list # <<>> THEN list[Len(list)] \cup {o.id} ELSE {o.id}
  <1>1. /\ heap \in Seq(Nodes) /\ DOMAIN heap = 1 .. Len(heap) /\ Len(heap) \in Nat
        /\ o \in Observations /\ o.pc = "node"
    BY DEF SInv, FlushTypes, Observed
  <1>2. o.node \in DOMAIN heap /\ o.label \in Labels /\ o.id \in 1 .. ops
    BY <1>1 DEF SInv, Pending
  <1>3. o.id \in Ids
    BY <1>1, <1>2, CellsAssumption DEF Observations
  <1>4. list \in Seq(SUBSET Ids)
    <2>1. heap[o.node] \in Nodes
      BY <1>1, <1>2
    <2> QED BY <1>2, <2>1 DEF Nodes
  <1>5. heap' = [heap EXCEPT ![o.node][o.label] = Append(list, value)]
    BY DEF Observed, Appended
  <1>6. value \in SUBSET Ids /\ o.id \in value /\ value \subseteq In(o.node, o.label) \cup {o.id}
    <2>1. CASE o.add /\ list # <<>>
      <3>1. Len(list) \in DOMAIN list
        BY <1>4, <2>1
      <3>2. PICK q : q = list[Len(list)]
        OBVIOUS
      <3>3. q \in SUBSET Ids
        BY <1>4, <3>1, <3>2
      <3>4. q \subseteq In(o.node, o.label)
        BY <3>1, <3>2 DEF In
      <3>5. value = q \cup {o.id}
        BY <2>1, <3>2
      <3> HIDE DEF value, list
      <3> QED BY <1>3, <3>3, <3>4, <3>5
    <2>2. CASE ~(o.add /\ list # <<>>)
      BY <1>3, <2>2
    <2> QED BY <2>1, <2>2
  <1> HIDE DEF value
  <1>7. In(o.node, o.label) = UNION {list[p] : p \in DOMAIN list}
    BY DEF In
  <1> HIDE DEF list
  <1>8. PICK a \in Seq(SUBSET Ids) :
          a = Append(list, value) /\ UNION {a[p] : p \in DOMAIN a} = In(o.node, o.label) \cup value
    <2>1. Append(list, value) \in Seq(SUBSET Ids)
      BY <1>4, <1>6, AppendedUnion
    <2>2. UNION {Append(list, value)[p] : p \in DOMAIN Append(list, value)} = In(o.node, o.label) \cup value
      <3>1. list \in Seq(SUBSET Ids) /\ value \in SUBSET Ids
        BY <1>4, <1>6
      <3>2. UNION {Append(list, value)[p] : p \in DOMAIN Append(list, value)}
              = (UNION {list[p] : p \in DOMAIN list}) \cup value
        BY <3>1, AppendedUnion, Zenon
      <3> QED BY <1>7, <3>2, Zenon
    <2> QED BY <2>1, <2>2, Zenon
  <1>9. \A x \in DOMAIN heap : heap[x] \in [Labels -> Seq(SUBSET Ids)]
    BY <1>1 DEF Nodes
  <1>10. \A x \in DOMAIN heap : \A l \in Labels :
           heap'[x][l] = IF x = o.node /\ l = o.label THEN a ELSE heap[x][l]
    BY <1>2, <1>5, <1>8, <1>9
  <1>11. heap' \in Seq(Nodes) /\ DOMAIN heap' = DOMAIN heap /\ Len(heap') = Len(heap)
    <2>1. \A x \in DOMAIN heap : heap'[x] \in Nodes
      <3> SUFFICES ASSUME NEW x \in DOMAIN heap PROVE heap'[x] \in Nodes
        OBVIOUS
      <3>1. CASE x = o.node
        <4>1. heap'[x] = [heap[x] EXCEPT ![o.label] = a]
          BY <1>1, <1>2, <1>5, <1>8, <3>1
        <4> QED BY <1>2, <1>8, <1>9, <4>1 DEF Nodes
      <3>2. CASE x # o.node
        BY <1>5, <1>9, <3>2 DEF Nodes
      <3> QED BY <3>1, <3>2
    <2>2. heap' \in [1 .. Len(heap) -> Nodes]
      BY <1>1, <1>5, <2>1
    <2>3. heap' \in Seq(Nodes)
      BY <1>1, <2>2, IsSeq
    <2> QED BY <1>1, <2>2, <2>3
  <1>12. ASSUME NEW x \in DOMAIN heap, NEW l \in Labels
         PROVE  In(x, l)' = IF x = o.node /\ l = o.label THEN In(x, l) \cup {o.id} ELSE In(x, l)
    <2>1. CASE x = o.node /\ l = o.label
      <3>1. heap'[x][l] = a
        BY <1>10, <2>1
      <3>2. In(x, l)' = In(x, l) \cup value
        BY <1>8, <2>1, <3>1 DEF In
      <3>3. o.id \in value /\ value \subseteq In(x, l) \cup {o.id}
        BY <1>6, <2>1, Zenon
      <3>4. In(x, l) \cup value = In(x, l) \cup {o.id}
        BY <3>3
      <3> QED BY <2>1, <3>2, <3>4
    <2>2. CASE ~(x = o.node /\ l = o.label)
      BY <1>10, <2>2 DEF In
    <2> QED BY <2>1, <2>2
  <1> QED BY <1>2, <1>3, <1>11, <1>12

(* ... and is lost there if a Reset has taken the list's node away.          *)
LEMMA ObservedSafe ==
  ASSUME AInv, SInv, RInv, UNCHANGED <<backend, flushVars>>, NEW t \in Threads, Observed(t)
  PROVE  /\ SInv' /\ RInv'
         /\ \A i \in Made' : Kept(i)' \/ (i \in Made /\ ~Kept(i)) \/
              (obs[t].id = i /\ obs[t].pc = "node" /\ obs[t].node # space[obs[t].kind][obs[t].name])
  <1>0. PICK o : o = obs[t]
    OBVIOUS
  <1>1. /\ UNCHANGED <<backend, fl, batch, requests, reported, dropped>>
        /\ ToWalk' = ToWalk /\ Current' = Current /\ Control'
    BY OutsideFlush DEF SInv
  <1>2. /\ o.node \in DOMAIN heap /\ o.label \in Labels /\ o.id \in Ids
        /\ heap' \in Seq(Nodes) /\ DOMAIN heap' = DOMAIN heap /\ Len(heap') = Len(heap)
        /\ \A x \in DOMAIN heap, l \in Labels :
             In(x, l)' = IF x = o.node /\ l = o.label THEN In(x, l) \cup {o.id} ELSE In(x, l)
    BY <1>0, AppendTo
  <1>3. /\ UNCHANGED <<ops, bits, upd, added, space>> /\ o.pc = "node"
        /\ obs' = [obs EXCEPT ![t] = NoObs]
        /\ appended' = [appended EXCEPT ![o.kind] = @ \cup {o.id}]
    BY <1>0 DEF Observed, atomicVars
  <1>4. /\ o.kind \in Kinds /\ o.name \in Names /\ o.id \in 1 .. ops
        /\ ~InHeap(o.id) /\ ~InCounter(o.id)
        /\ \A u \in Threads :
             /\ u # t /\ obs[u].pc = "node" => obs[u].id # o.id
             /\ upd[u].pc # "idle" => upd[u].id # o.id
        /\ \A k \in Kinds : o.node \in Roots(k) => k = o.kind
        /\ o.node \in ToWalk => Current.kind = o.kind
    BY <1>0, <1>3 DEF SInv, Pending
  <1>5. \A i : (InHeap(i)' <=> (InHeap(i) \/ i = o.id)) /\ (InCounter(i)' <=> InCounter(i))
    <2>1. \A i : InHeap(i)' <=> (InHeap(i) \/ i = o.id)
      BY <1>2 DEF InHeap
    <2> QED BY <1>3, <2>1 DEF InCounter
  <1>6. /\ appended \in [Kinds -> SUBSET Ids] /\ obs \in [Threads -> Observations]
        /\ \A k \in Kinds : appended'[k] = IF k = o.kind THEN appended[k] \cup {o.id} ELSE appended[k]
    BY <1>3 DEF SInv, FlushTypes
  <1>7. obs' \in [Threads -> Observations] /\ obs'[t].pc = "idle" /\ \A u \in Threads : u # t => obs'[u] = obs[u]
    <2>1. NoObs \in Observations /\ NoObs.pc = "idle"
      BY CellsAssumption DEF NoObs, Observations
    <2> QED BY <1>3, <1>6, <2>1
  <1>8. \A k : Roots(k)' = Roots(k)
    BY <1>3 DEF Roots
  <1>9. FlushTypes'
    <2>1. appended' \in [Kinds -> SUBSET Ids]
      BY <1>2, <1>3, <1>4, <1>6
    <2> QED BY <1>1, <1>2, <1>3, <1>7, <2>1 DEF SInv, FlushTypes
  <1>10. RootsApart'
    BY <1>1, <1>2, <1>3, <1>8 DEF SInv, RootsApart
  <1>11. Pending'
    <2> SUFFICES ASSUME NEW s \in Threads, s # t, obs[s].pc = "node"
                 PROVE  /\ ~InHeap(obs[s].id)' /\ ~InCounter(obs[s].id)'
      <3>1. \A s \in Threads : obs'[s].pc = "node" => s # t /\ obs[s].pc = "node" /\ obs'[s] = obs[s]
        BY <1>7
      <3> QED BY <1>1, <1>2, <1>3, <1>8, <3>1 DEF SInv, Pending
    <2>1. ~InHeap(obs[s].id) /\ ~InCounter(obs[s].id) /\ obs[s].id # o.id
      BY <1>4 DEF SInv, Pending
    <2>2. obs'[s] = obs[s]
      BY <1>7
    <2>3. ~InHeap(obs[s].id)'
      BY <1>2, <2>1, <2>2 DEF InHeap
    <2>4. ~InCounter(obs[s].id)'
      BY <1>3, <2>1, <2>2 DEF InCounter
    <2> QED BY <2>3, <2>4
  <1>12. OnePlace'
    <2>1. \A x, y \in DOMAIN heap : \A l, m \in Labels : \A i \in In(x, l)' : i \in In(y, m)' => x = y /\ l = m
      BY <1>2, <1>4 DEF SInv, OnePlace, InHeap
    <2>2. \A i \in Ids : InHeap(i)' => i \in 1 .. ops' /\ ~InCounter(i)'
      BY <1>3, <1>4, <1>5 DEF SInv, OnePlace
    <2>3. \A u \in Threads : (upd[u].pc \in {"load", "cas"} /\ upd[u].cell \in Counters =>
                               ~InHeap(upd[u].id) /\ ~InCounter(upd[u].id))'
      <3>1. \A u \in Threads : upd[u].pc \in {"load", "cas"} /\ upd[u].cell \in Counters =>
              ~InHeap(upd[u].id) /\ ~InCounter(upd[u].id) /\ upd[u].id # o.id
        BY <1>4 DEF SInv, OnePlace
      <3>2. \A u \in Threads : ~InHeap(upd[u].id) /\ upd[u].id # o.id => ~InHeap(upd[u].id)'
        BY <1>2, <1>3 DEF InHeap
      <3>3. \A u \in Threads : ~InCounter(upd[u].id) => ~InCounter(upd[u].id)'
        BY <1>3 DEF InCounter
      <3> QED BY <1>3, <3>1, <3>2, <3>3
    <2>4. \A k \in Kinds : \A i \in appended'[k] : InHeap(i)'
      <3>1. \A k \in Kinds : \A i \in appended'[k] : i \in appended[k] \/ i = o.id
        BY <1>6
      <3>2. \A k \in Kinds : \A i \in appended[k] : InHeap(i)
        BY DEF SInv, OnePlace
      <3> QED BY <1>5, <3>1, <3>2
    <2>5. \A c, d \in Counters : c # d => added'[c] \cap added'[d] = {}
      BY <1>3 DEF SInv, OnePlace
    <2> QED BY <1>2, <2>1, <2>2, <2>3, <2>4, <2>5 DEF OnePlace
  <1>13. GaugesApart'
    <2>1. "gauges" \in Kinds
      BY TablesAssumption
    <2> SUFFICES ASSUME NEW k \in Summed, NEW i \in appended'[k], NEW x \in DOMAIN heap, NEW l \in Labels, i \in In(x, l)'
                 PROVE  x \notin Roots("gauges") /\ (x \in ToWalk => Current.kind # "gauges")
      BY <1>1, <1>2, <1>8 DEF GaugesApart
    <2>2. k \in Kinds /\ k # "gauges"
      BY DEF Summed
    <2>3. CASE i = o.id
      <3>1. k = o.kind
        BY <1>4, <1>6, <2>2, <2>3 DEF SInv, OnePlace
      <3>2. x = o.node
        <4>1. o.id \notin In(x, l)
          BY <1>4 DEF InHeap
        <4>2. In(x, l)' = IF x = o.node /\ l = o.label THEN In(x, l) \cup {o.id} ELSE In(x, l)
          BY <1>2
        <4> QED BY <2>3, <4>1, <4>2
      <3> QED BY <1>4, <2>1, <2>2, <3>1, <3>2
    <2>4. CASE i # o.id
      <3>1. i \in appended[k]
        BY <1>6, <2>2, <2>4
      <3>2. In(x, l)' = IF x = o.node /\ l = o.label THEN In(x, l) \cup {o.id} ELSE In(x, l)
        BY <1>2
      <3>3. i \in In(x, l)
        BY <2>4, <3>2
      <3> QED BY <3>1, <3>3 DEF SInv, GaugesApart
    <2> QED BY <2>3, <2>4
  <1>14. SInv'
    BY <1>1, <1>9, <1>10, <1>11, <1>12, <1>13 DEF SInv
  <1>15. \A x : Live(x)' <=> Live(x)
    BY <1>1, <1>8 DEF Live
  <1>16. \A i : Retired(i) => Retired(i)'
    BY <1>2, <1>15 DEF Retired
  <1>17. RInv'
    <2>1. reported[o.id] = 0
      BY <1>2, <1>4 DEF RInv
    <2>2. \A x \in DOMAIN heap' : Live(x)' => \A l \in Labels : \A i \in In(x, l)' : reported'[i] = 0
      BY <1>1, <1>2, <1>15, <2>1 DEF RInv, Unreported
    <2>3. \A i \in Ids : reported'[i] < 2 /\ (reported'[i] # 0 => InHeap(i)' \/ InCounter(i)')
      BY <1>1, <1>5 DEF RInv
    <2> QED BY <1>1, <1>3, <1>16, <2>2, <2>3 DEF RInv, Unreported, LinesApart
  <1>18. ASSUME NEW i \in Made'
         PROVE  Kept(i)' \/ (i \in Made /\ ~Kept(i)) \/ (o.id = i /\ o.node # space[o.kind][o.name])
    <2>1. (\E k \in Summed : i \in appended'[k]) \/ InCounter(i)'
      BY DEF Made, InCounter
    <2>2. CASE i = o.id
      <3>1. o.kind \in Summed
        <4>1. ~InCounter(i)'
          BY <1>4, <1>5, <2>2
        <4>2. PICK k \in Summed : i \in appended'[k]
          BY <2>1, <4>1
        <4>3. k \in Kinds
          BY DEF Summed
        <4> QED BY <1>4, <1>6, <2>2, <4>2, <4>3 DEF SInv, OnePlace
      <3>2. ASSUME o.node = space[o.kind][o.name] PROVE InBuffer(i)'
        <4>1. o.node \in Roots(o.kind)'
          <5>1. o.node # 0
            BY <1>2 DEF SInv, FlushTypes
          <5> QED BY <1>3, <1>4, <3>2, <5>1 DEF Roots
        <4>2. i \in In(o.node, o.label)'
          BY <1>2, <2>2
        <4> QED BY <1>2, <3>1, <4>1, <4>2 DEF InBuffer
      <3> QED BY <2>2, <3>2 DEF Kept
    <2>3. CASE i # o.id
      <3>1. i \in Made
        <4>1. \A k \in Summed : i \in appended'[k] => i \in appended[k]
          BY <1>6, <2>3 DEF Summed
        <4> QED BY <1>5, <2>1, <4>1 DEF Made, InCounter
      <3>2. \A x \in DOMAIN heap, l \in Labels : i \in In(x, l) => i \in In(x, l)'
        BY <1>2
      <3>3. ToWalk \subseteq DOMAIN heap /\ \A k \in Summed : Roots(k) \subseteq DOMAIN heap
        BY DEF SInv, RootsApart, FlushTypes, Roots, Summed
      <3>4. InBuffer(i) => InBuffer(i)'
        BY <1>1, <1>3, <1>8, <3>2, <3>3 DEF InBuffer
      <3> QED BY <1>1, <3>1, <3>4 DEF Kept
    <2> QED BY <2>2, <2>3
  <1> QED BY <1>0, <1>3, <1>14, <1>17, <1>18

(* Nothing is made, buffered or reported at first.                           *)
LEMMA InitFlush == Init => SInv /\ RInv
  <1> SUFFICES ASSUME Init PROVE SInv /\ RInv
    OBVIOUS
  <1> USE DEF Init, AtomicInit, SpaceInit
  <1>1. ToWalk = {} /\ \A k \in Kinds : Roots(k) = {}
    BY DEF ToWalk, Roots, EmptySpace
  <1>2. \A i : ~InHeap(i) /\ ~InCounter(i)
    BY DEF InHeap, InCounter
  <1>3. FlushTypes
    <2>1. NoObs \in Observations
      BY CellsAssumption DEF NoObs, Observations
    <2>2. /\ <<>> \in Seq(Nodes) /\ Len(<<>>) = 0 /\ <<>> \in Seq(Requests)
      OBVIOUS
    <2>3. space \in [Kinds -> [Names -> 0 .. Len(heap)]]
      BY <2>2 DEF EmptySpace
    <2>4. fl \in Flushes
      BY DEF Flushes
    <2> QED BY <2>1, <2>2, <2>3, <2>4 DEF FlushTypes
  <1>4. Control
    BY DEF Control
  <1>5. RootsApart
    BY <1>1 DEF RootsApart, EmptySpace
  <1>6. Pending
    BY DEF Pending, NoObs
  <1>7. OnePlace
    <2>1. \A u \in Threads : upd[u].pc = "idle"
      BY DEF NoUpdate
    <2> QED BY <1>2, <2>1 DEF OnePlace
  <1>8. GaugesApart
    BY DEF GaugesApart
  <1>9. Unreported /\ LinesApart
    BY DEF Unreported, LinesApart
  <1> QED BY <1>3, <1>4, <1>5, <1>6, <1>7, <1>8, <1>9, CellsAssumption DEF SInv, RInv

(* An update is lost by no step but an append to a node that was taken away. *)
LostByAppend ==
  \A i \in Made' : Kept(i)' \/ (i \in Made /\ ~Kept(i)) \/
    \E t \in Threads : /\ obs[t].id = i /\ obs[t].pc = "node"
                       /\ obs[t].node # space[obs[t].kind][obs[t].name]

(* One step of any goroutine.                                                *)
LEMMA NextFlush ==
  AInv /\ AInv' /\ SInv /\ RInv /\ [Next]_vars => SInv' /\ RInv' /\ LostByAppend
  <1> SUFFICES ASSUME AInv, AInv', SInv, RInv, [Next]_vars
               PROVE  SInv' /\ RInv' /\ LostByAppend
    OBVIOUS
  <1>0. Safe => SInv' /\ RInv' /\ LostByAppend
    BY DEF Safe, NothingLost, LostByAppend
  <1>1. ASSUME NEW t \in Threads, UpdateBegins(t) PROVE Safe
    <2>1. PICK k \in DOMAIN Metrics[backend] : \E how \in Metrics[backend][k] : Forward(t, k, how)
      BY <1>1 DEF UpdateBegins
    <2>2. PICK how \in Metrics[backend][k] : Forward(t, k, how)
      BY <2>1
    <2>3. k \in Kinds /\ UNCHANGED <<backend, flushVars>>
      BY <1>1, Tables DEF UpdateBegins, SInv, FlushTypes
    <2>4. CASE \E n \in Names, l \in Labels : NodeFor(t, k, n, l, how = "add")
      <3>1. (how = "add") \in BOOLEAN
        OBVIOUS
      <3> QED BY <2>3, <2>4, <3>1, NodeForSafe
    <2>5. CASE SampledOut(t)
      BY <2>3, <2>5, SampledOutSafe
    <2>6. CASE (\E c \in Cells : Add(t, c)) /\ UNCHANGED spaceVars
      BY <2>3, <2>6, BeginSafe DEF Add
    <2>7. CASE (\E g \in Gauges : Set(t, g)) /\ UNCHANGED spaceVars
      BY <2>3, <2>7, BeginSafe DEF Set
    <2> QED BY <2>2, <2>4, <2>5, <2>6, <2>7 DEF Forward
  <1>2. ASSUME NEW t \in Threads, UpdateGoesOn(t) PROVE SInv' /\ RInv' /\ LostByAppend
    <2>1. CASE Observed(t)
      BY <1>2, <2>1, ObservedSafe DEF UpdateGoesOn, LostByAppend
    <2>2. CASE Updating(t) /\ UNCHANGED spaceVars
      BY <1>0, <1>2, <2>2, UpdateMovesSafe, AddSwapsSafe DEF UpdateGoesOn, Updating
    <2> QED BY <1>2, <2>1, <2>2 DEF UpdateGoesOn
  <1>3. ASSUME FlushStep PROVE Safe
    <2>1. UNCHANGED backend
      BY <1>3 DEF FlushStep
    <2>2. CASE SectionBegins \/ SectionEnds \/ WalkCollects \/ PointFails \/ WalkWrites
      BY <2>1, <2>2, SectionBeginsSafe, SectionEndsSafe, WalkCollectsSafe, PointFailsSafe, WalkWritesSafe
    <2>3. CASE GaugeRead \/ GaugeWrite \/ CounterReset \/ CounterWrite
      BY <2>1, <2>3, ReaderSafe, CounterWriteSafe
    <2>4. CASE InfluxWrite \/ SendBegins \/ Acquire \/ PutMetricData \/ SendReturns
      BY <2>1, <2>4, InfluxWriteSafe, SendBeginsSafe, AcquireSafe, PutSafe, SendReturnsSafe
    <2> QED BY <1>3, <2>2, <2>3, <2>4 DEF FlushStep
  <1>4. CASE (Tick \/ Cancel \/ LoopReturns) /\ UNCHANGED backend
    BY <1>0, <1>4, TickSafe
  <1>5. CASE UNCHANGED vars
    <2>1. UNCHANGED <<ops, bits, upd, added, spaceVars, batch, requests, reported, dropped, fl, backend>>
      BY <1>5 DEF vars, atomicVars, flushVars
    <2>2. FlushTypes' /\ Control' /\ ToWalk' = ToWalk /\ Current' = Current
      BY <2>1 DEF SInv, FlushTypes, Control, Collects, ToWalk, Current, spaceVars
    <2> QED BY <1>0, <2>1, <2>2, QuietStep DEF AInv
  <1> QED BY <1>0, <1>1, <1>2, <1>3, <1>4, <1>5 DEF Next, Ticks

(* The inductive invariants of the spaces and of the flush hold.             *)
THEOREM FlushInvariant == Spec => [](SInv /\ RInv)
  <1>1. Init => SInv /\ RInv
    BY InitFlush
  <1>2. AInv /\ AInv' /\ SInv /\ RInv /\ [Next]_vars => SInv' /\ RInv'
    BY NextFlush
  <1> QED BY <1>1, <1>2, AInvHolds, PTL DEF Spec

(* No update of a metric is reported twice: not by two walks of a space, not *)
(* by two requests, not by a walk and a later one, for any backend.          *)
THEOREM NoUpdateTwice == Spec => []ReportedOnce
  <1>1. SInv /\ RInv /\ AInv => ReportedOnce
    BY DEF ReportedOnce, RInv, SInv, FlushTypes, Made, Summed, AInv, AtomicTypeOK
  <1> QED BY <1>1, FlushInvariant, AInvHolds, PTL

(* No update is lost by a walk, a batch, a request or a race of counters:    *)
(* only by an append to a node that a Reset has taken out of its space.      *)
THEOREM OnlyLateAppendsLose == Spec => LostOnlyLate
  <1> DEFINE Step == \A i \in Late' \ Late :
                       \E t \in Threads :
                         /\ obs[t].id = i /\ obs[t].pc = "node"
                         /\ obs[t].node # space[obs[t].kind][obs[t].name]
  <1>1. AInv /\ AInv' /\ SInv /\ RInv /\ [Next]_vars => Step
    <2> SUFFICES ASSUME AInv, AInv', SInv, RInv, [Next]_vars PROVE Step
      OBVIOUS
    <2>1. LostByAppend /\ FlushTypes' /\ FlushTypes
      BY NextFlush DEF SInv
    <2>2. Late = {i \in Made : ~Kept(i)}
      BY <2>1, LateIsNotKept DEF LateRule
    <2>3. Late' = {i \in Made' : ~Kept(i)'}
      BY <2>1, LateIsNotKeptNext DEF LateRule
    <2> QED BY <2>1, <2>2, <2>3 DEF LostByAppend
  <1>2. [][AInv /\ AInv' /\ SInv /\ RInv /\ [Next]_vars => Step]_vars
    BY <1>1, PTL
  <1>3. Spec => [][Step]_vars
    BY <1>2, AInvHolds, FlushInvariant, PTL DEF Spec
  <1> QED BY <1>3 DEF LostOnlyLate
=============================================================================
