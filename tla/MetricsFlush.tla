---------------------------- MODULE MetricsFlush ----------------------------
(* The metrics backends that buffer: statsd, dogstatsd, influxstatsd, influx,*)
(* graphite and cloudwatch2. Goroutines update metrics while the goroutine   *)
(* of a WriteLoop calls WriteTo (Send for cloudwatch2) at each tick. A       *)
(* backend is described by three tables: how the methods of its metrics      *)
(* update them, the sections of its WriteTo in order, and where the lines    *)
(* go. Names, labels, formats and sample rates of the lines are left out: a  *)
(* line is the set of updates whose values it carries.                       *)
EXTENDS LabelSpace, SequencesExt

CONSTANTS Backends,     \* the backends a behaviour may be about
          BatchSize,    \* datums per request of cloudwatch2 (20 in the code)
          Concurrent    \* its numConcurrentRequests

ASSUME FlushAssumption == BatchSize \in Nat \ {0} /\ Concurrent \in Nat \ {0}

VARIABLES backend,
          fl,          \* the WriteLoop goroutine: point, section, what is left
                       \* of it, and the variable err of WriteTo
          batch,       \* lines collected for one write at the end
          requests,    \* requests of cloudwatch2's Send: [lines, st]
          reported,    \* how often each update was reported, up to 2 (history)
          dropped,     \* updates in lines that could not be written (history)
          cancelled    \* the context of WriteLoop is done

flushVars == <<fl, batch, requests, reported, dropped, cancelled>>
vars == <<atomicVars, spaceVars, backend, flushVars>>

-----------------------------------------------------------------------------

(* The metrics of each backend and how their methods forward an update:      *)
(* "observe" and "add" go to a Space, "sample" does so or is skipped by the  *)
(* sample rate, "count" to a generic.Counter, "set" and "touch" to a gauge.  *)
(* (graphite's gauges and histograms are only ever read by WriteTo.)         *)
StatsdMetrics ==
  [counters |-> {"observe"}, gauges |-> {"observe", "add"}, timings |-> {"observe"}]
DogstatsdMetrics ==
  [counters |-> {"sample"}, gauges |-> {"set", "touch"},
   timings |-> {"sample"}, histograms |-> {"sample"}]
InfluxstatsdMetrics ==
  [counters |-> {"observe"}, gauges |-> {"set", "touch"},
   timings |-> {"observe"}, histograms |-> {"observe"}]
InfluxMetrics ==
  [counters |-> {"observe"}, gauges |-> {"observe", "add"}, histograms |-> {"observe"}]
GraphiteMetrics == [counters |-> {"count"}]
CloudwatchMetrics == [counters |-> {"observe"}]

(* The sections of WriteTo. A section empties a Space, walks the gauges with *)
(* a set flag, or resets counters; it writes, for each series, the sum or    *)
(* statistics of its observations, the last one, or each of them. An error ends WriteTo at *)
(* the next check of err, which only the gauges of dogstatsd and             *)
(* influxstatsd have no check for.                                           *)
Section(k, s, l) == [kind |-> k, store |-> s, lines |-> l, checked |-> TRUE]
Unchecked(k, s, l) == [kind |-> k, store |-> s, lines |-> l, checked |-> FALSE]

StatsdWriteTo ==
  << Section("counters", "space", "sum"), Section("gauges", "space", "last"),
     Section("timings", "space", "each") >>
(* Mutant: the histograms are not written.                                   *)
DogstatsdWriteToForgets ==
  << Section("counters", "space", "sum"), Unchecked("gauges", "flag", "last"),
     Section("timings", "space", "each") >>
DogstatsdWriteTo ==
  << Section("counters", "space", "sum"), Unchecked("gauges", "flag", "last"),
     Section("timings", "space", "each"), Section("histograms", "space", "each") >>
InfluxstatsdWriteTo ==
  << Section("counters", "space", "sum"), Unchecked("gauges", "flag", "last"),
     Section("timings", "space", "each"), Section("histograms", "space", "each") >>
InfluxWriteTo ==
  << Section("counters", "space", "sum"), Section("gauges", "space", "last"),
     Section("histograms", "space", "sum") >>
GraphiteWriteTo == << Section("counters", "reset", "sum") >>
CloudwatchSend == << Section("counters", "space", "stats") >>

Metrics ==
  [statsd |-> StatsdMetrics, dogstatsd |-> DogstatsdMetrics,
   influxstatsd |-> InfluxstatsdMetrics, influx |-> InfluxMetrics,
   graphite |-> GraphiteMetrics, cloudwatch2 |-> CloudwatchMetrics]
WriteTo ==
  [statsd |-> StatsdWriteTo, dogstatsd |-> DogstatsdWriteTo,
   influxstatsd |-> InfluxstatsdWriteTo, influx |-> InfluxWriteTo,
   graphite |-> GraphiteWriteTo, cloudwatch2 |-> CloudwatchSend]

(* The kinds are those the tables name.                                      *)
ASSUME TablesAssumption ==
  /\ Backends \subseteq {"statsd", "dogstatsd", "influxstatsd", "influx", "graphite", "cloudwatch2"}
  /\ {"counters", "gauges", "timings", "histograms"} \subseteq Kinds

(* influx collects a batch of points, cloudwatch2 a list of datums; the      *)
(* others write line by line.                                                *)
Collects == backend \in {"influx", "cloudwatch2"}

Init ==
  /\ AtomicInit /\ SpaceInit
  /\ backend \in Backends
  /\ fl = [pc |-> "idle", sec |-> 0, todo |-> {}, err |-> FALSE]
  /\ batch = {} /\ requests = <<>>
  /\ reported = [i \in Ids |-> 0] /\ dropped = {} /\ cancelled = FALSE

-----------------------------------------------------------------------------

(* A goroutine updates some metric of the backend.                           *)
SampledOut(t) ==
  /\ obs[t].pc = "idle" /\ upd[t].pc = "idle" /\ ops < MaxOps
  /\ ops' = ops + 1
  /\ UNCHANGED <<bits, flag, upd, rdr, added, taken, seen, spaceVars>>

Forward(t, k, how) ==
  \/ /\ how \in {"observe", "add", "sample"}
     /\ \E n \in Names, l \in Labels : NodeFor(t, k, n, l, how = "add")
  \/ how = "sample" /\ SampledOut(t)
  \/ /\ how \in {"count", "set", "touch"} /\ obs[t].pc = "idle"
     /\ \/ how = "count" /\ \E c \in Counters : Add(t, c)
        \/ how = "set" /\ \E g \in Gauges : Set(t, g)
        \/ how = "touch" /\ \E g \in Gauges : Add(t, g)
     /\ UNCHANGED spaceVars

UpdateBegins(t) ==
  /\ \E k \in DOMAIN Metrics[backend] :
       \E how \in Metrics[backend][k] : Forward(t, k, how)
  /\ UNCHANGED <<backend, flushVars>>

UpdateGoesOn(t) ==
  /\ \/ Observed(t)
     \/ Updating(t) /\ UNCHANGED spaceVars
  /\ UNCHANGED <<backend, flushVars>>

-----------------------------------------------------------------------------

Current == WriteTo[backend][fl.sec]

Report(written, lost) ==
  /\ reported' = [i \in Ids |-> IF i \in UNION written /\ reported[i] < 2
                                THEN reported[i] + 1 ELSE reported[i]]
  /\ dropped' = dropped \cup (UNION lost)

(* WriteLoop: at a tick it calls WriteTo; when its context is done it        *)
(* returns, but a tick that is ready too may be taken first.                 *)
Tick ==
  /\ fl.pc = "idle"
  /\ fl' = [fl EXCEPT !.pc = "section", !.sec = 1, !.err = FALSE]
  /\ UNCHANGED <<atomicVars, spaceVars, batch, requests, reported, dropped, cancelled>>

Cancel ==
  /\ ~cancelled /\ cancelled' = TRUE
  /\ UNCHANGED <<atomicVars, spaceVars, fl, batch, requests, reported, dropped>>

LoopReturns ==
  /\ cancelled /\ fl.pc = "idle"
  /\ fl' = [fl EXCEPT !.pc = "ended"]
  /\ UNCHANGED <<atomicVars, spaceVars, batch, requests, reported, dropped, cancelled>>

(* A section begins: Reset of its space, or the list of its metrics.         *)
SectionBegins ==
  /\ fl.pc = "section"
  /\ \/ /\ Current.store = "space"
        /\ fl' = [fl EXCEPT !.pc = "walk", !.todo = Roots(Current.kind)]
        /\ Reset(Current.kind)
        /\ UNCHANGED <<heap, obs, appended>>
     \/ /\ Current.store = "flag"
        /\ fl' = [fl EXCEPT !.pc = "walk", !.todo = Gauges]
        /\ UNCHANGED spaceVars
     \/ /\ Current.store = "reset"
        /\ fl' = [fl EXCEPT !.pc = "walk", !.todo = Counters]
        /\ UNCHANGED spaceVars
  /\ UNCHANGED <<atomicVars, batch, requests, reported, dropped, cancelled>>

(* The lines for one list of observations; cloudwatch2's stats, of which     *)
(* only the sum is kept here (Walk never hands it an empty list).            *)
Stats(list) == UNION {list[i] : i \in DOMAIN list}
LinesOf(list) ==
  CASE Current.lines = "sum"   -> {UNION {list[i] : i \in DOMAIN list}}
    [] Current.lines = "stats" -> {Stats(list)}
    [] Current.lines = "last"  -> {list[Len(list)]}
    [] Current.lines = "each"  -> {list[i] : i \in DOMAIN list}

Lines(node) == UNION {LinesOf(list) : list \in Walked(node)}

(* The walk of a space, one root at a time: its lines are collected (a point *)
(* that cannot be made ends influx's WriteTo, and loses the batch), or       *)
(* written until one fails, which ends the walk and loses what is left.      *)
WalkCollects ==
  /\ fl.pc = "walk" /\ Current.store = "space" /\ Collects
  /\ \E n \in fl.todo :
       /\ batch' = batch \cup Lines(n)
       /\ fl' = [fl EXCEPT !.todo = @ \ {n}]
  /\ UNCHANGED <<atomicVars, spaceVars, requests, reported, dropped, cancelled>>

PointFails ==
  /\ fl.pc = "walk" /\ Current.store = "space" /\ backend = "influx"
  /\ Held(fl.todo) # {}
  /\ Report({}, batch \cup {Held(fl.todo)})
  /\ batch' = {}
  /\ fl' = [fl EXCEPT !.todo = {}, !.err = TRUE]
  /\ UNCHANGED <<atomicVars, spaceVars, requests, cancelled>>

WalkWrites ==
  /\ fl.pc = "walk" /\ Current.store = "space" /\ ~Collects
  /\ \E n \in fl.todo : \E written \in SUBSET Lines(n) :
       LET lost == Lines(n) \ written IN
       IF lost = {}
       THEN /\ Report(written, {})
            /\ fl' = [fl EXCEPT !.todo = @ \ {n}, !.err = (@ /\ Lines(n) = {})]
       ELSE /\ Report(written, lost \cup {Held(fl.todo \ {n})})
            /\ fl' = [fl EXCEPT !.todo = {}, !.err = TRUE]
  /\ UNCHANGED <<atomicVars, spaceVars, batch, requests, cancelled>>

(* The walk of the gauges: read each, write its value if it was touched. A   *)
(* line that fails does not keep the next gauge from being read.             *)
GaugeRead ==
  /\ fl.pc = "walk" /\ Current.store = "flag"
  /\ \E g \in fl.todo : GaugeSwap(g) /\ fl' = [fl EXCEPT !.todo = @ \ {g}]
  /\ UNCHANGED <<spaceVars, batch, requests, reported, dropped, cancelled>>

GaugeWrite ==
  /\ fl.pc = "walk" /\ Current.store = "flag"
  /\ GaugeValue
  /\ \E ok \in BOOLEAN :
       fl' = IF rdr.set THEN [fl EXCEPT !.err = ~ok] ELSE fl
  /\ UNCHANGED <<spaceVars, batch, requests, reported, dropped, cancelled>>

(* graphite: ValueReset of each counter, and its line.                       *)
CounterReset ==
  /\ fl.pc = "walk" /\ Current.store = "reset"
  /\ \/ \E c \in fl.todo : ResetBegin(c) /\ fl' = [fl EXCEPT !.todo = @ \ {c}]
     \/ (ResetLoad \/ ResetRetries) /\ UNCHANGED fl
  /\ UNCHANGED <<spaceVars, batch, requests, reported, dropped, cancelled>>

CounterWrite ==
  /\ fl.pc = "walk" /\ Current.store = "reset"
  /\ ResetSwaps
  /\ \/ Report({rdr.old}, {}) /\ UNCHANGED fl
     \/ Report({}, {rdr.old}) /\ fl' = [fl EXCEPT !.err = TRUE, !.todo = {}]
  /\ UNCHANGED <<spaceVars, batch, requests, cancelled>>

(* The end of a section: on to the next one, or, after an error that is      *)
(* checked for and after the last one, out of the sections.                  *)
Leaves == fl.err /\ Current.checked
SectionEnds ==
  /\ fl.pc = "walk" /\ fl.todo = {} /\ rdr.pc = "idle"
  /\ fl' = IF ~Leaves /\ fl.sec < Len(WriteTo[backend])
           THEN [fl EXCEPT !.pc = "section", !.sec = @ + 1]
           ELSE [fl EXCEPT !.pc = IF Collects /\ ~fl.err THEN "send" ELSE "idle"]
  /\ UNCHANGED <<atomicVars, spaceVars, batch, requests, reported, dropped, cancelled>>

(* influx: one Write of the whole batch.                                     *)
InfluxWrite ==
  /\ fl.pc = "send" /\ backend = "influx"
  /\ Report(batch, {}) \/ Report({}, batch)
  /\ batch' = {}
  /\ fl' = [fl EXCEPT !.pc = "idle"]
  /\ UNCHANGED <<atomicVars, spaceVars, requests, cancelled>>

(* cloudwatch2: batches of at most BatchSize datums, each sent by a          *)
(* goroutine that takes a place in the semaphore; Send waits for all.        *)
(* Mutant: no batch for the rest that does not fill one.                     *)
BatchesFull ==
  LET datums == SetToSeq(batch)
      n == (Len(datums) - 1) \div BatchSize
  IN  [b \in 1 .. n |-> ToSet(SubSeq(datums, (b - 1) * BatchSize + 1, b * BatchSize))]

Batches ==
  LET datums == SetToSeq(batch)
      n == (Len(datums) + BatchSize - 1) \div BatchSize
      last(b) == IF b * BatchSize < Len(datums) THEN b * BatchSize ELSE Len(datums)
  IN  [b \in 1 .. n |-> ToSet(SubSeq(datums, (b - 1) * BatchSize + 1, last(b)))]

SendBegins ==
  /\ fl.pc = "send" /\ backend = "cloudwatch2"
  /\ requests' = [b \in DOMAIN Batches |-> [lines |-> Batches[b], st |-> "ready"]]
  /\ batch' = {}
  /\ fl' = [fl EXCEPT !.pc = "wait"]
  /\ UNCHANGED <<atomicVars, spaceVars, reported, dropped, cancelled>>

InState(s) == {b \in DOMAIN requests : requests[b].st = s}

Acquire ==
  /\ Cardinality(InState("put")) < Concurrent
  /\ \E b \in InState("ready") : requests' = [requests EXCEPT ![b].st = "put"]
  /\ UNCHANGED <<atomicVars, spaceVars, fl, batch, reported, dropped, cancelled>>

PutMetricData ==
  /\ \E b \in InState("put") :
       /\ Report(requests[b].lines, {}) \/ Report({}, requests[b].lines)
       /\ requests' = [requests EXCEPT ![b].st = "done"]
  /\ UNCHANGED <<atomicVars, spaceVars, fl, batch, cancelled>>

SendReturns ==
  /\ fl.pc = "wait" /\ InState("done") = DOMAIN requests
  /\ requests' = <<>>
  /\ fl' = [fl EXCEPT !.pc = "idle"]
  /\ UNCHANGED <<atomicVars, spaceVars, batch, reported, dropped, cancelled>>

FlushStep ==
  /\ \/ SectionBegins \/ WalkCollects \/ PointFails \/ WalkWrites \/ GaugeRead \/ GaugeWrite
     \/ CounterReset \/ CounterWrite \/ SectionEnds \/ InfluxWrite
     \/ SendBegins \/ Acquire \/ PutMetricData \/ SendReturns
  /\ UNCHANGED backend

Ticks == Tick /\ UNCHANGED backend

Next ==
  \/ \E t \in Threads : UpdateBegins(t) \/ UpdateGoesOn(t)
  \/ FlushStep
  \/ Ticks
  \/ (Cancel \/ LoopReturns) /\ UNCHANGED backend

(* The ticker ticks, writes and requests return, and the goroutine of        *)
(* WriteLoop runs until its context is done.                                 *)
Spec == Init /\ [][Next]_vars /\ WF_vars(FlushStep) /\ WF_vars(Ticks)

-----------------------------------------------------------------------------

(* The kinds whose every update is reported: a later gauge value supersedes  *)
(* an earlier one.                                                           *)
Summed == Kinds \ {"gauges"}
Made == (UNION {appended[k] : k \in Summed}) \cup (UNION {added[c] : c \in Counters})

(* No update is counted twice: not by two writes, not by two requests, nor   *)
(* by a walk of a space and the walk after the next Reset                    *)
(* (src/metrics/internal/lv/space.go:44-52).                                 *)
ReportedOnce == \A i \in Made : reported[i] < 2

(* Where an observation can be that has been made and not been reported: in  *)
(* a space, in the part of a reset space that is still to be walked, in a    *)
(* batch, in a counter's word.                                               *)
Buffered ==
  Held(UNION {Roots(k) : k \in Summed})
  \cup (IF fl.pc = "walk" /\ Current.store = "space" THEN Held(fl.todo) ELSE {})
  \cup (UNION batch)
  \cup (UNION {UNION requests[b].lines : b \in InState("ready") \cup InState("put")})
  \cup (UNION {bits[c] : c \in Counters})

(* An observation appended to a node that had been walked already is lost.   *)
Late == {i \in Made : i \notin Buffered /\ reported[i] = 0 /\ i \notin dropped}

(* "observations are lost if there is a problem with the write" (src/metrics *)
(* /statsd/statsd.go:115-116). Apart from those, only an observation whose   *)
(* node was taken out of the space by a Reset between its nodeFor and its    *)
(* append can be lost, and only by that append: no step of a flush, and no   *)
(* race of counter updates with ValueReset, loses one.                       *)
LostOnlyLate ==
  [][\A i \in Late' \ Late :
       \E t \in Threads :
         /\ obs[t].id = i /\ obs[t].pc = "node"
         /\ obs[t].node # space[obs[t].kind][obs[t].name]]_vars

(* Every update that was made is reported, or a write of it has failed, or   *)
(* it came late, as long as the loop is not told to end: no section, gauge   *)
(* error, batch or request keeps the flush from coming round to it.          *)
EventuallyReported ==
  \A i \in Ids : (i \in Made) ~> (reported[i] > 0 \/ i \in dropped \cup Late \/ cancelled)
=============================================================================
