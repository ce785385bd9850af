SPECIFICATION Spec
CONSTANTS
  Backends = {"statsd", "dogstatsd", "influxstatsd", "influx", "graphite", "cloudwatch2"}
  Threads = {t1, t2}
  Kinds = {"counters", "gauges", "timings", "histograms"}
  Names = {a}
  Labels = {x, y}
  Counters = {c}
  Gauges = {g, h}
  Nobody = Nobody
  MaxOps = 2
  BatchSize = 1
  Concurrent = 1
CHECK_DEADLOCK FALSE
INVARIANTS
  CounterConserves
  GaugeNoticed
  ReportedOnce
PROPERTIES
  LostOnlyLate
  EventuallyReported
