---------------------------- MODULE EndpointCache ----------------------------
(***************************************************************************)
(* sd/endpoint_cache.go: the cache behind a DefaultEndpointer.  It turns   *)
(* the instance lists of service-discovery events into live endpoints,     *)
(* closes the ones that disappear and, with the InvalidateOnError option,  *)
(* withdraws everything once a discovery outage has lasted for the         *)
(* configured timeout.                                                     *)
(*                                                                         *)
(* Instance strings are naturals, so that < is their lexicographic order.  *)
(* An endpoint with its closer is a handle, a natural; the factory call    *)
(* for position i of a list makes handle made + i.  Every critical section *)
(* of the RWMutex is one step; the gap between RUnlock and Lock inside     *)
(* Endpoints is a program point of its own.                                *)
(***************************************************************************)
EXTENDS Integers, Sequences, Functions

CONSTANTS
    Instances,          \* the instance strings discovery may report
    EventLists,         \* the instance lists it may report
    Errors, NoErr,      \* discovery errors, and Go's nil error
    Readers,            \* goroutines calling Endpoints()
    InvalidateTimeout,  \* options.invalidateTimeout
    MaxTime,            \* bound on the clock
    MaxMade             \* bound on the handles made

ASSUME InstancesAssumption == Instances \subseteq Nat
ASSUME EventListsAssumption == EventLists \subseteq Seq(Instances)
ASSUME NoErrAssumption == NoErr \notin Errors
ASSUME TimeoutAssumption == InvalidateTimeout \in Nat
ASSUME BoundsAssumption == MaxTime \in Nat /\ MaxMade \in Nat

VARIABLES
    invalidateOnError,  \* c.options.invalidateOnError
    cache,              \* c.cache: instance -> handle
    endpoints,          \* c.endpoints: list position -> handle
    err,                \* c.err
    deadline,           \* c.invalidateDeadline
    now,                \* what c.timeNow() answers
    made,               \* number of handles the factory may have used
    opened,             \* handles whose closer is not nil
    closed,             \* handles whose closer has been called
    reclosed,           \* handles whose closer was called again
    upgrading,          \* readers between RUnlock and Lock
    answer,             \* what the last call of Endpoints returned, and when
    outage              \* history: first error since the last good event, and when

cacheVars == <<cache, endpoints, made, opened, closed, reclosed>>
vars == <<invalidateOnError, cache, endpoints, err, deadline, now, made,
          opened, closed, reclosed, upgrading, answer, outage>>

\* What a call of the factory gives: an endpoint with a closer, an endpoint
\* whose closer is nil, or an error.
Outcomes == {"closer", "nilCloser", "error"}

-----------------------------------------------------------------------------

\* newEndpointCache
Init ==
    /\ invalidateOnError \in BOOLEAN
    /\ cache = [x \in {} |-> 0]
    /\ endpoints = [i \in {} |-> 0]
    /\ err = NoErr
    /\ deadline = 0
    /\ now = 0
    /\ made = 0
    /\ opened = {}
    /\ closed = {}
    /\ reclosed = {}
    /\ upgrading = {}
    /\ answer = [eps |-> endpoints, err |-> NoErr, at |-> 0]
    /\ outage = [err |-> NoErr, since |-> 0]

\* Mutant: the list is used in the order it arrived in.
SortedNot(list) == {list}

\* sort.Strings(instances): the one increasing rearrangement of a list.
Sorted(list) ==
    {s \in [DOMAIN list -> Range(list)] :
        /\ \A i, j \in DOMAIN list : i < j => s[i] <= s[j]
        /\ \E p \in Bijection(DOMAIN list, DOMAIN list) :
              \A i \in DOMAIN list : s[i] = list[p[i]]}

\* Mutant: the old cache is not consulted.
CalledAlways(s) == DOMAIN s

\* The positions whose instance is not (or, after its first occurrence moved
\* the entry over and deleted it, no longer) in the old cache.
Called(s) ==
    {i \in DOMAIN s : s[i] \in DOMAIN cache => \E j \in DOMAIN s : j < i /\ s[j] = s[i]}

\* The positions whose entry is still in the new cache when the loop ends: a
\* later entry for the same instance overwrites an earlier one.
Kept(s, outcome) ==
    LET good == {i \in DOMAIN s : i \in Called(s) => outcome[i] # "error"}
    IN  {i \in good : \A j \in good : s[j] = s[i] => j <= i}

\* The new cache that the loop over the instances builds.
NewCache(s, outcome) ==
    LET kept == Kept(s, outcome)
    IN  [x \in {s[i] : i \in kept} |->
            LET i == CHOOSE i \in kept : s[i] = x
            IN  IF i \in Called(s) THEN made + i ELSE cache[x]]

\* Mutant: survivors are not deleted from the old cache before it is closed.
LeftoversUndeleted(s) == Range(cache) \cap opened

\* The handles closed as leftovers: what is still in the old cache after the loop.
Leftovers(s) == {cache[x] : x \in DOMAIN cache \ Range(s)} \cap opened

\* updateCache on a sorted list, the factory answering as in outcome.
UpdateSorted(s, outcome) ==
    LET new == NewCache(s, outcome)
    IN  /\ cache' = new
        /\ endpoints' = [i \in {i \in DOMAIN s : s[i] \in DOMAIN new} |-> new[s[i]]]
        /\ made' = made + Len(s)
        /\ opened' = opened \cup {made + i : i \in {i \in Called(s) : outcome[i] = "closer"}}
        /\ closed' = closed \cup Leftovers(s)
        /\ reclosed' = reclosed \cup (Leftovers(s) \cap closed)

updateCache(list) ==
    \E s \in Sorted(list) : \E outcome \in [Called(s) -> Outcomes] : UpdateSorted(s, outcome)

-----------------------------------------------------------------------------

\* Update, happy path: the event carries a list.
UpdateInstances(list) ==
    /\ made + Len(list) <= MaxMade
    /\ updateCache(list)
    /\ err' = NoErr
    /\ outage' = [err |-> NoErr, since |-> now]
    /\ UNCHANGED <<invalidateOnError, deadline, now, upgrading, answer>>

\* Update, sad path: keep the first error of an outage and start its deadline.
UpdateError(e) ==
    /\ IF invalidateOnError /\ err = NoErr
       THEN err' = e /\ deadline' = now + InvalidateTimeout
       ELSE UNCHANGED <<err, deadline>>
    /\ outage' = IF outage.err = NoErr THEN [err |-> e, since |-> now] ELSE outage
    /\ UNCHANGED <<invalidateOnError, now, upgrading, answer, cacheVars>>

\* c.err == nil || c.timeNow().Before(c.invalidateDeadline)
Usable == err = NoErr \/ now < deadline

\* Endpoints under the R-lock, returning c.endpoints.
EndpointsShared(r) ==
    /\ r \notin upgrading
    /\ Usable
    /\ answer' = [eps |-> endpoints, err |-> NoErr, at |-> now]
    /\ UNCHANGED <<invalidateOnError, err, deadline, now, upgrading, outage, cacheVars>>

\* Endpoints giving up the R-lock because the deadline has passed.
EndpointsUpgrade(r) ==
    /\ r \notin upgrading
    /\ ~Usable
    /\ upgrading' = upgrading \cup {r}
    /\ UNCHANGED <<invalidateOnError, err, deadline, now, answer, outage, cacheVars>>

\* Endpoints under the exclusive lock, the condition holding again.
EndpointsRecovered(r) ==
    /\ r \in upgrading
    /\ Usable
    /\ upgrading' = upgrading \ {r}
    /\ answer' = [eps |-> endpoints, err |-> NoErr, at |-> now]
    /\ UNCHANGED <<invalidateOnError, err, deadline, now, outage, cacheVars>>

\* Mutants: no second look at the condition after Lock; the cache is dropped
\* without closing what it holds.
EndpointsInvalidateBlindly(r) ==
    /\ r \in upgrading
    /\ updateCache(<<>>)
    /\ upgrading' = upgrading \ {r}
    /\ answer' = [eps |-> [i \in {} |-> 0], err |-> err, at |-> now]
    /\ UNCHANGED <<invalidateOnError, err, deadline, now, outage>>
EndpointsInvalidateUnclosed(r) ==
    /\ r \in upgrading
    /\ ~Usable
    /\ cache' = [x \in {} |-> 0] /\ endpoints' = [i \in {} |-> 0]
    /\ upgrading' = upgrading \ {r}
    /\ answer' = [eps |-> [i \in {} |-> 0], err |-> err, at |-> now]
    /\ UNCHANGED <<invalidateOnError, err, deadline, now, outage, made, opened, closed, reclosed>>

\* Endpoints under the exclusive lock: withdraw everything, return nil, c.err.
EndpointsInvalidate(r) ==
    /\ r \in upgrading
    /\ ~Usable
    /\ updateCache(<<>>)
    /\ upgrading' = upgrading \ {r}
    /\ answer' = [eps |-> [i \in {} |-> 0], err |-> err, at |-> now]
    /\ UNCHANGED <<invalidateOnError, err, deadline, now, outage>>

Tick ==
    /\ now < MaxTime
    /\ now' = now + 1
    /\ UNCHANGED <<invalidateOnError, err, deadline, upgrading, answer, outage, cacheVars>>

Next ==
    \/ \E list \in EventLists : UpdateInstances(list)
    \/ \E e \in Errors : UpdateError(e)
    \/ \E r \in Readers :
          \/ EndpointsShared(r)
          \/ EndpointsUpgrade(r)
          \/ EndpointsRecovered(r)
          \/ EndpointsInvalidate(r)
    \/ Tick

Spec == Init /\ [][Next]_vars

-----------------------------------------------------------------------------

TypeOK ==
    /\ invalidateOnError \in BOOLEAN
    /\ DOMAIN cache \subseteq Instances /\ cache \in [DOMAIN cache -> 1..made]
    /\ DOMAIN endpoints \subseteq Nat /\ endpoints \in [DOMAIN endpoints -> 1..made]
    /\ err \in Errors \cup {NoErr}
    /\ deadline \in Nat
    /\ now \in 0..MaxTime
    /\ made \in 0..MaxMade
    /\ opened \subseteq 1..made /\ closed \subseteq 1..made /\ reclosed \subseteq closed
    /\ upgrading \subseteq Readers
    /\ outage.err \in Errors \cup {NoErr} /\ outage.since \in 0..MaxTime

\* The slice handed to callers holds the endpoints of the cache, in the order
\* of their instances, and none that has been closed.
ServedAreOpen ==
    /\ Range(endpoints) = Range(cache)
    /\ Range(endpoints) \cap closed = {}
    /\ \A i, j \in DOMAIN endpoints : \A x, y \in DOMAIN cache :
          endpoints[i] = cache[x] /\ endpoints[j] = cache[y] /\ i < j => x <= y

\* Only closers that the factory gave are called, and none twice.
ClosedOnce == closed \subseteq opened /\ reclosed = {} /\ IsInjective(cache)

\* "closes old endpoints when they disappear" (sd/endpoint_cache.go:44-47): an
\* endpoint with a closer is in the cache or has been closed.
NoLeak == opened \subseteq closed \cup Range(cache)

\* "persists existing endpoints if they survive through an update": while an
\* instance stays listed its endpoint is the same one.
SurvivorsPersist ==
    [][\A x \in DOMAIN cache \cap DOMAIN cache' : cache'[x] = cache[x]]_vars

\* What InvalidateOnError documents (sd/endpointer.go:46-52): with the option,
\* a call answers with the last known endpoints until the timeout has elapsed
\* since the first error of the outage, and from then on with that error and
\* nothing left open; without it calls never answer with an error.
OutageHonoured ==
    [][answer' # answer =>
          IF invalidateOnError /\ outage.err # NoErr /\ now >= outage.since + InvalidateTimeout
          THEN answer'.err = outage.err /\ cache' = [x \in {} |-> 0] /\ opened' \subseteq closed'
          ELSE answer'.err = NoErr /\ answer'.eps = endpoints]_vars
=============================================================================
