------------------------- MODULE EndpointCacheProofs -------------------------
(***************************************************************************)
(* For every set of instances, readers and errors and every bound: the     *)
(* safety properties of EndpointCache.  The ones about leaks need lists    *)
(* without duplicates, which is exactly what the run on duplicate lists    *)
(* shows; the others hold for any list.                                    *)
(***************************************************************************)
EXTENDS EndpointCache, TLAPS

\* No list names an instance twice.
DistinctLists == \A list \in EventLists : IsInjective(list)

\* What a sorted list is, in the terms the proofs use.
LEMMA SortedList ==
    ASSUME NEW list \in Seq(Instances), NEW s \in Sorted(list)
    PROVE  /\ s \in Seq(Instances) /\ Len(s) = Len(list)
           /\ DOMAIN s = 1..Len(list) /\ s \in [1..Len(list) -> Instances]
           /\ \A i, j \in DOMAIN s : i < j => s[i] <= s[j]
           /\ IsInjective(list) => IsInjective(s)
<1>1. DOMAIN list = 1..Len(list) /\ Len(list) \in Nat
  OBVIOUS
<1>2. Range(list) \subseteq Instances
  BY DEF Range
<1>3. /\ s \in [1..Len(list) -> Instances]
      /\ \A i, j \in DOMAIN s : i < j => s[i] <= s[j]
  BY <1>1, <1>2 DEF Sorted
<1>4. s \in Seq(Instances) /\ Len(s) = Len(list)
  BY <1>1, <1>3
<1>5. ASSUME IsInjective(list) PROVE IsInjective(s)
  <2>1. PICK p \in Bijection(DOMAIN list, DOMAIN list) :
           \A i \in DOMAIN list : s[i] = list[p[i]]
    BY DEF Sorted
  <2>2. /\ p \in [DOMAIN list -> DOMAIN list]
        /\ \A i, j \in DOMAIN list : p[i] = p[j] => i = j
    BY <2>1 DEF Bijection, Injection, IsInjective
  <2>3. DOMAIN s = DOMAIN list
    BY <1>1, <1>3
  <2>. SUFFICES ASSUME NEW i \in DOMAIN list, NEW j \in DOMAIN list, s[i] = s[j]
                PROVE  i = j
    BY <2>3 DEF IsInjective
  <2>4. p[i] \in DOMAIN list /\ p[j] \in DOMAIN list /\ list[p[i]] = list[p[j]]
    BY <2>1, <2>2
  <2>5. p[i] = p[j]
    BY <1>5, <2>4, Zenon DEF IsInjective
  <2>. QED  BY <2>2, <2>5
<1>. QED  BY <1>1, <1>3, <1>4, <1>5

\* An entry of the new cache is either the old one of the same instance or the
\* handle just made for a position of that instance.
LEMMA NewCacheEntries ==
    ASSUME NEW n \in Nat, NEW s \in [1..n -> Instances], NEW outcome,
           NEW x \in DOMAIN NewCache(s, outcome)
    PROVE  \E i \in Kept(s, outcome) :
              /\ i \in 1..n /\ s[i] = x
              /\ IF i \in Called(s) THEN NewCache(s, outcome)[x] = made + i
                 ELSE x \in DOMAIN cache /\ NewCache(s, outcome)[x] = cache[x]
<1>. DEFINE kept == Kept(s, outcome)
            i == CHOOSE i \in kept : s[i] = x
<1>1. x \in {s[k] : k \in kept}
  BY DEF NewCache
<1>2. i \in kept /\ s[i] = x
  BY <1>1
<1>3. i \in 1..n
  BY <1>2 DEF Kept
<1>4. NewCache(s, outcome)[x] = IF i \in Called(s) THEN made + i ELSE cache[x]
  BY <1>1 DEF NewCache
<1>5. i \notin Called(s) => x \in DOMAIN cache
  BY <1>2, <1>3 DEF Called
<1>. QED  BY <1>2, <1>3, <1>4, <1>5

\* Safety that no list of instances can break.
Safe == TypeOK /\ ServedAreOpen /\ ClosedOnce

\* updateCache keeps the cache and the slice in step, injective and open.
LEMMA UpdateCacheSafe ==
    ASSUME Safe, NEW list \in Seq(Instances), made + Len(list) <= MaxMade, updateCache(list)
    PROVE  /\ made' \in 0..MaxMade
           /\ DOMAIN cache' \subseteq Instances /\ cache' \in [DOMAIN cache' -> 1..made']
           /\ DOMAIN endpoints' \subseteq Nat /\ endpoints' \in [DOMAIN endpoints' -> 1..made']
           /\ opened' \subseteq 1..made' /\ closed' \subseteq opened' /\ reclosed' \subseteq closed'
           /\ ServedAreOpen' /\ ClosedOnce'
<1>. USE BoundsAssumption, InstancesAssumption
<1>0. PICK s \in Sorted(list) :
        \E outcome \in [Called(s) -> Outcomes] : UpdateSorted(s, outcome)
  BY Zenon DEF updateCache
<1>1. PICK outcome \in [Called(s) -> Outcomes] : UpdateSorted(s, outcome)
  BY Zenon, <1>0
<1>. DEFINE n == Len(list)
            new == NewCache(s, outcome)
<1>2. /\ n \in Nat /\ Len(s) = n /\ DOMAIN s = 1..n /\ s \in [1..n -> Instances]
      /\ \A i, j \in 1..n : i < j => s[i] <= s[j]
  BY SortedList
<1>3. /\ made \in 0..MaxMade /\ closed \subseteq opened /\ opened \subseteq 1..made
      /\ cache \in [DOMAIN cache -> 1..made]
  BY DEF Safe, TypeOK, ClosedOnce
<1>4. /\ cache' = new
      /\ endpoints' = [i \in {i \in 1..n : s[i] \in DOMAIN new} |-> new[s[i]]]
      /\ made' = made + n
      /\ opened' = opened \cup {made + i : i \in {i \in Called(s) : outcome[i] = "closer"}}
      /\ closed' = closed \cup Leftovers(s)
      /\ reclosed' = reclosed \cup (Leftovers(s) \cap closed)
  BY <1>1, <1>2 DEF UpdateSorted
<1>5. Called(s) \subseteq 1..n /\ Leftovers(s) \subseteq opened
  BY <1>2 DEF Called, Leftovers
<1>6. ASSUME NEW x \in DOMAIN new
      PROVE  /\ x \in Instances
             /\ \E i \in 1..n : s[i] = x
             /\ \/ \E i \in 1..n : s[i] = x /\ new[x] = made + i
                \/ x \in DOMAIN cache /\ new[x] = cache[x]
  <2>1. PICK i \in Kept(s, outcome) :
          /\ i \in 1..n /\ s[i] = x
          /\ IF i \in Called(s) THEN new[x] = made + i ELSE x \in DOMAIN cache /\ new[x] = cache[x]
    BY <1>2, NewCacheEntries
  <2>. HIDE DEF new
  <2>. QED  BY <1>2, <2>1
<1>7. ASSUME NEW x \in DOMAIN new
      PROVE  new[x] \in 1..(made + n)
  <2>1. CASE \E i \in 1..n : s[i] = x /\ new[x] = made + i
    BY <1>2, <1>3, <2>1
  <2>2. CASE x \in DOMAIN cache /\ new[x] = cache[x]
    <3>1. cache[x] \in 1..made
      BY <1>3, <2>2
    <3>. QED  BY <1>2, <1>3, <2>2, <3>1
  <2>. QED  BY <1>6, <2>1, <2>2
<1>8. new \in [DOMAIN new -> 1..(made + n)]
  BY <1>7 DEF NewCache
<1>9. IsInjective(new)
  <2>. SUFFICES ASSUME NEW x \in DOMAIN new, NEW y \in DOMAIN new, new[x] = new[y]
                PROVE  x = y
    BY DEF IsInjective
  <2>1. \A u, v \in DOMAIN cache : cache[u] = cache[v] => u = v
    BY DEF Safe, ClosedOnce, IsInjective
  <2>2. \/ \E i \in 1..n : s[i] = x /\ new[x] = made + i
        \/ x \in DOMAIN cache /\ new[x] = cache[x] /\ new[x] <= made
    BY <1>3, <1>6
  <2>3. \/ \E i \in 1..n : s[i] = y /\ new[y] = made + i
        \/ y \in DOMAIN cache /\ new[y] = cache[y] /\ new[y] <= made
    BY <1>3, <1>6
  <2>. HIDE DEF new
  <2>4. PICK v : v = new[x] /\ v = new[y]
    OBVIOUS
  <2>5. ASSUME NEW i \in 1..n PROVE ~(made + i <= made)
    BY <1>2, <1>3
  <2>6. ASSUME NEW i \in 1..n, NEW j \in 1..n, made + i = made + j PROVE i = j
    BY <1>2, <1>3, <2>6
  <2>7. \/ \E i \in 1..n : s[i] = x /\ v = made + i
        \/ x \in DOMAIN cache /\ v = cache[x] /\ v <= made
    BY <2>2, <2>4, Zenon
  <2>8. \/ \E i \in 1..n : s[i] = y /\ v = made + i
        \/ y \in DOMAIN cache /\ v = cache[y] /\ v <= made
    BY <2>3, <2>4, Zenon
  <2>9. CASE \E i \in 1..n : s[i] = x /\ v = made + i
    <3>1. PICK i \in 1..n : s[i] = x /\ v = made + i
      BY <2>9
    <3>2. PICK j \in 1..n : s[j] = y /\ v = made + j
      BY <2>5, <2>8, <3>1, Zenon
    <3>3. i = j
      BY <2>6, <3>1, <3>2, Zenon
    <3>. QED  BY <3>1, <3>2, <3>3, Zenon
  <2>10. CASE x \in DOMAIN cache /\ v = cache[x] /\ v <= made
    BY <2>1, <2>5, <2>8, <2>10, Zenon
  <2>. QED  BY <2>7, <2>9, <2>10
<1>10. Range(new) \cap closed' = {}
  <2>. SUFFICES ASSUME NEW x \in DOMAIN new, new[x] \in closed' PROVE FALSE
    BY DEF Range
  <2>1. \A u, v \in DOMAIN cache : cache[u] = cache[v] => u = v
    BY DEF Safe, ClosedOnce, IsInjective
  <2>2. \A u \in DOMAIN cache : cache[u] \notin closed
    BY DEF Safe, ServedAreOpen, Range
  <2>3. x \in Range(s)
    BY <1>2, <1>6 DEF Range
  <2>4. CASE x \in DOMAIN cache /\ new[x] = cache[x]
    BY <1>4, <2>1, <2>2, <2>3, <2>4 DEF Leftovers
  <2>5. CASE \E i \in 1..n : new[x] = made + i
    BY <1>2, <1>3, <1>4, <1>5, <2>5
  <2>. QED  BY <1>6, <2>4, <2>5
<1>11. Range(endpoints') = Range(new)
  <2>1. ASSUME NEW i \in DOMAIN endpoints' PROVE endpoints'[i] \in Range(new)
    BY <1>4 DEF Range
  <2>2. ASSUME NEW x \in DOMAIN new PROVE new[x] \in Range(endpoints')
    BY <1>4, <1>6 DEF Range
  <2>. QED  BY <2>1, <2>2 DEF Range
<1>12. ASSUME NEW i \in DOMAIN endpoints', NEW j \in DOMAIN endpoints', i < j,
              NEW x \in DOMAIN new, NEW y \in DOMAIN new,
              endpoints'[i] = new[x], endpoints'[j] = new[y]
       PROVE  x <= y
  <2>1. s[i] = x /\ s[j] = y
    BY <1>4, <1>9, <1>12 DEF IsInjective
  <2>. QED  BY <1>2, <1>4, <1>12, <2>1
<1>13. reclosed' = {}
  <2>1. Leftovers(s) \cap closed = {}
    BY DEF Safe, ServedAreOpen, Range, Leftovers
  <2>. QED  BY <1>4, <2>1 DEF Safe, ClosedOnce
<1>14. made' \in 0..MaxMade
  BY <1>2, <1>3, <1>4
<1>15. /\ DOMAIN cache' \subseteq Instances /\ cache' \in [DOMAIN cache' -> 1..made']
  BY <1>4, <1>6, <1>8
<1>16. /\ DOMAIN endpoints' \subseteq Nat /\ endpoints' \in [DOMAIN endpoints' -> 1..made']
  <2>1. DOMAIN endpoints' = {i \in 1..n : s[i] \in DOMAIN new}
    BY <1>4, Zenon
  <2>. HIDE DEF new
  <2>2. ASSUME NEW i \in DOMAIN endpoints' PROVE endpoints'[i] \in 1..made'
    BY <1>4, <1>7, <2>1
  <2>3. endpoints' = [i \in DOMAIN endpoints' |-> endpoints'[i]]
    BY <1>4, <2>1, Zenon
  <2>. QED  BY <1>2, <2>1, <2>2, <2>3
<1>17. /\ opened' \subseteq 1..made' /\ closed' \subseteq opened'
  BY <1>2, <1>3, <1>4, <1>5
<1>18. ServedAreOpen'
  <2>1. cache' = new
    BY <1>4
  <2>2. \A i, j \in DOMAIN endpoints' : \A x, y \in DOMAIN cache' :
           endpoints'[i] = cache'[x] /\ endpoints'[j] = cache'[y] /\ i < j => x <= y
    <3>1. ASSUME NEW i \in DOMAIN endpoints', NEW j \in DOMAIN endpoints',
                 NEW x \in DOMAIN cache', NEW y \in DOMAIN cache',
                 endpoints'[i] = cache'[x], endpoints'[j] = cache'[y], i < j
          PROVE  x <= y
      <4>1. /\ x \in DOMAIN new /\ y \in DOMAIN new
            /\ endpoints'[i] = new[x] /\ endpoints'[j] = new[y]
        BY <2>1, <3>1
      <4>. QED  BY <1>12, <3>1, <4>1
    <3>. QED  BY <3>1
  <2>. HIDE DEF new
  <2>3. Range(endpoints') = Range(cache') /\ Range(endpoints') \cap closed' = {}
    BY <1>10, <1>11, <2>1, Zenon
  <2>. QED  BY <2>2, <2>3, Zenon DEF ServedAreOpen
<1>. QED  BY <1>4, <1>9, <1>13, <1>14, <1>15, <1>16, <1>17, <1>18 DEF ClosedOnce

\* With lists that name an instance once, updateCache also leaks nothing and
\* keeps the endpoint of every instance that stays.
LEMMA UpdateCacheDistinct ==
    ASSUME Safe, NoLeak, NEW list \in Seq(Instances), IsInjective(list), updateCache(list)
    PROVE  /\ NoLeak'
           /\ \A x \in DOMAIN cache \cap DOMAIN cache' : cache'[x] = cache[x]
<1>0. PICK s \in Sorted(list) :
        \E outcome \in [Called(s) -> Outcomes] : UpdateSorted(s, outcome)
  BY Zenon DEF updateCache
<1>1. PICK outcome \in [Called(s) -> Outcomes] : UpdateSorted(s, outcome)
  BY Zenon, <1>0
<1>. DEFINE n == Len(list)
            new == NewCache(s, outcome)
<1>2. /\ n \in Nat /\ DOMAIN s = 1..n /\ s \in [1..n -> Instances]
      /\ \A i, j \in 1..n : s[i] = s[j] => i = j
  BY SortedList DEF IsInjective
<1>3. /\ cache' = new
      /\ opened' = opened \cup {made + i : i \in {i \in Called(s) : outcome[i] = "closer"}}
      /\ closed' = closed \cup Leftovers(s)
  BY <1>1 DEF UpdateSorted
<1>4. Called(s) = {i \in 1..n : s[i] \notin DOMAIN cache}
  BY <1>2 DEF Called
<1>5. Kept(s, outcome) = {i \in 1..n : i \in Called(s) => outcome[i] # "error"}
  BY <1>2 DEF Kept
<1>6. ASSUME NEW i \in Kept(s, outcome)
      PROVE  /\ s[i] \in DOMAIN new
             /\ new[s[i]] = IF i \in Called(s) THEN made + i ELSE cache[s[i]]
  <2>1. s[i] \in DOMAIN new
    BY DEF NewCache
  <2>2. PICK k \in Kept(s, outcome) :
              /\ k \in 1..n /\ s[k] = s[i]
              /\ IF k \in Called(s) THEN new[s[i]] = made + k
                 ELSE s[i] \in DOMAIN cache /\ new[s[i]] = cache[s[i]]
    BY <1>2, <2>1, NewCacheEntries
  <2>3. k = i
    BY <1>2, <1>5, <2>2
  <2>. QED  BY <2>1, <2>2, <2>3
<1>7. ASSUME NEW h \in opened PROVE h \in closed' \cup Range(cache')
  <2>1. CASE h \in closed
    BY <1>3, <2>1
  <2>2. ASSUME NEW x \in DOMAIN cache, h = cache[x] PROVE h \in closed' \cup Range(cache')
    <3>1. CASE x \in Range(s)
      <4>1. PICK i \in 1..n : s[i] = x
        BY <1>2, <3>1 DEF Range
      <4>2. i \in Kept(s, outcome) /\ i \notin Called(s)
        BY <1>4, <1>5, <4>1
      <4>. QED  BY <1>3, <1>6, <2>2, <4>1, <4>2 DEF Range
    <3>2. CASE x \notin Range(s)
      BY <1>3, <2>2, <3>2 DEF Leftovers
    <3>. QED  BY <3>1, <3>2
  <2>. QED  BY <2>1, <2>2 DEF NoLeak, Range
<1>8. ASSUME NEW i \in Called(s), outcome[i] = "closer" PROVE made + i \in Range(cache')
  <2>1. i \in Kept(s, outcome)
    BY <1>4, <1>5, <1>8
  <2>. QED  BY <1>3, <1>6, <2>1 DEF Range
<1>9. ASSUME NEW x \in DOMAIN cache \cap DOMAIN cache' PROVE cache'[x] = cache[x]
  <2>1. PICK i \in Kept(s, outcome) : i \in 1..n /\ s[i] = x
    BY <1>2, <1>3, NewCacheEntries
  <2>2. i \notin Called(s)
    BY <1>4, <2>1
  <2>. QED  BY <1>3, <1>6, <2>1, <2>2
<1>10. NoLeak'
  BY <1>3, <1>7, <1>8 DEF NoLeak
<1>. QED  BY <1>9, <1>10

-----------------------------------------------------------------------------

LEMMA SafeInit == Init => Safe /\ NoLeak
  BY BoundsAssumption DEF Init, Safe, TypeOK, ServedAreOpen, ClosedOnce, NoLeak, Range, IsInjective

\* One step per action: Safe is inductive.
LEMMA SafeNext == Safe /\ [Next]_vars => Safe'
<1>. SUFFICES ASSUME Safe, [Next]_vars PROVE Safe'
  OBVIOUS
<1>. USE TimeoutAssumption, BoundsAssumption
<1>1. ASSUME NEW list \in EventLists, UpdateInstances(list) PROVE Safe'
  <2>1. list \in Seq(Instances) /\ made + Len(list) <= MaxMade /\ updateCache(list)
    BY <1>1, EventListsAssumption DEF UpdateInstances
  <2>. QED  BY <1>1, <2>1, UpdateCacheSafe DEF UpdateInstances, Safe, TypeOK
<1>2. ASSUME UNCHANGED cacheVars PROVE ServedAreOpen' /\ ClosedOnce'
  BY <1>2 DEF Safe, cacheVars, ServedAreOpen, ClosedOnce
<1>3. ASSUME NEW e \in Errors, UpdateError(e) PROVE Safe'
  BY <1>2, <1>3 DEF UpdateError, Safe, TypeOK, cacheVars
<1>4. ASSUME NEW r \in Readers, EndpointsShared(r) PROVE Safe'
  BY <1>2, <1>4 DEF EndpointsShared, Safe, TypeOK, cacheVars
<1>5. ASSUME NEW r \in Readers, EndpointsUpgrade(r) PROVE Safe'
  BY <1>2, <1>5 DEF EndpointsUpgrade, Safe, TypeOK, cacheVars
<1>6. ASSUME NEW r \in Readers, EndpointsRecovered(r) PROVE Safe'
  BY <1>2, <1>6 DEF EndpointsRecovered, Safe, TypeOK, cacheVars
<1>7. ASSUME NEW r \in Readers, EndpointsInvalidate(r) PROVE Safe'
  <2>1. <<>> \in Seq(Instances) /\ made + Len(<<>>) <= MaxMade
    BY DEF Safe, TypeOK
  <2>. QED  BY <1>7, <2>1, UpdateCacheSafe DEF EndpointsInvalidate, Safe, TypeOK
<1>8. CASE Tick
  BY <1>2, <1>8 DEF Tick, Safe, TypeOK, cacheVars
<1>9. CASE UNCHANGED vars
  BY <1>2, <1>9 DEF vars, Safe, TypeOK, cacheVars
<1>. QED  BY <1>1, <1>3, <1>4, <1>5, <1>6, <1>7, <1>8, <1>9 DEF Next

\* Whatever lists discovery reports, the slice handed to callers is the cache's
\* endpoints in instance order, none of them closed, and no closer is called twice.
THEOREM SafetyForAllLists == Spec => [](TypeOK /\ ServedAreOpen /\ ClosedOnce)
<1>1. Spec => []Safe
  BY SafeInit, SafeNext, PTL DEF Spec
<1>. QED  BY <1>1, PTL DEF Safe

\* updateCache and Endpoints call only closers that the factory gave, and none
\* twice, for no two instances of the cache share an endpoint.
THEOREM EndpointsCloseOnce == Spec => []ClosedOnce
<1>. QED  BY SafetyForAllLists, PTL

\* The map, the served slice and the error state always have their types; in
\* particular every handle in them is one that the factory has made.
THEOREM CacheTypes == Spec => []TypeOK
<1>. QED  BY SafetyForAllLists, PTL

-----------------------------------------------------------------------------

\* The error state is that of the outage: without it OutageHonoured does not
\* follow from a single step.
OutageTracked ==
    IF invalidateOnError
    THEN err = outage.err /\ (err # NoErr => deadline = outage.since + InvalidateTimeout)
    ELSE err = NoErr

LEMMA OutageTrackedNext == OutageTracked /\ [Next]_vars => OutageTracked'
<1>. SUFFICES ASSUME OutageTracked, [Next]_vars PROVE OutageTracked'
  OBVIOUS
<1>1. ASSUME NEW list \in EventLists, UpdateInstances(list) PROVE OutageTracked'
  BY <1>1 DEF UpdateInstances, OutageTracked
<1>2. ASSUME NEW e \in Errors, UpdateError(e) PROVE OutageTracked'
  BY <1>2, NoErrAssumption DEF UpdateError, OutageTracked
<1>3. ASSUME NEW r \in Readers,
             \/ EndpointsShared(r) \/ EndpointsUpgrade(r)
             \/ EndpointsRecovered(r) \/ EndpointsInvalidate(r)
      PROVE  OutageTracked'
  BY <1>3 DEF EndpointsShared, EndpointsUpgrade, EndpointsRecovered, EndpointsInvalidate, OutageTracked
<1>4. CASE Tick
  BY <1>4 DEF Tick, OutageTracked
<1>5. CASE UNCHANGED vars
  BY <1>5 DEF vars, OutageTracked
<1>. QED  BY <1>1, <1>2, <1>3, <1>4, <1>5 DEF Next

\* A step on distinct lists leaks nothing and keeps the survivors.
LEMMA DistinctNext ==
    ASSUME DistinctLists, Safe, NoLeak, [Next]_vars
    PROVE  /\ NoLeak'
           /\ \A x \in DOMAIN cache \cap DOMAIN cache' : cache'[x] = cache[x]
<1>1. CASE UNCHANGED cacheVars
  BY <1>1 DEF cacheVars, NoLeak
<1>2. ASSUME NEW list \in EventLists, UpdateInstances(list)
      PROVE  /\ NoLeak'
             /\ \A x \in DOMAIN cache \cap DOMAIN cache' : cache'[x] = cache[x]
  <2>1. list \in Seq(Instances) /\ IsInjective(list) /\ updateCache(list)
    BY <1>2, EventListsAssumption DEF UpdateInstances, DistinctLists
  <2>. QED  BY <2>1, UpdateCacheDistinct
<1>3. ASSUME NEW r \in Readers, EndpointsInvalidate(r)
      PROVE  /\ NoLeak'
             /\ \A x \in DOMAIN cache \cap DOMAIN cache' : cache'[x] = cache[x]
  <2>1. <<>> \in Seq(Instances) /\ IsInjective(<<>>) /\ updateCache(<<>>)
    BY <1>3 DEF EndpointsInvalidate, IsInjective
  <2>. QED  BY <2>1, UpdateCacheDistinct
<1>. QED
  BY <1>1, <1>2, <1>3
  DEF Next, vars, cacheVars, UpdateError, EndpointsShared, EndpointsUpgrade, EndpointsRecovered, Tick

\* updateCache(nil) leaves the cache empty.
LEMMA Emptied == updateCache(<<>>) => cache' = [x \in {} |-> 0]
<1>. SUFFICES ASSUME updateCache(<<>>) PROVE cache' = [x \in {} |-> 0]
  OBVIOUS
<1>0. PICK s \in Sorted(<<>>) :
        \E outcome \in [Called(s) -> Outcomes] : UpdateSorted(s, outcome)
  BY Zenon DEF updateCache
<1>1. PICK outcome \in [Called(s) -> Outcomes] : UpdateSorted(s, outcome)
  BY Zenon, <1>0
<1>2. DOMAIN s = {}
  BY DEF Sorted
<1>3. Kept(s, outcome) = {}
  BY <1>2 DEF Kept
<1>4. \A x : x \notin DOMAIN NewCache(s, outcome)
  BY <1>3 DEF NewCache
<1>. QED  BY <1>1, <1>3, <1>4 DEF UpdateSorted, NewCache

\* On lists that name an instance once, every endpoint that leaves the cache is
\* closed, and an instance that stays listed keeps its endpoint.
THEOREM EndpointLifetimes == DistinctLists /\ Spec => []NoLeak /\ SurvivorsPersist
<1>. SUFFICES ASSUME DistinctLists PROVE Spec => []NoLeak /\ SurvivorsPersist
  OBVIOUS
<1>1. Safe /\ NoLeak /\ [Next]_vars => NoLeak'
  BY DistinctNext
<1>2. Safe /\ NoLeak /\ [Next]_vars
        => [\A x \in DOMAIN cache \cap DOMAIN cache' : cache'[x] = cache[x]]_vars
  BY DistinctNext
<1>. QED  BY <1>1, <1>2, SafeInit, SafeNext, PTL DEF Spec, SurvivorsPersist

\* On such lists an instance that stays listed keeps its endpoint, through
\* errors, failing factories and invalidations.
THEOREM SurvivorsKept == DistinctLists /\ Spec => SurvivorsPersist
BY EndpointLifetimes, PTL

\* The answer of a call honours the grace period of an outage: the last known
\* endpoints before the timeout since its first error, that error afterwards.
THEOREM OutageIsHonoured == DistinctLists /\ Spec => OutageHonoured
<1>. SUFFICES ASSUME DistinctLists PROVE Spec => OutageHonoured
  OBVIOUS
<1>. DEFINE Over == invalidateOnError /\ outage.err # NoErr /\ now >= outage.since + InvalidateTimeout
            Honoured == answer' # answer =>
               IF Over
               THEN answer'.err = outage.err /\ cache' = [x \in {} |-> 0] /\ opened' \subseteq closed'
               ELSE answer'.err = NoErr /\ answer'.eps = endpoints
<1>1. Init => OutageTracked
  BY DEF Init, OutageTracked
<1>2. Safe /\ NoLeak /\ [Next]_vars => NoLeak'
  BY DistinctNext
<1>3. ASSUME Safe, NoLeak, OutageTracked, [Next]_vars PROVE [Honoured]_vars
  <2>1. Usable <=> ~Over
    BY <1>3, TimeoutAssumption DEF Usable, OutageTracked, Safe, TypeOK
  <2>2. ASSUME NEW r \in Readers, EndpointsShared(r) \/ EndpointsRecovered(r) PROVE Honoured
    BY <2>1, <2>2 DEF EndpointsShared, EndpointsRecovered
  <2>3. ASSUME NEW r \in Readers, EndpointsInvalidate(r) PROVE Honoured
    <3>1. cache' = [x \in {} |-> 0] /\ Over /\ answer'.err = err
      BY <2>1, <2>3, Emptied DEF EndpointsInvalidate
    <3>2. opened' \subseteq closed'
      BY <1>2, <1>3, <3>1 DEF NoLeak, Range
    <3>. QED  BY <1>3, <3>1, <3>2 DEF OutageTracked
  <2>4. CASE UNCHANGED answer
    BY <2>4
  <2>. QED
    BY <1>3, <2>2, <2>3, <2>4
    DEF Next, vars, UpdateInstances, UpdateError, EndpointsUpgrade, Tick
<1>. QED
  BY <1>1, <1>2, <1>3, SafeInit, SafeNext, OutageTrackedNext, PTL DEF Spec, OutageHonoured
=============================================================================
