----------------------------- MODULE LabelSpace -----------------------------
(* metrics/internal/lv: a Space keeps, for each name, a tree of nodes with   *)
(* the observations of each combination of label values. An observation      *)
(* first fetches the name's root node under the space's lock and then        *)
(* descends and appends under the locks of the nodes, all of which it holds  *)
(* until it has appended; a Walk holds them too. So what can come between    *)
(* the two is a Reset, and the Walk of the space that Reset returned.        *)
EXTENDS AtomicMetrics, Sequences

CONSTANTS Kinds,    \* the spaces of a backend: counters, gauges, ...
          Names,    \* names of metrics
          Labels    \* combinations of label values

VARIABLES space,    \* per kind and name, the root node; 0 if there is none
          heap,     \* the root nodes ever made: observations per label values
          obs,      \* each updating goroutine: the observation it is making
          appended  \* per kind, the observations made (history)

spaceVars == <<space, heap, obs, appended>>

NoObs == [pc |-> "idle", kind |-> "none", name |-> Nobody, label |-> Nobody,
          id |-> 0, node |-> 0, add |-> FALSE]

EmptySpace == [n \in Names |-> 0]
EmptyNode == [l \in Labels |-> <<>>]

SpaceInit ==
  /\ space = [k \in Kinds |-> EmptySpace]
  /\ heap = <<>>
  /\ obs = [t \in Threads |-> NoObs]
  /\ appended = [k \in Kinds |-> {}]

(* Observe and Add of a Space: nodeFor returns the name's node, which it     *)
(* makes if need be ...                                                      *)
NodeFor(t, k, n, l, add) ==
  LET node == IF space[k][n] = 0 THEN Len(heap) + 1 ELSE space[k][n] IN
  /\ obs[t].pc = "idle" /\ upd[t].pc = "idle" /\ ops < MaxOps
  /\ ops' = ops + 1
  /\ heap' = IF space[k][n] = 0 THEN Append(heap, EmptyNode) ELSE heap
  /\ space' = [space EXCEPT ![k][n] = node]
  /\ obs' = [obs EXCEPT ![t] = [pc |-> "node", kind |-> k, name |-> n,
               label |-> l, id |-> ops + 1, node |-> node, add |-> add]]
  /\ UNCHANGED <<bits, flag, upd, rdr, added, taken, seen, appended>>

(* ... and node.observe or node.add appends: the value, or the value added   *)
(* to the last one the node has.                                             *)
Appended(o) ==
  LET list == heap[o.node][o.label]
  IN  Append(list, IF o.add /\ list # <<>> THEN list[Len(list)] \cup {o.id}
                                           ELSE {o.id})

Observed(t) ==
  LET o == obs[t] IN
  /\ o.pc = "node"
  /\ heap' = [heap EXCEPT ![o.node][o.label] = Appended(o)]
  /\ obs' = [obs EXCEPT ![t] = NoObs]
  /\ appended' = [appended EXCEPT ![o.kind] = @ \cup {o.id}]
  /\ UNCHANGED <<atomicVars, space>>

(* Reset: the old contents for the caller, an empty map for the space.       *)
(* Mutant: the space keeps its map.                                          *)
ResetKeeps(k) == UNCHANGED space
Reset(k) == space' = [space EXCEPT ![k] = EmptySpace]
Roots(k) == {space[k][n] : n \in Names} \ {0}

(* What Walk hands to the callback of a root node: the lists of its nodes    *)
(* that have observations, under their locks.                                *)
Walked(node) == {heap[node][l] : l \in Labels} \ {<<>>}

(* The observations of a set of root nodes.                                  *)
Held(nodes) ==
  UNION {UNION {list[i] : i \in DOMAIN list} :
           list \in UNION {Walked(n) : n \in nodes}}
=============================================================================
