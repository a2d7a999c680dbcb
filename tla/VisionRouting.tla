--------------------------- MODULE VisionRouting ---------------------------
(***************************************************************************)
(* The vision advisor's decision (src/hub/vision_routing.py): which of the *)
(* candidate models a client should send an image request to.  A candidate *)
(* is a record of what the hub knows of one model of one server; unknown   *)
(* fields are None.  Candidates are numbered in the order of their names,  *)
(* which is what breaks ties.                                              *)
(***************************************************************************)
EXTENDS Integers, FiniteSets

CONSTANTS None,            \* an unknown value
          StaleAfter,      \* policy.stale_after_s
          BusyThreshold    \* policy.gpu_busy_threshold

DefaultTier == 10

\* A number that is not below `least', or the value a bad or missing one gets.
Number(v, least, otherwise) == IF v # None /\ v >= least THEN v ELSE otherwise

\* normalize_candidate: parallelism must be positive, a tier not negative.
Normalize(c) ==
  [c EXCEPT !.tier = Number(@, 0, DefaultTier), !.parallelism = Number(@, 1, None)]

\* vision_routing.py:image_capable
ImageCapable(c) ==
  IF c.override # None THEN c.override
  ELSE IF c.modalities = None THEN c.kind # "vllm"
  ELSE c.modalities = "image"

Reaches(v, limit) == v # None /\ v >= limit

\* capacity_class: "unknown" is treated as free.
Saturated(c) ==
  \/ Reaches(c.deferred, 1)
  \/ c.parallelism # None /\ (Reaches(c.proc, c.parallelism) \/ Reaches(c.busy, c.parallelism))

CapacityClass(c) ==
  IF Saturated(c) THEN "queued"
  ELSE IF c.parallelism = None /\ c.proc = None /\ c.busy = None THEN "unknown"
  ELSE "immediate"

\* _reject: the first filter that fails, "none" where all pass.
Reject(c) ==
  CASE ~c.online                                -> "server_offline"
    [] c.online /\ c.age # None /\ c.age > StaleAfter -> "stale_state"
    [] OTHER ->
       IF ~c.loaded THEN "not_loaded"
       ELSE IF ~ImageCapable(c) THEN "no_image_modality"
       ELSE IF ~c.enabled THEN "policy_disabled"
       ELSE "none"

Eligible(cands) == {i \in DOMAIN cands : Reject(cands[i]) = "none"}

\* _gpu_contended: utilization that is stale counts for nothing.
Contended(c) == ~c.gpusStale /\ Reaches(c.util, BusyThreshold)

Flag(b) == IF b THEN 1 ELSE 0

\* _sort_key, but for the name.
SortKey(c) ==
  <<Flag(Saturated(c)), c.tier, Flag(Contended(c)), Flag(Reaches(c.proc, 1))>>

\* The order of tuples in Python.
Smaller(k, l) ==
  \E n \in DOMAIN k : k[n] < l[n] /\ \A m \in 1..(n - 1) : k[m] = l[m]

\* Mutant of Precedes: tier before capacity.
PrecedesByTier(cands, i, j) ==
  LET key(c) == <<c.tier, Flag(Saturated(c)), Flag(Contended(c)), Flag(Reaches(c.proc, 1))>>
  IN Smaller(key(cands[i]), key(cands[j])) \/ (key(cands[i]) = key(cands[j]) /\ i < j)

\* Mutant of Precedes: equals are told apart by their slots.
PrecedesBySlots(cands, i, j) ==
  LET slots(c) == Number(c.parallelism, 1, 0)
  IN \/ Smaller(SortKey(cands[i]), SortKey(cands[j]))
     \/ /\ SortKey(cands[i]) = SortKey(cands[j])
        /\ slots(cands[i]) > slots(cands[j]) \/ (slots(cands[i]) = slots(cands[j]) /\ i < j)

\* The order of eligible.sort.
Precedes(cands, i, j) ==
  \/ Smaller(SortKey(cands[i]), SortKey(cands[j]))
  \/ SortKey(cands[i]) = SortKey(cands[j]) /\ i < j

\* The first n of a set in that order.
Best(cands, S, n) ==
  {i \in S : Cardinality({j \in S : Precedes(cands, j, i)}) < n}

NoRoute == [ok |-> FALSE, choice |-> {}, alternates |-> {}, codes |-> {}]

\* Mutant of RouteVision: the tier is compared with those of the same capacity only.
RouteByPeers(cands, enabled) ==
  LET eligible == Eligible(cands)
      first    == Best(cands, eligible, 1)
  IN IF ~enabled \/ eligible = {} THEN NoRoute
     ELSE [ok |-> TRUE, choice |-> first,
           alternates |-> Best(cands, eligible, 3) \ first,
           codes |->
             {IF CapacityClass(cands[i]) = "queued" THEN "only_queued_available"
              ELSE "immediate_capacity" : i \in first}
             \cup {"preferred_tier" : i \in {i \in first :
                     \A j \in eligible : Saturated(cands[j]) = Saturated(cands[i])
                                           => cands[i].tier <= cands[j].tier}}
             \cup {"gpu_contention" : i \in {i \in first : Contended(cands[i])}}]

\* route_vision on normalized candidates; `choice' is a set of at most one.
RouteVision(cands, enabled) ==
  LET eligible == Eligible(cands)
      first    == Best(cands, eligible, 1)
  IN IF ~enabled \/ eligible = {} THEN NoRoute
     ELSE [ok |-> TRUE, choice |-> first,
           alternates |-> Best(cands, eligible, 3) \ first,
           codes |->
             {IF CapacityClass(cands[i]) = "queued" THEN "only_queued_available"
              ELSE "immediate_capacity" : i \in first}
             \cup {"preferred_tier" : i \in {i \in first :
                     \A j \in eligible : cands[i].tier <= cands[j].tier}}
             \cup {"gpu_contention" : i \in {i \in first : Contended(cands[i])}}]
=============================================================================
