-------------------------- MODULE MCVisionAdvisor --------------------------
(* Instances of VisionAdvisor: a usable candidate, and what a poll may find  *)
(* different of it, in the server and the policy or in its load.             *)
EXTENDS VisionAdvisor

Usable == [kind |-> "llama.cpp", online |-> TRUE, age |-> 0, loaded |-> TRUE,
           modalities |-> "image", override |-> None, enabled |-> TRUE, tier |-> 1,
           parallelism |-> 1, busy |-> 0, proc |-> 0, deferred |-> 0,
           util |-> 0, gpusStale |-> FALSE]

\* Each way to be refused, and the two that only look like it.
Refused ==
  {[Usable EXCEPT !.online = FALSE], [Usable EXCEPT !.age = StaleAfter + 1],
   [Usable EXCEPT !.loaded = FALSE],
   [Usable EXCEPT !.modalities = None, !.kind = "vllm"],
   [Usable EXCEPT !.override = FALSE], [Usable EXCEPT !.enabled = FALSE, !.tier = 0]}

Loads ==
  {[Usable EXCEPT !.proc = 1], [Usable EXCEPT !.proc = 1, !.parallelism = 2, !.tier = 0],
   [Usable EXCEPT !.tier = -1, !.modalities = None],
   [Usable EXCEPT !.parallelism = 0, !.proc = None, !.busy = None, !.age = None],
   [Usable EXCEPT !.deferred = 1, !.tier = 0, !.override = TRUE, !.modalities = "text"],
   [Usable EXCEPT !.busy = 1],
   [Usable EXCEPT !.util = BusyThreshold],
   [Usable EXCEPT !.util = BusyThreshold, !.gpusStale = TRUE]}

MCObservations == {Usable} \cup Refused \cup Loads
=============================================================================
