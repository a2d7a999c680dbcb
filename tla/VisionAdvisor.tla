--------------------------- MODULE VisionAdvisor ---------------------------
(***************************************************************************)
(* The advisor at work (src/hub/llm-hub.py, GET /api/vision/route and the  *)
(* advisor's part of /metrics): candidates change as the poller sees them  *)
(* change, and each request is answered from what they are at that moment. *)
(***************************************************************************)
EXTENDS VisionRouting

CONSTANTS RowIds,        \* the numbers of the candidates
          Observations   \* what a poll may find of one

VARIABLES cands,         \* _vision_candidates(): a normalized record per row
          enabled        \* vision.enabled of the configuration

advisorVars == <<cands, enabled>>

\* What the configuration and a poll say of a candidate: numbers that may be unknown.
Known == Int \cup {None}
Observation ==
  [kind : STRING, online : BOOLEAN, age : Known, loaded : BOOLEAN,
   modalities : {None, "text", "image"}, override : BOOLEAN \cup {None}, enabled : BOOLEAN,
   tier : Known, parallelism : Known, busy : Known, proc : Known, deferred : Known,
   util : Known, gpusStale : BOOLEAN]

ASSUME RowIdsAssumption == RowIds \subseteq Nat /\ IsFiniteSet(RowIds)
ASSUME PolicyAssumption == StaleAfter \in Nat /\ BusyThreshold \in Nat /\ None \notin Int
ASSUME ObservationsAssumption == Observations \subseteq Observation

Candidates == {Normalize(o) : o \in Observations}

\* Handler._vision_route: a request is answered from the state, and changes none.
Answer == RouteVision(cands, enabled)

\* A candidate has the normal form.
AdvisorTypeOK ==
  /\ cands \in [RowIds -> Candidates] /\ enabled \in BOOLEAN
  /\ \A i \in RowIds : cands[i].tier \in Nat /\ cands[i].parallelism \in (Nat \ {0}) \cup {None}

AdvisorInit == cands \in [RowIds -> Candidates] /\ enabled \in BOOLEAN

\* A poll finds a model or its server changed.
Observe(i) ==
  /\ \E o \in Observations : cands' = [cands EXCEPT ![i] = Normalize(o)]
  /\ UNCHANGED enabled

AdvisorNext == \E i \in RowIds : Observe(i)

AdvisorSpec == AdvisorInit /\ [][AdvisorNext]_advisorVars
-----------------------------------------------------------------------------
\* Whoever has to queue had no alternative: no usable candidate was free, and
\* among free ones the client gets one of the lowest tier.  (route_vision,
\* "IMMEDIATE outranks QUEUED, always".)
QueuesOnlyIfAllDo ==
  \A i \in Answer.choice, j \in Eligible(cands) :
    /\ Saturated(cands[i]) => Saturated(cands[j])
    /\ Saturated(cands[i]) = Saturated(cands[j]) => cands[i].tier <= cands[j].tier

\* Who answers names a choice, and what is said of it is true of all usable candidates.
\* The tier is said to be preferred where it is the lowest, and is passed over only for
\* being full; "only queued" is said where all are full, and immediate capacity where
\* not, as a row that is not known to be full counts as free; and contention where no
\* equal in capacity and tier has a GPU that is not known to be busy just now.  (The
\* reason codes of route_vision.)
ReasonsAreTrue ==
  /\ Answer.ok => Answer.choice # {}
  /\ \A i \in Answer.choice :
       LET usable == Eligible(cands)
           equals == {j \in usable : Saturated(cands[j]) = Saturated(cands[i])
                                     /\ cands[j].tier = cands[i].tier}
           said(code) == code \in Answer.codes
       IN /\ said("preferred_tier") <=> \A j \in usable : cands[i].tier <= cands[j].tier
          /\ ~said("preferred_tier") =>
               \E j \in usable : /\ cands[j].tier < cands[i].tier
                                 /\ Saturated(cands[j]) /\ ~Saturated(cands[i])
          /\ said("only_queued_available") <=> \A j \in usable : Saturated(cands[j])
          /\ said("immediate_capacity") <=> \E j \in usable : ~Saturated(cands[j])
          /\ said("gpu_contention") <=>
               \A j \in equals : /\ ~cands[j].gpusStale
                                 /\ cands[j].util # None /\ cands[j].util >= BusyThreshold

\* A better candidate, in all that the order looks at.
NoWorse(c, d) ==
  /\ Reject(d) = "none" => Reject(c) = "none"
  /\ \A n \in DOMAIN SortKey(c) : SortKey(c)[n] <= SortKey(d)[n]

\* The advice does not flap: it changes only if the choice itself got worse, or
\* somebody else better.  (The sort of route_vision, and its filters.)
AdviceIsStable ==
  [][\A i \in Answer.choice :
       (/\ NoWorse(cands'[i], cands[i])
        /\ \A j \in RowIds \ {i} : NoWorse(cands[j], cands'[j]))
       => i \in Answer'.choice]_advisorVars
=============================================================================
