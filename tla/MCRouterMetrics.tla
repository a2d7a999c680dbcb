-------------------------- MODULE MCRouterMetrics --------------------------
(* Instances of RouterMetrics: a model of two speeds, served by two processes*)
(* of a build with honest counters and one clock; and by one of such a build *)
(* with both clocks, of one that freezes its counters, of one with a gauge,  *)
(* and of one with a JSON dashboard, for either rate.                        *)
EXTENDS RouterMetrics

Build == [clocked |-> TRUE, dual |-> TRUE, gpuBusy |-> TRUE, freezes |-> FALSE,
          json |-> FALSE, gauged |-> FALSE, rated |-> "gen", lives |-> 1]

MCServers == {[Build EXCEPT !.dual = FALSE, !.lives = 2],
              Build,
              [Build EXCEPT !.clocked = FALSE, !.freezes = TRUE],
              [Build EXCEPT !.clocked = FALSE, !.dual = FALSE, !.gauged = TRUE, !.rated = "prompt"],
              [Build EXCEPT !.dual = FALSE, !.json = TRUE],
              [Build EXCEPT !.json = TRUE, !.rated = "prompt"]}

\* An absorbed clock below the last synthesized one is a restart, which makes no rate
\* (parse_engine_json); not so if more was generated (MCRouterMetrics_absorbed).
AbsorbedIsRestart ==
  [][Apply /\ counter # None /\ counter.s # None /\ fetched.s # None /\ fetched.s < counter.s
       => counter'.rate = counter.rate]_vars

\* A prompt that lands between two polls is divided by its real processing time (tpp_secs,
\* _poll_router); not so the first of a JSON dashboard (MCRouterMetrics_prompt).
PromptsByTheirTime ==
  server.json /\ server.rated = "prompt" /\ rate # None => rate <= 10 * Fastest
=============================================================================
