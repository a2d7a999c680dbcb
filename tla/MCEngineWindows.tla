-------------------------- MODULE MCEngineWindows --------------------------
(* Instances of EngineWindows: prompts of two speeds, one cached.        *)
EXTENDS EngineWindows, TLC

CONSTANTS a, b

\* With a mux all engines are alike.
Permuted == Permutations(Engines)

MCPrompts == {[n |-> 2, k |-> 1, h |-> 2], [n |-> 3, k |-> 2, h |-> 0]}

\* The second process serves two requests, the first one.
MCRequests == <<1, 2>>
=============================================================================
