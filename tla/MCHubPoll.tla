----------------------------- MODULE MCHubPoll -----------------------------
(* Instances of HubPoll: one model and the aggregate row, and the kinds of   *)
(* server with and without hints.                                            *)
EXTENDS HubPoll

CONSTANTS m1

Entry(kind, hints) == [kind |-> kind, hints |-> hints]
MCConfigs == {Entry("llama-router", {}), Entry("llama-router", {m1}),
              Entry("vllm-mux", {}), Entry("vllm-mux", {m1}), Entry("vllm", {})}
=============================================================================
