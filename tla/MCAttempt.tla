------------------------------ MODULE MCAttempt ------------------------------
(***************************************************************************)
(* Instances of Attempt for TLC: the shapes of cell the campaigns use.     *)
(***************************************************************************)
EXTENDS Attempt

MCLogClasses == {"WALL_VRAM_FIT", "CUDA_OOM", "BUILD_DEFECT_ASSERT",
                 "HOST_KERNEL_ERROR", "MODEL_LOAD_FAIL", "UNKNOWN"}

Default == {"server_prompt_tokens", "request_seen"}

\* The dogfood cell: one request, no engine, no contract.
Dogfood == [requests |-> <<1000>>, plan |-> <<<<1>>>>, engine |-> FALSE,
            probe |-> FALSE, merges |-> FALSE, declares |-> TRUE,
            encodes |-> FALSE, usage |-> TRUE, counts |-> FALSE,
            require |-> Default, documented |-> {"WALL_VRAM_FIT"}]

\* bench-vllm: usage in the response, no counts in the server's log.
Vllm == [Dogfood EXCEPT !.engine = TRUE, !.requests = <<1000, 2000>>,
                        !.plan = <<<<1, 2>>>>]

\* bench-llama: the encoded size is required, the server logs its counts.
Llama == [Vllm EXCEPT !.encodes = TRUE, !.counts = TRUE, !.documented = {},
                      !.require = Default \cup {"client_encoded_tokens"}]

\* verify-lmcache: a server per segment, the client merges in the last one.
Lmcache == [Dogfood EXCEPT !.requests = <<1000, 1000>>, !.plan = <<<<1>>, <<2>>>>,
                           !.probe = TRUE, !.merges = TRUE, !.declares = FALSE,
                           !.documented = {"LMCACHE_NO_HIT"}]

\* A client that writes client.json in each of two segments.
Segmented == [Vllm EXCEPT !.plan = <<<<1>>, <<2>>>>, !.counts = TRUE]

\* A request without a declared size before one with.
Partial == [Vllm EXCEPT !.requests = <<Absent, 1000>>, !.declares = FALSE]

\* A request so short that none at all is within the tolerance.
Small == [Vllm EXCEPT !.requests = <<20, 1000>>]

MCCells == {Dogfood, Vllm, Llama, Lmcache, Segmented, Partial, Small}
=============================================================================
