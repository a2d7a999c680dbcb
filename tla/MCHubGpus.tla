----------------------------- MODULE MCHubGpus -----------------------------
(* Instances of HubGpus: one server, known for its GPUs only or not.         *)
EXTENDS HubGpus

MCKinds == {"gpu-only", "llama-router"}
=============================================================================
