------------------------------- MODULE Verdict -------------------------------
(***************************************************************************)
(* The verdict ladder (src/benchmarks/verdict.py): from the evidence of an *)
(* attempt to the verdict of its cell, and from the cells to the final of  *)
(* the campaign.                                                           *)
(***************************************************************************)
CellClasses == {"PASS", "EXPECTED_NEGATIVE", "INVALID", "RETRYABLE_FAILURE",
                "RETRYABLE_INFRA", "RESOURCE_LIMIT", "HARNESS_FAILURE",
                "PLAUSIBILITY_ANOMALY", "UNKNOWN", "SAFETY_ABORT"}

\* Classes a server log is sorted into, or a client declares.  Those the table
\* leaves open (None, or no entry at all) are Oriented.
Oriented == {"WALL_VRAM_FIT", "UNSUPPORTED_ARCH", "LMCACHE_CONNECTOR_FALLBACK",
             "LMCACHE_NO_HIT", "LMCACHE_RESTORE_CORRUPTION",
             "LMCACHE_PERSISTENCE_SUBPAGE", "LMCACHE_HMA_BOOT_FAILURE", "UNKNOWN"}
Limits   == {"CUDA_OOM", "C_GROUP_OOM"}
Hosts    == {"HOST_KERNEL_ERROR", "WRONG_GPU"}
Defects  == {"BUILD_DEFECT_ASSERT", "HTTP_EMPTY_200", "SSE_MALFORMED",
             "SSE_NO_USAGE", "KV_CONFIG_INVALID"}
Classes  == Oriented \cup Limits \cup Hosts \cup Defects
              \cup {"MODEL_LOAD_FAIL", "TOKEN_MISMATCH"}

ClassToVerdict(class) ==
  CASE class \in Defects           -> "HARNESS_FAILURE"
    [] class \in Limits            -> "RESOURCE_LIMIT"
    [] class \in Hosts             -> "SAFETY_ABORT"
    [] class = "MODEL_LOAD_FAIL"   -> "RETRYABLE_FAILURE"
    [] class = "TOKEN_MISMATCH"    -> "INVALID"
    [] class \in Oriented          -> "UNKNOWN"

\* e: the evidence of an attempt.  status is "none" when no contract was
\* evaluated, logClass when there was no failure log; the wall floor is the
\* first of the gates.
ClassOf(e) == IF e.logClass # "none" THEN e.logClass ELSE e.client.class

\* Mutant of Decide: the wall floor is asked before the documented negatives,
\* whether or not anything was measured.
DecideWallFirst(e) ==
  LET class == ClassOf(e) IN
  IF e.status = "VIOLATED" \/ ~e.wallOk THEN "INVALID"
  ELSE IF e.status = "UNVERIFIABLE" THEN "HARNESS_FAILURE"
  ELSE IF class \in e.documented THEN "EXPECTED_NEGATIVE"
  ELSE IF e.client.present /\ (~e.gatesOk \/ ~e.client.valid) THEN "INVALID"
  ELSE IF class = "none" THEN "PASS" ELSE ClassToVerdict(class)

\* Mutant of Decide: nothing to complain of is a PASS.
DecideTrustsSilence(e) ==
  IF e.status \in {"VIOLATED", "UNVERIFIABLE"} \/ ~e.gatesOk \/ ~e.wallOk THEN "INVALID"
  ELSE IF ClassOf(e) \in e.documented THEN "EXPECTED_NEGATIVE"
  ELSE IF ClassOf(e) = "none" THEN "PASS" ELSE ClassToVerdict(ClassOf(e))

Decide(e) ==
  LET class == ClassOf(e) IN
  IF ~e.client.present /\ e.logClass = "none" /\ e.quick THEN "HARNESS_FAILURE"
  ELSE IF e.status = "VIOLATED" THEN "INVALID"
  ELSE IF e.status = "UNVERIFIABLE" THEN
    IF e.wallOk THEN "HARNESS_FAILURE" ELSE "INVALID"
  ELSE IF class \in e.documented THEN "EXPECTED_NEGATIVE"
  ELSE IF e.client.present /\ ~e.wallOk THEN
    IF e.status = "SATISFIED" THEN "PLAUSIBILITY_ANOMALY" ELSE "INVALID"
  ELSE IF e.client.present /\ (~e.gatesOk \/ ~e.client.valid) THEN "INVALID"
  ELSE IF class = "none" THEN
    IF e.client.present THEN "PASS" ELSE "UNKNOWN"
  ELSE IF e.client.present /\ class = "TOKEN_MISMATCH" THEN "INVALID"
  ELSE IF e.client.present /\ e.logClass = "none" THEN "UNKNOWN"
  ELSE ClassToVerdict(class)

\* What a campaign's record holds of a cell.
CellStates == CellClasses \cup {"SKIPPED", "NOT_RUN"}

Broken == {"RETRYABLE_FAILURE", "RETRYABLE_INFRA", "UNKNOWN", "HARNESS_FAILURE",
           "INVALID", "PLAUSIBILITY_ANOMALY", "SKIPPED"}

\* Mutant of CampaignFinal: a documented negative outranks a broken cell.
FinalNegativeFirst(states) ==
  IF "SAFETY_ABORT" \in states THEN "safety-abort"
  ELSE IF "EXPECTED_NEGATIVE" \in states THEN "expected-negative"
  ELSE IF states = {"PASS"} THEN "completed" ELSE "review-required"

\* Mutant of CampaignFinal: cells that never ran are no part of the campaign.
FinalOfCellsRun(states) ==
  LET ran == states \ {"SKIPPED", "NOT_RUN"} IN
  IF "SAFETY_ABORT" \in ran THEN "safety-abort"
  ELSE IF ran \cap Broken # {} THEN "review-required"
  ELSE IF ran = {"EXPECTED_NEGATIVE"} THEN "expected-negative"
  ELSE IF ran \subseteq {"PASS", "EXPECTED_NEGATIVE"} THEN "completed"
  ELSE "review-required"

\* campaign_final over the set of states its cells are recorded in.
CampaignFinal(states) ==
  IF "SAFETY_ABORT" \in states THEN "safety-abort"
  ELSE IF states \cap Broken # {} THEN "review-required"
  ELSE IF states = {"EXPECTED_NEGATIVE"} THEN "expected-negative"
  ELSE IF states # {} /\ states \subseteq {"PASS", "EXPECTED_NEGATIVE"} THEN "completed"
  ELSE IF "EXPECTED_NEGATIVE" \in states THEN "expected-negative"
  ELSE "review-required"
=============================================================================
