-------------------------- MODULE MCCampaignRunner --------------------------
(***************************************************************************)
(* Instances of CampaignRunner for TLC.                                    *)
(***************************************************************************)
EXTENDS CampaignRunner

Plain == [preGate |-> NoGate, effectGate |-> NoGate, stopOnNegative |-> FALSE]

Zero(over)        == [kind |-> "zero_count", over |-> over]
Gain(base, treat) == [kind |-> "gain", base |-> base, treat |-> treat, floor |-> 50]

\* Two cells that have nothing to do with each other.
Free == <<Plain, Plain>>

\* A probe that may stop the campaign and a cell that needs it clean.
Guarded == <<[Plain EXCEPT !.stopOnNegative = TRUE],
             [Plain EXCEPT !.preGate = Zero({1})]>>

\* A baseline, a treatment, and a cell that is only run for a useful gain.
Ladder == <<Plain, [Plain EXCEPT !.stopOnNegative = TRUE],
            [Plain EXCEPT !.effectGate = Gain(1, 2)]>>

\* A campaign that stops if its only battery is not clean.
Battery == <<Plain, [Plain EXCEPT !.effectGate = Zero({1})]>>

\* Retries in one launch, with a verdict that is retried and one that is not;
\* two launches; a gain that may be above, at or below its floor.
Retried(matrix) ==
  [matrix |-> matrix, maxAttempts |-> 2, launches |-> 1, values |-> {0, 1},
   outcomes |-> {"PASS", "EXPECTED_NEGATIVE", "INVALID", "RETRYABLE_FAILURE",
                 "SAFETY_ABORT"}]
Relaunched(matrix) ==
  [matrix |-> matrix, maxAttempts |-> 1, launches |-> 2, values |-> {0, 1},
   outcomes |-> {"PASS", "EXPECTED_NEGATIVE", "INVALID", "UNKNOWN"}]
Compared(matrix) ==
  [Relaunched(matrix) EXCEPT !.launches = 1, !.values = {0, 2, 3}]

MCCampaigns == {Retried(Free), Retried(Guarded), Retried(Battery), Relaunched(Guarded),
                Relaunched(Free), Relaunched(Battery), Compared(Ladder)}
=============================================================================
