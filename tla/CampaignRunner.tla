--------------------------- MODULE CampaignRunner ---------------------------
(***************************************************************************)
(* The cells of a campaign (Runner.run, _run_cell, _run_attempt and        *)
(* _effect_gate of src/benchmarks/runner.py) over the run directory they   *)
(* leave their evidence in, and a second launch in the same directory:     *)
(* campaign.py run takes the newest prepared one, used or not.             *)
(*                                                                         *)
(* An attempt is two steps, so that the runner can die between them:       *)
(* client.json is pulled, and verdict.json is written.  How a verdict is   *)
(* reached is the subject of Attempt; here any verdict its data allows is  *)
(* possible.  A relaunch starts with no cell done: state.json holds none,  *)
(* for nothing but the tests calls _state_save, so the clause that skips   *)
(* complete cells never applies.                                           *)
(***************************************************************************)
EXTENDS Integers, FiniteSets, Sequences, Verdict

CONSTANT Campaigns   \* the campaigns considered

VARIABLES campaign,   \* the campaign that is run, fixed
          launch,     \* the number of this launch
          pc, idx, attempt,
          cellsDone,  \* cells_done, "none" where there is no entry
          stopped,    \* did the run stop before its last cell was done
          final,      \* the final of this launch
          target,     \* client.json of each attempt directory on the target
          local,      \* client.json of each local attempt directory
          judged,     \* the client data each verdict.json judges
          verdict     \* verdict.json of each local attempt directory

runVars  == <<launch, pc, idx, attempt, cellsDone, stopped, final>>
diskVars == <<target, local, judged, verdict>>
vars == <<campaign, runVars, diskVars>>

(***************************************************************************)
(* A campaign is its matrix and max_attempts of the runner, with how often *)
(* it is launched, the verdicts its attempts may come to and the values    *)
(* the metric of its gates may measure.  A cell may have a pre_gate, which *)
(* skips it, and an effect_gate, which stops the campaign; each compares   *)
(* earlier cells.  A file is the launch it was written in and the metric.  *)
(***************************************************************************)
NoGate == [kind |-> "none"]
Gates  == {NoGate} \cup [kind : {"zero_count"}, over : SUBSET Nat]
            \cup [kind : {"gain"}, base : Nat, treat : Nat, floor : Int]
Cells  == [preGate : Gates, effectGate : Gates, stopOnNegative : BOOLEAN]
NoFile == [launch |-> 0, value |-> -1]

Matrix    == campaign.matrix
CellIndex == DOMAIN Matrix
Attempts  == 1..campaign.maxAttempts
Slots     == CellIndex \X Attempts
FileType  == [launch : 1..campaign.launches, value : campaign.values] \cup {NoFile}

ASSUME CampaignsAssumption ==
  \A c \in Campaigns :
    /\ c.maxAttempts \in Nat \ {0} /\ c.launches \in Nat \ {0}
    /\ c.matrix \in Seq(Cells)
    /\ c.outcomes \subseteq CellClasses /\ c.values \subseteq Nat

Finals == {"none", "completed", "expected-negative", "review-required",
           "safety-abort", "stopped-host-failure", "aborted-failure",
           "aborted-signal"}

TypeOK ==
  /\ campaign \in Campaigns
  /\ launch \in 1..campaign.launches
  /\ pc \in {"cell", "attempt", "verdict", "ended", "dead"}
  /\ idx \in 1..(Len(Matrix) + 1) /\ attempt \in Attempts
  /\ cellsDone \in [CellIndex -> CellStates \cup {"none"}]
  /\ stopped \in BOOLEAN /\ final \in Finals
  /\ target \in [Slots -> FileType] /\ local \in [Slots -> FileType]
  /\ judged \in [Slots -> FileType]
  /\ verdict \in [Slots -> CellClasses \cup {"none"}]

Init ==
  /\ campaign \in Campaigns
  /\ launch = 1 /\ pc = "cell" /\ idx = 1 /\ attempt = 1
  /\ cellsDone = [c \in CellIndex |-> "none"]
  /\ stopped = FALSE /\ final = "none"
  /\ target = [s \in Slots |-> NoFile] /\ local = [s \in Slots |-> NoFile]
  /\ judged = [s \in Slots |-> NoFile] /\ verdict = [s \in Slots |-> "none"]
-----------------------------------------------------------------------------
(* _effect_gate: a comparison over the files of earlier cells.             *)

\* Mutant of Evidence: every attempt is evidence.
EvidenceOfAll(c) ==
  LET used == {a \in Attempts : c \in CellIndex /\ local[<<c, a>>] # NoFile}
  IN  [a \in used |-> local[<<c, a>>].value]

\* The metric of each attempt of cell c whose verdict.json says PASS, as its
\* local client.json holds it; nothing, if the matrix has no such cell.
Evidence(c) ==
  LET used == {a \in Attempts : /\ c \in CellIndex
                                /\ verdict[<<c, a>>] = "PASS" /\ local[<<c, a>>] # NoFile}
  IN  [a \in used |-> local[<<c, a>>].value]

\* Twice the median of the attempts' values, so that it is an integer.
Rank(f, a) == Cardinality({b \in DOMAIN f : f[b] < f[a] \/ (f[b] = f[a] /\ b <= a)})
Nth(f, k)  == f[CHOOSE a \in DOMAIN f : Rank(f, a) = k]
TwiceMedian(f) ==
  LET n == Cardinality(DOMAIN f) IN Nth(f, (n + 1) \div 2) + Nth(f, n \div 2 + 1)

ZeroCount(gate) ==
  IF \E c \in gate.over : DOMAIN Evidence(c) = {} THEN "UNVERIFIABLE"
  ELSE IF \E c \in gate.over : \E a \in DOMAIN Evidence(c) : Evidence(c)[a] > 0
  THEN "VIOLATED" ELSE "PASS"

RelativeGain(gate) ==
  LET base == Evidence(gate.base)  treat == Evidence(gate.treat) IN
  IF DOMAIN base = {} \/ DOMAIN treat = {} THEN "UNVERIFIABLE"
  ELSE IF TwiceMedian(base) = 0 THEN "UNVERIFIABLE"
  ELSE IF 100 * (TwiceMedian(treat) - TwiceMedian(base))
            >= gate.floor * TwiceMedian(base)
  THEN "PASS" ELSE "BELOW_FLOOR"

GateStatus(gate) ==
  CASE gate.kind = "none"       -> "PASS"
    [] gate.kind = "zero_count" -> ZeroCount(gate)
    [] gate.kind = "gain"       -> RelativeGain(gate)
-----------------------------------------------------------------------------
(* The loop over the cells.                                                *)

EndWith(f) == pc' = "ended" /\ final' = f
Record(state) == cellsDone' = [cellsDone EXCEPT ![idx] = state]

\* A host failure, or a results disk below its floor, before a cell.
StopBeforeCell ==
  /\ pc = "cell" /\ idx \in CellIndex
  /\ \E f \in {"stopped-host-failure", "safety-abort"} : EndWith(f)
  /\ stopped' = TRUE
  /\ UNCHANGED <<campaign, launch, idx, attempt, cellsDone, diskVars>>

\* The declared effect is absent (a result) or could not be measured.
EffectGateStops ==
  /\ pc = "cell" /\ idx \in CellIndex
  /\ LET status == GateStatus(Matrix[idx].effectGate) IN
       /\ status # "PASS"
       /\ EndWith(IF status = "UNVERIFIABLE" THEN "review-required"
                  ELSE "expected-negative")
  /\ Record("NOT_RUN") /\ stopped' = TRUE
  /\ UNCHANGED <<campaign, launch, idx, attempt, diskVars>>

PreGateSkips ==
  /\ pc = "cell" /\ idx \in CellIndex
  /\ GateStatus(Matrix[idx].effectGate) = "PASS"
  /\ GateStatus(Matrix[idx].preGate) # "PASS"
  /\ Record("SKIPPED") /\ idx' = idx + 1
  /\ UNCHANGED <<campaign, launch, pc, attempt, stopped, final, diskVars>>

StartCell ==
  /\ pc = "cell" /\ idx \in CellIndex
  /\ GateStatus(Matrix[idx].effectGate) = "PASS"
  /\ GateStatus(Matrix[idx].preGate) = "PASS"
  /\ pc' = "attempt" /\ attempt' = 1
  /\ UNCHANGED <<campaign, launch, idx, cellsDone, stopped, final, diskVars>>

\* The attempt's directory exists or is made; the client writes client.json on
\* the target or dies before; what is there is fetched as its data, and pulled
\* unless the local directory holds one.  A fetch may fail.
RunAttempt ==
  /\ pc = "attempt"
  /\ LET slot == <<idx, attempt>> IN
     /\ \/ \E v \in campaign.values :
             target' = [target EXCEPT ![slot] = [launch |-> launch, value |-> v]]
        \/ UNCHANGED target
     /\ judged' \in {[judged EXCEPT ![slot] = f] : f \in {target'[slot], NoFile}}
     /\ local' \in IF local[slot] # NoFile THEN {local}
                   ELSE {local, [local EXCEPT ![slot] = target'[slot]]}
  /\ pc' = "verdict"
  /\ UNCHANGED <<campaign, launch, idx, attempt, cellsDone, stopped, final, verdict>>

\* The verdicts that end a cell at once.
Settled == {"PASS", "EXPECTED_NEGATIVE", "SAFETY_ABORT", "INVALID", "HARNESS_FAILURE"}

AnotherAttempt(v) == v \notin Settled /\ attempt < campaign.maxAttempts

\* What run() does with the verdict of a cell's last attempt: the campaign stops
\* at a documented negative that is declared to stop it.
CellDone(v) ==
  /\ Record(v)
  /\ IF v = "EXPECTED_NEGATIVE" /\ Matrix[idx].stopOnNegative
     THEN EndWith("expected-negative") /\ stopped' = TRUE /\ UNCHANGED idx
     ELSE pc' = "cell" /\ idx' = idx + 1 /\ UNCHANGED <<stopped, final>>

\* The verdicts that the data of the attempt allows.
Reachable(v) == v \in {"PASS", "PLAUSIBILITY_ANOMALY"} => judged[<<idx, attempt>>] # NoFile

\* Mutant of WriteVerdict: verdict.json is written like client.json, unless
\* there is one.
WriteVerdictOnce ==
  /\ pc = "verdict"
  /\ \E v \in campaign.outcomes :
       /\ Reachable(v)
       /\ verdict' = IF verdict[<<idx, attempt>>] # "none" THEN verdict
                     ELSE [verdict EXCEPT ![<<idx, attempt>>] = v]
       /\ CellDone(v)
  /\ UNCHANGED <<campaign, launch, attempt, target, local, judged>>

\* verdict.json, then another attempt or the end of the cell.
WriteVerdict ==
  /\ pc = "verdict"
  /\ \E v \in campaign.outcomes :
       /\ Reachable(v)
       /\ verdict' = [verdict EXCEPT ![<<idx, attempt>>] = v]
       /\ \/ /\ AnotherAttempt(v)
             /\ pc' = "attempt" /\ attempt' = attempt + 1
             /\ UNCHANGED <<idx, cellsDone, stopped, final>>
          \/ ~AnotherAttempt(v) /\ CellDone(v) /\ UNCHANGED attempt
  /\ UNCHANGED <<campaign, launch, target, local, judged>>

AllCellsDone ==
  /\ pc = "cell" /\ idx = Len(Matrix) + 1
  /\ EndWith(CampaignFinal({cellsDone[c] : c \in CellIndex}))
  /\ UNCHANGED <<campaign, launch, idx, attempt, cellsDone, stopped, diskVars>>

\* An exception or a signal; _finish records what cells_done holds.
Abort ==
  /\ pc \in {"cell", "attempt", "verdict"}
  /\ \E f \in {"aborted-failure", "aborted-signal"} : EndWith(f)
  /\ stopped' = TRUE
  /\ UNCHANGED <<campaign, launch, idx, attempt, cellsDone, diskVars>>

Crash ==
  /\ pc \in {"cell", "attempt", "verdict"}
  /\ pc' = "dead"
  /\ UNCHANGED <<campaign, launch, idx, attempt, cellsDone, stopped, final, diskVars>>

Relaunch ==
  /\ pc \in {"ended", "dead"} /\ launch < campaign.launches
  /\ launch' = launch + 1
  /\ pc' = "cell" /\ idx' = 1 /\ attempt' = 1
  /\ cellsDone' = [c \in CellIndex |-> "none"]
  /\ stopped' = FALSE /\ final' = "none"
  /\ UNCHANGED <<campaign, diskVars>>

Next ==
  \/ StopBeforeCell \/ EffectGateStops \/ PreGateSkips \/ StartCell
  \/ RunAttempt \/ WriteVerdict \/ AllCellsDone \/ Abort \/ Crash \/ Relaunch

Spec == Init /\ [][Next]_vars
-----------------------------------------------------------------------------
(* Properties.                                                             *)

\* A campaign is completed only when the directory of every cell of the matrix
\* holds, from this launch or from data of an earlier one, an attempt whose
\* verdict is the one recorded, and each is a PASS or a documented negative.
CompletedIsComplete ==
  final = "completed" =>
    \A c \in CellIndex :
      /\ cellsDone[c] \in {"PASS", "EXPECTED_NEGATIVE"}
      /\ \E a \in Attempts : verdict[<<c, a>>] = cellsDone[c]

\* What happened after the last attempt of a cell cannot move its record: the
\* record of a cell that ran is the verdict of an attempt on disk.
RecordsAreVerdicts ==
  \A c \in CellIndex : cellsDone[c] \in CellClasses
    => \E a \in Attempts : verdict[<<c, a>>] = cellsDone[c]

\* A first launch that went through its whole matrix ends in a page of level
\* INFO only if the last attempt on disk of every cell is sound: none broke, and
\* none was skipped and so left no attempt.
WholeRunNotCollapsed ==
  final \in {"completed", "expected-negative"} /\ ~stopped /\ launch = 1 =>
    \A c \in CellIndex :
      \E a \in Attempts : /\ verdict[<<c, a>>] \notin Broken \cup {"none"}
                          /\ \A b \in Attempts : b > a => verdict[<<c, b>>] = "none"

\* What the passed attempts of cell c measured.
Measured(c) == {judged[s].value : s \in {s \in Slots : s[1] = c /\ verdict[s] = "PASS"}}

\* The cells a gate compares have passed with the measurements it asks for.
Founded(gate) ==
  /\ gate.kind = "zero_count" => \A c \in gate.over : 0 \in Measured(c)
  /\ gate.kind = "gain" =>
       \E b \in Measured(gate.base), t \in Measured(gate.treat) :
         b > 0 /\ 100 * (t - b) >= gate.floor * b

\* In its first launch, a cell behind a gate runs only after the cells it
\* depends on passed with the measurements the gate asks for, and these stay.
GatedCellIsFounded ==
  launch = 1 =>
    \A c \in CellIndex :
      cellsDone[c] \in CellClasses \/ (c = idx /\ pc \in {"attempt", "verdict"})
        => Founded(Matrix[c].preGate) /\ Founded(Matrix[c].effectGate)
-----------------------------------------------------------------------------
(* What the documents and comments say, where the code does otherwise.     *)

LatestVerdict(c) ==
  LET tried == {a \in Attempts : verdict[<<c, a>>] # "none"} IN
  IF tried = {} THEN "none" ELSE verdict[<<c, CHOOSE a \in tried : \A b \in tried : b <= a>>]

\* runner.py: "a cell whose latest attempt verdict is PASS/EXPECTED_NEGATIVE is
\* skipped on re-launch".
CompleteCellsSkipped ==
  pc = "attempt" /\ attempt = 1
    => LatestVerdict(idx) \notin {"PASS", "EXPECTED_NEGATIVE"}

\* runner.py, _effect_gate: "only attempts whose verdict.json says class ==
\* PASS feed the estimator".
OnlyPassedDataFeeds ==
  \A s \in Slots : verdict[s] = "PASS" /\ local[s] # NoFile => local[s] = judged[s]
=============================================================================
