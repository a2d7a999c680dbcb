----------------------- MODULE CampaignRunner_proofs -----------------------
(***************************************************************************)
(* Theorems about CampaignRunner, for any set of campaigns, any number of  *)
(* attempts and any number of launches: what a campaign concludes is on    *)
(* disk, a run that went through its matrix hides no broken cell, and a    *)
(* cell behind a gate is founded on what was measured.                     *)
(***************************************************************************)
EXTENDS CampaignRunner, FiniteSetTheorems, TLAPS

-----------------------------------------------------------------------------
(* The invariant of every launch.                                          *)

Live == {"cell", "attempt", "verdict"}

\* While a launch runs, the cells behind it have a state and those ahead none.
Progress ==
  pc \in Live =>
    /\ final = "none" /\ ~stopped
    /\ pc # "cell" => idx \in CellIndex
    /\ \A c \in CellIndex : IF c < idx THEN cellsDone[c] \in CellClasses \cup {"SKIPPED"}
                                       ELSE cellsDone[c] = "none"

\* What a final says of the cells.
Concluded ==
  /\ final = "completed" =>
       \A c \in CellIndex : cellsDone[c] \in {"PASS", "EXPECTED_NEGATIVE"}
  /\ final \in {"completed", "expected-negative"} /\ ~stopped =>
       \A c \in CellIndex : cellsDone[c] \in CellClasses \ Broken

\* The invariant of every launch.
LaunchInv == TypeOK /\ Progress /\ Concluded /\ RecordsAreVerdicts

\* A campaign of the matrix it declares.
LEMMA CampaignShape ==
  ASSUME TypeOK
  PROVE  /\ Matrix \in Seq(Cells) /\ CellIndex = 1..Len(Matrix) /\ Len(Matrix) \in Nat
         /\ campaign.maxAttempts \in Nat \ {0} /\ campaign.launches \in Nat \ {0}
         /\ campaign.outcomes \subseteq CellClasses /\ campaign.values \subseteq Nat
<1>1. campaign \in Campaigns
  BY DEF TypeOK
<1>2. Matrix \in Seq(Cells)
  BY <1>1, CampaignsAssumption DEF Matrix
<1> QED
  BY <1>1, <1>2, CampaignsAssumption DEF CellIndex

\* The final of a campaign is one of its finals, and what it says of the cells.
LEMMA FinalMeans ==
  ASSUME NEW S
  PROVE  /\ CampaignFinal(S) \in Finals
         /\ CampaignFinal(S) = "completed" => S \subseteq {"PASS", "EXPECTED_NEGATIVE"}
         /\ CampaignFinal(S) \in {"completed", "expected-negative"} => S \cap Broken = {}
<1>1. {"EXPECTED_NEGATIVE"} \cap Broken = {} /\ {"PASS", "EXPECTED_NEGATIVE"} \cap Broken = {}
  BY DEF Broken
<1> QED
  BY <1>1 DEF CampaignFinal, Finals

\* A launch starts with nothing done and nothing on disk.
LEMMA InitLaunchInv == Init => LaunchInv
<1> SUFFICES ASSUME Init PROVE LaunchInv
  OBVIOUS
<1>1. campaign \in Campaigns
  BY DEF Init
<1>2. Matrix \in Seq(Cells) /\ CellIndex = 1..Len(Matrix) /\ Len(Matrix) \in Nat
      /\ campaign.maxAttempts \in Nat \ {0} /\ campaign.launches \in Nat \ {0}
  <2>1. Matrix \in Seq(Cells)
    BY <1>1, CampaignsAssumption DEF Matrix
  <2> QED BY <1>1, <2>1, CampaignsAssumption DEF CellIndex
<1>3. TypeOK
  <2>1. launch \in 1..campaign.launches /\ idx \in 1..(Len(Matrix) + 1) /\ attempt \in Attempts
    BY <1>2 DEF Init, Attempts
  <2>2. NoFile \in FileType
    BY DEF FileType
  <2>3. final \in Finals /\ stopped \in BOOLEAN /\ pc = "cell"
    BY DEF Init, Finals
  <2>4. cellsDone \in [CellIndex -> CellStates \cup {"none"}]
    BY DEF Init
  <2>5. /\ target \in [Slots -> FileType] /\ local \in [Slots -> FileType]
        /\ judged \in [Slots -> FileType] /\ verdict \in [Slots -> CellClasses \cup {"none"}]
    BY <2>2 DEF Init
  <2> QED BY <1>1, <2>1, <2>3, <2>4, <2>5 DEF TypeOK
<1>4. Progress
  BY <1>2 DEF Init, Progress, Live
<1>5. Concluded /\ RecordsAreVerdicts
  BY DEF Init, Concluded, RecordsAreVerdicts, CellClasses
<1> QED
  BY <1>3, <1>4, <1>5 DEF LaunchInv

\* Every step keeps the types.
LEMMA TypeStep == TypeOK /\ Progress /\ [Next]_vars => TypeOK'
<1> SUFFICES ASSUME TypeOK, Progress, [Next]_vars PROVE TypeOK'
  OBVIOUS
<1>0. /\ CellIndex = 1..Len(Matrix) /\ Len(Matrix) \in Nat
      /\ campaign.maxAttempts \in Nat \ {0} /\ campaign.launches \in Nat \ {0}
      /\ campaign.outcomes \subseteq CellClasses
  BY CampaignShape
<1>00. campaign' = campaign => /\ Matrix' = Matrix /\ CellIndex' = CellIndex
                              /\ Attempts' = Attempts /\ Slots' = Slots /\ FileType' = FileType
  BY DEF Matrix, CellIndex, Attempts, Slots, FileType
<1>1. CASE UNCHANGED vars
  BY <1>1, <1>00 DEF vars, runVars, diskVars, TypeOK
<1>2. CASE StopBeforeCell
  BY <1>2, <1>00 DEF StopBeforeCell, EndWith, diskVars, TypeOK, Finals
<1>3. CASE EffectGateStops
  <2>1. cellsDone' \in [CellIndex -> CellStates \cup {"none"}]
    BY <1>3 DEF EffectGateStops, Record, TypeOK, CellStates
  <2>2. pc' = "ended" /\ final' \in Finals /\ stopped' \in BOOLEAN
    BY <1>3 DEF EffectGateStops, EndWith, Finals
  <2>3. UNCHANGED <<campaign, launch, idx, attempt, diskVars>>
    BY <1>3 DEF EffectGateStops
  <2> QED BY <2>1, <2>2, <2>3, <1>00 DEF TypeOK, diskVars
<1>4. CASE PreGateSkips
  <2>1. cellsDone' \in [CellIndex -> CellStates \cup {"none"}]
    BY <1>4 DEF PreGateSkips, Record, TypeOK, CellStates
  <2>2. idx' \in 1..(Len(Matrix) + 1)
    BY <1>4, <1>0 DEF PreGateSkips
  <2>3. UNCHANGED <<campaign, launch, pc, attempt, stopped, final, diskVars>>
    BY <1>4 DEF PreGateSkips
  <2> QED BY <2>1, <2>2, <2>3, <1>00 DEF TypeOK, diskVars
<1>5. CASE StartCell
  BY <1>5, <1>0, <1>00 DEF StartCell, TypeOK, Attempts, diskVars
<1>6. CASE RunAttempt
  <2>1. <<idx, attempt>> \in Slots
    BY <1>6 DEF RunAttempt, Progress, Live, TypeOK, Slots
  <2>2. /\ UNCHANGED <<campaign, launch, idx, attempt, cellsDone, stopped, final, verdict>>
        /\ pc' = "verdict"
    BY <1>6 DEF RunAttempt
  <2>3. target' \in [Slots -> FileType]
    <3>1. CASE UNCHANGED target
      BY <3>1 DEF TypeOK
    <3>2. CASE \E v \in campaign.values :
                 target' = [target EXCEPT ![<<idx, attempt>>] = [launch |-> launch, value |-> v]]
      <4>1. PICK v \in campaign.values :
              target' = [target EXCEPT ![<<idx, attempt>>] = [launch |-> launch, value |-> v]]
        BY <3>2
      <4>2. [launch |-> launch, value |-> v] \in FileType
        BY DEF TypeOK, FileType
      <4> QED BY <4>1, <4>2 DEF TypeOK
    <3> QED BY <1>6, <3>1, <3>2 DEF RunAttempt
  <2>4. target'[<<idx, attempt>>] \in FileType /\ NoFile \in FileType
    BY <2>1, <2>3 DEF FileType
  <2>5. judged' \in [Slots -> FileType]
    <3>1. judged' \in {[judged EXCEPT ![<<idx, attempt>>] = f] :
                         f \in {target'[<<idx, attempt>>], NoFile}}
      BY <1>6 DEF RunAttempt
    <3> QED BY <2>4, <3>1 DEF TypeOK
  <2>6. local' \in [Slots -> FileType]
    <3>1. local' \in {local, [local EXCEPT ![<<idx, attempt>>] = target'[<<idx, attempt>>]]}
      BY <1>6 DEF RunAttempt
    <3> QED BY <2>4, <3>1 DEF TypeOK
  <2> QED BY <2>2, <2>3, <2>5, <2>6, <1>00 DEF TypeOK
<1>7. CASE WriteVerdict
  <2>1. idx \in CellIndex /\ attempt \in Attempts /\ <<idx, attempt>> \in Slots
    BY <1>7 DEF WriteVerdict, Progress, Live, TypeOK, Slots
  <2>2. PICK v \in campaign.outcomes :
          /\ verdict' = [verdict EXCEPT ![<<idx, attempt>>] = v]
          /\ \/ /\ AnotherAttempt(v)
                /\ pc' = "attempt" /\ attempt' = attempt + 1
                /\ UNCHANGED <<idx, cellsDone, stopped, final>>
             \/ ~AnotherAttempt(v) /\ CellDone(v) /\ UNCHANGED attempt
    BY <1>7 DEF WriteVerdict
  <2>3. UNCHANGED <<campaign, launch, target, local, judged>>
    BY <1>7 DEF WriteVerdict
  <2>4. v \in CellClasses /\ v \in CellStates
    BY <1>0 DEF CellStates
  <2>5. verdict' \in [Slots -> CellClasses \cup {"none"}]
    BY <2>1, <2>2, <2>4 DEF TypeOK
  <2>6. CASE /\ AnotherAttempt(v) /\ pc' = "attempt" /\ attempt' = attempt + 1
             /\ UNCHANGED <<idx, cellsDone, stopped, final>>
    <3>1. attempt' \in Attempts
      BY <2>1, <2>6, <1>0 DEF AnotherAttempt, Attempts
    <3> QED BY <2>3, <2>5, <2>6, <3>1, <1>00 DEF TypeOK
  <2>7. CASE CellDone(v) /\ UNCHANGED attempt
    <3>1. cellsDone' \in [CellIndex -> CellStates \cup {"none"}]
      BY <2>4, <2>7 DEF CellDone, Record, TypeOK
    <3>2. idx' \in 1..(Len(Matrix) + 1) /\ pc' \in {"cell", "ended"}
          /\ final' \in Finals /\ stopped' \in BOOLEAN
      <4>1. CASE EndWith("expected-negative") /\ stopped' = TRUE /\ UNCHANGED idx
        BY <4>1 DEF EndWith, TypeOK, Finals
      <4>2. CASE pc' = "cell" /\ idx' = idx + 1 /\ UNCHANGED <<stopped, final>>
        <5>1. idx + 1 \in 1..(Len(Matrix) + 1)
          BY <2>1, <1>0
        <5> QED BY <4>2, <5>1 DEF TypeOK
      <4> QED BY <2>7, <4>1, <4>2 DEF CellDone
    <3> QED BY <2>3, <2>5, <2>7, <3>1, <3>2, <1>00 DEF TypeOK
  <2> QED BY <2>2, <2>6, <2>7
<1>8. CASE AllCellsDone
  <2>1. /\ UNCHANGED <<campaign, launch, idx, attempt, cellsDone, stopped, diskVars>>
        /\ pc' = "ended" /\ final' = CampaignFinal({cellsDone[c] : c \in CellIndex})
    BY <1>8 DEF AllCellsDone, EndWith
  <2> QED BY <2>1, <1>00, FinalMeans DEF TypeOK, diskVars
<1>9. CASE Abort
  BY <1>9, <1>00 DEF Abort, EndWith, diskVars, TypeOK, Finals
<1>10. CASE Crash
  BY <1>10, <1>00 DEF Crash, diskVars, TypeOK
<1>11. CASE Relaunch
  <2>1. launch' \in 1..campaign.launches /\ idx' \in 1..(Len(Matrix) + 1) /\ attempt' \in Attempts
    BY <1>11, <1>0 DEF Relaunch, TypeOK, Attempts
  <2>2. cellsDone' \in [CellIndex -> CellStates \cup {"none"}]
    BY <1>11 DEF Relaunch
  <2> QED BY <1>11, <2>1, <2>2, <1>00 DEF Relaunch, TypeOK, diskVars, Finals
<1> QED
  BY <1>1, <1>2, <1>3, <1>4, <1>5, <1>6, <1>7, <1>8, <1>9, <1>10, <1>11 DEF Next

\* A launch goes on from cell to cell.
LEMMA ProgressStep == TypeOK /\ Progress /\ [Next]_vars => Progress'
<1> SUFFICES ASSUME TypeOK, Progress, [Next]_vars PROVE Progress'
  OBVIOUS
<1>0. /\ CellIndex = 1..Len(Matrix) /\ Len(Matrix) \in Nat /\ campaign.outcomes \subseteq CellClasses
      /\ idx \in Nat
  BY CampaignShape DEF TypeOK
<1>00. campaign' = campaign /\ CellIndex' = CellIndex
  BY DEF Next, vars, CellIndex, Matrix, StopBeforeCell, EffectGateStops, PreGateSkips,
         StartCell, RunAttempt, WriteVerdict, AllCellsDone, Abort, Crash, Relaunch
<1>1. CASE UNCHANGED vars
  BY <1>1, <1>00 DEF vars, runVars, Progress
<1>2. CASE pc' \notin Live
  BY <1>2 DEF Progress
<1>3. CASE PreGateSkips
  <2>1. /\ idx \in CellIndex /\ pc = "cell" /\ pc' = "cell" /\ idx' = idx + 1
        /\ cellsDone' = [cellsDone EXCEPT ![idx] = "SKIPPED"]
        /\ UNCHANGED <<stopped, final>>
    BY <1>3 DEF PreGateSkips, Record
  <2>2. \A c \in CellIndex : IF c < idx' THEN cellsDone'[c] \in CellClasses \cup {"SKIPPED"}
                                         ELSE cellsDone'[c] = "none"
    BY <2>1, <1>0 DEF Progress, Live, TypeOK
  <2> QED BY <2>1, <2>2, <1>00 DEF Progress, Live
<1>4. CASE StartCell
  BY <1>4, <1>00 DEF StartCell, Progress, Live
<1>5. CASE RunAttempt
  BY <1>5, <1>00 DEF RunAttempt, Progress, Live
<1>6. CASE WriteVerdict
  <2>1. pc = "verdict" /\ idx \in CellIndex
    BY <1>6 DEF WriteVerdict, Progress, Live
  <2>2. PICK v \in campaign.outcomes :
          \/ pc' = "attempt" /\ UNCHANGED <<idx, cellsDone, stopped, final>>
          \/ CellDone(v)
    BY <1>6 DEF WriteVerdict
  <2>3. CASE pc' = "attempt" /\ UNCHANGED <<idx, cellsDone, stopped, final>>
    BY <2>1, <2>3, <1>00 DEF Progress, Live
  <2>4. CASE CellDone(v) /\ pc' = "cell"
    <3>1. /\ idx' = idx + 1 /\ UNCHANGED <<stopped, final>>
          /\ cellsDone' = [cellsDone EXCEPT ![idx] = v]
      BY <2>4 DEF CellDone, Record, EndWith
    <3>2. v \in CellClasses
      BY <1>0
    <3>3. \A c \in CellIndex : IF c < idx' THEN cellsDone'[c] \in CellClasses \cup {"SKIPPED"}
                                           ELSE cellsDone'[c] = "none"
      BY <2>1, <3>1, <3>2, <1>0 DEF Progress, Live, TypeOK
    <3> QED BY <2>1, <2>4, <3>1, <3>3, <1>00 DEF Progress, Live
  <2>5. CASE CellDone(v) /\ pc' # "cell"
    BY <1>2, <2>5 DEF CellDone, EndWith, Live
  <2> QED BY <2>2, <2>3, <2>4, <2>5
<1>7. CASE Relaunch
  <2>1. /\ pc' = "cell" /\ idx' = 1 /\ ~stopped' /\ final' = "none"
        /\ cellsDone' = [c \in CellIndex |-> "none"]
    BY <1>7 DEF Relaunch
  <2> QED BY <2>1, <1>0, <1>00 DEF Progress, Live
<1>8. CASE StopBeforeCell \/ EffectGateStops \/ AllCellsDone \/ Abort \/ Crash
  <2>1. pc' \in {"ended", "dead"}
    BY <1>8 DEF StopBeforeCell, EffectGateStops, AllCellsDone, Abort, Crash, EndWith
  <2> QED BY <1>2, <2>1 DEF Live
<1> QED
  BY <1>1, <1>3, <1>4, <1>5, <1>6, <1>7, <1>8 DEF Next

\* A final says of the cells what it is defined to say, and nothing moves them
\* after it.
LEMMA ConcludedStep == TypeOK /\ Progress /\ Concluded /\ [Next]_vars => Concluded'
<1> SUFFICES ASSUME TypeOK, Progress, Concluded, [Next]_vars PROVE Concluded'
  OBVIOUS
<1>0. CellIndex = 1..Len(Matrix) /\ Len(Matrix) \in Nat
  BY CampaignShape
<1>00. CellIndex' = CellIndex
  BY DEF Next, vars, CellIndex, Matrix, StopBeforeCell, EffectGateStops, PreGateSkips,
         StartCell, RunAttempt, WriteVerdict, AllCellsDone, Abort, Crash, Relaunch
<1>1. CASE UNCHANGED <<final, stopped, cellsDone>>
  BY <1>1, <1>00 DEF Concluded
<1>2. CASE final' \notin {"completed", "expected-negative"}
  BY <1>2 DEF Concluded
<1>3. CASE final' = "expected-negative" /\ stopped'
  BY <1>3 DEF Concluded
<1>4. CASE PreGateSkips
  BY <1>2, <1>4 DEF PreGateSkips, Progress, Live
<1>5. CASE WriteVerdict
  <2>1. final = "none" /\ ~stopped
    BY <1>5 DEF WriteVerdict, Progress, Live
  <2>2. PICK v \in campaign.outcomes :
          UNCHANGED <<stopped, final, cellsDone>> \/ CellDone(v)
    BY <1>5 DEF WriteVerdict
  <2>3. CASE UNCHANGED <<stopped, final, cellsDone>>
    BY <2>3, <1>1
  <2>4. CASE CellDone(v)
    <3>1. final' = final \/ (final' = "expected-negative" /\ stopped')
      BY <2>4 DEF CellDone, EndWith
    <3> QED BY <2>1, <3>1, <1>2, <1>3
  <2> QED BY <2>2, <2>3, <2>4
<1>6. CASE EffectGateStops
  BY <1>2, <1>3, <1>6 DEF EffectGateStops, EndWith
<1>7. CASE AllCellsDone
  <2>1. /\ pc = "cell" /\ idx = Len(Matrix) + 1 /\ cellsDone' = cellsDone
        /\ final' = CampaignFinal({cellsDone[c] : c \in CellIndex})
    BY <1>7 DEF AllCellsDone, EndWith
  <2>2. \A c \in CellIndex : cellsDone[c] \in CellClasses \cup {"SKIPPED"}
    BY <2>1, <1>0 DEF Progress, Live
  <2> DEFINE S == {cellsDone[c] : c \in CellIndex}
  <2>3. /\ final' = "completed" => S \subseteq {"PASS", "EXPECTED_NEGATIVE"}
        /\ final' \in {"completed", "expected-negative"} => S \cap Broken = {}
    BY <2>1, FinalMeans
  <2>4. \A c \in CellIndex : cellsDone[c] \in S
    OBVIOUS
  <2> HIDE DEF S
  <2>5. "SKIPPED" \in Broken
    BY DEF Broken
  <2> QED BY <2>1, <2>2, <2>3, <2>4, <2>5, <1>00 DEF Concluded
<1>8. CASE Relaunch
  BY <1>2, <1>8 DEF Relaunch
<1>9. CASE StopBeforeCell
  BY <1>2, <1>9 DEF StopBeforeCell, EndWith
<1>10. CASE Abort
  BY <1>2, <1>10 DEF Abort, EndWith
<1>11. CASE StartCell \/ RunAttempt \/ Crash
  BY <1>1, <1>11 DEF StartCell, RunAttempt, Crash
<1>12. CASE UNCHANGED vars
  BY <1>1, <1>12 DEF vars, runVars
<1> QED
  BY <1>4, <1>5, <1>6, <1>7, <1>8, <1>9, <1>10, <1>11, <1>12 DEF Next

\* The record of a cell is written with the verdict it is the record of, and the
\* attempts of a cell end before it is recorded.
LEMMA RecordsStep ==
  TypeOK /\ Progress /\ RecordsAreVerdicts /\ [Next]_vars => RecordsAreVerdicts'
<1> SUFFICES ASSUME TypeOK, Progress, RecordsAreVerdicts, [Next]_vars PROVE RecordsAreVerdicts'
  OBVIOUS
<1>0. /\ CellIndex = 1..Len(Matrix) /\ Len(Matrix) \in Nat
      /\ "none" \notin CellClasses /\ "NOT_RUN" \notin CellClasses /\ "SKIPPED" \notin CellClasses
  BY CampaignShape DEF CellClasses
<1>00. CellIndex' = CellIndex /\ Attempts' = Attempts
  BY DEF Next, vars, CellIndex, Matrix, Attempts, StopBeforeCell, EffectGateStops, PreGateSkips,
         StartCell, RunAttempt, WriteVerdict, AllCellsDone, Abort, Crash, Relaunch
<1>1. CASE /\ verdict' = verdict
           /\ \A c \in CellIndex : cellsDone'[c] = cellsDone[c] \/ cellsDone'[c] \notin CellClasses
  BY <1>1, <1>00 DEF RecordsAreVerdicts
<1>2. CASE EffectGateStops \/ PreGateSkips
  <2>1. verdict' = verdict /\ \E st \in {"NOT_RUN", "SKIPPED"} : Record(st)
    BY <1>2 DEF EffectGateStops, PreGateSkips, diskVars
  <2>2. \A c \in CellIndex : cellsDone'[c] = cellsDone[c] \/ cellsDone'[c] \notin CellClasses
    BY <2>1, <1>0 DEF Record, TypeOK
  <2> QED BY <2>1, <2>2, <1>1
<1>3. CASE Relaunch
  <2>1. verdict' = verdict /\ cellsDone' = [c \in CellIndex |-> "none"]
    BY <1>3 DEF Relaunch, diskVars
  <2> QED BY <2>1, <1>0, <1>1
<1>4. CASE WriteVerdict
  <2>1. idx \in CellIndex /\ attempt \in Attempts /\ <<idx, attempt>> \in Slots
        /\ cellsDone[idx] = "none"
    BY <1>4, <1>0 DEF WriteVerdict, Progress, Live, TypeOK, Slots
  <2>2. PICK v \in campaign.outcomes :
          /\ verdict' = [verdict EXCEPT ![<<idx, attempt>>] = v]
          /\ UNCHANGED cellsDone \/ CellDone(v)
    BY <1>4 DEF WriteVerdict
  <2>3. \A c \in CellIndex : c # idx => \A a \in Attempts : verdict'[<<c, a>>] = verdict[<<c, a>>]
    BY <2>2 DEF TypeOK, Slots
  <2>4. \A c \in CellIndex : c # idx => cellsDone'[c] = cellsDone[c]
    BY <2>2 DEF CellDone, Record, TypeOK
  <2>5. cellsDone'[idx] \in CellClasses => verdict'[<<idx, attempt>>] = cellsDone'[idx]
    BY <2>1, <2>2, <1>0 DEF CellDone, Record, TypeOK
  <2>6. ASSUME NEW c \in CellIndex, cellsDone'[c] \in CellClasses
        PROVE  \E a \in Attempts : verdict'[<<c, a>>] = cellsDone'[c]
    <3>1. CASE c = idx
      BY <2>1, <2>5, <2>6, <3>1
    <3>2. CASE c # idx
      BY <2>3, <2>4, <2>6, <3>2 DEF RecordsAreVerdicts
    <3> QED BY <3>1, <3>2
  <2> QED BY <2>6, <1>00 DEF RecordsAreVerdicts
<1>5. CASE StopBeforeCell \/ StartCell \/ RunAttempt \/ AllCellsDone \/ Abort \/ Crash
  BY <1>1, <1>5 DEF StopBeforeCell, StartCell, RunAttempt, AllCellsDone, Abort, Crash, diskVars
<1>6. CASE UNCHANGED vars
  BY <1>1, <1>6 DEF vars, runVars, diskVars
<1> QED
  BY <1>2, <1>3, <1>4, <1>5, <1>6 DEF Next

\* The invariant of a launch holds in every launch.
THEOREM LaunchInvariant == Spec => []LaunchInv
<1>1. LaunchInv /\ [Next]_vars => LaunchInv'
  BY TypeStep, ProgressStep, ConcludedStep, RecordsStep DEF LaunchInv
<1> QED
  BY InitLaunchInv, <1>1, PTL DEF Spec

\* The record of a cell that ran is the verdict of an attempt on disk, in every
\* launch, whatever came after that attempt.
THEOREM RecordsStayVerdicts == Spec => []RecordsAreVerdicts
<1>1. LaunchInv => RecordsAreVerdicts
  BY DEF LaunchInv
<1> QED
  BY <1>1, LaunchInvariant, PTL

\* A completed campaign has, for every cell, a verdict on disk that is a PASS or
\* a documented negative.
THEOREM CompletedMeansComplete == Spec => []CompletedIsComplete
<1>1. LaunchInv => CompletedIsComplete
  <2>1. "PASS" \in CellClasses /\ "EXPECTED_NEGATIVE" \in CellClasses
    BY DEF CellClasses
  <2> QED BY <2>1 DEF LaunchInv, Concluded, CompletedIsComplete, RecordsAreVerdicts
<1> QED
  BY <1>1, LaunchInvariant, PTL
-----------------------------------------------------------------------------
(* The invariant of the first launch, whose directories are all its own.   *)

\* An attempt that is not begun, or whose client is not run yet.
Ahead(c, a) ==
  c > idx \/ (c = idx /\ (pc = "cell" \/ a > attempt \/ (a = attempt /\ pc = "attempt")))

\* What is ahead has left nothing in the run directory.
Untouched ==
  pc \in Live => \A c \in CellIndex, a \in Attempts :
    /\ Ahead(c, a) => local[<<c, a>>] = NoFile /\ verdict[<<c, a>>] = "none"
    /\ pc = "verdict" /\ c = idx /\ a = attempt => verdict[<<c, a>>] = "none"
    /\ pc # "cell" /\ c = idx /\ a < attempt => verdict[<<c, a>>] \notin Settled

\* The data an attempt was judged on is the data it left, and a PASS had some.
Honest ==
  \A s \in Slots :
    /\ local[s] # NoFile /\ judged[s] # NoFile => local[s] = judged[s]
    /\ verdict[s] = "PASS" => judged[s] # NoFile

\* No attempt follows one that settled its cell.
SettledIsLast ==
  \A c \in CellIndex, a, b \in Attempts :
    verdict[<<c, a>>] \in Settled /\ b > a => verdict[<<c, b>>] = "none"

\* The record of a cell is the verdict of its last attempt.
LastStands ==
  \A c \in CellIndex : cellsDone[c] \in CellClasses =>
    \E a \in Attempts : /\ verdict[<<c, a>>] = cellsDone[c]
                        /\ \A b \in Attempts : b > a => verdict[<<c, b>>] = "none"

\* The invariant of a first launch.
FirstInv ==
  launch = 1 => Untouched /\ Honest /\ SettledIsLast /\ LastStands

\* A first launch starts in an empty directory.
LEMMA InitFirstInv == Init => FirstInv
<1> SUFFICES ASSUME Init PROVE Untouched /\ Honest /\ SettledIsLast /\ LastStands
  BY DEF FirstInv
<1>1. "none" \notin Settled /\ "none" \notin CellClasses
  BY DEF Settled, CellClasses
<1>2. \A c \in CellIndex, a \in Attempts : local[<<c, a>>] = NoFile /\ verdict[<<c, a>>] = "none"
  BY DEF Init, Slots
<1>3. Honest
  BY DEF Init, Honest
<1>4. \A c \in CellIndex : cellsDone[c] = "none"
  BY DEF Init
<1> QED
  BY <1>1, <1>2, <1>3, <1>4 DEF Untouched, SettledIsLast, LastStands

\* The client's step touches the files of its attempt alone, which nobody had
\* written to.
LEMMA FirstRunAttempt ==
  ASSUME TypeOK, Progress, launch = 1, FirstInv, RunAttempt
  PROVE  FirstInv'
<1>0. /\ CellIndex' = CellIndex /\ Attempts' = Attempts /\ Slots' = Slots
      /\ idx \in CellIndex /\ attempt \in Attempts /\ <<idx, attempt>> \in Slots
      /\ pc = "attempt" /\ pc' = "verdict" /\ launch' = 1
      /\ UNCHANGED <<idx, attempt, cellsDone, verdict>>
  BY DEF RunAttempt, CellIndex, Matrix, Attempts, Slots, Progress, Live, TypeOK
<1>1. Untouched /\ Honest /\ SettledIsLast /\ LastStands
  BY DEF FirstInv
<1>2. CellIndex \subseteq Nat /\ Attempts \subseteq Nat
  BY CampaignShape DEF Attempts
<1>3. local[<<idx, attempt>>] = NoFile /\ verdict[<<idx, attempt>>] = "none"
  BY <1>0, <1>1 DEF Untouched, Ahead, Live
<1>4. /\ judged' \in {[judged EXCEPT ![<<idx, attempt>>] = f] :
                        f \in {target'[<<idx, attempt>>], NoFile}}
      /\ local' \in {local, [local EXCEPT ![<<idx, attempt>>] = target'[<<idx, attempt>>]]}
  BY <1>3 DEF RunAttempt
<1>5. \A s \in Slots : s # <<idx, attempt>> => local'[s] = local[s] /\ judged'[s] = judged[s]
  BY <1>4 DEF TypeOK
<1>6. /\ local'[<<idx, attempt>>] \in {NoFile, target'[<<idx, attempt>>]}
      /\ judged'[<<idx, attempt>>] \in {NoFile, target'[<<idx, attempt>>]}
  BY <1>0, <1>3, <1>4 DEF TypeOK
<1>7. Honest'
  <2>1. ASSUME NEW s \in Slots
        PROVE  /\ local'[s] # NoFile /\ judged'[s] # NoFile => local'[s] = judged'[s]
               /\ verdict[s] = "PASS" => judged'[s] # NoFile
    <3>1. CASE s = <<idx, attempt>>
      BY <1>3, <1>6, <3>1
    <3>2. CASE s # <<idx, attempt>>
      BY <1>1, <1>5, <3>2 DEF Honest
    <3> QED BY <3>1, <3>2
  <2> QED BY <1>0, <2>1 DEF Honest
<1>8. Untouched'
  <2> SUFFICES ASSUME NEW c \in CellIndex, NEW a \in Attempts
      PROVE  /\ Ahead(c, a)' => local'[<<c, a>>] = NoFile /\ verdict[<<c, a>>] = "none"
             /\ c = idx /\ a = attempt => verdict[<<c, a>>] = "none"
             /\ c = idx /\ a < attempt => verdict[<<c, a>>] \notin Settled
    BY <1>0 DEF Untouched
  <2>1. ASSUME Ahead(c, a)'
        PROVE  local'[<<c, a>>] = NoFile /\ verdict[<<c, a>>] = "none"
    <3>1. c > idx \/ (c = idx /\ a > attempt)
      BY <1>0, <2>1 DEF Ahead
    <3>2. Ahead(c, a) /\ <<c, a>> \in Slots /\ <<c, a>> # <<idx, attempt>>
      BY <1>0, <1>2, <3>1 DEF Ahead, Slots
    <3> QED BY <1>0, <1>1, <1>5, <3>2 DEF Untouched, Live
  <2>2. c = idx /\ a < attempt => verdict[<<c, a>>] \notin Settled
    BY <1>0, <1>1 DEF Untouched, Live
  <2> QED BY <1>3, <2>1, <2>2
<1>9. SettledIsLast' /\ LastStands'
  BY <1>0, <1>1 DEF SettledIsLast, LastStands
<1> QED
  BY <1>0, <1>7, <1>8, <1>9 DEF FirstInv

\* A verdict is written once, after those of the attempts before it.
LEMMA FirstWriteVerdict ==
  ASSUME TypeOK, Progress, launch = 1, FirstInv, WriteVerdict
  PROVE  FirstInv'
<1>0. /\ CellIndex' = CellIndex /\ Attempts' = Attempts /\ Slots' = Slots
      /\ idx \in CellIndex /\ attempt \in Attempts /\ <<idx, attempt>> \in Slots
      /\ pc = "verdict" /\ launch' = 1
      /\ UNCHANGED <<local, judged>>
  BY DEF WriteVerdict, CellIndex, Matrix, Attempts, Slots, Progress, Live, TypeOK
<1>1. Untouched /\ Honest /\ SettledIsLast /\ LastStands
  BY DEF FirstInv
<1>2. CellIndex \subseteq Nat /\ Attempts \subseteq Nat /\ "none" \notin Settled
  BY CampaignShape DEF Attempts, Settled
<1>3. PICK v \in campaign.outcomes :
        /\ Reachable(v)
        /\ verdict' = [verdict EXCEPT ![<<idx, attempt>>] = v]
        /\ \/ /\ AnotherAttempt(v)
              /\ pc' = "attempt" /\ attempt' = attempt + 1
              /\ UNCHANGED <<idx, cellsDone, stopped, final>>
           \/ ~AnotherAttempt(v) /\ CellDone(v) /\ UNCHANGED attempt
  BY DEF WriteVerdict
<1>4. /\ verdict'[<<idx, attempt>>] = v
      /\ \A s \in Slots : s # <<idx, attempt>> => verdict'[s] = verdict[s]
  BY <1>0, <1>3 DEF TypeOK
<1>5. \A c \in CellIndex, a \in Attempts :
        c # idx \/ a # attempt => verdict'[<<c, a>>] = verdict[<<c, a>>]
  BY <1>4 DEF Slots
<1>6. /\ \A a \in Attempts : a < attempt => verdict[<<idx, a>>] \notin Settled
      /\ \A a \in Attempts : a > attempt => verdict[<<idx, a>>] = "none"
  BY <1>0, <1>1 DEF Untouched, Ahead, Live
<1>7. Honest'
  <2>1. ASSUME NEW s \in Slots, verdict'[s] = "PASS" PROVE judged[s] # NoFile
    <3>1. CASE s = <<idx, attempt>>
      BY <1>3, <1>4, <2>1, <3>1 DEF Reachable
    <3>2. CASE s # <<idx, attempt>>
      BY <1>1, <1>4, <2>1, <3>2 DEF Honest
    <3> QED BY <3>1, <3>2
  <2>2. \A s \in Slots : local[s] # NoFile /\ judged[s] # NoFile => local[s] = judged[s]
    BY <1>1 DEF Honest
  <2> QED BY <1>0, <2>1, <2>2 DEF Honest
<1>8. SettledIsLast'
  <2>1. ASSUME NEW c \in CellIndex, NEW a \in Attempts, NEW b \in Attempts,
               verdict'[<<c, a>>] \in Settled, b > a
        PROVE  verdict'[<<c, b>>] = "none"
    <3>1. CASE c # idx
      BY <1>1, <1>5, <2>1, <3>1 DEF SettledIsLast
    <3>2. CASE c = idx /\ a < attempt
      BY <1>2, <1>5, <1>6, <2>1, <3>2
    <3>3. CASE c = idx /\ a >= attempt
      <4>1. b > attempt
        BY <1>0, <1>2, <2>1, <3>3
      <4>2. b # attempt
        BY <1>0, <1>2, <4>1
      <4> QED BY <1>5, <1>6, <3>3, <4>1, <4>2
    <3> QED BY <1>0, <1>2, <3>1, <3>2, <3>3
  <2> QED BY <1>0, <2>1 DEF SettledIsLast
<1>9. Untouched' /\ LastStands'
  <2>1. CASE /\ AnotherAttempt(v)
             /\ pc' = "attempt" /\ attempt' = attempt + 1
             /\ UNCHANGED <<idx, cellsDone, stopped, final>>
    <3>1. v \notin Settled
      BY <2>1 DEF AnotherAttempt
    <3>2. cellsDone[idx] = "none" /\ "none" \notin CellClasses
      BY <1>0, <1>2 DEF Progress, Live, CellClasses
    <3>3. LastStands'
      <4>1. ASSUME NEW c \in CellIndex, cellsDone[c] \in CellClasses
            PROVE  \A a \in Attempts : verdict'[<<c, a>>] = verdict[<<c, a>>]
        BY <1>5, <3>2, <4>1
      <4>2. ASSUME NEW c \in CellIndex, cellsDone[c] \in CellClasses
            PROVE  \E a \in Attempts :
                     /\ verdict'[<<c, a>>] = cellsDone[c]
                     /\ \A b \in Attempts : b > a => verdict'[<<c, b>>] = "none"
        <5>1. PICK a \in Attempts : /\ verdict[<<c, a>>] = cellsDone[c]
                                    /\ \A b \in Attempts : b > a => verdict[<<c, b>>] = "none"
          BY <1>1, <4>2 DEF LastStands
        <5> QED BY <4>1, <4>2, <5>1
      <4> QED BY <1>0, <2>1, <4>2 DEF LastStands
    <3>4. Untouched'
      <4> SUFFICES ASSUME NEW c \in CellIndex, NEW a \in Attempts
          PROVE  /\ Ahead(c, a)' => local[<<c, a>>] = NoFile /\ verdict'[<<c, a>>] = "none"
                 /\ c = idx /\ a < attempt + 1 => verdict'[<<c, a>>] \notin Settled
        BY <1>0, <2>1 DEF Untouched
      <4>1. ASSUME Ahead(c, a)'
            PROVE  local[<<c, a>>] = NoFile /\ verdict'[<<c, a>>] = "none"
        <5>1. c > idx \/ (c = idx /\ a > attempt)
          BY <1>0, <1>2, <2>1, <4>1 DEF Ahead
        <5>2. Ahead(c, a) /\ (c # idx \/ a # attempt)
          BY <1>0, <1>2, <5>1 DEF Ahead
        <5> QED BY <1>0, <1>1, <1>5, <5>2 DEF Untouched, Live
      <4>2. ASSUME c = idx, a < attempt + 1 PROVE verdict'[<<c, a>>] \notin Settled
        <5>1. CASE a = attempt
          BY <1>4, <3>1, <4>2, <5>1
        <5>2. CASE a < attempt
          <6>1. a # attempt
            BY <1>0, <1>2, <5>2
          <6>2. verdict'[<<c, a>>] = verdict[<<c, a>>]
            BY <1>5, <6>1
          <6> QED BY <1>6, <4>2, <5>2, <6>2
        <5> QED BY <1>0, <1>2, <4>2, <5>1, <5>2
      <4> QED BY <4>1, <4>2
    <3> QED BY <3>3, <3>4
  <2>2. CASE CellDone(v) /\ UNCHANGED attempt
    <3>1. /\ cellsDone'[idx] = v
          /\ \A c \in CellIndex : c # idx => cellsDone'[c] = cellsDone[c]
      BY <1>0, <2>2 DEF CellDone, Record, TypeOK
    <3>2. LastStands'
      <4>1. ASSUME NEW c \in CellIndex, cellsDone'[c] \in CellClasses
            PROVE  \E a \in Attempts :
                     /\ verdict'[<<c, a>>] = cellsDone'[c]
                     /\ \A b \in Attempts : b > a => verdict'[<<c, b>>] = "none"
        <5>1. CASE c = idx
          <6>1. \A b \in Attempts : b > attempt => verdict'[<<c, b>>] = "none"
            <7>1. \A b \in Attempts : b > attempt => b # attempt
              BY <1>0, <1>2
            <7> QED BY <1>5, <1>6, <5>1, <7>1
          <6>2. verdict'[<<c, attempt>>] = cellsDone'[c]
            BY <1>4, <3>1, <5>1
          <6> QED BY <1>0, <6>1, <6>2
        <5>2. CASE c # idx
          <6>1. PICK a \in Attempts : /\ verdict[<<c, a>>] = cellsDone[c]
                                      /\ \A b \in Attempts : b > a => verdict[<<c, b>>] = "none"
            BY <1>1, <3>1, <4>1, <5>2 DEF LastStands
          <6> QED BY <1>5, <3>1, <5>2, <6>1
        <5> QED BY <5>1, <5>2
      <4> QED BY <1>0, <4>1 DEF LastStands
    <3>3. CASE pc' = "cell" /\ idx' = idx + 1
      <4> SUFFICES ASSUME NEW c \in CellIndex, NEW a \in Attempts, Ahead(c, a)'
          PROVE  local[<<c, a>>] = NoFile /\ verdict'[<<c, a>>] = "none"
        BY <1>0, <3>2, <3>3 DEF Untouched
      <4>1. c > idx /\ c # idx
        BY <1>0, <1>2, <3>3 DEF Ahead
      <4>2. Ahead(c, a)
        BY <4>1 DEF Ahead
      <4> QED BY <1>0, <1>1, <1>5, <4>1, <4>2 DEF Untouched, Live
    <3>4. CASE pc' = "ended"
      BY <3>2, <3>4 DEF Untouched, Live
    <3> QED BY <2>2, <3>2, <3>3, <3>4 DEF CellDone, EndWith
  <2> QED BY <1>3, <2>1, <2>2
<1> QED
  BY <1>0, <1>7, <1>8, <1>9 DEF FirstInv

\* The steps of the loop leave the run directory as it is.
LEMMA FirstLoop ==
  ASSUME TypeOK, Progress, launch = 1, FirstInv,
         \/ StopBeforeCell \/ EffectGateStops \/ PreGateSkips \/ StartCell
         \/ AllCellsDone \/ Abort \/ Crash \/ UNCHANGED vars
  PROVE  FirstInv'
<1>0. /\ CellIndex' = CellIndex /\ Attempts' = Attempts /\ Slots' = Slots
      /\ launch' = 1 /\ UNCHANGED <<local, judged, verdict>>
  BY DEF StopBeforeCell, EffectGateStops, PreGateSkips, StartCell, AllCellsDone, Abort, Crash,
         vars, runVars, diskVars, CellIndex, Matrix, Attempts, Slots
<1>1. Untouched /\ Honest /\ SettledIsLast /\ LastStands
  BY DEF FirstInv
<1>2. CellIndex \subseteq Nat /\ Attempts = 1..campaign.maxAttempts /\ idx \in Nat
      /\ campaign.maxAttempts \in Nat
  BY CampaignShape DEF Attempts, TypeOK
<1>3. Honest' /\ SettledIsLast'
  BY <1>0, <1>1 DEF Honest, SettledIsLast
<1>4. \A c \in CellIndex : cellsDone'[c] = cellsDone[c] \/ cellsDone'[c] \notin CellClasses
  <2>1. UNCHANGED cellsDone \/ \E st \in {"NOT_RUN", "SKIPPED"} : Record(st)
    BY DEF StopBeforeCell, EffectGateStops, PreGateSkips, StartCell, AllCellsDone, Abort, Crash,
           vars, runVars
  <2>2. "NOT_RUN" \notin CellClasses /\ "SKIPPED" \notin CellClasses
    BY DEF CellClasses
  <2> QED BY <2>1, <2>2 DEF Record, TypeOK
<1>5. LastStands'
  BY <1>0, <1>1, <1>4 DEF LastStands
<1>6. Untouched'
  <2>1. CASE pc' \notin Live
    BY <2>1 DEF Untouched
  <2>2. CASE PreGateSkips
    <3>1. pc = "cell" /\ pc' = "cell" /\ idx' = idx + 1
      BY <2>2 DEF PreGateSkips
    <3>2. \A c \in CellIndex, a \in Attempts : Ahead(c, a)' => Ahead(c, a)
      BY <1>0, <1>2, <3>1 DEF Ahead
    <3> QED BY <1>0, <1>1, <3>1, <3>2 DEF Untouched, Live
  <2>3. CASE StartCell
    <3>1. pc = "cell" /\ pc' = "attempt" /\ idx' = idx /\ attempt' = 1
      BY <2>3 DEF StartCell
    <3>2. \A c \in CellIndex, a \in Attempts : Ahead(c, a)' => Ahead(c, a)
      BY <1>0, <1>2, <3>1 DEF Ahead
    <3>3. \A a \in Attempts : ~(a < 1)
      BY <1>2
    <3> QED BY <1>0, <1>1, <3>1, <3>2, <3>3 DEF Untouched, Live
  <2>4. CASE UNCHANGED vars
    <3>1. UNCHANGED <<pc, idx, attempt>>
      BY <2>4 DEF vars, runVars
    <3>2. \A c \in CellIndex, a \in Attempts : Ahead(c, a)' = Ahead(c, a)
      BY <3>1 DEF Ahead
    <3> QED BY <1>0, <1>1, <3>1, <3>2 DEF Untouched
  <2>5. CASE StopBeforeCell \/ EffectGateStops \/ AllCellsDone \/ Abort \/ Crash
    <3>1. pc' \in {"ended", "dead"}
      BY <2>5 DEF StopBeforeCell, EffectGateStops, AllCellsDone, Abort, Crash, EndWith
    <3> QED BY <2>1, <3>1 DEF Live
  <2> QED BY <2>2, <2>3, <2>4, <2>5
<1> QED
  BY <1>0, <1>3, <1>5, <1>6 DEF FirstInv

\* The invariant of the first launch holds.
THEOREM FirstLaunchInvariant == Spec => [](LaunchInv /\ FirstInv)
<1>1. LaunchInv /\ FirstInv /\ [Next]_vars => FirstInv'
  <2> SUFFICES ASSUME LaunchInv, FirstInv, [Next]_vars, launch' = 1 PROVE FirstInv'
    BY DEF FirstInv
  <2>0. TypeOK /\ Progress
    BY DEF LaunchInv
  <2>1. ~Relaunch
    <3>1. launch \in Nat \ {0}
      BY <2>0, CampaignShape DEF TypeOK
    <3> QED BY <3>1 DEF Relaunch
  <2>2. launch = 1
    BY <2>1 DEF Next, vars, runVars, StopBeforeCell, EffectGateStops, PreGateSkips, StartCell,
            RunAttempt, WriteVerdict, AllCellsDone, Abort, Crash
  <2> QED BY <2>0, <2>1, <2>2, FirstRunAttempt, FirstWriteVerdict, FirstLoop DEF Next
<1> QED
  BY InitLaunchInv, InitFirstInv, LaunchInvariant, <1>1, PTL DEF Spec

\* A first launch that went through its matrix, and ends in a page that asks
\* nobody to look, left no cell whose last attempt is broken or missing.
THEOREM WholeRunsAreNotCollapsed == Spec => []WholeRunNotCollapsed
<1>1. LaunchInv /\ FirstInv => WholeRunNotCollapsed
  <2> SUFFICES ASSUME LaunchInv, FirstInv, launch = 1, ~stopped,
                      final \in {"completed", "expected-negative"}, NEW c \in CellIndex
      PROVE  \E a \in Attempts : /\ verdict[<<c, a>>] \notin Broken \cup {"none"}
                                 /\ \A b \in Attempts : b > a => verdict[<<c, b>>] = "none"
    BY DEF WholeRunNotCollapsed
  <2>1. cellsDone[c] \in CellClasses \ Broken
    BY DEF LaunchInv, Concluded
  <2>2. PICK a \in Attempts : /\ verdict[<<c, a>>] = cellsDone[c]
                              /\ \A b \in Attempts : b > a => verdict[<<c, b>>] = "none"
    BY <2>1 DEF FirstInv, LastStands
  <2>3. "none" \notin CellClasses
    BY DEF CellClasses
  <2> QED BY <2>1, <2>2, <2>3
<1> QED
  BY <1>1, FirstLaunchInvariant, PTL
-----------------------------------------------------------------------------
(* The gates.                                                              *)

\* Twice the median of one value is twice that value.
LEMMA MedianOfOne ==
  ASSUME NEW f, NEW a \in Nat, DOMAIN f = {a}, f[a] \in Nat
  PROVE  TwiceMedian(f) = 2 * f[a]
<1>1. Cardinality({a}) = 1
  BY FS_Singleton
<1>2. {b \in DOMAIN f : f[b] < f[a] \/ (f[b] = f[a] /\ b <= a)} = {a}
  OBVIOUS
<1>3. Rank(f, a) = 1
  BY <1>1, <1>2 DEF Rank
<1>4. Nth(f, 1) = f[a]
  <2>1. (CHOOSE x \in DOMAIN f : Rank(f, x) = 1) = a
    BY <1>3
  <2> QED BY <2>1 DEF Nth
<1>5. (1 + 1) \div 2 = 1 /\ 1 \div 2 + 1 = 1
  OBVIOUS
<1>6. TwiceMedian(f) = Nth(f, 1) + Nth(f, 1)
  BY <1>1, <1>5 DEF TwiceMedian
<1> QED
  BY <1>4, <1>6

\* In a first launch, a value a gate takes for evidence was measured by the
\* passed attempt of its cell, and there is at most one.
LEMMA EvidenceIsMeasured ==
  ASSUME TypeOK, Honest, SettledIsLast, NEW c, DOMAIN Evidence(c) # {}
  PROVE  \E a \in Attempts : /\ DOMAIN Evidence(c) = {a} /\ a \in Nat
                             /\ Evidence(c)[a] \in Measured(c) /\ Evidence(c)[a] \in Nat
<1> DEFINE used == {a \in Attempts : /\ c \in CellIndex
                                     /\ verdict[<<c, a>>] = "PASS" /\ local[<<c, a>>] # NoFile}
<1>1. Evidence(c) = [a \in used |-> local[<<c, a>>].value]
  BY DEF Evidence
<1>2. DOMAIN Evidence(c) = used
  BY <1>1
<1>3. PICK a \in used : TRUE
  BY <1>2
<1>4. Attempts \subseteq Nat /\ campaign.values \subseteq Nat
  BY CampaignShape DEF Attempts
<1>5. ASSUME NEW b \in used PROVE b = a
  <2>1. verdict[<<c, a>>] \in Settled /\ verdict[<<c, b>>] \in Settled
        /\ verdict[<<c, a>>] # "none" /\ verdict[<<c, b>>] # "none"
    BY <1>3, <1>5 DEF Settled
  <2>2. ~(b > a) /\ ~(a > b)
    BY <1>3, <1>5, <2>1 DEF SettledIsLast
  <2> QED BY <1>3, <1>4, <1>5, <2>2
<1>6. <<c, a>> \in Slots
  BY <1>3 DEF Slots
<1>7. local[<<c, a>>] = judged[<<c, a>>] /\ local[<<c, a>>] # NoFile /\ verdict[<<c, a>>] = "PASS"
  BY <1>3, <1>6 DEF Honest
<1>8. local[<<c, a>>].value \in Nat
  BY <1>4, <1>6, <1>7 DEF TypeOK, FileType
<1>9. judged[<<c, a>>].value \in Measured(c)
  BY <1>6, <1>7 DEF Measured
<1>10. Evidence(c)[a] = local[<<c, a>>].value
  BY <1>1, <1>3
<1>11. used = {a} /\ a \in Attempts
  BY <1>3, <1>5
<1> HIDE DEF used
<1> QED
  BY <1>2, <1>4, <1>7, <1>8, <1>9, <1>10, <1>11

\* A gate that passes in a first launch is founded.
LEMMA PassedGateIsFounded ==
  ASSUME TypeOK, Honest, SettledIsLast, NEW gate \in Gates, GateStatus(gate) = "PASS"
  PROVE  Founded(gate)
<1>1. CASE gate = NoGate
  BY <1>1 DEF NoGate, Founded
<1>2. CASE gate \in [kind : {"zero_count"}, over : SUBSET Nat]
  <2>1. ZeroCount(gate) = "PASS"
    BY <1>2 DEF GateStatus
  <2>2. ASSUME NEW c \in gate.over PROVE 0 \in Measured(c)
    <3>1. DOMAIN Evidence(c) # {} /\ \A a \in DOMAIN Evidence(c) : ~(Evidence(c)[a] > 0)
      BY <2>1 DEF ZeroCount
    <3>2. PICK a : a \in DOMAIN Evidence(c) /\ Evidence(c)[a] \in Measured(c)
                   /\ Evidence(c)[a] \in Nat
      BY <3>1, EvidenceIsMeasured
    <3> QED BY <3>1, <3>2
  <2>3. gate.kind # "gain"
    BY <1>2
  <2> QED BY <2>2, <2>3 DEF Founded
<1>3. CASE gate \in [kind : {"gain"}, base : Nat, treat : Nat, floor : Int]
  <2>1. RelativeGain(gate) = "PASS" /\ gate.kind = "gain" /\ gate.floor \in Int
    BY <1>3 DEF GateStatus
  <2> DEFINE base == Evidence(gate.base)
             treat == Evidence(gate.treat)
  <2>2. /\ DOMAIN base # {} /\ DOMAIN treat # {} /\ TwiceMedian(base) # 0
        /\ 100 * (TwiceMedian(treat) - TwiceMedian(base)) >= gate.floor * TwiceMedian(base)
    BY <2>1 DEF RelativeGain
  <2>3. PICK a : DOMAIN base = {a} /\ a \in Nat /\ base[a] \in Measured(gate.base) /\ base[a] \in Nat
    BY <2>2, EvidenceIsMeasured
  <2>4. PICK b : DOMAIN treat = {b} /\ b \in Nat /\ treat[b] \in Measured(gate.treat)
                 /\ treat[b] \in Nat
    BY <2>2, EvidenceIsMeasured
  <2> HIDE DEF base, treat
  <2>5. TwiceMedian(base) = 2 * base[a] /\ TwiceMedian(treat) = 2 * treat[b]
    BY <2>3, <2>4, MedianOfOne
  <2>6. ASSUME NEW x \in Nat, NEW y \in Nat, NEW fl \in Int, 2 * x # 0,
               100 * (2 * y - 2 * x) >= fl * (2 * x)
        PROVE  x > 0 /\ 100 * (y - x) >= fl * x
    <3>1. fl * (2 * x) = 2 * (fl * x)
      OBVIOUS
    <3> DEFINE p == fl * x
    <3>2. p \in Int
      OBVIOUS
    <3>3. 100 * (2 * y - 2 * x) >= 2 * p
      BY <2>6, <3>1
    <3> HIDE DEF p
    <3>4. 100 * (y - x) >= p
      BY <3>2, <3>3
    <3> QED BY <2>6, <3>4 DEF p
  <2>7. base[a] > 0 /\ 100 * (treat[b] - base[a]) >= gate.floor * base[a]
    BY <2>1, <2>2, <2>3, <2>4, <2>5, <2>6
  <2> QED BY <2>1, <2>3, <2>4, <2>7 DEF Founded
<1> QED
  BY <1>1, <1>2, <1>3 DEF Gates

\* No step of a first launch loses a measurement.
LEMMA MeasuredGrows ==
  ASSUME TypeOK, Progress, launch = 1, FirstInv, Next, launch' = 1, NEW c
  PROVE  Measured(c) \subseteq Measured(c)'
<1>0. TypeOK /\ Slots' = Slots
  BY DEF Slots, CellIndex, Matrix, Attempts, Next, diskVars, StopBeforeCell, EffectGateStops,
         PreGateSkips, StartCell, RunAttempt, WriteVerdict, AllCellsDone, Abort, Crash, Relaunch
<1>1. ASSUME \A s \in Slots : verdict[s] = "PASS" => verdict'[s] = "PASS" /\ judged'[s] = judged[s]
      PROVE  Measured(c) \subseteq Measured(c)'
  BY <1>0, <1>1 DEF Measured
<1>2. CASE RunAttempt
  <2>1. /\ idx \in CellIndex /\ attempt \in Attempts /\ pc = "attempt" /\ verdict' = verdict
        /\ judged' \in {[judged EXCEPT ![<<idx, attempt>>] = f] :
                          f \in {target'[<<idx, attempt>>], NoFile}}
    BY <1>2 DEF RunAttempt, Progress, Live, TypeOK
  <2>2. verdict[<<idx, attempt>>] = "none"
    BY <2>1 DEF FirstInv, Untouched, Ahead, Live
  <2>3. \A s \in Slots : s # <<idx, attempt>> => judged'[s] = judged[s]
    BY <2>1 DEF TypeOK
  <2> QED BY <1>1, <2>1, <2>2, <2>3
<1>3. CASE WriteVerdict
  <2>1. /\ idx \in CellIndex /\ attempt \in Attempts /\ pc = "verdict" /\ judged' = judged
        /\ \E v \in campaign.outcomes : verdict' = [verdict EXCEPT ![<<idx, attempt>>] = v]
    BY <1>3 DEF WriteVerdict, Progress, Live, TypeOK
  <2>2. verdict[<<idx, attempt>>] = "none"
    BY <2>1 DEF FirstInv, Untouched, Live
  <2>3. \A s \in Slots : s # <<idx, attempt>> => verdict'[s] = verdict[s]
    BY <2>1 DEF TypeOK
  <2> QED BY <1>1, <2>1, <2>2, <2>3
<1>4. CASE UNCHANGED diskVars
  BY <1>1, <1>4 DEF diskVars
<1> QED
  BY <1>2, <1>3, <1>4 DEF Next, StopBeforeCell, EffectGateStops, PreGateSkips, StartCell,
     AllCellsDone, Abort, Crash, Relaunch

\* A cell that runs, or has run, in a first launch.
Entered(c) == cellsDone[c] \in CellClasses \/ (c = idx /\ pc \in {"attempt", "verdict"})

\* A cell is entered through its gates.
LEMMA EnteredThroughGates ==
  ASSUME TypeOK, Progress, Next, NEW c \in CellIndex, Entered(c)'
  PROVE  \/ Entered(c)
         \/ /\ c = idx
            /\ GateStatus(Matrix[c].preGate) = "PASS" /\ GateStatus(Matrix[c].effectGate) = "PASS"
<1>0. "none" \notin CellClasses /\ "SKIPPED" \notin CellClasses /\ "NOT_RUN" \notin CellClasses
  BY DEF CellClasses
<1>1. CASE StartCell
  BY <1>1 DEF StartCell, Entered
<1>2. CASE PreGateSkips \/ EffectGateStops
  <2>1. pc' \notin {"attempt", "verdict"} /\ \E st \in {"NOT_RUN", "SKIPPED"} : Record(st)
    BY <1>2 DEF PreGateSkips, EffectGateStops, EndWith
  <2>2. cellsDone'[c] = cellsDone[c] \/ cellsDone'[c] \notin CellClasses
    BY <1>0, <2>1 DEF Record, TypeOK
  <2> QED BY <2>1, <2>2 DEF Entered
<1>3. CASE RunAttempt
  BY <1>3 DEF RunAttempt, Entered
<1>4. CASE WriteVerdict
  <2>1. pc = "verdict"
    BY <1>4 DEF WriteVerdict
  <2>2. PICK v : UNCHANGED <<idx, cellsDone>> \/ CellDone(v)
    BY <1>4 DEF WriteVerdict
  <2>3. CASE UNCHANGED <<idx, cellsDone>>
    BY <2>1, <2>3 DEF Entered
  <2>4. CASE CellDone(v)
    <3>1. pc' \in {"cell", "ended"} /\ (c # idx => cellsDone'[c] = cellsDone[c])
      BY <2>4 DEF CellDone, EndWith, Record, TypeOK
    <3> QED BY <2>1, <3>1 DEF Entered
  <2> QED BY <2>2, <2>3, <2>4
<1>5. CASE StopBeforeCell \/ AllCellsDone \/ Abort \/ Crash
  BY <1>5 DEF StopBeforeCell, AllCellsDone, Abort, Crash, EndWith, Entered
<1>6. CASE Relaunch
  <2>1. cellsDone'[c] = "none" /\ pc' = "cell"
    BY <1>6 DEF Relaunch
  <2> QED BY <1>0, <2>1 DEF Entered
<1> QED
  BY <1>1, <1>2, <1>3, <1>4, <1>5, <1>6 DEF Next

\* A first launch runs a cell behind a gate only on what was measured, and what
\* was measured stays.
THEOREM GatedCellsAreFounded == Spec => []GatedCellIsFounded
<1>1. Init => GatedCellIsFounded
  <2>1. "none" \notin CellClasses
    BY DEF CellClasses
  <2> QED BY <2>1 DEF Init, GatedCellIsFounded
<1>2. LaunchInv /\ FirstInv /\ GatedCellIsFounded /\ [Next]_vars => GatedCellIsFounded'
  <2> SUFFICES ASSUME LaunchInv, FirstInv, GatedCellIsFounded, [Next]_vars, launch' = 1,
                      NEW c \in CellIndex', Entered(c)'
      PROVE  Founded(Matrix[c].preGate)' /\ Founded(Matrix[c].effectGate)'
    BY DEF GatedCellIsFounded, Entered
  <2>0. TypeOK /\ Progress /\ launch \in Nat \ {0}
    BY CampaignShape DEF LaunchInv, TypeOK
  <2>1. CASE UNCHANGED vars
    BY <2>1 DEF vars, runVars, diskVars, GatedCellIsFounded, Entered, Founded, Measured,
                Slots, CellIndex, Matrix, Attempts
  <2>2. CASE Next
    <3>1. ~Relaunch
      BY <2>0 DEF Relaunch
    <3>2. launch = 1 /\ Matrix' = Matrix /\ CellIndex' = CellIndex
      BY <2>2, <3>1 DEF Next, StopBeforeCell, EffectGateStops, PreGateSkips, StartCell,
         RunAttempt, WriteVerdict, AllCellsDone, Abort, Crash, Matrix, CellIndex
    <3>3. Founded(Matrix[c].preGate) /\ Founded(Matrix[c].effectGate)
      <4>1. CASE Entered(c)
        BY <3>2, <4>1 DEF GatedCellIsFounded, Entered
      <4>2. CASE GateStatus(Matrix[c].preGate) = "PASS" /\ GateStatus(Matrix[c].effectGate) = "PASS"
        <5>1. Matrix[c].preGate \in Gates /\ Matrix[c].effectGate \in Gates
          <6>1. Matrix[c] \in Cells
            <7>1. Matrix \in Seq(Cells) /\ c \in 1..Len(Matrix)
              BY <2>0, <3>2, CampaignShape
            <7> QED BY <7>1
          <6> QED BY <6>1 DEF Cells
        <5> QED BY <2>0, <3>2, <4>2, <5>1, PassedGateIsFounded DEF FirstInv
      <4> QED BY <2>0, <2>2, <3>2, <4>1, <4>2, EnteredThroughGates
    <3>4. \A d : Measured(d) \subseteq Measured(d)'
      BY <2>0, <2>2, <3>2, MeasuredGrows
    <3>5. Founded(Matrix[c].preGate)' /\ Founded(Matrix[c].effectGate)'
      <4> DEFINE g == Matrix[c].preGate
                 h == Matrix[c].effectGate
      <4>1. g' = g /\ h' = h
        BY <3>2
      <4> QED BY <3>3, <3>4, <4>1 DEF Founded
    <3> QED BY <3>5
  <2> QED BY <2>1, <2>2
<1> QED
  BY <1>1, <1>2, FirstLaunchInvariant, PTL DEF Spec
=============================================================================
