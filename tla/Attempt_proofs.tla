--------------------------- MODULE Attempt_proofs ---------------------------
(***************************************************************************)
(* Theorems about Attempt, for any set of cells, any classes a log may be  *)
(* sorted into and any size of a short prompt: no numbers of a server that *)
(* died, a documented wall is the answer, a contract is violated only by   *)
(* facts, and a PASS under a contract that asks for the server's count is  *)
(* earned.                                                                 *)
(***************************************************************************)
EXTENDS Attempt, FiniteSetTheorems, TLAPS

-----------------------------------------------------------------------------
(* The invariant.                                                          *)

\* The cell, and what the later parts need of the types.
Typed ==
  /\ cell \in Cells
  /\ pc \in {"launch", "ready", "client", "result", "pull", "evaluate",
             "decide", "done"}
  /\ sent \in [Requests -> Nat] /\ served \in [Requests -> Nat]
  /\ failLog \in Classes \cup {"none", "silent"}
  /\ died \in Classes \cup {"none", "silent"}

\* What one segment knows of itself: where the attempt is, and that what the
\* runner holds is the result of that segment or of none.
Alone ==
  /\ seg \in {1, 2}
  /\ pc \in {"launch", "ready", "client", "result"} => seg = 1 /\ ~client.present
  /\ pulled \subseteq {1}
  /\ file.present => file.requests = cell.plan[1]
  /\ client.present => client.requests = cell.plan[1]
  /\ ~client.present => client = NoResult
  /\ client.present \/ pc \in {"client", "result"} => booted # {}
  /\ died # "none" => /\ failLog = died /\ ~client.present
                      /\ pc \in {"pull", "evaluate", "decide", "done"}

\* The status is that of the reports as they still stand.
Evaluated ==
  IF pc \in {"decide", "done"}
  THEN status = IF cell.engine
                THEN Evaluate(cell.requests, Rows, ServerLog, cell.require) ELSE "none"
  ELSE status = "none"

\* The verdict is that of the evidence as it still stands, whatever the gates said.
Judged ==
  pc = "done" => \E wallOk, gatesOk, quick \in BOOLEAN :
    verdict = Decide([client |-> client, status |-> status,
                      logClass |-> IF failLog = "silent" THEN "none" ELSE failLog,
                      documented |-> cell.documented,
                      wallOk |-> wallOk, gatesOk |-> gatesOk, quick |-> quick])

\* The inductive invariant.
IInv ==
  /\ Typed
  /\ Len(cell.plan) = 1 => Alone
  /\ Evaluated
  /\ Judged
-----------------------------------------------------------------------------
(* Operators of the model.                                                 *)

\* The result of the only segment has the requests of that segment.
LEMMA OneSegment ==
  ASSUME NEW who, NEW valid, NEW class,
         cell \in Cells, Len(cell.plan) = 1, 1 \in who
  PROVE  ResultOf(who, valid, class) =
           [present |-> TRUE, valid |-> valid, class |-> class, requests |-> cell.plan[1]]
<1> DEFINE Body(f) == [s \in 0..Len(cell.plan) |->
                         IF s = 0 THEN <<>> ELSE f[s - 1] \o (IF s \in who THEN cell.plan[s] ELSE <<>>)]
           upto == CHOOSE f : f = Body(f)
           w == [s \in 0..1 |-> IF s = 0 THEN <<>> ELSE cell.plan[1]]
<1>1. cell.plan[1] \in Seq(Nat)
  BY CellsAssumption DEF CellType
<1>2. <<>> \o cell.plan[1] = cell.plan[1]
  BY <1>1
<1>3. w = Body(w)
  <2>1. DOMAIN w = 0..1 /\ DOMAIN Body(w) = 0..1
    OBVIOUS
  <2>2. w[0] = Body(w)[0]
    OBVIOUS
  <2>3. w[1] = Body(w)[1]
    <3>1. ASSUME NEW f PROVE Body(f)[1] = f[0] \o cell.plan[1]
      <4>1. 1 \in 0..Len(cell.plan) /\ 1 - 1 = 0 /\ 1 # 0
        OBVIOUS
      <4>2. Body(f)[1] = f[1 - 1] \o cell.plan[1]
        BY <4>1, Zenon
      <4> QED BY <4>1, <4>2
    <3>2. w[0] = <<>> /\ w[1] = cell.plan[1]
      OBVIOUS
    <3>3. Body(w)[1] = w[0] \o cell.plan[1]
      BY <3>1
    <3> HIDE DEF w, Body
    <3> QED BY <3>3, <3>2, <1>2
  <2>4. w = [s \in 0..1 |-> w[s]]
    OBVIOUS
  <2>5. Body(w) = [s \in 0..1 |-> Body(w)[s]]
    OBVIOUS
  <2> HIDE DEF w, Body
  <2>6. \A s \in 0..1 : w[s] = Body(w)[s]
    BY <2>2, <2>3
  <2> QED BY <2>4, <2>5, <2>6
<1> HIDE DEF w
<1>4. upto = Body(upto)
  BY <1>3
<1>5. ResultOf(who, valid, class).requests = upto[Len(cell.plan)]
  BY DEF ResultOf
<1> HIDE DEF upto
<1>6. upto[1] = cell.plan[1]
  <2>1. upto[0] = <<>>
    BY <1>4
  <2>2. upto[1] = upto[0] \o cell.plan[1]
    BY <1>4
  <2> QED BY <2>1, <2>2, <1>2
<1> QED
  BY <1>5, <1>6 DEF ResultOf

\* When every request declares its size and the rows repeat it or say nothing,
\* the sizes declared are those of the requests, each in its place.
LEMMA AllDeclared ==
  ASSUME NEW requests \in Seq(Nat), NEW rows, Len(rows) \in Nat,
         Len(rows) <= Len(requests),
         \A i \in 1..Len(rows) : rows[i].declared \in {requests[i], Absent}
  PROVE  Declared(requests, rows) = requests
<1> DEFINE n == IF Len(rows) > Len(requests) THEN Len(rows) ELSE Len(requests)
           size(i) == IF i <= Len(rows) /\ rows[i].declared # Absent THEN rows[i].declared
                      ELSE IF i <= Len(requests) THEN requests[i] ELSE Absent
           upto(i) == {j \in 1..i : size(j) # Absent}
<1>1. n = Len(requests) /\ n \in Nat
  OBVIOUS
<1>2. \A i \in 1..n : size(i) = requests[i] /\ size(i) # Absent
  BY <1>1 DEF Absent
<1>3. Declared(requests, rows) =
        [k \in 1..Cardinality(upto(n)) |-> size(CHOOSE i \in upto(n) : Cardinality(upto(i)) = k)]
  BY DEF Declared
<1> HIDE DEF n, size
<1>4. \A i \in 0..n : upto(i) = 1..i
  BY <1>1, <1>2
<1>5. \A i \in 0..n : Cardinality(upto(i)) = i
  <2> SUFFICES ASSUME NEW i \in 0..n PROVE Cardinality(upto(i)) = i
    OBVIOUS
  <2>1. Cardinality(1..i) = i
    BY <1>1, FS_Interval
  <2> QED BY <2>1, <1>4
<1>6. upto(n) = 1..n /\ Cardinality(upto(n)) = n
  BY <1>1, <1>4, <1>5
<1>7. ASSUME NEW k \in 1..n
      PROVE  (CHOOSE i \in upto(n) : Cardinality(upto(i)) = k) = k
  <2> DEFINE c == CHOOSE i \in upto(n) : Cardinality(upto(i)) = k
  <2>1. k \in upto(n) /\ Cardinality(upto(k)) = k
    BY <1>1, <1>5, <1>6
  <2>2. c \in upto(n) /\ Cardinality(upto(c)) = k
    BY <2>1
  <2> HIDE DEF c, upto
  <2>3. Cardinality(upto(c)) = c
    BY <2>2, <1>1, <1>5, <1>6
  <2> QED BY <2>2, <2>3 DEF c
<1> HIDE DEF upto
<1>8. \A k \in 1..n : size(CHOOSE i \in upto(n) : Cardinality(upto(i)) = k) = requests[k]
  BY <1>2, <1>7
<1>9. Declared(requests, rows) = [k \in 1..n |-> requests[k]]
  BY <1>3, <1>6, <1>8
<1> QED
  BY <1>1, <1>9
-----------------------------------------------------------------------------
(* The invariant is inductive.                                             *)

\* An attempt starts with nothing reported.
LEMMA InitIInv == Init => IInv
<1> SUFFICES ASSUME Init PROVE IInv
  OBVIOUS
<1>1. Typed
  BY DEF Init, Typed, Requests
<1>2. Alone
  BY DEF Init, Alone, NoResult
<1>3. Evaluated /\ Judged
  BY DEF Init, Evaluated, Judged
<1> QED
  BY <1>1, <1>2, <1>3 DEF IInv

\* The cell never changes, and what was sent and served stays a count.
LEMMA TypedStep == Typed /\ [Next]_vars => Typed'
<1> SUFFICES ASSUME Typed, [Next]_vars PROVE Typed'
  OBVIOUS
<1> USE DEF Typed
<1>1. CASE UNCHANGED vars
  BY <1>1 DEF vars, Requests
<1>2. CASE ProbeMissing
  BY <1>2 DEF ProbeMissing, worldVars, Requests, Classes, Oriented
<1>3. CASE Launch
  BY <1>3 DEF Launch, NextSegment, worldVars, Requests, Classes, Oriented
<1>4. CASE WaitReady
  BY <1>4, LogClassesAssumption DEF WaitReady, NextSegment, worldVars, Requests
<1>5. CASE ClientRuns
  <2>1. cell' = cell /\ Requests' = Requests /\ pc' = "result"
        /\ UNCHANGED <<failLog, died>>
    BY <1>5 DEF ClientRuns, Requests
  <2>2. \A i \in Requests : cell.requests[i] = Absent \/ cell.requests[i] \in Nat
    BY CellsAssumption DEF CellType, Requests
  <2>3. PICK out \in [InSegment(seg) -> {"whole", "short", "lost"}] :
          /\ sent' = [i \in Requests |->
                        IF i \notin InSegment(seg) THEN sent[i]
                        ELSE IF out[i] = "short" \/ cell.requests[i] = Absent THEN Short
                        ELSE cell.requests[i]]
          /\ served' = [i \in Requests |->
                          IF i \notin InSegment(seg) THEN served[i]
                          ELSE IF out[i] = "lost" THEN 0 ELSE sent'[i]]
    BY <1>5 DEF ClientRuns
  <2>4. sent' \in [Requests -> Nat]
    <3>1. sent' = [i \in Requests |->
                     IF i \notin InSegment(seg) THEN sent[i]
                     ELSE IF out[i] = "short" \/ cell.requests[i] = Absent THEN Short
                     ELSE cell.requests[i]]
      BY <2>3
    <3> QED BY <3>1, <2>2, ShortAssumption
  <2>5. served' \in [Requests -> Nat]
    <3>1. served' = [i \in Requests |->
                       IF i \notin InSegment(seg) THEN served[i]
                       ELSE IF out[i] = "lost" THEN 0 ELSE sent'[i]]
      BY <2>3
    <3> QED BY <3>1, <2>4
  <2> QED
    BY <2>1, <2>4, <2>5
<1>6. CASE FetchResult
  <2>1. failLog' \in Classes \cup {"none", "silent"}
    BY <1>6, LogClassesAssumption DEF FetchResult, Classes, Oriented
  <2> QED BY <1>6, <2>1 DEF FetchResult, NextSegment, worldVars, Requests
<1>7. CASE PullLogs
  BY <1>7 DEF PullLogs, worldVars, Requests
<1>8. CASE EvaluateContract
  BY <1>8 DEF EvaluateContract, worldVars, Requests
<1>9. CASE DecideVerdict
  BY <1>9 DEF DecideVerdict, worldVars, Requests
<1> QED
  BY <1>1, <1>2, <1>3, <1>4, <1>5, <1>6, <1>7, <1>8, <1>9 DEF Next

\* A cell of one segment never mixes what it reports with anything else.
LEMMA AloneStep ==
  Typed /\ Alone /\ Len(cell.plan) = 1 /\ [Next]_vars => Alone'
<1> SUFFICES ASSUME Typed, Alone, Len(cell.plan) = 1, [Next]_vars PROVE Alone'
  OBVIOUS
<1>0. cell' = cell /\ (seg = 1 => Segments = {1})
  <2>1. cell.plan \in Seq(Seq(Nat))
    BY CellsAssumption DEF Typed, CellType
  <2>2. DOMAIN cell.plan = {1}
    BY <2>1
  <2>3. cell' = cell
    BY DEF Next, vars, ProbeMissing, Launch, WaitReady, ClientRuns, FetchResult,
           PullLogs, EvaluateContract, DecideVerdict
  <2> QED BY <2>2, <2>3 DEF Segments
<1>1. CASE UNCHANGED vars
  BY <1>1 DEF vars, Alone, NoResult
<1>2. CASE ProbeMissing
  BY <1>2 DEF ProbeMissing, worldVars, Alone, NoResult
<1>3. CASE Launch
  BY <1>3 DEF Launch, NextSegment, worldVars, Alone, NoResult
<1>4. CASE WaitReady
  <2>1. /\ seg = 1 /\ pc = "ready" /\ ~client.present /\ died = "none"
        /\ UNCHANGED <<file, client>>
    BY <1>4 DEF WaitReady, worldVars, Alone
  <2>2. CASE pc' = "client" /\ booted' = booted \cup {seg} /\ UNCHANGED <<seg, died, pulled>>
    BY <1>0, <2>1, <2>2 DEF Alone, NoResult
  <2>3. CASE failLog' = died' /\ pulled' \subseteq pulled \cup {seg} /\ NextSegment
             /\ booted' = booted
    <3>1. seg' = 2 /\ pc' = "pull"
      BY <2>1, <2>3 DEF NextSegment
    <3>2. pulled' \subseteq {1}
      BY <2>1, <2>3 DEF Alone
    <3> QED BY <1>0, <2>1, <2>3, <3>1, <3>2 DEF Alone, NoResult
  <2> QED
    BY <1>4, <2>2, <2>3 DEF WaitReady
<1>5. CASE ClientRuns
  <2>1. /\ pc = "client" /\ pc' = "result"
        /\ UNCHANGED <<cell, seg, client, failLog, booted, died, pulled>>
        /\ \/ /\ parts' = parts \cup {seg}
              /\ \E valid \in BOOLEAN, class \in {"none", "LMCACHE_NO_HIT"} :
                   WriteFile(valid, class)
           \/ file' = file
    BY <1>5 DEF ClientRuns
  <2>2. seg = 1
    BY <2>1 DEF Alone
  <2>3. file'.present => file'.requests = cell.plan[1]
    <3>1. CASE file' = file
      BY <3>1 DEF Alone
    <3>2. CASE /\ parts' = parts \cup {seg}
               /\ \E valid \in BOOLEAN, class \in {"none", "LMCACHE_NO_HIT"} :
                    WriteFile(valid, class)
      <4>1. PICK valid \in BOOLEAN, class \in {"none", "LMCACHE_NO_HIT"} :
              WriteFile(valid, class)
        BY <3>2
      <4>2. file' = ResultOf({1}, valid, class)
            \/ file' = ResultOf(parts', valid /\ parts' = Segments, class)
        BY <4>1, <2>2 DEF WriteFile
      <4>3. ResultOf({1}, valid, class).requests = cell.plan[1]
        BY OneSegment DEF Typed
      <4>4. 1 \in parts'
        BY <3>2, <2>2
      <4>5. ASSUME NEW who, 1 \in who, NEW v
            PROVE  ResultOf(who, v, class).requests = cell.plan[1]
        BY <4>5, OneSegment DEF Typed
      <4>6. ResultOf(parts', valid /\ parts' = Segments, class).requests = cell.plan[1]
        BY <4>4, <4>5
      <4> QED BY <4>2, <4>3, <4>6
    <3> QED BY <2>1, <3>1, <3>2
  <2> QED
    BY <1>0, <2>1, <2>2, <2>3 DEF Alone, NoResult
<1>6. CASE FetchResult
  <2>1. seg = 1 /\ pc = "result" /\ seg' = 2 /\ pc' = "pull" /\ died = "none"
    BY <1>6 DEF FetchResult, NextSegment, Alone
  <2>2. UNCHANGED <<file, booted, died>> /\ pulled' \subseteq {1}
    BY <1>6, <2>1 DEF FetchResult, worldVars, Alone
  <2>3. client' = client \/ (client' = file /\ file.present)
    BY <1>6 DEF FetchResult
  <2> QED
    BY <1>0, <2>1, <2>2, <2>3 DEF Alone, NoResult
<1>7. CASE PullLogs
  <2>1. pulled' \subseteq {1}
    <3>1. PICK more \in SUBSET (1..(seg - 1)) : pulled' = pulled \cup more
      BY <1>7 DEF PullLogs
    <3> QED BY <3>1 DEF Alone
  <2> QED BY <1>7, <2>1 DEF PullLogs, worldVars, Alone, NoResult
<1>8. CASE EvaluateContract
  BY <1>8 DEF EvaluateContract, worldVars, Alone, NoResult
<1>9. CASE DecideVerdict
  BY <1>9 DEF DecideVerdict, worldVars, Alone, NoResult
<1> QED
  BY <1>1, <1>2, <1>3, <1>4, <1>5, <1>6, <1>7, <1>8, <1>9 DEF Next

\* The contract and the evidence are those of the reports, which no longer change.
LEMMA ReportsStand ==
  UNCHANGED <<cell, client, sent, served, pulled>>
    => Rows' = Rows /\ ServerLog' = ServerLog
BY DEF Rows, Row, ServerLog, InSegment

\* Nothing the contract was evaluated on changes afterwards.
LEMMA EvaluatedStep == Evaluated /\ [Next]_vars => Evaluated'
<1> SUFFICES ASSUME Evaluated, [Next]_vars PROVE Evaluated'
  OBVIOUS
<1>1. CASE pc' \in {"decide", "done"}
  <2>1. CASE UNCHANGED vars
    BY <1>1, <2>1, ReportsStand DEF vars, Evaluated
  <2>2. CASE EvaluateContract
    <3>1. UNCHANGED <<cell, client, sent, served, pulled>> /\ pc' = "decide"
      BY <2>2 DEF EvaluateContract, worldVars
    <3>2. status' = IF cell.engine
                    THEN Evaluate(cell.requests, Rows, ServerLog, cell.require) ELSE "none"
      BY <2>2 DEF EvaluateContract
    <3> QED BY <3>1, <3>2, ReportsStand DEF Evaluated
  <2>3. CASE DecideVerdict
    <3>1. UNCHANGED <<cell, client, sent, served, pulled, status>> /\ pc = "decide" /\ pc' = "done"
      BY <2>3 DEF DecideVerdict, worldVars
    <3> QED BY <3>1, ReportsStand DEF Evaluated
  <2>4. CASE ProbeMissing \/ Launch \/ WaitReady \/ ClientRuns \/ FetchResult \/ PullLogs
    <3>1. pc' \notin {"decide", "done"}
      BY <2>4 DEF ProbeMissing, Launch, WaitReady, ClientRuns, FetchResult, PullLogs, NextSegment
    <3> QED BY <1>1, <3>1
  <2> QED BY <2>1, <2>2, <2>3, <2>4 DEF Next
<1>2. CASE pc' \notin {"decide", "done"}
  <2>1. status' = status /\ pc \notin {"decide", "done"}
    BY <1>2 DEF Next, vars, judgeVars, ProbeMissing, Launch, WaitReady, ClientRuns,
            FetchResult, PullLogs, EvaluateContract, DecideVerdict
  <2> QED BY <1>2, <2>1 DEF Evaluated
<1> QED
  BY <1>1, <1>2

\* The verdict is decided once, on evidence that stands.
LEMMA JudgedStep == Judged /\ [Next]_vars => Judged'
<1> SUFFICES ASSUME Judged, [Next]_vars, pc' = "done" PROVE Judged'
  BY DEF Judged
<1>1. CASE UNCHANGED vars
  BY <1>1 DEF vars, Judged
<1>2. CASE DecideVerdict
  <2>1. UNCHANGED <<cell, client, failLog, status>>
    BY <1>2 DEF DecideVerdict
  <2>2. PICK wallOk, gatesOk, quick \in BOOLEAN :
          verdict' = Decide([client |-> client, status |-> status,
                             logClass |-> IF failLog = "silent" THEN "none" ELSE failLog,
                             documented |-> cell.documented,
                             wallOk |-> wallOk, gatesOk |-> gatesOk, quick |-> quick])
    BY <1>2 DEF DecideVerdict
  <2> QED BY <2>1, <2>2 DEF Judged
<1>3. ~(ProbeMissing \/ Launch \/ WaitReady \/ ClientRuns \/ FetchResult \/ PullLogs
          \/ EvaluateContract)
  BY DEF ProbeMissing, Launch, WaitReady, ClientRuns, FetchResult, PullLogs,
         EvaluateContract, NextSegment
<1> QED
  BY <1>1, <1>2, <1>3 DEF Next

\* The invariant holds of every attempt.
THEOREM AttemptInvariant == Spec => []IInv
<1>1. IInv /\ [Next]_vars => IInv'
  <2> SUFFICES ASSUME IInv, [Next]_vars PROVE IInv'
    OBVIOUS
  <2>1. cell' = cell
    BY DEF Next, vars, ProbeMissing, Launch, WaitReady, ClientRuns, FetchResult,
           PullLogs, EvaluateContract, DecideVerdict
  <2>2. Typed' /\ Evaluated' /\ Judged'
    BY TypedStep, EvaluatedStep, JudgedStep DEF IInv
  <2>3. Len(cell.plan) = 1 => Alone'
    BY AloneStep DEF IInv
  <2> QED BY <2>1, <2>2, <2>3 DEF IInv
<1> QED
  BY InitIInv, <1>1, PTL DEF Spec
-----------------------------------------------------------------------------
(* What a verdict says of the boot.                                        *)

\* A PASS was measured, and nothing in its contract was contradicted or missing.
LEMMA PassNeeds ==
  ASSUME NEW e, Decide(e) = "PASS", e.logClass \in Classes \cup {"none"},
         ~e.client.present => e.client.class = "none"
  PROVE  e.client.present /\ e.status \notin {"VIOLATED", "UNVERIFIABLE"}
<1>1. ASSUME NEW class \in Classes PROVE ClassToVerdict(class) # "PASS"
  BY <1>1 DEF ClassToVerdict, Classes, Defects, Limits, Hosts, Oriented
<1> QED
  BY <1>1 DEF Decide, ClassOf

\* Numbers that do not add up were measured.
LEMMA AnomalyNeeds ==
  ASSUME NEW e, Decide(e) = "PLAUSIBILITY_ANOMALY", e.logClass \in Classes \cup {"none"},
         ~e.client.present => e.client.class = "none"
  PROVE  e.client.present
<1>1. ASSUME NEW class \in Classes PROVE ClassToVerdict(class) # "PLAUSIBILITY_ANOMALY"
  BY <1>1 DEF ClassToVerdict, Classes, Defects, Limits, Hosts, Oriented
<1> QED
  BY <1>1 DEF Decide, ClassOf

\* The evidence of a verdict that was reached.
LEMMA DoneHasEvidence ==
  ASSUME IInv, Done
  PROVE  \E e : /\ verdict = Decide(e)
                /\ e.client = client /\ e.status = status
                /\ e.documented = cell.documented
                /\ e.logClass = IF failLog = "silent" THEN "none" ELSE failLog
                /\ e.logClass \in Classes \cup {"none"}
<1>1. PICK wallOk, gatesOk, quick \in BOOLEAN :
        verdict = Decide([client |-> client, status |-> status,
                          logClass |-> IF failLog = "silent" THEN "none" ELSE failLog,
                          documented |-> cell.documented,
                          wallOk |-> wallOk, gatesOk |-> gatesOk, quick |-> quick])
  BY DEF IInv, Judged, Done
<1> DEFINE e == [client |-> client, status |-> status,
                 logClass |-> IF failLog = "silent" THEN "none" ELSE failLog,
                 documented |-> cell.documented,
                 wallOk |-> wallOk, gatesOk |-> gatesOk, quick |-> quick]
<1>2. e.logClass = (IF failLog = "silent" THEN "none" ELSE failLog)
      /\ e.client = client /\ e.status = status /\ e.documented = cell.documented
  OBVIOUS
<1>3. (IF failLog = "silent" THEN "none" ELSE failLog) \in Classes \cup {"none"}
  BY DEF IInv, Typed
<1>4. verdict = Decide(e)
  BY <1>1
<1> HIDE DEF e
<1> QED
  BY <1>2, <1>3, <1>4

\* A server that died is never measured, whatever the cell and the gates.
THEOREM DeadServersHaveNoNumbers == Spec => []DeadServerHasNoNumbers
<1>1. IInv => DeadServerHasNoNumbers
  <2> SUFFICES ASSUME IInv, Done, Len(cell.plan) = 1, booted = {}
               PROVE  verdict \notin {"PASS", "PLAUSIBILITY_ANOMALY"}
    BY DEF DeadServerHasNoNumbers
  <2>1. ~client.present /\ client.class = "none"
    BY DEF IInv, Alone, NoResult
  <2>2. PICK e : /\ verdict = Decide(e) /\ e.client = client
                 /\ e.logClass \in Classes \cup {"none"}
    BY DoneHasEvidence
  <2> QED
    BY <2>1, <2>2, PassNeeds, AnomalyNeeds
<1> QED
  BY <1>1, AttemptInvariant, PTL

\* A death at load that the cell documents is its answer.
THEOREM WallsAreAnswers == Spec => []WallIsAnswer
<1>1. IInv => WallIsAnswer
  <2> SUFFICES ASSUME IInv, Done, ~cell.engine, Len(cell.plan) = 1, died \in cell.documented
               PROVE  verdict = "EXPECTED_NEGATIVE"
    BY DEF WallIsAnswer
  <2>1. died \in Classes
    BY CellsAssumption DEF IInv, Typed, CellType
  <2>2. died \notin {"none", "silent"}
    BY <2>1 DEF Classes, Oriented, Limits, Hosts, Defects
  <2>3. failLog = died /\ ~client.present
    BY <2>2 DEF IInv, Alone
  <2>4. status = "none"
    BY DEF IInv, Evaluated, Done
  <2>5. PICK e : /\ verdict = Decide(e)
                 /\ e.client = client /\ e.status = status
                 /\ e.documented = cell.documented
                 /\ e.logClass = IF failLog = "silent" THEN "none" ELSE failLog
    BY DoneHasEvidence
  <2>6. e.logClass = died
    BY <2>2, <2>3, <2>5
  <2> QED
    BY <2>2, <2>3, <2>4, <2>5, <2>6 DEF Decide, ClassOf
<1> QED
  BY <1>1, AttemptInvariant, PTL
-----------------------------------------------------------------------------
(* What a contract says of the requests.                                   *)

\* The rows of a cell that can be told by position: none, or one per request,
\* each about its own.
LEMMA RowsInPlace ==
  ASSUME IInv, Positional
  PROVE  /\ cell.requests \in Seq(Nat)
         /\ Requests = 1..Len(cell.requests)
         /\ client.present => Len(Rows) = Len(cell.requests)
         /\ ~client.present => Rows = <<>>
         /\ \A i \in DOMAIN Rows : i \in Requests /\ Rows[i] = Row(i)
         /\ Declared(cell.requests, Rows) = cell.requests
<1>1. cell.requests \in Seq(Nat)
  <2>1. cell.requests \in Seq(Nat \cup {Absent})
    BY CellsAssumption DEF IInv, Typed, CellType
  <2>2. \A i \in 1..Len(cell.requests) : cell.requests[i] \in Nat
    BY <2>1 DEF Positional, Requests
  <2> QED BY <2>1, <2>2
<1>2. Requests = 1..Len(cell.requests) /\ Len(cell.requests) \in Nat
  BY <1>1 DEF Requests
<1>3. CASE client.present
  <2>1. client.requests = [i \in Requests |-> i]
    BY <1>3 DEF IInv, Alone, Positional
  <2>2. Rows = [k \in Requests |-> Row(k)]
    BY <2>1 DEF Rows
  <2>3. Len(Rows) = Len(cell.requests) /\ DOMAIN Rows = Requests
    BY <1>2, <2>2
  <2>4. \A i \in Requests : Rows[i] = Row(i)
    BY <2>2
  <2>5. \A i \in 1..Len(Rows) : Rows[i].declared \in {cell.requests[i], Absent}
    <3>1. \A i \in Requests : Row(i).declared \in {cell.requests[i], Absent}
      BY DEF Row
    <3>2. 1..Len(Rows) = Requests
      BY <1>2, <2>3
    <3> QED BY <2>4, <3>1, <3>2
  <2>6. Declared(cell.requests, Rows) = cell.requests
    BY <1>1, <1>2, <2>3, <2>5, AllDeclared
  <2> QED BY <1>1, <1>2, <1>3, <2>3, <2>4, <2>6
<1>4. CASE ~client.present
  <2>1. client.requests = <<>>
    BY <1>4 DEF IInv, Alone, Positional, NoResult
  <2>2. Rows = <<>>
    BY <2>1 DEF Rows
  <2>3. Len(Rows) = 0 /\ DOMAIN Rows = {}
    BY <2>2
  <2>4. Declared(cell.requests, Rows) = cell.requests
    BY <1>1, <1>2, <2>3, AllDeclared
  <2> QED BY <1>1, <1>2, <1>4, <2>2, <2>3, <2>4
<1> QED
  BY <1>3, <1>4

\* Each row is held to the size of its request.
LEMMA HeldToItsRequest ==
  ASSUME IInv, Positional, NEW i \in DOMAIN Rows
  PROVE  /\ HeldTo(cell.requests, Rows, i) = cell.requests[i]
         /\ i \in Compared(cell.requests, Rows)
<1>1. i \in Requests /\ Rows[i] = Row(i) /\ Requests = 1..Len(cell.requests)
  BY RowsInPlace
<1>2. Row(i).declared \in {cell.requests[i], Absent}
  BY DEF Row
<1>3. HeldTo(cell.requests, Rows, i) = cell.requests[i]
  BY <1>1, <1>2, RowsInPlace DEF HeldTo
<1>4. cell.requests[i] # Absent
  BY <1>1 DEF Positional
<1> QED
  BY <1>3, <1>4 DEF Compared

\* What is observed of a request is the size it was sent or processed at.
LEMMA ObservedIsReal ==
  ASSUME NEW i, NEW v \in Observed(Row(i))
  PROVE  v \in {sent[i], served[i]}
BY DEF Observed, FromServer, Row

\* A violated contract names a request that was not as declared.
LEMMA ViolationHolds == IInv => ViolationIsFact
<1> SUFFICES ASSUME IInv, status = "VIOLATED", Positional
             PROVE  \E i \in Requests : \/ served[i] = 0 \/ ~AsDeclared(i)
                                        \/ Beyond(sent[i], cell.requests[i])
  BY DEF ViolationIsFact
<1>1. Evaluate(cell.requests, Rows, ServerLog, cell.require) = "VIOLATED"
  BY DEF IInv, Evaluated
<1>2. Declared(cell.requests, Rows) = cell.requests
  BY RowsInPlace
<1>3. /\ cell.requests # <<>>
      /\ \/ Contradicted(cell.requests, Rows, ServerLog)
         \/ ServerLog.pulled /\ ~ServerLog.seen
  BY <1>1, <1>2 DEF Evaluate
<1>4. ASSUME NEW i \in Compared(cell.requests, Rows), NEW v \in Observed(Rows[i]),
             Beyond(v, HeldTo(cell.requests, Rows, i))
      PROVE  \E j \in Requests : ~AsDeclared(j) \/ Beyond(sent[j], cell.requests[j])
  <2>1. i \in DOMAIN Rows
    BY DEF Compared
  <2>2. i \in Requests /\ Rows[i] = Row(i)
    BY <2>1, RowsInPlace
  <2>3. Beyond(v, cell.requests[i])
    BY <1>4, <2>1, HeldToItsRequest
  <2>4. v \in {sent[i], served[i]}
    BY <2>2, ObservedIsReal
  <2>5. cell.requests[i] # Absent
    BY <2>2 DEF Positional
  <2> QED
    BY <2>2, <2>3, <2>4, <2>5 DEF AsDeclared
<1>5. ASSUME NEW c \in ServerLog.counts,
             \A i \in DOMAIN cell.requests : Beyond(c, cell.requests[i])
      PROVE  \E j \in Requests : ~AsDeclared(j)
  <2>1. PICK j \in UNION {InSegment(s) : s \in pulled} : c = served[j]
    BY DEF ServerLog
  <2>2. j \in Requests
    <3>1. PICK s \in pulled : j \in InSegment(s)
      BY <2>1
    <3>2. s = 1
      BY <3>1 DEF IInv, Alone, Positional
    <3> QED BY <3>1, <3>2 DEF InSegment, Positional
  <2>3. Beyond(served[j], cell.requests[j])
    BY <1>5, <2>1, <2>2 DEF Requests
  <2> QED
    BY <2>2, <2>3 DEF AsDeclared, Positional
<1>6. CASE Contradicted(cell.requests, Rows, ServerLog)
  <2>1. \/ \E i \in Compared(cell.requests, Rows) : \E v \in Observed(Rows[i]) :
             Beyond(v, HeldTo(cell.requests, Rows, i))
        \/ \E c \in ServerLog.counts : \A i \in DOMAIN cell.requests :
             Beyond(c, cell.requests[i])
    BY <1>2, <1>6 DEF Contradicted
  <2> QED BY <1>4, <1>5, <2>1
<1>7. CASE ServerLog.pulled /\ ~ServerLog.seen
  <2>1. pulled # {} /\ {i \in UNION {InSegment(s) : s \in pulled} : served[i] > 0} = {}
    BY <1>7 DEF ServerLog
  <2>2. 1 \in pulled
    BY <2>1 DEF IInv, Alone, Positional
  <2>3. PICK i \in Requests : TRUE
    <3>1. cell.requests \in Seq(Nat) /\ Requests = 1..Len(cell.requests)
      BY RowsInPlace
    <3>2. 1 \in Requests
      BY <1>3, <3>1
    <3> QED BY <3>2
  <2>4. i \in InSegment(1)
    BY <2>3 DEF InSegment, Positional
  <2>5. served[i] \in Nat /\ ~(served[i] > 0)
    BY <2>1, <2>2, <2>3, <2>4 DEF IInv, Typed
  <2> QED BY <2>3, <2>5
<1> QED
  BY <1>3, <1>6, <1>7

\* A contract is found violated only where the workload was not as declared.
THEOREM ViolationsAreFacts == Spec => []ViolationIsFact
BY ViolationHolds, AttemptInvariant, PTL

\* A PASS saw the usage of every request, or a count in the log in its place.
LEMMA PassHolds == IInv => PassIsEarned
<1> SUFFICES ASSUME IInv, Done, verdict = "PASS", cell.engine, Positional, cell.usage,
                    "server_prompt_tokens" \in cell.require,
                    NEW i \in Requests, ~AsDeclared(i)
             PROVE  served[i] = 0 /\ cell.counts
  BY DEF PassIsEarned
<1>1. client.present /\ status \notin {"VIOLATED", "UNVERIFIABLE"}
  <2>1. PICK e : /\ verdict = Decide(e)
                 /\ e.client = client /\ e.status = status
                 /\ e.logClass \in Classes \cup {"none"}
    BY DoneHasEvidence
  <2>2. ~client.present => client.class = "none"
    BY DEF IInv, Alone, Positional, NoResult
  <2> QED BY <2>1, <2>2, PassNeeds
<1>2. status = Evaluate(cell.requests, Rows, ServerLog, cell.require)
  BY DEF IInv, Evaluated, Done
<1>3. Declared(cell.requests, Rows) # <<>>
  BY RowsInPlace
<1>4. /\ ~Contradicted(cell.requests, Rows, ServerLog)
      /\ ServerCounted(cell.requests, Rows, ServerLog)
  BY <1>1, <1>2, <1>3 DEF Evaluate
<1>5. i \in DOMAIN Rows /\ Rows[i] = Row(i)
  <2>1. Len(Rows) = Len(cell.requests) /\ Requests = 1..Len(cell.requests)
    BY <1>1, RowsInPlace
  <2>2. Rows = [k \in DOMAIN client.requests |-> Row(client.requests[k])]
    BY DEF Rows
  <2>3. client.requests = [k \in Requests |-> k]
    BY <1>1 DEF IInv, Alone, Positional
  <2>4. DOMAIN Rows = Requests
    BY <2>2, <2>3
  <2> QED BY <2>4, RowsInPlace
<1>6. /\ i \in Compared(cell.requests, Rows)
      /\ HeldTo(cell.requests, Rows, i) = cell.requests[i]
  BY <1>5, HeldToItsRequest
<1>7. Beyond(served[i], cell.requests[i])
  BY DEF AsDeclared
<1>8. served[i] = 0
  <2>1. SUFFICES ASSUME served[i] # 0 PROVE FALSE
    OBVIOUS
  <2>2. served[i] \in Nat /\ served[i] > 0 /\ served[i] # Absent
    BY <2>1 DEF IInv, Typed, Absent
  <2>3. served[i] \in Observed(Rows[i])
    BY <1>5, <2>2 DEF Observed, FromServer, Row
  <2> QED
    BY <1>4, <1>6, <1>7, <2>3 DEF Contradicted
<1>9. FromServer(Rows[i]) = {}
  BY <1>5, <1>8 DEF FromServer, Row, Absent
<1>10. ServerLog.counts # {}
  BY <1>4, <1>6, <1>9 DEF ServerCounted
<1> QED
  BY <1>8, <1>10 DEF ServerLog

\* A PASS under a contract that asks for the server's count is earned.
THEOREM PassesAreEarned == Spec => []PassIsEarned
BY PassHolds, AttemptInvariant, PTL
=============================================================================
