------------------------------- MODULE Attempt -------------------------------
(***************************************************************************)
(* One attempt of a cell: Runner._run_attempt (src/benchmarks/runner.py)   *)
(* boots the cell's server once per segment, runs the client against it,   *)
(* pulls the logs, evaluates the workload contract and decides.            *)
(*                                                                         *)
(* What really happened is in `sent' and `served', which the code never    *)
(* sees: it sees what the client and the server's log report of them.      *)
(* Reports are honest; they may be missing, and they may be about less     *)
(* than the cell declared.                                                 *)
(***************************************************************************)
EXTENDS Evidence, Verdict

CONSTANTS Cells,        \* the cells considered
          LogClasses,   \* what the log of a failed server may be sorted into
          Short         \* the size of a prompt that was cut short

VARIABLES cell,     \* the cell under test, fixed
          pc, seg,  \* where the attempt is, and in which segment
          sent,     \* the size of each request as the client sent it
          served,   \* the size of each request as the engine processed it
          parts,    \* the segments whose client ran to its end
          file,     \* client.json on the target
          client,   \* client_data of the runner
          failLog,  \* fail_log of the runner, by its class
          booted,   \* the segments whose server became ready
          died,     \* the class of a server that never became ready
          pulled,   \* the segments whose server log was pulled
          status, verdict

vars == <<cell, pc, seg, sent, served, parts, file, client, failLog, booted,
          died, pulled, status, verdict>>

(***************************************************************************)
(* A cell declares the prompt size of each request and the requests each   *)
(* segment sends.  Its client may write client.json in every segment or    *)
(* merge the segments in the last (clients/verify-lmcache.py), and may or  *)
(* may not repeat the declared size, count what it encoded, or transcribe  *)
(* the server's usage; its engine may log token counts.                    *)
(***************************************************************************)
CellType == [requests : Seq(Nat \cup {Absent}), plan : Seq(Seq(Nat)),
             engine : BOOLEAN, probe : BOOLEAN, merges : BOOLEAN,
             declares : BOOLEAN, encodes : BOOLEAN, usage : BOOLEAN,
             counts : BOOLEAN, require : SUBSET {"request_seen",
             "server_prompt_tokens", "client_encoded_tokens"},
             documented : SUBSET Classes]

ASSUME CellsAssumption ==
  \A c \in Cells : /\ c \in CellType
                   /\ c.plan # <<>>
                   /\ \A s \in DOMAIN c.plan : \A i \in DOMAIN c.plan[s] :
                        c.plan[s][i] \in DOMAIN c.requests
ASSUME LogClassesAssumption == LogClasses \subseteq Classes
ASSUME ShortAssumption == Short \in Nat

Requests  == DOMAIN cell.requests
Segments  == DOMAIN cell.plan
InSegment(s) == {cell.plan[s][i] : i \in DOMAIN cell.plan[s]}

NoResult == [present |-> FALSE, requests |-> <<>>, valid |-> TRUE, class |-> "none"]
ResultType == [present : BOOLEAN, requests : Seq(Requests), valid : BOOLEAN,
               class : Classes \cup {"none"}]

TypeOK ==
  /\ cell \in Cells
  /\ pc \in {"launch", "ready", "client", "result", "pull", "evaluate",
             "decide", "done"}
  /\ seg \in 1..(Len(cell.plan) + 1)
  /\ sent \in [Requests -> Nat] /\ served \in [Requests -> Nat]
  /\ parts \subseteq Segments /\ booted \subseteq Segments
  /\ file \in ResultType /\ client \in ResultType
  /\ failLog \in Classes \cup {"none", "silent"}
  /\ died \in Classes \cup {"none", "silent"}
  /\ pulled \subseteq Segments
  /\ status \in Statuses \cup {"none"}
  /\ verdict \in CellClasses \cup {"none"}

Init ==
  /\ cell \in Cells
  /\ pc = "launch" /\ seg = 1
  /\ sent = [i \in Requests |-> 0] /\ served = [i \in Requests |-> 0]
  /\ parts = {} /\ booted = {}
  /\ file = NoResult /\ client = NoResult
  /\ failLog = "none" /\ died = "none" /\ pulled = {}
  /\ status = "none" /\ verdict = "none"
-----------------------------------------------------------------------------
(* The segments.                                                           *)

worldVars == <<sent, served, parts, file>>
judgeVars == <<status, verdict>>

NextSegment ==
  /\ seg' = seg + 1
  /\ pc' = IF seg < Len(cell.plan) THEN "launch" ELSE "pull"

\* The launch line names a probe value that no earlier client left in probe.json
\* (it is read again for every segment): the attempt leaves the loop.
ProbeMissing ==
  /\ pc = "launch" /\ cell.probe
  /\ failLog' = "UNKNOWN" /\ pc' = "pull"
  /\ UNCHANGED <<cell, seg, worldVars, client, booted, died, pulled, judgeVars>>

\* backend.launch returns a handle, or raises and the segment is over.
Launch ==
  /\ pc = "launch"
  /\ \/ pc' = "ready" /\ UNCHANGED <<seg, failLog>>
     \/ failLog' = "UNKNOWN" /\ NextSegment
  /\ UNCHANGED <<cell, worldVars, client, booted, died, pulled, judgeVars>>

\* wait_ready.  A server that never answers is killed and its log read; an
\* empty one is "server never became ready (no load log)", which is not
\* classified.
WaitReady ==
  /\ pc = "ready"
  /\ \/ pc' = "client" /\ booted' = booted \cup {seg}
        /\ UNCHANGED <<seg, failLog, died, pulled>>
     \/ /\ \/ \E class \in LogClasses :
               failLog' = class /\ died' = class /\ pulled' = pulled \cup {seg}
           \/ failLog' = "silent" /\ died' = "silent" /\ UNCHANGED pulled
        /\ NextSegment /\ UNCHANGED booted
  /\ UNCHANGED <<cell, worldVars, client, judgeVars>>

\* The result of the segments in `who', in the order the client lists them.
ResultOf(who, valid, class) ==
  [present |-> TRUE, valid |-> valid, class |-> class,
   requests |-> LET upto[s \in 0..Len(cell.plan)] ==
                      IF s = 0 THEN <<>>
                      ELSE upto[s - 1] \o (IF s \in who THEN cell.plan[s] ELSE <<>>)
                IN  upto[Len(cell.plan)]]

\* What a client that ran to its end writes to client.json.
WriteFile(valid, class) ==
  file' = IF ~cell.merges THEN ResultOf({seg}, valid, class)
          ELSE IF seg < Len(cell.plan) THEN file
          ELSE ResultOf(parts', valid /\ parts' = Segments, class)

\* Each request goes out as declared or short, and is processed or never
\* reaches the engine; a client that dies leaves client.json as it was.
ClientRuns ==
  /\ pc = "client"
  /\ \E out \in [InSegment(seg) -> {"whole", "short", "lost"}] :
       /\ sent' = [i \in Requests |->
                     IF i \notin InSegment(seg) THEN sent[i]
                     ELSE IF out[i] = "short" \/ cell.requests[i] = Absent THEN Short
                     ELSE cell.requests[i]]
       /\ served' = [i \in Requests |->
                       IF i \notin InSegment(seg) THEN served[i]
                       ELSE IF out[i] = "lost" THEN 0 ELSE sent'[i]]
  /\ \/ /\ parts' = parts \cup {seg}
        /\ \E valid \in BOOLEAN, class \in {"none", "LMCACHE_NO_HIT"} :
             WriteFile(valid, class)
     \/ UNCHANGED <<parts, file>>
  /\ pc' = "result"
  /\ UNCHANGED <<cell, seg, client, failLog, booted, died, pulled, judgeVars>>

\* run_client fetches client.json, whatever the client's exit code.  When the
\* fetch raises, the segment's server log becomes the failure log unless there
\* is one: that of a healthy server matches no pattern, an unreadable one is
\* empty.
FetchResult ==
  /\ pc = "result"
  /\ \/ file.present /\ client' = file /\ UNCHANGED <<failLog, pulled>>
     \/ /\ UNCHANGED client
        /\ \/ /\ failLog = "none" /\ pulled' = pulled \cup {seg}
              /\ failLog' \in IF seg \in parts THEN {"UNKNOWN"} ELSE LogClasses
           \/ UNCHANGED <<failLog, pulled>>
  /\ NextSegment
  /\ UNCHANGED <<cell, worldVars, booted, died, judgeVars>>
-----------------------------------------------------------------------------
(* The judgement.                                                          *)

\* The log of every segment reached; a pull that fails is swallowed.
PullLogs ==
  /\ pc = "pull"
  /\ \E more \in SUBSET (1..(seg - 1)) : pulled' = pulled \cup more
  /\ pc' = "evaluate"
  /\ UNCHANGED <<cell, seg, worldVars, client, failLog, booted, died, status, verdict>>

Row(i) == [declared |-> IF cell.declares THEN cell.requests[i] ELSE Absent,
           encoded  |-> IF cell.encodes THEN sent[i] ELSE Absent,
           usage    |-> IF cell.usage /\ served[i] > 0 THEN served[i] ELSE Absent,
           log      |-> Absent]

Rows == [k \in DOMAIN client.requests |-> Row(client.requests[k])]

ServerLog ==
  LET logged == {i \in UNION {InSegment(s) : s \in pulled} : served[i] > 0} IN
  [pulled |-> pulled # {},
   seen   |-> logged # {},
   counts |-> IF cell.counts THEN {served[i] : i \in logged} ELSE {}]

EvaluateContract ==
  /\ pc = "evaluate"
  /\ status' = IF cell.engine
               THEN Evaluate(cell.requests, Rows, ServerLog, cell.require) ELSE "none"
  /\ pc' = "decide"
  /\ UNCHANGED <<cell, seg, worldVars, client, failLog, booted, died, pulled, verdict>>

\* The gates are sized per cell and look at walls and rates: any outcome.
DecideVerdict ==
  /\ pc = "decide"
  /\ \E wallOk, gatesOk, quick \in BOOLEAN :
       verdict' = Decide([client |-> client, status |-> status,
                          logClass |-> IF failLog = "silent" THEN "none" ELSE failLog,
                          documented |-> cell.documented,
                          wallOk |-> wallOk, gatesOk |-> gatesOk, quick |-> quick])
  /\ pc' = "done"
  /\ UNCHANGED <<cell, seg, worldVars, client, failLog, booted, died, pulled, status>>

Next ==
  \/ ProbeMissing \/ Launch \/ WaitReady \/ ClientRuns \/ FetchResult
  \/ PullLogs \/ EvaluateContract \/ DecideVerdict

Spec == Init /\ [][Next]_vars
-----------------------------------------------------------------------------
(* Properties.                                                             *)

Done == pc = "done"

\* The engine processed request i as the cell declares it.
AsDeclared(i) == cell.requests[i] = Absent \/ ~Beyond(served[i], cell.requests[i])

\* Every request the runner can tell by its position: one segment sends them in
\* their order, and each declares its size.
Positional ==
  /\ Len(cell.plan) = 1 /\ cell.plan[1] = [i \in Requests |-> i]
  /\ \A i \in Requests : cell.requests[i] # Absent

\* A PASS is earned: when the client transcribes the server's usage and the
\* contract requires it, the engine processed every declared request at its size.
\* Where the engine logs its counts too, a request it never answered can hide
\* behind another's count.
PassIsEarned ==
  Done /\ verdict = "PASS" /\ cell.engine /\ Positional /\ cell.usage
      /\ "server_prompt_tokens" \in cell.require
    => \A i \in Requests : AsDeclared(i) \/ (served[i] = 0 /\ cell.counts)

\* A contract is VIOLATED only by facts: some declared request was not
\* processed, or not at the size declared, or not encoded at it.
ViolationIsFact ==
  status = "VIOLATED" /\ Positional
    => \E i \in Requests : \/ served[i] = 0 \/ ~AsDeclared(i)
                           \/ Beyond(sent[i], cell.requests[i])

\* The documented wall is an answer: a server that dies at load with a class
\* the cell documents gives EXPECTED_NEGATIVE, whatever the gates say, when no
\* contract is declared.
WallIsAnswer ==
  Done /\ ~cell.engine /\ Len(cell.plan) = 1 /\ died \in cell.documented
    => verdict = "EXPECTED_NEGATIVE"

\* A server that died is never measured: with one segment, a failed boot ends
\* in no verdict that keeps numbers.
DeadServerHasNoNumbers ==
  Done /\ Len(cell.plan) = 1 /\ booted = {}
    => verdict \notin {"PASS", "PLAUSIBILITY_ANOMALY"}
-----------------------------------------------------------------------------
(* What the documents and comments say, where the code does otherwise.     *)

\* verdict.py: an outcome that matches documented_negative "is
\* EXPECTED_NEGATIVE ... It is never needs human review".
DocumentedNegativeStands ==
  Done /\ Len(cell.plan) = 1 /\ died \in cell.documented
    => verdict = "EXPECTED_NEGATIVE"

\* runner.py: "the platform then boots the cell's server N times ... and runs
\* the client once per segment".
PassRanEverySegment ==
  Done /\ verdict = "PASS" => booted = Segments /\ parts = Segments
=============================================================================
