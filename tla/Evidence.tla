------------------------------ MODULE Evidence ------------------------------
(***************************************************************************)
(* The workload contract of an attempt (src/benchmarks/evidence.py): did   *)
(* the workload that was declared actually happen?  Token counts are       *)
(* integers; a field nobody filled in is Absent.                           *)
(***************************************************************************)
EXTENDS Integers, Sequences, FiniteSets

Absent == -1

Statuses == {"NOT_APPLICABLE", "SATISFIED", "VIOLATED", "UNVERIFIABLE"}

\* What a client reports of one request.
RowType(sizes) == [declared : sizes, encoded : sizes, usage : sizes, log : sizes]

\* |observed - declared| > max(32, 1% of declared), without fractions.
Beyond(observed, declared) ==
  LET gap == IF observed > declared THEN observed - declared ELSE declared - observed
  IN  gap > 32 /\ 100 * gap > declared

\* The sizes declared, by the row when it says, else by the spec.  Requests
\* that declare nothing leave no gap in the list: the k-th entry is of the k-th
\* that declares one.
Declared(requests, rows) ==
  LET n == IF Len(rows) > Len(requests) THEN Len(rows) ELSE Len(requests)
      size(i) == IF i <= Len(rows) /\ rows[i].declared # Absent THEN rows[i].declared
                 ELSE IF i <= Len(requests) THEN requests[i] ELSE Absent
      upto(i) == {j \in 1..i : size(j) # Absent}
  IN  [k \in 1..Cardinality(upto(n)) |->
         size(CHOOSE i \in upto(n) : Cardinality(upto(i)) = k)]

\* The size row i is held to: its own, or the i-th of the list above.
HeldTo(requests, rows, i) ==
  LET list == Declared(requests, rows)
  IN  IF rows[i].declared # Absent THEN rows[i].declared
      ELSE IF i <= Len(list) THEN list[i] ELSE Absent

\* The rows that are compared with a declaration.
Compared(requests, rows) ==
  {i \in DOMAIN rows : HeldTo(requests, rows, i) # Absent}

FromServer(row) == {row.usage, row.log} \ {Absent}
Observed(row)   == FromServer(row) \cup ({row.encoded} \ {Absent})

\* Mutant of Contradicted: a count that falls short is let through.
ContradictedByExcess(requests, rows, log) ==
  \E i \in Compared(requests, rows) : \E v \in Observed(rows[i]) :
    v > HeldTo(requests, rows, i) /\ Beyond(v, HeldTo(requests, rows, i))

\* Evidence was captured and contradicts the declaration.
Contradicted(requests, rows, log) ==
  LET list == Declared(requests, rows) IN
  \/ \E i \in Compared(requests, rows) : \E v \in Observed(rows[i]) :
       Beyond(v, HeldTo(requests, rows, i))
  \/ \E c \in log.counts : \A i \in DOMAIN list : Beyond(c, list[i])

\* The engine's own count: any count in its log, or one for every row compared.
ServerCounted(requests, rows, log) ==
  LET seen == Compared(requests, rows) IN
  log.counts # {} \/ (seen # {} /\ \A i \in seen : FromServer(rows[i]) # {})

ClientCounted(requests, rows) ==
  \E i \in Compared(requests, rows) : rows[i].encoded # Absent

\* Mutant of Evaluate: a log that was not pulled is a log without the request.
EvaluateAbsenceIsZero(requests, rows, log, require) ==
  IF Declared(requests, rows) = <<>> THEN "NOT_APPLICABLE"
  ELSE IF Contradicted(requests, rows, log) \/ ~log.seen THEN "VIOLATED"
  ELSE IF ~ServerCounted(requests, rows, log) THEN "UNVERIFIABLE" ELSE "SATISFIED"

\* log = [pulled, seen, counts]: was a server log pulled, does it record any
\* request, which token counts does it hold.
Evaluate(requests, rows, log, require) ==
  IF Declared(requests, rows) = <<>> THEN "NOT_APPLICABLE"
  ELSE IF \/ Contradicted(requests, rows, log)
          \/ "request_seen" \in require /\ log.pulled /\ ~log.seen
  THEN "VIOLATED"
  ELSE IF \/ "server_prompt_tokens" \in require /\ ~ServerCounted(requests, rows, log)
          \/ "client_encoded_tokens" \in require /\ ~ClientCounted(requests, rows)
          \/ "request_seen" \in require /\ ~log.pulled
  THEN "UNVERIFIABLE"
  ELSE "SATISFIED"
=============================================================================
