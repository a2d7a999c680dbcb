----------------------------- MODULE JevService -----------------------------
(***************************************************************************)
(* The decision service (src/openjev/server.py) as its clients meet it.    *)
(* A thread loads the model while the server already answers.  Handlers    *)
(* that are coroutines run one after the other on the event loop and hold  *)
(* it for as long as the model thinks; the others run in threads beside it,*)
(* and the loop takes their requests in and carries their answers out.  The*)
(* prompter passes the stream of a model of the hub on.  Saved cases are   *)
(* the subject of UseCaseStore.                                            *)
(***************************************************************************)
EXTENDS Integers, Sequences, FiniteSets

CONSTANTS None,
          Clients,
          Chatty,      \* the clients that talk to models of the hub, too
          Questions,   \* of requests, see Question
          Cap,         \* 25, the states of a batch
          MaxRuns,     \* the runs of a benchmark
          MaxChunks    \* bound on the chunks of a stream

VARIABLES
  loader,              \* how far _preload is
  agent, loadSec, state,
  loop, queue,         \* who holds the event loop; whom it has to take in
  req,                 \* what is with each client's request
  told                 \* history: this process answered as one that is loaded

model == <<loader, agent, loadSec, state>>
vars  == <<model, loop, queue, req, told>>

Coroutines == {"systemone", "batch", "bench"}

\* A question: its type, and the form of what each key holds.  None is a key that
\* is not there, "empty" also a null.
Forms    == {None, "empty", "list", "map", "text"}
Question == [type : {"choice", "score", "noul"}, criteria : Forms, options : Forms, labels : Forms]

ASSUME JevAssumption ==
  /\ Chatty \subseteq Clients /\ Questions \subseteq Question /\ {Cap, MaxRuns} \subseteq Nat \ {0} /\ MaxChunks \in Nat

\* What clients may ask; without a question it is a request that is badly formed, or
\* that names no case.
Asked ==
  [kind : {"systemone", "run"}, q : Questions \cup {None}, n : {1}]
  \cup [kind : {"batch"}, q : Questions \cup {None}, n : {1, Cap + 1}]
  \cup [kind : {"bench"}, q : {None}, n : {MaxRuns}]
  \cup [kind : {"health", "chat"}, q : {None}, n : {1}]

\* results: of each state or run; of a stream, what the client got.  heard: what
\* the upstream sent.  seen: what a handler has read so far.
Request(ask) ==
  [ask |-> ask, step |-> "queued", status |-> None, results |-> <<>>, heard |-> <<>>,
   seen |-> None, finish |-> FALSE, knew |-> told]

Idle == [step |-> "idle"]

Steps == {"queued", "agent", "model", "state", "time", "servers", "models", "open",
          "stream", "done", "replied"}

Init ==
  /\ loader = "load" /\ agent = FALSE /\ loadSec = FALSE /\ state = "loading"
  /\ loop = None /\ queue = <<>> /\ req = [c \in Clients |-> Idle] /\ told = FALSE

TypeOK ==
  /\ loader \in {"load", "time", "ready", "over"}
  /\ agent \in BOOLEAN /\ loadSec \in BOOLEAN /\ state \in {"loading", "ready"} /\ told \in BOOLEAN
  /\ loop \in Clients \cup {None} /\ queue \in Seq(Clients)
  /\ \A c \in Clients : req[c] = Idle \/
       /\ req[c].ask \in Asked /\ req[c].step \in Steps
       /\ (req[c].step = "queued") = (\E i \in DOMAIN queue : queue[i] = c)
       /\ (loop = c) = (req[c].ask.kind \in Coroutines /\ req[c].step \in {"agent", "model"})
-----------------------------------------------------------------------------
\* Mutant of Preload: it says so before it is.
PreloadAnnounced ==
  /\ \/ loader = "load"  /\ state' = "ready" /\ loader' = "time"  /\ UNCHANGED <<agent, loadSec>>
     \/ loader = "time"  /\ agent' = TRUE    /\ loader' = "ready" /\ UNCHANGED <<loadSec, state>>
     \/ loader = "ready" /\ loadSec' = TRUE  /\ loader' = "over"  /\ UNCHANGED <<agent, state>>
     \/ loader = "load"  /\ loader' = "over" /\ UNCHANGED <<agent, loadSec, state>>
  /\ UNCHANGED <<loop, queue, req, told>>

\* _preload: three globals one after the other; or it raises, and its thread is gone.
Preload ==
  /\ \/ loader = "load"  /\ agent' = TRUE    /\ loader' = "time"  /\ UNCHANGED <<loadSec, state>>
     \/ loader = "time"  /\ loadSec' = TRUE  /\ loader' = "ready" /\ UNCHANGED <<agent, state>>
     \/ loader = "ready" /\ state' = "ready" /\ loader' = "over"  /\ UNCHANGED <<agent, loadSec>>
     \/ loader = "load"  /\ loader' = "over" /\ UNCHANGED <<agent, loadSec, state>>
  /\ UNCHANGED <<loop, queue, req, told>>

Send(c) ==
  /\ req[c].step \in {"idle", "replied"}
  /\ \E ask \in Asked :
       (ask.kind = "chat" => c \in Chatty) /\ req' = [req EXCEPT ![c] = Request(ask)]
  /\ queue' = Append(queue, c) /\ UNCHANGED <<model, loop, told>>

\* The event loop takes in the request that came first: a coroutine then holds it,
\* any other handler is given to a thread.
TakeIn ==
  /\ loop = None /\ queue # <<>> /\ queue' = Tail(queue)
  /\ LET c == Head(queue) IN
     /\ loop' = IF req[c].ask.kind \in Coroutines THEN c ELSE None
     /\ req' = [req EXCEPT ![c].step = CASE req[c].ask.kind = "health" -> "state"
                                         [] req[c].ask.kind = "chat"   -> "servers"
                                         [] OTHER                      -> "agent"]
  /\ UNCHANGED <<model, told>>

\* What a handler has for its client: a coroutine lets go of the loop with it.
Answered(c, r) ==
  IF r.ask.kind \in Coroutines
  THEN loop' = None /\ req' = [req EXCEPT ![c] = [r EXCEPT !.step = "replied"]]
  ELSE loop' = loop /\ req' = [req EXCEPT ![c] = [r EXCEPT !.step = "done"]]

Status(c, status) == Answered(c, [req[c] EXCEPT !.status = status])

SaysReady(r) == r.status = 200 /\ (r.ask.kind = "health" => r.seen = "ready")

\* The loop carries the answer of a thread out.
Deliver(c) ==
  /\ req[c].step = "done" /\ loop = None
  /\ req' = [req EXCEPT ![c].step = "replied"]
  /\ told' = (told \/ SaysReady(req[c]))
  /\ UNCHANGED <<model, loop, queue>>
-----------------------------------------------------------------------------
\* normalize_questions: criteria, or else options, or else labels.
Criteria(q) ==
  IF q.criteria # None THEN q.criteria ELSE IF q.options # None THEN q.options ELSE q.labels

Refused(q) == q.type \in {"choice", "score"} /\ Criteria(q) \in {None, "empty"}

\* A choice needs a map of them, a score a list.
Normalized(q) ==
  [type |-> q.type, options |-> None, labels |-> None,
   criteria |-> CASE q.type = "choice" /\ Criteria(q) = "list" -> "map"
                  [] q.type = "score"                          -> "list"
                  [] OTHER                                     -> Criteria(q)]

\* The model takes a score only with a list: "crashes enumerate() (500)".
Takes(q) == q.type = "score" => q.criteria = "list"

HasAgent == state = "ready" /\ agent

\* A batch goes on to its next state, up to the cap, whatever came of this one; a
\* benchmark to its next run only after an answer.
States(r)          == IF r.ask.n > Cap THEN Cap ELSE r.ask.n
BatchGoesOn(r)     == r.ask.kind = "batch" /\ Len(r.results) < States(r)
BenchGoesOn(r, what) == r.ask.kind = "bench" /\ Len(r.results) < r.ask.n /\ what = "answer"

Codes == [loading |-> 503, refused |-> 422, error |-> 500, answer |-> 200]

\* Where a request goes on with a result, or ends with it.
GoOn(c, r, step) == req' = [req EXCEPT ![c] = [r EXCEPT !.step = step]] /\ UNCHANGED loop
EndWith(c, r, what) ==
  Answered(c, [r EXCEPT !.status = IF r.ask.kind = "batch" THEN 200 ELSE Codes[what]])

\* Mutant of Outcome: an error ends a batch.
OutcomeOfAll(c, what) ==
  LET r == [req[c] EXCEPT !.results = Append(@, what)] IN
  IF BatchGoesOn(r) /\ what = "answer" THEN GoOn(c, r, "agent")
  ELSE IF BenchGoesOn(r, what) THEN GoOn(c, r, "model")
  ELSE EndWith(c, r, what)

\* Mutant of Outcome: it waits for a model that loads.
OutcomeOfPatience(c, what) ==
  IF what = "loading" THEN UNCHANGED <<req, loop>> ELSE OutcomeOfAll(c, what)

\* One state, or one run, is through: a batch notes what came of it, anything else
\* fails with it.
Outcome(c, what) ==
  LET r == [req[c] EXCEPT !.results = Append(@, what)] IN
  IF BatchGoesOn(r) THEN GoOn(c, r, "agent")
  ELSE IF BenchGoesOn(r, what) THEN GoOn(c, r, "model")
  ELSE EndWith(c, r, what)

\* The head of a handler, get_agent and normalize_questions.
Prepare(c) ==
  /\ req[c].step = "agent" /\ UNCHANGED <<model, queue, told>>
  /\ LET kind == req[c].ask.kind  q == req[c].ask.q IN
     IF kind # "bench" /\ q = None THEN Status(c, IF kind = "run" THEN 404 ELSE 422)
     ELSE IF ~HasAgent THEN Outcome(c, "loading")
     ELSE IF kind # "bench" /\ Refused(q) THEN Outcome(c, "refused")
     ELSE req' = [req EXCEPT ![c].step = "model"] /\ UNCHANGED loop

\* _run_systemone: a forward pass, which may raise.
Forward(c) ==
  /\ req[c].step = "model"
  /\ \/ Outcome(c, "error")
     \/ (req[c].ask.kind # "bench" => Takes(Normalized(req[c].ask.q))) /\ Outcome(c, "answer")
  /\ told' = (told \/ (req[c].ask.kind \in Coroutines /\ loop' = None))
  /\ UNCHANGED <<model, queue>>

\* health(): the state first, then the time that loading took.
ReadState(c) ==
  /\ req[c].step = "state" /\ req' = [req EXCEPT ![c].step = "time", ![c].seen = state]
  /\ UNCHANGED <<model, loop, queue, told>>

ReadTime(c) ==
  /\ req[c].step = "time"
  /\ Answered(c, [req[c] EXCEPT !.status = 200, !.finish = loadSec])
  /\ UNCHANGED <<model, queue, told>>
-----------------------------------------------------------------------------
\* agent_models: the hub is asked for its servers, and then for its models; each
\* may have changed meanwhile, or not answer.
AskServers(c) ==
  /\ req[c].step = "servers"
  /\ \/ Status(c, 503) \/ Status(c, 500)
     \/ \E online \in BOOLEAN :
          req' = [req EXCEPT ![c].step = "models", ![c].seen = online] /\ UNCHANGED loop
  /\ UNCHANGED <<model, queue, told>>

AskModels(c) ==
  /\ req[c].step = "models"
  /\ \/ Status(c, 500) \/ Status(c, 404)
     \/ \E loaded \in BOOLEAN :
          IF req[c].seen /\ loaded
          THEN req' = [req EXCEPT ![c].step = "open"] /\ UNCHANGED loop
          ELSE Status(c, 409)
  /\ UNCHANGED <<model, queue, told>>

\* agent_chat: the request to the model of the hub.
Open(c) ==
  /\ req[c].step = "open"
  /\ Status(c, 502) \/ (req' = [req EXCEPT ![c].step = "stream", ![c].status = 200] /\ UNCHANGED loop)
  /\ UNCHANGED <<model, queue, told>>

Chunks == {"text", "last text", "finish", "error", "noise"}

\* Mutant of Chunk: a finish reason hides the text beside it.
ChunkOrFinish(c) ==
  /\ req[c].step = "stream" /\ loop = None /\ Len(req[c].heard) < MaxChunks
  /\ \E x \in Chunks :
       req' = [req EXCEPT ![c].heard = Append(@, x),
                 ![c].results = IF x \in {"text", "error"} THEN Append(@, x) ELSE @,
                 ![c].finish = @ \/ x \in {"last text", "finish"}]
  /\ UNCHANGED <<model, loop, queue, told>>

\* gen(): a chunk is passed on as the loop asks for it; an error ends nothing.
Chunk(c) ==
  /\ req[c].step = "stream" /\ loop = None /\ Len(req[c].heard) < MaxChunks
  /\ \E x \in Chunks :
       req' = [req EXCEPT ![c].heard = Append(@, x),
                 ![c].results = CASE x \in {"text", "last text"} -> Append(@, "text")
                                  [] x = "error"                 -> Append(@, "error")
                                  [] OTHER                       -> @,
                 ![c].finish = @ \/ x \in {"last text", "finish"}]
  /\ UNCHANGED <<model, loop, queue, told>>

\* The stream ends, with [DONE] or without, or breaks.
End(c) ==
  /\ req[c].step = "stream" /\ loop = None
  /\ \/ req' = [req EXCEPT ![c].step = "replied", ![c].results = Append(@, "done")]
     \/ req' = [req EXCEPT ![c].step = "replied"]
  /\ UNCHANGED <<model, loop, queue, told>>

\* A step of the handler of a request.
Handle(c) ==
  \/ Prepare(c) \/ Forward(c) \/ ReadState(c) \/ ReadTime(c)
  \/ AskServers(c) \/ AskModels(c) \/ Open(c) \/ Chunk(c) \/ End(c) \/ Deliver(c)

Next ==
  \/ Preload \/ TakeIn
  \/ \E c \in Clients : Send(c) \/ Handle(c)

Spec == Init /\ [][Next]_vars

\* The loop and the threads run, and the loop, which is first come first served,
\* gets to everybody's answer.
FairSpec == Spec /\ WF_vars(TakeIn) /\ \A c \in Clients : SF_vars(Handle(c))
-----------------------------------------------------------------------------
Replied(c, kind) == req[c].step = "replied" /\ req[c].ask.kind = kind

\* A process that once answered as one that is loaded does not say "loading" to
\* anybody who asks later, and who is told that it is ready is told the time it took,
\* though these are read one after the other.  (_preload, get_agent and health,
\* which share no lock.)
LoadedStaysLoaded ==
  \A c \in Clients : req[c].step # "idle" =>
    /\ req[c].knew =>
         /\ \A i \in DOMAIN req[c].results : req[c].results[i] # "loading"
         /\ Replied(c, "health") => req[c].seen = "ready"
    /\ Replied(c, "health") /\ req[c].seen = "ready" => req[c].finish

\* A batch that was taken has an entry for each of its states, up to the cap, and
\* a model that was there for one of them is there for all later ones.  ("per-state
\* isolation", systemone_batch.)
BatchIsolated ==
  \A c \in Clients : Replied(c, "batch") /\ req[c].ask.q # None =>
    /\ req[c].status = 200 /\ Len(req[c].results) = States(req[c])
    /\ \A i, j \in DOMAIN req[c].results :
         i < j /\ req[c].results[j] = "loading" => req[c].results[i] = "loading"

\* The chunks of an upstream that carry something for the client, and the place of
\* the k-th chunk among them.
Passed(heard)   == {k \in DOMAIN heard : heard[k] \in {"text", "last text", "error"}}
Place(heard, k) == Cardinality({j \in Passed(heard) : j <= k})

\* The first n entries of what the client got are what the upstream sent.
PassedOn(heard, got, n) ==
  /\ n = Place(heard, Len(heard))
  /\ \A k \in Passed(heard) :
       got[Place(heard, k)] = IF heard[k] = "error" THEN "error" ELSE "text"

\* Of a stream that is over the client has every piece of text, in its place among
\* the errors, and nothing but the end follows the last of them.  (gen.)
StreamIsWhole ==
  \A c \in Clients : Replied(c, "chat") /\ req[c].status = 200 =>
    LET got == req[c].results IN
    \/ PassedOn(req[c].heard, got, Len(got))
    \/ got # <<>> /\ got[Len(got)] = "done" /\ PassedOn(req[c].heard, got, Len(got) - 1)

\* Whoever asks is answered, whether the model loads or not.  (The server "binds
\* immediately".)
Responds == \A c \in Clients : req[c].step = "queued" ~> req[c].step = "replied"
=============================================================================
