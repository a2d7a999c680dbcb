---------------------------- MODULE OpenJev_proofs ----------------------------
(***************************************************************************)
(* Theorems about the two halves of the openjev server, which share no     *)
(* variable.  UseCaseStore, for every set of handlers, names, ids and      *)
(* entries: clients find what they were answered.  JevService, for any     *)
(* clients, questions and bounds: a service that was loaded does not go    *)
(* back to loading, a batch keeps its states apart, and a stream its text. *)
(***************************************************************************)
EXTENDS UseCaseStore, JevService, SequenceTheorems, FiniteSetTheorems, TLAPS

-----------------------------------------------------------------------------
(* The store.                                                              *)

\* The lock is held by the one handler that saves.
Locked == \A h \in Handlers : pc[h] = "saving" <=> lock = h

\* An id that was chosen for a new case stays free of built-in ones.
Chosen == \A h \in Handlers : request[h].kind = "create" => request[h].id \notin Builtins

StoreInv == StoreTypeOK /\ Locked /\ Chosen /\ PromisesKept /\ BuiltinsUnshadowed

\* The cases of a request that may change what it finds.
Applies(old, r) == r.kind = "update" => old # Absent
-----------------------------------------------------------------------------
\* A request makes an entry, or none, of what it applies to.  (server.py, the
\* bodies of the three locked sections.)
LEMMA AfterIsStored ==
  ASSUME NEW r \in Requests, NEW old \in Stored, Applies(old, r)
  PROVE  After(old, r) \in Stored
<1>1. CASE r.kind = "create"
  <2>1. r.questions \in QuestionMaps /\ r.state \in Inputs
    BY <1>1 DEF Requests
  <2>2. After(old, r) = [questions |-> r.questions, state |-> r.state]
    BY <1>1 DEF After
  <2> QED BY <2>1, <2>2 DEF Stored, Entries
<1>2. CASE r.kind = "update"
  <2>1. r.questions \in QuestionMaps \cup {Nothing} /\ r.state \in Inputs
    BY <1>2 DEF Requests
  <2>2. old \in Entries
    BY <1>2 DEF Applies, Stored
  <2>3. After(old, r) = [old EXCEPT !.state = r.state,
                           !.questions = IF r.questions = Nothing THEN @ ELSE r.questions]
    BY <1>2 DEF After
  <2> QED BY <2>1, <2>2, <2>3 DEF Stored, Entries
<1>3. CASE r.kind = "delete"
  BY <1>3 DEF After, Stored
<1> QED BY <1>1, <1>2, <1>3 DEF Requests

\* What clients may expect of a request is again stored entries, and holds what
\* the request makes of any one of those it may find.
LEMMA OutcomesAreStored ==
  ASSUME NEW r \in Requests, NEW found \in SUBSET Stored
  PROVE  /\ Outcomes(found, r) \in SUBSET Stored
         /\ \A old \in found : Applies(old, r) => After(old, r) \in Outcomes(found, r)
BY AfterIsStored DEF Outcomes, Applies
-----------------------------------------------------------------------------
LEMMA StoreInitInv == StoreInit => StoreInv
<1> SUFFICES ASSUME StoreInit PROVE StoreInv
  OBVIOUS
<1>1. StoreTypeOK
  BY DEF StoreInit, StoreTypeOK, Stored
<1>2. Locked /\ Chosen
  BY NothingAssumption DEF StoreInit, Locked, Chosen, NoRequest
<1>3. PromisesKept /\ BuiltinsUnshadowed
  BY NamesAssumption DEF StoreInit, PromisesKept, Expected, BuiltinsUnshadowed
<1> QED BY <1>1, <1>2, <1>3 DEF StoreInv

\* A handler that changes memory leaves it as its client may find it.
LEMMA ChangeStep ==
  ASSUME StoreInv, NEW h \in Handlers, NEW r \in Requests, pc[h] # "saving", Change(h, r),
         Applies(saved[r.id], r), r.kind # "delete" => r.id \notin Builtins
  PROVE  StoreInv'
<1> USE DEF StoreInv
<1>0. /\ r.id \in Ids /\ r # NoRequest
      /\ lock = Free /\ lock' = h /\ h # Free
      /\ disk' = disk /\ promised' = promised
      /\ saved' = [saved EXCEPT ![r.id] = After(@, r)]
      /\ pc' = [pc EXCEPT ![h] = "saving"] /\ request' = [request EXCEPT ![h] = r]
  BY NothingAssumption DEF Requests, NoRequest, Change, Handling
<1>1. After(saved[r.id], r) \in Stored
  BY <1>0, AfterIsStored DEF StoreTypeOK
<1>2. StoreTypeOK'
  BY <1>0, <1>1 DEF StoreTypeOK
<1>3. Locked'
  BY <1>0, NothingAssumption DEF Locked, StoreTypeOK
<1>4. Chosen'
  BY <1>0 DEF Chosen, StoreTypeOK
<1>5. PromisesKept'
  <2>1. \A id \in Ids : saved[id] \in promised[id] /\ disk[id] \in promised[id]
    BY <1>0 DEF PromisesKept, Expected
  <2>2. After(saved[r.id], r) \in Outcomes(promised[r.id], r)
    BY <2>1, <1>0, OutcomesAreStored DEF StoreTypeOK
  <2>3. request'[h] = r
    BY <1>0 DEF StoreTypeOK
  <2> QED BY <1>0, <2>1, <2>2, <2>3 DEF PromisesKept, Expected, StoreTypeOK
<1>6. BuiltinsUnshadowed'
  <2>1. r.kind = "delete" => After(saved[r.id], r) = Absent
    BY DEF After
  <2> QED BY <1>0, <2>1, NamesAssumption DEF BuiltinsUnshadowed, StoreTypeOK
<1> QED BY <1>2, <1>3, <1>4, <1>5, <1>6

\* A handler that gives up the lock: its client has an answer, or none.
LEMMA UnlockStep ==
  ASSUME StoreInv, NEW h \in Handlers, Save(h) \/ SaveFails(h)
  PROVE  StoreInv'
<1> USE DEF StoreInv
<1> DEFINE r == request[h]
<1>0. /\ pc[h] = "saving" /\ lock = h /\ h # Free
      /\ r \in Requests /\ r.id \in Ids
      /\ lock' = Free /\ saved' = saved
      /\ pc' = [pc EXCEPT ![h] = "idle"] /\ request' = [request EXCEPT ![h] = NoRequest]
  BY NothingAssumption DEF Save, SaveFails, Handling, Locked, StoreTypeOK, Requests
<1>1. Outcomes(promised[r.id], r) \in SUBSET Stored
  BY <1>0, OutcomesAreStored DEF StoreTypeOK
<1>2. StoreTypeOK'
  BY <1>0, <1>1 DEF StoreTypeOK, Save, SaveFails
<1>3. Locked' /\ Chosen'
  BY <1>0, NothingAssumption DEF Locked, Chosen, StoreTypeOK, NoRequest
<1>4. PromisesKept'
  <2>1. saved[r.id] \in Outcomes(promised[r.id], r)
    BY <1>0 DEF PromisesKept, Expected
  <2>2. \A id \in Ids : id # r.id => saved[id] \in promised[id]
    BY <1>0 DEF PromisesKept, Expected
  <2>3. \A id \in Ids : saved[id] \in promised'[id]
    BY <1>0, <2>1, <2>2 DEF Save, SaveFails, StoreTypeOK
  <2>4. \A id \in Ids : disk'[id] \in promised'[id]
    <3>1. CASE Save(h)
      BY <2>3, <3>1 DEF Save
    <3>2. CASE SaveFails(h)
      BY <1>0, <3>2 DEF SaveFails, PromisesKept, StoreTypeOK
    <3> QED BY <3>1, <3>2
  <2> QED BY <1>0, <2>3, <2>4 DEF PromisesKept, Expected
<1>5. BuiltinsUnshadowed'
  BY <1>0 DEF BuiltinsUnshadowed, Save, SaveFails
<1> QED BY <1>2, <1>3, <1>4, <1>5

\* A new process holds what the file held.
LEMMA RestartStep == StoreInv /\ Restart => StoreInv'
<1> SUFFICES ASSUME StoreInv, Restart PROVE StoreInv'
  OBVIOUS
<1> USE DEF StoreInv
<1>0. /\ saved' = disk' /\ lock' = Free
      /\ pc' = [h \in Handlers |-> "idle"] /\ request' = [h \in Handlers |-> NoRequest]
  BY DEF Restart
<1>1. CASE lock = Free
  <2>1. disk' = disk /\ promised' = promised
    BY <1>1 DEF Restart
  <2> QED BY <1>0, <2>1, NothingAssumption
      DEF StoreTypeOK, Locked, Chosen, NoRequest, PromisesKept, Expected, BuiltinsUnshadowed
<1>2. CASE lock # Free
  <2> DEFINE r == request[lock]
  <2>0. /\ r \in Requests /\ r.id \in Ids
        /\ disk' = disk \/ disk' = saved
        /\ promised' = [promised EXCEPT ![r.id] = @ \cup Outcomes(@, r)]
    BY <1>2 DEF Restart, StoreTypeOK, Locked, Requests
  <2>1. Outcomes(promised[r.id], r) \in SUBSET Stored
    BY <2>0, OutcomesAreStored DEF StoreTypeOK
  <2>2. StoreTypeOK'
    BY <1>0, <2>0, <2>1 DEF StoreTypeOK
  <2>3. Locked' /\ Chosen'
    BY <1>0, NothingAssumption DEF Locked, Chosen, NoRequest
  <2>4. PromisesKept'
    <3>1. \A id \in Ids : promised[id] \subseteq promised'[id]
      BY <2>0 DEF StoreTypeOK
    <3>2. saved[r.id] \in promised'[r.id]
      BY <1>2, <2>0 DEF PromisesKept, Expected, StoreTypeOK
    <3>3. \A id \in Ids : id # r.id => saved[id] \in promised'[id]
      BY <1>2, <2>0, <3>1 DEF PromisesKept, Expected
    <3> QED BY <1>0, <2>0, <3>1, <3>2, <3>3 DEF PromisesKept, Expected
  <2>5. BuiltinsUnshadowed'
    BY <1>0, <2>0 DEF BuiltinsUnshadowed
  <2> QED BY <2>2, <2>3, <2>4, <2>5
<1> QED BY <1>1, <1>2

LEMMA StoreNextInv == StoreInv /\ [StoreNext]_storeVars => StoreInv'
<1> SUFFICES ASSUME StoreInv, [StoreNext]_storeVars PROVE StoreInv'
  OBVIOUS
<1>1. ASSUME NEW h \in Handlers, Create(h) PROVE StoreInv'
  <2>1. PICK name \in Names, id \in Ids, q \in QuestionMaps, s \in Inputs :
          /\ UniqueId(name, id)
          /\ Handling(h, "asked", [kind |-> "create", id |-> id, questions |-> q, state |-> s])
    BY <1>1 DEF Create
  <2>2. id \notin Builtins
    BY <2>1 DEF UniqueId, Taken
  <2>3. lock # h
    BY <1>1 DEF Create, StoreInv, Locked
  <2>4. StoreTypeOK'
    BY <1>1, <2>1 DEF Create, Handling, StoreInv, StoreTypeOK, Requests, NoRequest
  <2>5. Locked' /\ Chosen'
    BY <1>1, <2>1, <2>2, <2>3 DEF Create, Handling, StoreInv, StoreTypeOK, Locked, Chosen
  <2>6. PromisesKept' /\ BuiltinsUnshadowed'
    BY <1>1, <2>1, <2>3
       DEF Create, Handling, StoreInv, StoreTypeOK, PromisesKept, Expected, BuiltinsUnshadowed
  <2> QED BY <2>4, <2>5, <2>6 DEF StoreInv
<1>2. ASSUME NEW h \in Handlers, FindForUpdate(h) PROVE StoreInv'
  <2>1. PICK id \in Ids, q \in QuestionMaps \cup {Nothing}, s \in Inputs :
          Handling(h, "asked", [kind |-> "update", id |-> id, questions |-> q, state |-> s])
    BY <1>2 DEF FindForUpdate
  <2>2. lock # h
    BY <1>2 DEF FindForUpdate, StoreInv, Locked
  <2>3. StoreTypeOK'
    BY <1>2, <2>1 DEF FindForUpdate, Handling, StoreInv, StoreTypeOK, Requests, NoRequest
  <2>4. Locked' /\ Chosen'
    BY <1>2, <2>1, <2>2 DEF FindForUpdate, Handling, StoreInv, StoreTypeOK, Locked, Chosen
  <2>5. PromisesKept' /\ BuiltinsUnshadowed'
    BY <1>2, <2>1, <2>2
       DEF FindForUpdate, Handling, StoreInv, StoreTypeOK, PromisesKept, Expected, BuiltinsUnshadowed
  <2> QED BY <2>3, <2>4, <2>5 DEF StoreInv
<1>3. ASSUME NEW h \in Handlers, FailUpdate(h) PROVE StoreInv'
  <2>1. lock # h
    BY <1>3 DEF FailUpdate, StoreInv, Locked
  <2>2. StoreTypeOK'
    BY <1>3 DEF FailUpdate, Handling, StoreInv, StoreTypeOK
  <2>3. Locked' /\ Chosen'
    BY <1>3, <2>1 DEF FailUpdate, Handling, StoreInv, StoreTypeOK, Locked, Chosen, NoRequest
  <2>4. PromisesKept' /\ BuiltinsUnshadowed'
    BY <1>3, <2>1
       DEF FailUpdate, Handling, StoreInv, StoreTypeOK, PromisesKept, Expected, BuiltinsUnshadowed
  <2> QED BY <2>2, <2>3, <2>4 DEF StoreInv
<1>4. ASSUME NEW h \in Handlers, Write(h) PROVE StoreInv'
  <2>1. request[h] \in Requests /\ pc[h] # "saving" /\ Change(h, request[h])
    BY <1>4 DEF Write, StoreInv, StoreTypeOK
  <2>2. Applies(saved[request[h].id], request[h])
    BY <1>4 DEF Write, Applies
  <2>3. request[h].kind # "delete" => request[h].id \notin Builtins
    BY <1>4, <2>1 DEF Write, StoreInv, Chosen, BuiltinsUnshadowed, Requests
  <2> QED BY <2>1, <2>2, <2>3, ChangeStep
<1>5. ASSUME NEW h \in Handlers, Delete(h) PROVE StoreInv'
  <2>1. PICK id \in Ids :
          Change(h, [kind |-> "delete", id |-> id, questions |-> Nothing, state |-> Nothing])
    BY <1>5 DEF Delete
  <2> DEFINE r == [kind |-> "delete", id |-> id, questions |-> Nothing, state |-> Nothing]
  <2>2. r \in Requests /\ Applies(saved[r.id], r) /\ r.kind = "delete"
    BY DEF Requests, Applies
  <2> QED BY <1>5, <2>1, <2>2, ChangeStep DEF Delete
<1>6. ASSUME NEW h \in Handlers, Save(h) \/ SaveFails(h) PROVE StoreInv'
  BY <1>6, UnlockStep
<1>7. CASE Restart
  BY <1>7, RestartStep
<1>8. CASE UNCHANGED storeVars
  BY <1>8 DEF storeVars, StoreInv, StoreTypeOK, Locked, Chosen, PromisesKept, Expected, BuiltinsUnshadowed
<1> QED BY <1>1, <1>2, <1>3, <1>4, <1>5, <1>6, <1>7, <1>8 DEF StoreNext
-----------------------------------------------------------------------------
\* The inductive invariant holds throughout: what clients were answered is kept
\* because one handler at a time writes, and saves before it lets go.
THEOREM StoreInvariant == StoreSpec => []StoreInv
BY StoreInitInv, StoreNextInv, PTL DEF StoreSpec

\* Every entry in memory and in the file is a whole one, whatever handlers,
\* failed saves and restarts do.
THEOREM StoreTypeCorrect == StoreSpec => []StoreTypeOK
<1>1. StoreInv => StoreTypeOK BY DEF StoreInv
<1> QED BY <1>1, StoreInvariant, PTL

\* Memory and file hold what clients were answered: no deleted case comes back
\* and no update is lost, for any number of handlers and cases.
THEOREM PromisesAreKept == StoreSpec => []PromisesKept
<1>1. StoreInv => PromisesKept BY DEF StoreInv
<1> QED BY <1>1, StoreInvariant, PTL

\* No saved case takes the id of a built-in one.
THEOREM BuiltinsStayVisible == StoreSpec => []BuiltinsUnshadowed
<1>1. StoreInv => BuiltinsUnshadowed BY DEF StoreInv
<1> QED BY <1>1, StoreInvariant, PTL
-----------------------------------------------------------------------------
(* The service.                                                            *)

Kinds  == {"systemone", "batch", "bench", "run", "health", "chat"}
Ask    == [kind : Kinds, q : Questions \cup {None}, n : Nat \ {0}]
Seen   == {None, "loading", "ready"} \cup BOOLEAN
Words  == {"loading", "refused", "error", "answer", "text", "done"}
Req    == [ask : Ask, step : Steps, status : Int \cup {None}, results : Seq(Words),
           heard : Seq(Chunks), seen : Seen, finish : BOOLEAN, knew : BOOLEAN]

\* Where the request of a kind may be.
StepsOf(kind) ==
  CASE kind = "health" -> {"queued", "state", "time", "done", "replied"}
    [] kind = "chat"   -> {"queued", "servers", "models", "open", "stream", "done", "replied"}
    [] kind = "run"    -> {"queued", "agent", "model", "done", "replied"}
    [] OTHER           -> {"queued", "agent", "model", "replied"}

\* What holds of a request, where `ready' is whether the model is there, and `known'
\* whether anybody was told.
Placed(r) == r \in Req /\ r.step \in StepsOf(r.ask.kind)

\* Results say "loading" only before the model is there, and anything else after.
Dated(r, ready, known) ==
  /\ r.knew => known
  /\ \A i \in DOMAIN r.results :
       /\ r.results[i] = "loading" => ~r.knew
       /\ r.ask.kind # "chat" /\ r.results[i] # "loading" => ready
  /\ r.step = "model" => ready
  /\ r.step = "done" /\ r.status = 200 => r.ask.kind \in {"run", "health"}
  /\ r.step = "done" /\ r.status = 200 /\ r.ask.kind = "run" => ready

\* A batch has room for another state until it is answered.
Counted(r) ==
  r.ask.kind = "batch" =>
    /\ r.step # "replied" => Len(r.results) < States(r)
    /\ r.step = "model" => r.ask.q # None
    /\ r.step = "replied" /\ r.ask.q # None => r.status = 200 /\ Len(r.results) = States(r)
    /\ \A i, j \in DOMAIN r.results :
         i < j /\ r.results[j] = "loading" => r.results[i] = "loading"

\* Health has read the state, and then the time.
Told(r, ready) ==
  r.ask.kind = "health" =>
    /\ r.step \in {"time", "done", "replied"} =>
         (r.seen = "ready" => ready) /\ (r.knew => r.seen = "ready")
    /\ r.step \in {"done", "replied"} /\ r.seen = "ready" => r.finish

Fine(r, ready, known) ==
  Placed(r) /\ Dated(r, ready, known) /\ Counted(r) /\ Told(r, ready)

\* The globals of the model, in the order in which they are set.
Loader ==
  /\ loader \in {"load", "time", "ready", "over"} /\ state \in {"loading", "ready"}
  /\ agent \in BOOLEAN /\ loadSec \in BOOLEAN /\ told \in BOOLEAN
  /\ loader \in {"time", "ready"} => agent
  /\ loader = "ready" => loadSec
  /\ state = "ready" => agent /\ loadSec
  /\ told => state = "ready"

\* Who waits to be taken in waits once.
Queued ==
  /\ queue \in Seq(Clients)
  /\ \A i \in 1..Len(queue) : req[queue[i]].step = "queued"
  /\ \A i, j \in 1..Len(queue) : queue[i] = queue[j] => i = j

EachFine ==
  /\ req \in [Clients -> Req \cup {Idle}]
  /\ \A c \in Clients : req[c] # Idle => Fine(req[c], state = "ready", told)

IInv == Loader /\ Queued /\ EachFine
-----------------------------------------------------------------------------
\* EachFine that may be sent.
LEMMA AskedIsAsk == Asked \subseteq Ask
  BY JevAssumption DEF Asked, Ask, Kinds

\* A request with another status and step.
WithAnswer(r, status, step) == [[r EXCEPT !.status = status] EXCEPT !.step = step]

\* An answer changes the status and the step of a request, and nothing else.
LEMMA RequestAnswered ==
  ASSUME NEW r \in Req, NEW status \in Int, NEW step \in Steps
  PROVE  /\ WithAnswer(r, status, step) \in Req
         /\ WithAnswer(r, status, step).ask = r.ask
         /\ WithAnswer(r, status, step).results = r.results
         /\ WithAnswer(r, status, step).knew = r.knew
         /\ WithAnswer(r, status, step).seen = r.seen
         /\ WithAnswer(r, status, step).step = step
         /\ WithAnswer(r, status, step).status = status
<1> DEFINE r2 == [r EXCEPT !.status = status]
<1>1. /\ r2 \in Req /\ r2.ask = r.ask /\ r2.results = r.results /\ r2.knew = r.knew
      /\ r2.seen = r.seen /\ r2.status = status
  BY DEF Req
<1>2. WithAnswer(r, status, step) = [r2 EXCEPT !.step = step]
  BY DEF WithAnswer
<1> HIDE DEF r2
<1> QED
  BY <1>1, <1>2 DEF Req

\* What is there stays there, and so does what was true of a request.
LEMMA FineStays ==
  ASSUME NEW r, NEW ready \in BOOLEAN, NEW known \in BOOLEAN,
         NEW ready2 \in BOOLEAN, NEW known2 \in BOOLEAN,
         ready => ready2, known => known2, Fine(r, ready, known)
  PROVE  Fine(r, ready2, known2)
<1>1. Dated(r, ready2, known2)
  BY DEF Fine, Dated
<1>2. Told(r, ready2)
  BY DEF Fine, Told
<1> QED
  BY <1>1, <1>2 DEF Fine

\* A step that changes the request of one client, and takes nothing back.
LEMMA OneRequest ==
  ASSUME EachFine, Loader, Loader', NEW c \in Clients, NEW r,
         req' = [req EXCEPT ![c] = r], Fine(r, (state = "ready")', told'),
         state = "ready" => state' = "ready", told => told'
  PROVE  EachFine'
<1>1. Placed(r) /\ r \in Req
  BY DEF Fine, Placed
<1>2. req' \in [Clients -> Req \cup {Idle}]
  BY <1>1 DEF EachFine
<1>3. ASSUME NEW d \in Clients, req'[d] # Idle
      PROVE  Fine(req'[d], state' = "ready", told')
  <2>1. CASE d = c
    BY <2>1 DEF EachFine
  <2>2. CASE d # c
    <3>1. req'[d] = req[d]
      BY <2>2 DEF EachFine
    <3>2. Fine(req[d], state = "ready", told)
      BY <1>3, <3>1 DEF EachFine
    <3>3. told \in BOOLEAN /\ told' \in BOOLEAN
      BY DEF Loader
    <3> QED
      BY <3>1, <3>2, <3>3, FineStays
  <2> QED
    BY <2>1, <2>2
<1> QED
  BY <1>2, <1>3 DEF EachFine
-----------------------------------------------------------------------------
\* A state or a run that is through leaves a sound request.
LEMMA OutcomeKeeps ==
  ASSUME IInv, NEW c \in Clients, req[c] # Idle, req[c].step \in {"agent", "model"},
         NEW what \in {"loading", "refused", "error", "answer"},
         what = "loading" <=> state # "ready",
         req[c].ask.kind = "batch" => req[c].ask.q # None,
         Outcome(c, what), UNCHANGED model, Loader', told => told'
  PROVE  EachFine'
<1> DEFINE o == req[c]
           r == [o EXCEPT !.results = Append(@, what)]
<1>1. Fine(o, state = "ready", told) /\ o \in Req /\ o.step \in StepsOf(o.ask.kind)
  BY DEF IInv, EachFine, Fine, Placed
<1>2. o.ask.kind \in {"systemone", "batch", "bench", "run"} /\ o.ask \in Ask /\ o.results \in Seq(Words)
  BY <1>1 DEF StepsOf, Req, Ask, Kinds
<1>3. /\ r \in Req /\ r.ask = o.ask /\ r.step = o.step /\ r.knew = o.knew
      /\ r.results = Append(o.results, what)
  <2>1. Append(o.results, what) \in Seq(Words)
    BY <1>2, what \in Words DEF Words
  <2>2. r = [o EXCEPT !.results = Append(o.results, what)]
    OBVIOUS
  <2> HIDE DEF o, r
  <2> QED
    BY <1>1, <2>1, <2>2 DEF Req
<1>4. /\ Len(r.results) = Len(o.results) + 1 /\ r.results[Len(o.results) + 1] = what
      /\ \A i \in 1..Len(o.results) : r.results[i] = o.results[i]
  BY <1>2, <1>3
<1>5. \A i \in DOMAIN r.results : r.results[i] = "loading" => ~r.knew
  BY <1>1, <1>2, <1>3, <1>4 DEF Fine, Dated, IInv, Loader
<1>6. \A i \in DOMAIN r.results : r.results[i] # "loading" => state = "ready"
  BY <1>1, <1>2, <1>3, <1>4 DEF Fine, Dated
<1>7. r.knew => told
  BY <1>1, <1>3 DEF Fine, Dated
<1>8. o.ask.kind = "batch" =>
        \A i, j \in DOMAIN r.results :
          i < j /\ r.results[j] = "loading" => r.results[i] = "loading"
  <2> SUFFICES ASSUME o.ask.kind = "batch", NEW i \in DOMAIN r.results, NEW j \in DOMAIN r.results,
                      i < j, r.results[j] = "loading", r.results[i] # "loading"
               PROVE  FALSE
    OBVIOUS
  <2>1. i \in 1..Len(o.results) /\ j \in 1..(Len(o.results) + 1)
    BY <1>2, <1>3, <1>4
  <2>2. CASE j \in 1..Len(o.results)
    BY <1>1, <1>2, <1>4, <2>1, <2>2 DEF Fine, Counted
  <2>3. CASE j = Len(o.results) + 1
    BY <1>4, <1>6, <2>3
  <2> QED
    BY <2>1, <2>2, <2>3
<1>9. o.ask.kind = "batch" => Len(o.results) < States(o)
  BY <1>1 DEF Fine, Counted
<1>10. States(r) = States(o) /\ States(o) \in Nat
  BY <1>2, <1>3, JevAssumption DEF States, Ask
<1>11. ASSUME NEW rr, req' = [req EXCEPT ![c] = rr], Fine(rr, state = "ready", told')
       PROVE  EachFine'
  BY <1>11, OneRequest DEF IInv, model
<1>12. \/ BatchGoesOn(r) /\ GoOn(c, r, "agent")
       \/ ~BatchGoesOn(r) /\ BenchGoesOn(r, what) /\ GoOn(c, r, "model")
       \/ ~BatchGoesOn(r) /\ EndWith(c, r, what)
  BY DEF Outcome
<1> HIDE DEF o, r
<1>13. CASE BatchGoesOn(r) /\ GoOn(c, r, "agent")
  <2> DEFINE rr == [r EXCEPT !.step = "agent"]
  <2>1. req' = [req EXCEPT ![c] = rr]
    BY <1>13 DEF GoOn
  <2>2. /\ rr \in Req /\ rr.ask = r.ask /\ rr.results = r.results /\ rr.knew = r.knew
        /\ rr.step = "agent"
    BY <1>3 DEF Req, Steps
  <2>3. r.ask.kind = "batch" /\ Len(r.results) < States(r) /\ States(rr) = States(r)
    BY <1>13, <2>2 DEF BatchGoesOn, States
  <2> HIDE DEF rr
  <2>4. Placed(rr)
    BY <2>2, <2>3 DEF Placed, StepsOf
  <2>5. Dated(rr, state = "ready", told')
    BY <1>5, <1>6, <1>7, <2>2 DEF Dated
  <2>6. Counted(rr)
    BY <1>3, <1>8, <2>2, <2>3 DEF Counted
  <2>7. Told(rr, state = "ready")
    BY <2>2, <2>3 DEF Told
  <2> QED
    BY <1>11, <2>1, <2>4, <2>5, <2>6, <2>7 DEF Fine
<1>14. CASE ~BatchGoesOn(r) /\ BenchGoesOn(r, what) /\ GoOn(c, r, "model")
  <2> DEFINE rr == [r EXCEPT !.step = "model"]
  <2>1. req' = [req EXCEPT ![c] = rr]
    BY <1>14 DEF GoOn
  <2>2. /\ rr \in Req /\ rr.ask = r.ask /\ rr.results = r.results /\ rr.knew = r.knew
        /\ rr.step = "model"
    BY <1>3 DEF Req, Steps
  <2>3. r.ask.kind = "bench" /\ what = "answer"
    BY <1>14 DEF BenchGoesOn
  <2> HIDE DEF rr
  <2>4. Placed(rr)
    BY <2>2, <2>3 DEF Placed, StepsOf
  <2>5. Dated(rr, state = "ready", told')
    BY <1>5, <1>6, <1>7, <2>2, <2>3 DEF Dated
  <2>6. Counted(rr) /\ Told(rr, state = "ready")
    BY <2>2, <2>3 DEF Counted, Told
  <2> QED
    BY <1>11, <2>1, <2>4, <2>5, <2>6 DEF Fine
<1>15. CASE ~BatchGoesOn(r) /\ EndWith(c, r, what)
  <2> DEFINE status == IF r.ask.kind = "batch" THEN 200 ELSE Codes[what]
             step   == IF r.ask.kind \in Coroutines THEN "replied" ELSE "done"
             rr     == WithAnswer(r, status, step)
  <2>1. [r EXCEPT !.status = status].ask = r.ask
    BY <1>3 DEF Req
  <2>2. req' = [req EXCEPT ![c] = rr]
    BY <1>15, <2>1 DEF EndWith, Answered, WithAnswer
  <2>3. status \in Int /\ step \in Steps /\ (status = 200 /\ r.ask.kind # "batch" => what = "answer")
    BY DEF Codes, Steps
  <2>4. /\ rr \in Req /\ rr.ask = r.ask /\ rr.results = r.results /\ rr.knew = r.knew
        /\ rr.step = step /\ rr.status = status
    <3> HIDE DEF status, step
    <3> QED
      BY <1>3, <2>3, RequestAnswered
  <2>5. r.ask.kind = "batch" => States(rr) = States(r) /\ Len(r.results) = States(r)
    BY <1>2, <1>3, <1>4, <1>9, <1>10, <1>15, <2>4 DEF BatchGoesOn, States
  <2>6. status = 200 /\ r.ask.kind = "run" => state = "ready"
    BY <2>3
  <2>7. r.ask.kind = "batch" => status = 200
    OBVIOUS
  <2>8. step = IF r.ask.kind = "run" THEN "done" ELSE "replied"
    BY <1>2, <1>3 DEF Coroutines
  <2> HIDE DEF rr, status, step
  <2>9. Placed(rr)
    BY <1>2, <1>3, <2>4, <2>8 DEF Placed, StepsOf
  <2>10. Dated(rr, state = "ready", told')
    BY <1>2, <1>3, <1>5, <1>6, <1>7, <2>4, <2>6, <2>8 DEF Dated
  <2>11. Counted(rr)
    BY <1>3, <1>8, <2>4, <2>5, <2>7, <2>8 DEF Counted
  <2>12. Told(rr, state = "ready")
    BY <1>2, <1>3, <2>4 DEF Told
  <2> QED
    BY <1>11, <2>2, <2>9, <2>10, <2>11, <2>12 DEF Fine
<1> QED
  BY <1>12, <1>13, <1>14, <1>15
-----------------------------------------------------------------------------
\* A step of a handler, but for its result, leaves a sound request.
LEMMA PrepareKeeps ==
  ASSUME IInv, NEW c \in Clients, Prepare(c), Loader'
  PROVE  EachFine'
<1> DEFINE o == req[c]
<1>1. o # Idle /\ o.step = "agent"
  BY DEF Prepare, Idle
<1>2. Fine(o, state = "ready", told) /\ o \in Req /\ o.step \in StepsOf(o.ask.kind)
  BY <1>1 DEF IInv, EachFine, Fine, Placed
<1>3. o.ask.kind \in {"systemone", "batch", "bench", "run"} /\ o.ask \in Ask
  BY <1>1, <1>2 DEF StepsOf, Req, Ask, Kinds
<1>4. UNCHANGED <<model, told>> /\ (HasAgent <=> state = "ready")
  BY DEF Prepare, HasAgent, IInv, Loader
<1>5. ASSUME NEW rr, req' = [req EXCEPT ![c] = rr], Fine(rr, state = "ready", told)
      PROVE  EachFine'
  BY <1>4, <1>5, OneRequest DEF IInv, model
<1>6. CASE o.ask.kind # "bench" /\ o.ask.q = None
  <2> DEFINE status == IF o.ask.kind = "run" THEN 404 ELSE 422
             step   == IF o.ask.kind \in Coroutines THEN "replied" ELSE "done"
             rr     == WithAnswer(o, status, step)
  <2>1. [o EXCEPT !.status = status].ask = o.ask
    BY <1>2 DEF Req
  <2>2. req' = [req EXCEPT ![c] = rr]
    BY <1>6, <2>1 DEF Prepare, Status, Answered, WithAnswer
  <2>3. /\ rr \in Req /\ rr.ask = o.ask /\ rr.results = o.results /\ rr.knew = o.knew
        /\ rr.step = step /\ rr.status = status
    <3>1. status \in Int /\ step \in Steps
      BY DEF Steps
    <3> HIDE DEF o, status, step
    <3> QED
      BY <1>2, <3>1, RequestAnswered
  <2>4. status # 200 /\ step = IF o.ask.kind = "run" THEN "done" ELSE "replied"
    BY <1>3 DEF Coroutines
  <2> HIDE DEF rr, status, step
  <2>5. Placed(rr)
    BY <1>3, <2>3, <2>4 DEF Placed, StepsOf
  <2>6. Dated(rr, state = "ready", told)
    BY <1>2, <1>3, <2>3, <2>4 DEF Fine, Dated
  <2>7. Counted(rr) /\ Told(rr, state = "ready")
    BY <1>2, <1>3, <1>6, <2>3, <2>4 DEF Fine, Counted, Told
  <2> QED
    BY <1>5, <2>2, <2>5, <2>6, <2>7 DEF Fine
<1>7. CASE ~(o.ask.kind # "bench" /\ o.ask.q = None) /\ ~HasAgent
  <2>1. Outcome(c, "loading")
    BY <1>7 DEF Prepare
  <2> QED
    BY <1>1, <1>4, <1>7, <2>1, OutcomeKeeps
<1>8. CASE /\ ~(o.ask.kind # "bench" /\ o.ask.q = None) /\ HasAgent
           /\ o.ask.kind # "bench" /\ Refused(o.ask.q)
  <2>1. Outcome(c, "refused")
    BY <1>8 DEF Prepare
  <2> QED
    BY <1>1, <1>4, <1>8, <2>1, OutcomeKeeps
<1>9. CASE /\ ~(o.ask.kind # "bench" /\ o.ask.q = None) /\ HasAgent
           /\ ~(o.ask.kind # "bench" /\ Refused(o.ask.q))
  <2> DEFINE rr == [o EXCEPT !.step = "model"]
  <2>1. req' = [req EXCEPT ![c] = rr]
    BY <1>9 DEF Prepare
  <2>2. /\ rr \in Req /\ rr.ask = o.ask /\ rr.results = o.results /\ rr.knew = o.knew
        /\ rr.step = "model"
    BY <1>2 DEF Req, Steps
  <2> HIDE DEF rr
  <2>3. Placed(rr)
    BY <1>3, <2>2 DEF Placed, StepsOf
  <2>4. Dated(rr, state = "ready", told)
    BY <1>2, <1>3, <1>4, <1>9, <2>2 DEF Fine, Dated
  <2>5. Counted(rr)
    BY <1>1, <1>2, <1>3, <1>9, <2>2 DEF Fine, Counted, States
  <2>6. Told(rr, state = "ready")
    BY <1>3, <2>2 DEF Told
  <2> QED
    BY <1>5, <2>1, <2>3, <2>4, <2>5, <2>6 DEF Fine
<1> QED
  BY <1>6, <1>7, <1>8, <1>9

\* The model has answered, or failed, and the request stays sound.
LEMMA ForwardKeeps ==
  ASSUME IInv, NEW c \in Clients, Forward(c)
  PROVE  Loader' /\ EachFine'
<1> DEFINE o == req[c]
<1>1. o # Idle /\ o.step = "model"
  BY DEF Forward, Idle
<1>2. state = "ready" /\ (o.ask.kind = "batch" => o.ask.q # None)
  BY <1>1 DEF IInv, EachFine, Fine, Dated, Counted
<1>3. UNCHANGED model /\ (told => told') /\ told' \in BOOLEAN
  BY DEF Forward, IInv, Loader
<1>4. Loader'
  BY <1>2, <1>3 DEF IInv, Loader, model
<1>5. Outcome(c, "error") \/ Outcome(c, "answer")
  BY DEF Forward
<1> QED
  BY <1>1, <1>2, <1>3, <1>4, <1>5, OutcomeKeeps
-----------------------------------------------------------------------------
\* The steps of the prompter.
LEMMA ChatKeeps ==
  ASSUME IInv, NEW c \in Clients, req[c] # Idle, req[c].ask.kind = "chat",
         NEW rr \in Req, req' = [req EXCEPT ![c] = rr],
         rr.ask = req[c].ask, rr.knew = req[c].knew, rr.step \in StepsOf("chat"),
         rr.step = "done" => rr.status # 200,
         \A i \in DOMAIN rr.results : rr.results[i] = "loading" => ~rr.knew,
         UNCHANGED <<model, told>>
  PROVE  EachFine'
<1>1. Fine(req[c], state = "ready", told)
  BY DEF IInv, EachFine
<1>2. Placed(rr) /\ Counted(rr) /\ Told(rr, state = "ready")
  BY DEF Placed, Counted, Told
<1>3. rr.step # "model"
  BY DEF StepsOf
<1>4. Dated(rr, state = "ready", told)
  BY <1>1, <1>3 DEF Fine, Dated
<1>5. Fine(rr, state = "ready", told)
  BY <1>2, <1>4 DEF Fine
<1>6. Loader'
  BY DEF IInv, Loader, model
<1> QED
  BY <1>5, <1>6, OneRequest DEF IInv, model

\* Only requests of the prompter are where its steps are.
LEMMA ChatIsAt ==
  ASSUME IInv, NEW c \in Clients, req[c] # Idle,
         req[c].step \in {"servers", "models", "open", "stream"}
  PROVE  /\ req[c] \in Req /\ req[c].ask.kind = "chat" /\ req[c].results \in Seq(Words)
         /\ req[c].heard \in Seq(Chunks)
         /\ \A i \in DOMAIN req[c].results : req[c].results[i] = "loading" => ~req[c].knew
<1>1. Fine(req[c], state = "ready", told)
  BY DEF IInv, EachFine
<1>2. req[c].step \in StepsOf(req[c].ask.kind) /\ req[c] \in Req
  BY <1>1 DEF Fine, Placed
<1>3. req[c].ask.kind = "chat" /\ req[c].results \in Seq(Words) /\ req[c].heard \in Seq(Chunks)
  BY <1>2 DEF StepsOf, Req
<1> QED
  BY <1>1, <1>2, <1>3 DEF Fine, Dated

\* The prompter asks the hub for its servers and models.
LEMMA HubKeeps ==
  ASSUME IInv, NEW c \in Clients, AskServers(c) \/ AskModels(c) \/ Open(c)
  PROVE  EachFine'
<1> DEFINE o == req[c]
<1>1. o # Idle /\ o.step \in {"servers", "models", "open"} /\ UNCHANGED <<model, told>>
  BY DEF AskServers, AskModels, Open, Idle
<1>2. /\ o \in Req /\ o.ask.kind = "chat"
      /\ \A i \in DOMAIN o.results : o.results[i] = "loading" => ~o.knew
  BY <1>1, ChatIsAt
<1>3. ASSUME NEW status \in {404, 409, 500, 502, 503}, Status(c, status)
      PROVE  EachFine'
  <2> DEFINE rr == WithAnswer(o, status, "done")
  <2>1. [o EXCEPT !.status = status].ask = o.ask
    BY <1>2 DEF Req
  <2>2. req' = [req EXCEPT ![c] = rr]
    BY <1>2, <1>3, <2>1 DEF Status, Answered, Coroutines, WithAnswer
  <2>3. /\ rr \in Req /\ rr.ask = o.ask /\ rr.results = o.results /\ rr.knew = o.knew
        /\ rr.step = "done" /\ rr.status = status
    <3>1. status \in Int /\ "done" \in Steps
      BY DEF Steps
    <3> HIDE DEF o
    <3> QED
      BY <1>2, <3>1, RequestAnswered
  <2> HIDE DEF rr
  <2>4. rr.status # 200 /\ rr.step \in StepsOf("chat")
    BY <2>3 DEF StepsOf
  <2>5. \A i \in DOMAIN rr.results : rr.results[i] = "loading" => ~rr.knew
    BY <1>2, <2>3
  <2> HIDE DEF o
  <2>6. o = req[c]
    BY DEF o
  <2> QED
    BY <1>1, <1>2, <2>2, <2>3, <2>4, <2>5, <2>6, ChatKeeps, Zenon
<1>4. ASSUME NEW online \in BOOLEAN,
             req' = [req EXCEPT ![c].step = "models", ![c].seen = online]
      PROVE  EachFine'
  <2> DEFINE rr == [[o EXCEPT !.step = "models"] EXCEPT !.seen = online]
  <2>1. req' = [req EXCEPT ![c] = rr]
    BY <1>4
  <2>2. /\ rr \in Req /\ rr.ask = o.ask /\ rr.results = o.results /\ rr.knew = o.knew
        /\ rr.step = "models"
    <3>1. online \in Seen
      BY DEF Seen
    <3> QED
      BY <1>2, <3>1 DEF Req, Steps
  <2> HIDE DEF rr
  <2> QED
    BY <1>1, <1>2, <2>1, <2>2, ChatKeeps DEF StepsOf
<1>5. ASSUME req' = [req EXCEPT ![c].step = "open"]
      PROVE  EachFine'
  <2> DEFINE rr == [o EXCEPT !.step = "open"]
  <2>1. /\ rr \in Req /\ rr.ask = o.ask /\ rr.results = o.results /\ rr.knew = o.knew
        /\ rr.step = "open"
    BY <1>2 DEF Req, Steps
  <2>2. req' = [req EXCEPT ![c] = rr]
    BY <1>5
  <2> HIDE DEF rr
  <2> QED
    BY <1>1, <1>2, <2>1, <2>2, ChatKeeps DEF StepsOf
<1>6. ASSUME req' = [req EXCEPT ![c].step = "stream", ![c].status = 200]
      PROVE  EachFine'
  <2> DEFINE rr == WithAnswer(o, 200, "stream")
  <2>1. /\ rr \in Req /\ rr.ask = o.ask /\ rr.results = o.results /\ rr.knew = o.knew
        /\ rr.step = "stream"
    <3>1. 200 \in Int /\ "stream" \in Steps
      BY DEF Steps
    <3> HIDE DEF o
    <3> QED
      BY <1>2, <3>1, RequestAnswered
  <2>2. req' = [req EXCEPT ![c] = rr]
    BY <1>2, <1>6 DEF Req, IInv, EachFine, WithAnswer
  <2> HIDE DEF rr
  <2> QED
    BY <1>1, <1>2, <2>1, <2>2, ChatKeeps DEF StepsOf
<1>7. CASE AskServers(c)
  BY <1>3, <1>4, <1>7 DEF AskServers
<1>8. CASE AskModels(c)
  BY <1>3, <1>5, <1>8 DEF AskModels
<1>9. CASE Open(c)
  BY <1>3, <1>6, <1>9 DEF Open
<1> QED
  BY <1>7, <1>8, <1>9

\* The prompter passes a chunk on, or ends the stream.
LEMMA StreamKeeps ==
  ASSUME IInv, NEW c \in Clients, Chunk(c) \/ End(c)
  PROVE  EachFine'
<1> DEFINE o == req[c]
<1>1. o # Idle /\ o.step = "stream" /\ UNCHANGED <<model, told>>
  <2>1. CASE Chunk(c)
    <3>1. o.step = "stream" /\ UNCHANGED <<model, loop, queue, told>>
      BY <2>1, Zenon DEF Chunk
    <3> QED
      BY <3>1 DEF Idle
  <2>2. CASE End(c)
    BY <2>2 DEF End, Idle
  <2> QED
    BY <2>1, <2>2
<1>2. /\ o \in Req /\ o.ask.kind = "chat" /\ o.results \in Seq(Words) /\ o.heard \in Seq(Chunks)
      /\ \A i \in DOMAIN o.results : o.results[i] = "loading" => ~o.knew
  BY <1>1, ChatIsAt
<1>3. ASSUME NEW w \in {"text", "error", "done"}
      PROVE  /\ Append(o.results, w) \in Seq(Words)
             /\ \A i \in DOMAIN Append(o.results, w) : Append(o.results, w)[i] = "loading" => ~o.knew
  <2>1. w \in Words
    BY DEF Words
  <2>2. /\ Append(o.results, w) \in Seq(Words) /\ Len(Append(o.results, w)) = Len(o.results) + 1
        /\ DOMAIN Append(o.results, w) = 1..(Len(o.results) + 1)
        /\ \A i \in 1..Len(o.results) : Append(o.results, w)[i] = o.results[i]
        /\ Append(o.results, w)[Len(o.results) + 1] = w
    BY <1>2, <2>1, AppendProperties
  <2> QED
    BY <1>2, <2>2
<1>4. CASE Chunk(c)
  <2>1. PICK x \in Chunks :
          req' = [req EXCEPT ![c].heard = Append(@, x),
                    ![c].results = CASE x \in {"text", "last text"} -> Append(@, "text")
                                     [] x = "error"                 -> Append(@, "error")
                                     [] OTHER                       -> @,
                    ![c].finish = @ \/ x \in {"last text", "finish"}]
    BY <1>4 DEF Chunk
  <2> DEFINE results == CASE x \in {"text", "last text"} -> Append(o.results, "text")
                          [] x = "error"                 -> Append(o.results, "error")
                          [] OTHER                       -> o.results
             finish  == o.finish \/ x \in {"last text", "finish"}
             rr == [[[o EXCEPT !.heard = Append(@, x)] EXCEPT !.results = results] EXCEPT !.finish = finish]
  <2>2. results \in Seq(Words) /\ \A i \in DOMAIN results : results[i] = "loading" => ~o.knew
    BY <1>2, <1>3
  <2>3. finish \in BOOLEAN /\ Append(o.heard, x) \in Seq(Chunks)
    BY <1>2, AppendProperties
  <2>4. req' = [req EXCEPT ![c] = rr]
    BY <1>2, <2>1 DEF IInv, EachFine, Req
  <2> HIDE DEF results, finish
  <2>5. /\ rr \in Req /\ rr.ask = o.ask /\ rr.results = results /\ rr.knew = o.knew
        /\ rr.step = "stream"
    BY <1>1, <1>2, <2>2, <2>3 DEF Req
  <2> HIDE DEF rr
  <2> QED
    BY <1>1, <1>2, <2>2, <2>4, <2>5, ChatKeeps DEF StepsOf
<1>5. CASE End(c)
  <2> DEFINE rr  == [o EXCEPT !.step = "replied"]
             rrd == [[o EXCEPT !.step = "replied"] EXCEPT !.results = Append(@, "done")]
  <2>1. req' = [req EXCEPT ![c] = rr] \/ req' = [req EXCEPT ![c] = rrd]
    BY <1>2, <1>5 DEF End, IInv, EachFine, Req
  <2>2. /\ rr \in Req /\ rr.ask = o.ask /\ rr.results = o.results /\ rr.knew = o.knew
        /\ rr.step = "replied"
    BY <1>2 DEF Req, Steps
  <2>3. /\ rrd \in Req /\ rrd.ask = o.ask /\ rrd.results = Append(o.results, "done")
        /\ rrd.knew = o.knew /\ rrd.step = "replied"
    BY <1>2, <1>3 DEF Req, Steps
  <2> HIDE DEF rr, rrd
  <2>4. ASSUME req' = [req EXCEPT ![c] = rr]
        PROVE  EachFine'
    BY <1>1, <1>2, <2>2, <2>4, ChatKeeps DEF StepsOf
  <2>5. ASSUME req' = [req EXCEPT ![c] = rrd]
        PROVE  EachFine'
    BY <1>1, <1>2, <1>3, <2>3, <2>5, ChatKeeps DEF StepsOf
  <2> QED
    BY <2>1, <2>4, <2>5
<1> QED
  BY <1>4, <1>5
-----------------------------------------------------------------------------
\* The steps of health.
LEMMA HealthKeeps ==
  ASSUME IInv, NEW c \in Clients, ReadState(c) \/ ReadTime(c)
  PROVE  EachFine'
<1> DEFINE o == req[c]
<1>1. o # Idle /\ o.step \in {"state", "time"} /\ UNCHANGED <<model, told>>
  BY DEF ReadState, ReadTime, Idle
<1>2. Fine(o, state = "ready", told) /\ o \in Req
  BY <1>1 DEF IInv, EachFine, Fine, Placed
<1>3. o.ask.kind = "health"
  BY <1>1, <1>2 DEF Fine, Placed, StepsOf
<1>4. ASSUME NEW rr, req' = [req EXCEPT ![c] = rr], Fine(rr, state = "ready", told)
      PROVE  EachFine'
  <2>1. Loader'
    BY <1>1 DEF IInv, Loader, model
  <2> QED
    BY <1>1, <1>4, <2>1, OneRequest DEF IInv, model
<1>5. CASE ReadState(c)
  <2> DEFINE rr == [[o EXCEPT !.step = "time"] EXCEPT !.seen = state]
  <2>1. state \in Seen /\ "time" \in Steps
    BY DEF IInv, Loader, Seen, Steps
  <2>2. req' = [req EXCEPT ![c] = rr]
    BY <1>2, <1>5 DEF ReadState, Req, IInv, EachFine
  <2>3. /\ rr \in Req /\ rr.ask = o.ask /\ rr.results = o.results /\ rr.knew = o.knew
        /\ rr.step = "time" /\ rr.seen = state
    <3> HIDE DEF o
    <3> QED
      BY <1>2, <2>1 DEF Req
  <2> HIDE DEF rr
  <2>4. Placed(rr)
    BY <1>3, <2>3 DEF Placed, StepsOf
  <2>5. Dated(rr, state = "ready", told)
    BY <1>2, <1>3, <2>3 DEF Fine, Dated
  <2>6. Counted(rr)
    BY <1>3, <2>3 DEF Counted
  <2>7. Told(rr, state = "ready")
    BY <1>2, <2>3 DEF Told, Fine, Dated, IInv, Loader
  <2> QED
    BY <1>4, <2>2, <2>4, <2>5, <2>6, <2>7 DEF Fine
<1>6. CASE ReadTime(c)
  <2> DEFINE r2 == [[o EXCEPT !.status = 200] EXCEPT !.finish = loadSec]
             rr == [r2 EXCEPT !.step = "done"]
  <2>1. /\ r2 \in Req /\ r2.ask = o.ask /\ r2.results = o.results /\ r2.knew = o.knew
        /\ r2.seen = o.seen /\ r2.finish = loadSec /\ r2.status = 200
    <3> DEFINE r1 == [o EXCEPT !.status = 200]
    <3>1. loadSec \in BOOLEAN
      BY DEF IInv, Loader
    <3> HIDE DEF o
    <3>2. /\ r1 \in Req /\ r1.ask = o.ask /\ r1.results = o.results /\ r1.knew = o.knew
          /\ r1.seen = o.seen /\ r1.status = 200
      BY <1>2 DEF Req
    <3>3. r2 = [r1 EXCEPT !.finish = loadSec]
      OBVIOUS
    <3> HIDE DEF r1, r2
    <3> QED
      BY <3>1, <3>2, <3>3 DEF Req
  <2>2. req' = [req EXCEPT ![c] = rr]
    BY <1>3, <1>6, <2>1 DEF ReadTime, Answered, Coroutines
  <2> HIDE DEF r2
  <2>3. /\ rr \in Req /\ rr.ask = o.ask /\ rr.results = o.results /\ rr.knew = o.knew
        /\ rr.step = "done" /\ rr.seen = o.seen /\ rr.finish = loadSec /\ rr.status = 200
    BY <2>1 DEF Req, Steps
  <2> HIDE DEF rr
  <2>4. Placed(rr)
    BY <1>3, <2>3 DEF Placed, StepsOf
  <2>5. Dated(rr, state = "ready", told)
    BY <1>2, <1>3, <2>3 DEF Fine, Dated
  <2>6. Counted(rr)
    BY <1>3, <2>3 DEF Counted
  <2>7. o.step = "time"
    BY <1>6 DEF ReadTime
  <2>8. Told(rr, state = "ready")
    BY <1>2, <1>3, <2>3, <2>7 DEF Told, Fine, IInv, Loader
  <2> QED
    BY <1>4, <2>2, <2>4, <2>5, <2>6, <2>8 DEF Fine
<1> QED
  BY <1>5, <1>6

\* An answer is carried out, and what it says is so.
LEMMA DeliverKeeps ==
  ASSUME IInv, NEW c \in Clients, Deliver(c)
  PROVE  Loader' /\ EachFine'
<1> DEFINE o == req[c]
           rr == [o EXCEPT !.step = "replied"]
<1>1. o # Idle /\ o.step = "done" /\ UNCHANGED model
  BY DEF Deliver, Idle
<1>2. Fine(o, state = "ready", told) /\ o \in Req
  BY <1>1 DEF IInv, EachFine, Fine, Placed
<1>3. o.ask.kind \in {"run", "health", "chat"}
  BY <1>1, <1>2 DEF Fine, Placed, StepsOf, Req, Ask, Kinds
<1>4. SaysReady(o) => state = "ready"
  BY <1>1, <1>2 DEF SaysReady, Fine, Dated, Told
<1>5. told' = (told \/ SaysReady(o)) /\ req' = [req EXCEPT ![c] = rr]
  BY DEF Deliver
<1>6. Loader'
  BY <1>1, <1>4, <1>5 DEF IInv, Loader, model, SaysReady
<1>7. /\ rr \in Req /\ rr.ask = o.ask /\ rr.results = o.results /\ rr.knew = o.knew
      /\ rr.step = "replied" /\ rr.seen = o.seen /\ rr.finish = o.finish
  BY <1>2 DEF Req, Steps
<1> HIDE DEF rr
<1>8. Placed(rr)
  BY <1>3, <1>7 DEF Placed, StepsOf
<1>9. Dated(rr, state = "ready", told')
  BY <1>2, <1>3, <1>5, <1>7 DEF Fine, Dated
<1>10. Counted(rr) /\ Told(rr, state = "ready")
  BY <1>1, <1>2, <1>3, <1>7 DEF Fine, Counted, Told
<1>11. Fine(rr, (state = "ready")', told')
  BY <1>1, <1>8, <1>9, <1>10 DEF Fine, model
<1> QED
  BY <1>1, <1>5, <1>6, <1>11, OneRequest DEF IInv, model
-----------------------------------------------------------------------------
\* A new request.
LEMMA SendKeeps ==
  ASSUME IInv, NEW c \in Clients, Send(c)
  PROVE  IInv'
<1>1. PICK ask \in Asked : req' = [req EXCEPT ![c] = Request(ask)]
  BY DEF Send
<1> DEFINE rr == Request(ask)
<1>2. UNCHANGED <<model, told>> /\ queue' = Append(queue, c) /\ req[c].step # "queued"
  BY DEF Send
<1>3. Loader'
  BY <1>2 DEF IInv, Loader, model
<1>4. ask \in Ask
  BY AskedIsAsk
<1>5. rr \in Req
  BY <1>4 DEF Request, Req, Steps, Seen, IInv, Loader
<1>6. /\ rr.step = "queued" /\ rr.ask = ask /\ rr.results = <<>> /\ rr.knew = told
      /\ rr.status = None
  BY DEF Request
<1> HIDE DEF rr
<1>7. Placed(rr)
  BY <1>4, <1>5, <1>6 DEF Placed, StepsOf, Ask, Kinds
<1>8. Dated(rr, state = "ready", told)
  BY <1>6 DEF Dated
<1>9. Counted(rr) /\ Told(rr, state = "ready")
  <2>1. States(rr) \in Nat \ {0} /\ Len(rr.results) = 0
    BY <1>4, <1>6, JevAssumption DEF States, Ask
  <2> QED
    BY <1>6, <2>1 DEF Counted, Told
<1>10. EachFine'
  BY <1>1, <1>2, <1>3, <1>7, <1>8, <1>9, OneRequest DEF IInv, Fine, model, rr
<1>11. Queued'
  <2>1. /\ queue' \in Seq(Clients) /\ Len(queue') = Len(queue) + 1
        /\ queue'[Len(queue) + 1] = c /\ \A i \in 1..Len(queue) : queue'[i] = queue[i]
        /\ Len(queue) \in Nat
    BY <1>2, AppendProperties DEF IInv, Queued
  <2>2. \A i \in 1..Len(queue) : queue[i] \in Clients /\ queue[i] # c
    BY <1>2 DEF IInv, Queued
  <2>3. \A d \in Clients : req'[d] = IF d = c THEN rr ELSE req[d]
    BY <1>1 DEF rr, IInv, EachFine
  <2>4. \A i \in 1..Len(queue') : req'[queue'[i]].step = "queued"
    BY <1>6, <2>1, <2>2, <2>3 DEF IInv, Queued
  <2>5. \A i, j \in 1..Len(queue') : queue'[i] = queue'[j] => i = j
    BY <2>1, <2>2 DEF IInv, Queued
  <2> QED
    BY <2>1, <2>4, <2>5 DEF Queued
<1> QED
  BY <1>3, <1>10, <1>11 DEF IInv

\* The loop takes in whoever came first.
LEMMA TakeInKeeps ==
  ASSUME IInv, TakeIn
  PROVE  IInv'
<1> DEFINE c == Head(queue)
           o == req[c]
           kind == o.ask.kind
           step == CASE kind = "health" -> "state" [] kind = "chat" -> "servers" [] OTHER -> "agent"
           rr == [o EXCEPT !.step = step]
<1>1. /\ queue \in Seq(Clients) /\ queue # <<>> /\ queue' = Tail(queue)
      /\ req' = [req EXCEPT ![c] = rr] /\ UNCHANGED <<model, told>>
  BY DEF TakeIn, IInv, Queued
<1>2. c \in Clients /\ c = queue[1] /\ Len(queue) \in Nat \ {0}
  BY <1>1
<1>3. o.step = "queued" /\ o # Idle
  BY <1>2 DEF IInv, Queued, Idle
<1>4. Fine(o, state = "ready", told) /\ o \in Req /\ kind \in Kinds
  BY <1>2, <1>3 DEF IInv, EachFine, Fine, Placed, Req, Ask
<1>5. Loader'
  BY <1>1 DEF IInv, Loader, model
<1>6. step \in Steps /\ step \in StepsOf(kind) /\ step \notin {"model", "done", "replied", "time", "queued"}
  BY <1>4 DEF Steps, StepsOf, Kinds
<1>7. /\ rr \in Req /\ rr.ask = o.ask /\ rr.results = o.results /\ rr.knew = o.knew
      /\ rr.step = step /\ rr.status = o.status
  <2> HIDE DEF step, o
  <2> QED
    BY <1>4, <1>6 DEF Req
<1> HIDE DEF rr, step
<1>8. Placed(rr)
  BY <1>6, <1>7 DEF Placed
<1>9. Dated(rr, state = "ready", told)
  BY <1>4, <1>6, <1>7 DEF Fine, Dated
<1>10. Counted(rr) /\ Told(rr, state = "ready")
  BY <1>3, <1>4, <1>6, <1>7 DEF Fine, Counted, Told, States
<1>11. EachFine'
  BY <1>1, <1>2, <1>5, <1>8, <1>9, <1>10, OneRequest DEF IInv, Fine, model
<1>12. Queued'
  <2>1. /\ queue' \in Seq(Clients) /\ Len(queue') = Len(queue) - 1
        /\ \A i \in 1..(Len(queue) - 1) : queue'[i] = queue[i + 1]
    BY <1>1, <1>2, HeadTailProperties
  <2>2. \A i \in 1..(Len(queue) - 1) : queue[i + 1] \in Clients /\ queue[i + 1] # c
    BY <1>1, <1>2 DEF IInv, Queued
  <2>3. \A d \in Clients : d # c => req'[d] = req[d]
    BY <1>1 DEF IInv, EachFine
  <2> HIDE DEF c
  <2>4. \A i \in 1..Len(queue') : req'[queue'[i]].step = "queued"
    BY <1>2, <2>1, <2>2, <2>3 DEF IInv, Queued
  <2>5. \A i, j \in 1..Len(queue') : queue'[i] = queue'[j] => i = j
    BY <1>2, <2>1 DEF IInv, Queued
  <2> QED
    BY <2>1, <2>4, <2>5 DEF Queued
<1> QED
  BY <1>5, <1>11, <1>12 DEF IInv

\* The loader only ever adds.
LEMMA PreloadKeeps ==
  ASSUME IInv, Preload
  PROVE  IInv'
<1>1. Loader' /\ (state = "ready" => state' = "ready") /\ UNCHANGED <<queue, req, told>>
  BY DEF Preload, IInv, Loader
<1>2. Queued'
  BY <1>1 DEF IInv, Queued
<1>3. ASSUME NEW c \in Clients, req[c] # Idle
      PROVE  Fine(req[c], state' = "ready", told)
  <2>1. Fine(req[c], state = "ready", told) /\ told \in BOOLEAN
    BY <1>3 DEF IInv, EachFine, Loader
  <2> QED
    BY <1>1, <2>1, FineStays
<1>4. EachFine'
  BY <1>1, <1>3 DEF IInv, EachFine
<1> QED
  BY <1>1, <1>2, <1>4 DEF IInv

\* Nobody who waits to be taken in has a handler, and a handler touches one request.
LEMMA OutcomeIsOwn ==
  ASSUME NEW c \in Clients, NEW what, req \in [Clients -> Req \cup {Idle}], Outcome(c, what)
  PROVE  \A d \in Clients \ {c} : req'[d] = req[d]
  BY DEF Outcome, GoOn, EndWith, Answered

\* Each handler's step is one of its own request.
LEMMA HandlersAreApart ==
  ASSUME IInv, NEW c \in Clients, Handle(c)
  PROVE  /\ req[c].step # "queued" /\ queue' = queue
         /\ \A d \in Clients \ {c} : req'[d] = req[d]
<1>1. req \in [Clients -> Req \cup {Idle}]
  BY DEF IInv, EachFine
<1>2. CASE Prepare(c)
  <2>1. /\ req[c].step = "agent" /\ queue' = queue
        /\ \/ \E what \in {"loading", "refused"} : Outcome(c, what)
           \/ \E status \in {404, 422} : Status(c, status)
           \/ req' = [req EXCEPT ![c].step = "model"]
    BY <1>2 DEF Prepare
  <2> QED
    BY <1>1, <2>1, OutcomeIsOwn DEF Status, Answered
<1>3. CASE Forward(c)
  <2>1. /\ req[c].step = "model" /\ queue' = queue
        /\ \E what \in {"error", "answer"} : Outcome(c, what)
    BY <1>3 DEF Forward
  <2> QED
    BY <1>1, <2>1, OutcomeIsOwn
<1>4. CASE ReadState(c) \/ ReadTime(c) \/ Deliver(c)
  BY <1>1, <1>4 DEF ReadState, ReadTime, Deliver, Answered
<1>5. CASE AskServers(c)
  BY <1>1, <1>5 DEF AskServers, Status, Answered
<1>6. CASE AskModels(c)
  BY <1>1, <1>6 DEF AskModels, Status, Answered
<1>7. CASE Open(c)
  BY <1>1, <1>7 DEF Open, Status, Answered
<1>8. CASE Chunk(c)
  <2>1. /\ req[c].step = "stream" /\ queue' = queue /\ \E r : req' = [req EXCEPT ![c] = r]
    BY <1>8 DEF Chunk
  <2> QED
    BY <1>1, <2>1
<1>9. CASE End(c)
  BY <1>1, <1>9 DEF End
<1> QED
  BY <1>2, <1>3, <1>4, <1>5, <1>6, <1>7, <1>8, <1>9 DEF Handle

\* Every step of a handler keeps the invariant.
LEMMA HandleKeeps ==
  ASSUME IInv, NEW c \in Clients, Handle(c)
  PROVE  IInv'
<1>1. Loader' /\ EachFine'
  <2>1. CASE Forward(c)
    BY <2>1, ForwardKeeps
  <2>2. CASE Deliver(c)
    BY <2>2, DeliverKeeps
  <2>3. CASE ~Forward(c) /\ ~Deliver(c)
    <3>1. UNCHANGED <<model, told>>
      <4>1. CASE Chunk(c)
        BY <4>1, Zenon DEF Chunk
      <4>2. CASE ~Chunk(c)
        BY <2>3, <4>2 DEF Handle, Prepare, ReadState, ReadTime, AskServers, AskModels, Open, End
      <4> QED
        BY <4>1, <4>2
    <3>2. Loader'
      BY <3>1 DEF IInv, Loader, model
    <3>3. EachFine'
      BY <2>3, <3>2, PrepareKeeps, HealthKeeps, HubKeeps, StreamKeeps DEF Handle
    <3> QED
      BY <3>2, <3>3
  <2> QED
    BY <2>1, <2>2, <2>3
<1>2. Queued'
  BY HandlersAreApart DEF IInv, Queued
<1> QED
  BY <1>1, <1>2 DEF IInv
-----------------------------------------------------------------------------
\* The inductive invariant: globals in the order of their assignment, a queue
\* without repetitions, and requests that are sound where they are.
THEOREM ServiceInvariant == Spec => []IInv
<1>1. Init => IInv
  <2> SUFFICES ASSUME Init
               PROVE  IInv
    OBVIOUS
  <2>1. Loader
    BY DEF Init, Loader
  <2>2. Queued
    BY DEF Init, Queued
  <2>3. EachFine
    BY DEF Init, EachFine
  <2> QED
    BY <2>1, <2>2, <2>3 DEF IInv
<1>2. IInv /\ [Next]_vars => IInv'
  <2> SUFFICES ASSUME IInv, [Next]_vars
               PROVE  IInv'
    OBVIOUS
  <2>1. CASE Preload
    BY <2>1, PreloadKeeps
  <2>2. CASE TakeIn
    BY <2>2, TakeInKeeps
  <2>3. ASSUME NEW c \in Clients, Send(c)
        PROVE  IInv'
    BY <2>3, SendKeeps
  <2>4. ASSUME NEW c \in Clients, Handle(c)
        PROVE  IInv'
    BY <2>4, HandleKeeps
  <2>5. CASE UNCHANGED vars
    BY <2>5 DEF vars, model, IInv, Loader, Queued, EachFine
  <2> QED
    BY <2>1, <2>2, <2>3, <2>4, <2>5 DEF Next
<1> QED
  BY <1>1, <1>2, PTL DEF Spec

\* A service that answered as one that is loaded does not go back to loading, and who
\* is told that it is ready is told the time it took.
THEOREM ReadinessIsKept == Spec => []LoadedStaysLoaded
<1>1. IInv => LoadedStaysLoaded
  <2> SUFFICES ASSUME IInv, NEW c \in Clients, req[c].step # "idle"
               PROVE  /\ req[c].knew =>
                           /\ \A i \in DOMAIN req[c].results : req[c].results[i] # "loading"
                           /\ Replied(c, "health") => req[c].seen = "ready"
                      /\ Replied(c, "health") /\ req[c].seen = "ready" => req[c].finish
    BY DEF LoadedStaysLoaded
  <2>1. Fine(req[c], state = "ready", told)
    BY DEF IInv, EachFine, Idle
  <2> QED
    BY <2>1 DEF Fine, Dated, Told, Replied
<1> QED
  BY <1>1, ServiceInvariant, PTL

\* A batch has an entry for each of its states, and none says "loading" after one
\* that does not.
THEOREM BatchesAreIsolated == Spec => []BatchIsolated
<1>1. IInv => BatchIsolated
  <2> SUFFICES ASSUME IInv, NEW c \in Clients, Replied(c, "batch"), req[c].ask.q # None
               PROVE  /\ req[c].status = 200 /\ Len(req[c].results) = States(req[c])
                      /\ \A i, j \in DOMAIN req[c].results :
                           i < j /\ req[c].results[j] = "loading" => req[c].results[i] = "loading"
    BY DEF BatchIsolated
  <2>1. req[c].step = "replied" /\ req[c].ask.kind = "batch" /\ req[c] # Idle
    BY DEF Replied, Idle
  <2>2. Fine(req[c], state = "ready", told)
    BY <2>1 DEF IInv, EachFine
  <2> QED
    BY <2>1, <2>2 DEF Fine, Counted
<1> QED
  BY <1>1, ServiceInvariant, PTL
-----------------------------------------------------------------------------
(* What the prompter passes on.                                            *)

\* A request of the prompter: nothing was heard before the stream, and what was is
\* with the client.
Streamed(r) ==
  /\ r.step \in {"queued", "servers", "models", "open"} => r.heard = <<>> /\ r.results = <<>>
  /\ r.step = "stream" => PassedOn(r.heard, r.results, Len(r.results))
  /\ r.step = "replied" /\ r.status = 200 =>
       \/ PassedOn(r.heard, r.results, Len(r.results))
       \/ /\ r.results # <<>> /\ r.results[Len(r.results)] = "done"
          /\ PassedOn(r.heard, r.results, Len(r.results) - 1)

Streams == \A c \in Clients : req[c] # Idle /\ req[c].ask.kind = "chat" => Streamed(req[c])

\* The chunks that carry something.
LEMMA PassedIs ==
  ASSUME NEW heard \in Seq(Chunks)
  PROVE  /\ Passed(heard) \subseteq 1..Len(heard) /\ Passed(heard) \subseteq Nat
         /\ IsFiniteSet(Passed(heard)) /\ Len(heard) \in Nat
         /\ \A k \in 1..Len(heard) :
              k \in Passed(heard) <=> heard[k] \in {"text", "last text", "error"}
<1>1. DOMAIN heard = 1..Len(heard) /\ Len(heard) \in Nat
  OBVIOUS
<1>2. Passed(heard) \subseteq 1..Len(heard)
  BY <1>1 DEF Passed
<1>3. 1..Len(heard) \subseteq Nat
  BY <1>1
<1>4. IsFiniteSet(1..Len(heard))
  BY <1>1, FS_Interval
<1>5. IsFiniteSet(Passed(heard))
  BY <1>2, <1>4, FS_Subset
<1>6. \A k \in 1..Len(heard) :
        k \in Passed(heard) <=> heard[k] \in {"text", "last text", "error"}
  BY <1>1 DEF Passed
<1> QED
  BY <1>1, <1>2, <1>3, <1>5, <1>6

\* The places of the chunks that carry something are those of a sequence.
LEMMA Places ==
  ASSUME NEW heard \in Seq(Chunks), NEW k \in Nat
  PROVE  /\ Place(heard, k) \in Nat
         /\ k \in Passed(heard) => Place(heard, k) \in 1..Place(heard, Len(heard))
<1> DEFINE Upto(n) == {j \in Passed(heard) : j <= n}
<1>1. /\ Passed(heard) \subseteq 1..Len(heard) /\ Len(heard) \in Nat
      /\ IsFiniteSet(Passed(heard)) /\ Passed(heard) \subseteq Nat
  BY PassedIs
<1>2. /\ IsFiniteSet(Upto(k)) /\ IsFiniteSet(Upto(Len(heard)))
      /\ Upto(k) \subseteq Upto(Len(heard))
  <2>1. /\ Upto(k) \subseteq Passed(heard) /\ Upto(Len(heard)) \subseteq Passed(heard)
        /\ Upto(k) \subseteq Upto(Len(heard))
    BY <1>1
  <2> QED
    BY <1>1, <2>1, FS_Subset
<1>3. Cardinality(Upto(k)) \in Nat /\ Cardinality(Upto(k)) <= Cardinality(Upto(Len(heard)))
  BY <1>2, FS_CardinalityType, FS_Subset
<1>4. k \in Passed(heard) => Cardinality(Upto(k)) # 0
  BY <1>2, FS_EmptySet
<1>5. Cardinality(Upto(Len(heard))) \in Nat
  BY <1>2, FS_CardinalityType
<1> QED
  BY <1>3, <1>4, <1>5 DEF Place

\* P are the indices at which the entries of old lie in W, and Q those of more, which
\* has one more entry, x.
OneMore(n, old, more, W, x, P, Q) ==
  /\ P \subseteq 1..n /\ \A k \in 1..n : k \in P <=> old[k] \in W
  /\ Q \subseteq 1..(n + 1) /\ \A k \in 1..(n + 1) : k \in Q <=> more[k] \in W
  /\ more[n + 1] = x /\ \A k \in 1..n : more[k] = old[k]

\* One more entry adds at most its own index.
LEMMA OneMoreIndex ==
  ASSUME NEW n \in Nat, NEW old, NEW more, NEW W, NEW x, NEW P, NEW Q,
         OneMore(n, old, more, W, x, P, Q)
  PROVE  /\ x \in W => Q = P \cup {n + 1}
         /\ x \notin W => Q = P
         /\ n + 1 \notin P /\ \A k \in P : k # n + 1 /\ more[k] = old[k]
         /\ \A k \in 1..n : {j \in Q : j <= k} = {j \in P : j <= k}
         /\ {j \in P : j <= n} = P /\ {j \in Q : j <= n + 1} = Q
<1> USE DEF OneMore
<1>1. n + 1 \in 1..(n + 1) /\ n + 1 \notin 1..n /\ \A k \in 1..n : k \in 1..(n + 1) /\ k <= n
  OBVIOUS
<1>2. \A k \in 1..(n + 1) : (k = n + 1 \/ k \in 1..n) /\ k <= n + 1
  OBVIOUS
<1>3. P \subseteq Q /\ \A k \in Q : k \in P \/ k = n + 1
  BY <1>1, <1>2
<1>4. n + 1 \in Q <=> x \in W
  BY <1>1
<1>5. \A k \in 1..n : {j \in Q : j <= k} = {j \in P : j <= k}
  <2> SUFFICES ASSUME NEW k \in 1..n, NEW j \in Q, j <= k
               PROVE  j \in P
    BY <1>3
  <2>1. j # n + 1
    OBVIOUS
  <2> QED
    BY <1>3, <2>1
<1>6. n + 1 \notin P /\ \A k \in P : k # n + 1 /\ more[k] = old[k]
  BY <1>1
<1>7. {j \in P : j <= n} = P /\ {j \in Q : j <= n + 1} = Q
  BY <1>1, <1>2
<1> QED
  BY <1>3, <1>4, <1>5, <1>6, <1>7

\* A further chunk takes the next place if it carries something, and none else; it
\* moves no other.
LEMMA NextPlace ==
  ASSUME NEW heard \in Seq(Chunks), NEW x \in Chunks
  PROVE  LET more == Append(heard, x)
             carries == x \in {"text", "last text", "error"}
         IN /\ Len(more) = Len(heard) + 1 /\ more[Len(more)] = x
            /\ \A k \in Passed(heard) : k # Len(more) /\ more[k] = heard[k] /\ Place(more, k) = Place(heard, k)
            /\ carries  => /\ Passed(more) = Passed(heard) \cup {Len(more)}
                           /\ Place(more, Len(more)) = Place(heard, Len(heard)) + 1
            /\ ~carries => /\ Passed(more) = Passed(heard)
                           /\ Place(more, Len(more)) = Place(heard, Len(heard))
<1> DEFINE W == {"text", "last text", "error"}
           more == Append(heard, x)
           n == Len(heard)
           P == Passed(heard)
           Q == Passed(more)
<1>1. /\ more \in Seq(Chunks) /\ Len(more) = n + 1 /\ more[n + 1] = x /\ n \in Nat
      /\ \A k \in 1..n : more[k] = heard[k]
  BY AppendProperties
<1>2. /\ P \subseteq 1..n /\ IsFiniteSet(P) /\ \A k \in 1..n : k \in P <=> heard[k] \in W
  BY PassedIs
<1>3. /\ Q \subseteq 1..(n + 1) /\ \A k \in 1..(n + 1) : k \in Q <=> more[k] \in W
  <2> HIDE DEF more
  <2> QED
    BY <1>1, PassedIs
<1>4. /\ \A k : Place(heard, k) = Cardinality({j \in P : j <= k})
      /\ \A k : Place(more, k) = Cardinality({j \in Q : j <= k})
  BY DEF Place
<1> HIDE DEF W, more, n, P, Q
<1>5. /\ x \in W => Q = P \cup {n + 1}
      /\ x \notin W => Q = P
      /\ n + 1 \notin P /\ \A k \in P : k # n + 1 /\ more[k] = heard[k]
      /\ \A k \in 1..n : {j \in Q : j <= k} = {j \in P : j <= k}
      /\ {j \in P : j <= n} = P /\ {j \in Q : j <= n + 1} = Q
  <2>1. OneMore(n, heard, more, W, x, P, Q)
    BY <1>1, <1>2, <1>3 DEF OneMore
  <2> QED
    BY <1>1, <2>1, OneMoreIndex
<1>6. \A k \in P : Place(more, k) = Place(heard, k)
  BY <1>2, <1>4, <1>5
<1>7. Place(heard, n) = Cardinality(P) /\ Place(more, n + 1) = Cardinality(Q)
  BY <1>4, <1>5
<1>8. Cardinality(P \cup {n + 1}) = Cardinality(P) + 1
  BY <1>2, <1>5, FS_AddElement
<1>9. /\ Len(more) = n + 1 /\ more[n + 1] = x
      /\ \A k \in P : k # n + 1 /\ more[k] = heard[k] /\ Place(more, k) = Place(heard, k)
      /\ x \in W => Q = P \cup {n + 1} /\ Place(more, n + 1) = Place(heard, n) + 1
      /\ x \notin W => Q = P /\ Place(more, n + 1) = Place(heard, n)
  BY <1>1, <1>5, <1>6, <1>7, <1>8
<1> QED
  BY <1>9 DEF W, more, n, P, Q

\* What is passed on of one more chunk.
Passing(got, x) ==
  CASE x \in {"text", "last text"} -> Append(got, "text")
    [] x = "error"                 -> Append(got, "error")
    [] OTHER                       -> got

\* A chunk is passed on in its place.
LEMMA PassingOn ==
  ASSUME NEW heard \in Seq(Chunks), NEW got \in Seq(Words), NEW x \in Chunks,
         PassedOn(heard, got, Len(got))
  PROVE  PassedOn(Append(heard, x), Passing(got, x), Len(Passing(got, x)))
<1> DEFINE more == Append(heard, x)
           now == Passing(got, x)
           carries == x \in {"text", "last text", "error"}
           Entry(y) == IF y = "error" THEN "error" ELSE "text"
<1>1. /\ Len(more) = Len(heard) + 1 /\ more[Len(more)] = x
      /\ \A k \in Passed(heard) : k # Len(more) /\ more[k] = heard[k] /\ Place(more, k) = Place(heard, k)
      /\ carries  => /\ Passed(more) = Passed(heard) \cup {Len(more)}
                     /\ Place(more, Len(more)) = Place(heard, Len(heard)) + 1
      /\ ~carries => /\ Passed(more) = Passed(heard)
                     /\ Place(more, Len(more)) = Place(heard, Len(heard))
  BY NextPlace
<1>2. /\ Len(got) = Place(heard, Len(heard)) /\ Len(got) \in Nat
      /\ \A k \in Passed(heard) : got[Place(heard, k)] = Entry(heard[k])
  BY DEF PassedOn
<1>3. \A k \in Passed(heard) : Place(heard, k) \in 1..Len(got)
  <2>1. Passed(heard) \subseteq Nat
    BY PassedIs
  <2> QED
    BY <1>2, <2>1, Places
<1>4. CASE carries
  <2>1. now = Append(got, Entry(x))
    BY <1>4 DEF Passing
  <2>2. Entry(x) \in Words
    BY DEF Words
  <2>3. /\ Len(now) = Len(got) + 1 /\ now[Len(got) + 1] = Entry(x)
        /\ \A i \in 1..Len(got) : now[i] = got[i]
    BY <2>1, <2>2, AppendProperties
  <2> HIDE DEF now, more
  <2>4. Len(now) = Place(more, Len(more))
    BY <1>1, <1>2, <1>4, <2>3
  <2>5. ASSUME NEW k \in Passed(more)
        PROVE  now[Place(more, k)] = Entry(more[k])
    <3>1. CASE k = Len(more)
      BY <1>1, <1>2, <1>4, <2>3, <3>1
    <3>2. CASE k \in Passed(heard)
      BY <1>1, <1>2, <1>3, <2>3, <3>2
    <3> QED
      BY <1>1, <1>4, <3>1, <3>2
  <2>6. PassedOn(more, now, Len(now))
    BY <2>4, <2>5 DEF PassedOn
  <2> QED
    BY <2>6 DEF more, now
<1>5. CASE ~carries
  <2>1. now = got
    BY <1>5 DEF Passing
  <2> HIDE DEF now, more
  <2>2. PassedOn(more, now, Len(now))
    BY <1>1, <1>2, <1>5, <2>1 DEF PassedOn
  <2> QED
    BY <2>2 DEF more, now
<1> QED
  BY <1>4, <1>5

\* An end after what was passed on hides none of it.
LEMMA EndHidesNothing ==
  ASSUME NEW heard \in Seq(Chunks), NEW got \in Seq(Words), PassedOn(heard, got, Len(got))
  PROVE  LET all == Append(got, "done") IN
         all # <<>> /\ all[Len(all)] = "done" /\ PassedOn(heard, all, Len(all) - 1)
<1> DEFINE all == Append(got, "done")
<1>1. "done" \in Words
  BY DEF Words
<1>2. /\ all # <<>> /\ Len(all) = Len(got) + 1 /\ Len(got) \in Nat /\ all[Len(got) + 1] = "done"
      /\ \A i \in 1..Len(got) : all[i] = got[i]
  BY <1>1, AppendProperties
<1> HIDE DEF all
<1>3. \A k \in Passed(heard) : Place(heard, k) \in 1..Len(got)
  <2>1. Passed(heard) \subseteq Nat
    BY PassedIs
  <2> QED
    BY <2>1, Places DEF PassedOn
<1>4. PassedOn(heard, all, Len(all) - 1)
  BY <1>2, <1>3 DEF PassedOn
<1> QED
  BY <1>2, <1>4 DEF all

\* Nothing was heard, and nothing passed on.
LEMMA NothingHeard == PassedOn(<<>>, <<>>, 0)
<1>1. Passed(<<>>) = {} /\ Len(<<>>) = 0
  BY DEF Passed
<1>2. Place(<<>>, 0) = 0
  BY <1>1, FS_EmptySet DEF Place
<1> QED
  BY <1>1, <1>2 DEF PassedOn

\* An outcome leaves what was asked as it is.
LEMMA OutcomeKeepsAsk ==
  ASSUME IInv, NEW c \in Clients, req[c] # Idle,
         NEW what \in {"loading", "refused", "error", "answer"}, Outcome(c, what)
  PROVE  req'[c].ask = req[c].ask
<1> DEFINE o == req[c]
           r == [o EXCEPT !.results = Append(@, what)]
<1>1. o \in Req /\ req \in [Clients -> Req \cup {Idle}]
  BY DEF IInv, EachFine, Fine, Placed
<1>2. r \in Req /\ r.ask = o.ask
  <2>1. Append(o.results, what) \in Seq(Words)
    BY <1>1, what \in Words DEF Req, Words
  <2> QED
    BY <1>1, <2>1 DEF Req
<1> HIDE DEF r
<1>3. \/ \E s : req'[c] = [r EXCEPT !.step = s]
      \/ \E s, t : req'[c] = [[r EXCEPT !.status = t] EXCEPT !.step = s]
  <2>1. \/ \E s : req' = [req EXCEPT ![c] = [r EXCEPT !.step = s]]
        \/ \E t, s : req' = [req EXCEPT ![c] = [[r EXCEPT !.status = t] EXCEPT !.step = s]]
    BY DEF Outcome, GoOn, EndWith, Answered, r
  <2> QED
    BY <1>1, <2>1
<1>4. ASSUME NEW s
      PROVE  [r EXCEPT !.step = s].ask = r.ask
  BY <1>2 DEF Req
<1>5. ASSUME NEW s, NEW t
      PROVE  [[r EXCEPT !.status = t] EXCEPT !.step = s].ask = r.ask
  BY <1>2 DEF Req
<1> QED
  BY <1>2, <1>3, <1>4, <1>5

\* The steps that are not the prompter's change requests that are not.
LEMMA OthersAreOthers ==
  ASSUME IInv, NEW c \in Clients,
         Prepare(c) \/ Forward(c) \/ ReadState(c) \/ ReadTime(c)
  PROVE  req[c] # Idle /\ req'[c].ask.kind # "chat"
<1> DEFINE o == req[c]
<1>1. o # Idle /\ o.step \in {"agent", "model", "state", "time"}
  BY DEF Prepare, Forward, ReadState, ReadTime, Idle
<1>2. Placed(o) /\ o \in Req /\ req \in [Clients -> Req \cup {Idle}]
  BY <1>1 DEF IInv, EachFine, Fine, Placed
<1>3. o.ask.kind # "chat"
  BY <1>1, <1>2 DEF Placed, StepsOf
<1>4. ASSUME NEW rr, req' = [req EXCEPT ![c] = rr], rr.ask = o.ask
      PROVE  req'[c].ask = o.ask
  BY <1>2, <1>4
<1>5. CASE Prepare(c)
  <2>1. CASE \E what \in {"loading", "refused"} : Outcome(c, what)
    BY <1>1, <1>3, <2>1, OutcomeKeepsAsk
  <2>2. CASE \E status \in {404, 422} : Status(c, status)
    <3>1. PICK status \in {404, 422} : Status(c, status)
      BY <2>2
    <3> DEFINE r == [o EXCEPT !.status = status]
    <3>2. \E s \in {"replied", "done"} : req' = [req EXCEPT ![c] = [r EXCEPT !.step = s]]
      BY <3>1 DEF Status, Answered
    <3>3. \A s \in {"replied", "done"} : [r EXCEPT !.step = s].ask = o.ask
      BY <1>2 DEF Req
    <3> QED
      BY <1>1, <1>3, <1>4, <3>2, <3>3
  <2>3. CASE req' = [req EXCEPT ![c].step = "model"]
    <3>1. [o EXCEPT !.step = "model"].ask = o.ask
      BY <1>2 DEF Req
    <3> QED
      BY <1>1, <1>3, <1>4, <2>3, <3>1
  <2> QED
    BY <1>5, <2>1, <2>2, <2>3 DEF Prepare
<1>6. CASE Forward(c)
  BY <1>1, <1>3, <1>6, OutcomeKeepsAsk DEF Forward
<1>7. CASE ReadState(c)
  <2> DEFINE rr == [[o EXCEPT !.step = "time"] EXCEPT !.seen = state]
  <2>1. req' = [req EXCEPT ![c] = rr]
    BY <1>2, <1>7 DEF ReadState
  <2>2. rr.ask = o.ask
    BY <1>2 DEF Req
  <2> QED
    BY <1>1, <1>3, <1>4, <2>1, <2>2
<1>8. CASE ReadTime(c)
  <2> DEFINE r == [[o EXCEPT !.status = 200] EXCEPT !.finish = loadSec]
  <2>1. \E s \in {"replied", "done"} : req' = [req EXCEPT ![c] = [r EXCEPT !.step = s]]
    BY <1>8 DEF ReadTime, Answered
  <2>2. \A s \in {"replied", "done"} : [r EXCEPT !.step = s].ask = o.ask
    BY <1>2 DEF Req
  <2> QED
    BY <1>1, <1>3, <1>4, <2>1, <2>2
<1> QED
  BY <1>1, <1>5, <1>6, <1>7, <1>8

\* Whoever asks the hub has heard nothing yet.
LEMMA HubStreams ==
  ASSUME IInv, Streams, NEW c \in Clients, AskServers(c) \/ AskModels(c) \/ Open(c)
  PROVE  Streamed(req'[c])
<1> DEFINE o == req[c]
<1>1. o # Idle /\ o.step \in {"servers", "models", "open"}
  BY DEF AskServers, AskModels, Open, Idle
<1>2. /\ o \in Req /\ o.ask.kind = "chat" /\ req \in [Clients -> Req \cup {Idle}]
      /\ o.heard = <<>> /\ o.results = <<>>
  BY <1>1, ChatIsAt DEF Streams, Streamed, IInv, EachFine
<1>3. ASSUME NEW rr, req' = [req EXCEPT ![c] = rr], rr.heard = o.heard, rr.results = o.results,
             rr.step \in {"models", "open", "stream", "done"}
      PROVE  /\ req'[c].heard = <<>> /\ req'[c].results = <<>>
             /\ req'[c].step \in {"models", "open", "stream", "done"}
  BY <1>2, <1>3
<1>4. ASSUME NEW status, NEW step \in {"stream", "done"}
      PROVE  LET rr == [[o EXCEPT !.status = status] EXCEPT !.step = step] IN
             /\ [o EXCEPT !.status = status].ask.kind = "chat"
             /\ rr.heard = o.heard /\ rr.results = o.results /\ rr.step = step
  BY <1>2 DEF Req
<1>5. ASSUME NEW status, Status(c, status)
      PROVE  req' = [req EXCEPT ![c] = [[o EXCEPT !.status = status] EXCEPT !.step = "done"]]
  BY <1>4, <1>5 DEF Status, Answered, Coroutines
<1>6. ASSUME NEW step \in {"models", "open"}, NEW online
      PROVE  /\ LET rr == [[o EXCEPT !.step = step] EXCEPT !.seen = online] IN
                rr.heard = o.heard /\ rr.results = o.results /\ rr.step = step
             /\ LET rr == [o EXCEPT !.step = step] IN
                rr.heard = o.heard /\ rr.results = o.results /\ rr.step = step
  BY <1>2 DEF Req
<1>7. \/ \E status : Status(c, status)
      \/ \E online : req' = [req EXCEPT ![c] = [[o EXCEPT !.step = "models"] EXCEPT !.seen = online]]
      \/ req' = [req EXCEPT ![c] = [o EXCEPT !.step = "open"]]
      \/ req' = [req EXCEPT ![c] = [[o EXCEPT !.status = 200] EXCEPT !.step = "stream"]]
  <2>1. CASE AskServers(c)
    BY <1>2, <2>1 DEF AskServers
  <2>2. CASE AskModels(c)
    BY <1>2, <2>2 DEF AskModels
  <2>3. CASE Open(c)
    <3>1. Status(c, 502) \/ req' = [req EXCEPT ![c].step = "stream", ![c].status = 200]
      BY <2>3 DEF Open
    <3>2. [[o EXCEPT !.step = "stream"] EXCEPT !.status = 200]
            = [[o EXCEPT !.status = 200] EXCEPT !.step = "stream"]
      BY <1>2 DEF Req
    <3> QED
      BY <1>2, <3>1, <3>2
  <2> QED
    BY <2>1, <2>2, <2>3
<1>8. /\ req'[c].heard = <<>> /\ req'[c].results = <<>>
      /\ req'[c].step \in {"models", "open", "stream", "done"}
  <2>1. CASE \E status : Status(c, status)
    <3>1. PICK status : Status(c, status)
      BY <2>1
    <3> QED
      BY <1>3, <1>4, <1>5, <3>1
  <2>2. CASE \E online : req' = [req EXCEPT ![c] = [[o EXCEPT !.step = "models"] EXCEPT !.seen = online]]
    <3>1. PICK online : req' = [req EXCEPT ![c] = [[o EXCEPT !.step = "models"] EXCEPT !.seen = online]]
      BY <2>2
    <3> DEFINE rr == [[o EXCEPT !.step = "models"] EXCEPT !.seen = online]
    <3>2. rr.heard = o.heard /\ rr.results = o.results /\ rr.step = "models"
      BY <1>6
    <3> HIDE DEF rr
    <3>3. req' = [req EXCEPT ![c] = rr]
      BY <3>1 DEF rr
    <3> QED
      BY <1>3, <3>2, <3>3
  <2>3. CASE req' = [req EXCEPT ![c] = [o EXCEPT !.step = "open"]]
    BY <1>3, <1>6, <2>3
  <2>4. CASE req' = [req EXCEPT ![c] = [[o EXCEPT !.status = 200] EXCEPT !.step = "stream"]]
    <3> DEFINE rr == [[o EXCEPT !.status = 200] EXCEPT !.step = "stream"]
    <3>1. rr.heard = o.heard /\ rr.results = o.results /\ rr.step = "stream"
      BY <1>4
    <3> HIDE DEF rr
    <3>2. req' = [req EXCEPT ![c] = rr]
      BY <2>4 DEF rr
    <3> QED
      BY <1>3, <3>1, <3>2
  <2> QED
    BY <1>7, <2>1, <2>2, <2>3, <2>4
<1>9. Len(<<>>) = 0
  OBVIOUS
<1> QED
  BY <1>8, <1>9, NothingHeard DEF Streamed

\* A chunk keeps the stream whole, and so does its end.
LEMMA ChunkStreams ==
  ASSUME IInv, Streams, NEW c \in Clients, Chunk(c) \/ End(c)
  PROVE  Streamed(req'[c])
<1> DEFINE o == req[c]
<1>1. o # Idle /\ o.step = "stream"
  <2>1. o.step = "stream"
    <3>1. CASE Chunk(c)
      BY <3>1, Zenon DEF Chunk
    <3>2. CASE End(c)
      BY <3>2 DEF End
    <3> QED
      BY <3>1, <3>2
  <2> QED
    BY <2>1 DEF Idle
<1>2. /\ o \in Req /\ o.ask.kind = "chat" /\ req \in [Clients -> Req \cup {Idle}]
      /\ o.heard \in Seq(Chunks) /\ o.results \in Seq(Words)
      /\ PassedOn(o.heard, o.results, Len(o.results))
  BY <1>1, ChatIsAt DEF Streams, Streamed, IInv, EachFine
<1>3. CASE Chunk(c)
  <2>1. PICK x \in Chunks :
          req' = [req EXCEPT ![c].heard = Append(@, x),
                    ![c].results = CASE x \in {"text", "last text"} -> Append(@, "text")
                                     [] x = "error"                 -> Append(@, "error")
                                     [] OTHER                       -> @,
                    ![c].finish = @ \/ x \in {"last text", "finish"}]
    BY <1>3 DEF Chunk
  <2>2. /\ req'[c].heard = Append(o.heard, x) /\ req'[c].results = Passing(o.results, x)
        /\ req'[c].step = "stream"
    BY <1>1, <1>2, <2>1 DEF Passing, Req
  <2> QED
    BY <1>2, <2>2, PassingOn DEF Streamed
<1>4. CASE End(c)
  <2>1. /\ req'[c].heard = o.heard /\ req'[c].step = "replied"
        /\ req'[c].results = o.results \/ req'[c].results = Append(o.results, "done")
    BY <1>2, <1>4 DEF End, Req
  <2>2. CASE req'[c].results = o.results
    BY <1>2, <2>1, <2>2 DEF Streamed
  <2>3. CASE req'[c].results = Append(o.results, "done")
    <3> DEFINE all == Append(o.results, "done")
    <3>1. all # <<>> /\ all[Len(all)] = "done" /\ PassedOn(o.heard, all, Len(all) - 1)
      BY <1>2, EndHidesNothing
    <3> HIDE DEF all, o
    <3>2. req'[c].heard = o.heard /\ req'[c].results = all /\ req'[c].step = "replied"
      BY <2>1, <2>3 DEF all
    <3> QED
      BY <3>1, <3>2 DEF Streamed
  <2> QED
    BY <2>1, <2>2, <2>3
<1> QED
  BY <1>3, <1>4

\* Streams stay whole.
LEMMA StreamsStep ==
  ASSUME IInv, Streams, [Next]_vars
  PROVE  Streams'
<1>1. req \in [Clients -> Req \cup {Idle}]
  BY DEF IInv, EachFine
<1>2. ASSUME NEW c \in Clients, \A d \in Clients \ {c} : req'[d] = req[d],
             req'[c].ask.kind = "chat" => Streamed(req'[c])
      PROVE  Streams'
  BY <1>2 DEF Streams
<1>3. CASE Preload \/ UNCHANGED vars
  BY <1>3 DEF Preload, vars, Streams
<1>4. CASE TakeIn
  <2> DEFINE c == Head(queue)
             o == req[c]
  <2>1. /\ queue \in Seq(Clients) /\ queue # <<>>
        /\ \E s \in {"state", "servers", "agent"} : req' = [req EXCEPT ![c].step = s]
    BY <1>4 DEF TakeIn, IInv, Queued
  <2>2. c \in Clients /\ c = queue[1] /\ Len(queue) \in Nat \ {0}
    BY <2>1
  <2>3. o.step = "queued" /\ o # Idle /\ o \in Req
    BY <1>1, <2>2 DEF IInv, Queued, Idle
  <2>4. /\ req'[c].ask = o.ask /\ req'[c].heard = o.heard /\ req'[c].results = o.results
        /\ req'[c].step \in {"state", "servers", "agent"}
    BY <1>1, <2>1, <2>2, <2>3 DEF Req
  <2>5. o.ask.kind = "chat" => Streamed(req'[c])
    BY <2>2, <2>3, <2>4 DEF Streams, Streamed
  <2> QED
    BY <1>1, <1>2, <2>1, <2>2, <2>4, <2>5
<1>5. ASSUME NEW c \in Clients, Send(c)
      PROVE  Streams'
  <2>1. PICK ask \in Asked : req' = [req EXCEPT ![c] = Request(ask)]
    BY <1>5 DEF Send
  <2>2. Streamed(Request(ask))
    BY DEF Request, Streamed
  <2> QED
    BY <1>1, <1>2, <2>1, <2>2
<1>6. ASSUME NEW c \in Clients, Handle(c)
      PROVE  Streams'
  <2>1. \A d \in Clients \ {c} : req'[d] = req[d]
    BY <1>6, HandlersAreApart
  <2>2. CASE Deliver(c)
    <3> DEFINE o == req[c]
    <3>1. o.step = "done" /\ req' = [req EXCEPT ![c].step = "replied"]
      BY <2>2 DEF Deliver
    <3>2. o # Idle
      BY <3>1 DEF Idle
    <3>3. o \in Req /\ (o.status = 200 => o.ask.kind # "chat")
      BY <3>1, <3>2 DEF IInv, EachFine, Fine, Placed, Dated
    <3>4. req'[c].ask = o.ask /\ req'[c].status = o.status /\ req'[c].step = "replied"
      BY <1>1, <3>1, <3>3 DEF Req
    <3> QED
      BY <1>2, <2>1, <3>3, <3>4 DEF Streamed
  <2>3. CASE Prepare(c) \/ Forward(c) \/ ReadState(c) \/ ReadTime(c)
    BY <1>2, <2>1, <2>3, OthersAreOthers
  <2>4. CASE AskServers(c) \/ AskModels(c) \/ Open(c)
    BY <1>2, <2>1, <2>4, HubStreams
  <2>5. CASE Chunk(c) \/ End(c)
    BY <1>2, <2>1, <2>5, ChunkStreams
  <2> QED
    BY <1>6, <2>2, <2>3, <2>4, <2>5 DEF Handle
<1> QED
  BY <1>3, <1>4, <1>5, <1>6 DEF Next

\* Of a stream that is over the client has every piece of text, in its place among
\* the errors, and nothing but the end follows the last of them.
THEOREM StreamsAreWhole == Spec => []StreamIsWhole
<1>1. Init => Streams
  BY DEF Init, Streams
<1>2. IInv /\ Streams /\ [Next]_vars => Streams'
  BY StreamsStep
<1>3. IInv /\ Streams => StreamIsWhole
  <2> SUFFICES ASSUME IInv, Streams, NEW c \in Clients, Replied(c, "chat"), req[c].status = 200
               PROVE  \/ PassedOn(req[c].heard, req[c].results, Len(req[c].results))
                      \/ /\ req[c].results # <<>> /\ req[c].results[Len(req[c].results)] = "done"
                         /\ PassedOn(req[c].heard, req[c].results, Len(req[c].results) - 1)
    BY DEF StreamIsWhole
  <2>1. req[c].step = "replied" /\ req[c] # Idle /\ req[c].ask.kind = "chat"
    BY DEF Replied, Idle
  <2> QED
    BY <2>1 DEF Streams, Streamed
<1> QED
  BY <1>1, <1>2, <1>3, ServiceInvariant, PTL DEF Spec
=============================================================================
