------------------------------ MODULE HubPoll ------------------------------
(***************************************************************************)
(* One server of the hub (src/hub/llm-hub.py): the poller thread asks it    *)
(* what it serves and keeps the answer, handler threads read the answer at *)
(* any moment, the state is saved once in a while and restored after a     *)
(* crash.  The server itself changes as it likes, and is asked to load and *)
(* unload through the hub.                                                 *)
(*                                                                         *)
(* Time passes in ticks, kept as ages.  A cycle of the poller, from one    *)
(* start to the next, takes at most MaxCycle, for every request times out. *)
(***************************************************************************)
EXTENDS VisionRouting

CONSTANTS Models,        \* ids of models
          Aggregate,     \* "(vllm)", the row of a server of kind vllm
          Configs,       \* entries of the configuration: kind and hints
          OfflineAfter,  \* OFFLINE_AFTER
          MaxCycle,      \* bound on a cycle, in ticks
          HintsMayLeave  \* whether a model named in the hints may be withdrawn

VARIABLES
  \* The server.
  up, roster, loaded,    \* it answers; what it lists; what it has loaded
  calm,                  \* nothing outside of the hub changes any more
  \* The hub's Server object.
  config, rows, online, missed,
  seenAge,               \* now - last_seen
  \* The poller.
  pc, fetched, cycleAge, \* cycleAge: now - t0
  \* The disk.
  snap,
  \* History: since when a model has not been served, and since when neither
  \* the server has answered nor the hub been restarted.
  lost, unheard

world  == <<up, roster, loaded, calm>>
memory == <<config, rows, online, missed, seenAge>>
poller == <<pc, fetched, cycleAge>>
past   == <<lost, unheard>>
vars   == <<world, memory, poller, snap, past>>

MaxAge == StaleAfter + 1
OfflineBound == (OfflineAfter + 1) * MaxCycle

ASSUME HubAssumption ==
  /\ Aggregate \notin Models /\ None \notin Int /\ HintsMayLeave \in BOOLEAN
  /\ OfflineAfter \in Nat \ {0} /\ MaxCycle \in Nat \ {0} /\ StaleAfter \in Nat
  /\ Configs \subseteq [kind : {"llama-router", "vllm", "vllm-mux"}, hints : SUBSET Models]

\* The rows a server of this kind may have.
OwnRows == IF config.kind = "vllm" THEN {Aggregate} ELSE Models

Rows == UNION {[S -> BOOLEAN] : S \in SUBSET OwnRows}
Ages == 0..MaxAge
Older(age, cap) == IF age = None \/ age = cap THEN age ELSE age + 1

\* What a client that sent a request to the server for the row would be served.
Serves(id) == up /\ (IF config.kind = "vllm" THEN id = Aggregate ELSE id \in loaded)

\* Rows are BOOLEAN: the field `loaded' of the row.  The rest is whole.
TypeOK ==
  /\ up \in BOOLEAN /\ roster \subseteq Models /\ loaded \subseteq roster /\ calm \in BOOLEAN
  /\ config \in Configs /\ rows \in Rows /\ online \in BOOLEAN
  /\ missed \in 0..OfflineAfter /\ seenAge \in Ages \cup {None}
  /\ pc \in {"down", "rest", "poll", "apply", "flags", "done"}
  /\ fetched \in {None} \cup [roster : SUBSET Models, loaded : SUBSET Models]
  /\ cycleAge \in 0..MaxCycle
  /\ snap \in {None} \cup [online : BOOLEAN, seenAge : Ages \cup {None}, rows : Rows]
  /\ lost \in [OwnRows -> Ages] /\ unheard \in 0..(OfflineBound + 1)
  /\ online => seenAge # None

\* A server of kind vllm lists nothing; of a router, the hints name what it lists.
Listing ==
  /\ config.kind = "vllm" => roster = {}
  /\ config.kind = "llama-router" /\ ~HintsMayLeave => config.hints \subseteq roster

\* Server.__init__
Fresh == [online |-> FALSE, seenAge |-> None, rows |-> <<>>]

Init ==
  /\ roster \in SUBSET Models /\ loaded \in SUBSET roster /\ up \in BOOLEAN
  /\ calm = FALSE
  /\ config \in Configs /\ rows = <<>> /\ online = FALSE /\ missed = 0 /\ seenAge = None
  /\ pc = "rest" /\ fetched = None /\ cycleAge = 0 /\ snap = None
  /\ Listing
  /\ lost = [id \in OwnRows |-> 0] /\ unheard = 0
-----------------------------------------------------------------------------
\* The server changes: history notes what is, or just was, served.
Noted ==
  /\ lost' = [id \in OwnRows |-> IF Serves(id) \/ Serves(id)' THEN 0 ELSE lost[id]]
  /\ unheard' = IF up \/ up' THEN 0 ELSE unheard

\* The server, or its operator, changes what it lists or has loaded.
Change ==
  /\ ~calm /\ UNCHANGED <<calm, memory, poller, snap>>
  /\ \E R \in SUBSET Models : \E L \in SUBSET R : roster' = R /\ loaded' = L
  /\ up' \in BOOLEAN /\ Listing' /\ Noted

Settle == ~calm /\ calm' = TRUE /\ UNCHANGED <<up, roster, loaded, memory, poller, snap, past>>

\* _control_post: what was sent to a server that can be reached is done before
\* the verdict, or after it, which is a Change, or not at all.
ControlPost(m) ==
  /\ up /\ UNCHANGED <<up, roster, calm, memory, poller, snap>>
  /\ loaded' \in {loaded, loaded \cup ({m} \cap roster), loaded \ {m}} /\ Noted

\* do_POST: a load or unload is sent on whatever the hub last saw of the server,
\* and the hub's own state is left to the poller.
Control(m) == pc # "down" /\ ~calm /\ ControlPost(m)
-----------------------------------------------------------------------------
\* poller(): a cycle starts, t0.
Begin ==
  /\ pc = "rest" /\ pc' = "poll" /\ cycleAge' = 0
  /\ UNCHANGED <<fetched, memory, snap, world, past>>

\* _http: the reply, or None.  A request may time out however healthy the server
\* is, until everything is calm.
Http(reply) == (IF up THEN {reply} ELSE {}) \cup (IF calm /\ up THEN {} ELSE {None})

\* poll(): the listing (of vllm, the metrics) is asked for without the lock.
Fetch ==
  /\ pc = "poll" /\ pc' = "apply"
  /\ fetched' \in Http([roster |-> roster, loaded |-> loaded])
  /\ UNCHANGED <<cycleAge, memory, snap, world, past>>

\* Mutant of RouterRows: a row is never dropped.
RouterRowsWithGhosts(old, list) ==
  [id \in DOMAIN old \cup list.roster |->
     IF id \in list.roster THEN id \in list.loaded ELSE old[id]]

\* _poll_router: rows that are neither listed nor hinted go, listed ones change.
RouterRows(old, list) ==
  [id \in list.roster \cup (DOMAIN old \cap config.hints) |->
     IF id \in list.roster THEN id \in list.loaded ELSE old[id]]

\* _poll_vllmmux: the hints, or else the listing, are the rows.
MuxRows(list) ==
  [id \in (IF config.hints = {} THEN list.roster ELSE config.hints) |-> id \in list.loaded]

\* _apply_vllm_metrics: whatever answers is loaded.
VllmRows(old) == [id \in DOMAIN old \cup {Aggregate} |-> IF id = Aggregate THEN TRUE ELSE old[id]]

\* The rows are replaced under the lock.
Apply ==
  /\ pc = "apply" /\ fetched # None
  /\ rows' = CASE config.kind = "llama-router" -> RouterRows(rows, fetched)
               [] config.kind = "vllm-mux"     -> MuxRows(fetched)
               [] config.kind = "vllm"         -> VllmRows(rows)
  /\ pc' = "flags"
  /\ UNCHANGED <<config, online, missed, seenAge, fetched, cycleAge, snap, world, past>>

\* poll(), no exception: last_seen is the start of the cycle.
Succeed ==
  /\ pc = "flags" /\ pc' = "done"
  /\ online' = TRUE /\ missed' = 0 /\ seenAge' = cycleAge
  /\ fetched' = None /\ UNCHANGED <<config, rows, cycleAge, snap, world, past>>

\* Mutant of Fail: one miss more before the server is offline.
FailLate ==
  /\ pc = "apply" /\ fetched = None /\ pc' = "done"
  /\ missed' = IF missed = OfflineAfter THEN missed ELSE missed + 1
  /\ online' = (online /\ missed < OfflineAfter)
  /\ UNCHANGED <<config, rows, seenAge, fetched, cycleAge, snap, world, past>>

\* poll(), an exception; the count has no use beyond OFFLINE_AFTER.
Fail ==
  /\ pc = "apply" /\ fetched = None /\ pc' = "done"
  /\ missed' = IF missed = OfflineAfter THEN missed ELSE missed + 1
  /\ online' = (online /\ missed' < OfflineAfter)
  /\ UNCHANGED <<config, rows, seenAge, fetched, cycleAge, snap, world, past>>

\* snapshot(): the file is replaced as a whole, or not at all.
Saved == {snap, [online |-> online, seenAge |-> seenAge, rows |-> rows]}

\* The end of a cycle of poller(): once in a while the state is saved.
Rest ==
  /\ pc = "done" /\ pc' = "rest" /\ snap' \in Saved
  /\ UNCHANGED <<fetched, cycleAge, memory, world, past>>

\* The hub dies, and its memory with it.
Crash ==
  /\ pc # "down" /\ ~calm /\ pc' = "down" /\ fetched' = None /\ cycleAge' = 0
  /\ rows' = <<>> /\ online' = FALSE /\ missed' = 0 /\ seenAge' = None
  /\ UNCHANGED <<config, snap, world, past>>

\* Mutant of Restored: what was seen before the crash counts as seen now.
RestoredFresh ==
  IF snap = None THEN Fresh
  ELSE [snap EXCEPT !.seenAge = IF @ = None THEN None ELSE 0]

\* restore(): what the snapshot has of the server.
Restored == IF snap = None THEN Fresh ELSE snap

\* load_config: perhaps with other hints.  (A server of another kind is another
\* server.)
Restart ==
  /\ pc = "down" /\ pc' = "rest"
  /\ rows' = Restored.rows /\ online' = Restored.online /\ seenAge' = Restored.seenAge
  /\ UNCHANGED <<missed, fetched, cycleAge, snap, world>>
  /\ config' \in (IF calm THEN {config} ELSE {c \in Configs : c.kind = config.kind})
  /\ Listing'
  /\ lost' = [id \in OwnRows |-> IF Serves(id)' THEN 0 ELSE lost[id]]
  /\ unheard' = 0

\* Time passes.
Tick ==
  /\ pc = "down" \/ cycleAge < MaxCycle
  /\ cycleAge' = IF pc = "down" THEN 0 ELSE cycleAge + 1
  /\ seenAge' = Older(seenAge, MaxAge)
  /\ snap' = IF snap = None THEN None ELSE [snap EXCEPT !.seenAge = Older(@, MaxAge)]
  /\ lost' = [id \in OwnRows |-> IF Serves(id) THEN 0 ELSE Older(lost[id], MaxAge)]
  /\ unheard' = IF up THEN 0 ELSE Older(unheard, OfflineBound + 1)
  /\ UNCHANGED <<world, config, rows, online, missed, pc, fetched>>

Outside == Change \/ Settle \/ \E m \in Models : Control(m)
Poll    == Begin \/ Fetch \/ Apply \/ Succeed \/ Fail \/ Rest
Next    == Outside \/ Poll \/ Crash \/ Restart \/ Tick

Spec == Init /\ [][Next]_vars

\* The poller thread runs, and a hub that died is started again.
FairSpec == Spec /\ WF_vars(Poll) /\ WF_vars(Restart)
-----------------------------------------------------------------------------
\* A row as the advisor sees it (_vision_candidates), of a model that was opted
\* in for images.
Candidate(id) ==
  [kind |-> config.kind, online |-> online, age |-> seenAge, loaded |-> rows[id],
   modalities |-> None, override |-> TRUE, enabled |-> TRUE]

Advised == {id \in DOMAIN rows : Reject(Candidate(id)) = "none"}

\* Whom the advisor sends clients to was really served not longer ago than the
\* policy allows, whatever the server, the disk and crashes did meanwhile.
\* (_reject: "server state older than the freshness limit".)  A server of kind
\* vllm answers for its one row only.
ChoiceWasUsable ==
  \A id \in Advised : lost[id] <= StaleAfter

\* A server that is said to be online has answered within the time that
\* OFFLINE_AFTER polls take, or the hub has only just been started.
OnlineIsRecent == online => unheard <= OfflineBound

\* Once nothing changes any more, the hub comes to know what is true, and stays
\* with it: of a server that answers, what it has loaded; of any other, that it
\* is offline.  ("state polling is authoritative", _control_post.)
Accurate ==
  IF ~up THEN ~online
  ELSE /\ online
       /\ \A id \in DOMAIN rows \ (config.hints \ roster) : rows[id] = Serves(id)
       /\ config.kind = "llama-router" => roster \subseteq DOMAIN rows

Converges == calm ~> []Accurate
=============================================================================
