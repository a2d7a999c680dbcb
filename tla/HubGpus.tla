------------------------------ MODULE HubGpus ------------------------------
(***************************************************************************)
(* The GPUs of one server of the hub (src/hub/llm-hub.py, poll_gpus): what *)
(* the sidecar on its host (src/hub/gpu-sidecar.py) measured is kept, said *)
(* to be stale when no new measurement came for long, saved, restored after*)
(* a crash, and exported to Prometheus while it is not stale.              *)
(*                                                                         *)
(* Time is as in HubPoll: ages in ticks, and cycles of at most MaxCycle.   *)
(***************************************************************************)
EXTENDS Integers

CONSTANTS None,
          Kinds,         \* of servers: "gpu-only" or another
          OfflineAfter,  \* OFFLINE_AFTER
          GpuStaleAfter, \* 30 s
          MaxCycle       \* bound on a cycle, in ticks

VARIABLES
  kind, sidecar,         \* the server's kind, and whether it has a sidecar
  driver, reached, calm, \* nvidia-smi works; the sidecar is reached; no more change
  gpus,                  \* None, or a measurement: the age of its readings
  claimed,               \* now - gpus_ts, None if there is none
  stale, online, missed,
  pc, fetched, cycleAge,
  snap,                  \* the ages of the readings and of the file they are in
  fresh,                 \* the sooner of: the readings were taken, the hub started
  heard                  \* the sooner of: the sidecar had GPUs, the hub started

host   == <<driver, reached, calm>>
memory == <<gpus, claimed, stale, online, missed>>
vars   == <<kind, sidecar, host, memory, pc, fetched, cycleAge, snap, fresh, heard>>

ASSUME GpuAssumption ==
  /\ OfflineAfter \in Nat \ {0} /\ GpuStaleAfter \in Nat /\ MaxCycle \in Nat \ {0}
  /\ None \notin Int

\* A reading is exported at most this long: taken in one cycle, it is looked at in
\* every later one, the first too late of which ends its export.
ExportBound  == GpuStaleAfter + 2 * MaxCycle
OfflineBound == (OfflineAfter + 1) * MaxCycle
MaxAge == IF ExportBound > OfflineBound THEN ExportBound + 1 ELSE OfflineBound + 1
Ages   == 0..MaxAge
Older(age) == IF age = None \/ age = MaxAge THEN age ELSE age + 1

TypeOK ==
  /\ kind \in Kinds /\ sidecar \in BOOLEAN
  /\ driver \in {"works", "fails", "lists nothing"} /\ reached \in BOOLEAN /\ calm \in BOOLEAN
  /\ gpus \in Ages \cup {None} /\ claimed \in Ages \cup {None}
  /\ stale \in BOOLEAN /\ online \in BOOLEAN /\ missed \in 0..OfflineAfter
  /\ pc \in {"down", "rest", "ask", "apply", "done"}
  /\ fetched \in {None} \cup [age : 0..MaxCycle, listed : BOOLEAN]
  /\ cycleAge \in 0..MaxCycle
  /\ snap \in {None} \cup [gpus : Ages \cup {None}, age : Ages, online : BOOLEAN]
  /\ fresh \in Ages /\ heard \in Ages
  /\ gpus # None => claimed # None

\* "gpu-only servers are defined by their sidecar" (poll_gpus).
Configured == IF kind = "gpu-only" THEN {TRUE} ELSE BOOLEAN

Init ==
  /\ kind \in Kinds /\ sidecar \in Configured
  /\ driver \in {"works", "fails", "lists nothing"} /\ reached \in BOOLEAN /\ calm = FALSE
  /\ gpus = None /\ claimed = None /\ stale = FALSE /\ online = FALSE /\ missed = 0
  /\ pc = "rest" /\ fetched = None /\ cycleAge = 0 /\ snap = None /\ fresh = 0 /\ heard = 0
-----------------------------------------------------------------------------
\* The host is turned off, its driver breaks, the card falls off the bus.
Change ==
  /\ ~calm
  /\ driver' \in {"works", "fails", "lists nothing"} /\ reached' \in BOOLEAN /\ calm' \in BOOLEAN
  /\ UNCHANGED <<kind, sidecar, memory, pc, fetched, cycleAge, snap, fresh, heard>>

\* Mutant of Sample: an empty list is a measurement.
SampleOfNothing == [ok |-> driver # "fails", listed |-> driver = "works"]

\* gpu-sidecar.py:sample(): neither an error nor an empty list is a measurement.
Sample == [ok |-> driver = "works", listed |-> driver = "works"]

\* poller(): the cycle has come to the GPUs of this server.
Begin ==
  /\ pc = "rest" /\ pc' = "ask" /\ cycleAge' = 0
  /\ UNCHANGED <<kind, sidecar, host, memory, fetched, snap, fresh, heard>>

\* poll_gpus without a sidecar: what a snapshot brought cannot be refreshed.
NoSidecar ==
  /\ pc = "ask" /\ ~sidecar /\ pc' = "done"
  /\ stale' = (stale \/ (kind # "gpu-only" /\ gpus # None))
  /\ UNCHANGED <<kind, sidecar, host, gpus, claimed, online, missed, fetched, cycleAge, snap,
                 fresh, heard>>

\* poll_gpus: the sidecar is asked; None stands for no answer, for one that is no
\* JSON and for one that is not ok.
Ask ==
  /\ pc = "ask" /\ sidecar /\ pc' = "apply"
  /\ LET good == reached /\ Sample.ok IN
     /\ fetched' \in (IF good THEN {[age |-> 0, listed |-> Sample.listed]} ELSE {})
                     \cup (IF calm /\ good THEN {} ELSE {None})
     /\ heard' = IF good THEN 0 ELSE heard
  /\ UNCHANGED <<kind, sidecar, host, memory, cycleAge, snap, fresh>>

\* Mutant of Measured: what was stale stays so.
MeasuredStillStale ==
  /\ pc = "apply" /\ fetched # None /\ pc' = "done" /\ fetched' = None
  /\ gpus' = (IF fetched.listed THEN fetched.age ELSE None) /\ fresh' = fetched.age
  /\ claimed' = cycleAge /\ online' = (online \/ kind = "gpu-only")
  /\ missed' = IF kind = "gpu-only" THEN 0 ELSE missed
  /\ UNCHANGED <<kind, sidecar, host, stale, cycleAge, snap, heard>>

\* A measurement is kept, with the start of the cycle for its time.
Measured ==
  /\ pc = "apply" /\ fetched # None /\ pc' = "done" /\ fetched' = None
  /\ gpus' = (IF fetched.listed THEN fetched.age ELSE None) /\ fresh' = fetched.age
  /\ claimed' = cycleAge /\ stale' = FALSE
  /\ online' = (online \/ kind = "gpu-only")
  /\ missed' = IF kind = "gpu-only" THEN 0 ELSE missed
  /\ UNCHANGED <<kind, sidecar, host, cycleAge, snap, heard>>

\* Mutant of TooOld: one cycle later.
TooOldLater == claimed = None \/ claimed - cycleAge > GpuStaleAfter + MaxCycle

\* The last good measurement is too old, at the start of the cycle.
TooOld == claimed = None \/ claimed - cycleAge > GpuStaleAfter

\* Mutant of Missed: a server known for its GPUs only is never offline.
MissedForever ==
  /\ pc = "apply" /\ fetched = None /\ pc' = "done"
  /\ stale' = (stale \/ (kind # "gpu-only" /\ gpus # None /\ TooOld))
  /\ missed' = IF kind = "gpu-only" /\ missed < OfflineAfter THEN missed + 1 ELSE missed
  /\ UNCHANGED <<kind, sidecar, host, gpus, claimed, online, fetched, cycleAge, snap, fresh, heard>>

\* Without a measurement the last good one stays: a server known for its GPUs only
\* is offline after some misses, of any other they are stale after some time.
Missed ==
  /\ pc = "apply" /\ fetched = None /\ pc' = "done"
  /\ stale' = (stale \/ (kind # "gpu-only" /\ gpus # None /\ TooOld))
  /\ missed' = IF kind = "gpu-only" /\ missed < OfflineAfter THEN missed + 1 ELSE missed
  /\ online' = (online /\ missed' < OfflineAfter)
  /\ UNCHANGED <<kind, sidecar, host, gpus, claimed, fetched, cycleAge, snap, fresh, heard>>

\* snapshot(): the age of the file becomes that of the readings.
Saved == {snap, [gpus |-> gpus, age |-> 0, online |-> online]}

Rest ==
  /\ pc = "done" /\ pc' = "rest" /\ snap' \in Saved
  /\ UNCHANGED <<kind, sidecar, host, memory, fetched, cycleAge, fresh, heard>>

Crash ==
  /\ pc # "down" /\ ~calm /\ pc' = "down" /\ fetched' = None /\ cycleAge' = 0
  /\ gpus' = None /\ claimed' = None /\ stale' = FALSE /\ online' = FALSE /\ missed' = 0
  /\ UNCHANGED <<kind, sidecar, host, snap, fresh, heard>>

\* restore(): readings are as old as the file, and not stale.
Restored ==
  IF snap = None THEN [gpus |-> None, claimed |-> None, online |-> FALSE]
  ELSE [gpus |-> snap.gpus, claimed |-> IF snap.gpus = None THEN None ELSE snap.age,
        online |-> snap.online]

\* load_config: the sidecar may have been added or removed.
Restart ==
  /\ pc = "down" /\ pc' = "rest" /\ sidecar' \in (IF calm THEN {sidecar} ELSE Configured)
  /\ gpus' = Restored.gpus /\ claimed' = Restored.claimed /\ online' = Restored.online
  /\ fresh' = 0 /\ heard' = 0
  /\ UNCHANGED <<kind, host, stale, missed, fetched, cycleAge, snap>>

Tick ==
  /\ pc = "down" \/ cycleAge < MaxCycle
  /\ cycleAge' = IF pc = "down" THEN 0 ELSE cycleAge + 1
  /\ gpus' = Older(gpus) /\ claimed' = Older(claimed)
  /\ fetched' = IF fetched = None THEN None
                ELSE [age |-> fetched.age + 1, listed |-> fetched.listed]
  /\ snap' = IF snap = None THEN None
             ELSE [snap EXCEPT !.gpus = Older(@), !.age = Older(@)]
  /\ fresh' = Older(fresh) /\ heard' = Older(heard)
  /\ UNCHANGED <<kind, sidecar, host, stale, online, missed, pc>>

Poll == Begin \/ NoSidecar \/ Ask \/ Measured \/ Missed \/ Rest
Next == Change \/ Poll \/ Crash \/ Restart \/ Tick

Spec == Init /\ [][Next]_vars

\* The poller runs, time passes, and a hub that died is started again.
FairSpec == Spec /\ WF_vars(Poll) /\ WF_vars(Tick) /\ WF_vars(Restart)
-----------------------------------------------------------------------------
\* prom_text: the gauges of the GPUs are there.
Exported == gpus # None /\ ~stale

\* What is exported of a server that is not known for its GPUs only is no older
\* than GpuStaleAfter and what two cycles take, or the hub just started.
FrozenIsDropped == Exported /\ kind # "gpu-only" => fresh <= ExportBound

\* "A frozen value must never masquerade as a current reading" (prom_text), of
\* any server.
FrozenNotExported == Exported => fresh <= ExportBound

\* A server known for its GPUs only is online as long as its sidecar had any not
\* longer ago than OFFLINE_AFTER polls, or the hub just started.
GpuOnlyOnlineIsRecent == kind = "gpu-only" /\ online => heard <= OfflineBound

\* A card that was seen stays: a driver that fails or lists nothing does not turn
\* it into none.  (sample(): the hub "keeps the last GOOD sample".)
KeepsLastGood == [][gpus # None => gpus' # None \/ pc' = "down"]_vars

\* Once nothing changes any more: readings are exported if the host can give any,
\* and if not, those of a server with an API are no longer exported.
Settles ==
  /\ (calm /\ sidecar /\ reached /\ driver = "works") ~> []Exported
  /\ (calm /\ kind # "gpu-only" /\ ~(sidecar /\ reached /\ driver = "works")) ~> []~Exported
=============================================================================
