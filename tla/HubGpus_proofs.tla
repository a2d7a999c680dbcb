--------------------------- MODULE HubGpus_proofs ---------------------------
(***************************************************************************)
(* Theorems about HubGpus, for any bounds on cycles, misses and ages: what *)
(* is exported of a server with an API is recent, a server known for its   *)
(* GPUs only is online only if its sidecar was, and cards stay.            *)
(***************************************************************************)
EXTENDS HubGpus, TLAPS

\* The two limits on time are below the largest age.
LEMMA BoundsAreAges ==
  /\ ExportBound \in Nat /\ OfflineBound \in Nat /\ MaxAge \in Nat
  /\ ExportBound < MaxAge /\ OfflineBound < MaxAge /\ MaxCycle < MaxAge
<1>1. OfflineAfter + 1 \in Nat /\ MaxCycle \in Nat /\ GpuStaleAfter \in Nat
  BY GpuAssumption
<1>2. OfflineBound \in Nat
  BY <1>1 DEF OfflineBound
<1>3. ExportBound \in Nat /\ MaxCycle <= ExportBound
  BY <1>1 DEF ExportBound
<1> HIDE DEF ExportBound, OfflineBound
<1> QED
  BY <1>1, <1>2, <1>3 DEF MaxAge

\* An age grows by at most one, and what was no older than another stays so.
LEMMA OlderIsAge ==
  ASSUME NEW age \in Ages
  PROVE  /\ Older(age) \in Ages /\ Older(age) <= age + 1 /\ Older(age) # None
         /\ \A other \in Ages : age <= other => Older(age) <= Older(other)
  BY BoundsAreAges, GpuAssumption DEF Older, Ages

\* The types of what the bounds are about.
Typed ==
  /\ gpus # None => gpus \in Ages /\ claimed # None
  /\ claimed # None => claimed \in Ages
  /\ fresh \in Ages /\ heard \in Ages
  /\ cycleAge \in 0..MaxCycle /\ missed \in 0..OfflineAfter
  /\ snap # None => /\ snap = [gpus |-> snap.gpus, age |-> snap.age, online |-> snap.online]
                    /\ snap.gpus # None => snap.gpus \in Ages
                    /\ snap.age \in Ages

\* A measurement in the poller's hands is one, of this cycle, and of cards.
Fetching ==
  /\ fetched # None =>
       /\ fetched = [age |-> fetched.age, listed |-> TRUE]
       /\ pc = "apply" /\ fetched.age \in 0..cycleAge /\ heard <= cycleAge
  /\ pc = "down" => gpus = None /\ ~online /\ missed = 0 /\ ~stale

\* How much of a cycle may be missing from an age that was last looked at before it.
Slack == IF pc \in {"ask", "apply"} THEN MaxCycle ELSE 0

\* Readings are no older than they are believed to be, and were looked at in the
\* last cycle.
Recent ==
  /\ gpus # None => fresh <= claimed
  /\ Exported /\ kind # "gpu-only" => fresh <= GpuStaleAfter + cycleAge + Slack

\* Every miss is a cycle without the sidecar.
Misses ==
  kind = "gpu-only" =>
    /\ sidecar
    /\ online => missed < OfflineAfter /\ heard <= missed * MaxCycle + cycleAge + Slack

IInv == Typed /\ Fetching /\ Recent /\ Misses
-----------------------------------------------------------------------------
\* A new hub has no readings and has missed nothing.
LEMMA Initially == Init => IInv
<1> SUFFICES ASSUME Init
             PROVE  IInv
  OBVIOUS
<1>1. 0 \in Ages
  BY BoundsAreAges DEF Ages
<1>2. 0 \in 0..MaxCycle /\ 0 \in 0..OfflineAfter
  BY GpuAssumption
<1>3. Typed
  BY <1>1, <1>2 DEF Init, Typed
<1>4. Fetching /\ Recent /\ Misses
  BY GpuAssumption DEF Init, Fetching, Recent, Misses, Exported, Configured
<1> QED
  BY <1>3, <1>4 DEF IInv

\* The host changes nothing the hub has.
LEMMA ChangeKeeps ==
  ASSUME IInv, Change
  PROVE  IInv'
<1>0. 0 \in Ages /\ \A n \in 0..MaxCycle : n \in Ages
  BY BoundsAreAges, GpuAssumption DEF Ages
<1> USE <1>0, GpuAssumption DEF Change, host, memory
<1>1. Typed'
  BY DEF IInv, Typed, Fetching
<1>2. Fetching'
  BY DEF IInv, Typed, Fetching
<1>3. Recent'
  BY DEF IInv, Typed, Fetching, Recent, Exported, Slack, Ages
<1>4. Misses'
  BY DEF IInv, Typed, Fetching, Misses, Slack, Ages
<1> QED
  BY <1>1, <1>2, <1>3, <1>4 DEF IInv

\* A cycle begins: what it may take is now missing from the ages.
LEMMA BeginKeeps ==
  ASSUME IInv, Begin
  PROVE  IInv'
<1>0. 0 \in Ages /\ \A n \in 0..MaxCycle : n \in Ages
  BY BoundsAreAges, GpuAssumption DEF Ages
<1> USE <1>0, GpuAssumption DEF Begin, host, memory
<1>1. Typed'
  BY DEF IInv, Typed, Fetching
<1>2. Fetching'
  BY DEF IInv, Typed, Fetching
<1>3. Recent'
  BY DEF IInv, Typed, Fetching, Recent, Exported, Slack, Ages
<1>4. Misses'
  BY DEF IInv, Typed, Fetching, Misses, Slack, Ages
<1> QED
  BY <1>1, <1>2, <1>3, <1>4 DEF IInv

\* Without a sidecar the readings are stale, if there are any.
LEMMA NoSidecarKeeps ==
  ASSUME IInv, NoSidecar
  PROVE  IInv'
<1>0. 0 \in Ages /\ \A n \in 0..MaxCycle : n \in Ages
  BY BoundsAreAges, GpuAssumption DEF Ages
<1> USE <1>0, GpuAssumption DEF NoSidecar, host, memory
<1>1. Typed'
  BY DEF IInv, Typed, Fetching
<1>2. Fetching'
  BY DEF IInv, Typed, Fetching
<1>3. Recent'
  BY DEF IInv, Typed, Fetching, Recent, Exported, Slack, Ages
<1>4. Misses'
  BY DEF IInv, Typed, Fetching, Misses, Slack, Ages
<1> QED
  BY <1>1, <1>2, <1>3, <1>4 DEF IInv

\* The sidecar gave cards, or nothing.
LEMMA AskKeeps ==
  ASSUME IInv, Ask
  PROVE  IInv'
<1>0. 0 \in Ages /\ \A n \in 0..MaxCycle : n \in Ages
  BY BoundsAreAges, GpuAssumption DEF Ages
<1> USE <1>0, GpuAssumption DEF Ask, host, memory, Sample
<1>1. Typed'
  BY DEF IInv, Typed, Fetching
<1>2. Fetching'
  BY DEF IInv, Typed, Fetching
<1>3. Recent'
  BY DEF IInv, Typed, Fetching, Recent, Exported, Slack, Ages
<1>4. Misses'
  BY DEF IInv, Typed, Fetching, Misses, Slack, Ages
<1> QED
  BY <1>1, <1>2, <1>3, <1>4 DEF IInv

\* A measurement is of this cycle.
LEMMA MeasuredKeeps ==
  ASSUME IInv, Measured
  PROVE  IInv'
<1>0. 0 \in Ages /\ \A n \in 0..MaxCycle : n \in Ages
  BY BoundsAreAges, GpuAssumption DEF Ages
<1> USE <1>0, GpuAssumption DEF Measured, host, memory
<1>1. Typed'
  BY DEF IInv, Typed, Fetching
<1>2. Fetching'
  BY DEF IInv, Typed, Fetching
<1>3. Recent'
  BY DEF IInv, Typed, Fetching, Recent, Exported, Slack, Ages
<1>4. Misses'
  BY DEF IInv, Typed, Fetching, Misses, Slack, Ages
<1> QED
  BY <1>1, <1>2, <1>3, <1>4 DEF IInv

\* A miss is counted, or the readings are found to be recent or stale.
LEMMA MissedKeeps ==
  ASSUME IInv, Missed
  PROVE  IInv'
<1>1. /\ pc = "apply" /\ fetched = None /\ pc' = "done" /\ fetched' = None
      /\ gpus' = gpus /\ claimed' = claimed /\ kind' = kind /\ sidecar' = sidecar
      /\ cycleAge' = cycleAge /\ snap' = snap /\ fresh' = fresh /\ heard' = heard
      /\ missed' = IF kind = "gpu-only" /\ missed < OfflineAfter THEN missed + 1 ELSE missed
  BY DEF Missed, host
<1>2. online' => online /\ missed' < OfflineAfter
  BY Zenon DEF Missed
<1>3. ~stale' => ~stale /\ ~(kind # "gpu-only" /\ gpus # None /\ TooOld)
  BY Zenon DEF Missed
<1>4. Typed'
  BY <1>1, GpuAssumption DEF IInv, Typed
<1>5. Fetching'
  BY <1>1 DEF Fetching
<1>6. Recent'
  BY <1>1, <1>3, GpuAssumption DEF IInv, Typed, Recent, Exported, TooOld, Slack, Ages
<1>7. Misses'
  <2>1. SUFFICES ASSUME kind = "gpu-only"
                 PROVE  sidecar /\ (online' => /\ missed' < OfflineAfter
                                              /\ heard <= missed' * MaxCycle + cycleAge)
    BY <1>1, GpuAssumption DEF Misses, Slack, IInv, Typed
  <2>2. sidecar
    BY <2>1 DEF IInv, Misses
  <2>3. ASSUME online'
        PROVE  heard <= missed' * MaxCycle + cycleAge
    <3>1. missed < OfflineAfter /\ missed' = missed + 1
          /\ heard <= missed * MaxCycle + cycleAge + MaxCycle
      BY <1>1, <1>2, <2>1, <2>3 DEF IInv, Misses, Slack
    <3>2. (missed + 1) * MaxCycle = missed * MaxCycle + MaxCycle
      BY GpuAssumption DEF IInv, Typed
    <3> QED
      BY <3>1, <3>2, GpuAssumption DEF IInv, Typed, Ages
  <2> QED
    BY <1>2, <2>2, <2>3
<1> QED
  BY <1>4, <1>5, <1>6, <1>7 DEF IInv

\* The file holds what the hub has.
LEMMA RestKeeps ==
  ASSUME IInv, Rest
  PROVE  IInv'
<1>0. 0 \in Ages /\ \A n \in 0..MaxCycle : n \in Ages
  BY BoundsAreAges, GpuAssumption DEF Ages
<1> USE <1>0, GpuAssumption DEF Rest, host, memory, Saved
<1>1. Typed'
  BY DEF IInv, Typed, Fetching
<1>2. Fetching'
  BY DEF IInv, Typed, Fetching
<1>3. Recent'
  BY DEF IInv, Typed, Fetching, Recent, Exported, Slack, Ages
<1>4. Misses'
  BY DEF IInv, Typed, Fetching, Misses, Slack, Ages
<1> QED
  BY <1>1, <1>2, <1>3, <1>4 DEF IInv

\* A crash leaves nothing but the file.
LEMMA CrashKeeps ==
  ASSUME IInv, Crash
  PROVE  IInv'
<1>0. 0 \in Ages /\ \A n \in 0..MaxCycle : n \in Ages
  BY BoundsAreAges, GpuAssumption DEF Ages
<1> USE <1>0, GpuAssumption DEF Crash, host, memory
<1>1. Typed'
  BY DEF IInv, Typed, Fetching
<1>2. Fetching'
  BY DEF IInv, Typed, Fetching
<1>3. Recent'
  BY DEF IInv, Typed, Fetching, Recent, Exported, Slack, Ages
<1>4. Misses'
  BY DEF IInv, Typed, Fetching, Misses, Slack, Ages
<1> QED
  BY <1>1, <1>2, <1>3, <1>4 DEF IInv

\* The file brings back readings whose age it knows, and the hub is new.
LEMMA RestartKeeps ==
  ASSUME IInv, Restart
  PROVE  IInv'
<1>1. /\ pc = "down" /\ pc' = "rest" /\ sidecar' \in (IF calm THEN {sidecar} ELSE Configured)
      /\ fresh' = 0 /\ heard' = 0 /\ kind' = kind /\ stale' = stale /\ missed' = missed
      /\ fetched' = fetched /\ cycleAge' = cycleAge /\ snap' = snap
  BY DEF Restart
<1>2. Typed'
  <2>1. 0 \in Ages
    BY BoundsAreAges DEF Ages
  <2>2. CASE snap = None
    <3>1. gpus' = None /\ claimed' = None
      BY <2>2 DEF Restart, Restored
    <3> QED
      BY <1>1, <2>1, <3>1 DEF IInv, Typed
  <2>3. CASE snap # None
    <3>1. gpus' = snap.gpus /\ claimed' = IF snap.gpus = None THEN None ELSE snap.age
      BY <2>3 DEF Restart, Restored
    <3> QED
      BY <1>1, <2>1, <2>3, <3>1, GpuAssumption DEF IInv, Typed, Ages
  <2> QED
    BY <2>2, <2>3
<1>3. Fetching'
  BY <1>1, GpuAssumption DEF IInv, Typed, Fetching
<1>4. Recent'
  BY <1>1, <1>2, GpuAssumption DEF IInv, Typed, Recent, Exported, Slack, Ages
<1>5. Misses'
  BY <1>1, GpuAssumption DEF IInv, Typed, Fetching, Misses, Configured, Slack
<1> QED
  BY <1>2, <1>3, <1>4, <1>5 DEF IInv

\* Ages grow alike, and the cycle with them.
LEMMA TickKeeps ==
  ASSUME IInv, Tick
  PROVE  IInv'
<1>1. /\ pc = "down" \/ cycleAge < MaxCycle
      /\ cycleAge' = IF pc = "down" THEN 0 ELSE cycleAge + 1
      /\ gpus' = Older(gpus) /\ claimed' = Older(claimed)
      /\ fresh' = Older(fresh) /\ heard' = Older(heard)
      /\ kind' = kind /\ sidecar' = sidecar /\ stale' = stale /\ online' = online
      /\ missed' = missed /\ pc' = pc
  BY DEF Tick
<1>2. Older(None) = None
  BY DEF Older
<1>3. \A age \in Ages : Older(age) \in Ages /\ Older(age) <= age + 1 /\ Older(age) # None
  BY OlderIsAge
<1>4. Typed'
  <2>1. cycleAge' \in 0..MaxCycle
    BY <1>1, GpuAssumption DEF IInv, Typed
  <2>2. /\ gpus' # None => gpus' \in Ages /\ claimed' # None
        /\ claimed' # None => claimed' \in Ages
        /\ fresh' \in Ages /\ heard' \in Ages
    BY <1>1, <1>2, <1>3 DEF IInv, Typed
  <2>3. ASSUME snap' # None
        PROVE  /\ snap' = [gpus |-> snap'.gpus, age |-> snap'.age, online |-> snap'.online]
               /\ snap'.gpus # None => snap'.gpus \in Ages
               /\ snap'.age \in Ages
    <3>1. snap # None
      BY <2>3 DEF Tick
    <3>2. snap = [gpus |-> snap.gpus, age |-> snap.age, online |-> snap.online]
      BY <3>1 DEF IInv, Typed
    <3>3. snap' = [gpus |-> Older(snap.gpus), age |-> Older(snap.age), online |-> snap.online]
      BY <3>1, <3>2 DEF Tick
    <3> HIDE DEF Older
    <3> QED
      BY <1>2, <1>3, <3>1, <3>3 DEF IInv, Typed
  <2> QED
    BY <1>1, <2>1, <2>2, <2>3 DEF IInv, Typed
<1>5. Fetching'
  <2>1. ASSUME fetched' # None
        PROVE  /\ fetched' = [age |-> fetched'.age, listed |-> TRUE]
               /\ pc' = "apply" /\ fetched'.age \in 0..cycleAge' /\ heard' <= cycleAge'
    <3>1. fetched # None
      BY <2>1 DEF Tick
    <3>2. /\ fetched = [age |-> fetched.age, listed |-> TRUE]
          /\ pc = "apply" /\ fetched.age \in 0..cycleAge /\ heard <= cycleAge
      BY <3>1 DEF IInv, Fetching
    <3>3. fetched' = [age |-> fetched.age + 1, listed |-> TRUE]
      <4>1. fetched' = [age |-> fetched.age + 1, listed |-> fetched.listed]
        BY <3>1, Zenon DEF Tick
      <4>2. fetched.listed = TRUE
        BY <3>2
      <4> QED
        BY <4>1, <4>2, Zenon
    <3>4. cycleAge' = cycleAge + 1 /\ Older(heard) <= heard + 1 /\ Older(heard) \in Ages
      BY <1>1, <1>3, <3>2 DEF IInv, Typed
    <3> QED
      BY <1>1, <3>2, <3>3, <3>4 DEF IInv, Typed, Ages
  <2>2. pc' = "down" => gpus' = None /\ ~online' /\ missed' = 0 /\ ~stale'
    BY <1>1, <1>2 DEF IInv, Fetching
  <2> QED
    BY <2>1, <2>2 DEF Fetching
<1>6. Recent'
  <2>1. gpus' # None => fresh' <= claimed'
    BY <1>1, <1>2, OlderIsAge DEF IInv, Typed, Recent
  <2>2. ASSUME Exported', kind # "gpu-only"
        PROVE  fresh' <= GpuStaleAfter + cycleAge' + Slack'
    <3>1. Exported
      BY <1>1, <1>2, <2>2 DEF Exported
    <3>2. pc # "down" /\ fresh <= GpuStaleAfter + cycleAge + Slack
      BY <2>2, <3>1 DEF IInv, Recent, Fetching, Exported
    <3>3. fresh' <= fresh + 1 /\ fresh' \in Ages /\ fresh \in Ages
      BY <1>1, <1>3 DEF IInv, Typed
    <3>4. cycleAge' = cycleAge + 1 /\ Slack' = Slack /\ Slack \in Nat
      BY <1>1, <3>2, GpuAssumption DEF Slack
    <3> QED
      BY <3>2, <3>3, <3>4, GpuAssumption DEF Ages, IInv, Typed
  <2> QED
    BY <1>1, <2>1, <2>2 DEF Recent
<1>7. Misses'
  <2>1. SUFFICES ASSUME kind = "gpu-only", online
                 PROVE  heard' <= missed * MaxCycle + cycleAge' + Slack'
    BY <1>1 DEF IInv, Misses
  <2>2. pc # "down" /\ heard <= missed * MaxCycle + cycleAge + Slack
    BY <2>1 DEF IInv, Misses, Fetching
  <2>3. heard' <= heard + 1 /\ heard' \in Ages /\ heard \in Ages
    BY <1>1, <1>3 DEF IInv, Typed
  <2>4. cycleAge' = cycleAge + 1 /\ Slack' = Slack /\ Slack \in Nat
    BY <1>1, <2>2, GpuAssumption DEF Slack
  <2>5. missed * MaxCycle \in Nat /\ cycleAge \in Nat
    BY GpuAssumption DEF IInv, Typed
  <2> QED
    BY <2>2, <2>3, <2>4, <2>5 DEF Ages
<1> QED
  BY <1>4, <1>5, <1>6, <1>7 DEF IInv

\* Every step keeps the invariant.
LEMMA NextKeeps ==
  ASSUME IInv, [Next]_vars
  PROVE  IInv'
<1>1. CASE UNCHANGED vars
  BY <1>1 DEF vars, host, memory, IInv, Typed, Fetching, Recent, Exported, Misses, Slack
<1> QED
  BY <1>1, ChangeKeeps, BeginKeeps, NoSidecarKeeps, AskKeeps, MeasuredKeeps, MissedKeeps,
     RestKeeps, CrashKeeps, RestartKeeps, TickKeeps DEF Next, Poll
-----------------------------------------------------------------------------
\* The inductive invariant.
THEOREM GpusInvariant == Spec => []IInv
<1> QED
  BY Initially, NextKeeps, PTL DEF Spec

\* poll_gpus and prom_text: the readings exported of a server with an API are not
\* older than GpuStaleAfter and two cycles, or the hub just started.
THEOREM ExportIsRecent == Spec => []FrozenIsDropped
<1>1. IInv => FrozenIsDropped
  <2>1. SUFFICES ASSUME IInv, Exported, kind # "gpu-only"
                 PROVE  fresh <= ExportBound
    BY DEF FrozenIsDropped
  <2>2. fresh <= GpuStaleAfter + cycleAge + Slack
    BY <2>1 DEF IInv, Recent
  <2> QED
    BY <2>1, <2>2, GpuAssumption DEF ExportBound, Slack, IInv, Typed, Ages
<1> QED
  BY <1>1, GpusInvariant, PTL

\* poll_gpus: a server known for its GPUs only is online no longer than
\* OFFLINE_AFTER polls after its sidecar had any, or the hub just started.
THEOREM OnlineGpusAreRecent == Spec => []GpuOnlyOnlineIsRecent
<1>1. IInv => GpuOnlyOnlineIsRecent
  <2>1. SUFFICES ASSUME IInv, kind = "gpu-only", online
                 PROVE  heard <= OfflineBound
    BY DEF GpuOnlyOnlineIsRecent
  <2>2. missed + 1 <= OfflineAfter /\ heard <= missed * MaxCycle + cycleAge + Slack
    BY <2>1, GpuAssumption DEF IInv, Typed, Misses
  <2>3. missed \in Nat /\ heard \in Nat /\ cycleAge \in 0..MaxCycle /\ Slack \in 0..MaxCycle
    BY <2>1, GpuAssumption, BoundsAreAges DEF IInv, Typed, Slack, Ages
  <2>4. heard <= (missed + 2) * MaxCycle
    BY <2>2, <2>3, GpuAssumption
  <2>5. PICK left \in Nat : OfflineAfter = missed + 1 + left
    <3>1. OfflineAfter - (missed + 1) \in Nat
      BY <2>2, <2>3, GpuAssumption
    <3> QED
      BY <3>1, <2>3, GpuAssumption
  <2>6. OfflineBound = (missed + 2) * MaxCycle + left * MaxCycle /\ left * MaxCycle \in Nat
    BY <2>3, <2>5, GpuAssumption DEF OfflineBound
  <2> QED
    BY <2>3, <2>4, <2>6, GpuAssumption
<1> QED
  BY <1>1, GpusInvariant, PTL

\* sample() and poll_gpus: a card that was seen stays as long as the hub does.
THEOREM CardsStay == Spec => KeepsLastGood
<1>1. IInv /\ [Next]_vars => [gpus # None => gpus' # None \/ pc' = "down"]_vars
  <2> SUFFICES ASSUME IInv, Next, gpus # None, pc' # "down"
               PROVE  gpus' # None
    BY DEF vars
  <2>1. pc # "down"
    BY DEF IInv, Fetching
  <2>2. CASE Measured
    <3>1. fetched.listed /\ fetched.age \in Int
      <4>1. fetched = [age |-> fetched.age, listed |-> TRUE] /\ fetched.age \in 0..cycleAge
        BY <2>2 DEF IInv, Fetching, Measured
      <4> QED
        BY <4>1, GpuAssumption DEF IInv, Typed
    <3> QED
      BY <2>2, <3>1, GpuAssumption DEF Measured
  <2>3. CASE Tick
    BY <2>3, OlderIsAge DEF Tick, IInv, Typed
  <2>4. CASE Restart
    BY <2>1, <2>4 DEF Restart
  <2>5. CASE Crash
    BY <2>5 DEF Crash
  <2>6. CASE Change \/ Begin \/ NoSidecar \/ Ask \/ Missed \/ Rest
    BY <2>6 DEF Change, Begin, NoSidecar, Ask, Missed, Rest, memory
  <2> QED
    BY <2>2, <2>3, <2>4, <2>5, <2>6 DEF Next, Poll
<1> QED
  BY <1>1, GpusInvariant, PTL DEF Spec, KeepsLastGood
=============================================================================
