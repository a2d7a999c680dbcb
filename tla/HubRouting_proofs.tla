------------------------- MODULE HubRouting_proofs -------------------------
(***************************************************************************)
(* Theorems about the two users of VisionRouting.  HubPoll, for any        *)
(* models, configurations and limits: a server that is said to be online   *)
(* has answered, and whoever the advisor names was served, not too long    *)
(* ago.  VisionAdvisor, for any number of rows, any observations and any   *)
(* policy: the rows are typed, whoever has to queue had no alternative,    *)
(* what the answer says of its choice is true, and the advice does not     *)
(* flap.                                                                   *)
(***************************************************************************)
EXTENDS HubPoll, VisionAdvisor, FiniteSetTheorems, WellFoundedInduction, TLAPS

-----------------------------------------------------------------------------
(* HubPoll.                                                                *)


\* How much of a cycle may be missing from the silence that the misses count.
Slack == IF pc \in {"poll", "apply", "flags"} THEN MaxCycle ELSE 0

\* Numbers are numbers, and a hub that is down has none.
Counters ==
  /\ missed \in 0..OfflineAfter /\ cycleAge \in 0..MaxCycle /\ unheard \in Nat
  /\ pc = "down" => ~online /\ missed = 0 /\ fetched = None /\ cycleAge = 0

\* A server that answers is not silent, nor was one that has answered in this cycle.
Heard ==
  /\ up => unheard = 0
  /\ fetched # None => pc \in {"apply", "flags"} /\ unheard <= cycleAge
  /\ pc = "flags" => fetched # None

\* Every miss is a cycle of silence at most.
Misses ==
  online => missed < OfflineAfter /\ unheard <= missed * MaxCycle + cycleAge + Slack

OnlineInv == Counters /\ Heard /\ Misses
-----------------------------------------------------------------------------
\* A hub that is new has missed nothing.
LEMMA OnlineInitially == Init => OnlineInv
  BY HubAssumption DEF Init, OnlineInv, Counters, Heard, Misses

\* Silence ends with any answer that could be had.
LEMMA OnlineChange ==
  ASSUME OnlineInv, Change
  PROVE  OnlineInv'
<1> USE HubAssumption DEF Change, Noted, memory, poller
<1>1. Counters'
  BY DEF OnlineInv, Counters
<1>2. Heard'
  BY DEF OnlineInv, Counters, Heard
<1>3. Misses'
  BY DEF OnlineInv, Counters, Heard, Misses, Slack
<1> QED
  BY <1>1, <1>2, <1>3 DEF OnlineInv

\* Nothing is heard when nothing changes.
LEMMA OnlineSettle ==
  ASSUME OnlineInv, Settle
  PROVE  OnlineInv'
<1> USE HubAssumption DEF Settle, memory, poller, past
<1>1. Counters'
  BY DEF OnlineInv, Counters
<1>2. Heard'
  BY DEF OnlineInv, Counters, Heard
<1>3. Misses'
  BY DEF OnlineInv, Counters, Heard, Misses, Slack
<1> QED
  BY <1>1, <1>2, <1>3 DEF OnlineInv

\* A request to load or unload is sent to a server that answers.
LEMMA OnlineControl ==
  ASSUME OnlineInv, NEW m \in Models, Control(m)
  PROVE  OnlineInv'
<1> USE HubAssumption DEF Control, ControlPost, Noted, memory, poller
<1>1. Counters'
  BY DEF OnlineInv, Counters
<1>2. Heard'
  BY DEF OnlineInv, Counters, Heard
<1>3. Misses'
  BY DEF OnlineInv, Counters, Heard, Misses, Slack
<1> QED
  BY <1>1, <1>2, <1>3 DEF OnlineInv

\* A cycle begins: what it may take is missing from the count.
LEMMA OnlineBegin ==
  ASSUME OnlineInv, Begin
  PROVE  OnlineInv'
<1> USE HubAssumption DEF Begin, memory, world, past
<1>1. Counters'
  BY DEF OnlineInv, Counters
<1>2. Heard'
  BY DEF OnlineInv, Counters, Heard
<1>3. Misses'
  BY DEF OnlineInv, Counters, Heard, Misses, Slack
<1> QED
  BY <1>1, <1>2, <1>3 DEF OnlineInv

\* Only a server that is up answers.
LEMMA OnlineFetch ==
  ASSUME OnlineInv, Fetch
  PROVE  OnlineInv'
<1> USE HubAssumption DEF Fetch, Http, memory, world, past
<1>1. Counters'
  BY DEF OnlineInv, Counters
<1>2. Heard'
  BY DEF OnlineInv, Counters, Heard
<1>3. Misses'
  BY DEF OnlineInv, Counters, Heard, Misses, Slack
<1> QED
  BY <1>1, <1>2, <1>3 DEF OnlineInv

\* The rows say nothing of silence.
LEMMA OnlineApply ==
  ASSUME OnlineInv, Apply
  PROVE  OnlineInv'
<1> USE HubAssumption DEF Apply, world, past
<1>1. Counters'
  BY DEF OnlineInv, Counters
<1>2. Heard'
  BY DEF OnlineInv, Counters, Heard
<1>3. Misses'
  BY DEF OnlineInv, Counters, Heard, Misses, Slack
<1> QED
  BY <1>1, <1>2, <1>3 DEF OnlineInv

\* The server has answered in this cycle.
LEMMA OnlineSucceed ==
  ASSUME OnlineInv, Succeed
  PROVE  OnlineInv'
<1> USE HubAssumption DEF Succeed, world, past
<1>1. Counters'
  BY DEF OnlineInv, Counters
<1>2. Heard'
  BY DEF OnlineInv, Counters, Heard
<1>3. Misses'
  BY DEF OnlineInv, Counters, Heard, Misses, Slack
<1> QED
  BY <1>1, <1>2, <1>3 DEF OnlineInv

\* A miss is counted.
LEMMA OnlineFail ==
  ASSUME OnlineInv, Fail
  PROVE  OnlineInv'
<1>1. /\ pc = "apply" /\ fetched = None /\ pc' = "done" /\ fetched' = None
      /\ missed' = IF missed = OfflineAfter THEN missed ELSE missed + 1
      /\ cycleAge' = cycleAge /\ up' = up /\ unheard' = unheard
  BY DEF Fail, world, past
<1>2. online' => online /\ missed' < OfflineAfter
  BY Zenon DEF Fail
<1>3. Counters'
  BY <1>1, HubAssumption DEF OnlineInv, Counters
<1>4. Heard'
  BY <1>1 DEF OnlineInv, Heard
<1>5. Misses'
  <2>1. SUFFICES ASSUME online'
                 PROVE  missed' < OfflineAfter /\ unheard <= missed' * MaxCycle + cycleAge
    BY <1>1, <1>3, HubAssumption DEF Misses, Slack, OnlineInv, Counters
  <2>2. /\ missed < OfflineAfter /\ missed' = missed + 1
        /\ unheard <= missed * MaxCycle + cycleAge + MaxCycle
    BY <1>1, <1>2, <2>1, HubAssumption DEF OnlineInv, Misses, Slack, Counters
  <2>3. (missed + 1) * MaxCycle = missed * MaxCycle + MaxCycle /\ missed * MaxCycle \in Nat
    BY HubAssumption DEF OnlineInv, Counters
  <2> QED
    BY <1>2, <2>1, <2>2, <2>3, HubAssumption DEF OnlineInv, Counters
<1> QED
  BY <1>3, <1>4, <1>5 DEF OnlineInv

\* The file says nothing of silence.
LEMMA OnlineRest ==
  ASSUME OnlineInv, Rest
  PROVE  OnlineInv'
<1> USE HubAssumption DEF Rest, memory, world, past
<1>1. Counters'
  BY DEF OnlineInv, Counters
<1>2. Heard'
  BY DEF OnlineInv, Counters, Heard
<1>3. Misses'
  BY DEF OnlineInv, Counters, Heard, Misses, Slack
<1> QED
  BY <1>1, <1>2, <1>3 DEF OnlineInv

\* The hub is down.
LEMMA OnlineCrash ==
  ASSUME OnlineInv, Crash
  PROVE  OnlineInv'
<1> USE HubAssumption DEF Crash, world, past
<1>1. Counters'
  BY DEF OnlineInv, Counters
<1>2. Heard'
  BY DEF OnlineInv, Counters, Heard
<1>3. Misses'
  BY DEF OnlineInv, Counters, Heard, Misses, Slack
<1> QED
  BY <1>1, <1>2, <1>3 DEF OnlineInv

\* The hub is new.
LEMMA OnlineRestart ==
  ASSUME OnlineInv, Restart
  PROVE  OnlineInv'
<1> USE HubAssumption DEF Restart, world
<1>1. Counters'
  BY DEF OnlineInv, Counters
<1>2. Heard'
  BY DEF OnlineInv, Counters, Heard
<1>3. Misses'
  BY DEF OnlineInv, Counters, Heard, Misses, Slack
<1> QED
  BY <1>1, <1>2, <1>3 DEF OnlineInv

\* The silence grows with the cycle.
LEMMA OnlineTick ==
  ASSUME OnlineInv, Tick
  PROVE  OnlineInv'
<1> USE HubAssumption DEF Tick, world, Older, OfflineBound
<1>1. Counters'
  BY DEF OnlineInv, Counters
<1>2. Heard'
  BY DEF OnlineInv, Counters, Heard
<1>3. Misses'
  BY DEF OnlineInv, Counters, Heard, Misses, Slack
<1> QED
  BY <1>1, <1>2, <1>3 DEF OnlineInv

\* Every step keeps the invariant.
LEMMA OnlineNext == OnlineInv /\ [Next]_vars => OnlineInv'
<1> SUFFICES ASSUME OnlineInv, [Next]_vars
             PROVE  OnlineInv'
  OBVIOUS
<1>1. CASE UNCHANGED vars
  BY <1>1 DEF vars, world, memory, poller, past, OnlineInv, Counters, Heard, Misses, Slack
<1> QED
  BY <1>1, OnlineChange, OnlineSettle, OnlineControl, OnlineBegin, OnlineFetch, OnlineApply,
     OnlineSucceed, OnlineFail, OnlineRest, OnlineCrash, OnlineRestart, OnlineTick
     DEF Next, Outside, Poll
-----------------------------------------------------------------------------
\* The inductive invariant of misses and silence.
THEOREM MissesAreCounted == Spec => []OnlineInv
<1> QED
  BY OnlineInitially, OnlineNext, PTL DEF Spec

\* Server.poll and restore: a server that is said to be online has answered within the
\* time that OFFLINE_AFTER polls take, or the hub has only just been started.
THEOREM OnlineHasAnswered == Spec => []OnlineIsRecent
<1>1. OnlineInv => OnlineIsRecent
  <2>1. SUFFICES ASSUME OnlineInv, online
                 PROVE  unheard <= OfflineBound
    BY DEF OnlineIsRecent
  <2>2. missed + 1 <= OfflineAfter /\ unheard <= missed * MaxCycle + cycleAge + Slack
    BY <2>1, HubAssumption DEF OnlineInv, Counters, Misses
  <2>3. missed \in Nat /\ unheard \in Nat /\ cycleAge \in 0..MaxCycle /\ Slack \in 0..MaxCycle
    BY <2>1, HubAssumption DEF OnlineInv, Counters, Slack
  <2>4. unheard <= (missed + 2) * MaxCycle
    BY <2>2, <2>3, HubAssumption
  <2>5. PICK left \in Nat : OfflineAfter = missed + 1 + left
    <3>1. OfflineAfter - (missed + 1) \in Nat
      BY <2>2, <2>3, HubAssumption
    <3> QED
      BY <3>1, <2>3, HubAssumption
  <2>6. OfflineBound = (missed + 2) * MaxCycle + left * MaxCycle /\ left * MaxCycle \in Nat
    BY <2>3, <2>5, HubAssumption DEF OfflineBound
  <2> QED
    BY <2>3, <2>4, <2>6, HubAssumption
<1> QED
  BY <1>1, MissesAreCounted, PTL
-----------------------------------------------------------------------------
(***************************************************************************)
(* Whoever the advisor names was served.  A row that says "loaded" is      *)
(* believed as long as seenAge allows; it is true of a model that was lost *)
(* not longer ago than that, in the hub, in the poller's hands and in the  *)
(* file.                                                                   *)
(***************************************************************************)

\* Rows, last seen so long ago, say "loaded" only of what was lost later than that.
Believable(some, age) ==
  /\ DOMAIN some \subseteq OwnRows
  /\ age # None => /\ age \in Nat
                   /\ \A id \in DOMAIN some : some[id] /\ age <= StaleAfter => lost[id] <= age

\* What the history is of, and what a server lists.
World ==
  /\ config \in Configs /\ roster \subseteq Models /\ Listing
  /\ lost \in [OwnRows -> Nat] /\ \A id \in OwnRows : Serves(id) => lost[id] = 0

\* The reply in the poller's hands, and the rows made of it, are of this cycle.
Reply ==
  /\ cycleAge \in Nat
  /\ seenAge # None /\ seenAge <= StaleAfter => cycleAge <= seenAge
  /\ pc = "down" => fetched = None /\ cycleAge = 0
  /\ fetched # None =>
       /\ pc \in {"apply", "flags"} /\ fetched.roster \subseteq Models
       /\ config.kind = "llama-router" => config.hints \subseteq fetched.roster
       /\ \A id \in OwnRows :
            config.kind = "vllm" \/ id \in fetched.loaded => lost[id] <= cycleAge
  /\ pc = "flags" => \A id \in DOMAIN rows : rows[id] => lost[id] <= cycleAge

\* The hub's rows, and those of the file.
Kept ==
  /\ Believable(rows, seenAge) /\ (online => seenAge # None)
  /\ snap # None =>
       /\ snap = [online |-> snap.online, seenAge |-> snap.seenAge, rows |-> snap.rows]
       /\ Believable(snap.rows, snap.seenAge) /\ (snap.online => snap.seenAge # None)

ServedInv == World /\ Reply /\ Kept

\* Hints that are always listed are in every reply.
HintsStay == HintsMayLeave = FALSE
-----------------------------------------------------------------------------
\* A new hub has no rows.
LEMMA ServedInitially ==
  ASSUME HintsStay
  PROVE  Init => ServedInv
<1> SUFFICES ASSUME Init
             PROVE  ServedInv
  OBVIOUS
<1>1. DOMAIN rows = {}
  BY DEF Init
<1>2. World
  BY DEF Init, World
<1>3. Reply
  BY <1>1 DEF Init, Reply
<1>4. Kept
  BY <1>1 DEF Init, Kept, Believable
<1> QED
  BY <1>2, <1>3, <1>4 DEF ServedInv

\* What is served has not been lost.
LEMMA ServedChange ==
  ASSUME HintsStay, ServedInv, Change
  PROVE  ServedInv'
<1> USE HubAssumption DEF HintsStay, Change, Noted, memory, poller
<1>1. World'
  BY DEF ServedInv, World, Listing, Serves, OwnRows
<1>2. Reply'
  BY DEF ServedInv, World, Reply, Kept, Believable, Listing, Serves, OwnRows
<1>3. Kept'
  BY DEF ServedInv, World, Reply, Kept, Believable, OwnRows
<1> QED
  BY <1>1, <1>2, <1>3 DEF ServedInv

\* Nothing is lost when nothing changes.
LEMMA ServedSettle ==
  ASSUME HintsStay, ServedInv, Settle
  PROVE  ServedInv'
<1> USE HubAssumption DEF HintsStay, Settle, memory, poller, past
<1>1. World'
  BY DEF ServedInv, World, Listing, Serves, OwnRows
<1>2. Reply'
  BY DEF ServedInv, World, Reply, Kept, Believable, Listing, Serves, OwnRows
<1>3. Kept'
  BY DEF ServedInv, World, Reply, Kept, Believable, OwnRows
<1> QED
  BY <1>1, <1>2, <1>3 DEF ServedInv

\* A model that is unloaded was just served.
LEMMA ServedControl ==
  ASSUME HintsStay, ServedInv, NEW m \in Models, Control(m)
  PROVE  ServedInv'
<1> USE HubAssumption DEF HintsStay, Control, ControlPost, Noted, memory, poller
<1>1. World'
  BY DEF ServedInv, World, Listing, Serves, OwnRows
<1>2. Reply'
  BY DEF ServedInv, World, Reply, Kept, Believable, Listing, Serves, OwnRows
<1>3. Kept'
  BY DEF ServedInv, World, Reply, Kept, Believable, OwnRows
<1> QED
  BY <1>1, <1>2, <1>3 DEF ServedInv

\* A cycle begins, and nothing is in hand.
LEMMA ServedBegin ==
  ASSUME HintsStay, ServedInv, Begin
  PROVE  ServedInv'
<1> USE HubAssumption DEF HintsStay, Begin, memory, world, past
<1>1. World'
  BY DEF ServedInv, World, Listing, Serves, OwnRows
<1>2. Reply'
  BY DEF ServedInv, World, Reply, Kept, Believable, Listing, Serves, OwnRows
<1>3. Kept'
  BY DEF ServedInv, World, Reply, Kept, Believable, OwnRows
<1> QED
  BY <1>1, <1>2, <1>3 DEF ServedInv

\* A reply says what is served.
LEMMA ServedFetch ==
  ASSUME HintsStay, ServedInv, Fetch
  PROVE  ServedInv'
<1> USE HubAssumption DEF HintsStay, Fetch, Http, memory, world, past
<1>1. World'
  BY DEF ServedInv, World, Listing, Serves, OwnRows
<1>2. Reply'
  BY DEF ServedInv, World, Reply, Kept, Believable, Listing, Serves, OwnRows
<1>3. Kept'
  BY DEF ServedInv, World, Reply, Kept, Believable, OwnRows
<1> QED
  BY <1>1, <1>2, <1>3 DEF ServedInv

\* Rows are what the reply said, or what they were if the reply does not list them.
LEMMA ServedApply ==
  ASSUME HintsStay, ServedInv, Apply
  PROVE  ServedInv'
<1>1. /\ pc = "apply" /\ fetched # None /\ pc' = "flags"
      /\ UNCHANGED <<config, online, missed, seenAge, fetched, cycleAge, snap, world, past>>
  BY DEF Apply
<1>2. /\ config.kind \in {"llama-router", "vllm", "vllm-mux"} /\ config.hints \subseteq Models
      /\ cycleAge \in Nat /\ \A id \in OwnRows : lost[id] \in Nat
  BY HubAssumption DEF ServedInv, World, Reply
<1>3. /\ DOMAIN rows' \subseteq OwnRows
      /\ \A id \in DOMAIN rows' : rows'[id] => lost[id] <= cycleAge
  <2>1. /\ DOMAIN rows \subseteq OwnRows /\ fetched.roster \subseteq Models
        /\ config.kind = "llama-router" => config.hints \subseteq fetched.roster
        /\ \A id \in OwnRows :
             config.kind = "vllm" \/ id \in fetched.loaded => lost[id] <= cycleAge
    BY <1>1 DEF ServedInv, Reply, Kept, Believable
  <2>2. CASE config.kind = "llama-router"
    <3>1. rows' = RouterRows(rows, fetched)
      BY <2>2, Zenon DEF Apply
    <3> QED
      BY <2>1, <2>2, <3>1 DEF RouterRows, OwnRows
  <2>3. CASE config.kind = "vllm-mux"
    <3>1. rows' = MuxRows(fetched)
      BY <2>3 DEF Apply
    <3> QED
      BY <1>2, <2>1, <2>3, <3>1 DEF MuxRows, OwnRows
  <2>4. CASE config.kind = "vllm"
    <3>1. rows' = VllmRows(rows)
      BY <2>4 DEF Apply
    <3> QED
      BY <2>1, <2>4, <3>1 DEF VllmRows, OwnRows
  <2> QED
    BY <1>2, <2>2, <2>3, <2>4
<1>4. World'
  BY <1>1 DEF ServedInv, World, Listing, Serves, OwnRows, world, past
<1>5. Reply'
  BY <1>1, <1>3 DEF ServedInv, Reply, OwnRows, world, past
<1>6. Kept'
  <2>1. Believable(rows, seenAge)'
    <3>1. seenAge # None /\ seenAge <= StaleAfter => cycleAge <= seenAge
      BY DEF ServedInv, Reply
    <3>2. seenAge # None => seenAge \in Nat
      BY DEF ServedInv, Kept, Believable
    <3> QED
      BY <1>1, <1>2, <1>3, <3>1, <3>2, HubAssumption DEF Believable, OwnRows, past
  <2>2. Believable(snap.rows, snap.seenAge)' <=> Believable(snap.rows, snap.seenAge)
    BY <1>1 DEF Believable, OwnRows, past
  <2> QED
    BY <1>1, <2>1, <2>2 DEF ServedInv, Kept
<1> QED
  BY <1>4, <1>5, <1>6 DEF ServedInv

\* The rows are as old as the cycle.
LEMMA ServedSucceed ==
  ASSUME HintsStay, ServedInv, Succeed
  PROVE  ServedInv'
<1> USE HubAssumption DEF HintsStay, Succeed, world, past
<1>1. World'
  BY DEF ServedInv, World, Listing, Serves, OwnRows
<1>2. Reply'
  BY DEF ServedInv, World, Reply, Kept, Believable, Listing, Serves, OwnRows
<1>3. Kept'
  BY DEF ServedInv, World, Reply, Kept, Believable, OwnRows
<1> QED
  BY <1>1, <1>2, <1>3 DEF ServedInv

\* The rows stay, and so does their age.
LEMMA ServedFail ==
  ASSUME HintsStay, ServedInv, Fail
  PROVE  ServedInv'
<1> USE HubAssumption DEF HintsStay, Fail, world, past
<1>1. World'
  BY DEF ServedInv, World, Listing, Serves, OwnRows
<1>2. Reply'
  BY DEF ServedInv, World, Reply, Kept, Believable, Listing, Serves, OwnRows
<1>3. Kept'
  BY DEF ServedInv, World, Reply, Kept, Believable, OwnRows
<1> QED
  BY <1>1, <1>2, <1>3 DEF ServedInv

\* The file holds what the hub has.
LEMMA ServedRest ==
  ASSUME HintsStay, ServedInv, Rest
  PROVE  ServedInv'
<1> USE HubAssumption DEF HintsStay, Rest, memory, world, past, Saved
<1>1. World'
  BY DEF ServedInv, World, Listing, Serves, OwnRows
<1>2. Reply'
  BY DEF ServedInv, World, Reply, Kept, Believable, Listing, Serves, OwnRows
<1>3. Kept'
  BY DEF ServedInv, World, Reply, Kept, Believable, OwnRows
<1> QED
  BY <1>1, <1>2, <1>3 DEF ServedInv

\* Only the file is left.
LEMMA ServedCrash ==
  ASSUME HintsStay, ServedInv, Crash
  PROVE  ServedInv'
<1> USE HubAssumption DEF HintsStay, Crash, world, past
<1>1. World'
  BY DEF ServedInv, World, Listing, Serves, OwnRows
<1>2. Reply'
  BY DEF ServedInv, World, Reply, Kept, Believable, Listing, Serves, OwnRows
<1>3. Kept'
  BY DEF ServedInv, World, Reply, Kept, Believable, OwnRows
<1> QED
  BY <1>1, <1>2, <1>3 DEF ServedInv

\* The rows of the file are as old as they are said to be.
LEMMA ServedRestart ==
  ASSUME HintsStay, ServedInv, Restart
  PROVE  ServedInv'
<1> USE HubAssumption DEF HintsStay, Restart, world, Restored, Fresh
<1>1. World'
  BY DEF ServedInv, World, Listing, Serves, OwnRows
<1>2. Reply'
  BY DEF ServedInv, World, Reply, Kept, Believable, Listing, Serves, OwnRows
<1>3. Kept'
  BY DEF ServedInv, World, Reply, Kept, Believable, OwnRows
<1> QED
  BY <1>1, <1>2, <1>3 DEF ServedInv

\* Ages grow alike.
LEMMA ServedTick ==
  ASSUME ServedInv, Tick
  PROVE  ServedInv'
<1>1. /\ pc = "down" \/ cycleAge < MaxCycle
      /\ cycleAge' = IF pc = "down" THEN 0 ELSE cycleAge + 1
      /\ seenAge' = Older(seenAge, MaxAge)
      /\ lost' = [id \in OwnRows |-> IF Serves(id) THEN 0 ELSE Older(lost[id], MaxAge)]
      /\ up' = up /\ roster' = roster /\ loaded' = loaded /\ config' = config /\ rows' = rows
      /\ online' = online /\ pc' = pc /\ fetched' = fetched
  BY DEF Tick, world
<1>2. \A age \in Nat :
        /\ Older(age, MaxAge) \in Nat /\ Older(age, MaxAge) # None /\ Older(age, MaxAge) <= age + 1
        /\ Older(age, MaxAge) <= StaleAfter => age <= StaleAfter /\ Older(age, MaxAge) = age + 1
  BY HubAssumption DEF Older, MaxAge
<1>3. Older(None, MaxAge) = None
  BY DEF Older
<1>4. \A id \in OwnRows : /\ lost[id] \in Nat /\ lost'[id] \in Nat /\ lost'[id] <= lost[id] + 1
                          /\ Serves(id) => lost'[id] = 0
  <2>1. \A id \in OwnRows : lost[id] \in Nat
    BY DEF ServedInv, World
  <2>2. \A id \in OwnRows : lost'[id] = IF Serves(id) THEN 0 ELSE Older(lost[id], MaxAge)
    BY <1>1
  <2> HIDE DEF Older
  <2> QED
    BY <1>2, <2>1, <2>2
<1>5. OwnRows' = OwnRows /\ \A id : Serves(id)' <=> Serves(id)
  BY <1>1 DEF OwnRows, Serves
<1>6. \A some, age :
        Believable(some, age) =>
          LET later == Older(age, MaxAge) IN
          /\ DOMAIN some \subseteq OwnRows
          /\ later # None => /\ later \in Nat
               /\ \A id \in DOMAIN some : some[id] /\ later <= StaleAfter => lost'[id] <= later
  <2>1. TAKE some, age
  <2>2. HAVE Believable(some, age)
  <2>3. CASE age = None
    BY <1>3, <2>2, <2>3 DEF Believable
  <2>4. CASE age # None
    <3> HIDE DEF Older
    <3>1. age \in Nat
      BY <2>2, <2>4 DEF Believable
    <3>2. ASSUME NEW id \in DOMAIN some, some[id], Older(age, MaxAge) <= StaleAfter
          PROVE  lost'[id] <= Older(age, MaxAge)
      <4>1. id \in OwnRows /\ age <= StaleAfter /\ Older(age, MaxAge) = age + 1
        BY <1>2, <2>2, <3>1, <3>2 DEF Believable
      <4>2. lost[id] <= age
        BY <2>2, <2>4, <3>2, <4>1 DEF Believable
      <4> QED
        BY <1>4, <3>1, <4>1, <4>2
    <3> QED
      BY <1>2, <2>2, <3>1, <3>2 DEF Believable
  <2> QED
    BY <2>3, <2>4
<1>7. World'
  <2>1. lost' \in [OwnRows' -> Nat]
    BY <1>1, <1>4, <1>5
  <2> QED
    BY <1>1, <1>4, <1>5, <2>1 DEF ServedInv, World, Listing
<1>8. Reply'
  <2> HIDE DEF Older
  <2>1. cycleAge' \in Nat /\ (pc = "down" => cycleAge' = 0)
    BY <1>1 DEF ServedInv, Reply
  <2>2. ASSUME seenAge' # None, seenAge' <= StaleAfter
        PROVE  cycleAge' <= seenAge'
    <3>1. seenAge # None /\ seenAge \in Nat
      BY <1>1, <1>3, <2>2 DEF ServedInv, Kept, Believable
    <3>2. seenAge <= StaleAfter /\ seenAge' = seenAge + 1
      BY <1>1, <1>2, <2>2, <3>1
    <3> QED
      BY <1>1, <3>1, <3>2 DEF ServedInv, Reply
  <2>3. ASSUME fetched # None
        PROVE  \A id \in OwnRows :
                 config.kind = "vllm" \/ id \in fetched.loaded => lost'[id] <= cycleAge'
    <3>1. pc # "down" /\ cycleAge' = cycleAge + 1 /\ cycleAge \in Nat
      BY <1>1, <2>3 DEF ServedInv, Reply
    <3> QED
      BY <1>4, <2>3, <3>1 DEF ServedInv, Reply
  <2>4. ASSUME pc = "flags"
        PROVE  \A id \in DOMAIN rows : rows[id] => lost'[id] <= cycleAge'
    <3>1. cycleAge' = cycleAge + 1 /\ cycleAge \in Nat /\ DOMAIN rows \subseteq OwnRows
      BY <1>1, <2>4 DEF ServedInv, Reply, Kept, Believable
    <3> QED
      BY <1>4, <2>4, <3>1 DEF ServedInv, Reply
  <2> QED
    BY <1>1, <1>5, <2>1, <2>2, <2>3, <2>4 DEF ServedInv, Reply
<1>9. Kept'
  <2>1. Believable(rows, seenAge)' /\ (online' => seenAge' # None)
    <3>1. Believable(rows, seenAge) /\ (online => seenAge # None)
      BY DEF ServedInv, Kept
    <3>2. seenAge # None => seenAge \in Nat
      BY <3>1 DEF Believable
    <3> HIDE DEF Older
    <3> QED
      BY <1>1, <1>2, <1>5, <1>6, <3>1, <3>2 DEF Believable
  <2>2. ASSUME snap # None
        PROVE  /\ snap' = [online |-> snap.online, seenAge |-> Older(snap.seenAge, MaxAge),
                           rows |-> snap.rows]
               /\ Believable(snap.rows, snap.seenAge) /\ (snap.online => snap.seenAge # None)
    BY <2>2 DEF Tick, ServedInv, Kept
  <2>3. ASSUME snap' # None
        PROVE  /\ snap' = [online |-> snap'.online, seenAge |-> snap'.seenAge, rows |-> snap'.rows]
               /\ Believable(snap.rows, snap.seenAge)'
               /\ snap'.online => snap'.seenAge # None
    <3>1. snap # None
      BY <2>3 DEF Tick
    <3>2. /\ snap'.online = snap.online /\ snap'.seenAge = Older(snap.seenAge, MaxAge)
          /\ snap'.rows = snap.rows
      BY <2>2, <3>1
    <3>3. snap.seenAge # None => snap.seenAge \in Nat
      BY <2>2, <3>1 DEF Believable
    <3> HIDE DEF Older
    <3>4. Believable(snap.rows, snap.seenAge)'
      BY <1>5, <1>6, <2>2, <3>1, <3>2 DEF Believable
    <3> QED
      BY <1>2, <2>2, <3>1, <3>2, <3>3, <3>4
  <2> QED
    BY <2>1, <2>3 DEF Kept
<1> QED
  BY <1>7, <1>8, <1>9 DEF ServedInv

\* Every step keeps the invariant.
LEMMA ServedNext ==
  ASSUME HintsStay
  PROVE  ServedInv /\ [Next]_vars => ServedInv'
<1> SUFFICES ASSUME ServedInv, [Next]_vars
             PROVE  ServedInv'
  OBVIOUS
<1>1. CASE UNCHANGED vars
  BY <1>1 DEF vars, world, memory, poller, past, ServedInv, World, Reply, Kept, Believable,
              Listing, Serves, OwnRows
<1> QED
  BY <1>1, ServedChange, ServedSettle, ServedControl, ServedBegin, ServedFetch, ServedApply,
     ServedSucceed, ServedFail, ServedRest, ServedCrash, ServedRestart, ServedTick
     DEF Next, Outside, Poll
-----------------------------------------------------------------------------
\* The inductive invariant of rows and their age, if hinted models stay listed.
THEOREM RowsAreBelievable ==
  ASSUME HintsStay
  PROVE  Spec => []ServedInv
<1> QED
  BY ServedInitially, ServedNext, PTL DEF Spec

\* _reject, poll and restore: whom the advisor names was served not longer ago than the
\* policy allows, across crashes, restores and misses, if hinted models stay listed.
THEOREM AdvisedWasServed ==
  ASSUME HintsStay
  PROVE  Spec => []ChoiceWasUsable
<1>1. ServedInv => ChoiceWasUsable
  <2>1. SUFFICES ASSUME ServedInv, NEW id \in Advised
                 PROVE  lost[id] <= StaleAfter
    BY DEF ChoiceWasUsable
  <2>2. id \in DOMAIN rows /\ Reject(Candidate(id)) = "none"
    BY <2>1 DEF Advised
  <2>3. online /\ rows[id] /\ ~(seenAge # None /\ seenAge > StaleAfter)
    BY <2>2 DEF Reject, Candidate
  <2>4. seenAge # None /\ Believable(rows, seenAge)
    BY <2>1, <2>3 DEF ServedInv, Kept
  <2>5. seenAge \in Nat /\ id \in OwnRows /\ lost[id] \in Nat
    BY <2>1, <2>2, <2>4 DEF Believable, ServedInv, World
  <2>6. seenAge <= StaleAfter
    BY <2>3, <2>4, <2>5, HubAssumption
  <2> QED
    BY <2>2, <2>3, <2>4, <2>5, <2>6, HubAssumption DEF Believable
<1> QED
  BY <1>1, RowsAreBelievable, PTL
-----------------------------------------------------------------------------
(* VisionAdvisor.                                                          *)

\* A normalized observation has a tier that can be compared.
LEMMA NormalForm ==
  ASSUME NEW c \in Candidates
  PROVE  c.tier \in Nat /\ c.parallelism \in (Nat \ {0}) \cup {None}
<1>1. PICK o \in Observations : c = Normalize(o)
  BY DEF Candidates
<1>2. o \in Observation
  BY ObservationsAssumption
<1>3. o.tier \in Int \cup {None} /\ o.parallelism \in Int \cup {None}
  BY <1>2 DEF Observation, Known
<1>4. c.tier = Number(o.tier, 0, DefaultTier) /\ c.parallelism = Number(o.parallelism, 1, None)
  BY <1>1, <1>2 DEF Normalize, Observation
<1> QED
  BY <1>3, <1>4, PolicyAssumption DEF Number, DefaultTier

\* The rows keep their normal form.
THEOREM AdvisorTypeCorrect == AdvisorSpec => []AdvisorTypeOK
<1>1. AdvisorInit => AdvisorTypeOK
  BY NormalForm DEF AdvisorInit, AdvisorTypeOK
<1>2. AdvisorTypeOK /\ [AdvisorNext]_advisorVars => AdvisorTypeOK'
  <2> SUFFICES ASSUME AdvisorTypeOK, [AdvisorNext]_advisorVars
               PROVE  AdvisorTypeOK'
    OBVIOUS
  <2>1. CASE AdvisorNext
    <3>1. PICK i \in RowIds : Observe(i)
      BY <2>1 DEF AdvisorNext
    <3>2. PICK o \in Observations : cands' = [cands EXCEPT ![i] = Normalize(o)]
      BY <3>1 DEF Observe
    <3>3. cands' \in [RowIds -> Candidates] /\ enabled' \in BOOLEAN
      BY <3>1, <3>2 DEF AdvisorTypeOK, Observe, Candidates
    <3> QED
      BY <3>3, NormalForm DEF AdvisorTypeOK
  <2>2. CASE UNCHANGED advisorVars
    BY <2>2 DEF AdvisorTypeOK, advisorVars
  <2> QED
    BY <2>1, <2>2
<1> QED
  BY <1>1, <1>2, PTL DEF AdvisorSpec
-----------------------------------------------------------------------------
\* Nobody precedes the first of a set.
LEMMA FirstIsLeast ==
  ASSUME NEW C, NEW S, IsFiniteSet(S)
  PROVE  Best(C, S, 1) = {i \in S : \A j \in S : ~Precedes(C, j, i)}
<1> SUFFICES ASSUME NEW i \in S
             PROVE  Cardinality({j \in S : Precedes(C, j, i)}) < 1
                    <=> \A j \in S : ~Precedes(C, j, i)
  BY DEF Best
<1> DEFINE before == {j \in S : Precedes(C, j, i)}
<1>1. IsFiniteSet(before)
  BY FS_Subset, before \subseteq S
<1>2. Cardinality(before) \in Nat /\ (Cardinality(before) = 0 <=> before = {})
  BY <1>1, FS_CardinalityType, FS_EmptySet
<1>3. Cardinality(before) < 1 <=> before = {}
  BY <1>2
<1> QED
  BY <1>3

\* A key has four numbers, the first two of which are capacity and tier.
LEMMA KeyComponents ==
  ASSUME NEW c, c.tier \in Nat
  PROVE  /\ SortKey(c) \in [1..4 -> Nat]
         /\ SortKey(c)[1] = Flag(Saturated(c)) /\ SortKey(c)[2] = c.tier
  BY DEF SortKey, Flag

\* The lexicographic order of keys, written out.
LEMMA SmallerKey ==
  ASSUME NEW k \in [1..4 -> Nat], NEW l \in [1..4 -> Nat]
  PROVE  Smaller(k, l) <=>
           \/ k[1] < l[1]
           \/ k[1] = l[1] /\ k[2] < l[2]
           \/ k[1] = l[1] /\ k[2] = l[2] /\ k[3] < l[3]
           \/ k[1] = l[1] /\ k[2] = l[2] /\ k[3] = l[3] /\ k[4] < l[4]
<1>1. DOMAIN k = 1..4
  OBVIOUS
<1>2. ASSUME Smaller(k, l)
      PROVE  \/ k[1] < l[1]
             \/ k[1] = l[1] /\ k[2] < l[2]
             \/ k[1] = l[1] /\ k[2] = l[2] /\ k[3] < l[3]
             \/ k[1] = l[1] /\ k[2] = l[2] /\ k[3] = l[3] /\ k[4] < l[4]
  <2>1. PICK n \in 1..4 : k[n] < l[n] /\ \A m \in 1..(n - 1) : k[m] = l[m]
    BY <1>1, <1>2 DEF Smaller
  <2>2. CASE n = 1
    BY <2>1, <2>2
  <2>3. CASE n = 2
    BY <2>1, <2>3
  <2>4. CASE n = 3
    BY <2>1, <2>4
  <2>5. CASE n = 4
    BY <2>1, <2>5
  <2> QED
    BY <2>2, <2>3, <2>4, <2>5
<1>3. ASSUME k[1] < l[1]
      PROVE  Smaller(k, l)
  BY <1>1, <1>3, 1 \in 1..4, \A m \in 1..(1 - 1) : k[m] = l[m] DEF Smaller
<1>4. ASSUME k[1] = l[1] /\ k[2] < l[2]
      PROVE  Smaller(k, l)
  BY <1>1, <1>4, 2 \in 1..4, \A m \in 1..(2 - 1) : k[m] = l[m] DEF Smaller
<1>5. ASSUME k[1] = l[1] /\ k[2] = l[2] /\ k[3] < l[3]
      PROVE  Smaller(k, l)
  BY <1>1, <1>5, 3 \in 1..4, \A m \in 1..(3 - 1) : k[m] = l[m] DEF Smaller
<1>6. ASSUME k[1] = l[1] /\ k[2] = l[2] /\ k[3] = l[3] /\ k[4] < l[4]
      PROVE  Smaller(k, l)
  BY <1>1, <1>6, 4 \in 1..4, \A m \in 1..(4 - 1) : k[m] = l[m] DEF Smaller
<1> QED
  BY <1>2, <1>3, <1>4, <1>5, <1>6
-----------------------------------------------------------------------------
\* The usable rows are finitely many, and rows have keys.
LEMMA EligibleRows ==
  ASSUME NEW C \in [RowIds -> Candidates]
  PROVE  /\ Eligible(C) \subseteq RowIds /\ IsFiniteSet(Eligible(C))
         /\ \A i \in RowIds : C[i].tier \in Nat /\ SortKey(C[i]) \in [1..4 -> Nat]
<1>1. Eligible(C) \subseteq RowIds
  BY DEF Eligible
<1>2. \A i \in RowIds : C[i].tier \in Nat
  BY NormalForm
<1> QED
  BY <1>1, <1>2, RowIdsAssumption, FS_Subset, KeyComponents

\* The choice is usable, and no usable row precedes it.
LEMMA ChoiceIsFirst ==
  ASSUME NEW C \in [RowIds -> Candidates], NEW e \in BOOLEAN
  PROVE  RouteVision(C, e).choice =
           IF e THEN {i \in Eligible(C) : \A j \in Eligible(C) : ~Precedes(C, j, i)} ELSE {}
<1> DEFINE E == Eligible(C)
<1>1. Best(C, E, 1) = {i \in E : \A j \in E : ~Precedes(C, j, i)}
  BY EligibleRows, FirstIsLeast
<1>2. CASE ~e \/ E = {}
  BY <1>1, <1>2 DEF RouteVision, NoRoute
<1>3. CASE e /\ E # {}
  <2>1. RouteVision(C, e).choice = Best(C, E, 1)
    BY <1>3 DEF RouteVision
  <2> QED
    BY <1>1, <1>3, <2>1
<1> QED
  BY <1>2, <1>3

\* No usable row has a smaller key than the choice: what the key looks at first, capacity,
\* then tier, then contention, is no worse in the choice.
LEMMA ChoiceIsLeast ==
  ASSUME NEW C \in [RowIds -> Candidates], NEW e \in BOOLEAN,
         NEW i \in RouteVision(C, e).choice, NEW j \in Eligible(C)
  PROVE  /\ i \in Eligible(C) /\ C[i].tier \in Nat /\ C[j].tier \in Nat
         /\ Saturated(C[i]) => Saturated(C[j])
         /\ Saturated(C[i]) = Saturated(C[j]) =>
              /\ C[i].tier <= C[j].tier
              /\ C[i].tier = C[j].tier /\ Contended(C[i]) => Contended(C[j])
<1> DEFINE k == SortKey(C[i])
           l == SortKey(C[j])
<1>1. i \in Eligible(C) /\ ~Precedes(C, j, i)
  BY ChoiceIsFirst
<1>2. i \in RowIds /\ j \in RowIds
  BY <1>1, EligibleRows
<1>3. C[i].tier \in Nat /\ C[j].tier \in Nat /\ k \in [1..4 -> Nat] /\ l \in [1..4 -> Nat]
  BY <1>2, EligibleRows
<1>4. /\ k[1] = Flag(Saturated(C[i])) /\ k[2] = C[i].tier /\ k[3] = Flag(Contended(C[i]))
      /\ l[1] = Flag(Saturated(C[j])) /\ l[2] = C[j].tier /\ l[3] = Flag(Contended(C[j]))
  BY DEF SortKey
<1>5. ~Smaller(l, k)
  BY <1>1 DEF Precedes
<1> HIDE DEF k, l
<1>6. /\ ~(l[1] < k[1]) /\ ~(l[1] = k[1] /\ l[2] < k[2])
      /\ ~(l[1] = k[1] /\ l[2] = k[2] /\ l[3] < k[3])
  BY <1>3, <1>5, SmallerKey
<1>7. Saturated(C[i]) => Saturated(C[j])
  BY <1>4, <1>6 DEF Flag
<1>8. ASSUME Saturated(C[i]) = Saturated(C[j])
      PROVE  C[i].tier <= C[j].tier
  <2>1. k[1] = l[1]
    BY <1>4, <1>8
  <2> QED
    BY <1>3, <1>4, <1>6, <2>1
<1>9. ASSUME Saturated(C[i]) = Saturated(C[j]), C[i].tier = C[j].tier, Contended(C[i])
      PROVE  Contended(C[j])
  <2>1. k[1] = l[1] /\ k[2] = l[2]
    BY <1>4, <1>9
  <2>2. ~(l[3] < k[3])
    BY <1>6, <2>1
  <2> QED
    BY <1>4, <1>9, <2>2 DEF Flag
<1> QED
  BY <1>1, <1>3, <1>7, <1>8, <1>9

\* Whoever has to queue had no alternative, and among rows of the same capacity the
\* client gets one of the lowest tier ("IMMEDIATE outranks QUEUED, always").
THEOREM QueuesOnlyIfNeeded == AdvisorSpec => []QueuesOnlyIfAllDo
<1>1. AdvisorTypeOK => QueuesOnlyIfAllDo
  BY ChoiceIsLeast DEF AdvisorTypeOK, QueuesOnlyIfAllDo, Answer
<1> QED
  BY <1>1, AdvisorTypeCorrect, PTL

\* The order of the rows is strict.
LEMMA OrderIsStrict ==
  ASSUME NEW C \in [RowIds -> Candidates], NEW i \in RowIds
  PROVE  /\ ~Precedes(C, i, i)
         /\ \A j, n \in RowIds : Precedes(C, n, j) /\ Precedes(C, j, i) => Precedes(C, n, i)
<1>1. \A m \in RowIds : m \in Nat /\ SortKey(C[m]) \in [1..4 -> Nat]
  BY EligibleRows, RowIdsAssumption
<1>2. ~Precedes(C, i, i)
  <2>1. ~Smaller(SortKey(C[i]), SortKey(C[i]))
    BY <1>1, SmallerKey
  <2> QED
    BY <1>1, <2>1 DEF Precedes
<1>3. ASSUME NEW j \in RowIds, NEW n \in RowIds, Precedes(C, n, j), Precedes(C, j, i)
      PROVE  Precedes(C, n, i)
  <2> DEFINE a == SortKey(C[n])
             b == SortKey(C[j])
             c == SortKey(C[i])
  <2>1. a \in [1..4 -> Nat] /\ b \in [1..4 -> Nat] /\ c \in [1..4 -> Nat]
    BY <1>1
  <2>2. (Smaller(a, b) \/ (a = b /\ n < j)) /\ (Smaller(b, c) \/ (b = c /\ j < i))
    BY <1>3 DEF Precedes
  <2> HIDE DEF a, b, c
  <2>3. Smaller(a, b) /\ Smaller(b, c) => Smaller(a, c)
    <3>1. /\ a[1] \in Nat /\ a[2] \in Nat /\ a[3] \in Nat /\ a[4] \in Nat
          /\ b[1] \in Nat /\ b[2] \in Nat /\ b[3] \in Nat /\ b[4] \in Nat
          /\ c[1] \in Nat /\ c[2] \in Nat /\ c[3] \in Nat /\ c[4] \in Nat
      BY <2>1
    <3> QED
      BY <2>1, <3>1, SmallerKey
  <2>4. Smaller(a, c) \/ (a = c /\ n < i)
    BY <1>1, <2>2, <2>3
  <2> QED
    BY <2>4 DEF Precedes, a, c
<1> QED
  BY <1>2, <1>3

\* Two rows neither of which precedes the other are one.
LEMMA OrderIsTotal ==
  ASSUME NEW C \in [RowIds -> Candidates], NEW i \in RowIds, NEW j \in RowIds,
         ~Precedes(C, i, j), ~Precedes(C, j, i)
  PROVE  i = j
<1> DEFINE k == SortKey(C[i])
           l == SortKey(C[j])
<1>1. k \in [1..4 -> Nat] /\ l \in [1..4 -> Nat] /\ i \in Nat /\ j \in Nat
  BY EligibleRows, RowIdsAssumption
<1>2. ~Smaller(k, l) /\ ~Smaller(l, k) /\ (k = l => ~(i < j) /\ ~(j < i))
  BY DEF Precedes
<1> HIDE DEF k, l
<1>3. /\ k[1] \in Nat /\ k[2] \in Nat /\ k[3] \in Nat /\ k[4] \in Nat
      /\ l[1] \in Nat /\ l[2] \in Nat /\ l[3] \in Nat /\ l[4] \in Nat
  BY <1>1
<1>4. k[1] = l[1] /\ k[2] = l[2] /\ k[3] = l[3] /\ k[4] = l[4]
  BY <1>1, <1>2, <1>3, SmallerKey
<1>5. \A n \in 1..4 : k[n] = l[n]
  BY <1>4
<1>6. k = l
  BY <1>1, <1>5
<1> QED
  BY <1>1, <1>2, <1>6

\* Of usable rows, one is first.
LEMMA FirstExists ==
  ASSUME NEW C \in [RowIds -> Candidates], Eligible(C) # {}
  PROVE  \E i \in Eligible(C) : \A j \in Eligible(C) : ~Precedes(C, j, i)
<1> DEFINE E == Eligible(C)
           Before(i) == {j \in E : Precedes(C, j, i)}
           T == {Before(i) : i \in E}
<1>1. E \subseteq RowIds /\ IsFiniteSet(E)
  BY EligibleRows
<1>2. T \subseteq FiniteSubsetsOf(E) /\ T # {}
  <2>1. \A i \in E : Before(i) \subseteq E /\ IsFiniteSet(Before(i))
    BY <1>1, FS_Subset
  <2> QED
    BY <2>1 DEF FiniteSubsetsOf
<1>3. \E x \in T : \A y \in T : ~(<<y, x>> \in StrictSubsetOrdering(E))
  <2>1. IsWellFoundedOn(StrictSubsetOrdering(E), FiniteSubsetsOf(E))
    BY FS_StrictSubsetOrderingWellFounded
  <2> HIDE DEF E, T
  <2> QED
    BY <1>2, <2>1, WFMin
<1>4. PICK i \in E : \A j \in E : ~(<<Before(j), Before(i)>> \in StrictSubsetOrdering(E))
  BY <1>3
<1>5. ASSUME NEW j \in E, Precedes(C, j, i)
      PROVE  FALSE
  <2>1. \A n \in E : Precedes(C, n, j) => Precedes(C, n, i)
    BY <1>1, <1>5, OrderIsStrict
  <2>2. j \in Before(i) /\ j \notin Before(j)
    BY <1>1, <1>5, OrderIsStrict
  <2>3. Before(j) \subseteq Before(i) /\ Before(j) # Before(i)
    BY <2>1, <2>2
  <2>4. Before(j) \in SUBSET E /\ Before(i) \in SUBSET E
    OBVIOUS
  <2>5. <<Before(j), Before(i)>> \in StrictSubsetOrdering(E)
    BY <2>3, <2>4 DEF StrictSubsetOrdering
  <2> QED
    BY <1>4, <2>5
<1> QED
  BY <1>5

\* What the reason codes of an answer say is true, and what is true is said: the tier is
\* called preferred exactly where it is the lowest usable one, and is passed over only for
\* being full; who is sent to a queue had no alternative that is free; and contention is
\* reported exactly where no equal escapes it.
THEOREM ReasonsStayTrue == AdvisorSpec => []ReasonsAreTrue
<1>1. AdvisorTypeOK => ReasonsAreTrue
  <2>0. ASSUME AdvisorTypeOK, Answer.ok
        PROVE  Answer.choice # {}
    <3>1. enabled /\ Eligible(cands) # {}
      BY <2>0 DEF Answer, RouteVision, NoRoute
    <3>2. cands \in [RowIds -> Candidates] /\ enabled \in BOOLEAN
      BY <2>0 DEF AdvisorTypeOK
    <3> QED
      BY <3>1, <3>2, FirstExists, ChoiceIsFirst DEF Answer
  <2> SUFFICES ASSUME AdvisorTypeOK, NEW i \in Answer.choice
               PROVE  LET usable == Eligible(cands)
                          equals == {j \in usable : Saturated(cands[j]) = Saturated(cands[i])
                                                    /\ cands[j].tier = cands[i].tier}
                          said(code) == code \in Answer.codes
                      IN /\ said("preferred_tier") <=>
                              \A j \in usable : cands[i].tier <= cands[j].tier
                         /\ ~said("preferred_tier") =>
                              \E j \in usable : /\ cands[j].tier < cands[i].tier
                                                /\ Saturated(cands[j]) /\ ~Saturated(cands[i])
                         /\ said("only_queued_available") <=> \A j \in usable : Saturated(cands[j])
                         /\ said("immediate_capacity") <=> \E j \in usable : ~Saturated(cands[j])
                         /\ said("gpu_contention") <=>
                              \A j \in equals :
                                /\ ~cands[j].gpusStale
                                /\ cands[j].util # None /\ cands[j].util >= BusyThreshold
    BY <2>0 DEF ReasonsAreTrue
  <2> DEFINE E == Eligible(cands)
             Q == {j \in E : Saturated(cands[j]) = Saturated(cands[i])
                             /\ cands[j].tier = cands[i].tier}
  <2>1. cands \in [RowIds -> Candidates] /\ enabled \in BOOLEAN
    BY DEF AdvisorTypeOK
  <2>2. Answer.choice = IF enabled THEN {n \in E : \A j \in E : ~Precedes(cands, j, n)} ELSE {}
    BY <2>1, ChoiceIsFirst DEF Answer
  <2>3. enabled /\ i \in E /\ \A j \in E : ~Precedes(cands, j, i)
    BY <2>2
  <2>4. \A n \in Answer.choice : n = i
    <3>1. SUFFICES ASSUME NEW n \in Answer.choice
                   PROVE  n = i
      OBVIOUS
    <3>2. ~Precedes(cands, i, n) /\ ~Precedes(cands, n, i) /\ n \in E
      BY <2>2, <2>3
    <3>3. n \in RowIds /\ i \in RowIds
      BY <2>1, <2>3, <3>2, EligibleRows
    <3> QED
      BY <2>1, <3>2, <3>3, OrderIsTotal
  <2>5. Answer.codes =
          {IF CapacityClass(cands[n]) = "queued" THEN "only_queued_available"
           ELSE "immediate_capacity" : n \in Answer.choice}
          \cup {"preferred_tier" : n \in {n \in Answer.choice :
                  \A j \in E : cands[n].tier <= cands[j].tier}}
          \cup {"gpu_contention" : n \in {n \in Answer.choice : Contended(cands[n])}}
    BY <2>3, Zenon DEF Answer, RouteVision
  <2>6. /\ "preferred_tier" \in Answer.codes <=> \A j \in E : cands[i].tier <= cands[j].tier
        /\ "gpu_contention" \in Answer.codes <=> Contended(cands[i])
        /\ "only_queued_available" \in Answer.codes <=> CapacityClass(cands[i]) = "queued"
        /\ "immediate_capacity" \in Answer.codes <=> CapacityClass(cands[i]) # "queued"
    BY <2>4, <2>5
  <2>7. CapacityClass(cands[i]) = "queued" <=> Saturated(cands[i])
    BY DEF CapacityClass
  <2>8. \A j \in E :
          /\ cands[i].tier \in Nat /\ cands[j].tier \in Nat
          /\ Saturated(cands[i]) => Saturated(cands[j])
          /\ Saturated(cands[i]) = Saturated(cands[j]) =>
               /\ cands[i].tier <= cands[j].tier
               /\ cands[i].tier = cands[j].tier /\ Contended(cands[i]) => Contended(cands[j])
    BY <2>1, ChoiceIsLeast DEF Answer
  <2>9. Saturated(cands[i]) <=> \A j \in E : Saturated(cands[j])
    BY <2>3, <2>8
  <2>10. ASSUME "preferred_tier" \notin Answer.codes
         PROVE  \E j \in E : /\ cands[j].tier < cands[i].tier
                             /\ Saturated(cands[j]) /\ ~Saturated(cands[i])
    <3>1. PICK j \in E : ~(cands[i].tier <= cands[j].tier)
      BY <2>6, <2>10
    <3>2. cands[j].tier < cands[i].tier /\ Saturated(cands[i]) # Saturated(cands[j])
      BY <2>8, <3>1
    <3>3. Saturated(cands[i]) \in BOOLEAN /\ Saturated(cands[j]) \in BOOLEAN
      BY DEF Saturated
    <3> QED
      BY <2>8, <3>2, <3>3
  <2>11. Contended(cands[i]) <=> \A j \in Q : Contended(cands[j])
    BY <2>3, <2>8
  <2>12. \A j \in Q : Contended(cands[j]) <=>
           ~cands[j].gpusStale /\ cands[j].util # None /\ cands[j].util >= BusyThreshold
    BY DEF Contended, Reaches
  <2> QED
    BY <2>6, <2>7, <2>9, <2>10, <2>11, <2>12
<1> QED
  BY <1>1, AdvisorTypeCorrect, PTL

\* Keys that are no larger, component by component, keep their place.
LEMMA OrderIsMonotone ==
  ASSUME NEW k \in [1..4 -> Nat], NEW l \in [1..4 -> Nat],
         NEW kk \in [1..4 -> Nat], NEW ll \in [1..4 -> Nat],
         \A n \in 1..4 : kk[n] <= k[n], \A n \in 1..4 : l[n] <= ll[n]
  PROVE  /\ Smaller(ll, kk) => Smaller(l, k)
         /\ ll = kk => Smaller(l, k) \/ l = k
<1>1. /\ kk[1] <= k[1] /\ kk[2] <= k[2] /\ kk[3] <= k[3] /\ kk[4] <= k[4]
      /\ l[1] <= ll[1] /\ l[2] <= ll[2] /\ l[3] <= ll[3] /\ l[4] <= ll[4]
  OBVIOUS
<1>2. /\ k[1] \in Nat /\ k[2] \in Nat /\ k[3] \in Nat /\ k[4] \in Nat
      /\ l[1] \in Nat /\ l[2] \in Nat /\ l[3] \in Nat /\ l[4] \in Nat
      /\ kk[1] \in Nat /\ kk[2] \in Nat /\ kk[3] \in Nat /\ kk[4] \in Nat
      /\ ll[1] \in Nat /\ ll[2] \in Nat /\ ll[3] \in Nat /\ ll[4] \in Nat
  OBVIOUS
<1>3. Smaller(ll, kk) => Smaller(l, k)
  BY <1>1, <1>2, SmallerKey
<1>4. ASSUME ll = kk, ~Smaller(l, k)
      PROVE  l = k
  <2>1. l[1] = k[1] /\ l[2] = k[2] /\ l[3] = k[3] /\ l[4] = k[4]
    BY <1>1, <1>2, <1>4, SmallerKey
  <2>2. \A n \in 1..4 : l[n] = k[n]
    BY <2>1
  <2> QED
    BY <2>2
<1> QED
  BY <1>3, <1>4

\* The advice changes only if the choice got worse, or somebody else better.
THEOREM AdviceDoesNotFlap == AdvisorSpec => AdviceIsStable
<1> DEFINE Steady ==
      \A i \in Answer.choice :
        (/\ NoWorse(cands'[i], cands[i])
         /\ \A j \in RowIds \ {i} : NoWorse(cands[j], cands'[j]))
        => i \in Answer'.choice
<1>1. AdvisorTypeOK /\ AdvisorTypeOK' /\ [AdvisorNext]_advisorVars => [Steady]_advisorVars
  <2> SUFFICES ASSUME AdvisorTypeOK, AdvisorTypeOK', [AdvisorNext]_advisorVars,
                      NEW i \in Answer.choice,
                      NoWorse(cands'[i], cands[i]),
                      \A j \in RowIds \ {i} : NoWorse(cands[j], cands'[j])
               PROVE  i \in Answer'.choice
    OBVIOUS
  <2>1. enabled' = enabled
    BY DEF AdvisorNext, Observe, advisorVars
  <2>2. /\ enabled /\ i \in Eligible(cands)
        /\ \A j \in Eligible(cands) : ~Precedes(cands, j, i)
    BY ChoiceIsFirst DEF AdvisorTypeOK, Answer
  <2>3. Answer'.choice =
          {n \in Eligible(cands') : \A j \in Eligible(cands') : ~Precedes(cands', j, n)}
    <3>1. cands' \in [RowIds -> Candidates] /\ enabled' \in BOOLEAN
      BY DEF AdvisorTypeOK
    <3>2. Answer' = RouteVision(cands', enabled')
      BY DEF Answer
    <3> QED
      BY <2>1, <2>2, <3>1, <3>2, ChoiceIsFirst
  <2>4. /\ Eligible(cands) \subseteq RowIds /\ Eligible(cands') \subseteq RowIds
        /\ \A n \in RowIds : SortKey(cands[n]) \in [1..4 -> Nat] /\ SortKey(cands'[n]) \in [1..4 -> Nat]
    BY EligibleRows DEF AdvisorTypeOK
  <2>5. i \in Eligible(cands')
    BY <2>2, <2>4 DEF Eligible, NoWorse, AdvisorTypeOK
  <2>6. ASSUME NEW j \in Eligible(cands'), Precedes(cands', j, i)
        PROVE  FALSE
    <3> DEFINE k  == SortKey(cands[i])
               kk == SortKey(cands'[i])
               l  == SortKey(cands[j])
               ll == SortKey(cands'[j])
    <3>1. k \in [1..4 -> Nat] /\ kk \in [1..4 -> Nat] /\ l \in [1..4 -> Nat] /\ ll \in [1..4 -> Nat]
      BY <2>2, <2>4
    <3>2. CASE j = i
      <4>1. ~Smaller(kk, kk)
        BY <3>1, SmallerKey
      <4> QED
        BY <2>6, <3>2, <4>1, <2>2, <2>4, RowIdsAssumption DEF Precedes
    <3>3. CASE j # i
      <4>1. j \in RowIds \ {i}
        BY <2>4, <3>3
      <4>2. j \in Eligible(cands)
        BY <2>4, <4>1 DEF Eligible, NoWorse, AdvisorTypeOK
      <4>3. (\A n \in 1..4 : kk[n] <= k[n]) /\ (\A n \in 1..4 : l[n] <= ll[n])
        BY <3>1, <4>1 DEF NoWorse
      <4>4. Smaller(ll, kk) \/ (ll = kk /\ j < i)
        BY <2>6 DEF Precedes
      <4>5. ~Smaller(l, k) /\ ~(l = k /\ j < i)
        BY <2>2, <4>2 DEF Precedes
      <4> HIDE DEF k, kk, l, ll
      <4> QED
        BY <3>1, <4>3, <4>4, <4>5, OrderIsMonotone
    <3> QED
      BY <3>2, <3>3
  <2> QED
    BY <2>3, <2>5, <2>6
<1> QED
  BY <1>1, AdvisorTypeCorrect, PTL DEF AdvisorSpec, AdviceIsStable
=============================================================================
