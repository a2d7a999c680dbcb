--------------------------- MODULE RouterMetrics ---------------------------
(***************************************************************************)
(* What the hub makes of the counters of one model behind a router         *)
(* (src/hub/llm-hub.py, _poll_router, _rate and parse_engine_json): a rate *)
(* and the stall flag.  The child process counts tokens, and the seconds   *)
(* it spent on them; it is unloaded, crashes and comes back with its       *)
(* counters at zero, and the poller sees of this what it happens to see.   *)
(* Its counters move with its work, or stand still while it works: some    *)
(* builds freeze them, and a JSON dashboard counts a prompt only when its  *)
(* request is complete.                                                    *)
(*                                                                         *)
(* Either rate is an entry of _counters of its own; a behaviour follows    *)
(* one of the two.  Time is in ticks, kept as ages, and rates are tenths   *)
(* of tokens per tick.                                                     *)
(***************************************************************************)
EXTENDS Integers

CONSTANTS None, NoAnswer, NotLoaded,
          Servers,      \* what may serve the model, below
          Speeds,       \* tokens the child may read or generate in a tick
          MaxTokens,    \* bound on the tokens of a process that are rated
          MaxOther,     \* bound on those that are not
          MaxLives,     \* bound on the processes that serve the model
          MaxSetbacks,  \* bound on the times a clock is set back
          RateDecay,    \* RATE_DECAY
          StallAfter,   \* 30 s
          MaxCycle      \* bound on a cycle of the poller

VARIABLES
  \* The child: what is true of it for good; whether it is loaded, the number of
  \* its process, its counters, and what of a request in flight is not in them.
  server, loaded, life, total, flight, calm,
  \* The hub: _counters for the rated key, _rawgen and _rawprompt, and the row.
  counter, noted, rate, stalled,
  \* The poller.
  pc, fetched, cycleAge,
  \* History: for how long a counter did not move, and the work it counts was not
  \* done; the times a clock was set back; and whether the rate is made of tokens
  \* and a time that are not of the same work.
  still, idle, setbacks, mixed

child  == <<server, loaded, life, total, flight, calm>>
hub    == <<counter, noted, rate, stalled>>
poller == <<pc, fetched, cycleAge>>
past   == <<still, idle, setbacks, mixed>>
vars   == <<child, hub, poller, past>>

\* Tokens generated, tokens read, and the seconds of those that are rated.
Keys     == {"gen", "prompt"}
Counters == Keys \cup {"secs"}
Zero     == [c \in Counters |-> 0]

\* A server has a clock or not, is in dual_clock or not, has a busy GPU or not, may
\* freeze its counters, has a JSON dashboard, has the gauge of the prompt rate, which
\* shows one of the speeds; and serves the model with so many processes at most.
ASSUME ServersAssumption ==
  /\ Servers \subseteq [clocked : BOOLEAN, dual : BOOLEAN, gpuBusy : BOOLEAN, freezes : BOOLEAN,
                        json : BOOLEAN, gauged : BOOLEAN, rated : Keys, lives : 1..MaxLives]
  /\ \A s \in Servers : (s.json => s.clocked /\ ~s.gauged) /\ (s.gauged => s.rated = "prompt")

ASSUME MetricsAssumption ==
  /\ Speeds \subseteq Nat \ {0} /\ \E s, f \in Speeds : \A n \in Speeds : s <= n /\ n <= f
  /\ MaxTokens \in Nat /\ MaxOther \in 0..MaxTokens /\ MaxLives \in Nat \ {0}
  /\ MaxSetbacks \in Nat /\ RateDecay \in Nat /\ StallAfter \in Nat
  /\ MaxCycle \in Nat \ {0} /\ None \notin Int

\* Ages are told apart as far as they matter: to the two limits, and to the tokens
\* whose quotient by an age is a rate.
Limits   == {RateDecay, StallAfter, MaxTokens}
MaxAge   == (CHOOSE n \in Limits : \A m \in Limits : m <= n) + MaxCycle + 1
MaxQuiet == StallAfter
Ages     == 0..MaxAge
Up(age, cap) == IF age = None \/ age = cap THEN age ELSE age + 1
Older(age)   == Up(age, MaxAge)

\* Ages of the counters a tick later, in which some of them moved.
Longer(ages, moved) == [key \in Keys |-> IF key \in moved THEN 0 ELSE Up(ages[key], MaxQuiet)]

Tokens  == 0..MaxTokens
Quiets  == [Keys -> 0..MaxQuiet]
Sample  == [seen : [Keys -> Tokens], s : Tokens \cup {None}, gauge : Nat, life : 1..MaxLives,
            setback : 0..MaxSetbacks, still : Quiets, idle : Quiets]
Entry   == [v : Tokens, s : Tokens \cup {None}, t : Ages, life : 1..MaxLives,
            setback : 0..MaxSetbacks, rate : Nat \cup {None}, change : Ages \cup {None}]
Moved   == [v : Tokens, life : 1..MaxLives, t : Ages]

TypeOK ==
  /\ server \in Servers /\ loaded \in BOOLEAN /\ life \in 1..MaxLives /\ calm \in BOOLEAN
  /\ total \in [Counters -> Tokens] /\ flight \in [Counters -> Tokens]
  /\ counter \in Entry \cup {None} /\ noted \in [Keys -> Moved \cup {None}]
  /\ rate \in Nat \cup {None} /\ stalled \in BOOLEAN
  /\ pc \in {"rest", "fetch", "apply"} /\ fetched \in Sample \cup {NoAnswer, NotLoaded}
  /\ cycleAge \in 0..MaxCycle /\ still \in Quiets /\ idle \in Quiets
  /\ setbacks \in 0..MaxSetbacks /\ mixed \in BOOLEAN
  /\ counter # None => (counter.rate = None <=> counter.change = None)

Init ==
  /\ server \in Servers /\ loaded = FALSE /\ life = 1 /\ calm = FALSE
  /\ total = Zero /\ flight = Zero
  /\ counter = None /\ noted = [key \in Keys |-> None] /\ rate = None /\ stalled = FALSE
  /\ pc = "rest" /\ fetched = NoAnswer /\ cycleAge = 0
  /\ still = [key \in Keys |-> 0] /\ idle = still /\ setbacks = 0 /\ mixed = FALSE
-----------------------------------------------------------------------------
\* The router starts a process for the model, and stops it; it may crash too.
Load ==
  /\ ~calm /\ ~loaded /\ loaded' = TRUE
  /\ UNCHANGED <<server, life, total, flight, calm, hub, poller, past>>

Unload ==
  /\ ~calm /\ loaded /\ life < server.lives /\ loaded' = FALSE /\ life' = life + 1
  /\ total' = Zero /\ flight' = Zero
  /\ UNCHANGED <<server, calm, hub, poller, past>>

\* From here on no counter moves and no request fails.
Calm ==
  /\ ~calm /\ calm' = TRUE
  /\ UNCHANGED <<server, loaded, life, total, flight, hub, poller, past>>

\* The prompt of a JSON dashboard's request is not counted while it is read.
Unreported(key) == server.json /\ key = "prompt"

\* Whether the counter moves whenever the work it counts is done; where it does not
\* tell, how long the work was not done is left at 0.
Tells(key) == ~server.freezes /\ ~Unreported(key)
Untold     == {key \in Keys : ~Tells(key)}

\* A tick's work: n tokens, and a second if they are the rated ones.
Add(counts, key, n) ==
  [counts EXCEPT ![key] = @ + n, !["secs"] = IF key = server.rated THEN @ + 1 ELSE @]

Work(key, n) ==
  /\ loaded /\ (calm => Unreported(key))
  /\ total[key] + flight[key] + n <= IF key = server.rated THEN MaxTokens ELSE MaxOther
  /\ IF server.json THEN flight' = Add(flight, key, n) /\ UNCHANGED total
     ELSE total' = Add(total, key, n) /\ UNCHANGED flight
  /\ Unreported(key) => flight["gen"] = 0
  /\ still' = Longer(still, IF Unreported(key) THEN {} ELSE {key})
  /\ idle' = Longer(idle, {key} \cup Untold)

\* Work with the counters frozen.
Unseen(key) ==
  /\ loaded /\ server.freezes
  /\ UNCHANGED <<total, flight>>
  /\ still' = Longer(still, {}) /\ idle' = Longer(idle, {key} \cup Untold)

Rest == UNCHANGED <<total, flight>> /\ still' = Longer(still, {}) /\ idle' = Longer(idle, Untold)

\* A tick, in which the child does nothing, reads a prompt, or generates.
Tick ==
  /\ cycleAge < MaxCycle /\ cycleAge' = cycleAge + 1
  /\ Rest \/ \E key \in Keys : Unseen(key) \/ \E n \in Speeds : Work(key, n)
  /\ counter' = IF counter = None THEN None
                ELSE [counter EXCEPT !.t = Older(@), !.change = Older(@)]
  /\ noted' = [key \in Keys |-> IF noted[key] = None THEN None
                                ELSE [noted[key] EXCEPT !.t = Older(@)]]
  /\ fetched' = IF fetched \in {NoAnswer, NotLoaded} THEN fetched
                ELSE [fetched EXCEPT !.still = Longer(@, {}), !.idle = Longer(@, Untold)]
  /\ UNCHANGED <<server, loaded, life, calm, rate, stalled, pc, setbacks, mixed>>

\* A request of a JSON dashboard is complete: its tokens and seconds are in the
\* totals, but the seconds of generating may be fewer than the dashboard's mean
\* made them while they were in flight.
Complete ==
  /\ ~calm /\ loaded /\ flight # Zero /\ flight' = Zero
  /\ \E lost \in 0..(IF server.rated = "gen" THEN flight["secs"] ELSE 0) :
       /\ total' = [c \in Counters |-> total[c] + flight[c] - IF c = "secs" THEN lost ELSE 0]
       /\ setbacks' = IF lost > 0 THEN setbacks + 1 ELSE setbacks
       /\ setbacks' <= MaxSetbacks
  /\ still' = [still EXCEPT !["prompt"] = IF flight["prompt"] > 0 THEN 0 ELSE @]
  /\ UNCHANGED <<server, loaded, life, calm, hub, poller, idle, mixed>>
-----------------------------------------------------------------------------
\* poller(): a cycle starts; cycleAge is now - t0 from here on.
Begin ==
  /\ pc = "rest" /\ cycleAge > 0 /\ pc' = "fetch" /\ cycleAge' = 0
  /\ UNCHANGED <<fetched, child, hub, past>>

\* parse_engine_json, parse_prom: the counters as they are reported.  What has been
\* generated in flight is in them, a prompt in flight is not; the clock of prompts
\* at zero is none ("or", _poll_router).
Reported(key) == total[key] + IF key = "gen" THEN flight[key] ELSE 0
Seconds       == total["secs"] + IF server.rated = "gen" THEN flight["secs"] ELSE 0
Clock == IF server.clocked /\ (server.rated = "prompt" => Seconds > 0) THEN Seconds ELSE None

\* prompt_tokens_seconds, of a child that has read something; 0 stands for none.
Gauges == IF server.gauged /\ total["prompt"] > 0 THEN {10 * n : n \in Speeds} ELSE {0}

Reading(gauge) ==
  [seen |-> [key \in Keys |-> Reported(key)], s |-> Clock, gauge |-> gauge, life |-> life,
   setback |-> setbacks, still |-> still, idle |-> idle]

\* _poll_router: the listing, and the counters of a model that is loaded.  Either
\* request may fail: the first is an exception, the second no metrics.
Fetch ==
  /\ pc = "fetch" /\ pc' = "apply"
  /\ fetched' \in (IF loaded THEN {Reading(gauge) : gauge \in Gauges} ELSE {NotLoaded})
                  \cup (IF calm THEN {} ELSE {NoAnswer, NotLoaded})
  /\ UNCHANGED <<cycleAge, child, hub, past>>

\* The rated counter of a sample.
Rated(sample) == sample.seen[server.rated]

\* An age as of the start of the cycle.
Then(age) == IF age = MaxAge THEN age ELSE age - cycleAge

ByWall(prev, sample) ==
  IF Then(prev.t) > 0 THEN (10 * (Rated(sample) - prev.v)) \div Then(prev.t) ELSE None

\* Mutant of Quotient: the gauge or the hub's clock, never the child's.
QuotientByWall(prev, sample) == IF sample.gauge > 0 THEN sample.gauge ELSE ByWall(prev, sample)

\* _rate: by the child's clock if both ends have it, else what the gauge says, else
\* by the hub's clock.
Quotient(prev, sample) ==
  IF sample.s # None /\ prev.s # None /\ sample.s > prev.s
  THEN (10 * (Rated(sample) - prev.v)) \div (sample.s - prev.s)
  ELSE IF sample.gauge > 0 THEN sample.gauge
  ELSE ByWall(prev, sample)

Moves(prev, sample) == prev # None /\ Rated(sample) > prev.v

\* Mutant of Counted: a rate is as young as the last poll.
CountedForever(prev, sample) ==
  LET new == IF Moves(prev, sample) THEN Quotient(prev, sample) ELSE None
  IN [v |-> Rated(sample), s |-> sample.s, life |-> sample.life, setback |-> sample.setback,
      t |-> cycleAge,
      rate   |-> IF new # None THEN new ELSE IF prev = None THEN None ELSE prev.rate,
      change |-> IF new # None \/ (prev # None /\ prev.rate # None) THEN cycleAge ELSE None]

\* _rate: the entry of _counters after a sample; a counter that fell, or stood
\* still, leaves the rate and the time of its change.
Counted(prev, sample) ==
  LET new == IF Moves(prev, sample) THEN Quotient(prev, sample) ELSE None
  IN [v |-> Rated(sample), s |-> sample.s, life |-> sample.life, setback |-> sample.setback,
      t |-> cycleAge,
      rate   |-> IF new # None THEN new ELSE IF prev = None THEN None ELSE prev.rate,
      change |-> IF new # None THEN cycleAge ELSE IF prev = None THEN None ELSE prev.change]

\* _rate: what is shown of the entry.
Shown(entry) ==
  IF entry.rate # None /\ Then(entry.change) <= RateDecay THEN entry.rate ELSE None

\* _rawgen, _rawprompt: the value, and when it was first seen.
Noticed(moved, v, n) ==
  IF moved = None \/ v # moved.v THEN [v |-> v, life |-> n, t |-> cycleAge] ELSE moved

Frozen(moved) == moved # None /\ Then(moved.t) > StallAfter

\* The counters that the stall flag of the server looks at.
Watched == IF server.dual THEN Keys ELSE {"gen"}

\* Mutant of Stalls: one clock for all.
StallsByOne(now) == Frozen(now["gen"]) /\ server.gpuBusy

\* The stall flag: a busy GPU, and the counter, or both counters, stand still.
Stalls(now) == (\A key \in Watched : Frozen(now[key])) /\ server.gpuBusy

\* The two ends of a rate are of one process and one clock; and the tokens of a
\* prompt that were counted at once have the time they took beside them.
Alike(prev, sample) ==
  /\ prev.life = sample.life /\ prev.setback = sample.setback
  /\ Unreported(server.rated) => prev.s # None

\* _poll_router, a model with metrics.
Apply ==
  /\ pc = "apply" /\ fetched \notin {NoAnswer, NotLoaded} /\ pc' = "rest"
  /\ LET entry == Counted(counter, fetched)
         now   == [key \in Keys |-> IF key \notin Watched THEN noted[key]
                                    ELSE Noticed(noted[key], fetched.seen[key], fetched.life)]
     IN counter' = entry /\ rate' = Shown(entry) /\ noted' = now /\ stalled' = Stalls(now)
  /\ mixed' = IF Moves(counter, fetched) THEN ~Alike(counter, fetched) ELSE mixed
  /\ fetched' = NoAnswer /\ UNCHANGED <<cycleAge, child, still, idle, setbacks>>

\* _poll_router, a model that is not loaded or has no metrics: the row is
\* emptied, and what the rates are made of stays.
ApplyNothing ==
  /\ pc = "apply" /\ fetched = NotLoaded /\ pc' = "rest"
  /\ rate' = None /\ stalled' = FALSE /\ fetched' = NoAnswer
  /\ UNCHANGED <<counter, noted, cycleAge, child, past>>

\* poll(), an exception: the row stays as it is.
Miss ==
  /\ pc = "apply" /\ fetched = NoAnswer /\ pc' = "rest"
  /\ UNCHANGED <<fetched, cycleAge, child, hub, past>>

Poll == Begin \/ Fetch \/ Apply \/ ApplyNothing \/ Miss
Next == Load \/ Unload \/ Calm \/ Tick \/ Complete \/ Poll

Spec == Init /\ [][Next]_vars

\* The poller thread runs and time passes.
FairSpec == Spec /\ WF_vars(Poll) /\ WF_vars(Tick)
-----------------------------------------------------------------------------
Slowest == CHOOSE n \in Speeds : \A m \in Speeds : n <= m
Fastest == CHOOSE n \in Speeds : \A m \in Speeds : n >= m

\* The rate of generating by the child's clock, and the rate of reading that has
\* a gauge; a clock of prompts is none for the first of them.
Timed == server.gauged \/ (server.clocked /\ server.rated = "gen")

\* "physically bounded" (_rate): a rate is one that the child can have, if the child
\* says what it took, and that the polls can make of it, if not; unless tokens and
\* time are not of the same work: a process that came and went between two polls
\* left a counter that is above the former one's, a clock was set back, or the first
\* prompt of a JSON dashboard is divided by the time between two polls.
RateIsPhysical ==
  rate # None /\ ~mixed =>
    IF Timed THEN 10 * Slowest <= rate /\ rate <= 10 * Fastest
    ELSE rate <= 10 * Fastest * (1 + MaxCycle)

\* The flag is only set if the counters it looks at stood still for as long as
\* StallAfter but for the length of a poll, unless a new process has come to the
\* same count; and the child has then done none of the work that a counter tells of.
\* A build that freezes its counters is flagged while it works, which the flag is
\* for, and so is a JSON dashboard that reads a prompt, which parse_engine_json
\* says ("stalled", _poll_router).
StallIsReal ==
  [][Apply /\ stalled' =>
       \A key \in Watched : noted'[key].life = fetched.life =>
         /\ fetched.still[key] > StallAfter - MaxCycle
         /\ Tells(key) => fetched.idle[key] > StallAfter - MaxCycle]_vars

\* Once the counters do not move any more, because the child does nothing, or froze
\* them, or reads a prompt that is not counted, the rate is gone, and if the model is
\* loaded and the GPU is busy, it is seen to be stalled.  ("then decays to None
\* (idle)", _rate.)
Settles == calm ~> [](rate = None /\ (loaded /\ server.gpuBusy => stalled))
=============================================================================
