--------------------------- MODULE EngineWindows ---------------------------
(***************************************************************************)
(* What the hub makes of the counters of vLLM engines (src/hub/llm-hub.py, *)
(* _poll_vllm, _poll_vllmmux, _apply_vllm_metrics).  The engines count in  *)
(* lumps: the tokens of a prompt appear with its first token, its phases   *)
(* when the request is finished.  They are kept in windows, from which come*)
(* speeds, quantiles and a timer of the prefill under way.  Engines are    *)
(* switched (behind a mux) and restarted; the poller asks for the catalog  *)
(* and then for the metrics, and either answer may be lost.                *)
(*                                                                         *)
(* Time is in ticks, kept as ages; speeds are tenths of tokens per tick,   *)
(* and quantiles hundredths of ticks.                                      *)
(***************************************************************************)
EXTENDS Integers, Sequences, FiniteSets

CONSTANTS None,
          Engines,      \* ids of models; one engine serves at a time
          Mux,          \* whether a mux is in front of them (vllm-mux)
          Prompts,      \* [n, k, h]: tokens computed, the ticks that takes, tokens cached
          Bounds,       \* the finite bounds of the histogram of first tokens
          MaxDecode,    \* bound on the ticks in which a request generates more
          MaxRequests,  \* bound on the requests of each process
          MaxLives,     \* bound on the processes
          WinSamples,   \* WIN_SAMPLES
          RingSamples,  \* PP_TPUT_WINDOW in polls
          RingGap,      \* 15 s
          RingSpan,     \* 30 s
          MaxCycle      \* bound on a cycle of the poller

VARIABLES
  \* The engine that serves: its model, the number of its process, its counters,
  \* and the request in it.
  active, life, count, request,
  \* The hub.
  metricsMid, winbuf, ring, live, vlast, row,
  \* The poller: the model of the catalog, and the body of /metrics.
  pc, listed, body, cycleAge,
  \* History: for how long no token came.
  quiet

engine == <<active, life, count, request>>
hub    == <<metricsMid, winbuf, ring, live, vlast, row>>
poller == <<pc, listed, body, cycleAge>>
vars   == <<engine, hub, poller, quiet>>

\* What the engine counts, and what a sample has of it.
Counters == [lc : Nat, lh : Nat, pt : Nat, late : [Bounds -> Nat],
             ttftn : Nat, gen : Nat, pfkv : Nat, prefill : Nat]
Readings == [count : Counters, busy : BOOLEAN, life : Nat, quiet : Nat]

ASSUME WindowsAssumption ==
  /\ None \notin Nat /\ None \notin Engines /\ None \notin Readings \cup [gen : Nat, ttftn : Nat]
  /\ Mux \in BOOLEAN /\ Prompts \subseteq [n : Nat \ {0}, k : Nat \ {0}, h : Nat]
  /\ Bounds \subseteq Nat \ {0} /\ IsFiniteSet(Bounds) /\ Bounds # {}
  /\ {MaxLives, WinSamples, RingSamples, MaxCycle} \subseteq Nat \ {0}
  /\ MaxRequests \in [1..MaxLives -> Nat \ {0}]
  /\ {MaxDecode, RingGap, RingSpan} \subseteq Nat

MaxAge == (RingSamples - 1) * RingGap + 2 * MaxCycle + 1
Ages   == 0..MaxAge
Older(age) == IF age = None \/ age = MaxAge THEN age ELSE age + 1

\* The counters: prompt tokens, computed, cached and requested; requests by the bound that their first
\* token met; generated tokens; and of finished requests, the computed tokens and
\* the ticks of prefill.
Zero ==
  [lc |-> 0, lh |-> 0, pt |-> 0, late |-> [b \in Bounds |-> 0],
   ttftn |-> 0, gen |-> 0, pfkv |-> 0, prefill |-> 0]

NoRow ==
  [speed |-> None, p50 |-> None, p95 |-> None, tput |-> None, elapsed |-> None, hits |-> None, drift |-> None]

Init ==
  /\ active \in Engines /\ life = 1 /\ count = Zero /\ request = None
  /\ metricsMid = None /\ winbuf = <<>> /\ ring = <<>> /\ live = None /\ vlast = None /\ row = NoRow
  /\ pc = "rest" /\ listed = None /\ body = None /\ cycleAge = 0
  /\ quiet = 0

TypeOK ==
  /\ active \in Engines \cup {None} /\ life \in 1..MaxLives
  /\ count \in Counters /\ count.ttftn <= MaxRequests[life] /\ body \in Readings \cup {None}
  /\ request \in {None} \cup [prompt : Prompts, spent : Nat, first : BOOLEAN]
  /\ metricsMid \in Engines \cup {None} /\ listed \in Engines \cup {None}
  /\ Len(winbuf) <= WinSamples /\ Len(ring) <= RingSamples
  /\ live \in {None} \cup [age : Ages, life : 1..MaxLives] /\ row \in [DOMAIN NoRow -> Nat \cup {None}]
  /\ pc \in {"rest", "catalog", "metrics", "apply"} /\ cycleAge \in 0..MaxCycle
  /\ quiet \in Ages
  /\ Len(winbuf) > 0 <=> Len(ring) > 0
-----------------------------------------------------------------------------
\* The engine serves one request after the other.
Arrive ==
  /\ active # None /\ request = None /\ count.ttftn < MaxRequests[life]
  /\ \E p \in Prompts : request' = [prompt |-> p, spent |-> 0, first |-> FALSE]
  /\ UNCHANGED <<active, life, count, hub, poller, quiet>>

FirstToken ==
  /\ request # None /\ ~request.first /\ request.spent = request.prompt.k
  /\ request' = [request EXCEPT !.first = TRUE]
  /\ count' = [count EXCEPT !.lc = @ + request.prompt.n, !.lh = @ + request.prompt.h,
                 !.pt = @ + request.prompt.n + request.prompt.h, !.ttftn = @ + 1, !.gen = @ + 1,
                 !.late = [b \in Bounds |-> @[b] + IF request.prompt.k <= b THEN 1 ELSE 0]]
  /\ quiet' = 0 /\ UNCHANGED <<active, life, hub, poller>>

Finish ==
  /\ request # None /\ request.first /\ request' = None
  /\ count' = [count EXCEPT !.pfkv = @ + request.prompt.n, !.prefill = @ + request.prompt.k]
  /\ UNCHANGED <<active, life, hub, poller, quiet>>

\* A client goes away before the first token.
Abort ==
  /\ request # None /\ ~request.first /\ request' = None
  /\ UNCHANGED <<active, life, count, hub, poller, quiet>>

\* The process ends; systemd or the mux starts one, perhaps of another model.
Stop ==
  /\ active # None /\ life < MaxLives
  /\ active' = None /\ life' = life + 1 /\ count' = Zero /\ request' = None
  /\ UNCHANGED <<hub, poller, quiet>>

Start ==
  /\ active = None /\ active' \in Engines
  /\ UNCHANGED <<life, count, request, hub, poller, quiet>>

\* A tick of work on the request: on its prompt, or for another token.
Tick ==
  /\ cycleAge < MaxCycle /\ cycleAge' = cycleAge + 1
  /\ request # None =>
       request.spent < request.prompt.k + (IF request.first THEN MaxDecode ELSE 0)
  /\ request' = IF request = None THEN None ELSE [request EXCEPT !.spent = @ + 1]
  /\ LET token == request # None /\ request.first IN
     /\ count' = [count EXCEPT !.gen = @ + IF token THEN 1 ELSE 0]
     /\ quiet' = IF token THEN 0 ELSE Older(quiet)
  /\ ring' = [i \in DOMAIN ring |-> [ring[i] EXCEPT !.t = Older(@)]]
  /\ live' = IF live = None THEN None ELSE [live EXCEPT !.age = Older(@)]
  /\ body' = IF body = None THEN None ELSE [body EXCEPT !.quiet = Older(@)]
  /\ UNCHANGED <<active, life, metricsMid, winbuf, vlast, row, pc, listed>>
-----------------------------------------------------------------------------
Begin ==
  /\ pc = "rest" /\ cycleAge > 0 /\ cycleAge' = 0
  /\ pc' = (IF Mux THEN "catalog" ELSE "metrics")
  /\ UNCHANGED <<engine, hub, listed, body, quiet>>

\* _poll_vllmmux: which model is loaded; of one that is not, the row is emptied and
\* the timer forgotten.  No answer is an exception.
Catalog ==
  /\ pc = "catalog"
  /\ \/ pc' = "rest" /\ UNCHANGED <<hub, listed>>
     \/ /\ pc' = (IF active = None THEN "rest" ELSE "metrics") /\ listed' = active
        /\ IF active # metricsMid THEN live' = None /\ row' = NoRow ELSE UNCHANGED <<live, row>>
        /\ UNCHANGED <<metricsMid, winbuf, ring, vlast>>
  /\ UNCHANGED <<engine, body, cycleAge, quiet>>

\* _apply_vllm_metrics: what a sample has of the counters.
Reading ==
  [count |-> count, busy |-> request # None, life |-> life, quiet |-> quiet]

\* _poll_vllm: the metrics of the engine that serves by now, which a mux forwards.
\* The metrics of the only engine of kind vllm have one id.
Metrics ==
  /\ pc = "metrics"
  /\ \/ /\ active # None /\ body' = Reading /\ pc' = "apply"
        /\ listed' = IF Mux THEN listed ELSE CHOOSE e \in Engines : TRUE
     \/ pc' = "rest" /\ listed' = None /\ body' = None
  /\ UNCHANGED <<engine, hub, cycleAge, quiet>>

Then(age) == IF age = MaxAge THEN age ELSE age - cycleAge
Last(seq) == seq[Len(seq)]

\* A deque of bounded length.
Pushed(seq, x, bound) ==
  IF Len(seq) < bound THEN Append(seq, x) ELSE Append(Tail(seq), x)

\* The attributed model has changed: nothing may straddle two engines.
Switched == metricsMid # None /\ metricsMid # listed

\* The computed-token counter has fallen: another process of the same model.
Restarted(b) == ~Switched /\ ring # <<>> /\ b.count.lc < Last(ring).lc

Cleared(b) == Switched \/ Restarted(b)

\* _counter_delta, _bucket_deltas: None where a counter fell.
Delta(from, to) == IF to < from THEN None ELSE to - from

\* The finite bounds in order, without their number: those below one.
Below(b) == {a \in Bounds : a < b}
Largest(S) == CHOOSE a \in S : \A c \in S : c <= a
Least(S)   == CHOOSE a \in S : \A c \in S : a <= c

\* Hundredths are rounded up: like the code's, which are not rounded, a quantile is
\* above the bound below.
RoundedUp(x, y) == (x + y - 1) \div y

\* hist_quantile, of percent q: by linear interpolation within the first bound that
\* enough met; the largest finite one where no finite one does.
Quantile(c, total, q) ==
  LET met == {b \in Bounds : 100 * c[b] >= q * total}
      le  == Least(met)
      low == IF Below(le) = {} THEN 0 ELSE Largest(Below(le))
      had == IF Below(le) = {} THEN 0 ELSE c[low]
  IN IF total <= 0 THEN None
     ELSE IF met = {} THEN 100 * Largest(Bounds)
     ELSE IF c[le] <= had THEN 100 * le
     ELSE 100 * low + RoundedUp((le - low) * (q * total - 100 * had), c[le] - had)

\* Mutant of BucketDeltas: what there was before the window counts.
BucketDeltasSinceStart(from, to) ==
  IF to.ttftn < from.ttftn \/ \E b \in Bounds : to.late[b] < from.late[b] THEN None ELSE to.late

\* The differences of the histogram between two samples, None if any fell.
BucketDeltas(from, to) ==
  IF to.ttftn < from.ttftn \/ \E b \in Bounds : to.late[b] < from.late[b] THEN None
  ELSE [b \in Bounds |-> to.late[b] - from.late[b]]

QuantileOf(buf, q) ==
  LET d == BucketDeltas(buf[1].count, Last(buf).count)
  IN IF Len(buf) < 2 \/ d = None THEN None
     ELSE Quantile(d, Last(buf).count.ttftn - buf[1].count.ttftn, q)

\* Mutant of PrefillSpeed: tokens are those of first tokens, ticks of finished ones.
PrefillSpeedOfComputed(buf) ==
  LET n == Delta(buf[1].count.lc, Last(buf).count.lc)
      k == Delta(buf[1].count.prefill, Last(buf).count.prefill)
  IN IF Len(buf) < 2 \/ n = None \/ k = None \/ k = 0 THEN None ELSE (10 * n) \div k

\* prefill_speed: what finished requests computed, by the ticks they took for it.
PrefillSpeed(buf) ==
  LET n == Delta(buf[1].count.pfkv, Last(buf).count.pfkv)
      k == Delta(buf[1].count.prefill, Last(buf).count.prefill)
  IN IF Len(buf) < 2 \/ n = None \/ k = None \/ k = 0 THEN None ELSE (10 * n) \div k

NoWork == [hits |-> None, drift |-> None]

\* Mutant of PromptWork: what was computed is read from requests that are finished.
PromptWorkOfFinished(buf) ==
  LET Of(c)  == Delta(buf[1].count[c], Last(buf).count[c])
      rest   == Of("pt") - Of("pfkv") - Of("lh")
  IN IF Len(buf) < 2 \/ None \in {Of("pt"), Of("pfkv"), Of("lh")} \/ Of("pt") = 0 THEN NoWork
     ELSE [hits |-> (100 * Of("lh")) \div Of("pt"), drift |-> IF 50 * rest > Of("pt") THEN 1 ELSE 0]

\* prompt_work: the share of the requested tokens that the cache served, and whether
\* they are more than 2 % off the tokens computed and served.  The build reports the
\* tokens of an external cache, of which there are none.
PromptWork(buf) ==
  LET Of(c)  == Delta(buf[1].count[c], Last(buf).count[c])
      served == IF Of("lh") = None THEN 0 ELSE Of("lh")
      rest   == Of("pt") - Of("lc") - served
  IN IF Len(buf) < 2 \/ None \in {Of("pt"), Of("lc")} \/ Of("pt") = 0 THEN NoWork
     ELSE [hits |-> (100 * served) \div Of("pt"),
           drift |-> IF 50 * rest > Of("pt") \/ 50 * rest < -Of("pt") THEN 1 ELSE 0]

\* A sample of the ring: its time is that at which the cycle started.
Sample(b) == [t |-> cycleAge, lc |-> b.count.lc, life |-> b.life, mid |-> listed]

\* Mutant of RingAfter: a restart does not empty it.
RingAfterNoClear(b) ==
  LET old == IF ring # <<>> /\ Then(Last(ring).t) > RingGap THEN <<>> ELSE ring
  IN Pushed(old, Sample(b), RingSamples)

\* The ring of the last minute: emptied after a gap.
RingAfter(b) ==
  LET old == IF Cleared(b) \/ (ring # <<>> /\ Then(Last(ring).t) > RingGap) THEN <<>> ELSE ring
  IN Pushed(old, Sample(b), RingSamples)

\* pp_tput_1m
Throughput(r) ==
  LET span == r[1].t - Last(r).t IN
  IF Len(r) < 2 \/ span < RingSpan \/ span = 0 \/ Last(r).lc < r[1].lc THEN None
  ELSE (10 * (Last(r).lc - r[1].lc)) \div span

\* Mutant of LiveAfter: a first token does not end a prefill.
LiveAfterNoFirst(b) ==
  IF ~b.busy THEN None ELSE IF Cleared(b) \/ live = None THEN [age |-> cycleAge, life |-> b.life] ELSE live

\* The prefill under way is detected: a request runs, and neither a token nor a
\* first token has come since the last sample.
LiveAfter(b) ==
  LET v == IF Cleared(b) THEN None ELSE vlast
      moved == v # None /\ (v.gen # b.count.gen \/ v.ttftn # b.count.ttftn)
  IN IF ~b.busy \/ moved THEN None
     ELSE IF Cleared(b) \/ live = None THEN [age |-> cycleAge, life |-> b.life] ELSE live

\* The 5-minute window.
BufferAfter(b) ==
  Pushed(IF Cleared(b) THEN <<>> ELSE winbuf, [count |-> b.count, life |-> b.life, mid |-> listed], WinSamples)

\* The row after a sample.
RowAfter(b) ==
  [speed |-> PrefillSpeed(BufferAfter(b)),
   p50 |-> QuantileOf(BufferAfter(b), 50), p95 |-> QuantileOf(BufferAfter(b), 95),
   tput |-> Throughput(RingAfter(b)),
   elapsed |-> IF LiveAfter(b) = None THEN None ELSE Then(LiveAfter(b).age),
   hits |-> PromptWork(BufferAfter(b)).hits, drift |-> PromptWork(BufferAfter(b)).drift]

\* _apply_vllm_metrics
Apply ==
  /\ pc = "apply" /\ pc' = "rest" /\ body' = None /\ listed' = None
  /\ metricsMid' = listed /\ winbuf' = BufferAfter(body) /\ ring' = RingAfter(body)
  /\ live' = LiveAfter(body) /\ row' = RowAfter(body)
  /\ vlast' = [gen |-> body.count.gen, ttftn |-> body.count.ttftn]
  /\ UNCHANGED <<engine, cycleAge, quiet>>

Serve == Arrive \/ FirstToken \/ Finish \/ Abort \/ Stop \/ Start
Poll  == Begin \/ Catalog \/ Metrics \/ Apply
Next  == Serve \/ Tick \/ Poll

Spec == Init /\ [][Next]_vars
-----------------------------------------------------------------------------
\* Samples of two processes under one id, the later of which counts no less: no
\* reader of the counters can tell.
Hidden(i) ==
  /\ winbuf[i].life # winbuf[i + 1].life /\ winbuf[i].mid = winbuf[i + 1].mid
  /\ winbuf[i].count.lc <= winbuf[i + 1].count.lc

Undetected == \E i \in 1..(Len(winbuf) - 1) : Hidden(i)

\* The prefill speed is one that the requests had, however engines were switched,
\* restarted and asked.  ("the physical number", _apply_vllm_metrics.)
SpeedIsPhysical ==
  row.speed # None /\ ~Undetected =>
    /\ \E p \in Prompts : (10 * p.n) \div p.k <= row.speed
    /\ \E p \in Prompts : row.speed * p.k <= 10 * p.n

\* Of a prompt.
Share(p) == (100 * p.h) \div (p.n + p.h)

\* The breakdown of the prompts adds up unless the engine's own accounting does not,
\* and the share of the cache is one that the prompts of the window had: neither a
\* switch nor a restart is taken for a drift.  (prompt_work, "flag it instead of
\* displaying an impossible partition as fact".)
WorkAddsUp ==
  row.drift # None /\ ~Undetected =>
    /\ row.drift = 0
    /\ \E p \in Prompts : Share(p) <= row.hits
    /\ \E p \in Prompts : row.hits <= Share(p)

InWindow(b) == Last(winbuf).count.late[b] - winbuf[1].count.late[b]
AllInWindow == Last(winbuf).count.ttftn - winbuf[1].count.ttftn

\* A quantile of the first tokens is one of the requests in the window: at least
\* so many met the bound it lies at or below, and fewer the one below; where it is
\* the largest, there may be more above.  (hist_quantile.)
Splits(v, q) ==
  /\ v # 100 * Largest(Bounds) =>
       100 * InWindow(Least({b \in Bounds : 100 * b >= v})) >= q * AllInWindow
  /\ \A b \in Bounds : 100 * b < v => 100 * InWindow(b) < q * AllInWindow

QuantilesHold ==
  row.p50 # None /\ row.p95 # None =>
    Splits(row.p50, 50) /\ Splits(row.p95, 95) /\ row.p50 <= row.p95

\* "no queue, rate or age may straddle two engines" (_apply_vllm_metrics): what the
\* windows keep is of one process, but for a restart that nobody could notice.
NothingStraddles ==
  /\ \A i \in 1..(Len(winbuf) - 1) : winbuf[i].life = winbuf[i + 1].life \/ Hidden(i)
  /\ \A i \in 1..(Len(ring) - 1) :
       ring[i].life # ring[i + 1].life =>
         ring[i].lc <= ring[i + 1].lc /\ ring[i].mid = ring[i + 1].mid

\* The timer of a prefill spans no token: nobody reads time as prefill in which the
\* engine answered.  ("an honest timer", _apply_vllm_metrics.)
TimerIsHonest ==
  [][Apply /\ live' # None /\ live'.life = body.life =>
       row'.elapsed <= body.quiet + MaxCycle]_vars

\* "no queue, rate or age may straddle two engines" (_apply_vllm_metrics): the timer
\* of a prefill is of the process that answers.
TimerOfOneEngine ==
  [][Apply /\ live' # None => live'.life = body.life]_vars
=============================================================================
