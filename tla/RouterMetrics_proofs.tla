----------------------- MODULE RouterMetrics_proofs -----------------------
(***************************************************************************)
(* Proofs about RouterMetrics for any speeds, limits, lengths of a cycle,  *)
(* tokens and processes.                                                   *)
(***************************************************************************)
EXTENDS RouterMetrics, TLAPS

\* The seconds of a sample: none are none.
Sec(s) == IF s = None THEN 0 ELSE s

\* From v tokens in s seconds to w in u, by one clock.
Grown(v, s, w, u) ==
  v <= w /\ s <= u /\ Slowest * (u - s) <= w - v /\ w - v <= Fastest * (u - s)

\* From what was read with setback k to what is read with setback m, of one process.
Follows(v, s, k, w, u, m) ==
  v <= w /\ (server.clocked /\ k = m => Grown(v, Sec(s), w, Sec(u)))

\* So many tokens in t ticks, or in more than are told apart; unless they are
\* counted at once.
InTime(n, t) == Unreported(server.rated) \/ t = MaxAge \/ n <= Fastest * t

\* An entry of _counters, and the counters v and s of process n after it.
Counts(entry, n, k, v, s) ==
  entry # None /\ entry.life = n =>
    Follows(entry.v, entry.s, entry.setback, v, s, k) /\ InTime(v - entry.v, entry.t)

\* Still for q ticks is as long as a value has been noted, but for a poll.
Quiet(q, t) == q = StallAfter \/ q + MaxCycle >= t

\* A noted value, and the counter v of process n, that has been still for q.
Noted(moved, n, v, q) ==
  moved # None /\ moved.life = n => moved.v <= v /\ (moved.v = v => Quiet(q, moved.t))

\* Something is known of processes up to the present one, if it is loaded.
Known(n) == n <= life /\ (~loaded => n # life)

\* Seconds are read of a server with a clock, and of the rate of generating always.
Clocked(s) == (~server.clocked => s = None)
              /\ (server.clocked /\ server.rated = "gen" => s # None)

Got == fetched \notin {NoAnswer, NotLoaded}

\* What of a request is in flight, and that no second is without a token.
Flown ==
  /\ ~server.json => flight = Zero
  /\ Grown(0, 0, flight[server.rated], flight["secs"])
  /\ \A key \in Keys : total[key] + flight[key] <= MaxTokens
  /\ total["secs"] + flight["secs"] <= total[server.rated] + flight[server.rated]

\* The child, and how long the cycle is.
Running ==
  /\ Got => pc = "apply"
  /\ counter # None => counter.t >= cycleAge /\ (pc # "rest" => counter.t > cycleAge)

Lives ==
  /\ counter # None => Known(counter.life) /\ counter.setback <= setbacks /\ Clocked(counter.s)
  /\ \A key \in Keys : noted[key] # None => Known(noted[key].life)
  /\ Got => Known(fetched.life) /\ fetched.setback <= setbacks /\ Clocked(fetched.s)

\* The hub's entries and the child, the reply in the poller's hands and the child,
\* the entries and the reply.
Child ==
  /\ Counts(counter, life, setbacks, Reported(server.rated), Clock)
  /\ \A key \in Keys : Noted(noted[key], life, Reported(key), still[key])

Reply ==
  Got => /\ fetched.life = life =>
              /\ Follows(Rated(fetched), fetched.s, fetched.setback,
                         Reported(server.rated), Clock, setbacks)
              /\ InTime(Reported(server.rated) - Rated(fetched), cycleAge)
              /\ \A key \in Keys : fetched.seen[key] <= Reported(key)
         /\ Counts(counter, fetched.life, fetched.setback, Rated(fetched), fetched.s)
         /\ \A key \in Keys :
              Noted(noted[key], fetched.life, fetched.seen[key], fetched.still[key])

\* A gauge shows a speed, if it shows anything, and does where tokens were read.
Gauge ==
  Got => /\ fetched.gauge # 0 => server.gauged /\ fetched.gauge \in {10 * n : n \in Speeds}
         /\ server.gauged /\ Rated(fetched) > 0 => fetched.gauge # 0

\* What tells of the work stands still as long as the work is not done.
Telling ==
  \A key \in Keys : Tells(key) =>
    idle[key] = still[key] /\ (Got => fetched.idle[key] = fetched.still[key])

\* A rate whose tokens and time are of the same work.
Physical(r) ==
  IF Timed THEN 10 * Slowest <= r /\ r <= 10 * Fastest
  ELSE r <= 10 * Fastest * (1 + MaxCycle)

Rates ==
  ~mixed => /\ counter # None /\ counter.rate # None => Physical(counter.rate)
            /\ rate # None => Physical(rate)

IInv ==
  /\ TypeOK /\ Flown /\ Running /\ Lives /\ Child /\ Reply /\ Gauge /\ Telling /\ Rates
-----------------------------------------------------------------------------
(* Speeds, ages and quotients.                                             *)

\* There is a least and a greatest speed, and the child is between them.
LEMMA SpeedBounds ==
  /\ Slowest \in Nat \ {0} /\ Fastest \in Nat \ {0}
  /\ \A n \in Speeds : Slowest <= n /\ n <= Fastest
<1>1. PICK s \in Speeds, f \in Speeds : \A n \in Speeds : s <= n /\ n <= f
  BY MetricsAssumption
<1>2. Slowest \in Speeds /\ \A m \in Speeds : Slowest <= m
  BY <1>1 DEF Slowest
<1>3. Fastest \in Speeds /\ \A m \in Speeds : Fastest >= m
  BY <1>1 DEF Fastest
<1> QED
  BY <1>2, <1>3, MetricsAssumption

\* Ages that are not told apart are beyond both limits, and more than there are
\* tokens, a cycle ago.
LEMMA AgesSuffice ==
  /\ MaxAge \in Nat
  /\ \A n \in {RateDecay, StallAfter, MaxTokens} : n + MaxCycle < MaxAge
<1> DEFINE most == CHOOSE n \in Limits : \A m \in Limits : m <= n
<1>1. \E n \in Limits : \A m \in Limits : m <= n
  BY MetricsAssumption DEF Limits
<1>2. most \in Limits /\ \A m \in Limits : m <= most
  BY <1>1
<1>3. MaxAge = most + MaxCycle + 1
  BY DEF MaxAge
<1> HIDE DEF most
<1> QED
  BY <1>2, <1>3, MetricsAssumption DEF Limits

\* Factors keep an order.
LEMMA Scaled ==
  ASSUME NEW a \in Nat, NEW b \in Nat, NEW y \in Nat, a <= b
  PROVE  a * y <= b * y /\ y * a <= y * b
<1>1. PICK d \in Nat : b = a + d
  <2>1. b - a \in Nat /\ b = a + (b - a)  OBVIOUS
  <2> QED BY <2>1
<1>2. b * y = a * y + d * y /\ d * y \in Nat /\ a * y \in Nat
  BY <1>1
<1>3. y * a = a * y /\ y * b = b * y
  OBVIOUS
<1> QED BY <1>2, <1>3

\* What lies between two multiples has a quotient between the two.
LEMMA QuotientBetween ==
  ASSUME NEW x \in Nat, NEW y \in Nat \ {0}, NEW l \in Nat, NEW h \in Nat,
         l * y <= x, x <= h * y
  PROVE  l <= x \div y /\ x \div y <= h
<1> DEFINE q == x \div y
<1>1. q \in Nat  OBVIOUS
<1>2. q * y <= x /\ x < q * y + y  BY Z3
<1> HIDE DEF q
<1>3. q * y \in Nat /\ l * y \in Nat /\ h * y \in Nat  BY <1>1
<1>4. ASSUME q + 1 <= l PROVE FALSE
  <2>1. (q + 1) * y <= l * y  BY <1>1, <1>4, Scaled
  <2>2. (q + 1) * y = q * y + y  BY <1>1
  <2> QED BY <1>2, <1>3, <2>1, <2>2
<1>5. ASSUME h + 1 <= q PROVE FALSE
  <2>1. (h + 1) * y <= q * y  BY <1>1, <1>5, Scaled
  <2>2. (h + 1) * y = h * y + y  OBVIOUS
  <2> QED BY <1>2, <1>3, <2>1, <2>2
<1>6. l <= q /\ q <= h  BY <1>1, <1>4, <1>5
<1> QED BY <1>6 DEF q
-----------------------------------------------------------------------------
(* One process and its counters.                                           *)

\* What a server has, and what goes with what.
LEMMA ServerIs ==
  ASSUME server \in Servers
  PROVE  /\ server.clocked \in BOOLEAN /\ server.dual \in BOOLEAN /\ server.gpuBusy \in BOOLEAN
         /\ server.freezes \in BOOLEAN /\ server.json \in BOOLEAN /\ server.gauged \in BOOLEAN
         /\ server.rated \in Keys /\ server.lives \in 1..MaxLives
         /\ server.json => server.clocked /\ ~server.gauged
         /\ server.gauged => server.rated = "prompt"
<1>1. server \in [clocked : BOOLEAN, dual : BOOLEAN, gpuBusy : BOOLEAN, freezes : BOOLEAN,
                  json : BOOLEAN, gauged : BOOLEAN, rated : Keys, lives : 1..MaxLives]
  BY ServersAssumption
<1> QED BY <1>1, ServersAssumption

\* The counters and the clock of the child are numbers.
LEMMA ClockIs ==
  ASSUME TypeOK
  PROVE  /\ \A key \in Keys : Reported(key) \in Nat
         /\ Seconds \in Nat /\ Clock \in Nat \cup {None} /\ Clocked(Clock)
         /\ server.clocked => Sec(Clock) = Seconds
<1>1. /\ \A c \in Counters : total[c] \in Nat /\ flight[c] \in Nat
      /\ server \in Servers
  BY MetricsAssumption DEF TypeOK, Tokens
<1>2. \A key \in Keys : Reported(key) \in Nat
  BY <1>1 DEF Reported, Counters
<1>3. Seconds \in Nat
  BY <1>1 DEF Seconds, Counters
<1>4. server.clocked \in BOOLEAN /\ server.rated \in Keys
  BY <1>1, ServerIs
<1>5. Clock = IF server.clocked /\ (server.rated = "prompt" => Seconds > 0) THEN Seconds ELSE None
  BY DEF Clock
<1> HIDE DEF Clock, Seconds
<1>6. Seconds # None
  BY <1>3, MetricsAssumption
<1> QED
  BY <1>2, <1>3, <1>4, <1>5, <1>6 DEF Clocked, Sec, Keys

\* Growth adds up.
LEMMA GrownAdds ==
  ASSUME NEW v \in Nat, NEW w \in Nat, NEW x \in Nat, NEW s \in Nat, NEW u \in Nat,
         NEW z \in Nat, Grown(v, s, w, u), Grown(w, u, x, z)
  PROVE  Grown(v, s, x, z)
<1>1. v <= w /\ w <= x /\ s <= u /\ u <= z
  BY DEF Grown
<1>2. PICK d \in Nat, e \in Nat : u = s + d /\ z = u + e
  <2>1. u - s \in Nat /\ z - u \in Nat  BY <1>1
  <2> QED BY <1>1, <2>1
<1>3. u - s = d /\ z - u = e /\ z - s = d + e  BY <1>1, <1>2
<1>4. \A f \in Nat : f * (d + e) = f * d + f * e /\ f * d \in Nat /\ f * e \in Nat
  BY <1>2
<1>5. Slowest * d <= w - v /\ w - v <= Fastest * d
  BY <1>3 DEF Grown
<1>6. Slowest * e <= x - w /\ x - w <= Fastest * e
  BY <1>3 DEF Grown
<1>7. Slowest * (d + e) <= x - v /\ x - v <= Fastest * (d + e)
  BY <1>1, <1>2, <1>4, <1>5, <1>6, SpeedBounds
<1> QED
  BY <1>1, <1>3, <1>7 DEF Grown

\* Nothing, a tick's tokens, and what was in flight, is growth.
LEMMA GrownBase ==
  /\ \A v \in Nat, s \in Nat : Grown(v, s, v, s)
  /\ \A v \in Nat, s \in Nat, n \in Speeds : Grown(v, s, v + n, s + 1)
  /\ \A v \in Nat, s \in Nat, f \in Nat, g \in Nat :
       Grown(0, 0, f, g) => Grown(v, s, v + f, s + g)
<1>1. ASSUME NEW v \in Nat, NEW s \in Nat PROVE Grown(v, s, v, s)
  BY SpeedBounds DEF Grown
<1>2. ASSUME NEW v \in Nat, NEW s \in Nat, NEW n \in Speeds
      PROVE  Grown(v, s, v + n, s + 1)
  <2>1. n \in Nat /\ Slowest <= n /\ n <= Fastest
    BY SpeedBounds, MetricsAssumption
  <2>2. (s + 1) - s = 1 /\ (v + n) - v = n  BY <2>1
  <2> QED BY <2>1, <2>2, SpeedBounds DEF Grown
<1>3. ASSUME NEW v \in Nat, NEW s \in Nat, NEW f \in Nat, NEW g \in Nat, Grown(0, 0, f, g)
      PROVE  Grown(v, s, v + f, s + g)
  <2>1. (s + g) - s = g /\ (v + f) - v = f /\ g - 0 = g /\ f - 0 = f  OBVIOUS
  <2> QED BY <1>3, <2>1 DEF Grown
<1> QED BY <1>1, <1>2, <1>3

\* Following is transitive, if no set-back is taken back.
LEMMA FollowsAdds ==
  ASSUME NEW v \in Nat, NEW w \in Nat, NEW x \in Nat, NEW s \in Nat \cup {None},
         NEW u \in Nat \cup {None}, NEW z \in Nat \cup {None},
         NEW k \in Nat, NEW m \in Nat, NEW l \in Nat, k <= m, m <= l,
         Follows(v, s, k, w, u, m), Follows(w, u, m, x, z, l)
  PROVE  Follows(v, s, k, x, z, l)
<1>1. v <= x
  BY DEF Follows
<1>2. Sec(s) \in Nat /\ Sec(u) \in Nat /\ Sec(z) \in Nat
  BY DEF Sec
<1>3. ASSUME server.clocked, k = l PROVE Grown(v, Sec(s), x, Sec(z))
  <2>1. k = m /\ m = l
    BY <1>3
  <2>2. Grown(v, Sec(s), w, Sec(u)) /\ Grown(w, Sec(u), x, Sec(z))
    BY <1>3, <2>1 DEF Follows
  <2> QED BY <1>2, <2>2, GrownAdds
<1> QED BY <1>1, <1>3 DEF Follows

\* A tick more is a tick's tokens more.
LEMMA InTimeAdds ==
  ASSUME NEW n \in Nat, NEW m \in Nat, Unreported(server.rated) \/ m <= Fastest,
         NEW t \in Ages, InTime(n, t)
  PROVE  InTime(n + m, Older(t)) /\ (t # MaxAge => InTime(n + m, t + 1))
<1>1. Older(t) = IF t = MaxAge THEN t ELSE t + 1
  BY AgesSuffice, MetricsAssumption DEF Older, Up, Ages
<1>2. Fastest * (t + 1) = Fastest * t + Fastest /\ Fastest * t \in Nat
  BY SpeedBounds, AgesSuffice DEF Ages
<1> QED
  BY <1>1, <1>2, SpeedBounds DEF InTime

\* The counters go on after an entry.
LEMMA EntryGoesOn ==
  ASSUME NEW e \in Entry, e # None, NEW k \in Nat, NEW m \in Nat, NEW v \in Nat,
         NEW w \in Nat, NEW s \in Nat \cup {None}, NEW u \in Nat \cup {None},
         e.setback <= k, k <= m,
         Counts(e, e.life, k, v, s), Follows(v, s, k, w, u, m)
  PROVE  Follows(e.v, e.s, e.setback, w, u, m)
<1>1. e.v \in Nat /\ e.s \in Nat \cup {None} /\ e.setback \in Nat
  BY MetricsAssumption DEF Entry, Tokens
<1>2. Follows(e.v, e.s, e.setback, v, s, k)
  BY DEF Counts
<1> QED
  BY <1>1, <1>2, FollowsAdds

\* An entry ages, and the counters go on.
LEMMA CountsOn ==
  ASSUME NEW e \in Entry \cup {None}, NEW n, NEW k \in Nat, NEW m \in Nat, NEW v \in Nat,
         NEW w \in Nat, NEW s \in Nat \cup {None}, NEW u \in Nat \cup {None},
         e # None => e.setback <= k, k <= m,
         Counts(e, n, k, v, s), Follows(v, s, k, w, u, m),
         Unreported(server.rated) \/ w - v <= Fastest,
         NEW o, o = IF e = None THEN None ELSE [e EXCEPT !.t = Older(@), !.change = Older(@)]
  PROVE  Counts(o, n, m, w, u)
<1> SUFFICES ASSUME o # None, o.life = n
             PROVE  Follows(o.v, o.s, o.setback, w, u, m) /\ InTime(w - o.v, o.t)
  BY DEF Counts
<1>1. e # None /\ e \in Entry
  OBVIOUS
<1>2. o.v = e.v /\ o.s = e.s /\ o.setback = e.setback /\ o.t = Older(e.t) /\ o.life = e.life
      /\ e.v \in Nat /\ e.t \in Ages /\ e.s \in Nat \cup {None} /\ e.setback \in Nat
  BY <1>1, MetricsAssumption DEF Entry, Tokens
<1>3. Follows(e.v, e.s, e.setback, v, s, k) /\ InTime(v - e.v, e.t)
  BY <1>1, <1>2 DEF Counts
<1>4. Follows(e.v, e.s, e.setback, w, u, m)
  BY <1>1, <1>2, EntryGoesOn
<1>5. v - e.v \in Nat /\ w - v \in Nat /\ w - e.v = (v - e.v) + (w - v)
  BY <1>2, <1>3 DEF Follows
<1>6. InTime(w - e.v, Older(e.t))
  BY <1>2, <1>3, <1>5, InTimeAdds
<1> QED
  BY <1>2, <1>4, <1>6

\* An entry, and counters that go on in no time.
LEMMA CountsAtOnce ==
  ASSUME NEW e \in Entry \cup {None}, NEW n, NEW k \in Nat, NEW m \in Nat, NEW v \in Nat,
         NEW w \in Nat, NEW s \in Nat \cup {None}, NEW u \in Nat \cup {None},
         e # None => e.setback <= k, k <= m,
         Counts(e, n, k, v, s), Follows(v, s, k, w, u, m),
         Unreported(server.rated) \/ w = v
  PROVE  Counts(e, n, m, w, u)
<1> SUFFICES ASSUME e # None, e.life = n
             PROVE  Follows(e.v, e.s, e.setback, w, u, m) /\ InTime(w - e.v, e.t)
  BY DEF Counts
<1>1. e.v \in Nat /\ e.s \in Nat \cup {None} /\ e.setback \in Nat
  BY MetricsAssumption DEF Entry, Tokens
<1>2. Follows(e.v, e.s, e.setback, v, s, k) /\ InTime(v - e.v, e.t)
  BY DEF Counts
<1> QED
  BY <1>1, <1>2, FollowsAdds DEF InTime

\* A note ages, and the counter stands still for longer.
LEMMA NotedOn ==
  ASSUME NEW m \in Moved \cup {None}, NEW n, NEW v \in Nat, NEW q \in 0..MaxQuiet,
         Noted(m, n, v, q),
         NEW o, o = IF m = None THEN None ELSE [m EXCEPT !.t = Older(@)]
  PROVE  Noted(o, n, v, Up(q, MaxQuiet))
<1> SUFFICES ASSUME o # None, o.life = n
             PROVE  o.v <= v /\ (o.v = v => Quiet(Up(q, MaxQuiet), o.t))
  BY DEF Noted
<1>1. m # None /\ m \in Moved
  OBVIOUS
<1>2. o.v = m.v /\ o.t = Older(m.t) /\ o.life = m.life /\ m.t \in Ages /\ m.v \in Nat
  BY <1>1, MetricsAssumption DEF Moved, Tokens
<1>3. m.v <= v /\ (m.v = v => Quiet(q, m.t))
  BY <1>1, <1>2 DEF Noted
<1>4. Older(m.t) = IF m.t = MaxAge THEN m.t ELSE m.t + 1
  BY <1>2, AgesSuffice, MetricsAssumption DEF Older, Up, Ages
<1>5. Up(q, MaxQuiet) = IF q = StallAfter THEN q ELSE q + 1
  BY MetricsAssumption DEF Up, MaxQuiet
<1>6. StallAfter + MaxCycle < MaxAge /\ q <= StallAfter
  BY AgesSuffice, MetricsAssumption DEF MaxQuiet
<1>7. ASSUME Quiet(q, m.t) PROVE Quiet(Up(q, MaxQuiet), Older(m.t))
  BY <1>2, <1>4, <1>5, <1>6, <1>7, AgesSuffice, MetricsAssumption DEF Quiet, Ages
<1> QED
  BY <1>2, <1>3, <1>7

\* A counter that moved is not the one that was noted.
LEMMA NotedMoved ==
  ASSUME NEW m \in Moved \cup {None}, NEW n, NEW v \in Nat, NEW q, NEW p,
         NEW w \in Nat, v < w, Noted(m, n, v, q),
         NEW o, o = m \/ o = IF m = None THEN None ELSE [m EXCEPT !.t = Older(@)]
  PROVE  Noted(o, n, w, p)
<1>1. o # None => m # None /\ m \in Moved /\ o.v = m.v /\ o.life = m.life /\ m.v \in Nat
  BY MetricsAssumption DEF Moved, Tokens
<1> SUFFICES ASSUME o # None, o.life = n PROVE o.v < w
  BY <1>1 DEF Noted
<1> QED
  BY <1>1 DEF Noted
-----------------------------------------------------------------------------
(* The steps.                                                              *)

\* The hub's clock makes no more of the tokens than a poll can be short of them.
LEMMA WallIsBounded ==
  ASSUME NEW n \in Nat \ {0}, n <= MaxTokens, NEW t \in Ages, NEW T \in Nat \ {0},
         (t = MaxAge /\ T = MaxAge) \/ t <= T + MaxCycle, t = MaxAge \/ n <= Fastest * t
  PROVE  (10 * n) \div T <= 10 * Fastest * (1 + MaxCycle)
<1> DEFINE h == 10 * Fastest * (1 + MaxCycle)
<1>2. T + MaxCycle <= (1 + MaxCycle) * T /\ (1 + MaxCycle) * T \in Nat
  <2>1. MaxCycle * 1 <= MaxCycle * T
    BY MetricsAssumption, Scaled
  <2>2. (1 + MaxCycle) * T = T + MaxCycle * T /\ MaxCycle * T \in Nat
    BY MetricsAssumption
  <2> QED BY <2>1, <2>2, MetricsAssumption
<1>3. n <= Fastest * ((1 + MaxCycle) * T)
  <2>1. CASE t <= T + MaxCycle /\ t # MaxAge
    <3>1. n <= Fastest * t
      BY <2>1
    <3>2. Fastest * t <= Fastest * ((1 + MaxCycle) * T)
      BY <1>2, <2>1, SpeedBounds, Scaled, AgesSuffice, MetricsAssumption DEF Ages
    <3>3. Fastest * t \in Int /\ Fastest * ((1 + MaxCycle) * T) \in Int
      BY <1>2, SpeedBounds, AgesSuffice DEF Ages
    <3> QED BY <3>1, <3>2, <3>3
  <2>2. CASE t = MaxAge
    <3>1. MaxAge <= T + MaxCycle
      BY <2>2, AgesSuffice, MetricsAssumption
    <3>2. n <= (1 + MaxCycle) * T
      BY <1>2, <3>1, AgesSuffice, MetricsAssumption
    <3>3. 1 * ((1 + MaxCycle) * T) <= Fastest * ((1 + MaxCycle) * T)
      BY <1>2, SpeedBounds, Scaled
    <3>4. Fastest * ((1 + MaxCycle) * T) \in Int
      BY <1>2, SpeedBounds
    <3> QED BY <3>2, <3>3, <3>4, <1>2
  <2> QED BY <2>1, <2>2
<1>4. h * T = 10 * (Fastest * ((1 + MaxCycle) * T)) /\ h \in Nat
      /\ Fastest * ((1 + MaxCycle) * T) \in Nat
  BY SpeedBounds, MetricsAssumption
<1>5. 10 * n <= h * T /\ 0 * T <= 10 * n /\ 10 * n \in Nat
  BY <1>3, <1>4
<1> HIDE DEF h
<1>6. (10 * n) \div T <= h
  BY <1>4, <1>5, QuotientBetween
<1> QED BY <1>6 DEF h

\* The child's clock makes a speed of them.
LEMMA ClockIsBounded ==
  ASSUME NEW n \in Nat \ {0}, NEW d \in Nat \ {0}, Slowest * d <= n, n <= Fastest * d
  PROVE  10 * Slowest <= (10 * n) \div d /\ (10 * n) \div d <= 10 * Fastest
<1>1. /\ (10 * Slowest) * d = 10 * (Slowest * d) /\ (10 * Fastest) * d = 10 * (Fastest * d)
      /\ Slowest * d \in Nat /\ Fastest * d \in Nat /\ 10 * n \in Nat
      /\ 10 * Slowest \in Nat /\ 10 * Fastest \in Nat
  BY SpeedBounds
<1>2. (10 * Slowest) * d <= 10 * n /\ 10 * n <= (10 * Fastest) * d
  BY <1>1
<1> QED
  BY <1>1, <1>2, QuotientBetween

\* What is between the speeds is physical with or without a clock.
LEMMA BetweenIsPhysical ==
  ASSUME NEW r \in Nat, 10 * Slowest <= r, r <= 10 * Fastest
  PROVE  Physical(r)
<1>1. (10 * Fastest) * 1 <= (10 * Fastest) * (1 + MaxCycle)
  BY SpeedBounds, MetricsAssumption, Scaled
<1>2. (10 * Fastest) * 1 = 10 * Fastest /\ (10 * Fastest) * (1 + MaxCycle) \in Nat
  BY SpeedBounds, MetricsAssumption
<1> QED
  BY <1>1, <1>2, SpeedBounds DEF Physical

\* A rate is a number, as time has passed since the poll before; and if its tokens and
\* its time are of the same work it is one that the child can have.
LEMMA QuotientIsPhysical ==
  ASSUME IInv, pc = "apply", Got, Moves(counter, fetched)
  PROVE  /\ Quotient(counter, fetched) \in Nat
         /\ Alike(counter, fetched) => Physical(Quotient(counter, fetched))
<1>1. /\ counter # None /\ counter \in Entry /\ fetched \in Sample
      /\ counter.v \in Nat /\ Rated(fetched) \in 0..MaxTokens /\ Rated(fetched) > counter.v
      /\ counter.t \in Ages /\ cycleAge \in 0..MaxCycle /\ cycleAge < counter.t
      /\ counter.s \in Nat \cup {None} /\ fetched.s \in Nat \cup {None} /\ fetched.gauge \in Nat
      /\ Clocked(counter.s) /\ Clocked(fetched.s) /\ server \in Servers
  <2>1. server \in Servers /\ server.rated \in Keys
    BY ServerIs DEF IInv, TypeOK
  <2>2. counter # None /\ counter \in Entry /\ fetched \in Sample /\ Rated(fetched) > counter.v
    BY DEF IInv, TypeOK, Got, Moves
  <2>3. cycleAge \in 0..MaxCycle /\ cycleAge < counter.t
    BY <2>2, MetricsAssumption DEF IInv, TypeOK, Running
  <2>4. fetched.seen \in [Keys -> Tokens] /\ fetched.s \in Tokens \cup {None} /\ fetched.gauge \in Nat
    BY <2>2 DEF Sample
  <2>5. counter.v \in Tokens /\ counter.t \in Ages /\ counter.s \in Tokens \cup {None}
    BY <2>2 DEF Entry
  <2> QED
    BY <2>1, <2>2, <2>3, <2>4, <2>5, MetricsAssumption DEF IInv, Lives, Rated, Tokens
<1>2. /\ server.clocked \in BOOLEAN /\ server.rated \in Keys
      /\ server.json => server.clocked
  BY <1>1, ServerIs
<1> DEFINE n == Rated(fetched) - counter.v  T == Then(counter.t)
           d == fetched.s - counter.s
           byClock == fetched.s # None /\ counter.s # None /\ fetched.s > counter.s
<1>3. n \in Nat \ {0} /\ n <= MaxTokens /\ 10 * n \in Nat
  BY <1>1, MetricsAssumption
<1>4. /\ T \in Nat \ {0}
      /\ (counter.t = MaxAge /\ T = MaxAge) \/ counter.t <= T + MaxCycle
  BY <1>1, AgesSuffice, MetricsAssumption DEF Then, Ages
<1>5. /\ byClock => d \in Nat \ {0} /\ Quotient(counter, fetched) = (10 * n) \div d
      /\ ~byClock /\ fetched.gauge > 0 => Quotient(counter, fetched) = fetched.gauge
      /\ ~byClock /\ ~(fetched.gauge > 0) => Quotient(counter, fetched) = (10 * n) \div T
  BY <1>1, <1>4 DEF Quotient, ByWall
<1>6. counter.life = fetched.life =>
        /\ Follows(counter.v, counter.s, counter.setback, Rated(fetched), fetched.s, fetched.setback)
        /\ InTime(n, counter.t)
  BY <1>1 DEF IInv, Reply, Counts
<1>7. /\ fetched.gauge # 0 => server.gauged /\ fetched.gauge \in {10 * m : m \in Speeds}
      /\ server.gauged => fetched.gauge # 0
  BY <1>1 DEF IInv, Gauge
<1>8. ASSUME Alike(counter, fetched), server.clocked
      PROVE  /\ Sec(counter.s) <= Sec(fetched.s) /\ Sec(counter.s) # Sec(fetched.s)
             /\ byClock => Slowest * d <= n /\ n <= Fastest * d
  <2>1. Grown(counter.v, Sec(counter.s), Rated(fetched), Sec(fetched.s))
    BY <1>6, <1>8 DEF Alike, Follows
  <2>2. ASSUME Sec(counter.s) = Sec(fetched.s) PROVE FALSE
    <3>1. Sec(fetched.s) - Sec(counter.s) = 0 /\ Fastest * 0 = 0
      BY <1>1, <2>2, SpeedBounds DEF Sec
    <3> QED BY <2>1, <3>1, <1>3 DEF Grown
  <2>3. byClock => Sec(counter.s) = counter.s /\ Sec(fetched.s) = fetched.s
    BY DEF Sec
  <2> QED BY <2>1, <2>2, <2>3 DEF Grown
<1> HIDE DEF n, T, d
<1>9. Quotient(counter, fetched) \in Nat
  BY <1>1, <1>3, <1>4, <1>5
<1>10. ASSUME Alike(counter, fetched), byClock PROVE Physical(Quotient(counter, fetched))
  <2>1. server.clocked
    BY <1>1, <1>2, <1>10 DEF Clocked
  <2>2. Slowest * d <= n /\ n <= Fastest * d
    BY <1>8, <1>10, <2>1
  <2> QED BY <1>3, <1>5, <1>9, <1>10, <2>2, ClockIsBounded, BetweenIsPhysical
<1>11. ASSUME ~byClock, fetched.gauge > 0 PROVE Physical(Quotient(counter, fetched))
  <2>1. PICK m \in Speeds : fetched.gauge = 10 * m
    BY <1>7, <1>11
  <2>2. m \in Nat /\ Slowest <= m /\ m <= Fastest
    BY <2>1, SpeedBounds, MetricsAssumption
  <2> QED BY <1>5, <1>9, <1>11, <2>1, <2>2, SpeedBounds, BetweenIsPhysical
<1>12. ASSUME Alike(counter, fetched), ~byClock, ~(fetched.gauge > 0)
       PROVE  Physical(Quotient(counter, fetched))
  <2>1. ASSUME server.clocked, counter.s # None PROVE FALSE
    BY <1>1, <1>8, <1>12, <2>1 DEF Sec
  <2>2. ~Timed
    BY <1>1, <1>2, <1>7, <1>12, <2>1 DEF Timed, Clocked
  <2>3. ~Unreported(server.rated)
    BY <1>2, <1>12, <2>1 DEF Alike, Unreported
  <2>4. counter.t = MaxAge \/ n <= Fastest * counter.t
    BY <1>6, <1>12, <2>3 DEF Alike, InTime
  <2>5. (10 * n) \div T <= 10 * Fastest * (1 + MaxCycle)
    BY <1>1, <1>3, <1>4, <2>4, WallIsBounded
  <2> QED BY <1>5, <1>12, <2>2, <2>5 DEF Physical
<1> QED
  BY <1>9, <1>10, <1>11, <1>12

\* The entry that a sample leaves.
LEMMA CountedIs ==
  ASSUME IInv, pc = "apply", Got
  PROVE  /\ Counted(counter, fetched) \in Entry
         /\ Counted(counter, fetched).v = Rated(fetched)
         /\ Counted(counter, fetched).s = fetched.s
         /\ Counted(counter, fetched).life = fetched.life
         /\ Counted(counter, fetched).setback = fetched.setback
         /\ Counted(counter, fetched).t = cycleAge
         /\ LET r == Counted(counter, fetched).rate IN
            /\ r = None <=> Counted(counter, fetched).change = None
            /\ r # None =>
                 \/ /\ Moves(counter, fetched)
                    /\ Alike(counter, fetched) => Physical(r)
                 \/ ~Moves(counter, fetched) /\ counter # None /\ counter.rate = r
<1> DEFINE new == IF Moves(counter, fetched) THEN Quotient(counter, fetched) ELSE None
           r   == IF new # None THEN new ELSE IF counter = None THEN None ELSE counter.rate
           change == IF new # None THEN cycleAge ELSE IF counter = None THEN None ELSE counter.change
<1>1. Counted(counter, fetched) = [v |-> Rated(fetched), s |-> fetched.s, life |-> fetched.life,
                                   setback |-> fetched.setback, t |-> cycleAge,
                                   rate |-> r, change |-> change]
  BY DEF Counted
<1>2. /\ Moves(counter, fetched) =>
           /\ new \in Nat /\ new # None
           /\ Alike(counter, fetched) => Physical(new)
      /\ ~Moves(counter, fetched) => new = None
  BY QuotientIsPhysical, MetricsAssumption
<1> HIDE DEF new
<1>3. /\ fetched \in Sample /\ cycleAge \in Ages /\ cycleAge # None /\ Rated(fetched) \in Tokens
  <2>1. fetched \in Sample /\ cycleAge \in Ages /\ cycleAge # None /\ server.rated \in Keys
    BY AgesSuffice, MetricsAssumption, ServerIs DEF IInv, TypeOK, Got, Ages
  <2> QED BY <2>1 DEF Sample, Rated
<1>4. counter # None => counter \in Entry /\ (counter.rate = None <=> counter.change = None)
                        /\ counter.rate \in Nat \cup {None} /\ counter.change \in Ages \cup {None}
  BY DEF IInv, TypeOK, Entry
<1>5. r \in Nat \cup {None} /\ change \in Ages \cup {None} /\ (r = None <=> change = None)
  BY <1>2, <1>3, <1>4
<1>6. r # None => \/ /\ Moves(counter, fetched)
                     /\ Alike(counter, fetched) => Physical(r)
                  \/ ~Moves(counter, fetched) /\ counter # None /\ counter.rate = r
  BY <1>2
<1> HIDE DEF r, change
<1>7. Counted(counter, fetched) \in Entry
  BY <1>1, <1>3, <1>5 DEF Entry, Sample
<1> QED
  BY <1>1, <1>5, <1>6, <1>7
\* A process starts, or ends: what the hub has is of others.
LEMMA LifeStep == IInv /\ (Load \/ Unload \/ Calm) => IInv'
<1> SUFFICES ASSUME IInv, Load \/ Unload \/ Calm PROVE IInv'
  OBVIOUS
<1>1. /\ server' = server /\ counter' = counter /\ noted' = noted /\ rate' = rate
      /\ stalled' = stalled /\ pc' = pc /\ fetched' = fetched /\ cycleAge' = cycleAge
      /\ still' = still /\ idle' = idle /\ setbacks' = setbacks /\ mixed' = mixed
  BY DEF Load, Unload, Calm, hub, poller, past
<1>2. server.lives \in 1..MaxLives /\ server.rated \in Keys
  BY ServerIs DEF IInv, TypeOK
<1>3. /\ total' \in [Counters -> Tokens] /\ flight' \in [Counters -> Tokens]
      /\ life' \in 1..MaxLives /\ loaded' \in BOOLEAN /\ calm' \in BOOLEAN
  <2>1. Zero \in [Counters -> Tokens]
    BY MetricsAssumption DEF Zero, Tokens
  <2>2. total' \in [Counters -> Tokens] /\ flight' \in [Counters -> Tokens]
    BY <2>1 DEF Load, Unload, Calm, IInv, TypeOK, poller, hub, past
  <2>3. life \in 1..MaxLives /\ loaded \in BOOLEAN /\ calm \in BOOLEAN
    BY DEF IInv, TypeOK
  <2>4. life' \in 1..MaxLives
    BY <1>2, <2>3, MetricsAssumption DEF Load, Unload, Calm
  <2> QED BY <2>2, <2>3, <2>4 DEF Load, Unload, Calm
<1>4. TypeOK'
  BY <1>1, <1>3 DEF IInv, TypeOK
<1>5. Flown'
  <2>1. CASE UNCHANGED <<total, flight>>
    BY <1>1, <2>1 DEF IInv, Flown, Grown
  <2>2. CASE total' = Zero /\ flight' = Zero
    <3>1. Grown(0, 0, 0, 0)
      BY GrownBase
    <3> QED BY <1>1, <1>2, <2>2, <3>1, MetricsAssumption DEF Flown, Zero, Counters, Grown
  <2> QED BY <2>1, <2>2 DEF Load, Unload, Calm
<1>6. Running' /\ Gauge' /\ Rates' /\ Telling'
  BY <1>1 DEF IInv, Running, Gauge, Got, Rated, Rates, Physical, Timed, Telling, Tells, Unreported
<1>7. \A n \in 1..MaxLives : Known(n) => Known(n)'
  BY DEF Load, Unload, Calm, Known, IInv, TypeOK
<1>8. /\ counter # None => counter.life \in 1..MaxLives
      /\ \A key \in Keys : noted[key] # None => noted[key].life \in 1..MaxLives
      /\ Got => fetched.life \in 1..MaxLives
  BY DEF IInv, TypeOK, Entry, Moved, Sample, Got
<1>9. Lives'
  BY <1>1, <1>7, <1>8 DEF IInv, Lives, Got, Known, Clocked
<1>10. UNCHANGED <<life, total, flight>> \/ \A n \in 1..MaxLives : Known(n) => n # life'
  BY DEF Load, Unload, Calm, Known, IInv, TypeOK
<1>11. CASE UNCHANGED <<life, total, flight>>
  <2>1. Child'
    BY <1>1, <1>11 DEF IInv, Child, Counts, Noted, Follows, Grown, InTime, Clock, Seconds,
          Reported, Unreported, Quiet
  <2>2. Reply'
    BY <1>1, <1>11 DEF IInv, Reply, Got, Rated, Counts, Noted, Follows, Grown, InTime, Clock,
          Seconds, Reported, Unreported, Quiet
  <2> QED BY <1>4, <1>5, <1>6, <1>9, <2>1, <2>2 DEF IInv
<1>12. CASE \A n \in 1..MaxLives : Known(n) => n # life'
  <2>1. /\ counter # None => counter.life # life'
        /\ \A key \in Keys : noted[key] # None => noted[key].life # life'
        /\ Got => fetched.life # life'
    BY <1>8, <1>12 DEF IInv, Lives
  <2>2. Child'
    BY <1>1, <2>1 DEF Child, Counts, Noted
  <2>3. Reply'
    BY <1>1, <2>1 DEF IInv, Reply, Got, Rated, Counts, Noted, Follows, Grown, InTime,
          Unreported, Quiet
  <2> QED BY <1>4, <1>5, <1>6, <1>9, <2>2, <2>3 DEF IInv
<1> QED BY <1>10, <1>11, <1>12

\* What a tick of work adds.
LEMMA AddIs ==
  ASSUME NEW c \in [Counters -> Tokens], NEW key \in Keys, NEW n \in Nat
  PROVE  /\ Add(c, key, n)[key] = c[key] + n
         /\ Add(c, key, n)["secs"] = c["secs"] + (IF key = server.rated THEN 1 ELSE 0)
         /\ \A k \in Keys : k # key => Add(c, key, n)[k] = c[k]
         /\ DOMAIN Add(c, key, n) = Counters
BY MetricsAssumption DEF Add, Counters, Keys, Tokens

\* A function of the counters has their type if each of them has.
LEMMA CountersAre ==
  ASSUME NEW c, DOMAIN c = Counters, c = [x \in Counters |-> c[x]],
         \A key \in Keys : c[key] \in Tokens, c["secs"] \in Tokens
  PROVE  c \in [Counters -> Tokens]
<1>1. \A x \in Counters : c[x] \in Tokens
  BY DEF Counters
<1> QED BY <1>1

\* What is read goes on from the counters and the seconds to later ones.
LEMMA Onwards ==
  ASSUME TypeOK, server' = server, Seconds' \in Nat,
         NEW k, NEW m, Reported(server.rated)' \in Nat,
         Reported(server.rated) <= Reported(server.rated)',
         server.clocked /\ k = m => Grown(Reported(server.rated), Seconds,
                                          Reported(server.rated)', Seconds')
  PROVE  /\ Follows(Reported(server.rated), Clock, k, Reported(server.rated)', Clock', m)
         /\ Clock' \in Nat \cup {None}
<1>1. server.clocked => Sec(Clock) = Seconds
  BY ClockIs
<1>2. Clock' = IF server.clocked /\ (server.rated = "prompt" => Seconds' > 0) THEN Seconds' ELSE None
  BY DEF Clock
<1>3. server.rated \in Keys /\ server.clocked \in BOOLEAN
  BY ServerIs DEF TypeOK
<1>4. (server.clocked => Sec(Clock') = Seconds') /\ Clock' \in Nat \cup {None}
  <2>1. Seconds' # None
    BY MetricsAssumption
  <2> QED BY <1>2, <1>3, <2>1 DEF Sec, Keys
<1> QED
  BY <1>1, <1>4 DEF Follows

\* What a tick makes of the child: a tick's tokens and a second of the rated kind, or
\* none; and what is not reported to move stands still for longer.
Goes ==
  /\ total' \in [Counters -> Tokens] /\ flight' \in [Counters -> Tokens] /\ Flown'
  /\ still' \in Quiets /\ idle' \in Quiets
  /\ \A key \in Keys : Tells(key) => idle'[key] = still'[key]
  /\ \/ Reported(server.rated)' = Reported(server.rated) /\ Seconds' = Seconds
     \/ \E n \in Speeds : /\ Reported(server.rated)' = Reported(server.rated) + n
                          /\ Seconds' = Seconds + 1
  /\ \A key \in Keys : /\ Reported(key)' \in Nat
                       /\ \/ Reported(key) < Reported(key)'
                          \/ /\ Reported(key)' = Reported(key)
                             /\ still'[key] = Up(still[key], MaxQuiet)

\* The growth of what is read in it.
Grows ==
  /\ Seconds' \in Nat /\ Reported(server.rated)' \in Nat
  /\ Reported(server.rated) <= Reported(server.rated)'
  /\ Reported(server.rated)' - Reported(server.rated) <= Fastest
  /\ Grown(Reported(server.rated), Seconds, Reported(server.rated)', Seconds')

\* A tick: what the child counts grows by a tick's tokens, or stands still for longer.
LEMMA TickIs ==
  ASSUME IInv, Tick
  PROVE  /\ total' \in [Counters -> Tokens] /\ flight' \in [Counters -> Tokens] /\ Flown'
         /\ still' \in Quiets /\ idle' \in Quiets
         /\ \A key \in Keys : Tells(key) => idle'[key] = still'[key]
         /\ Follows(Reported(server.rated), Clock, setbacks,
                    Reported(server.rated)', Clock', setbacks)
         /\ Clock' \in Nat \cup {None}
         /\ Unreported(server.rated) \/ Reported(server.rated)' - Reported(server.rated) <= Fastest
         /\ \A key \in Keys : /\ Reported(key)' \in Nat
                              /\ \/ Reported(key) < Reported(key)'
                                 \/ /\ Reported(key)' = Reported(key)
                                    /\ still'[key] = Up(still[key], MaxQuiet)
<1>1. server' = server
  BY DEF Tick
<1>2. /\ server.json \in BOOLEAN /\ server.rated \in Keys
      /\ total \in [Counters -> Tokens] /\ flight \in [Counters -> Tokens]
      /\ still \in Quiets /\ idle \in Quiets /\ TypeOK /\ Flown
      /\ \A key \in Keys : Tells(key) => idle[key] = still[key]
  BY ServerIs DEF IInv, TypeOK, Telling
<1>3. /\ \A c \in Counters : total[c] \in Nat /\ flight[c] \in Nat
      /\ \A key \in Keys : Reported(key) \in Nat
      /\ Seconds \in Nat
  BY <1>2, ClockIs, MetricsAssumption DEF Tokens
<1>4. \A q \in 0..MaxQuiet : Up(q, MaxQuiet) \in 0..MaxQuiet
  BY MetricsAssumption DEF Up, MaxQuiet
<1>5. \A ages \in Quiets : \A moved : Longer(ages, moved) \in Quiets
  BY <1>4, MetricsAssumption DEF Longer, Quiets, MaxQuiet
<1>6. ASSUME UNCHANGED <<total, flight>>, still' = Longer(still, {}),
             NEW done, idle' = Longer(idle, done \cup Untold), done \subseteq Untold
      PROVE  /\ total' \in [Counters -> Tokens] /\ flight' \in [Counters -> Tokens] /\ Flown'
             /\ still' \in Quiets /\ idle' \in Quiets
             /\ \A key \in Keys : Tells(key) => idle'[key] = still'[key]
             /\ Seconds' = Seconds /\ Reported(server.rated)' = Reported(server.rated)
             /\ \A key \in Keys : /\ Reported(key)' = Reported(key)
                                  /\ still'[key] = Up(still[key], MaxQuiet)
  <2>1. still' \in Quiets /\ idle' \in Quiets
    BY <1>2, <1>5, <1>6
  <2>2. \A key \in Keys : still'[key] = Up(still[key], MaxQuiet)
    BY <1>6 DEF Longer
  <2>3. \A key \in Keys : Tells(key) => idle'[key] = still'[key]
    BY <1>2, <1>6, <2>2 DEF Longer, Untold
  <2>4. Flown'
    BY <1>1, <1>2, <1>6 DEF Flown, Grown
  <2> QED
    BY <1>1, <1>2, <1>6, <2>1, <2>2, <2>3, <2>4 DEF Seconds, Reported
<1>7. ASSUME NEW key \in Keys, NEW n \in Speeds, Work(key, n)
      PROVE  /\ total' \in [Counters -> Tokens] /\ flight' \in [Counters -> Tokens] /\ Flown'
             /\ still' \in Quiets /\ idle' \in Quiets
             /\ \A k \in Keys : Tells(k) => idle'[k] = still'[k]
             /\ \/ Reported(server.rated)' = Reported(server.rated) /\ Seconds' = Seconds
                \/ /\ Reported(server.rated)' = Reported(server.rated) + n
                   /\ Seconds' = Seconds + 1
             /\ \A k \in Keys : /\ Reported(k)' \in Nat
                                /\ \/ Reported(k) < Reported(k)'
                                   \/ /\ Reported(k)' = Reported(k)
                                      /\ still'[k] = Up(still[k], MaxQuiet)
  <2> DEFINE one == IF key = server.rated THEN 1 ELSE 0
  <2>1. n \in Nat \ {0}
    BY MetricsAssumption
  <2>2. /\ server.json => flight' = Add(flight, key, n) /\ total' = total
        /\ ~server.json => total' = Add(total, key, n) /\ flight' = flight
        /\ total[key] + flight[key] + n <= MaxTokens
        /\ still' = Longer(still, IF Unreported(key) THEN {} ELSE {key})
        /\ idle' = Longer(idle, {key} \cup Untold)
    BY <1>2, <1>3, <1>7, <2>1, MetricsAssumption DEF Work, Counters
  <2>3. /\ server.json => /\ flight'[key] = flight[key] + n /\ flight'["secs"] = flight["secs"] + one
                          /\ \A k \in Keys : k # key => flight'[k] = flight[k]
        /\ ~server.json => /\ total'[key] = total[key] + n /\ total'["secs"] = total["secs"] + one
                           /\ \A k \in Keys : k # key => total'[k] = total[k]
    BY <1>2, <2>1, <2>2, AddIs
  <2>4. /\ DOMAIN total' = Counters /\ total' = [x \in Counters |-> total'[x]]
        /\ DOMAIN flight' = Counters /\ flight' = [x \in Counters |-> flight'[x]]
    BY <1>2, <2>2 DEF Add
  <2>5. ~server.json => flight["gen"] = 0 /\ flight["prompt"] = 0 /\ flight["secs"] = 0
    BY <1>2 DEF Flown, Zero, Counters, Keys
  <2>6. /\ total'["secs"] \in Nat /\ flight'["secs"] \in Nat
        /\ \A k \in Keys : total'[k] \in Nat /\ flight'[k] \in Nat
    BY <1>2, <1>3, <2>1, <2>2, <2>3 DEF Counters
  <2>7. /\ \A k \in Keys : total'[k] + flight'[k] <= MaxTokens
        /\ total'["secs"] + flight'["secs"] <= total'[server.rated] + flight'[server.rated]
    <3>1. \A k \in Keys : total[k] + flight[k] <= MaxTokens
      BY <1>2 DEF Flown
    <3>2. total["secs"] + flight["secs"] <= total[server.rated] + flight[server.rated]
      BY <1>2 DEF Flown
    <3> QED BY <1>2, <1>3, <2>1, <2>2, <2>3, <2>5, <2>6, <3>1, <3>2 DEF Counters
  <2>8. total' \in [Counters -> Tokens] /\ flight' \in [Counters -> Tokens]
    <3>1. /\ \A k \in Keys : total'[k] \in Tokens /\ flight'[k] \in Tokens
          /\ total'["secs"] \in Tokens /\ flight'["secs"] \in Tokens
      BY <1>2, <2>6, <2>7, MetricsAssumption DEF Tokens
    <3> QED BY <2>4, <3>1, CountersAre
  <2>9. Flown'
    <3>1. ~server.json => flight' = Zero
      BY <1>2, <2>2 DEF Flown
    <3>2. Grown(0, 0, flight'[server.rated], flight'["secs"])
      <4>1. Grown(0, 0, flight[server.rated], flight["secs"])
        BY <1>2 DEF Flown
      <4>2. CASE server.json /\ key = server.rated
        <5>1. flight'[server.rated] = flight[server.rated] + n /\ flight'["secs"] = flight["secs"] + 1
          BY <2>3, <4>2
        <5>2. flight[server.rated] \in Nat /\ flight["secs"] \in Nat
          BY <1>2, <1>3 DEF Counters
        <5>3. Grown(flight[server.rated], flight["secs"], flight'[server.rated], flight'["secs"])
          BY <5>1, <5>2, GrownBase
        <5>4. flight'[server.rated] \in Nat /\ flight'["secs"] \in Nat
          BY <1>2, <2>6
        <5> QED BY <4>1, <5>2, <5>3, <5>4, GrownAdds
      <4>3. CASE ~(server.json /\ key = server.rated)
        <5>1. flight'[server.rated] = flight[server.rated] /\ flight'["secs"] = flight["secs"]
          BY <1>2, <1>3, <2>2, <2>3, <4>3 DEF Counters
        <5> QED BY <4>1, <5>1
      <4> QED BY <4>2, <4>3
    <3> QED BY <1>1, <2>7, <3>1, <3>2 DEF Flown, Grown
  <2>10. still' \in Quiets /\ idle' \in Quiets
    BY <1>2, <1>5, <2>2
  <2>11. \A k \in Keys : /\ k # key \/ Unreported(key) => still'[k] = Up(still[k], MaxQuiet)
                         /\ k = key /\ ~Unreported(key) => still'[k] = 0
    BY <2>2 DEF Longer
  <2>12. \A k \in Keys : Tells(k) => idle'[k] = still'[k]
    <3>1. \A k \in Keys : Tells(k) => idle'[k] = IF k = key THEN 0 ELSE Up(idle[k], MaxQuiet)
      BY <2>2 DEF Longer, Untold
    <3> QED BY <1>2, <2>11, <3>1 DEF Tells
  <2>13. \A k \in Keys :
           Reported(k)' = IF k = key /\ ~Unreported(key) THEN Reported(k) + n ELSE Reported(k)
    BY <1>2, <1>3, <2>1, <2>2, <2>3, <2>5, <2>6 DEF Reported, Unreported, Keys, Counters
  <2>14. Seconds' = IF key = server.rated /\ ~Unreported(key) THEN Seconds + 1 ELSE Seconds
    BY <1>1, <1>2, <1>3, <2>1, <2>2, <2>3, <2>5, <2>6 DEF Seconds, Unreported, Keys, Counters
  <2>15. \/ Reported(server.rated)' = Reported(server.rated) /\ Seconds' = Seconds
         \/ /\ Reported(server.rated)' = Reported(server.rated) + n
            /\ Seconds' = Seconds + 1
    <3>1. server'.rated = server.rated
      BY <1>1
    <3> QED BY <1>2, <2>13, <2>14, <3>1 DEF Reported, Unreported
  <2>16. \A k \in Keys : /\ Reported(k)' \in Nat
                         /\ \/ Reported(k) < Reported(k)'
                            \/ /\ Reported(k)' = Reported(k)
                               /\ still'[k] = Up(still[k], MaxQuiet)
    BY <1>3, <2>1, <2>11, <2>13
  <2> QED BY <2>8, <2>9, <2>10, <2>12, <2>15, <2>16
<1>8. Goes
  <2>1. CASE Rest
    <3>1. /\ UNCHANGED <<total, flight>> /\ still' = Longer(still, {})
          /\ idle' = Longer(idle, {} \cup Untold)
      <4>1. {} \cup Untold = Untold  OBVIOUS
      <4> QED BY <2>1, <4>1 DEF Rest
    <3> QED BY <1>2, <1>3, <1>6, <3>1 DEF Goes
  <2>2. ASSUME NEW key \in Keys, Unseen(key) PROVE Goes
    <3>1. {key} \subseteq Untold
      BY <2>2 DEF Unseen, Untold, Tells
    <3> QED BY <1>2, <1>3, <1>6, <2>2, <3>1 DEF Unseen, Goes
  <2>3. ASSUME NEW key \in Keys, NEW n \in Speeds, Work(key, n) PROVE Goes
    BY <1>7, <2>3 DEF Goes
  <2> QED BY <2>1, <2>2, <2>3 DEF Tick
<1>9. Grows
  <2>1. Reported(server.rated) \in Nat
    BY <1>2, <1>3
  <2>2. CASE Reported(server.rated)' = Reported(server.rated) /\ Seconds' = Seconds
    BY <1>3, <2>1, <2>2, GrownBase, SpeedBounds DEF Grows
  <2>3. ASSUME NEW n \in Speeds, Reported(server.rated)' = Reported(server.rated) + n,
               Seconds' = Seconds + 1
        PROVE  Grows
    <3>1. n \in Nat /\ n <= Fastest
      BY SpeedBounds, MetricsAssumption
    <3>2. Grown(Reported(server.rated), Seconds, Reported(server.rated) + n, Seconds + 1)
      BY <1>3, <2>1, GrownBase
    <3>3. /\ Reported(server.rated) + n \in Nat /\ Seconds + 1 \in Nat
          /\ Reported(server.rated) <= Reported(server.rated) + n
          /\ (Reported(server.rated) + n) - Reported(server.rated) <= Fastest
      BY <1>3, <2>1, <3>1, SpeedBounds
    <3> QED BY <2>3, <3>2, <3>3 DEF Grows
  <2> QED BY <1>8, <2>2, <2>3 DEF Goes
<1>10. /\ Follows(Reported(server.rated), Clock, setbacks, Reported(server.rated)', Clock', setbacks)
       /\ Clock' \in Nat \cup {None}
  BY <1>1, <1>2, <1>9, Onwards DEF Grows
<1> QED
  BY <1>8, <1>9, <1>10 DEF Goes, Grows

\* A tick keeps what is known of the entries, the notes and the reply.
LEMMA TickStep == IInv /\ Tick => IInv'
<1> SUFFICES ASSUME IInv, Tick PROVE IInv'
  OBVIOUS
<1>1. /\ UNCHANGED <<server, loaded, life, calm, rate, stalled, pc, setbacks, mixed>>
      /\ cycleAge < MaxCycle /\ cycleAge' = cycleAge + 1
  BY DEF Tick
<1>2. /\ counter' = IF counter = None THEN None
                    ELSE [counter EXCEPT !.t = Older(@), !.change = Older(@)]
      /\ noted' = [key \in Keys |-> IF noted[key] = None THEN None
                                    ELSE [noted[key] EXCEPT !.t = Older(@)]]
      /\ fetched' = IF fetched \in {NoAnswer, NotLoaded} THEN fetched
                    ELSE [fetched EXCEPT !.still = Longer(@, {}), !.idle = Longer(@, Untold)]
  BY DEF Tick
<1>3. TypeOK /\ Flown /\ Running /\ Lives /\ Child /\ Reply /\ Gauge /\ Telling /\ Rates
  BY DEF IInv
<1>4. /\ counter \in Entry \cup {None} /\ noted \in [Keys -> Moved \cup {None}]
      /\ fetched \in Sample \cup {NoAnswer, NotLoaded} /\ cycleAge \in 0..MaxCycle
      /\ server \in Servers /\ server.rated \in Keys /\ still \in Quiets
      /\ setbacks \in 0..MaxSetbacks
  BY <1>3, ServerIs DEF TypeOK
<1>5. \A t \in Ages : Older(t) \in Ages /\ Older(t) = (IF t = MaxAge THEN t ELSE t + 1)
  BY AgesSuffice, MetricsAssumption DEF Older, Up, Ages
<1>6. \A ages \in Quiets : \A moved : Longer(ages, moved) \in Quiets
  <2>1. \A q \in 0..MaxQuiet : Up(q, MaxQuiet) \in 0..MaxQuiet
    BY MetricsAssumption DEF Up, MaxQuiet
  <2> QED BY <2>1, MetricsAssumption DEF Longer, Quiets, MaxQuiet
<1>7. counter' # None => counter # None /\ counter' \in Entry
           /\ counter'.v = counter.v /\ counter'.s = counter.s /\ counter'.life = counter.life
           /\ counter'.setback = counter.setback
           /\ counter'.rate = counter.rate /\ counter'.t = Older(counter.t)
           /\ (counter'.rate = None <=> counter'.change = None)
  <2>1. ASSUME counter # None, counter \in Entry
        PROVE  /\ [counter EXCEPT !.t = Older(@), !.change = Older(@)] \in Entry
               /\ Older(counter.change) = None <=> counter.change = None
    <3>1. Older(None) = None /\ counter.change \in Ages \cup {None} /\ counter.t \in Ages
      BY <2>1 DEF Older, Up, Entry
    <3>2. Older(counter.change) \in Ages \cup {None} /\ Older(counter.t) \in Ages
      BY <3>1, <1>5
    <3>3. Older(counter.change) = None <=> counter.change = None
      BY <3>1, <1>5, MetricsAssumption, AgesSuffice DEF Ages
    <3> QED BY <2>1, <3>2, <3>3 DEF Entry
  <2>2. counter # None => (counter.rate = None <=> counter.change = None)
    BY <1>3 DEF TypeOK
  <2>3. counter # None /\ counter' # None => counter' = [counter EXCEPT !.t = Older(@), !.change = Older(@)]
    BY <1>2
  <2>4. counter = None => counter' = None
    BY <1>2
  <2> QED
    BY <1>4, <2>1, <2>2, <2>3, <2>4 DEF Entry
<1>8. \A key \in Keys : /\ noted'[key] = IF noted[key] = None THEN None
                                         ELSE [noted[key] EXCEPT !.t = Older(@)]
                        /\ noted'[key] \in Moved \cup {None}
                        /\ noted'[key] # None => noted[key] # None
                                                 /\ noted'[key].life = noted[key].life
  BY <1>2, <1>4, <1>5 DEF Moved
<1>9. /\ ~Got => fetched' = fetched /\ ~Got'
      /\ Got => /\ fetched \in Sample /\ fetched' \in Sample
                /\ fetched'.seen = fetched.seen /\ fetched'.s = fetched.s
                /\ fetched'.gauge = fetched.gauge
                /\ fetched'.life = fetched.life /\ fetched'.setback = fetched.setback
                /\ fetched'.still = Longer(fetched.still, {})
                /\ fetched'.idle = Longer(fetched.idle, Untold)
  BY <1>2, <1>4, <1>6 DEF Got, Sample
<1>10. /\ total' \in [Counters -> Tokens] /\ flight' \in [Counters -> Tokens] /\ Flown'
       /\ still' \in Quiets /\ idle' \in Quiets
       /\ \A key \in Keys : Tells(key) => idle'[key] = still'[key]
       /\ Follows(Reported(server.rated), Clock, setbacks,
                  Reported(server.rated)', Clock', setbacks)
       /\ Clock' \in Nat \cup {None}
       /\ Unreported(server.rated) \/ Reported(server.rated)' - Reported(server.rated) <= Fastest
       /\ \A key \in Keys : /\ Reported(key)' \in Nat
                            /\ \/ Reported(key) < Reported(key)'
                               \/ /\ Reported(key)' = Reported(key)
                                  /\ still'[key] = Up(still[key], MaxQuiet)
  BY TickIs
<1>11. TypeOK'
  <2>1. noted' \in [Keys -> Moved \cup {None}]
    BY <1>2, <1>8
  <2>2. /\ counter' \in Entry \cup {None} /\ fetched' \in Sample \cup {NoAnswer, NotLoaded}
        /\ cycleAge' \in 0..MaxCycle
        /\ counter' # None => (counter'.rate = None <=> counter'.change = None)
    BY <1>1, <1>4, <1>7, <1>9, MetricsAssumption
  <2> QED BY <1>1, <1>3, <1>10, <2>1, <2>2 DEF TypeOK
<1>12. Running'
  <2>1. counter' # None => counter'.t >= cycleAge' /\ (pc' # "rest" => counter'.t > cycleAge')
    <3> SUFFICES ASSUME counter' # None
                 PROVE  counter'.t >= cycleAge' /\ (pc' # "rest" => counter'.t > cycleAge')
      OBVIOUS
    <3>1. counter # None /\ counter \in Entry /\ counter'.t = Older(counter.t) /\ counter.t \in Ages
      BY <1>4, <1>7 DEF Entry
    <3> QED BY <1>1, <1>3, <1>4, <1>5, <3>1, AgesSuffice, MetricsAssumption DEF Running, Ages
  <2> QED BY <1>1, <1>3, <1>9, <2>1 DEF Running
<1>13. Lives'
  BY <1>1, <1>3, <1>7, <1>8, <1>9 DEF Lives, Known, Clocked
<1>14. /\ Reported(server.rated) \in Nat /\ Clock \in Nat \cup {None} /\ setbacks \in Nat
       /\ \A key \in Keys : Reported(key) \in Nat /\ still[key] \in 0..MaxQuiet
       /\ counter # None => counter.setback \in Nat /\ counter.setback <= setbacks
       /\ Got => /\ Rated(fetched) \in Nat /\ fetched.s \in Nat \cup {None}
                 /\ fetched.setback \in Nat /\ fetched.setback <= setbacks
                 /\ \A key \in Keys : fetched.seen[key] \in Nat /\ fetched.still[key] \in 0..MaxQuiet
  <2>1. Got => fetched.seen \in [Keys -> Tokens] /\ fetched.still \in Quiets
               /\ fetched.s \in Tokens \cup {None} /\ fetched.setback \in 0..MaxSetbacks
    BY <1>9 DEF Sample
  <2>2. counter # None => counter.setback \in 0..MaxSetbacks
    BY <1>4 DEF Entry
  <2> QED BY <1>3, <1>4, <2>1, <2>2, ClockIs, MetricsAssumption DEF Lives, Rated, Quiets, Tokens
<1>15. server' = server /\ Reported(server.rated)' \in Nat /\ (server.rated)' = server.rated
  BY <1>1, <1>4, <1>10 DEF Reported
<1>16. Child'
  <2>1. Counts(counter', life, setbacks, Reported(server.rated)', Clock')
    <3>1. Counts(counter, life, setbacks, Reported(server.rated), Clock)
      BY <1>3 DEF Child
    <3>2. /\ Follows(Reported(server.rated), Clock, setbacks, Reported(server.rated)', Clock', setbacks)
          /\ Clock' \in Nat \cup {None} /\ setbacks <= setbacks
          /\ Unreported(server.rated) \/ Reported(server.rated)' - Reported(server.rated) <= Fastest
      BY <1>10, <1>14
    <3>3. counter \in Entry \cup {None} /\ (counter # None => counter.setback <= setbacks)
      BY <1>4, <1>14
    <3>4. counter' = IF counter = None THEN None
                     ELSE [counter EXCEPT !.t = Older(@), !.change = Older(@)]
      BY <1>2
    <3>5. Reported(server.rated) \in Nat /\ Clock \in Nat \cup {None} /\ setbacks \in Nat
          /\ Reported(server.rated)' \in Nat
      BY <1>14, <1>15
    <3> QED BY ONLY <3>1, <3>2, <3>3, <3>4, <3>5, CountsOn, ZenonT(90)
  <2>2. \A key \in Keys : Noted(noted'[key], life, Reported(key)', still'[key])
    <3> SUFFICES ASSUME NEW key \in Keys
                 PROVE  Noted(noted'[key], life, Reported(key)', still'[key])
      OBVIOUS
    <3>1. Noted(noted[key], life, Reported(key), still[key]) /\ noted[key] \in Moved \cup {None}
      BY <1>3, <1>4 DEF Child
    <3>2. CASE Reported(key) < Reported(key)'
      BY <1>8, <1>10, <1>14, <3>1, <3>2, NotedMoved
    <3>3. CASE Reported(key)' = Reported(key) /\ still'[key] = Up(still[key], MaxQuiet)
      <4>1. noted'[key] = IF noted[key] = None THEN None ELSE [noted[key] EXCEPT !.t = Older(@)]
        BY <1>8
      <4>2. Reported(key) \in Nat /\ still[key] \in 0..MaxQuiet
        BY <1>14
      <4>3. Noted(noted'[key], life, Reported(key), Up(still[key], MaxQuiet))
        BY <3>1, <4>1, <4>2, NotedOn
      <4> QED BY <3>3, <4>3
    <3> QED BY <1>10, <3>2, <3>3
  <2> QED
    BY <1>1, <2>1, <2>2 DEF Child, Counts, Follows, Grown, InTime, Unreported, Noted, Quiet
<1>17. Reply'
  <2> SUFFICES ASSUME Got' PROVE
        /\ fetched.life = life =>
             /\ Follows(Rated(fetched), fetched.s, fetched.setback,
                        Reported(server.rated)', Clock', setbacks)
             /\ InTime(Reported(server.rated)' - Rated(fetched), cycleAge')
             /\ \A key \in Keys : fetched.seen[key] <= Reported(key)'
        /\ Counts(counter', fetched.life, fetched.setback, Rated(fetched), fetched.s)
        /\ \A key \in Keys :
             Noted(noted'[key], fetched.life, fetched.seen[key], fetched'.still[key])
    BY <1>1, <1>9 DEF Reply, Rated, Counts, Follows, Grown, InTime, Unreported, Noted, Quiet
  <2>1. Got
    BY <1>9
  <2>2. ASSUME fetched.life = life
        PROVE  /\ Follows(Rated(fetched), fetched.s, fetched.setback,
                          Reported(server.rated)', Clock', setbacks)
               /\ InTime(Reported(server.rated)' - Rated(fetched), cycleAge')
               /\ \A key \in Keys : fetched.seen[key] <= Reported(key)'
    <3>1. /\ Follows(Rated(fetched), fetched.s, fetched.setback,
                     Reported(server.rated), Clock, setbacks)
          /\ InTime(Reported(server.rated) - Rated(fetched), cycleAge)
          /\ \A key \in Keys : fetched.seen[key] <= Reported(key)
      BY <1>3, <2>1, <2>2 DEF Reply
    <3>2. Follows(Rated(fetched), fetched.s, fetched.setback,
                  Reported(server.rated)', Clock', setbacks)
      <4>1. Follows(Reported(server.rated), Clock, setbacks, Reported(server.rated)', Clock', setbacks)
        BY <1>10
      <4>2. /\ Rated(fetched) \in Nat /\ fetched.s \in Nat \cup {None} /\ fetched.setback \in Nat
            /\ fetched.setback <= setbacks /\ setbacks <= setbacks /\ setbacks \in Nat
        BY <1>14, <2>1
      <4>3. Reported(server.rated) \in Nat /\ Clock \in Nat \cup {None}
            /\ Reported(server.rated)' \in Nat /\ Clock' \in Nat \cup {None}
        BY <1>10, <1>14, <1>15
      <4>4. Follows(Rated(fetched), fetched.s, fetched.setback,
                    Reported(server.rated), Clock, setbacks)
        BY <3>1
      <4> QED BY ONLY <4>1, <4>2, <4>3, <4>4, FollowsAdds, ZenonT(90)
    <3>3. /\ Reported(server.rated) - Rated(fetched) \in Nat
          /\ Reported(server.rated)' - Reported(server.rated) \in Nat
          /\ Reported(server.rated)' - Rated(fetched)
               = (Reported(server.rated) - Rated(fetched))
                 + (Reported(server.rated)' - Reported(server.rated))
      <4>1. Rated(fetched) <= Reported(server.rated) /\ Reported(server.rated) <= Reported(server.rated)'
        BY <1>10, <3>1 DEF Follows
      <4> QED BY <1>14, <1>15, <2>1, <4>1
    <3>4. cycleAge \in Ages /\ cycleAge # MaxAge
      BY <1>1, <1>4, AgesSuffice, MetricsAssumption DEF Ages
    <3>5. InTime(Reported(server.rated)' - Rated(fetched), cycleAge')
      BY <1>1, <1>10, <3>1, <3>3, <3>4, InTimeAdds
    <3>6. \A key \in Keys : fetched.seen[key] <= Reported(key)'
      BY <1>10, <1>14, <2>1, <3>1
    <3> QED BY <3>2, <3>5, <3>6
  <2>3. Counts(counter', fetched.life, fetched.setback, Rated(fetched), fetched.s)
    <3> SUFFICES ASSUME counter' # None, counter'.life = fetched.life
                 PROVE  /\ Follows(counter.v, counter.s, counter.setback,
                                   Rated(fetched), fetched.s, fetched.setback)
                        /\ InTime(Rated(fetched) - counter.v, Older(counter.t))
      BY <1>7 DEF Counts
    <3>1. /\ Follows(counter.v, counter.s, counter.setback,
                     Rated(fetched), fetched.s, fetched.setback)
          /\ InTime(Rated(fetched) - counter.v, counter.t)
      BY <1>3, <1>7, <2>1 DEF Reply, Counts
    <3>2. counter.v \in Nat /\ counter.t \in Ages /\ counter.v <= Rated(fetched)
      BY <1>4, <1>7, <3>1, MetricsAssumption DEF Entry, Tokens, Follows
    <3>3. Rated(fetched) - counter.v \in Nat /\ (Rated(fetched) - counter.v) + 0 = Rated(fetched) - counter.v
      BY <1>14, <2>1, <3>2
    <3>4. InTime((Rated(fetched) - counter.v) + 0, Older(counter.t))
      BY <3>1, <3>2, <3>3, InTimeAdds, SpeedBounds
    <3> QED BY <3>1, <3>3, <3>4
  <2>4. \A key \in Keys :
          Noted(noted'[key], fetched.life, fetched.seen[key], fetched'.still[key])
    <3> SUFFICES ASSUME NEW key \in Keys
                 PROVE  Noted(noted'[key], fetched.life, fetched.seen[key], fetched'.still[key])
      OBVIOUS
    <3>1. Noted(noted[key], fetched.life, fetched.seen[key], fetched.still[key])
          /\ noted[key] \in Moved \cup {None}
      BY <1>3, <1>4, <2>1 DEF Reply
    <3>2. fetched'.still[key] = Up(fetched.still[key], MaxQuiet)
      BY <1>9, <2>1 DEF Longer
    <3>3. noted'[key] = IF noted[key] = None THEN None ELSE [noted[key] EXCEPT !.t = Older(@)]
      BY <1>8
    <3>4. fetched.seen[key] \in Nat /\ fetched.still[key] \in 0..MaxQuiet
      BY <1>14, <2>1
    <3>5. Noted(noted'[key], fetched.life, fetched.seen[key], Up(fetched.still[key], MaxQuiet))
      BY <3>1, <3>3, <3>4, NotedOn
    <3> QED BY <3>2, <3>5
  <2> QED BY <2>2, <2>3, <2>4
<1>18. Gauge'
  BY <1>1, <1>3, <1>9 DEF Gauge, Rated
<1>19. Telling'
  <2>1. \A key \in Keys : Tells(key)' <=> Tells(key)
    BY <1>1 DEF Tells, Unreported
  <2>2. ASSUME NEW key \in Keys, Tells(key), Got'
        PROVE  fetched'.idle[key] = fetched'.still[key]
    <3>1. fetched'.idle[key] = Up(fetched.idle[key], MaxQuiet)
          /\ fetched'.still[key] = Up(fetched.still[key], MaxQuiet)
      BY <1>9, <2>2 DEF Longer, Untold
    <3> QED BY <1>3, <1>9, <2>2, <3>1 DEF Telling
  <2> QED BY <1>10, <2>1, <2>2 DEF Telling
<1>20. Rates'
  BY <1>1, <1>3, <1>7 DEF Rates, Physical, Timed
<1> QED BY <1>10, <1>11, <1>12, <1>13, <1>16, <1>17, <1>18, <1>19, <1>20 DEF IInv

\* A request that is complete: what is read goes on in no time, if not by more than was
\* in flight, or the clock is set back.
LEMMA CompleteIs ==
  ASSUME IInv, Complete
  PROVE  /\ total' \in [Counters -> Tokens] /\ Flown' /\ still' \in Quiets
         /\ setbacks' \in 0..MaxSetbacks /\ setbacks <= setbacks'
         /\ \A key \in Keys : Tells(key) => still'[key] = still[key]
         /\ Follows(Reported(server.rated), Clock, setbacks,
                    Reported(server.rated)', Clock', setbacks')
         /\ Clock' \in Nat \cup {None} /\ Reported(server.rated)' \in Nat
         /\ Unreported(server.rated) \/ Reported(server.rated)' = Reported(server.rated)
         /\ \A key \in Keys : /\ Reported(key)' \in Nat
                              /\ \/ Reported(key) < Reported(key)'
                                 \/ Reported(key)' = Reported(key) /\ still'[key] = still[key]
<1>1. server' = server /\ flight' = Zero /\ flight # Zero
  BY DEF Complete
<1>2. /\ server.json \in BOOLEAN /\ server.rated \in Keys
      /\ total \in [Counters -> Tokens] /\ flight \in [Counters -> Tokens]
      /\ still \in Quiets /\ TypeOK /\ Flown /\ setbacks \in 0..MaxSetbacks
  BY ServerIs DEF IInv, TypeOK
<1>3. /\ \A c \in Counters : total[c] \in Nat /\ flight[c] \in Nat
      /\ \A key \in Keys : Reported(key) \in Nat
      /\ Seconds \in Nat
  BY <1>2, ClockIs, MetricsAssumption DEF Tokens
<1>4. server.json
  BY <1>1, <1>2 DEF Flown
<1>5. PICK lost \in 0..(IF server.rated = "gen" THEN flight["secs"] ELSE 0) :
        /\ total' = [c \in Counters |-> total[c] + flight[c] - IF c = "secs" THEN lost ELSE 0]
        /\ setbacks' = IF lost > 0 THEN setbacks + 1 ELSE setbacks
        /\ setbacks' <= MaxSetbacks
  BY DEF Complete
<1>6. /\ lost \in Nat /\ lost <= flight["secs"] /\ (server.rated = "prompt" => lost = 0)
      /\ flight["secs"] \in Nat /\ total["secs"] \in Nat
  BY <1>3 DEF Counters
<1>7. /\ \A key \in Keys : total'[key] = total[key] + flight[key]
      /\ total'["secs"] = total["secs"] + flight["secs"] - lost
  <2>1. \A key \in Keys : total'[key] = total[key] + flight[key] - 0
    BY <1>5 DEF Counters, Keys
  <2>2. \A key \in Keys : total[key] \in Nat /\ flight[key] \in Nat
    BY <1>3 DEF Counters
  <2> QED BY <1>5, <2>1, <2>2 DEF Counters
<1>8. /\ \A key \in Keys : total'[key] \in Nat /\ total'[key] <= MaxTokens
      /\ total'["secs"] \in Nat /\ total'["secs"] <= total'[server.rated]
  <2>1. /\ \A key \in Keys : total[key] + flight[key] <= MaxTokens
        /\ total["secs"] + flight["secs"] <= total[server.rated] + flight[server.rated]
    BY <1>2 DEF Flown
  <2>2. \A key \in Keys : total[key] \in Nat /\ flight[key] \in Nat
    BY <1>3 DEF Counters
  <2> QED BY <1>2, <1>6, <1>7, <2>1, <2>2
<1>9. total' \in [Counters -> Tokens]
  <2>1. /\ \A key \in Keys : total'[key] \in Tokens
        /\ total'["secs"] \in Tokens
    BY <1>2, <1>8, MetricsAssumption DEF Tokens
  <2>2. DOMAIN total' = Counters /\ total' = [x \in Counters |-> total'[x]]
    BY <1>5
  <2> QED BY <2>1, <2>2, CountersAre
<1>10. /\ flight'["gen"] = 0 /\ flight'["prompt"] = 0 /\ flight'["secs"] = 0
       /\ \A key \in Keys : flight'[key] = 0
  BY <1>1 DEF Zero, Counters, Keys
<1>11. Flown'
  <2>1. Grown(0, 0, 0, 0)
    BY GrownBase
  <2>2. \A key \in Keys : total'[key] + flight'[key] <= MaxTokens
    BY <1>8, <1>10
  <2>3. total'["secs"] + flight'["secs"] <= total'[server.rated] + flight'[server.rated]
    BY <1>2, <1>8, <1>10
  <2> QED BY <1>1, <1>2, <1>10, <2>1, <2>2, <2>3 DEF Flown, Grown
<1>12. /\ setbacks' \in 0..MaxSetbacks /\ setbacks <= setbacks'
       /\ lost = 0 => setbacks' = setbacks
       /\ lost # 0 => setbacks' # setbacks
  BY <1>2, <1>5, <1>6, MetricsAssumption
<1>13. /\ still' \in Quiets /\ still'["gen"] = still["gen"]
       /\ flight["prompt"] = 0 => still'["prompt"] = still["prompt"]
  <2>1. still' = [still EXCEPT !["prompt"] = IF flight["prompt"] > 0 THEN 0 ELSE @]
    BY DEF Complete
  <2> QED BY <1>2, <2>1, MetricsAssumption DEF Quiets, Keys, MaxQuiet
<1>14. \A key \in Keys : Reported(key)' = IF key = "gen" THEN Reported(key) ELSE Reported(key) + flight[key]
  <2>1. \A key \in Keys : total[key] \in Nat /\ flight[key] \in Nat
    BY <1>3 DEF Counters
  <2> QED BY <1>7, <1>10, <2>1 DEF Reported, Keys
<1>15. Seconds' = IF server.rated = "gen" THEN Seconds - lost ELSE Seconds + flight["secs"]
  BY <1>1, <1>2, <1>6, <1>7, <1>10 DEF Seconds, Keys
<1>16. Reported(server.rated)' = IF server.rated = "gen" THEN Reported(server.rated)
                                 ELSE Reported(server.rated) + flight[server.rated]
  <2>1. server'.rated = server.rated
    BY <1>1
  <2> QED BY <1>2, <1>14, <2>1 DEF Reported
<1>17. /\ Seconds' \in Nat /\ Reported(server.rated) \in Nat /\ Reported(server.rated)' \in Nat
       /\ Reported(server.rated) <= Reported(server.rated)'
       /\ lost = 0 => Grown(Reported(server.rated), Seconds, Reported(server.rated)', Seconds')
  <2>1. flight[server.rated] \in Nat /\ Reported(server.rated) \in Nat
    BY <1>2, <1>3 DEF Counters
  <2>2. Seconds' \in Nat
    BY <1>1, <1>6, <1>8, <1>10 DEF Seconds
  <2>3. CASE server.rated = "gen"
    <3>1. Reported(server.rated)' = Reported(server.rated) /\ (lost = 0 => Seconds' = Seconds)
      BY <1>3, <1>15, <1>16, <2>3
    <3> QED BY <1>3, <2>1, <2>2, <3>1, GrownBase
  <2>4. CASE server.rated # "gen"
    <3>1. Grown(0, 0, flight[server.rated], flight["secs"])
      BY <1>2 DEF Flown
    <3>2. Grown(Reported(server.rated), Seconds, Reported(server.rated) + flight[server.rated],
                Seconds + flight["secs"])
      BY <1>3, <1>6, <2>1, <3>1, GrownBase
    <3>3. Reported(server.rated)' = Reported(server.rated) + flight[server.rated]
          /\ Seconds' = Seconds + flight["secs"]
      BY <1>15, <1>16, <2>4
    <3>4. Reported(server.rated) + flight[server.rated] \in Nat
          /\ Reported(server.rated) <= Reported(server.rated) + flight[server.rated]
      BY <2>1
    <3> QED BY <2>1, <2>2, <3>2, <3>3, <3>4
  <2> QED BY <2>3, <2>4
<1>18. /\ Follows(Reported(server.rated), Clock, setbacks, Reported(server.rated)', Clock', setbacks')
       /\ Clock' \in Nat \cup {None}
  BY <1>1, <1>2, <1>12, <1>17, Onwards
<1>19. \A key \in Keys : Tells(key) => still'[key] = still[key]
  BY <1>4, <1>13 DEF Tells, Unreported, Keys
<1>20. \A key \in Keys : /\ Reported(key)' \in Nat
                         /\ \/ Reported(key) < Reported(key)'
                            \/ Reported(key)' = Reported(key) /\ still'[key] = still[key]
  <2>1. \A key \in Keys : flight[key] \in Nat
    BY <1>3 DEF Counters
  <2> QED BY <1>3, <1>13, <1>14, <2>1 DEF Keys
<1>21. Unreported(server.rated) \/ Reported(server.rated)' = Reported(server.rated)
  BY <1>2, <1>4, <1>16 DEF Unreported, Keys
<1> QED
  BY <1>9, <1>11, <1>12, <1>13, <1>17, <1>18, <1>19, <1>20, <1>21

\* And keeps what is known.
LEMMA CompleteStep == IInv /\ Complete => IInv'
<1> SUFFICES ASSUME IInv, Complete PROVE IInv'
  OBVIOUS
<1>1. /\ server' = server /\ loaded' = loaded /\ life' = life /\ calm' = calm
      /\ counter' = counter /\ noted' = noted /\ rate' = rate /\ stalled' = stalled
      /\ pc' = pc /\ fetched' = fetched /\ cycleAge' = cycleAge
      /\ idle' = idle /\ mixed' = mixed
  BY DEF Complete, hub, poller
<1>2. TypeOK /\ Running /\ Lives /\ Child /\ Reply /\ Gauge /\ Telling /\ Rates
  BY DEF IInv
<1>3. /\ total' \in [Counters -> Tokens] /\ Flown' /\ still' \in Quiets
      /\ setbacks' \in 0..MaxSetbacks /\ setbacks <= setbacks'
      /\ \A key \in Keys : Tells(key) => still'[key] = still[key]
      /\ Follows(Reported(server.rated), Clock, setbacks,
                 Reported(server.rated)', Clock', setbacks')
      /\ Clock' \in Nat \cup {None} /\ Reported(server.rated)' \in Nat
      /\ Unreported(server.rated) \/ Reported(server.rated)' = Reported(server.rated)
      /\ \A key \in Keys : /\ Reported(key)' \in Nat
                           /\ \/ Reported(key) < Reported(key)'
                              \/ Reported(key)' = Reported(key) /\ still'[key] = still[key]
  BY CompleteIs
<1>4. /\ Reported(server.rated) \in Nat /\ Clock \in Nat \cup {None} /\ setbacks \in Nat
      /\ setbacks' \in Nat
      /\ \A key \in Keys : Reported(key) \in Nat /\ noted[key] \in Moved \cup {None}
      /\ counter \in Entry \cup {None} /\ (counter # None => counter.setback <= setbacks)
      /\ Got => /\ Rated(fetched) \in Nat /\ fetched.s \in Nat \cup {None}
                /\ fetched.setback \in Nat /\ fetched.setback <= setbacks
                /\ \A key \in Keys : fetched.seen[key] \in Nat
  <2>1. Got => fetched.seen \in [Keys -> Tokens]
               /\ fetched.s \in Tokens \cup {None} /\ fetched.setback \in 0..MaxSetbacks
    BY <1>2 DEF Got, TypeOK, Sample
  <2>2. server.rated \in Keys
    BY <1>2, ServerIs DEF TypeOK
  <2> QED BY <1>2, <1>3, <2>1, <2>2, ClockIs, MetricsAssumption DEF TypeOK, Lives, Rated, Tokens
<1>5. TypeOK'
  <2>1. flight' \in [Counters -> Tokens]
    BY MetricsAssumption DEF Complete, Zero, Tokens
  <2> QED BY <1>1, <1>2, <1>3, <2>1 DEF TypeOK
<1>6. Running' /\ Rates'
  BY <1>1, <1>2 DEF Running, Got, Rates, Physical, Timed
<1>7. Lives'
  <2>1. /\ counter # None => counter.setback \in Int
        /\ Got => fetched.setback \in Int
    BY <1>4, MetricsAssumption DEF Entry
  <2> QED BY <1>1, <1>2, <1>3, <1>4, <2>1 DEF Lives, Got, Known, Clocked
<1>8. Child'
  <2>1. Counts(counter, life, setbacks', Reported(server.rated)', Clock')
    <3>1. Counts(counter, life, setbacks, Reported(server.rated), Clock)
      BY <1>2 DEF Child
    <3> QED BY <1>3, <1>4, <3>1, CountsAtOnce
  <2>2. \A key \in Keys : Noted(noted[key], life, Reported(key)', still'[key])
    <3> SUFFICES ASSUME NEW key \in Keys PROVE Noted(noted[key], life, Reported(key)', still'[key])
      OBVIOUS
    <3>1. Noted(noted[key], life, Reported(key), still[key])
      BY <1>2 DEF Child
    <3>2. CASE Reported(key) < Reported(key)'
      <4>1. noted[key] \in Moved \cup {None} /\ Reported(key) \in Nat /\ Reported(key)' \in Nat
        BY <1>3, <1>4
      <4> QED BY <3>1, <3>2, <4>1, NotedMoved
    <3>3. CASE Reported(key)' = Reported(key) /\ still'[key] = still[key]
      BY <3>1, <3>3
    <3> QED BY <1>3, <3>2, <3>3
  <2> QED
    BY <1>1, <2>1, <2>2 DEF Child, Counts, Follows, Grown, InTime, Unreported, Noted, Quiet
<1>9. Reply'
  <2> SUFFICES ASSUME Got, fetched.life = life
               PROVE  /\ Follows(Rated(fetched), fetched.s, fetched.setback,
                                 Reported(server.rated)', Clock', setbacks')
                      /\ InTime(Reported(server.rated)' - Rated(fetched), cycleAge)
                      /\ \A key \in Keys : fetched.seen[key] <= Reported(key)'
    BY <1>1, <1>2 DEF Reply, Got, Rated, Counts, Follows, Grown, InTime, Unreported, Noted, Quiet
  <2>1. /\ Follows(Rated(fetched), fetched.s, fetched.setback,
                   Reported(server.rated), Clock, setbacks)
        /\ InTime(Reported(server.rated) - Rated(fetched), cycleAge)
        /\ \A key \in Keys : fetched.seen[key] <= Reported(key)
    BY <1>2 DEF Reply
  <2>2. Follows(Rated(fetched), fetched.s, fetched.setback,
                Reported(server.rated)', Clock', setbacks')
    <3>1. Follows(Reported(server.rated), Clock, setbacks, Reported(server.rated)', Clock', setbacks')
      BY <1>3
    <3>2. /\ Rated(fetched) \in Nat /\ fetched.s \in Nat \cup {None} /\ fetched.setback \in Nat
          /\ fetched.setback <= setbacks /\ setbacks \in Nat /\ setbacks' \in Nat
          /\ Reported(server.rated) \in Nat /\ Clock \in Nat \cup {None}
      BY <1>4
    <3>3. setbacks <= setbacks' /\ Reported(server.rated)' \in Nat /\ Clock' \in Nat \cup {None}
      BY <1>3
    <3>4. Follows(Rated(fetched), fetched.s, fetched.setback,
                  Reported(server.rated), Clock, setbacks)
      BY <2>1
    <3> QED BY ONLY <3>1, <3>2, <3>3, <3>4, FollowsAdds, ZenonT(90)
  <2>3. InTime(Reported(server.rated)' - Rated(fetched), cycleAge)
    BY <1>3, <2>1 DEF InTime
  <2>4. \A key \in Keys : fetched.seen[key] <= Reported(key)'
    BY <1>3, <1>4, <2>1
  <2> QED BY <2>2, <2>3, <2>4
<1>10. Gauge'
  BY <1>1, <1>2 DEF Gauge, Got, Rated
<1>11. Telling'
  <2>1. \A key \in Keys : Tells(key)' <=> Tells(key)
    BY <1>1 DEF Tells, Unreported
  <2> QED BY <1>1, <1>2, <1>3, <2>1 DEF Telling, Got
<1> QED BY <1>3, <1>5, <1>6, <1>7, <1>8, <1>9, <1>10, <1>11 DEF IInv

\* A reply is what the child has just then, or none.
LEMMA FetchStep == IInv /\ (Begin \/ Fetch) => IInv'
<1> SUFFICES ASSUME IInv, Begin \/ Fetch PROVE IInv'
  OBVIOUS
<1>1. /\ UNCHANGED <<server, loaded, life, total, flight, calm>>
      /\ UNCHANGED <<counter, noted, rate, stalled>>
      /\ UNCHANGED <<still, idle, setbacks, mixed>>
  BY DEF Begin, Fetch, child, hub, past
<1>2. TypeOK /\ Flown /\ Running /\ Lives /\ Child /\ Reply /\ Gauge /\ Telling /\ Rates
  BY DEF IInv
<1>3. Flown' /\ Child' /\ Rates'
  BY <1>1, <1>2 DEF Flown, Child, Counts, Noted, Follows, Grown, InTime, Unreported, Quiet, Clock,
        Seconds, Reported, Rates, Physical, Timed
<1>4. CASE Begin
  <2>1. ~Got' /\ ~Got /\ fetched' = fetched /\ pc' = "fetch" /\ cycleAge' = 0 /\ cycleAge > 0
    BY <1>2, <1>4 DEF Begin, Got, Running
  <2>2. TypeOK'
    BY <1>1, <1>2, <2>1, MetricsAssumption DEF TypeOK
  <2>3. counter # None => counter.t > 0
    BY <1>2, <2>1, AgesSuffice, MetricsAssumption DEF Running, TypeOK, Entry, Ages
  <2>4. Running'
    BY <1>1, <1>2, <2>1, <2>3, AgesSuffice DEF Running, TypeOK, Entry, Ages
  <2>5. Lives' /\ Reply' /\ Gauge' /\ Telling'
    BY <1>1, <1>2, <2>1 DEF Lives, Reply, Known, Clocked, Gauge, Telling, Tells, Unreported
  <2> QED BY <1>3, <2>2, <2>4, <2>5 DEF IInv
<1>5. CASE Fetch
  <2>1. pc = "fetch" /\ pc' = "apply" /\ cycleAge' = cycleAge
    BY <1>5 DEF Fetch
  <2>2. Got' => loaded /\ \E gauge \in Gauges : fetched' = Reading(gauge)
    BY <1>5 DEF Fetch, Got
  <2>3. server.rated \in Keys /\ setbacks \in Nat
    BY <1>2, ServerIs, MetricsAssumption DEF TypeOK
  <2>4. /\ Clock \in Nat \cup {None} /\ Clocked(Clock)
        /\ \A key \in Keys : Reported(key) \in Nat
    BY <1>2, ClockIs
  <2>5. /\ Clock \in Tokens \cup {None} /\ \A key \in Keys : Reported(key) \in Tokens
    <3>1. \A c \in Counters : total[c] \in Nat /\ flight[c] \in Nat
      BY <1>2, MetricsAssumption DEF TypeOK, Tokens
    <3>2. \A key \in Keys : total[key] + flight[key] <= MaxTokens
      BY <1>2 DEF Flown
    <3>3. total["secs"] + flight["secs"] <= MaxTokens
      BY <1>2, <2>3, <3>1, <3>2, MetricsAssumption DEF Flown, Counters
    <3>4. Seconds \in Tokens
      BY <3>1, <3>3, MetricsAssumption DEF Seconds, Tokens, Counters
    <3>5. \A key \in Keys : Reported(key) \in Tokens
      BY <3>1, <3>2, MetricsAssumption DEF Reported, Tokens, Counters
    <3> QED BY <3>4, <3>5 DEF Clock
  <2>6. \A gauge \in Gauges : gauge \in Nat
    <3>1. \A n \in Speeds : 10 * n \in Nat
      BY MetricsAssumption
    <3> QED BY <3>1 DEF Gauges
  <2>7. ASSUME NEW gauge \in Gauges, fetched' = Reading(gauge)
        PROVE  /\ fetched' \in Sample
               /\ fetched'.seen = [key \in Keys |-> Reported(key)] /\ fetched'.s = Clock
               /\ fetched'.gauge = gauge /\ fetched'.life = life /\ fetched'.setback = setbacks
               /\ fetched'.still = still /\ fetched'.idle = idle
               /\ Rated(fetched)' = Reported(server.rated)
    <3>1. [key \in Keys |-> Reported(key)] \in [Keys -> Tokens]
      BY <2>5
    <3>2. /\ fetched'.seen = [key \in Keys |-> Reported(key)] /\ fetched'.s = Clock
          /\ fetched'.gauge = gauge /\ fetched'.life = life /\ fetched'.setback = setbacks
          /\ fetched'.still = still /\ fetched'.idle = idle
      BY <2>7 DEF Reading
    <3>3. fetched' \in Sample
      BY <1>2, <2>5, <2>6, <2>7, <3>1 DEF TypeOK, Reading, Sample
    <3> QED BY <1>1, <2>3, <3>2, <3>3 DEF Rated
  <2>8. ASSUME Got'
        PROVE  /\ loaded /\ fetched' \in Sample
               /\ fetched'.seen = [key \in Keys |-> Reported(key)] /\ fetched'.s = Clock
               /\ fetched'.gauge \in Gauges /\ fetched'.life = life
               /\ fetched'.setback = setbacks
               /\ fetched'.still = still /\ fetched'.idle = idle
               /\ Rated(fetched)' = Reported(server.rated)
    BY <2>2, <2>7, <2>8
  <2>9. TypeOK'
    <3>1. fetched' \in Sample \cup {NoAnswer, NotLoaded}
      BY <2>8 DEF Got
    <3> QED BY <1>1, <1>2, <2>1, <3>1 DEF TypeOK
  <2>10. Running'
    BY <1>1, <1>2, <2>1 DEF Running
  <2>11. Lives'
    <3>1. loaded => Known(life)
      BY <1>2 DEF TypeOK, Known
    <3> QED BY <1>1, <1>2, <2>3, <2>4, <2>8, <3>1 DEF Lives, Known, Clocked
  <2>12. Reply'
    <3> SUFFICES ASSUME Got'
                 PROVE  /\ Follows(Reported(server.rated), Clock, setbacks,
                                   Reported(server.rated), Clock, setbacks)
                        /\ InTime(Reported(server.rated) - Reported(server.rated), cycleAge)
                        /\ \A key \in Keys : Reported(key) <= Reported(key)
                        /\ Counts(counter, life, setbacks, Reported(server.rated), Clock)
                        /\ \A key \in Keys : Noted(noted[key], life, Reported(key), still[key])
      BY <1>1, <2>1, <2>8
         DEF Reply, Rated, Counts, Noted, Follows, Grown, InTime, Unreported, Quiet, Clock,
             Seconds, Reported
    <3>1. Sec(Clock) \in Nat /\ Reported(server.rated) \in Nat
      BY <2>3, <2>4 DEF Sec
    <3>2. Follows(Reported(server.rated), Clock, setbacks, Reported(server.rated), Clock, setbacks)
      BY <3>1, GrownBase DEF Follows
    <3>3. InTime(Reported(server.rated) - Reported(server.rated), cycleAge)
      BY <1>2, <3>1, SpeedBounds, MetricsAssumption DEF InTime, TypeOK
    <3> QED BY <1>2, <2>4, <3>2, <3>3 DEF Child
  <2>13. Gauge'
    <3> SUFFICES ASSUME Got'
                 PROVE  /\ fetched'.gauge # 0 => server.gauged /\ fetched'.gauge \in {10 * n : n \in Speeds}
                        /\ server.gauged /\ Reported(server.rated) > 0 => fetched'.gauge # 0
      BY <1>1, <2>8 DEF Gauge
    <3>1. fetched'.gauge \in Gauges
      BY <2>8
    <3>2. server.gauged => server.rated = "prompt" /\ Reported(server.rated) = total["prompt"]
      <4>1. total["prompt"] \in Nat
        BY <1>2, MetricsAssumption DEF TypeOK, Counters, Keys, Tokens
      <4> QED BY <1>2, <4>1, ServerIs DEF TypeOK, Reported
    <3>3. \A n \in Speeds : 10 * n # 0
      BY MetricsAssumption
    <3> QED BY <3>1, <3>2, <3>3 DEF Gauges
  <2>14. Telling'
    <3>1. \A key \in Keys : Tells(key)' <=> Tells(key)
      BY <1>1 DEF Tells, Unreported
    <3> QED BY <1>1, <1>2, <2>8, <3>1 DEF Telling
  <2> QED BY <1>3, <2>9, <2>10, <2>11, <2>12, <2>13, <2>14 DEF IInv
<1> QED BY <1>4, <1>5

\* A poll that has no metrics leaves what the rates are made of.
LEMMA NothingStep == IInv /\ (ApplyNothing \/ Miss) => IInv'
<1> SUFFICES ASSUME IInv, ApplyNothing \/ Miss PROVE IInv'
  OBVIOUS
<1>1. /\ UNCHANGED <<server, loaded, life, total, flight, calm>>
      /\ UNCHANGED <<counter, noted, cycleAge, still, idle, setbacks, mixed>>
      /\ pc' = "rest" /\ fetched' = NoAnswer
      /\ rate' \in {rate, None} /\ stalled' \in {stalled, FALSE}
  BY DEF ApplyNothing, Miss, child, hub, past
<1>2. TypeOK /\ Flown /\ Running /\ Lives /\ Child /\ Reply /\ Gauge /\ Telling /\ Rates /\ ~Got'
  BY <1>1 DEF IInv, Got
<1>3. TypeOK'
  <2>1. rate' \in Nat \cup {None} /\ stalled' \in BOOLEAN
    BY <1>1, <1>2 DEF TypeOK
  <2> QED BY <1>1, <1>2, <2>1 DEF TypeOK
<1>4. Running' /\ Lives' /\ Reply' /\ Gauge' /\ Telling'
  BY <1>1, <1>2 DEF Running, Lives, Reply, Known, Clocked, Gauge, Telling, Tells, Unreported
<1>5. Flown' /\ Child'
  BY <1>1, <1>2 DEF Flown, Child, Counts, Noted, Follows, Grown, InTime, Unreported, Quiet, Clock,
        Seconds, Reported
<1>6. Rates'
  BY <1>1, <1>2 DEF Rates, Physical, Timed
<1> QED BY <1>2, <1>3, <1>4, <1>5, <1>6 DEF IInv

\* A value as it is noted, or stays noted.
LEMMA NoticedIs ==
  ASSUME NEW m \in Moved \cup {None}, NEW v \in Tokens, NEW n \in 1..MaxLives,
         cycleAge \in 0..MaxCycle
  PROVE  /\ Noticed(m, v, n) \in Moved
         /\ \/ Noticed(m, v, n) = m /\ m # None /\ m.v = v
            \/ Noticed(m, v, n) = [v |-> v, life |-> n, t |-> cycleAge]
<1>1. cycleAge \in Ages
  BY AgesSuffice, MetricsAssumption DEF Ages
<1> QED BY <1>1 DEF Noticed, Moved

\* Noted again from a reply, a value is what the child had or less.
LEMMA NotedAgain ==
  ASSUME NEW m \in Moved \cup {None}, NEW v \in Tokens, NEW n \in 1..MaxLives,
         cycleAge \in 0..MaxCycle, NEW k, NEW w \in Nat, NEW q \in 0..MaxQuiet,
         Noted(m, k, w, q), n = k => v <= w
  PROVE  Noted(Noticed(m, v, n), k, w, q)
<1>1. CASE Noticed(m, v, n) = m
  BY <1>1
<1>2. CASE Noticed(m, v, n) = [v |-> v, life |-> n, t |-> cycleAge]
  BY <1>2, MetricsAssumption DEF Noted, Quiet, MaxQuiet
<1> QED BY <1>1, <1>2, NoticedIs

\* A poll with metrics.
LEMMA ApplyStep == IInv /\ Apply => IInv'
<1> SUFFICES ASSUME IInv, Apply PROVE IInv'
  OBVIOUS
<1> DEFINE entry == Counted(counter, fetched)
           now == [key \in Keys |-> IF key \notin Watched THEN noted[key]
                                    ELSE Noticed(noted[key], fetched.seen[key], fetched.life)]
<1>1. /\ UNCHANGED <<server, loaded, life, total, flight, calm>>
      /\ UNCHANGED <<cycleAge, still, idle, setbacks>>
      /\ pc = "apply" /\ Got /\ pc' = "rest" /\ fetched' = NoAnswer /\ ~Got'
  BY DEF Apply, child, Got
<1>2. counter' = entry /\ rate' = Shown(entry) /\ noted' = now /\ stalled' = Stalls(now)
  BY DEF Apply
<1>3. mixed' = IF Moves(counter, fetched) THEN ~Alike(counter, fetched) ELSE mixed
  BY DEF Apply
<1>4. TypeOK /\ Flown /\ Running /\ Lives /\ Child /\ Reply /\ Gauge /\ Telling /\ Rates
  BY DEF IInv
<1>5. /\ entry \in Entry /\ entry.v = Rated(fetched) /\ entry.s = fetched.s
      /\ entry.life = fetched.life /\ entry.setback = fetched.setback /\ entry.t = cycleAge
      /\ entry.rate = None <=> entry.change = None
      /\ entry.rate # None =>
           \/ /\ Moves(counter, fetched)
              /\ Alike(counter, fetched) => Physical(entry.rate)
           \/ ~Moves(counter, fetched) /\ counter # None /\ counter.rate = entry.rate
  BY <1>1, CountedIs
<1>6. rate' \in {None, entry.rate}
  BY <1>2 DEF Shown
<1>7. /\ fetched \in Sample /\ fetched.life \in 1..MaxLives /\ cycleAge \in 0..MaxCycle
      /\ \A key \in Keys : fetched.seen[key] \in Tokens /\ noted[key] \in Moved \cup {None}
  BY <1>1, <1>4 DEF TypeOK, Sample, Got
<1>8. \A key \in Keys :
        /\ now[key] = noted[key] \/ now[key] = Noticed(noted[key], fetched.seen[key], fetched.life)
        /\ now[key] \in Moved \cup {None}
        /\ now[key] # None => (now[key] = noted[key] \/ now[key].life = fetched.life)
  <2> SUFFICES ASSUME NEW key \in Keys
               PROVE  /\ \/ now[key] = noted[key]
                         \/ now[key] = Noticed(noted[key], fetched.seen[key], fetched.life)
                      /\ now[key] \in Moved \cup {None}
                      /\ now[key] # None => (now[key] = noted[key] \/ now[key].life = fetched.life)
    OBVIOUS
  <2>1. fetched.seen[key] \in Tokens /\ noted[key] \in Moved \cup {None}
    BY <1>7
  <2>2. /\ Noticed(noted[key], fetched.seen[key], fetched.life) \in Moved
        /\ \/ Noticed(noted[key], fetched.seen[key], fetched.life) = noted[key]
           \/ Noticed(noted[key], fetched.seen[key], fetched.life).life = fetched.life
    BY <1>7, <2>1, NoticedIs
  <2>3. now[key] = noted[key] \/ now[key] = Noticed(noted[key], fetched.seen[key], fetched.life)
    OBVIOUS
  <2> HIDE DEF now
  <2> QED BY <2>1, <2>2, <2>3
<1>9. now \in [Keys -> Moved \cup {None}]
  <2>1. now = [key \in Keys |-> now[key]]
    OBVIOUS
  <2> HIDE DEF now
  <2> QED BY <1>8, <2>1
<1> HIDE DEF entry, now
<1>10. TypeOK'
  <2>1. rate' \in Nat \cup {None}
    BY <1>5, <1>6 DEF Entry
  <2>2. stalled' \in BOOLEAN
    BY <1>2 DEF Stalls
  <2>3. mixed' \in BOOLEAN
    BY <1>3, <1>4 DEF TypeOK
  <2> QED BY <1>1, <1>2, <1>4, <1>5, <1>9, <2>1, <2>2, <2>3 DEF TypeOK
<1>11. Running'
  BY <1>1, <1>2, <1>4, <1>5, MetricsAssumption DEF Running, TypeOK
<1>12. Lives'
  BY <1>1, <1>2, <1>4, <1>5, <1>8 DEF Lives, Known, Clocked
<1>13. Child'
  <2>1. /\ \A key \in Keys : Reported(key) \in Nat /\ still[key] \in 0..MaxQuiet
        /\ server.rated \in Keys
    BY <1>4, ClockIs, ServerIs DEF TypeOK, Quiets
  <2>2. fetched.life = life =>
          /\ Follows(Rated(fetched), fetched.s, fetched.setback,
                     Reported(server.rated), Clock, setbacks)
          /\ InTime(Reported(server.rated) - Rated(fetched), cycleAge)
          /\ \A key \in Keys : fetched.seen[key] <= Reported(key)
    BY <1>1, <1>4 DEF Reply
  <2>3. Counts(entry, life, setbacks, Reported(server.rated), Clock)
    BY <1>5, <2>2 DEF Counts
  <2>4. \A key \in Keys : Noted(now[key], life, Reported(key), still[key])
    <3> SUFFICES ASSUME NEW key \in Keys PROVE Noted(now[key], life, Reported(key), still[key])
      OBVIOUS
    <3>1. Noted(noted[key], life, Reported(key), still[key])
      BY <1>4 DEF Child
    <3>2. /\ fetched.seen[key] \in Tokens /\ noted[key] \in Moved \cup {None}
          /\ Reported(key) \in Nat /\ still[key] \in 0..MaxQuiet
          /\ fetched.life = life => fetched.seen[key] <= Reported(key)
      BY <1>7, <2>1, <2>2
    <3>3. Noted(Noticed(noted[key], fetched.seen[key], fetched.life), life, Reported(key), still[key])
      BY <1>7, <3>1, <3>2, NotedAgain
    <3> QED BY <1>8, <3>1, <3>3
  <2> QED BY <1>1, <1>2, <2>3, <2>4
    DEF Child, Counts, Noted, Follows, Grown, InTime, Unreported, Quiet, Clock, Seconds, Reported
<1>14. Flown' /\ Reply' /\ Gauge' /\ Telling'
  BY <1>1, <1>4 DEF Flown, Grown, Reply, Gauge, Telling, Tells, Unreported
<1>15. Rates'
  <2>1. ASSUME ~mixed', entry.rate # None PROVE Physical(entry.rate)
    <3>1. CASE Moves(counter, fetched)
      BY <1>3, <1>5, <2>1, <3>1
    <3>2. CASE ~Moves(counter, fetched)
      BY <1>3, <1>4, <1>5, <2>1, <3>2 DEF Rates
    <3> QED BY <3>1, <3>2
  <2> QED BY <1>1, <1>2, <1>6, <2>1 DEF Rates, Physical, Timed
<1> QED BY <1>10, <1>11, <1>12, <1>13, <1>14, <1>15 DEF IInv

\* At first nothing is known, and nothing counted.
LEMMA InitIInv == Init => IInv
<1> SUFFICES ASSUME Init PROVE IInv
  OBVIOUS
<1>1. server \in Servers /\ server.rated \in Keys
  BY ServerIs DEF Init
<1>2. TypeOK
  <2>1. Zero \in [Counters -> Tokens] /\ [key \in Keys |-> 0] \in Quiets
    BY MetricsAssumption DEF Zero, Tokens, Quiets, MaxQuiet
  <2>2. life \in 1..MaxLives /\ cycleAge \in 0..MaxCycle /\ setbacks \in 0..MaxSetbacks
    BY MetricsAssumption DEF Init
  <2>3. noted \in [Keys -> Moved \cup {None}]
    BY DEF Init
  <2> QED BY <1>1, <2>1, <2>2, <2>3 DEF Init, TypeOK
<1>3. ~Got /\ counter = None /\ (\A key \in Keys : noted[key] = None) /\ rate = None
  BY DEF Init, Got
<1>4. Flown
  <2>1. flight = Zero /\ \A c \in Counters : total[c] = 0 /\ flight[c] = 0
    BY DEF Init, Zero
  <2>2. flight[server.rated] = 0 /\ total[server.rated] = 0 /\ flight["secs"] = 0 /\ total["secs"] = 0
    BY <1>1, <2>1 DEF Counters
  <2>3. Grown(0, 0, 0, 0)
    BY GrownBase
  <2> QED BY <2>1, <2>2, <2>3, MetricsAssumption DEF Flown, Counters
<1>5. Telling
  BY <1>3 DEF Telling, Init
<1>6. Running /\ Lives /\ Child /\ Reply /\ Gauge /\ Rates
  BY <1>3 DEF Running, Lives, Child, Reply, Gauge, Rates, Counts, Noted
<1> QED BY <1>2, <1>4, <1>5, <1>6 DEF IInv

\* Every step keeps the invariant.
LEMMA NextIInv == IInv /\ [Next]_vars => IInv'
<1> SUFFICES ASSUME IInv, [Next]_vars PROVE IInv'
  OBVIOUS
<1>1. CASE UNCHANGED vars
  <2>1. /\ UNCHANGED <<server, loaded, life, total, flight, calm>>
        /\ UNCHANGED <<counter, noted, rate, stalled>>
        /\ UNCHANGED <<pc, fetched, cycleAge, still, idle, setbacks, mixed>>
    BY <1>1 DEF vars, child, hub, poller, past
  <2>2. TypeOK' /\ Flown' /\ Running' /\ Lives' /\ Gauge' /\ Telling' /\ Rates'
    BY <2>1 DEF IInv, TypeOK, Flown, Running, Lives, Gauge, Telling, Rates, Got, Known, Clocked,
          Grown, Rated, Tells, Unreported, Physical, Timed
  <2>3. Child' /\ Reply'
    BY <2>1 DEF IInv, Child, Reply, Got, Rated, Counts, Noted, Follows, Grown, InTime, Unreported,
          Quiet, Clock, Seconds, Reported
  <2> QED BY <2>2, <2>3 DEF IInv
<1> QED
  BY <1>1, LifeStep, TickStep, CompleteStep, FetchStep, NothingStep, ApplyStep DEF Next, Poll
-----------------------------------------------------------------------------
\* The inductive invariant holds throughout.
THEOREM MetricsInvariant == Spec => []IInv
BY InitIInv, NextIInv, PTL DEF Spec

\* Every variable of child, hub and poller keeps its type.
THEOREM MetricsTypeCorrect == Spec => []TypeOK
<1>1. IInv => TypeOK BY DEF IInv
<1> QED BY <1>1, MetricsInvariant, PTL

\* A rate whose tokens and time are of the same work is one that the child can have, or
\* that polls so far apart can make of it, by its clock, its gauge or the hub's clock,
\* for any speeds, limits and tokens.
THEOREM RatesArePhysical == Spec => []RateIsPhysical
<1>1. IInv => RateIsPhysical
  BY DEF IInv, Rates, Physical, RateIsPhysical
<1> QED BY <1>1, MetricsInvariant, PTL

\* A child that is flagged has counters that stood still for as long as StallAfter but
\* for a poll, and did none of the work that they tell of, for any limit and length of a
\* cycle; whether or not it freezes its counters, or counts a prompt at its end.
THEOREM StallsAreReal == Spec => StallIsReal
<1> DEFINE A == Apply /\ stalled' =>
             \A key \in Watched : noted'[key].life = fetched.life =>
               /\ fetched.still[key] > StallAfter - MaxCycle
               /\ Tells(key) => fetched.idle[key] > StallAfter - MaxCycle
<1>1. ASSUME NEW m \in Moved \cup {None}, NEW v \in Tokens, NEW n \in 1..MaxLives,
             cycleAge \in 0..MaxCycle, NEW q \in 0..MaxQuiet, Noted(m, n, v, q),
             Frozen(Noticed(m, v, n)), Noticed(m, v, n).life = n
      PROVE  q > StallAfter - MaxCycle
  <2>1. CASE Noticed(m, v, n) = [v |-> v, life |-> n, t |-> cycleAge]
    BY <1>1, <2>1, AgesSuffice, MetricsAssumption DEF Frozen, Then
  <2>2. CASE Noticed(m, v, n) = m /\ m # None /\ m.v = v
    <3>1. Quiet(q, m.t) /\ m.t \in Ages /\ Then(m.t) > StallAfter
      BY <1>1, <2>2 DEF Noted, Frozen, Moved
    <3> QED BY <1>1, <3>1, AgesSuffice, MetricsAssumption DEF Quiet, Then, Ages, MaxQuiet
  <2> QED BY <1>1, <2>1, <2>2, NoticedIs
<1>2. IInv /\ [Next]_vars => [A]_vars
  <2> SUFFICES ASSUME IInv, Apply, stalled', NEW key \in Watched, noted'[key].life = fetched.life
               PROVE  /\ fetched.still[key] > StallAfter - MaxCycle
                      /\ Tells(key) => fetched.idle[key] > StallAfter - MaxCycle
    OBVIOUS
  <2>1. key \in Keys
    BY DEF Watched, Keys
  <2>2. /\ noted'[key] = Noticed(noted[key], fetched.seen[key], fetched.life)
        /\ Frozen(noted'[key])
    BY <2>1 DEF Apply, Stalls
  <2>3. Got /\ fetched \in Sample /\ cycleAge \in 0..MaxCycle
    BY DEF Apply, Got, IInv, TypeOK
  <2>4. /\ fetched.seen[key] \in Tokens /\ fetched.life \in 1..MaxLives
        /\ fetched.still[key] \in 0..MaxQuiet /\ noted[key] \in Moved \cup {None}
        /\ Noted(noted[key], fetched.life, fetched.seen[key], fetched.still[key])
    BY <2>1, <2>3 DEF IInv, TypeOK, Reply, Sample, Quiets
  <2>5. fetched.still[key] > StallAfter - MaxCycle
    BY <1>1, <2>2, <2>3, <2>4
  <2>6. Tells(key) => fetched.idle[key] = fetched.still[key]
    BY <2>1, <2>3 DEF IInv, Telling
  <2> QED BY <2>5, <2>6
<1> QED
  BY <1>2, MetricsInvariant, PTL DEF Spec, StallIsReal
=============================================================================
