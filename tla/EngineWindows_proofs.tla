------------------------ MODULE EngineWindows_proofs ------------------------
(***************************************************************************)
(* Proofs about EngineWindows for every set of engines and prompts, behind *)
(* a mux or not, and for windows of every length: that nothing straddles   *)
(* two processes unless no reader of the counters could tell, that the     *)
(* speed and the shares shown are some that the prompts have, and that the *)
(* timer of a prefill spans no token.                                      *)
(***************************************************************************)
EXTENDS EngineWindows, SequenceTheorems, FiniteSetTheorems, TLAPS

Wins  == [count : Counters, life : Nat, mid : Engines]
Rings == [t : Nat, lc : Nat, life : Nat, mid : Engines]

\* k of the one came with n of the other in parts of the ratios R: the ratio of
\* the whole lies between two of them.
Mixed(R, n, k) ==
  /\ n \in Nat /\ k \in Nat /\ (k = 0 => n = 0)
  /\ k > 0 => /\ \E r \in R : r[1] * k <= n * r[2]
              /\ \E r \in R : n * r[2] <= r[1] * k

\* Of the prompts: the tokens computed and the ticks it took; those served from
\* the cache and those requested.
Rates  == {<<p.n, p.k>> : p \in Prompts}
Shares == {<<p.h, p.n + p.h>> : p \in Prompts}

\* The same process counted from c to d.
Grew(c, d) ==
  /\ c.lc <= d.lc /\ c.lh <= d.lh /\ c.gen <= d.gen
  /\ d.pt - c.pt = (d.lc - c.lc) + (d.lh - c.lh)
  /\ Mixed(Rates, d.pfkv - c.pfkv, d.prefill - c.prefill)
  /\ Mixed(Shares, d.lh - c.lh, d.pt - c.pt)

\* The later of two samples: of a later process, or of the same that counted on.
Follows(life1, count1, life2, count2) ==
  life1 <= life2 /\ (life1 = life2 => Grew(count1, count2))

\* The types the steps keep; those of the engine, the hub and the poller.
EngineTyped ==
  /\ active \in Engines \cup {None} /\ count \in Counters /\ life \in Nat
  /\ quiet \in Ages /\ cycleAge \in 0..MaxCycle
  /\ request # None => request \in [prompt : Prompts, spent : Nat, first : BOOLEAN]
WindowsTyped ==
  /\ winbuf \in Seq(Wins) /\ ring \in Seq(Rings)
  /\ live # None => live \in [age : Ages, life : Nat]
  /\ metricsMid # None => metricsMid \in Engines
PollerTyped ==
  /\ pc \in {"rest", "catalog", "metrics", "apply"}
  /\ pc = "apply" => body \in Readings
  /\ pc = "apply" \/ (pc = "metrics" /\ Mux) => listed \in Engines

\* The windows and what else the hub remembers end with the same sample.
Together ==
  /\ winbuf = <<>> <=> ring = <<>>
  /\ winbuf = <<>> => metricsMid = None /\ vlast = None /\ live = None
  /\ winbuf # <<>> =>
       /\ metricsMid = Last(winbuf).mid /\ Last(ring).mid = Last(winbuf).mid
       /\ Last(ring).life = Last(winbuf).life /\ Last(ring).lc = Last(winbuf).count.lc
       /\ vlast # None /\ vlast.gen = Last(winbuf).count.gen
       /\ live # None => live.life <= Last(winbuf).life

\* The samples of a window follow each other, the body them, and the engine all.
InWindowOrder ==
  \A i, j \in 1..Len(winbuf) : i <= j =>
    Follows(winbuf[i].life, winbuf[i].count, winbuf[j].life, winbuf[j].count)
BodyFollows ==
  pc = "apply" => /\ \A i \in 1..Len(winbuf) :
                       Follows(winbuf[i].life, winbuf[i].count, body.life, body.count)
                  /\ Follows(body.life, body.count, life, count)
EngineFollows ==
  \A i \in 1..Len(winbuf) : Follows(winbuf[i].life, winbuf[i].count, life, count)

\* From each sample on, a window is of one process, or the change is hidden.
OneProcess ==
  \A k \in 1..Len(winbuf) :
    \/ \E i \in k..(Len(winbuf) - 1) : Hidden(i)
    \/ \A i, j \in k..Len(winbuf) : winbuf[i].life = winbuf[j].life

\* What the row says is of the window, unless it was emptied.
RowOfWindow ==
  \/ row.speed = None /\ row.drift = None /\ row.p50 = None
  \/ /\ row.speed = PrefillSpeed(winbuf)
     /\ row.p50 = QuantileOf(winbuf, 50) /\ row.p95 = QuantileOf(winbuf, 95)
     /\ row.hits = PromptWork(winbuf).hits /\ row.drift = PromptWork(winbuf).drift

\* As long as no token was counted after the last sample, a timer that is of the
\* process is no older than the silence, but for the length of a cycle.
Silent ==
  /\ live # None /\ live.life = life /\ vlast.gen = count.gen => live.age <= quiet + MaxCycle
  /\ pc = "apply" /\ live # None /\ live.life = body.life /\ vlast.gen = body.count.gen =>
       live.age <= body.quiet + MaxCycle

IInv ==
  /\ EngineTyped /\ WindowsTyped /\ PollerTyped /\ Together
  /\ InWindowOrder /\ BodyFollows /\ EngineFollows /\ OneProcess
  /\ NothingStraddles /\ RowOfWindow /\ Silent
-----------------------------------------------------------------------------
(* Arithmetic of ratios.                                                   *)

\* A factor of both sides, with its positive value, goes away.
LEMMA Cancel ==
  ASSUME NEW x \in Int, NEW y \in Int, NEW z \in Nat \ {0}, x * z <= y * z
  PROVE  x <= y
<1> SUFFICES ASSUME x > y PROVE FALSE  OBVIOUS
<1>1. PICK e \in Nat : x = y + e + 1
  <2>1. x - y - 1 \in Nat  OBVIOUS
  <2>2. x = y + (x - y - 1) + 1  OBVIOUS
  <2> QED BY <2>1, <2>2
<1>2. x * z = y * z + e * z + z  BY <1>1
<1>3. e * z \in Nat  OBVIOUS
<1>4. y * z \in Int  OBVIOUS
<1> QED BY <1>2, <1>3, <1>4

\* a/b <= c/d and c/d <= e/f give a/b <= e/f.
LEMMA Cross ==
  ASSUME NEW a \in Nat, NEW b \in Nat, NEW c \in Nat, NEW d \in Nat \ {0}, NEW e \in Nat, NEW f \in Nat,
         a * d <= c * b, c * f <= e * d
  PROVE  a * f <= e * b
<1>1. (a * d) * f <= (c * b) * f  
  <2>1. a * d \in Nat /\ c * b \in Nat  OBVIOUS
  <2>2. PICK g \in Nat : c * b = a * d + g
    <3>1. c * b - a * d \in Nat  BY <2>1
    <3> QED BY <3>1, <2>1
  <2>3. (c * b) * f = (a * d) * f + g * f  BY <2>1, <2>2
  <2>4. g * f \in Nat /\ (a * d) * f \in Nat  BY <2>1
  <2> QED BY <2>3, <2>4
<1>2. (c * f) * b <= (e * d) * b
  <2>1. c * f \in Nat /\ e * d \in Nat  OBVIOUS
  <2>2. PICK g \in Nat : e * d = c * f + g
    <3>1. e * d - c * f \in Nat  BY <2>1
    <3> QED BY <3>1, <2>1
  <2>3. (e * d) * b = (c * f) * b + g * b  BY <2>1, <2>2
  <2>4. g * b \in Nat /\ (c * f) * b \in Nat  BY <2>1
  <2> QED BY <2>3, <2>4
<1>3. (a * f) * d = (a * d) * f /\ (c * b) * f = (c * f) * b /\ (e * b) * d = (e * d) * b  OBVIOUS
<1>4. a * f \in Int /\ e * b \in Int /\ (a * f) * d \in Int /\ (e * b) * d \in Int
      /\ (c * b) * f \in Int  OBVIOUS
<1>5. (a * f) * d <= (e * b) * d  BY <1>1, <1>2, <1>3, <1>4
<1> QED BY <1>4, <1>5, Cancel

\* Of two ratios that are below two others, the smaller one is below their sum.
LEMMA LowAdds ==
  ASSUME NEW R, \A r \in R : r[1] \in Nat /\ r[2] \in Nat \ {0},
         NEW n \in Nat, NEW k \in Nat, NEW m \in Nat, NEW l \in Nat,
         NEW r \in R, r[1] * k <= n * r[2], NEW s \in R, s[1] * l <= m * s[2]
  PROVE  \E q \in R : q[1] * (k + l) <= (n + m) * q[2]
<1> DEFINE a == r[1]  b == r[2]  c == s[1]  d == s[2]
<1>1. a \in Nat /\ b \in Nat \ {0} /\ c \in Nat /\ d \in Nat \ {0}  OBVIOUS
<1>2. a * k <= n * b /\ c * l <= m * d  OBVIOUS
<1> HIDE DEF a, b, c, d
<1>3. a * d \in Nat /\ c * b \in Nat  BY <1>1
<1>4. CASE a * d <= c * b
  <2>1. a * l <= m * b  BY <1>1, <1>2, <1>4, Cross
  <2>2. a * (k + l) = a * k + a * l /\ (n + m) * b = n * b + m * b  BY <1>1
  <2>3. a * k \in Nat /\ a * l \in Nat /\ n * b \in Nat /\ m * b \in Nat  BY <1>1
  <2>4. a * (k + l) <= (n + m) * b  BY <2>1, <2>2, <2>3, <1>2
  <2> QED BY <2>4 DEF a, b
<1>5. CASE c * b <= a * d
  <2>1. c * k <= n * d  BY <1>1, <1>2, <1>5, Cross
  <2>2. c * (k + l) = c * k + c * l /\ (n + m) * d = n * d + m * d  BY <1>1
  <2>3. c * k \in Nat /\ c * l \in Nat /\ n * d \in Nat /\ m * d \in Nat  BY <1>1
  <2>4. c * (k + l) <= (n + m) * d  BY <2>1, <2>2, <2>3, <1>2
  <2> QED BY <2>4 DEF c, d
<1> QED BY <1>3, <1>4, <1>5

\* Of two ratios that are above two others, the larger one is above their sum.
LEMMA HighAdds ==
  ASSUME NEW R, \A r \in R : r[1] \in Nat /\ r[2] \in Nat \ {0},
         NEW n \in Nat, NEW k \in Nat, NEW m \in Nat, NEW l \in Nat, k > 0, l > 0,
         NEW r \in R, n * r[2] <= r[1] * k, NEW s \in R, m * s[2] <= s[1] * l
  PROVE  \E q \in R : (n + m) * q[2] <= q[1] * (k + l)
<1> DEFINE a == r[1]  b == r[2]  c == s[1]  d == s[2]
<1>1. a \in Nat /\ b \in Nat \ {0} /\ c \in Nat /\ d \in Nat \ {0}  OBVIOUS
<1>2. n * b <= a * k /\ m * d <= c * l  OBVIOUS
<1> HIDE DEF a, b, c, d
<1>3. a * d \in Nat /\ c * b \in Nat  BY <1>1
<1>4. CASE c * b <= a * d
  <2>1. m * b <= a * l  BY <1>1, <1>2, <1>4, Cross
  <2>2. a * (k + l) = a * k + a * l /\ (n + m) * b = n * b + m * b  BY <1>1
  <2>3. a * k \in Nat /\ a * l \in Nat /\ n * b \in Nat /\ m * b \in Nat  BY <1>1
  <2>4. (n + m) * b <= a * (k + l)  BY <2>1, <2>2, <2>3, <1>2
  <2> QED BY <2>4 DEF a, b
<1>5. CASE a * d <= c * b
  <2>1. n * d <= c * k  BY <1>1, <1>2, <1>5, Cross
  <2>2. c * (k + l) = c * k + c * l /\ (n + m) * d = n * d + m * d  BY <1>1
  <2>3. c * k \in Nat /\ c * l \in Nat /\ n * d \in Nat /\ m * d \in Nat  BY <1>1
  <2>4. (n + m) * d <= c * (k + l)  BY <2>1, <2>2, <2>3, <1>2
  <2> QED BY <2>4 DEF c, d
<1> QED BY <1>3, <1>4, <1>5

\* What a quotient rounded down is.
LEMMA QuotientBounds ==
  ASSUME NEW x \in Nat, NEW y \in Nat \ {0}
  PROVE  /\ x \div y \in Nat
         /\ (x \div y) * y <= x /\ x < (x \div y + 1) * y
<1> DEFINE q == x \div y
<1>1. q \in Nat  OBVIOUS
<1>2. q * y <= x /\ x < q * y + y  BY Z3
<1> HIDE DEF q
<1>3. (q + 1) * y = q * y + y  BY <1>1
<1> QED BY <1>1, <1>2, <1>3 DEF q

\* It is the largest.
LEMMA QuotientLeast ==
  ASSUME NEW x \in Nat, NEW y \in Nat \ {0}, NEW v \in Nat, v * y <= x
  PROVE  v <= x \div y
<1> DEFINE q == x \div y
<1>1. q \in Nat /\ x < (q + 1) * y  BY QuotientBounds
<1> HIDE DEF q
<1> SUFFICES ASSUME q + 1 <= v PROVE FALSE  BY <1>1 DEF q
<1>2. PICK g \in Nat : v = q + 1 + g
  <2>1. v - q - 1 \in Nat  BY <1>1
  <2> QED BY <2>1, <1>1
<1>3. v * y = (q + 1) * y + g * y /\ g * y \in Nat /\ (q + 1) * y \in Nat  BY <1>1, <1>2
<1> QED BY <1>1, <1>3

\* Parts of the ratios R together are parts of the ratios R.
LEMMA MixedAdds ==
  ASSUME NEW R, \A r \in R : r[1] \in Nat /\ r[2] \in Nat \ {0},
         NEW n, NEW k, NEW m, NEW l, Mixed(R, n, k), Mixed(R, m, l)
  PROVE  Mixed(R, n + m, k + l)
<1>1. n \in Nat /\ k \in Nat /\ m \in Nat /\ l \in Nat  BY DEF Mixed
<1>2. n + m \in Nat /\ k + l \in Nat  BY <1>1
<1>3. CASE k = 0
  <2>1. n + m = m /\ k + l = l  BY <1>1, <1>3 DEF Mixed
  <2> QED BY <2>1
<1>4. CASE l = 0
  <2>1. n + m = n /\ k + l = k  BY <1>1, <1>4 DEF Mixed
  <2> QED BY <2>1
<1>5. CASE k > 0 /\ l > 0
  <2>1. PICK r \in R : r[1] * k <= n * r[2]  BY <1>5 DEF Mixed
  <2>2. PICK s \in R : s[1] * l <= m * s[2]  BY <1>5 DEF Mixed
  <2>3. \E q \in R : q[1] * (k + l) <= (n + m) * q[2]  BY <1>1, <2>1, <2>2, LowAdds
  <2>4. PICK t \in R : n * t[2] <= t[1] * k  BY <1>5 DEF Mixed
  <2>5. PICK u \in R : m * u[2] <= u[1] * l  BY <1>5 DEF Mixed
  <2>6. \E q \in R : (n + m) * q[2] <= q[1] * (k + l)  BY <1>1, <1>5, <2>4, <2>5, HighAdds
  <2>7. k + l # 0  BY <1>1, <1>5
  <2> QED BY <1>2, <2>3, <2>6, <2>7 DEF Mixed
<1> QED BY <1>1, <1>3, <1>4, <1>5

\* One part is a mixture.
LEMMA MixedOne ==
  ASSUME NEW R, NEW n \in Nat, NEW k \in Nat \ {0}, <<n, k>> \in R
  PROVE  Mixed(R, n, k)
<1> DEFINE r == <<n, k>>
<1>1. r \in R /\ r[1] = n /\ r[2] = k  OBVIOUS
<1> HIDE DEF r
<1>2. n * k \in Nat  OBVIOUS
<1>3. r[1] * k <= n * r[2] /\ n * r[2] <= r[1] * k  BY <1>1, <1>2
<1> QED BY <1>1, <1>3 DEF Mixed

\* None of it is a mixture.
LEMMA MixedNone == ASSUME NEW R PROVE Mixed(R, 0, 0)
  BY DEF Mixed

\* A quotient, rounded down, of a mixture lies between those of its ratios.
LEMMA MixedQuotient ==
  ASSUME NEW R, \A r \in R : r[1] \in Nat /\ r[2] \in Nat \ {0},
         NEW n, NEW k, Mixed(R, n, k), k # 0, NEW c \in Nat
  PROVE  /\ \E r \in R : (c * r[1]) \div r[2] <= (c * n) \div k
         /\ \E r \in R : ((c * n) \div k) * r[2] <= c * r[1]
         /\ \E r \in R : (c * n) \div k <= (c * r[1]) \div r[2]
<1> DEFINE v == (c * n) \div k
<1>1. n \in Nat /\ k \in Nat \ {0}  BY DEF Mixed
<1>2. c * n \in Nat  BY <1>1
<1>3. v \in Nat /\ v * k <= c * n /\ c * n < (v + 1) * k  BY <1>1, <1>2, QuotientBounds DEF v
<1> HIDE DEF v
<1>4. \E r \in R : (c * r[1]) \div r[2] <= v
  <2>1. PICK r \in R : r[1] * k <= n * r[2]  BY <1>1 DEF Mixed
  <2> DEFINE a == r[1]  b == r[2]  w == (c * a) \div b
  <2>2. a \in Nat /\ b \in Nat \ {0} /\ a * k <= n * b  BY <2>1
  <2>3. c * a \in Nat  BY <2>2
  <2>4. w \in Nat /\ w * b <= c * a  BY <2>2, <2>3, QuotientBounds DEF w
  <2>5. (c * a) * k <= (c * n) * b
    <3>1. PICK g \in Nat : n * b = a * k + g
      <4>1. n * b - a * k \in Nat /\ n * b \in Nat /\ a * k \in Nat  BY <1>1, <2>2
      <4> QED BY <4>1
    <3>2. c * (n * b) = c * (a * k) + c * g  BY <3>1, <1>1, <2>2
    <3>3. c * (n * b) = (c * n) * b /\ c * (a * k) = (c * a) * k  BY <1>1, <2>2
    <3>4. c * g \in Nat /\ (c * a) * k \in Nat  BY <3>1, <1>1, <2>2
    <3> QED BY <3>2, <3>3, <3>4
  <2> HIDE DEF a, b, w
  <2>6. w * k <= c * n  BY <2>2, <2>3, <2>4, <2>5, <1>1, <1>2, Cross
  <2>7. w * k < (v + 1) * k
    <3>1. w * k \in Nat /\ (v + 1) * k \in Nat  BY <2>4, <1>1, <1>3
    <3> QED BY <3>1, <2>6, <1>2, <1>3
  <2>8. w < v + 1
    <3> SUFFICES ASSUME v + 1 <= w PROVE FALSE  BY <2>4, <1>3
    <3>1. PICK g \in Nat : w = v + 1 + g
      <4>1. w - v - 1 \in Nat  BY <2>4, <1>3
      <4> QED BY <4>1, <2>4, <1>3
    <3>2. w * k = (v + 1) * k + g * k  BY <3>1, <1>1, <1>3
    <3>3. g * k \in Nat /\ (v + 1) * k \in Nat  BY <3>1, <1>1, <1>3
    <3> QED BY <3>2, <3>3, <2>7
  <2> QED BY <2>8, <2>4, <1>3 DEF a, b, w
<1>5. PICK r \in R : n * r[2] <= r[1] * k  BY <1>1 DEF Mixed
<1>6. v * r[2] <= c * r[1]
  <2> DEFINE a == r[1]  b == r[2]
  <2>1. a \in Nat /\ b \in Nat \ {0} /\ n * b <= a * k  BY <1>5
  <2> HIDE DEF a, b
  <2>2. (c * n) * b <= (c * a) * k
    <3>1. PICK g \in Nat : a * k = n * b + g
      <4>1. a * k - n * b \in Nat /\ n * b \in Nat /\ a * k \in Nat  BY <1>1, <2>1
      <4> QED BY <4>1
    <3>2. c * (a * k) = c * (n * b) + c * g  BY <3>1, <1>1, <2>1
    <3>3. c * (n * b) = (c * n) * b /\ c * (a * k) = (c * a) * k  BY <1>1, <2>1
    <3>4. c * g \in Nat /\ (c * n) * b \in Nat  BY <3>1, <1>1, <2>1
    <3> QED BY <3>2, <3>3, <3>4
  <2>3. c * a \in Nat /\ 1 \in Nat /\ v * k <= (c * n) * 1  BY <2>1, <1>2, <1>3
  <2>4. v * b <= (c * a) * 1  
    <3>1. v * k <= (c * n) * 1 /\ (c * n) * b <= (c * a) * k  BY <2>2, <2>3
    <3> QED BY <3>1, <1>1, <1>2, <1>3, <2>1, <2>3, Cross
  <2>5. v * b <= c * a  BY <2>4, <2>3
  <2> QED BY <2>5 DEF a, b
<1>7. v <= (c * r[1]) \div r[2]
  <2>1. c * r[1] \in Nat /\ r[1] \in Nat /\ r[2] \in Nat \ {0}  BY <1>5
  <2> QED BY <2>1, <1>3, <1>6, QuotientLeast
<1> QED BY <1>4, <1>5, <1>6, <1>7 DEF v
-----------------------------------------------------------------------------
(* What an engine counts.                                                  *)

\* The prompts take time and have tokens, so their ratios have denominators.
LEMMA RatiosAreRatios ==
  /\ \A r \in Rates : r[1] \in Nat /\ r[2] \in Nat \ {0}
  /\ \A r \in Shares : r[1] \in Nat /\ r[2] \in Nat \ {0}
<1>1. \A p \in Prompts : p.n \in Nat \ {0} /\ p.k \in Nat \ {0} /\ p.h \in Nat
  BY WindowsAssumption
<1> QED BY <1>1 DEF Rates, Shares

\* An engine that did nothing has counted on.
LEMMA GrewRefl ==
  ASSUME NEW c \in Counters
  PROVE  Grew(c, c)
<1>1. c.lc \in Nat /\ c.lh \in Nat /\ c.pt \in Nat /\ c.gen \in Nat /\ c.pfkv \in Nat /\ c.prefill \in Nat
  BY DEF Counters
<1>2. c.pfkv - c.pfkv = 0 /\ c.prefill - c.prefill = 0 /\ c.lh - c.lh = 0 /\ c.pt - c.pt = 0
  BY <1>1
<1> QED BY <1>1, <1>2, MixedNone DEF Grew

\* Counting on and on is counting on.
LEMMA GrewTrans ==
  ASSUME NEW c \in Counters, NEW d \in Counters, NEW e \in Counters, Grew(c, d), Grew(d, e)
  PROVE  Grew(c, e)
<1>1. /\ c.lc \in Nat /\ c.lh \in Nat /\ c.pt \in Nat /\ c.gen \in Nat /\ c.pfkv \in Nat /\ c.prefill \in Nat
      /\ d.lc \in Nat /\ d.lh \in Nat /\ d.pt \in Nat /\ d.gen \in Nat /\ d.pfkv \in Nat /\ d.prefill \in Nat
      /\ e.lc \in Nat /\ e.lh \in Nat /\ e.pt \in Nat /\ e.gen \in Nat /\ e.pfkv \in Nat /\ e.prefill \in Nat
  BY DEF Counters
<1>2. c.lc <= e.lc /\ c.lh <= e.lh /\ c.gen <= e.gen  BY <1>1 DEF Grew
<1>3. e.pt - c.pt = (e.lc - c.lc) + (e.lh - c.lh)
  <2>1. /\ d.pt - c.pt = (d.lc - c.lc) + (d.lh - c.lh)
        /\ e.pt - d.pt = (e.lc - d.lc) + (e.lh - d.lh)
    BY DEF Grew
  <2>2. e.pt - c.pt = (d.pt - c.pt) + (e.pt - d.pt)  BY <1>1
  <2>3. (e.lc - c.lc) + (e.lh - c.lh) = ((d.lc - c.lc) + (d.lh - c.lh)) + ((e.lc - d.lc) + (e.lh - d.lh))
    BY <1>1
  <2> QED BY <2>1, <2>2, <2>3
<1>4. Mixed(Rates, e.pfkv - c.pfkv, e.prefill - c.prefill)
  <2>1. /\ e.pfkv - c.pfkv = (d.pfkv - c.pfkv) + (e.pfkv - d.pfkv)
        /\ e.prefill - c.prefill = (d.prefill - c.prefill) + (e.prefill - d.prefill)
    BY <1>1
  <2>2. /\ Mixed(Rates, d.pfkv - c.pfkv, d.prefill - c.prefill)
        /\ Mixed(Rates, e.pfkv - d.pfkv, e.prefill - d.prefill)
    BY DEF Grew
  <2> QED BY <2>1, <2>2, MixedAdds, RatiosAreRatios
<1>5. Mixed(Shares, e.lh - c.lh, e.pt - c.pt)
  <2>1. e.lh - c.lh = (d.lh - c.lh) + (e.lh - d.lh) /\ e.pt - c.pt = (d.pt - c.pt) + (e.pt - d.pt)
    BY <1>1
  <2>2. Mixed(Shares, d.lh - c.lh, d.pt - c.pt) /\ Mixed(Shares, e.lh - d.lh, e.pt - d.pt)
    BY DEF Grew
  <2> QED BY <2>1, <2>2, MixedAdds, RatiosAreRatios
<1> QED BY <1>2, <1>3, <1>4, <1>5 DEF Grew

\* So do the samples of engines follow each other.
LEMMA FollowsTrans ==
  ASSUME NEW l \in Nat, NEW m \in Nat, NEW n \in Nat,
         NEW c \in Counters, NEW d \in Counters, NEW e \in Counters,
         Follows(l, c, m, d), Follows(m, d, n, e)
  PROVE  Follows(l, c, n, e)
<1>1. l <= n /\ (l = n => l = m /\ m = n)  BY DEF Follows
<1> QED BY <1>1, GrewTrans DEF Follows

\* A first token.
LEMMA FirstTokenGrows ==
  ASSUME EngineTyped, FirstToken
  PROVE  count' \in Counters /\ Grew(count, count')
<1> DEFINE p == request.prompt
<1>1. p \in Prompts /\ p.n \in Nat \ {0} /\ p.h \in Nat /\ p.k \in Nat \ {0}
  BY WindowsAssumption DEF EngineTyped, FirstToken
<1>2. count \in Counters  BY DEF EngineTyped
<1>3. /\ count.lc \in Nat /\ count.lh \in Nat /\ count.pt \in Nat /\ count.gen \in Nat
      /\ count.pfkv \in Nat /\ count.prefill \in Nat /\ count.ttftn \in Nat /\ count.late \in [Bounds -> Nat]
  BY <1>2 DEF Counters
<1>4. /\ count'.lc = count.lc + p.n /\ count'.lh = count.lh + p.h
      /\ count'.pt = count.pt + p.n + p.h /\ count'.gen = count.gen + 1
      /\ count'.pfkv = count.pfkv /\ count'.prefill = count.prefill
  BY <1>2 DEF FirstToken, Counters
<1>5. count' \in Counters
  <2> DEFINE late == [b \in Bounds |-> count.late[b] + IF p.k <= b THEN 1 ELSE 0]
  <2>1. count' = [lc |-> count.lc + p.n, lh |-> count.lh + p.h, pt |-> count.pt + p.n + p.h, late |-> late,
                  ttftn |-> count.ttftn + 1, gen |-> count.gen + 1, pfkv |-> count.pfkv, prefill |-> count.prefill]
    BY <1>2 DEF FirstToken, Counters
  <2>2. late \in [Bounds -> Nat]  BY <1>3
  <2> HIDE DEF p, late
  <2>3. count.lc + p.n \in Nat /\ count.lh + p.h \in Nat /\ count.pt + p.n + p.h \in Nat
        /\ count.ttftn + 1 \in Nat /\ count.gen + 1 \in Nat  BY <1>1, <1>3
  <2> QED BY <1>3, <2>1, <2>2, <2>3 DEF Counters
<1> HIDE DEF p
<1>6. Mixed(Rates, count'.pfkv - count.pfkv, count'.prefill - count.prefill)
  <2>1. count'.pfkv - count.pfkv = 0 /\ count'.prefill - count.prefill = 0  BY <1>3, <1>4
  <2> QED BY <2>1, MixedNone
<1>7. Mixed(Shares, count'.lh - count.lh, count'.pt - count.pt)
  <2>1. count'.lh - count.lh = p.h /\ count'.pt - count.pt = p.n + p.h  BY <1>1, <1>3, <1>4
  <2>2. <<p.h, p.n + p.h>> \in Shares /\ p.n + p.h \in Nat \ {0}  BY <1>1 DEF Shares
  <2> QED BY <1>1, <2>1, <2>2, MixedOne
<1>8. /\ count.lc <= count'.lc /\ count.lh <= count'.lh /\ count.gen <= count'.gen
      /\ count'.pt - count.pt = (count'.lc - count.lc) + (count'.lh - count.lh)
  BY <1>1, <1>3, <1>4
<1> QED BY <1>5, <1>6, <1>7, <1>8 DEF Grew

\* The end of a request.
LEMMA FinishGrows ==
  ASSUME EngineTyped, Finish
  PROVE  count' \in Counters /\ Grew(count, count')
<1> DEFINE p == request.prompt
<1>1. p \in Prompts /\ p.n \in Nat \ {0} /\ p.k \in Nat \ {0}
  BY WindowsAssumption DEF EngineTyped, Finish
<1>2. count \in Counters  BY DEF EngineTyped
<1>3. /\ count.lc \in Nat /\ count.lh \in Nat /\ count.pt \in Nat /\ count.gen \in Nat
      /\ count.pfkv \in Nat /\ count.prefill \in Nat
  BY <1>2 DEF Counters
<1>4. /\ count'.lc = count.lc /\ count'.lh = count.lh /\ count'.pt = count.pt /\ count'.gen = count.gen
      /\ count'.pfkv = count.pfkv + p.n /\ count'.prefill = count.prefill + p.k
  BY <1>2 DEF Finish, Counters
<1>5. count' \in Counters
  <2>1. count' = [count EXCEPT !.pfkv = count.pfkv + p.n, !.prefill = count.prefill + p.k]
    BY <1>2 DEF Finish, Counters
  <2>2. count.pfkv + p.n \in Nat /\ count.prefill + p.k \in Nat  BY <1>1, <1>3
  <2> HIDE DEF p
  <2> QED BY <1>2, <2>1, <2>2 DEF Counters
<1> HIDE DEF p
<1>6. Mixed(Rates, count'.pfkv - count.pfkv, count'.prefill - count.prefill)
  <2>1. count'.pfkv - count.pfkv = p.n /\ count'.prefill - count.prefill = p.k  BY <1>1, <1>3, <1>4
  <2>2. <<p.n, p.k>> \in Rates  BY <1>1 DEF Rates
  <2> QED BY <1>1, <2>1, <2>2, MixedOne
<1>7. Mixed(Shares, count'.lh - count.lh, count'.pt - count.pt)
  <2>1. count'.lh - count.lh = 0 /\ count'.pt - count.pt = 0  BY <1>3, <1>4
  <2> QED BY <2>1, MixedNone
<1>8. /\ count.lc <= count'.lc /\ count.lh <= count'.lh /\ count.gen <= count'.gen
      /\ count'.pt - count.pt = (count'.lc - count.lc) + (count'.lh - count.lh)
  BY <1>3, <1>4
<1> QED BY <1>5, <1>6, <1>7, <1>8 DEF Grew

\* A tick, which counts a token if the request generates.
LEMMA TickGrows ==
  ASSUME EngineTyped, Tick
  PROVE  count' \in Counters /\ Grew(count, count')
<1> DEFINE n == IF request # None /\ request.first THEN 1 ELSE 0
<1>1. n \in Nat  OBVIOUS
<1>2. count \in Counters  BY DEF EngineTyped
<1>3. /\ count.lc \in Nat /\ count.lh \in Nat /\ count.pt \in Nat /\ count.gen \in Nat
      /\ count.pfkv \in Nat /\ count.prefill \in Nat
  BY <1>2 DEF Counters
<1>4. count' = [count EXCEPT !.gen = count.gen + n]
  BY <1>2 DEF Tick, Counters
<1> HIDE DEF n
<1>5. /\ count'.lc = count.lc /\ count'.lh = count.lh /\ count'.pt = count.pt /\ count'.gen = count.gen + n
      /\ count'.pfkv = count.pfkv /\ count'.prefill = count.prefill
  BY <1>2, <1>4 DEF Counters
<1>6. count' \in Counters  BY <1>1, <1>2, <1>3, <1>4 DEF Counters
<1>7. count'.pfkv - count.pfkv = 0 /\ count'.prefill - count.prefill = 0
      /\ count'.lh - count.lh = 0 /\ count'.pt - count.pt = 0  BY <1>3, <1>5
<1>8. /\ count.lc <= count'.lc /\ count.lh <= count'.lh /\ count.gen <= count'.gen
      /\ count'.pt - count.pt = (count'.lc - count.lc) + (count'.lh - count.lh)
  BY <1>1, <1>3, <1>5
<1> QED BY <1>6, <1>7, <1>8, MixedNone DEF Grew
-----------------------------------------------------------------------------
(* What the poller remembers.                                              *)

\* Ages are numbers, and a cycle is not beyond what they tell apart.
LEMMA AgesAreNumbers ==
  /\ MaxCycle \in Nat /\ MaxAge \in Nat /\ MaxCycle <= MaxAge
  /\ \A age \in Ages : age \in Nat /\ Older(age) \in Ages /\ (Older(age) = age + 1 \/ (age = MaxAge /\ Older(age) = MaxAge))
<1>1. MaxCycle \in Nat /\ RingSamples \in Nat \ {0} /\ RingGap \in Nat /\ None \notin Nat
  BY WindowsAssumption
<1>2. (RingSamples - 1) * RingGap \in Nat
  <2>1. RingSamples - 1 \in Nat  BY <1>1
  <2> QED BY <1>1, <2>1
<1>3. MaxAge \in Nat /\ MaxCycle <= MaxAge  BY <1>1, <1>2 DEF MaxAge
<1>4. \A age \in Ages : age \in Nat /\ age # None /\ age <= MaxAge  BY <1>1, <1>3 DEF Ages
<1>5. \A age \in Ages : Older(age) \in Ages /\ (Older(age) = age + 1 \/ (age = MaxAge /\ Older(age) = MaxAge))
  BY <1>3, <1>4 DEF Older, Ages
<1> QED BY <1>1, <1>3, <1>4, <1>5

\* A deque of bounded length ends with what was appended, before which are the
\* elements it had, but perhaps the first.
LEMMA PushedIs ==
  ASSUME NEW S, NEW seq \in Seq(S), NEW x \in S, NEW bound \in Nat \ {0}
  PROVE  LET new == Pushed(seq, x, bound) IN
         /\ new \in Seq(S) /\ Len(new) \in Nat \ {0} /\ new # <<>> /\ new[Len(new)] = x
         /\ \E d \in {0, 1} :
              /\ Len(new) + d = Len(seq) + 1
              /\ \A i \in 1..(Len(new) - 1) : i + d \in 1..Len(seq) /\ new[i] = seq[i + d]
<1>1. CASE Len(seq) < bound
  <2> DEFINE new == Append(seq, x)
  <2>1. /\ new \in Seq(S) /\ Len(new) = Len(seq) + 1 /\ Len(seq) \in Nat
        /\ \A i \in 1..Len(seq) : new[i] = seq[i] /\ new[Len(seq) + 1] = x
        /\ new[Len(seq) + 1] = x
    BY AppendProperties, LenProperties
  <2>2. new # <<>>  BY <2>1, EmptySeq
  <2>3. Pushed(seq, x, bound) = new  BY <1>1 DEF Pushed
  <2> HIDE DEF new
  <2>4. Len(new) + 0 = Len(seq) + 1 /\ \A i \in 1..(Len(new) - 1) : i + 0 \in 1..Len(seq) /\ new[i] = seq[i + 0]
    BY <2>1
  <2>5. \E d \in {0, 1} : /\ Len(new) + d = Len(seq) + 1
                          /\ \A i \in 1..(Len(new) - 1) : i + d \in 1..Len(seq) /\ new[i] = seq[i + d]
    BY <2>4
  <2>6. Len(new) \in Nat \ {0} /\ new[Len(new)] = x  BY <2>1
  <2> QED BY <2>1, <2>2, <2>3, <2>5, <2>6
<1>2. CASE ~(Len(seq) < bound)
  <2> DEFINE new == Append(Tail(seq), x)
  <2>1. Len(seq) \in Nat \ {0}  BY <1>2, LenProperties
  <2>2. seq # <<>>  BY <2>1, EmptySeq
  <2>3. /\ Tail(seq) \in Seq(S) /\ Len(Tail(seq)) = Len(seq) - 1
        /\ \A i \in 1..Len(Tail(seq)) : Tail(seq)[i] = seq[i + 1]
    BY <2>2, HeadTailProperties
  <2>4. /\ new \in Seq(S) /\ Len(new) = Len(Tail(seq)) + 1
        /\ \A i \in 1..Len(Tail(seq)) : new[i] = Tail(seq)[i]
        /\ new[Len(Tail(seq)) + 1] = x
    BY <2>3, AppendProperties
  <2>5. Pushed(seq, x, bound) = new  BY <1>2 DEF Pushed
  <2> HIDE DEF new
  <2>6. Len(new) = Len(seq)  BY <2>1, <2>3, <2>4
  <2>7. Len(new) + 1 = Len(seq) + 1 /\ \A i \in 1..(Len(new) - 1) : i + 1 \in 1..Len(seq) /\ new[i] = seq[i + 1]
    BY <2>1, <2>3, <2>4, <2>6
  <2>8. new[Len(new)] = x /\ Len(new) \in Nat \ {0}  BY <2>1, <2>3, <2>4
  <2>9. new # <<>>  BY <2>8, EmptySeq, <2>4
  <2>10. \E d \in {0, 1} : /\ Len(new) + d = Len(seq) + 1
                           /\ \A i \in 1..(Len(new) - 1) : i + d \in 1..Len(seq) /\ new[i] = seq[i + d]
    BY <2>7
  <2> QED BY <2>4, <2>5, <2>8, <2>9, <2>10
<1> QED BY <1>1, <1>2

\* A step that leaves the window as it is.
LEMMA OneProcessStays ==
  ASSUME OneProcess, winbuf' = winbuf
  PROVE  OneProcess'
<1>1. \A i : Hidden(i)' = Hidden(i)  BY DEF Hidden
<1>2. OneProcess' =
        \A k \in 1..Len(winbuf) :
          \/ \E i \in k..(Len(winbuf) - 1) : Hidden(i)
          \/ \A i, j \in k..Len(winbuf) : winbuf[i].life = winbuf[j].life
  BY <1>1, Zenon DEF OneProcess
<1> QED BY <1>2 DEF OneProcess

\* A step that leaves the hub as it is.
LEMMA HubStays ==
  ASSUME IInv, UNCHANGED hub
  PROVE  /\ WindowsTyped' /\ Together' /\ InWindowOrder' /\ OneProcess'
         /\ NothingStraddles' /\ RowOfWindow'
<1> USE DEF hub
<1>0. /\ WindowsTyped /\ Together /\ InWindowOrder /\ OneProcess /\ NothingStraddles /\ RowOfWindow
      /\ winbuf' = winbuf
  BY DEF IInv
<1>1. WindowsTyped'  BY <1>0 DEF WindowsTyped
<1>2. Together'  BY <1>0 DEF Together, Last
<1>3. InWindowOrder'  BY <1>0 DEF InWindowOrder
<1>4. OneProcess'  BY <1>0, OneProcessStays
<1>5. NothingStraddles'  BY <1>0 DEF NothingStraddles, Hidden
<1>6. RowOfWindow'  BY <1>0 DEF RowOfWindow
<1> QED BY <1>1, <1>2, <1>3, <1>4, <1>5, <1>6

\* What an element of a window is.
LEMMA Elements ==
  ASSUME IInv
  PROVE  /\ Len(winbuf) \in Nat
         /\ \A i \in 1..Len(winbuf) : winbuf[i] \in Wins /\ winbuf[i].life \in Nat /\ winbuf[i].count \in Counters
         /\ winbuf # <<>> => Len(winbuf) \in 1..Len(winbuf) /\ Last(winbuf) = winbuf[Len(winbuf)]
<1>1. winbuf \in Seq(Wins)  BY DEF IInv, WindowsTyped
<1>2. Len(winbuf) \in Nat  BY <1>1, LenProperties
<1>3. \A i \in 1..Len(winbuf) : winbuf[i] \in Wins  BY <1>1, ElementOfSeq
<1>4. \A i \in 1..Len(winbuf) : winbuf[i].life \in Nat /\ winbuf[i].count \in Counters  BY <1>3 DEF Wins
<1>5. winbuf # <<>> => Len(winbuf) \in 1..Len(winbuf)  BY <1>1, <1>2, EmptySeq
<1> QED BY <1>2, <1>3, <1>4, <1>5 DEF Last

\* A step in which the engine counts on.
LEMMA EngineCountsOn ==
  ASSUME IInv, count' \in Counters, Grew(count, count'), life' = life, winbuf' = winbuf, pc' = pc,
         pc = "apply" => body'.count = body.count /\ body'.life = body.life
  PROVE  BodyFollows' /\ EngineFollows'
<1>1. count \in Counters /\ life \in Nat  BY DEF IInv, EngineTyped
<1>2. Follows(life, count, life', count')  BY <1>1 DEF Follows
<1>3. EngineFollows'
  <2> SUFFICES ASSUME NEW i \in 1..Len(winbuf)
               PROVE  Follows(winbuf[i].life, winbuf[i].count, life', count')
    BY DEF EngineFollows
  <2>1. Follows(winbuf[i].life, winbuf[i].count, life, count)  BY DEF IInv, EngineFollows
  <2>2. winbuf[i].life \in Nat /\ winbuf[i].count \in Counters  BY Elements
  <2> QED BY <1>1, <1>2, <2>1, <2>2, FollowsTrans
<1>4. ASSUME pc = "apply" PROVE Follows(body.life, body.count, life', count')
  <2>1. Follows(body.life, body.count, life, count)  BY <1>4 DEF IInv, BodyFollows
  <2>2. body.life \in Nat /\ body.count \in Counters  BY <1>4 DEF IInv, PollerTyped, Readings
  <2> QED BY <1>1, <1>2, <2>1, <2>2, FollowsTrans
<1>5. BodyFollows'
  <2> SUFFICES ASSUME pc = "apply"
               PROVE  /\ \A i \in 1..Len(winbuf) : Follows(winbuf[i].life, winbuf[i].count, body.life, body.count)
                      /\ Follows(body.life, body.count, life', count')
    BY DEF BodyFollows
  <2> QED BY <1>4 DEF IInv, BodyFollows
<1> QED BY <1>3, <1>5

\* A timer of the process that serves was set when the last sample was of it: none
\* of its tokens are uncounted.
LEMMA TimerSample ==
  ASSUME IInv, live # None, live.life = life
  PROVE  vlast.gen \in Nat /\ vlast.gen <= count.gen
<1>1. winbuf # <<>>  BY DEF IInv, Together
<1>2. /\ Last(winbuf) = winbuf[Len(winbuf)] /\ Len(winbuf) \in 1..Len(winbuf)
      /\ Last(winbuf).life \in Nat /\ Last(winbuf).count \in Counters
  BY <1>1, Elements
<1>3. live.life <= Last(winbuf).life /\ vlast.gen = Last(winbuf).count.gen  BY <1>1 DEF IInv, Together
<1>4. Follows(Last(winbuf).life, Last(winbuf).count, life, count)  BY <1>2 DEF IInv, EngineFollows
<1>5. life \in Nat  BY DEF IInv, EngineTyped
<1>6. Last(winbuf).life = life  BY <1>2, <1>3, <1>4, <1>5 DEF Follows
<1>7. Last(winbuf).count.gen <= count.gen  BY <1>4, <1>6 DEF Follows, Grew
<1> QED BY <1>2, <1>3, <1>7 DEF Counters
-----------------------------------------------------------------------------
(* The steps of the engine.                                                *)

\* A request arrives.
LEMMA ArriveKeeps ==
  ASSUME IInv, Arrive
  PROVE  IInv'
<1> USE DEF Arrive, poller
<1>1. WindowsTyped' /\ Together' /\ InWindowOrder' /\ OneProcess' /\ NothingStraddles' /\ RowOfWindow'
  BY HubStays DEF IInv
<1>2. EngineTyped'  BY DEF IInv, EngineTyped
<1>3. PollerTyped'  BY DEF IInv, PollerTyped
<1>4. BodyFollows'  BY DEF IInv, BodyFollows, hub
<1>5. EngineFollows'  BY DEF IInv, EngineFollows, hub
<1>6. Silent'  BY DEF IInv, Silent, hub
<1> QED BY <1>1, <1>2, <1>3, <1>4, <1>5, <1>6 DEF IInv

\* A client goes away.
LEMMA AbortKeeps ==
  ASSUME IInv, Abort
  PROVE  IInv'
<1> USE DEF Abort, poller
<1>1. WindowsTyped' /\ Together' /\ InWindowOrder' /\ OneProcess' /\ NothingStraddles' /\ RowOfWindow'
  BY HubStays DEF IInv
<1>2. EngineTyped'  BY DEF IInv, EngineTyped
<1>3. PollerTyped'  BY DEF IInv, PollerTyped
<1>4. BodyFollows'  BY DEF IInv, BodyFollows, hub
<1>5. EngineFollows'  BY DEF IInv, EngineFollows, hub
<1>6. Silent'  BY DEF IInv, Silent, hub
<1> QED BY <1>1, <1>2, <1>3, <1>4, <1>5, <1>6 DEF IInv

\* A process starts.
LEMMA StartKeeps ==
  ASSUME IInv, Start
  PROVE  IInv'
<1> USE DEF Start, poller
<1>1. WindowsTyped' /\ Together' /\ InWindowOrder' /\ OneProcess' /\ NothingStraddles' /\ RowOfWindow'
  BY HubStays DEF IInv
<1>2. EngineTyped'  BY DEF IInv, EngineTyped
<1>3. PollerTyped'  BY DEF IInv, PollerTyped
<1>4. BodyFollows'  BY DEF IInv, BodyFollows, hub
<1>5. EngineFollows'  BY DEF IInv, EngineFollows, hub
<1>6. Silent'  BY DEF IInv, Silent, hub
<1> QED BY <1>1, <1>2, <1>3, <1>4, <1>5, <1>6 DEF IInv

\* A first token: the engine counts a prompt, and the silence ends.
LEMMA FirstTokenKeeps ==
  ASSUME IInv, FirstToken
  PROVE  IInv'
<1>0. UNCHANGED <<active, life, hub, poller>> /\ quiet' = 0  BY DEF FirstToken
<1> USE <1>0 DEF poller
<1>1. WindowsTyped' /\ Together' /\ InWindowOrder' /\ OneProcess' /\ NothingStraddles' /\ RowOfWindow'
  BY HubStays
<1>2. count' \in Counters /\ Grew(count, count')  BY FirstTokenGrows DEF IInv
<1>3. EngineTyped'
  <2>1. request' \in [prompt : Prompts, spent : Nat, first : BOOLEAN]
    <3>1. request \in [prompt : Prompts, spent : Nat, first : BOOLEAN]  BY DEF IInv, EngineTyped, FirstToken
    <3>2. request' = [request EXCEPT !.first = TRUE]  BY DEF FirstToken
    <3> QED BY <3>1, <3>2
  <2>2. 0 \in Ages  BY AgesAreNumbers DEF Ages
  <2> QED BY <1>2, <2>1, <2>2 DEF IInv, EngineTyped
<1>4. PollerTyped'  BY DEF IInv, PollerTyped
<1>5. BodyFollows' /\ EngineFollows'  BY <1>2, EngineCountsOn DEF hub
<1>6. Silent'
  <2>1. ASSUME live # None, live.life = life  PROVE vlast.gen # count'.gen
    <3>1. vlast.gen \in Nat /\ vlast.gen <= count.gen  BY <2>1, TimerSample
    <3>2. count.gen \in Nat /\ count'.gen = count.gen + 1
      BY DEF IInv, EngineTyped, Counters, FirstToken
    <3> QED BY <3>1, <3>2
  <2> QED BY <2>1 DEF IInv, Silent, hub
<1> QED BY <1>1, <1>3, <1>4, <1>5, <1>6 DEF IInv

\* The end of a request: the engine counts its phases.
LEMMA FinishKeeps ==
  ASSUME IInv, Finish
  PROVE  IInv'
<1>0. UNCHANGED <<active, life, hub, poller, quiet>> /\ request' = None  BY DEF Finish
<1> USE <1>0 DEF poller
<1>1. WindowsTyped' /\ Together' /\ InWindowOrder' /\ OneProcess' /\ NothingStraddles' /\ RowOfWindow'
  BY HubStays
<1>2. count' \in Counters /\ Grew(count, count')  BY FinishGrows DEF IInv
<1>3. EngineTyped'  BY <1>2 DEF IInv, EngineTyped
<1>4. PollerTyped'  BY DEF IInv, PollerTyped
<1>5. BodyFollows' /\ EngineFollows'  BY <1>2, EngineCountsOn DEF hub
<1>6. Silent'
  <2>1. count'.gen = count.gen  BY DEF IInv, EngineTyped, Counters, Finish
  <2> QED BY <2>1 DEF IInv, Silent, hub
<1> QED BY <1>1, <1>3, <1>4, <1>5, <1>6 DEF IInv

\* The process ends, and what the next one counts follows nothing.
LEMMA StopKeeps ==
  ASSUME IInv, Stop
  PROVE  IInv'
<1>0. UNCHANGED <<hub, poller, quiet>> /\ request' = None /\ active' = None /\ life' = life + 1 /\ count' = Zero
  BY DEF Stop
<1> USE <1>0 DEF poller
<1>1. WindowsTyped' /\ Together' /\ InWindowOrder' /\ OneProcess' /\ NothingStraddles' /\ RowOfWindow'
  BY HubStays
<1>2. EngineTyped'
  <2>1. Zero \in Counters  BY DEF Zero, Counters
  <2> QED BY <2>1 DEF IInv, EngineTyped
<1>3. PollerTyped'  BY DEF IInv, PollerTyped
<1>4. life \in Nat  BY DEF IInv, EngineTyped
<1>5. \A l, c, d : l \in Nat /\ Follows(l, c, life, d) => Follows(l, c, life', count')
  BY <1>4 DEF Follows
<1>6. EngineFollows'  BY <1>5, Elements DEF IInv, EngineFollows, hub
<1>7. BodyFollows'
  <2>1. pc = "apply" => body.life \in Nat  BY DEF IInv, PollerTyped, Readings
  <2> QED BY <1>5, <2>1 DEF IInv, BodyFollows, hub
<1>8. Silent'
  <2>1. live # None => live.life # life'
    <3> SUFFICES ASSUME live # None PROVE live.life # life'  OBVIOUS
    <3>1. winbuf # <<>>  BY DEF IInv, Together
    <3>2. Last(winbuf) = winbuf[Len(winbuf)] /\ Len(winbuf) \in 1..Len(winbuf) /\ Last(winbuf).life \in Nat
      BY <3>1, Elements
    <3>3. Last(winbuf).life <= life  BY <3>2 DEF IInv, EngineFollows, Follows
    <3>4. live.life \in Nat /\ live.life <= Last(winbuf).life  BY <3>1 DEF IInv, Together, WindowsTyped
    <3> QED BY <1>4, <3>2, <3>3, <3>4
  <2> QED BY <2>1 DEF IInv, Silent, hub
<1> QED BY <1>1, <1>2, <1>3, <1>6, <1>7, <1>8 DEF IInv

\* A tick: the timer is older, and so is the silence unless a token came.
LEMMA TickKeeps ==
  ASSUME IInv, Tick
  PROVE  IInv'
<1>0. /\ UNCHANGED <<active, life, metricsMid, winbuf, vlast, row, pc, listed>>
      /\ cycleAge < MaxCycle /\ cycleAge' = cycleAge + 1
      /\ ring' = [i \in DOMAIN ring |-> [ring[i] EXCEPT !.t = Older(@)]]
      /\ live' = IF live = None THEN None ELSE [live EXCEPT !.age = Older(@)]
      /\ body' = IF body = None THEN None ELSE [body EXCEPT !.quiet = Older(@)]
  BY DEF Tick
<1>1. count' \in Counters /\ Grew(count, count')  BY TickGrows DEF IInv
<1>2. \/ count'.gen = count.gen + 1
      \/ count'.gen = count.gen /\ quiet' = Older(quiet)
  BY DEF IInv, EngineTyped, Counters, Tick
<1>3. quiet' \in Ages
  <2>1. quiet' = 0 \/ quiet' = Older(quiet)  BY DEF Tick
  <2>2. 0 \in Ages  BY AgesAreNumbers DEF Ages
  <2> QED BY <2>1, <2>2, AgesAreNumbers DEF IInv, EngineTyped
<1>4. EngineTyped'
  <2>1. request' # None => request' \in [prompt : Prompts, spent : Nat, first : BOOLEAN]
    <3> SUFFICES ASSUME request' # None
                 PROVE  request' \in [prompt : Prompts, spent : Nat, first : BOOLEAN]
      OBVIOUS
    <3>1. request' = IF request = None THEN None ELSE [request EXCEPT !.spent = @ + 1]  BY DEF Tick
    <3>2. request # None /\ request' = [request EXCEPT !.spent = @ + 1]  BY <3>1, Zenon
    <3>3. request \in [prompt : Prompts, spent : Nat, first : BOOLEAN]  BY <3>2 DEF IInv, EngineTyped
    <3> QED BY <3>2, <3>3
  <2>2. cycleAge' \in 0..MaxCycle  BY <1>0, AgesAreNumbers DEF IInv, EngineTyped
  <2>3. life' \in Nat /\ active' \in Engines \cup {None}  BY <1>0 DEF IInv, EngineTyped
  <2> QED BY <1>1, <1>3, <2>1, <2>2, <2>3 DEF EngineTyped
<1>5. ring \in Seq(Rings) /\ DOMAIN ring = 1..Len(ring) /\ Len(ring) \in Nat
  BY LenProperties DEF IInv, WindowsTyped
<1>6. /\ ring' \in Seq(Rings) /\ Len(ring') = Len(ring)
      /\ \A i \in 1..Len(ring) : /\ ring'[i].life = ring[i].life /\ ring'[i].lc = ring[i].lc
                                 /\ ring'[i].mid = ring[i].mid
  <2>1. \A i \in 1..Len(ring) : ring[i] \in Rings  BY <1>5, ElementOfSeq
  <2>2. ASSUME NEW i \in 1..Len(ring)
        PROVE  /\ ring'[i] \in Rings /\ ring'[i].life = ring[i].life /\ ring'[i].lc = ring[i].lc
               /\ ring'[i].mid = ring[i].mid
    <3>1. ring'[i] = [ring[i] EXCEPT !.t = Older(@)]  BY <1>0, <1>5
    <3>2. ring[i] \in Rings /\ ring[i].t \in Nat  BY <2>1 DEF Rings
    <3>3. Older(ring[i].t) \in Nat  BY <3>2, AgesAreNumbers DEF Older
    <3> QED BY <3>1, <3>2, <3>3 DEF Rings
  <2>3. ring' = [i \in 1..Len(ring) |-> ring'[i]]  BY <1>0, <1>5
  <2>4. ring' \in Seq(Rings)  BY <1>5, <2>2, <2>3, IsASeq
  <2>5. Len(ring') = Len(ring)
    <3>1. DOMAIN ring' = 1..Len(ring)  BY <2>3
    <3> QED BY <1>5, <2>4, <3>1, LenProperties
  <2> QED BY <2>2, <2>4, <2>5
<1>7. live' # None => /\ live # None /\ live \in [age : Ages, life : Nat] /\ live' \in [age : Ages, life : Nat]
                      /\ live'.life = live.life /\ live'.age = Older(live.age)
  <2> SUFFICES ASSUME live' # None
               PROVE  /\ live # None /\ live \in [age : Ages, life : Nat] /\ live' \in [age : Ages, life : Nat]
                      /\ live'.life = live.life /\ live'.age = Older(live.age)
    OBVIOUS
  <2>1. live # None /\ live' = [live EXCEPT !.age = Older(@)]  BY <1>0, Zenon
  <2>2. live \in [age : Ages, life : Nat]  BY <2>1 DEF IInv, WindowsTyped
  <2>3. Older(live.age) \in Ages  BY <2>2, AgesAreNumbers
  <2> QED BY <2>1, <2>2, <2>3
<1>8. pc = "apply" =>
        /\ body \in Readings /\ body' \in Readings /\ body'.count = body.count /\ body'.life = body.life
        /\ body'.quiet = Older(body.quiet)
  <2> SUFFICES ASSUME pc = "apply"
               PROVE  /\ body \in Readings /\ body' \in Readings /\ body'.count = body.count /\ body'.life = body.life
                      /\ body'.quiet = Older(body.quiet)
    OBVIOUS
  <2>1. body \in Readings  BY DEF IInv, PollerTyped
  <2>2. body # None  BY <2>1, WindowsAssumption
  <2>3. body' = [body EXCEPT !.quiet = Older(@)]  BY <1>0, <2>2, Zenon
  <2>4. body.quiet \in Nat  BY <2>1 DEF Readings
  <2>5. Older(body.quiet) \in Nat  BY <2>4, AgesAreNumbers DEF Older
  <2> QED BY <2>1, <2>3, <2>5 DEF Readings
<1>9. WindowsTyped'  BY <1>0, <1>6, <1>7 DEF IInv, WindowsTyped
<1>10. PollerTyped'  BY <1>0, <1>8 DEF IInv, PollerTyped
<1>11. Together'
  <2>1. ring' = <<>> <=> ring = <<>>  BY <1>5, <1>6, EmptySeq
  <2>2. ring # <<>> => /\ Last(ring').mid = Last(ring).mid /\ Last(ring').life = Last(ring).life
                       /\ Last(ring').lc = Last(ring).lc
    <3> SUFFICES ASSUME ring # <<>>
                 PROVE  /\ Last(ring').mid = Last(ring).mid /\ Last(ring').life = Last(ring).life
                        /\ Last(ring').lc = Last(ring).lc
      OBVIOUS
    <3>1. Len(ring) \in 1..Len(ring)  BY <1>5, EmptySeq
    <3> QED BY <1>6, <3>1 DEF Last
  <2>3. live = None => live' = None  BY <1>0
  <2>4. winbuf' = winbuf /\ metricsMid' = metricsMid /\ vlast' = vlast  BY <1>0
  <2>5. Together  BY DEF IInv
  <2>6. winbuf = <<>> <=> ring = <<>>  BY <2>5 DEF Together
  <2>7. (winbuf = <<>> <=> ring = <<>>)'  BY <2>1, <2>4, <2>6
  <2>8. winbuf = <<>> => metricsMid' = None /\ vlast' = None /\ live' = None
    BY <2>3, <2>4, <2>5 DEF Together
  <2>9. ASSUME winbuf # <<>>
        PROVE  /\ metricsMid' = Last(winbuf').mid /\ Last(ring').mid = Last(winbuf').mid
               /\ Last(ring').life = Last(winbuf').life /\ Last(ring').lc = Last(winbuf').count.lc
               /\ vlast' # None /\ vlast'.gen = Last(winbuf').count.gen
               /\ live' # None => live'.life <= Last(winbuf').life
    <3>1. Last(winbuf') = Last(winbuf)  BY <2>4
    <3>2. ring # <<>>  BY <2>6, <2>9
    <3> QED BY <1>7, <2>2, <2>4, <2>5, <2>9, <3>1, <3>2 DEF Together
  <2> QED BY <2>4, <2>7, <2>8, <2>9 DEF Together
<1>12. InWindowOrder'  BY <1>0 DEF IInv, InWindowOrder
<1>13. BodyFollows' /\ EngineFollows'  BY <1>0, <1>1, <1>8, EngineCountsOn
<1>14. \A i : Hidden(i)' = Hidden(i)  BY <1>0 DEF Hidden
<1>15. OneProcess'
  <2>1. winbuf' = winbuf /\ OneProcess  BY <1>0 DEF IInv
  <2> QED BY <2>1, OneProcessStays
<1>16. NothingStraddles'
  <2>1. \A i \in 1..(Len(winbuf) - 1) : winbuf'[i].life = winbuf'[i + 1].life \/ Hidden(i)'
    BY <1>0, <1>14 DEF IInv, NothingStraddles
  <2>2. ASSUME NEW i \in 1..(Len(ring) - 1), ring'[i].life # ring'[i + 1].life
        PROVE  ring'[i].lc <= ring'[i + 1].lc /\ ring'[i].mid = ring'[i + 1].mid
    <3>1. i \in 1..Len(ring) /\ i + 1 \in 1..Len(ring)  BY <1>5
    <3> QED BY <1>6, <2>2, <3>1 DEF IInv, NothingStraddles
  <2>3. Len(winbuf') = Len(winbuf)  BY <1>0
  <2> QED BY <1>6, <2>1, <2>2, <2>3 DEF NothingStraddles
<1>17. RowOfWindow'  BY <1>0 DEF IInv, RowOfWindow
<1>18. Silent'
  <2>1. ASSUME live' # None, live'.life = life', vlast'.gen = count'.gen
        PROVE  live'.age <= quiet' + MaxCycle
    <3>1. live # None /\ live.life = life /\ vlast.gen = count'.gen  BY <1>0, <1>7, <2>1
    <3>2. vlast.gen \in Nat /\ vlast.gen <= count.gen  BY <3>1, TimerSample
    <3>3. count.gen \in Nat  BY DEF IInv, EngineTyped, Counters
    <3>4. count'.gen = count.gen /\ quiet' = Older(quiet)  BY <1>2, <3>1, <3>2, <3>3
    <3>5. live.age <= quiet + MaxCycle  BY <3>1, <3>4 DEF IInv, Silent
    <3>6. live.age \in Ages /\ quiet \in Ages  BY <1>7, <2>1 DEF IInv, EngineTyped
    <3>7. live'.age = Older(live.age)  BY <1>7, <2>1
    <3> QED BY <3>4, <3>5, <3>6, <3>7, AgesAreNumbers DEF Ages
  <2>2. ASSUME pc' = "apply", live' # None, live'.life = body'.life, vlast'.gen = body'.count.gen
        PROVE  live'.age <= body'.quiet + MaxCycle
    <3>1. pc = "apply" /\ live # None /\ live.life = body.life /\ vlast.gen = body.count.gen
      BY <1>0, <1>7, <1>8, <2>2
    <3>2. live.age <= body.quiet + MaxCycle  BY <3>1 DEF IInv, Silent
    <3>3. live.age \in Ages /\ live'.age = Older(live.age)  BY <1>7, <2>2
    <3>4. body.quiet \in Nat /\ body'.quiet = Older(body.quiet)  BY <1>8, <3>1 DEF Readings
    <3>5. Older(body.quiet) = body.quiet + 1 \/ (body.quiet = MaxAge /\ Older(body.quiet) = MaxAge)
      <4>1. body.quiet # None  BY <3>4, WindowsAssumption
      <4> QED BY <4>1 DEF Older
    <3> QED BY <3>2, <3>3, <3>4, <3>5, AgesAreNumbers DEF Ages
  <2> QED BY <2>1, <2>2 DEF Silent
<1> QED BY <1>4, <1>9, <1>10, <1>11, <1>12, <1>13, <1>15, <1>16, <1>17, <1>18 DEF IInv
-----------------------------------------------------------------------------
(* The steps of the poller.                                                *)

\* A cycle begins.
LEMMA BeginKeeps ==
  ASSUME IInv, Begin
  PROVE  IInv'
<1>0. pc = "rest" /\ cycleAge' = 0 /\ pc' = (IF Mux THEN "catalog" ELSE "metrics")
      /\ UNCHANGED <<engine, hub, listed, body, quiet>>
  BY DEF Begin
<1>1. WindowsTyped' /\ Together' /\ InWindowOrder' /\ OneProcess' /\ NothingStraddles' /\ RowOfWindow'
  BY <1>0, HubStays
<1>2. EngineTyped'  BY <1>0, AgesAreNumbers DEF IInv, EngineTyped, engine
<1>3. PollerTyped'  BY <1>0 DEF IInv, PollerTyped
<1>4. BodyFollows'  BY <1>0 DEF BodyFollows
<1>5. EngineFollows'  BY <1>0 DEF IInv, EngineFollows, hub, engine
<1>6. Silent'  BY <1>0 DEF IInv, Silent, hub, engine
<1> QED BY <1>1, <1>2, <1>3, <1>4, <1>5, <1>6 DEF IInv

\* The catalog of the mux: of another model the row is emptied.
LEMMA CatalogKeeps ==
  ASSUME IInv, Catalog
  PROVE  IInv'
<1>0. /\ pc = "catalog" /\ UNCHANGED <<engine, body, cycleAge, quiet, metricsMid, winbuf, ring, vlast>>
      /\ pc' = "rest" \/ (pc' = "metrics" /\ active # None /\ listed' = active)
      /\ live' = live \/ live' = None
      /\ row' = row \/ row' = NoRow
  BY DEF Catalog, hub
<1> USE DEF engine
<1>1. EngineTyped'  BY <1>0 DEF IInv, EngineTyped
<1>2. WindowsTyped'  BY <1>0 DEF IInv, WindowsTyped
<1>3. PollerTyped'  BY <1>0 DEF IInv, PollerTyped, EngineTyped
<1>4. Together'  
  <2>1. Together /\ winbuf' = winbuf /\ ring' = ring /\ metricsMid' = metricsMid /\ vlast' = vlast
    BY <1>0 DEF IInv
  <2> QED BY <1>0, <2>1 DEF Together, Last
<1>5. InWindowOrder'  BY <1>0 DEF IInv, InWindowOrder
<1>6. BodyFollows'  BY <1>0 DEF BodyFollows
<1>7. EngineFollows'  BY <1>0 DEF IInv, EngineFollows
<1>8. \A i : Hidden(i)' = Hidden(i)  BY <1>0 DEF Hidden
<1>9. OneProcess'
  <2>1. winbuf' = winbuf /\ OneProcess  BY <1>0 DEF IInv
  <2> QED BY <2>1, OneProcessStays
<1>10. NothingStraddles'  BY <1>0, <1>8 DEF IInv, NothingStraddles
<1>11. RowOfWindow'
  <2>1. NoRow.speed = None /\ NoRow.drift = None /\ NoRow.p50 = None  BY DEF NoRow
  <2> QED BY <1>0, <2>1 DEF IInv, RowOfWindow
<1>12. Silent'  BY <1>0 DEF IInv, Silent
<1> QED BY <1>1, <1>2, <1>3, <1>4, <1>5, <1>6, <1>7, <1>9, <1>10, <1>11, <1>12 DEF IInv

\* The metrics are read: the body follows every sample.
LEMMA MetricsKeeps ==
  ASSUME IInv, Metrics
  PROVE  IInv'
<1>0. /\ pc = "metrics" /\ UNCHANGED <<engine, hub, cycleAge, quiet>>
      /\ \/ /\ active # None /\ body' = Reading /\ pc' = "apply"
            /\ listed' = IF Mux THEN listed ELSE CHOOSE e \in Engines : TRUE
         \/ pc' = "rest"
  BY DEF Metrics
<1>1. WindowsTyped' /\ Together' /\ InWindowOrder' /\ OneProcess' /\ NothingStraddles' /\ RowOfWindow'
  BY <1>0, HubStays
<1> USE DEF engine
<1>2. EngineTyped'  BY <1>0 DEF IInv, EngineTyped
<1>3. Reading \in Readings
  <2>1. quiet \in Nat  BY AgesAreNumbers DEF IInv, EngineTyped
  <2> QED BY <2>1 DEF IInv, EngineTyped, Reading, Readings
<1>4. PollerTyped'
  <2>1. ASSUME active # None PROVE (CHOOSE e \in Engines : TRUE) \in Engines
    <3>1. active \in Engines  BY <2>1 DEF IInv, EngineTyped
    <3> QED BY <3>1
  <2> QED BY <1>0, <1>3, <2>1 DEF IInv, PollerTyped
<1>5. EngineFollows'  BY <1>0 DEF IInv, EngineFollows, hub
<1>6. BodyFollows'
  <2> SUFFICES ASSUME pc' = "apply"
               PROVE  /\ \A i \in 1..Len(winbuf) : Follows(winbuf[i].life, winbuf[i].count, body'.life, body'.count)
                      /\ Follows(body'.life, body'.count, life, count)
    BY <1>0 DEF BodyFollows, hub
  <2>1. body'.life = life /\ body'.count = count  BY <1>0 DEF Reading
  <2>2. Follows(life, count, life, count)  BY GrewRefl DEF IInv, EngineTyped, Follows
  <2> QED BY <2>1, <2>2 DEF IInv, EngineFollows
<1>7. Silent'
  <2>1. pc' = "apply" => body'.life = life /\ body'.count = count /\ body'.quiet = quiet
    BY <1>0 DEF Reading
  <2> QED BY <1>0, <2>1 DEF IInv, Silent, hub
<1> QED BY <1>1, <1>2, <1>4, <1>5, <1>6, <1>7 DEF IInv

\* What a sample is when it is applied.
LEMMA Applied ==
  ASSUME IInv, pc = "apply"
  PROVE  /\ body \in Readings /\ body.life \in Nat /\ body.count \in Counters /\ listed \in Engines
         /\ body.count.lc \in Nat /\ body.count.gen \in Nat /\ body.count.ttftn \in Nat
         /\ [count |-> body.count, life |-> body.life, mid |-> listed] \in Wins
         /\ Sample(body) \in Rings
<1>1. body \in Readings /\ listed \in Engines  BY DEF IInv, PollerTyped
<1>2. body.life \in Nat /\ body.count \in Counters  BY <1>1 DEF Readings
<1>3. body.count.lc \in Nat /\ body.count.gen \in Nat /\ body.count.ttftn \in Nat  BY <1>2 DEF Counters
<1>4. cycleAge \in Nat  BY AgesAreNumbers DEF IInv, EngineTyped
<1>5. [count |-> body.count, life |-> body.life, mid |-> listed] \in Wins  BY <1>1, <1>2 DEF Wins
<1>6. Sample(body) \in Rings  BY <1>1, <1>2, <1>3, <1>4 DEF Sample, Rings
<1> QED BY <1>1, <1>2, <1>3, <1>5, <1>6

\* Where the windows go on, the sample is of the same model, and counts no less: if
\* it is of another process nobody can tell.
LEMMA Boundary ==
  ASSUME IInv, pc = "apply", ~Cleared(body), winbuf # <<>>
  PROVE  /\ Last(winbuf).mid = listed /\ Last(winbuf).count.lc <= body.count.lc
         /\ Last(winbuf).life <= body.life
<1>1. /\ metricsMid = Last(winbuf).mid /\ Last(ring).lc = Last(winbuf).count.lc /\ ring # <<>>
  BY DEF IInv, Together
<1>2. Last(winbuf) = winbuf[Len(winbuf)] /\ Len(winbuf) \in 1..Len(winbuf) /\ Last(winbuf) \in Wins
      /\ Last(winbuf).count \in Counters
  BY Elements
<1>3. metricsMid # None
  <2>1. metricsMid \in Engines  BY <1>1, <1>2 DEF Wins
  <2> QED BY <2>1, WindowsAssumption
<1>4. ~Switched /\ ~Restarted(body)  BY DEF Cleared
<1>5. metricsMid = listed  BY <1>3, <1>4 DEF Switched
<1>6. ~(body.count.lc < Last(ring).lc)  BY <1>1, <1>4 DEF Restarted
<1>7. Last(winbuf).count.lc \in Nat /\ body.count.lc \in Nat  BY <1>2, Applied DEF Counters
<1>8. Last(winbuf).life <= body.life  BY <1>2 DEF IInv, BodyFollows, Follows
<1> QED BY <1>1, <1>5, <1>6, <1>7, <1>8

\* The window after a sample: the sample, after those it had unless it was cleared.
LEMMA AppliedWindow ==
  ASSUME IInv, Apply
  PROVE  LET n == Len(winbuf') IN
         /\ winbuf' \in Seq(Wins) /\ n \in Nat \ {0} /\ winbuf' # <<>>
         /\ winbuf'[n] = [count |-> body.count, life |-> body.life, mid |-> listed]
         /\ \E d \in {0, 1} :
              \A i \in 1..(n - 1) : /\ ~Cleared(body) /\ winbuf # <<>> /\ n - 1 + d = Len(winbuf)
                                    /\ i + d \in 1..Len(winbuf) /\ winbuf'[i] = winbuf[i + d]
<1> DEFINE old == IF Cleared(body) THEN <<>> ELSE winbuf
           x == [count |-> body.count, life |-> body.life, mid |-> listed]
           n == Len(winbuf')
<1>1. pc = "apply" /\ winbuf' = Pushed(old, x, WinSamples)  BY DEF Apply, BufferAfter
<1>2. x \in Wins /\ WinSamples \in Nat \ {0}  BY <1>1, Applied, WindowsAssumption
<1>3. winbuf \in Seq(Wins)  BY DEF IInv, WindowsTyped
<1>4. old \in Seq(Wins) /\ Len(old) \in Nat
  <2>1. old \in Seq(Wins)  BY <1>3, EmptySeq
  <2> QED BY <2>1, LenProperties
<1>5. Cleared(body) => Len(old) = 0  BY EmptySeq
<1>6. ~Cleared(body) => old = winbuf  OBVIOUS
<1> HIDE DEF old, x
<1>7. /\ winbuf' \in Seq(Wins) /\ n \in Nat \ {0} /\ winbuf' # <<>> /\ winbuf'[n] = x
      /\ \E d \in {0, 1} : /\ n + d = Len(old) + 1
                           /\ \A i \in 1..(n - 1) : i + d \in 1..Len(old) /\ winbuf'[i] = old[i + d]
  BY <1>1, <1>2, <1>4, PushedIs
<1>8. PICK d \in {0, 1} : /\ n + d = Len(old) + 1
                          /\ \A i \in 1..(n - 1) : i + d \in 1..Len(old) /\ winbuf'[i] = old[i + d]
  BY <1>7
<1>9. ASSUME NEW i \in 1..(n - 1)
      PROVE  /\ ~Cleared(body) /\ winbuf # <<>> /\ n - 1 + d = Len(winbuf)
             /\ i + d \in 1..Len(winbuf) /\ winbuf'[i] = winbuf[i + d]
  <2>1. i + d \in 1..Len(old)  BY <1>8
  <2>2. ~Cleared(body)  BY <1>4, <1>5, <1>8, <2>1
  <2>3. old = winbuf  BY <1>6, <2>2
  <2>4. winbuf # <<>>  BY <1>4, <2>1, <2>3, EmptySeq
  <2>5. n - 1 + d = Len(winbuf)  BY <1>7, <1>8, <2>3, <1>4
  <2> QED BY <1>8, <2>1, <2>2, <2>3, <2>4, <2>5
<1> QED BY <1>7, <1>8, <1>9 DEF x

\* The same of the ring, which a gap clears as well.
LEMMA AppliedRing ==
  ASSUME IInv, Apply
  PROVE  LET n == Len(ring') IN
         /\ ring' \in Seq(Rings) /\ n \in Nat \ {0} /\ ring' # <<>> /\ ring'[n] = Sample(body)
         /\ \E d \in {0, 1} :
              \A i \in 1..(n - 1) : /\ ~Cleared(body) /\ ring # <<>> /\ n - 1 + d = Len(ring)
                                    /\ i + d \in 1..Len(ring) /\ ring'[i] = ring[i + d]
<1> DEFINE old == IF Cleared(body) \/ (ring # <<>> /\ Then(Last(ring).t) > RingGap) THEN <<>> ELSE ring
           x == Sample(body)
           n == Len(ring')
<1>1. pc = "apply" /\ ring' = Pushed(old, x, RingSamples)  BY DEF Apply, RingAfter
<1>2. x \in Rings /\ RingSamples \in Nat \ {0}  BY <1>1, Applied, WindowsAssumption
<1>3. ring \in Seq(Rings)  BY DEF IInv, WindowsTyped
<1>4. old \in Seq(Rings) /\ Len(old) \in Nat
  <2>1. old \in Seq(Rings)  BY <1>3, EmptySeq
  <2> QED BY <2>1, LenProperties
<1>5. old = <<>> \/ (~Cleared(body) /\ old = ring)  BY Zenon
<1> HIDE DEF old, x
<1>6. Len(<<>>) = 0  BY EmptySeq
<1>7. /\ ring' \in Seq(Rings) /\ n \in Nat \ {0} /\ ring' # <<>> /\ ring'[n] = x
      /\ \E d \in {0, 1} : /\ n + d = Len(old) + 1
                           /\ \A i \in 1..(n - 1) : i + d \in 1..Len(old) /\ ring'[i] = old[i + d]
  BY <1>1, <1>2, <1>4, PushedIs
<1>8. PICK d \in {0, 1} : /\ n + d = Len(old) + 1
                          /\ \A i \in 1..(n - 1) : i + d \in 1..Len(old) /\ ring'[i] = old[i + d]
  BY <1>7
<1>9. ASSUME NEW i \in 1..(n - 1)
      PROVE  /\ ~Cleared(body) /\ ring # <<>> /\ n - 1 + d = Len(ring)
             /\ i + d \in 1..Len(ring) /\ ring'[i] = ring[i + d]
  <2>1. i + d \in 1..Len(old)  BY <1>8
  <2>2. old # <<>>  BY <1>4, <1>6, <2>1
  <2>3. ~Cleared(body) /\ old = ring  BY <1>5, <2>2
  <2>4. n - 1 + d = Len(ring)  BY <1>7, <1>8, <2>3, <1>4
  <2> QED BY <1>8, <2>1, <2>2, <2>3, <2>4
<1> QED BY <1>7, <1>8, <1>9 DEF x

\* The samples stay in order.
LEMMA ApplyOrder ==
  ASSUME IInv, Apply
  PROVE  InWindowOrder' /\ EngineFollows'
<1> DEFINE n == Len(winbuf')
           x == [count |-> body.count, life |-> body.life, mid |-> listed]
<1>0. pc = "apply" /\ life' = life /\ count' = count  BY DEF Apply, engine
<1>1. n \in Nat \ {0} /\ winbuf'[n] = x /\ x.life = body.life /\ x.count = body.count  BY AppliedWindow
<1>2. PICK d \in {0, 1} :
        \A i \in 1..(n - 1) : /\ ~Cleared(body) /\ winbuf # <<>> /\ n - 1 + d = Len(winbuf)
                              /\ i + d \in 1..Len(winbuf) /\ winbuf'[i] = winbuf[i + d]
  BY AppliedWindow
<1>3. body.life \in Nat /\ body.count \in Counters  BY <1>0, Applied
<1> HIDE DEF n, x
<1>4. ASSUME NEW i \in 1..n, NEW j \in 1..n, i <= j
      PROVE  Follows(winbuf'[i].life, winbuf'[i].count, winbuf'[j].life, winbuf'[j].count)
  <2>1. CASE j # n
    <3>1. i \in 1..(n - 1) /\ j \in 1..(n - 1)  BY <1>1, <1>4, <2>1
    <3>2. i + d \in 1..Len(winbuf) /\ j + d \in 1..Len(winbuf) /\ i + d <= j + d
      BY <1>2, <1>4, <3>1
    <3>3. Follows(winbuf[i + d].life, winbuf[i + d].count, winbuf[j + d].life, winbuf[j + d].count)
      BY <3>2 DEF IInv, InWindowOrder
    <3> QED BY <1>2, <3>1, <3>3
  <2>2. CASE j = n /\ i # n
    <3>1. i \in 1..(n - 1)  BY <1>1, <1>4, <2>2
    <3>2. Follows(winbuf[i + d].life, winbuf[i + d].count, body.life, body.count)
      BY <1>0, <1>2, <3>1 DEF IInv, BodyFollows
    <3> QED BY <1>1, <1>2, <2>2, <3>1, <3>2
  <2>3. CASE j = n /\ i = n
    <3>1. Follows(body.life, body.count, body.life, body.count)  BY <1>3, GrewRefl DEF Follows
    <3> QED BY <1>1, <2>3, <3>1
  <2> QED BY <2>1, <2>2, <2>3
<1>5. InWindowOrder'  BY <1>4 DEF InWindowOrder, n
<1>6. ASSUME NEW i \in 1..n
      PROVE  Follows(winbuf'[i].life, winbuf'[i].count, life, count)
  <2>1. CASE i # n
    <3>1. i \in 1..(n - 1)  BY <1>1, <2>1
    <3>2. Follows(winbuf[i + d].life, winbuf[i + d].count, life, count)
      BY <1>2, <3>1 DEF IInv, EngineFollows
    <3> QED BY <1>2, <3>1, <3>2
  <2>2. CASE i = n
    <3>1. Follows(body.life, body.count, life, count)  BY <1>0 DEF IInv, BodyFollows
    <3> QED BY <1>1, <2>2, <3>1
  <2> QED BY <2>1, <2>2
<1>7. EngineFollows'  BY <1>0, <1>6 DEF EngineFollows, n
<1> QED BY <1>5, <1>7

\* Two samples beside each other in the window that are of two processes are the
\* last one and the new one, if they were not before.
LEMMA NewPair ==
  ASSUME IInv, Apply, NEW m, m = Len(winbuf') - 1, m >= 1
  PROVE  winbuf'[m].life = winbuf'[m + 1].life \/ Hidden(m)'
<1> DEFINE n == Len(winbuf')
           x == [count |-> body.count, life |-> body.life, mid |-> listed]
<1>0. pc = "apply"  BY DEF Apply
<1>1. n \in Nat \ {0} /\ winbuf'[n] = x /\ x.life = body.life /\ x.count = body.count /\ x.mid = listed
  BY AppliedWindow
<1>2. PICK d \in {0, 1} :
        \A i \in 1..(n - 1) : /\ ~Cleared(body) /\ winbuf # <<>> /\ n - 1 + d = Len(winbuf)
                              /\ i + d \in 1..Len(winbuf) /\ winbuf'[i] = winbuf[i + d]
  BY AppliedWindow
<1> HIDE DEF x
<1>3. m \in 1..(n - 1) /\ m + 1 = n  BY <1>1
<1>4. ~Cleared(body) /\ winbuf # <<>> /\ winbuf'[m] = winbuf[Len(winbuf)]  BY <1>2, <1>3
<1>5. winbuf'[m] = Last(winbuf)  BY <1>4, Elements
<1>6. Last(winbuf).mid = listed /\ Last(winbuf).count.lc <= body.count.lc  BY <1>0, <1>4, Boundary
<1>7. winbuf'[m + 1] = x  BY <1>1, <1>3
<1>8. winbuf'[m].mid = winbuf'[m + 1].mid /\ winbuf'[m].count.lc <= winbuf'[m + 1].count.lc
  BY <1>1, <1>5, <1>6, <1>7
<1> QED BY <1>8 DEF Hidden

\* A pair that was in the window is what it was.
LEMMA OldPair ==
  ASSUME IInv, NEW i \in Int, NEW e \in Int, winbuf'[i] = winbuf[e], winbuf'[i + 1] = winbuf[e + 1]
  PROVE  Hidden(i)' <=> Hidden(e)
  BY DEF Hidden

\* A window that goes on is of one process as before, and the sample of it or hidden.
LEMMA ApplyOneProcess ==
  ASSUME IInv, Apply
  PROVE  OneProcess'
<1>1. PICK n \in Nat \ {0} : n = Len(winbuf')  BY AppliedWindow
<1>2. PICK d \in {0, 1} :
        \A i \in 1..(n - 1) : /\ ~Cleared(body) /\ winbuf # <<>> /\ n - 1 + d = Len(winbuf)
                              /\ i + d \in 1..Len(winbuf) /\ winbuf'[i] = winbuf[i + d]
  BY <1>1, AppliedWindow
<1> SUFFICES ASSUME NEW k \in 1..n
             PROVE  \/ \E i \in k..(n - 1) : Hidden(i)'
                    \/ \A i, j \in k..n : winbuf'[i].life = winbuf'[j].life
  BY <1>1 DEF OneProcess
<1>3. CASE k = n
  <2>1. \A i \in k..n : i = n  BY <1>1, <1>3
  <2> QED BY <2>1
<1>4. CASE k # n
  <2>1. k \in 1..(n - 1) /\ n - 1 \in 1..(n - 1)  BY <1>1, <1>4
  <2>2. n - 1 + d = Len(winbuf) /\ k + d \in 1..Len(winbuf)  BY <1>2, <2>1
  <2>3. CASE \E e \in (k + d)..(Len(winbuf) - 1) : Hidden(e)
    <3>1. PICK e \in (k + d)..(Len(winbuf) - 1) : Hidden(e)  BY <2>3
    <3>2. e - d \in k..(n - 1) /\ e - d + 1 \in 1..(n - 1) /\ e - d \in 1..(n - 1)
          /\ (e - d) + d = e /\ (e - d + 1) + d = e + 1
      BY <1>1, <2>1, <2>2, <3>1
    <3>3. winbuf'[e - d] = winbuf[e] /\ winbuf'[e - d + 1] = winbuf[e + 1]  BY <1>2, <3>2
    <3>4. Hidden(e - d)'
      <4>1. PICK i \in Int : i = e - d  BY <3>2
      <4>2. e \in Int /\ winbuf'[i] = winbuf[e] /\ winbuf'[i + 1] = winbuf[e + 1]  BY <3>2, <3>3, <4>1
      <4>3. Hidden(i)'  BY <3>1, <4>2, OldPair
      <4> QED BY <4>1, <4>3
    <3> QED BY <3>2, <3>4
  <2>4. CASE \A i, j \in (k + d)..Len(winbuf) : winbuf[i].life = winbuf[j].life
    <3>1. ASSUME NEW i \in k..(n - 1)
          PROVE  winbuf'[i].life = winbuf'[n - 1].life
      <4>1. i \in 1..(n - 1) /\ i + d \in (k + d)..Len(winbuf) /\ (n - 1) + d \in (k + d)..Len(winbuf)
        BY <1>1, <2>1, <2>2
      <4>2. winbuf'[i] = winbuf[i + d] /\ winbuf'[n - 1] = winbuf[(n - 1) + d]  BY <1>2, <2>1, <4>1
      <4>3. winbuf[i + d].life = winbuf[(n - 1) + d].life  BY <2>4, <4>1
      <4> QED BY <4>2, <4>3
    <3>2. winbuf'[n - 1].life = winbuf'[n].life \/ Hidden(n - 1)'
      <4>1. PICK m \in Nat : m = n - 1  BY <1>1
      <4>2. m = Len(winbuf') - 1 /\ m >= 1 /\ m + 1 = n  BY <1>1, <2>1, <4>1
      <4>3. winbuf'[m].life = winbuf'[m + 1].life \/ Hidden(m)'  BY <4>2, NewPair
      <4> QED BY <4>1, <4>2, <4>3
    <3>3. CASE Hidden(n - 1)'
      <4>1. PICK i \in k..(n - 1) : i = n - 1  BY <2>1, <1>1
      <4>2. Hidden(i)'  BY <3>3, <4>1
      <4> QED BY <4>2
    <3>4. CASE winbuf'[n - 1].life = winbuf'[n].life
      <4>1. \A i \in k..n : winbuf'[i].life = winbuf'[n].life
        <5>1. \A i \in k..n : i = n \/ i \in k..(n - 1)  BY <1>1, <2>1
        <5> QED BY <3>1, <3>4, <5>1
      <4> QED BY <4>1
    <3> QED BY <3>2, <3>3, <3>4
  <2> QED BY <2>2, <2>3, <2>4 DEF IInv, OneProcess
<1> QED BY <1>3, <1>4

\* So it is pair by pair, in the window and in the ring.
LEMMA ApplyStraddlesNothing ==
  ASSUME IInv, Apply
  PROVE  NothingStraddles'
<1>0. pc = "apply"  BY DEF Apply
<1>1. ASSUME NEW i \in 1..(Len(winbuf') - 1)
      PROVE  winbuf'[i].life = winbuf'[i + 1].life \/ Hidden(i)'
  <2> DEFINE n == Len(winbuf')
  <2>1. n \in Nat \ {0}  BY AppliedWindow
  <2>2. PICK d \in {0, 1} :
          \A j \in 1..(n - 1) : /\ ~Cleared(body) /\ winbuf # <<>> /\ n - 1 + d = Len(winbuf)
                                /\ j + d \in 1..Len(winbuf) /\ winbuf'[j] = winbuf[j + d]
    BY AppliedWindow
  <2>3. CASE i = n - 1  BY <2>1, <2>3, NewPair
  <2>4. CASE i # n - 1
    <3> DEFINE e == i + d
    <3>1. i \in 1..(n - 1) /\ i + 1 \in 1..(n - 1)  BY <2>1, <2>4
    <3>2. n - 1 + d = Len(winbuf) /\ winbuf'[i] = winbuf[i + d] /\ winbuf'[i + 1] = winbuf[(i + 1) + d]
      BY <2>2, <3>1
    <3>3. e \in 1..(Len(winbuf) - 1) /\ e + 1 = (i + 1) + d  BY <2>1, <3>1, <3>2
    <3> HIDE DEF n
    <3>4. winbuf'[i] = winbuf[e] /\ winbuf'[i + 1] = winbuf[e + 1]  BY <3>2, <3>3
    <3>5. i \in Int /\ e \in Int  BY <3>3
    <3> HIDE DEF e
    <3>6. winbuf[e].life = winbuf[e + 1].life \/ Hidden(e)  BY <3>3 DEF IInv, NothingStraddles
    <3>7. Hidden(i)' <=> Hidden(e)  BY <3>4, <3>5, OldPair
    <3> QED BY <3>4, <3>6, <3>7
  <2> QED BY <2>3, <2>4
<1>2. ASSUME NEW i \in 1..(Len(ring') - 1), ring'[i].life # ring'[i + 1].life
      PROVE  ring'[i].lc <= ring'[i + 1].lc /\ ring'[i].mid = ring'[i + 1].mid
  <2> DEFINE n == Len(ring')
  <2>1. n \in Nat \ {0} /\ ring'[n] = Sample(body)  BY AppliedRing
  <2>2. PICK d \in {0, 1} :
          \A j \in 1..(n - 1) : /\ ~Cleared(body) /\ ring # <<>> /\ n - 1 + d = Len(ring)
                                /\ j + d \in 1..Len(ring) /\ ring'[j] = ring[j + d]
    BY AppliedRing
  <2>3. CASE i = n - 1
    <3>1. i \in 1..(n - 1) /\ i + 1 = n  BY <2>1, <2>3
    <3> HIDE DEF n
    <3>2. ~Cleared(body) /\ ring # <<>> /\ i + d = Len(ring) /\ ring'[i] = ring[i + d]
      BY <2>2, <2>3, <3>1
    <3>3. ring'[i] = Last(ring)  BY <3>2 DEF Last
    <3>4. winbuf # <<>> /\ Last(ring).lc = Last(winbuf).count.lc /\ Last(ring).mid = Last(winbuf).mid
      BY <3>2 DEF IInv, Together
    <3>5. Last(winbuf).mid = listed /\ Last(winbuf).count.lc <= body.count.lc
      BY <1>0, <3>2, <3>4, Boundary
    <3>6. ring'[i + 1].lc = body.count.lc /\ ring'[i + 1].mid = listed  BY <2>1, <3>1 DEF Sample
    <3> QED BY <3>3, <3>4, <3>5, <3>6
  <2>4. CASE i # n - 1
    <3> DEFINE e == i + d
    <3>1. i \in 1..(n - 1) /\ i + 1 \in 1..(n - 1)  BY <2>1, <2>4
    <3> HIDE DEF n
    <3>2. n - 1 + d = Len(ring) /\ ring'[i] = ring[i + d] /\ ring'[i + 1] = ring[(i + 1) + d]
      BY <2>2, <3>1
    <3>3. e \in 1..(Len(ring) - 1) /\ e + 1 = (i + 1) + d  BY <2>1, <3>1, <3>2
    <3>4. ring'[i] = ring[e] /\ ring'[i + 1] = ring[e + 1]  BY <3>2, <3>3
    <3> HIDE DEF e
    <3> QED BY <1>2, <3>3, <3>4 DEF IInv, NothingStraddles
  <2> QED BY <2>3, <2>4
<1> QED BY <1>1, <1>2 DEF NothingStraddles

\* The timer after a sample is new, or was kept because no token came.
LEMMA ApplyTimer ==
  ASSUME IInv, Apply, live' # None
  PROVE  \/ live' = [age |-> cycleAge, life |-> body.life]
         \/ live' = live /\ ~Cleared(body) /\ winbuf # <<>> /\ vlast.gen = body.count.gen
<1> DEFINE v == IF Cleared(body) THEN None ELSE vlast
           moved == v # None /\ (v.gen # body.count.gen \/ v.ttftn # body.count.ttftn)
<1>1. live' = IF ~body.busy \/ moved THEN None
              ELSE IF Cleared(body) \/ live = None THEN [age |-> cycleAge, life |-> body.life] ELSE live
  BY DEF Apply, LiveAfter
<1>2. ~moved  BY <1>1
<1>3. CASE Cleared(body) \/ live = None  BY <1>1, <1>3
<1>4. CASE ~Cleared(body) /\ live # None
  <2>1. live' = live  BY <1>1, <1>4
  <2>2. winbuf # <<>> /\ vlast # None  BY <1>4 DEF IInv, Together
  <2>3. v = vlast  BY <1>4
  <2> QED BY <1>2, <1>4, <2>1, <2>2, <2>3
<1> QED BY <1>3, <1>4

\* The timer is never of a later process than the sample.
LEMMA ApplyTimerTyped ==
  ASSUME IInv, Apply, live' # None
  PROVE  live' \in [age : Ages, life : Nat] /\ live'.life <= body.life
<1>0. pc = "apply"  BY DEF Apply
<1>1. body.life \in Nat  BY <1>0, Applied
<1>2. CASE live' = [age |-> cycleAge, life |-> body.life]
  <2>1. cycleAge \in Ages
    <3>1. cycleAge \in 0..MaxCycle  BY DEF IInv, EngineTyped
    <3> QED BY <3>1, AgesAreNumbers DEF Ages
  <2> QED BY <1>1, <1>2, <2>1
<1>3. CASE live' = live /\ ~Cleared(body) /\ winbuf # <<>>
  <2>1. live \in [age : Ages, life : Nat]  BY <1>3 DEF IInv, WindowsTyped
  <2>2. live.life <= Last(winbuf).life  BY <1>3 DEF IInv, Together
  <2>3. Last(winbuf).life <= body.life  BY <1>0, <1>3, Boundary
  <2>4. Last(winbuf).life \in Nat  BY <1>3, Elements
  <2> QED BY <1>1, <1>3, <2>1, <2>2, <2>3, <2>4
<1> QED BY <1>2, <1>3, ApplyTimer

\* The windows and what the hub remembers end with the sample.
LEMMA ApplyTogether ==
  ASSUME IInv, Apply
  PROVE  WindowsTyped' /\ Together'
<1>0. pc = "apply" /\ metricsMid' = listed /\ vlast' = [gen |-> body.count.gen, ttftn |-> body.count.ttftn]
  BY DEF Apply
<1>1. listed \in Engines /\ body.count.gen \in Nat /\ body.count.ttftn \in Nat  BY <1>0, Applied
<1>2. /\ winbuf' \in Seq(Wins) /\ winbuf' # <<>>
      /\ winbuf'[Len(winbuf')] = [count |-> body.count, life |-> body.life, mid |-> listed]
  BY AppliedWindow
<1>3. ring' \in Seq(Rings) /\ ring' # <<>> /\ ring'[Len(ring')] = Sample(body)  BY AppliedRing
<1>4. WindowsTyped'  BY <1>0, <1>1, <1>2, <1>3, ApplyTimerTyped DEF WindowsTyped
<1>5. vlast' # None  BY <1>0, <1>1, WindowsAssumption
<1>6. Together'
  <2>1. /\ Last(winbuf)'.mid = listed /\ Last(winbuf)'.life = body.life /\ Last(winbuf)'.count = body.count
        /\ Last(ring)'.mid = listed /\ Last(ring)'.life = body.life /\ Last(ring)'.lc = body.count.lc
    BY <1>2, <1>3 DEF Last, Sample
  <2> QED BY <1>0, <1>2, <1>3, <1>5, <2>1, ApplyTimerTyped DEF Together
<1> QED BY <1>4, <1>6

\* The timer is no older than the silence.
LEMMA ApplySilent ==
  ASSUME IInv, Apply
  PROVE  Silent'
<1>0. /\ pc = "apply" /\ pc' = "rest" /\ UNCHANGED <<engine, cycleAge, quiet>>
      /\ vlast' = [gen |-> body.count.gen, ttftn |-> body.count.ttftn]
  BY DEF Apply
<1> SUFFICES ASSUME live' # None, live'.life = life', vlast'.gen = count'.gen
             PROVE  live'.age <= quiet' + MaxCycle
  BY <1>0 DEF Silent
<1>1. quiet \in Nat /\ MaxCycle \in Nat /\ cycleAge \in 0..MaxCycle
  BY AgesAreNumbers DEF IInv, EngineTyped
<1>2. CASE live' = [age |-> cycleAge, life |-> body.life]  BY <1>0, <1>1, <1>2
<1>3. CASE live' = live /\ vlast.gen = body.count.gen
  <2>1. live # None /\ live.life = life /\ vlast.gen = count.gen  BY <1>0, <1>3 DEF engine
  <2>2. live.age <= quiet + MaxCycle  BY <2>1 DEF IInv, Silent
  <2> QED BY <1>0, <1>3, <2>2
<1> QED BY <1>2, <1>3, ApplyTimer

\* A sample is applied.
LEMMA ApplyKeeps ==
  ASSUME IInv, Apply
  PROVE  IInv'
<1>0. pc' = "rest" /\ UNCHANGED <<engine, cycleAge, quiet>> /\ winbuf' = BufferAfter(body) /\ row' = RowAfter(body)
  BY DEF Apply
<1>1. EngineTyped'  BY <1>0 DEF IInv, EngineTyped, engine
<1>2. PollerTyped'  BY <1>0 DEF PollerTyped
<1>3. BodyFollows'  BY <1>0 DEF BodyFollows
<1>4. RowOfWindow'
  <2>1. /\ row'.speed = PrefillSpeed(winbuf')
        /\ row'.p50 = QuantileOf(winbuf', 50) /\ row'.p95 = QuantileOf(winbuf', 95)
        /\ row'.hits = PromptWork(winbuf').hits /\ row'.drift = PromptWork(winbuf').drift
    BY <1>0 DEF RowAfter
  <2> QED BY <2>1 DEF RowOfWindow, PrefillSpeed, PromptWork, Last
<1> QED BY <1>1, <1>2, <1>3, <1>4, ApplyTogether, ApplyOrder, ApplyOneProcess, ApplyStraddlesNothing, ApplySilent
        DEF IInv
-----------------------------------------------------------------------------
(* The theorems.                                                           *)

\* It holds at the start.
LEMMA InitKeeps == Init => IInv
<1> SUFFICES ASSUME Init PROVE IInv  OBVIOUS
<1>0. /\ active \in Engines /\ life = 1 /\ count = Zero /\ request = None
      /\ metricsMid = None /\ winbuf = <<>> /\ ring = <<>> /\ live = None /\ vlast = None /\ row = NoRow
      /\ pc = "rest" /\ cycleAge = 0 /\ quiet = 0
  BY DEF Init
<1>1. EngineTyped
  <2>1. Zero \in Counters  BY DEF Zero, Counters
  <2>2. 0 \in Ages /\ 0 \in 0..MaxCycle  BY AgesAreNumbers DEF Ages
  <2> QED BY <1>0, <2>1, <2>2 DEF EngineTyped
<1>2. Len(<<>>) = 0 /\ <<>> \in Seq(Wins) /\ <<>> \in Seq(Rings)  BY EmptySeq
<1>3. WindowsTyped  BY <1>0, <1>2 DEF WindowsTyped
<1>4. PollerTyped  BY <1>0 DEF PollerTyped
<1>5. Together  BY <1>0 DEF Together
<1>6. InWindowOrder /\ BodyFollows /\ EngineFollows /\ OneProcess
  BY <1>0, <1>2 DEF InWindowOrder, BodyFollows, EngineFollows, OneProcess
<1>7. NothingStraddles  BY <1>0, <1>2 DEF NothingStraddles
<1>8. RowOfWindow  BY <1>0 DEF NoRow, RowOfWindow
<1>9. Silent  BY <1>0 DEF Silent
<1> QED BY <1>1, <1>3, <1>4, <1>5, <1>6, <1>7, <1>8, <1>9 DEF IInv

\* A step that changes nothing.
LEMMA StutterKeeps ==
  ASSUME IInv, UNCHANGED vars
  PROVE  IInv'
<1>0. UNCHANGED hub /\ UNCHANGED engine /\ UNCHANGED poller /\ quiet' = quiet  BY DEF vars
<1>1. WindowsTyped' /\ Together' /\ InWindowOrder' /\ OneProcess' /\ NothingStraddles' /\ RowOfWindow'
  BY <1>0, HubStays
<1> USE <1>0 DEF engine, poller
<1>2. EngineTyped'  BY DEF IInv, EngineTyped
<1>3. PollerTyped'  BY DEF IInv, PollerTyped
<1>4. BodyFollows'  BY DEF IInv, BodyFollows, hub
<1>5. EngineFollows'  BY DEF IInv, EngineFollows, hub
<1>6. Silent'  BY DEF IInv, Silent, hub
<1> QED BY <1>1, <1>2, <1>3, <1>4, <1>5, <1>6 DEF IInv

\* In every state the samples of the windows follow each other, the body under way
\* them and the engine all; a window is of one process from each sample on, unless
\* the change is hidden; and the timer is no older than the silence, but for a cycle.
THEOREM WindowsInvariant == Spec => []IInv
<1>1. Init => IInv  BY InitKeeps
<1>2. IInv /\ [Next]_vars => IInv'
  <2> SUFFICES ASSUME IInv, [Next]_vars PROVE IInv'  OBVIOUS
  <2>1. CASE Serve
    BY <2>1, ArriveKeeps, FirstTokenKeeps, FinishKeeps, AbortKeeps, StopKeeps, StartKeeps DEF Serve
  <2>2. CASE Tick  BY <2>2, TickKeeps
  <2>3. CASE Poll  BY <2>3, BeginKeeps, CatalogKeeps, MetricsKeeps, ApplyKeeps DEF Poll
  <2>4. CASE UNCHANGED vars  BY <2>4, StutterKeeps
  <2> QED BY <2>1, <2>2, <2>3, <2>4 DEF Next
<1> QED BY <1>1, <1>2, PTL DEF Spec

\* "no queue, rate or age may straddle two engines" (_apply_vllm_metrics): two samples
\* beside each other are of one process, or of two between which no reader of the
\* counters could tell.
THEOREM WindowsStraddleNothing == Spec => []NothingStraddles
<1>1. IInv => NothingStraddles  BY DEF IInv
<1> QED BY <1>1, WindowsInvariant, PTL

\* A window in which nothing is hidden is of one process, which counted on.
LEMMA WholeWindow ==
  ASSUME IInv, ~Undetected, ~(Len(winbuf) < 2)
  PROVE  /\ winbuf[1].count \in Counters /\ Last(winbuf).count \in Counters
         /\ Grew(winbuf[1].count, Last(winbuf).count)
<1> DEFINE n == Len(winbuf)
<1>1. n \in Nat /\ 1 \in 1..n /\ n \in 1..n  BY Elements
<1>2. Last(winbuf) = winbuf[n]  BY DEF Last
<1>3. \A i \in 1..(n - 1) : ~Hidden(i)  BY DEF Undetected
<1>4. winbuf[1].life = winbuf[n].life
  <2>1. OneProcess  BY DEF IInv
  <2>2. \/ \E i \in 1..(n - 1) : Hidden(i)
        \/ \A i, j \in 1..n : winbuf[i].life = winbuf[j].life
    BY <1>1, <2>1 DEF OneProcess
  <2> QED BY <1>1, <1>3, <2>2
<1>5. Follows(winbuf[1].life, winbuf[1].count, winbuf[n].life, winbuf[n].count)
  BY <1>1 DEF IInv, InWindowOrder
<1>6. winbuf[1].count \in Counters /\ winbuf[n].count \in Counters  BY <1>1, Elements
<1> QED BY <1>2, <1>4, <1>5, <1>6 DEF Follows

\* "the physical number" (_apply_vllm_metrics): the speed shown is at least that of some
\* prompt, and at most that of some prompt.
THEOREM SpeedStaysPhysical == Spec => []SpeedIsPhysical
<1>1. IInv => SpeedIsPhysical
  <2> SUFFICES ASSUME IInv, row.speed # None, ~Undetected
               PROVE  /\ \E p \in Prompts : (10 * p.n) \div p.k <= row.speed
                      /\ \E p \in Prompts : row.speed * p.k <= 10 * p.n
    BY DEF SpeedIsPhysical
  <2> DEFINE c == winbuf[1].count
             d == Last(winbuf).count
             n == Delta(c.pfkv, d.pfkv)
             k == Delta(c.prefill, d.prefill)
  <2>1. row.speed = PrefillSpeed(winbuf)  BY DEF IInv, RowOfWindow
  <2>2. ~(Len(winbuf) < 2) /\ n # None /\ k # None /\ k # 0 /\ row.speed = (10 * n) \div k
    BY <2>1 DEF PrefillSpeed
  <2>3. c \in Counters /\ d \in Counters /\ Grew(c, d)  BY <2>2, WholeWindow
  <2>4. n = d.pfkv - c.pfkv /\ k = d.prefill - c.prefill  BY <2>2 DEF Delta
  <2>5. Mixed(Rates, n, k)  BY <2>3, <2>4 DEF Grew
  <2> HIDE DEF n, k
  <2>6. /\ \E r \in Rates : (10 * r[1]) \div r[2] <= (10 * n) \div k
        /\ \E r \in Rates : ((10 * n) \div k) * r[2] <= 10 * r[1]
    BY <2>2, <2>5, RatiosAreRatios, MixedQuotient
  <2>7. \A r \in Rates : \E p \in Prompts : r[1] = p.n /\ r[2] = p.k  BY DEF Rates
  <2>8. \E p \in Prompts : (10 * p.n) \div p.k <= row.speed
    <3>1. PICK r \in Rates : (10 * r[1]) \div r[2] <= (10 * n) \div k  BY <2>6
    <3>2. PICK p \in Prompts : r[1] = p.n /\ r[2] = p.k  BY <2>7
    <3> QED BY <2>2, <3>1, <3>2
  <2>9. \E p \in Prompts : row.speed * p.k <= 10 * p.n
    <3>1. PICK r \in Rates : ((10 * n) \div k) * r[2] <= 10 * r[1]  BY <2>6
    <3>2. PICK p \in Prompts : r[1] = p.n /\ r[2] = p.k  BY <2>7
    <3> QED BY <2>2, <3>1, <3>2
  <2> QED BY <2>8, <2>9
<1> QED BY <1>1, WindowsInvariant, PTL

\* The breakdown of the prompts adds up, and the share of the cache is between those of
\* two prompts (prompt_work): no switch and no restart is taken for a drift.
THEOREM WorkStaysWhole == Spec => []WorkAddsUp
<1>1. IInv => WorkAddsUp
  <2> SUFFICES ASSUME IInv, row.drift # None, ~Undetected
               PROVE  /\ row.drift = 0
                      /\ \E p \in Prompts : Share(p) <= row.hits
                      /\ \E p \in Prompts : row.hits <= Share(p)
    BY DEF WorkAddsUp
  <2> DEFINE c == winbuf[1].count
             d == Last(winbuf).count
             pt == Delta(c.pt, d.pt)
             lc == Delta(c.lc, d.lc)
             lh == Delta(c.lh, d.lh)
             served == IF lh = None THEN 0 ELSE lh
             rest == pt - lc - served
             all == [hits |-> (100 * served) \div pt,
                     drift |-> IF 50 * rest > pt \/ 50 * rest < -pt THEN 1 ELSE 0]
  <2>1. row.hits = PromptWork(winbuf).hits /\ row.drift = PromptWork(winbuf).drift
    BY DEF IInv, RowOfWindow
  <2>2. PromptWork(winbuf) =
          IF Len(winbuf) < 2 \/ None \in {pt, lc} \/ pt = 0 THEN NoWork ELSE all
    BY DEF PromptWork
  <2> HIDE DEF all
  <2>3. ~(Len(winbuf) < 2) /\ pt # None /\ lc # None /\ pt # 0 /\ PromptWork(winbuf) = all
    <3> HIDE DEF pt, lc
    <3>1. NoWork.drift = None  BY DEF NoWork
    <3>2. PromptWork(winbuf) # NoWork  BY <2>1, <3>1
    <3> QED BY <2>2, <3>2
  <2>4. c \in Counters /\ d \in Counters /\ Grew(c, d)  BY <2>3, WholeWindow
  <2>5. c.lh \in Nat /\ d.lh \in Nat /\ c.lc \in Nat /\ d.lc \in Nat /\ c.pt \in Nat /\ d.pt \in Nat
    BY <2>4 DEF Counters
  <2>6. pt = d.pt - c.pt /\ lc = d.lc - c.lc  BY <2>3 DEF Delta
  <2>7. lh = d.lh - c.lh /\ lh \in Nat  BY <2>4, <2>5 DEF Delta, Grew
  <2>8. served = lh  BY <2>7, WindowsAssumption
  <2>9. pt = lc + lh /\ lc \in Nat /\ Mixed(Shares, lh, pt)  BY <2>4, <2>5, <2>6, <2>7 DEF Grew
  <2>10. row.hits = (100 * lh) \div pt /\ row.drift = IF 50 * rest > pt \/ 50 * rest < -pt THEN 1 ELSE 0
    BY <2>1, <2>3, <2>8 DEF all
  <2> HIDE DEF pt, lc, lh, served
  <2>11. rest = 0  BY <2>7, <2>8, <2>9
  <2> HIDE DEF rest
  <2>12. row.drift = 0  BY <2>7, <2>9, <2>10, <2>11
  <2>13. /\ \E r \in Shares : (100 * r[1]) \div r[2] <= (100 * lh) \div pt
         /\ \E r \in Shares : (100 * lh) \div pt <= (100 * r[1]) \div r[2]
    <3>1. pt # 0 /\ 100 \in Nat /\ \A r \in Shares : r[1] \in Nat /\ r[2] \in Nat \ {0}
      BY <2>3, RatiosAreRatios
    <3> QED BY <2>9, <3>1, MixedQuotient
  <2>14. \A r \in Shares : \E p \in Prompts : (100 * r[1]) \div r[2] = Share(p)  BY DEF Shares, Share
  <2> QED BY <2>10, <2>12, <2>13, <2>14
<1> QED BY <1>1, WindowsInvariant, PTL

\* "an honest timer" (_apply_vllm_metrics): what is shown of a timer of the process that
\* answered is no longer than the silence before the answer, but for a cycle.
THEOREM TimerStaysHonest == Spec => TimerIsHonest
<1>1. IInv /\ [Next]_vars =>
        [Apply /\ live' # None /\ live'.life = body.life => row'.elapsed <= body.quiet + MaxCycle]_vars
  <2> SUFFICES ASSUME IInv, Apply, live' # None, live'.life = body.life
               PROVE  row'.elapsed <= body.quiet + MaxCycle
    OBVIOUS
  <2>1. pc = "apply"  BY DEF Apply
  <2>2. row'.elapsed = Then(live'.age)  BY DEF Apply, RowAfter
  <2>3. cycleAge \in 0..MaxCycle /\ MaxCycle \in Nat  BY AgesAreNumbers DEF IInv, EngineTyped
  <2>4. body.quiet \in Nat  BY <2>1, Applied DEF Readings
  <2>5. live'.age \in Nat  BY ApplyTimerTyped, AgesAreNumbers
  <2>6. live'.age <= body.quiet + MaxCycle
    <3>1. CASE live' = [age |-> cycleAge, life |-> body.life]  BY <2>3, <2>4, <3>1
    <3>2. CASE live' = live /\ vlast.gen = body.count.gen
      <4>1. live # None /\ live.life = body.life  BY <3>2
      <4> QED BY <2>1, <3>2, <4>1 DEF IInv, Silent
    <3> QED BY <3>1, <3>2, ApplyTimer
  <2>7. Then(live'.age) <= live'.age  BY <2>3, <2>5 DEF Then
  <2>8. Then(live'.age) \in Int  BY <2>3, <2>5 DEF Then
  <2> QED BY <2>2, <2>3, <2>4, <2>5, <2>6, <2>7, <2>8
<1> QED BY <1>1, WindowsInvariant, PTL DEF Spec, TimerIsHonest
-----------------------------------------------------------------------------
(* Quantiles.                                                              *)

\* A finite set of numbers has a least one and a largest one.
LEMMA Extremes ==
  ASSUME NEW S, S \subseteq Nat, IsFiniteSet(S), S # {}
  PROVE  /\ Least(S) \in S /\ \A c \in S : Least(S) <= c
         /\ Largest(S) \in S /\ \A c \in S : c <= Largest(S)
<1>1. ASSUME NEW T, T \subseteq FiniteSubsetsOf(S), T # {}
      PROVE  \E x \in T : \A y \in T : ~(<<y, x>> \in StrictSubsetOrdering(S))
  <2>1. IsWellFoundedOn(StrictSubsetOrdering(S), FiniteSubsetsOf(S))
    BY FS_StrictSubsetOrderingWellFounded
  <2> QED BY <1>1, <2>1, WFMin
<1>2. \A A \in SUBSET S : A \in FiniteSubsetsOf(S)
  BY FS_Subset DEF FiniteSubsetsOf
<1>3. \E a \in S : \A c \in S : a <= c
  <2> DEFINE Under(a) == {c \in S : c < a}
             T == {Under(a) : a \in S}
  <2>1. T \subseteq FiniteSubsetsOf(S) /\ T # {}  BY <1>2
  <2>2. PICK a \in S : \A c \in S : ~(<<Under(c), Under(a)>> \in StrictSubsetOrdering(S))
    <3>1. \E x \in T : \A y \in T : ~(<<y, x>> \in StrictSubsetOrdering(S))  BY <1>1, <2>1
    <3> QED BY <3>1
  <2>3. ASSUME NEW c \in S, c < a PROVE FALSE
    <3> HIDE DEF T
    <3>1. a \in Nat /\ c \in Nat  BY <2>2
    <3>2. c \in Under(a)  BY <2>3
    <3>3. c \notin Under(c)  BY <3>1
    <3>4. ASSUME NEW e \in Under(c) PROVE e \in Under(a)
      <4>1. e \in S /\ e < c  BY <3>4
      <4>2. e \in Nat  BY <4>1
      <4>3. e < a  BY <2>3, <3>1, <4>1, <4>2
      <4> QED BY <4>1, <4>3
    <3>5. Under(c) \in SUBSET S /\ Under(a) \in SUBSET S  OBVIOUS
    <3>6. Under(c) \subseteq Under(a) /\ Under(c) # Under(a)  BY <3>2, <3>3, <3>4
    <3> HIDE DEF Under
    <3> QED BY <2>2, <2>3, <3>5, <3>6 DEF StrictSubsetOrdering
  <2> QED BY <2>3
<1>4. \E a \in S : \A c \in S : c <= a
  <2> DEFINE Over(a) == {c \in S : c > a}
             T == {Over(a) : a \in S}
  <2>1. T \subseteq FiniteSubsetsOf(S) /\ T # {}  BY <1>2
  <2>2. PICK a \in S : \A c \in S : ~(<<Over(c), Over(a)>> \in StrictSubsetOrdering(S))
    <3>1. \E x \in T : \A y \in T : ~(<<y, x>> \in StrictSubsetOrdering(S))  BY <1>1, <2>1
    <3> QED BY <3>1
  <2>3. ASSUME NEW c \in S, c > a PROVE FALSE
    <3> HIDE DEF T
    <3>1. a \in Nat /\ c \in Nat  BY <2>2
    <3>2. c \in Over(a)  BY <2>3
    <3>3. c \notin Over(c)  BY <3>1
    <3>4. ASSUME NEW e \in Over(c) PROVE e \in Over(a)
      <4>1. e \in S /\ e > c  BY <3>4
      <4>2. e \in Nat  BY <4>1
      <4>3. e > a  BY <2>3, <3>1, <4>1, <4>2
      <4> QED BY <4>1, <4>3
    <3>5. Over(c) \in SUBSET S /\ Over(a) \in SUBSET S  OBVIOUS
    <3>6. Over(c) \subseteq Over(a) /\ Over(c) # Over(a)  BY <3>2, <3>3, <3>4
    <3> HIDE DEF Over
    <3> QED BY <2>2, <2>3, <3>5, <3>6 DEF StrictSubsetOrdering
  <2> QED BY <2>3
<1> QED BY <1>3, <1>4 DEF Least, Largest

\* What rounding up does: to at least one, at most a multiple that is no less, and
\* without changing an order.
LEMMA RoundsUp ==
  ASSUME NEW x \in Nat \ {0}, NEW y \in Nat \ {0}
  PROVE  /\ RoundedUp(x, y) \in Nat \ {0}
         /\ \A l \in Nat : x <= l * y => RoundedUp(x, y) <= l
         /\ \A z \in Nat : x <= z => RoundedUp(x, y) <= RoundedUp(z, y)
<1> DEFINE q == RoundedUp(x, y)
<1>1. x + y - 1 \in Nat /\ 1 * y <= x + y - 1  OBVIOUS
<1>2. q = (x + y - 1) \div y  BY DEF RoundedUp
<1>3. q \in Nat /\ q * y <= x + y - 1 /\ 1 <= q
  <2>1. 1 <= (x + y - 1) \div y  BY <1>1, QuotientLeast
  <2> QED BY <1>1, <1>2, <2>1, QuotientBounds
<1> HIDE DEF q
<1>4. q * y \in Nat  BY <1>3
<1>5. ASSUME NEW l \in Nat, x <= l * y PROVE q <= l
  <2> SUFFICES ASSUME l + 1 <= q PROVE FALSE  BY <1>3
  <2>1. PICK g \in Nat : q = l + 1 + g
    <3>1. q - l - 1 \in Nat  BY <1>3
    <3> QED BY <3>1, <1>3
  <2>2. q * y = l * y + y + g * y /\ g * y \in Nat /\ l * y \in Nat  BY <2>1
  <2> QED BY <1>3, <1>5, <2>2
<1>6. ASSUME NEW z \in Nat, x <= z PROVE q <= RoundedUp(z, y)
  <2>1. z + y - 1 \in Nat /\ q * y <= z + y - 1  BY <1>3, <1>4, <1>6
  <2>2. q <= (z + y - 1) \div y  BY <1>3, <2>1, QuotientLeast
  <2> QED BY <2>2 DEF RoundedUp
<1> QED BY <1>3, <1>5, <1>6 DEF q

\* The bounds that enough met.
Met(c, total, q) == {b \in Bounds : 100 * c[b] >= q * total}

\* v is between the bound below le and le, as q is between what the two have.
Interpolated(c, total, q, le, v) ==
  \E low \in Nat, had \in Nat :
    /\ low = (IF Below(le) = {} THEN 0 ELSE Largest(Below(le)))
    /\ had = (IF Below(le) = {} THEN 0 ELSE c[low])
    /\ low < le /\ 100 * had < q * total /\ ~(c[le] <= had)
    /\ v = 100 * low + RoundedUp((le - low) * (q * total - 100 * had), c[le] - had)

\* Where the quantile lies: within the first bound that enough met, above the one below.
LEMMA QuantileLies ==
  ASSUME NEW c \in [Bounds -> Nat], NEW total \in Nat \ {0}, NEW q \in Nat \ {0}
  PROVE  LET v   == Quantile(c, total, q)
             met == Met(c, total, q)
         IN /\ v \in Nat
            /\ met = {} => v = 100 * Largest(Bounds)
            /\ met # {} => /\ Least(met) \in met /\ \A b \in met : Least(met) <= b
                           /\ v <= 100 * Least(met)
                           /\ \A b \in Bounds : b < Least(met) => 100 * b < v
            /\ met # {} => Interpolated(c, total, q, Least(met), v)
<1> DEFINE v == Quantile(c, total, q)
           met == Met(c, total, q)
<1>1. Bounds \subseteq Nat \ {0} /\ IsFiniteSet(Bounds) /\ Bounds # {}  BY WindowsAssumption
<1>2. met \subseteq Bounds /\ IsFiniteSet(met)  BY <1>1, FS_Subset DEF Met
<1>3. q * total \in Nat /\ q * total > 0
  <2>1. PICK p \in Nat : q = p + 1
    <3>1. q - 1 \in Nat /\ q = (q - 1) + 1  OBVIOUS
    <3> QED BY <3>1
  <2>2. q * total = p * total + total /\ p * total \in Nat  BY <2>1
  <2> QED BY <2>2
<1>4. CASE met = {}
  <2>1. v = 100 * Largest(Bounds)  BY <1>4 DEF Quantile, Met
  <2>2. Largest(Bounds) \in Nat  BY <1>1, Extremes
  <2> QED BY <1>4, <2>1, <2>2
<1>5. CASE met # {}
  <2> DEFINE le  == Least(met)
             low == IF Below(le) = {} THEN 0 ELSE Largest(Below(le))
             had == IF Below(le) = {} THEN 0 ELSE c[low]
             x   == (le - low) * (q * total - 100 * had)
             y   == c[le] - had
  <2>1. le \in met /\ \A b \in met : le <= b  BY <1>1, <1>2, <1>5, Extremes
  <2>2. le \in Bounds /\ le \in Nat \ {0} /\ c[le] \in Nat /\ 100 * c[le] >= q * total
    BY <1>1, <2>1 DEF Met
  <2>3. low \in Nat /\ low < le /\ had \in Nat /\ 100 * had < q * total
        /\ \A b \in Bounds : b < le => b <= low
    <3>1. CASE Below(le) = {}
      BY <1>3, <2>2, <3>1 DEF Below
    <3>2. CASE Below(le) # {}
      <4>1. Below(le) \subseteq Nat /\ IsFiniteSet(Below(le)) /\ Below(le) \subseteq Bounds
        BY <1>1, FS_Subset DEF Below
      <4>2. low \in Below(le) /\ \A b \in Below(le) : b <= low  BY <3>2, <4>1, Extremes
      <4>3. low \in Bounds /\ low < le /\ \A b \in Bounds : b < le => b <= low
        BY <4>2 DEF Below
      <4>4. low \notin met /\ c[low] \in Nat
        <5> HIDE DEF le, low, met
        <5>1. low \in Nat /\ le \in Nat /\ ~(le <= low)  BY <1>1, <2>2, <4>3
        <5> QED BY <2>1, <4>3, <5>1
      <4>5. 100 * c[low] < q * total  BY <1>3, <4>3, <4>4 DEF Met
      <4>6. had = c[low]  BY <3>2
      <4> QED BY <1>1, <4>3, <4>4, <4>5, <4>6
    <3> QED BY <3>1, <3>2
  <2> HIDE DEF le, low, had
  <2>4. y \in Nat \ {0} /\ ~(c[le] <= had)  BY <1>3, <2>2, <2>3
  <2>5. v = 100 * low + RoundedUp(x, y)
    BY <1>5, <2>4 DEF Quantile, Met, le, low, had
  <2>6. x \in Nat \ {0} /\ x <= (100 * (le - low)) * y
    <3> DEFINE d == le - low  e == q * total - 100 * had
    <3>1. d \in Nat \ {0} /\ e \in Nat \ {0} /\ e <= 100 * y  BY <1>3, <2>2, <2>3, <2>4
    <3> HIDE DEF d, e, y
    <3>2. PICK g \in Nat : d = g + 1
      <4>1. d - 1 \in Nat /\ d = (d - 1) + 1  BY <3>1
      <4> QED BY <4>1
    <3>7. PICK h \in Nat : 100 * y = e + h
      <4>1. 100 * y - e \in Nat /\ 100 * y = e + (100 * y - e)  BY <2>4, <3>1
      <4> QED BY <4>1
    <3>3. d * e = g * e + e /\ g * e \in Nat  BY <3>1, <3>2
    <3>4. (100 * d) * y = d * (100 * y)  BY <2>4, <3>1
    <3>5. d * (100 * y) = d * e + d * h /\ d * h \in Nat  BY <3>1, <3>7
    <3>6. x = d * e  BY DEF d, e
    <3> QED BY <3>1, <3>3, <3>4, <3>5, <3>6 DEF d
  <2> HIDE DEF x, y
  <2>7. 100 * (le - low) \in Nat  BY <2>2, <2>3
  <2>8. RoundedUp(x, y) \in Nat \ {0} /\ RoundedUp(x, y) <= 100 * (le - low)
    BY <2>4, <2>6, <2>7, RoundsUp
  <2> HIDE DEF v
  <2>9. v \in Nat /\ v <= 100 * le /\ \A b \in Bounds : b < le => 100 * b < v
    <3>1. v \in Nat /\ v <= 100 * le /\ 100 * low < v  BY <2>2, <2>3, <2>5, <2>8
    <3>2. ASSUME NEW b \in Bounds, b < le PROVE 100 * b < v
      BY <1>1, <2>3, <3>1, <3>2
    <3> QED BY <3>1, <3>2
  <2>10. Interpolated(c, total, q, le, v)
    <3>1. low = (IF Below(le) = {} THEN 0 ELSE Largest(Below(le)))  BY DEF low
    <3>2. had = (IF Below(le) = {} THEN 0 ELSE c[low])  BY DEF had
    <3>3. v = 100 * low + RoundedUp((le - low) * (q * total - 100 * had), c[le] - had)
      BY <2>5 DEF x, y
    <3> QED BY <2>3, <2>4, <3>1, <3>2, <3>3 DEF Interpolated
  <2> QED BY <1>5, <2>1, <2>9, <2>10 DEF le, v
<1> QED BY <1>4, <1>5

\* The larger part is met at the larger quantile.
LEMMA QuantilesInOrder ==
  ASSUME NEW c \in [Bounds -> Nat], NEW total \in Nat \ {0}
  PROVE  Quantile(c, total, 50) <= Quantile(c, total, 95)
<1> DEFINE half == Met(c, total, 50)
           most == Met(c, total, 95)
           v == Quantile(c, total, 50)
           w == Quantile(c, total, 95)
<1>1. /\ v \in Nat /\ w \in Nat
      /\ half = {} => v = 100 * Largest(Bounds)
      /\ most = {} => w = 100 * Largest(Bounds)
      /\ half # {} => /\ Least(half) \in half /\ \A b \in half : Least(half) <= b
                      /\ v <= 100 * Least(half) /\ Interpolated(c, total, 50, Least(half), v)
      /\ most # {} => /\ Least(most) \in most
                      /\ Interpolated(c, total, 95, Least(most), w)
                      /\ \A b \in Bounds : b < Least(most) => 100 * b < w
  BY QuantileLies
<1>2. Bounds \subseteq Nat \ {0} /\ IsFiniteSet(Bounds) /\ Bounds # {}  BY WindowsAssumption
<1>3. most \subseteq half /\ half \subseteq Bounds
  <2>1. ASSUME NEW b \in Bounds, 100 * c[b] >= 95 * total PROVE 100 * c[b] >= 50 * total
    <3>1. c[b] \in Nat  BY <2>1
    <3> QED BY <2>1, <3>1
  <2> QED BY <2>1 DEF Met
<1> HIDE DEF v, w, half, most
<1>4. CASE half = {}
  <2>1. most = {}  BY <1>3, <1>4
  <2> QED BY <1>1, <1>4, <2>1 DEF v, w
<1>5. CASE half # {} /\ most = {}
  <2>1. Least(half) \in Bounds  BY <1>1, <1>3, <1>5
  <2>2. Least(half) <= Largest(Bounds) /\ Largest(Bounds) \in Bounds
    BY <1>2, <2>1, Extremes
  <2>3. Least(half) \in Nat /\ Largest(Bounds) \in Nat  BY <1>2, <2>1, <2>2
  <2>4. v <= 100 * Least(half) /\ w = 100 * Largest(Bounds)  BY <1>1, <1>5
  <2>5. v <= w  BY <1>1, <2>2, <2>3, <2>4
  <2> QED BY <2>5 DEF v, w
<1>6. CASE half # {} /\ most # {}
  <2>1. Least(half) \in Bounds /\ Least(most) \in Bounds /\ Least(half) <= Least(most)
    BY <1>1, <1>3, <1>6
  <2>2. Least(half) \in Nat /\ Least(most) \in Nat  BY <1>2, <2>1
  <2>3. CASE Least(half) < Least(most)
    <3>1. 100 * Least(half) < w  BY <1>1, <1>6, <2>1, <2>3
    <3>2. v <= 100 * Least(half)  BY <1>1, <1>6
    <3>3. v <= w  BY <1>1, <2>2, <3>1, <3>2
    <3> QED BY <3>3 DEF v, w
  <2>4. CASE Least(half) = Least(most)
    <3> DEFINE le == Least(half)
    <3> HIDE DEF le
    <3>10. Interpolated(c, total, 50, le, v) /\ Interpolated(c, total, 95, le, w)
      BY <1>1, <1>6, <2>4 DEF le
    <3>1. PICK low \in Nat, had \in Nat :
            /\ low = (IF Below(le) = {} THEN 0 ELSE Largest(Below(le)))
            /\ had = (IF Below(le) = {} THEN 0 ELSE c[low])
            /\ low < le /\ 100 * had < 50 * total /\ ~(c[le] <= had)
            /\ v = 100 * low + RoundedUp((le - low) * (50 * total - 100 * had), c[le] - had)
      BY <3>10 DEF Interpolated
    <3>2. PICK low2 \in Nat, had2 \in Nat :
            /\ low2 = (IF Below(le) = {} THEN 0 ELSE Largest(Below(le)))
            /\ had2 = (IF Below(le) = {} THEN 0 ELSE c[low2])
            /\ low2 < le /\ 100 * had2 < 95 * total /\ ~(c[le] <= had2)
            /\ w = 100 * low2 + RoundedUp((le - low2) * (95 * total - 100 * had2), c[le] - had2)
      BY <3>10 DEF Interpolated
    <3>3. low2 = low /\ had2 = had  BY <3>1, <3>2
    <3>4. le \in Nat /\ c[le] \in Nat  BY <2>1, <2>2 DEF le
    <3> DEFINE d == le - low  e == 50 * total - 100 * had  g == 95 * total - 100 * had
               y == c[le] - had
    <3>5. d \in Nat \ {0} /\ e \in Nat \ {0} /\ y \in Nat \ {0} /\ g = e + 45 * total
      <4>1. low < le /\ 100 * had < 50 * total /\ ~(c[le] <= had)  BY <3>1
      <4>2. d \in Nat \ {0}  BY <3>4, <4>1
      <4>3. e \in Nat \ {0} /\ g = e + 45 * total  BY <4>1
      <4>4. y \in Nat \ {0}  BY <3>4, <4>1
      <4> QED BY <4>2, <4>3, <4>4
    <3>6. v = 100 * low + RoundedUp(d * e, y) /\ w = 100 * low + RoundedUp(d * g, y)
      BY <3>1, <3>2, <3>3
    <3> HIDE DEF d, e, g, y
    <3>7. d * e \in Nat \ {0} /\ d * g \in Nat \ {0} /\ d * e <= d * g
      <4> DEFINE z == 45 * total
      <4>1. z \in Nat \ {0} /\ g = e + z  BY <3>5
      <4> HIDE DEF z
      <4>2. d * g = d * e + d * z /\ d * z \in Nat /\ d * e \in Nat  BY <3>5, <4>1
      <4>3. d * e # 0  BY <3>5
      <4> QED BY <4>2, <4>3
    <3>8. /\ RoundedUp(d * e, y) \in Nat /\ RoundedUp(d * g, y) \in Nat
          /\ RoundedUp(d * e, y) <= RoundedUp(d * g, y)
      BY <3>5, <3>7, RoundsUp
    <3>9. v <= w  BY <3>6, <3>8
    <3> QED BY <3>9 DEF v, w
  <2> QED BY <2>1, <2>2, <2>3, <2>4
<1> QED BY <1>4, <1>5, <1>6

\* The bounds at or above v.
Above(v) == {b \in Bounds : 100 * b >= v}

\* What the bounds around a quantile have.
LEMMA QuantileSplits ==
  ASSUME NEW c \in [Bounds -> Nat], NEW total \in Nat \ {0}, NEW q \in Nat \ {0},
         NEW v, v = Quantile(c, total, q)
  PROVE  /\ v # 100 * Largest(Bounds) =>
              Least(Above(v)) \in Bounds /\ 100 * c[Least(Above(v))] >= q * total
         /\ \A b \in Bounds : 100 * b < v => 100 * c[b] < q * total
<1> DEFINE met == Met(c, total, q)
           up  == Above(v)
<1>1. Bounds \subseteq Nat \ {0} /\ IsFiniteSet(Bounds) /\ Bounds # {}  BY WindowsAssumption
<1>2. /\ v \in Nat
      /\ met = {} => v = 100 * Largest(Bounds)
      /\ met # {} => /\ Least(met) \in met /\ \A b \in met : Least(met) <= b
                     /\ v <= 100 * Least(met)
                     /\ \A b \in Bounds : b < Least(met) => 100 * b < v
  BY QuantileLies
<1>3. \A b \in Bounds : b \notin met => 100 * c[b] < q * total
  <2>1. ASSUME NEW b \in Bounds PROVE c[b] \in Nat /\ q * total \in Nat  OBVIOUS
  <2> QED BY <2>1 DEF Met
<1>4. \A b \in met : b \in Bounds /\ 100 * c[b] >= q * total  BY DEF Met
<1> HIDE DEF met
<1>5. ASSUME NEW b \in Bounds, 100 * b < v PROVE b \notin met
  <2> SUFFICES ASSUME b \in met PROVE FALSE  OBVIOUS
  <2>1. Least(met) \in Nat /\ Least(met) <= b /\ b \in Nat  BY <1>1, <1>2, <1>4
  <2>2. v <= 100 * Least(met)  BY <1>2
  <2> QED BY <1>2, <1>5, <2>1, <2>2
<1>6. ASSUME v # 100 * Largest(Bounds)
      PROVE  Least(up) \in Bounds /\ 100 * c[Least(up)] >= q * total
  <2>1. met # {}  BY <1>2, <1>6
  <2> DEFINE le == Least(met)
  <2>2. le \in met /\ le \in Bounds /\ le \in Nat /\ v <= 100 * le  BY <1>1, <1>2, <1>4, <2>1
  <2>3. le \in up  BY <1>2, <2>2 DEF Above
  <2>4. up \subseteq Nat /\ IsFiniteSet(up) /\ up # {}  BY <1>1, <2>3, FS_Subset DEF Above
  <2>5. Least(up) \in up /\ Least(up) <= le  BY <2>3, <2>4, Extremes
  <2>6. Least(up) \in Bounds /\ Least(up) \in Nat /\ 100 * Least(up) >= v  BY <2>4, <2>5 DEF Above
  <2> HIDE DEF le, up
  <2>7. ~(Least(up) < le)  BY <1>2, <2>1, <2>6 DEF le
  <2>8. Least(up) = le  BY <2>2, <2>5, <2>6, <2>7
  <2> QED BY <1>4, <2>2, <2>8
<1> QED BY <1>3, <1>5, <1>6

\* The quantiles of the first tokens split the requests of the window as they should,
\* and are in order (hist_quantile), however engines were switched and restarted.
THEOREM QuantilesStayInWindow == Spec => []QuantilesHold
<1>1. IInv => QuantilesHold
  <2> SUFFICES ASSUME IInv, row.p50 # None, row.p95 # None
               PROVE  Splits(row.p50, 50) /\ Splits(row.p95, 95) /\ row.p50 <= row.p95
    BY DEF QuantilesHold
  <2> DEFINE from  == winbuf[1].count
             to    == Last(winbuf).count
             d     == BucketDeltas(from, to)
             total == to.ttftn - from.ttftn
  <2>1. row.p50 = QuantileOf(winbuf, 50) /\ row.p95 = QuantileOf(winbuf, 95)
    BY DEF IInv, RowOfWindow
  <2>2. /\ ~(Len(winbuf) < 2) /\ d # None
        /\ row.p50 = Quantile(d, total, 50) /\ row.p95 = Quantile(d, total, 95)
    BY <2>1 DEF QuantileOf
  <2>3. from \in Counters /\ to \in Counters
    <3>1. winbuf # <<>>  BY <2>2
    <3>2. Len(winbuf) \in Nat /\ 1 \in 1..Len(winbuf) /\ Len(winbuf) \in 1..Len(winbuf)
      BY <2>2, Elements
    <3> QED BY <3>1, <3>2, Elements
  <2>4. /\ \A b \in Bounds : ~(to.late[b] < from.late[b])
        /\ d = [b \in Bounds |-> to.late[b] - from.late[b]]
    BY <2>2 DEF BucketDeltas
  <2>5. d \in [Bounds -> Nat]
    <3>1. to.late \in [Bounds -> Nat] /\ from.late \in [Bounds -> Nat]  BY <2>3 DEF Counters
    <3>2. ASSUME NEW b \in Bounds PROVE to.late[b] - from.late[b] \in Nat
      <4>1. to.late[b] \in Nat /\ from.late[b] \in Nat  BY <3>1
      <4> QED BY <2>4, <4>1
    <3> QED BY <2>4, <3>2
  <2>6. total \in Nat \ {0}
    <3>1. to.ttftn \in Nat /\ from.ttftn \in Nat  BY <2>3 DEF Counters
    <3>2. ~(total <= 0)  BY <2>2 DEF Quantile
    <3> QED BY <3>1, <3>2
  <2>7. AllInWindow = total /\ \A b \in Bounds : InWindow(b) = d[b]
    BY <2>4 DEF AllInWindow, InWindow
  <2> HIDE DEF d, total
  <2>8. ASSUME NEW q \in Nat \ {0}, NEW v, v = Quantile(d, total, q) PROVE Splits(v, q)
    <3> DEFINE least == Least(Above(v))
    <3>1. /\ v # 100 * Largest(Bounds) => least \in Bounds /\ 100 * d[least] >= q * total
          /\ \A b \in Bounds : 100 * b < v => 100 * d[b] < q * total
      BY <2>5, <2>6, <2>8, QuantileSplits
    <3> HIDE DEF least
    <3>2. v # 100 * Largest(Bounds) => 100 * InWindow(least) >= q * AllInWindow
      BY <2>7, <3>1
    <3>3. \A b \in Bounds : 100 * b < v => 100 * InWindow(b) < q * AllInWindow
      BY <2>7, <3>1
    <3> QED BY <3>2, <3>3 DEF Splits, Above, least
  <2>9. row.p50 <= row.p95  BY <2>2, <2>5, <2>6, QuantilesInOrder
  <2> QED BY <2>2, <2>8, <2>9
<1> QED BY <1>1, WindowsInvariant, PTL
=============================================================================
