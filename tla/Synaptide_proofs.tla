-------------------------- MODULE Synaptide_proofs --------------------------
(***************************************************************************)
(* Proofs about Synaptide, for every clock, history, delay and energy.     *)
(***************************************************************************)
EXTENDS Synaptide, WellFoundedInduction, TLAPS

-----------------------------------------------------------------------------
(* Sums.                                                                   *)

LEMMA Induction ==
  ASSUME NEW S, 0 \in S, \A n \in Nat : n \in S => n + 1 \in S
  PROVE  \A n \in Nat : n \in S
<1> DEFINE T == Nat \ S
<1> SUFFICES ASSUME T # {} PROVE FALSE
  OBVIOUS
<1>1. T \subseteq Nat
  OBVIOUS
<1>2. PICK x \in T : \A y \in T : ~ (<<y, x>> \in OpToRel(<, Nat))
  <2> HIDE DEF T
  <2> QED
    BY <1>1, NatLessThanWellFounded, WFMin
<1>3. x \in Nat \ {0} /\ x - 1 \in Nat /\ x - 1 < x /\ x = x - 1 + 1
  OBVIOUS
<1>4. <<x - 1, x>> \in OpToRel(<, Nat)
  BY <1>3 DEF OpToRel
<1>5. x - 1 \notin T
  BY <1>2, <1>4
<1> QED
  BY <1>3, <1>5

\* A table of the first n sums of f from a.
Sums(g, f, a, n) ==
  g = [i \in 0 .. n |-> IF i = 0 THEN 0 ELSE g[i - 1] + f[a + i - 1]]

LEMMA SumsExist ==
  ASSUME NEW f, NEW a \in Nat, NEW n \in Nat
  PROVE  \E g : Sums(g, f, a, n)
<1> DEFINE S == {m \in Nat : \E g : Sums(g, f, a, m)}
<1>1. 0 \in S
  <2>1. Sums([i \in 0 .. 0 |-> 0], f, a, 0)
    BY DEF Sums
  <2> QED
    BY <2>1
<1>2. ASSUME NEW m \in Nat, m \in S PROVE m + 1 \in S
  <2>1. PICK g : Sums(g, f, a, m)
    BY <1>2
  <2> DEFINE h == [i \in 0 .. m + 1 |-> IF i = m + 1 THEN g[m] + f[a + m] ELSE g[i]]
  <2>2. ASSUME NEW i \in 0 .. m + 1
        PROVE  h[i] = IF i = 0 THEN 0 ELSE h[i - 1] + f[a + i - 1]
    <3>1. CASE i = m + 1
      BY <3>1
    <3>2. CASE i \in 0 .. m
      <4>1. h[i] = g[i]
        BY <3>2
      <4>2. g[i] = IF i = 0 THEN 0 ELSE g[i - 1] + f[a + i - 1]
        BY <2>1, <3>2 DEF Sums
      <4>3. i # 0 => h[i - 1] = g[i - 1]
        BY <3>2
      <4> QED
        BY <4>1, <4>2, <4>3
    <3> QED
      BY <3>1, <3>2
  <2>3. Sums(h, f, a, m + 1)
    BY <2>2 DEF Sums
  <2> QED
    BY <2>3
<1> HIDE DEF S
<1>3. n \in S
  BY <1>1, <1>2, Induction
<1> QED
  BY <1>3 DEF S

LEMMA TotalIsTheLast ==
  ASSUME NEW f, NEW a \in Nat, NEW n \in Nat
  PROVE  \E g : Sums(g, f, a, n) /\ Total(f, a, n) = g[n]
<1> DEFINE g == CHOOSE g : Sums(g, f, a, n)
<1>1. Sums(g, f, a, n)
  BY SumsExist
<1>2. Total(f, a, n) = g[n]
  BY DEF Total, Sums
<1> QED
  BY <1>1, <1>2

\* Longer tables begin like shorter ones.
LEMMA SumsAgree ==
  ASSUME NEW f, NEW a \in Nat, NEW n \in Nat, NEW m \in Nat, n <= m,
         NEW g, Sums(g, f, a, n), NEW h, Sums(h, f, a, m)
  PROVE  g[n] = h[n]
<1> DEFINE S == {i \in Nat : i <= n => g[i] = h[i]}
<1>1. \A i \in 0 .. n : g[i] = IF i = 0 THEN 0 ELSE g[i - 1] + f[a + i - 1]
  BY DEF Sums
<1>2. \A i \in 0 .. n : h[i] = IF i = 0 THEN 0 ELSE h[i - 1] + f[a + i - 1]
  BY DEF Sums
<1>3. 0 \in S
  BY <1>1, <1>2
<1>4. ASSUME NEW i \in Nat, i \in S PROVE i + 1 \in S
  <2> SUFFICES ASSUME i + 1 <= n PROVE g[i + 1] = h[i + 1]
    OBVIOUS
  <2>1. g[i] = h[i] /\ i + 1 \in 0 .. n /\ i + 1 # 0 /\ i + 1 - 1 = i
    BY <1>4
  <2> HIDE DEF S
  <2> QED
    BY <1>1, <1>2, <2>1
<1> HIDE DEF S
<1>5. n \in S
  BY <1>3, <1>4, Induction
<1> QED
  BY <1>5 DEF S

(***************************************************************************)
(* Total adds from the left.                                               *)
(***************************************************************************)
LEMMA TotalStep ==
  ASSUME NEW f, NEW a \in Nat, NEW n \in Nat
  PROVE  /\ Total(f, a, 0) = 0
         /\ Total(f, a, n + 1) = Total(f, a, n) + f[a + n]
<1>1. Total(f, a, 0) = 0
  <2>1. PICK g : Sums(g, f, a, 0) /\ Total(f, a, 0) = g[0]
    BY TotalIsTheLast
  <2> QED
    BY <2>1 DEF Sums
<1>2. Total(f, a, n + 1) = Total(f, a, n) + f[a + n]
  <2>1. PICK g : Sums(g, f, a, n) /\ Total(f, a, n) = g[n]
    BY TotalIsTheLast
  <2>2. PICK h : Sums(h, f, a, n + 1) /\ Total(f, a, n + 1) = h[n + 1]
    BY TotalIsTheLast
  <2>3. g[n] = h[n]
    BY <2>1, <2>2, SumsAgree
  <2>4. \A i \in 0 .. n + 1 : h[i] = IF i = 0 THEN 0 ELSE h[i - 1] + f[a + i - 1]
    BY <2>2 DEF Sums
  <2>5. h[n + 1] = h[n + 1 - 1] + f[a + (n + 1) - 1]
    BY <2>4
  <2>6. n + 1 - 1 = n /\ a + (n + 1) - 1 = a + n
    OBVIOUS
  <2> QED
    BY <2>1, <2>2, <2>3, <2>5, <2>6
<1> QED
  BY <1>1, <1>2

LEMMA TotalType ==
  ASSUME NEW f, NEW a \in Nat, NEW n \in Nat, \A i \in 0 .. n - 1 : f[a + i] \in Nat
  PROVE  Total(f, a, n) \in Nat
<1> DEFINE S == {m \in Nat : m <= n => Total(f, a, m) \in Nat}
<1>1. 0 \in S
  BY TotalStep
<1>2. ASSUME NEW m \in Nat, m \in S PROVE m + 1 \in S
  <2>1. Total(f, a, m + 1) = Total(f, a, m) + f[a + m]
    BY TotalStep
  <2>2. m + 1 <= n => Total(f, a, m) \in Nat /\ m \in 0 .. n - 1
    BY <1>2
  <2>3. m + 1 <= n => f[a + m] \in Nat
    BY <2>2
  <2> QED
    BY <2>1, <2>2, <2>3
<1> HIDE DEF S
<1>3. n \in S
  BY <1>1, <1>2, Induction
<1> QED
  BY <1>3 DEF S

\* Equal entries have equal sums.
LEMMA TotalOfEquals ==
  ASSUME NEW f, NEW a \in Nat, NEW g, NEW b \in Nat, NEW n \in Nat,
         \A i \in 0 .. n - 1 : f[a + i] = g[b + i]
  PROVE  Total(f, a, n) = Total(g, b, n)
<1> DEFINE S == {m \in Nat : m <= n => Total(f, a, m) = Total(g, b, m)}
<1>1. 0 \in S
  BY TotalStep
<1>2. ASSUME NEW m \in Nat, m \in S PROVE m + 1 \in S
  <2>1. /\ Total(f, a, m + 1) = Total(f, a, m) + f[a + m]
        /\ Total(g, b, m + 1) = Total(g, b, m) + g[b + m]
    BY TotalStep
  <2>2. m + 1 <= n => Total(f, a, m) = Total(g, b, m) /\ m \in 0 .. n - 1
    BY <1>2
  <2>3. m + 1 <= n => f[a + m] = g[b + m]
    BY <2>2
  <2> QED
    BY <2>1, <2>2, <2>3
<1> HIDE DEF S
<1>3. n \in S
  BY <1>1, <1>2, Induction
<1> QED
  BY <1>3 DEF S

\* A sum is that of its first m entries and that of the others.
LEMMA TotalSplits ==
  ASSUME NEW f, NEW a \in Nat, NEW m \in Nat, NEW n \in Nat,
         \A i \in 0 .. m + n - 1 : f[a + i] \in Nat
  PROVE  Total(f, a, m + n) = Total(f, a, m) + Total(f, a + m, n)
<1> DEFINE S == {k \in Nat : k <= n => Total(f, a, m + k) = Total(f, a, m) + Total(f, a + m, k)}
<1>1. 0 \in S
  <2>1. Total(f, a, m) \in Nat
    <3>1. \A i \in 0 .. m - 1 : f[a + i] \in Nat
      OBVIOUS
    <3> QED
      BY <3>1, TotalType
  <2>2. m + 0 = m /\ a + m \in Nat
    OBVIOUS
  <2>3. Total(f, a + m, 0) = 0
    BY <2>2, TotalStep
  <2> QED
    BY <2>1, <2>2, <2>3
<1>2. ASSUME NEW k \in Nat, k \in S PROVE k + 1 \in S
  <2> SUFFICES ASSUME k + 1 <= n
               PROVE  Total(f, a, m + (k + 1)) = Total(f, a, m) + Total(f, a + m, k + 1)
    OBVIOUS
  <2>1. m + (k + 1) = (m + k) + 1 /\ a + (m + k) = (a + m) + k
    OBVIOUS
  <2>2. m + k \in Nat /\ a + m \in Nat
    OBVIOUS
  <2>3. Total(f, a, m) \in Nat /\ Total(f, a + m, k) \in Nat /\ f[a + (m + k)] \in Nat
    <3>1. \A i \in 0 .. m - 1 : f[a + i] \in Nat
      OBVIOUS
    <3>2. \A i \in 0 .. k - 1 : f[(a + m) + i] \in Nat
      <4> SUFFICES ASSUME NEW i \in 0 .. k - 1 PROVE f[(a + m) + i] \in Nat
        OBVIOUS
      <4>1. m + i \in 0 .. m + n - 1 /\ (a + m) + i = a + (m + i)
        OBVIOUS
      <4> QED
        BY <4>1
    <3>3. m + k \in 0 .. m + n - 1
      OBVIOUS
    <3> QED
      BY <2>2, <3>1, <3>2, <3>3, TotalType
  <2>4. Total(f, a, m + k) = Total(f, a, m) + Total(f, a + m, k)
    BY <1>2
  <2>5. Total(f, a, (m + k) + 1) = Total(f, a, m + k) + f[a + (m + k)]
    BY <2>2, TotalStep
  <2>6. Total(f, a + m, k + 1) = Total(f, a + m, k) + f[(a + m) + k]
    BY <2>2, TotalStep
  <2> QED
    BY <2>1, <2>3, <2>4, <2>5, <2>6
<1> HIDE DEF S
<1>3. n \in S
  BY <1>1, <1>2, Induction
<1> QED
  BY <1>3 DEF S

\* What is below a bound everywhere is below it on average.
LEMMA TotalOfSmall ==
  ASSUME NEW f, NEW a \in Nat, NEW n \in Nat \ {0}, NEW b \in Nat,
         \A i \in 0 .. n - 1 : f[a + i] \in Nat /\ f[a + i] < b
  PROVE  Total(f, a, n) < b * n
<1> DEFINE S == {m \in Nat : m <= n => Total(f, a, m) \in Nat /\ Total(f, a, m) + m <= b * m}
<1>1. 0 \in S
  BY TotalStep
<1>2. ASSUME NEW m \in Nat, m \in S PROVE m + 1 \in S
  <2>1. Total(f, a, m + 1) = Total(f, a, m) + f[a + m]
    BY TotalStep
  <2>2. m + 1 <= n => /\ Total(f, a, m) \in Nat /\ Total(f, a, m) + m <= b * m
                      /\ m \in 0 .. n - 1
    BY <1>2
  <2>3. m + 1 <= n => f[a + m] \in Nat /\ f[a + m] < b
    BY <2>2
  <2>4. b * (m + 1) = b * m + b /\ b * m \in Nat
    BY SMT
  <2>5. m + 1 <= n => /\ Total(f, a, m + 1) \in Nat
                      /\ Total(f, a, m + 1) + (m + 1) <= b * (m + 1)
    <3> HIDE DEF S
    <3> QED
      BY <2>1, <2>2, <2>3, <2>4
  <2> QED
    BY <2>5
<1> HIDE DEF S
<1>3. n \in S
  BY <1>1, <1>2, Induction
<1>4. Total(f, a, n) \in Nat /\ Total(f, a, n) + n <= b * n
  BY <1>3 DEF S
<1>5. b * n \in Nat
  BY SMT
<1> QED
  BY <1>4, <1>5

-----------------------------------------------------------------------------
(* The invariants.                                                         *)

(***************************************************************************)
(* The ring: slot i of the array holds the i-th of the last samples.       *)
(***************************************************************************)
Oldest  == IF historyFilled THEN historyIndex ELSE 0
Slot(i) == IF Oldest + i <= HistorySize THEN Oldest + i - 1 ELSE Oldest + i - 1 - HistorySize

RingInv ==
  /\ Len(samples) = IF historyFilled THEN HistorySize ELSE historyIndex
  /\ \A i \in 1 .. Len(samples) : samples[i] = energyHistory[Slot(i)]

(***************************************************************************)
(* The clock.  The time since the last boost is the code's difference as   *)
(* long as it is within the cooldown.                                      *)
(***************************************************************************)
Elapsed(t) == (now + Wrap - t) % Wrap

DistanceInv ==
  pc # "away" /\ sinceBoost <= Cooldown => Elapsed(lastBoostTime) = sinceBoost

(***************************************************************************)
(* The dark.  Since the field was last seen bright, or was given energy,   *)
(* there was no sample at all; or the last k were dark, too few to fill    *)
(* the history; or the whole history is dark, and the grace period or the  *)
(* cooldown is what holds the boost back.                                  *)
(***************************************************************************)
Filling == HistorySize * MaxGap

\* f units into the dark, u into a delay of length l.  It has held the boost back
\* from the start, or after the other delay, v since that began and of length m:
\* then there was no sample for a gap at most between the two.
HeldBy(f, u, l, v, m) ==
  /\ u < l
  /\ \/ f <= Filling + u
     \/ /\ f <= Filling + v
        /\ f <= Filling + m + MaxGap + u - 1
        /\ v <= Filling + m + MaxGap + u - 1

Held ==
  \/ HeldBy(darkFor, Elapsed(startupTime), Grace, Elapsed(lastBoostTime), Cooldown + 1)
  \/ HeldBy(darkFor, Elapsed(lastBoostTime), Cooldown + 1, Elapsed(startupTime), Grace)

Unsampled == samples = <<>> /\ darkFor <= MaxGap /\ Elapsed(startupTime) = darkFor

LastAreDark(k) ==
  /\ k <= Len(samples) /\ darkFor <= k * MaxGap
  /\ \A i \in Len(samples) - k + 1 .. Len(samples) : samples[i] < LowEnergy

AllAreDark == samples # <<>> /\ \A i \in 1 .. Len(samples) : samples[i] < LowEnergy

DarkInv ==
  pc # "away" =>
    \/ Unsampled
    \/ \E k \in 0 .. HistorySize - 1 : LastAreDark(k)
    \/ AllAreDark /\ Held

IInv == TypeOK /\ RingInv /\ DistanceInv /\ DarkInv

USE MonitorAssumption

-----------------------------------------------------------------------------
(* The clock.                                                              *)

LEMMA WrapOnce ==
  ASSUME NEW n \in Nat, n < Wrap + Wrap
  PROVE  n % Wrap = IF n < Wrap THEN n ELSE n - Wrap
<1>1. Wrap \in Nat \ {0}
  <2>1. (HistorySize + 2) * MaxGap \in Nat
    BY SMT
  <2> QED
    BY <2>1
<1>2. CASE n < Wrap
  BY <1>1, <1>2
<1>3. CASE n >= Wrap
  BY <1>1, <1>3
<1> QED
  BY <1>1, <1>2, <1>3

\* What the proofs need of the sizes.
LEMMA Sizes ==
  /\ Filling \in Nat /\ MaxGap <= Filling
  /\ \A k \in Nat : k * MaxGap \in Nat /\ (k + 1) * MaxGap = k * MaxGap + MaxGap
  /\ (HistorySize + 1) * MaxGap = Filling + MaxGap
  /\ Grace + Cooldown + Filling + MaxGap + MaxGap < Wrap
  /\ Wrap \in Nat \ {0}
<1>1. \A k \in Nat : k * MaxGap \in Nat /\ (k + 1) * MaxGap = k * MaxGap + MaxGap
  BY SMT
<1>2. /\ Filling \in Nat
      /\ (HistorySize + 1) * MaxGap = Filling + MaxGap
      /\ (HistorySize + 1 + 1) * MaxGap = (HistorySize + 1) * MaxGap + MaxGap
  BY <1>1 DEF Filling
<1>3. HistorySize - 1 \in Nat /\ HistorySize - 1 + 1 = HistorySize
  OBVIOUS
<1>4. HistorySize * MaxGap = (HistorySize - 1) * MaxGap + MaxGap /\ (HistorySize - 1) * MaxGap \in Nat
  BY <1>1, <1>3
<1>5. HistorySize + 1 + 1 = HistorySize + 2
  OBVIOUS
<1>6. (HistorySize + 2) * MaxGap = Filling + MaxGap + MaxGap
  BY <1>2, <1>5
<1> QED
  BY <1>1, <1>2, <1>4, <1>6 DEF Filling

\* The clock moves on by d: it wraps, or the time since t grows by d.
LEMMA TimePasses ==
  ASSUME TypeOK, NEW d \in 0 .. MaxGap, now' = Later(d),
         NEW t \in 0 .. Wrap - 1
  PROVE  /\ now' \in 0 .. Wrap - 1
         /\ Elapsed(t) \in Nat
         /\ Since(t, d) \in Nat
         /\ (now' + Wrap - t) % Wrap = Since(t, d)
         /\ Elapsed(t) + d < Wrap => Since(t, d) = Elapsed(t) + d
         /\ (now' + Wrap - now) % Wrap = d
<1>1. Wrap \in Nat \ {0} /\ MaxGap < Wrap /\ now \in 0 .. Wrap - 1
  BY Sizes DEF TypeOK
<1>2. now' = IF now + d < Wrap THEN now + d ELSE now + d - Wrap
  BY <1>1, WrapOnce DEF Later
<1>3. now' \in 0 .. Wrap - 1
  BY <1>1, <1>2
<1>4. Elapsed(t) = IF now >= t THEN now - t ELSE now + Wrap - t
  <2>1. now + Wrap - t \in Nat /\ now + Wrap - t < Wrap + Wrap
    BY <1>1
  <2> QED
    BY <1>1, <2>1, WrapOnce DEF Elapsed
<1>5. (now' + Wrap - t) % Wrap = IF now' >= t THEN now' - t ELSE now' + Wrap - t
  <2>1. now' + Wrap - t \in Nat /\ now' + Wrap - t < Wrap + Wrap
    BY <1>1, <1>3
  <2> QED
    BY <1>1, <1>3, <2>1, WrapOnce
<1>6. Since(t, d) = (now' + Wrap - t) % Wrap
  BY DEF Since
<1>7. (now' + Wrap - now) % Wrap = d
  <2>1. now' + Wrap - now \in Nat /\ now' + Wrap - now < Wrap + Wrap
    BY <1>1, <1>3
  <2>2. (now' + Wrap - now) % Wrap = IF now' + Wrap - now < Wrap THEN now' + Wrap - now ELSE now' - now
    BY <1>1, <1>3, <2>1, WrapOnce
  <2> QED
    BY <1>1, <1>2, <2>2
<1> QED
  BY <1>1, <1>2, <1>3, <1>4, <1>5, <1>6, <1>7

LEMMA ElapsedType ==
  ASSUME now \in 0 .. Wrap - 1, NEW t \in 0 .. Wrap - 1
  PROVE  Elapsed(t) \in Nat
<1>1. Wrap \in Nat \ {0}
  BY Sizes
<1>2. now + Wrap - t \in Nat /\ now + Wrap - t < Wrap + Wrap
  BY <1>1
<1> QED
  BY <1>1, <1>2, WrapOnce DEF Elapsed

LEMMA NoTime ==
  ASSUME NEW t \in 0 .. Wrap - 1
  PROVE  (t + Wrap - t) % Wrap = 0
<1>1. Wrap \in Nat \ {0}
  BY Sizes
<1>2. t + Wrap - t = Wrap /\ Wrap < Wrap + Wrap /\ ~(Wrap < Wrap)
  BY <1>1
<1>3. Wrap % Wrap = Wrap - Wrap
  BY <1>1, <1>2, WrapOnce
<1> QED
  BY <1>1, <1>2, <1>3

-----------------------------------------------------------------------------
(* The last samples.                                                       *)

LEMMA SamplesAreNumbers ==
  ASSUME NEW s \in Seq(Energy)
  PROVE  \A i \in 1 .. Len(s) : s[i] \in Nat
<1>1. \A i \in 1 .. Len(s) : s[i] \in Energy
  OBVIOUS
<1>2. Energy \subseteq Nat
  OBVIOUS
<1> QED
  BY <1>1, <1>2

LEMMA LatestSamples ==
  ASSUME NEW s \in Seq(Energy), Len(s) <= HistorySize, NEW e \in Energy,
         NEW t, t = Latest(Append(s, e))
  PROVE  /\ t \in Seq(Energy)
         /\ Len(t) = IF Len(s) < HistorySize THEN Len(s) + 1 ELSE HistorySize
         /\ t[Len(t)] = e
         /\ \A i \in 1 .. Len(t) - 1 :
               t[i] = s[IF Len(s) < HistorySize THEN i ELSE i + 1]
<1> DEFINE u == Append(s, e)
<1>1. /\ u \in Seq(Energy) /\ Len(u) = Len(s) + 1 /\ u[Len(s) + 1] = e
      /\ \A i \in 1 .. Len(s) : u[i] = s[i]
  OBVIOUS
<1>2. t = Latest(u)
  OBVIOUS
<1> HIDE DEF u
<1>3. CASE Len(s) < HistorySize
  <2>1. t = u
    BY <1>1, <1>2, <1>3 DEF Latest
  <2> QED
    BY <1>1, <1>3, <2>1
<1>4. CASE Len(s) = HistorySize
  <2>1. t = Tail(u) /\ u # <<>>
    BY <1>1, <1>2, <1>4 DEF Latest
  <2>2. /\ t \in Seq(Energy) /\ Len(t) = HistorySize
        /\ \A i \in 1 .. HistorySize : t[i] = u[i + 1]
    BY <1>1, <1>4, <2>1
  <2>3. t[HistorySize] = e
    BY <1>1, <1>4, <2>2
  <2>4. \A i \in 1 .. HistorySize - 1 : t[i] = s[i + 1]
    BY <1>1, <1>4, <2>2
  <2> QED
    BY <1>4, <2>2, <2>3, <2>4
<1> QED
  BY <1>3, <1>4

-----------------------------------------------------------------------------
(* Types.                                                                  *)

LEMMA InitTypes == Init => TypeOK
<1> SUFFICES ASSUME Init PROVE TypeOK
  OBVIOUS
<1>1. 0 \in 0 .. Wrap - 1
  BY Sizes
<1>2. 0 \in 0 .. HistorySize - 1 /\ Cooldown + 1 \in 0 .. Cooldown + 1
  OBVIOUS
<1>3. samples \in Seq(Energy) /\ Len(samples) <= HistorySize
  BY DEF Init
<1> QED
  BY <1>1, <1>2, <1>3 DEF Init, TypeOK

LEMMA NextIndexWraps ==
  ASSUME TypeOK
  PROVE  NextIndex = IF historyIndex + 1 = HistorySize THEN 0 ELSE historyIndex + 1
<1>1. historyIndex \in 0 .. HistorySize - 1 /\ HistorySize \in Nat \ {0}
  BY DEF TypeOK
<1>2. CASE historyIndex + 1 = HistorySize
  BY <1>1, <1>2 DEF NextIndex
<1>3. CASE historyIndex + 1 < HistorySize
  BY <1>1, <1>3 DEF NextIndex
<1> QED
  BY <1>1, <1>2, <1>3

LEMMA EntryTypes ==
  ASSUME TypeOK, InitSynaptide
  PROVE  /\ now' \in 0 .. Wrap - 1
         /\ energyHistory' \in [0 .. HistorySize - 1 -> Energy \cup {Fresh}]
         /\ historyIndex' \in 0 .. HistorySize - 1 /\ historyFilled' \in BOOLEAN
         /\ startupTime' \in 0 .. Wrap - 1 /\ lastBoostTime' \in 0 .. Wrap - 1
         /\ boosted' \in BOOLEAN
         /\ samples' \in Seq(Energy) /\ Len(samples') <= HistorySize
         /\ darkFor' \in Nat /\ sinceBoost' \in 0 .. Cooldown + 1
<1>1. PICK d \in 0 .. MaxGap : now' = Later(d) /\ darkFor' = d
  BY DEF InitSynaptide
<1>2. now' \in 0 .. Wrap - 1
  BY <1>1, Sizes, TimePasses DEF TypeOK
<1> QED
  BY <1>1, <1>2, Sizes DEF InitSynaptide, TypeOK

LEMMA SampleTypes ==
  ASSUME TypeOK, NEW e \in Energy, NEW d \in 1 .. MaxGap, Sample(e, d)
  PROVE  /\ now' \in 0 .. Wrap - 1
         /\ energyHistory' \in [0 .. HistorySize - 1 -> Energy \cup {Fresh}]
         /\ historyIndex' \in 0 .. HistorySize - 1 /\ historyFilled' \in BOOLEAN
         /\ samples' \in Seq(Energy) /\ Len(samples') <= HistorySize
         /\ pc' = "frame" /\ UNCHANGED <<requested, startupTime>>
<1>1. now' \in 0 .. Wrap - 1
  BY Sizes, TimePasses DEF Sample, TypeOK
<1>2. historyIndex' = IF historyIndex + 1 = HistorySize THEN 0 ELSE historyIndex + 1
  BY NextIndexWraps DEF Sample, UpdateHistory
<1>3. samples' \in Seq(Energy) /\ Len(samples') <= HistorySize
  BY LatestSamples DEF Sample, TypeOK
<1>4. /\ energyHistory' \in [0 .. HistorySize - 1 -> Energy \cup {Fresh}]
      /\ historyIndex' \in 0 .. HistorySize - 1
  BY <1>2 DEF Sample, UpdateHistory, TypeOK
<1>5. historyFilled' \in BOOLEAN
  BY Zenon DEF Sample, UpdateHistory, TypeOK
<1> QED
  BY <1>1, <1>3, <1>4, <1>5 DEF Sample

LEMMA TypeStep == TypeOK /\ [Next]_vars => TypeOK'
<1> SUFFICES ASSUME TypeOK, [Next]_vars PROVE TypeOK'
  OBVIOUS
<1>1. CASE PressReset
  BY <1>1 DEF PressReset, TypeOK, monitor, history
<1>2. CASE Enter \/ FinishReset
  BY <1>2, EntryTypes DEF Enter, FinishReset, TypeOK
<1>3. CASE Leave
  BY <1>3 DEF Leave, TypeOK, monitor, history
<1>4. CASE StartReset
  BY <1>4 DEF StartReset, TypeOK, monitor, history
<1>5. ASSUME NEW e \in Energy, NEW d \in 1 .. MaxGap, Boost(e, d) PROVE TypeOK'
  <2>1. Sample(e, d)
    BY <1>5 DEF Boost
  <2>2. lastBoostTime' = now' /\ boosted' = TRUE /\ darkFor' = 0 /\ sinceBoost' = 0
    BY <1>5 DEF Boost
  <2> QED
    BY <2>1, <2>2, SampleTypes DEF TypeOK
<1>6. ASSUME NEW e \in Energy, NEW d \in 1 .. MaxGap, NoBoost(e, d) PROVE TypeOK'
  <2>1. Sample(e, d)
    BY <1>6 DEF NoBoost
  <2>2. /\ UNCHANGED lastBoostTime /\ boosted' = FALSE
        /\ darkFor' = IF e < LowEnergy THEN darkFor + d ELSE 0
        /\ sinceBoost' = IF sinceBoost + d > Cooldown THEN Cooldown + 1 ELSE sinceBoost + d
    BY <1>6 DEF NoBoost, Ages
  <2>3. darkFor' \in Nat /\ sinceBoost' \in 0 .. Cooldown + 1
    BY <2>2 DEF TypeOK
  <2> QED
    BY <2>1, <2>2, <2>3, SampleTypes DEF TypeOK
<1>7. CASE UNCHANGED vars
  BY <1>7 DEF vars, monitor, history, TypeOK
<1> QED
  BY <1>1, <1>2, <1>3, <1>4, <1>5, <1>6, <1>7 DEF Next, Monitor, Boosts

-----------------------------------------------------------------------------
(* The ring holds the last samples.                                        *)

LEMMA SampleRing ==
  ASSUME TypeOK, RingInv, NEW e \in Energy, NEW d \in 1 .. MaxGap, Sample(e, d)
  PROVE  /\ RingInv'
         /\ samples' # <<>> /\ samples'[Len(samples')] = e
         /\ Len(samples') = IF Len(samples) < HistorySize THEN Len(samples) + 1 ELSE HistorySize
         /\ \A i \in 1 .. Len(samples') - 1 :
               samples'[i] = samples[IF Len(samples) < HistorySize THEN i ELSE i + 1]
<1> DEFINE N == HistorySize
<1>1. /\ samples' \in Seq(Energy)
      /\ Len(samples') = IF Len(samples) < N THEN Len(samples) + 1 ELSE N
      /\ samples'[Len(samples')] = e
      /\ \A i \in 1 .. Len(samples') - 1 :
            samples'[i] = samples[IF Len(samples) < N THEN i ELSE i + 1]
  BY LatestSamples DEF Sample, TypeOK
<1>2. /\ N \in Nat \ {0} /\ historyIndex \in 0 .. N - 1 /\ historyFilled \in BOOLEAN
      /\ Len(samples) \in Nat
      /\ energyHistory \in [0 .. N - 1 -> Energy \cup {Fresh}]
  BY DEF TypeOK
<1>3. /\ historyIndex' = IF historyIndex + 1 = N THEN 0 ELSE historyIndex + 1
      /\ historyFilled' <=> historyFilled \/ historyIndex' = 0
      /\ energyHistory' = [energyHistory EXCEPT ![historyIndex] = e]
  BY NextIndexWraps DEF Sample, UpdateHistory
<1>4. Len(samples) = IF historyFilled THEN N ELSE historyIndex
  BY DEF RingInv
<1>5. \A i \in 1 .. Len(samples) : samples[i] = energyHistory[Slot(i)]
  BY DEF RingInv
<1>6. Len(samples') = IF historyFilled' THEN N ELSE historyIndex'
  BY <1>1, <1>2, <1>3, <1>4
<1>7. /\ Len(samples') \in Nat \ {0} /\ samples' # <<>>
      /\ energyHistory'[historyIndex] = e
  BY <1>1, <1>2, <1>3
<1>8. ASSUME NEW i \in Nat, i \in 1 .. Len(samples') PROVE samples'[i] = energyHistory'[Slot(i)']
  <2>1. CASE i = Len(samples')
    <3>1. Slot(i)' = historyIndex
      BY <1>1, <1>2, <1>3, <1>4, <1>6, <1>7, <2>1 DEF Slot, Oldest
    <3> QED
      BY <1>1, <1>7, <2>1, <3>1
  <2>2. CASE i \in 1 .. Len(samples') - 1
    <3> DEFINE j == IF Len(samples) < N THEN i ELSE i + 1
    <3>1. j \in 1 .. Len(samples) /\ samples'[i] = samples[j]
      BY <1>1, <1>2, <2>2
    <3>2. Slot(i)' = Slot(j) /\ Slot(j) # historyIndex /\ Slot(j) \in 0 .. N - 1
      BY <1>1, <1>2, <1>3, <1>4, <1>6, <2>2 DEF Slot, Oldest
    <3>3. energyHistory'[Slot(j)] = energyHistory[Slot(j)]
      BY <1>2, <1>3, <3>2
    <3> QED
      BY <1>5, <3>1, <3>2, <3>3
  <2> QED
    BY <1>7, <1>8, <2>1, <2>2
<1>9. RingInv'
  <2>1. \A i \in 1 .. Len(samples') : samples'[i] = energyHistory'[Slot(i)']
    BY <1>7, <1>8
  <2> QED
    BY <1>6, <2>1 DEF RingInv
<1> QED
  BY <1>1, <1>7, <1>9

LEMMA RingStep == TypeOK /\ RingInv /\ [Next]_vars => RingInv'
<1> SUFFICES ASSUME TypeOK, RingInv, [Next]_vars PROVE RingInv'
  OBVIOUS
<1>1. CASE InitSynaptide
  BY <1>1 DEF InitSynaptide, RingInv
<1>2. CASE \E e \in Energy, d \in 1 .. MaxGap : Sample(e, d)
  BY <1>2, SampleRing
<1>3. CASE UNCHANGED <<monitor, samples>>
  BY <1>3 DEF monitor, RingInv, Slot, Oldest
<1> QED
  BY <1>1, <1>2, <1>3 DEF Next, PressReset, Enter, Leave, StartReset, FinishReset, Monitor,
     Boosts, Boost, NoBoost, vars, history

-----------------------------------------------------------------------------
(* The time since the last boost.                                          *)

LEMMA DistanceStep == TypeOK /\ DistanceInv /\ [Next]_vars => DistanceInv'
<1> SUFFICES ASSUME TypeOK, DistanceInv, [Next]_vars PROVE DistanceInv'
  OBVIOUS
<1>1. CASE InitSynaptide
  BY <1>1 DEF InitSynaptide, DistanceInv
<1>2. CASE Leave
  BY <1>2 DEF Leave, DistanceInv
<1>3. ASSUME NEW e \in Energy, NEW d \in 1 .. MaxGap, Boost(e, d) PROVE DistanceInv'
  <2>1. now' \in 0 .. Wrap - 1 /\ lastBoostTime' = now' /\ sinceBoost' = 0
    BY <1>3, SampleTypes DEF Boost
  <2>2. (now' + Wrap - now') % Wrap = 0
    BY <2>1, NoTime
  <2>3. Elapsed(lastBoostTime)' = 0
    BY <2>1, <2>2 DEF Elapsed
  <2> QED
    BY <2>1, <2>3 DEF DistanceInv
<1>4. ASSUME NEW e \in Energy, NEW d \in 1 .. MaxGap, NoBoost(e, d) PROVE DistanceInv'
  <2>1. /\ now' = Later(d) /\ lastBoostTime' = lastBoostTime /\ pc = "frame"
        /\ sinceBoost' = IF sinceBoost + d > Cooldown THEN Cooldown + 1 ELSE sinceBoost + d
    BY <1>4 DEF NoBoost, Sample, Ages
  <2> SUFFICES ASSUME sinceBoost' <= Cooldown PROVE Elapsed(lastBoostTime)' = sinceBoost'
    BY DEF DistanceInv
  <2>2. sinceBoost \in Nat /\ sinceBoost + d <= Cooldown /\ sinceBoost' = sinceBoost + d
    BY <2>1 DEF TypeOK
  <2>3. Elapsed(lastBoostTime) = sinceBoost
    BY <2>1, <2>2 DEF DistanceInv
  <2>4. Elapsed(lastBoostTime) + d < Wrap
    BY <2>2, <2>3, Sizes
  <2>5. Elapsed(lastBoostTime)' = Elapsed(lastBoostTime) + d
    <3>1. Elapsed(lastBoostTime)' = (now' + Wrap - lastBoostTime) % Wrap
      BY <2>1 DEF Elapsed
    <3>2. d \in 0 .. MaxGap /\ lastBoostTime \in 0 .. Wrap - 1
      BY DEF TypeOK
    <3> QED
      BY <2>1, <2>4, <3>1, <3>2, TimePasses
  <2> QED
    BY <2>2, <2>3, <2>5
<1>5. CASE UNCHANGED <<now, lastBoostTime, sinceBoost>> /\ (pc = "away" => pc' = "away")
  BY <1>5 DEF DistanceInv, Elapsed
<1> QED
  BY <1>1, <1>2, <1>3, <1>4, <1>5 DEF Next, PressReset, Enter, StartReset, FinishReset, Monitor,
     Boosts, vars, monitor, history

-----------------------------------------------------------------------------
(* The average.                                                            *)

\* RingInv, of any ring and samples.
RingOf(h, index, filled, s) ==
  LET first == IF filled THEN index ELSE 0
  IN  /\ Len(s) = IF filled THEN HistorySize ELSE index
      /\ \A i \in 1 .. Len(s) :
            s[i] = h[IF first + i <= HistorySize THEN first + i - 1
                     ELSE first + i - 1 - HistorySize]

(***************************************************************************)
(* getAverageEnergy() adds the array from its first entry on, which is the *)
(* oldest sample only until the array wraps: the sum is the same.          *)
(***************************************************************************)
LEMMA AverageOfRing ==
  ASSUME NEW h \in [0 .. HistorySize - 1 -> Energy \cup {Fresh}],
         NEW index \in 0 .. HistorySize - 1, NEW filled \in BOOLEAN,
         NEW s \in Seq(Energy), RingOf(h, index, filled, s)
  PROVE  AverageIsLow(h, index, filled) <=> s # <<>> /\ AverageBelow(s)
<1> DEFINE N == HistorySize
<1>1. /\ N \in Nat \ {0} /\ N \in Nat /\ index \in Nat /\ N - index \in Nat
      /\ Len(s) \in Nat /\ 0 \in Nat /\ 1 \in Nat
  OBVIOUS
<1>2. \A i \in 0 .. N - 1 : h[i] \in Nat
  OBVIOUS
<1>3. \A i \in 1 .. Len(s) : s[i] \in Nat
  BY SamplesAreNumbers
<1>4. Total(h, 0, Len(s)) = Total(s, 1, Len(s))
  <2>1. CASE ~filled
    <3>1. PICK n \in Nat : n = Len(s)
      BY <1>1
    <3>2. \A i \in 0 .. n - 1 : h[0 + i] = s[1 + i]
      BY <1>1, <2>1, <3>1 DEF RingOf
    <3>3. Total(h, 0, n) = Total(s, 1, n)
      BY <3>2, TotalOfEquals
    <3> QED
      BY <3>1, <3>3
  <2>2. CASE filled
    <3>1. Len(s) = N
      BY <2>2 DEF RingOf
    <3>2. \A i \in 0 .. (N - index) - 1 : h[index + i] = s[1 + i]
      BY <1>1, <2>2, <3>1 DEF RingOf
    <3>3. Total(h, index, N - index) = Total(s, 1, N - index)
      BY <1>1, <3>2, TotalOfEquals
    <3>4. \A i \in 0 .. index - 1 : h[0 + i] = s[(1 + (N - index)) + i]
      BY <1>1, <2>2, <3>1 DEF RingOf
    <3>5. Total(h, 0, index) = Total(s, 1 + (N - index), index)
      <4>1. 1 + (N - index) \in Nat
        BY <1>1
      <4> QED
        BY <1>1, <3>4, <4>1, TotalOfEquals
    <3>6. Total(h, 0, N) = Total(h, 0, index) + Total(h, index, N - index)
      <4>1. \A i \in 0 .. index + (N - index) - 1 : h[0 + i] \in Nat
        BY <1>1, <1>2
      <4>2. Total(h, 0, index + (N - index)) = Total(h, 0, index) + Total(h, 0 + index, N - index)
        BY <1>1, <4>1, TotalSplits
      <4>3. index + (N - index) = N /\ 0 + index = index
        BY <1>1
      <4> QED
        BY <4>2, <4>3
    <3>7. Total(s, 1, N) = Total(s, 1, N - index) + Total(s, 1 + (N - index), index)
      <4>1. \A i \in 0 .. (N - index) + index - 1 : s[1 + i] \in Nat
        BY <1>1, <1>3, <3>1
      <4>2. Total(s, 1, (N - index) + index) = Total(s, 1, N - index) + Total(s, 1 + (N - index), index)
        BY <1>1, <4>1, TotalSplits
      <4>3. (N - index) + index = N
        BY <1>1
      <4> QED
        BY <4>2, <4>3
    <3>8. Total(h, 0, index) \in Nat /\ Total(h, index, N - index) \in Nat
      <4>1. \A i \in 0 .. index - 1 : h[0 + i] \in Nat
        BY <1>1, <1>2
      <4>2. \A i \in 0 .. (N - index) - 1 : h[index + i] \in Nat
        BY <1>1, <1>2
      <4> QED
        BY <1>1, <4>1, <4>2, TotalType
    <3> QED
      BY <3>1, <3>3, <3>5, <3>6, <3>7, <3>8
  <2> QED
    BY <2>1, <2>2
<1>5. AverageIsLow(h, index, filled) <=> Len(s) > 0 /\ Total(h, 0, Len(s)) < LowEnergy * Len(s)
  BY DEF AverageIsLow, RingOf
<1>6. s # <<>> <=> Len(s) > 0
  BY <1>1
<1> QED
  BY <1>4, <1>5, <1>6 DEF AverageBelow

LEMMA SampleAverage ==
  ASSUME TypeOK, RingInv, NEW e \in Energy, NEW d \in 1 .. MaxGap, Sample(e, d)
  PROVE  AverageIsLow(energyHistory', historyIndex', historyFilled') <=> AverageBelow(samples')
<1>1. /\ energyHistory' \in [0 .. HistorySize - 1 -> Energy \cup {Fresh}]
      /\ historyIndex' \in 0 .. HistorySize - 1 /\ historyFilled' \in BOOLEAN
      /\ samples' \in Seq(Energy)
  BY SampleTypes
<1>2. RingInv' /\ samples' # <<>>
  BY SampleRing
<1>3. RingOf(energyHistory', historyIndex', historyFilled', samples')
  BY <1>2 DEF RingInv, Slot, Oldest, RingOf
<1> QED
  BY <1>1, <1>2, <1>3, AverageOfRing

-----------------------------------------------------------------------------
(* The dark.                                                               *)

(***************************************************************************)
(* The hand-over between the two delays: as the gap between samples, the   *)
(* delays and the history together are shorter than the clock, one that    *)
(* still runs was there before the dark, or began to count again after it  *)
(* wrapped; then it was the other that held the boost back until a gap     *)
(* before that.                                                            *)
(***************************************************************************)
LEMMA HeldStep ==
  ASSUME NEW f \in Nat, NEW d \in 1 .. MaxGap,
         NEW u \in Nat, NEW l \in Nat, NEW v \in Nat, NEW m \in Nat,
         l + m + Filling + MaxGap + MaxGap <= Wrap,
         HeldBy(f, u, l, v, m),
         NEW nu \in Nat, NEW nv \in Nat,
         u + d < Wrap => nu = u + d,
         v + d < Wrap => nv = v + d,
         nu < l \/ nv < m
  PROVE  HeldBy(f + d, nu, l, nv, m) \/ HeldBy(f + d, nv, m, nu, l)
<1>1. Filling \in Nat /\ Wrap \in Nat /\ MaxGap \in Nat
  BY Sizes
<1>2. u < l /\ nu = u + d
  BY <1>1 DEF HeldBy
<1>3. CASE nu < l
  <2>1. v + d < Wrap \/ f <= Filling + u
    BY <1>1, <1>2 DEF HeldBy
  <2> QED
    BY <1>1, <1>2, <1>3, <2>1 DEF HeldBy
<1>4. CASE nu >= l /\ nv < m
  BY <1>1, <1>2, <1>4 DEF HeldBy
<1> QED
  BY <1>3, <1>4

\* No boost although every sample is dark: one of the delays runs.
LEMMA DelaysRun ==
  ASSUME TypeOK, RingInv, NEW e \in Energy, NEW d \in 1 .. MaxGap, Sample(e, d),
         ~NeedsEnergyBoost(d), \A i \in 1 .. Len(samples') : samples'[i] < LowEnergy
  PROVE  Since(startupTime, d) < Grace \/ Since(lastBoostTime, d) < Cooldown + 1
<1>1. samples' \in Seq(Energy) /\ Len(samples') \in Nat \ {0}
  <2>1. samples' \in Seq(Energy) /\ samples' # <<>>
    BY SampleTypes, SampleRing
  <2> QED
    BY <2>1
<1>2. AverageBelow(samples')
  <2>1. \A i \in 1 .. Len(samples') : samples'[i] \in Nat
    BY <1>1, SamplesAreNumbers
  <2>2. \A i \in 0 .. Len(samples') - 1 : samples'[1 + i] \in Nat /\ samples'[1 + i] < LowEnergy
    BY <1>1, <2>1
  <2>3. Total(samples', 1, Len(samples')) < LowEnergy * Len(samples')
    BY <1>1, <2>2, TotalOfSmall
  <2> QED
    BY <2>3 DEF AverageBelow
<1>3. AverageIsLow(energyHistory', historyIndex', historyFilled')
  BY <1>2, SampleAverage
<1>4. Since(startupTime, d) \in Nat /\ Since(lastBoostTime, d) \in Nat
  <2>1. now' = Later(d) /\ d \in 0 .. MaxGap
    BY DEF Sample
  <2> QED
    BY <2>1, TimePasses DEF TypeOK
<1>5. ~(Since(startupTime, d) >= Grace) \/ ~(Since(lastBoostTime, d) > Cooldown)
  BY <1>3 DEF NeedsEnergyBoost, CooldownExpired
<1> QED
  BY <1>4, <1>5

\* A dark that has just filled the history, or began with the monitor.
LEMMA HeldFromTheStart ==
  ASSUME NEW f \in Nat, NEW u \in Nat, NEW v \in Nat,
         u < Grace \/ v < Cooldown + 1,
         f <= Filling \/ (f = u /\ f <= MaxGap + MaxGap)
  PROVE  HeldBy(f, u, Grace, v, Cooldown + 1) \/ HeldBy(f, v, Cooldown + 1, u, Grace)
<1>1. Filling \in Nat /\ MaxGap \in Nat /\ MaxGap <= Filling
  BY Sizes
<1>2. CASE u < Grace
  BY <1>1, <1>2 DEF HeldBy
<1>3. CASE v < Cooldown + 1
  BY <1>1, <1>3 DEF HeldBy
<1> QED
  BY <1>2, <1>3

LEMMA DarkSample ==
  ASSUME TypeOK, RingInv, DarkInv, NEW e \in Energy, NEW d \in 1 .. MaxGap,
         NoBoost(e, d), e < LowEnergy
  PROVE  DarkInv'
<1> DEFINE N == HistorySize
           n == Len(samples')
           u == Since(startupTime, d)
           v == Since(lastBoostTime, d)
<1>1. /\ Sample(e, d) /\ ~NeedsEnergyBoost(d) /\ darkFor' = darkFor + d
      /\ lastBoostTime' = lastBoostTime /\ startupTime' = startupTime
      /\ pc = "frame" /\ now' = Later(d)
  BY DEF NoBoost, Sample
<1>2. /\ samples' # <<>> /\ samples'[n] = e
      /\ n = IF Len(samples) < N THEN Len(samples) + 1 ELSE N
      /\ \A i \in 1 .. n - 1 : samples'[i] = samples[IF Len(samples) < N THEN i ELSE i + 1]
  BY <1>1, SampleRing
<1>3. Len(samples) \in 0 .. N /\ n \in 1 .. N
  BY <1>2 DEF TypeOK
<1>4. /\ darkFor \in Nat /\ darkFor + d \in Nat /\ Filling \in Nat /\ MaxGap \in Nat
      /\ startupTime \in 0 .. Wrap - 1 /\ lastBoostTime \in 0 .. Wrap - 1
  BY Sizes DEF TypeOK
<1>5. /\ u \in Nat /\ v \in Nat
      /\ Elapsed(startupTime) \in Nat /\ Elapsed(lastBoostTime) \in Nat
      /\ Elapsed(startupTime) + d < Wrap => u = Elapsed(startupTime) + d
      /\ Elapsed(lastBoostTime) + d < Wrap => v = Elapsed(lastBoostTime) + d
      /\ (now' + Wrap - startupTime) % Wrap = u
      /\ (now' + Wrap - lastBoostTime) % Wrap = v
  BY <1>1, <1>4, TimePasses
<1>6. Elapsed(startupTime)' = u /\ Elapsed(lastBoostTime)' = v
  BY <1>1, <1>5 DEF Elapsed
<1> HIDE DEF n, u, v
<1>7. ASSUME \A i \in 1 .. n : samples'[i] < LowEnergy,
             \/ HeldBy(darkFor + d, u, Grace, v, Cooldown + 1)
             \/ HeldBy(darkFor + d, v, Cooldown + 1, u, Grace)
      PROVE  DarkInv'
  <2>1. AllAreDark'
    BY <1>2, <1>7 DEF AllAreDark, n
  <2>2. Held'
    <3>1. \/ HeldBy(darkFor', Elapsed(startupTime)', Grace, Elapsed(lastBoostTime)', Cooldown + 1)
          \/ HeldBy(darkFor', Elapsed(lastBoostTime)', Cooldown + 1, Elapsed(startupTime)', Grace)
      BY <1>1, <1>6, <1>7
    <3> QED
      BY <3>1 DEF Held, HeldBy
  <2> QED
    BY <2>1, <2>2 DEF DarkInv
<1>8. ASSUME \A i \in 1 .. n : samples'[i] < LowEnergy PROVE u < Grace \/ v < Cooldown + 1
  BY <1>1, <1>8, DelaysRun DEF n, u, v
<1>9. CASE Unsampled
  <2>1. samples = <<>> /\ darkFor <= MaxGap /\ Elapsed(startupTime) = darkFor
    BY <1>9 DEF Unsampled
  <2>2. n = 1 /\ \A i \in 1 .. n : samples'[i] < LowEnergy
    BY <1>2, <2>1
  <2>3. darkFor + d = u /\ darkFor + d <= MaxGap + MaxGap
    <3>1. darkFor + d <= MaxGap + MaxGap /\ MaxGap + MaxGap < Wrap
      BY <1>4, <2>1, Sizes
    <3> QED
      BY <1>4, <1>5, <2>1, <3>1, Sizes
  <2> QED
    BY <1>4, <1>5, <1>7, <1>8, <2>2, <2>3, HeldFromTheStart
<1>10. ASSUME NEW k \in 0 .. N - 1, LastAreDark(k) PROVE DarkInv'
  <2>1. /\ k <= Len(samples) /\ darkFor <= k * MaxGap
        /\ \A i \in Len(samples) - k + 1 .. Len(samples) : samples[i] < LowEnergy
    BY <1>10 DEF LastAreDark
  <2>2. k + 1 <= n /\ \A i \in n - (k + 1) + 1 .. n : samples'[i] < LowEnergy
    <3>1. k + 1 <= n
      BY <1>2, <1>3, <2>1
    <3>2. ASSUME NEW i \in n - (k + 1) + 1 .. n PROVE samples'[i] < LowEnergy
      <4>1. CASE i = n
        BY <1>2, <4>1
      <4>2. CASE i # n
        <5> DEFINE j == IF Len(samples) < N THEN i ELSE i + 1
        <5>1. i \in 1 .. n - 1 /\ j \in Len(samples) - k + 1 .. Len(samples)
          BY <1>2, <1>3, <2>1, <3>1, <4>2
        <5>2. samples'[i] = samples[j]
          BY <1>2, <5>1
        <5> QED
          BY <2>1, <5>1, <5>2
      <4> QED
        BY <4>1, <4>2
    <3> QED
      BY <3>1, <3>2
  <2>3. darkFor + d <= (k + 1) * MaxGap
    <3>1. k * MaxGap \in Nat /\ (k + 1) * MaxGap = k * MaxGap + MaxGap
      BY Sizes
    <3> QED
      BY <1>4, <2>1, <3>1
  <2>4. CASE k + 1 < N
    <3>1. LastAreDark(k + 1)'
      BY <1>1, <2>2, <2>3 DEF LastAreDark, n
    <3>2. k + 1 \in 0 .. N - 1
      BY <2>4
    <3> QED
      BY <3>1, <3>2 DEF DarkInv
  <2>5. CASE k + 1 = N
    <3>1. n = N /\ \A i \in 1 .. n : samples'[i] < LowEnergy
      BY <1>3, <2>2, <2>5
    <3>2. darkFor + d <= Filling
      BY <2>3, <2>5 DEF Filling
    <3>3. u < Grace \/ v < Cooldown + 1
      BY <1>8, <3>1
    <3>4. \/ HeldBy(darkFor + d, u, Grace, v, Cooldown + 1)
          \/ HeldBy(darkFor + d, v, Cooldown + 1, u, Grace)
      BY <1>4, <1>5, <3>2, <3>3, HeldFromTheStart
    <3> QED
      BY <1>7, <3>1, <3>4
  <2> QED
    BY <2>4, <2>5
<1>11. CASE AllAreDark /\ Held
  <2>1. \A i \in 1 .. n : samples'[i] < LowEnergy
    <3> SUFFICES ASSUME NEW i \in 1 .. n, i # n PROVE samples'[i] < LowEnergy
      BY <1>2
    <3> DEFINE j == IF Len(samples) < N THEN i ELSE i + 1
    <3>1. i \in 1 .. n - 1 /\ j \in 1 .. Len(samples)
      BY <1>2, <1>3
    <3>2. samples'[i] = samples[j]
      BY <1>2, <3>1
    <3> QED
      BY <1>11, <3>1, <3>2 DEF AllAreDark
  <2>2. u < Grace \/ v < Cooldown + 1
    BY <1>8, <2>1
  <2>3. /\ Grace \in Nat /\ Cooldown + 1 \in Nat
        /\ Grace + (Cooldown + 1) + Filling + MaxGap + MaxGap <= Wrap
        /\ (Cooldown + 1) + Grace + Filling + MaxGap + MaxGap <= Wrap
    BY Sizes
  <2>4. CASE HeldBy(darkFor, Elapsed(startupTime), Grace, Elapsed(lastBoostTime), Cooldown + 1)
    BY <1>4, <1>5, <1>7, <2>1, <2>2, <2>3, <2>4, HeldStep
  <2>5. CASE HeldBy(darkFor, Elapsed(lastBoostTime), Cooldown + 1, Elapsed(startupTime), Grace)
    BY <1>4, <1>5, <1>7, <2>1, <2>2, <2>3, <2>5, HeldStep
  <2> QED
    BY <1>11, <2>4, <2>5 DEF Held
<1> QED
  BY <1>1, <1>9, <1>10, <1>11 DEF DarkInv

LEMMA DarkStep == TypeOK /\ RingInv /\ DarkInv /\ [Next]_vars => DarkInv'
<1> SUFFICES ASSUME TypeOK, RingInv, DarkInv, [Next]_vars PROVE DarkInv'
  OBVIOUS
<1>1. CASE Enter \/ FinishReset
  <2>1. InitSynaptide
    BY <1>1 DEF Enter, FinishReset
  <2>2. PICK d \in 0 .. MaxGap : now' = Later(d) /\ darkFor' = d
    BY <2>1 DEF InitSynaptide
  <2>3. samples' = <<>> /\ startupTime' = now
    BY <2>1 DEF InitSynaptide
  <2>4. (now' + Wrap - now) % Wrap = d
    BY <2>2, TimePasses DEF TypeOK
  <2>5. Elapsed(startupTime)' = d /\ d <= MaxGap
    BY <2>3, <2>4 DEF Elapsed
  <2> QED
    BY <2>2, <2>3, <2>5 DEF DarkInv, Unsampled
<1>2. CASE Leave
  BY <1>2 DEF Leave, DarkInv
<1>3. ASSUME NEW e \in Energy, NEW d \in 1 .. MaxGap, Sample(e, d), darkFor' = 0 PROVE DarkInv'
  <2>1. Len(samples') \in Nat
    BY <1>3, SampleTypes
  <2>2. LastAreDark(0)'
    BY <1>3, <2>1, Sizes DEF LastAreDark
  <2>3. 0 \in 0 .. HistorySize - 1
    OBVIOUS
  <2> QED
    BY <2>2, <2>3 DEF DarkInv
<1>4. ASSUME NEW e \in Energy, NEW d \in 1 .. MaxGap, NoBoost(e, d) PROVE DarkInv'
  <2>1. CASE e < LowEnergy
    BY <1>4, <2>1, DarkSample
  <2>2. CASE ~(e < LowEnergy)
    BY <1>3, <1>4, <2>2 DEF NoBoost
  <2> QED
    BY <2>1, <2>2
<1>5. CASE UNCHANGED <<now, monitor, history>> /\ (pc = "away" => pc' = "away")
  <2>1. /\ UNCHANGED <<now, samples, darkFor, startupTime, lastBoostTime>>
        /\ pc = "away" => pc' = "away"
    BY <1>5 DEF monitor, history
  <2>2. UNCHANGED <<Unsampled, AllAreDark, Held>>
    BY <2>1 DEF Unsampled, AllAreDark, Held, Elapsed
  <2>3. \A k : LastAreDark(k) = LastAreDark(k)'
    BY <2>1 DEF LastAreDark
  <2> QED
    BY <2>1, <2>2, <2>3 DEF DarkInv
<1>6. CASE \E e \in Energy, d \in 1 .. MaxGap : Boost(e, d)
  BY <1>3, <1>6 DEF Boost
<1> QED
  BY <1>1, <1>2, <1>4, <1>5, <1>6 DEF Next, PressReset, StartReset, Monitor, Boosts, vars

-----------------------------------------------------------------------------
(* The theorems.                                                           *)

LEMMA InitInv == Init => IInv
<1> SUFFICES ASSUME Init PROVE IInv
  OBVIOUS
<1>1. TypeOK
  BY InitTypes
<1>2. RingInv
  BY DEF Init, RingInv
<1>3. DistanceInv /\ DarkInv
  BY DEF Init, DistanceInv, DarkInv
<1> QED
  BY <1>1, <1>2, <1>3 DEF IInv

LEMMA StepInv == IInv /\ [Next]_vars => IInv'
BY TypeStep, RingStep, DistanceStep, DarkStep DEF IInv

LEMMA AlwaysInv == Spec => []IInv
BY InitInv, StepInv, PTL DEF Spec

\* The types: every value of the monitor's state is one that the code's types
\* and its ring of samples allow, in every reachable state.
THEOREM TypeCorrect == Spec => []TypeOK
<1>1. IInv => TypeOK
  BY DEF IInv
<1> QED
  BY <1>1, AlwaysInv, PTL

(***************************************************************************)
(* A field that stays dark is given energy at the latest when its samples  *)
(* have filled the history and the two delays have passed, one after the   *)
(* other: the sampling of tick() and the three conditions of               *)
(* needsEnergyBoost(), whatever the clock counts when the monitor is made  *)
(* and whenever it wraps.                                                  *)
(***************************************************************************)
THEOREM RevivalCorrect == Spec => []DarkFieldIsRevived
<1>1. IInv => DarkFieldIsRevived
  <2> SUFFICES ASSUME IInv, pc = "frame"
               PROVE  darkFor < (HistorySize + 1) * MaxGap + Grace + Cooldown
    BY DEF DarkFieldIsRevived
  <2>1. darkFor \in Nat
    BY DEF IInv, TypeOK
  <2>2. /\ Filling \in Nat /\ (HistorySize + 1) * MaxGap = Filling + MaxGap
        /\ MaxGap \in Nat \ {0} /\ Grace \in Nat \ {0} /\ Cooldown \in Nat
    BY Sizes
  <2>3. CASE Unsampled
    BY <2>1, <2>2, <2>3 DEF Unsampled
  <2>4. ASSUME NEW k \in 0 .. HistorySize - 1, LastAreDark(k) PROVE darkFor <= Filling
    <3>1. k * MaxGap <= Filling
      <4>1. HistorySize - k \in Nat /\ HistorySize = k + (HistorySize - k)
        OBVIOUS
      <4>2. (k + (HistorySize - k)) * MaxGap = k * MaxGap + (HistorySize - k) * MaxGap
        BY <4>1, SMT
      <4>3. (HistorySize - k) * MaxGap \in Nat /\ k * MaxGap \in Nat
        BY <4>1, Sizes
      <4> QED
        BY <4>1, <4>2, <4>3 DEF Filling
    <3> QED
      BY <2>1, <2>2, <2>4, <3>1, Sizes DEF LastAreDark
  <2>5. CASE Held
    <3>1. Elapsed(startupTime) \in Nat /\ Elapsed(lastBoostTime) \in Nat
      BY ElapsedType DEF IInv, TypeOK
    <3> QED
      BY <2>1, <2>2, <2>5, <3>1 DEF Held, HeldBy
  <2> QED
    BY <2>1, <2>2, <2>3, <2>4, <2>5 DEF IInv, DarkInv
<1> QED
  BY <1>1, AlwaysInv, PTL

(***************************************************************************)
(* A field that lives is left alone: needsEnergyBoost() answers yes only   *)
(* when the samples of this monitor that are still in the ring average     *)
(* below the bound, however often the ring has wrapped and whatever it     *)
(* started from.                                                           *)
(***************************************************************************)
THEOREM LivingCorrect == Spec => LivingFieldIsLeftAlone
<1>1. IInv /\ [Next]_vars => [Boosts => AverageBelow(samples')]_vars
  <2> SUFFICES ASSUME IInv, NEW e \in Energy, NEW d \in 1 .. MaxGap, Boost(e, d)
               PROVE  AverageBelow(samples')
    BY DEF Boosts
  <2>1. Sample(e, d) /\ AverageIsLow(energyHistory', historyIndex', historyFilled')
    BY DEF Boost, NeedsEnergyBoost
  <2> QED
    BY <2>1, SampleAverage DEF IInv
<1> QED
  BY <1>1, AlwaysInv, PTL DEF Spec, LivingFieldIsLeftAlone

(***************************************************************************)
(* The boosts of one monitor are more than the cooldown apart: the         *)
(* difference that needsEnergyBoost() takes of two readings of micros() is *)
(* the time that has passed for as long as it matters.                     *)
(***************************************************************************)
THEOREM DistanceCorrect == Spec => BoostsKeepTheirDistance
<1>1. IInv /\ [Next]_vars =>
        [Boosts => sinceBoost + ((now' + Wrap - now) % Wrap) > Cooldown]_vars
  <2> SUFFICES ASSUME IInv, NEW e \in Energy, NEW d \in 1 .. MaxGap, Boost(e, d)
               PROVE  sinceBoost + ((now' + Wrap - now) % Wrap) > Cooldown
    BY DEF Boosts
  <2>1. TypeOK /\ DistanceInv /\ lastBoostTime \in 0 .. Wrap - 1 /\ sinceBoost \in 0 .. Cooldown + 1
    BY DEF IInv, TypeOK
  <2>2. pc = "frame" /\ now' = Later(d) /\ Since(lastBoostTime, d) > Cooldown
    BY DEF Boost, Sample, NeedsEnergyBoost, CooldownExpired
  <2>3. /\ (now' + Wrap - now) % Wrap = d
        /\ Elapsed(lastBoostTime) + d < Wrap => Since(lastBoostTime, d) = Elapsed(lastBoostTime) + d
    BY <2>1, <2>2, TimePasses
  <2>4. sinceBoost <= Cooldown => Elapsed(lastBoostTime) = sinceBoost
    BY <2>1, <2>2 DEF DistanceInv
  <2>5. sinceBoost <= Cooldown => sinceBoost + d < Wrap
    BY <2>1, Sizes
  <2> QED
    BY <2>1, <2>2, <2>3, <2>4, <2>5
<1> QED
  BY <1>1, AlwaysInv, PTL DEF Spec, BoostsKeepTheirDistance

=============================================================================
