---------------------------- MODULE HelperProofs ----------------------------
(***************************************************************************)
(* Theorems about the parts without shared state: LoadAverage, for any     *)
(* weights in the order of the windows, any samples and any number of      *)
(* ticks; Healthcheck, for any changes of the server's condition; Options, *)
(* for numbers of any size; CheckForm, for any number of refused forms;    *)
(* Names, for names and origins of any length; Targets, for identifiers of *)
(* any length over any characters.  The last one carries them over to      *)
(* Helpers, where the parts stand side by side.                            *)
(***************************************************************************)
EXTENDS Helpers, SequenceFacts

-----------------------------------------------------------------------------
(* Arithmetic.                                                              *)

LEMMA ProductNat ==
  ASSUME NEW a \in Nat, NEW b \in Nat PROVE a * b \in Nat
OBVIOUS

\* Products respect the order of a factor, if the other one is not negative.
LEMMA ProductOrder ==
  ASSUME NEW a \in Nat, NEW x \in Int, NEW y \in Int, x <= y
  PROVE  a * x <= a * y
<1>1. a * (y - x) >= 0
  OBVIOUS
<1> QED
  BY <1>1

\* The new average is the weighted mean of the old one and the sample.
LEMMA Mean ==
  ASSUME NEW d \in Int, NEW a \in Int, NEW x \in Int, NEW s \in Int
  PROVE  d * x + a * (s - x) = (d - a) * x + a * s
OBVIOUS

\* A mean lies between the bounds of what it is the mean of.
LEMMA MeanBetween ==
  ASSUME NEW d \in Nat, NEW a \in Nat, a < d,
         NEW x \in Int, NEW s \in Int, NEW p \in Int, x <= p, s <= p
  PROVE  d * x + a * (s - x) <= d * p
<1>1. (d - a) * x <= (d - a) * p
  BY ProductOrder, d - a \in Nat
<1>2. a * s <= a * p
  BY ProductOrder
<1>3. (d - a) * p + a * p = d * p
  OBVIOUS
<1>4. d * x + a * (s - x) = (d - a) * x + a * s
  BY Mean
<1> QED
  BY <1>1, <1>2, <1>3, <1>4

\* Of two means the one of the larger value, with the larger weight on a sample
\* above both, is the larger.
LEMMA MeansOrdered ==
  ASSUME NEW d \in Nat, NEW a \in Nat, NEW b \in Nat, b < a, a < d,
         NEW x \in Int, NEW y \in Int, NEW s \in Int, y <= x, y <= s
  PROVE  d * y + b * (s - y) <= d * x + a * (s - x)
<1>1. (d - a) * y <= (d - a) * x
  BY ProductOrder, d - a \in Nat
<1>2. (a - b) * y <= (a - b) * s
  BY ProductOrder, a - b \in Nat
<1>3. d * x + a * (s - x) = (d - a) * x + a * s
  BY Mean
<1>4. d * y + b * (s - y) = (d - a) * y + (a - b) * y + b * s
  OBVIOUS
<1>5. (a - b) * s + b * s = a * s
  OBVIOUS
<1> QED
  BY <1>1, <1>2, <1>3, <1>4, <1>5

-----------------------------------------------------------------------------
(* Averages.                                                                *)

\* The ranges of the variables the averages are made of.
Averages ==
  /\ load \in [Windows -> Int]
  /\ scale \in Nat
  /\ last \in Nat /\ peak \in Nat

\* What is true of the averages whatever the samples, and while they grow.
Within == WithinPeak /\ last <= peak
Rising == rising => /\ last = peak
                    /\ load[3] <= load[2] /\ load[2] <= load[1]

\* The weights, one by one.
LEMMA Alphas ==
  /\ Weight[1] \in Nat /\ Weight[2] \in Nat /\ Weight[3] \in Nat /\ Denominator \in Nat
  /\ Weight[3] < Weight[2] /\ Weight[2] < Weight[1] /\ Weight[1] < Denominator
BY WeightsAreAlphas DEF Windows

LEMMA AveragesStep == Averages /\ [LoadNext]_loadVars => Averages'
<1> SUFFICES ASSUME Averages, [LoadNext]_loadVars PROVE Averages'
  OBVIOUS
<1>1. ASSUME NEW s \in 0..MaxSample, Tick(s) PROVE Averages'
  <2>1. s \in Nat
    BY BoundsAreNat
  <2>2. s * scale \in Int /\ Denominator * scale \in Nat
    BY <2>1, Alphas DEF Averages
  <2>3. \A w \in Windows : Denominator * load[w] + Weight[w] * (s * scale - load[w]) \in Int
    <3> TAKE w \in Windows
    <3>1. load[w] \in Int /\ Weight[w] \in Int /\ Denominator \in Int
      BY WeightsAreAlphas DEF Averages
    <3> DEFINE sample == s * scale
    <3>2. sample \in Int
      BY <2>2
    <3> HIDE DEF sample
    <3>3. Denominator * load[w] + Weight[w] * (sample - load[w]) \in Int
      BY <3>1, <3>2
    <3> QED
      BY <3>3 DEF sample
  <2> QED
    BY <1>1, <2>1, <2>2, <2>3 DEF Tick, updateLoadAvg, Averages
<1> QED
  BY <1>1 DEF LoadNext, loadVars, Averages

\* A tick, window by window, with its products named.
LEMMA TickWindow ==
  ASSUME Averages, NEW s \in 0..MaxSample, Tick(s), NEW w \in Windows
  PROVE  /\ load'[w] = Denominator * load[w] + Weight[w] * (s * scale - load[w])
         /\ load[w] \in Int /\ s * scale \in Nat /\ s \in Nat
         /\ Weight[w] \in Nat /\ Weight[w] < Denominator
<1>1. s \in Nat
  BY BoundsAreNat
<1>2. s * scale \in Nat
  BY <1>1 DEF Averages
<1>3. Weight[w] \in Nat /\ Weight[w] < Denominator
  BY Alphas DEF Windows
<1> QED
  BY <1>1, <1>2, <1>3 DEF Tick, updateLoadAvg, Averages

LEMMA WithinStep == Averages /\ Within /\ [LoadNext]_loadVars => Within'
<1> SUFFICES ASSUME Averages, Within, [LoadNext]_loadVars PROVE Within'
  OBVIOUS
<1>1. ASSUME NEW s \in 0..MaxSample, Tick(s) PROVE Within'
  <2>1. /\ peak \in Nat /\ peak' \in Nat /\ scale \in Nat /\ s \in Nat
        /\ peak <= peak' /\ s <= peak' /\ last' <= peak'
        /\ scale' = Denominator * scale
    BY <1>1, BoundsAreNat DEF Averages, Tick
  <2>2. ASSUME NEW w \in Windows
        PROVE  0 <= load'[w] /\ load'[w] <= peak' * scale'
    <3> DEFINE sample == s * scale
               bound == peak' * scale
    <3>1. /\ load'[w] = Denominator * load[w] + Weight[w] * (sample - load[w])
          /\ load[w] \in Int /\ sample \in Nat /\ Denominator \in Nat
          /\ Weight[w] \in Nat /\ Weight[w] < Denominator
      BY <1>1, TickWindow, Alphas
    <3>2. bound \in Nat /\ sample <= bound /\ peak * scale <= bound
      <4>1. scale \in Nat /\ s \in Int /\ peak \in Int /\ peak' \in Int
        BY <2>1
      <4>2. scale * s <= scale * peak'
        BY ONLY <2>1, <4>1, ProductOrder, Zenon
      <4>3. scale * peak <= scale * peak'
        BY ONLY <2>1, <4>1, ProductOrder, Zenon
      <4>4. scale * s = sample /\ scale * peak' = bound /\ scale * peak = peak * scale
        BY <4>1
      <4>5. bound \in Nat
        BY <2>1, ProductNat
      <4> HIDE DEF sample, bound
      <4> QED
        BY <4>2, <4>3, <4>4, <4>5
    <3>3. 0 <= load[w] /\ load[w] <= bound
      <4>1. 0 <= load[w] /\ load[w] <= peak * scale /\ peak * scale \in Int
        BY <2>1 DEF Within, WithinPeak
      <4> QED
        BY <3>1, <3>2, <4>1
    <3>4. peak' * scale' = Denominator * bound
      BY <2>1, <3>1
    <3> HIDE DEF sample, bound
    <3>5. load'[w] <= Denominator * bound
      <4>1. load[w] \in Int /\ sample \in Int /\ bound \in Int
        BY <3>1, <3>2
      <4>2. Denominator * load[w] + Weight[w] * (sample - load[w]) <= Denominator * bound
        BY ONLY <3>1, <3>2, <3>3, <4>1, MeanBetween, Zenon
      <4> QED
        BY <3>1, <4>2
    <3>6. 0 <= load'[w]
      <4>1. load'[w] = (Denominator - Weight[w]) * load[w] + Weight[w] * sample
        BY <3>1, Mean
      <4>2. (Denominator - Weight[w]) * load[w] >= 0 /\ Weight[w] * sample >= 0
        BY <3>1, <3>3
      <4> QED
        BY <3>1, <4>1, <4>2
    <3> QED
      BY <3>4, <3>5, <3>6
  <2> QED
    BY <2>1, <2>2 DEF Within, WithinPeak
<1>2. CASE UNCHANGED loadVars
  BY <1>2 DEF loadVars, Within, WithinPeak
<1> QED
  BY <1>1, <1>2 DEF LoadNext

\* Every average stays between zero and the largest sample so far.
THEOREM AveragesAreWithinPeak == LoadSpec => []WithinPeak
<1>1. LoadInit => Averages /\ Within
  BY DEF LoadInit, Averages, Within, WithinPeak
<1>2. Within => WithinPeak
  BY DEF Within
<1> QED
  BY <1>1, <1>2, AveragesStep, WithinStep, PTL DEF LoadSpec

LEMMA RisingStep == Averages /\ Within /\ Rising /\ [LoadNext]_loadVars => Rising'
<1> SUFFICES ASSUME Averages, Within, Rising, [LoadNext]_loadVars PROVE Rising'
  OBVIOUS
<1>1. ASSUME NEW s \in 0..MaxSample, Tick(s), rising' PROVE Rising'
  <2>0. rising /\ s >= last
    BY <1>1, Zenon DEF Tick
  <2>1. rising /\ last <= s /\ s \in Nat
    BY <2>0, BoundsAreNat DEF Averages
  <2>2. last = peak /\ load[3] <= load[2] /\ load[2] <= load[1]
    BY <2>1 DEF Rising
  <2>3. last' = peak'
    BY <1>1, <2>1, <2>2 DEF Tick
  <2> DEFINE sample == s * scale
  <2>4. sample \in Nat /\ \A w \in Windows : load[w] \in Int /\ load[w] <= sample
    <3>1. scale * peak <= scale * s
      <4>1. scale \in Nat /\ peak \in Int /\ s \in Int /\ peak <= s
        BY <2>1, <2>2 DEF Averages
      <4> QED
        BY ONLY <4>1, ProductOrder, Zenon
    <3>2. peak * scale = scale * peak /\ s * scale = scale * s /\ sample \in Nat
          /\ peak * scale \in Int
      BY <2>1 DEF Averages
    <3> HIDE DEF sample
    <3>3. peak * scale <= sample
      BY <3>1, <3>2 DEF sample
    <3> QED
      BY <3>2, <3>3 DEF Averages, Within, WithinPeak
  <2>5. \A w \in Windows :
          load'[w] = Denominator * load[w] + Weight[w] * (sample - load[w])
    BY <1>1, TickWindow
  <2> HIDE DEF sample
  <2>6. load'[3] <= load'[2]
    <3>1. Denominator * load[3] + Weight[3] * (sample - load[3])
            <= Denominator * load[2] + Weight[2] * (sample - load[2])
      <4>1. Weight[2] < Denominator /\ sample \in Int /\ load[2] \in Int /\ load[3] \in Int
            /\ load[3] <= sample
        BY <2>4, Alphas DEF Windows
      <4> QED
        BY ONLY <2>2, <4>1, Alphas, MeansOrdered, Zenon
    <3> QED
      BY <2>5, <3>1 DEF Windows
  <2>7. load'[2] <= load'[1]
    <3>1. Denominator * load[2] + Weight[2] * (sample - load[2])
            <= Denominator * load[1] + Weight[1] * (sample - load[1])
      <4>1. Weight[1] < Denominator /\ sample \in Int /\ load[1] \in Int /\ load[2] \in Int
            /\ load[2] <= sample
        BY <2>4, Alphas DEF Windows
      <4> QED
        BY ONLY <2>2, <4>1, Alphas, MeansOrdered, Zenon
    <3> QED
      BY <2>5, <3>1 DEF Windows
  <2> QED
    BY <2>3, <2>6, <2>7 DEF Rising
<1>2. CASE UNCHANGED loadVars
  BY <1>2 DEF loadVars, Rising
<1> QED
  BY <1>1, <1>2 DEF LoadNext, Rising

\* While no sample is below an earlier one, a shorter window is never behind a
\* longer one.
THEOREM RisingLoadIsOrdered == LoadSpec => []RisingIsOrdered
<1>1. LoadInit => Averages /\ Within /\ Rising
  BY DEF LoadInit, Averages, Within, WithinPeak, Rising, Windows
<1>2. Rising => RisingIsOrdered
  BY DEF Rising, RisingIsOrdered
<1> QED
  BY <1>1, <1>2, AveragesStep, WithinStep, RisingStep, PTL DEF LoadSpec

-----------------------------------------------------------------------------
(* Powers.                                                                  *)

\* What Power is made of: the powers up to the Nth.
Powers(b, N, f) == f = [k \in 0..N |-> IF k = 0 THEN 1 ELSE b * f[k - 1]]

LEMMA PowersStep ==
  ASSUME NEW b, NEW N \in Nat, NEW f, Powers(b, N, f)
  PROVE  f[0] = 1 /\ \A k \in 0..(N - 1) : f[k + 1] = b * f[k]
<1> DEFINE F == [k \in 0..N |-> IF k = 0 THEN 1 ELSE b * f[k - 1]]
<1>1. F[0] = 1
  OBVIOUS
<1>2. ASSUME NEW k \in 0..(N - 1) PROVE F[k + 1] = b * f[k]
  <2>1. k + 1 \in 0..N /\ k + 1 # 0 /\ (k + 1) - 1 = k
    OBVIOUS
  <2> QED
    BY <2>1
<1>3. f = F
  BY DEF Powers
<1> HIDE DEF F
<1> QED
  BY <1>1, <1>2, <1>3

LEMMA PowersExist ==
  ASSUME NEW b \in Nat, NEW N \in Nat
  PROVE  \E f \in [0..N -> Nat] : Powers(b, N, f)
<1> DEFINE step == [p \in Nat \X Nat |-> b * p[2]]
<1>1. step \in [Nat \X Nat -> Nat]
  <2>1. \A p \in Nat \X Nat : b * p[2] \in Nat
    BY ProductNat
  <2> QED
    BY <2>1
<1>2. \A k, x \in Nat : step[<<k, x>>] = b * x
  OBVIOUS
<1> HIDE DEF step
<1>3. PICK f \in [0..N -> Nat] : Follows(f, N, 1, step)
  <2>1. 1 \in Nat
    OBVIOUS
  <2> QED
    BY <1>1, <2>1, Recursion
<1>4. ASSUME NEW k \in 0..N PROVE f[k] = IF k = 0 THEN 1 ELSE b * f[k - 1]
  <2>1. CASE k = 0
    BY <1>3, <2>1 DEF Follows
  <2>2. CASE k # 0
    <3> DEFINE j == k - 1
    <3>1. j \in 0..(N - 1) /\ j \in Nat /\ j + 1 = k /\ j \in 0..N
      BY <2>2
    <3> HIDE DEF j
    <3>2. f[j + 1] = step[<<j, f[j]>>] /\ f[j] \in Nat
      BY <1>3, <3>1 DEF Follows
    <3>3. f[j + 1] = b * f[j]
      BY <1>2, <3>1, <3>2
    <3> QED
      BY <2>2, <3>1, <3>3 DEF j
  <2> QED
    BY <2>1, <2>2
<1>5. f = [k \in 0..N |-> IF k = 0 THEN 1 ELSE b * f[k - 1]]
  BY <1>3, <1>4
<1> QED
  BY <1>3, <1>5 DEF Powers

LEMMA PowersAgree ==
  ASSUME NEW b, NEW N \in Nat, NEW M \in Nat, N <= M,
         NEW f, NEW g, Powers(b, N, f), Powers(b, M, g)
  PROVE  f[N] = g[N]
<1> DEFINE Same == {k \in Nat : k <= N => f[k] = g[k]}
<1>1. /\ f[0] = 1 /\ \A k \in 0..(N - 1) : f[k + 1] = b * f[k]
      /\ g[0] = 1 /\ \A k \in 0..(M - 1) : g[k + 1] = b * g[k]
  BY PowersStep
<1>2. 0 \in Same
  BY <1>1
<1>3. ASSUME NEW k \in Nat, k \in Same PROVE k + 1 \in Same
  <2>1. ASSUME k + 1 <= N PROVE f[k + 1] = g[k + 1]
    <3>1. k \in 0..(N - 1) /\ k \in 0..(M - 1) /\ k <= N
      BY <2>1
    <3>2. f[k] = g[k]
      BY <1>3, <3>1
    <3>3. f[k + 1] = b * f[k] /\ g[k + 1] = b * g[k]
      BY <1>1, <3>1
    <3> QED
      BY <3>2, <3>3
  <2> QED
    BY <2>1
<1> HIDE DEF Same
<1>4. \A k \in Nat : k \in Same
  BY <1>2, <1>3, Induction
<1> QED
  BY <1>4 DEF Same

LEMMA PowerOf ==
  ASSUME NEW b, NEW N \in Nat, NEW f, Powers(b, N, f)
  PROVE  Power(b, N) = f[N]
<1> DEFINE chosen == CHOOSE g : Powers(b, N, g)
<1>1. Power(b, N) = chosen[N]
  BY DEF Power, Powers
<1>2. Powers(b, N, chosen) /\ N <= N
  OBVIOUS
<1> HIDE DEF chosen
<1>3. chosen[N] = f[N]
  BY <1>2, PowersAgree
<1> QED
  BY <1>1, <1>3

LEMMA PowerZero == ASSUME NEW b \in Nat PROVE Power(b, 0) = 1
<1>1. PICK f \in [0..0 -> Nat] : Powers(b, 0, f)
  BY PowersExist
<1>2. f[0] = 1
  BY <1>1, PowersStep
<1> QED
  BY <1>1, <1>2, PowerOf

LEMMA PowerNat == ASSUME NEW b \in Nat, NEW n \in Nat PROVE Power(b, n) \in Nat
<1>1. PICK f \in [0..n -> Nat] : Powers(b, n, f)
  BY PowersExist
<1> QED
  BY <1>1, PowerOf

LEMMA PowerNext ==
  ASSUME NEW b \in Nat, NEW n \in Nat
  PROVE  Power(b, n + 1) = b * Power(b, n)
<1> DEFINE m == n + 1
<1>1. m \in Nat /\ n <= m /\ n \in 0..(m - 1)
  OBVIOUS
<1> HIDE DEF m
<1>2. PICK f \in [0..n -> Nat] : Powers(b, n, f)
  BY PowersExist
<1>3. PICK g \in [0..m -> Nat] : Powers(b, m, g)
  BY <1>1, PowersExist
<1>4. f[n] = g[n]
  BY <1>1, <1>2, <1>3, PowersAgree
<1>5. g[n + 1] = b * g[n]
  BY <1>1, <1>3, PowersStep
<1>6. Power(b, n) = f[n] /\ Power(b, m) = g[m]
  BY <1>1, <1>2, <1>3, PowerOf
<1> QED
  BY <1>4, <1>5, <1>6 DEF m

\* The factors of products ordered, the products are.
LEMMA ProductsOrder ==
  ASSUME NEW a \in Nat, NEW b \in Nat, NEW x \in Nat, NEW y \in Nat, a <= b, x <= y
  PROVE  a * x <= b * y
<1>1. a * x <= a * y
  BY ProductOrder
<1>2. y * a <= y * b
  BY ProductOrder
<1>3. y * a = a * y /\ y * b = b * y
  OBVIOUS
<1>4. a * x \in Nat /\ a * y \in Nat /\ b * y \in Nat
  BY ProductNat
<1> QED
  BY <1>1, <1>2, <1>3, <1>4

\* A larger number has the larger powers, and after n steps a ratio that is at
\* most 1 / m has it stay so.
LEMMA PowerOrder ==
  ASSUME NEW a \in Nat, NEW b \in Nat, a <= b, NEW n \in Nat
  PROVE  Power(a, n) <= Power(b, n)
<1> DEFINE S == {k \in Nat : Power(a, k) <= Power(b, k)}
<1>1. 0 \in S
  BY PowerZero
<1>2. ASSUME NEW k \in Nat, k \in S PROVE k + 1 \in S
  <2>1. Power(a, k) \in Nat /\ Power(b, k) \in Nat /\ Power(a, k) <= Power(b, k)
    BY <1>2, PowerNat
  <2>2. a * Power(a, k) <= b * Power(b, k)
    BY <2>1, ProductsOrder
  <2> QED
    BY <2>2, PowerNext
<1> HIDE DEF S
<1>3. \A k \in Nat : k \in S
  BY <1>1, <1>2, Induction
<1> QED
  BY <1>3 DEF S

LEMMA PowerRatio ==
  ASSUME NEW a \in Nat, NEW b \in Nat, a <= b, NEW m \in Nat, NEW s \in Nat,
         m * Power(a, s) <= Power(b, s), NEW n \in Nat, s <= n
  PROVE  m * Power(a, n) <= Power(b, n)
<1> DEFINE S == {k \in Nat : s <= k => m * Power(a, k) <= Power(b, k)}
<1>1. 0 \in S
  <2>1. s <= 0 => s = 0
    OBVIOUS
  <2> QED
    BY <2>1
<1>2. ASSUME NEW k \in Nat, k \in S PROVE k + 1 \in S
  <2>1. ASSUME s <= k PROVE m * Power(a, k + 1) <= Power(b, k + 1)
    <3> DEFINE pa == Power(a, k)
               pb == Power(b, k)
               mp == m * pa
    <3>1. pa \in Nat /\ pb \in Nat /\ mp \in Nat /\ mp <= pb
      BY <1>2, <2>1, PowerNat, ProductNat
    <3>2. Power(a, k + 1) = a * pa /\ Power(b, k + 1) = b * pb
      BY PowerNext
    <3> HIDE DEF pa, pb, mp
    <3>3. a * mp <= b * pb
      BY <3>1, ProductsOrder
    <3>4. m * (a * pa) = a * (m * pa)
      BY <3>1
    <3> QED
      BY <3>2, <3>3, <3>4 DEF mp
  <2>2. s = k + 1 => m * Power(a, k + 1) <= Power(b, k + 1)
    OBVIOUS
  <2>3. s <= k + 1 => s <= k \/ s = k + 1
    OBVIOUS
  <2> QED
    BY <2>1, <2>2, <2>3
<1> HIDE DEF S
<1>3. \A k \in Nat : k \in S
  BY <1>1, <1>2, Induction
<1> QED
  BY <1>3 DEF S

-----------------------------------------------------------------------------
(* Settling.                                                                *)

\* x is within b of z.
Near(x, z, b) == x - z <= b /\ z - x <= b

\* An update brings an average nearer to the sample, by the weight the old
\* average keeps.
LEMMA UpdateNears ==
  ASSUME NEW d \in Nat, NEW a \in Nat, a < d, NEW x \in Int, NEW z \in Int,
         NEW b \in Nat, Near(x, z, b)
  PROVE  Near(d * x + a * (z - x), d * z, (d - a) * b)
<1> DEFINE k == d - a
           e == x - z
           f == z - x
<1>1. k \in Nat /\ e \in Int /\ f \in Int /\ e <= b /\ f <= b /\ b \in Int
  BY DEF Near
<1>2. (d * x + a * (z - x)) - d * z = k * e /\ d * z - (d * x + a * (z - x)) = k * f
  OBVIOUS
<1> HIDE DEF k, e, f
<1>3. k * e <= k * b /\ k * f <= k * b
  BY <1>1, ProductOrder
<1> QED
  BY <1>2, <1>3 DEF Near, k

\* What is left of an old average after a tick.
Left(w) == Denominator - Weight[w]

LEMMA LeftNat ==
  ASSUME NEW w \in Windows
  PROVE  Left(w) \in Nat /\ Left(w) <= Left(3) /\ Left(w) <= Denominator /\ Denominator \in Nat
BY Alphas DEF Left, Windows

\* The averages since the load has been constant: base is what scale was when it
\* began to be, and the averages have come nearer to it with every tick since.
Settling(base) ==
  /\ scale = Power(Denominator, steady) * base
  /\ \A w \in Windows :
       Near(load[w], last * scale, Power(Left(w), steady) * (MaxSample * base))

Contracting ==
  /\ steady \in Nat
  /\ peak <= MaxSample
  /\ \E base \in Nat : Settling(base)

LEMMA ContractingStart == LoadInit => Contracting
<1> SUFFICES ASSUME LoadInit PROVE Contracting
  OBVIOUS
<1>1. Settling(1)
  <2>1. scale = Power(Denominator, steady) * 1
    BY LeftNat, Alphas, PowerZero DEF LoadInit
  <2>2. ASSUME NEW w \in Windows
        PROVE  Near(load[w], last * scale, Power(Left(w), steady) * (MaxSample * 1))
    <3>1. Power(Left(w), steady) = 1
      BY LeftNat, PowerZero DEF LoadInit
    <3>2. load[w] = 0 /\ last * scale = 0
      BY DEF LoadInit
    <3> QED
      BY <3>1, <3>2, BoundsAreNat DEF Near
  <2> QED
    BY <2>1, <2>2 DEF Settling
<1> QED
  BY <1>1, BoundsAreNat DEF Contracting, LoadInit

\* One tick, of a load that is within b of the averages.
LEMMA TickNears ==
  ASSUME Averages, NEW s \in 0..MaxSample, Tick(s), NEW w \in Windows,
         NEW b \in Nat, Near(load[w], s * scale, b)
  PROVE  Near(load'[w], last' * scale', Left(w) * b)
<1> DEFINE z == s * scale
<1>1. load'[w] = Denominator * load[w] + Weight[w] * (z - load[w]) /\ load[w] \in Int
      /\ z \in Int /\ Weight[w] \in Nat /\ Weight[w] < Denominator /\ s \in Nat
  BY TickWindow
<1>2. last' * scale' = Denominator * z
  <2>1. last' = s /\ scale' = Denominator * scale
    BY DEF Tick
  <2>2. s * (Denominator * scale) = Denominator * (s * scale)
    BY <1>1, Alphas DEF Averages
  <2> QED
    BY <2>1, <2>2
<1>3. Near(load[w], z, b)
  OBVIOUS
<1> HIDE DEF z
<1>4. Near(Denominator * load[w] + Weight[w] * (z - load[w]), Denominator * z,
           (Denominator - Weight[w]) * b)
  BY <1>1, <1>3, Alphas, UpdateNears
<1> QED
  BY <1>1, <1>2, <1>4 DEF Left

LEMMA ContractingStep ==
  Averages /\ Within /\ Contracting /\ [LoadNext]_loadVars => Contracting'
<1> SUFFICES ASSUME Averages, Within, Contracting, [LoadNext]_loadVars PROVE Contracting'
  OBVIOUS
<1>1. ASSUME NEW s \in 0..MaxSample, Tick(s) PROVE Contracting'
  <2>1. scale' = Denominator * scale /\ last' = s /\ s \in Nat /\ s <= MaxSample
        /\ MaxSample \in Nat /\ scale \in Nat /\ Denominator \in Nat
    BY <1>1, BoundsAreNat, Alphas DEF Tick, Averages
  <2>2. peak' <= MaxSample
    BY <1>1, <2>1 DEF Tick, Contracting
  <2>3. CASE s = last
    <3>1. PICK base \in Nat : Settling(base)
      BY DEF Contracting
    <3> DEFINE n == steady + 1
               mb == MaxSample * base
    <3>2. steady' = n /\ n \in Nat /\ steady \in Nat /\ mb \in Nat
      BY <1>1, <2>1, <2>3, ProductNat DEF Tick, Contracting
    <3>3. scale' = Power(Denominator, n) * base
      <4> DEFINE pd == Power(Denominator, steady)
      <4>1. pd \in Nat /\ scale = pd * base /\ Power(Denominator, n) = Denominator * pd
        BY <2>1, <3>1, <3>2, PowerNat, PowerNext DEF Settling
      <4> HIDE DEF pd, n
      <4> QED
        BY <2>1, <4>1
    <3>4. ASSUME NEW w \in Windows
          PROVE  Near(load'[w], last' * scale', Power(Left(w), n) * mb)
      <4> DEFINE pw == Power(Left(w), steady)
                 b == pw * mb
      <4>1. Near(load[w], s * scale, b)
        BY <2>3, <3>1 DEF Settling
      <4>2. Left(w) \in Nat /\ pw \in Nat /\ b \in Nat
        BY <3>2, LeftNat, PowerNat, ProductNat
      <4>3. Power(Left(w), n) = Left(w) * pw
        BY <3>2, <4>2, PowerNext
      <4> HIDE DEF pw, mb, n
      <4>4. Left(w) * b = Power(Left(w), n) * mb
        BY <3>2, <4>2, <4>3
      <4> HIDE DEF b
      <4>5. Near(load'[w], last' * scale', Left(w) * b)
        BY <1>1, <4>1, <4>2, TickNears
      <4> QED
        BY <4>4, <4>5
    <3>5. Settling(base)'
      <4> HIDE DEF n
      <4> QED
        BY <3>2, <3>3, <3>4 DEF Settling, Left
    <3> QED
      BY <2>2, <3>2, <3>5 DEF Contracting
  <2>4. CASE s # last
    <3> DEFINE b == MaxSample * scale
    <3>1. steady' = 1
      BY <1>1, <2>4 DEF Tick
    <3>2. Power(Denominator, 1) = Denominator /\ \A w \in Windows : Power(Left(w), 1) = Left(w)
      <4>1. ASSUME NEW x \in Nat PROVE Power(x, 1) = x
        <5>1. Power(x, 0 + 1) = x * Power(x, 0) /\ Power(x, 0) = 1
          BY PowerNext, PowerZero
        <5> QED
          BY <5>1
      <4> QED
        BY <4>1, <2>1, LeftNat
    <3>3. b \in Nat
      BY <2>1, ProductNat
    <3>4. ASSUME NEW w \in Windows
          PROVE  Near(load'[w], last' * scale', Left(w) * b)
      <4> DEFINE z == s * scale
                 p == peak * scale
      <4>1. 0 <= load[w] /\ load[w] <= p
        BY DEF Within, WithinPeak
      <4>2. z \in Nat /\ p \in Nat /\ load[w] \in Int
        BY <2>1, ProductNat DEF Averages
      <4>3. z <= b /\ p <= b
        <5>1. peak \in Nat /\ peak <= MaxSample /\ scale <= scale
          BY <2>1 DEF Averages, Contracting
        <5> QED
          BY <2>1, <5>1, ProductsOrder
      <4> HIDE DEF z, p, b
      <4>4. Near(load[w], z, b)
        BY <3>3, <4>1, <4>2, <4>3 DEF Near
      <4> QED
        BY <1>1, <3>3, <4>4, TickNears DEF z
    <3>5. PICK base \in Nat : base = scale
      BY <2>1
    <3>6. Settling(base)'
      <4>1. scale' = Power(Denominator, 1) * base
        BY <2>1, <3>2, <3>5
      <4>2. \A w \in Windows :
              Near(load'[w], last' * scale', Power(Left(w), 1) * (MaxSample * base))
        BY <3>2, <3>4, <3>5
      <4> QED
        BY <3>1, <4>1, <4>2 DEF Settling, Left
    <3> QED
      BY <2>2, <3>1, <3>6 DEF Contracting
  <2> QED
    BY <2>3, <2>4
<1>2. CASE UNCHANGED loadVars
  BY <1>2 DEF loadVars, Contracting, Settling, Left
<1> QED
  BY <1>1, <1>2 DEF LoadNext

\* Once SettleTicks samples were equal, what is left of any earlier load is less
\* than half a request.
LEMMA ContractedSettles == Averages /\ Contracting => Settles
<1> SUFFICES ASSUME Averages, Contracting, steady >= SettleTicks, NEW w \in Windows
             PROVE  /\ 2 * (load[w] - last * scale) <= scale
                    /\ 2 * (last * scale - load[w]) <= scale
  BY DEF Settles
<1>1. PICK base \in Nat : Settling(base)
  BY DEF Contracting
<1> DEFINE z == last * scale
           x == load[w]
           pw == Power(Left(w), steady)
           p3 == Power(Left(3), steady)
           pd == Power(Denominator, steady)
           m == 2 * MaxSample
           b == pw * (MaxSample * base)
<1>2. scale = pd * base /\ Near(x, z, b)
  BY <1>1 DEF Settling
<1>3. pw \in Nat /\ p3 \in Nat /\ pd \in Nat /\ m \in Nat /\ x \in Int /\ z \in Int
      /\ MaxSample \in Nat /\ Left(3) \in Nat /\ scale \in Nat /\ steady \in Nat
  <2>1. /\ 3 \in Windows /\ steady \in Nat /\ MaxSample \in Nat
        /\ last \in Nat /\ scale \in Nat /\ x \in Int
    BY BoundsAreNat DEF Windows, Contracting, Averages
  <2>2. Left(3) \in Nat /\ Left(w) \in Nat /\ Denominator \in Nat
    BY <2>1, LeftNat
  <2>3. pw \in Nat /\ p3 \in Nat /\ pd \in Nat
    BY <2>1, <2>2, PowerNat
  <2>4. z \in Int /\ m \in Nat
    BY <2>1, ProductNat
  <2> QED
    BY <2>1, <2>2, <2>3, <2>4
<1>4. pw <= p3
  BY <1>3, LeftNat, PowerOrder
<1>5. m * p3 <= pd
  <2>1. m * Power(Left(3), SettleTicks) <= Power(Denominator, SettleTicks)
    BY SettleTicksSettle DEF Left
  <2>2. SettleTicks \in Nat /\ SettleTicks <= steady /\ Left(3) <= Denominator /\ Denominator \in Nat
    <3>1. 3 \in Windows
      BY DEF Windows
    <3>2. SettleTicks \in Nat /\ SettleTicks <= steady
      BY <1>3, BoundsAreNat
    <3> QED
      BY <3>1, <3>2, LeftNat
  <2> HIDE DEF m
  <2> QED
    BY <1>3, <2>1, <2>2, PowerRatio
<1> HIDE DEF pw, p3, pd, x, z
<1>6. 2 * b <= scale /\ b \in Int
  <2>1. 2 * b = (m * pw) * base /\ b \in Int
    BY <1>3
  <2>2. m * pw <= m * p3
    BY <1>3, <1>4, ProductOrder
  <2>3. m * pw \in Nat /\ m * p3 \in Nat
    BY <1>3, ProductNat
  <2> DEFINE mw == m * pw
  <2>4. mw \in Nat /\ mw <= pd
    BY <1>3, <1>5, <2>2, <2>3
  <2> HIDE DEF mw
  <2>5. mw * base <= pd * base
    BY <1>3, <2>4, ProductsOrder
  <2> QED
    BY <1>2, <2>1, <2>5 DEF mw
<1> HIDE DEF b
<1>7. 2 * (x - z) <= scale /\ 2 * (z - x) <= scale
  BY <1>2, <1>3, <1>6 DEF Near
<1> QED
  BY <1>7 DEF x, z

\* The averages converge to a constant load from whatever came before, for any
\* weights in their order and any number of ticks.
THEOREM AveragesSettle == LoadSpec => []Settles
<1>1. LoadInit => Averages /\ Within
  BY DEF LoadInit, Averages, Within, WithinPeak
<1> QED
  BY <1>1, AveragesStep, WithinStep, ContractingStart, ContractingStep, ContractedSettles,
     PTL DEF LoadSpec

-----------------------------------------------------------------------------
(* The health probe.                                                        *)

\* The probe has no verdict before it ends; what it dials the server listens on,
\* if the address can be probed; it is connected to a server that is not down and
\* to no other, until that one has gone; and the verdict is justified.
Probing ==
  /\ addr \in Addresses
  /\ server \in seen
  /\ pc # "exited" => exit = Running
  /\ pc = "dial" /\ Probeable(addr) => dialled \in ListensOn(addr)
  /\ pc = "await" => dialled \in ListensOn(addr)
  /\ pc = "lost" => "down" \in seen
  /\ VerdictIsJustified

\* The address is rewritten to one the server listens on, unless it is of a form
\* that cannot be probed.
LEMMA RewritesWell ==
  ASSUME NEW a \in Addresses, Probeable(a)
  PROVE  LET n == normalizeHealthcheckAddr(a)
         IN /\ ~Invalid(n)
            /\ [host |-> LocalHost(n), port |-> n.port] \in ListensOn(a)
            /\ n.port = "number"
<1>1. a # Empty /\ a \in [host : Hosts, port : Ports]
  <2>1. a.port = "number" /\ Empty.port = "missing"
    BY DEF Probeable, Empty
  <2> QED
    BY <2>1 DEF Addresses
<1>2. a = [host |-> a.host, port |-> "number"] /\ a.host \in Hosts \ {"zoned"}
  BY <1>1 DEF Probeable
<1> DEFINE h == IF a.host = "" THEN "127.0.0.1" ELSE IF a.host = "::" THEN "::1" ELSE a.host
           n == normalizeHealthcheckAddr(a)
<1>3. n = [host |-> h, port |-> "number"]
  <2>1. CASE a.host = ""
    <3>1. n = [a EXCEPT !.host = "127.0.0.1"]
      BY <1>1, <2>1 DEF normalizeHealthcheckAddr
    <3>2. [a EXCEPT !.host = "127.0.0.1"] = [host |-> "127.0.0.1", port |-> a.port]
      BY <1>1
    <3>3. a.port = "number"
      BY <1>2
    <3> QED
      BY <2>1, <3>1, <3>2, <3>3
  <2>2. CASE a.host = "::"
    BY <1>1, <1>2, <2>2 DEF normalizeHealthcheckAddr
  <2>3. CASE a.host \notin {"", "::"}
    BY <1>1, <1>2, <2>3 DEF normalizeHealthcheckAddr
  <2> QED
    BY <2>1, <2>2, <2>3
<1> HIDE DEF n
<1>4. n.host = h /\ n.port = "number" /\ h \in Hosts \ {"", "::", "zoned"}
  <2>1. h \in Hosts \ {"", "::", "zoned"}
    BY <1>2 DEF Hosts
  <2> HIDE DEF h
  <2> QED
    BY <1>3, <2>1
<1>5. ~Invalid(n)
  <2>1. n # Empty
    <3>1. Empty.host = ""
      BY DEF Empty
    <3> QED
      BY <1>4, <3>1
  <2> QED
    BY <1>4, <2>1 DEF Invalid
<1>6. [host |-> LocalHost(n), port |-> n.port] \in ListensOn(a)
  <2>1. LocalHost(n) = IF h = "0.0.0.0" THEN "127.0.0.1" ELSE h
    BY <1>4 DEF LocalHost
  <2>2. a.port = "number"
    BY <1>2
  <2>3. CASE a.host \in {"", "::"}
    BY <1>4, <2>1, <2>2, <2>3 DEF ListensOn
  <2>4. CASE a.host = "0.0.0.0"
    BY <1>4, <2>1, <2>2, <2>4 DEF ListensOn
  <2>5. CASE a.host \notin {"", "::", "0.0.0.0"}
    BY <1>4, <2>1, <2>2, <2>5 DEF ListensOn
  <2> QED
    BY <2>3, <2>4, <2>5
<1> HIDE DEF h
<1> QED
  BY <1>4, <1>5, <1>6 DEF n

LEMMA ProbingStep == Probing /\ [ProbeNext]_probeVars => Probing'
<1> SUFFICES ASSUME Probing, [ProbeNext]_probeVars PROVE Probing'
  OBVIOUS
<1> USE DEF Probing, VerdictIsJustified, Exits
<1>1. CASE ResolveAddr
  <2> DEFINE n == normalizeHealthcheckAddr(addr)
  <2>1. CASE Invalid(n)
    <3>1. ~Probeable(addr)
      BY <2>1, RewritesWell
    <3> QED
      BY <1>1, <2>1, <3>1 DEF ResolveAddr
  <2>2. CASE ~Invalid(n)
    <3>1. Probeable(addr) => dialled' \in ListensOn(addr)
      BY <1>1, <2>2, RewritesWell DEF ResolveAddr
    <3>2. exit' = Running /\ pc' = "dial" /\ UNCHANGED <<addr, server, seen, timedOut>>
      BY <1>1, <2>2 DEF ResolveAddr
    <3> QED
      BY <3>1, <3>2 DEF Running
  <2> QED
    BY <2>1, <2>2
<1>2. CASE Connect
  BY <1>2 DEF Connect, Reachable, Running
<1>3. CASE Refused
  <2>1. /\ exit' = 1 /\ pc' = "exited" /\ seen' = {server}
        /\ UNCHANGED <<addr, server, dialled, timedOut>>
    BY <1>3 DEF Refused
  <2>2. Probeable(addr) => server = "down"
    BY <1>3 DEF Refused, Reachable
  <2> QED
    BY <2>1, <2>2, 0 # 1 DEF Probeable
<1>4. CASE Answer
  <2>1. /\ exit' = (IF server = "up" THEN 0 ELSE 1) /\ pc' = "exited"
        /\ UNCHANGED <<addr, server, dialled, seen, timedOut>>
    BY <1>4 DEF Answer
  <2>2. server \in {"up", "failing"} /\ server \in seen /\ dialled \in ListensOn(addr)
    BY <1>4 DEF Answer
  <2>3. CASE server = "up"
    BY <2>1, <2>2, <2>3
  <2>4. CASE server = "failing"
    BY <2>1, <2>2, <2>4 DEF Probeable
  <2> QED
    BY <2>2, <2>3, <2>4
<1>5. CASE Lost
  BY <1>5 DEF Lost
<1>6. CASE Timeout
  <2>1. timedOut'
    BY <1>6, Zenon DEF Timeout
  <2> QED
    BY <1>6, <2>1 DEF Timeout
<1>7. CASE ServerChanges
  BY <1>7 DEF ServerChanges, Running
<1>8. CASE UNCHANGED probeVars
  BY <1>8 DEF probeVars
<1> QED
  BY <1>1, <1>2, <1>3, <1>4, <1>5, <1>6, <1>7, <1>8 DEF ProbeNext, ProbeStep

\* The exit code is about the server of the address as it was since it was dialled,
\* for every form of address that can be probed, however often the server changes.
THEOREM VerdictsAreJustified == ProbeSpec => []VerdictIsJustified
<1>1. ProbeInit => Probing
  BY DEF ProbeInit, Probing, Running, VerdictIsJustified
<1>2. Probing => VerdictIsJustified
  BY DEF Probing
<1> QED
  BY <1>1, <1>2, ProbingStep, PTL DEF ProbeSpec

-----------------------------------------------------------------------------
(* Options.                                                                 *)

LEMMA AbsBasics ==
  ASSUME NEW x \in Int
  PROVE  Abs(x) \in Nat /\ (Abs(x) = 0 <=> x = 0)
BY DEF Abs

\* A number a float64 holds is rounded to itself.
LEMMA RoundExact ==
  ASSUME NEW x \in Floats
  PROVE  Round(x) = x
<1> DEFINE Nearest(r) == \A q \in Floats \ {r} :
             \/ Abs(x - r) < Abs(x - q)
             \/ Abs(x - r) = Abs(x - q) /\ r % (2 * Abs(q - r)) = 0
<1>1. Floats \subseteq Int
  BY DEF Floats
<1>2. \A q \in Floats : Abs(x - q) \in Nat /\ (Abs(x - q) = 0 <=> q = x)
  BY <1>1, AbsBasics
<1>3. Nearest(x)
  <2>1. ASSUME NEW q \in Floats \ {x} PROVE Abs(x - x) < Abs(x - q)
    BY <1>2
  <2> QED
    BY <2>1
<1>4. ASSUME NEW r \in Floats, Nearest(r) PROVE r = x
  <2>1. SUFFICES ASSUME r # x PROVE FALSE
    OBVIOUS
  <2>2. \/ Abs(x - r) < Abs(x - x)
        \/ Abs(x - r) = Abs(x - x)
    BY <1>4, <2>1
  <2> QED
    BY <1>2, <2>1, <2>2
<1>5. Round(x) = CHOOSE r \in Floats : Nearest(r)
  BY DEF Round
<1> HIDE DEF Nearest
<1> QED
  BY <1>3, <1>4, <1>5

\* What an option is after the journey, when nothing is lost on it.
LEMMA DecodedSame ==
  ASSUME NEW o \in Natives \cup {Missing}, Sendable(o), NEW T \in Types,
         T = "int" => Exact(o)
  PROVE  GetOption(Decoded(o), T) = GetOption(o, T)
<1> USE DEF Value, Missing, Found, Failed
<1>1. T \in {"float", "int", "bool", "string", "struct"}
  BY DEF Types
<1>2. CASE o.kind \in {"float", "bool", "string", "null", "missing"}
  <2>1. Decoded(o) = o
    BY <1>2 DEF Decoded
  <2> QED
    BY <2>1
<1>3. CASE o.kind \in {"int", "number"}
  <2>1. Decoded(o) = [kind |-> "float", v |-> Round(o.v)]
    BY <1>3 DEF Decoded
  <2>2. CASE T = "int"
    <3>1. o.v \in Floats /\ o.v \in Ints
      BY <1>3, <2>2 DEF Exact, Natives
    <3>2. Round(o.v) = o.v
      BY <3>1, RoundExact
    <3>3. GetOption(Decoded(o), T) = Found(o.v)
      BY <2>1, <2>2, <3>1, <3>2 DEF GetOption, RoundTrip
    <3>4. GetOption(o, T) = Found(o.v)
      BY <1>3, <2>2, <3>1 DEF GetOption, RoundTrip
    <3> QED
      BY <3>3, <3>4
  <2>3. CASE T # "int"
    <3>1. GetOption(Decoded(o), T) = IF T = "float" THEN Found(Round(o.v)) ELSE Failed
      BY <1>1, <2>1, <2>3 DEF GetOption, RoundTrip
    <3>2. GetOption(o, T) = IF T = "float" THEN Found(Round(o.v)) ELSE Failed
      BY <1>1, <1>3, <2>3 DEF GetOption, RoundTrip
    <3> QED
      BY <3>1, <3>2
  <2> QED
    BY <2>2, <2>3
<1>4. CASE o.kind = "struct"
  <2>1. Decoded(o) = [kind |-> "object", v |-> o.v]
    BY <1>4 DEF Decoded
  <2>2. GetOption(Decoded(o), T) = IF T = "struct" THEN Found(o.v) ELSE Failed
    BY <1>1, <2>1 DEF GetOption, RoundTrip
  <2>3. GetOption(o, T) = IF T = "struct" THEN Found(o.v) ELSE Failed
    BY <1>1, <1>4 DEF GetOption, RoundTrip
  <2> QED
    BY <2>2, <2>3
<1>5. o.kind \in {"float", "bool", "string", "null", "missing", "int", "number", "struct"}
  BY DEF Natives, Sendable
<1> QED
  BY <1>2, <1>3, <1>4, <1>5

LEMMA DefaultsDecodedSame ==
  ASSUME NEW o \in Natives \cup {Missing}, Sendable(o), NEW d
  PROVE  /\ o.kind # "int" => GetFloatOption(Decoded(o), d) = GetFloatOption(o, d)
         /\ GetBoolOption(Decoded(o), d) = GetBoolOption(o, d)
<1>1. CASE o.kind \in {"int", "number"}
  <2>1. Decoded(o).kind = "float" /\ Decoded(o).v = Round(o.v)
    BY <1>1 DEF Decoded, Value
  <2> QED
    BY <1>1, <2>1 DEF GetFloatOption, GetBoolOption
<1>2. CASE o.kind = "struct"
  <2>1. Decoded(o).kind = "object"
    BY <1>2 DEF Decoded, Value
  <2> QED
    BY <1>2, <2>1 DEF GetFloatOption, GetBoolOption
<1>3. CASE o.kind \notin {"int", "number", "struct"}
  BY <1>3 DEF Decoded
<1> QED
  BY <1>1, <1>2, <1>3

\* What an accessor may return of an option that travelled.
LEMMA ReturnsSame ==
  ASSUME NEW o \in Natives \cup {Missing}, Sendable(o), NEW c \in Calls,
         o.kind = "int" => c.accessor \notin {"GetFloatOption", "GetIntOption"},
         c.accessor = "int" => Exact(o)
  PROVE  Returns(c, Decoded(o)) = Returns(c, o)
<1>1. c.accessor \in Types \cup {"GetFloatOption", "GetIntOption", "GetBoolOption"}
  BY DEF Calls
<1>2. CASE c.accessor \in Types
  <2>1. GetOption(Decoded(o), c.accessor) = GetOption(o, c.accessor)
    BY <1>2, DecodedSame
  <2>2. c.accessor \notin {"GetFloatOption", "GetIntOption", "GetBoolOption"}
    BY <1>2 DEF Types
  <2> QED
    BY <2>1, <2>2 DEF Returns
<1>3. CASE c.accessor = "GetFloatOption"
  <2>1. GetFloatOption(Decoded(o), c.default) = GetFloatOption(o, c.default)
    BY <1>3, DefaultsDecodedSame
  <2> QED
    BY <1>3, <2>1 DEF Returns
<1>4. CASE c.accessor = "GetIntOption"
  <2>1. GetFloatOption(Decoded(o), Round(c.default)) = GetFloatOption(o, Round(c.default))
    BY <1>4, DefaultsDecodedSame
  <2> QED
    BY <1>4, <2>1 DEF Returns, GetIntOption
<1>5. CASE c.accessor = "GetBoolOption"
  <2>1. GetBoolOption(Decoded(o), c.default) = GetBoolOption(o, c.default)
    BY DefaultsDecodedSame
  <2> QED
    BY <1>5, <2>1 DEF Returns
<1> QED
  BY <1>1, <1>2, <1>3, <1>4, <1>5

\* An option is as it was set or as it came over HTTP, and the answer is the
\* accessor's.
Travelled ==
  /\ set \in Natives \cup {Missing}
  /\ option = set \/ (Sendable(set) /\ option = Decoded(set))
  /\ asked = NotAsked \/ answers = Returns(asked, option)

LEMMA TravelledStep == Travelled /\ [OptionNext]_optionVars => Travelled'
<1> SUFFICES ASSUME Travelled, [OptionNext]_optionVars PROVE Travelled'
  OBVIOUS
<1>1. CASE Send
  BY <1>1 DEF Send, Travelled
<1>2. ASSUME NEW c \in Calls, Ask(c) PROVE Travelled'
  BY <1>2 DEF Ask, Travelled
<1>3. CASE UNCHANGED optionVars
  BY <1>3 DEF optionVars, Travelled
<1> QED
  BY <1>1, <1>2, <1>3 DEF OptionNext

LEMMA AskedAlways == OptionSpec => [](asked \in Calls \cup {NotAsked})
<1>1. OptionInit => asked \in Calls \cup {NotAsked}
  BY DEF OptionInit
<1>2. asked \in Calls \cup {NotAsked} /\ [OptionNext]_optionVars
        => (asked \in Calls \cup {NotAsked})'
  <2> SUFFICES ASSUME asked \in Calls \cup {NotAsked}, [OptionNext]_optionVars
               PROVE  asked' \in Calls \cup {NotAsked}
    OBVIOUS
  <2>1. CASE Send
    BY <2>1 DEF Send
  <2>2. ASSUME NEW c \in Calls, Ask(c) PROVE asked' \in Calls \cup {NotAsked}
    BY <2>2 DEF Ask
  <2>3. CASE UNCHANGED optionVars
    BY <2>3 DEF optionVars
  <2> QED
    BY <2>1, <2>2, <2>3 DEF OptionNext
<1> QED
  BY <1>1, <1>2, PTL DEF OptionSpec

\* Every accessor gives a provider the same answers in the host and behind HTTP,
\* for ints and mantissas of any size, but for the two cases of Portable.
THEOREM OptionsSurviveHTTP == OptionSpec => []SameOverHTTP
<1>1. OptionInit => Travelled
  BY DEF OptionInit, Travelled
<1>2. Travelled /\ asked \in Calls \cup {NotAsked} => SameOverHTTP
  <2> SUFFICES ASSUME Travelled, asked \in Calls, asked # NotAsked, Portable(asked.accessor)
               PROVE  answers = Returns(asked, set)
    BY DEF SameOverHTTP
  <2>1. answers = Returns(asked, option)
    BY DEF Travelled
  <2>2. CASE option = set
    BY <2>1, <2>2
  <2>3. CASE Sendable(set) /\ option = Decoded(set)
    <3>1. Returns(asked, Decoded(set)) = Returns(asked, set)
      BY <2>3, ReturnsSame DEF Travelled, Portable
    <3> QED
      BY <2>1, <2>3, <3>1
  <2> QED
    BY <2>2, <2>3 DEF Travelled
<1> QED
  BY <1>1, <1>2, AskedAlways, TravelledStep, PTL DEF OptionSpec

\* What a provider can find an option to be.
Findable ==
  {"float", "int", "number", "bool", "string", "struct", "object", "invalid", "null", "missing"}

LEMMA FoundKinds ==
  ASSUME Travelled
  PROVE  /\ option.kind \in Findable
         /\ option = Missing <=> option.kind = "missing"
<1>1. ASSUME NEW o \in Natives \cup {Missing}
      PROVE  /\ o.kind \in {"float", "int", "number", "bool", "string", "struct",
                            "invalid", "null", "missing"}
             /\ o = Missing <=> o.kind = "missing"
  BY DEF Natives, Missing, Value
<1>2. CASE option = set
  BY <1>1, <1>2 DEF Travelled, Findable
<1>3. CASE option = Decoded(set)
  <2>1. CASE set.kind \in {"int", "number"}
    BY <1>3, <2>1 DEF Decoded, Value, Missing, Findable
  <2>2. CASE set.kind = "struct"
    BY <1>3, <2>2 DEF Decoded, Value, Missing, Findable
  <2>3. CASE set.kind \notin {"int", "number", "struct"}
    <3>1. option = set
      BY <1>3, <2>3 DEF Decoded
    <3> QED
      BY <1>1, <3>1 DEF Travelled, Findable
  <2> QED
    BY <2>1, <2>2, <2>3
<1> QED
  BY <1>2, <1>3 DEF Travelled

\* What GetOption with a default is, when it finds something and when not.
LEMMA OrFound ==
  ASSUME NEW T, NEW v, GetOption(option, T) = Found(v)
  PROVE  OrDefault(T) = Found(v)
<1>1. Found(v).ok
  BY Zenon DEF Found
<1> QED
  BY <1>1, Zenon DEF OrDefault

LEMMA OrNotFound ==
  ASSUME NEW T, GetOption(option, T) = Failed
  PROVE  OrDefault(T) = Found(asked.default)
<1>1. ~Failed.ok
  BY Zenon DEF Failed
<1> QED
  BY <1>1, Zenon DEF OrDefault

\* The two accessors, case by case.
LEMMA AccessorsAgree == Travelled => SameAsGetOption
<1> SUFFICES ASSUME Travelled
             PROVE  /\ asked.accessor = "GetFloatOption" =>
                         answers = {IF option.kind \in {"null", "int"}
                                      THEN Found(asked.default) ELSE OrDefault("float")}
                    /\ asked.accessor = "GetBoolOption" =>
                         answers = {IF option.kind = "null"
                                      THEN Found(asked.default) ELSE OrDefault("bool")}
  BY DEF SameAsGetOption
<1> DEFINE k == option.kind
           d == asked.default
<1>1. k \in Findable /\ (option = Missing <=> k = "missing")
  BY FoundKinds
<1>2. asked.accessor \in {"GetFloatOption", "GetBoolOption"} =>
        answers = Returns(asked, option)
  BY DEF Travelled, NotAsked
<1>3. ASSUME asked.accessor = "GetFloatOption"
      PROVE  answers = {IF k \in {"null", "int"} THEN Found(d) ELSE OrDefault("float")}
  <2>1. answers = {Found(GetFloatOption(option, d))}
    BY <1>2, <1>3 DEF Returns
  <2>2. k \notin {"null", "int"} =>
          GetOption(option, "float") =
            CASE k = "float" -> Found(option.v)
              [] k = "number" -> Found(Round(option.v))
              [] OTHER -> Failed
    BY <1>1 DEF GetOption, RoundTrip, Findable
  <2>3. GetFloatOption(option, d) =
          CASE k = "float" -> option.v [] k = "number" -> Round(option.v) [] OTHER -> d
    BY DEF GetFloatOption
  <2>4. CASE k = "float"
    BY <2>1, <2>2, <2>3, <2>4, OrFound
  <2>5. CASE k = "number"
    BY <2>1, <2>2, <2>3, <2>5, OrFound
  <2>6. CASE k \in {"null", "int"}
    BY <2>1, <2>3, <2>6
  <2>7. CASE k \notin {"float", "number", "null", "int"}
    BY <2>1, <2>2, <2>3, <2>7, OrNotFound
  <2> QED
    BY <2>4, <2>5, <2>6, <2>7
<1>4. ASSUME asked.accessor = "GetBoolOption"
      PROVE  answers = {IF k = "null" THEN Found(d) ELSE OrDefault("bool")}
  <2>1. answers = {Found(GetBoolOption(option, d))}
    BY <1>2, <1>4 DEF Returns
  <2>2. k # "null" =>
          GetOption(option, "bool") = IF k = "bool" THEN Found(option.v) ELSE Failed
    BY <1>1 DEF GetOption, RoundTrip, Findable
  <2>3. CASE k = "bool"
    BY <2>1, <2>2, <2>3, OrFound DEF GetBoolOption
  <2>4. CASE k = "null"
    BY <2>1, <2>4 DEF GetBoolOption
  <2>5. CASE k \notin {"bool", "null"}
    BY <2>1, <2>2, <2>5, OrNotFound DEF GetBoolOption
  <2> QED
    BY <2>3, <2>4, <2>5
<1> QED
  BY <1>3, <1>4

\* Whatever is stored under a key and however it came there, GetFloatOption and
\* GetBoolOption answer as GetOption with their default does, a null and, for
\* GetFloatOption, a Go int aside, which they answer with the default; for ints
\* and mantissas of any size.
THEOREM DefaultsAreGetOption == OptionSpec => []SameAsGetOption
<1>1. OptionInit => Travelled
  BY DEF OptionInit, Travelled
<1> QED
  BY <1>1, AccessorsAgree, TravelledStep, PTL DEF OptionSpec

\* int(f) of an int is the int.
LEMMA IntsAreWhole ==
  ASSUME NEW x \in Ints
  PROVE  Truncations(x) = {x}
<1>1. PICK n \in MinInt..MaxInt : x = 2 * n
  BY DEF Ints
<1>2. n \in Int
  OBVIOUS
<1>3. (IF x < 0 THEN -2 * ((-x) \div 2) ELSE 2 * (x \div 2)) = x
  <2>1. CASE x < 0
    <3> DEFINE k == -n
    <3>1. k \in Nat /\ -x = 2 * k /\ x = -2 * k
      BY <1>1, <1>2, <2>1
    <3> HIDE DEF k
    <3>2. (2 * k) \div 2 = k
      BY <3>1
    <3> QED
      BY <2>1, <3>1, <3>2
  <2>2. CASE ~(x < 0)
    <3>1. (2 * n) \div 2 = n
      BY <1>2
    <3> QED
      BY <1>1, <2>2, <3>1
  <2> QED
    BY <2>1, <2>2
<1> DEFINE t == IF x < 0 THEN -2 * ((-x) \div 2) ELSE 2 * (x \div 2)
<1>4. Truncations(x) = IF t \in Ints THEN {t} ELSE Ints
  BY DEF Truncations
<1>5. t = x
  BY <1>3
<1> HIDE DEF t
<1> QED
  BY <1>4, <1>5

\* What GetFloatOption finds of the number GetIntOption is to extract.
LEMMA FindsWhatIsMeant ==
  ASSUME Travelled, Meant \in Floats
  PROVE  GetFloatOption(option, Round(asked.default)) = Meant
<1>1. Round(Meant) = Meant
  BY RoundExact
<1>2. CASE option.kind \notin {"float", "number"}
  <2>1. Meant = asked.default
    BY <1>2 DEF Meant
  <2> QED
    BY <1>1, <1>2, <2>1 DEF GetFloatOption
<1>3. CASE option.kind \in {"float", "number"}
  <2>1. Meant = set.v
    BY <1>3 DEF Meant
  <2>2. CASE option = set
    BY <1>1, <1>3, <2>1, <2>2 DEF GetFloatOption
  <2>3. CASE option = Decoded(set)
    <3>1. CASE set.kind \in {"int", "number"}
      <4>1. option.kind = "float" /\ option.v = Round(set.v)
        BY <2>3, <3>1 DEF Decoded, Value
      <4> QED
        BY <1>1, <2>1, <4>1 DEF GetFloatOption
    <3>2. CASE set.kind \notin {"int", "number"}
      <4>1. option = set
        <5>1. set.kind # "struct"
          BY <1>3, <2>3 DEF Decoded, Value
        <5> QED
          BY <2>3, <3>2, <5>1 DEF Decoded
      <4> QED
        BY <2>2, <4>1
    <3> QED
      BY <3>1, <3>2
  <2> QED
    BY <2>2, <2>3 DEF Travelled
<1> QED
  BY <1>2, <1>3

\* GetIntOption returns the very int that was set, or its default, if a float64
\* holds it, for ints and mantissas of any size.
THEOREM IntsAreExact == OptionSpec => []IntIsExact
<1>1. OptionInit => Travelled
  BY DEF OptionInit, Travelled
<1>2. Travelled => IntIsExact
  <2> SUFFICES ASSUME Travelled, asked.accessor = "GetIntOption", Meant \in Floats \cap Ints
               PROVE  answers = {Found(Meant)}
    BY DEF IntIsExact
  <2>1. answers = {Found(n) : n \in GetIntOption(option, asked.default)}
    BY DEF Travelled, NotAsked, Returns
  <2>2. GetIntOption(option, asked.default) = {Meant}
    BY FindsWhatIsMeant, IntsAreWhole DEF GetIntOption
  <2> QED
    BY <2>1, <2>2
<1> QED
  BY <1>1, <1>2, TravelledStep, PTL DEF OptionSpec

-----------------------------------------------------------------------------
(* The form.                                                                *)

\* What the template prints of a default is what a form is to send of it.
LEMMA DefaultsPrinted ==
  ASSUME NEW d \in Defaults
  PROVE  /\ defaultString(d) = Kept(d)
         /\ defaultBool(d) <=> d.kind = "bool" /\ Kept(d) # ""
         /\ d.kind = "bool" => Kept(d) \in {"true", ""}
         /\ Kept(d) \in {"", "a", "b", "5", "true", "false"}
<1> USE DEF Kept, defaultString, defaultBool
<1>1. CASE d = Nil
  BY <1>1 DEF Nil
<1>2. CASE d \in [kind : {"bool"}, text : {"true", "false"}]
  <2>1. d.kind = "bool" /\ d.text \in {"true", "false"}
    BY <1>2
  <2>2. d # Nil
    BY <2>1 DEF Nil
  <2> QED
    BY <2>1, <2>2
<1>3. CASE d \in [kind : {"number"}, text : {"5"}]
  <2>1. d.kind = "number" /\ d.text = "5"
    BY <1>3
  <2>2. d # Nil
    BY <2>1 DEF Nil
  <2> QED
    BY <2>1, <2>2
<1>4. CASE d \in [kind : {"string"}, text : {"", "a", "b", "5", "true", "false"}]
  <2>1. d.kind = "string" /\ d.text \in {"", "a", "b", "5", "true", "false"} /\ d # Nil
    <3>1. d.kind = "string" /\ d.text \in {"", "a", "b", "5", "true", "false"}
      BY <1>4
    <3>2. Nil.kind = "nil"
      BY DEF Nil
    <3> QED
      BY <3>1, <3>2
  <2> QED
    BY <2>1
<1> QED
  BY <1>1, <1>2, <1>3, <1>4 DEF Defaults

\* A control that can hold the default is rendered with it.
LEMMA RenderedKeeps ==
  ASSUME NEW f \in Fields, Fits(f)
  PROVE  FormValue(Rendered(f)) = Kept(f.default)
<1> DEFINE d == f.default
           v == Kept(d)
<1>1. d \in Defaults
  BY DEF Fields
<1> HIDE DEF d
<1>2. /\ defaultString(d) = v
      /\ defaultBool(d) <=> d.kind = "bool" /\ v # ""
      /\ d.kind = "bool" => v \in {"true", ""}
      /\ v \in {"", "a", "b", "5", "true", "false"}
  BY <1>1, DefaultsPrinted
<1> HIDE DEF v
<1>3. FormValue(v) = v
  BY <1>2 DEF FormValue, Unsent
<1>4. FormValue(Rendered(f)) = v
  <2>1. CASE Control(f) = "select"
    <3>1. \E n \in DOMAIN f.choices : f.choices[n] = v
      BY <2>1 DEF Fits, d, v
    <3>2. Rendered(f) = v
      BY <1>2, <2>1, <3>1 DEF Rendered, Preselected, d
    <3> QED
      BY <1>3, <3>2
  <2>2. CASE Control(f) = "checkbox"
    <3>1. d.kind = "bool" \/ v = ""
      BY <2>2 DEF Fits, d, v
    <3>2. Rendered(f) = IF defaultBool(d) THEN "true" ELSE Unsent
      BY <2>2 DEF Rendered, d
    <3>3. FormValue(Unsent) = ""
      BY DEF FormValue
    <3> QED
      BY <1>2, <1>3, <3>1, <3>2, <3>3
  <2>3. CASE Control(f) = "number"
    <3>1. v \in Numeric \cup {""}
      BY <2>3 DEF Fits, d, v
    <3>2. Rendered(f) = v
      BY <1>2, <2>3, <3>1 DEF Rendered, Numeric, d
    <3> QED
      BY <1>3, <3>2
  <2>4. CASE Control(f) \in {"textarea", "text"}
    <3>1. Rendered(f) = v
      BY <1>2, <2>4 DEF Rendered, d
    <3> QED
      BY <1>3, <3>1
  <2> QED
    BY <2>1, <2>2, <2>3, <2>4 DEF Fits
<1> QED
  BY <1>4 DEF d, v

\* The screen shows the field as it was rendered until it is touched, and what
\* was sent with a result is what the screen showed.
Untouched ==
  /\ field \in Fields
  /\ touched \/ shown = Form(field)
  /\ page = "result" => submitted = shown.value

LEMMA UntouchedStep == Untouched /\ [FormNext]_formVars => Untouched'
<1> SUFFICES ASSUME Untouched, [FormNext]_formVars PROVE Untouched'
  OBVIOUS
<1>1. CASE Edit
  BY <1>1 DEF Edit, Untouched
<1>2. CASE Refuse
  BY <1>2 DEF Refuse, Untouched
<1>3. CASE Accept
  BY <1>3 DEF Accept, Untouched
<1>4. CASE UNCHANGED formVars
  BY <1>4 DEF formVars, Untouched
<1> QED
  BY <1>1, <1>2, <1>3, <1>4 DEF FormNext

\* A field the human left alone is submitted with its default, whatever its
\* type and flags, and however many forms were refused before.
THEOREM DefaultsSurviveTheForm == FormSpec => []UntouchedKeepsDefault
<1>1. FormInit => Untouched
  BY DEF FormInit, Untouched
<1>2. Untouched => UntouchedKeepsDefault
  <2> SUFFICES ASSUME Untouched, page = "result", ~touched, Fits(field)
               PROVE  FormValue(submitted) = Kept(field.default)
    BY DEF UntouchedKeepsDefault
  <2>1. shown = Form(field)
    BY DEF Untouched
  <2>2. submitted = Rendered(field)
    BY <2>1 DEF Untouched, Form
  <2> QED
    BY <2>2, RenderedKeeps DEF Untouched
<1> QED
  BY <1>1, <1>2, UntouchedStep, PTL DEF FormSpec

-----------------------------------------------------------------------------
(* Labels.                                                                  *)

\* Everything a name can be made of.
Characters == LabelCharacters \cup {".", "@"}

\* What is true of the labels of every name: there is one at least.
LabelLists == {ls \in Seq(Seq(Characters)) : ls # <<>>}

\* A list of labels is the labels before the last, and the last.
LEMMA LastLabel ==
  ASSUME NEW ls \in LabelLists
  PROVE  \E front \in Seq(Seq(Characters)), last1 \in Seq(Characters) :
           ls = Append(front, last1)
BY EmptyOrAppend DEF LabelLists

\* A character goes to the last label, a dot begins another.
LEMMA ExtendedDot ==
  ASSUME NEW ls \in LabelLists
  PROVE  Extended(ls, ".") = Append(ls, <<>>)
BY DEF Extended

LEMMA ExtendedLast ==
  ASSUME NEW front \in Seq(Seq(Characters)), NEW l \in Seq(Characters),
         NEW c \in Characters, c # "."
  PROVE  Extended(Append(front, l), c) = Append(front, Append(l, c))
<1> DEFINE u == Append(front, l)
           v == Append(front, Append(l, c))
<1>1. Append(l, c) \in Seq(Characters)
  OBVIOUS
<1>2. /\ u \in Seq(Seq(Characters)) /\ Len(u) = Len(front) + 1
      /\ u[Len(front) + 1] = l /\ \A i \in 1..Len(front) : u[i] = front[i]
  OBVIOUS
<1>3. /\ v \in Seq(Seq(Characters)) /\ Len(v) = Len(front) + 1
      /\ v[Len(front) + 1] = Append(l, c) /\ \A i \in 1..Len(front) : v[i] = front[i]
  BY <1>1
<1>4. Len(front) \in Nat
  OBVIOUS
<1>5. Extended(u, c) = [u EXCEPT ![Len(u)] = Append(u[Len(u)], c)]
  BY DEF Extended
<1> HIDE DEF u, v
<1> DEFINE w == [u EXCEPT ![Len(front) + 1] = Append(l, c)]
<1>6. Extended(u, c) = w
  BY <1>2, <1>5
<1>7. Len(front) + 1 \in 1..Len(u)
  BY <1>2, <1>4
<1>8. /\ w \in Seq(Seq(Characters)) /\ Len(w) = Len(u)
      /\ \A i \in 1..Len(u) : w[i] = IF i = Len(front) + 1 THEN Append(l, c) ELSE u[i]
  BY <1>1, <1>2, <1>7, ExceptSeq
<1> HIDE DEF w
<1>9. w = v
  <2>1. Len(w) = Len(v)
    BY <1>2, <1>3, <1>8
  <2>2. ASSUME NEW i \in 1..Len(w) PROVE w[i] = v[i]
    <3>1. CASE i = Len(front) + 1
      BY <1>2, <1>3, <1>8, <3>1
    <3>2. CASE i # Len(front) + 1
      <4>1. i \in 1..Len(front)
        BY <1>2, <1>4, <1>8, <3>2
      <4> QED
        BY <1>2, <1>3, <1>8, <3>2, <4>1
    <3> QED
      BY <3>1, <3>2
  <2> QED
    BY <1>3, <1>8, <2>1, <2>2, SeqEqual
<1> QED
  BY <1>6, <1>9 DEF u, v

LEMMA ExtendedType ==
  ASSUME NEW ls \in LabelLists, NEW c \in Characters
  PROVE  Extended(ls, c) \in LabelLists
<1>1. CASE c = "."
  <2>1. Append(ls, <<>>) \in Seq(Seq(Characters)) /\ Append(ls, <<>>) # <<>>
    BY EmptySeq DEF LabelLists
  <2> QED
    BY <1>1, <2>1, ExtendedDot DEF LabelLists
<1>2. CASE c # "."
  <2>1. PICK front \in Seq(Seq(Characters)), l \in Seq(Characters) : ls = Append(front, l)
    BY LastLabel
  <2> DEFINE longer == Append(l, c)
  <2>2. longer \in Seq(Characters)
    OBVIOUS
  <2> HIDE DEF longer
  <2>3. Append(front, longer) \in LabelLists
    <3> DEFINE Ls == Seq(Characters)
    <3>1. front \in Seq(Ls) /\ longer \in Ls
      BY <2>1, <2>2
    <3> HIDE DEF Ls
    <3>2. Append(front, longer) \in Seq(Ls) /\ Append(front, longer) # <<>>
      BY <3>1, AppendProperties
    <3> QED
      BY <3>2 DEF LabelLists, Ls
  <2> QED
    BY <1>2, <2>1, <2>3, ExtendedLast DEF longer
<1> QED
  BY <1>1, <1>2

\* What Labels is made of: the labels of the first n characters.
UpTo(s, N, f) ==
  f = [n \in 0..N |-> IF n = 0 THEN <<<<>>>> ELSE Extended(f[n - 1], s[n])]

\* The labels of every beginning of a name are those of the beginning before,
\* extended by one character.
LEMMA UpToExists ==
  ASSUME NEW s \in Seq(Characters), NEW N \in Nat, N <= Len(s)
  PROVE  \E f \in [0..N -> LabelLists] : UpTo(s, N, f)
<1>1. <<<<>>>> \in LabelLists
  BY EmptySeq DEF LabelLists
<1> DEFINE step == [p \in Nat \X LabelLists |->
                      IF p[1] + 1 \in 1..Len(s) THEN Extended(p[2], s[p[1] + 1]) ELSE p[2]]
<1>2. step \in [Nat \X LabelLists -> LabelLists]
  <2>1. ASSUME NEW p \in Nat \X LabelLists PROVE step[p] \in LabelLists
    <3>1. p[2] \in LabelLists
      OBVIOUS
    <3>2. p[1] + 1 \in 1..Len(s) => s[p[1] + 1] \in Characters
      OBVIOUS
    <3> QED
      BY <3>1, <3>2, ExtendedType
  <2> QED
    BY <2>1
<1>3. \A n \in Nat : \A ls \in LabelLists :
        n + 1 \in 1..Len(s) => step[<<n, ls>>] = Extended(ls, s[n + 1])
  OBVIOUS
<1> HIDE DEF step
<1>4. PICK f \in [0..N -> LabelLists] : Follows(f, N, <<<<>>>>, step)
  BY <1>1, <1>2, Recursion
<1>5. ASSUME NEW n \in 0..N
      PROVE  f[n] = IF n = 0 THEN <<<<>>>> ELSE Extended(f[n - 1], s[n])
  <2>1. CASE n = 0
    BY <1>4, <2>1 DEF Follows
  <2>2. CASE n # 0
    <3> DEFINE k == n - 1
    <3>1. k \in 0..(N - 1) /\ k \in Nat /\ k + 1 = n /\ k + 1 \in 1..Len(s) /\ k \in 0..N
      BY <2>2
    <3> HIDE DEF k
    <3>2. f[k + 1] = step[<<k, f[k]>>]
      BY <1>4, <3>1 DEF Follows
    <3>3. f[k] \in LabelLists
      BY <1>4, <3>1
    <3>4. f[k + 1] = Extended(f[k], s[k + 1])
      BY <1>3, <3>1, <3>2, <3>3
    <3> QED
      BY <2>2, <3>1, <3>4 DEF k
  <2> QED
    BY <2>1, <2>2
<1>6. f = [n \in 0..N |-> IF n = 0 THEN <<<<>>>> ELSE Extended(f[n - 1], s[n])]
  BY <1>4, <1>5
<1> QED
  BY <1>4, <1>6 DEF UpTo

LEMMA UpToStep ==
  ASSUME NEW s, NEW N \in Nat, NEW f, UpTo(s, N, f)
  PROVE  f[0] = <<<<>>>> /\ \A n \in 0..(N - 1) : f[n + 1] = Extended(f[n], s[n + 1])
<1> DEFINE F == [n \in 0..N |-> IF n = 0 THEN <<<<>>>> ELSE Extended(f[n - 1], s[n])]
<1>1. F[0] = <<<<>>>>
  OBVIOUS
<1>2. ASSUME NEW n \in 0..(N - 1) PROVE F[n + 1] = Extended(f[n], s[n + 1])
  <2>1. n + 1 \in 0..N /\ n + 1 # 0 /\ (n + 1) - 1 = n
    OBVIOUS
  <2> QED
    BY <2>1
<1>3. f = F
  BY DEF UpTo
<1> HIDE DEF F
<1> QED
  BY <1>1, <1>2, <1>3

\* They depend on the beginning alone.
StartsAs(s, t, N) == \A i \in 1..N : s[i] = t[i]

LEMMA UpToAgree ==
  ASSUME NEW s, NEW t, NEW N \in Nat, NEW M \in Nat, N <= M, StartsAs(s, t, N),
         NEW f, NEW g, UpTo(s, N, f), UpTo(t, M, g)
  PROVE  f[N] = g[N]
<1> DEFINE Same == {n \in Nat : n <= N => f[n] = g[n]}
<1>1. /\ f[0] = <<<<>>>> /\ \A n \in 0..(N - 1) : f[n + 1] = Extended(f[n], s[n + 1])
      /\ g[0] = <<<<>>>> /\ \A n \in 0..(M - 1) : g[n + 1] = Extended(g[n], t[n + 1])
  BY UpToStep
<1>2. 0 \in Same
  <2>1. f[0] = g[0]
    BY <1>1, Zenon
  <2> QED
    BY <2>1
<1>3. ASSUME NEW n \in Nat, n \in Same PROVE n + 1 \in Same
  <2>1. ASSUME n + 1 <= N PROVE f[n + 1] = g[n + 1]
    <3>1. n \in 0..(N - 1) /\ n \in 0..(M - 1) /\ n + 1 \in 1..N
      BY <2>1
    <3>2. f[n] = g[n]
      BY <1>3, <2>1
    <3>3. f[n + 1] = Extended(f[n], s[n + 1]) /\ g[n + 1] = Extended(g[n], t[n + 1])
      BY <1>1, <3>1
    <3> QED
      BY <3>1, <3>2, <3>3 DEF StartsAs
  <2> QED
    BY <2>1
<1> HIDE DEF Same
<1>4. \A n \in Nat : n \in Same
  BY <1>2, <1>3, Induction
<1> QED
  BY <1>4 DEF Same

LEMMA LabelsUpTo ==
  ASSUME NEW s \in Seq(Characters), NEW f, UpTo(s, Len(s), f)
  PROVE  Labels(s) = f[Len(s)]
<1> DEFINE chosen == CHOOSE g : UpTo(s, Len(s), g)
<1>1. Labels(s) = chosen[Len(s)]
  BY DEF Labels, UpTo
<1>2. UpTo(s, Len(s), chosen)
  OBVIOUS
<1> HIDE DEF chosen
<1>3. Len(s) \in Nat /\ Len(s) <= Len(s) /\ Len(s) \in 0..Len(s)
  OBVIOUS
<1>4. StartsAs(s, s, Len(s))
  BY DEF StartsAs
<1>5. chosen[Len(s)] = f[Len(s)]
  BY <1>2, <1>3, <1>4, UpToAgree
<1> QED
  BY <1>1, <1>5

\* Labels, from the end of a name: no character makes one empty label, and each
\* further character extends them.
LEMMA LabelsOfNone == Labels(<<>>) = <<<<>>>>
<1> DEFINE none == <<>>
<1>1. none \in Seq(Characters) /\ Len(none) = 0 /\ 0 \in Nat /\ 0 <= Len(none)
  BY EmptySeq
<1> HIDE DEF none
<1>2. PICK f \in [0..0 -> LabelLists] : UpTo(none, 0, f)
  BY <1>1, UpToExists
<1>3. f[0] = <<<<>>>>
  BY <1>2 DEF UpTo
<1>4. Labels(none) = f[0]
  BY <1>1, <1>2, LabelsUpTo
<1> QED
  BY <1>3, <1>4 DEF none

LEMMA LabelsType ==
  ASSUME NEW s \in Seq(Characters)
  PROVE  Labels(s) \in LabelLists
<1>1. Len(s) \in Nat /\ Len(s) <= Len(s) /\ Len(s) \in 0..Len(s)
  OBVIOUS
<1>2. PICK f \in [0..Len(s) -> LabelLists] : UpTo(s, Len(s), f)
  BY <1>1, UpToExists
<1> QED
  BY <1>1, <1>2, LabelsUpTo

LEMMA LabelsOfOneMore ==
  ASSUME NEW s \in Seq(Characters), NEW c \in Characters
  PROVE  Labels(Append(s, c)) = Extended(Labels(s), c)
<1> DEFINE t == Append(s, c)
           N == Len(s)
<1>1. /\ t \in Seq(Characters) /\ Len(t) = N + 1 /\ t[N + 1] = c /\ N \in Nat
      /\ \A i \in 1..N : s[i] = t[i]
  OBVIOUS
<1>2. N = Len(s)
  OBVIOUS
<1> HIDE DEF t, N
<1>3. PICK f \in [0..N -> LabelLists] : UpTo(s, N, f)
  BY <1>1, <1>2, UpToExists
<1>4. N + 1 \in Nat /\ N + 1 <= Len(t) /\ N <= N + 1 /\ N \in 0..N /\ N + 1 \in 0..(N + 1)
      /\ N + 1 # 0 /\ (N + 1) - 1 = N
  BY <1>1
<1>5. PICK g \in [0..(N + 1) -> LabelLists] : UpTo(t, N + 1, g)
  BY <1>1, <1>4, UpToExists
<1>6. f[N] = g[N]
  <2>1. UpTo(s, N, f) /\ UpTo(t, N + 1, g) /\ N \in Nat /\ N + 1 \in Nat /\ N <= N + 1
    BY <1>1, <1>3, <1>4, <1>5
  <2>2. StartsAs(s, t, N)
    BY <1>1 DEF StartsAs
  <2> QED
    BY <2>1, <2>2, UpToAgree
<1>7. g[N + 1] = Extended(g[N], t[N + 1])
  <2>1. N \in 0..((N + 1) - 1)
    BY <1>1
  <2> QED
    BY <1>4, <1>5, <2>1, UpToStep
<1>8. Labels(s) = f[N] /\ Labels(t) = g[N + 1]
  BY <1>1, <1>2, <1>3, <1>5, LabelsUpTo
<1> QED
  BY <1>1, <1>6, <1>7, <1>8 DEF t

-----------------------------------------------------------------------------
(* Labels, from the end of names.                                           *)

\* Extended lists of labels end in one another as they did before, if it is by
\* the same character.
LEMMA EndsExtended ==
  ASSUME NEW x \in LabelLists, NEW y \in LabelLists,
         NEW d \in Characters, NEW e \in Characters
  PROVE  Ends(Extended(x, d), Extended(y, e)) <=> d = e /\ Ends(x, y)
<1> DEFINE Ls == Seq(Characters)
<1>1. PICK fx \in Seq(Ls), lx \in Ls : x = Append(fx, lx)
  BY LastLabel
<1>2. PICK fy \in Seq(Ls), ly \in Ls : y = Append(fy, ly)
  BY LastLabel
<1> DEFINE lxd == Append(lx, d)
           lye == Append(ly, e)
<1>3. /\ lxd \in Ls /\ lye \in Ls /\ <<>> \in Ls
      /\ lxd # <<>> /\ lye # <<>>
      /\ lxd = lye <=> lx = ly /\ d = e
  <2>1. Len(lxd) = Len(lx) + 1 /\ lxd[Len(lx) + 1] = d /\ \A i \in 1..Len(lx) : lxd[i] = lx[i]
    OBVIOUS
  <2>2. Len(lye) = Len(ly) + 1 /\ lye[Len(ly) + 1] = e /\ \A i \in 1..Len(ly) : lye[i] = ly[i]
    OBVIOUS
  <2>3. lxd \in Ls /\ lye \in Ls /\ <<>> \in Ls /\ lxd # <<>> /\ lye # <<>>
    <3>1. lxd \in Ls /\ lye \in Ls
      OBVIOUS
    <3>2. lxd # <<>> /\ lye # <<>>
      BY AppendProperties
    <3> QED
      BY <3>1, <3>2, EmptySeq
  <2>4. ASSUME lxd = lye PROVE lx = ly /\ d = e
    <3> HIDE DEF lxd, lye
    <3>1. Len(lx) = Len(ly) /\ d = e
      BY <2>1, <2>2, <2>4
    <3>2. \A i \in 1..Len(lx) : lx[i] = ly[i]
      BY <2>1, <2>2, <2>4, <3>1
    <3> QED
      BY <3>1, <3>2, SeqEqual
  <2> QED
    BY <2>3, <2>4
<1>4. Ends(x, y) <=> lx = ly /\ Ends(fx, fy)
  BY <1>1, <1>2, EndsAppend
<1>5. x \in Seq(Ls) /\ y \in Seq(Ls)
  BY DEF LabelLists
<1>6. CASE d = "." /\ e = "."
  <2>1. Extended(x, d) = Append(x, <<>>) /\ Extended(y, e) = Append(y, <<>>)
    BY <1>6, ExtendedDot
  <2>2. Ends(Append(x, <<>>), Append(y, <<>>)) <=> <<>> = <<>> /\ Ends(x, y)
    <3> HIDE DEF Ls
    <3> QED
      BY <1>3, <1>5, EndsAppend
  <2> QED
    BY <1>6, <2>1, <2>2
<1>7. CASE d = "." /\ e # "."
  <2>1. Extended(x, d) = Append(x, <<>>) /\ Extended(y, e) = Append(fy, lye)
    BY <1>2, <1>7, ExtendedDot, ExtendedLast
  <2>2. Ends(Append(x, <<>>), Append(fy, lye)) <=> <<>> = lye /\ Ends(x, fy)
    <3> HIDE DEF Ls, lye
    <3> QED
      BY <1>2, <1>3, <1>5, EndsAppend
  <2> HIDE DEF lye
  <2> QED
    BY <1>3, <1>7, <2>1, <2>2
<1>8. CASE d # "." /\ e = "."
  <2>1. Extended(x, d) = Append(fx, lxd) /\ Extended(y, e) = Append(y, <<>>)
    BY <1>1, <1>8, ExtendedDot, ExtendedLast
  <2>2. Ends(Append(fx, lxd), Append(y, <<>>)) <=> lxd = <<>> /\ Ends(fx, y)
    <3> HIDE DEF Ls, lxd
    <3> QED
      BY <1>1, <1>3, <1>5, EndsAppend
  <2> HIDE DEF lxd
  <2> QED
    BY <1>3, <1>8, <2>1, <2>2
<1>9. CASE d # "." /\ e # "."
  <2>1. Extended(x, d) = Append(fx, lxd) /\ Extended(y, e) = Append(fy, lye)
    BY <1>1, <1>2, <1>9, ExtendedLast
  <2>2. Ends(Append(fx, lxd), Append(fy, lye)) <=> lxd = lye /\ Ends(fx, fy)
    <3> HIDE DEF Ls, lxd, lye
    <3> QED
      BY <1>1, <1>2, <1>3, EndsAppend
  <2> HIDE DEF lxd, lye
  <2> QED
    BY <1>3, <1>4, <2>1, <2>2
<1> QED
  BY <1>6, <1>7, <1>8, <1>9

\* What has been extended is more than one empty label.
LEMMA ExtendedIsMore ==
  ASSUME NEW x \in LabelLists, NEW d \in Characters
  PROVE  ~Ends(Extended(x, d), <<<<>>>>)
<1> DEFINE Ls == Seq(Characters)
<1>1. PICK fx \in Seq(Ls), lx \in Ls : x = Append(fx, lx)
  BY LastLabel
<1>2. x \in Seq(Ls) /\ <<>> \in Ls /\ <<>> \in Seq(Ls) /\ <<<<>>>> = Append(<<>>, <<>>)
  BY EmptySeq DEF LabelLists
<1>3. CASE d = "."
  <2>1. Extended(x, d) = Append(x, <<>>)
    BY <1>3, ExtendedDot
  <2>2. Len(Append(x, <<>>)) = Len(x) + 1 /\ Len(x) > 0 /\ Len(<<<<>>>>) = 1
    BY <1>2 DEF LabelLists
  <2> QED
    BY <2>1, <2>2 DEF Ends
<1>4. CASE d # "."
  <2> DEFINE lxd == Append(lx, d)
  <2>1. Extended(x, d) = Append(fx, lxd)
    BY <1>1, <1>4, ExtendedLast
  <2>2. lxd \in Ls /\ lxd # <<>>
    OBVIOUS
  <2> HIDE DEF lxd, Ls
  <2> DEFINE none == <<>>
  <2>3. none \in Ls /\ none \in Seq(Ls)
    BY <1>2
  <2> HIDE DEF none
  <2>4. Ends(Append(fx, lxd), Append(none, none)) <=> lxd = none /\ Ends(fx, none)
    BY <1>1, <2>2, <2>3, EndsAppend
  <2> QED
    BY <1>2, <2>1, <2>2, <2>4 DEF none
<1> QED
  BY <1>3, <1>4

LEMMA DotIsName == Dot \in Seq(Characters) /\ At \in Seq(Characters) /\ <<>> \in Seq(Characters)
                   /\ Dot = Append(<<>>, ".") /\ Len(Dot) = 1 /\ Len(At) = 1
BY EmptySeq DEF Dot, At, Characters

\* Every sequence ends in none.
LEMMA EndsInNone == ASSUME NEW S, NEW s \in Seq(S) PROVE Ends(<<>>, s)
BY EmptySeq DEF Ends

LEMMA EndsInDot ==
  ASSUME NEW p \in Seq(Characters), NEW c \in Characters
  PROVE  Ends(Dot, Append(p, c)) <=> c = "."
<1> DEFINE none == <<>>
<1>1. none \in Seq(Characters) /\ Ends(none, p) /\ Dot = Append(none, ".") /\ "." \in Characters
  BY DotIsName, EndsInNone DEF Characters
<1> HIDE DEF none
<1>2. Ends(Append(none, "."), Append(p, c)) <=> "." = c /\ Ends(none, p)
  BY <1>1, EndsAppend
<1> QED
  BY <1>1, <1>2

\* A dot between two names puts the labels of one before those of the other.
LEMMA LabelsOfParts ==
  ASSUME NEW a \in Seq(Characters), NEW b \in Seq(Characters)
  PROVE  Labels(a \o Dot \o b) = Labels(a) \o Labels(b)
<1> DEFINE Holds == {t \in Seq(Characters) : Labels(a \o Dot \o t) = Labels(a) \o Labels(t)}
           ad == a \o Dot
           la == Labels(a)
           Ls == Seq(Characters)
<1>1. ad \in Seq(Characters) /\ ad = Append(a, ".") /\ "." \in Characters
  <2>1. a \o Dot \in Seq(Characters)
    BY DotIsName, ConcatProperties
  <2>2. "." \in Characters
    BY DEF Characters
  <2> QED
    BY <2>1, <2>2, AppendIsConcat DEF Dot
<1>2. la \in LabelLists /\ la \in Seq(Ls)
  BY LabelsType DEF LabelLists
<1> HIDE DEF ad, la
<1>3. <<>> \in Holds
  <2>1. ad \o <<>> = ad
    BY <1>1, ConcatEmptySeq
  <2>2. Labels(ad) = Append(la, <<>>)
    <3>1. Labels(ad) = Extended(la, ".")
      BY <1>1, LabelsOfOneMore DEF la
    <3> QED
      BY <1>2, <3>1, ExtendedDot
  <2>3. Append(la, <<>>) = la \o <<<<>>>>
    <3> DEFINE none == <<>>
    <3>1. none \in Ls
      BY EmptySeq
    <3> HIDE DEF none, Ls
    <3>2. Append(la, none) = la \o <<none>>
      BY <1>2, <3>1, AppendIsConcat
    <3> QED
      BY <3>2 DEF none
  <2> QED
    BY <2>1, <2>2, <2>3, EmptySeq, LabelsOfNone DEF ad, la
<1>4. ASSUME NEW t \in Seq(Characters), t \in Holds, NEW c \in Characters
      PROVE  Append(t, c) \in Holds
  <2> DEFINE lt == Labels(t)
             at == ad \o t
  <2>1. lt \in LabelLists /\ lt \in Seq(Ls)
    BY LabelsType DEF LabelLists
  <2>2. at \in Seq(Characters) /\ Labels(at) = la \o lt
    BY <1>1, <1>4, ConcatProperties DEF ad, la
  <2>3. ad \o Append(t, c) = Append(at, c)
    BY <1>1, ConcatAppend
  <2>4. Labels(Append(t, c)) = Extended(lt, c)
    BY LabelsOfOneMore
  <2>5. Labels(Append(at, c)) = Extended(la \o lt, c)
    BY <2>2, LabelsOfOneMore
  <2> HIDE DEF lt, at
  <2>6. Extended(la \o lt, c) = la \o Extended(lt, c)
    <3>1. PICK front \in Seq(Ls), l \in Ls : lt = Append(front, l)
      BY <2>1, LastLabel
    <3> HIDE DEF Ls
    <3> DEFINE both == la \o front
    <3>2. both \in Seq(Ls)
      BY <1>2, <3>1, ConcatProperties
    <3>3. \A e \in Ls : la \o Append(front, e) = Append(both, e)
      BY <1>2, <3>1, ConcatAppend
    <3> HIDE DEF both
    <3>4. la \o lt = Append(both, l)
      BY <3>1, <3>3
    <3>5. CASE c = "."
      <4> DEFINE none == <<>>
                 lalt == la \o lt
      <4>1. none \in Ls
        BY EmptySeq DEF Ls
      <4>2. lalt \in Seq(Ls) /\ lalt # none
        BY <3>1, <3>2, <3>4, AppendProperties
      <4>3. Extended(lalt, c) = Append(lalt, none) /\ Extended(lt, c) = Append(lt, none)
        BY <2>1, <3>5, <4>2, ExtendedDot DEF LabelLists, Ls
      <4>4. la \o Append(lt, none) = Append(lalt, none)
        <5> HIDE DEF none
        <5> QED
          BY <1>2, <2>1, <4>1, ConcatAppend
      <4> HIDE DEF none
      <4> QED
        BY <4>3, <4>4 DEF lalt
    <3>6. CASE c # "."
      <4> DEFINE lc == Append(l, c)
      <4>1. lc \in Ls
        BY <3>1, AppendProperties DEF Ls
      <4>2. Extended(lt, c) = Append(front, lc) /\ Extended(Append(both, l), c) = Append(both, lc)
        BY <3>1, <3>2, <3>6, ExtendedLast DEF Ls
      <4> HIDE DEF lc
      <4> QED
        BY <3>3, <3>4, <4>1, <4>2
    <3> QED
      BY <3>5, <3>6
  <2> QED
    BY <2>3, <2>4, <2>5, <2>6, AppendProperties DEF ad, la
<1> HIDE DEF Holds
<1>5. \A t \in Seq(Characters) : t \in Holds
  BY <1>3, <1>4, AppendInduction
<1> QED
  BY <1>5 DEF Holds

\* A name's labels are the last of another's when the code's test says so: it is
\* the same name, or the other ends in a dot and the name.
LEMMA LabelsOfSuffix ==
  ASSUME NEW o \in Seq(Characters), NEW n \in Seq(Characters)
  PROVE  Ends(Labels(o), Labels(n)) <=> n = o \/ Ends(Dot \o o, n)
<1> DEFINE Fits1(t, m) == Ends(Labels(t), Labels(m)) <=> m = t \/ Ends(Dot \o t, m)
           Holds == {t \in Seq(Characters) : \A m \in Seq(Characters) : Fits1(t, m)}
           none == <<>>
           nil == Labels(none)
           Ls == Seq(Characters)
<1>1. none \in Seq(Characters) /\ nil = <<<<>>>> /\ nil \in LabelLists /\ nil \in Seq(Ls)
      /\ nil = Append(none, none) /\ none \in Ls /\ none \in Seq(Ls)
  <2>1. none \in Seq(Characters) /\ none \in Ls /\ none \in Seq(Ls)
    BY EmptySeq
  <2>2. nil = <<<<>>>>
    BY LabelsOfNone
  <2>3. nil = Append(none, none)
    BY <2>2
  <2>4. nil \in LabelLists
    BY <2>1, LabelsType
  <2> QED
    BY <2>1, <2>2, <2>3, <2>4 DEF LabelLists
<1>2. Dot \in Seq(Characters) /\ Dot \o none = Dot /\ Dot = Append(none, ".") /\ "." \in Characters
  BY DotIsName, ConcatEmptySeq DEF Characters
<1>3. \A t \in Seq(Characters) : Labels(t) \in LabelLists /\ Labels(t) \in Seq(Ls)
  BY LabelsType DEF LabelLists
<1>4. ASSUME NEW m \in Seq(Characters)
      PROVE  m = none \/ \E m1 \in Seq(Characters), e \in Characters : m = Append(m1, e)
  BY EmptyOrAppend
<1>5. \A t \in Seq(Characters) : \A c \in Characters : Append(t, c) \in Seq(Characters)
        /\ Append(t, c) # none /\ Labels(Append(t, c)) = Extended(Labels(t), c)
  BY AppendProperties, LabelsOfOneMore
<1> HIDE DEF none, nil, Ls
<1>6. none \in Holds
  <2>1. ASSUME NEW m \in Seq(Characters) PROVE Fits1(none, m)
    <3>1. CASE m = none
      <4>1. Ends(Append(none, none), Append(none, none)) <=> none = none /\ Ends(none, none)
        BY <1>1, EndsAppend
      <4>2. Ends(nil, nil)
        BY <1>1, <4>1, EndsInNone DEF none
      <4> QED
        BY <3>1, <4>2 DEF nil
    <3>2. ASSUME NEW m1 \in Seq(Characters), NEW e \in Characters, m = Append(m1, e)
          PROVE  Fits1(none, m)
      <4> DEFINE lm == Labels(m1)
      <4>1. Labels(m) = Extended(lm, e) /\ lm \in LabelLists /\ lm \in Seq(Ls)
        BY <1>3, <1>5, <3>2
      <4>2. Ends(Dot, m) <=> e = "."
        BY <3>2, EndsInDot
      <4> HIDE DEF lm
      <4>3. Ends(nil, Extended(lm, e)) <=> e = "."
        <5>1. CASE e = "."
          <6>1. Extended(lm, e) = Append(lm, none)
            BY <4>1, <5>1, ExtendedDot DEF none
          <6>2. Ends(Append(none, none), Append(lm, none)) <=> none = none /\ Ends(none, lm)
            BY <1>1, <4>1, EndsAppend
          <6>3. Ends(none, lm)
            BY <4>1, EndsInNone DEF none
          <6> QED
            BY <1>1, <5>1, <6>1, <6>2, <6>3
        <5>2. CASE e # "."
          <6>1. PICK front \in Seq(Ls), l \in Ls : lm = Append(front, l)
            BY <4>1, LastLabel DEF Ls
          <6> DEFINE le == Append(l, e)
          <6>2. le \in Ls /\ le # none
            <7>1. l \in Seq(Characters)
              BY <6>1 DEF Ls
            <7>2. le \in Seq(Characters)
              BY <7>1
            <7>3. le # <<>>
              BY <7>1, AppendProperties
            <7> QED
              BY <7>2, <7>3 DEF Ls, none
          <6>3. Extended(lm, e) = Append(front, le)
            BY <5>2, <6>1, ExtendedLast DEF Ls
          <6> HIDE DEF le
          <6>4. Ends(Append(none, none), Append(front, le)) <=> none = le /\ Ends(none, front)
            BY <1>1, <6>1, <6>2, EndsAppend
          <6> QED
            BY <1>1, <5>2, <6>2, <6>3, <6>4
        <5> QED
          BY <5>1, <5>2
      <4> QED
        BY <1>2, <1>5, <3>2, <4>1, <4>2, <4>3 DEF nil
    <3> QED
      BY <1>4, <3>1, <3>2
  <2> HIDE DEF Fits1
  <2> QED
    BY <1>1, <2>1
<1>7. ASSUME NEW t \in Seq(Characters), t \in Holds, NEW d \in Characters
      PROVE  Append(t, d) \in Holds
  <2> DEFINE td == Append(t, d)
             dt == Dot \o t
  <2>1. td \in Seq(Characters) /\ td # none /\ Labels(td) = Extended(Labels(t), d)
    BY <1>5
  <2>2. dt \in Seq(Characters) /\ Dot \o td = Append(dt, d)
    BY <1>2, ConcatProperties, ConcatAppend
  <2>3. ASSUME NEW m \in Seq(Characters) PROVE Fits1(td, m)
    <3>1. CASE m = none
      <4>1. ~Ends(Extended(Labels(t), d), nil)
        BY <1>1, <1>3, ExtendedIsMore
      <4>2. ~Ends(Dot \o td, none)
        <5>1. Len(Append(dt, d)) = Len(dt) + 1 /\ Len(dt) \in Nat /\ Len(none) = 0
          BY <2>2, AppendProperties, EmptySeq, LenProperties DEF none
        <5> QED
          BY <2>2, <5>1 DEF Ends
      <4> QED
        BY <2>1, <3>1, <4>1, <4>2 DEF nil
    <3>2. ASSUME NEW m1 \in Seq(Characters), NEW e \in Characters, m = Append(m1, e)
          PROVE  Fits1(td, m)
      <4>1. Ends(Labels(td), Labels(m)) <=> d = e /\ Ends(Labels(t), Labels(m1))
        BY <1>3, <1>5, <2>1, <3>2, EndsExtended
      <4>2. Ends(Labels(t), Labels(m1)) <=> m1 = t \/ Ends(dt, m1)
        BY <1>7, <3>2
      <4>3. Ends(Dot \o td, m) <=> d = e /\ Ends(dt, m1)
        <5> HIDE DEF td, dt
        <5> QED
          BY <2>2, <3>2, EndsAppend
      <4>4. m = td <=> d = e /\ m1 = t
        <5>1. /\ Len(td) = Len(t) + 1 /\ td[Len(t) + 1] = d /\ \A i \in 1..Len(t) : td[i] = t[i]
              /\ Len(m) = Len(m1) + 1 /\ m[Len(m1) + 1] = e /\ \A i \in 1..Len(m1) : m[i] = m1[i]
              /\ Len(t) \in Nat /\ Len(m1) \in Nat
          BY <3>2, AppendProperties, LenProperties
        <5>2. ASSUME m = td PROVE d = e /\ m1 = t
          <6> HIDE DEF td
          <6>1. Len(m1) = Len(t) /\ d = e
            BY <5>1, <5>2
          <6>2. \A i \in 1..Len(m1) : m1[i] = t[i]
            BY <5>1, <5>2, <6>1
          <6> QED
            BY <6>1, <6>2, SeqEqual
        <5> QED
          BY <3>2, <5>2
      <4> HIDE DEF td, dt
      <4> QED
        BY <4>1, <4>2, <4>3, <4>4
    <3> QED
      BY <1>4, <3>1, <3>2
  <2> HIDE DEF Fits1
  <2> QED
    BY <2>1, <2>3
<1> HIDE DEF Holds
<1>8. \A t \in Seq(Characters) : t \in Holds
  BY <1>6, <1>7, AppendInduction DEF none
<1> QED
  BY <1>8 DEF Holds

-----------------------------------------------------------------------------
(* Names.                                                                   *)

LEMMA TrimType == ASSUME NEW s \in Seq(Characters) PROVE Trim(s) \in Seq(Characters)
<1>1. CASE s = <<>>
  <2>1. ~Ends(Dot, s)
    BY <1>1, DotIsName, EmptySeq DEF Ends
  <2> QED
    BY <2>1, DotIsName, SuffixIsEnd DEF Trim
<1>2. CASE s # <<>>
  <2>1. Front(s) \in Seq(Characters)
    BY <1>2 DEF Front
  <2> QED
    BY <2>1 DEF Trim
<1> QED
  BY <1>1, <1>2

\* What Trim does to a name that ends in a character.
LEMMA TrimOfOneMore ==
  ASSUME NEW s \in Seq(Characters), NEW c \in Characters
  PROVE  Trim(Append(s, c)) = IF c = "." THEN s ELSE Append(s, c)
<1> DEFINE t == Append(s, c)
<1>1. t \in Seq(Characters)
  OBVIOUS
<1>2. Front(t) = s
  <2>1. Len(t) = Len(s) + 1 /\ \A i \in 1..Len(s) : t[i] = s[i]
    OBVIOUS
  <2> HIDE DEF t
  <2>2. Front(t) = SubSeq(t, 1, Len(s))
    BY <2>1 DEF Front
  <2>3. Len(Front(t)) = Len(s) /\ Front(t) \in Seq(Characters)
        /\ \A i \in 1..Len(s) : Front(t)[i] = s[i]
    BY <1>1, <2>1, <2>2
  <2> QED
    BY <2>3, SeqEqual
<1>3. IsSuffix(Dot, t) <=> c = "."
  <2>1. IsSuffix(Dot, t) <=> Ends(Dot, t)
    BY <1>1, DotIsName, SuffixIsEnd
  <2> QED
    BY <2>1, EndsInDot
<1> QED
  BY <1>2, <1>3 DEF Trim

LEMMA TrimOfNone == Trim(<<>>) = <<>>
<1> DEFINE none == <<>>
<1>1. none \in Seq(Characters) /\ ~Ends(Dot, none)
  BY DotIsName, EmptySeq DEF Ends
<1> HIDE DEF none
<1>2. ~IsSuffix(Dot, none)
  BY <1>1, DotIsName, SuffixIsEnd
<1> QED
  BY <1>2 DEF Trim, none

\* Names nothing is left to trim from, once trimmed: those without an empty
\* label at their end.
Trimmed(s) == s \in Seq(Characters) /\ Trim(s) = s

LEMMA TrimmedLast ==
  ASSUME NEW s \in Seq(Characters), NEW c \in Characters
  PROVE  Trimmed(Append(s, c)) <=> c # "."
<1>1. Len(Append(s, c)) = Len(s) + 1 /\ Len(s) \in Nat /\ Append(s, c) \in Seq(Characters)
  BY AppendProperties, LenProperties
<1>2. s # Append(s, c)
  BY <1>1
<1> QED
  BY <1>1, <1>2, TrimOfOneMore DEF Trimmed

LEMMA WellFormedIsTrimmed ==
  ASSUME NEW s \in Seq(Characters), WellFormed(s)
  PROVE  Trimmed(Trim(s))
<1> DEFINE t == Trim(s)
<1>1. t \in Seq(Characters)
  BY TrimType
<1>2. t = <<>> \/ <<>> \notin Range(Labels(t))
  BY DEF WellFormed
<1> HIDE DEF t
<1>3. ASSUME t = <<>> PROVE Trimmed(t)
  BY <1>1, <1>3, TrimOfNone DEF Trimmed
<1>4. ASSUME NEW p \in Seq(Characters), NEW c \in Characters, t = Append(p, c)
      PROVE  Trimmed(t)
  <2>1. t # <<>>
    BY <1>4, AppendProperties
  <2>2. ASSUME c = "." PROVE FALSE
    <3> DEFINE lp == Labels(p)
    <3>1. Labels(t) = Append(lp, <<>>) /\ lp \in Seq(Seq(Characters))
      <4>1. lp \in LabelLists
        BY LabelsType
      <4>2. Labels(t) = Extended(lp, c)
        BY <1>4, LabelsOfOneMore
      <4> HIDE DEF lp
      <4> QED
        BY <2>2, <4>1, <4>2, ExtendedDot DEF LabelLists
    <3> HIDE DEF lp
    <3> DEFINE none == <<>>
               Ls == Seq(Characters)
    <3>2. none \in Ls /\ lp \in Seq(Ls)
      BY <3>1, EmptySeq
    <3> HIDE DEF none, Ls
    <3>3. Append(lp, none) \in Seq(Ls) /\ Len(Append(lp, none)) = Len(lp) + 1
          /\ Append(lp, none)[Len(lp) + 1] = none /\ Len(lp) \in Nat
      BY <3>2, AppendProperties, LenProperties
    <3> DEFINE ls == Append(lp, none)
    <3>4. Len(lp) + 1 \in DOMAIN ls /\ ls[Len(lp) + 1] = none
      <4> HIDE DEF ls
      <4>1. ls \in Seq(Ls) /\ Len(ls) = Len(lp) + 1 /\ ls[Len(lp) + 1] = none /\ Len(lp) \in Nat
        BY <3>3 DEF ls
      <4> QED
        BY <4>1
    <3>5. none \in Range(ls)
      <4> HIDE DEF ls
      <4> QED
        BY <3>4 DEF Range
    <3> QED
      BY <1>2, <2>1, <3>1, <3>5 DEF none
  <2> QED
    BY <1>4, <2>2, TrimmedLast
<1>5. t = <<>> \/ \E p \in Seq(Characters), c \in Characters : t = Append(p, c)
  BY <1>1, EmptyOrAppend
<1>6. Trimmed(t)
  BY <1>3, <1>4, <1>5
<1> QED
  BY <1>6 DEF t

LEMMA NamesAreTrimmed ==
  ASSUME NEW s \in NameSet
  PROVE  s \in Seq(Characters) /\ Trimmed(Trim(s))
<1>1. CASE s = At
  <2>1. At = Append(<<>>, "@") /\ "@" \in Characters /\ "@" # "." /\ <<>> \in Seq(Characters)
    BY EmptySeq DEF At, Characters
  <2>2. Trimmed(At)
    BY <2>1, TrimmedLast
  <2> QED
    BY <1>1, <2>2 DEF Trimmed
<1>2. CASE s # At
  <2>1. PICK n \in 0..MaxLength : s \in [1..n -> LabelCharacters \cup {"."}]
    BY <1>2 DEF NameSet
  <2>2. s \in [1..n -> Characters] /\ n \in Nat
    BY <2>1, LengthIsNat DEF Characters
  <2>3. s \in Seq(Characters)
    BY <2>2, SeqDef
  <2>4. WellFormed(s)
    BY <1>2 DEF NameSet
  <2> QED
    BY <2>3, <2>4, WellFormedIsTrimmed
<1> QED
  BY <1>1, <1>2

\* JoinRelative, of names that have been trimmed.
Joins(n, o) ==
  CASE o = <<>> -> n
    [] o # <<>> /\ n \in {<<>>, At} -> o
    [] o # <<>> /\ n \notin {<<>>, At} /\ (n = o \/ Ends(Dot \o o, n)) -> n
    [] OTHER -> n \o Dot \o o

LEMMA JoinIsJoins ==
  ASSUME NEW n \in Seq(Characters), NEW o \in Seq(Characters)
  PROVE  JoinRelative(n, o) = Joins(Trim(n), Trim(o))
<1> DEFINE tn == Trim(n)
           to == Trim(o)
<1>1. tn \in Seq(Characters) /\ to \in Seq(Characters)
  BY TrimType
<1> HIDE DEF tn, to
<1>2. Dot \o to \in Seq(Characters)
  BY <1>1, DotIsName, ConcatProperties
<1>3. IsSuffix(Dot \o to, tn) <=> Ends(Dot \o to, tn)
  BY <1>1, <1>2, SuffixIsEnd
<1>4. JoinRelative(n, o) =
        CASE to = <<>> -> tn
          [] to # <<>> /\ (tn = <<>> \/ tn = At) -> to
          [] to # <<>> /\ ~(tn = <<>> \/ tn = At)
               /\ ~(tn # to /\ ~IsSuffix(Dot \o to, tn)) -> tn
          [] OTHER -> tn \o Dot \o to
  BY DEF JoinRelative, tn, to
<1>5. JoinRelative(n, o) = Joins(tn, to)
  <2>1. CASE to = <<>>
    BY <1>4, <2>1 DEF Joins
  <2>2. CASE to # <<>> /\ tn \in {<<>>, At}
    BY <1>4, <2>2 DEF Joins
  <2>3. CASE to # <<>> /\ tn \notin {<<>>, At} /\ (tn = to \/ Ends(Dot \o to, tn))
    BY <1>3, <1>4, <2>3 DEF Joins
  <2>4. CASE to # <<>> /\ tn \notin {<<>>, At} /\ ~(tn = to \/ Ends(Dot \o to, tn))
    BY <1>3, <1>4, <2>4 DEF Joins
  <2> QED
    BY <2>1, <2>2, <2>3, <2>4
<1> QED
  BY <1>5 DEF tn, to

\* On the labels it does what Absolute says.
LEMMA JoinsLabels ==
  ASSUME NEW n \in Seq(Characters), NEW o \in Seq(Characters)
  PROVE  /\ JoinRelative(n, o) \in Seq(Characters)
         /\ Labels(JoinRelative(n, o)) = Absolute(n, o)
<1> DEFINE tn == Trim(n)
           to == Trim(o)
           ln == Labels(tn)
           lo == Labels(to)
<1>1. tn \in Seq(Characters) /\ to \in Seq(Characters)
  BY TrimType
<1>2. JoinRelative(n, o) = Joins(tn, to)
  BY JoinIsJoins
<1> HIDE DEF tn, to
<1>3. ln \in Seq(Seq(Characters)) /\ lo \in Seq(Seq(Characters))
  BY <1>1, LabelsType DEF LabelLists
<1>4. IsSuffix(lo, ln) <=> tn = to \/ Ends(Dot \o to, tn)
  <2> DEFINE Ls == Seq(Characters)
  <2>1. Ends(lo, ln) <=> tn = to \/ Ends(Dot \o to, tn)
    BY <1>1, LabelsOfSuffix
  <2>2. lo \in Seq(Ls) /\ ln \in Seq(Ls)
    BY <1>3
  <2> HIDE DEF Ls, lo, ln
  <2> QED
    BY <2>1, <2>2, SuffixIsEnd
<1>5. Labels(tn \o Dot \o to) = ln \o lo /\ tn \o Dot \o to \in Seq(Characters)
  <2>1. tn \o Dot \in Seq(Characters)
    BY <1>1, DotIsName, ConcatProperties
  <2> QED
    BY <1>1, <2>1, LabelsOfParts, ConcatProperties
<1>6. Absolute(n, o) =
        CASE to = <<>> -> ln
          [] to # <<>> /\ tn \in {<<>>, At} -> lo
          [] OTHER -> IF IsSuffix(lo, ln) THEN ln ELSE ln \o lo
  BY DEF Absolute, tn, to
<1> HIDE DEF ln, lo
<1>7. ln = Labels(tn) /\ lo = Labels(to)
  BY DEF ln, lo
<1>8. Joins(tn, to) \in Seq(Characters) /\ Labels(Joins(tn, to)) = Absolute(n, o)
  <2>1. CASE to = <<>>
    BY <1>1, <1>6, <1>7, <2>1 DEF Joins
  <2>2. CASE to # <<>> /\ tn \in {<<>>, At}
    BY <1>1, <1>6, <1>7, <2>2 DEF Joins
  <2>3. CASE to # <<>> /\ tn \notin {<<>>, At} /\ (tn = to \/ Ends(Dot \o to, tn))
    <3>1. Joins(tn, to) = tn
      BY <2>3 DEF Joins
    <3>2. Absolute(n, o) = ln
      BY <1>4, <1>6, <2>3
    <3> QED
      BY <1>1, <1>7, <3>1, <3>2
  <2>4. CASE to # <<>> /\ tn \notin {<<>>, At} /\ ~(tn = to \/ Ends(Dot \o to, tn))
    <3>1. Joins(tn, to) = tn \o Dot \o to
      BY <2>4 DEF Joins
    <3>2. Absolute(n, o) = ln \o lo
      BY <1>4, <1>6, <2>4
    <3> QED
      BY <1>5, <3>1, <3>2
  <2> QED
    BY <2>1, <2>2, <2>3, <2>4
<1> QED
  BY <1>2, <1>8

\* What has been joined is left alone, and has nothing to trim.
LEMMA JoinsTwice ==
  ASSUME NEW n, NEW o, Trimmed(n), Trimmed(o)
  PROVE  Trimmed(Joins(n, o)) /\ Joins(Joins(n, o), o) = Joins(n, o)
<1>1. CASE o = <<>>
  BY <1>1 DEF Joins
<1>2. CASE o # <<>> /\ n \in {<<>>, At}
  <2>1. Joins(n, o) = o
    BY <1>2 DEF Joins
  <2>2. Joins(o, o) = o
    BY <1>2 DEF Joins
  <2> QED
    BY <2>1, <2>2
<1>3. CASE o # <<>> /\ n \notin {<<>>, At} /\ (n = o \/ Ends(Dot \o o, n))
  <2>1. Joins(n, o) = n
    BY <1>3 DEF Joins
  <2> QED
    BY <2>1
<1>4. CASE o # <<>> /\ n \notin {<<>>, At} /\ ~(n = o \/ Ends(Dot \o o, n))
  <2> DEFINE nd == n \o Dot
             dot1 == Dot \o o
             j == nd \o o
  <2>1. Joins(n, o) = j
    BY <1>4 DEF Joins
  <2>2. n \in Seq(Characters) /\ o \in Seq(Characters)
    BY DEF Trimmed
  <2>3. nd \in Seq(Characters) /\ Len(nd) = Len(n) + 1
        /\ dot1 \in Seq(Characters) /\ Len(dot1) = 1 + Len(o)
    BY <2>2, DotIsName, ConcatProperties
  <2>4. j \in Seq(Characters) /\ Len(j) = Len(nd) + Len(o) /\ j = n \o dot1
    BY <2>2, <2>3, DotIsName, ConcatProperties, ConcatAssociative
  <2>5. Len(n) \in Nat \ {0} /\ Len(o) \in Nat \ {0}
    BY <1>4, <2>2, EmptySeq
  <2>6. j \notin {<<>>, At}
    <3>1. Len(j) = (Len(n) + 1) + Len(o)
      BY <2>3, <2>4
    <3>2. Len(<<>>) = 0 /\ Len(At) = 1
      BY DotIsName, EmptySeq
    <3> HIDE DEF j, nd, dot1
    <3>3. Len(j) \notin {0, 1}
      BY <2>5, <3>1
    <3> QED
      BY <3>2, <3>3, Zenon
  <2>7. Ends(dot1, j)
    BY <2>2, <2>3, <2>4, EndsIsConcat
  <2>8. Joins(j, o) = j
    BY <1>4, <2>6, <2>7 DEF Joins
  <2>9. Trimmed(j)
    <3>1. PICK p \in Seq(Characters), c \in Characters : o = Append(p, c)
      BY <1>4, <2>2, EmptyOrAppend
    <3>2. c # "."
      BY <3>1, TrimmedLast
    <3> DEFINE ndp == nd \o p
    <3>3. ndp \in Seq(Characters) /\ j = Append(ndp, c)
      <4> HIDE DEF nd
      <4> QED
        BY <2>3, <3>1, ConcatProperties, ConcatAppend
    <3> HIDE DEF ndp
    <3> QED
      BY <3>2, <3>3, TrimmedLast
  <2> QED
    BY <2>1, <2>8, <2>9
<1> QED
  BY <1>1, <1>2, <1>3, <1>4

\* What a name has become, however often it is resolved, and whatever form it
\* is encoded in meanwhile.
ResolvedInv ==
  /\ origin \in Seq(Characters) /\ Trimmed(Trim(origin))
  /\ given \in Seq(Characters) /\ Trimmed(Trim(given))
  /\ name \in Seq(Characters)
  /\ times \in 0..2
  /\ times = 0 => name = given
  /\ times = 1 => name = given \/ Trim(name) = joined
  /\ times # 0 => joined = JoinRelative(given, origin)

LEMMA ResolvedStart == NameInit => ResolvedInv
BY NamesAreTrimmed DEF NameInit, ResolvedInv

LEMMA ResolvedStep == ResolvedInv /\ [NameNext]_nameVars => ResolvedInv'
<1> SUFFICES ASSUME ResolvedInv, [NameNext]_nameVars PROVE ResolvedInv'
  OBVIOUS
<1> DEFINE tg == Trim(given)
           to == Trim(origin)
           j == Joins(tg, to)
<1>1. Trimmed(tg) /\ Trimmed(to)
  BY DEF ResolvedInv
<1>2. JoinRelative(given, origin) = j
  BY JoinIsJoins DEF ResolvedInv
<1>3. Trimmed(j) /\ Joins(j, to) = j
  <2> HIDE DEF tg, to
  <2> QED
    BY <1>1, JoinsTwice
<1> HIDE DEF tg, to, j
<1>4. CASE ResolveName
  <2>1. joined' = JoinRelative(name, origin) /\ UNCHANGED <<origin, given, name>>
        /\ times' = times + 1 /\ times \in 0..1
    BY <1>4 DEF ResolveName, ResolvedInv
  <2>2. JoinRelative(name, origin) = JoinRelative(given, origin)
    <3>1. CASE name = given
      BY <3>1
    <3>2. CASE name # given
      <4>1. Trim(name) = j
        BY <1>2, <2>1, <3>2 DEF ResolvedInv
      <4>2. JoinRelative(name, origin) = Joins(Trim(name), to)
        BY JoinIsJoins DEF ResolvedInv, to
      <4> QED
        BY <1>2, <1>3, <4>1, <4>2
    <3> QED
      BY <3>1, <3>2
  <2>3. times' = 1 => name' = given'
    BY <2>1 DEF ResolvedInv
  <2> QED
    BY <2>1, <2>2, <2>3 DEF ResolvedInv
<1>5. CASE EncodeName
  <2>1. name' \in {joined, joined \o Dot} /\ UNCHANGED <<origin, given, joined, times>>
        /\ times = 1
    BY <1>5 DEF EncodeName
  <2>2. joined = j
    BY <1>2, <2>1 DEF ResolvedInv
  <2>3. joined \in Seq(Characters) /\ Trim(joined) = joined
    BY <1>3, <2>2 DEF Trimmed
  <2>4. joined \o Dot = Append(joined, ".") /\ "." \in Characters
    BY <2>3, AppendIsConcat DEF Dot, Characters
  <2>5. joined \o Dot \in Seq(Characters) /\ Trim(joined \o Dot) = joined
    BY <2>3, <2>4, TrimOfOneMore, AppendProperties
  <2>6. name' \in Seq(Characters) /\ Trim(name') = joined
    BY <2>1, <2>3, <2>5
  <2> QED
    BY <2>1, <2>6 DEF ResolvedInv
<1>6. CASE UNCHANGED nameVars
  BY <1>6 DEF nameVars, ResolvedInv
<1> QED
  BY <1>4, <1>5, <1>6 DEF NameNext

LEMMA ResolvedAlways == NameSpec => []ResolvedInv
BY ResolvedStart, ResolvedStep, PTL DEF NameSpec

\* A name resolved once, whatever it and the origin are, is the name on labels:
\* the code's test on characters finds an origin where the labels say there is
\* one, and nowhere else.
THEOREM LandsOnLabels == NameSpec => []LandsInOrigin
<1>1. ResolvedInv => LandsInOrigin
  BY JoinsLabels DEF ResolvedInv, LandsInOrigin
<1> QED
  BY <1>1, ResolvedAlways, PTL

\* Resolved again, with or without a dot that was put at its end meanwhile, it
\* stays the same name.
THEOREM ComesBack == NameSpec => []RoundTrips
<1>1. ResolvedInv => RoundTrips
  BY JoinsLabels DEF ResolvedInv, RoundTrips
<1> QED
  BY <1>1, ResolvedAlways, PTL

-----------------------------------------------------------------------------
(* Targets.                                                                 *)

NoSlash(s) == \A n \in 1..Len(s) : s[n] # "/"

LEMMA SlashString ==
  /\ Slash \in Seq(IdCharacters)
  /\ Len(Slash) = 1
  /\ Slash[1] = "/"
<1>1. Slash \in Seq(IdCharacters)
  BY SlashIsOne DEF Slash
<1>2. Len(Slash) = 1 /\ Slash[1] = "/"
  BY DEF Slash
<1> QED
  BY <1>1, <1>2

\* What stands where in a string with a slash in it.
LEMMA Positions ==
  ASSUME NEW a \in Seq(IdCharacters), NEW s \in Seq(IdCharacters)
  PROVE  LET l == a \o (Slash \o s) IN
         /\ Len(l) = Len(a) + 1 + Len(s)
         /\ \A n \in 1..Len(a) : l[n] = a[n]
         /\ l[Len(a) + 1] = "/"
         /\ \A n \in 1..Len(s) : l[Len(a) + 1 + n] = s[n]
<1> DEFINE m == Slash \o s
           l == a \o m
<1>0. m \in Seq(IdCharacters)
  BY SlashString, ConcatProperties
<1>1. /\ Len(m) = Len(Slash) + Len(s)
      /\ \A i \in 1 .. Len(Slash) + Len(s) :
           m[i] = IF i <= Len(Slash) THEN Slash[i] ELSE s[i - Len(Slash)]
  BY SlashString, ConcatProperties
<1> HIDE DEF m
<1>2. /\ Len(l) = Len(a) + Len(m)
      /\ \A i \in 1 .. Len(a) + Len(m) :
           l[i] = IF i <= Len(a) THEN a[i] ELSE m[i - Len(a)]
  BY <1>0, ConcatProperties
<1> HIDE DEF l
<1>3. Len(a) \in Nat /\ Len(s) \in Nat /\ Len(Slash) = 1
  BY SlashString, LenProperties
<1>4. l[Len(a) + 1] = m[1] /\ m[1] = "/"
  BY <1>1, <1>2, <1>3, SlashString
<1>5. ASSUME NEW n \in 1..Len(s)
      PROVE  l[Len(a) + 1 + n] = s[n]
  <2>1. l[Len(a) + 1 + n] = m[n + 1]
    <3>1. Len(a) + 1 + n \in 1 .. Len(a) + Len(m)
      BY <1>1, <1>3
    <3>2. ~(Len(a) + 1 + n <= Len(a)) /\ (Len(a) + 1 + n) - Len(a) = n + 1
      BY <1>3
    <3> QED
      BY <1>2, <3>1, <3>2
  <2>2. m[n + 1] = s[n]
    <3>1. n + 1 \in 1 .. 1 + Len(s) /\ ~(n + 1 <= 1) /\ (n + 1) - 1 = n
      BY <1>3
    <3> QED
      BY <1>1, <1>3, <3>1
  <2> QED
    BY <2>1, <2>2
<1>6. /\ Len(l) = Len(a) + 1 + Len(s)
      /\ \A n \in 1..Len(a) : l[n] = a[n]
      /\ l[Len(a) + 1] = "/"
      /\ \A n \in 1..Len(s) : l[Len(a) + 1 + n] = s[n]
  BY <1>1, <1>2, <1>3, <1>4, <1>5
<1> QED
  BY <1>6, Zenon DEF l, m

\* A string is cut at its first slash in one way only.
LEMMA FirstSlash ==
  ASSUME NEW a \in Seq(IdCharacters), NEW b \in Seq(IdCharacters),
         NEW s \in Seq(IdCharacters), NEW t \in Seq(IdCharacters),
         NoSlash(a), NoSlash(b),
         a \o (Slash \o s) = b \o (Slash \o t)
  PROVE  a = b /\ s = t
<1> DEFINE l == a \o (Slash \o s)
<1>1. /\ Len(l) = Len(a) + 1 + Len(s)
      /\ \A n \in 1..Len(a) : l[n] = a[n]
      /\ l[Len(a) + 1] = "/"
      /\ \A n \in 1..Len(s) : l[Len(a) + 1 + n] = s[n]
  BY Positions
<1>0. l = b \o (Slash \o t)
  OBVIOUS
<1> HIDE DEF l
<1>2. /\ Len(l) = Len(b) + 1 + Len(t)
      /\ \A n \in 1..Len(b) : l[n] = b[n]
      /\ l[Len(b) + 1] = "/"
      /\ \A n \in 1..Len(t) : l[Len(b) + 1 + n] = t[n]
  <2>1. LET k == b \o (Slash \o t) IN
         /\ Len(k) = Len(b) + 1 + Len(t)
         /\ \A n \in 1..Len(b) : k[n] = b[n]
         /\ k[Len(b) + 1] = "/"
         /\ \A n \in 1..Len(t) : k[Len(b) + 1 + n] = t[n]
    BY Positions
  <2> QED
    BY <1>0, <2>1, Zenon
<1>3. Len(a) \in Nat /\ Len(b) \in Nat /\ Len(s) \in Nat /\ Len(t) \in Nat
  BY LenProperties
<1>4. Len(a) = Len(b)
  <2>1. ASSUME Len(a) < Len(b) PROVE FALSE
    <3>1. Len(a) + 1 \in 1..Len(b)
      BY <1>3, <2>1
    <3> QED
      BY <1>1, <1>2, <3>1, Zenon DEF NoSlash
  <2>2. ASSUME Len(b) < Len(a) PROVE FALSE
    <3>1. Len(b) + 1 \in 1..Len(a)
      BY <1>3, <2>2
    <3> QED
      BY <1>1, <1>2, <3>1, Zenon DEF NoSlash
  <2> QED
    BY <1>3, <2>1, <2>2
<1>5. Len(s) = Len(t)
  BY <1>1, <1>2, <1>3, <1>4
<1>6. \A n \in 1..Len(a) : a[n] = b[n]
  BY <1>1, <1>2, <1>4, Zenon
<1>7. \A n \in 1..Len(s) : s[n] = t[n]
  BY <1>1, <1>2, <1>4, <1>5, Zenon
<1>8. a = b
  BY <1>4, <1>6, SeqEqual
<1>9. s = t
  BY <1>5, <1>7, SeqEqual
<1> QED
  BY <1>8, <1>9

\* Targets whose identifiers have no slash are told apart by their keys.
LEMMA KeysAreUnique ==
  ASSUME NEW t \in Targets, NEW u \in Targets, Plain(t), Plain(u),
         String(u) = String(t), u.ServiceType = t.ServiceType
  PROVE  u = t
<1> USE IdsAreStrings
<1>1. /\ NoSlash(t.UserId) /\ NoSlash(t.DomainId) /\ NoSlash(t.ServiceId)
      /\ NoSlash(u.UserId) /\ NoSlash(u.DomainId) /\ NoSlash(u.ServiceId)
  BY DEF Plain, NoSlash
<1>2. /\ t.UserId \in Seq(IdCharacters) /\ t.DomainId \in Seq(IdCharacters) /\ t.ServiceId \in Seq(IdCharacters)
      /\ u.UserId \in Seq(IdCharacters) /\ u.DomainId \in Seq(IdCharacters) /\ u.ServiceId \in Seq(IdCharacters)
  BY DEF Targets
<1>3. Slash \in Seq(IdCharacters)
  BY SlashString
<1> DEFINE p == t.DomainId \o (Slash \o t.ServiceId)
           q == u.DomainId \o (Slash \o u.ServiceId)
<1>4. /\ t.UserId \o (Slash \o p) = u.UserId \o (Slash \o q)
      /\ p \in Seq(IdCharacters)
      /\ q \in Seq(IdCharacters)
  BY <1>2, <1>3, ConcatProperties DEF String
<1> HIDE DEF p, q
<1>5. t.UserId = u.UserId /\ p = q
  <2>1. NoSlash(t.UserId) /\ NoSlash(u.UserId)
    BY <1>1
  <2> QED
    BY ONLY <1>2, <1>4, <2>1, FirstSlash, Zenon
<1>6. t.DomainId \o (Slash \o t.ServiceId) = u.DomainId \o (Slash \o u.ServiceId)
  BY <1>5 DEF p, q
<1>7. t.DomainId = u.DomainId /\ t.ServiceId = u.ServiceId
  <2>1. NoSlash(t.DomainId) /\ NoSlash(u.DomainId)
    BY <1>1
  <2> QED
    BY ONLY <1>2, <1>6, <2>1, FirstSlash, Zenon
<1>8. \A x \in Targets :
        x = [UserId |-> x.UserId, DomainId |-> x.DomainId,
             ServiceId |-> x.ServiceId, ServiceType |-> x.ServiceType]
  BY DEF Targets
<1> QED
  BY ONLY t \in Targets, u \in Targets, u.ServiceType = t.ServiceType, <1>5, <1>7, <1>8, Zenon

Typed == target \in Targets

LEMMA TargetTyped == TargetSpec => []Typed
<1>1. TargetInit => Typed
  BY IdsAreStrings DEF TargetInit, Targets, Typed
<1>2. Typed /\ [TargetNext]_target => Typed'
  BY DEF TargetNext, SetUser, SetDomain, SetService, Targets, Typed
<1> QED
  BY <1>1, <1>2, PTL DEF TargetSpec

\* For any identifiers that contain no slash, String has one key for each
\* target of a service type.
THEOREM KeysAreUnambiguous == TargetSpec => []Unambiguous
<1>1. Typed => Unambiguous
  BY KeysAreUnique DEF Typed, Unambiguous
<1> QED
  BY <1>1, TargetTyped, PTL

-----------------------------------------------------------------------------
(* Side by side.                                                            *)

\* A behaviour of the parts side by side is one of each part: the theorems above
\* are about the very specification the parts are checked under.
LEMMA StartsEach ==
  Init => /\ FormInit /\ LoadInit /\ NameInit /\ OptionInit /\ ProbeInit /\ TargetInit
BY DEF Init

LEMMA StepsEach ==
  [Next]_allVars =>
    /\ [FormNext]_formVars /\ [LoadNext]_loadVars /\ [NameNext]_nameVars
    /\ [OptionNext]_optionVars /\ [ProbeNext]_probeVars /\ [TargetNext]_target
<1> SUFFICES ASSUME [Next]_allVars
             PROVE  /\ FormNext \/ UNCHANGED formVars
                    /\ LoadNext \/ UNCHANGED loadVars
                    /\ NameNext \/ UNCHANGED nameVars
                    /\ OptionNext \/ UNCHANGED optionVars
                    /\ ProbeNext \/ UNCHANGED probeVars
                    /\ TargetNext \/ UNCHANGED target
  OBVIOUS
<1>1. CASE UNCHANGED allVars
  BY <1>1, Zenon DEF allVars
<1>2. CASE Only("form") /\ FormNext
  BY <1>2 DEF Only
<1>3. CASE Only("load") /\ LoadNext
  BY <1>3 DEF Only
<1>4. CASE Only("name") /\ NameNext
  BY <1>4 DEF Only
<1>5. CASE Only("option") /\ OptionNext
  BY <1>5 DEF Only
<1>6. CASE Only("probe") /\ ProbeNext
  BY <1>6 DEF Only
<1>7. CASE Only("target") /\ TargetNext
  BY <1>7 DEF Only
<1> QED
  BY <1>1, <1>2, <1>3, <1>4, <1>5, <1>6, <1>7 DEF Next

THEOREM PartsBehave ==
  Spec => FormSpec /\ LoadSpec /\ NameSpec /\ OptionSpec /\ ProbeSpec /\ TargetSpec
BY StartsEach, StepsEach, PTL
   DEF Spec, FormSpec, LoadSpec, NameSpec, OptionSpec, ProbeSpec, TargetSpec
=============================================================================
