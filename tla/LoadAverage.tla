---------------------------- MODULE LoadAverage -----------------------------
(***************************************************************************)
(* The values the sampler computes (updateLoadAvg in server.go, under      *)
(* checker/server) from one sample of the gauge to the next.  Telemetry says *)
(* when an average is stored and which samples are in it; here is what     *)
(* they make of it.                                                        *)
(*                                                                         *)
(* Averages are exact: after n ticks each is a multiple of 1/scale, with   *)
(* scale = Denominator^n, and load holds the numerators.  The rounding of  *)
(* float64 is left out.                                                    *)
(***************************************************************************)
EXTENDS Integers

CONSTANTS
  Weight,        \* loadAlpha1, 5 and 15 are Weight[w] / Denominator
  Denominator,
  MaxSample,     \* bound: requests in flight at a tick
  MaxTicks,      \* bound: ticks in one behaviour
  SettleTicks    \* ticks of constant load that settle every average

Windows == 1..3                        \* the 1, 5 and 15 minute averages

\* alpha = 1 - exp(-interval/window): between 0 and 1, less for longer windows.
ASSUME WeightsAreAlphas ==
  /\ Weight \in [Windows -> Nat] /\ Denominator \in Nat
  /\ 0 < Weight[3] /\ Weight[3] < Weight[2] /\ Weight[2] < Weight[1]
  /\ Weight[1] < Denominator
ASSUME BoundsAreNat == MaxSample \in Nat /\ MaxTicks \in Nat /\ SettleTicks \in Nat

Power(b, n) ==
  LET upTo[k \in 0..n] == IF k = 0 THEN 1 ELSE b * upTo[k - 1] IN upTo[n]

\* What SettleTicks means: even the slowest average has forgotten the largest
\* load, but for half a request.
ASSUME SettleTicksSettle ==
  2 * MaxSample * Power(Denominator - Weight[3], SettleTicks)
    <= Power(Denominator, SettleTicks)

VARIABLES
  load,          \* the averages, as numerators over scale
  scale,         \* Denominator^ticks
  ticks,         \* history: ticks so far
  last,          \* history: the latest sample, 0 before the first
  peak,          \* history: the largest sample
  rising,        \* history: has no sample been below an earlier one?
  steady         \* history: how many of the latest samples were equal to last

loadVars == <<load, scale, ticks, last, peak, rising, steady>>

LoadInit ==
  /\ load = [w \in Windows |-> 0]
  /\ scale = 1
  /\ ticks = 0
  /\ last = 0 /\ peak = 0 /\ rising = TRUE /\ steady = 0

\* Mutant: the old average is not discounted.
updateAccumulating(prev, sample) ==
  [w \in Windows |-> Denominator * prev[w] + Weight[w] * sample]

\* Mutant: two coefficients are swapped.
updateSwapped(prev, sample) ==
  [w \in Windows |-> LET a == Weight[IF w = 1 THEN 1 ELSE 5 - w]
                     IN Denominator * prev[w] + a * (sample - prev[w])]

\* Mutant: an idle server does not bother to update.
updateUnlessIdle(prev, sample) ==
  [w \in Windows |-> IF sample = 0 THEN Denominator * prev[w]
                     ELSE Denominator * prev[w] + Weight[w] * (sample - prev[w])]

\* prev + alpha * (sample - prev), where prev and sample are over scale and the
\* result is over the next scale.
updateLoadAvg(prev, sample) ==
  [w \in Windows |-> Denominator * prev[w] + Weight[w] * (sample - prev[w])]

\* A tick of the sampler finds s requests in flight.
Tick(s) ==
  /\ ticks < MaxTicks
  /\ load' = updateLoadAvg(load, s * scale)
  /\ scale' = Denominator * scale
  /\ ticks' = ticks + 1
  /\ last' = s
  /\ peak' = IF s > peak THEN s ELSE peak
  /\ rising' = (rising /\ s >= last)
  /\ steady' = IF s = last THEN steady + 1 ELSE 1

LoadNext == \E s \in 0..MaxSample : Tick(s)

LoadSpec == LoadInit /\ [][LoadNext]_loadVars

-----------------------------------------------------------------------------
(* Properties.                                                              *)

\* An average is never negative and never above the largest sample it saw, so
\* a burst shows in the averages but never as more load than there was.
WithinPeak == \A w \in Windows : 0 <= load[w] /\ load[w] <= peak * scale

\* While the load only grows, a shorter window is never behind a longer one:
\* the order of the three averages tells a scheduler where the load is going.
RisingIsOrdered == rising => load[3] <= load[2] /\ load[2] <= load[1]

\* The averages converge to a constant load, from whatever came before: after
\* SettleTicks equal samples each is within half a request of it.
Settles ==
  steady >= SettleTicks =>
    \A w \in Windows : /\ 2 * (load[w] - last * scale) <= scale
                       /\ 2 * (last * scale - load[w]) <= scale
=============================================================================
