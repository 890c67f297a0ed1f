----------------------------- MODULE LapStatistics -----------------------------
(***************************************************************************)
(* The estimates of lap time and fuel per lap from the laps recorded: the  *)
(* median, without the laps more than three median absolute deviations     *)
(* (MAD) away from it, moved by one MAD to the side that asks for more     *)
(* fuel.  A value is given in quarters of its unit, so that the two        *)
(* averages of two values are exact.  The values are a function on the     *)
(* laps: their order in the list does not matter.                          *)
(***************************************************************************)
EXTENDS Integers, FiniteSets

\* The k-th of the values when they are sorted.
Smallest(values, k) ==
  values[CHOOSE i \in DOMAIN values :
           /\ Cardinality({j \in DOMAIN values : values[j] < values[i]}) < k
           /\ Cardinality({j \in DOMAIN values : values[j] <= values[i]}) >= k]

Middle(values) ==
  LET numValues   == Cardinality(DOMAIN values)
      middleIndex == numValues \div 2 + 1
  IN IF numValues % 2 = 0
     THEN (Smallest(values, middleIndex) + Smallest(values, middleIndex - 1)) \div 2
     ELSE Smallest(values, middleIndex)

Distance(a, b) == IF a < b THEN b - a ELSE a - b
Deviations(values, median) == [i \in DOMAIN values |-> Distance(median, values[i])]

Unknown == [median |-> 0, mad |-> 0]

\* The laps that are no outliers for a median and a MAD that are known.
Usual(values, input) ==
  {i \in DOMAIN values : Distance(values[i], input.median) <= 3 * input.mad}

calcMedian(values, excludeOutliers, input) ==
  LET kept   == IF excludeOutliers /\ input.median > 0 /\ input.mad > 0
                THEN Usual(values, input) ELSE DOMAIN values
      temp   == [i \in kept |-> values[i]]
      median == Middle(temp)
  IN IF kept = {} THEN Unknown
     ELSE [median |-> median, mad |-> Middle(Deviations(temp, median))]

calcMedianValues(values) == calcMedian(values, TRUE, calcMedian(values, FALSE, Unknown))

\* Broken variant: the estimate is moved to the other side.
EstimateUnsafe(times, fuels) ==
  [time |-> calcMedianValues(times).median + calcMedianValues(times).mad,
   fuel |-> calcMedianValues(fuels).median - calcMedianValues(fuels).mad]

\* calcOptimalLapTimeFuelValues; 0 if there are no laps.
Estimate(times, fuels) ==
  [time |-> calcMedianValues(times).median - calcMedianValues(times).mad,
   fuel |-> calcMedianValues(fuels).median + calcMedianValues(fuels).mad]

===============================================================================
