-------------------------- MODULE MCRaceCalculation ---------------------------
EXTENDS RaceCalculation

MCRaces == {[laps |-> 0, time |-> 0], [laps |-> 3, time |-> 0], [laps |-> 0, time |-> 3],
            [laps |-> 3, time |-> 3]}
MCHistories == {<<>>, <<[time |-> 8, fuel |-> 80], [time |-> 16, fuel |-> 120]>>}
\* Litres and gallons (irplugin.cpp:1262).
MCFactors == {<<1, 1>>, <<264151, 1000000>>}

===============================================================================
