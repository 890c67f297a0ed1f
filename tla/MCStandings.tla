------------------------------ MODULE MCStandings ------------------------------
EXTENDS Standings

CONSTANTS gt3, lmp

MCClassOf == [c \in Cars |-> IF c = 0 THEN lmp ELSE gt3]
MCStarts == {<<0, Me>>}

===============================================================================
