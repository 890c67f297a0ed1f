---------------------------- MODULE MCLifecycle -----------------------------
(* Two processes; two cars, one of them with a name of two words; files of   *)
(* the user that are complete, that lack attributes, that set one twice,     *)
(* that have a flag 0.5, a number of more than six digits, and a port that   *)
(* is none.                                                                  *)
EXTENDS Lifecycle

MCCars == {<<"skip">>, <<"legends", "ford">>}

Complete ==
  << <<"DisplayFuelImperial", "1">>, <<"UseDriverLapsRemaining", "0.5">>,
     <<"SkipClearOnApply", "1">>, <<"ServerPort", "5000x">>,
     <<"ExtraLapsOfFuel", "0.5">>, <<Car, "skip", "1">> >>
Partial ==
  << <<Car, "legends", "ford", "1">>, <<"DisplayFuelImperial", "2">>,
     <<"ServerPort">>, <<"DisplayFuelImperial", "0">>,
     <<"ExtraLapsOfFuel", "0.3333333">>, <<Car, "spec", "1">> >>
BadPort == << <<"ServerPort", "skip">>, <<"ServerPort", "5000">> >>

MCUserFiles == {Complete, Partial, BadPort}

Numbers == {"0", "1", "2", "48900", "5000", "0.5", "0.3333333", "0.333333"}
MCWords == Literals \cup Numbers \cup {"skip", "legends", "ford", "spec", "5000x"}

MCFalseWords  == {"0", "0.5", "0.3333333", "0.333333"}
MCValidPorts  == {"1", "2", "48900", "5000"}
MCatoi        == [w \in MCWords |-> IF w = "5000x" THEN "5000"
                                    ELSE IF w \in Numbers \ MCFalseWords THEN w ELSE "0"]
MCatof        == [w \in MCWords |-> IF w = "5000x" THEN "5000"
                                    ELSE IF w \in Numbers THEN w ELSE "0"]
MCsixDigits   == [w \in MCWords |-> IF w = "0.3333333" THEN "0.333333" ELSE MCatof[w]]
=============================================================================
