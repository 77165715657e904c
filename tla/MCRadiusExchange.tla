-------------------------- MODULE MCRadiusExchange --------------------------
(* RadiusExchange on small instances: two sessions with timers shorter than    *)
(* the delays, or one session whose identifiers wrap, with either timers.      *)
EXTENDS RadiusExchange

CONSTANTS a, b, p1, p2

TwoSessions == {a, b}
TwoPorts    == {p1, p2}

Load(na, nb, p) == [exchanges |-> [s \in TwoSessions |-> IF s = a THEN na ELSE nb],
                    patient |-> p]

SomeLoads == {Load(2, 1, FALSE), Load(3, 0, FALSE), Load(3, 0, TRUE)}
=============================================================================
