------------------------------- MODULE MCOta -------------------------------
\* Instances of Ota for TLC.
EXTENDS Ota
CONSTANTS s1, s2, a, b
OneSession  == {s1}
TwoSessions == {s1, s2}
OneImage    == {a}
TwoImages   == {a, b}
Same        == [s \in Sessions |-> a]
Different   == [s \in Sessions |-> IF s = s1 THEN a ELSE b]
=============================================================================
