----------------------------- MODULE MCWifiOta -----------------------------
\* An instance of WifiOta for TLC: one upload of one image.
EXTENDS WifiOta
CONSTANTS s1, a
OneSession == {s1}
OneImage   == {a}
Same       == [s \in Sessions |-> a]
=============================================================================
