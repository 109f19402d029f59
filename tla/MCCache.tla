------------------------------ MODULE MCCache ------------------------------
(* Instances of Cache for TLC: one source, one cached output.              *)
EXTENDS Cache, TLC

CONSTANTS source, sub, a, b, g1, g2

MCSourceKeys == {source}
MCOutputKeys == {sub}
MCPrefixes == {{sub}}
MCVals == {a, b}
MCTTLs == {1}
MCGoroutines == {g1, g2}

(* Values and goroutines are interchangeable; used for safety only.        *)
MCSymmetry == Permutations(MCVals) \cup Permutations(MCGoroutines)
=============================================================================
