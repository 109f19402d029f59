--------------------------- MODULE MCSubscription ---------------------------
(* Instances of Subscription for TLC.                                      *)
EXTENDS Subscription, TLC

CONSTANTS s1, s2, r1, r2

OneSource == {s1}
TwoSources == {s1, s2}
NoSource == {}
OneRequest == {r1}
TwoRequests == {r1, r2}

(* Requests are interchangeable; used for safety only.                     *)
MCSymmetry == Permutations(TwoRequests)
=============================================================================
