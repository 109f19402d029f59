--------------------------- MODULE MCProfileStore ---------------------------
(* Instances of ProfileStore for TLC.                                      *)
EXTENDS ProfileStore, TLC

CONSTANTS p1, p2, n1, n2, v1, v2, v3

OneProfile == {p1}
TwoProfiles == {p1, p2}
TwoNames == {n1, n2}
OneSaver == {v1}
TwoSavers == {v1, v2}
ThreeSavers == {v1, v2, v3}
=============================================================================
