-------------------------------- MODULE Maps --------------------------------
(***************************************************************************)
(* Maps put together: the operators of the module TLC, defined, so that    *)
(* they can be reasoned about.                                             *)
(***************************************************************************)

(* The map of one entry.                                                   *)
k :> v == [x \in {k} |-> v]

(* The entries of both maps; where both have one, that of the left one.    *)
f @@ g ==
    [x \in DOMAIN f \cup DOMAIN g |-> IF x \in DOMAIN f THEN f[x] ELSE g[x]]
=============================================================================
