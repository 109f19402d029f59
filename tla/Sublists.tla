------------------------------ MODULE Sublists ------------------------------
(***************************************************************************)
(* The lists that loops build, in forms that can be reasoned about.        *)
(*                                                                         *)
(* Sublist: what is at some indices of a list, in order.  It is SelectSeq  *)
(* without recursion and with a condition on the index.                    *)
(* Joined: the lists of a list one after the other, as a recursive         *)
(* function.                                                               *)
(***************************************************************************)
EXTENDS Sequences, Naturals, FiniteSets

(* How many indices of I are not after i.                                  *)
UpTo(I, i) == Cardinality({j \in I : j <= i})

(* The k-th index of I.                                                    *)
Nth(I, k) == CHOOSE i \in I : UpTo(I, i) = k

Sublist(s, I) == [k \in 1..Cardinality(I) |-> s[Nth(I, k)]]

Joined(ss) ==
    LET upto[n \in 0..Len(ss)] == IF n = 0 THEN <<>> ELSE upto[n - 1] \o ss[n]
    IN  upto[Len(ss)]
=============================================================================
