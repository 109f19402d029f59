----------------------------- MODULE SourceBook -----------------------------
(***************************************************************************)
(* What the source store promises: one list of sources, changed one        *)
(* request at a time, which is whole unless a write was cut short or       *)
(* failed, and which the program fills by itself only when it holds        *)
(* nothing.  SourceStore implements this specification.                    *)
(***************************************************************************)
EXTENDS Sequences, Naturals

CONSTANT Seeds  \* the lists a program that holds nothing may start from

VARIABLE book   \* [whole, list]: a list that is not whole holds nothing

Lost == [whole |-> FALSE, list |-> <<>>]
Whole(list) == [whole |-> TRUE, list |-> list]
Sources == book.list

BookInit == book = Whole(<<>>)

(* A new source goes to the end; its identifier was not in use.            *)
BookAdd ==
    /\ book.whole
    /\ Len(book'.list) = Len(Sources) + 1
    /\ LET new == book'.list[Len(Sources) + 1]
       IN  /\ book' = Whole(Append(Sources, new))
           /\ \A i \in DOMAIN Sources : Sources[i].id # new.id

(* One source changes, and keeps its identifier and its place.             *)
BookChange ==
    /\ book.whole /\ book'.whole
    /\ DOMAIN book'.list = DOMAIN Sources
    /\ \E i \in DOMAIN Sources :
          /\ book'.list[i].id = Sources[i].id
          /\ \A j \in DOMAIN Sources \ {i} : book'.list[j] = Sources[j]

(* The source with one identifier goes, with its twins if the list it was  *)
(* filled from had it twice, and the others keep their order.              *)
BookDelete ==
    /\ book.whole /\ book' = Whole(book'.list)
    /\ \E i \in DOMAIN Sources :
          LET others == {j \in DOMAIN Sources : Sources[j].id # Sources[i].id}
          IN  \E place \in [DOMAIN book'.list -> others] :
                 /\ \A j \in others : \E k \in DOMAIN book'.list : place[k] = j
                 /\ \A k, l \in DOMAIN book'.list : k < l => place[k] < place[l]
                 /\ \A k \in DOMAIN book'.list : book'.list[k] = Sources[place[k]]

BookLose == book' = Lost

BookSeed == Sources = <<>> /\ book' \in {Whole(s) : s \in Seeds}

BookNext == BookAdd \/ BookChange \/ BookDelete \/ BookLose \/ BookSeed

BookSpec == BookInit /\ [][BookNext]_book
=============================================================================
