----------------------------- MODULE SourceList -----------------------------
(***************************************************************************)
(* internal/handler/source.go and source_status.go: the list of sources    *)
(* with what is known of each.  A source comes from the memory cache, or   *)
(* from the status of its last fetch by hand, or else a background fetch   *)
(* is started, at most one for a URL at a time (asyncFetchInFlight).       *)
(* Every request runs on a goroutine of its own.  What a fetch does with   *)
(* the cache is in Subscription; here it leaves an entry or none.          *)
(***************************************************************************)
EXTENDS Naturals

CONSTANTS
    ListUrls,   \* the enabled sources
    Listings    \* bound: requests for the list at once

VARIABLES
    entry,      \* the memory cache: "none", "item", or "raw" (read from disk)
    status,     \* sourceStatusMap: the sources with a status
    listing,    \* the requests for the list
    inFlight,   \* asyncFetchInFlight
    fetches     \* URL -> goroutines that fetch it in the background

listVars == <<entry, status, listing, inFlight, fetches>>

NextSource == [pc |-> "next"]
Missed(u) == [pc |-> "missed", url |-> u]

ListTypeOK ==
    /\ entry \in [ListUrls -> {"none", "item", "raw"}]
    /\ status \subseteq ListUrls /\ inFlight \subseteq ListUrls
    /\ listing \in [Listings -> {NextSource} \cup {Missed(u) : u \in ListUrls}]
    /\ fetches \in [ListUrls -> Nat]

ListInit ==
    /\ entry = [u \in ListUrls |-> "none"]
    /\ status = {}
    /\ listing = [l \in Listings |-> NextSource]
    /\ inFlight = {}
    /\ fetches = [u \in ListUrls |-> 0]

(* An entry is shown, unless it came from the disk: then nothing is, and   *)
(* nothing is fetched.  The status stands in for a miss.                   *)
Look(l, u) ==
    /\ listing[l] = NextSource
    /\ entry[u] = "none" /\ u \notin status
    /\ listing' = [listing EXCEPT ![l] = Missed(u)]
    /\ UNCHANGED <<entry, status, inFlight, fetches>>

Launched(l) ==
    LET u == listing[l].url
    IN  /\ inFlight' = inFlight \cup {u}
        /\ fetches' = [fetches EXCEPT ![u] = @ + 1]

\* Mutant of StartFetch: the mark was looked at with the cache.
StartFetchUnchecked(l) ==
    /\ listing[l].pc = "missed"
    /\ fetches[listing[l].url] < 3
    /\ Launched(l)
    /\ listing' = [listing EXCEPT ![l] = NextSource]
    /\ UNCHANGED <<entry, status>>

(* LoadOrStore, and the fetch unless there was a mark.                     *)
StartFetch(l) ==
    /\ listing[l].pc = "missed"
    /\ \/ listing[l].url \notin inFlight /\ Launched(l)
       \/ listing[l].url \in inFlight /\ UNCHANGED <<inFlight, fetches>>
    /\ listing' = [listing EXCEPT ![l] = NextSource]
    /\ UNCHANGED <<entry, status>>

(* The goroutine ends with or without an entry, and deletes the mark.      *)
EndFetch(u) ==
    /\ fetches[u] > 0
    /\ fetches' = [fetches EXCEPT ![u] = @ - 1]
    /\ inFlight' = inFlight \ {u}
    /\ \/ entry' = [entry EXCEPT ![u] = "item"]
       \/ UNCHANGED entry
    /\ UNCHANGED <<status, listing>>

(* TestSourceHandler, RefreshSourcesHandler and SourceDataHandler fetch    *)
(* the source themselves, drop the entry when that fails by force, and     *)
(* record a status either way (updateSourceStatusFromConfig).              *)
Record(u) ==
    /\ status' = status \cup {u}
    /\ \E e \in {"none", "item"} : entry' = [entry EXCEPT ![u] = e]
    /\ UNCHANGED <<listing, inFlight, fetches>>

Expire(u) ==
    /\ entry[u] # "none"
    /\ entry' = [entry EXCEPT ![u] = "none"]
    /\ UNCHANGED <<status, listing, inFlight, fetches>>

(* The disk cache is loaded; all else was in memory.                       *)
ListRestart ==
    /\ entry' = [u \in ListUrls |-> IF entry[u] = "none" THEN "none" ELSE "raw"]
    /\ status' = {}
    /\ listing' = [l \in Listings |-> NextSource]
    /\ inFlight' = {}
    /\ fetches' = [u \in ListUrls |-> 0]

ListNext ==
    \/ ListRestart
    \/ \E u \in ListUrls : EndFetch(u) \/ Record(u) \/ Expire(u)
    \/ \E l \in Listings : StartFetch(l) \/ \E u \in ListUrls : Look(l, u)

ListSpec == ListInit /\ [][ListNext]_listVars

-----------------------------------------------------------------------------
(* However many requests find the same source missing at the same time,    *)
(* one goroutine fetches it, and the mark that keeps the others from it is *)
(* there exactly as long (handler/source.go:74-76).                        *)
SingleFlight ==
    \A u \in ListUrls : fetches[u] = IF u \in inFlight THEN 1 ELSE 0
=============================================================================
