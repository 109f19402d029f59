------------------------------ MODULE TtlStore ------------------------------
(***************************************************************************)
(* What the rest of the program relies on when it uses internal/cache: a   *)
(* key/value store whose entries die at a deadline.  Nothing is said of    *)
(* files, goroutines or crashes; an entry may vanish at any time, and      *)
(* after a restart an entry may come back, but only one that some call to  *)
(* Set or SetWithDisk put there, with its value and its deadline together. *)
(* Cache.tla describes how the code does it and is checked to implement    *)
(* this specification.                                                     *)
(***************************************************************************)
EXTENDS Naturals

CONSTANTS
    Keys,      \* the keys callers use
    Vals,      \* the values they store
    TTLs       \* the times to live they ask for

VARIABLES
    now,       \* the clock time.Now() reads
    memCache,  \* key -> item, or NoItem
    sets,      \* history: every call that stored a value
    reply      \* what the call just made returned, or Nothing

vars == <<now, memCache, sets, reply>>

NoItem == [form |-> "none"]

(* A value keeps its Go type until it goes through a JSON file: an item    *)
(* read back from disk holds a generic map, no longer a CachedItem.        *)
Item(form, v, deadline) == [form |-> form, val |-> v, exp |-> deadline]
Items == [form : {"typed", "generic"}, val : Vals, exp : Nat]

Sets == [key : Keys, val : Vals, at : Nat, ttl : TTLs]
Deadline(s) == s.at + s.ttl

Nothing == [op |-> "none"]
Answers == [op : {"Get", "GetStale"}, key : Keys, val : Vals]

(* k, v and the deadline e were stored together by one call.               *)
WasSet(k, v, e) ==
    \E s \in sets : s.key = k /\ s.val = v /\ Deadline(s) = e

Init ==
    /\ now = 0
    /\ memCache = [k \in Keys |-> NoItem]
    /\ sets = {}
    /\ reply = Nothing

Put(k, v, ttl) ==
    /\ memCache' = [memCache EXCEPT ![k] = Item("typed", v, now + ttl)]
    /\ sets' = sets \cup {[key |-> k, val |-> v, at |-> now, ttl |-> ttl]}
    /\ reply' = Nothing
    /\ UNCHANGED now

Answer(op, k) ==
    /\ memCache[k] # NoItem
    /\ op = "Get" => now <= memCache[k].exp
    /\ reply' = [op |-> op, key |-> k, val |-> memCache[k].val]
    /\ UNCHANGED <<now, memCache, sets>>

(* Expiry, invalidation or a crash: any set of entries may be forgotten.   *)
Forget(gone) ==
    /\ memCache' = [k \in Keys |-> IF k \in gone THEN NoItem ELSE memCache[k]]
    /\ reply' = Nothing
    /\ UNCHANGED <<now, sets>>

(* A restart: what comes back is alive, was set, and is generic.           *)
Reload ==
    /\ memCache' \in [Keys -> Items \cup {NoItem}]
    /\ \A k \in Keys :
          memCache'[k] # NoItem =>
             /\ memCache'[k].form = "generic"
             /\ now <= memCache'[k].exp
             /\ WasSet(k, memCache'[k].val, memCache'[k].exp)
    /\ reply' = Nothing
    /\ UNCHANGED <<now, sets>>

Tick ==
    /\ now' = now + 1
    /\ reply' = Nothing
    /\ UNCHANGED <<memCache, sets>>

Next ==
    \/ \E k \in Keys, v \in Vals, ttl \in TTLs : Put(k, v, ttl)
    \/ \E k \in Keys, op \in {"Get", "GetStale"} : Answer(op, k)
    \/ \E gone \in SUBSET Keys : Forget(gone)
    \/ Reload
    \/ Tick

Spec == Init /\ [][Next]_vars

-----------------------------------------------------------------------------
(* What Get hands out was stored under that key by one call, no longer ago *)
(* than the time to live that call asked for (cache.go:63-78), whatever    *)
(* was forgotten, reloaded or overwritten in between.                      *)
ServedWithinTTL ==
    reply # Nothing /\ reply.op = "Get" =>
        \E s \in sets :
            /\ s.key = reply.key
            /\ s.val = reply.val
            /\ s.at <= now
            /\ now <= Deadline(s)
=============================================================================
