------------------------------- MODULE Cache -------------------------------
(***************************************************************************)
(* internal/cache/cache.go: the in-memory map guarded by one mutex, and    *)
(* the files that mirror part of it.  Every exported function is one       *)
(* action, since it holds the mutex for its whole body.  The disk work is  *)
(* done by goroutines the functions start after, and outside, the mutex:   *)
(* they run in any order, and each system call of theirs is an action.     *)
(*                                                                         *)
(* A key has two paths: the cache file and path.tmp.  os.WriteFile opens   *)
(* path.tmp with O_TRUNC, writes, and closes; every goroutine that         *)
(* persists the same key uses the same path.tmp, so a goroutine may hold   *)
(* a file that another one has meanwhile truncated, renamed or removed.    *)
(* "at" says where the open file now lives.                                *)
(***************************************************************************)
EXTENDS Naturals, FiniteSets

CONSTANTS
    SourceKeys,   \* keys stored by SetWithDisk: the URLs of the sources
    OutputKeys,   \* keys stored by Set: "sub:..." and "filter:..."
    Prefixes,     \* each prefix in use, as the set of keys that start with it
    Vals,
    TTLs,
    Goroutines,   \* bound: how many disk goroutines exist at once
    MaxTime,      \* bound on the clock
    MaxSets,      \* bound on the calls to Set and SetWithDisk
    MaxCrashes,   \* bound on crashes
    MaxFailures   \* bound on failed writes

Keys == SourceKeys \cup OutputKeys

ASSUME CacheAssumption ==
    /\ TTLs \subseteq Nat
    /\ SourceKeys \cap OutputKeys = {}
    /\ Prefixes \subseteq SUBSET OutputKeys
    /\ {MaxTime, MaxSets, MaxCrashes, MaxFailures} \subseteq Nat

VARIABLES
    now,
    up,           \* the process runs
    memCache,
    cacheFile,    \* key -> content of its .cache file
    tmpFile,      \* key -> content of its .cache.tmp file
    goroutine,    \* the persistToDisk and removeFromDisk calls in flight
    sets,         \* history: every call that stored a value
    reply,        \* what the call just made returned, or Nothing
    overlapped,   \* history: keys two goroutines have persisted at once
    contended,    \* history: keys with two goroutines of any kind at once
    crashes,
    failures

fileVars == <<cacheFile, tmpFile>>
vars == <<now, up, memCache, cacheFile, tmpFile, goroutine, sets, reply,
          overlapped, contended, crashes, failures>>

Store == INSTANCE TtlStore

NoItem == Store!NoItem
Item(form, v, deadline) == Store!Item(form, v, deadline)

(* Contents of a file.  "torn" stands for any bytes json.Unmarshal refuses. *)
NoFile == [data |-> "none"]
EmptyFile == [data |-> "empty"]
TornFile == [data |-> "torn"]
WholeFile(v, e) == [data |-> "whole", val |-> v, exp |-> e]
WholeFiles == [data : {"whole"}, val : Vals, exp : Nat]
Files == {NoFile, EmptyFile, TornFile} \cup WholeFiles

Idle == [pc |-> "idle"]
Persister(pc, k, v, e, at) ==
    [pc |-> pc, key |-> k, val |-> v, exp |-> e, at |-> at]
Remover(k) == [pc |-> "remove", key |-> k]

Calls ==
    {Idle}
    \cup [pc : {"remove"}, key : Keys]
    \cup [pc : {"open"}, key : Keys, val : Vals, exp : Nat, at : {"nowhere"}]
    \cup [pc : {"write", "rename"}, key : Keys, val : Vals, exp : Nat,
          at : {"tmp", "cache", "unlinked"}]

Persisting(g) == goroutine[g].pc \in {"open", "write", "rename"}
PersistingKey(k) == {g \in Goroutines : Persisting(g) /\ goroutine[g].key = k}
Busy(k) == \E g \in Goroutines : goroutine[g] # Idle /\ goroutine[g].key = k

TypeOK ==
    /\ now \in Nat
    /\ up \in BOOLEAN
    /\ memCache \in [Keys -> Store!Items \cup {NoItem}]
    /\ cacheFile \in [Keys -> Files]
    /\ tmpFile \in [Keys -> Files]
    /\ goroutine \in [Goroutines -> Calls]
    /\ sets \subseteq Store!Sets
    /\ reply \in Store!Answers \cup {Store!Nothing}
    /\ overlapped \subseteq Keys
    /\ contended \subseteq Keys
    /\ crashes \in Nat
    /\ failures \in Nat

Init ==
    /\ now = 0
    /\ up = TRUE
    /\ memCache = [k \in Keys |-> NoItem]
    /\ cacheFile = [k \in Keys |-> NoFile]
    /\ tmpFile = [k \in Keys |-> NoFile]
    /\ goroutine = [g \in Goroutines |-> Idle]
    /\ sets = {}
    /\ reply = Store!Nothing
    /\ overlapped = {}
    /\ contended = {}
    /\ crashes = 0
    /\ failures = 0

-----------------------------------------------------------------------------
(* The exported functions.                                                 *)

Record(k, v, ttl) ==
    /\ Cardinality(sets) < MaxSets
    /\ sets' = sets \cup {[key |-> k, val |-> v, at |-> now, ttl |-> ttl]}
    /\ memCache' = [memCache EXCEPT ![k] = Item("typed", v, now + ttl)]

Start(call) ==
    \E g \in Goroutines :
        /\ goroutine[g] = Idle
        /\ goroutine' = [goroutine EXCEPT ![g] = call]

NoteOverlap(k) ==
    overlapped' = IF PersistingKey(k) = {} THEN overlapped
                                           ELSE overlapped \cup {k}

NoteContention(k) ==
    contended' = IF Busy(k) THEN contended \cup {k} ELSE contended

Set(k, v, ttl) ==
    /\ up
    /\ Record(k, v, ttl)
    /\ reply' = Store!Nothing
    /\ UNCHANGED <<now, up, fileVars, goroutine, overlapped, contended, crashes,
                   failures>>

\* Mutant of SetWithDisk: an entry that is in the map is not persisted again.
SetWithDiskOnce(k, v, ttl) ==
    /\ up
    /\ Record(k, v, ttl)
    /\ IF memCache[k] = NoItem
       THEN /\ Start(Persister("open", k, v, now + ttl, "nowhere"))
            /\ NoteOverlap(k)
            /\ NoteContention(k)
       ELSE UNCHANGED <<goroutine, overlapped, contended>>
    /\ reply' = Store!Nothing
    /\ UNCHANGED <<now, up, fileVars, crashes, failures>>

SetWithDisk(k, v, ttl) ==
    /\ up
    /\ Record(k, v, ttl)
    /\ Start(Persister("open", k, v, now + ttl, "nowhere"))
    /\ NoteOverlap(k)
    /\ NoteContention(k)
    /\ reply' = Store!Nothing
    /\ UNCHANGED <<now, up, fileVars, crashes, failures>>

Answered(op, k) ==
    /\ reply' = [op |-> op, key |-> k, val |-> memCache[k].val]
    /\ UNCHANGED <<now, up, memCache, fileVars, goroutine, sets, overlapped,
                   contended, crashes, failures>>

\* Mutant of Expired: off by one.
ExpiredLate(k) == now > memCache[k].exp + 1

Expired(k) == now > memCache[k].exp

GetHit(k) ==
    /\ up
    /\ memCache[k] # NoItem
    /\ ~ Expired(k)
    /\ Answered("Get", k)

(* The entry leaves the map at once; its file is removed by a goroutine.   *)
GetExpired(k) ==
    /\ up
    /\ memCache[k] # NoItem
    /\ Expired(k)
    /\ memCache' = [memCache EXCEPT ![k] = NoItem]
    /\ Start(Remover(k))
    /\ NoteContention(k)
    /\ reply' = Store!Nothing
    /\ UNCHANGED <<now, up, fileVars, sets, overlapped, crashes, failures>>

GetStale(k) ==
    /\ up
    /\ memCache[k] # NoItem
    /\ Answered("GetStale", k)

(* Files are left alone here: only keys that have none carry a prefix.     *)
DeleteByPrefix(prefix) ==
    /\ up
    /\ memCache' = [k \in Keys |-> IF k \in prefix THEN NoItem ELSE memCache[k]]
    /\ reply' = Store!Nothing
    /\ UNCHANGED <<now, up, fileVars, goroutine, sets, overlapped, contended,
                   crashes, failures>>

-----------------------------------------------------------------------------
(* persistToDisk and removeFromDisk, one system call at a time.            *)

memVars == <<now, up, memCache, sets, overlapped, contended, crashes>>

(* Every open file that was at "from" is now at "to".                      *)
Moved(calls, k, from, to) ==
    [g \in Goroutines |->
        IF calls[g].pc \in {"write", "rename"} /\ calls[g].key = k
           /\ calls[g].at = from
        THEN [calls[g] EXCEPT !.at = to]
        ELSE calls[g]]

\* Mutant of OpenTmp: the cache file itself is truncated and written.
OpenInPlace(g) ==
    /\ goroutine[g].pc = "open"
    /\ cacheFile' = [cacheFile EXCEPT ![goroutine[g].key] = EmptyFile]
    /\ goroutine' = [goroutine EXCEPT ![g].pc = "write", ![g].at = "cache"]
    /\ reply' = Store!Nothing
    /\ UNCHANGED <<memVars, tmpFile, failures>>

\* Mutant of OpenTmp: the goroutine loses track of the file it opened.
OpenAndForget(g) ==
    /\ goroutine[g].pc = "open"
    /\ tmpFile' = [tmpFile EXCEPT ![goroutine[g].key] = EmptyFile]
    /\ goroutine' = [goroutine EXCEPT ![g].pc = "write"]
    /\ reply' = Store!Nothing
    /\ UNCHANGED <<memVars, cacheFile, failures>>

(* os.WriteFile: open with O_CREATE|O_TRUNC.                               *)
OpenTmp(g) ==
    /\ goroutine[g].pc = "open"
    /\ tmpFile' = [tmpFile EXCEPT ![goroutine[g].key] = EmptyFile]
    /\ goroutine' = [goroutine EXCEPT ![g].pc = "write", ![g].at = "tmp"]
    /\ reply' = Store!Nothing
    /\ UNCHANGED <<memVars, cacheFile, failures>>

\* Mutant of Bytes: the deadline is computed again, after the unlock.
BytesLateDeadline(g) ==
    WholeFile(goroutine[g].val, now + CHOOSE ttl \in TTLs : TRUE)

(* The JSON of the diskEntry: value and deadline as the caller set them.   *)
Bytes(g) == WholeFile(goroutine[g].val, goroutine[g].exp)

(* The bytes land at offset 0 of the open file.  Over the longer bytes of  *)
(* another goroutine they leave its tail, which no longer parses.          *)
Overwritten(old, new) ==
    IF old \in {EmptyFile, new} THEN {new} ELSE {new, TornFile}

FileAt(g, content) ==
    LET k == goroutine[g].key IN
    /\ tmpFile' = IF goroutine[g].at = "tmp"
                  THEN [tmpFile EXCEPT ![k] = content] ELSE tmpFile
    /\ cacheFile' = IF goroutine[g].at = "cache"
                    THEN [cacheFile EXCEPT ![k] = content] ELSE cacheFile

OpenedFile(g) ==
    LET k == goroutine[g].key IN
    CASE goroutine[g].at = "tmp"   -> tmpFile[k]
      [] goroutine[g].at = "cache" -> cacheFile[k]
      [] OTHER                     -> EmptyFile

Write(g) ==
    /\ goroutine[g].pc = "write"
    /\ \E content \in Overwritten(OpenedFile(g), Bytes(g)) : FileAt(g, content)
    /\ goroutine' = [goroutine EXCEPT ![g].pc = "rename"]
    /\ reply' = Store!Nothing
    /\ UNCHANGED <<memVars, failures>>

(* os.WriteFile fails before it opens, or midway; persistToDisk returns.   *)
WriteFails(g) ==
    /\ failures < MaxFailures
    /\ failures' = failures + 1
    /\ \/ goroutine[g].pc = "open" /\ UNCHANGED fileVars
       \/ /\ goroutine[g].pc = "write"
          /\ \E content \in {TornFile, OpenedFile(g)} : FileAt(g, content)
    /\ goroutine' = [goroutine EXCEPT ![g] = Idle]
    /\ reply' = Store!Nothing
    /\ UNCHANGED memVars

\* Mutant of Rename: the file written is never published.
RenameForgotten(g) ==
    /\ goroutine[g].pc = "rename"
    /\ goroutine' = [goroutine EXCEPT ![g] = Idle]
    /\ reply' = Store!Nothing
    /\ UNCHANGED <<memVars, fileVars, failures>>

(* os.Rename goes by path: it publishes whatever path.tmp now is, and      *)
(* fails, its error dropped, when another goroutine has renamed it first.  *)
Rename(g) ==
    LET k == goroutine[g].key
        done == [goroutine EXCEPT ![g] = Idle]
    IN
    /\ goroutine[g].pc = "rename"
    /\ IF tmpFile[k] # NoFile
       THEN /\ cacheFile' = [cacheFile EXCEPT ![k] = tmpFile[k]]
            /\ tmpFile' = [tmpFile EXCEPT ![k] = NoFile]
            /\ goroutine' = Moved(Moved(done, k, "cache", "unlinked"),
                                  k, "tmp", "cache")
       ELSE /\ UNCHANGED fileVars
            /\ goroutine' = done
    /\ reply' = Store!Nothing
    /\ UNCHANGED <<memVars, failures>>

Remove(g) ==
    LET k == goroutine[g].key IN
    /\ goroutine[g].pc = "remove"
    /\ cacheFile' = [cacheFile EXCEPT ![k] = NoFile]
    /\ goroutine' = Moved([goroutine EXCEPT ![g] = Idle], k, "cache", "unlinked")
    /\ reply' = Store!Nothing
    /\ UNCHANGED <<memVars, tmpFile, failures>>

GoroutineStep(g) == OpenTmp(g) \/ Write(g) \/ Rename(g) \/ Remove(g)

-----------------------------------------------------------------------------
(* The process stops, its goroutines with it; the files stay.              *)
Crash ==
    /\ up
    /\ crashes < MaxCrashes
    /\ crashes' = crashes + 1
    /\ up' = FALSE
    /\ memCache' = [k \in Keys |-> NoItem]
    /\ goroutine' = [g \in Goroutines |-> Idle]
    /\ reply' = Store!Nothing
    /\ UNCHANGED <<now, fileVars, sets, overlapped, contended, failures>>

\* Mutant of Loadable: the deadline is not looked at.
LoadableForever(k) == cacheFile[k] \in WholeFiles

Loadable(k) == cacheFile[k] \in WholeFiles /\ ~ (now > cacheFile[k].exp)

(* loadFromDisk: a file that does not parse or has expired is removed; a   *)
(* .tmp file is left where it is.                                          *)
InitDiskCache ==
    /\ ~ up
    /\ up' = TRUE
    /\ memCache' = [k \in Keys |->
                       IF Loadable(k)
                       THEN Item("generic", cacheFile[k].val, cacheFile[k].exp)
                       ELSE NoItem]
    /\ cacheFile' = [k \in Keys |-> IF Loadable(k) THEN cacheFile[k] ELSE NoFile]
    /\ reply' = Store!Nothing
    /\ UNCHANGED <<now, tmpFile, goroutine, sets, overlapped, contended, crashes,
                   failures>>

Tick ==
    /\ now < MaxTime
    /\ now' = now + 1
    /\ reply' = Store!Nothing
    /\ UNCHANGED <<up, memCache, fileVars, goroutine, sets, overlapped,
                   contended, crashes, failures>>

Next ==
    \/ \E k \in OutputKeys, v \in Vals, ttl \in TTLs : Set(k, v, ttl)
    \/ \E k \in SourceKeys, v \in Vals, ttl \in TTLs : SetWithDisk(k, v, ttl)
    \/ \E k \in Keys : GetHit(k) \/ GetExpired(k) \/ GetStale(k)
    \/ \E prefix \in Prefixes : DeleteByPrefix(prefix)
    \/ \E g \in Goroutines : GoroutineStep(g) \/ WriteFails(g)
    \/ Crash
    \/ InitDiskCache
    \/ Tick

Spec == Init /\ [][Next]_vars

(* The Go scheduler runs every runnable goroutine sooner or later.         *)
FairSpec == Spec /\ \A g \in Goroutines : WF_vars(GoroutineStep(g))

-----------------------------------------------------------------------------
(* Get never hands out a value past the time to live it was stored with,   *)
(* though the entry may have come back from a file that several goroutines *)
(* wrote, renamed and removed, across restarts (cache.go:63-78, 156-193).  *)
ServedWithinTTL == Store!ServedWithinTTL

(* Whatever the map, a cache file or a .tmp file holds under a key is the  *)
(* value and the deadline of one call that stored that key: the goroutines *)
(* sharing path.tmp can lose an entry but never mix two (cache.go:132-147).*)
MemoryWasSet ==
    \A k \in Keys :
        memCache[k] # NoItem =>
            Store!WasSet(k, memCache[k].val, memCache[k].exp)

FilesWereSet ==
    \A k \in Keys : \A file \in {cacheFile[k], tmpFile[k]} :
        file \in WholeFiles => Store!WasSet(k, file.val, file.exp)

StoredWasSet == MemoryWasSet /\ FilesWereSet

(* Writing path.tmp and renaming it (cache.go:142-146) replaces the cache  *)
(* file atomically, through crashes and failed writes, as long as no two   *)
(* goroutines have persisted that key at once: a restart then finds the    *)
(* old entry or the new one, never a broken file.                          *)
AtomicReplace ==
    \A k \in Keys \ overlapped : cacheFile[k] \notin {EmptyFile, TornFile}

(* The code does what TtlStore promises to the rest of the program.        *)
ImplementsTtlStore == Store!Spec

(* Without a crash or a failed write, a persistToDisk that has started     *)
(* (cache.go:58) leads to a cache file for its key, even when its own      *)
(* rename finds path.tmp taken by another goroutine.                       *)
PersistLands ==
    \A g \in Goroutines, k \in SourceKeys :
        goroutine[g].pc = "open" /\ goroutine[g].key = k
            ~> cacheFile[k] # NoFile \/ ~ up \/ failures > 0

(* cache.go:47: SetWithDisk "stores a value in memory + persists to disk": *)
(* once the goroutines of a key are done, its file holds what the last     *)
(* call stored, or a restart would bring back something else.  This needs  *)
(* that no goroutine of that key was ever started while another one ran:   *)
(* persists and removals run in any order (cache.go:58, 73).               *)
DiskFollowsMemory ==
    \A k \in SourceKeys \ contended :
        /\ memCache[k] # NoItem
        /\ ~ Busy(k)
        /\ failures = 0
        => /\ cacheFile[k] \in WholeFiles
           /\ cacheFile[k].val = memCache[k].val
           /\ cacheFile[k].exp = memCache[k].exp
=============================================================================
