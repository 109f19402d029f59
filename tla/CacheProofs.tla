---------------------------- MODULE CacheProofs ----------------------------
(***************************************************************************)
(* For every set of keys, values, times to live and goroutines, and every  *)
(* value of the bounds of Cache:                                           *)
(*   - the cache never hands out an expired or invented value,             *)
(*   - persisting through path.tmp is atomic while one goroutine at a time *)
(*     persists a key, and                                                 *)
(*   - the code implements TtlStore.                                       *)
(***************************************************************************)
EXTENDS Cache, TLAPS

(* A goroutine persists what one call to SetWithDisk stored.               *)
PersistsWhatWasSet ==
    \A g \in Goroutines :
        Persisting(g) =>
            Store!WasSet(goroutine[g].key, goroutine[g].val, goroutine[g].exp)

NoSetInFuture == \A s \in sets : s.at <= now

(* Why the rename is atomic: the only goroutine that persists k owns       *)
(* path.tmp, and publishes it when its own bytes are all in.               *)
OneOwner ==
    \A k \in Keys \ overlapped : \A g, h \in PersistingKey(k) : g = h

OwnsTmp ==
    \A k \in Keys \ overlapped : \A g \in PersistingKey(k) :
        /\ goroutine[g].pc = "write" =>
              goroutine[g].at = "tmp" /\ tmpFile[k] = EmptyFile
        /\ goroutine[g].pc = "rename" =>
              goroutine[g].at = "tmp" /\ tmpFile[k] = Bytes(g)

Atomic == OneOwner /\ OwnsTmp /\ AtomicReplace

(* Why the file follows the map: on a key that is not contended there is   *)
(* one goroutine at most; while it persists the map holds what it writes,  *)
(* and while it removes the map holds nothing.                             *)
BusyOn(k) == {g \in Goroutines : goroutine[g] # Idle /\ goroutine[g].key = k}

OnDisk(k) ==
    /\ cacheFile[k] \in WholeFiles
    /\ cacheFile[k].val = memCache[k].val
    /\ cacheFile[k].exp = memCache[k].exp

DiskAt(k) ==
    /\ \A g, h \in BusyOn(k) : g = h
    /\ \A g \in BusyOn(k) : memCache[k] # NoItem =>
          /\ Persisting(g)
          /\ goroutine[g].val = memCache[k].val
          /\ goroutine[g].exp = memCache[k].exp
    /\ memCache[k] # NoItem /\ BusyOn(k) = {} /\ failures = 0 => OnDisk(k)

DiskInv ==
    /\ \A k \in SourceKeys \ contended : DiskAt(k)
    /\ overlapped \subseteq contended
    /\ ~ up => \A g \in Goroutines : goroutine[g] = Idle

(* The inductive invariant.                                                *)
IInv ==
    /\ TypeOK
    /\ StoredWasSet
    /\ PersistsWhatWasSet
    /\ NoSetInFuture
    /\ ServedWithinTTL
    /\ Atomic
    /\ DiskInv

-----------------------------------------------------------------------------
(* A rename or an unlink moves open files; it changes no call otherwise.   *)
SameCall(before, after) ==
    /\ after.pc = before.pc
    /\ before.pc # "idle" => after.key = before.key
    /\ before.pc \in {"open", "write", "rename"} =>
          after.val = before.val /\ after.exp = before.exp

(* Moved yields calls again: each is the same call as before, and only an  *)
(* open file of key k at "from" is elsewhere.                              *)
LEMMA MovedCalls ==
    ASSUME NEW calls \in [Goroutines -> Calls], NEW k, NEW from,
           NEW to \in {"cache", "unlinked"}
    PROVE  /\ Moved(calls, k, from, to) \in [Goroutines -> Calls]
           /\ \A g \in Goroutines :
                 /\ SameCall(calls[g], Moved(calls, k, from, to)[g])
                 /\ \/ Moved(calls, k, from, to)[g] = calls[g]
                    \/ calls[g].key = k /\ calls[g].at = from
<1>. DEFINE moved == Moved(calls, k, from, to)
<1>1. ASSUME NEW g \in Goroutines
      PROVE  /\ moved[g] \in Calls
             /\ SameCall(calls[g], moved[g])
             /\ \/ moved[g] = calls[g]
                \/ calls[g].key = k /\ calls[g].at = from
  <2>1. CASE calls[g].pc \in {"write", "rename"} /\ calls[g].key = k
             /\ calls[g].at = from
    <3>1. calls[g] \in [pc : {"write", "rename"}, key : Keys, val : Vals,
                        exp : Nat, at : {"tmp", "cache", "unlinked"}]
      BY <2>1 DEF Calls, Idle
    <3>2. moved[g] = [calls[g] EXCEPT !.at = to]
      BY <2>1 DEF Moved
    <3>. QED  BY <2>1, <3>1, <3>2 DEF Calls, SameCall
  <2>2. CASE ~ (calls[g].pc \in {"write", "rename"} /\ calls[g].key = k
                /\ calls[g].at = from)
    BY <2>2 DEF Moved, SameCall
  <2>. QED  BY <2>1, <2>2
<1>. QED  BY <1>1 DEF Moved

(* An empty cache with no files and no goroutines has the right type.      *)
LEMMA TypeInit == Init => TypeOK
  BY DEF Init, TypeOK, NoItem, Store!NoItem, Store!Nothing, Files, Calls, Idle,
         NoFile

(* Every action of cache.go keeps the types of the variables.              *)
LEMMA TypeStep == TypeOK /\ [Next]_vars => TypeOK'
<1>. SUFFICES ASSUME TypeOK, [Next]_vars  PROVE TypeOK'
  OBVIOUS
<1>. USE DEF memVars, fileVars
<1>1. ASSUME NEW k \in Keys, NEW v \in Vals, NEW ttl \in TTLs, Record(k, v, ttl)
      PROVE  /\ memCache' \in [Keys -> Store!Items \cup {NoItem}]
             /\ sets' \subseteq Store!Sets
  BY <1>1, CacheAssumption
     DEF TypeOK, Record, Item, Store!Item, Store!Items, Store!Sets, NoItem
<1>2. ASSUME NEW k \in OutputKeys, NEW v \in Vals, NEW ttl \in TTLs,
             Set(k, v, ttl)
      PROVE  TypeOK'
  BY <1>1, <1>2 DEF TypeOK, Set, Keys
<1>3. ASSUME NEW k \in SourceKeys, NEW v \in Vals, NEW ttl \in TTLs,
             SetWithDisk(k, v, ttl)
      PROVE  TypeOK'
  <2>1. Persister("open", k, v, now + ttl, "nowhere") \in Calls
    BY CacheAssumption DEF TypeOK, Persister, Calls, Keys
  <2>2. goroutine' \in [Goroutines -> Calls]
    BY <1>3, <2>1 DEF SetWithDisk, Start, TypeOK
  <2>. QED  BY <1>1, <1>3, <2>2
         DEF TypeOK, SetWithDisk, NoteOverlap, NoteContention, Keys
<1>4. ASSUME NEW k \in Keys, NEW op \in {"Get", "GetStale"}, Answered(op, k),
             memCache[k] # NoItem
      PROVE  TypeOK'
  BY <1>4 DEF TypeOK, Answered, Store!Answers, Store!Items
<1>5. ASSUME NEW k \in Keys, GetExpired(k)
      PROVE  TypeOK'
  <2>1. Remover(k) \in Calls
    BY DEF Remover, Calls
  <2>2. goroutine' \in [Goroutines -> Calls]
    BY <1>5, <2>1 DEF GetExpired, Start, TypeOK
  <2>. QED  BY <1>5, <2>2 DEF TypeOK, GetExpired, NoteContention
<1>6. ASSUME NEW prefix \in Prefixes, DeleteByPrefix(prefix)
      PROVE  TypeOK'
  BY <1>6 DEF TypeOK, DeleteByPrefix
<1>7. ASSUME NEW g \in Goroutines, OpenTmp(g)
      PROVE  TypeOK'
  <2>1. goroutine[g] \in [pc : {"open"}, key : Keys, val : Vals, exp : Nat,
                          at : {"nowhere"}]
    BY <1>7 DEF TypeOK, OpenTmp, Calls, Idle
  <2>2. goroutine' \in [Goroutines -> Calls]
    BY <1>7, <2>1 DEF OpenTmp, TypeOK, Calls
  <2>. QED  BY <1>7, <2>2 DEF TypeOK, OpenTmp, Files
<1>8. ASSUME NEW g \in Goroutines, goroutine[g].pc = "write",
             NEW content \in Files, FileAt(g, content)
      PROVE  cacheFile' \in [Keys -> Files] /\ tmpFile' \in [Keys -> Files]
  BY <1>8 DEF TypeOK, FileAt
<1>9. ASSUME NEW g \in Goroutines, goroutine[g].pc \in {"write", "rename"}
      PROVE  /\ goroutine[g] \in [pc : {"write", "rename"}, key : Keys,
                                   val : Vals, exp : Nat,
                                   at : {"tmp", "cache", "unlinked"}]
             /\ Bytes(g) \in WholeFiles
             /\ OpenedFile(g) \in Files
  BY <1>9 DEF TypeOK, Calls, Idle, Bytes, WholeFile, WholeFiles, OpenedFile,
              Files
<1>10. ASSUME NEW g \in Goroutines, Write(g)
       PROVE  TypeOK'
  <2>1. PICK content \in Overwritten(OpenedFile(g), Bytes(g)) : FileAt(g, content)
    BY <1>10 DEF Write
  <2>2. content \in Files
    BY <1>9, <1>10, <2>1 DEF Write, Overwritten, Files
  <2>3. goroutine' \in [Goroutines -> Calls]
    BY <1>9, <1>10 DEF Write, TypeOK, Calls
  <2>. QED  BY <1>8, <1>10, <2>1, <2>2, <2>3 DEF Write, TypeOK
<1>11. ASSUME NEW g \in Goroutines, WriteFails(g)
       PROVE  TypeOK'
  <2>1. goroutine' \in [Goroutines -> Calls]
    BY <1>11 DEF WriteFails, TypeOK, Calls
  <2>2. cacheFile' \in [Keys -> Files] /\ tmpFile' \in [Keys -> Files]
    <3>1. CASE goroutine[g].pc = "open" /\ UNCHANGED fileVars
      BY <3>1 DEF TypeOK
    <3>2. CASE /\ goroutine[g].pc = "write"
               /\ \E content \in {TornFile, OpenedFile(g)} : FileAt(g, content)
      <4>1. \A content \in {TornFile, OpenedFile(g)} : content \in Files
        BY <1>9, <3>2 DEF Files
      <4>. QED  BY <1>8, <3>2, <4>1
    <3>. QED  BY <1>11, <3>1, <3>2 DEF WriteFails
  <2>. QED  BY <1>11, <2>1, <2>2 DEF WriteFails, TypeOK
<1>12. ASSUME NEW g \in Goroutines
       PROVE  [goroutine EXCEPT ![g] = Idle] \in [Goroutines -> Calls]
  BY DEF TypeOK, Calls
<1>13. ASSUME NEW g \in Goroutines, Rename(g)
       PROVE  TypeOK'
  <2>. DEFINE k == goroutine[g].key
              done == [goroutine EXCEPT ![g] = Idle]
  <2>1. k \in Keys
    BY <1>9, <1>13 DEF Rename
  <2>2. Moved(done, k, "cache", "unlinked") \in [Goroutines -> Calls]
    BY <1>12, MovedCalls
  <2>3. Moved(Moved(done, k, "cache", "unlinked"), k, "tmp", "cache")
           \in [Goroutines -> Calls]
    BY <2>2, MovedCalls
  <2>. QED  BY <1>12, <1>13, <2>1, <2>3 DEF Rename, TypeOK, Files
<1>14. ASSUME NEW g \in Goroutines, Remove(g)
       PROVE  TypeOK'
  <2>1. Moved([goroutine EXCEPT ![g] = Idle], goroutine[g].key, "cache",
              "unlinked") \in [Goroutines -> Calls]
    BY <1>12, MovedCalls
  <2>. QED  BY <1>14, <2>1 DEF Remove, TypeOK, Files
<1>15. CASE Crash
  <2>1. Idle \in Calls
    BY DEF Calls
  <2>2. memCache' \in [Keys -> Store!Items \cup {NoItem}]
    BY <1>15 DEF Crash
  <2>3. goroutine' \in [Goroutines -> Calls]
    BY <1>15, <2>1 DEF Crash
  <2>4. up' \in BOOLEAN
    BY <1>15 DEF Crash
  <2>. QED  BY <1>15, <2>2, <2>3, <2>4 DEF Crash, TypeOK
<1>16. CASE InitDiskCache
  <2>1. ASSUME NEW k \in Keys, Loadable(k)
        PROVE  Item("generic", cacheFile[k].val, cacheFile[k].exp) \in Store!Items
    BY <2>1 DEF Loadable, WholeFiles, Item, Store!Item, Store!Items
  <2>. QED  BY <1>16, <2>1 DEF InitDiskCache, TypeOK, Files
<1>17. CASE Tick
  BY <1>17 DEF Tick, TypeOK
<1>18. CASE UNCHANGED vars
  BY <1>18 DEF vars, TypeOK
<1>. QED
  BY <1>2, <1>3, <1>4, <1>5, <1>6, <1>7, <1>10, <1>11, <1>13, <1>14, <1>15,
     <1>16, <1>17, <1>18 DEF Next, GetHit, GetStale, GoroutineStep

-----------------------------------------------------------------------------
(* What is stored was set.                                                 *)

(* The history only grows: what was set once stays set.                    *)
LEMMA WasSetKept ==
    ASSUME sets \subseteq sets', NEW k, NEW v, NEW e, Store!WasSet(k, v, e)
    PROVE  Store!WasSet(k, v, e)'
BY DEF Store!WasSet, Store!Deadline

(* A step that starts no new persistToDisk keeps what the running ones     *)
(* persist.                                                                *)
LEMMA CallsKept ==
    ASSUME PersistsWhatWasSet, sets \subseteq sets',
           \A g \in Goroutines :
              Persisting(g)' =>
                 /\ Persisting(g)
                 /\ goroutine'[g].key = goroutine[g].key
                 /\ goroutine'[g].val = goroutine[g].val
                 /\ goroutine'[g].exp = goroutine[g].exp
    PROVE  PersistsWhatWasSet'
<1>. SUFFICES ASSUME NEW g \in Goroutines, Persisting(g)'
              PROVE  Store!WasSet(goroutine[g].key, goroutine[g].val,
                                  goroutine[g].exp)'
  BY DEF PersistsWhatWasSet
<1>1. Store!WasSet(goroutine[g].key, goroutine[g].val, goroutine[g].exp)
  BY DEF PersistsWhatWasSet
<1>. QED  BY <1>1 DEF Store!WasSet, Store!Deadline

(* The two calls that store: the new entry has its record in sets.         *)
LEMMA RecordStep ==
    ASSUME NEW k \in Keys, NEW v \in Vals, NEW ttl \in TTLs,
           Record(k, v, ttl), TypeOK, MemoryWasSet
    PROVE  /\ sets \subseteq sets'
           /\ \A e : e = now + ttl => Store!WasSet(k, v, e)'
           /\ MemoryWasSet'
<1>1. sets \subseteq sets'
  BY DEF Record
<1>2. ASSUME NEW e, e = now + ttl  PROVE Store!WasSet(k, v, e)'
  <2>. DEFINE s == [key |-> k, val |-> v, at |-> now, ttl |-> ttl]
  <2>1. s \in sets'
    BY DEF Record
  <2>2. s.key = k /\ s.val = v /\ s.at + s.ttl = e
    BY <1>2
  <2>. QED  BY <2>1, <2>2 DEF Store!WasSet, Store!Deadline
<1>3. MemoryWasSet'
  <2>. SUFFICES ASSUME NEW j \in Keys, memCache'[j] # NoItem
                PROVE  Store!WasSet(j, memCache[j].val, memCache[j].exp)'
    BY DEF MemoryWasSet, NoItem, Store!NoItem
  <2>1. CASE j = k
    <3>1. memCache'[j].val = v /\ memCache'[j].exp = now + ttl
      BY <2>1 DEF Record, TypeOK, Item, Store!Item
    <3>. QED  BY <1>2, <2>1, <3>1 DEF Store!WasSet, Store!Deadline
  <2>2. CASE j # k
    <3>1. memCache'[j] = memCache[j]
      BY <2>2 DEF Record, TypeOK
    <3>2. Store!WasSet(j, memCache[j].val, memCache[j].exp)
      BY <3>1 DEF MemoryWasSet
    <3>. QED  BY <1>1, <3>1, <3>2 DEF Store!WasSet, Store!Deadline
  <2>. QED  BY <2>1, <2>2
<1>. QED  BY <1>1, <1>2, <1>3

(* A step that stores nothing new keeps every WasSet fact; what it leaves  *)
(* in the map must have been there, or be what a cache file holds.         *)
LEMMA MemoryKept ==
    ASSUME MemoryWasSet, FilesWereSet, sets' = sets,
           \A k \in Keys :
              memCache'[k] # NoItem =>
                 \/ memCache'[k] = memCache[k]
                 \/ /\ cacheFile[k] \in WholeFiles
                    /\ memCache'[k].val = cacheFile[k].val
                    /\ memCache'[k].exp = cacheFile[k].exp
    PROVE  MemoryWasSet'
<1>. SUFFICES ASSUME NEW k \in Keys, memCache'[k] # NoItem
              PROVE  Store!WasSet(k, memCache[k].val, memCache[k].exp)'
  BY DEF MemoryWasSet, NoItem, Store!NoItem
<1>1. CASE memCache'[k] = memCache[k]
  BY <1>1 DEF MemoryWasSet, Store!WasSet, Store!Deadline
<1>2. CASE /\ cacheFile[k] \in WholeFiles
           /\ memCache'[k].val = cacheFile[k].val
           /\ memCache'[k].exp = cacheFile[k].exp
  <2>1. Store!WasSet(k, cacheFile[k].val, cacheFile[k].exp)
    BY <1>2 DEF FilesWereSet
  <2>. QED  BY <1>2, <2>1 DEF Store!WasSet, Store!Deadline
<1>. QED  BY <1>1, <1>2

(* A file may move, disappear or break; if it is whole it was whole before *)
(* or holds the bytes of a goroutine that persists its key.                *)
LEMMA FilesKept ==
    ASSUME FilesWereSet, PersistsWhatWasSet, sets \subseteq sets',
           \A k \in Keys : \A file \in {cacheFile'[k], tmpFile'[k]} :
              file \in WholeFiles =>
                 \/ file \in {cacheFile[k], tmpFile[k]}
                 \/ \E g \in PersistingKey(k) : file = Bytes(g)
    PROVE  FilesWereSet'
<1>. SUFFICES ASSUME NEW k \in Keys, NEW file \in {cacheFile'[k], tmpFile'[k]},
                     file \in WholeFiles
              PROVE  Store!WasSet(k, file.val, file.exp)'
  BY DEF FilesWereSet
<1>1. Store!WasSet(k, file.val, file.exp)
  <2>1. CASE file \in {cacheFile[k], tmpFile[k]}
    BY <2>1 DEF FilesWereSet
  <2>2. ASSUME NEW g \in PersistingKey(k), file = Bytes(g)
        PROVE  Store!WasSet(k, file.val, file.exp)
    <3>1. file.val = goroutine[g].val /\ file.exp = goroutine[g].exp
      BY <2>2 DEF Bytes, WholeFile
    <3>. QED  BY <3>1 DEF PersistsWhatWasSet, PersistingKey
  <2>. QED  BY <2>1, <2>2
<1>. QED  BY <1>1, WasSetKept

(* What one step of a disk goroutine leaves in the files.                  *)
LEMMA WriterFiles ==
    ASSUME TypeOK, NEW g \in Goroutines, goroutine[g].pc = "write",
           NEW content, FileAt(g, content),
           content \in {Bytes(g), OpenedFile(g), TornFile}
    PROVE  \A k \in Keys : \A file \in {cacheFile'[k], tmpFile'[k]} :
              file \in WholeFiles =>
                 \/ file \in {cacheFile[k], tmpFile[k]}
                 \/ \E h \in PersistingKey(k) : file = Bytes(h)
<1>. SUFFICES ASSUME NEW k \in Keys, NEW file \in {cacheFile'[k], tmpFile'[k]},
                     file \in WholeFiles, file \notin {cacheFile[k], tmpFile[k]}
              PROVE  \E h \in PersistingKey(k) : file = Bytes(h)
  OBVIOUS
<1>1. k = goroutine[g].key /\ file = content
  BY DEF FileAt, TypeOK
<1>2. file # TornFile /\ file # EmptyFile
  BY DEF WholeFiles, TornFile, EmptyFile
<1>3. file # OpenedFile(g)
  BY <1>1, <1>2 DEF OpenedFile
<1>. QED  BY <1>1, <1>2, <1>3 DEF PersistingKey, Persisting

(* Every action keeps the map, the files and the goroutines to entries     *)
(* that were set: values and deadlines are only copied together.           *)
LEMMA ContentStep ==
    TypeOK /\ StoredWasSet /\ PersistsWhatWasSet /\ [Next]_vars
        => StoredWasSet' /\ PersistsWhatWasSet'
<1>. SUFFICES ASSUME TypeOK, StoredWasSet, PersistsWhatWasSet, [Next]_vars
              PROVE  StoredWasSet' /\ PersistsWhatWasSet'
  OBVIOUS
<1>. USE DEF memVars, fileVars, StoredWasSet
<1>1. ASSUME UNCHANGED <<memCache, sets>>  PROVE MemoryWasSet'
  BY <1>1, MemoryKept
<1>2. ASSUME UNCHANGED fileVars, sets \subseteq sets'  PROVE FilesWereSet'
  BY <1>2, FilesKept
<1>3. ASSUME UNCHANGED goroutine, sets \subseteq sets'  PROVE PersistsWhatWasSet'
  BY <1>3, CallsKept DEF Persisting
<1>4. ASSUME NEW k \in OutputKeys, NEW v \in Vals, NEW ttl \in TTLs,
             Set(k, v, ttl)
      PROVE  StoredWasSet' /\ PersistsWhatWasSet'
  BY <1>2, <1>3, <1>4, RecordStep DEF Set, Keys
<1>5. ASSUME NEW k \in SourceKeys, NEW v \in Vals, NEW ttl \in TTLs,
             SetWithDisk(k, v, ttl)
      PROVE  StoredWasSet' /\ PersistsWhatWasSet'
  <2>1. MemoryWasSet' /\ sets \subseteq sets'
    BY <1>5, RecordStep DEF SetWithDisk, Keys
  <2>2. \A e : e = now + ttl => Store!WasSet(k, v, e)'
    BY <1>5, RecordStep DEF SetWithDisk, Keys
  <2>3. PersistsWhatWasSet'
    <3>. SUFFICES ASSUME NEW g \in Goroutines, Persisting(g)'
                  PROVE  Store!WasSet(goroutine[g].key, goroutine[g].val,
                                      goroutine[g].exp)'
      BY DEF PersistsWhatWasSet
    <3>1. PICK h \in Goroutines :
             goroutine' = [goroutine EXCEPT ![h] =
                              Persister("open", k, v, now + ttl, "nowhere")]
      BY <1>5 DEF SetWithDisk, Start
    <3>2. CASE g = h
      <4>1. /\ goroutine'[g].key = k
            /\ goroutine'[g].val = v
            /\ goroutine'[g].exp = now + ttl
        BY <3>1, <3>2 DEF TypeOK, Persister
      <4>. QED  BY <2>2, <4>1 DEF Store!WasSet, Store!Deadline
    <3>3. CASE g # h
      <4>1. goroutine'[g] = goroutine[g]
        BY <3>1, <3>3 DEF TypeOK
      <4>2. Store!WasSet(goroutine[g].key, goroutine[g].val, goroutine[g].exp)
        BY <4>1 DEF PersistsWhatWasSet, Persisting
      <4>. QED  BY <2>1, <4>1, <4>2 DEF Store!WasSet, Store!Deadline
    <3>. QED  BY <3>2, <3>3
  <2>4. FilesWereSet'
    BY <1>2, <1>5, <2>1 DEF SetWithDisk
  <2>. QED  BY <2>1, <2>3, <2>4
<1>6. ASSUME NEW k \in Keys, NEW op, Answered(op, k)
      PROVE  StoredWasSet' /\ PersistsWhatWasSet'
  BY <1>1, <1>2, <1>3, <1>6 DEF Answered
<1>7. ASSUME NEW k \in Keys, GetExpired(k)
      PROVE  StoredWasSet' /\ PersistsWhatWasSet'
  <2>1. MemoryWasSet'
    BY <1>7, MemoryKept DEF GetExpired, TypeOK
  <2>2. PersistsWhatWasSet'
    <3>1. PICK h \in Goroutines :
             goroutine' = [goroutine EXCEPT ![h] = Remover(k)]
      BY <1>7 DEF GetExpired, Start
    <3>. QED  BY <1>7, <3>1, CallsKept DEF GetExpired, TypeOK, Persisting, Remover
  <2>. QED  BY <1>2, <1>7, <2>1, <2>2 DEF GetExpired
<1>8. ASSUME NEW prefix \in Prefixes, DeleteByPrefix(prefix)
      PROVE  StoredWasSet' /\ PersistsWhatWasSet'
  <2>1. MemoryWasSet'
    BY <1>8, MemoryKept DEF DeleteByPrefix
  <2>. QED  BY <1>2, <1>3, <1>8, <2>1 DEF DeleteByPrefix
<1>9. ASSUME NEW g \in Goroutines, OpenTmp(g)
      PROVE  StoredWasSet' /\ PersistsWhatWasSet'
  <2>1. FilesWereSet'
    BY <1>9, FilesKept DEF OpenTmp, TypeOK, WholeFiles, EmptyFile
  <2>2. PersistsWhatWasSet'
    BY <1>9, CallsKept DEF OpenTmp, TypeOK, Persisting, Calls, Idle
  <2>. QED  BY <1>1, <1>9, <2>1, <2>2 DEF OpenTmp
<1>10. ASSUME NEW g \in Goroutines, Write(g)
       PROVE  StoredWasSet' /\ PersistsWhatWasSet'
  <2>1. PICK content \in Overwritten(OpenedFile(g), Bytes(g)) : FileAt(g, content)
    BY <1>10 DEF Write
  <2>2. FilesWereSet'
    BY <1>10, <2>1, WriterFiles, FilesKept DEF Write, Overwritten
  <2>3. PersistsWhatWasSet'
    BY <1>10, CallsKept DEF Write, TypeOK, Persisting, Calls, Idle
  <2>. QED  BY <1>1, <1>10, <2>2, <2>3 DEF Write
<1>11. ASSUME NEW g \in Goroutines, goroutine' = [goroutine EXCEPT ![g] = Idle],
              sets' = sets
       PROVE  PersistsWhatWasSet'
  BY <1>11, CallsKept DEF TypeOK, Persisting, Idle
<1>12. ASSUME NEW g \in Goroutines, WriteFails(g)
       PROVE  StoredWasSet' /\ PersistsWhatWasSet'
  <2>1. CASE goroutine[g].pc = "open" /\ UNCHANGED fileVars
    BY <1>1, <1>2, <1>11, <1>12, <2>1 DEF WriteFails
  <2>2. CASE /\ goroutine[g].pc = "write"
             /\ \E content \in {TornFile, OpenedFile(g)} : FileAt(g, content)
    <3>1. FilesWereSet'
      BY <1>12, <2>2, WriterFiles, FilesKept DEF WriteFails
    <3>. QED  BY <1>1, <1>11, <1>12, <3>1 DEF WriteFails
  <2>. QED  BY <1>12, <2>1, <2>2 DEF WriteFails
<1>13. ASSUME NEW g \in Goroutines, Rename(g)
       PROVE  StoredWasSet' /\ PersistsWhatWasSet'
  <2>. DEFINE k == goroutine[g].key
              done == [goroutine EXCEPT ![g] = Idle]
              once == Moved(done, k, "cache", "unlinked")
              twice == Moved(once, k, "tmp", "cache")
  <2>1. done \in [Goroutines -> Calls]
    BY DEF TypeOK, Calls
  <2>2. once \in [Goroutines -> Calls]
    BY <2>1, MovedCalls
  <2>3. ASSUME NEW h \in Goroutines, twice[h].pc \in {"open", "write", "rename"}
        PROVE  /\ Persisting(h)
               /\ twice[h].key = goroutine[h].key
               /\ twice[h].val = goroutine[h].val
               /\ twice[h].exp = goroutine[h].exp
    <3>1. SameCall(once[h], twice[h])
      BY <2>2, MovedCalls
    <3>2. SameCall(done[h], once[h])
      BY <2>1, MovedCalls
    <3>3. done[h].pc \in {"open", "write", "rename"} => done[h] = goroutine[h]
      BY DEF TypeOK, Idle
    <3>. QED  BY <2>3, <3>1, <3>2, <3>3 DEF Persisting, SameCall
  <2>4. PersistsWhatWasSet'
    <3>1. goroutine' = done \/ goroutine' = twice
      BY <1>13 DEF Rename
    <3>2. CASE goroutine' = done
      BY <1>11, <1>13, <3>2 DEF Rename
    <3>3. CASE goroutine' = twice
      BY <1>13, <2>3, <3>3, CallsKept DEF Rename, Persisting
    <3>. QED  BY <3>1, <3>2, <3>3
  <2>5. FilesWereSet'
    BY <1>13, FilesKept DEF Rename, TypeOK, WholeFiles, NoFile
  <2>. QED  BY <1>1, <1>13, <2>4, <2>5 DEF Rename
<1>14. ASSUME NEW g \in Goroutines, Remove(g)
       PROVE  StoredWasSet' /\ PersistsWhatWasSet'
  <2>. DEFINE done == [goroutine EXCEPT ![g] = Idle]
  <2>1. done \in [Goroutines -> Calls]
    BY DEF TypeOK, Calls
  <2>2. ASSUME NEW h \in Goroutines, Persisting(h)'
        PROVE  /\ Persisting(h)
               /\ goroutine'[h].key = goroutine[h].key
               /\ goroutine'[h].val = goroutine[h].val
               /\ goroutine'[h].exp = goroutine[h].exp
    <3>1. SameCall(done[h], goroutine'[h])
      BY <1>14, <2>1, MovedCalls DEF Remove
    <3>2. done[h].pc \in {"open", "write", "rename"} => done[h] = goroutine[h]
      BY DEF TypeOK, Idle
    <3>. QED  BY <2>2, <3>1, <3>2 DEF Persisting, SameCall
  <2>3. PersistsWhatWasSet'
    BY <1>14, <2>2, CallsKept DEF Remove
  <2>4. FilesWereSet'
    BY <1>14, FilesKept DEF Remove, TypeOK, WholeFiles, NoFile
  <2>. QED  BY <1>1, <1>14, <2>3, <2>4 DEF Remove
<1>15. CASE Crash
  <2>1. MemoryWasSet'
    BY <1>15, MemoryKept DEF Crash
  <2>2. PersistsWhatWasSet'
    BY <1>15 DEF Crash, PersistsWhatWasSet, Persisting, Idle
  <2>. QED  BY <1>2, <1>15, <2>1, <2>2 DEF Crash
<1>16. CASE InitDiskCache
  <2>1. MemoryWasSet'
    BY <1>16, MemoryKept DEF InitDiskCache, Loadable, Item, Store!Item
  <2>2. FilesWereSet'
    BY <1>16, FilesKept DEF InitDiskCache, WholeFiles, NoFile
  <2>. QED  BY <1>3, <1>16, <2>1, <2>2 DEF InitDiskCache
<1>17. CASE Tick
  BY <1>1, <1>2, <1>3, <1>17 DEF Tick
<1>18. CASE UNCHANGED vars
  BY <1>1, <1>2, <1>3, <1>18 DEF vars
<1>. QED
  BY <1>4, <1>5, <1>6, <1>7, <1>8, <1>9, <1>10, <1>12, <1>13, <1>14, <1>15,
     <1>16, <1>17, <1>18 DEF Next, GetHit, GetStale, GoroutineStep

-----------------------------------------------------------------------------
(* One owner at a time: persisting is atomic.                              *)

(* The three facts about one key k only depend on what is at k: they hold  *)
(* on when the files of k, and every goroutine that persists k, stay.      *)
AtomicAt(k) ==
    /\ \A g, h \in PersistingKey(k) : g = h
    /\ \A g \in PersistingKey(k) :
          /\ goroutine[g].pc = "write" =>
                goroutine[g].at = "tmp" /\ tmpFile[k] = EmptyFile
          /\ goroutine[g].pc = "rename" =>
                goroutine[g].at = "tmp" /\ tmpFile[k] = Bytes(g)
    /\ cacheFile[k] \notin {EmptyFile, TornFile}

(* A step that leaves alone the files and the persistToDisk calls of a key *)
(* keeps the atomic replacement of its cache file.                         *)
LEMMA AtomicKept ==
    ASSUME NEW k \in Keys, AtomicAt(k),
           \A g \in Goroutines :
              Persisting(g)' /\ goroutine'[g].key = k =>
                 Persisting(g) /\ goroutine'[g] = goroutine[g],
           PersistingKey(k)' # {} => tmpFile'[k] = tmpFile[k],
           cacheFile'[k] \in {cacheFile[k], NoFile}
    PROVE  AtomicAt(k)'
<1>1. \A g \in PersistingKey(k)' :
         g \in PersistingKey(k) /\ goroutine'[g] = goroutine[g]
  BY DEF PersistingKey
<1>2. ASSUME NEW g \in PersistingKey(k)'
      PROVE  Bytes(g)' = Bytes(g) /\ tmpFile'[k] = tmpFile[k]
  BY <1>1, <1>2 DEF Bytes
<1>3. cacheFile'[k] \notin {EmptyFile, TornFile}
  BY DEF AtomicAt, NoFile, EmptyFile, TornFile
<1>. QED  BY <1>1, <1>2, <1>3 DEF AtomicAt

(* Every action of cache.go keeps the atomic replacement of cache files.   *)
LEMMA AtomicStep == TypeOK /\ Atomic /\ [Next]_vars => Atomic'
<1>. SUFFICES ASSUME TypeOK, [Next]_vars,
                     \A k \in Keys \ overlapped : AtomicAt(k),
                     NEW k \in Keys \ overlapped'
              PROVE  AtomicAt(k)'
  BY DEF Atomic, OneOwner, OwnsTmp, AtomicReplace, AtomicAt
<1>. USE DEF memVars, fileVars
<1>1. overlapped \subseteq overlapped'
  BY DEF Next, vars, Set, SetWithDisk, GetHit, GetExpired, GetStale, Answered,
         DeleteByPrefix, GoroutineStep, OpenTmp, Write, Rename, Remove,
         WriteFails, Crash, InitDiskCache, Tick, NoteOverlap
<1>2. AtomicAt(k)
  BY <1>1
<1>3. CASE UNCHANGED <<fileVars, goroutine>>
  BY <1>2, <1>3, AtomicKept DEF Persisting, PersistingKey
<1>4. ASSUME NEW j \in SourceKeys, NEW v \in Vals, NEW ttl \in TTLs,
             SetWithDisk(j, v, ttl)
      PROVE  AtomicAt(k)'
  <2>1. PICK h \in Goroutines :
           /\ goroutine[h] = Idle
           /\ goroutine' = [goroutine EXCEPT ![h] =
                               Persister("open", j, v, now + ttl, "nowhere")]
    BY <1>4 DEF SetWithDisk, Start
  <2>2. /\ goroutine'[h].pc = "open"
        /\ goroutine'[h].key = j
        /\ \A g \in Goroutines \ {h} : goroutine'[g] = goroutine[g]
    BY <2>1 DEF TypeOK, Persister
  <2>3. CASE j = k
    <3>1. PersistingKey(k) = {}
      BY <1>4, <2>3 DEF SetWithDisk, NoteOverlap
    <3>2. \A g \in PersistingKey(k)' : g = h
      BY <2>2, <3>1 DEF PersistingKey, Persisting
    <3>3. cacheFile'[k] \notin {EmptyFile, TornFile}
      BY <1>2, <1>4 DEF SetWithDisk, AtomicAt
    <3>. QED  BY <2>2, <3>2, <3>3 DEF AtomicAt
  <2>4. CASE j # k
    BY <1>2, <1>4, <2>2, <2>4, AtomicKept DEF SetWithDisk, Persisting
  <2>. QED  BY <2>3, <2>4
<1>5. ASSUME NEW j \in Keys, GetExpired(j)
      PROVE  AtomicAt(k)'
  <2>1. PICK h \in Goroutines :
           goroutine' = [goroutine EXCEPT ![h] = Remover(j)]
    BY <1>5 DEF GetExpired, Start
  <2>. QED
    BY <1>2, <1>5, <2>1, AtomicKept DEF GetExpired, TypeOK, Persisting, Remover
<1>6. ASSUME NEW g \in Goroutines, OpenTmp(g)
      PROVE  AtomicAt(k)'
  <2>1. goroutine[g] \in [pc : {"open"}, key : Keys, val : Vals, exp : Nat,
                          at : {"nowhere"}]
    BY <1>6 DEF TypeOK, OpenTmp, Calls, Idle
  <2>2. /\ goroutine'[g] = [goroutine[g] EXCEPT !.pc = "write", !.at = "tmp"]
        /\ \A h \in Goroutines \ {g} : goroutine'[h] = goroutine[h]
    BY <1>6, <2>1 DEF OpenTmp, TypeOK
  <2>3. CASE goroutine[g].key = k
    <3>1. \A h \in PersistingKey(k)' : h = g
      BY <1>2, <1>6, <2>1, <2>2, <2>3 DEF AtomicAt, PersistingKey, Persisting
    <3>2. tmpFile'[k] = EmptyFile /\ cacheFile' = cacheFile
      BY <1>6, <2>3 DEF OpenTmp, TypeOK
    <3>3. goroutine'[g].pc = "write" /\ goroutine'[g].at = "tmp"
      BY <2>1, <2>2
    <3>. QED  BY <1>2, <3>1, <3>2, <3>3 DEF AtomicAt
  <2>4. CASE goroutine[g].key # k
    <3>1. tmpFile'[k] = tmpFile[k] /\ cacheFile' = cacheFile
      BY <1>6, <2>4 DEF OpenTmp, TypeOK
    <3>. QED  BY <1>2, <2>1, <2>2, <2>4, <3>1, AtomicKept DEF Persisting
  <2>. QED  BY <2>3, <2>4
<1>7. ASSUME NEW g \in Goroutines, Write(g)
      PROVE  AtomicAt(k)'
  <2>1. goroutine[g] \in [pc : {"write", "rename"}, key : Keys, val : Vals,
                          exp : Nat, at : {"tmp", "cache", "unlinked"}]
    BY <1>7 DEF TypeOK, Write, Calls, Idle
  <2>2. /\ goroutine'[g] = [goroutine[g] EXCEPT !.pc = "rename"]
        /\ \A h \in Goroutines \ {g} : goroutine'[h] = goroutine[h]
    BY <1>7, <2>1 DEF Write, TypeOK
  <2>3. PICK content \in Overwritten(OpenedFile(g), Bytes(g)) : FileAt(g, content)
    BY <1>7 DEF Write
  <2>4. CASE goroutine[g].key = k
    <3>1. g \in PersistingKey(k) /\ \A h \in PersistingKey(k)' : h = g
      BY <1>2, <1>7, <2>1, <2>2, <2>4 DEF Write, AtomicAt, PersistingKey, Persisting
    <3>2. goroutine[g].at = "tmp" /\ tmpFile[k] = EmptyFile
      BY <1>2, <1>7, <3>1 DEF Write, AtomicAt
    <3>3. content = Bytes(g)
      BY <2>3, <2>4, <3>2 DEF Overwritten, OpenedFile
    <3>4. tmpFile'[k] = Bytes(g) /\ cacheFile' = cacheFile
      BY <2>3, <2>4, <3>2, <3>3 DEF FileAt, TypeOK
    <3>5. Bytes(g)' = Bytes(g) /\ goroutine'[g].at = "tmp"
          /\ goroutine'[g].pc = "rename"
      BY <2>1, <2>2, <3>2 DEF Bytes
    <3>. QED  BY <1>2, <3>1, <3>4, <3>5 DEF AtomicAt
  <2>5. CASE goroutine[g].key # k
    <3>1. tmpFile'[k] = tmpFile[k] /\ cacheFile'[k] = cacheFile[k]
      BY <2>3, <2>5 DEF FileAt, TypeOK
    <3>. QED  BY <1>2, <2>1, <2>2, <2>5, <3>1, AtomicKept DEF Persisting
  <2>. QED  BY <2>4, <2>5
<1>8. ASSUME NEW g \in Goroutines, WriteFails(g)
      PROVE  AtomicAt(k)'
  <2>1. goroutine' = [goroutine EXCEPT ![g] = Idle]
    BY <1>8 DEF WriteFails
  <2>2. \A h \in Goroutines :
           Persisting(h)' => h # g /\ goroutine'[h] = goroutine[h] /\ Persisting(h)
    BY <2>1 DEF TypeOK, Persisting, Idle
  <2>3. CASE goroutine[g].pc = "open" /\ UNCHANGED fileVars
    BY <1>2, <2>2, <2>3, AtomicKept
  <2>4. ASSUME goroutine[g].pc = "write",
               NEW content \in {TornFile, OpenedFile(g)}, FileAt(g, content)
        PROVE  AtomicAt(k)'
    <3>1. CASE goroutine[g].key = k
      <4>1. g \in PersistingKey(k)
        BY <2>4, <3>1 DEF PersistingKey, Persisting
      <4>2. PersistingKey(k)' = {}
        BY <1>2, <2>2, <4>1 DEF PersistingKey, AtomicAt
      <4>3. cacheFile' = cacheFile
        BY <1>2, <2>4, <4>1 DEF AtomicAt, FileAt
      <4>. QED  BY <1>2, <2>2, <4>2, <4>3, AtomicKept
    <3>2. CASE goroutine[g].key # k
      <4>1. tmpFile'[k] = tmpFile[k] /\ cacheFile'[k] = cacheFile[k]
        BY <2>4, <3>2 DEF FileAt, TypeOK
      <4>. QED  BY <1>2, <2>2, <4>1, AtomicKept
    <3>. QED  BY <3>1, <3>2
  <2>. QED  BY <1>8, <2>3, <2>4 DEF WriteFails
<1>10. ASSUME NEW g \in Goroutines
       PROVE  [goroutine EXCEPT ![g] = Idle] \in [Goroutines -> Calls]
  BY DEF TypeOK, Calls
<1>11. ASSUME NEW g \in Goroutines, Rename(g)
       PROVE  AtomicAt(k)'
  <2>. DEFINE j == goroutine[g].key
              done == [goroutine EXCEPT ![g] = Idle]
              once == Moved(done, j, "cache", "unlinked")
              twice == Moved(once, j, "tmp", "cache")
  <2>1. done \in [Goroutines -> Calls] /\ once \in [Goroutines -> Calls]
    BY <1>10, MovedCalls
  <2>2. \A h \in Goroutines :
           /\ SameCall(done[h], once[h]) /\ SameCall(once[h], twice[h])
           /\ once[h] = done[h] \/ done[h].key = j
           /\ twice[h] = once[h] \/ once[h].key = j
    <3>1. \A h \in Goroutines :
             SameCall(done[h], once[h]) /\ (once[h] = done[h] \/ done[h].key = j)
      BY <2>1, MovedCalls
    <3>2. \A h \in Goroutines :
             SameCall(once[h], twice[h]) /\ (twice[h] = once[h] \/ once[h].key = j)
      <4>. HIDE DEF once
      <4>. QED  BY <2>1, MovedCalls
    <3>. QED  BY <3>1, <3>2
  <2>3. \A h \in Goroutines : Persisting(h)' =>
           /\ h # g
           /\ Persisting(h)
           /\ goroutine'[h].key = goroutine[h].key
           /\ goroutine'[h] = goroutine[h] \/ goroutine[h].key = j
    <3>. SUFFICES ASSUME NEW h \in Goroutines, Persisting(h)'
                  PROVE  /\ h # g
                         /\ Persisting(h)
                         /\ goroutine'[h].key = goroutine[h].key
                         /\ goroutine'[h] = goroutine[h] \/ goroutine[h].key = j
      OBVIOUS
    <3>. HIDE DEF once, twice
    <3>1. goroutine' = done \/ goroutine' = twice
      BY <1>11 DEF Rename, once, twice
    <3>2. SameCall(done[h], goroutine'[h])
      BY <2>2, <3>1 DEF SameCall
    <3>3. done[h].pc \in {"open", "write", "rename"}
      BY <3>2 DEF SameCall, Persisting
    <3>4. h # g /\ done[h] = goroutine[h]
      BY <3>3 DEF TypeOK, Idle
    <3>5. goroutine'[h] = done[h] \/ done[h].key = j
      BY <2>2, <3>1, <3>2, <3>3 DEF SameCall
    <3>. QED  BY <3>2, <3>3, <3>4, <3>5 DEF SameCall, Persisting
  <2>4. CASE j = k
    <3>1. g \in PersistingKey(k)
      BY <1>11, <2>4 DEF Rename, PersistingKey, Persisting
    <3>2. PersistingKey(k)' = {}
      BY <1>2, <2>3, <2>4, <3>1 DEF AtomicAt, PersistingKey
    <3>3. tmpFile[k] = Bytes(g)
      BY <1>2, <1>11, <3>1 DEF Rename, AtomicAt
    <3>4. cacheFile'[k] \notin {EmptyFile, TornFile}
      BY <1>11, <2>4, <3>3
         DEF Rename, TypeOK, Bytes, WholeFile, EmptyFile, TornFile, NoFile
    <3>. QED  BY <3>2, <3>4 DEF AtomicAt
  <2>5. CASE j # k
    <3>1. tmpFile'[k] = tmpFile[k] /\ cacheFile'[k] = cacheFile[k]
      BY <1>11, <2>5 DEF Rename, TypeOK
    <3>. QED  BY <1>2, <2>3, <2>5, <3>1, AtomicKept
  <2>. QED  BY <2>4, <2>5
<1>12. ASSUME NEW g \in Goroutines, Remove(g)
       PROVE  AtomicAt(k)'
  <2>. DEFINE j == goroutine[g].key
              done == [goroutine EXCEPT ![g] = Idle]
  <2>1. \A h \in Goroutines :
           /\ SameCall(done[h], goroutine'[h])
           /\ \/ goroutine'[h] = done[h]
              \/ done[h].key = j /\ done[h].at = "cache"
    BY <1>10, <1>12, MovedCalls DEF Remove
  <2>2. \A h \in Goroutines : Persisting(h)' =>
           /\ Persisting(h)
           /\ goroutine'[h].key = goroutine[h].key
           /\ \/ goroutine'[h] = goroutine[h]
              \/ goroutine[h].at = "cache"
    BY <2>1 DEF TypeOK, Persisting, SameCall, Idle
  <2>3. \A h \in Goroutines : Persisting(h)' /\ goroutine'[h].key = k =>
           Persisting(h) /\ goroutine'[h] = goroutine[h]
    <3>1. \A h \in PersistingKey(k) : goroutine[h].at # "cache"
      BY <1>2 DEF AtomicAt, PersistingKey, Persisting, TypeOK, Calls, Idle
    <3>. QED  BY <2>2, <3>1 DEF PersistingKey
  <2>4. tmpFile' = tmpFile /\ cacheFile'[k] \in {cacheFile[k], NoFile}
    BY <1>12 DEF Remove, TypeOK
  <2>. QED  BY <1>2, <2>3, <2>4, AtomicKept
<1>13. CASE Crash
  BY <1>2, <1>13, AtomicKept DEF Crash, Persisting, PersistingKey, Idle
<1>14. CASE InitDiskCache
  BY <1>2, <1>14, AtomicKept DEF InitDiskCache, Persisting, PersistingKey
<1>. QED
  BY <1>3, <1>4, <1>5, <1>6, <1>7, <1>8, <1>11, <1>12, <1>13, <1>14
     DEF Next, vars, Set, GetHit, GetStale, Answered, DeleteByPrefix,
         GoroutineStep, Tick

-----------------------------------------------------------------------------
(* The file follows the map.                                               *)

(* A rename or a removal ends its own goroutine and changes no other call. *)
LEMMA RenameCalls ==
    ASSUME TypeOK, NEW g \in Goroutines, Rename(g)
    PROVE  /\ goroutine'[g] = Idle
           /\ \A h \in Goroutines \ {g} : SameCall(goroutine[h], goroutine'[h])
<1>. DEFINE j == goroutine[g].key
            done == [goroutine EXCEPT ![g] = Idle]
            once == Moved(done, j, "cache", "unlinked")
            twice == Moved(once, j, "tmp", "cache")
<1>1. done \in [Goroutines -> Calls]
  BY DEF TypeOK, Calls
<1>2. /\ once \in [Goroutines -> Calls]
      /\ \A h \in Goroutines : SameCall(done[h], once[h])
  BY <1>1, MovedCalls
<1>3. \A h \in Goroutines : SameCall(once[h], twice[h])
  <2>. HIDE DEF once
  <2>. QED  BY <1>2, MovedCalls
<1>4. once[g] = Idle /\ twice[g] = Idle
  BY DEF Moved, TypeOK, Idle
<1>5. goroutine' = done \/ goroutine' = twice
  BY DEF Rename
<1>. HIDE DEF once, twice
<1>6. \A h \in Goroutines \ {g} :
         SameCall(goroutine[h], once[h]) /\ SameCall(once[h], twice[h])
  BY <1>2, <1>3 DEF TypeOK
<1>. QED  BY <1>4, <1>5, <1>6 DEF SameCall, TypeOK

(* The same of removeFromDisk.                                             *)
LEMMA RemoveCalls ==
    ASSUME TypeOK, NEW g \in Goroutines, Remove(g)
    PROVE  /\ goroutine'[g] = Idle
           /\ \A h \in Goroutines \ {g} : SameCall(goroutine[h], goroutine'[h])
<1>. DEFINE done == [goroutine EXCEPT ![g] = Idle]
            moved == Moved(done, goroutine[g].key, "cache", "unlinked")
<1>1. done \in [Goroutines -> Calls]
  BY DEF TypeOK, Calls
<1>2. \A h \in Goroutines : SameCall(done[h], moved[h])
  BY <1>1, MovedCalls
<1>3. moved[g] = Idle
  BY DEF Moved, TypeOK, Idle
<1>. QED  BY <1>2, <1>3 DEF Remove, TypeOK

(* A step that keeps the map, the goroutines and the file of a key, but    *)
(* for where open files are, keeps DiskAt.                                 *)
LEMMA DiskKept ==
    ASSUME NEW k, DiskAt(k), memCache'[k] = memCache[k],
           cacheFile'[k] = cacheFile[k] \/ BusyOn(k)' # {},
           failures' = 0 => failures = 0,
           BusyOn(k)' = BusyOn(k),
           \A g \in BusyOn(k) :
              /\ Persisting(g) => Persisting(g)'
              /\ goroutine'[g].val = goroutine[g].val
              /\ goroutine'[g].exp = goroutine[g].exp
    PROVE  DiskAt(k)'
BY DEF DiskAt, OnDisk, NoItem, Store!NoItem

(* Every action keeps the file of a key that is not contended to what the  *)
(* map holds.                                                              *)
LEMMA DiskStep == TypeOK /\ Atomic /\ DiskInv /\ [Next]_vars => DiskInv'
<1>. SUFFICES ASSUME TypeOK, Atomic, DiskInv, [Next]_vars
              PROVE  DiskInv'
  OBVIOUS
<1>. USE DEF memVars, fileVars
<1>0. TypeOK'
  BY TypeStep
<1>1. contended \subseteq contended'
  BY DEF Next, vars, Set, SetWithDisk, GetHit, GetExpired, GetStale, Answered,
         DeleteByPrefix, GoroutineStep, OpenTmp, Write, Rename, Remove,
         WriteFails, Crash, InitDiskCache, Tick, NoteContention
<1>2. overlapped' \subseteq contended'
  <2>1. ASSUME NEW j \in Keys, PersistingKey(j) # {}
        PROVE  Busy(j)
    BY <2>1 DEF PersistingKey, Persisting, Busy, Idle
  <2>2. ASSUME NEW j \in SourceKeys, NEW v \in Vals, NEW ttl \in TTLs,
               SetWithDisk(j, v, ttl)
        PROVE  overlapped' \subseteq contended'
    BY <2>1, <2>2 DEF SetWithDisk, NoteOverlap, NoteContention, DiskInv, Keys
  <2>3. CASE overlapped' = overlapped
    BY <1>1, <2>3 DEF DiskInv
  <2>. QED
    BY <2>2, <2>3
       DEF Next, vars, Set, GetHit, GetExpired, GetStale, Answered,
           DeleteByPrefix, GoroutineStep, OpenTmp, Write, Rename, Remove,
           WriteFails, Crash, InitDiskCache, Tick
<1>3. ASSUME NEW g \in Goroutines, GoroutineStep(g) \/ WriteFails(g)
      PROVE  /\ goroutine[g] # Idle
             /\ up /\ up'
  <2>1. goroutine[g] # Idle
    BY <1>3 DEF GoroutineStep, OpenTmp, Write, Rename, Remove, WriteFails, Idle
  <2>2. up
    BY <2>1 DEF DiskInv
  <2>. QED
    BY <1>3, <2>1, <2>2
       DEF GoroutineStep, OpenTmp, Write, Rename, Remove, WriteFails
<1>4. ~ up' => \A g \in Goroutines : goroutine'[g] = Idle
  BY <1>3
     DEF Next, vars, Set, SetWithDisk, GetHit, GetExpired, GetStale, Answered,
         DeleteByPrefix, Crash, InitDiskCache, Tick, DiskInv
<1>5. ASSUME NEW k \in SourceKeys \ contended'
      PROVE  DiskAt(k)'
  <2>1. DiskAt(k) /\ k \in Keys
    BY <1>1 DEF DiskInv, Keys
  <2>2. CASE UNCHANGED <<goroutine, cacheFile, failures>> /\ memCache'[k] = memCache[k]
    BY <2>1, <2>2, DiskKept DEF BusyOn, Persisting
  <2>3. ASSUME NEW j \in Keys, ~ (j = k /\ Busy(k)), NEW call, Start(call),
               call # Idle, call.key = j
        PROVE  \E h \in Goroutines :
                  /\ goroutine[h] = Idle
                  /\ goroutine' = [goroutine EXCEPT ![h] = call]
                  /\ BusyOn(k)' = IF j = k THEN {h} ELSE BusyOn(k)
                  /\ goroutine'[h] = call
                  /\ \A g \in BusyOn(k) : goroutine'[g] = goroutine[g]
    <3>1. PICK h \in Goroutines : /\ goroutine[h] = Idle
                                  /\ goroutine' = [goroutine EXCEPT ![h] = call]
      BY <2>3 DEF Start
    <3>2. goroutine'[h] = call
          /\ \A g \in Goroutines \ {h} : goroutine'[g] = goroutine[g]
      BY <3>1 DEF TypeOK
    <3>3. CASE j = k
      BY <2>3, <3>1, <3>2, <3>3 DEF BusyOn, Busy
    <3>4. CASE j # k
      BY <2>3, <3>1, <3>2, <3>4 DEF BusyOn
    <3>. QED  BY <3>1, <3>2, <3>3, <3>4 DEF BusyOn
  <2>4. ASSUME NEW j \in SourceKeys, NEW v \in Vals, NEW ttl \in TTLs,
               SetWithDisk(j, v, ttl)
        PROVE  DiskAt(k)'
    <3>. DEFINE call == Persister("open", j, v, now + ttl, "nowhere")
    <3>1. ~ (j = k /\ Busy(k))
      BY <2>4 DEF SetWithDisk, NoteContention
    <3>2. call.pc = "open" /\ call.key = j /\ call.val = v /\ call.exp = now + ttl
          /\ call # Idle
      BY DEF Persister, Idle
    <3>3. PICK h \in Goroutines :
             /\ goroutine' = [goroutine EXCEPT ![h] = call]
             /\ BusyOn(k)' = IF j = k THEN {h} ELSE BusyOn(k)
             /\ goroutine'[h] = call
             /\ \A g \in BusyOn(k) : goroutine'[g] = goroutine[g]
      <4>. HIDE DEF call
      <4>. QED  BY <2>3, <2>4, <3>1, <3>2 DEF SetWithDisk, Keys, call
    <3>4. CASE j = k
      <4>1. memCache'[k].val = v /\ memCache'[k].exp = now + ttl
        BY <2>1, <2>4, <3>4 DEF SetWithDisk, Record, TypeOK, Item, Store!Item
      <4>. QED  BY <3>2, <3>3, <3>4, <4>1 DEF DiskAt, Persisting
    <3>5. CASE j # k
      <4>1. memCache'[k] = memCache[k] /\ UNCHANGED <<cacheFile, failures>>
        BY <2>1, <2>4, <3>5 DEF SetWithDisk, Record, TypeOK
      <4>. QED  BY <2>1, <3>3, <3>5, <4>1, DiskKept DEF Persisting
    <3>. QED  BY <3>4, <3>5
  <2>5. ASSUME NEW j \in Keys, GetExpired(j)
        PROVE  DiskAt(k)'
    <3>1. ~ (j = k /\ Busy(k))
      BY <2>5 DEF GetExpired, NoteContention
    <3>2. Remover(j).key = j /\ Remover(j) # Idle
      BY DEF Remover, Idle
    <3>3. PICK h \in Goroutines :
             /\ BusyOn(k)' = IF j = k THEN {h} ELSE BusyOn(k)
             /\ \A g \in BusyOn(k) : goroutine'[g] = goroutine[g]
      BY <2>3, <2>5, <3>1, <3>2 DEF GetExpired
    <3>4. CASE j = k
      <4>1. memCache'[k] = NoItem
        BY <2>1, <2>5, <3>4 DEF GetExpired, TypeOK
      <4>. QED  BY <3>3, <3>4, <4>1 DEF DiskAt, NoItem, Store!NoItem
    <3>5. CASE j # k
      <4>1. memCache'[k] = memCache[k] /\ UNCHANGED <<cacheFile, failures>>
        BY <2>1, <2>5, <3>5 DEF GetExpired, TypeOK
      <4>. QED  BY <2>1, <3>3, <3>5, <4>1, DiskKept DEF Persisting
    <3>. QED  BY <3>4, <3>5
  <2>6. ASSUME NEW g \in Goroutines, OpenTmp(g) \/ Write(g)
        PROVE  DiskAt(k)'
    <3>1. goroutine[g] \in [pc : {"open"}, key : Keys, val : Vals, exp : Nat,
                            at : {"nowhere"}]
          \/ goroutine[g] \in [pc : {"write"}, key : Keys, val : Vals, exp : Nat,
                               at : {"tmp", "cache", "unlinked"}]
      BY <2>6 DEF TypeOK, OpenTmp, Write, Calls, Idle
    <3>2. /\ goroutine'[g].pc \in {"write", "rename"}
          /\ goroutine'[g].key = goroutine[g].key
          /\ goroutine'[g].val = goroutine[g].val
          /\ goroutine'[g].exp = goroutine[g].exp
          /\ \A h \in Goroutines \ {g} : goroutine'[h] = goroutine[h]
      BY <2>6, <3>1 DEF OpenTmp, Write, TypeOK
    <3>3. goroutine[g] # Idle /\ goroutine'[g] # Idle
      BY <3>1, <3>2 DEF Idle
    <3>4. BusyOn(k)' = BusyOn(k)
      BY <3>2, <3>3 DEF BusyOn
    <3>5. cacheFile'[k] = cacheFile[k] \/ BusyOn(k)' # {}
      <4>1. CASE goroutine[g].key = k
        BY <3>3, <3>4, <4>1 DEF BusyOn
      <4>2. CASE goroutine[g].key # k
        BY <2>1, <2>6, <4>2 DEF OpenTmp, Write, FileAt, TypeOK
      <4>. QED  BY <4>1, <4>2
    <3>6. memCache'[k] = memCache[k] /\ failures' = failures
      BY <2>6 DEF OpenTmp, Write
    <3>7. \A h \in BusyOn(k) :
             /\ Persisting(h) => Persisting(h)'
             /\ goroutine'[h].val = goroutine[h].val
             /\ goroutine'[h].exp = goroutine[h].exp
      BY <3>2 DEF BusyOn, Persisting
    <3>. QED  BY <2>1, <3>4, <3>5, <3>6, <3>7, DiskKept
  <2>7. ASSUME NEW g \in Goroutines, WriteFails(g)
        PROVE  DiskAt(k)'
    <3>1. failures' # 0 /\ memCache' = memCache
      BY <2>7 DEF WriteFails, TypeOK
    <3>2. \A h \in BusyOn(k)' : h \in BusyOn(k) /\ goroutine'[h] = goroutine[h]
      BY <2>7 DEF WriteFails, BusyOn, TypeOK
    <3>. QED  BY <2>1, <3>1, <3>2 DEF DiskAt, Persisting
  <2>8. ASSUME NEW g \in Goroutines, Rename(g) \/ Remove(g)
        PROVE  DiskAt(k)'
    <3>. DEFINE j == goroutine[g].key
    <3>1. /\ goroutine'[g] = Idle
          /\ \A h \in Goroutines \ {g} : SameCall(goroutine[h], goroutine'[h])
      BY <2>8, RenameCalls, RemoveCalls
    <3>2. UNCHANGED <<memCache, failures>>
      BY <2>8 DEF Rename, Remove
    <3>3. \A h \in Goroutines \ {g} :
             /\ goroutine'[h] # Idle <=> goroutine[h] # Idle
             /\ h \in BusyOn(k)' <=> h \in BusyOn(k)
             /\ Persisting(h)' <=> Persisting(h)
      BY <1>0, <3>1
         DEF SameCall, BusyOn, Persisting, TypeOK, Calls, Idle
    <3>4. CASE j = k
      <4>1. BusyOn(k) = {g} /\ BusyOn(k)' = {}
        <5>1. g \in BusyOn(k)
          BY <1>3, <2>8, <3>4 DEF BusyOn, GoroutineStep
        <5>2. BusyOn(k) = {g}
          BY <2>1, <5>1 DEF DiskAt
        <5>3. g \notin BusyOn(k)'
          BY <3>1 DEF BusyOn
        <5>. QED  BY <3>3, <5>2, <5>3 DEF BusyOn
      <4>2. CASE Rename(g)
        <5>1. k \in Keys \ overlapped /\ g \in PersistingKey(k)
          BY <1>1, <2>1, <3>4, <4>2
             DEF DiskInv, Rename, PersistingKey, Persisting
        <5>2. tmpFile[k] = Bytes(g)
          BY <4>2, <5>1 DEF Atomic, OwnsTmp, Rename
        <5>3. cacheFile'[k] = Bytes(g)
          BY <2>1, <3>4, <4>2, <5>2
             DEF Rename, TypeOK, Bytes, WholeFile, NoFile
        <5>4. cacheFile'[k] \in WholeFiles
          BY <4>2, <5>3
             DEF Rename, Bytes, WholeFile, WholeFiles, TypeOK, Calls, Idle
        <5>5. cacheFile'[k].val = goroutine[g].val
              /\ cacheFile'[k].exp = goroutine[g].exp
          BY <5>3 DEF Bytes, WholeFile
        <5>. QED
          BY <2>1, <3>2, <4>1, <5>4, <5>5
             DEF DiskAt, OnDisk, NoItem, Store!NoItem
      <4>3. CASE Remove(g)
        <5>1. memCache[k] = NoItem
          BY <2>1, <4>1, <4>3 DEF DiskAt, Remove, Persisting
        <5>. QED  BY <3>2, <4>1, <5>1 DEF DiskAt, NoItem, Store!NoItem
      <4>. QED  BY <2>8, <4>2, <4>3
    <3>5. CASE j # k
      <4>1. g \notin BusyOn(k) /\ g \notin BusyOn(k)'
        BY <3>1, <3>5 DEF BusyOn
      <4>2. BusyOn(k)' = BusyOn(k)
        BY <3>3, <4>1 DEF BusyOn
      <4>3. cacheFile'[k] = cacheFile[k]
        BY <2>1, <2>8, <3>5 DEF Rename, Remove, TypeOK
      <4>4. \A h \in BusyOn(k) : Persisting(h) => SameCall(goroutine[h], goroutine'[h])
        BY <3>1, <4>1 DEF BusyOn
      <4>5. \A h \in BusyOn(k) : Persisting(h) <=> Persisting(h)'
        BY <3>3, <4>1 DEF BusyOn
      <4>. QED
        BY <2>1, <3>2, <4>2, <4>3, <4>4, <4>5
           DEF DiskAt, OnDisk, SameCall, Persisting, NoItem, Store!NoItem
    <3>. QED  BY <3>4, <3>5
  <2>9. CASE Crash
    <3>1. memCache'[k] = NoItem /\ BusyOn(k)' = {}
      BY <2>1, <2>9 DEF Crash, BusyOn
    <3>. QED  BY <3>1 DEF DiskAt, NoItem, Store!NoItem
  <2>10. CASE InitDiskCache
    <3>1. BusyOn(k)' = {}
      BY <2>10 DEF InitDiskCache, DiskInv, BusyOn
    <3>2. memCache'[k] # NoItem => OnDisk(k)'
      BY <2>1, <2>10 DEF InitDiskCache, OnDisk, Loadable, Item, Store!Item
    <3>. QED  BY <3>1, <3>2 DEF DiskAt, NoItem, Store!NoItem
  <2>11. ASSUME NEW j \in OutputKeys, NEW v \in Vals, NEW ttl \in TTLs,
                Set(j, v, ttl)
         PROVE  DiskAt(k)'
    <3>1. j # k
      BY CacheAssumption
    <3>. QED  BY <2>1, <2>2, <2>11, <3>1 DEF Set, Record, TypeOK
  <2>12. ASSUME NEW prefix \in Prefixes, DeleteByPrefix(prefix)
         PROVE  DiskAt(k)'
    <3>1. k \notin prefix
      BY CacheAssumption
    <3>. QED  BY <2>1, <2>2, <2>12, <3>1 DEF DeleteByPrefix
  <2>. QED
    BY <2>2, <2>4, <2>5, <2>6, <2>7, <2>8, <2>9, <2>10, <2>11, <2>12
       DEF Next, vars, GetHit, GetStale, Answered, GoroutineStep, Tick
<1>. QED  BY <1>2, <1>4, <1>5 DEF DiskInv

-----------------------------------------------------------------------------
(* Nothing expired is handed out.                                          *)

(* Every action keeps answers within their time to live; only GetHit makes *)
(* one for Get.                                                            *)
LEMMA ServeStep ==
    TypeOK /\ StoredWasSet /\ NoSetInFuture /\ ServedWithinTTL /\ [Next]_vars
        => NoSetInFuture' /\ ServedWithinTTL'
<1>. SUFFICES ASSUME TypeOK, StoredWasSet, NoSetInFuture, ServedWithinTTL,
                     [Next]_vars
              PROVE  NoSetInFuture' /\ ServedWithinTTL'
  OBVIOUS
<1>. USE DEF memVars, fileVars
<1>1. ASSUME reply' = Store!Nothing  PROVE ServedWithinTTL'
  BY <1>1 DEF ServedWithinTTL, Store!ServedWithinTTL, Store!Nothing
<1>2. ASSUME UNCHANGED <<now, sets>>  PROVE NoSetInFuture'
  BY <1>2 DEF NoSetInFuture
<1>3. ASSUME NEW k \in Keys, NEW v \in Vals, NEW ttl \in TTLs,
             Record(k, v, ttl), now' = now, reply' = Store!Nothing
      PROVE  NoSetInFuture' /\ ServedWithinTTL'
  BY <1>1, <1>3 DEF Record, NoSetInFuture, TypeOK
<1>4. ASSUME NEW k \in Keys, GetHit(k)
      PROVE  NoSetInFuture' /\ ServedWithinTTL'
  <2>1. PICK s \in sets : /\ s.key = k
                         /\ s.val = memCache[k].val
                         /\ Store!Deadline(s) = memCache[k].exp
    BY <1>4 DEF GetHit, StoredWasSet, MemoryWasSet, Store!WasSet
  <2>2. now <= memCache[k].exp
    BY <1>4 DEF GetHit, Expired, TypeOK, Store!Items
  <2>3. s.at <= now
    BY DEF NoSetInFuture
  <2>4. reply' = [op |-> "Get", key |-> k, val |-> memCache[k].val]
        /\ UNCHANGED <<now, sets>>
    BY <1>4 DEF GetHit, Answered
  <2>. QED
    BY <1>2, <2>1, <2>2, <2>3, <2>4
       DEF ServedWithinTTL, Store!ServedWithinTTL, Store!Deadline
<1>5. ASSUME NEW k \in Keys, GetStale(k)
      PROVE  NoSetInFuture' /\ ServedWithinTTL'
  BY <1>2, <1>5
     DEF GetStale, Answered, ServedWithinTTL, Store!ServedWithinTTL
<1>6. CASE Tick
  BY <1>1, <1>6 DEF Tick, NoSetInFuture, TypeOK, Store!Sets
<1>7. CASE UNCHANGED vars
  BY <1>7 DEF vars, NoSetInFuture, ServedWithinTTL, Store!ServedWithinTTL,
              Store!Nothing, Store!Deadline
<1>. QED
  BY <1>1, <1>2, <1>3, <1>4, <1>5, <1>6, <1>7
     DEF Next, Set, SetWithDisk, GetExpired, DeleteByPrefix, GoroutineStep,
         OpenTmp, Write, Rename, Remove, WriteFails, Crash, InitDiskCache, Keys

-----------------------------------------------------------------------------
(* The inductive invariant holds at the start.                             *)
LEMMA InitIInv == Init => IInv
<1>. SUFFICES ASSUME Init  PROVE IInv
  OBVIOUS
<1>1. TypeOK
  BY TypeInit
<1>2. StoredWasSet
  BY DEF Init, StoredWasSet, MemoryWasSet, FilesWereSet, WholeFiles, NoFile
<1>3. PersistsWhatWasSet /\ NoSetInFuture
  BY DEF Init, PersistsWhatWasSet, NoSetInFuture, Persisting, Idle
<1>4. ServedWithinTTL
  BY DEF Init, ServedWithinTTL, Store!ServedWithinTTL
<1>5. Atomic
  BY DEF Init, Atomic, OneOwner, OwnsTmp, AtomicReplace, PersistingKey,
         Persisting, Idle, NoFile, EmptyFile, TornFile
<1>6. DiskInv
  BY DEF Init, DiskInv, DiskAt, BusyOn, Keys
<1>. QED  BY <1>1, <1>2, <1>3, <1>4, <1>5, <1>6 DEF IInv

(* Every step keeps the inductive invariant.                               *)
LEMMA NextIInv == IInv /\ [Next]_vars => IInv'
BY TypeStep, ContentStep, ServeStep, AtomicStep, DiskStep DEF IInv

(* The inductive invariant holds in every state the cache can reach.       *)
THEOREM Invariance == Spec => []IInv
BY InitIInv, NextIInv, PTL DEF Spec

(* Every variable of the cache keeps its type, whatever the goroutines do. *)
THEOREM TypeCorrect == Spec => []TypeOK
<1>1. IInv => TypeOK
  BY DEF IInv
<1>. QED  BY Invariance, <1>1, PTL

(* cache.go:63-78: a value Get returns is never past its time to live.     *)
THEOREM FreshAnswers == Spec => []ServedWithinTTL
<1>1. IInv => ServedWithinTTL
  BY DEF IInv
<1>. QED  BY Invariance, <1>1, PTL

(* cache.go:132-147, 156-193: no entry of the map or of a file mixes the   *)
(* value of one call with the deadline, or the key, of another.            *)
THEOREM NothingInvented == Spec => []StoredWasSet
<1>1. IInv => StoredWasSet
  BY DEF IInv
<1>. QED  BY Invariance, <1>1, PTL

(* cache.go:142-146: with one goroutine at a time persisting a key, no     *)
(* crash or failed write leaves a broken cache file for it.                *)
THEOREM PersistIsAtomic == Spec => []AtomicReplace
<1>1. IInv => AtomicReplace
  BY DEF IInv, Atomic
<1>. QED  BY Invariance, <1>1, PTL

(* cache.go:47-60, 70-74: on a key that never had two goroutines at once,  *)
(* and with no failed write, the file ends up with what the map holds.     *)
THEOREM DiskIsLast == Spec => []DiskFollowsMemory
<1>1. IInv => DiskFollowsMemory
  BY DEF IInv, DiskInv, DiskAt, DiskFollowsMemory, OnDisk, Busy, BusyOn
<1>. QED  BY Invariance, <1>1, PTL

-----------------------------------------------------------------------------
(* Every step of the code is a step TtlStore allows, or a stutter.         *)
LEMMA StepSimulation == IInv /\ [Next]_vars => [Store!Next]_(Store!vars)
<1>. SUFFICES ASSUME IInv, [Next]_vars  PROVE [Store!Next]_(Store!vars)
  OBVIOUS
<1>. USE DEF memVars, fileVars
<1>0. TypeOK /\ TypeOK'
  BY TypeStep DEF IInv
<1>1. ASSUME NEW k \in Keys, NEW v \in Vals, NEW ttl \in TTLs,
             Record(k, v, ttl), now' = now, reply' = Store!Nothing
      PROVE  Store!Next
  BY <1>1 DEF Record, Item, Store!Put, Store!Next
<1>2. ASSUME NEW k \in Keys, GetHit(k)
      PROVE  Store!Next
  <2>1. now <= memCache[k].exp
    BY <1>0, <1>2 DEF GetHit, Expired, TypeOK, Store!Items
  <2>2. Store!Answer("Get", k)
    BY <1>2, <2>1 DEF GetHit, Answered, Store!Answer, NoItem
  <2>. QED  BY <2>2 DEF Store!Next
<1>3. ASSUME NEW k \in Keys, GetStale(k)
      PROVE  Store!Next
  <2>1. Store!Answer("GetStale", k)
    BY <1>3 DEF GetStale, Answered, Store!Answer, NoItem
  <2>. QED  BY <2>1 DEF Store!Next
<1>4. ASSUME NEW gone \in SUBSET Keys, UNCHANGED <<now, sets>>,
             reply' = Store!Nothing,
             memCache' = [k \in Keys |-> IF k \in gone THEN NoItem
                                                       ELSE memCache[k]]
      PROVE  Store!Next
  BY <1>4 DEF Store!Forget, Store!Next, NoItem
<1>5. ASSUME UNCHANGED <<now, memCache, sets>>, reply' = Store!Nothing
      PROVE  Store!Next
  <2>1. memCache' = [k \in Keys |-> IF k \in {} THEN NoItem ELSE memCache[k]]
    BY <1>0, <1>5 DEF TypeOK
  <2>2. Store!Forget({})
    BY <1>5, <2>1 DEF Store!Forget, NoItem
  <2>. QED  BY <2>2 DEF Store!Next
<1>6. ASSUME NEW k \in Keys, GetExpired(k)
      PROVE  Store!Next
  <2>1. memCache' = [j \in Keys |-> IF j \in {k} THEN NoItem ELSE memCache[j]]
    BY <1>0, <1>6 DEF GetExpired, TypeOK
  <2>2. UNCHANGED <<now, sets>> /\ reply' = Store!Nothing
    BY <1>6 DEF GetExpired
  <2>. QED  BY <1>4, <2>1, <2>2
<1>7. ASSUME NEW prefix \in Prefixes, DeleteByPrefix(prefix)
      PROVE  Store!Next
  <2>1. prefix \in SUBSET Keys
    BY CacheAssumption DEF Keys
  <2>. QED  BY <1>4, <1>7, <2>1 DEF DeleteByPrefix
<1>8. CASE Crash
  <2>1. memCache' = [k \in Keys |-> IF k \in Keys THEN NoItem ELSE memCache[k]]
    BY <1>8 DEF Crash
  <2>. QED  BY <1>4, <1>8, <2>1 DEF Crash
<1>9. CASE InitDiskCache
  <2>1. ASSUME NEW k \in Keys, memCache'[k] # NoItem
        PROVE  /\ memCache'[k].form = "generic"
               /\ now <= memCache'[k].exp
               /\ Store!WasSet(k, memCache'[k].val, memCache'[k].exp)
    <3>1. /\ Loadable(k)
          /\ memCache'[k] = Item("generic", cacheFile[k].val, cacheFile[k].exp)
      BY <1>9, <2>1 DEF InitDiskCache
    <3>2. now <= cacheFile[k].exp
      BY <1>0, <3>1 DEF Loadable, TypeOK, WholeFiles
    <3>3. Store!WasSet(k, cacheFile[k].val, cacheFile[k].exp)
      BY <3>1 DEF Loadable, IInv, StoredWasSet, FilesWereSet
    <3>. QED  BY <3>1, <3>2, <3>3 DEF Item, Store!Item
  <2>2. Store!Reload
    BY <1>0, <1>9, <2>1 DEF InitDiskCache, TypeOK, Store!Reload, NoItem
  <2>. QED  BY <2>2 DEF Store!Next
<1>10. CASE Tick
  BY <1>10 DEF Tick, Store!Tick, Store!Next
<1>11. CASE UNCHANGED vars
  BY <1>11 DEF vars, Store!vars
<1>. QED
  BY <1>1, <1>2, <1>3, <1>5, <1>6, <1>7, <1>8, <1>9, <1>10, <1>11
     DEF Next, Set, SetWithDisk, GoroutineStep, OpenTmp, Write, Rename, Remove,
         WriteFails, Keys

(* What the rest of the program may assume of the cache is what it does.   *)
THEOREM Refinement == Spec => ImplementsTtlStore
<1>1. Init => Store!Init
  BY DEF Init, Store!Init, NoItem
<1>. QED
  BY <1>1, Invariance, StepSimulation, PTL
     DEF Spec, ImplementsTtlStore, Store!Spec
=============================================================================
