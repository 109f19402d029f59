---------------------------- MODULE SourceProofs ----------------------------
(***************************************************************************)
(* The sources, for any number of them and of requests at once.            *)
(*   SourceStore: identifiers are unique, a source that is off is not      *)
(*   fetched, and the file with its writers is one list changed by whole   *)
(*   requests (SourceBook).                                                *)
(*   SourceList: the background fetches of a source exclude each other.    *)
(***************************************************************************)
EXTENDS SourceStore, SourceList, SublistLemmas, TLAPS

(* What one request makes of a list.                                       *)
Added(s, t) ==
    /\ Len(t) = Len(s) + 1 /\ t = Append(s, t[Len(s) + 1])
    /\ \A i \in DOMAIN s : s[i].id # t[Len(s) + 1].id

Changed(s, t) ==
    /\ DOMAIN t = DOMAIN s
    /\ \E i \in DOMAIN s : /\ t[i].id = s[i].id
                           /\ \A j \in DOMAIN s \ {i} : t[j] = s[j]

Removed(s, t) == \E i \in DOMAIN s : t = Without(s, s[i].id)

OneChange(s, t) == Added(s, t) \/ Changed(s, t) \/ Removed(s, t)

-----------------------------------------------------------------------------
(* The inductive invariant.                                                *)

(* A request in progress holds the mutex, and the start comes before all.  *)
Turns ==
    /\ \A h \in Handlers : job[h] # IdleJob => configMutex = h /\ srcPhase = "up"
    /\ \A h \in Handlers : configMutex = h => job[h] # IdleJob

(* While a list is written the file does not parse, and the start writes   *)
(* only when there was nothing.                                            *)
Writing == \E h \in Handlers : job[h].pc = "write"
Filling == srcPhase \in {"copying", "migrating"}

Writes ==
    /\ Writing \/ Filling => srcFile = TornList
    /\ Filling => truncated.list = <<>>

(* What a request will write is one change away from what there is, or     *)
(* was when it truncated the file.                                         *)
Pending ==
    \A h \in Handlers :
        /\ job[h].pc = "loaded" => Parses /\ OneChange(LoadAll, job[h].new)
        /\ job[h].pc = "write" =>
              truncated.whole /\ OneChange(truncated.list, job[h].new)

(* It has distinct sources too.                                            *)
PendingDistinct ==
    \A h \in Handlers : job[h] # IdleJob =>
        /\ DistinctIds(job[h].new)
        /\ ~retargeted => DistinctURLs(job[h].new)

SrcInv ==
    /\ SourceTypeOK
    /\ Turns
    /\ Writes
    /\ Pending
    /\ IdsUnique
    /\ UrlsDistinctUnlessRetargeted
    /\ PendingDistinct

-----------------------------------------------------------------------------
(* The lists.                                                              *)

LEMMA LoadedList ==
    ASSUME SourceTypeOK
    PROVE  LoadAll \in Seq(Sources)
BY DEF SourceTypeOK, LoadAll, NoList, TornList

LEMMA FirstIs ==
    ASSUME NEW s \in Seq(Sources), NEW I \in SUBSET (DOMAIN s), I # {}
    PROVE  First(I) \in I /\ \A j \in I : First(I) <= j
<1>1. Len(s) \in Nat /\ I \in SUBSET (1..Len(s))
  OBVIOUS
<1>2. \E i \in I : \A j \in I : i <= j
  BY <1>1, LeastIndex
<1>. QED  BY <1>2 DEF First

(* A source that AddSource does not refuse leaves the list distinct.       *)
LEMMA AddedIs ==
    ASSUME NEW s \in Seq(Sources), NEW new \in Sources, DistinctIds(s),
           \A i \in DOMAIN s : ~Duplicate(s[i], new)
    PROVE  /\ Append(s, new) \in Seq(Sources)
           /\ OneChange(s, Append(s, new))
           /\ DistinctIds(Append(s, new))
           /\ DistinctURLs(s) => DistinctURLs(Append(s, new))
<1>. DEFINE t == Append(s, new)
            n == Len(s)
<1>1. /\ n \in Nat /\ DOMAIN s = 1..n
      /\ t \in Seq(Sources) /\ DOMAIN t = 1..(n + 1)
      /\ \A i \in 1..n : t[i] = s[i]
      /\ t[n + 1] = new
  OBVIOUS
<1>2. \A i \in 1..n : s[i].id # new.id /\ RuntimeURL(s[i]) # RuntimeURL(new)
  BY <1>1 DEF Duplicate
<1>3. OneChange(s, t)
  BY <1>1, <1>2 DEF OneChange, Added
<1>4. ASSUME NEW i \in DOMAIN t, NEW j \in DOMAIN t, i # j
      PROVE  /\ t[i].id = t[j].id => t[i].id \in LegacyTwins
             /\ DistinctURLs(s) => RuntimeURL(t[i]) # RuntimeURL(t[j])
  <2>1. CASE i \in 1..n /\ j \in 1..n
    BY <1>1, <1>4, <2>1 DEF DistinctIds, DistinctURLs
  <2>2. CASE i = n + 1 /\ j \in 1..n
    BY <1>1, <1>2, <2>2
  <2>3. CASE i \in 1..n /\ j = n + 1
    BY <1>1, <1>2, <2>3
  <2>. QED  BY <1>1, <1>4, <2>1, <2>2, <2>3
<1>5. DistinctIds(t) /\ (DistinctURLs(s) => DistinctURLs(t))
  BY <1>4 DEF DistinctIds, DistinctURLs
<1>. QED  BY <1>1, <1>3, <1>5

(* An update keeps the identifier; the URLs stay distinct if it keeps the  *)
(* URL and the content.                                                    *)
LEMMA ChangedIs ==
    ASSUME NEW s \in Seq(Sources), NEW i \in DOMAIN s, NEW new \in Sources,
           new.id = s[i].id, DistinctIds(s)
    PROVE  /\ [s EXCEPT ![i] = new] \in Seq(Sources)
           /\ OneChange(s, [s EXCEPT ![i] = new])
           /\ DistinctIds([s EXCEPT ![i] = new])
           /\ DistinctURLs(s) /\ RuntimeURL(new) = RuntimeURL(s[i])
                => DistinctURLs([s EXCEPT ![i] = new])
<1>. DEFINE t == [s EXCEPT ![i] = new]
<1>1. t \in Seq(Sources) /\ DOMAIN t = DOMAIN s
  OBVIOUS
<1>2. t[i] = new /\ \A j \in DOMAIN s \ {i} : t[j] = s[j]
  OBVIOUS
<1>3. OneChange(s, t)
  BY <1>1, <1>2 DEF OneChange, Changed
<1>4. \A j \in DOMAIN s : t[j].id = s[j].id
  BY <1>2
<1>5. RuntimeURL(new) = RuntimeURL(s[i]) =>
          \A j \in DOMAIN s : RuntimeURL(t[j]) = RuntimeURL(s[j])
  BY <1>2
<1>6. DistinctIds(t)
  BY <1>1, <1>4 DEF DistinctIds
<1>7. DistinctURLs(s) /\ RuntimeURL(new) = RuntimeURL(s[i]) => DistinctURLs(t)
  BY <1>1, <1>5 DEF DistinctURLs
<1>. QED  BY <1>1, <1>3, <1>6, <1>7

LEMMA WithoutIs ==
    ASSUME NEW s \in Seq(Sources), NEW i \in DOMAIN s, DistinctIds(s)
    PROVE  /\ Without(s, s[i].id) \in Seq(Sources)
           /\ OneChange(s, Without(s, s[i].id))
           /\ DistinctIds(Without(s, s[i].id))
           /\ DistinctURLs(s) => DistinctURLs(Without(s, s[i].id))
<1>. DEFINE I == {j \in DOMAIN s : s[j].id # s[i].id}
            t == Sublist(s, I)
<1>1. t = Without(s, s[i].id)
  BY DEF Without
<1>2. I \in SUBSET (DOMAIN s)
  OBVIOUS
<1>3. OneChange(s, t)
  BY <1>1 DEF OneChange, Removed
<1>. HIDE DEF I, t
<1>4. /\ t \in Seq(Sources)
      /\ \A k \in DOMAIN t : Nth(I, k) \in I /\ t[k] = s[Nth(I, k)]
      /\ \A k, l \in DOMAIN t : Nth(I, k) = Nth(I, l) => k = l
  BY <1>2, SublistIs DEF t
<1>5. \A k \in DOMAIN t : Nth(I, k) \in DOMAIN s
  BY <1>2, <1>4
<1>6. DistinctIds(t)
  BY <1>4, <1>5 DEF DistinctIds
<1>7. DistinctURLs(s) => DistinctURLs(t)
  BY <1>4, <1>5 DEF DistinctURLs
<1>. QED  BY <1>1, <1>3, <1>4, <1>6, <1>7

-----------------------------------------------------------------------------
(* The requests in progress.                                               *)

LEMMA JobIs ==
    ASSUME SourceTypeOK, NEW h \in Handlers, job[h] # IdleJob
    PROVE  /\ job[h].pc \in {"loaded", "write"}
           /\ job[h].new \in Seq(Sources)
BY DEF SourceTypeOK

LEMMA BusyForm ==
    ASSUME NEW h \in Handlers, job[h].pc \in {"loaded", "write"}
    PROVE  job[h] # IdleJob
BY DEF IdleJob

(* There is one at most.                                                   *)
LEMMA OneRequest ==
    ASSUME Turns, NEW h \in Handlers, job[h] # IdleJob
    PROVE  /\ configMutex = h
           /\ srcPhase = "up"
           /\ \A g \in Handlers \ {h} : job[g] = IdleJob
BY DEF Turns

(* A request that loads the list and will write a list one change away.    *)
LEMMA LoadedKeeps ==
    ASSUME SrcInv, NEW h \in Handlers, NEW new \in Seq(Sources),
           Loaded(h, new), OneChange(LoadAll, new), DistinctIds(new),
           retargeted' \in BOOLEAN, retargeted => retargeted',
           ~retargeted' => DistinctURLs(new),
           UNCHANGED <<srcWrecked, srcCrashes, srcFailures>>
    PROVE  SrcInv'
<1>1. /\ srcPhase = "up" /\ job[h] = IdleJob /\ configMutex = Free /\ Parses
      /\ srcChanges' = srcChanges + 1
      /\ configMutex' = h
      /\ job' = [job EXCEPT ![h] = [pc |-> "loaded", new |-> new]]
      /\ UNCHANGED <<srcFile, truncated, srcPhase>>
  BY DEF Loaded, Keep
<1>2. \A g \in Handlers : job[g] = IdleJob
  BY <1>1, SourceAssumption DEF SrcInv, Turns
<1>3. /\ job'[h] = [pc |-> "loaded", new |-> new]
      /\ \A g \in Handlers \ {h} : job'[g] = IdleJob
  BY <1>1, <1>2 DEF SrcInv, SourceTypeOK
<1>4. UNCHANGED <<LoadAll, Parses>>
  BY <1>1 DEF LoadAll, Parses
<1>5. SourceTypeOK'
  <2>1. job' \in [Handlers -> {IdleJob} \cup [pc : {"loaded", "write"}, new : Seq(Sources)]]
    BY <1>1 DEF SrcInv, SourceTypeOK
  <2>. QED  BY <1>1, <2>1 DEF SrcInv, SourceTypeOK
<1>6. Turns'
  BY <1>1, <1>3 DEF Turns, IdleJob
<1>7. Writes'
  BY <1>1, <1>3 DEF Writes, Writing, Filling, IdleJob
<1>8. Pending'
  BY <1>1, <1>3, <1>4 DEF Pending, IdleJob
<1>9. IdsUnique' /\ UrlsDistinctUnlessRetargeted'
  BY <1>4 DEF SrcInv, IdsUnique, UrlsDistinctUnlessRetargeted
<1>10. PendingDistinct'
  BY <1>3 DEF PendingDistinct, IdleJob
<1>. QED  BY <1>5, <1>6, <1>7, <1>8, <1>9, <1>10 DEF SrcInv

LEMMA AddSourceKeeps ==
    ASSUME SrcInv, NEW h \in Handlers, AddSource(h)
    PROVE  SrcInv'
<1>1. PICK u \in Urls \cup {Nil}, c \in Contents \cup {Nil}, on \in BOOLEAN :
          LET new == [id |-> GenerateID(u, c), url |-> u, content |-> c,
                      on |-> on]
          IN  /\ u # Nil \/ c # Nil
              /\ \A i \in DOMAIN LoadAll : ~Duplicate(LoadAll[i], new)
              /\ Loaded(h, Append(LoadAll, new))
              /\ UNCHANGED srcHistory
  BY DEF AddSource
<1>. DEFINE new == [id |-> GenerateID(u, c), url |-> u, content |-> c, on |-> on]
<1>2. new \in Sources
  BY <1>1 DEF Sources, GenerateID
<1>3. LoadAll \in Seq(Sources)
  BY LoadedList DEF SrcInv
<1>. HIDE DEF new
<1>4. /\ Append(LoadAll, new) \in Seq(Sources)
      /\ OneChange(LoadAll, Append(LoadAll, new))
      /\ DistinctIds(Append(LoadAll, new))
      /\ DistinctURLs(LoadAll) => DistinctURLs(Append(LoadAll, new))
  BY <1>1, <1>2, <1>3, AddedIs DEF SrcInv, IdsUnique, new
<1>5. Loaded(h, Append(LoadAll, new)) /\ UNCHANGED srcHistory
  BY <1>1 DEF new
<1>6. ~retargeted => DistinctURLs(LoadAll)
  BY DEF SrcInv, UrlsDistinctUnlessRetargeted
<1>7. retargeted \in BOOLEAN
  BY DEF SrcInv, SourceTypeOK
<1>8. /\ UNCHANGED <<srcWrecked, srcCrashes, srcFailures>>
      /\ UNCHANGED retargeted
  BY <1>5 DEF srcHistory
<1>. QED  BY <1>4, <1>5, <1>6, <1>7, <1>8, LoadedKeeps

LEMMA DeleteSourceKeeps ==
    ASSUME SrcInv, NEW h \in Handlers, DeleteSource(h)
    PROVE  SrcInv'
<1>1. PICK i \in DOMAIN LoadAll :
          Loaded(h, Without(LoadAll, LoadAll[i].id)) /\ UNCHANGED srcHistory
  BY DEF DeleteSource
<1>. DEFINE new == Without(LoadAll, LoadAll[i].id)
<1>2. LoadAll \in Seq(Sources)
  BY LoadedList DEF SrcInv
<1>3. /\ new \in Seq(Sources) /\ OneChange(LoadAll, new) /\ DistinctIds(new)
      /\ DistinctURLs(LoadAll) => DistinctURLs(new)
  BY <1>2, WithoutIs DEF SrcInv, IdsUnique
<1>. HIDE DEF new
<1>4. ~retargeted => DistinctURLs(new)
  BY <1>3 DEF SrcInv, UrlsDistinctUnlessRetargeted
<1>5. retargeted \in BOOLEAN
  BY DEF SrcInv, SourceTypeOK
<1>6. /\ UNCHANGED <<srcWrecked, srcCrashes, srcFailures>>
      /\ UNCHANGED retargeted
  BY <1>1 DEF srcHistory
<1>7. Loaded(h, new)
  BY <1>1 DEF new
<1>. QED  BY <1>3, <1>4, <1>5, <1>6, <1>7, LoadedKeeps

LEMMA UpdateSourceKeeps ==
    ASSUME SrcInv, NEW h \in Handlers, UpdateSource(h)
    PROVE  SrcInv'
<1>1. PICK ref \in {LoadAll[j].id : j \in DOMAIN LoadAll},
           u \in Urls \cup {Nil}, c \in Contents \cup {Nil}, on \in BOOLEAN :
          LET i == First(FindByID(LoadAll, ref))
              old == LoadAll[i]
              new == [old EXCEPT !.on = on,
                                 !.url = IF u = Nil THEN @ ELSE u,
                                 !.content = IF c = Nil THEN @ ELSE c]
          IN  /\ Loaded(h, [LoadAll EXCEPT ![i] = new])
              /\ retargeted' =
                    (retargeted \/ <<new.url, new.content>> # <<old.url, old.content>>)
              /\ UNCHANGED <<srcWrecked, srcCrashes, srcFailures>>
  BY DEF UpdateSource
<1>. DEFINE i == First(FindByID(LoadAll, ref))
            old == LoadAll[i]
            new == [old EXCEPT !.on = on,
                               !.url = IF u = Nil THEN @ ELSE u,
                               !.content = IF c = Nil THEN @ ELSE c]
            t == [LoadAll EXCEPT ![i] = new]
<1>2. LoadAll \in Seq(Sources)
  BY LoadedList DEF SrcInv
<1>3. i \in DOMAIN LoadAll
  <2>1. FindByID(LoadAll, ref) # {}
    BY DEF FindByID
  <2>2. FindByID(LoadAll, ref) \in SUBSET (DOMAIN LoadAll)
    BY DEF FindByID
  <2>. QED  BY <1>2, <2>1, <2>2, FirstIs
<1>. HIDE DEF i
<1>4. old \in Sources
  BY <1>2, <1>3
<1>5. new \in Sources /\ new.id = old.id
  <2>. HIDE DEF old
  <2>. QED  BY <1>4 DEF Sources
<1>6. /\ Loaded(h, t)
      /\ retargeted' =
            (retargeted \/ <<new.url, new.content>> # <<old.url, old.content>>)
      /\ UNCHANGED <<srcWrecked, srcCrashes, srcFailures>>
  BY <1>1 DEF i
<1>. HIDE DEF new
<1>7. /\ t \in Seq(Sources) /\ OneChange(LoadAll, t) /\ DistinctIds(t)
      /\ DistinctURLs(LoadAll) /\ RuntimeURL(new) = RuntimeURL(old)
           => DistinctURLs(t)
  BY <1>2, <1>3, <1>5, ChangedIs DEF SrcInv, IdsUnique
<1>8. /\ retargeted' \in BOOLEAN
      /\ retargeted => retargeted'
      /\ ~retargeted' => ~retargeted /\ RuntimeURL(new) = RuntimeURL(old)
  BY <1>6 DEF RuntimeURL
<1>9. ~retargeted' => DistinctURLs(t)
  BY <1>7, <1>8 DEF SrcInv, UrlsDistinctUnlessRetargeted
<1>. HIDE DEF t
<1>. QED  BY <1>6, <1>7, <1>8, <1>9, LoadedKeeps

(* The old list stays in "truncated" while the new one is written.         *)
LEMMA StartSaveKeeps ==
    ASSUME SrcInv, NEW h \in Handlers, StartSave(h)
    PROVE  SrcInv'
<1>1. /\ job[h].pc = "loaded"
      /\ srcFile' = TornList /\ truncated' = Held
      /\ job' = [job EXCEPT ![h].pc = "write"]
      /\ UNCHANGED <<srcPhase, configMutex, srcChanges, retargeted, srcWrecked,
                     srcCrashes, srcFailures>>
  BY DEF StartSave, Truncate, srcHistory
<1>2. job[h] # IdleJob
  BY <1>1, BusyForm
<1>3. job[h] \in [pc : {"loaded", "write"}, new : Seq(Sources)]
  BY <1>2 DEF SrcInv, SourceTypeOK
<1>4. /\ job'[h] = [pc |-> "write", new |-> job[h].new]
      /\ \A g \in Handlers \ {h} : job'[g] = IdleJob
      /\ configMutex = h /\ srcPhase = "up"
  <2>1. job'[h] = [job[h] EXCEPT !.pc = "write"]
    BY <1>1 DEF SrcInv, SourceTypeOK
  <2>2. \A g \in Handlers \ {h} : job'[g] = job[g]
    BY <1>1 DEF SrcInv, SourceTypeOK
  <2>. QED  BY <1>2, <1>3, <2>1, <2>2, OneRequest DEF SrcInv
<1>5. Parses /\ OneChange(LoadAll, job[h].new)
  BY <1>1 DEF SrcInv, Pending
<1>6. truncated'.whole = TRUE /\ truncated'.list = LoadAll
  BY <1>1, <1>5 DEF Held, Parses
<1>7. LoadAll \in Seq(Sources)
  BY LoadedList DEF SrcInv
<1>8. LoadAll' = <<>> /\ ~Parses'
  BY <1>1 DEF LoadAll, Parses, TornList
<1>9. SourceTypeOK'
  <2>1. job' \in [Handlers -> {IdleJob} \cup [pc : {"loaded", "write"}, new : Seq(Sources)]]
    <3>1. DOMAIN job' = Handlers /\ job' = [g \in Handlers |-> job'[g]]
      BY <1>1 DEF SrcInv, SourceTypeOK
    <3>2. job'[h] \in [pc : {"loaded", "write"}, new : Seq(Sources)]
      BY <1>3, <1>4
    <3>. QED  BY <1>4, <3>1, <3>2
  <2>2. truncated' \in [whole : BOOLEAN, list : Seq(Sources)]
    BY <1>1, <1>7 DEF Held, Parses
  <2>. QED  BY <1>1, <2>1, <2>2 DEF SrcInv, SourceTypeOK
<1>10. Turns'
  BY <1>1, <1>4 DEF Turns, IdleJob
<1>11. Writes'
  BY <1>1, <1>4 DEF Writes, Filling
<1>12. Pending'
  BY <1>4, <1>5, <1>6 DEF Pending, IdleJob
<1>13. IdsUnique' /\ UrlsDistinctUnlessRetargeted'
  BY <1>8 DEF IdsUnique, UrlsDistinctUnlessRetargeted, DistinctIds, DistinctURLs
<1>14. PendingDistinct'
  BY <1>1, <1>2, <1>4 DEF SrcInv, PendingDistinct
<1>. QED  BY <1>9, <1>10, <1>11, <1>12, <1>13, <1>14 DEF SrcInv

(* The file holds the new list, or what was written of it.                 *)
LEMMA EndSaveKeeps ==
    ASSUME SrcInv, NEW h \in Handlers, EndSave(h)
    PROVE  SrcInv'
<1>1. /\ job[h].pc = "write"
      /\ job' = [job EXCEPT ![h] = IdleJob]
      /\ configMutex' = Free
      /\ UNCHANGED <<srcPhase, srcChanges>>
      /\ WriteOk(job[h].new) \/ WriteFailed
  BY DEF EndSave
<1>2. job[h] # IdleJob
  BY <1>1, BusyForm
<1>3. job[h].new \in Seq(Sources)
  BY <1>2, JobIs DEF SrcInv
<1>4. /\ \A g \in Handlers : job'[g] = IdleJob
      /\ srcPhase = "up"
  BY <1>1, <1>2, OneRequest DEF SrcInv, SourceTypeOK
<1>5. srcFile = TornList
  BY <1>1 DEF SrcInv, Writes, Writing
<1>6. Turns'
  BY <1>1, <1>4, SourceAssumption DEF Turns
<1>7. Writes' /\ Pending' /\ PendingDistinct'
  BY <1>1, <1>4 DEF Writes, Writing, Filling, Pending, PendingDistinct, IdleJob
<1>8. job' \in [Handlers -> {IdleJob} \cup [pc : {"loaded", "write"}, new : Seq(Sources)]]
  BY <1>1 DEF SrcInv, SourceTypeOK
<1>9. CASE WriteOk(job[h].new)
  <2>1. /\ srcFile' = [state |-> "ok", list |-> job[h].new]
        /\ UNCHANGED <<truncated, retargeted, srcWrecked, srcCrashes, srcFailures>>
    BY <1>9 DEF WriteOk, List, srcHistory
  <2>2. SourceTypeOK'
    BY <1>1, <1>3, <1>8, <2>1 DEF SrcInv, SourceTypeOK
  <2>3. LoadAll' = job[h].new
    BY <2>1 DEF LoadAll
  <2>4. IdsUnique' /\ UrlsDistinctUnlessRetargeted'
    BY <1>2, <2>1, <2>3 DEF SrcInv, PendingDistinct, IdsUnique,
       UrlsDistinctUnlessRetargeted
  <2>. QED  BY <1>6, <1>7, <2>2, <2>4 DEF SrcInv
<1>10. CASE WriteFailed
  <2>1. /\ srcFailures' = srcFailures + 1 /\ srcWrecked' = TRUE
        /\ UNCHANGED <<srcFile, truncated, retargeted, srcCrashes>>
    BY <1>10 DEF WriteFailed, Keep
  <2>2. SourceTypeOK'
    BY <1>1, <1>8, <2>1 DEF SrcInv, SourceTypeOK
  <2>3. IdsUnique' /\ UrlsDistinctUnlessRetargeted'
    BY <2>1 DEF SrcInv, IdsUnique, UrlsDistinctUnlessRetargeted, LoadAll
  <2>. QED  BY <1>6, <1>7, <2>2, <2>3 DEF SrcInv
<1>. QED  BY <1>1, <1>9, <1>10

(* No request is in progress before the program is up.                     *)
LEMMA NoneYet ==
    ASSUME Turns, srcPhase # "up"
    PROVE  \A h \in Handlers : job[h] = IdleJob
BY DEF Turns

(* The start truncates a file that holds nothing, or leaves it.            *)
LEMMA FillingKeeps ==
    ASSUME SrcInv, InitDefaults \/ MigrateLegacySources
    PROVE  SrcInv'
<1>1. /\ srcPhase \in {"defaults", "migrate"}
      /\ srcPhase' \in {"copying", "migrate", "migrating", "up"}
      /\ UNCHANGED <<job, configMutex, srcChanges, retargeted, srcWrecked,
                     srcCrashes, srcFailures>>
  BY DEF InitDefaults, MigrateLegacySources, Booted, srcHistory
<1>2. \A h \in Handlers : job[h] = IdleJob /\ job'[h] = IdleJob
  BY <1>1, NoneYet DEF SrcInv
<1>3. Turns' /\ Pending' /\ PendingDistinct'
  BY <1>1, <1>2 DEF SrcInv, Turns, Pending, PendingDistinct, IdleJob
<1>4. CASE Truncate /\ LoadAll = <<>>
  <2>1. srcFile' = TornList /\ truncated' = [whole |-> Parses, list |-> <<>>]
    BY <1>4 DEF Truncate, Held
  <2>2. SourceTypeOK'
    <3>1. <<>> \in Seq(Sources)
      OBVIOUS
    <3>2. Parses \in BOOLEAN
      BY DEF Parses
    <3>. QED  BY <1>1, <2>1, <3>1, <3>2 DEF SrcInv, SourceTypeOK
  <2>3. Writes'
    BY <2>1 DEF Writes
  <2>4. LoadAll' = <<>>
    BY <2>1 DEF LoadAll, TornList
  <2>5. IdsUnique' /\ UrlsDistinctUnlessRetargeted'
    BY <2>4 DEF IdsUnique, UrlsDistinctUnlessRetargeted, DistinctIds, DistinctURLs
  <2>. QED  BY <1>3, <2>2, <2>3, <2>5 DEF SrcInv
<1>5. CASE Keep /\ srcPhase' \in {"migrate", "up"}
  <2>1. UNCHANGED <<srcFile, truncated>>
    BY <1>5 DEF Keep
  <2>2. SourceTypeOK'
    BY <1>1, <2>1 DEF SrcInv, SourceTypeOK
  <2>3. Writes'
    BY <1>2, <1>5 DEF Writes, Writing, Filling, IdleJob
  <2>4. IdsUnique' /\ UrlsDistinctUnlessRetargeted'
    BY <1>1, <2>1 DEF SrcInv, IdsUnique, UrlsDistinctUnlessRetargeted, LoadAll
  <2>. QED  BY <1>3, <2>2, <2>3, <2>4 DEF SrcInv
<1>6. (Truncate /\ LoadAll = <<>>) \/ (Keep /\ srcPhase' \in {"migrate", "up"})
  BY DEF InitDefaults, MigrateLegacySources, Booted, LoadAll, NoList
<1>. QED  BY <1>4, <1>5, <1>6

LEMMA SeedsAreDistinct ==
    ASSUME NEW s \in {Shipped, Legacy}
    PROVE  s \in Seq(Sources) /\ DistinctIds(s) /\ DistinctURLs(s)
<1>1. s \in Seq(Sources) /\ DistinctURLs(s)
  BY SourceAssumption
<1>2. DistinctIds(Shipped)
  BY SourceAssumption DEF DistinctIds
<1>3. DistinctIds(Legacy)
  BY DEF DistinctIds, LegacyTwins
<1>. QED  BY <1>1, <1>2, <1>3

LEMMA BootWriteKeeps ==
    ASSUME SrcInv, BootWrite
    PROVE  SrcInv'
<1>1. PICK seed \in {Shipped, Legacy} :
          /\ srcPhase \in {"copying", "migrating"}
          /\ srcPhase' \in {"migrate", "up"}
          /\ UNCHANGED <<job, configMutex, srcChanges>>
          /\ WriteOk(seed) \/ WriteFailed
  BY DEF BootWrite, Booted
<1>2. \A h \in Handlers : job[h] = IdleJob /\ job'[h] = IdleJob
  BY <1>1, NoneYet DEF SrcInv
<1>3. Turns' /\ Pending' /\ PendingDistinct'
  BY <1>1, <1>2 DEF SrcInv, Turns, Pending, PendingDistinct, IdleJob
<1>4. Writes'
  BY <1>1, <1>2 DEF Writes, Writing, Filling, IdleJob
<1>5. CASE WriteOk(seed)
  <2>1. /\ srcFile' = [state |-> "ok", list |-> seed]
        /\ UNCHANGED <<truncated, retargeted, srcWrecked, srcCrashes, srcFailures>>
    BY <1>5 DEF WriteOk, List, srcHistory
  <2>2. seed \in Seq(Sources) /\ DistinctIds(seed) /\ DistinctURLs(seed)
    BY SeedsAreDistinct
  <2>3. SourceTypeOK'
    BY <1>1, <2>1, <2>2 DEF SrcInv, SourceTypeOK
  <2>4. LoadAll' = seed
    BY <2>1 DEF LoadAll
  <2>5. IdsUnique' /\ UrlsDistinctUnlessRetargeted'
    BY <2>2, <2>4 DEF IdsUnique, UrlsDistinctUnlessRetargeted
  <2>. QED  BY <1>3, <1>4, <2>3, <2>5 DEF SrcInv
<1>6. CASE WriteFailed
  <2>1. /\ srcFailures' = srcFailures + 1 /\ srcWrecked' = TRUE
        /\ UNCHANGED <<srcFile, truncated, retargeted, srcCrashes>>
    BY <1>6 DEF WriteFailed, Keep
  <2>2. SourceTypeOK'
    BY <1>1, <2>1 DEF SrcInv, SourceTypeOK
  <2>3. IdsUnique' /\ UrlsDistinctUnlessRetargeted'
    BY <2>1 DEF SrcInv, IdsUnique, UrlsDistinctUnlessRetargeted, LoadAll
  <2>. QED  BY <1>3, <1>4, <2>2, <2>3 DEF SrcInv
<1>. QED  BY <1>1, <1>5, <1>6

LEMMA SourceCrashKeeps ==
    ASSUME SrcInv, SourceCrash
    PROVE  SrcInv'
<1>1. /\ srcCrashes' = srcCrashes + 1
      /\ srcPhase' = "defaults"
      /\ job' = [h \in Handlers |-> IdleJob]
      /\ configMutex' = Free
      /\ srcWrecked' = (srcWrecked \/ srcFile = TornList)
      /\ UNCHANGED <<srcFile, truncated, retargeted, srcChanges, srcFailures>>
  BY DEF SourceCrash, Keep
<1>2. SourceTypeOK'
  BY <1>1 DEF SrcInv, SourceTypeOK
<1>3. Turns'
  BY <1>1, SourceAssumption DEF Turns
<1>4. Writes' /\ Pending' /\ PendingDistinct'
  BY <1>1 DEF Writes, Writing, Filling, Pending, PendingDistinct, IdleJob
<1>5. IdsUnique' /\ UrlsDistinctUnlessRetargeted'
  BY <1>1 DEF SrcInv, IdsUnique, UrlsDistinctUnlessRetargeted, LoadAll
<1>. QED  BY <1>2, <1>3, <1>4, <1>5 DEF SrcInv

LEMMA SourceInitially == SourceInit => SrcInv
<1>. SUFFICES ASSUME SourceInit PROVE SrcInv
  OBVIOUS
<1>1. LoadAll = <<>>
  BY DEF SourceInit, LoadAll, NoList
<1>2. <<>> \in Seq(Sources)
  OBVIOUS
<1>3. SourceTypeOK
  <2>1. truncated \in [whole : BOOLEAN, list : Seq(Sources)]
    BY <1>2 DEF SourceInit
  <2>2. job \in [Handlers -> {IdleJob} \cup [pc : {"loaded", "write"}, new : Seq(Sources)]]
    BY DEF SourceInit
  <2>3. srcFile \in {NoList} /\ configMutex \in {Free}
    BY DEF SourceInit
  <2>4. /\ srcPhase = "defaults" /\ retargeted = FALSE /\ srcWrecked = FALSE
        /\ srcChanges = 0 /\ srcCrashes = 0 /\ srcFailures = 0
    BY DEF SourceInit
  <2>5. {srcChanges, srcCrashes, srcFailures} \subseteq Nat
    BY <2>4
  <2>6. configMutex \in Handlers \cup {Free}
    BY <2>3
  <2>7. srcFile \in {NoList, TornList} \cup [state : {"ok"}, list : Seq(Sources)]
    BY <2>3
  <2>8. srcPhase \in {"defaults", "copying", "migrate", "migrating", "up"}
    BY <2>4
  <2>9. retargeted \in BOOLEAN /\ srcWrecked \in BOOLEAN
    BY <2>4
  <2>. QED  BY Zenon, <2>1, <2>2, <2>5, <2>6, <2>7, <2>8, <2>9 DEF SourceTypeOK
<1>4. Turns
  BY SourceAssumption DEF SourceInit, Turns
<1>5. Writes /\ Pending /\ PendingDistinct
  BY DEF SourceInit, Writes, Writing, Filling, Pending, PendingDistinct, IdleJob
<1>6. IdsUnique /\ UrlsDistinctUnlessRetargeted
  BY <1>1 DEF IdsUnique, UrlsDistinctUnlessRetargeted, DistinctIds, DistinctURLs
<1>. QED  BY <1>3, <1>4, <1>5, <1>6 DEF SrcInv

LEMMA SourceStep ==
    ASSUME SrcInv, [SourceNext]_srcVars
    PROVE  SrcInv'
<1>1. CASE UNCHANGED srcVars
  BY <1>1 DEF srcVars, SrcInv, SourceTypeOK, Turns, Writes, Writing, Filling,
     Pending, PendingDistinct, Parses, LoadAll, IdsUnique,
     UrlsDistinctUnlessRetargeted
<1>2. CASE SourceNext
  BY <1>2, AddSourceKeeps, DeleteSourceKeeps, UpdateSourceKeeps, StartSaveKeeps,
     EndSaveKeeps, FillingKeeps, BootWriteKeeps, SourceCrashKeeps
     DEF SourceNext
<1>. QED  BY <1>1, <1>2

(* In every state reached the variables have their types, one request is   *)
(* in progress at most, the start has only truncated a file that held      *)
(* nothing, and the list and the one that will replace it have distinct    *)
(* sources.                                                                *)
THEOREM SourceInvariance == SourceSpec => []SrcInv
BY SourceInitially, SourceStep, PTL DEF SourceSpec

(* The variables have their types, the lists in the file, in the history   *)
(* and in the requests included.                                           *)
THEOREM SourceTypes == SourceSpec => []SourceTypeOK
<1>1. SrcInv => SourceTypeOK
  BY DEF SrcInv
<1>. QED  BY SourceInvariance, <1>1, PTL

(* However requests, failed writes and restarts interleave, the only       *)
(* identifiers two sources can share are those that two entries of         *)
(* config.json already have (source_management.go:64-70).                  *)
THEOREM IdsStayUnique == SourceSpec => []IdsUnique
<1>1. SrcInv => IdsUnique
  BY DEF SrcInv
<1>. QED  BY SourceInvariance, <1>1, PTL

(* No two sources are fetched from one URL before an update gives a source *)
(* another (source_management.go:64-70, 160-165).                          *)
THEOREM UrlsStayDistinct == SourceSpec => []UrlsDistinctUnlessRetargeted
<1>1. SrcInv => UrlsDistinctUnlessRetargeted
  BY DEF SrcInv
<1>. QED  BY SourceInvariance, <1>1, PTL

(* As long as the file can be read and no update has given a source        *)
(* another URL or content, a source that is off is fetched for no request  *)
(* that names it: the source found is it, or one with another URL          *)
(* (source.go:106-133).                                                    *)
THEOREM OffSourcesStayOff == SourceSpec => []OffStaysOff
<1>1. SrcInv => OffStaysOff
  <2>. SUFFICES ASSUME SrcInv, Parses, ~retargeted, NEW i \in DOMAIN LoadAll,
                       ~LoadAll[i].on,
                       NEW ref \in {LoadAll[i].id, LoadAll[i].url,
                                    RuntimeURL(LoadAll[i])}
                PROVE  RuntimeURL(LoadAll[i]) \notin EnabledRuntimeURLs({ref})
    BY DEF OffStaysOff
  <2>. DEFINE found == FindByRef(LoadAll, ref)
              j == First(found)
  <2>1. LoadAll \in Seq(Sources)
    BY LoadedList DEF SrcInv
  <2>2. i \in found /\ found \in SUBSET (DOMAIN LoadAll)
    BY DEF FindByRef
  <2>. HIDE DEF found
  <2>3. j \in DOMAIN LoadAll
    BY <2>1, <2>2, FirstIs
  <2>4. EnabledRuntimeURLs({ref}) =
            IF LoadAll[j].on THEN {RuntimeURL(LoadAll[j])} ELSE {}
    BY <2>2 DEF EnabledRuntimeURLs, found
  <2>. HIDE DEF j
  <2>5. DistinctURLs(LoadAll)
    BY DEF SrcInv, UrlsDistinctUnlessRetargeted
  <2>6. LoadAll[j].on => RuntimeURL(LoadAll[j]) # RuntimeURL(LoadAll[i])
    BY <2>3, <2>5 DEF DistinctURLs
  <2>. QED  BY <2>4, <2>6
<1>. QED  BY SourceInvariance, <1>1, PTL

-----------------------------------------------------------------------------
(* SourceStore implements SourceBook.                                      *)

(* The list is the old one while it is written.                            *)
LEMMA BookIs ==
    /\ Writing \/ Filling => BookNow = truncated
    /\ ~(Writing \/ Filling) => BookNow = Held
BY DEF BookNow, Writing, Filling

LEMMA BookWillBe ==
    /\ Writing' \/ Filling' => BookNow' = truncated'
    /\ ~(Writing' \/ Filling') => BookNow' = Held'
BY DEF BookNow, Writing, Filling

(* A file that was not written whole holds nothing.                        *)
LEMMA TornIsLost ==
    /\ srcFile = TornList => Held = Book!Lost
    /\ srcFile' = TornList => Held' = Book!Lost
<1>1. srcFile = TornList => Parses = FALSE /\ LoadAll = <<>>
  BY DEF Parses, LoadAll, TornList
<1>2. srcFile' = TornList => Parses' = FALSE /\ LoadAll' = <<>>
  BY DEF Parses, LoadAll, TornList
<1>. QED  BY <1>1, <1>2 DEF Held, Book!Lost

LEMMA BookInitially ==
    ASSUME SourceInit PROVE Book!BookInit
<1>1. ~(Writing \/ Filling)
  BY DEF SourceInit, Writing, Filling, IdleJob
<1>2. Held = Book!Whole(<<>>)
  BY DEF SourceInit, Held, Parses, LoadAll, NoList, Book!Whole
<1>. QED  BY <1>1, <1>2, BookIs DEF Book!BookInit

(* A request changes the list when its write ends, not when it loads the   *)
(* list or truncates the file.                                             *)
LEMMA LoadedStutters ==
    ASSUME SrcInv, NEW h \in Handlers, NEW new, Loaded(h, new)
    PROVE  UNCHANGED BookNow
<1>1. /\ srcPhase = "up" /\ configMutex = Free /\ UNCHANGED <<srcFile, srcPhase>>
      /\ job' = [job EXCEPT ![h] = [pc |-> "loaded", new |-> new]]
  BY DEF Loaded, Keep
<1>2. \A g \in Handlers : job[g] = IdleJob
  BY <1>1, SourceAssumption DEF SrcInv, Turns
<1>3. \A g \in Handlers : job'[g].pc # "write"
  BY <1>1, <1>2 DEF SrcInv, SourceTypeOK, IdleJob
<1>4. ~(Writing \/ Filling) /\ ~(Writing' \/ Filling')
  BY <1>1, <1>2, <1>3 DEF Writing, Filling, IdleJob
<1>5. Held' = Held
  BY <1>1 DEF Held, Parses, LoadAll
<1>. QED  BY <1>4, <1>5, BookIs, BookWillBe

LEMMA StartSaveStutters ==
    ASSUME SrcInv, NEW h \in Handlers, StartSave(h)
    PROVE  UNCHANGED BookNow
<1>1. job[h].pc = "loaded" /\ truncated' = Held
  BY DEF StartSave, Truncate
<1>2. job[h] # IdleJob
  BY <1>1, BusyForm
<1>3. ~(Writing \/ Filling)
  BY <1>1, <1>2, OneRequest DEF SrcInv, Writing, Filling, IdleJob
<1>4. job'[h].pc = "write"
  <2>1. job[h] \in [pc : {"loaded", "write"}, new : Seq(Sources)]
    BY <1>2 DEF SrcInv, SourceTypeOK
  <2>2. job'[h] = [job[h] EXCEPT !.pc = "write"]
    BY DEF StartSave, SrcInv, SourceTypeOK
  <2>. QED  BY <2>1, <2>2
<1>5. Writing'
  BY <1>4 DEF Writing
<1>. QED  BY <1>1, <1>3, <1>5, BookIs, BookWillBe

(* One change of a list is a step of the book.                             *)
LEMMA ChangeIsStep ==
    ASSUME NEW s \in Seq(Sources), NEW t \in Seq(Sources), OneChange(s, t),
           BookNow = [whole |-> TRUE, list |-> s],
           BookNow' = [whole |-> TRUE, list |-> t]
    PROVE  Book!BookNext
<1>1. CASE Added(s, t)
  BY <1>1 DEF Added, Book!BookNext, Book!BookAdd, Book!Whole, Book!Sources
<1>2. CASE Changed(s, t)
  BY <1>2 DEF Changed, Book!BookNext, Book!BookChange, Book!Sources
<1>3. CASE Removed(s, t)
  <2>1. PICK i \in DOMAIN s : t = Without(s, s[i].id)
    BY <1>3 DEF Removed
  <2>. DEFINE I == {j \in DOMAIN s : s[j].id # s[i].id}
              place == [k \in DOMAIN t |-> Nth(I, k)]
  <2>2. I \in SUBSET (DOMAIN s) /\ t = Sublist(s, I)
    BY <2>1 DEF Without
  <2>. HIDE DEF I
  <2>3. /\ \A k \in DOMAIN t : Nth(I, k) \in I /\ t[k] = s[Nth(I, k)]
        /\ \A k, l \in DOMAIN t : k < l => Nth(I, k) < Nth(I, l)
        /\ \A j \in I : UpTo(I, j) \in DOMAIN t /\ Nth(I, UpTo(I, j)) = j
    BY <2>2, SublistIs
  <2>4. /\ place \in [DOMAIN t -> I]
        /\ \A j \in I : \E k \in DOMAIN t : place[k] = j
        /\ \A k, l \in DOMAIN t : k < l => place[k] < place[l]
        /\ \A k \in DOMAIN t : t[k] = s[place[k]]
    BY <2>3
  <2>. HIDE DEF place
  <2>5. Book!BookDelete
    BY <2>4 DEF Book!BookDelete, Book!Whole, Book!Sources, I
  <2>. QED  BY <2>5 DEF Book!BookNext
<1>. QED  BY <1>1, <1>2, <1>3 DEF OneChange

LEMMA EndSaveIsStep ==
    ASSUME SrcInv, NEW h \in Handlers, EndSave(h)
    PROVE  Book!BookNext
<1>1. /\ job[h].pc = "write"
      /\ job' = [job EXCEPT ![h] = IdleJob]
      /\ WriteOk(job[h].new) \/ WriteFailed
      /\ UNCHANGED srcPhase
  BY DEF EndSave
<1>2. job[h] # IdleJob
  BY <1>1, BusyForm
<1>3. /\ \A g \in Handlers : job'[g] = IdleJob
      /\ srcPhase = "up"
  BY <1>1, <1>2, OneRequest DEF SrcInv, SourceTypeOK
<1>4. Writing /\ ~(Writing' \/ Filling')
  BY <1>1, <1>3 DEF Writing, Filling, IdleJob
<1>5. BookNow = truncated /\ BookNow' = Held'
  BY <1>4, BookIs, BookWillBe
<1>6. CASE WriteOk(job[h].new)
  <2>1. job[h].new \in Seq(Sources)
    BY <1>2, JobIs DEF SrcInv
  <2>2. truncated.whole /\ OneChange(truncated.list, job[h].new)
    BY <1>1 DEF SrcInv, Pending
  <2>3. truncated \in [whole : BOOLEAN, list : Seq(Sources)]
    BY DEF SrcInv, SourceTypeOK
  <2>4. truncated = [whole |-> TRUE, list |-> truncated.list]
    BY <2>2, <2>3
  <2>5. Held' = [whole |-> TRUE, list |-> job[h].new]
    BY <1>6 DEF WriteOk, List, Held, Parses, LoadAll
  <2>. QED  BY <1>5, <2>1, <2>2, <2>3, <2>4, <2>5, ChangeIsStep
<1>7. CASE WriteFailed
  <2>1. srcFile = TornList
    BY <1>4 DEF SrcInv, Writes
  <2>2. Held' = Book!Lost
    BY <1>7, <2>1, TornIsLost DEF WriteFailed, Keep
  <2>. QED  BY <1>5, <2>2 DEF Book!BookNext, Book!BookLose
<1>. QED  BY <1>1, <1>6, <1>7

LEMMA FillingStutters ==
    ASSUME SrcInv, InitDefaults \/ MigrateLegacySources
    PROVE  UNCHANGED BookNow
<1>1. srcPhase \in {"defaults", "migrate"} /\ UNCHANGED job
  BY DEF InitDefaults, MigrateLegacySources, Booted
<1>2. \A h \in Handlers : job[h] = IdleJob /\ job'[h] = IdleJob
  BY <1>1, NoneYet DEF SrcInv
<1>3. ~(Writing \/ Filling)
  BY <1>1, <1>2 DEF Writing, Filling, IdleJob
<1>4. CASE Truncate /\ srcPhase' \in {"copying", "migrating"}
  <2>1. Filling'
    BY <1>4 DEF Filling
  <2>. QED  BY <1>3, <1>4, <2>1, BookIs, BookWillBe DEF Truncate
<1>5. CASE Keep /\ srcPhase' \in {"migrate", "up"}
  <2>1. ~(Writing' \/ Filling')
    BY <1>2, <1>5 DEF Writing, Filling, IdleJob
  <2>2. Held' = Held
    BY <1>5 DEF Keep, Held, Parses, LoadAll
  <2>. QED  BY <1>3, <2>1, <2>2, BookIs, BookWillBe
<1>6. \/ Truncate /\ srcPhase' \in {"copying", "migrating"}
      \/ Keep /\ srcPhase' \in {"migrate", "up"}
  BY DEF InitDefaults, MigrateLegacySources, Booted
<1>. QED  BY <1>4, <1>5, <1>6

LEMMA BootWriteIsStep ==
    ASSUME SrcInv, BootWrite
    PROVE  Book!BookNext
<1>1. PICK seed \in {Shipped, Legacy} :
          /\ srcPhase \in {"copying", "migrating"}
          /\ srcPhase' \in {"migrate", "up"}
          /\ UNCHANGED job
          /\ WriteOk(seed) \/ WriteFailed
  BY DEF BootWrite, Booted
<1>2. \A h \in Handlers : job'[h] = IdleJob
  BY <1>1, NoneYet DEF SrcInv
<1>3. Filling /\ ~(Writing' \/ Filling')
  BY <1>1, <1>2 DEF Writing, Filling, IdleJob
<1>4. BookNow = truncated /\ BookNow' = Held'
  BY <1>3, BookIs, BookWillBe
<1>5. CASE WriteOk(seed)
  <2>1. Held' = Book!Whole(seed)
    BY <1>5 DEF WriteOk, List, Held, Parses, LoadAll, Book!Whole
  <2>2. truncated.list = <<>>
    BY <1>3 DEF SrcInv, Writes
  <2>. QED  BY <1>4, <2>1, <2>2 DEF Book!BookNext, Book!BookSeed, Book!Sources
<1>6. CASE WriteFailed
  <2>1. srcFile = TornList
    BY <1>3 DEF SrcInv, Writes
  <2>2. Held' = Book!Lost
    BY <1>6, <2>1, TornIsLost DEF WriteFailed, Keep
  <2>. QED  BY <1>4, <2>2 DEF Book!BookNext, Book!BookLose
<1>. QED  BY <1>1, <1>5, <1>6

(* A crash loses the list if it was being written, and nothing else.       *)
LEMMA CrashIsStep ==
    ASSUME SrcInv, SourceCrash
    PROVE  Book!BookNext \/ UNCHANGED BookNow
<1>1. /\ srcPhase' = "defaults" /\ UNCHANGED srcFile
      /\ \A h \in Handlers : job'[h] = IdleJob
  BY DEF SourceCrash, Keep
<1>2. BookNow' = Held'
  BY <1>1, BookWillBe DEF Writing, Filling, IdleJob
<1>3. CASE Writing \/ Filling
  <2>1. srcFile' = TornList
    BY <1>1, <1>3 DEF SrcInv, Writes
  <2>. QED  BY <1>2, <2>1, TornIsLost DEF Book!BookNext, Book!BookLose
<1>4. CASE ~(Writing \/ Filling)
  <2>1. Held' = Held
    BY <1>1 DEF Held, Parses, LoadAll
  <2>. QED  BY <1>2, <1>4, <2>1, BookIs
<1>. QED  BY <1>3, <1>4

(* The file and the requests that read, truncate and write it are one list *)
(* changed by whole requests, one at a time: a list is replaced when its   *)
(* write ends, by one that differs in one source, or lost when a write is  *)
(* cut short or fails, and filled by a start only when it holds nothing    *)
(* (source_management.go:41-76, settings.go:44-48).                        *)
THEOREM StoreIsBook == SourceSpec => ImplementsBook
<1>1. SourceInit => Book!BookInit
  BY BookInitially
<1>2. ASSUME SrcInv, [SourceNext]_srcVars
      PROVE  [Book!BookNext]_BookNow
  <2>1. CASE UNCHANGED srcVars
    BY <2>1 DEF srcVars, BookNow, Held, Parses, LoadAll
  <2>2. ASSUME NEW h \in Handlers, AddSource(h) \/ DeleteSource(h) \/ UpdateSource(h)
        PROVE  UNCHANGED BookNow
    <3>1. \A new : Loaded(h, new) => UNCHANGED BookNow
      BY <1>2, LoadedStutters
    <3>2. CASE AddSource(h)
      BY <3>1, <3>2 DEF AddSource
    <3>3. CASE DeleteSource(h)
      BY <3>1, <3>3 DEF DeleteSource
    <3>4. CASE UpdateSource(h)
      BY <3>1, <3>4 DEF UpdateSource
    <3>. QED  BY <2>2, <3>2, <3>3, <3>4
  <2>3. CASE SourceNext
    BY <1>2, <2>2, <2>3, StartSaveStutters, EndSaveIsStep, FillingStutters,
       BootWriteIsStep, CrashIsStep DEF SourceNext
  <2>. QED  BY <1>2, <2>1, <2>3
<1>. QED  BY <1>1, <1>2, SourceInvariance, PTL DEF SourceSpec, ImplementsBook, Book!BookSpec

-----------------------------------------------------------------------------
(* SourceList.                                                             *)

ListInv == ListTypeOK /\ SingleFlight

(* A request that found its source missing knows which source it was.      *)
LEMMA MissedUrl ==
    ASSUME ListTypeOK, NEW l \in Listings, listing[l].pc = "missed"
    PROVE  listing[l].url \in ListUrls
<1>1. listing[l] \in {NextSource} \cup {Missed(u) : u \in ListUrls}
  BY DEF ListTypeOK
<1>2. listing[l] # NextSource
  BY DEF NextSource
<1>3. PICK u \in ListUrls : listing[l] = Missed(u)
  BY <1>1, <1>2
<1>. QED  BY <1>3 DEF Missed

LEMMA ListInitially == ListInit => ListInv
BY DEF ListInit, ListInv, ListTypeOK, SingleFlight

LEMMA StartFetchKeeps ==
    ASSUME ListInv, NEW l \in Listings, StartFetch(l)
    PROVE  ListInv'
<1>. DEFINE u == listing[l].url
<1>1. u \in ListUrls
  BY MissedUrl DEF ListInv, StartFetch
<1>2. listing' \in [Listings -> {NextSource} \cup {Missed(v) : v \in ListUrls}]
  BY DEF ListInv, ListTypeOK, StartFetch
<1>3. CASE u \notin inFlight /\ Launched(l)
  <2>1. fetches[u] = 0
    BY <1>1, <1>3 DEF ListInv, SingleFlight
  <2>2. /\ fetches' = [fetches EXCEPT ![u] = 1]
        /\ inFlight' = inFlight \cup {u}
    BY <1>1, <1>3, <2>1 DEF Launched, ListInv, ListTypeOK
  <2>. QED  BY <1>1, <1>2, <2>2 DEF ListInv, ListTypeOK, SingleFlight, StartFetch
<1>4. CASE u \in inFlight /\ UNCHANGED <<inFlight, fetches>>
  BY <1>2, <1>4 DEF ListInv, ListTypeOK, SingleFlight, StartFetch
<1>. QED  BY <1>3, <1>4 DEF StartFetch

LEMMA EndFetchKeeps ==
    ASSUME ListInv, NEW u \in ListUrls, EndFetch(u)
    PROVE  ListInv'
<1>1. u \in inFlight /\ fetches[u] = 1
  BY DEF ListInv, SingleFlight, EndFetch
<1>2. /\ fetches' = [fetches EXCEPT ![u] = 0]
      /\ inFlight' = inFlight \ {u}
  BY <1>1 DEF EndFetch, ListInv, ListTypeOK
<1>3. ListTypeOK'
  BY <1>2 DEF ListInv, ListTypeOK, EndFetch
<1>4. SingleFlight'
  BY <1>2 DEF ListInv, ListTypeOK, SingleFlight
<1>. QED  BY <1>3, <1>4 DEF ListInv

(* The steps that leave the mark and the goroutines alone.                 *)
LEMMA OthersKeep ==
    ASSUME ListInv
    PROVE  /\ ListRestart => ListInv'
           /\ \A u \in ListUrls : Record(u) \/ Expire(u) => ListInv'
           /\ \A l \in Listings, u \in ListUrls : Look(l, u) => ListInv'
<1>1. ASSUME ListRestart PROVE ListInv'
  BY <1>1 DEF ListRestart, ListInv, ListTypeOK, SingleFlight
<1>2. ASSUME NEW u \in ListUrls, Record(u) PROVE ListInv'
  <2>1. entry' \in [ListUrls -> {"none", "item", "raw"}]
    BY <1>2 DEF Record, ListInv, ListTypeOK
  <2>. QED  BY <1>2, <2>1 DEF Record, ListInv, ListTypeOK, SingleFlight
<1>3. ASSUME NEW u \in ListUrls, Expire(u) PROVE ListInv'
  BY <1>3 DEF Expire, ListInv, ListTypeOK, SingleFlight
<1>4. ASSUME NEW l \in Listings, NEW u \in ListUrls, Look(l, u) PROVE ListInv'
  BY <1>4 DEF Look, ListInv, ListTypeOK, SingleFlight
<1>. QED  BY <1>1, <1>2, <1>3, <1>4

(* In every state reached, the types are right, and a source is fetched in *)
(* the background exactly while it is marked.                              *)
THEOREM ListInvariance == ListSpec => []ListInv
<1>1. ASSUME ListInv, [ListNext]_listVars PROVE ListInv'
  <2>1. CASE UNCHANGED listVars
    BY <1>1, <2>1 DEF listVars, ListInv, ListTypeOK, SingleFlight
  <2>2. CASE ListNext
    BY <1>1, <2>2, StartFetchKeeps, EndFetchKeeps, OthersKeep DEF ListNext
  <2>. QED  BY <1>1, <2>1, <2>2
<1>. QED  BY ListInitially, <1>1, PTL DEF ListSpec

(* However many requests for the list of sources find one missing, at most *)
(* one goroutine fetches it (handler/source.go:74-76).                     *)
THEOREM OneFetch == ListSpec => []SingleFlight
<1>1. ListInv => SingleFlight
  BY DEF ListInv
<1>. QED  BY ListInvariance, <1>1, PTL
=============================================================================
