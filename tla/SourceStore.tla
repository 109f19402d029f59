---------------------------- MODULE SourceStore -----------------------------
(***************************************************************************)
(* internal/source, internal/handler/source_management.go, and the starts  *)
(* of datastore and settings: the list of subscription sources, kept only  *)
(* in data/sources.json.  The handlers load, check and save it under       *)
(* configMutex; everybody else reads it without.  A save truncates the     *)
(* file and then writes it.  Names, user agents and types are left out.    *)
(*                                                                         *)
(* config.json may still hold sources of an older version (Legacy).        *)
(***************************************************************************)
EXTENDS Sublists

CONSTANTS
    Urls, Contents,    \* what a client may give for a source
    Hash,              \* the identifier made from each of them
    Handlers,          \* bound: requests at once
    Shipped, Legacy,   \* the lists in default-data and in config.json
    MaxSourceChanges,  \* bound on requests that change something
    MaxSourceCrashes,  \* bound on crashes, restarts included
    MaxSourceFailures  \* bound on failed writes

VARIABLES
    srcPhase,      \* the start of the program, or "up"
    srcFile,       \* data/sources.json
    truncated,     \* history: what it held when it was last truncated
    job,           \* the requests in progress
    configMutex,   \* who holds it, or Free
    retargeted,    \* history: an update gave a source a URL or a content
    srcWrecked,    \* history: a write failed or was cut short
    srcChanges, srcCrashes, srcFailures

srcVars == <<srcPhase, srcFile, truncated, job, configMutex, retargeted, srcWrecked,
             srcChanges, srcCrashes, srcFailures>>
srcHistory == <<retargeted, srcWrecked, srcCrashes, srcFailures>>

Free == "free"
Nil == "nil"       \* an empty string of the code

Sources == [id : {Hash[k] : k \in Urls \cup Contents}, url : Urls \cup {Nil},
            content : Contents \cup {Nil}, on : BOOLEAN]

NoList == [state |-> "absent"]
TornList == [state |-> "torn"]
List(s) == [state |-> "ok", list |-> s]

-----------------------------------------------------------------------------
(* internal/source/source.go                                               *)

Parses == srcFile.state # "torn"

(* A file that is absent is an empty list; one that does not parse is an   *)
(* error.                                                                  *)
LoadAll == IF srcFile.state = "ok" THEN srcFile.list ELSE <<>>

RuntimeURL(s) == IF s.content # Nil THEN s.content ELSE s.url

(* The identifiers that two entries of config.json get: with one URL and   *)
(* two contents they are two sources (settings.go:60-70), and the          *)
(* identifier is made from the URL alone.                                  *)
LegacyTwins ==
    {Legacy[i].id : i \in {j \in DOMAIN Legacy :
        \E k \in DOMAIN Legacy \ {j} : Legacy[k].id = Legacy[j].id}}

DistinctIds(s) ==
    \A i, j \in DOMAIN s :
        s[i].id = s[j].id => i = j \/ s[i].id \in LegacyTwins
DistinctURLs(s) ==
    \A i, j \in DOMAIN s : RuntimeURL(s[i]) = RuntimeURL(s[j]) => i = j

(* The two lists a start may write: the shipped one has every identifier   *)
(* and every URL once, the one from config.json every URL                  *)
(* (settings.go:59-68).                                                    *)
ASSUME SourceAssumption ==
    /\ Nil \notin Urls \cup Contents
    /\ Free \notin Handlers
    /\ \A s \in {Shipped, Legacy} : s \in Seq(Sources) /\ DistinctURLs(s)
    /\ \A i, j \in DOMAIN Shipped : Shipped[i].id = Shipped[j].id => i = j

(* The hash of the URL, or of the content when there is no URL.            *)
GenerateID(u, c) == Hash[IF u # Nil THEN u ELSE c]

\* Mutant of FindByRef: only an identifier finds a source.
FindByID(s, ref) == {i \in DOMAIN s : s[i].id = ref}

FindByRef(s, ref) ==
    {i \in DOMAIN s : ref \in {s[i].id, s[i].url, RuntimeURL(s[i])}}

First(indices) == CHOOSE i \in indices : \A j \in indices : i <= j

(* The URLs a request for the references in refs will fetch: all of the    *)
(* enabled ones if there are none, and the references themselves when the  *)
(* list cannot be read.                                                    *)
EnabledRuntimeURLs(refs) ==
    IF ~Parses THEN refs
    ELSE IF refs = {}
    THEN {RuntimeURL(s) : s \in {LoadAll[i] : i \in
             {j \in DOMAIN LoadAll : LoadAll[j].on}}}
    ELSE UNION {LET found == FindByRef(LoadAll, ref)
                    s == LoadAll[First(found)]
                IN  IF found = {} THEN {ref}
                    ELSE IF s.on THEN {RuntimeURL(s)}
                    ELSE {} : ref \in refs}

-----------------------------------------------------------------------------
IdleJob == [pc |-> "idle"]

Held == [whole |-> Parses, list |-> LoadAll]

Truncate == srcFile' = TornList /\ truncated' = Held
Keep == UNCHANGED <<srcFile, truncated>>

SourceInit ==
    /\ srcPhase = "defaults"
    /\ srcFile = NoList
    /\ truncated = [whole |-> TRUE, list |-> <<>>]
    /\ job = [h \in Handlers |-> IdleJob]
    /\ configMutex = Free
    /\ retargeted = FALSE
    /\ srcWrecked = FALSE
    /\ srcChanges = 0
    /\ srcCrashes = 0
    /\ srcFailures = 0

SourceTypeOK ==
    /\ srcPhase \in {"defaults", "copying", "migrate", "migrating", "up"}
    /\ srcFile \in {NoList, TornList} \cup [state : {"ok"}, list : Seq(Sources)]
    /\ truncated \in [whole : BOOLEAN, list : Seq(Sources)]
    /\ job \in [Handlers -> {IdleJob} \cup
                  [pc : {"loaded", "write"}, new : Seq(Sources)]]
    /\ configMutex \in Handlers \cup {Free}
    /\ retargeted \in BOOLEAN /\ srcWrecked \in BOOLEAN
    /\ {srcChanges, srcCrashes, srcFailures} \subseteq Nat

-----------------------------------------------------------------------------
(* The start: the shipped list if the file does not exist, whatever it     *)
(* holds; then the legacy one if the list is empty or does not parse.      *)

Booted(from, to) ==
    /\ srcPhase = from
    /\ srcPhase' = to
    /\ UNCHANGED <<job, configMutex, srcChanges>>

InitDefaults ==
    /\ \/ /\ srcFile = NoList /\ Shipped # <<>>
          /\ Truncate
          /\ Booted("defaults", "copying")
       \/ /\ srcFile # NoList \/ Shipped = <<>>
          /\ Keep
          /\ Booted("defaults", "migrate")
    /\ UNCHANGED srcHistory

\* Mutant of MigrateLegacySources: a list that was read is replaced too.
MigrateAlways ==
    /\ Legacy # <<>>
    /\ Truncate
    /\ Booted("migrate", "migrating")
    /\ UNCHANGED srcHistory

MigrateLegacySources ==
    /\ \/ /\ LoadAll = <<>> /\ Legacy # <<>>
          /\ Truncate
          /\ Booted("migrate", "migrating")
       \/ /\ LoadAll # <<>> \/ Legacy = <<>>
          /\ Keep
          /\ Booted("migrate", "up")
    /\ UNCHANGED srcHistory

WriteOk(list) ==
    /\ srcFile' = List(list)
    /\ UNCHANGED <<truncated, srcHistory>>

WriteFailed ==
    /\ srcFailures < MaxSourceFailures
    /\ srcFailures' = srcFailures + 1
    /\ srcWrecked' = TRUE
    /\ Keep
    /\ UNCHANGED <<retargeted, srcCrashes>>

BootWrite ==
    \/ Booted("copying", "migrate") /\ (WriteOk(Shipped) \/ WriteFailed)
    \/ Booted("migrating", "up") /\ (WriteOk(Legacy) \/ WriteFailed)

-----------------------------------------------------------------------------
(* The handlers.  Each locks, loads, checks and computes the new list ...  *)

\* Mutant of Loaded: the list is loaded before the mutex is locked.
LoadedUnlocked(h, new) ==
    /\ srcPhase = "up"
    /\ srcChanges < MaxSourceChanges
    /\ job[h] = IdleJob
    /\ Parses
    /\ srcChanges' = srcChanges + 1
    /\ job' = [job EXCEPT ![h] = [pc |-> "loaded", new |-> new]]
    /\ Keep
    /\ UNCHANGED <<srcPhase, configMutex>>

Loaded(h, new) ==
    /\ srcPhase = "up"
    /\ srcChanges < MaxSourceChanges
    /\ job[h] = IdleJob
    /\ configMutex = Free
    /\ Parses
    /\ srcChanges' = srcChanges + 1
    /\ configMutex' = h
    /\ job' = [job EXCEPT ![h] = [pc |-> "loaded", new |-> new]]
    /\ Keep
    /\ UNCHANGED srcPhase

\* Mutant of Duplicate: only the URL that would be fetched is compared.
SameURL(s, new) == RuntimeURL(s) = RuntimeURL(new)

\* Mutant of Duplicate: only the identifiers are compared.
SameID(s, new) == s.id = new.id

Duplicate(s, new) == s.id = new.id \/ RuntimeURL(s) = RuntimeURL(new)

AddSource(h) ==
    \E u \in Urls \cup {Nil}, c \in Contents \cup {Nil}, on \in BOOLEAN :
        LET new == [id |-> GenerateID(u, c), url |-> u, content |-> c,
                    on |-> on]
        IN  /\ u # Nil \/ c # Nil
            /\ \A i \in DOMAIN LoadAll : ~Duplicate(LoadAll[i], new)
            /\ Loaded(h, Append(LoadAll, new))
            /\ UNCHANGED srcHistory

Without(s, id) == Sublist(s, {i \in DOMAIN s : s[i].id # id})

DeleteSource(h) ==
    \E i \in DOMAIN LoadAll :
        /\ Loaded(h, Without(LoadAll, LoadAll[i].id))
        /\ UNCHANGED srcHistory

(* The first source with that identifier changes; an empty field of the    *)
(* request keeps the old value.  Nothing compares it with the others.      *)
UpdateSource(h) ==
    \E ref \in {LoadAll[i].id : i \in DOMAIN LoadAll},
       u \in Urls \cup {Nil}, c \in Contents \cup {Nil}, on \in BOOLEAN :
        LET i == First(FindByID(LoadAll, ref))
            old == LoadAll[i]
            new == [old EXCEPT !.on = on,
                               !.url = IF u = Nil THEN @ ELSE u,
                               !.content = IF c = Nil THEN @ ELSE c]
        IN  /\ Loaded(h, [LoadAll EXCEPT ![i] = new])
            /\ retargeted' =
                  (retargeted \/ <<new.url, new.content>> # <<old.url, old.content>>)
            /\ UNCHANGED <<srcWrecked, srcCrashes, srcFailures>>

(* ... and saves it.                                                       *)
StartSave(h) ==
    /\ job[h].pc = "loaded"
    /\ Truncate
    /\ job' = [job EXCEPT ![h].pc = "write"]
    /\ UNCHANGED <<srcPhase, configMutex, srcChanges, srcHistory>>

EndSave(h) ==
    /\ job[h].pc = "write"
    /\ WriteOk(job[h].new) \/ WriteFailed
    /\ job' = [job EXCEPT ![h] = IdleJob]
    /\ configMutex' = Free
    /\ UNCHANGED <<srcPhase, srcChanges>>

(* The process ends at any moment, and is started again.                   *)
SourceCrash ==
    /\ srcCrashes < MaxSourceCrashes
    /\ srcCrashes' = srcCrashes + 1
    /\ srcPhase' = "defaults"
    /\ job' = [h \in Handlers |-> IdleJob]
    /\ configMutex' = Free
    /\ srcWrecked' = (srcWrecked \/ srcFile = TornList)
    /\ Keep
    /\ UNCHANGED <<retargeted, srcChanges, srcFailures>>

SourceNext ==
    \/ InitDefaults \/ MigrateLegacySources \/ BootWrite \/ SourceCrash
    \/ \E h \in Handlers :
          \/ AddSource(h) \/ DeleteSource(h) \/ UpdateSource(h)
          \/ StartSave(h) \/ EndSave(h)

SourceSpec == SourceInit /\ [][SourceNext]_srcVars

-----------------------------------------------------------------------------
(* No two sources have the same identifier, although an update moves a     *)
(* source to a URL other than the one its identifier was made from, and    *)
(* however requests, restarts and failures interleave, unless the list     *)
(* that was migrated from config.json already had it twice: the handlers   *)
(* address sources by identifier (source_management.go:64-70).             *)
IdsUnique == DistinctIds(LoadAll)

(* No two sources are fetched from the same URL, unless an update gave a   *)
(* source another URL or content, which nothing compares with the rest     *)
(* (source_management.go:160-165).                                         *)
UrlsDistinctUnlessRetargeted == ~retargeted => DistinctURLs(LoadAll)

(* A source that is off is fetched for no request that names it, by its    *)
(* identifier or by either of its URLs, as long as the file can be read    *)
(* and no update has given a source another URL or content.  The first     *)
(* entry that fits a name counts, and may be another source.  A file that  *)
(* cannot be read has every reference fetched as it is (source.go:106-110).*)
OffStaysOff ==
    (Parses /\ ~retargeted) =>
        \A i \in DOMAIN LoadAll :
            LET s == LoadAll[i]
            IN  ~s.on => \A ref \in {s.id, s.url, RuntimeURL(s)} \ {Nil} :
                            RuntimeURL(s) \notin EnabledRuntimeURLs({ref})

(* The file and the requests in progress implement one list changed by     *)
(* whole requests, one at a time (SourceBook): a list that is being        *)
(* written is still the old one, no change is lost to another request, and *)
(* a start fills the list only when it is empty or unreadable              *)
(* (source_management.go:41-76, settings.go:44-48).                        *)
BookNow ==
    IF \/ srcPhase \in {"copying", "migrating"}
       \/ \E h \in Handlers : job[h].pc = "write"
    THEN truncated ELSE Held

Book == INSTANCE SourceBook WITH Seeds <- {Shipped, Legacy}, book <- BookNow

ImplementsBook == Book!BookSpec
=============================================================================
