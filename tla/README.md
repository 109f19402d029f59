# go-sub in TLA+

go-sub is a self-hosted proxy-subscription aggregator written in Go. It fetches
subscription bodies from upstream servers ("sources"), parses them into proxy
nodes, merges, filters, renames and routes these, and serves the result in the
format of the client that asks. This directory holds TLA+ models of its core,
the TLC configurations that check them on small instances, and proofs checked by
TLAPS that hold for every value of the constants.

Paths below are relative to `src/internal/` unless they start with `src/`.

## 1. Inventory of the system

| Component | State it keeps | Operations | What is hard about it |
|---|---|---|---|
| cache (`cache/cache.go`) | a map of items with deadlines under one mutex; `data/cache/<hash>.cache` and `.cache.tmp` | `Set`, `SetWithDisk`, `Get`, `GetStale`, `DeleteByPrefix`, `InitDiskCache` | persists and removals run in goroutines after the unlock, in any order, and share one temporary path per key; crashes between system calls |
| provider (`provider/provider.go`) | none of its own; the cache, by source URL | `FetchAndParseYAML` | reads the cache, fetches, writes the cache, clears "filter:", parses: five steps other requests interleave with |
| serving (`handler/sub.go`, `handler/filter.go`) | the cache, by "sub:..." and "filter:..." | `SubHandler`, `FilterHandler`, `GeneratePreviewHandler`, `SimulateHandler` | the output is stored when the request ends, long after its inputs were read; background run after `GetStale` |
| refresh (`handler/test.go`, `handler/source_refresh.go`, `handler/source_data.go`, `scheduler/scheduler.go`) | runtime status map; the cache | test one source, refresh all, read one, periodic refresh | forced fetches followed by invalidations, racing with serving; semaphore of eight |
| source list (`handler/source.go`, `handler/source_status.go`) | status of the last fetch per source; the set of background fetches running | list with node counts | single-flight fetch in the background, status fallback |
| source store (`source/source.go`, `handler/source_management.go`, `settings/`, `datastore/`) | `sources.json`, `settings.json` | add, update, delete, toggle, legacy migration | load-modify-save under `configMutex`, readers outside it; `WriteJSON` truncates and writes |
| profile store (`rule/rule.go`, `handler/profile.go`) | map of profiles under an RWMutex; `profiles.json` | create, update, delete, clone, load, save | saves run in goroutines from snapshots of pointers, without order |
| routing and rule-set stores (`routing/routing.go`, `ruleset/ruleset.go`) | maps under RWMutex; their JSON files | same, plus `EnsureDefault` at start | a file that does not parse is taken as empty |
| pipeline (`pipeline/pipeline.go`) | none | `Run`: parallel fetch, merge, deduplicate, prefix, rules, routing, convert | merge in completion order |
| rule engine (`rule/engine.go`), nodes (`proxy/`), routing rules (`routing/engine.go`) | none | filters, script, overrides, renaming, sorting, groups and rules | order of the steps, name collisions, dangling group names |
| admin account (`auth/`, `handler/auth.go`) | one record in memory; `auth.json` | setup, login, change password, token check | copy, hash, write back: lost updates |
| parsers, converters | none | text to nodes and back | fallback order; data conversion otherwise |
| region lookup (`geoip/`) | the cache | batch of ten lookups | bounded batch |
| router, middleware, version, configuration, main | fixed after the start | - | boot order only |

How they interact. Handlers call the pipeline, which calls the provider once per
source in parallel goroutines and waits for all. Everything meets in the cache:
provider stores bodies with `SetWithDisk`, handlers store outputs with `Set`, and
the refresh and update paths invalidate outputs with `DeleteByPrefix`. There are
no messages between components except function calls and goroutine starts; what
makes the system concurrent is that each HTTP request is a goroutine and that the
cache calls of one request are separate critical sections.

What makes each component correct:

- cache: nothing expired is served by `Get`; no item mixes the value or deadline
  of two calls; a cache file is replaced atomically; disk follows memory; a
  persist takes effect; a restart restores only what was stored and is alive.
- serving and refresh: the age of what a client gets is bounded; a finished
  refresh is not undone by an older body; every request ends.
- profile store: once no save is in flight the file holds what memory holds, and
  every save ends; what was saved is what a restart loads.
- source store: one list, changed by whole requests one at a time; identifiers are
  unique; a source that is off is not fetched.
- source list: one background fetch per source, however many requests ask for it.
- routing and rule-set stores: what was answered is there after a restart. Catalogue:
  requests that decode into one shared slice leave it whole.
- pipeline and rule engine: every endpoint that passes the filters once and nothing
  else; a prefix names the right source; names are in order; every run ends.
- routing rules and converters: every rule and group member leads to something that is
  in the document; all clients treat a connection alike.
- parsers: a node that goes out as a link comes back as it was.
- admin account: a changed password stays changed; a token outlives a restart.

## 2. Modules

| Module | What it is |
|---|---|
| `TtlStore` | abstract specification: what callers may rely on when they use `cache` |
| `Cache` | `cache/cache.go` in detail: the map, the files, the disk goroutines one system call at a time, failed writes, crash and reload |
| `MCCache` | values for its constants |
| `CacheProofs` | the theorems about `Cache` and their proofs |
| `Subscription` | source cache and output cache with every request and goroutine that reads, fills or clears them |
| `MCSubscription` | values for its constants |
| `ProfileStore` | `rule/rule.go` with `datastore/datastore.go`: profiles in memory, `Save` step by step, the file, crash and load |
| `MCProfileStore` | values for its constants |
| `ProfileProofs` | the theorems about `ProfileStore` and their proofs |
| `SubscriptionProofs` | the theorems about `Subscription` and their proofs |
| `Auth` | the administrator's account: start, login, set-up, change of password, save |
| `SourceBook` | abstract specification: one list of sources changed by whole requests |
| `SourceStore` | `sources.json` and the handlers that change it, step by step; implements `SourceBook` |
| `SourceList` | the list of sources with its background fetches |
| `SourceProofs` | the theorems about `SourceStore`, its refinement of `SourceBook`, and `SourceList` |
| `NamedStore` | routing profiles and rule sets |
| `Catalog` | the catalogue of rules and the slice that requests fill under a read lock |
| `MCStores` | `Auth`, `SourceStore`, `SourceList`, `NamedStore` and `Catalog` in one instance |
| `StoreProofs` | the theorems about `Auth`, `NamedStore`, `Catalog`, and the stores side by side |
| `RuleEngine` | filters, script, overrides, renaming and sorting, as operators |
| `Pipeline` | `pipeline.Run`: parallel fetches, merge, and what follows; extends `RuleEngine` |
| `PipelineProofs` | the theorems about `Pipeline` and what they need to know of `RuleEngine` |
| `Routing` | groups, rule providers and rules of a routing profile, as operators |
| `Converters` | the document of each client type: which nodes, groups and rules it keeps and how it names them |
| `UriCodec` | links of six schemes, written by the base64 converter and read by the parser |
| `Rendering` | from a routing profile and a list of nodes to a document and back; extends the three |
| `RenderingProofs` | the theorems about `Rendering`, for any profile, nodes and client |
| `MCRender` | `Pipeline` and `Rendering` in one instance |
| `Sublists`, `SublistLemmas` | the lists that loops build, in forms that can be reasoned about, and the lemmas about them |
| `Maps` | `:>` and `@@` by definition, where proofs have to look into a map |

`MCStores` and `MCRender` put components that share no variable in one instance: `Init`
picks one of them (`active`) and only that one moves. The product of their states would
show nothing more, since no step of one reads what another one writes. Constants that are
functions, records or lists get their values by `<-` from definitions of these two modules.

A Go loop that keeps some elements of a list is `Sublist(s, I)`, the elements of `s` at
the indices in `I`, in order; a loop that appends several elements at each turn is
`Joined` of the lists it appends. They are what `SelectSeq` and a fold compute, without
the recursion the provers cannot look into.

`Cache` instantiates `TtlStore` with the identity on `now`, `memCache`, `sets`
and `reply`: the files and goroutines are what the abstract store hides.
`Subscription` uses the cache at the level of `TtlStore`: one call, one step, and
after a restart an entry that is alive may or may not come back. That is the
interface the refinement theorem justifies.

### Cache

| Model | Code |
|---|---|
| `memCache[k]`: value, deadline, and whether the value still has its Go type | `globalCache`, `cacheItem` |
| `cacheFile`, `tmpFile`: none, empty, torn, or whole with value and deadline | the two paths of a key |
| `goroutine[g]`: program counter, arguments, and where the open file now lives | one `go persistToDisk(...)` or `go removeFromDisk(...)` |
| `Set`, `SetWithDisk`, `GetHit`, `GetExpired`, `GetStale`, `DeleteByPrefix` | the exported functions; each holds the mutex for its whole body, so it is one action |
| `OpenTmp`, `Write`, `Rename`, `Remove`, `WriteFails` | the system calls of `persistToDisk` and `removeFromDisk` |
| `Crash`, `InitDiskCache` | the process stops; `loadFromDisk` at the next start |

A file that a goroutine holds open may meanwhile be renamed or removed by
another one. `at` follows it: a write through a descriptor goes to the file, not
to the path, so it may land in the published cache file or in a file with no
name. Two writes to one file may leave the tail of the longer one; that outcome
is the `TornFile` alternative of `Overwritten`.

History variables: `sets` (each call that stored something), `overlapped` (keys
two goroutines have persisted at the same time), `contended` (keys with two
goroutines of any kind at the same time). They say under which interleavings a
property is claimed; no action reads them, apart from the bound on `sets`.

### Subscription

| Model | Code |
|---|---|
| `srcCache`, `srcFile` | cached body of a source in memory, and the one a restart would load |
| `outCache` | entries under "sub:" and "filter:" (one profile, client type and query) |
| `req[r]`, `leg[r][s]` | a request in progress, and the progress of its fetch of source `s` |
| `OutputHit`, `OutputMiss`, `StaleHit`, `StaleMiss`, `Build` | `SubHandler`, `FilterHandler` |
| `Preview`, `Simulate`, `Drop` | `GeneratePreviewHandler`, `SimulateHandler` |
| `Load` | `SourceDataHandler`, one goroutine of the scheduler's `refreshAllSources` |
| `Test`, `EndTest` | `TestSourceHandler` |
| `Refresh`, `ClearSub`, `ClearFilter` | `RefreshSourcesHandler` |
| `Peek`, `Look`, `Respond`, `Store`, `Invalidate` | the loop of `FilterHandler`, `FetchAndParseYAML` |
| `Restart`, `Tick` | crash and start; the clock |

A body is abstracted to the time its server answered, whether nodes can be
parsed from it, and `held`, the time it was on its way. An answer is the set of
bodies in it. `tested[s]` is the time of the body obtained by the last finished
test or refresh of `s`; `raced` holds the sources for which another request was
in progress during it.

### ProfileStore

| Model | Code |
|---|---|
| `profiles`, `fields` | the manager's map; what its pointers point to |
| `saver[s]` | a call of `Save`: its list of pointers, and what it has read of each |
| `mu` | the mutex of `datastore` |
| `file` | `data/profiles.json`: none, broken (truncated or torn), or whole |
| `NewProfile`, `UpdateProfile`, `DeleteProfile` | the methods, each one critical section of the manager's lock, plus the start of a `Save` |
| `List`, `Lock`, `Read`, `Truncate`, `Write`, `SaveFails` | `Save`: list under the read lock; then under `mu` marshal, open with O_TRUNC, write, or fail and return |
| `Crash`, `InitManager` | the process stops; `Load`, whose error is dropped |

`Save` follows pointers after it has released the read lock, while `UpdateProfile`
may assign the fields it reads: a data race. A profile has two fields here, `enabled`
and one for all text fields. An update is one step, and the reads of one `Save`
come in any order, so every mixture of an old and a new version can be read.
History variables: `snapshots` numbers the lists, `written` is the number of the
last one written, `last` says how the last `Save` that tried to write ended.

### Auth

| Model | Code |
|---|---|
| `cfg`, `authFile`, `saveMu` | `auth.cfg` under `mu`, `data/auth.json`, `auth.saveMu` |
| `req[r]`: where it is, the new password, the copy it works on | a request in `SetupHandler` or `ChangePasswordHandler` |
| `BootLoad`, `BootSave` | `Init` at the start: read the file; draw a secret and save it if there is none |
| `Login` | `LoginHandler`: a token is signed with the secret in memory |
| `Setup`, `SetupCopy`, `ChangePassword`, `ChangeCheck` | the checks, the copy and the hash; bcrypt takes long, so others come between |
| `SaveStart`, `SaveEnd`, `WriteFails`, `Publish` | `SaveConfigSafe`: truncate, write, assign to `cfg` |
| `InitRead`, `InitLoad` | the `Init` each handler calls after its save: it reads the file without `saveMu`, then assigns |
| `AuthCrash` | the process stops and is started again |

A hash stands for the user name and password it was made from, a secret for the number of
the draw. History: `issued` (secrets tokens were signed with), `acked` (the last
password a client was told is set), `overlapped`, `authWrecked` (a write failed or was
cut short).

### SourceStore and SourceBook

| Model | Code |
|---|---|
| `srcFile`, `configMutex` | `data/sources.json`, the mutex of `source_management.go` |
| `srcPhase`, `InitDefaults`, `MigrateLegacySources`, `BootWrite` | the start: the shipped file if there is none, then the sources of `config.json` if the list is empty or does not parse |
| `AddSource`, `DeleteSource`, `UpdateSource` | lock, load, check and compute the new list |
| `SaveStart`, `SaveEnd` | `SaveAll` through `WriteJSON`: open with O_TRUNC, then write, or fail |
| `EnabledRuntimeURLs`, `FindByRef` | what every reader does without the mutex |
| `SourceCrash` | the process stops and is started again |

`SourceStore` implements `SourceBook` under this mapping: while a list is being written
the book is what the file held when it was truncated (`truncated`), otherwise it is what
the file holds, and a torn file is a book that is lost. A crash between truncation and
write is thus the step `BookLose`, and no other step loses a change.

`Shipped` is the list of the shipped file, `Legacy` what the start makes of `config.json`.
The migration takes each URL to be fetched (`RuntimeURL`) once; two sources with one URL
and different contents are fetched from different `data:` URLs and have one identifier
(`LegacyTwins`). The list of the instance has two such sources.

### SourceList

| Model | Code |
|---|---|
| `entry[u]` | the cached body of a source: none, a `CachedItem`, or read back from disk without its type |
| `status`, `inFlight` | `sourceStatusMap`, `asyncFetchInFlight` |
| `Look`, `StartFetch`, `EndFetch` | `GetSourcesHandler` finds neither entry nor status; `LoadOrStore` and the goroutine; its end |
| `Record` | a fetch by hand in another handler, which leaves a status in any case |
| `Expire`, `ListRestart` | the deadline of an entry; a restart |

### NamedStore

`kind` says which of the two stores it is; the code differs only in what the start
does. `BootRouting` and `SavedDefault` load the routing profiles and let `EnsureDefault`
add, and save, the default one; `BootRuleSets` loads nothing, since nothing calls
`LoadFromConfig`. `Put` and `Delete` change the map under its lock; `Copy`, `WriteStart`
and `WriteEnd` are `saveToDisk`: copy under the read lock, then write under the mutex of
`datastore`; `NamedCrash` stops the process. History: `alone`, `unsaved` and `before`
(what the program held when it stopped, if the last change was alone, answered and
written).

### Catalog

`GetCatalog` decodes the file into the package variable `catalogData` under the read lock
only, so several requests may be at it.
The model keeps the length of that slice and how far each request has got in decoding:
`Decode` stores one element and extends the slice only past its length, `Decoded`
answers. `EnsureCatalogDefault` writes the file at the start, if there is none, in two
steps. Either may fail: at the open no file is left, at the write a part of one; the
error is logged and the program goes up. `CatalogCrash` may come between the two.
`catalogFailed` is history: the last write of the file failed or was cut short.

### Pipeline and RuleEngine

| Model | Code |
|---|---|
| `fetch[s]`, `Slots`, `StartFetch`, `EndFetch` | the goroutine of a source in `Run`; it needs a slot of the semaphore; at its end its nodes are appended to `merged` under the mutex |
| `Dedup`, `Validate`, `Engine`, `Tagged`, `SourceOf`, `Prefixed`, `Finish` | what `Run` does after `wg.Wait` |
| `DetectRegion`, `Passes`, `Scripted`, `ApplyOverrides`, `Renamed`, `ApplySort` | the functions of `rule/engine.go` in the order `Process` calls them |

A name is a sequence of symbols: words of letters and digits (`Letters`), words of another
script (`Wide`), separators, and the rest; a keyword of a region is a sequence of symbols too.
`Occurs` says where one is found: a keyword of ASCII only between word boundaries, another
one anywhere. `StripRegionKeywords` takes out the symbols of the occurrences, the longest keywords
first, and then turns every run of separators into one blank, as `region.go:128-225` does;
what it leaves is not looked at again, so a keyword may be left or put together.
Left out: the case of letters, names with a template variable in them, and symbols one
of which is the beginning of another; a server or a type in a name is one symbol.
`DetectRegion` returns a set, because the code goes through a Go map, in an order that
changes from call to call, and because a look-up by address may answer at one time and not
at another. A profile whose pattern does not compile (`compiles`) ends the run with an
error, as `NewEngine` does. A script is what the JavaScript library may make of a node: drop it,
fail, or set some of its fields.

In `StablySorted` the place of a node is the number of those that have to come before
it; where a comparison may answer differently from call to call, any order is possible
(`Permuted`). Nodes carry a number, their place in the merged list, since Go shares one map per
node between the merged list and the result: `Tagged` writes what the engine changed back under it.

### Rendering: Routing, Converters, UriCodec

`Build` is the end of `Run` (`BuildConfig` of the effective routing profile), `Convert`
the converter that `GetConverter` picks for the client, `ReadDocument` the provider of
another instance that has this document as a source, and `ReadStripped` the same after
the leading comment has been taken away. A group is its name, type and members; a rule is a
tuple of its parts; a link is a record of the fields its scheme writes, with the encoding
of each one (`EscapeName`, padding, blanks as "+") applied where the code applies it.
`Texts` is what names, URLs and the fields of a rule may be; TLC takes every string, the
theorems any set with the names and words the program writes itself.

A routing profile is what an administrator typed, so the properties name what they need of it:

- `CommaFree`: no item has a comma in its name. A rule is a line with commas between its
  fields, and the name is escaped in some places and not in others.
- `PayloadsAreRules` (`IsRule`): a payload is free text. It is a rule when it is `MATCH`
  or has a kind and an argument and, after these, at most `no-resolve` or a policy that is
  built in. Text of any other form is copied into the document as it is.
- `NoCatchAll`: no payload is `MATCH`; what comes after one is never asked.
- `OneItemPerName`: no two items for rule sets have one name. Providers are named after the
  item and the place of the URL in it, so those of the second item overwrite those of
  the first, and a rule set leads where the other one's URL should.

A node is a function from the fields it has. `reality-opts` and `ws-headers` say whether
the maps of that name are there, apart from their entries `public-key`, `short-id` and
`Host`, any of which may be missing: the converter prints a missing entry as `<nil>`
(`Printed`). A map of headers that came from a link has a Go type the converter does not
look into; its value is "texts", that of one from YAML "map".

`Kept` says, scheme by scheme, which fields a node has after it went out as a link and came
back: type and server always, and the port of a node that has one; the secrets of all but
trojan and hysteria2; path, service name, flow and alpn of vless; of its REALITY keys
those the node has; the Host of a websocket if it is in a map from YAML; obfuscation; sni
where the parser reads what the converter wrote.

## 3. Runs

| Run | Instance | What it shows |
|---|---|---|
| `CacheFull` | one persisted key, one output key, two values, two goroutines, clock to 2, two stores, one crash, one failed write | `TypeOK`, `ServedWithinTTL`, `StoredWasSet`, `AtomicReplace`, `DiskFollowsMemory`; that `Cache` implements `TtlStore`; under fairness, `PersistLands` |
| `SubSafety` | one remote source, two requests of the kinds sub, filter, run (the profile simulation), test, restarts, clock to 2 | `TypeOK`, `AgeBound`, `LoneRefreshSticks` |
| `SubTwo` | a local and a remote source, two requests of the kinds sub, filter, refresh | `LoneRefreshSticks` for the refresh of all sources |
| `SubLive` | one source that may answer well, badly or not, two requests of the kinds sub, filter, preview, load, restarts, under fairness | `RequestsEnd` |
| `ProfileStore` | two profiles, two calls of `Save` at once, three changes, one crash, one failed write, under fairness | `TypeOK`, `FieldsAreSaved`, `MembersAreSaved`, `SavesEnd` |
| `Stores` | two requests at a time in each store, two restarts, one failed write; three categories and three readers | `TypeOK`, `TokensValid`, `LonePasswordSticks`, `IdsUnique`, `UrlsDistinctUnlessRetargeted`, `OffStaysOff`, `SingleFlight`, `RoutingSurvivesRestart`, `WholeOnceQuiet`, `EmptyOnlyAfterFailure`; that `SourceStore` implements `SourceBook` |
| `Render` | three sources and two slots, six answers, nine profiles and one that does not compile; six sets of routing profiles, five lists of nodes, ten client types; under fairness | `OneNodePerEndpoint`, `PrefixTruthful`, `EndpointsKept`, `CodesInOrder`, `NamesInOrder`, `TargetsResolve`, `MembersResolve`, `SelectorsHaveDefault`, `SamePolicy`, `RuleSetsRouted`, `ReimportKeeps`, `RunEnds` |
| `SubRace` | the kinds sub and test | `RefreshSticks` is violated: a counterexample to a comment in the code |
| `SubStale` | one request | `ExpiredKeptForGetStale` is violated: a counterexample to `src/README.md` |
| `ProfileEnabled` | one profile, one call of `Save`, a crash | `OnlyOldProfilesMigrated` is violated: a counterexample to a comment |
| `RuleSetsLost` | as `Stores` | `RuleSetsSurviveRestart` is violated: rule sets are saved and never loaded |
| `Base64Comment` | as `Render` | `Base64ListReads` is violated: a counterexample to `src/README.md` |

Bounds. Every hazard of the cache is between two goroutines of one key, since
goroutines of different keys share neither path nor memory; two goroutines and
two stores give every order of open, write, rename and remove of a pair. With a
time to live of 1 and a clock up to 2 an entry can be alive, exactly at its
deadline, and past it. `DeleteByPrefix` needs a key of the other sort, so there
is one output key. In `Subscription` a race is between a request and one that
changes a cache under it, so two requests at once are the least and each of
them is reused after it ends. Times to live of 1 and 0 put the boundary inside
the clock's range; the defaults are 60 and 10 minutes
(`appconfig/config.go`), so the larger one is the source's. In `ProfileStore` two
calls of `Save` list and lock in either order, and a third change gives a `Save` that
starts after one of them has ended; one failure is enough for a success before and
after it. Bounds are named
constants: `Goroutines`, `MaxTime`, `MaxSets`, `MaxCrashes`, `MaxFailures`,
`Requests`, `Savers`, `MaxChanges`. The bounds on `Goroutines` and `Savers` also
delay a call that would need one more goroutine; in the code goroutines are not
limited, and the theorems hold for any number of them. `CacheFull` runs without
deadlock checking, because its bounds stop it when the clock and the stores are
used up and the map is empty; so do `ProfileStore` and `ProfileEnabled`, when the
changes are used up, `Stores` and `RuleSetsLost`, when a store has used its bounds, and
`Render` and `Base64Comment`, when the run has its result.

In `Stores` a lost update needs two requests between copy and assignment (`Reqs`,
`Handlers`, `Clients`, `Listings`), and two passwords, URLs and entries tell the result of one
from that of the other. Three changes of the list of sources give an add, an update that
makes two entries alike, and a change that meets them. The bounds
`MaxAuthCrashes` and `MaxNamedCrashes` are 2, for a crash during the start that
follows a crash; `MaxSourceCrashes` is 1, and a failed write gives
the other broken start. Three readers of a catalogue of three categories put one at the
start, one in the middle and one at the end. In `Render` there is one source more than
slots, so a fetch waits; the answers hold nodes that are equal, incomplete, of two
regions or of none, and the profiles switch on each part of the engine and the pairs
that interact (script and sort, overrides and prefix, filter and prefix). The routing profiles
hold names with commas, a URL used twice, a catch-all in the middle, options after the
policy, members that are no group, two items of one name, and items with payload and URLs; the nodes have each
scheme, with and without TLS, REALITY and transports.

Symmetry is used in `SubSafety` and `SubTwo`, which check invariants only;
requests appear in no property there except under a quantifier.

Fairness. `Cache` assumes weak fairness of each disk goroutine: its system calls
never block on another goroutine, so the Go scheduler runs it to the end. It
assumes nothing of the calls, of failures or of crashes. `Subscription` assumes
weak fairness of the next step of each request: a goroutine that can run does,
and an HTTP exchange ends, because the client is created with a timeout and
`Respond` includes the error. `ProfileStore`
assumes weak fairness of the steps of a `Save`, and strong fairness of its `Lock`,
which is enabled only while the mutex is free: `sync.Mutex` hands over to a waiter
that has waited too long, so none starves. `MCRender` assumes weak fairness of the
pipeline: each fetch has a timeout and gives its slot back, so `wg.Wait` returns;
which fetch moves next is left open. `PersistLands` excludes runs in which the process
stops or a write fails, and `RequestsEnd` counts a crash as the end of a
request, as it is.

What the properties say:

- `ServedWithinTTL`: what `Get` returns was stored under that key by one call
  and is no older than that call's time to live, also when it came back from a
  file that several goroutines wrote and removed, and across restarts.
- `StoredWasSet`: whatever memory, the cache file or the temporary file hold
  under a key is the value and deadline of one call. The races on the temporary
  path lose entries or tear them, and never mix two calls.
- `AtomicReplace`: unless two goroutines have persisted the same key at once, the
  cache file is never empty or torn. When they have, it can be: the
  temporary file of one is renamed by the other between open and write.
- `DiskFollowsMemory`: if goroutines of a key never ran together, then once they
  are done the file holds what the map holds. Without that condition it fails: an
  older persist may be the last to rename, and the removal of an expired entry
  may remove the file of a newer one.
- `PersistLands`: a persist that starts leads to a cache file for its key.
- `ImplementsTtlStore`: every behaviour of the code is one of the abstract store.
- `AgeBound`: what a client gets left the server no longer ago than both times to
  live plus the transfer, the building and the waiting time.
- `LoneRefreshSticks`: after a test or refresh of a remote source with no other request
  in progress, no older body of that source is served any more. After a restart this
  rests on a detail: the older body loaded from disk is not of type `CachedItem`, so the
  provider does not use it (`provider/provider.go:92-93`). It does not extend to local
  sources: a `data:` fetch clears neither cache (`provider/provider.go:64-84`) and
  `TestSourceHandler` clears only "sub:" (`handler/test.go:70`), so a `/filter` output
  made from the old content lives on until it expires.
- `RequestsEnd`: every request ends.
- `FieldsAreSaved`: when every `Save` is over and the last write succeeded, no
  profile in the file is behind the one in memory. It rests on the late reads: had
  `Save` copied the fields under the read lock, an older copy could be written last.
- `MembersAreSaved`: which profiles there are is listed early, so this needs that the
  list made last was also written last. Without it a deleted profile comes back
  after a restart, or a new one is lost.
- `SavesEnd`: every `Save` ends, and with it the request that created a profile.
- `TokensValid`: one secret is drawn in the life of `auth.json`, unless a write fails or
  is cut short, and no interleaving of set-ups and changes of the password brings
  another one into memory: no token is refused because of a restart or of a race.
- `LonePasswordSticks`: a password the client was told is set is in memory and in the file, if
  its request overlapped no other one. With an overlap it fails: both requests copy the
  configuration, and `Init` may read one version and assign it after the other was published.
- `IdsUnique`: no two sources have one identifier, but for those the list from `config.json`
  already had twice (`LegacyTwins`); `UrlsDistinctUnlessRetargeted`: no two are fetched from
  one URL, unless an update gave a source another one. Both fail if the list is
  loaded before the mutex is taken, or if `Add` compares less than it does.
- `OffStaysOff`: a source that is off is fetched for no request that names it, with two
  exceptions: while the file cannot be read, every reference is fetched as it is
  (`source/source.go:106-110`), and after an update another source may have the URL.
- `ImplementsBook`: the sources file with its two-step saves, the requests and the starts implement
  one list changed atomically; no change of one request is lost to another one.
- `SingleFlight`: the mark is in the map exactly while one goroutine fetches that source.
- `RoutingSurvivesRestart`: a start loads what the program held, given that the last
  change overlapped no other; saves copy and lock separately, so an older copy may
  otherwise be written last. The default profile is added to what was loaded and does
  not replace it, except when the file did not parse: then `EnsureDefault` writes over it.
- `WholeOnceQuiet`, `EmptyOnlyAfterFailure`: however many requests decode into the
  shared slice, it ends up nil or complete, and a request gets an empty answer only if
  the last write of the file failed or was cut short.
- `OneNodePerEndpoint`, `EndpointsKept`: an endpoint whose nodes all pass the filters is in
  the result once, whatever the order in which sources end; one whose nodes differ in
  this may be there or not, for deduplication comes first and keeps the node that came
  first. Neither holds if overrides or a script give nodes another server, or a script
  another type (`Moves`).
- `PrefixTruthful`: the map from endpoint to source is built from the merged list after the
  engine has changed its nodes, so the prefix may be wrong only when another source has
  the endpoint a node ends up with.
- `CodesInOrder`: names that begin with their code are in the order of their codes when
  the profile sorts by region. Renaming and sorting detect the region at different times,
  of different names, through a map without order; it does no harm, unless a name given
  still has two regions, from the template or from what stripping left.
- `NamesInOrder`: sorting, which comes last, sees the final names.
- `RunEnds`: every run ends, with fewer slots than sources.
- `TargetsResolve`: every rule of a document leads to a group of the document, or to
  DIRECT or REJECT, with three exceptions: the GEOIP and GEOSITE rules of sing-box and
  the GEOIP rules of Surge, which lead to no group whatever the profile (`Odd`); profiles
  with a comma in a name (`CommaFree`); and payloads that are no rules (`PayloadsAreRules`).
- `MembersResolve`, `SelectorsHaveDefault`: no group or selector of any document names
  something the document does not have, but for extra proxies the profile itself
  made up.
- `SamePolicy`: whatever a client cannot express, it takes the same decision as the
  configuration for what it can: no rule is shadowed that was not, none moves.
- `RuleSetsRouted`: a URL that two items use, or one with a payload, leads to the right item,
  as long as no two items for rule sets share a name.
- `ReimportKeeps`: what a node keeps from link to link, field by field (`Kept`), of the
  fields it has, and that it goes over TLS or REALITY as before.

Disagreements between documents and code:

- `RefreshSticks` (`SubRace`): `handler/test.go:70` says that all sub caches are
  invalidated because source data has changed. A `/sub` request that read the old
  body before the test stores its output after it, and the old output is served
  until it expires.
- `ExpiredKeptForGetStale` (`SubStale`): `src/README.md:142` says that an expired
  subscription is first answered with the old data and refreshed in the
  background. `SubHandler` calls `Get` first, which deletes the expired entry, so
  `GetStale` does not find it; it finds an entry only when another request has
  stored one between the two calls.

- `OnlyOldProfilesMigrated` (`ProfileEnabled`): the comment at `rule/rule.go:215`
  speaks of profiles created before the enabled field existed; `Load` enables every
  disabled profile, so one that was switched off serves again after a restart.
- `RuleSetsSurviveRestart` (`RuleSetsLost`): the comment at `ruleset/ruleset.go:52` says that
  `LoadFromConfig` loads from disk, and nothing calls it; the first change after a
  restart writes a file that holds only that change.
- `Base64ListReads` (`Base64Comment`): `src/README.md:228` says that the document is a
  base64 list; `converter/base64.go:31` puts a comment in front of it, and the program's
  own parser then finds no node.

Met while modelling, and in the models as they are, without a run of their own:

- Groups for Surge, Loon, Quantumult and sing-box hold no node: only Clash understands
  `include-all`. Sing-box also drops nodes of the types ss and ssr, takes the country of
  a GEOIP rule for its outbound, and Surge's GEOIP rules have no policy (`Odd`).
- A policy in a payload has its commas replaced and the name of the group has not, so a group
  with a comma is not found; `routing/engine_test.go:36` looks at the policy only.
- A link loses the password of trojan and hysteria2 and the transport of trojan; blanks
  in names become "+", ssr parameters lose their padding. The Host of a websocket is
  written only when `ws-headers` comes from YAML: the parser of links gives that map another
  Go type, so a node that came from a link loses its Host in the next one.
- What a node does not have is written all the same: a missing short-id, public-key or Host
  goes out, and comes back, as the text `<nil>` (`converter/base64.go:80`, `:187`, `:190`), a
  missing port as 0.
- The comment at `handler/source.go:32` and `src/README.md:141` say that a source that is not
  in the cache is fetched in the background. A source that failed once has a status, which
  hides the miss: it is not fetched again (`handler/source.go:64`); nor is one whose entry
  came back from disk.
- A catalogue file that the first write left in part, because it failed or was cut short, is
  served as empty until somebody deletes it; without a file, until the next start.
- The comment at `proxy/region.go:157` says that all known region keywords are removed.
  Stripping "JP Hong-Kong a" leaves "Hong Kong a", for the separators are normalised after
  the keywords are taken out; a name with two regions is then sorted by either of them.
- `src/README.md:103-109` describes `/rules/{id}.yaml`; no route leads to
  `RuleSetServeHandler`.
- A legacy `config.json` may hold lists that give two sources one identifier (`LegacyTwins`);
  the handlers, which look for an identifier, then change or delete the first of them.

## 4. Proofs

### Cache

`CacheProofs` proves, for any sets of keys, values, prefixes and goroutines, any
times to live in `Nat` and any bounds:

| Theorem | States |
|---|---|
| `Invariance` | `Spec => []IInv` |
| `TypeCorrect` | `Spec => []TypeOK` |
| `FreshAnswers` | `Spec => []ServedWithinTTL` |
| `NothingInvented` | `Spec => []StoredWasSet` |
| `PersistIsAtomic` | `Spec => []AtomicReplace` |
| `DiskIsLast` | `Spec => []DiskFollowsMemory` |
| `Refinement` | `Spec => ImplementsTtlStore` |

The one assumption is `CacheAssumption` of `Cache`: times to live and bounds are
natural numbers, persisted and other keys are distinct, and a prefix that is
cleared holds no persisted key ("sub:" and "filter:" against URLs). `MaxTime` and
the other bounds stay arbitrary naturals.

The properties are not inductive as they stand. The invariant `IInv` adds:

- `PersistsWhatWasSet`: what a goroutine is about to write is the value and
  deadline of one call, or the file it writes would not be (needed for
  `FilesWereSet`, hence for what `InitDiskCache` loads);
- `NoSetInFuture`: no recorded call is later than the clock, which is what turns
  "alive" into "within its time to live";
- `OneOwner` and `OwnsTmp`: on a key that is not in `overlapped` at most one
  goroutine persists, and the file it has open is the one at `path.tmp`, with its
  own bytes once written; so a rename publishes a whole file. These are what
  `AtomicReplace` needs, which by itself says nothing of `path.tmp`;
- `DiskInv`: on a key never contended, at most one goroutine of any kind exists,
  and if memory holds an item either its persist is in flight or the file holds
  it; a removal in flight means memory holds nothing. `DiskFollowsMemory` speaks
  only of the states in which all this is over.

Each conjunct is shown to be preserved action by action; the lemmas about
what a rename or a removal does to the other goroutines (`MovedCalls`, `RenameCalls`,
`RemoveCalls`) and about what a writer leaves in the files (`WriterFiles`) are stated
once and cited. The refinement
maps each exported function to the abstract step of its name, `GetExpired`,
`DeleteByPrefix` and `Crash` to `Forget`, `InitDiskCache` to `Reload`, and the disk
goroutines to a step that forgets nothing or a stutter.

### ProfileStore

`ProfileProofs` proves, for any profiles, any number of calls of `Save` at once and
any bounds:

| Theorem | States |
|---|---|
| `Invariance` | `Spec => []IInv` |
| `TypeCorrect` | `Spec => []TypeOK` |
| `FieldsSafe` | `Spec => []FieldsAreSaved` |
| `MembersSafe` | `Spec => []MembersAreSaved` |

Both properties speak of states in which no `Save` is in progress, so the invariant
has to say what holds meanwhile. `Exclusive`: `mu` is held by exactly the `Save` that
reads or writes, one that waits has read nothing, and one that writes has read
every field. `CopiesCurrent`: a field that was read and has changed since will be
read again, by a `Save` that has yet to lock. `FileCurrent`: the same for the file.
`LastList` and `FileComplete`: the last list, and the file that has it, agree with
memory, or a `Save` has yet to list. `ProfileStoreAssumption` says that bounds are
natural numbers and that the markers for "nobody" and "not read" are neither a
`Save` nor the value of a field.

### Subscription

`SubscriptionProofs` proves, for any sources, local and remote, any number of requests at once,
any kinds of requests, any outcomes of fetches and any times to live:

| Theorem | States |
|---|---|
| `Invariance` | `Spec => []IInv` |
| `TypeCorrect` | `Spec => []TypeOK` |
| `AnswersAge` | `Spec => []AgeBound` |
| `RefreshIsKept` | `Spec => []LoneRefreshSticks` |

`AgeBound` is about what a request has built, so `IInv` follows a body on its
way: `BodyAge` for the source cache, `LegAge` for a fetch in progress, `OutputAge` and
`StaleAge` for the output cache. For `LoneRefreshSticks` the invariant says of every place
that holds a body (`OutputSticks`, `BodySticks`, the legs) that it is no older than
the last lone refresh, and, while that refresh is in progress and still alone, what it has
already replaced and cleared (`LoneRenewal`). `Stages` ties these to where a request is:
`IdleFetchesNothing`, `AloneIsAlone`, `RenewsByForce`. The lemmas `FetchKeeps`, `BeginKeeps`,
`StaleAsked`, `EndKeeps` and `FinishKeeps` say what the parts common to several actions preserve; then there is one lemma per
action. `SubscriptionAssumption` says that local sources are sources, that times to live and
the clock's bound are natural numbers, and which kinds and outcomes there are.

### The stores

| Module | Theorem | States | Argument |
|---|---|---|---|
| `SourceProofs` | `OneFetch` | `ListSpec => []SingleFlight` | inductive together with the types: `LoadOrStore` sets the mark in the step that starts the goroutine |
| `StoreProofs` | `Whole`, `EmptyHasOneCause` | `WholeOnceQuiet`, `EmptyOnlyAfterFailure` | `Decoding`: what a request has decoded is in the slice, and the slice is never longer than the file; `FileState`: when the file may be absent or torn |
| `StoreProofs` | `RoutingIsKept` | `RoutingSurvivesRestart` | `Exclusive`, `AloneWrites`: who writes; `FileCurrent`: as long as changes are alone, the file holds memory or the one call in progress will write it; `HasDefault`, `Remembered`: what the start finds |
| `StoreProofs` | `TokensOutliveRestarts`, `PasswordIsKept` | `TokensValid`, `LonePasswordSticks` | `OneSecret`, `Secrets`: the one secret is in the file, in memory and in every copy a request works on; `Lone`, `Progress`, `Settled`: what a request that is alone knows at each step |
| `StoreProofs` | `EachStoreRuns`, `TypesHold` | `[]TypeOK` of `MCStores` | a behaviour of all stores is, for each of them, one of its own specification, so each theorem above holds of the program with all its stores |

They hold for any values of the constants that satisfy `CatalogAssumption`,
`NamedAssumption` and `AuthAssumption` (markers are distinct from data, the built-in
profile is an entry, and the catalogue has at least one category).

### SourceStore

`SourceProofs` proves, for any URLs, contents, names and handlers, any hash and any bounds:

| Theorem | States |
|---|---|
| `SourceInvariance` | `SourceSpec => []SrcInv` |
| `SourceTypes` | `SourceSpec => []SourceTypeOK` |
| `IdsStayUnique` | `SourceSpec => []IdsUnique` |
| `UrlsStayDistinct` | `SourceSpec => []UrlsDistinctUnlessRetargeted` |
| `OffSourcesStayOff` | `SourceSpec => []OffStaysOff` |
| `StoreIsBook` | `SourceSpec => ImplementsBook` |

That identifiers are unique is not inductive: a request checks a list it has read and
writes the new one two steps later. `SrcInv` adds `Turns` (a request in progress holds
`configMutex`, so nobody else writes in between), `Writes` (a file that is being written does
not parse, and the start writes only when there was nothing), `Pending` (what a request is
about to write is one change away from the list in the file, or from the one that was there
when it was truncated) and `PendingDistinct` (that list has distinct sources too). The
hash is not assumed to be injective: `AddSource` compares identifiers before it appends, and
nothing changes one afterwards.

The refinement maps the end of a save to the one step of the book that changes a list,
a crash or a failed write after the truncation to the step that loses it, the end of a
write of the start to the step that fills it, and all else to a stutter. `Pending` is what
makes the change a single one.

`SourceAssumption` says that markers are no URLs, contents or handlers, that both lists a
start may write have every URL to be fetched once, and that the shipped list has every
identifier once. Of the identifiers of a legacy list it says nothing.

### Pipeline

`PipelineProofs` proves, for any sources, slots, answers and profiles:

| Theorem | States |
|---|---|
| `PipeInvariance` | `PipeSpec => []PipeInv` |
| `EndpointsStayDistinct` | `PipeSpec => []OneNodePerEndpoint` |
| `EndpointsAreKept` | `PipeSpec => []EndpointsKept` |
| `PrefixesAreTrue` | `PipeSpec => []PrefixTruthful` |
| `CodesAreInOrder` | `PipeSpec => []CodesInOrder` |
| `NamesAreInOrder` | `PipeSpec => []NamesInOrder` |

`PipeInv` says that the nodes merged so far are numbered by their places and that the
result of a run that has ended is the merged list after `Dedup`, `Validate`, `Engine` and
`Prefixed`, for one of the outcomes of the look-ups. The work is in what these functions do
to a list of any length. The result is characterised place by place: a kept node is the merged
one at a place that survives deduplication and the filters, changed in place; a stable
sort only rearranges, and its places are a bijection (`Comes`). Then two places of the result with
one endpoint would be two first occurrences of it, a good endpoint has a first
occurrence that survives, and the map from endpoint to source, in which the last node of the
merged list counts, differs from the source of a node only if another source has its endpoint.

`CodesAreInOrder` needs that a name which begins with a code has that code among its regions
(`EngineAssumption`: every code is a keyword of itself), so that a name of one region is
sorted by the code it begins with.

`EngineAssumption` says that the order of symbols is total, that separators are neither letters nor
digits, that there are finitely many keywords, that every code is a keyword of itself,
and that a look-up of an address has an answer; `PipelineAssumption` that
answers are lists of nodes and that scripts, overrides and templates are of words.

### Rendering

`RenderingProofs` proves, for any routing profiles, nodes and clients:

| Theorem | States |
|---|---|
| `RenderInvariance` | `RenderSpec => []RenderInv` |
| `RulesLeadSomewhere` | `RenderSpec => []TargetsResolve` |
| `MembersAreThere` | `RenderSpec => []MembersResolve` |
| `SelectorsAreSet` | `RenderSpec => []SelectorsHaveDefault` |
| `ClientsAgree` | `RenderSpec => []SamePolicy` |
| `SetsAreRouted` | `RenderSpec => []RuleSetsRouted` |
| `LinksComeBack` | `RenderSpec => []ReimportKeeps` |

There are four steps and no concurrency, so `RenderInv` only says what each step made; the
theorems are about what `BuildConfig`, the converters and the codec make of any input.

- The rules of a configuration are the lines of the payloads, one for each rule set, the
  program's own, and one that takes all, at the end (`RulesAre`, `LinesAre`, `SetsAt` for
  the places of the RULE-SET lines). So each leads to an item or a group of the program.
- A converter gives, for each rule, the same rule or nothing (`CarriedIs`, `SameRule`, `Dropped`), in the
  order of the rules. The first rule of the document that matches a connection is then the
  image of the first of the configuration, unless that one was dropped (`DecidedAlike`).
- Groups are those of the items and the program's own, with members among a known
  set (`MembersAre`), and the selector's default is the first member it keeps (`DefaultsAre`).
- `SetsAreRouted` needs more: which provider a URL is under (none overwrites another if
  no two items share a name), and that the first RULE-SET line for a URL is that of the first item
  with it.
- For links, the lemmas of the section "Links" say which parameters each part of a query
  can have, hence that no part hides another. Only TLS and REALITY of vless share
  parameters: REALITY is put first, so its "security" and its server name win, which is
  what `params.Set` after `params.Set` does. Then one lemma for each scheme says what is kept.

`RenderingAssumption` says that what the program writes are texts, that profiles are lists of
items, that the two tables that replace commas have the same names in them, and that none of
the program's own names has a comma.

### Only model-checked

The liveness properties `PersistLands`, `RequestsEnd`, `SavesEnd` and `RunEnds`: liveness under
fairness is out of the prover's reach. Every invariant and every refinement that a passing run
checks has a theorem. What the runs with a counterexample show is no theorem either.

No theorem rests on recursion: what a loop computes is stated by the lemmas of
`SublistLemmas` about `Sublist` and `Joined`, whose proofs are by least and greatest
indices and not by induction over data. `NthIndex`: the indices that are kept are counted in
order, without a gap; `SublistIs`, `Places`: hence what is at each place; `JoinedIs`: the
elements of joined lists are those of the lists, in their order.

## 5. What is not modelled, and why

- A power failure that undoes completed writes: the code calls no fsync, and the
  model assumes completed system calls survive a crash of the process.
- Two keys with the same 64-bit file name hash.
- `cache.Delete`, which has no caller.
- The token that `Load` generates for a profile without one: it is not saved, so it
  changes at each start until something else is.
- The `url=` form of `/filter`, which fetches a list of URLs instead of the
  enabled sources and caches under its own key.
- Links and YAML documents that are malformed, ss links whose user part has reserved
  characters, the options of a node in the five formats other than links, and the
  fixed sections of each document.
- The helpers only `/filter` uses: `DeduplicateProxies`, `ValidateProxies`, `RenameProxies`,
  `UpdateProxyGroups`, `ExpandRegionNameFilter`.
- The cache entry of an address look-up and the batch of ten; an answer, in the models,
  is any of a set.
- `SaveCatalog`, `RuleSetServeHandler` and `RuleSet.ToYAML`, which nothing reaches.
- A write that fails before the file is truncated: a failed write, in the models, leaves
  a truncated file. The catalogue is the exception, since its file is written only once.
- Signature, hashing, expiry of tokens and the JavaScript interpreter; HTTP routing and
  headers, flags and configuration: no state of their own that changes after the start.

Some hazards are in the models and judged by no property. Of four of them no document of
the program as it is says what should happen: the last good body is deleted before its
replacement has arrived, and a status 200 with an unreadable body replaces a good one
(`cache/cache.go:71`, `provider/provider.go:139`; `src/docs/FEATURE_PLAN.md:142` wants the last
good body kept, the code keeps none); after a restart `FilterHandler` leaves out a source
whose cached entry has the generic type (`handler/filter.go:100`); the last `Save` to write
may hold an older list of profiles (`rule/rule.go:171`); and a reader that meets a
truncated sources file gets its references back as they are (`source/source.go:42`). Of
the fifth, a first fetch that failed hides its source from the background fetches
(`handler/source.go:64`), the documents do say otherwise, as section 3 reports.

## 6. What is left to do

1. The helpers of `/filter`, as operators next to those of `RuleEngine`, and the batch of
   address look-ups.
2. The `url=` form of `/filter` as another kind of request in `Subscription`.
3. A theorem that puts `Pipeline` and `Rendering` together: that the nodes the engine
   leaves are among those `Rendering` starts from.
