---------------------------- MODULE Subscription ----------------------------
(***************************************************************************)
(* The two caches between the upstream subscription servers and a client:  *)
(* the source cache (bodies of the sources, by URL) and the output cache   *)
(* (finished answers of /sub and /filter), with every request and          *)
(* goroutine that reads, fills or clears them: SubHandler, FilterHandler,  *)
(* GeneratePreviewHandler, SimulateHandler, TestSourceHandler,             *)
(* RefreshSourcesHandler, SourceDataHandler and the scheduler.             *)
(*                                                                         *)
(* Each call of internal/cache is one step here, as TtlStore allows, and   *)
(* other requests run between two of them.  A body is represented by the   *)
(* time the server answered, and by whether nodes can be parsed from it.   *)
(***************************************************************************)
EXTENDS Naturals

CONSTANTS
    Sources,      \* the enabled sources; a profile uses all of them
    LocalSources, \* those whose content is in a data: URL
    Requests,     \* bound: requests and background goroutines at once
    Kinds,        \* the kinds of request that arrive
    Outcomes,     \* what a fetch may end in
    SourceTTL,    \* appconfig CacheTTLMinutes
    OutputTTL,    \* appconfig FilterCacheTTLMinutes
    MaxTime,      \* bound on the clock
    Restarts      \* whether the process may crash and start again

AllKinds == {"sub", "filter", "preview", "run", "test", "refresh", "load"}

ASSUME SubscriptionAssumption ==
    /\ LocalSources \subseteq Sources
    /\ Kinds \subseteq AllKinds
    /\ Outcomes \subseteq {"good", "bad", "error"}
    /\ {SourceTTL, OutputTTL, MaxTime} \subseteq Nat
    /\ Restarts \in BOOLEAN

VARIABLES
    now,
    srcCache,     \* source -> cached body
    srcFile,      \* source -> body a restart would load from disk
    outCache,     \* "sub", "filter" -> cached answer
    req,          \* the requests in progress
    leg,          \* request, source -> how far FetchAndParseYAML is
    reply,        \* the answer just sent to a client, or Nothing
    tested,       \* history: source -> body of the last finished refresh
    raced         \* history: sources whose last refresh was not alone

vars == <<now, srcCache, srcFile, outCache, req, leg, reply, tested, raced>>

NoBody == [form |-> "none"]
Bodies == [form : {"typed", "generic"}, at : Nat, held : Nat, ok : BOOLEAN,
           exp : Nat]

Outputs == {"sub", "filter"}
Parts == [src : Sources, at : Nat, held : Nat]
NoOutput == [form |-> "none"]
Answers == [form : {"output"}, parts : SUBSET Parts, exp : Nat, took : Nat]

IdleReq == [kind |-> "idle"]
Active == [kind : AllKinds, pc : {"stale", "fetch", "clear"}, started : Nat,
           alone : BOOLEAN]
LegStates == {"off", "peek", "look", "http", "got", "stored", "done"}
Legs == [st : LegStates, at : Nat, held : Nat, ok : BOOLEAN]
Leg(st) == [st |-> st, at |-> 0, held |-> 0, ok |-> FALSE]

Nothing == [x |-> "none"]
Replies == [x : {"HIT", "STALE", "MISS"}, parts : SUBSET Parts, took : Nat,
            waited : Nat]

TypeOK ==
    /\ now \in Nat
    /\ srcCache \in [Sources -> Bodies \cup {NoBody}]
    /\ srcFile \in [Sources -> Bodies \cup {NoBody}]
    /\ outCache \in [Outputs -> Answers \cup {NoOutput}]
    /\ req \in [Requests -> Active \cup {IdleReq}]
    /\ leg \in [Requests -> [Sources -> Legs]]
    /\ reply \in Replies \cup {Nothing}
    /\ tested \in [Sources -> Nat]
    /\ raced \subseteq Sources

Init ==
    /\ now = 0
    /\ srcCache = [s \in Sources |-> NoBody]
    /\ srcFile = [s \in Sources |-> NoBody]
    /\ outCache = [o \in Outputs |-> NoOutput]
    /\ req = [r \in Requests |-> IdleReq]
    /\ leg = [r \in Requests |-> [s \in Sources |-> Leg("off")]]
    /\ reply = Nothing
    /\ tested = [s \in Sources |-> 0]
    /\ raced = {}

-----------------------------------------------------------------------------
(* A request arrives.                                                      *)

Idle(r) == req[r] = IdleReq

(* r becomes a request of this kind, whose fetches of the targets are at   *)
(* the step "first".  From here on no request in progress is alone.        *)
Begin(r, kind, pc, targets, first) ==
    /\ req' = [q \in Requests |->
                  IF q = r
                  THEN [kind |-> kind, pc |-> pc, started |-> now,
                        alone |-> \A p \in Requests \ {r} : Idle(p)]
                  ELSE IF Idle(q) THEN IdleReq
                  ELSE [req[q] EXCEPT !.alone = FALSE]]
    /\ leg' = [leg EXCEPT ![r] =
                  [s \in Sources |-> Leg(IF s \in targets THEN first ELSE "off")]]

\* Mutant of Waited: swapped operands.
WaitedBackwards(r) == req[r].started - now

Waited(r) == now - req[r].started

Dead(o) == outCache[o] # NoOutput /\ now > outCache[o].exp

Answered(x, o, waited) ==
    reply' = [x |-> x, parts |-> outCache[o].parts, took |-> outCache[o].took,
              waited |-> waited]

(* SubHandler and FilterHandler first ask cache.Get for the output.        *)
OutputHit(r, o) ==
    /\ o \in Kinds
    /\ Idle(r)
    /\ outCache[o] # NoOutput
    /\ ~ Dead(o)
    /\ Answered("HIT", o, 0)
    /\ UNCHANGED <<now, srcCache, srcFile, outCache, req, leg, tested, raced>>

(* cache.Get finds nothing, or an expired entry, which it deletes.         *)
OutputMiss(r, o) ==
    /\ o \in Kinds
    /\ Idle(r)
    /\ outCache[o] = NoOutput \/ Dead(o)
    /\ outCache' = [outCache EXCEPT ![o] = NoOutput]
    /\ IF o = "sub"
       THEN Begin(r, "sub", "stale", {}, "off")
       ELSE Begin(r, "filter", "fetch", Sources, "peek")
    /\ reply' = Nothing
    /\ UNCHANGED <<now, srcCache, srcFile, tested, raced>>

(* SubHandler then asks cache.GetStale: what another request has put there *)
(* meanwhile is sent, and pipeline.Run goes on in a goroutine, its result  *)
(* dropped.                                                                *)
StaleHit(r) ==
    /\ ~ Idle(r)
    /\ req[r].pc = "stale"
    /\ outCache["sub"] # NoOutput
    /\ Answered("STALE", "sub", Waited(r))
    /\ req' = [req EXCEPT ![r].kind = "run", ![r].pc = "fetch"]
    /\ leg' = [leg EXCEPT ![r] = [s \in Sources |-> Leg("look")]]
    /\ UNCHANGED <<now, srcCache, srcFile, outCache, tested, raced>>

StaleMiss(r) ==
    /\ ~ Idle(r)
    /\ req[r].pc = "stale"
    /\ outCache["sub"] = NoOutput
    /\ req' = [req EXCEPT ![r].pc = "fetch"]
    /\ leg' = [leg EXCEPT ![r] = [s \in Sources |-> Leg("look")]]
    /\ reply' = Nothing
    /\ UNCHANGED <<now, srcCache, srcFile, outCache, tested, raced>>

(* GeneratePreviewHandler clears "sub:" before it runs the pipeline.       *)
Preview(r) ==
    /\ "preview" \in Kinds
    /\ Idle(r)
    /\ outCache' = [outCache EXCEPT !["sub"] = NoOutput]
    /\ Begin(r, "preview", "fetch", Sources, "look")
    /\ reply' = Nothing
    /\ UNCHANGED <<now, srcCache, srcFile, tested, raced>>

(* The requests that touch no output before they fetch.                    *)
Starts(r, kind, targets, first) ==
    /\ kind \in Kinds
    /\ Idle(r)
    /\ Begin(r, kind, "fetch", targets, first)
    /\ reply' = Nothing
    /\ UNCHANGED <<now, srcCache, srcFile, outCache, tested, raced>>

(* SimulateHandler: a pipeline.Run whose result is not cached.             *)
Simulate(r) == Starts(r, "run", Sources, "look")

(* RefreshSourcesHandler fetches by force, without a look at the cache.    *)
Refresh(r) == Starts(r, "refresh", Sources, "http")

(* One goroutine of refreshAllSources, or SourceDataHandler.               *)
Load(r, s) == Starts(r, "load", {s}, "look")

(* TestSourceHandler fetches by force.                                     *)
Test(r, s) == Starts(r, "test", {s}, "http")

-----------------------------------------------------------------------------
(* FetchAndParseYAML for one source; its callers wait for it.              *)

At(r, s, st) == ~ Idle(r) /\ req[r].pc = "fetch" /\ leg[r][s].st = st

Step(r, s, l) == leg' = [leg EXCEPT ![r][s] = l]

\* Mutant of Held: off by one.
HeldTooLong(s) == srcCache[s] # NoBody /\ ~ (now > srcCache[s].exp + 1)

Held(s) == srcCache[s] # NoBody /\ ~ (now > srcCache[s].exp)

\* Mutant of Usable: an entry read back from disk is decoded and used.
UsableFromDisk(s) == Held(s)

(* cached.(CachedItem): an entry read back from disk is not one.           *)
Usable(s) == Held(s) /\ srcCache[s].form = "typed"

Parsed(s) == [st |-> "done", at |-> srcCache[s].at, held |-> srcCache[s].held,
              ok |-> srcCache[s].ok]

(* cache.Get deletes an entry that has expired.                            *)
Expire(s) ==
    srcCache' = IF Held(s) THEN srcCache ELSE [srcCache EXCEPT ![s] = NoBody]

(* FilterHandler takes the sources one after the other, and looks in the   *)
(* cache itself before it calls FetchAndParseYAML; an entry that is there  *)
(* but is not a CachedItem makes it skip the source.                       *)
Peek(r, s) ==
    /\ At(r, s, "peek")
    /\ \A t \in Sources : leg[r][t].st \in {"peek", "done"}
    /\ Step(r, s, IF Usable(s) THEN Parsed(s)
                  ELSE IF Held(s) THEN Leg("done")
                  ELSE Leg("look"))
    /\ Expire(s)
    /\ reply' = Nothing
    /\ UNCHANGED <<now, srcFile, outCache, req, tested, raced>>

\* Mutant of Look: an entry that is not a CachedItem is asked for again.
LookAgain(r, s) ==
    /\ At(r, s, "look")
    /\ Step(r, s, IF Usable(s) THEN Parsed(s)
                  ELSE IF Held(s) THEN Leg("look") ELSE Leg("http"))
    /\ Expire(s)
    /\ reply' = Nothing
    /\ UNCHANGED <<now, srcFile, outCache, req, tested, raced>>

(* The content of a data: URL is decoded without a look at the cache.      *)
Look(r, s) ==
    /\ At(r, s, "look")
    /\ IF s \in LocalSources
       THEN Step(r, s, Leg("http")) /\ UNCHANGED srcCache
       ELSE /\ Step(r, s, IF Usable(s) THEN Parsed(s) ELSE Leg("http"))
            /\ Expire(s)
    /\ reply' = Nothing
    /\ UNCHANGED <<now, srcFile, outCache, req, tested, raced>>

(* The server answers with a body, good or not, at this time; it arrives   *)
(* when Store runs.  Or there is an error, another status, or a timeout.   *)
Respond(r, s) ==
    /\ At(r, s, "http")
    /\ \/ \E outcome \in Outcomes \ {"error"} :
             Step(r, s, [st |-> "got", at |-> now, held |-> 0,
                         ok |-> outcome = "good"])
       \/ "error" \in Outcomes /\ Step(r, s, Leg("done"))
    /\ reply' = Nothing
    /\ UNCHANGED <<now, srcCache, srcFile, outCache, req, tested, raced>>

(* SetWithDisk, before the body is parsed.  The file a restart will find   *)
(* is this one, or stays another: goroutines persist in any order.  With a *)
(* data: URL this is the end.                                              *)
Store(r, s) ==
    LET held == now - leg[r][s].at
        body == [form |-> "typed", at |-> leg[r][s].at, held |-> held,
                 ok |-> leg[r][s].ok, exp |-> now + SourceTTL]
    IN
    /\ At(r, s, "got")
    /\ srcCache' = [srcCache EXCEPT ![s] = body]
    /\ \/ Restarts /\ srcFile' = [srcFile EXCEPT ![s] = body]
       \/ UNCHANGED srcFile
    /\ Step(r, s, [leg[r][s] EXCEPT !.held = held,
                      !.st = IF s \in LocalSources THEN "done" ELSE "stored"])
    /\ reply' = Nothing
    /\ UNCHANGED <<now, outCache, req, tested, raced>>

(* DeleteByPrefix("filter:"); then the body is parsed.                     *)
Invalidate(r, s) ==
    /\ At(r, s, "stored")
    /\ outCache' = [outCache EXCEPT !["filter"] = NoOutput]
    /\ Step(r, s, [leg[r][s] EXCEPT !.st = "done"])
    /\ reply' = Nothing
    /\ UNCHANGED <<now, srcCache, srcFile, req, tested, raced>>

-----------------------------------------------------------------------------
(* All fetches of r are over.                                              *)

Fetched(r) ==
    /\ ~ Idle(r)
    /\ req[r].pc = "fetch"
    /\ \A s \in Sources : leg[r][s].st \in {"off", "done"}

Good(r) == {s \in Sources : leg[r][s].st = "done" /\ leg[r][s].ok}

PartsOf(r) == {[src |-> s, at |-> leg[r][s].at, held |-> leg[r][s].held] :
                  s \in Good(r)}

End(r) ==
    /\ req' = [req EXCEPT ![r] = IdleReq]
    /\ leg' = [leg EXCEPT ![r] = [s \in Sources |-> Leg("off")]]

(* The answer is cached and sent; with no node from any source there is an *)
(* error instead, and nothing is cached.                                   *)
Build(r) ==
    LET took == Waited(r)
        o == req[r].kind
    IN
    /\ Fetched(r)
    /\ o \in Outputs
    /\ IF Good(r) # {}
       THEN /\ outCache' = [outCache EXCEPT ![o] =
                               [form |-> "output", parts |-> PartsOf(r),
                                exp |-> now + OutputTTL, took |-> took]]
            /\ reply' = [x |-> "MISS", parts |-> PartsOf(r), took |-> took,
                         waited |-> 0]
       ELSE /\ reply' = Nothing
            /\ UNCHANGED outCache
    /\ End(r)
    /\ UNCHANGED <<now, srcCache, srcFile, tested, raced>>

Drop(r) ==
    /\ Fetched(r)
    /\ req[r].kind \in {"preview", "run", "load"}
    /\ End(r)
    /\ reply' = Nothing
    /\ UNCHANGED <<now, srcCache, srcFile, outCache, tested, raced>>

(* History: the refresh of the sources r has just fetched is over.         *)
Finished(r) ==
    /\ tested' = [s \in Sources |->
                     IF s \in Good(r) THEN leg[r][s].at ELSE tested[s]]
    /\ raced' = IF req[r].alone THEN raced \ Good(r) ELSE raced \cup Good(r)

(* TestSourceHandler: DeleteByPrefix("sub:"), whether the fetch succeeded  *)
(* or not.                                                                 *)
EndTest(r) ==
    /\ Fetched(r)
    /\ req[r].kind = "test"
    /\ outCache' = [outCache EXCEPT !["sub"] = NoOutput]
    /\ Finished(r)
    /\ End(r)
    /\ reply' = Nothing
    /\ UNCHANGED <<now, srcCache, srcFile>>

\* Mutant of ClearSub: the outputs are not cleared.
ClearSubForgotten(r) ==
    /\ Fetched(r)
    /\ req[r].kind = "refresh"
    /\ req' = [req EXCEPT ![r].pc = "clear"]
    /\ reply' = Nothing
    /\ UNCHANGED <<now, srcCache, srcFile, outCache, leg, tested, raced>>

(* RefreshSourcesHandler: "sub:", and then "filter:".                      *)
ClearSub(r) ==
    /\ Fetched(r)
    /\ req[r].kind = "refresh"
    /\ outCache' = [outCache EXCEPT !["sub"] = NoOutput]
    /\ req' = [req EXCEPT ![r].pc = "clear"]
    /\ reply' = Nothing
    /\ UNCHANGED <<now, srcCache, srcFile, leg, tested, raced>>

ClearFilter(r) ==
    /\ ~ Idle(r)
    /\ req[r].pc = "clear"
    /\ outCache' = [outCache EXCEPT !["filter"] = NoOutput]
    /\ Finished(r)
    /\ End(r)
    /\ reply' = Nothing
    /\ UNCHANGED <<now, srcCache, srcFile>>

-----------------------------------------------------------------------------
(* The process dies and starts again: requests and outputs are gone; of a  *)
(* source, the file may be loaded; loadFromDisk skips it if it expired.    *)
Restart ==
    /\ Restarts
    /\ \E found \in SUBSET {s \in Sources : srcFile[s] # NoBody} :
          /\ srcCache' = [s \in Sources |->
                             IF s \in found
                             THEN [srcFile[s] EXCEPT !.form = "generic"]
                             ELSE NoBody]
          /\ srcFile' = [s \in Sources |->
                            IF s \in found THEN srcFile[s] ELSE NoBody]
    /\ outCache' = [o \in Outputs |-> NoOutput]
    /\ req' = [r \in Requests |-> IdleReq]
    /\ leg' = [r \in Requests |-> [s \in Sources |-> Leg("off")]]
    /\ reply' = Nothing
    /\ UNCHANGED <<now, tested, raced>>

Tick ==
    /\ now < MaxTime
    /\ now' = now + 1
    /\ srcFile' = [s \in Sources |->
                      IF srcFile[s] # NoBody /\ now' > srcFile[s].exp
                      THEN NoBody ELSE srcFile[s]]
    /\ reply' = Nothing
    /\ UNCHANGED <<srcCache, outCache, req, leg, tested, raced>>

Arrive(r) ==
    \/ \E o \in Outputs : OutputHit(r, o) \/ OutputMiss(r, o)
    \/ Preview(r)
    \/ Simulate(r)
    \/ Refresh(r)
    \/ \E s \in Sources : Load(r, s) \/ Test(r, s)

Proceed(r) ==
    \/ StaleHit(r)
    \/ StaleMiss(r)
    \/ \E s \in Sources :
          Peek(r, s) \/ Look(r, s) \/ Respond(r, s) \/ Store(r, s)
             \/ Invalidate(r, s)
    \/ Build(r)
    \/ Drop(r)
    \/ EndTest(r)
    \/ ClearSub(r)
    \/ ClearFilter(r)

Next ==
    \/ \E r \in Requests : Arrive(r) \/ Proceed(r)
    \/ Restart
    \/ Tick

Spec == Init /\ [][Next]_vars

(* A goroutine that can run does, and an HTTP request ends: the client has *)
(* a timeout.                                                              *)
FairSpec == Spec /\ \A r \in Requests : WF_vars(Proceed(r))

-----------------------------------------------------------------------------
(* No answer, fresh, cached or "STALE" (sub.go:48-92, filter.go:30-38),    *)
(* holds a body the server gave longer ago than both times to live, plus   *)
(* the time the body took to arrive, the time the request that built the   *)
(* answer took, and the time this request has waited.                      *)
AgeBound ==
    reply # Nothing =>
        \A p \in reply.parts :
            now - p.at <= p.held + SourceTTL + reply.took + OutputTTL + reply.waited

(* Once a test or a refresh of a remote source has run with no other       *)
(* request in progress (test.go:54-71, source_refresh.go:54-94), no answer *)
(* holds an older body of that source any more: not a cached one, nor one  *)
(* built later, even after a restart has loaded an older body from disk    *)
(* (provider.go:92-93).  The body of a data: URL is part of the URL.       *)
LoneRefreshSticks ==
    \A s \in Sources \ (raced \cup LocalSources) :
        /\ \A o \in Outputs : outCache[o] # NoOutput =>
              \A p \in outCache[o].parts : p.src = s => p.at >= tested[s]
        /\ reply # Nothing =>
              \A p \in reply.parts : p.src = s => p.at >= tested[s]

(* Every request comes to its end, whatever the others do with the caches  *)
(* under it (provider.go:66-150, pipeline.go:56-96).                       *)
RequestsEnd == \A r \in Requests : ~ Idle(r) ~> Idle(r)

-----------------------------------------------------------------------------
(* What comments and documents say, and the code does not do.              *)

(* test.go:70: "Invalidate all sub caches since source data has changed":  *)
(* no cached /sub answer is older than the last finished test or refresh.  *)
RefreshSticks ==
    outCache["sub"] # NoOutput =>
        \A p \in outCache["sub"].parts : p.at >= tested[p.src]

(* README.md:142: an expired /sub answer is sent first, and refreshed in   *)
(* the background: a request that finds it expired leaves it for GetStale. *)
ExpiredKeptForGetStale ==
    [][\A r \in Requests :
          Dead("sub") /\ OutputMiss(r, "sub") => UNCHANGED outCache]_vars
=============================================================================
