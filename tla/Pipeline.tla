------------------------------ MODULE Pipeline ------------------------------
(***************************************************************************)
(* internal/pipeline/pipeline.go: the sources of a profile are fetched in  *)
(* parallel, at most Slots at a time, and their nodes merged in the order  *)
(* the fetches end; duplicates and incomplete nodes are dropped, the       *)
(* profile's engine runs, and each name is given the prefix of its source. *)
(*                                                                         *)
(* The engine changes the nodes in place, and the list that says which     *)
(* source a node came from shares them: the field no is the identity of a  *)
(* node, and the field source a history of where it came from.             *)
(***************************************************************************)
EXTENDS RuleEngine

CONSTANTS
    Slots,      \* the fetches at once
    Feeds,      \* the answers a run may meet: [source -> sequence of nodes]
    Profiles    \* the profiles it may be run for

VARIABLES
    profile, feed,
    fetch,        \* source -> "waiting", "fetching" or "done"
    merged,       \* the nodes, in the order they arrived
    firstConfig,  \* the source whose configuration is the base, or ""
    run,          \* "fetching", "ok" or "error"
    output        \* the nodes of the result, with their prefixes

pipeVars == <<profile, feed, fetch, merged, firstConfig, run, output>>

NoName == <<"noname">>

(* What a run starts from has its types.                                   *)
ASSUME PipelineAssumption ==
    /\ \A f \in Feeds : /\ DOMAIN f \subseteq STRING \ {""}
                        /\ \A s \in DOMAIN f : f[s] \in Seq(Nodes)
    /\ \A p \in Profiles : /\ Fields(p.script.sets)
                           /\ Fields([f \in DOMAIN p.overrides \cap Overridable |->
                                         p.overrides[f]])
                           /\ p.rename \in Seq(Strings \cup Variables)

PipeInit ==
    /\ profile \in Profiles
    /\ feed \in Feeds
    /\ fetch = [s \in DOMAIN feed |-> "waiting"]
    /\ merged = <<>>
    /\ firstConfig = ""
    /\ run = "fetching"
    /\ output = <<>>

\* Mutant of StartFetch: a slot is taken for good.
StartFetchOnce(s) ==
    /\ fetch[s] = "waiting"
    /\ Cardinality({o \in DOMAIN fetch : fetch[o] # "waiting"}) < Slots
    /\ fetch' = [fetch EXCEPT ![s] = "fetching"]
    /\ UNCHANGED <<profile, feed, merged, firstConfig, run, output>>

StartFetch(s) ==
    /\ fetch[s] = "waiting"
    /\ Cardinality({o \in DOMAIN fetch : fetch[o] = "fetching"}) < Slots
    /\ fetch' = [fetch EXCEPT ![s] = "fetching"]
    /\ UNCHANGED <<profile, feed, merged, firstConfig, run, output>>

Arrived(s) ==
    [i \in DOMAIN feed[s] |->
        [feed[s][i] EXCEPT !.no = Len(merged) + i, !.source = s]]

(* A fetch fails, or gives a configuration with some nodes, or none.       *)
EndFetch(s) ==
    /\ fetch[s] = "fetching"
    /\ fetch' = [fetch EXCEPT ![s] = "done"]
    /\ \/ /\ merged' = merged \o Arrived(s)
          /\ firstConfig' = IF firstConfig = "" THEN s ELSE firstConfig
       \/ UNCHANGED <<merged, firstConfig>>
    /\ UNCHANGED <<profile, feed, run, output>>

-----------------------------------------------------------------------------
Key(n) == <<n.type, n.server>>

\* Mutant of Dedup: the last node of an endpoint stays, and only if it is
\* next to the other.
DedupAdjacent ==
    [s \in Lists |->
        Sublist(s, {i \in DOMAIN s : i = Len(s) \/ Key(s[i]) # Key(s[i + 1])})]

(* The first node of every endpoint stays.                                 *)
Dedup ==
    [s \in Lists |->
        Sublist(s, {i \in DOMAIN s : \A j \in 1..(i - 1) : Key(s[j]) # Key(s[i])})]

Validate == [s \in Lists |-> Sublist(s, {i \in DOMAIN s : s[i].name # NoName})]

(* The nodes of the tagged list after the engine: those that went through  *)
(* it have changed, kept or not in the end.                                *)
Tagged(out) ==
    [i \in DOMAIN merged |->
        IF \E j \in DOMAIN out : out[j].no = i
        THEN out[CHOOSE j \in DOMAIN out : out[j].no = i]
        ELSE merged[i]]

\* Mutant of SourceOf: the endpoints are those of the nodes as they came.
SourceAsItCame(n, tagged) ==
    LET same == {i \in DOMAIN merged : Key(merged[i]) = Key(n)}
    IN  IF same = {} THEN ""
        ELSE merged[CHOOSE i \in same : \A j \in same : j <= i].source

(* The source a prefix names: that of the last node with this endpoint.    *)
SourceOf(n, tagged) ==
    LET same == {i \in DOMAIN tagged : Key(tagged[i]) = Key(n)}
    IN  merged[CHOOSE i \in same : \A j \in same : j <= i].source

Prefixed(out) ==
    IF ~profile.prefix THEN out
    ELSE LET tagged == Tagged(out)
         IN  [i \in DOMAIN out |->
                 [out[i] EXCEPT !.prefix = SourceOf(out[i], tagged)]]

(* wg.Wait, and the rest of Run.  NewEngine fails if a filter or the       *)
(* script does not compile.                                                *)
Finish ==
    /\ run = "fetching"
    /\ \A s \in DOMAIN fetch : fetch[s] = "done"
    /\ \/ /\ \/ firstConfig = "" \/ merged = <<>>
             \/ ~profile.compiles
          /\ run' = "error"
          /\ UNCHANGED output
       \/ /\ firstConfig # "" /\ merged # <<>> /\ profile.compiles
          /\ run' = "ok"
          /\ \E out \in Engine(Validate[Dedup[merged]], profile) :
                output' = Prefixed(out)
    /\ UNCHANGED <<profile, feed, fetch, merged, firstConfig>>

PipeNext ==
    \/ \E s \in DOMAIN fetch : StartFetch(s) \/ EndFetch(s)
    \/ Finish

PipeSpec == PipeInit /\ [][PipeNext]_pipeVars

-----------------------------------------------------------------------------
Moves ==
    \/ "server" \in DOMAIN profile.overrides
    \/ {"type", "server"} \cap DOMAIN profile.script.sets # {}

(* No endpoint is twice in the result, whatever the order the sources      *)
(* ended in, unless the profile gives nodes another server or type         *)
(* (pipeline.go:106, 226-239).                                             *)
OneNodePerEndpoint ==
    ~Moves => \A i, j \in DOMAIN output :
                  Key(output[i]) = Key(output[j]) => i = j

(* The prefix of a name is that of the source the node came from, unless   *)
(* another source has a node with the endpoint this one ends up with       *)
(* (pipeline.go:118-134).                                                  *)
PrefixTruthful ==
    (run = "ok" /\ profile.prefix) =>
        \A n \in {output[i] : i \in DOMAIN output} :
            \/ n.prefix = n.source
            \/ \E i \in DOMAIN merged :
                  /\ merged[i].source # n.source
                  /\ Key(Tagged(output)[i]) = Key(n)

(* No endpoint is lost: if every node that a source which answered has for *)
(* it is complete and passes the filters, the endpoint is in the result,   *)
(* and nothing else is (pipeline.go:105-115, engine.go:63-138).            *)
EndpointsKept ==
    (run = "ok" /\ ~Moves) =>
        LET Good(n) == /\ n.name # NoName
                       /\ n.type \notin profile.script.drops
                       /\ profile.include = {}
                          \/ Words(n.name) \cap profile.include # {}
                       /\ Words(n.name) \cap profile.exclude = {}
                       /\ profile.types = {} \/ n.type \in profile.types
                       /\ n.server \in Addresses \cup {""} => profile.servers # "domain"
                       /\ n.server \notin Addresses => profile.servers # "ip"
            With(k) == {n \in {merged[i] : i \in DOMAIN merged} : Key(n) = k}
            Out == {Key(output[i]) : i \in DOMAIN output}
        IN  \A k \in {Key(merged[i]) : i \in DOMAIN merged} :
                /\ (\A n \in With(k) : Good(n)) => k \in Out
                /\ k \in Out => \E n \in With(k) : Good(n)

(* Names made with {code} are in the order of their codes when the profile *)
(* sorts by region.  The code a name begins with comes from the name the   *)
(* node had, the order from the one it was given, and each look at a name  *)
(* goes through a Go map, in an order of its own: a name with keywords of  *)
(* two regions has either.  This does no harm to the order, unless one of  *)
(* the names given still has two regions, from the template or because     *)
(* stripping left a keyword or put one together (engine.go:134, 217-236,   *)
(* 239-263; region.go:114-124, 128-225).                                   *)
CodesInOrder ==
    LET Lead(i) == output[i].name[1]
    IN  (/\ run = "ok" /\ profile.sort = "region"
         /\ Len(profile.rename) > 1 /\ profile.rename[1] = "{code}"
         /\ profile.rename[2] \in Separators
         /\ \A i \in DOMAIN output : ~Ambiguous(output[i])) =>
            \A i, j \in DOMAIN output :
                (i < j /\ {Lead(i), Lead(j)} \subseteq Codes) =>
                    Rank[Lead(i)] <= Rank[Lead(j)]

(* The names of the result are in order when the profile sorts by name and *)
(* gives no prefix, also those the profile has changed; nodes of one name  *)
(* stay in the order they came in (engine.go:134, 239-263).                *)
NamesInOrder ==
    (profile.sort = "name" /\ ~profile.prefix) =>
        \A i, j \in DOMAIN output : i < j =>
            /\ ~Earlier(output[j].name, output[i].name)
            /\ output[i].name = output[j].name => output[i].no < output[j].no

(* Every run ends, with a result or an error, as every fetch does (its     *)
(* HTTP client has a timeout), although there are fewer slots than sources *)
(* (pipeline.go:51-103).                                                   *)
RunEnds == <>(run # "fetching")
=============================================================================
