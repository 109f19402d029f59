----------------------------- MODULE NamedStore -----------------------------
(***************************************************************************)
(* internal/routing/routing.go, internal/ruleset/ruleset.go and their      *)
(* handlers: two stores of named entries written the same way, the routing *)
(* profiles and the rule sets.  A change is made in memory under the       *)
(* manager's mutex; saveToDisk then copies the entries under it and writes *)
(* the file under the mutex of datastore, and the request waits for it.    *)
(* At the start cmd/proxy-filter/main.go loads the routing profiles and    *)
(* adds the default one if it is missing; it does not load the rule sets.  *)
(***************************************************************************)
EXTENDS Naturals

CONSTANTS
    Entries,          \* what an entry may hold
    BuiltIn,          \* the routing profile DefaultRouting returns
    Clients,          \* bound: changes in progress at once
    MaxNamedCrashes,  \* bound on crashes, restarts included
    MaxNamedFailures  \* bound on failed writes

VARIABLES
    kind,          \* the store: "routing" or "rulesets"
    namedUp,       \* the program serves, or "booting", or "saving" a default
    mem,           \* the manager's map
    namedFile,     \* data/routing.json or data/rulesets.json
    call,          \* the changes in progress
    writer,        \* who holds the mutex of datastore, or NoClient
    alone,         \* history: no other change overlapped the last one
    unsaved,       \* history: the last write failed
    before,        \* history: what the entries were before the restart
    namedCrashes, namedFailures

namedVars == <<kind, namedUp, mem, namedFile, call, writer, alone, unsaved,
               before, namedCrashes, namedFailures>>

NoClient == "noclient"
NoEntry == "noentry"
DefaultRoutingID == "default"
Ids == {DefaultRoutingID, "other"}
Maps == [Ids -> Entries \cup {NoEntry}]
EmptyMap == [i \in Ids |-> NoEntry]

ASSUME NamedAssumption ==
    /\ BuiltIn \in Entries /\ NoEntry \notin Entries
    /\ NoClient \notin Clients

NoStore == [state |-> "absent"]
TornStore == [state |-> "torn"]
Stored(m) == [state |-> "ok", map |-> m]

Done == [pc |-> "done"]
Unknown == [known |-> FALSE]

NamedTypeOK ==
    /\ kind \in {"routing", "rulesets"}
    /\ namedUp \in {"booting", "saving", "up"}
    /\ mem \in Maps
    /\ namedFile \in {NoStore, TornStore} \cup [state : {"ok"}, map : Maps]
    /\ call \in [Clients -> {Done} \cup [pc : {"copy"}]
                            \cup [pc : {"lock", "write"}, map : Maps]]
    /\ writer \in Clients \cup {NoClient}
    /\ alone \in BOOLEAN /\ unsaved \in BOOLEAN
    /\ before \in {Unknown} \cup [known : {TRUE}, map : Maps]
    /\ namedCrashes \in Nat /\ namedFailures \in Nat

WithDefault(m, e) == [m EXCEPT ![DefaultRoutingID] = e]

(* The file is absent, or what InitDefaults has copied from default-data   *)
(* at the first start: a default routing profile, and no rule sets.        *)
FirstFile ==
    {NoStore} \cup
    IF kind = "routing"
    THEN {TornStore} \cup {Stored(WithDefault(EmptyMap, e)) : e \in Entries}
    ELSE {}

NamedInit ==
    /\ kind \in {"routing", "rulesets"}
    /\ namedUp = "booting"
    /\ mem = EmptyMap
    /\ namedFile \in FirstFile
    /\ call = [c \in Clients |-> Done]
    /\ writer = NoClient
    /\ alone = TRUE
    /\ unsaved = FALSE
    /\ before = Unknown
    /\ namedCrashes = 0
    /\ namedFailures = 0

-----------------------------------------------------------------------------
(* The start.                                                              *)

(* A file that does not parse loads as an empty map.                       *)
LoadFromConfig ==
    IF namedFile.state = "ok" THEN namedFile.map ELSE EmptyMap

(* EnsureDefault adds the default profile and saves, over whatever the     *)
(* file held.                                                              *)
BootRouting ==
    /\ kind = "routing"
    /\ namedUp = "booting"
    /\ IF LoadFromConfig[DefaultRoutingID] = NoEntry
       THEN /\ mem' = WithDefault(LoadFromConfig, BuiltIn)
            /\ namedFile' = TornStore
            /\ namedUp' = "saving"
       ELSE /\ mem' = LoadFromConfig
            /\ namedUp' = "up"
            /\ UNCHANGED namedFile
    /\ UNCHANGED <<kind, call, writer, alone, unsaved, before, namedCrashes,
                   namedFailures>>

SavedDefault ==
    /\ namedUp = "saving"
    /\ namedUp' = "up"
    /\ \/ /\ namedFile' = Stored(mem)
          /\ unsaved' = FALSE
          /\ UNCHANGED namedFailures
       \/ /\ namedFailures < MaxNamedFailures
          /\ namedFailures' = namedFailures + 1
          /\ unsaved' = TRUE
          /\ UNCHANGED namedFile
    /\ UNCHANGED <<kind, mem, call, writer, alone, before, namedCrashes>>

BootRuleSets ==
    /\ kind = "rulesets"
    /\ namedUp = "booting"
    /\ namedUp' = "up"
    /\ UNCHANGED <<kind, mem, namedFile, call, writer, alone, unsaved, before,
                   namedCrashes, namedFailures>>

-----------------------------------------------------------------------------
(* The changes.  Add and Update put the entry under its identifier,        *)
(* whether or not there is one.                                            *)

Changes(c, map) ==
    /\ namedUp = "up"
    /\ call[c] = Done
    /\ mem' = map
    /\ alone' = (\A o \in Clients : call[o] = Done)
    /\ before' = Unknown
    /\ UNCHANGED <<kind, namedUp, namedFile, writer, unsaved, namedCrashes,
                   namedFailures>>

Put(c) ==
    \E i \in Ids, e \in Entries :
        /\ Changes(c, [mem EXCEPT ![i] = e])
        /\ call' = [call EXCEPT ![c] = [pc |-> "copy"]]

\* Mutant of Delete: the file is left as it is.
DeleteInMemory(c) ==
    \E i \in Ids :
        /\ kind = "routing" => i # DefaultRoutingID
        /\ Changes(c, [mem EXCEPT ![i] = NoEntry])
        /\ UNCHANGED call

Delete(c) ==
    \E i \in Ids :
        /\ kind = "routing" => i # DefaultRoutingID
        /\ Changes(c, [mem EXCEPT ![i] = NoEntry])
        /\ call' = [call EXCEPT ![c] = [pc |-> "copy"]]

Copy(c) ==
    /\ call[c].pc = "copy"
    /\ call' = [call EXCEPT ![c] = [pc |-> "lock", map |-> mem]]
    /\ UNCHANGED <<kind, namedUp, mem, namedFile, writer, alone, unsaved,
                   before, namedCrashes, namedFailures>>

WriteStart(c) ==
    /\ call[c].pc = "lock"
    /\ writer = NoClient
    /\ writer' = c
    /\ namedFile' = TornStore
    /\ call' = [call EXCEPT ![c].pc = "write"]
    /\ UNCHANGED <<kind, namedUp, mem, alone, unsaved, before, namedCrashes,
                   namedFailures>>

WriteEnd(c) ==
    /\ call[c].pc = "write"
    /\ \/ /\ namedFile' = Stored(call[c].map)
          /\ unsaved' = FALSE
          /\ UNCHANGED namedFailures
       \/ /\ namedFailures < MaxNamedFailures
          /\ namedFailures' = namedFailures + 1
          /\ unsaved' = TRUE
          /\ UNCHANGED namedFile
    /\ writer' = NoClient
    /\ call' = [call EXCEPT ![c] = Done]
    /\ UNCHANGED <<kind, namedUp, mem, alone, before, namedCrashes>>

(* The process ends at any moment, and is started again.                   *)
NamedCrash ==
    /\ namedCrashes < MaxNamedCrashes
    /\ namedCrashes' = namedCrashes + 1
    /\ before' = IF /\ namedUp = "up" /\ alone /\ ~unsaved
                    /\ \A c \in Clients : call[c] = Done
                 THEN [known |-> TRUE, map |-> mem] ELSE Unknown
    /\ namedUp' = "booting"
    /\ mem' = EmptyMap
    /\ call' = [c \in Clients |-> Done]
    /\ writer' = NoClient
    /\ UNCHANGED <<kind, namedFile, alone, unsaved, namedFailures>>

NamedNext ==
    \/ BootRouting \/ SavedDefault \/ BootRuleSets \/ NamedCrash
    \/ \E c \in Clients :
          Put(c) \/ Delete(c) \/ Copy(c) \/ WriteStart(c) \/ WriteEnd(c)

NamedSpec == NamedInit /\ [][NamedNext]_namedVars

-----------------------------------------------------------------------------
SurvivesRestart == (namedUp = "up" /\ before.known) => mem = before.map

(* Routing profiles outlive a restart: if the last change overlapped no    *)
(* other, its request was answered and its write did not fail, then the    *)
(* program holds after the restart what it held before                     *)
(* (routing.go:69-93, main.go:54).                                         *)
RoutingSurvivesRestart == kind = "routing" => SurvivesRestart

(* The same for rule sets, which saveToDisk writes and LoadFromConfig is   *)
(* there to read back (ruleset.go:52-76).                                  *)
RuleSetsSurviveRestart == kind = "rulesets" => SurvivesRestart
=============================================================================
