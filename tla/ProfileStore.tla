---------------------------- MODULE ProfileStore ----------------------------
(***************************************************************************)
(* internal/rule/rule.go with internal/datastore: the profiles in memory,  *)
(* guarded by the manager's RWMutex, and data/profiles.json.  Save lists   *)
(* pointers to the profiles under that lock; then, without it and under    *)
(* the mutex of datastore, it reads their fields, truncates the file and   *)
(* writes it.  CreateProfileHandler waits for its Save; UpdateProfile and  *)
(* DeleteProfile start theirs in a goroutine.                              *)
(*                                                                         *)
(* Save reads the fields of a profile while UpdateProfile may assign them. *)
(* Both are one by one in the code; here the assignments are one step and  *)
(* the reads come in any order, which gives the same mixtures.             *)
(***************************************************************************)
EXTENDS Naturals

CONSTANTS
    Ids,          \* the identifiers generateID may return
    Names,        \* values of the text fields, the share token included
    Savers,       \* bound: calls of Save at once
    MaxChanges,   \* bound on creations, updates and deletions
    MaxCrashes,   \* bound on crashes
    MaxFailures   \* bound on failed writes

Nobody == "nobody"
Unread == "unread"

ASSUME ProfileStoreAssumption ==
    /\ Nobody \notin Savers
    /\ Unread \notin Names
    /\ {MaxChanges, MaxCrashes, MaxFailures} \subseteq Nat

VARIABLES
    up,           \* the process runs
    profiles,     \* the keys of the manager's map
    generated,    \* the identifiers used so far
    fields,       \* id -> what the pointer to that profile points to
    saver,        \* the calls of Save in progress
    mu,           \* who holds the mutex of datastore, or Nobody
    file,         \* data/profiles.json
    changes,
    snapshots,    \* history: how many lists of pointers Save has made
    last,         \* history: how the last Save that tried to write ended
    written,      \* history: the number of the list it wrote
    crashes,
    failures

memVars == <<up, profiles, generated, fields, changes, crashes>>
vars == <<memVars, saver, mu, file, snapshots, last, written, failures>>

Fields == [name : Names, enabled : {"on", "off"}]
FieldNames == {"name", "enabled"}

Blank == [name |-> Unread, enabled |-> Unread]
Copies == [name : Names \cup {Unread}, enabled : {"on", "off", Unread}]

(* "broken" stands for any bytes json.Unmarshal refuses.                   *)
NoFile == [data |-> "none"]
BrokenFile == [data |-> "broken"]
Whole(f) == [data |-> "whole", profiles |-> f]
Files ==
    {NoFile, BrokenFile}
    \cup [data : {"whole"}, profiles : UNION {[S -> Fields] : S \in SUBSET Ids}]

FileIds == IF file.data = "whole" THEN DOMAIN file.profiles ELSE {}

IdleSave == [pc |-> "idle"]
SaveCalls ==
    {IdleSave, [pc |-> "start"]}
    \cup [pc : {"lock", "read", "write"}, ids : SUBSET Ids, no : Nat,
          copy : [Ids -> Copies]]

TypeOK ==
    /\ up \in BOOLEAN
    /\ profiles \subseteq Ids
    /\ generated \subseteq Ids
    /\ fields \in [Ids -> Fields]
    /\ saver \in [Savers -> SaveCalls]
    /\ mu \in Savers \cup {Nobody}
    /\ file \in Files
    /\ last \in {"none", "ok", "failed"}
    /\ changes \in Nat /\ snapshots \in Nat /\ written \in Nat
    /\ crashes \in Nat /\ failures \in Nat

Init ==
    /\ up = TRUE
    /\ profiles = {}
    /\ generated = {}
    /\ fields \in [Ids -> {[name |-> n, enabled |-> "on"] : n \in Names}]
    /\ saver = [s \in Savers |-> IdleSave]
    /\ mu = Nobody
    /\ file = NoFile
    /\ changes = 0
    /\ snapshots = 0
    /\ last = "none"
    /\ written = 0
    /\ crashes = 0
    /\ failures = 0

-----------------------------------------------------------------------------
(* The changes.  Each starts a Save.                                       *)

StartSave ==
    \E s \in Savers :
        /\ saver[s] = IdleSave
        /\ saver' = [saver EXCEPT ![s] = [pc |-> "start"]]

Change ==
    /\ up
    /\ changes < MaxChanges
    /\ changes' = changes + 1
    /\ UNCHANGED <<up, mu, file, snapshots, last, written, crashes, failures>>

NewProfile(p, n) ==
    /\ Change
    /\ p \notin generated
    /\ generated' = generated \cup {p}
    /\ profiles' = profiles \cup {p}
    /\ fields' = [fields EXCEPT ![p] = [name |-> n, enabled |-> "on"]]
    /\ StartSave

(* The profile is changed in place, in whichever fields the request names. *)
UpdateProfile(p, new) ==
    /\ Change
    /\ p \in profiles
    /\ fields' = [fields EXCEPT ![p] = new]
    /\ StartSave
    /\ UNCHANGED <<profiles, generated>>

\* Mutant of DeleteProfile: nothing is saved.
DeleteUnsaved(p) ==
    /\ Change
    /\ p \in profiles
    /\ profiles' = profiles \ {p}
    /\ UNCHANGED <<generated, fields, saver>>

DeleteProfile(p) ==
    /\ Change
    /\ p \in profiles
    /\ profiles' = profiles \ {p}
    /\ StartSave
    /\ UNCHANGED <<generated, fields>>

-----------------------------------------------------------------------------
(* Save.                                                                   *)

Doing(s, pc) == saver[s].pc = pc

Listed(s, c) ==
    /\ Doing(s, "start")
    /\ snapshots' = snapshots + 1
    /\ saver' = [saver EXCEPT ![s] = [pc |-> "lock", ids |-> profiles,
                                     no |-> snapshots + 1, copy |-> c]]
    /\ UNCHANGED <<memVars, mu, file, last, written, failures>>

\* Mutant of List: the fields are copied with the pointers, under the lock.
ListAndCopy(s) == Listed(s, fields)

(* The list of pointers, under the read lock.                              *)
List(s) == Listed(s, [p \in Ids |-> Blank])

Lock(s) ==
    /\ Doing(s, "lock")
    /\ mu = Nobody
    /\ mu' = s
    /\ saver' = [saver EXCEPT ![s].pc = "read"]
    /\ UNCHANGED <<memVars, file, snapshots, last, written, failures>>

(* json.MarshalIndent reads one field of one profile.                      *)
Read(s, p, f) ==
    /\ Doing(s, "read")
    /\ p \in saver[s].ids
    /\ saver[s].copy[p][f] = Unread
    /\ saver' = [saver EXCEPT ![s].copy[p][f] = fields[p][f]]
    /\ UNCHANGED <<memVars, mu, file, snapshots, last, written, failures>>

\* Mutant of Marshalled: a field of a profile is left out.
MarshalledNames(s) ==
    /\ Doing(s, "read")
    /\ \A p \in saver[s].ids : saver[s].copy[p].name # Unread

Marshalled(s) ==
    /\ Doing(s, "read")
    /\ \A p \in saver[s].ids, f \in FieldNames : saver[s].copy[p][f] # Unread

(* os.WriteFile opens the file with O_TRUNC.                               *)
Truncate(s) ==
    /\ Marshalled(s)
    /\ file' = BrokenFile
    /\ saver' = [saver EXCEPT ![s].pc = "write"]
    /\ UNCHANGED <<memVars, mu, snapshots, last, written, failures>>

Return(s) ==
    /\ saver' = [saver EXCEPT ![s] = IdleSave]
    /\ mu' = Nobody

Write(s) ==
    /\ Doing(s, "write")
    /\ file' = Whole([p \in saver[s].ids |-> saver[s].copy[p]])
    /\ last' = "ok"
    /\ written' = saver[s].no
    /\ Return(s)
    /\ UNCHANGED <<memVars, snapshots, failures>>

Fail ==
    /\ failures < MaxFailures
    /\ failures' = failures + 1
    /\ last' = "failed"
    /\ UNCHANGED <<memVars, file, snapshots, written>>

\* Mutant of SaveFails: an early return without the unlock.
SaveFailsLocked(s) ==
    /\ Marshalled(s) \/ Doing(s, "write")
    /\ Fail
    /\ saver' = [saver EXCEPT ![s] = IdleSave]
    /\ UNCHANGED mu

(* The file cannot be opened, or cannot be written once it is truncated.   *)
SaveFails(s) ==
    /\ Marshalled(s) \/ Doing(s, "write")
    /\ Fail
    /\ Return(s)

SaveStep(s) ==
    \/ List(s)
    \/ \E p \in Ids, f \in FieldNames : Read(s, p, f)
    \/ Truncate(s)
    \/ Write(s)

-----------------------------------------------------------------------------
Crash ==
    /\ up
    /\ crashes < MaxCrashes
    /\ crashes' = crashes + 1
    /\ up' = FALSE
    /\ profiles' = {}
    /\ saver' = [s \in Savers |-> IdleSave]
    /\ mu' = Nobody
    /\ UNCHANGED <<generated, fields, file, changes, snapshots, last, written,
                   failures>>

Migrated(p) == [file.profiles[p] EXCEPT !.enabled = "on"]

(* InitManager: Load's error is dropped, and the map stays empty.          *)
InitManager ==
    /\ ~ up
    /\ up' = TRUE
    /\ profiles' = FileIds
    /\ fields' = [p \in Ids |-> IF p \in FileIds THEN Migrated(p) ELSE fields[p]]
    /\ last' = "none"
    /\ UNCHANGED <<generated, saver, mu, file, changes, snapshots, written,
                   crashes, failures>>

Next ==
    \/ \E p \in Ids, n \in Names : NewProfile(p, n)
    \/ \E p \in Ids, new \in Fields : UpdateProfile(p, new)
    \/ \E p \in Ids : DeleteProfile(p)
    \/ \E s \in Savers : SaveStep(s) \/ Lock(s) \/ SaveFails(s)
    \/ Crash
    \/ InitManager

Spec == Init /\ [][Next]_vars

(* Goroutines run, and a sync.Mutex starves nobody.                        *)
FairSpec ==
    Spec /\ \A s \in Savers : WF_vars(SaveStep(s)) /\ SF_vars(Lock(s))

-----------------------------------------------------------------------------
Quiet == up /\ \A s \in Savers : saver[s] = IdleSave

(* Save reads the fields late, from the profiles themselves (rule.go:230,  *)
(* datastore.go:58): so when no Save is left, and the last one succeeded,  *)
(* no profile in the file is behind its profile in memory, in whatever     *)
(* order the goroutines listed, locked and wrote.                          *)
FieldsAreSaved ==
    Quiet /\ last = "ok" =>
        \A p \in profiles \cap FileIds : file.profiles[p] = fields[p]

(* Which profiles there are is listed early (rule.go:230-235), so that     *)
(* needs more: if the Save that wrote last is also the one that listed     *)
(* last, the file holds the profiles that are in memory, and no other.     *)
MembersAreSaved ==
    Quiet /\ last = "ok" /\ written = snapshots => FileIds = profiles

(* Every Save ends, and CreateProfileHandler with it (rule.go:75,          *)
(* datastore.go:73), also when writes before it have failed.               *)
SavesEnd == \A s \in Savers : ~ Doing(s, "idle") ~> Doing(s, "idle")

-----------------------------------------------------------------------------
(* rule.go:215: the migration is for "profiles created before              *)
(* token/enabled fields existed": a profile saved with its enabled field   *)
(* keeps it when it is loaded.                                             *)
OnlyOldProfilesMigrated ==
    [][InitManager =>
          \A p \in FileIds : fields'[p].enabled = file.profiles[p].enabled]_vars
=============================================================================
