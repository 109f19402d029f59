--------------------------- MODULE ProfileProofs ---------------------------
(***************************************************************************)
(* Proofs about ProfileStore, for any profiles, any number of Saves at     *)
(* once, and any bounds.                                                   *)
(***************************************************************************)
EXTENDS ProfileStore, TLAPS

Holds(s) == saver[s].pc \in {"read", "write"}
Listing(s) == saver[s].pc \in {"lock", "read", "write"}

(* A Save that has yet to read every field it will write.                  *)
ToCome == \E s \in Savers : saver[s].pc \in {"start", "lock"}

(* A Save that has yet to list the profiles.                               *)
ToList == \E s \in Savers : Doing(s, "start")

(* Who holds the mutex, and what it has read.                              *)
Exclusive ==
    /\ \A s \in Savers : Holds(s) <=> mu = s
    /\ \A s \in Savers : Doing(s, "lock") => saver[s].copy = [p \in Ids |-> Blank]
    /\ \A s \in Savers : Doing(s, "write") =>
          \A p \in saver[s].ids : saver[s].copy[p] \in Fields
    /\ ~ up => \A s \in Savers : saver[s] = IdleSave

(* A field that was read before it changed will be read again, by a Save   *)
(* that the change has started.                                            *)
CopiesCurrent ==
    \A s \in Savers : Holds(s) =>
        \A p \in saver[s].ids \cap profiles, f \in FieldNames :
            saver[s].copy[p][f] \in {Unread, fields[p][f]} \/ ToCome

FileCurrent ==
    up /\ last = "ok" =>
        \A p \in profiles \cap FileIds :
            \/ file.profiles[p] = fields[p]
            \/ ToCome
            \/ \E s \in Savers : Holds(s)

(* The list that is the last one is right, or another one will be made.    *)
LastList ==
    /\ written <= snapshots
    /\ \A s \in Savers : Listing(s) =>
          /\ saver[s].no <= snapshots
          /\ saver[s].no = snapshots => saver[s].ids = profiles \/ ToList

FileComplete ==
    up /\ last = "ok" /\ written = snapshots =>
        FileIds = profiles \/ ToList \/ \E s \in Savers : Doing(s, "write")

IInv ==
    /\ TypeOK
    /\ Exclusive
    /\ CopiesCurrent
    /\ FileCurrent
    /\ LastList
    /\ FileComplete
-----------------------------------------------------------------------------
(* The constant values used to mark a field as not read are no field's.    *)
LEMMA FieldTypes ==
    ASSUME NEW x \in Fields
    PROVE  /\ x.name \in Names /\ x.enabled \in {"on", "off"}
           /\ x["name"] = x.name /\ x["enabled"] = x.enabled
BY DEF Fields

LEMMA InitIInv == Init => IInv
<1>. SUFFICES ASSUME Init  PROVE IInv
  OBVIOUS
<1>1. TypeOK
  BY DEF Init, TypeOK, Fields, SaveCalls, IdleSave, Files, NoFile, Nobody
<1>2. Exclusive
  BY ProfileStoreAssumption DEF Init, Exclusive, Holds, Doing, IdleSave
<1>. QED  BY <1>1, <1>2 DEF Init, IInv, CopiesCurrent, FileCurrent, LastList,
              FileComplete, Holds, Listing, Doing, IdleSave

(* Every step keeps the types, once it is known that a Save writes only    *)
(* what it has read.                                                       *)
LEMMA TypeStep == TypeOK /\ Exclusive /\ [Next]_vars => TypeOK'
<1>. SUFFICES ASSUME TypeOK, Exclusive, [Next]_vars  PROVE TypeOK'
  OBVIOUS
<1>. USE DEF TypeOK
<1>0. ASSUME StartSave  PROVE saver' \in [Savers -> SaveCalls]
  BY <1>0 DEF StartSave, SaveCalls, IdleSave
<1>1. ASSUME NEW p \in Ids, NEW n \in Names, NewProfile(p, n)  PROVE TypeOK'
  BY <1>0, <1>1 DEF NewProfile, Change, Fields
<1>2. ASSUME NEW p \in Ids, NEW new \in Fields, UpdateProfile(p, new)
      PROVE  TypeOK'
  BY <1>0, <1>2 DEF UpdateProfile, Change
<1>3. ASSUME NEW p \in Ids, DeleteProfile(p)  PROVE TypeOK'
  BY <1>0, <1>3 DEF DeleteProfile, Change
<1>4. ASSUME NEW s \in Savers, List(s)  PROVE TypeOK'
  <2>1. [p \in Ids |-> Blank] \in [Ids -> Copies]
    BY DEF Blank, Copies
  <2>. QED  BY <1>4, <2>1 DEF List, Listed, memVars, SaveCalls
<1>5. ASSUME NEW s \in Savers, Lock(s)  PROVE TypeOK'
  BY <1>5 DEF Lock, Doing, memVars, SaveCalls, IdleSave
<1>6. ASSUME NEW s \in Savers, NEW p \in Ids, NEW f \in FieldNames, Read(s, p, f)
      PROVE  TypeOK'
  <2>1. saver[s].copy \in [Ids -> Copies] /\ saver[s].ids \subseteq Ids
        /\ saver[s].no \in Nat
    BY <1>6 DEF Read, Doing, SaveCalls, IdleSave
  <2>2. [saver[s].copy EXCEPT ![p][f] = fields[p][f]] \in [Ids -> Copies]
    BY <2>1 DEF Copies, Fields, FieldNames
  <2>3. saver'[s] \in SaveCalls
    BY <1>6, <2>1, <2>2 DEF Read, Doing, SaveCalls, IdleSave
  <2>. QED  BY <1>6, <2>3 DEF Read, memVars
<1>7. ASSUME NEW s \in Savers, Truncate(s)  PROVE TypeOK'
  BY <1>7 DEF Truncate, Marshalled, Doing, memVars, SaveCalls, IdleSave, Files,
              BrokenFile
<1>8. ASSUME NEW s \in Savers, Write(s)  PROVE TypeOK'
  <2>1. saver[s].ids \subseteq Ids /\ saver[s].no \in Nat
    BY <1>8 DEF Write, Doing, SaveCalls, IdleSave
  <2>2. [p \in saver[s].ids |-> saver[s].copy[p]] \in [saver[s].ids -> Fields]
    BY <1>8 DEF Write, Exclusive
  <2>3. file' \in Files
    BY <1>8, <2>1, <2>2 DEF Write, Files, Whole
  <2>. QED  BY <1>8, <2>1, <2>3 DEF Write, Return, memVars, SaveCalls
<1>9. ASSUME NEW s \in Savers, SaveFails(s)  PROVE TypeOK'
  BY <1>9 DEF SaveFails, Fail, Return, memVars, SaveCalls
<1>10. ASSUME Crash  PROVE TypeOK'
  <2>1. saver' \in [Savers -> SaveCalls]
    BY <1>10 DEF Crash, SaveCalls
  <2>2. profiles' \subseteq Ids
    BY <1>10 DEF Crash
  <2>3. crashes' \in Nat
    BY <1>10 DEF Crash
  <2>. QED  BY <1>10, <2>1, <2>2, <2>3, Zenon DEF Crash
<1>11. ASSUME InitManager  PROVE TypeOK'
  <2>1. FileIds \subseteq Ids /\ \A p \in FileIds : file.profiles[p] \in Fields
    BY DEF FileIds, Files, NoFile, BrokenFile
  <2>2. \A p \in FileIds : Migrated(p) \in Fields
    BY <2>1 DEF Migrated, Fields
  <2>3. fields' \in [Ids -> Fields]
    BY <1>11, <2>2 DEF InitManager
  <2>. QED  BY <1>11, <2>1, <2>3 DEF InitManager
<1>12. ASSUME UNCHANGED vars  PROVE TypeOK'
  BY <1>12 DEF vars, memVars
<1>. QED
  BY <1>1, <1>2, <1>3, <1>4, <1>5, <1>6, <1>7, <1>8, <1>9, <1>10, <1>11, <1>12
     DEF Next, SaveStep

-----------------------------------------------------------------------------
(* StartSave adds a Save that has yet to list, and leaves the others.      *)
LEMMA StartOne ==
    ASSUME TypeOK, StartSave
    PROVE  /\ \A s \in Savers :
                 \/ saver'[s] = saver[s]
                 \/ saver[s] = IdleSave /\ saver'[s] = [pc |-> "start"]
           /\ \E s \in Savers : saver'[s] = [pc |-> "start"]
           /\ (ToCome /\ ToList)'
<1>1. PICK s \in Savers : /\ saver[s] = IdleSave
                          /\ saver' = [saver EXCEPT ![s] = [pc |-> "start"]]
  BY DEF StartSave
<1>2. saver'[s] = [pc |-> "start"] /\ \A t \in Savers \ {s} : saver'[t] = saver[t]
  BY <1>1 DEF TypeOK
<1>3. saver'[s].pc = "start"
  BY <1>2
<1>4. (ToCome /\ ToList)'
  BY <1>3 DEF ToCome, ToList, Doing
<1>5. ASSUME NEW t \in Savers
      PROVE  \/ saver'[t] = saver[t]
             \/ saver[t] = IdleSave /\ saver'[t] = [pc |-> "start"]
  BY <1>1, <1>2
<1>. QED  BY <1>2, <1>4, <1>5

(* The pc of a Save tells whether it is idle.                              *)
LEMMA SaveShape ==
    ASSUME TypeOK, NEW s \in Savers
    PROVE  /\ saver[s].pc \in {"idle", "start", "lock", "read", "write"}
           /\ saver[s].pc = "idle" <=> saver[s] = IdleSave
           /\ saver[s].pc \in {"lock", "read", "write"} =>
                 /\ saver[s] \in [pc : {"lock", "read", "write"},
                                  ids : SUBSET Ids, no : Nat,
                                  copy : [Ids -> Copies]]
                 /\ saver[s].ids \subseteq Ids /\ saver[s].no \in Nat
                 /\ saver[s].copy \in [Ids -> Copies]
BY DEF TypeOK, SaveCalls, IdleSave

(* One Save holds the mutex; it lists before it reads and reads before it  *)
(* writes.                                                                 *)
LEMMA ExclusiveStep == TypeOK /\ Exclusive /\ [Next]_vars => Exclusive'
<1>. SUFFICES ASSUME TypeOK, Exclusive, [Next]_vars  PROVE Exclusive'
  OBVIOUS
<1>. USE DEF Exclusive, Holds, Doing
<1>n. \A s \in Savers : mu # Nobody \/ mu # s
  BY ProfileStoreAssumption
<1>1. ASSUME StartSave, up' = up, up, mu' = mu  PROVE Exclusive'
  BY <1>1, StartOne DEF IdleSave
<1>2. ASSUME NEW s \in Savers, List(s)  PROVE Exclusive'
  BY <1>2, SaveShape DEF List, Listed, memVars, TypeOK, IdleSave
<1>3. ASSUME NEW s \in Savers, Lock(s)  PROVE Exclusive'
  BY <1>3, <1>n DEF Lock, memVars, TypeOK, IdleSave
<1>4. ASSUME NEW s \in Savers, NEW p \in Ids, NEW f \in FieldNames, Read(s, p, f)
      PROVE  Exclusive'
  BY <1>4, SaveShape DEF Read, memVars, TypeOK, IdleSave
<1>5. ASSUME NEW s \in Savers, Truncate(s)  PROVE Exclusive'
  <2>1. \A p \in saver[s].ids : saver[s].copy[p] \in Fields
    BY <1>5, SaveShape DEF Truncate, Marshalled, FieldNames, Copies, Fields
  <2>2. /\ \A t \in Savers \ {s} : saver'[t] = saver[t]
        /\ saver'[s].pc = "write"
        /\ saver'[s].ids = saver[s].ids /\ saver'[s].copy = saver[s].copy
        /\ mu' = mu /\ up' = up /\ saver[s].pc = "read"
    BY <1>5, SaveShape DEF Truncate, Marshalled, memVars, TypeOK
  <2>. QED  BY <2>1, <2>2 DEF IdleSave
<1>6. ASSUME NEW s \in Savers, Holds(s), Return(s), up' = up  PROVE Exclusive'
  BY <1>6, ProfileStoreAssumption DEF Return, TypeOK, IdleSave
<1>7. ASSUME Crash  PROVE Exclusive'
  BY <1>7, ProfileStoreAssumption DEF Crash, IdleSave
<1>8. ASSUME InitManager  PROVE Exclusive'
  BY <1>8 DEF InitManager
<1>9. ASSUME UNCHANGED vars  PROVE Exclusive'
  BY <1>9 DEF vars, memVars
<1>10. ASSUME NEW p \in Ids, DeleteProfile(p)  PROVE Exclusive'
  BY <1>1, <1>10 DEF DeleteProfile, Change
<1>11. ASSUME NEW p \in Ids, NEW n \in Names, NewProfile(p, n)  PROVE Exclusive'
  BY <1>1, <1>11 DEF NewProfile, Change
<1>12. ASSUME NEW p \in Ids, NEW new \in Fields, UpdateProfile(p, new)
       PROVE  Exclusive'
  BY <1>1, <1>12 DEF UpdateProfile, Change
<1>13. ASSUME NEW s \in Savers, Write(s)  PROVE Exclusive'
  BY <1>6, <1>13 DEF Write, memVars
<1>14. ASSUME NEW s \in Savers, SaveFails(s)  PROVE Exclusive'
  BY <1>6, <1>14 DEF SaveFails, Fail, Marshalled, memVars
<1>. QED
  BY <1>2, <1>3, <1>4, <1>5, <1>7, <1>8, <1>9, <1>10, <1>11, <1>12, <1>13, <1>14
     DEF Next, SaveStep

-----------------------------------------------------------------------------
(* A change starts a Save, and while a Save is to come nothing need be     *)
(* current; a Save that locks has read nothing; one that writes has        *)
(* nothing but current fields, unless another is to come.                  *)
Current == CopiesCurrent /\ FileCurrent

LEMMA CurrentStep == TypeOK /\ Exclusive /\ Current /\ [Next]_vars => Current'
<1>. SUFFICES ASSUME TypeOK, Exclusive, Current, [Next]_vars  PROVE Current'
  OBVIOUS
<1>. USE DEF Current
<1>1. ASSUME StartSave  PROVE Current'
  BY <1>1, StartOne DEF CopiesCurrent, FileCurrent
<1>2. ASSUME NEW s \in Savers, List(s)  PROVE Current'
  <2>1. /\ \A t \in Savers \ {s} : saver'[t] = saver[t]
        /\ saver'[s].pc = "lock"
    BY <1>2 DEF List, Listed, TypeOK
  <2>2. ToCome'
    BY <2>1 DEF ToCome
  <2>. QED  BY <2>2 DEF CopiesCurrent, FileCurrent
<1>3. ASSUME NEW s \in Savers, Lock(s)  PROVE Current'
  <2>1. /\ \A t \in Savers \ {s} : saver'[t] = saver[t] /\ ~ Holds(t)
        /\ saver[s].pc = "lock" /\ saver'[s].pc = "read"
        /\ saver'[s].ids = saver[s].ids /\ saver'[s].copy = [p \in Ids |-> Blank]
        /\ saver[s].ids \subseteq Ids
    BY <1>3, SaveShape, ProfileStoreAssumption
       DEF Lock, Doing, TypeOK, Exclusive
  <2>2. \A p \in Ids, f \in FieldNames : saver'[s].copy[p][f] = Unread
    BY <2>1 DEF Blank, FieldNames
  <2>3. CopiesCurrent'
    BY <2>1, <2>2 DEF CopiesCurrent, Holds
  <2>4. FileCurrent'
    BY <2>1 DEF FileCurrent, Holds
  <2>. QED  BY <2>3, <2>4
<1>4. ASSUME NEW s \in Savers, NEW p \in Ids, NEW f \in FieldNames, Read(s, p, f)
      PROVE  Current'
  <2>1. /\ \A t \in Savers \ {s} : saver'[t] = saver[t]
        /\ saver[s].pc = "read" /\ saver'[s].pc = "read"
        /\ saver'[s].ids = saver[s].ids /\ saver[s].ids \subseteq Ids
        /\ saver'[s].copy = [saver[s].copy EXCEPT ![p][f] = fields[p][f]]
        /\ saver[s].copy \in [Ids -> Copies]
        /\ UNCHANGED <<up, profiles, fields, file, last>>
    BY <1>4, SaveShape DEF Read, Doing, TypeOK, memVars
  <2>2. \A q \in Ids, g \in FieldNames :
           saver'[s].copy[q][g] \in {saver[s].copy[q][g], fields[q][g]}
    BY <2>1 DEF Copies, FieldNames
  <2>3. ToCome' <=> ToCome
    BY <2>1 DEF ToCome
  <2>4. CopiesCurrent'
    <3>1. SUFFICES ASSUME NEW t \in Savers, Holds(t)',
                          NEW q \in saver'[t].ids \cap profiles', NEW g \in FieldNames,
                          ~ ToCome
                   PROVE  saver'[t].copy[q][g] \in {Unread, fields'[q][g]}
      BY <2>3 DEF CopiesCurrent
    <3>2. CASE t = s
      <4>1. saver[s].copy[q][g] \in {Unread, fields[q][g]}
        BY <2>1, <3>1, <3>2 DEF CopiesCurrent, Holds
      <4>. QED  BY <2>1, <2>2, <3>1, <3>2, <4>1
    <3>3. CASE t # s
      BY <2>1, <3>1, <3>3 DEF CopiesCurrent, Holds
    <3>. QED  BY <3>2, <3>3
  <2>5. FileCurrent'
    BY <2>1, <2>3 DEF FileCurrent, Holds, FileIds
  <2>. QED  BY <2>4, <2>5
<1>5. ASSUME NEW s \in Savers, Truncate(s)  PROVE Current'
  <2>1. /\ \A t \in Savers \ {s} : saver'[t] = saver[t]
        /\ saver[s].pc = "read" /\ saver'[s].pc = "write"
        /\ saver'[s].ids = saver[s].ids /\ saver'[s].copy = saver[s].copy
        /\ UNCHANGED <<profiles, fields>>
    BY <1>5 DEF Truncate, Marshalled, Doing, TypeOK, memVars
  <2>2. ToCome' <=> ToCome
    BY <2>1 DEF ToCome
  <2>3. CopiesCurrent'
    BY <2>1, <2>2 DEF CopiesCurrent, Holds
  <2>4. FileCurrent'
    BY <2>1 DEF FileCurrent, Holds
  <2>. QED  BY <2>3, <2>4
<1>6. ASSUME NEW s \in Savers, Holds(s), Return(s), UNCHANGED <<profiles, fields>>
      PROVE  CopiesCurrent' /\ (ToCome => ToCome')
  <2>1. /\ \A t \in Savers \ {s} : saver'[t] = saver[t]
        /\ saver[s].pc \in {"read", "write"} /\ saver'[s].pc = "idle"
    BY <1>6 DEF Return, Holds, TypeOK, IdleSave
  <2>2. ToCome => ToCome'
    BY <2>1 DEF ToCome
  <2>. QED  BY <1>6, <2>1, <2>2 DEF CopiesCurrent, Holds
<1>7. ASSUME NEW s \in Savers, Write(s)  PROVE Current'
  <2>1. Holds(s) /\ saver[s].pc = "write" /\ Return(s)
        /\ UNCHANGED <<profiles, fields>>
    BY <1>7 DEF Write, Doing, Holds, memVars
  <2>2. CopiesCurrent' /\ (ToCome => ToCome')
    BY <1>6, <2>1
  <2>3. ASSUME NEW p \in profiles \cap saver[s].ids, ~ ToCome
        PROVE  saver[s].copy[p] = fields[p]
    <3>1. saver[s].copy[p] \in Fields /\ fields[p] \in Fields
      BY <2>1 DEF Exclusive, Doing, TypeOK
    <3>2. \A f \in FieldNames : saver[s].copy[p][f] \in {Unread, fields[p][f]}
      BY <2>1, <2>3 DEF CopiesCurrent
    <3>3. /\ saver[s].copy[p].name = fields[p].name
          /\ saver[s].copy[p].enabled = fields[p].enabled
      BY <3>1, <3>2, FieldTypes, ProfileStoreAssumption DEF FieldNames, Unread
    <3>. QED  BY <3>1, <3>3 DEF Fields
  <2>4. FileIds' = saver[s].ids
        /\ \A p \in saver[s].ids : file'.profiles[p] = saver[s].copy[p]
    BY <1>7 DEF Write, FileIds, Whole
  <2>5. FileCurrent'
    BY <2>1, <2>2, <2>3, <2>4 DEF FileCurrent
  <2>. QED  BY <2>2, <2>5
<1>8. ASSUME NEW s \in Savers, SaveFails(s)  PROVE Current'
  <2>1. Holds(s) /\ Return(s) /\ last' = "failed" /\ UNCHANGED <<profiles, fields>>
    BY <1>8 DEF SaveFails, Fail, Marshalled, Doing, Holds, memVars
  <2>. QED  BY <1>6, <2>1 DEF FileCurrent
<1>9. ASSUME Crash  PROVE Current'
  BY <1>9 DEF Crash, CopiesCurrent, FileCurrent
<1>10. ASSUME InitManager  PROVE Current'
  BY <1>10 DEF InitManager, CopiesCurrent, FileCurrent, Exclusive, Holds, IdleSave
<1>11. ASSUME UNCHANGED vars  PROVE Current'
  BY <1>11 DEF vars, memVars, CopiesCurrent, FileCurrent, Holds, ToCome, FileIds
<1>12. ASSUME NEW p \in Ids, DeleteProfile(p)  PROVE Current'
  BY <1>1, <1>12 DEF DeleteProfile
<1>13. ASSUME NEW p \in Ids, NEW n \in Names, NewProfile(p, n)  PROVE Current'
  BY <1>1, <1>13 DEF NewProfile
<1>14. ASSUME NEW p \in Ids, NEW new \in Fields, UpdateProfile(p, new)
       PROVE  Current'
  BY <1>1, <1>14 DEF UpdateProfile
<1>. QED
  BY <1>2, <1>3, <1>4, <1>5, <1>7, <1>8, <1>9, <1>10, <1>11, <1>12, <1>13, <1>14
     DEF Next, SaveStep

-----------------------------------------------------------------------------
(* A change of the map starts a Save; a Save that lists has the last list; *)
(* and the file has the list of the Save that wrote it.                    *)
Complete == LastList /\ FileComplete

LEMMA CompleteStep == TypeOK /\ Exclusive /\ Complete /\ [Next]_vars => Complete'
<1>. SUFFICES ASSUME TypeOK, Exclusive, Complete, [Next]_vars  PROVE Complete'
  OBVIOUS
<1>. USE DEF Complete
<1>1. ASSUME StartSave, UNCHANGED <<snapshots, written>>  PROVE Complete'
  BY <1>1, StartOne DEF LastList, FileComplete, Listing
<1>2. ASSUME NEW s \in Savers, List(s)  PROVE Complete'
  <2>1. /\ \A t \in Savers \ {s} : saver'[t] = saver[t]
        /\ saver'[s].pc = "lock" /\ saver'[s].ids = profiles
        /\ saver'[s].no = snapshots + 1 /\ snapshots' = snapshots + 1
        /\ UNCHANGED <<profiles, written>>
    BY <1>2 DEF List, Listed, TypeOK, memVars
  <2>2. snapshots \in Nat /\ written \in Nat
        /\ \A t \in Savers : Listing(t) => saver[t].no \in Nat
    BY SaveShape DEF TypeOK, Listing
  <2>3. written <= snapshots
        /\ \A t \in Savers : Listing(t) => saver[t].no <= snapshots
    BY DEF LastList
  <2>4. LastList'
    <3>1. ASSUME NEW t \in Savers, Listing(t)', t # s
          PROVE  saver'[t].no < snapshots'
      BY <2>1, <2>2, <2>3, <3>1 DEF Listing
    <3>2. written' <= snapshots' /\ Listing(s)' /\ saver'[s].ids = profiles'
          /\ saver'[s].no = snapshots'
      BY <2>1, <2>2, <2>3 DEF Listing
    <3>3. ASSUME NEW t \in Savers, Listing(t)', t # s
          PROVE  saver'[t].no <= snapshots' /\ saver'[t].no # snapshots'
      BY <2>1, <2>2, <3>1, <3>3 DEF Listing
    <3>. QED  BY <2>1, <2>2, <3>2, <3>3 DEF LastList
  <2>5. FileComplete'
    BY <2>1, <2>2, <2>3 DEF FileComplete
  <2>. QED  BY <2>4, <2>5
<1>3. ASSUME NEW s \in Savers, NEW pc \in {"read", "write"},
             \A t \in Savers \ {s} : saver'[t] = saver[t],
             Listing(s), saver'[s].pc = pc, ~ Doing(s, "write"),
             saver'[s].ids = saver[s].ids, saver'[s].no = saver[s].no,
             UNCHANGED <<up, profiles, snapshots, last, written>>,
             pc = "write" \/ UNCHANGED file
      PROVE  Complete'
  <2>1. ToList' <=> ToList
    BY <1>3 DEF ToList, Doing, Listing
  <2>2. LastList'
    BY <1>3, <2>1 DEF LastList, Listing
  <2>3. FileComplete'
    BY <1>3, <2>1 DEF FileComplete, FileIds, Doing
  <2>. QED  BY <2>2, <2>3
<1>4. ASSUME NEW s \in Savers, Lock(s)  PROVE Complete'
  BY <1>3, <1>4 DEF Lock, Doing, Listing, memVars, TypeOK
<1>5. ASSUME NEW s \in Savers, NEW p \in Ids, NEW f \in FieldNames, Read(s, p, f)
      PROVE  Complete'
  BY <1>3, <1>5 DEF Read, Doing, Listing, memVars, TypeOK
<1>6. ASSUME NEW s \in Savers, Truncate(s)  PROVE Complete'
  BY <1>3, <1>6 DEF Truncate, Marshalled, Doing, Listing, memVars, TypeOK
<1>7. ASSUME NEW s \in Savers, Listing(s), Return(s), UNCHANGED <<profiles, snapshots>>,
             written' \in {written, saver[s].no}
      PROVE  LastList' /\ (ToList => ToList')
  <2>1. /\ \A t \in Savers \ {s} : saver'[t] = saver[t]
        /\ saver[s].pc \in {"lock", "read", "write"} /\ saver'[s].pc = "idle"
    BY <1>7 DEF Return, Listing, TypeOK, IdleSave
  <2>2. ToList => ToList'
    BY <2>1 DEF ToList, Doing
  <2>. QED  BY <1>7, <2>1, <2>2 DEF LastList, Listing
<1>8. ASSUME NEW s \in Savers, Write(s)  PROVE Complete'
  <2>1. Listing(s) /\ Return(s) /\ written' = saver[s].no
        /\ UNCHANGED <<profiles, snapshots>>
    BY <1>8 DEF Write, Doing, Listing, memVars
  <2>2. LastList' /\ (ToList => ToList')
    BY <1>7, <2>1
  <2>3. FileIds' = saver[s].ids
    BY <1>8 DEF Write, FileIds, Whole
  <2>4. FileComplete'
    BY <2>1, <2>2, <2>3 DEF FileComplete, LastList
  <2>. QED  BY <2>2, <2>4
<1>9. ASSUME NEW s \in Savers, SaveFails(s)  PROVE Complete'
  <2>1. Listing(s) /\ Return(s) /\ last' = "failed"
        /\ UNCHANGED <<profiles, snapshots, written>>
    BY <1>9 DEF SaveFails, Fail, Marshalled, Doing, Listing, memVars
  <2>. QED  BY <1>7, <2>1 DEF FileComplete
<1>10. ASSUME Crash  PROVE Complete'
  BY <1>10 DEF Crash, LastList, FileComplete, Listing, IdleSave
<1>11. ASSUME InitManager  PROVE Complete'
  BY <1>11 DEF InitManager, LastList, FileComplete, Listing, Exclusive, IdleSave
<1>12. ASSUME UNCHANGED vars  PROVE Complete'
  BY <1>12 DEF vars, memVars, LastList, FileComplete, Listing, Doing, ToList, FileIds
<1>13. ASSUME NEW p \in Ids, DeleteProfile(p)  PROVE Complete'
  BY <1>1, <1>13 DEF DeleteProfile, Change
<1>14. ASSUME NEW p \in Ids, NEW n \in Names, NewProfile(p, n)  PROVE Complete'
  BY <1>1, <1>14 DEF NewProfile, Change
<1>15. ASSUME NEW p \in Ids, NEW new \in Fields, UpdateProfile(p, new)
       PROVE  Complete'
  BY <1>1, <1>15 DEF UpdateProfile, Change
<1>. QED
  BY <1>2, <1>4, <1>5, <1>6, <1>8, <1>9, <1>10, <1>11, <1>12, <1>13, <1>14, <1>15
     DEF Next, SaveStep

-----------------------------------------------------------------------------
(* The inductive invariant holds in every state the store can reach.       *)
THEOREM Invariance == Spec => []IInv
<1>1. IInv /\ [Next]_vars => IInv'
  BY TypeStep, ExclusiveStep, CurrentStep, CompleteStep
     DEF IInv, Current, Complete
<1>. QED  BY InitIInv, <1>1, PTL DEF Spec

(* Every variable of the profile store keeps its type.                     *)
THEOREM TypeCorrect == Spec => []TypeOK
<1>1. IInv => TypeOK
  BY DEF IInv
<1>. QED  BY Invariance, <1>1, PTL

(* rule.go:230, datastore.go:58: whatever the order of the Saves, when     *)
(* they are done no profile in the file is behind the one in memory.       *)
THEOREM FieldsSafe == Spec => []FieldsAreSaved
<1>1. IInv => FieldsAreSaved
  BY DEF IInv, FieldsAreSaved, Quiet, FileCurrent, ToCome, Holds, IdleSave
<1>. QED  BY Invariance, <1>1, PTL

(* rule.go:230-235: the file has the profiles that memory has, once the    *)
(* Save that listed last is the one that wrote last.                       *)
THEOREM MembersSafe == Spec => []MembersAreSaved
<1>1. IInv => MembersAreSaved
  BY DEF IInv, MembersAreSaved, Quiet, FileComplete, ToList, Doing, IdleSave
<1>. QED  BY Invariance, <1>1, PTL
=============================================================================
