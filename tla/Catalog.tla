------------------------------ MODULE Catalog -------------------------------
(***************************************************************************)
(* internal/routing/catalog.go: the rule catalogue.  GetCatalog decodes    *)
(* data/catalog.json into a variable shared by all requests, element by    *)
(* element, while it holds the lock only for reading: requests that find   *)
(* the variable nil decode at the same time, and one that comes later may  *)
(* be given what they have decoded so far.  Of the data race the model has *)
(* the interleavings of whole elements, not torn slice headers.  The start *)
(* of the program writes the file if there is none, and goes on whether    *)
(* that works or not.  SaveCatalog has no caller.                          *)
(***************************************************************************)
EXTENDS Naturals

CONSTANTS
    Categories,   \* how many the built-in catalogue has
    Readers       \* bound: requests at once

ASSUME CatalogAssumption == Categories \in Nat \ {0}

VARIABLES
    catalogUp,    \* "booting", "writing" (the file) or "up"
    catalogFile,  \* data/catalog.json: "absent", "torn" or "ok"
    catalogData,  \* the length of the shared slice; 0 for nil
    reader,       \* what each request has decoded; Idle for none
    served,       \* history: the length of the last answer of each request
    catalogFailed \* history: the last write of the file failed or was cut short

catalogVars == <<catalogUp, catalogFile, catalogData, reader, served,
                 catalogFailed>>

Idle == Categories + 1

CatalogTypeOK ==
    /\ catalogUp \in {"booting", "writing", "up"}
    /\ catalogFile \in {"absent", "torn", "ok"}
    /\ catalogData \in 0..Categories
    /\ reader \in [Readers -> 0..Idle]
    /\ served \in [Readers -> 0..Idle]
    /\ catalogFailed \in BOOLEAN

CatalogInit ==
    /\ catalogUp = "booting"
    /\ catalogFile = "absent"
    /\ catalogData = 0
    /\ reader = [r \in Readers |-> Idle]
    /\ served = [r \in Readers |-> Idle]
    /\ catalogFailed = FALSE

\* Mutant of EnsureCatalogDefault: nothing is written.
EnsureSkipped ==
    /\ catalogUp = "booting"
    /\ catalogUp' = "up"
    /\ UNCHANGED <<catalogFile, catalogData, reader, served, catalogFailed>>

(* A file that exists is left alone.  Else it is created and written:      *)
(* os.WriteFile may fail at the open, which leaves no file, or at the      *)
(* write, which leaves a part of it; the error is logged, no more.         *)
EnsureCatalogDefault ==
    /\ \/ /\ catalogUp = "booting" /\ catalogFile # "absent"
          /\ catalogUp' = "up"
          /\ UNCHANGED <<catalogFile, catalogFailed>>
       \/ /\ catalogUp = "booting" /\ catalogFile = "absent"
          /\ \/ /\ catalogUp' = "writing"
                /\ catalogFile' = "torn"
                /\ UNCHANGED catalogFailed
             \/ /\ catalogUp' = "up"
                /\ catalogFailed' = TRUE
                /\ UNCHANGED catalogFile
       \/ /\ catalogUp = "writing"
          /\ catalogUp' = "up"
          /\ \/ catalogFile' = "ok" /\ catalogFailed' = FALSE
             \/ catalogFile' = "torn" /\ catalogFailed' = TRUE
    /\ UNCHANGED <<catalogData, reader, served>>

Answer(r, n) ==
    /\ served' = [served EXCEPT ![r] = n]
    /\ reader' = [reader EXCEPT ![r] = Idle]

(* A catalogue that is not nil is the answer; a file that does not parse   *)
(* is an empty one; otherwise the request decodes.                         *)
GetCatalog(r) ==
    /\ catalogUp = "up"
    /\ reader[r] = Idle
    /\ \/ catalogData > 0 /\ Answer(r, catalogData)
       \/ catalogData = 0 /\ catalogFile # "ok" /\ Answer(r, 0)
       \/ /\ catalogData = 0 /\ catalogFile = "ok"
          /\ reader' = [reader EXCEPT ![r] = 0]
          /\ UNCHANGED served
    /\ UNCHANGED <<catalogUp, catalogFile, catalogData, catalogFailed>>

Longer(n) == IF n > catalogData THEN n ELSE catalogData

\* Mutant of Decode: every element is appended to the slice.
DecodeAppends(r) ==
    /\ reader[r] < Categories
    /\ reader' = [reader EXCEPT ![r] = @ + 1]
    /\ catalogData' = catalogData + 1
    /\ UNCHANGED <<catalogUp, catalogFile, served, catalogFailed>>

(* An element is stored; the slice grows only past its length.             *)
Decode(r) ==
    /\ reader[r] < Categories
    /\ reader' = [reader EXCEPT ![r] = @ + 1]
    /\ catalogData' = Longer(reader[r] + 1)
    /\ UNCHANGED <<catalogUp, catalogFile, served, catalogFailed>>

Decoded(r) ==
    /\ reader[r] = Categories
    /\ Answer(r, catalogData)
    /\ UNCHANGED <<catalogUp, catalogFile, catalogData, catalogFailed>>

CatalogCrash ==
    /\ catalogUp' = "booting"
    /\ catalogFailed' = (catalogFailed \/ catalogUp = "writing")
    /\ catalogData' = 0
    /\ reader' = [r \in Readers |-> Idle]
    /\ served' = [r \in Readers |-> Idle]
    /\ UNCHANGED catalogFile

CatalogNext ==
    \/ EnsureCatalogDefault \/ CatalogCrash
    \/ \E r \in Readers : GetCatalog(r) \/ Decode(r) \/ Decoded(r)

CatalogSpec == CatalogInit /\ [][CatalogNext]_catalogVars

-----------------------------------------------------------------------------
(* Requests that decode the catalogue into the same slice at the same time *)
(* leave it whole: once none of them is at it, it is nil or has every      *)
(* category (catalog.go:39-57).                                            *)
WholeOnceQuiet ==
    (\A r \in Readers : reader[r] = Idle) => catalogData \in {0, Categories}

(* The rule picker has content (catalog.go:60), unless the last write of   *)
(* the file failed or was cut short: no other request is answered with an  *)
(* empty catalogue, not even when an earlier start could not create it.    *)
EmptyOnlyAfterFailure ==
    (\E r \in Readers : served[r] = 0) => catalogFailed
=============================================================================
