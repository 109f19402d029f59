------------------------------ MODULE MCStores ------------------------------
(* The stores in one instance for TLC.  They share no variable: the        *)
(* initial state picks one of them, and only that one moves.               *)
EXTENDS Auth, SourceStore, SourceList, NamedStore, Catalog, TLC

VARIABLE active

MCHash == "a" :> "ia" @@ "b" :> "ib" @@ "c" :> "ic"
Remote(u) == [id |-> MCHash[u], url |-> u, content |-> Nil, on |-> TRUE]
MCShipped == <<Remote("a")>>
\* One URL twice, the second time with a content: two sources, one identifier.
MCLegacy == <<Remote("b"), Remote("a"),
              [Remote("a") EXCEPT !.content = "c", !.on = FALSE]>>

vars == <<active, authVars, srcVars, listVars, namedVars, catalogVars>>

Init ==
    /\ active \in {"auth", "sources", "list", "named", "catalog"}
    /\ AuthInit /\ SourceInit /\ ListInit /\ CatalogInit
    /\ NamedInit
    /\ active # "named" => kind = "routing" /\ namedFile = NoStore

Next ==
    /\ UNCHANGED active
    /\ \/ /\ active = "auth" /\ AuthNext
          /\ UNCHANGED <<srcVars, listVars, namedVars, catalogVars>>
       \/ /\ active = "sources" /\ SourceNext
          /\ UNCHANGED <<authVars, listVars, namedVars, catalogVars>>
       \/ /\ active = "list" /\ ListNext
          /\ UNCHANGED <<authVars, srcVars, namedVars, catalogVars>>
       \/ /\ active = "named" /\ NamedNext
          /\ UNCHANGED <<authVars, srcVars, listVars, catalogVars>>
       \/ /\ active = "catalog" /\ CatalogNext
          /\ UNCHANGED <<authVars, srcVars, listVars, namedVars>>

Spec == Init /\ [][Next]_vars

(* Every store's variables have their types.                               *)
TypeOK ==
    /\ AuthTypeOK /\ SourceTypeOK /\ ListTypeOK /\ NamedTypeOK
    /\ CatalogTypeOK
=============================================================================
