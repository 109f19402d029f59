----------------------------- MODULE RuleEngine -----------------------------
(***************************************************************************)
(* internal/rule/engine.go and internal/proxy/region.go: what a profile    *)
(* does to a list of nodes.  A name is a sequence of symbols: words of     *)
(* letters and digits, words of another script, separators, and the rest.  *)
(* A region keyword is a sequence of symbols, and a regular expression the *)
(* set of symbols it finds.                                                *)
(*                                                                         *)
(* Letter case is left out; a server or a type in a name is one symbol,    *)
(* and no name has a template variable in it; names compare symbol by      *)
(* symbol, as strings do when no symbol is the beginning of another.       *)
(*                                                                         *)
(* detectRegionFromName goes through a Go map, whose order changes from    *)
(* call to call, and the look-up of an address may fail at one time and    *)
(* not at another: DetectRegion is a set of answers, and Engine a set of   *)
(* lists.                                                                  *)
(***************************************************************************)
EXTENDS Sublists, Integers

CONSTANTS
    Letters,    \* the symbols made of ASCII letters and digits
    Wide,       \* the symbols of another script
    Separators, \* blanks and the like: [\s_\-+|:]
    Blank,      \* the separator " "
    RegionOf,   \* region keyword -> code
    Turn,       \* region keyword -> when it is stripped, the longest first
    Geo,        \* server -> the codes a look-up may give, "" for a failure
    Addresses,  \* the servers that are IP addresses
    Rank        \* symbol, code or type -> its place in the order of strings

Strings == DOMAIN Rank
Servers == DOMAIN Geo
Variables == {"{code}", "{tag}", "{type}", "{name}", "{server}"}

(* A source gives a node without the last three fields, which stand for    *)
(* its identity, where it came from, and the prefix before its name.       *)
Nodes == [type : Strings, server : Servers, name : Seq(Strings),
          no : Nat, source : STRING, prefix : STRING]

(* The new values a script or the overrides give for fields of a node.     *)
Fields(sets) ==
    /\ DOMAIN sets \subseteq {"type", "server", "name"}
    /\ "type" \in DOMAIN sets => sets.type \in Strings
    /\ "server" \in DOMAIN sets => sets.server \in Servers
    /\ "name" \in DOMAIN sets => sets.name \in Seq(Strings)

Words(name) == {name[i] : i \in DOMAIN name}
Keywords == DOMAIN RegionOf
Codes == {RegionOf[k] : k \in Keywords}

(* Rank is the order of strings; every code is a keyword of itself         *)
(* (region.go:26-73).                                                      *)
ASSUME EngineAssumption ==
    /\ Rank \in [Strings -> Int]
    /\ \A v, w \in Strings : Rank[v] = Rank[w] => v = w
    /\ {"", "UN", "?"} \subseteq Strings /\ Servers \subseteq Strings
    /\ Strings \cap Variables = {}
    /\ Blank \in Separators /\ Separators \subseteq Strings
    /\ Letters \cap (Separators \cup Wide) = {}
    /\ IsFiniteSet(Keywords) /\ Keywords \subseteq Seq(Strings)
    /\ \A c \in Codes : c \in Strings /\ <<c>> \in Keywords /\ RegionOf[<<c>>] = c
    /\ \A s \in Servers : Geo[s] # {} /\ Geo[s] \subseteq Strings

-----------------------------------------------------------------------------
(* internal/proxy/region.go                                                *)

(* A keyword without a wide symbol is found between word boundaries only.  *)
Occurs(k, name, i) ==
    LET after == i + Len(k)
    IN  /\ after <= Len(name) + 1 /\ SubSeq(name, i, after - 1) = k
        /\ Words(k) \cap Wide = {} =>
              /\ i = 1 \/ name[i - 1] \notin Letters
              /\ after > Len(name) \/ name[after] \notin Letters

Occurrences(name) == {o \in Keywords \X DOMAIN name : Occurs(o[1], name, o[2])}

DetectRegion(name, server) ==
    IF Occurrences(name) # {} THEN {RegionOf[o[1]] : o \in Occurrences(name)}
    ELSE Geo[server]

Span(o) == o[2]..(o[2] + Len(o[1]) - 1)
Goes(t, o) == Turn[t[1]] < Turn[o[1]] \/ (t[1] = o[1] /\ t[2] < o[2])

(* The places whose symbols are removed: an occurrence goes unless another *)
(* that has had its turn took some of its symbols.                         *)
Removed ==
    [found \in SUBSET (Keywords \X Nat) |->
        LET going == CHOOSE T \in SUBSET found : \A o \in found :
                o \in T <=> \A t \in T : Goes(t, o) => Span(t) \cap Span(o) = {}
        IN  UNION {Span(o) : o \in found \cap going}]

Without(name) ==
    [places \in SUBSET Nat |->
        Joined([i \in DOMAIN name |-> IF i \in places THEN <<>> ELSE <<name[i]>>])]

(* Every run of separators becomes a blank, and none is at an end.         *)
Normalised ==
    [s \in Seq(Strings) |->
        LET Text(i) == i \in DOMAIN s /\ s[i] \notin Separators
        IN  Joined([i \in DOMAIN s |->
                CASE Text(i) -> <<s[i]>>
                  [] ~Text(i) /\ Text(i + 1) /\ (\E j \in 1..i : Text(j)) -> <<Blank>>
                  [] OTHER -> <<>>])]

(* What is left is not looked at again: a keyword may be in it that was    *)
(* not in the name, or not in one piece.                                   *)
StripRegionKeywords(name) ==
    Normalised[Without(name)[Removed[Occurrences(name)]]]

-----------------------------------------------------------------------------
(* The filters look at the node as it came.  An empty set is no filter.    *)

\* Mutant of Passes: the exclusion is dropped when there is an inclusion.
PassesEither(n, p) ==
    /\ IF p.include # {} THEN Words(n.name) \cap p.include # {}
       ELSE Words(n.name) \cap p.exclude = {}
    /\ p.types = {} \/ n.type \in p.types

Passes(n, p) ==
    /\ p.include = {} \/ Words(n.name) \cap p.include # {}
    /\ Words(n.name) \cap p.exclude = {}
    /\ p.types = {} \/ n.type \in p.types
    /\ p.servers = "ip" => n.server \in Addresses
    /\ p.servers = "domain" => n.server \notin Addresses \cup {""}

Overwritten(n, fields) ==
    [f \in DOMAIN n |-> IF f \in DOMAIN fields THEN fields[f] ELSE n[f]]

(* The script drops the nodes of some types, fails on those of others,     *)
(* which it leaves as they are, and overwrites fields of the rest.         *)
Dropped(n, p) == n.type \in p.script.drops
Scripted(n, p) ==
    IF n.type \in p.script.throws THEN n ELSE Overwritten(n, p.script.sets)

(* The keys a profile may override; the type is not among them.            *)
Overridable == {"name", "server"}
ApplyOverrides(n, p) ==
    Overwritten(n, [f \in DOMAIN p.overrides \cap Overridable |-> p.overrides[f]])

CodeOrUN(code) == IF code = "" THEN "UN" ELSE code
TagOf(name) ==
    LET tag == StripRegionKeywords(name) IN IF tag = <<>> THEN <<"?">> ELSE tag

\* The expansion of a symbol of the template.
Expanded(word, n, server, code) ==
    CASE word = "{code}" -> <<CodeOrUN(code)>>
      [] word = "{tag}" -> TagOf(n.name)
      [] word = "{type}" -> <<n.type>>
      [] word = "{name}" -> n.name
      [] word = "{server}" -> IF server = "" THEN <<>> ELSE <<server>>
      [] OTHER -> <<word>>

Filled(t, n, server, code) ==
    Joined([i \in DOMAIN t |-> Expanded(t[i], n, server, code)])

(* The names ApplyRename may give: of the node as it is now, with the      *)
(* server it came with.                                                    *)
Renamed(server, p) ==
    [n \in Nodes |->
        IF p.rename = <<>> THEN {n}
        ELSE {[n EXCEPT !.name = Filled(p.rename, n, server, code)] :
                  code \in DetectRegion(n.name, server)}]

Transformed(p) ==
    [n \in Nodes |-> Renamed(n.server, p)[ApplyOverrides(Scripted(n, p), p)]]

-----------------------------------------------------------------------------
(* The order.  SliceStable compares; a comparison that does not always     *)
(* give the same answer may leave any order.                               *)

Earlier(a, b) ==
    \E i \in 1..Len(b) :
        /\ \A j \in 1..(i - 1) : j \in DOMAIN a /\ a[j] = b[j]
        /\ i \notin DOMAIN a \/ Rank[a[i]] < Rank[b[i]]

Code(n) == CHOOSE c \in DetectRegion(n.name, n.server) : TRUE

Before(m, n, p) ==
    CASE p.sort = "region" -> Rank[Code(m)] < Rank[Code(n)]
      [] p.sort = "name" -> Earlier(m.name, n.name)
      [] p.sort = "type" -> Rank[m.type] < Rank[n.type]
      [] OTHER -> FALSE

StablySorted(s, p) ==
    LET Place(i) == Cardinality({j \in DOMAIN s :
            \/ Before(s[j], s[i], p)
            \/ j <= i /\ ~Before(s[i], s[j], p)})
    IN  [k \in DOMAIN s |-> s[CHOOSE i \in DOMAIN s : Place(i) = k]]

Permuted(s) ==
    {[k \in DOMAIN s |-> s[f[k]]] : f \in
        {g \in [DOMAIN s -> DOMAIN s] : \A k, l \in DOMAIN s : g[k] = g[l] => k = l}}

Ambiguous(n) == Cardinality(DetectRegion(n.name, n.server)) > 1

ApplySort(s, p) ==
    IF p.sort = "region" /\ \E i \in DOMAIN s : Ambiguous(s[i])
    THEN Permuted(s)
    ELSE {StablySorted(s, p)}

Lists == Seq(Nodes)

Filtered(p) ==
    [s \in Lists |->
        Sublist(s, {i \in DOMAIN s : Passes(s[i], p) /\ ~Dropped(s[i], p)})]

(* The lists that take one of the nodes a relation has for each index.     *)
Selections ==
    [R \in SUBSET (Nat \X Nodes) |->
        {l \in [{x[1] : x \in R} -> {x[2] : x \in R}] :
            \A k \in DOMAIN l : <<k, l[k]>> \in R}]

(* The lists that have for each node one of those it may become.           *)
AllTransformed(p) ==
    [s \in Lists |->
        Selections[UNION {{k} \X Transformed(p)[s[k]] : k \in DOMAIN s}]]

\* Mutant of Engine: the list is sorted before the nodes are transformed.
EngineSortsFirst(nodes, p) ==
    UNION {AllTransformed(p)[s] : s \in ApplySort(Filtered(p)[nodes], p)}

(* Process: each node is filtered, transformed and kept in place, and the  *)
(* list is sorted.                                                         *)
Engine(nodes, p) ==
    UNION {ApplySort(s, p) : s \in AllTransformed(p)[Filtered(p)[nodes]]}
=============================================================================
