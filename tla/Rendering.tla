----------------------------- MODULE Rendering -----------------------------
(***************************************************************************)
(* The last steps of a subscription: the end of pipeline.Run builds the    *)
(* routing configuration (pipeline.go:147-149), SubHandler converts it for *)
(* the client (sub.go:79-80), and another instance may read the result of  *)
(* the base64 converter as one of its sources (provider.go, parser.go).    *)
(***************************************************************************)
EXTENDS Routing, Converters, UriCodec, FiniteSets

CONSTANTS
    Texts,      \* the names, URLs and fields there may be
    Stores,     \* the maps of routing profiles there may be
    NodeLists,  \* the nodes the engine may have left
    ClientTypes \* the client types that may be asked for

(* A RuleItem.                                                             *)
Items ==
    [name : Texts, gfw : BOOLEAN, urls : Seq(Texts),
     payload : Seq(Seq(Texts)), extra : Seq(Texts)]

Elements(s) == {s[i] : i \in DOMAIN s}

(* The names the program writes itself.                                    *)
OwnNames ==
    {"DIRECT", "REJECT", "domestic", "foreign", "blocked", "auto", "balance"}

(* The other texts in it.                                                  *)
OwnWords ==
    {"ads", "forum", "video", "u1", "u2", "u3", "d1", "d2", "direct", "local4",
     "local6", "gfw", "CN", "DOMAIN-SUFFIX", "IP-CIDR", "IP-CIDR6", "GEOSITE",
     "GEOIP", "MATCH", "FINAL", "RULE-SET", "no-resolve", "NO-RESOLVE"}

(* Both tables are of the names with a comma, which the program's own are  *)
(* not.                                                                    *)
ASSUME RenderingAssumption ==
    /\ OwnNames \cup OwnWords \subseteq Texts
    /\ \A s \in Stores : \A id \in DOMAIN s : s[id] \in Seq(Items)
    /\ \A l \in NodeLists : l \in Seq(Elements(l))
    /\ DOMAIN Dashed = DOMAIN Spaced
    /\ \A name \in DOMAIN Dashed : Dashed[name] \in Texts /\ Spaced[name] \in Texts
    /\ OwnNames \cap DOMAIN Spaced = {}

VARIABLES
    stored, routingID, nodes, client,   \* what is asked for
    step,       \* "new", "built", "converted", "read" or "stripped"
    config,     \* the groups, providers and rules
    document,   \* the document for the client
    reread      \* the nodes another instance reads in it

renderVars == <<stored, routingID, nodes, client, step, config, document,
                reread>>

RenderInit ==
    /\ stored \in Stores /\ routingID \in {"", "r"}
    /\ nodes \in NodeLists /\ client \in ClientTypes
    /\ step = "new" /\ config = <<>> /\ document = <<>> /\ reread = <<>>

Build ==
    /\ step = "new"
    /\ step' = "built"
    /\ config' = BuildConfig(GetEffective(stored, routingID))
    /\ UNCHANGED <<stored, routingID, nodes, client, document, reread>>

AsLinks == GetConverter(client) = "base64"

Convert ==
    /\ step = "built"
    /\ step' = "converted"
    /\ document' = IF AsLinks THEN Base64Document(nodes)
                   ELSE Document(client, nodes, config)
    /\ UNCHANGED <<stored, routingID, nodes, client, config, reread>>

(* The document is a source of another instance.                           *)
ReadDocument ==
    /\ step = "converted" /\ AsLinks
    /\ step' = "read"
    /\ reread' = ParseYAML(document)
    /\ UNCHANGED <<stored, routingID, nodes, client, config, document>>

(* So is what is left when somebody has taken the comment away.            *)
ReadStripped ==
    /\ step = "converted" /\ AsLinks
    /\ step' = "stripped"
    /\ reread' = ParseYAML([document EXCEPT !.comment = FALSE])
    /\ UNCHANGED <<stored, routingID, nodes, client, config, document>>

RenderNext == Build \/ Convert \/ ReadDocument \/ ReadStripped

RenderSpec == RenderInit /\ [][RenderNext]_renderVars

-----------------------------------------------------------------------------
Asked == GetEffective(stored, routingID)
Shown == step = "converted" /\ ~AsLinks
GroupNames == {g.name : g \in Elements(document.groups)}

CommaFree == \A r \in Elements(Asked) : r.name \notin DOMAIN Dashed
NoCatchAll == \A r \in Elements(Asked) : <<"MATCH">> \notin Elements(r.payload)

(* No two items for rule sets have one name.  (The providers of such items *)
(* overwrite each other.)                                                  *)
OneItemPerName ==
    \A i, j \in DOMAIN Asked :
        /\ Asked[i].payload = <<>> /\ Asked[j].payload = <<>>
        /\ Asked[i].name = Asked[j].name
        => i = j

IsCatchAll(line) == line[1] \in {"MATCH", "FINAL"}
Policy(line) == IF IsCatchAll(line) THEN line[2] ELSE line[3]

(* Payloads are free text.  These are rules: MATCH, or a kind with its     *)
(* argument, and perhaps no-resolve or a policy of its own after it.       *)
IsRule(raw) ==
    \/ raw \in {<<>>, <<"MATCH">>}
    \/ /\ Len(raw) >= 2 /\ raw[1] \notin {"MATCH", "FINAL", "RULE-SET"}
       /\ raw[2] \notin NoResolve
       /\ \/ Len(raw) = 2
          \/ Len(raw) = 3 /\ raw[3] \in NoResolve
          \/ Len(raw) >= 3 /\ raw[3] \in Builtin

PayloadsAreRules ==
    \A r \in Elements(Asked) : \A raw \in Elements(r.payload) : IsRule(raw)

(* The lines that name no policy of the document, whatever the profile:    *)
(* Surge's GEOIP has none (surge.go:236-240), and sing-box takes the       *)
(* country or the site for one (singbox.go:375-387).                       *)
Odd(line) == /\ GetConverter(client) \in {"surge", "singbox"}
             /\ line[1] \in {"GEOIP", "GEOSITE"}

(* Every rule of a document leads to a group of the document, or to DIRECT *)
(* or REJECT (engine.go:29-42, 139-151), with three exceptions: the GEOIP  *)
(* and GEOSITE rules of sing-box and the GEOIP rules of Surge, which lead  *)
(* to no group (Odd); profiles with a comma in a name, which some places   *)
(* replace and others do not (CommaFree); and payloads that are no rules.  *)
TargetsResolve ==
    (Shown /\ CommaFree /\ PayloadsAreRules) =>
        \A line \in Elements(document.rules) :
            Odd(line) \/ Policy(line) \in GroupNames \cup Builtin

(* The members of the groups of a document are groups or nodes of it, but  *)
(* for the extra proxies of a profile that are neither (engine.go:45-119). *)
MembersResolve ==
    Shown =>
        LET extras == UNION {Elements(r.extra) : r \in Elements(Asked)}
            named == {r.name : r \in Elements(Asked)}
            own == extras \ named
        IN  \A g \in Elements(document.groups) : \A m \in Elements(g.members) :
                m \in GroupNames \cup Builtin \cup {"direct"}
                      \cup Elements(document.nodes)
                      \cup own \cup {EscapeName(e) : e \in own}

(* Every selector of sing-box has a default, and Convert does not fail,    *)
(* whatever the extra proxies (singbox.go:302, engine.go:102-119).         *)
SelectorsHaveDefault ==
    (Shown /\ GetConverter(client) = "singbox") =>
        \A g \in Elements(document.groups) :
            g.type = "selector" /\ g.name # "balance" =>
                g.default \in GroupNames \cup Elements(document.nodes)
                              \cup UNION {Elements(r.extra) : r \in Elements(Asked)}

(* A connection is the set of what it matches: the kind and the argument   *)
(* of a rule, or the URL of a rule set.                                    *)
Matches(line, conn, providers) ==
    \/ IsCatchAll(line)
    \/ line[1] = "RULE-SET" /\ <<"RULE-SET", providers[line[2]]>> \in conn
    \/ line[1] # "RULE-SET" /\ <<line[1], line[2]>> \in conn

Taken(rules, conn, providers) ==
    rules[CHOOSE i \in DOMAIN rules :
            /\ Matches(rules[i], conn, providers)
            /\ \A j \in 1..(i - 1) : ~Matches(rules[j], conn, providers)]

PayloadKeys ==
    {<<p[1], p[2]>> : p \in {q \in UNION {Elements(r.payload) : r \in Elements(Asked)} :
                                Len(q) >= 2}}

(* The rules the client has no equivalent for.                             *)
Lost(line) ==
    /\ ~IsCatchAll(line)
    /\ \/ GetConverter(client) = "singbox" /\ line[1] \notin SingboxKinds
       \/ /\ GetConverter(client) \in {"surge", "loon", "quantumult"}
          /\ line[1] \in {"GEOIP", "GEOSITE"}

(* A connection that only rules with a payload match takes the same policy *)
(* with every client that has rules of the kind that decides on it,        *)
(* whatever the order of the rules, their options and the rules the client *)
(* has no equivalent for                                                   *)
(* (surge.go:221-250, loon.go:188-205, singbox.go:330-393).                *)
SamePolicy ==
    (Shown /\ NoCatchAll /\ PayloadsAreRules) =>
        \A conn \in SUBSET PayloadKeys :
            LET line == Taken(config.rules, conn, config.providers)
            IN  \/ Lost(line)
                \/ Policy(Taken(document.rules, conn, config.providers)) = Policy(line)

(* With Clash, what the rule set of a URL matches goes to the first item   *)
(* of the profile with that URL and no payload (engine.go:29-42).          *)
RuleSetsRouted ==
    (/\ Shown /\ GetConverter(client) = "clash"
     /\ CommaFree /\ NoCatchAll /\ PayloadsAreRules /\ OneItemPerName) =>
        LET With(u) == {i \in DOMAIN Asked : /\ Asked[i].payload = <<>>
                                             /\ u \in Elements(Asked[i].urls)}
        IN  \A u \in UNION {Elements(r.urls) : r \in Elements(Asked)} :
                With(u) # {} =>
                    Policy(Taken(document.rules, {<<"RULE-SET", u>>},
                                 document.providers))
                    = Asked[CHOOSE i \in With(u) : \A j \in With(u) : i <= j].name

(* A node of VLESS goes over TLS when it says so, and with REALITY.        *)
Secure(n) == Is(n, "tls") \/ HasReality(n)

(* What the node read from the link of n has as n had it.                  *)
Kept(n) ==
    LET With(k, fields) == IF Field(n, k) # "" THEN fields ELSE {}
        For(network, fields) ==
            IF Field(n, "network") = network THEN fields ELSE {}
        host == IF HasHeaders(n) THEN {"Host"} \cap DOMAIN n ELSE {}
    IN  {"type", "server"} \cup With("port", {"port"}) \cup
        CASE Field(n, "type") = "vmess" -> {"uuid", "ws-path"} \cup host
          [] Field(n, "type") = "ss" -> {"cipher", "password"}
          [] Field(n, "type") = "trojan" -> {"sni"}
          [] Field(n, "type") = "hysteria2" ->
                 {"sni", "obfs"} \cup With("obfs", {"obfs-password"})
          [] Field(n, "type") = "ssr" -> {"cipher", "password", "protocol", "obfs"}
          [] Field(n, "type") = "vless" ->
                 {"uuid", "network", "flow", "alpn"}
                 \cup For("ws", {"ws-path"} \cup host)
                 \cup For("grpc", {"grpc-service-name"})
                 \cup (IF Secure(n) THEN {"client-fingerprint"} ELSE {})
                 \cup (IF HasReality(n)
                       THEN ({"public-key", "short-id"} \cap DOMAIN n)
                            \cup With("servername", {"servername"})
                       ELSE IF Is(n, "tls") THEN {"sni"} ELSE {})

(* A node that goes out as a link and comes back has the same endpoint,    *)
(* secrets, transport, TLS and REALITY keys, in the same place of the      *)
(* list, where the node has them: a missing port comes back as 0, a        *)
(* missing short-id, public-key or Host as <nil> (base64.go:80, 187, 190). *)
(* Trojan and Hysteria2 lose the password, and trojan its transport, for   *)
(* the parser looks for them elsewhere (base64.go:60-244, uri.go:71-353).  *)
ReimportKeeps ==
    step = "stripped" =>
        LET sent == Linked(nodes)
        IN  /\ DOMAIN reread = DOMAIN sent
            /\ \A i \in DOMAIN sent :
                  /\ \A k \in Kept(sent[i]) : Field(reread[i], k) = Field(sent[i], k)
                  /\ Field(sent[i], "type") = "vmess" =>
                        Is(reread[i], "tls") = Is(sent[i], "tls")
                  /\ Field(sent[i], "type") = "vless" =>
                        /\ Is(reread[i], "tls") = Secure(sent[i])
                        /\ HasReality(reread[i]) = HasReality(sent[i])

(* README.md:228 says that the document of base64 is a list of links in    *)
(* base64: whoever reads it so finds a node for every link.                *)
Base64ListReads == step = "read" => Len(reread) = Len(document.links)
=============================================================================
