----------------------------- MODULE Converters -----------------------------
(***************************************************************************)
(* internal/converter, but for base64.go: what each client's document      *)
(* keeps of the nodes, groups and rules.  A document is the names of its   *)
(* nodes, its groups, its providers and its rules, in order; the options   *)
(* of a node and the fixed sections are left out.                          *)
(***************************************************************************)
EXTENDS Sublists

CONSTANT Spaced     \* a name with commas -> the name with blanks instead

EscapeName(name) == IF name \in DOMAIN Spaced THEN Spaced[name] ELSE name

Escaped(names) == [i \in DOMAIN names |-> EscapeName(names[i])]

(* The converters, and the names they are registered with.                 *)
Registered ==
    [clash |-> {"clash"}, surge |-> {"surge"}, loon |-> {"loon"},
     quantumult |-> {"quantumult", "quanx"}, singbox |-> {"singbox", "sing-box"},
     base64 |-> {"base64", "uri"}]

GetConverter(client) ==
    IF \E c \in DOMAIN Registered : client \in Registered[c]
    THEN CHOOSE c \in DOMAIN Registered : client \in Registered[c]
    ELSE "clash"

(* The types each function to...Proxy, and toSingboxOutbound, has a case   *)
(* for; it drops the others.                                               *)
Known == {"vmess", "trojan", "vless", "hysteria2"}
SurgeTypes == Known \cup {"ss"}
LoonTypes == Known \cup {"ss", "ssr"}
QuantumultTypes == Known \cup {"ss"}
SingboxTypes == Known \cup {"shadowsocks", "shadowsocksr"}

Names(nodes, types) ==
    LET kept == Sublist(nodes, {i \in DOMAIN nodes : nodes[i].type \in types})
    IN  [i \in DOMAIN kept |-> kept[i].name]

Builtin == {"DIRECT", "REJECT"}
Tail1(line) == SubSeq(line, 2, Len(line))
Final(line) == << <<"FINAL">> \o Tail1(line) >>
Each(Rule(_), rules) == Joined([i \in DOMAIN rules |-> Rule(rules[i])])
Converted(Convert(_), groups) == [i \in DOMAIN groups |-> Convert(groups[i])]

-----------------------------------------------------------------------------
(* Names are escaped in the groups and not in the rules.                   *)
SurgeGroup(g) ==
    [name |-> EscapeName(g.name), members |-> Escaped(g.members),
     type |-> CASE g.type \in {"url-test", "load-balance"} -> "url-test"
                [] g.type = "fallback" -> "fallback"
                [] OTHER -> "select"]

(* GEOIP loses its policy.                                                 *)
SurgeRule(line) ==
    CASE line[1] \in {"RULE-SET", "GEOSITE"} -> <<>>
      [] line[1] = "GEOIP" -> << SubSeq(line, 1, 2) >>
      [] line[1] = "MATCH" -> Final(line)
      [] OTHER -> <<line>>

SurgeDocument(nodes, cfg) ==
    [nodes |-> Escaped(Names(nodes, SurgeTypes)),
     groups |-> Converted(SurgeGroup, cfg.groups),
     rules |-> Append(Each(SurgeRule, cfg.rules), <<"FINAL", "DIRECT">>)]

-----------------------------------------------------------------------------
(* Loon and Quantumult X have the same rules, and groups of three types.   *)
PlainRule(line) ==
    CASE line[1] \in {"RULE-SET", "GEOSITE", "GEOIP"} -> <<>>
      [] line[1] = "MATCH" -> Final(line)
      [] OTHER -> <<line>>

\* Mutant of PlainTypes: load-balance is not known.
TypesWithoutBalance == {"select", "url-test"}

PlainTypes == {"select", "url-test", "load-balance"}
PlainGroups(groups) ==
    Sublist(groups, {i \in DOMAIN groups : groups[i].type \in PlainTypes})

LoonDocument(nodes, cfg) ==
    [nodes |-> Names(nodes, LoonTypes), groups |-> PlainGroups(cfg.groups),
     rules |-> Append(Each(PlainRule, cfg.rules), <<"FINAL", "DIRECT">>)]

QuantumultGroup(g) ==
    CASE g.type = "select" -> [g EXCEPT !.members = <<"direct">> \o @]
      [] g.type = "load-balance" -> [g EXCEPT !.type = "round-robin"]
      [] OTHER -> g

QuantumultDocument(nodes, cfg) ==
    [nodes |-> Names(nodes, QuantumultTypes),
     groups |-> Converted(QuantumultGroup, PlainGroups(cfg.groups)),
     rules |-> Append(Each(PlainRule, cfg.rules), <<"FINAL", "DIRECT">>)]

-----------------------------------------------------------------------------
SingboxKinds ==
    {"DOMAIN-SUFFIX", "DOMAIN", "DOMAIN-KEYWORD", "IP-CIDR", "IP-CIDR6"}

\* Mutant of SingboxRule: the outbound is the last field.
SingboxRuleLast(line) ==
    CASE line[1] \in SingboxKinds /\ Len(line) >= 3 ->
             << <<line[1], line[2], line[Len(line)]>> >>
      [] line[1] \in {"GEOIP", "GEOSITE"} -> << <<line[1], line[2], line[2]>> >>
      [] OTHER -> <<>>

(* The outbound of GEOIP and GEOSITE is the second field, not the third.   *)
SingboxRule(line) ==
    CASE line[1] \in SingboxKinds /\ Len(line) >= 3 ->
             << <<line[1], line[2], line[3]>> >>
      [] line[1] \in {"GEOIP", "GEOSITE"} -> << <<line[1], line[2], line[2]>> >>
      [] OTHER -> <<>>

(* The first valid proxy of a selector is its default; when there is none, *)
(* Convert stops with an index out of range.                               *)
SingboxGroup(g) ==
    LET valid == Sublist(g.members, {i \in DOMAIN g.members : g.members[i] \notin Builtin})
    IN  [name |-> g.name, members |-> valid,
         type |-> IF g.type = "url-test" THEN "urltest" ELSE "selector",
         default |-> IF g.type # "select" THEN ""
                     ELSE IF valid = <<>> THEN "panic" ELSE valid[1]]

SingboxDocument(nodes, cfg) ==
    [nodes |-> Names(nodes, SingboxTypes),
     groups |-> Converted(SingboxGroup, PlainGroups(cfg.groups)),
     rules |-> Append(Each(SingboxRule, cfg.rules), <<"FINAL", "foreign">>)]

-----------------------------------------------------------------------------
(* Clash understands include-all and the providers; the others are given   *)
(* neither.                                                                *)
ClashDocument(nodes, cfg) ==
    LET all == [i \in DOMAIN nodes |-> nodes[i].name]
    IN  [nodes |-> all, providers |-> cfg.providers, rules |-> cfg.rules,
         groups |-> [i \in DOMAIN cfg.groups |->
                        [cfg.groups[i] EXCEPT !.members = @ \o all]]]

Document(client, nodes, cfg) ==
    CASE GetConverter(client) = "surge" -> SurgeDocument(nodes, cfg)
      [] GetConverter(client) = "loon" -> LoonDocument(nodes, cfg)
      [] GetConverter(client) = "quantumult" -> QuantumultDocument(nodes, cfg)
      [] GetConverter(client) = "singbox" -> SingboxDocument(nodes, cfg)
      [] OTHER -> ClashDocument(nodes, cfg)
=============================================================================
