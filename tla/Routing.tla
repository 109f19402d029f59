------------------------------ MODULE Routing ------------------------------
(***************************************************************************)
(* internal/routing/engine.go, and the choice and the default of           *)
(* routing.go: from a routing profile to proxy groups, rule providers and  *)
(* rules.  A rule is the sequence of its fields, as the commas delimit     *)
(* them; the name of a provider is the pair of the rule's name and a       *)
(* number.  The node names BuildConfig is given change nothing             *)
(* (engine.go:131-133).                                                    *)
(***************************************************************************)
EXTENDS Sublists

CONSTANT Dashed     \* a name with commas -> the name with dashes instead

At(table, t) == IF t \in DOMAIN table THEN table[t] ELSE t
Sanitized(name) == At(Dashed, name)

NoResolve == {"no-resolve", "NO-RESOLVE"}

(* DefaultRouting: one item of each form it has.                           *)
DefaultRouting ==
    << [name |-> "ads", gfw |-> FALSE, urls |-> <<"u1">>, payload |-> <<>>,
        extra |-> <<"REJECT">>],
       [name |-> "forum", gfw |-> TRUE, urls |-> <<>>, extra |-> <<>>,
        payload |-> << <<"DOMAIN-SUFFIX", "d1">>, <<"DOMAIN-SUFFIX", "d2">> >>],
       [name |-> "video", gfw |-> TRUE, urls |-> <<"u2", "u3">>,
        payload |-> <<>>, extra |-> <<>>] >>

(* The profile with this id, or the one with the id "default", or the      *)
(* built-in one.                                                           *)
GetEffective(stored, id) ==
    IF id \in DOMAIN stored THEN stored[id]
    ELSE IF "default" \in DOMAIN stored THEN stored["default"]
    ELSE DefaultRouting

-----------------------------------------------------------------------------
(* The number is left out of the first name.                               *)
ProviderName(rule, i) == <<Sanitized(rule.name), i - 1>>

\* Mutant of RuleSets: the rule of every URL names the first provider.
RuleSetsOfFirst(rule) ==
    [i \in DOMAIN rule.urls |-> <<"RULE-SET", ProviderName(rule, 1), rule.name>>]

RuleSets(rule) ==
    [i \in DOMAIN rule.urls |-> <<"RULE-SET", ProviderName(rule, i), rule.name>>]

\* Mutant of CreatePayloadRules: the target is always the last field.
PayloadRulesAppend(raw, name) ==
    IF raw = <<>> THEN <<>> ELSE << Append(raw, Sanitized(name)) >>

(* The target goes before a final no-resolve; an empty payload has none.   *)
CreatePayloadRules(raw, name) ==
    IF raw = <<>> THEN <<>>
    ELSE LET last == raw[Len(raw)]
         IN  IF last \in NoResolve
             THEN << SubSeq(raw, 1, Len(raw) - 1) \o <<Sanitized(name), last>> >>
             ELSE << Append(raw, Sanitized(name)) >>

GeneratedRules(rule) ==
    IF rule.payload # <<>>
    THEN Joined([i \in DOMAIN rule.payload |->
                    CreatePayloadRules(rule.payload[i], rule.name)])
    ELSE RuleSets(rule)

(* The map of the providers of all rules: the last of a name stays.        *)
Providers(rules) ==
    LET Named(i) == IF rules[i].payload # <<>> THEN {}
                    ELSE {ProviderName(rules[i], k) : k \in DOMAIN rules[i].urls}
        LastOf(p) == CHOOSE i \in DOMAIN rules :
                        /\ p \in Named(i)
                        /\ \A j \in DOMAIN rules : p \in Named(j) => j <= i
    IN  [p \in UNION {Named(i) : i \in DOMAIN rules} |->
            rules[LastOf(p)].urls[p[2] + 1]]

Group(name, type, members) == [name |-> name, type |-> type, members |-> members]

\* Mutant of BuildProxyGroup: extra proxies replace the usual ones.
ExtraProxiesOnly(rule) ==
    Group(rule.name, "select",
          IF rule.extra # <<>> THEN rule.extra
          ELSE <<"auto", "balance", "DIRECT">>)

BuildProxyGroup(rule) ==
    Group(rule.name, "select",
          rule.extra \o (IF rule.gfw THEN <<"auto", "balance", "DIRECT">>
                         ELSE <<"DIRECT", "auto", "balance">>))

(* Every group includes all nodes (include-all), besides its members.      *)
ProxyGroups(rules) ==
    LET Of(gfw) == LET its == Sublist(rules, {i \in DOMAIN rules : rules[i].gfw = gfw})
                   IN  [i \in DOMAIN its |-> BuildProxyGroup(its[i])]
        Open(name) == Group(name, "select", <<"DIRECT", "auto", "balance">>)
    IN  <<Open("domestic")>> \o Of(FALSE) \o <<Open("foreign")>> \o Of(TRUE)
        \o <<Group("blocked", "select", <<"auto", "balance", "DIRECT">>),
             Group("auto", "url-test", <<>>),
             Group("balance", "load-balance", <<>>)>>

Rules(rules) ==
    << <<"IP-CIDR", "local4", "DIRECT", "no-resolve">>,
       <<"IP-CIDR6", "local6", "DIRECT", "no-resolve">> >>
    \o Joined([i \in DOMAIN rules |-> GeneratedRules(rules[i])])
    \o << <<"GEOSITE", "gfw", "blocked">>, <<"GEOIP", "CN", "domestic">>,
          <<"MATCH", "foreign">> >>

BuildConfig(rules) ==
    [groups |-> ProxyGroups(rules), providers |-> Providers(rules),
     rules |-> Rules(rules)]
=============================================================================
