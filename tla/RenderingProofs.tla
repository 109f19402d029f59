-------------------------- MODULE RenderingProofs --------------------------
(***************************************************************************)
(* The documents, for any profiles, nodes and names: every rule leads      *)
(* somewhere, every member is there, every selector has a default, rule    *)
(* sets go where the profile says, all clients decide alike, and a node    *)
(* comes back from its link with what Kept says.                           *)
(***************************************************************************)
EXTENDS Rendering, SublistLemmas, TLAPS

(* The fields of a rule: texts, and pairs for the names of providers.      *)
Words == Texts \cup (Texts \X Nat)
Lines == Seq(Words)

-----------------------------------------------------------------------------
(* Elements of sequences.                                                  *)

LEMMA ConcatIs ==
    ASSUME NEW S, NEW s \in Seq(S), NEW t \in Seq(S), NEW c, c = s \o t
    PROVE  /\ c \in Seq(S) /\ Len(c) = Len(s) + Len(t) /\ DOMAIN c = 1..Len(c)
           /\ Len(s) \in Nat /\ Len(t) \in Nat
           /\ DOMAIN s = 1..Len(s) /\ DOMAIN t = 1..Len(t)
           /\ \A k \in 1..Len(s) : c[k] = s[k]
           /\ \A k \in 1..Len(t) : c[Len(s) + k] = t[k]
  OBVIOUS

LEMMA ElementsOfConcat ==
    ASSUME NEW S, NEW s \in Seq(S), NEW t \in Seq(S)
    PROVE  s \o t \in Seq(S) /\ Elements(s \o t) = Elements(s) \cup Elements(t)
<1>. DEFINE c == s \o t
<1>1. /\ c \in Seq(S) /\ Len(c) = Len(s) + Len(t) /\ DOMAIN c = 1..Len(c)
      /\ Len(s) \in Nat /\ Len(t) \in Nat
      /\ DOMAIN s = 1..Len(s) /\ DOMAIN t = 1..Len(t)
      /\ \A k \in 1..Len(s) : c[k] = s[k]
      /\ \A k \in 1..Len(t) : c[Len(s) + k] = t[k]
  OBVIOUS
<1>. HIDE DEF c
<1>2. ASSUME NEW k \in DOMAIN c PROVE c[k] \in Elements(s) \cup Elements(t)
  <2>1. CASE k <= Len(s)
    BY <1>1, <2>1 DEF Elements
  <2>2. CASE ~(k <= Len(s))
    <3>1. k - Len(s) \in DOMAIN t /\ k = Len(s) + (k - Len(s))
      BY <1>1, <2>2
    <3>. QED  BY <1>1, <3>1 DEF Elements
  <2>. QED  BY <2>1, <2>2
<1>3. ASSUME NEW k \in DOMAIN s PROVE s[k] \in Elements(c)
  <2>1. k \in DOMAIN c /\ c[k] = s[k]
    BY <1>1
  <2>. QED  BY <2>1 DEF Elements
<1>4. ASSUME NEW k \in DOMAIN t PROVE t[k] \in Elements(c)
  <2>1. Len(s) + k \in DOMAIN c /\ c[Len(s) + k] = t[k]
    BY <1>1
  <2>. QED  BY <2>1 DEF Elements
<1>5. Elements(c) \subseteq Elements(s) \cup Elements(t)
  BY <1>2 DEF Elements
<1>6. Elements(s) \subseteq Elements(c) /\ Elements(t) \subseteq Elements(c)
  BY <1>3, <1>4 DEF Elements
<1>. QED  BY <1>1, <1>5, <1>6 DEF c

LEMMA ElementsOfAppend ==
    ASSUME NEW S, NEW s \in Seq(S), NEW e \in S
    PROVE  Elements(Append(s, e)) = Elements(s) \cup {e}
<1>1. Append(s, e) = s \o <<e>> /\ <<e>> \in Seq(S)
  OBVIOUS
<1>2. Elements(<<e>>) = {e}
  BY DEF Elements
<1>3. Elements(s \o <<e>>) = Elements(s) \cup Elements(<<e>>)
  BY <1>1, ElementsOfConcat
<1>. QED  BY <1>1, <1>2, <1>3

(* A loop that keeps the elements with a property keeps those and only     *)
(* those.                                                                  *)
LEMMA ElementsOfSublist ==
    ASSUME NEW S, NEW s \in Seq(S), NEW I \in SUBSET (DOMAIN s)
    PROVE  /\ Sublist(s, I) \in Seq(S)
           /\ Elements(Sublist(s, I)) = {s[i] : i \in I}
<1>. DEFINE c == Sublist(s, I)
<1>1. /\ c \in Seq(S)
      /\ \A k \in DOMAIN c : Nth(I, k) \in I /\ c[k] = s[Nth(I, k)]
      /\ \A i \in I : UpTo(I, i) \in DOMAIN c /\ Nth(I, UpTo(I, i)) = i
  BY SublistIs
<1>. HIDE DEF c
<1>2. \A k \in DOMAIN c : \E i \in I : c[k] = s[i]
  BY <1>1
<1>3. \A i \in I : \E k \in DOMAIN c : c[k] = s[i]
  BY <1>1
<1>. QED  BY <1>1, <1>2, <1>3 DEF Elements, c

LEMMA ElementsOfJoined ==
    ASSUME NEW S, NEW ss \in Seq(Seq(S))
    PROVE  /\ Joined(ss) \in Seq(S)
           /\ \A e : e \in Elements(Joined(ss)) <=>
                        \E i \in DOMAIN ss : e \in Elements(ss[i])
<1>. DEFINE c == Joined(ss)
<1>1. PICK start : JoinedAt(ss, c, start)
  BY JoinedIs
<1>2. c \in Seq(S)
  BY JoinedIs
<1>. HIDE DEF c
<1>3. ASSUME NEW k \in DOMAIN c
      PROVE  \E i \in DOMAIN ss : c[k] \in Elements(ss[i])
  <2>1. PICK i \in DOMAIN ss : \E j \in DOMAIN ss[i] : k = start[i] + j
    BY <1>1 DEF JoinedAt
  <2>2. PICK j \in DOMAIN ss[i] : k = start[i] + j
    BY <2>1
  <2>3. c[k] = ss[i][j]
    BY <1>1, <2>2 DEF JoinedAt
  <2>. QED  BY <2>3 DEF Elements
<1>4. ASSUME NEW i \in DOMAIN ss, NEW j \in DOMAIN ss[i]
      PROVE  ss[i][j] \in Elements(c)
  <2>1. start[i] + j \in DOMAIN c /\ c[start[i] + j] = ss[i][j]
    BY <1>1 DEF JoinedAt
  <2>. QED  BY <2>1 DEF Elements
<1>5. \A e : e \in Elements(c) => \E i \in DOMAIN ss : e \in Elements(ss[i])
  BY <1>3 DEF Elements
<1>6. \A e : (\E i \in DOMAIN ss : e \in Elements(ss[i])) => e \in Elements(c)
  BY <1>4 DEF Elements
<1>. QED  BY <1>2, <1>5, <1>6 DEF c

-----------------------------------------------------------------------------
(* The profiles.                                                           *)

LEMMA OwnTexts == OwnNames \subseteq Texts /\ OwnWords \subseteq Texts
  BY RenderingAssumption

LEMMA AskedIs ==
    ASSUME NEW s \in Stores, NEW id
    PROVE  GetEffective(s, id) \in Seq(Items)
<1>1. \A i \in DOMAIN s : s[i] \in Seq(Items)
  BY RenderingAssumption
<1>2. DefaultRouting \in Seq(Items)
  <2>1. [name |-> "ads", gfw |-> FALSE, urls |-> <<"u1">>, payload |-> <<>>,
         extra |-> <<"REJECT">>] \in Items
    BY OwnTexts DEF OwnNames, OwnWords, Items
  <2>2. [name |-> "forum", gfw |-> TRUE, urls |-> <<>>, extra |-> <<>>,
         payload |-> << <<"DOMAIN-SUFFIX", "d1">>, <<"DOMAIN-SUFFIX", "d2">> >>]
        \in Items
    <3>1. /\ <<"DOMAIN-SUFFIX", "d1">> \in Seq(Texts)
          /\ <<"DOMAIN-SUFFIX", "d2">> \in Seq(Texts)
      BY OwnTexts DEF OwnNames, OwnWords
    <3>. QED  BY <3>1, OwnTexts DEF OwnNames, OwnWords, Items
  <2>3. [name |-> "video", gfw |-> TRUE, urls |-> <<"u2", "u3">>,
         payload |-> <<>>, extra |-> <<>>] \in Items
    BY OwnTexts DEF OwnNames, OwnWords, Items
  <2>. QED  BY <2>1, <2>2, <2>3 DEF DefaultRouting
<1>. QED  BY <1>1, <1>2 DEF GetEffective

LEMMA SanitizedIs ==
    ASSUME NEW name \in Texts
    PROVE  /\ Sanitized(name) \in Texts /\ EscapeName(name) \in Texts
           /\ name \notin DOMAIN Dashed =>
                Sanitized(name) = name /\ EscapeName(name) = name
  BY RenderingAssumption DEF Sanitized, At, EscapeName

LEMMA OwnNamesStay ==
    \A name \in OwnNames : EscapeName(name) = name /\ name \notin DOMAIN Dashed
  BY RenderingAssumption DEF EscapeName

-----------------------------------------------------------------------------
(* The rules of a profile.                                                 *)

AllRules(rules) ==
    \A r \in Elements(rules) : \A raw \in Elements(r.payload) : IsRule(raw)

(* What CreatePayloadRules makes of a payload.                             *)
PayloadLine(line, raw, name) ==
    \/ raw = <<"MATCH">> /\ line = <<"MATCH", name>>
    \/ /\ Len(raw) >= 2 /\ raw[1] \notin {"MATCH", "FINAL", "RULE-SET"}
       /\ line \in Lines /\ Len(line) >= 3
       /\ line[1] = raw[1] /\ line[2] = raw[2]
       /\ line[3] \in {name} \cup Builtin

SetLine(r, k) == <<"RULE-SET", ProviderName(r, k), r.name>>

(* What an item makes.                                                     *)
MadeOf(line, r) ==
    \/ /\ r.payload # <<>>
       /\ \E raw \in Elements(r.payload) : PayloadLine(line, raw, Sanitized(r.name))
    \/ r.payload = <<>> /\ \E k \in DOMAIN r.urls : line = SetLine(r, k)

LEMMA Widened == Seq(Texts) \subseteq Lines
  BY DEF Lines, Words

LEMMA PayloadRuleIs ==
    ASSUME NEW raw \in Seq(Texts), NEW name \in Texts, IsRule(raw)
    PROVE  /\ CreatePayloadRules(raw, name) \in Seq(Lines)
           /\ \A line \in Elements(CreatePayloadRules(raw, name)) :
                 PayloadLine(line, raw, Sanitized(name))
<1>. DEFINE n == Len(raw)  t == Sanitized(name)
<1>0. t \in Texts /\ n \in Nat
  BY SanitizedIs
<1>. HIDE DEF t
<1>1. CASE raw = <<>>
  <2>1. CreatePayloadRules(raw, name) = <<>>
    BY <1>1 DEF CreatePayloadRules
  <2>. QED  BY <2>1 DEF Elements
<1>2. ASSUME NEW line, CreatePayloadRules(raw, name) = <<line>>, line \in Seq(Texts),
             PayloadLine(line, raw, t)
      PROVE  /\ CreatePayloadRules(raw, name) \in Seq(Lines)
             /\ \A l \in Elements(CreatePayloadRules(raw, name)) : PayloadLine(l, raw, t)
  <2>1. line \in Lines
    BY <1>2, Widened
  <2>2. Elements(<<line>>) = {line}
    BY DEF Elements
  <2>. QED  BY <1>2, <2>1, <2>2
<1>3. CASE raw = <<"MATCH">>
  <2>1. CreatePayloadRules(raw, name) = << <<"MATCH", t>> >>
    BY <1>3 DEF CreatePayloadRules, NoResolve, t
  <2>2. <<"MATCH", t>> \in Seq(Texts)
    BY <1>0, OwnTexts DEF OwnWords
  <2>3. PayloadLine(<<"MATCH", t>>, raw, t)
    BY <1>3 DEF PayloadLine
  <2>. QED  BY <1>2, <2>1, <2>2, <2>3 DEF t
<1>4. CASE raw # <<>> /\ raw # <<"MATCH">>
  <2>1. /\ n >= 2 /\ raw[1] \notin {"MATCH", "FINAL", "RULE-SET"}
        /\ raw[2] \notin NoResolve
        /\ \/ n = 2
           \/ n = 3 /\ raw[3] \in NoResolve
           \/ n >= 3 /\ raw[3] \in Builtin
    BY <1>4 DEF IsRule
  <2>2. CASE raw[n] \in NoResolve
    <3>. DEFINE front == SubSeq(raw, 1, n - 1)  line == front \o <<t, raw[n]>>
    <3>1. n >= 3
      BY <1>0, <2>1, <2>2
    <3>2. /\ front \in Seq(Texts) /\ Len(front) = n - 1
          /\ \A i \in 1..(n - 1) : front[i] = raw[i]
      BY <1>0, <3>1
    <3>3. raw[n] \in Texts
      BY <1>0, <3>1
    <3>. HIDE DEF front
    <3>4. /\ line \in Seq(Texts) /\ Len(line) = n + 1
          /\ \A i \in 1..(n - 1) : line[i] = front[i]
          /\ line[n] = t
      BY <1>0, <3>1, <3>2, <3>3
    <3>. HIDE DEF line
    <3>5. line[1] = raw[1] /\ line[2] = raw[2] /\ Len(line) >= 3
      BY <1>0, <3>1, <3>2, <3>4
    <3>6. line[3] \in {t} \cup Builtin
      <4>1. CASE n = 3
        BY <4>1, <3>4
      <4>2. CASE n # 3
        BY <4>2, <1>0, <2>1, <3>1, <3>2, <3>4
      <4>. QED  BY <4>1, <4>2
    <3>7. PayloadLine(line, raw, t)
      BY <2>1, <3>4, <3>5, <3>6, Widened DEF PayloadLine
    <3>8. CreatePayloadRules(raw, name) = <<line>>
      BY <1>4, <2>2 DEF CreatePayloadRules, line, front, t
    <3>. QED  BY <1>2, <3>4, <3>7, <3>8 DEF t
  <2>3. CASE raw[n] \notin NoResolve
    <3>. DEFINE line == Append(raw, t)
    <3>1. /\ line \in Seq(Texts) /\ Len(line) = n + 1
          /\ \A i \in 1..n : line[i] = raw[i]
          /\ line[n + 1] = t
      BY <1>0
    <3>. HIDE DEF line
    <3>2. line[1] = raw[1] /\ line[2] = raw[2] /\ Len(line) >= 3
      BY <1>0, <2>1, <3>1
    <3>3. line[3] \in {t} \cup Builtin
      <4>1. CASE n = 2
        BY <4>1, <3>1
      <4>2. CASE n # 2
        BY <4>2, <1>0, <2>1, <2>3, <3>1
      <4>. QED  BY <4>1, <4>2
    <3>4. PayloadLine(line, raw, t)
      BY <2>1, <3>1, <3>2, <3>3, Widened DEF PayloadLine
    <3>5. CreatePayloadRules(raw, name) = <<line>>
      BY <1>4, <2>3 DEF CreatePayloadRules, line, t
    <3>. QED  BY <1>2, <3>1, <3>4, <3>5 DEF t
  <2>. QED  BY <2>2, <2>3
<1>. QED  BY <1>1, <1>3, <1>4

LEMMA SetRulesAre ==
    ASSUME NEW r \in Items
    PROVE  /\ RuleSets(r) \in Seq(Lines)
           /\ DOMAIN RuleSets(r) = DOMAIN r.urls
           /\ \A k \in DOMAIN r.urls : RuleSets(r)[k] = SetLine(r, k)
<1>1. r.urls \in Seq(Texts) /\ r.name \in Texts /\ Sanitized(r.name) \in Texts
  BY SanitizedIs DEF Items
<1>2. ASSUME NEW k \in DOMAIN r.urls PROVE SetLine(r, k) \in Lines
  <2>1. k - 1 \in Nat
    BY <1>1
  <2>2. ProviderName(r, k) \in Words /\ r.name \in Words /\ "RULE-SET" \in Words
    BY <1>1, <2>1, OwnTexts DEF ProviderName, Words, OwnWords
  <2>. QED  BY <2>2 DEF SetLine, Lines
<1>3. /\ RuleSets(r) = [k \in DOMAIN r.urls |-> SetLine(r, k)]
      /\ DOMAIN r.urls = 1..Len(r.urls) /\ Len(r.urls) \in Nat
  BY <1>1 DEF RuleSets, SetLine
<1>. QED  BY <1>2, <1>3

LEMMA GeneratedIs ==
    ASSUME NEW r \in Items, \A raw \in Elements(r.payload) : IsRule(raw)
    PROVE  /\ GeneratedRules(r) \in Seq(Lines)
           /\ \A line \in Elements(GeneratedRules(r)) : MadeOf(line, r)
<1>1. r.payload \in Seq(Seq(Texts)) /\ r.name \in Texts
  BY DEF Items
<1>2. CASE r.payload = <<>>
  <2>1. GeneratedRules(r) = RuleSets(r)
    BY <1>2 DEF GeneratedRules
  <2>2. ASSUME NEW line \in Elements(RuleSets(r)) PROVE MadeOf(line, r)
    <3>1. PICK k \in DOMAIN RuleSets(r) : line = RuleSets(r)[k]
      BY DEF Elements
    <3>2. k \in DOMAIN r.urls /\ line = SetLine(r, k)
      BY <3>1, SetRulesAre
    <3>. QED  BY <1>2, <3>2 DEF MadeOf
  <2>. QED  BY <2>1, <2>2, SetRulesAre
<1>3. CASE r.payload # <<>>
  <2>. DEFINE p == r.payload
              ss == [i \in DOMAIN p |-> CreatePayloadRules(p[i], r.name)]
  <2>1. ASSUME NEW i \in DOMAIN p
        PROVE  /\ ss[i] \in Seq(Lines)
               /\ \A line \in Elements(ss[i]) : PayloadLine(line, p[i], Sanitized(r.name))
               /\ p[i] \in Elements(p)
    <3>1. p[i] \in Seq(Texts) /\ p[i] \in Elements(p)
      BY <1>1 DEF Elements
    <3>2. IsRule(p[i])
      BY <3>1
    <3>3. ss[i] = CreatePayloadRules(p[i], r.name)
      OBVIOUS
    <3>. HIDE DEF ss
    <3>. QED  BY <1>1, <3>1, <3>2, <3>3, PayloadRuleIs
  <2>2. ss \in Seq(Seq(Lines)) /\ DOMAIN ss = DOMAIN p
    <3>. DEFINE n == Len(p)
    <3>1. /\ n \in Nat /\ DOMAIN p = 1..n
          /\ DOMAIN ss = 1..n /\ ss = [i \in 1..n |-> ss[i]]
      BY <1>1
    <3>2. \A i \in 1..n : ss[i] \in Seq(Lines)
      BY <2>1, <3>1
    <3>. HIDE DEF ss, n, p
    <3>. QED  BY <3>1, <3>2
  <2>3. GeneratedRules(r) = Joined(ss)
    BY <1>3 DEF GeneratedRules
  <2>. HIDE DEF ss
  <2>4. /\ Joined(ss) \in Seq(Lines)
        /\ \A e : e \in Elements(Joined(ss)) <=>
                     \E i \in DOMAIN ss : e \in Elements(ss[i])
    BY <2>2, ElementsOfJoined
  <2>5. ASSUME NEW line \in Elements(Joined(ss)) PROVE MadeOf(line, r)
    <3>1. PICK i \in DOMAIN ss : line \in Elements(ss[i])
      BY <2>4
    <3>. QED  BY <1>3, <2>1, <2>2, <3>1 DEF MadeOf
  <2>. QED  BY <2>3, <2>4, <2>5
<1>. QED  BY <1>2, <1>3

OwnLines ==
    { <<"IP-CIDR", "local4", "DIRECT", "no-resolve">>,
      <<"IP-CIDR6", "local6", "DIRECT", "no-resolve">>,
      <<"GEOSITE", "gfw", "blocked">>, <<"GEOIP", "CN", "domestic">> }

CatchAll == <<"MATCH", "foreign">>

LEMMA OwnLinesAre == OwnLines \subseteq Lines /\ CatchAll \in Lines
<1>1. /\ <<"IP-CIDR", "local4", "DIRECT", "no-resolve">> \in Seq(Texts)
      /\ <<"IP-CIDR6", "local6", "DIRECT", "no-resolve">> \in Seq(Texts)
  BY OwnTexts DEF OwnWords, OwnNames
<1>2. /\ <<"GEOSITE", "gfw", "blocked">> \in Seq(Texts)
      /\ <<"GEOIP", "CN", "domestic">> \in Seq(Texts)
      /\ <<"MATCH", "foreign">> \in Seq(Texts)
  BY OwnTexts DEF OwnWords, OwnNames
<1>. QED  BY <1>1, <1>2, Widened DEF OwnLines, CatchAll

(* The rules of an item begin after at[i] others.                          *)
SetsAt(rules, c, at) ==
    /\ at \in [DOMAIN rules -> Nat]
    /\ \A i \in DOMAIN rules : rules[i].payload = <<>> =>
          \A k \in DOMAIN rules[i].urls :
              at[i] + k \in DOMAIN c /\ c[at[i] + k] = SetLine(rules[i], k)
    /\ \A p \in DOMAIN c : c[p][1] = "RULE-SET" =>
          \E i \in DOMAIN rules :
              /\ rules[i].payload = <<>>
              /\ \E k \in DOMAIN rules[i].urls : p = at[i] + k
    /\ \A i, h \in DOMAIN rules :
          i < h /\ rules[i].payload = <<>> => at[i] + Len(rules[i].urls) <= at[h]

LEMMA RulesAre ==
    ASSUME NEW rules \in Seq(Items), AllRules(rules)
    PROVE  /\ Rules(rules) \in Seq(Lines)
           /\ Len(Rules(rules)) \in DOMAIN Rules(rules)
           /\ Rules(rules)[Len(Rules(rules))] = CatchAll
           /\ \A p \in DOMAIN Rules(rules) :
                 \/ p = Len(Rules(rules))
                 \/ Rules(rules)[p] \in OwnLines
                 \/ \E r \in Elements(rules) : MadeOf(Rules(rules)[p], r)
           /\ \E at : SetsAt(rules, Rules(rules), at)
<1>. DEFINE ss == [i \in DOMAIN rules |-> GeneratedRules(rules[i])]
            m == Joined(ss)
            head == << <<"IP-CIDR", "local4", "DIRECT", "no-resolve">>,
                       <<"IP-CIDR6", "local6", "DIRECT", "no-resolve">> >>
            tail == << <<"GEOSITE", "gfw", "blocked">>, <<"GEOIP", "CN", "domestic">>,
                       CatchAll >>
            b == head \o m
            c == b \o tail
<1>1. Rules(rules) = c
  BY DEF Rules, CatchAll
<1>2. ASSUME NEW i \in DOMAIN rules
      PROVE  /\ rules[i] \in Items /\ rules[i] \in Elements(rules)
             /\ ss[i] = GeneratedRules(rules[i])
             /\ ss[i] \in Seq(Lines)
             /\ \A line \in Elements(ss[i]) : MadeOf(line, rules[i])
  <2>1. rules[i] \in Items /\ rules[i] \in Elements(rules)
    BY DEF Elements
  <2>2. ss[i] = GeneratedRules(rules[i])
    OBVIOUS
  <2>. HIDE DEF ss
  <2>. QED  BY <2>1, <2>2, GeneratedIs DEF AllRules
<1>3. ss \in Seq(Seq(Lines)) /\ DOMAIN ss = DOMAIN rules
  <2>. DEFINE n == Len(rules)
  <2>1. /\ n \in Nat /\ DOMAIN rules = 1..n
        /\ DOMAIN ss = 1..n /\ ss = [i \in 1..n |-> ss[i]]
    OBVIOUS
  <2>2. \A i \in 1..n : ss[i] \in Seq(Lines)
    BY <1>2, <2>1
  <2>. HIDE DEF ss, n
  <2>. QED  BY <2>1, <2>2
<1>. HIDE DEF ss
<1>4. m \in Seq(Lines)
  BY <1>3, JoinedIs
<1>5. PICK start : JoinedAt(ss, m, start)
  BY <1>3, JoinedIs
<1>. HIDE DEF m
<1>6. /\ head \in Seq(Lines) /\ Len(head) = 2
      /\ head[1] \in OwnLines /\ head[2] \in OwnLines
  BY OwnLinesAre DEF OwnLines
<1>7. /\ tail \in Seq(Lines) /\ Len(tail) = 3
      /\ tail[1] \in OwnLines /\ tail[2] \in OwnLines /\ tail[3] = CatchAll
  BY OwnLinesAre DEF OwnLines
<1>. HIDE DEF head, tail
<1>8. Len(m) \in Nat /\ DOMAIN m = 1..Len(m)
  BY <1>4
<1>9. /\ c \in Seq(Lines) /\ Len(c) = Len(m) + 5 /\ DOMAIN c = 1..(Len(m) + 5)
      /\ c[1] = head[1] /\ c[2] = head[2]
      /\ \A k \in 1..Len(m) : c[k + 2] = m[k]
      /\ c[Len(m) + 3] = tail[1] /\ c[Len(m) + 4] = tail[2]
      /\ c[Len(m) + 5] = tail[3]
  <2>1. /\ b \in Seq(Lines) /\ Len(b) = Len(m) + 2
        /\ b[1] = head[1] /\ b[2] = head[2]
        /\ \A k \in 1..Len(m) : b[2 + k] = m[k]
    <3>1. b = head \o m
      OBVIOUS
    <3>. HIDE DEF b
    <3>2. /\ b \in Seq(Lines) /\ Len(b) = Len(head) + Len(m)
          /\ \A k \in 1..Len(head) : b[k] = head[k]
          /\ \A k \in 1..Len(m) : b[Len(head) + k] = m[k]
      <4>1. head \in Seq(Lines) /\ m \in Seq(Lines)
        BY <1>4, <1>6
      <4>. QED  BY <3>1, <4>1, ConcatIs
    <3>. QED  BY <1>6, <1>8, <3>2
  <2>. HIDE DEF b
  <2>2. /\ c \in Seq(Lines) /\ Len(c) = Len(b) + 3
        /\ \A k \in 1..Len(b) : c[k] = b[k]
        /\ \A k \in 1..3 : c[Len(b) + k] = tail[k]
    <3>1. c = b \o tail
      OBVIOUS
    <3>. HIDE DEF c
    <3>2. /\ c \in Seq(Lines) /\ Len(c) = Len(b) + Len(tail)
          /\ \A k \in 1..Len(b) : c[k] = b[k]
          /\ \A k \in 1..Len(tail) : c[Len(b) + k] = tail[k]
      <4>1. b \in Seq(Lines) /\ tail \in Seq(Lines)
        BY <1>7, <2>1
      <4>. QED  BY <3>1, <4>1, ConcatIs
    <3>. QED  BY <1>7, <3>2
  <2>. HIDE DEF c
  <2>3. \A k \in 1..Len(m) : c[k + 2] = m[k]
    <3>. TAKE k \in 1..Len(m)
    <3>1. 2 + k \in 1..Len(b) /\ k + 2 = 2 + k
      BY <1>8, <2>1
    <3>. QED  BY <2>1, <2>2, <3>1
  <2>4. c[1] = b[1] /\ c[2] = b[2]
    BY <1>8, <2>1, <2>2
  <2>5. /\ c[Len(m) + 3] = tail[1] /\ c[Len(m) + 4] = tail[2]
        /\ c[Len(m) + 5] = tail[3]
    <3>1. /\ Len(m) + 3 = Len(b) + 1 /\ Len(m) + 4 = Len(b) + 2
          /\ Len(m) + 5 = Len(b) + 3
      BY <1>8, <2>1
    <3>. QED  BY <2>2, <3>1
  <2>6. Len(c) = Len(m) + 5 /\ DOMAIN c = 1..(Len(m) + 5)
    BY <1>8, <2>1, <2>2
  <2>. QED  BY <2>1, <2>2, <2>3, <2>4, <2>5, <2>6
<1>. HIDE DEF c
<1>10. ASSUME NEW p \in DOMAIN c
       PROVE  \/ p \in {1, 2, Len(m) + 3, Len(m) + 4} /\ c[p] \in OwnLines
              \/ p = Len(c) /\ c[p] = CatchAll
              \/ p - 2 \in DOMAIN m /\ c[p] = m[p - 2] /\ p = (p - 2) + 2
  <2>1. \/ p \in {1, 2, Len(m) + 3, Len(m) + 4} \/ p = Len(c)
        \/ p - 2 \in 1..Len(m) /\ p = (p - 2) + 2
    BY <1>8, <1>9
  <2>. QED  BY <1>6, <1>7, <1>8, <1>9, <2>1
<1>11. ASSUME NEW k \in DOMAIN m
       PROVE  \E i \in DOMAIN rules : \E j \in DOMAIN ss[i] :
                /\ k = start[i] + j /\ m[k] = ss[i][j] /\ MadeOf(m[k], rules[i])
  <2>1. PICK i \in DOMAIN ss : \E j \in DOMAIN ss[i] : k = start[i] + j
    BY <1>5 DEF JoinedAt
  <2>2. PICK j \in DOMAIN ss[i] : k = start[i] + j
    BY <2>1
  <2>3. m[k] = ss[i][j]
    BY <1>5, <2>2 DEF JoinedAt
  <2>4. ss[i][j] \in Elements(ss[i])
    BY DEF Elements
  <2>5. MadeOf(m[k], rules[i])
    BY <1>2, <1>3, <2>3, <2>4
  <2>. QED  BY <1>3, <2>2, <2>3, <2>5
<1>12. ASSUME NEW p \in DOMAIN c
       PROVE  \/ p = Len(c) \/ c[p] \in OwnLines
              \/ \E r \in Elements(rules) : MadeOf(c[p], r)
  BY <1>2, <1>10, <1>11
<1>13. \E at : SetsAt(rules, c, at)
  <2>. DEFINE at == [i \in DOMAIN rules |-> start[i] + 2]
  <2>1. ASSUME NEW i \in DOMAIN rules
        PROVE  start[i] \in Nat /\ at[i] = start[i] + 2 /\ at[i] \in Nat
    BY <1>3, <1>5 DEF JoinedAt
  <2>2. at \in [DOMAIN rules -> Nat]
    BY <2>1
  <2>. HIDE DEF at
  <2>3. ASSUME NEW i \in DOMAIN rules, rules[i].payload = <<>>
        PROVE  /\ DOMAIN ss[i] = DOMAIN rules[i].urls
               /\ \A k \in DOMAIN rules[i].urls : ss[i][k] = SetLine(rules[i], k)
               /\ Len(ss[i]) = Len(rules[i].urls)
    <3>1. ss[i] = RuleSets(rules[i]) /\ rules[i] \in Items
      BY <1>2, <2>3 DEF GeneratedRules
    <3>2. /\ DOMAIN ss[i] = DOMAIN rules[i].urls
          /\ \A k \in DOMAIN rules[i].urls : ss[i][k] = SetLine(rules[i], k)
      BY <3>1, SetRulesAre
    <3>3. ss[i] \in Seq(Lines) /\ rules[i].urls \in Seq(Texts)
      BY <1>2, <3>1 DEF Items
    <3>4. Len(ss[i]) = Len(rules[i].urls)
      <4>. DEFINE x == Len(ss[i])  y == Len(rules[i].urls)
      <4>1. /\ x \in Nat /\ y \in Nat /\ DOMAIN ss[i] = 1..x
            /\ DOMAIN rules[i].urls = 1..y
        BY <3>3
      <4>2. 1..x = 1..y
        BY <3>2, <4>1
      <4>. HIDE DEF x, y
      <4>3. \A k \in Nat : k \in 1..x <=> k \in 1..y
        BY <4>2
      <4>4. (x > 0 => x \in 1..y) /\ (y > 0 => y \in 1..x)
        BY <4>1, <4>3
      <4>5. x = y
        BY <4>1, <4>4
      <4>. QED  BY <4>5 DEF x, y
    <3>. QED  BY <3>2, <3>4
  <2>4. ASSUME NEW i \in DOMAIN rules, rules[i].payload = <<>>,
               NEW k \in DOMAIN rules[i].urls
        PROVE  at[i] + k \in DOMAIN c /\ c[at[i] + k] = SetLine(rules[i], k)
    <3>1. start[i] + k \in DOMAIN m /\ m[start[i] + k] = SetLine(rules[i], k)
      BY <1>3, <1>5, <2>3, <2>4 DEF JoinedAt
    <3>. DEFINE q == start[i] + k
    <3>2. q \in 1..Len(m) /\ m[q] = SetLine(rules[i], k)
      BY <1>8, <3>1
    <3>3. rules[i].urls \in Seq(Texts)
      BY <1>2 DEF Items
    <3>4. k \in Nat
      BY <3>3
    <3>5. at[i] + k = q + 2
      <4>. DEFINE x == start[i]
      <4>1. x \in Nat /\ at[i] = x + 2
        BY <2>1
      <4>. HIDE DEF x
      <4>. QED  BY <3>4, <4>1 DEF x
    <3>. HIDE DEF q
    <3>6. q + 2 \in DOMAIN c /\ c[q + 2] = m[q]
      BY <1>8, <1>9, <3>2
    <3>. QED  BY <3>2, <3>5, <3>6
  <2>5. ASSUME NEW p \in DOMAIN c, c[p][1] = "RULE-SET"
        PROVE  \E i \in DOMAIN rules :
                  /\ rules[i].payload = <<>>
                  /\ \E k \in DOMAIN rules[i].urls : p = at[i] + k
    <3>1. c[p] \notin OwnLines /\ c[p] # CatchAll
      BY <2>5 DEF OwnLines, CatchAll
    <3>2. p - 2 \in DOMAIN m /\ c[p] = m[p - 2] /\ p = (p - 2) + 2
      BY <1>10, <3>1
    <3>3. PICK i \in DOMAIN rules : \E j \in DOMAIN ss[i] :
                /\ p - 2 = start[i] + j /\ MadeOf(c[p], rules[i])
      BY <1>11, <3>2
    <3>4. PICK j \in DOMAIN ss[i] : p - 2 = start[i] + j
      BY <3>3
    <3>5. rules[i].payload = <<>>
      BY <2>5, <3>3 DEF MadeOf, PayloadLine
    <3>6. j \in DOMAIN rules[i].urls
      BY <2>3, <3>3, <3>4, <3>5
    <3>7. rules[i].urls \in Seq(Texts)
      BY <1>2, <3>3 DEF Items
    <3>8. j \in Nat
      BY <3>6, <3>7
    <3>9. p = at[i] + j
      <4>. DEFINE x == start[i]
      <4>1. x \in Nat /\ at[i] = x + 2 /\ p - 2 = x + j
        BY <2>1, <3>3, <3>4
      <4>2. p \in Nat
        BY <1>8, <1>9
      <4>. HIDE DEF x
      <4>. QED  BY <3>8, <4>1, <4>2
    <3>. QED  BY <3>5, <3>6, <3>9
  <2>6. ASSUME NEW i \in DOMAIN rules, NEW h \in DOMAIN rules, i < h,
               rules[i].payload = <<>>
        PROVE  at[i] + Len(rules[i].urls) <= at[h]
    <3>1. start[i] + Len(ss[i]) <= start[h]
      BY <1>3, <1>5, <2>6 DEF JoinedAt
    <3>2. Len(ss[i]) = Len(rules[i].urls) /\ Len(ss[i]) \in Nat
      BY <1>2, <2>3, <2>6
    <3>. QED  BY <2>1, <3>1, <3>2
  <2>7. SetsAt(rules, c, at)
    BY <2>2, <2>4, <2>5, <2>6 DEF SetsAt
  <2>. QED  BY <2>7
<1>14. Len(c) \in DOMAIN c /\ c[Len(c)] = CatchAll
  BY <1>7, <1>8, <1>9
<1>. QED  BY <1>1, <1>9, <1>12, <1>13, <1>14

-----------------------------------------------------------------------------
(* The groups of a profile.                                                *)

Groups == [name : Texts, type : PlainTypes, members : Seq(Texts)]
OwnMembers == {"DIRECT", "auto", "balance"}
OwnGroupNames == {"domestic", "foreign", "blocked", "auto", "balance"}
Extras(rules) == UNION {Elements(r.extra) : r \in Elements(rules)}
NamesOf(rules) == {r.name : r \in Elements(rules)}

Selects(g, names) ==
    /\ g \in Groups /\ g.type = "select"
    /\ OwnMembers \subseteq Elements(g.members)
    /\ Elements(g.members) \subseteq OwnMembers \cup names

LEMMA OwnMembersAre ==
    /\ <<"DIRECT", "auto", "balance">> \in Seq(Texts)
    /\ <<"auto", "balance", "DIRECT">> \in Seq(Texts)
    /\ Elements(<<"DIRECT", "auto", "balance">>) = OwnMembers
    /\ Elements(<<"auto", "balance", "DIRECT">>) = OwnMembers
<1>1. /\ <<"DIRECT", "auto", "balance">> \in Seq(Texts)
      /\ <<"auto", "balance", "DIRECT">> \in Seq(Texts)
  BY OwnTexts DEF OwnNames
<1>2. \A a, b, c : Elements(<<a, b, c>>) = {a, b, c}
  <2>. TAKE a, b, c
  <2>. DEFINE s == <<a, b, c>>
  <2>1. DOMAIN s = {1, 2, 3} /\ s[1] = a /\ s[2] = b /\ s[3] = c
    OBVIOUS
  <2>. HIDE DEF s
  <2>2. {s[i] : i \in DOMAIN s} = {a, b, c}
    BY <2>1
  <2>. QED  BY <2>2 DEF Elements, s
<1>3. /\ Elements(<<"DIRECT", "auto", "balance">>) = {"DIRECT", "auto", "balance"}
      /\ Elements(<<"auto", "balance", "DIRECT">>) = {"auto", "balance", "DIRECT"}
  BY <1>2
<1>. QED  BY <1>1, <1>3 DEF OwnMembers

LEMMA BuiltIs ==
    ASSUME NEW r \in Items
    PROVE  /\ Selects(BuildProxyGroup(r), Elements(r.extra))
           /\ BuildProxyGroup(r).name = r.name
<1>. DEFINE last == IF r.gfw THEN <<"auto", "balance", "DIRECT">>
                    ELSE <<"DIRECT", "auto", "balance">>
            members == r.extra \o last
<1>1. r.extra \in Seq(Texts) /\ r.name \in Texts
  BY DEF Items
<1>2. last \in Seq(Texts) /\ Elements(last) = OwnMembers
  BY OwnMembersAre
<1>3. BuildProxyGroup(r) = [name |-> r.name, type |-> "select", members |-> members]
  BY DEF BuildProxyGroup, Group
<1>. HIDE DEF last
<1>4. members \in Seq(Texts)
  BY <1>1, <1>2
<1>5. Elements(members) = Elements(r.extra) \cup OwnMembers
  BY <1>1, <1>2, ElementsOfConcat
<1>. HIDE DEF members
<1>. QED  BY <1>1, <1>3, <1>4, <1>5 DEF Selects, Groups, PlainTypes

OpenGroup(name) == Group(name, "select", <<"DIRECT", "auto", "balance">>)
Blocked == Group("blocked", "select", <<"auto", "balance", "DIRECT">>)
Fastest == Group("auto", "url-test", <<>>)
Balance == Group("balance", "load-balance", <<>>)
OwnGroups == {OpenGroup("domestic"), OpenGroup("foreign"), Blocked, Fastest, Balance}

LEMMA OwnGroupsAre ==
    /\ OwnGroups \subseteq Groups
    /\ \A g \in {OpenGroup("domestic"), OpenGroup("foreign"), Blocked} : Selects(g, {})
    /\ Fastest.members = <<>> /\ Fastest.type = "url-test"
    /\ Balance.members = <<>> /\ Balance.type = "load-balance"
    /\ {g.name : g \in OwnGroups} = OwnGroupNames
<1>1. \A name \in Texts : Selects(OpenGroup(name), {}) /\ OpenGroup(name).name = name
  BY OwnMembersAre DEF OpenGroup, Group, Selects, Groups, PlainTypes
<1>2. Selects(Blocked, {}) /\ Blocked.name = "blocked"
  BY OwnMembersAre, OwnTexts DEF Blocked, Group, Selects, Groups, PlainTypes, OwnNames
<1>3. "domestic" \in Texts /\ "foreign" \in Texts
  BY OwnTexts DEF OwnNames
<1>4. /\ Fastest \in Groups /\ Fastest.members = <<>> /\ Fastest.type = "url-test"
      /\ Fastest.name = "auto"
  BY OwnTexts DEF Fastest, Group, Groups, PlainTypes, OwnNames
<1>5. /\ Balance \in Groups /\ Balance.members = <<>> /\ Balance.type = "load-balance"
      /\ Balance.name = "balance"
  BY OwnTexts DEF Balance, Group, Groups, PlainTypes, OwnNames
<1>6. \A g \in {OpenGroup("domestic"), OpenGroup("foreign"), Blocked} : Selects(g, {})
  BY <1>1, <1>2, <1>3
<1>7. OwnGroups \subseteq Groups
  BY <1>4, <1>5, <1>6 DEF OwnGroups, Selects
<1>8. {g.name : g \in OwnGroups} = OwnGroupNames
  <2>1. OpenGroup("domestic").name = "domestic" /\ OpenGroup("foreign").name = "foreign"
    BY <1>1, <1>3
  <2>2. {g.name : g \in OwnGroups} =
            {OpenGroup("domestic").name, OpenGroup("foreign").name, Blocked.name,
             Fastest.name, Balance.name}
    BY DEF OwnGroups
  <2>. QED  BY <1>2, <1>4, <1>5, <2>1, <2>2 DEF OwnGroupNames
<1>. QED  BY <1>4, <1>5, <1>6, <1>7, <1>8

Built(rules, gfw) ==
    LET its == Sublist(rules, {i \in DOMAIN rules : rules[i].gfw = gfw})
    IN  [i \in DOMAIN its |-> BuildProxyGroup(its[i])]

LEMMA BuiltListIs ==
    ASSUME NEW rules \in Seq(Items), NEW gfw
    PROVE  /\ Built(rules, gfw) \in Seq(Groups)
           /\ Elements(Built(rules, gfw)) =
                {BuildProxyGroup(r) : r \in {s \in Elements(rules) : s.gfw = gfw}}
<1>. DEFINE I == {i \in DOMAIN rules : rules[i].gfw = gfw}
            its == Sublist(rules, I)
            b == [i \in DOMAIN its |-> BuildProxyGroup(its[i])]
<1>1. its \in Seq(Items) /\ Elements(its) = {rules[i] : i \in I}
  BY ElementsOfSublist
<1>2. Built(rules, gfw) = b
  BY DEF Built
<1>3. {rules[i] : i \in I} = {s \in Elements(rules) : s.gfw = gfw}
  BY DEF Elements
<1>. HIDE DEF its, I
<1>4. ASSUME NEW i \in DOMAIN its
      PROVE  b[i] = BuildProxyGroup(its[i]) /\ b[i] \in Groups /\ its[i] \in Elements(its)
  BY <1>1, BuiltIs DEF Selects, Elements
<1>5. DOMAIN b = 1..Len(its) /\ Len(its) \in Nat /\ b = [i \in 1..Len(its) |-> b[i]]
      /\ DOMAIN its = 1..Len(its)
  BY <1>1
<1>. HIDE DEF b
<1>6. b \in Seq(Groups)
  <2>1. \A i \in 1..Len(its) : b[i] \in Groups
    BY <1>4, <1>5
  <2>. QED  BY <1>5, <2>1
<1>7. Elements(b) = {BuildProxyGroup(r) : r \in Elements(its)}
  <2>1. \A i \in DOMAIN its : b[i] = BuildProxyGroup(its[i])
    BY <1>4
  <2>2. DOMAIN b = DOMAIN its
    BY <1>5
  <2>. QED  BY <2>1, <2>2 DEF Elements
<1>. QED  BY <1>1, <1>2, <1>3, <1>6, <1>7

(* The groups: the program's own, and one for every item.                  *)
LEMMA GroupsAre ==
    ASSUME NEW rules \in Seq(Items)
    PROVE  /\ ProxyGroups(rules) \in Seq(Groups)
           /\ Elements(ProxyGroups(rules)) =
                OwnGroups \cup {BuildProxyGroup(r) : r \in Elements(rules)}
<1>. DEFINE a == <<OpenGroup("domestic")>>
            b == Built(rules, FALSE)
            c == <<OpenGroup("foreign")>>
            d == Built(rules, TRUE)
            e == <<Blocked, Fastest, Balance>>
<1>1. ProxyGroups(rules) = (((a \o b) \o c) \o d) \o e
  BY DEF ProxyGroups, Built, OpenGroup, Blocked, Fastest, Balance
<1>2. /\ b \in Seq(Groups) /\ d \in Seq(Groups)
      /\ Elements(b) = {BuildProxyGroup(r) : r \in {s \in Elements(rules) : s.gfw = FALSE}}
      /\ Elements(d) = {BuildProxyGroup(r) : r \in {s \in Elements(rules) : s.gfw = TRUE}}
  BY BuiltListIs
<1>3. /\ a \in Seq(Groups) /\ Elements(a) = {OpenGroup("domestic")}
      /\ c \in Seq(Groups) /\ Elements(c) = {OpenGroup("foreign")}
  <2>1. \A x : Elements(<<x>>) = {x}
    BY DEF Elements
  <2>2. OpenGroup("domestic") \in Groups /\ OpenGroup("foreign") \in Groups
    BY OwnGroupsAre DEF OwnGroups
  <2>. QED  BY <2>1, <2>2
<1>4. e \in Seq(Groups) /\ Elements(e) = {Blocked, Fastest, Balance}
  <2>1. Blocked \in Groups /\ Fastest \in Groups /\ Balance \in Groups
    BY OwnGroupsAre DEF OwnGroups
  <2>2. /\ DOMAIN e = {1, 2, 3} /\ e[1] = Blocked /\ e[2] = Fastest /\ e[3] = Balance
        /\ e \in Seq(Groups)
    BY <2>1
  <2>. HIDE DEF e
  <2>3. {e[i] : i \in DOMAIN e} = {Blocked, Fastest, Balance}
    BY <2>2
  <2>. QED  BY <2>2, <2>3 DEF Elements
<1>. HIDE DEF a, b, c, d, e
<1>. DEFINE ab == a \o b  abc == ab \o c  abcd == abc \o d  all == abcd \o e
<1>5. ab \in Seq(Groups) /\ Elements(ab) = Elements(a) \cup Elements(b)
  BY <1>2, <1>3, ElementsOfConcat
<1>. HIDE DEF ab
<1>6. abc \in Seq(Groups) /\ Elements(abc) = Elements(ab) \cup Elements(c)
  BY <1>3, <1>5, ElementsOfConcat
<1>. HIDE DEF abc
<1>7. abcd \in Seq(Groups) /\ Elements(abcd) = Elements(abc) \cup Elements(d)
  BY <1>2, <1>6, ElementsOfConcat
<1>. HIDE DEF abcd
<1>8. all \in Seq(Groups) /\ Elements(all) = Elements(abcd) \cup Elements(e)
  BY <1>4, <1>7, ElementsOfConcat
<1>. HIDE DEF all
<1>9. Elements(b) \cup Elements(d) = {BuildProxyGroup(r) : r \in Elements(rules)}
  <2>1. \A r \in Elements(rules) : r.gfw = FALSE \/ r.gfw = TRUE
    BY DEF Elements, Items
  <2>. QED  BY <1>2, <2>1
<1>10. ProxyGroups(rules) = all
  BY <1>1 DEF all, abcd, abc, ab
<1>. QED  BY <1>3, <1>4, <1>5, <1>6, <1>7, <1>8, <1>9, <1>10 DEF OwnGroups

(* Their names, and what they may list.                                    *)
LEMMA GroupForm ==
    ASSUME NEW rules \in Seq(Items)
    PROVE  /\ {g.name : g \in Elements(ProxyGroups(rules))} =
                OwnGroupNames \cup NamesOf(rules)
           /\ \A g \in Elements(ProxyGroups(rules)) :
                 \/ Selects(g, Extras(rules))
                 \/ g \in {Fastest, Balance}
<1>1. Elements(ProxyGroups(rules)) =
        OwnGroups \cup {BuildProxyGroup(r) : r \in Elements(rules)}
  BY GroupsAre
<1>2. \A r \in Elements(rules) : r \in Items
  BY DEF Elements
<1>3. \A r \in Elements(rules) :
        /\ Selects(BuildProxyGroup(r), Extras(rules))
        /\ BuildProxyGroup(r).name = r.name
  <2>. TAKE r \in Elements(rules)
  <2>1. /\ Selects(BuildProxyGroup(r), Elements(r.extra))
        /\ BuildProxyGroup(r).name = r.name
    BY <1>2, BuiltIs
  <2>2. Elements(r.extra) \subseteq Extras(rules)
    BY DEF Extras
  <2>. QED  BY <2>1, <2>2 DEF Selects
<1>4. \A g \in OwnGroups : Selects(g, Extras(rules)) \/ g \in {Fastest, Balance}
  BY OwnGroupsAre DEF OwnGroups, Selects
<1>5. {g.name : g \in OwnGroups} = OwnGroupNames
  BY OwnGroupsAre
<1>6. {BuildProxyGroup(r).name : r \in Elements(rules)} = NamesOf(rules)
  BY <1>3 DEF NamesOf
<1>7. {g.name : g \in Elements(ProxyGroups(rules))} =
        {g.name : g \in OwnGroups} \cup {BuildProxyGroup(r).name : r \in Elements(rules)}
  BY <1>1
<1>. QED  BY <1>1, <1>3, <1>4, <1>5, <1>6, <1>7

-----------------------------------------------------------------------------
(* The groups of a document.                                               *)

ConfigGroups(rules) == Elements(ProxyGroups(rules))

WithAll(g, all) == [g EXCEPT !.members = @ \o all]

LEMMA PlainKeepsAll ==
    ASSUME NEW gs \in Seq(Groups)
    PROVE  PlainGroups(gs) \in Seq(Groups) /\ Elements(PlainGroups(gs)) = Elements(gs)
<1>1. \A i \in DOMAIN gs : gs[i].type \in PlainTypes
  <2>. TAKE i \in DOMAIN gs
  <2>1. gs[i] \in Groups
    OBVIOUS
  <2>. QED  BY <2>1 DEF Groups
<1>2. {i \in DOMAIN gs : gs[i].type \in PlainTypes} = DOMAIN gs
  BY <1>1
<1>3. PlainGroups(gs) = Sublist(gs, DOMAIN gs)
  BY <1>2 DEF PlainGroups
<1>4. /\ Sublist(gs, DOMAIN gs) \in Seq(Groups)
      /\ Elements(Sublist(gs, DOMAIN gs)) = {gs[i] : i \in DOMAIN gs}
  BY ElementsOfSublist
<1>. QED  BY <1>3, <1>4 DEF Elements

(* What each converter makes of the groups.                                *)
LEMMA GroupsOfDocument ==
    ASSUME NEW rules \in Seq(Items), NEW cl, NEW nds,
           NEW doc, doc = Document(cl, nds, BuildConfig(rules))
    PROVE  /\ GetConverter(cl) = "surge" =>
                Elements(doc.groups) = {SurgeGroup(g) : g \in ConfigGroups(rules)}
           /\ GetConverter(cl) = "loon" => Elements(doc.groups) = ConfigGroups(rules)
           /\ GetConverter(cl) = "quantumult" =>
                Elements(doc.groups) = {QuantumultGroup(g) : g \in ConfigGroups(rules)}
           /\ GetConverter(cl) = "singbox" =>
                Elements(doc.groups) = {SingboxGroup(g) : g \in ConfigGroups(rules)}
           /\ GetConverter(cl) \notin {"surge", "loon", "quantumult", "singbox"} =>
                /\ doc.nodes = [i \in DOMAIN nds |-> nds[i].name]
                /\ Elements(doc.groups) =
                     {WithAll(g, doc.nodes) : g \in ConfigGroups(rules)}
<1>. DEFINE gs == ProxyGroups(rules)  ps == PlainGroups(gs)  cfg == BuildConfig(rules)
<1>1. gs \in Seq(Groups) /\ cfg.groups = gs
  BY GroupsAre DEF BuildConfig
<1>2. ps \in Seq(Groups) /\ Elements(ps) = ConfigGroups(rules)
  BY <1>1, PlainKeepsAll DEF ConfigGroups
<1>3. Elements(gs) = ConfigGroups(rules)
  BY DEF ConfigGroups
<1>. HIDE DEF gs, ps
<1>4. ASSUME GetConverter(cl) = "surge"
      PROVE  Elements(doc.groups) = {SurgeGroup(g) : g \in ConfigGroups(rules)}
  <2>1. doc = SurgeDocument(nds, cfg)
    BY <1>4 DEF Document
  <2>. HIDE DEF cfg
  <2>2. doc.groups = [i \in DOMAIN gs |-> SurgeGroup(gs[i])]
    BY <1>1, <2>1 DEF SurgeDocument, Converted
  <2>. QED  BY <1>3, <2>2 DEF Elements
<1>5. ASSUME GetConverter(cl) = "loon"
      PROVE  Elements(doc.groups) = ConfigGroups(rules)
  <2>1. doc = LoonDocument(nds, cfg)
    BY <1>5 DEF Document
  <2>. HIDE DEF cfg
  <2>2. doc.groups = ps
    BY <1>1, <2>1 DEF LoonDocument, ps
  <2>. QED  BY <1>2, <2>2
<1>6. ASSUME GetConverter(cl) = "quantumult"
      PROVE  Elements(doc.groups) = {QuantumultGroup(g) : g \in ConfigGroups(rules)}
  <2>1. doc = QuantumultDocument(nds, cfg)
    BY <1>6 DEF Document
  <2>. HIDE DEF cfg
  <2>2. doc.groups = [i \in DOMAIN ps |-> QuantumultGroup(ps[i])]
    BY <1>1, <2>1 DEF QuantumultDocument, Converted, ps
  <2>. QED  BY <1>2, <2>2 DEF Elements
<1>7. ASSUME GetConverter(cl) = "singbox"
      PROVE  Elements(doc.groups) = {SingboxGroup(g) : g \in ConfigGroups(rules)}
  <2>1. doc = SingboxDocument(nds, cfg)
    BY <1>7 DEF Document
  <2>. HIDE DEF cfg
  <2>2. doc.groups = [i \in DOMAIN ps |-> SingboxGroup(ps[i])]
    BY <1>1, <2>1 DEF SingboxDocument, Converted, ps
  <2>. QED  BY <1>2, <2>2 DEF Elements
<1>8. ASSUME GetConverter(cl) \notin {"surge", "loon", "quantumult", "singbox"}
      PROVE  /\ doc.nodes = [i \in DOMAIN nds |-> nds[i].name]
             /\ Elements(doc.groups) =
                  {WithAll(g, doc.nodes) : g \in ConfigGroups(rules)}
  <2>1. doc = ClashDocument(nds, cfg)
    BY <1>8 DEF Document
  <2>. HIDE DEF cfg
  <2>. DEFINE all == [i \in DOMAIN nds |-> nds[i].name]
  <2>2. doc = [nodes |-> all, providers |-> cfg.providers, rules |-> cfg.rules,
               groups |-> [i \in DOMAIN cfg.groups |->
                              [cfg.groups[i] EXCEPT !.members = @ \o all]]]
    BY <2>1, Zenon DEF ClashDocument
  <2>. HIDE DEF all
  <2>3. /\ doc.groups = [i \in DOMAIN gs |-> WithAll(gs[i], all)]
        /\ doc.nodes = all
    BY <1>1, <2>2 DEF WithAll
  <2>4. Elements(doc.groups) = {WithAll(g, all) : g \in ConfigGroups(rules)}
    BY <1>3, <2>3 DEF Elements
  <2>. QED  BY <2>3, <2>4 DEF all
<1>. QED  BY <1>4, <1>5, <1>6, <1>7, <1>8

(* An operator on names, over a list of names.                             *)
LEMMA ElementsOfEscaped ==
    ASSUME NEW names
    PROVE  Elements(Escaped(names)) = {EscapeName(n) : n \in Elements(names)}
  BY DEF Elements, Escaped

LEMMA GroupTypes ==
    ASSUME NEW rules \in Seq(Items), NEW g \in ConfigGroups(rules)
    PROVE  /\ g \in Groups
           /\ g.name \in OwnGroupNames \cup NamesOf(rules)
           /\ Elements(g.members) \subseteq OwnMembers \cup Extras(rules)
<1>1. g \in Groups
  BY GroupsAre DEF ConfigGroups, Elements
<1>2. g.name \in OwnGroupNames \cup NamesOf(rules)
  BY GroupForm DEF ConfigGroups
<1>3. Selects(g, Extras(rules)) \/ g \in {Fastest, Balance}
  BY GroupForm DEF ConfigGroups
<1>4. Elements(<<>>) = {}
  BY DEF Elements
<1>. QED  BY <1>1, <1>2, <1>3, <1>4, OwnGroupsAre DEF Selects

(* The names of the groups in a document.                                  *)
LEMMA NamesInDocument ==
    ASSUME NEW rules \in Seq(Items), NEW cl, NEW nds,
           NEW doc, doc = Document(cl, nds, BuildConfig(rules))
    PROVE  {g.name : g \in Elements(doc.groups)} =
             IF GetConverter(cl) = "surge"
             THEN {EscapeName(n) : n \in OwnGroupNames \cup NamesOf(rules)}
             ELSE OwnGroupNames \cup NamesOf(rules)
<1>. DEFINE G == ConfigGroups(rules)
<1>1. {g.name : g \in G} = OwnGroupNames \cup NamesOf(rules)
  BY GroupForm DEF ConfigGroups
<1>2. \A g \in G : g \in Groups
  BY GroupTypes
<1>. HIDE DEF G
<1>3. \A g \in G : SurgeGroup(g).name = EscapeName(g.name)
  BY DEF SurgeGroup
<1>4. \A g \in G : QuantumultGroup(g).name = g.name
  BY <1>2 DEF QuantumultGroup, Groups
<1>5. \A g \in G : SingboxGroup(g).name = g.name
  BY DEF SingboxGroup
<1>6. \A g \in G : \A all : WithAll(g, all).name = g.name
  BY <1>2 DEF WithAll, Groups
<1>7. CASE GetConverter(cl) = "surge"
  <2>1. Elements(doc.groups) = {SurgeGroup(g) : g \in G}
    BY <1>7, GroupsOfDocument DEF G
  <2>2. {g.name : g \in Elements(doc.groups)} = {EscapeName(g.name) : g \in G}
    <3>1. {g.name : g \in Elements(doc.groups)} = {SurgeGroup(g).name : g \in G}
      BY <2>1
    <3>. QED  BY <1>3, <3>1
  <2>3. {EscapeName(g.name) : g \in G} = {EscapeName(n) : n \in {g.name : g \in G}}
    OBVIOUS
  <2>. QED  BY <1>1, <1>7, <2>2, <2>3
<1>8. CASE GetConverter(cl) = "loon"
  <2>1. Elements(doc.groups) = G
    BY <1>8, GroupsOfDocument DEF G
  <2>. QED  BY <1>1, <1>8, <2>1
<1>9. CASE GetConverter(cl) = "quantumult"
  <2>1. Elements(doc.groups) = {QuantumultGroup(g) : g \in G}
    BY <1>9, GroupsOfDocument DEF G
  <2>2. {g.name : g \in Elements(doc.groups)} = {g.name : g \in G}
    BY <1>4, <2>1
  <2>. QED  BY <1>1, <1>9, <2>2
<1>10. CASE GetConverter(cl) = "singbox"
  <2>1. Elements(doc.groups) = {SingboxGroup(g) : g \in G}
    BY <1>10, GroupsOfDocument DEF G
  <2>2. {g.name : g \in Elements(doc.groups)} = {g.name : g \in G}
    BY <1>5, <2>1
  <2>. QED  BY <1>1, <1>10, <2>2
<1>11. CASE GetConverter(cl) \notin {"surge", "loon", "quantumult", "singbox"}
  <2>1. /\ doc.nodes = [i \in DOMAIN nds |-> nds[i].name]
        /\ Elements(doc.groups) = {WithAll(g, doc.nodes) : g \in G}
    BY <1>11, GroupsOfDocument DEF G
  <2>2. {g.name : g \in Elements(doc.groups)} = {g.name : g \in G}
    BY <1>6, <2>1
  <2>. QED  BY <1>1, <1>11, <2>2
<1>. QED  BY <1>7, <1>8, <1>9, <1>10, <1>11

(* The extra proxies that are no item.                                     *)
Strangers(rules) == Extras(rules) \ NamesOf(rules)

LEMMA MembersAre ==
    ASSUME NEW rules \in Seq(Items), NEW cl, NEW nds, nds \in Seq(Elements(nds)),
           NEW doc, doc = Document(cl, nds, BuildConfig(rules)),
           NEW g \in Elements(doc.groups), NEW m \in Elements(g.members)
    PROVE  m \in {h.name : h \in Elements(doc.groups)} \cup Builtin \cup {"direct"}
                 \cup Elements(doc.nodes) \cup Strangers(rules)
                 \cup {EscapeName(e) : e \in Strangers(rules)}
<1>. DEFINE G == ConfigGroups(rules)
            N == OwnGroupNames \cup NamesOf(rules)
            D == {h.name : h \in Elements(doc.groups)}
<1>1. D = IF GetConverter(cl) = "surge" THEN {EscapeName(n) : n \in N} ELSE N
  BY NamesInDocument
<1>2. ASSUME NEW h \in G
      PROVE  /\ h \in Groups /\ h.members \in Seq(Texts)
             /\ Elements(h.members) \subseteq OwnMembers \cup Extras(rules)
  BY GroupTypes DEF Groups
<1>3. \A x \in OwnMembers \cup Extras(rules) : x \in Builtin \cup N \cup Strangers(rules)
  BY DEF OwnMembers, Builtin, OwnGroupNames, Strangers
<1>. HIDE DEF D, G
<1>4. ASSUME GetConverter(cl) # "surge", m \in Builtin \cup N \cup Strangers(rules)
      PROVE  m \in D \cup Builtin \cup Strangers(rules)
  BY <1>1, <1>4
<1>5. CASE GetConverter(cl) = "surge"
  <2>0. Elements(doc.groups) = {SurgeGroup(h) : h \in G}
    BY <1>5, GroupsOfDocument DEF G
  <2>1. PICK h \in G : g = SurgeGroup(h)
    BY <2>0
  <2>2. g.members = Escaped(h.members)
    BY <2>1 DEF SurgeGroup
  <2>3. PICK x \in Elements(h.members) : m = EscapeName(x)
    BY <2>2, ElementsOfEscaped
  <2>4. x \in Builtin \cup N \cup Strangers(rules)
    BY <1>2, <1>3, <2>3
  <2>5. CASE x \in Builtin
    <3>1. EscapeName(x) = x
      BY <2>5, OwnNamesStay DEF Builtin, OwnNames
    <3>. QED  BY <2>3, <2>5, <3>1
  <2>6. CASE x \in N
    BY <1>1, <1>5, <2>3, <2>6 DEF D
  <2>7. CASE x \in Strangers(rules)
    BY <2>3, <2>7
  <2>. QED  BY <2>4, <2>5, <2>6, <2>7
<1>6. CASE GetConverter(cl) = "loon"
  <2>1. g \in G
    BY <1>6, GroupsOfDocument DEF G
  <2>2. m \in Builtin \cup N \cup Strangers(rules)
    BY <1>2, <1>3, <2>1
  <2>. QED  BY <1>4, <1>6, <2>2 DEF D
<1>7. CASE GetConverter(cl) = "quantumult"
  <2>0. Elements(doc.groups) = {QuantumultGroup(h) : h \in G}
    BY <1>7, GroupsOfDocument DEF G
  <2>1. PICK h \in G : g = QuantumultGroup(h)
    BY <2>0
  <2>2. g.members = h.members \/ g.members = <<"direct">> \o h.members
    BY <1>2, <2>1 DEF QuantumultGroup, Groups
  <2>3. Elements(<<"direct">> \o h.members) = {"direct"} \cup Elements(h.members)
    <3>1. <<"direct">> \in Seq(Texts) /\ Elements(<<"direct">>) = {"direct"}
      BY OwnTexts DEF OwnWords, Elements
    <3>2. h.members \in Seq(Texts)
      BY <1>2, <2>1
    <3>. DEFINE d == <<"direct">>
    <3>3. d \in Seq(Texts) /\ Elements(d) = {"direct"}
      BY <3>1
    <3>. HIDE DEF d
    <3>4. Elements(d \o h.members) = Elements(d) \cup Elements(h.members)
      BY <3>2, <3>3, ElementsOfConcat
    <3>. QED  BY <3>3, <3>4 DEF d
  <2>4. m = "direct" \/ m \in Elements(h.members)
    BY <2>2, <2>3
  <2>5. m = "direct" \/ m \in Builtin \cup N \cup Strangers(rules)
    BY <1>2, <1>3, <2>1, <2>4
  <2>. QED  BY <1>4, <1>7, <2>5 DEF D
<1>8. CASE GetConverter(cl) = "singbox"
  <2>0. Elements(doc.groups) = {SingboxGroup(h) : h \in G}
    BY <1>8, GroupsOfDocument DEF G
  <2>1. PICK h \in G : g = SingboxGroup(h)
    BY <2>0
  <2>. DEFINE I == {i \in DOMAIN h.members : h.members[i] \notin Builtin}
  <2>2. g.members = Sublist(h.members, I)
    BY <2>1 DEF SingboxGroup
  <2>3. Elements(Sublist(h.members, I)) = {h.members[i] : i \in I}
    BY <1>2, <2>1, ElementsOfSublist
  <2>4. m \in Elements(h.members)
    <3>1. m \in {h.members[i] : i \in I}
      BY <2>2, <2>3
    <3>. QED  BY <3>1 DEF Elements
  <2>5. m \in Builtin \cup N \cup Strangers(rules)
    BY <1>2, <1>3, <2>1, <2>4
  <2>. QED  BY <1>4, <1>8, <2>5 DEF D
<1>9. CASE GetConverter(cl) \notin {"surge", "loon", "quantumult", "singbox"}
  <2>1. /\ doc.nodes = [i \in DOMAIN nds |-> nds[i].name]
        /\ Elements(doc.groups) = {WithAll(h, doc.nodes) : h \in G}
    BY <1>9, GroupsOfDocument DEF G
  <2>2. PICK h \in G : g = WithAll(h, doc.nodes)
    BY <2>1
  <2>3. g.members = h.members \o doc.nodes
    BY <1>2, <2>2 DEF WithAll, Groups
  <2>. DEFINE S == Texts \cup Elements(doc.nodes)
  <2>4. doc.nodes \in Seq(S)
    <3>1. \A i \in DOMAIN nds : doc.nodes[i] \in S
      BY <2>1 DEF Elements
    <3>2. DOMAIN nds = 1..Len(nds) /\ Len(nds) \in Nat
      OBVIOUS
    <3>. HIDE DEF S
    <3>. QED  BY <2>1, <3>1, <3>2
  <2>5. h.members \in Seq(S)
    <3>1. h.members \in Seq(Texts)
      BY <1>2, <2>2
    <3>. QED  BY <3>1
  <2>. HIDE DEF S
  <2>6. Elements(g.members) = Elements(h.members) \cup Elements(doc.nodes)
    BY <2>3, <2>4, <2>5, ElementsOfConcat
  <2>7. m \in Elements(h.members) \/ m \in Elements(doc.nodes)
    BY <2>6
  <2>8. m \in Builtin \cup N \cup Strangers(rules) \/ m \in Elements(doc.nodes)
    BY <1>2, <1>3, <2>2, <2>7
  <2>. QED  BY <1>4, <1>9, <2>8 DEF D
<1>. QED  BY <1>5, <1>6, <1>7, <1>8, <1>9

(* Every selector of sing-box but "balance" has a default.                 *)
LEMMA DefaultsAre ==
    ASSUME NEW rules \in Seq(Items), NEW cl, NEW nds,
           NEW doc, doc = Document(cl, nds, BuildConfig(rules)),
           GetConverter(cl) = "singbox"
    PROVE  \A g \in Elements(doc.groups) :
              g.type = "selector" /\ g.name # "balance" =>
                g.default \in {h.name : h \in Elements(doc.groups)} \cup Extras(rules)
<1>. DEFINE G == ConfigGroups(rules)
<1>1. {h.name : h \in Elements(doc.groups)} = OwnGroupNames \cup NamesOf(rules)
  BY NamesInDocument
<1>. HIDE DEF G
<1>0. Elements(doc.groups) = {SingboxGroup(h) : h \in G}
  BY GroupsOfDocument DEF G
<1>. SUFFICES ASSUME NEW g \in Elements(doc.groups),
                     g.type = "selector", g.name # "balance"
              PROVE  g.default \in {h.name : h \in Elements(doc.groups)}
                                   \cup Extras(rules)
  OBVIOUS
<1>2. PICK h \in G : g = SingboxGroup(h)
  BY <1>0
<1>. DEFINE I == {i \in DOMAIN h.members : h.members[i] \notin Builtin}
            valid == Sublist(h.members, I)
<1>3. /\ g.name = h.name
      /\ g.type = IF h.type = "url-test" THEN "urltest" ELSE "selector"
      /\ g.default = IF h.type # "select" THEN ""
                     ELSE IF valid = <<>> THEN "panic" ELSE valid[1]
  <2>. DEFINE type == IF h.type = "url-test" THEN "urltest" ELSE "selector"
              default == IF h.type # "select" THEN ""
                         ELSE IF valid = <<>> THEN "panic" ELSE valid[1]
  <2>1. SingboxGroup(h) =
          [name |-> h.name, members |-> valid, type |-> type, default |-> default]
    BY Zenon DEF SingboxGroup
  <2>. HIDE DEF valid, type, default
  <2>2. g = [name |-> h.name, members |-> valid, type |-> type, default |-> default]
    BY <1>2, <2>1
  <2>3. g.name = h.name /\ g.type = type /\ g.default = default
    BY <2>2
  <2>. QED  BY <2>3 DEF type, default
<1>4. Selects(h, Extras(rules))
  <2>1. Selects(h, Extras(rules)) \/ h \in {Fastest, Balance}
    BY <1>2, GroupForm DEF ConfigGroups, G
  <2>2. h # Fastest
    BY <1>3, OwnGroupsAre
  <2>3. Balance.name = "balance"
    BY DEF Balance, Group
  <2>4. h # Balance
    BY <1>3, <2>3
  <2>. QED  BY <2>1, <2>2, <2>4
<1>5. valid \in Seq(Texts) /\ Elements(valid) = {h.members[i] : i \in I}
  BY <1>4, ElementsOfSublist DEF Selects, Groups
<1>6. "auto" \in Elements(valid)
  <2>1. PICK i \in DOMAIN h.members : h.members[i] = "auto"
    BY <1>4 DEF Selects, OwnMembers, Elements
  <2>2. i \in I
    BY <2>1 DEF Builtin
  <2>. QED  BY <1>5, <2>1, <2>2
<1>. HIDE DEF valid
<1>7. valid # <<>> /\ valid[1] \in Elements(valid)
  <2>1. DOMAIN valid # {}
    BY <1>6 DEF Elements
  <2>2. 1 \in DOMAIN valid
    BY <1>5, <2>1
  <2>. QED  BY <2>2 DEF Elements
<1>8. g.default = valid[1]
  BY <1>3, <1>4, <1>7 DEF Selects
<1>9. g.default \notin Builtin /\ g.default \in Elements(h.members)
  BY <1>5, <1>7, <1>8 DEF Elements
<1>10. g.default \in OwnMembers \cup Extras(rules)
  BY <1>4, <1>9 DEF Selects
<1>. QED  BY <1>1, <1>9, <1>10 DEF OwnMembers, OwnGroupNames, Builtin

-----------------------------------------------------------------------------
(* The rules of a document.                                                *)

(* A rule has a kind, an argument and a policy; MATCH has only a policy.   *)
Formed(line) ==
    /\ line \in Lines
    /\ \/ line[1] = "MATCH" /\ Len(line) = 2
       \/ line[1] \notin {"MATCH", "FINAL"} /\ Len(line) >= 3

NoMatch(rules) ==
    \A r \in Elements(rules) : <<"MATCH">> \notin Elements(r.payload)

LEMMA PayloadLineFormed ==
    ASSUME NEW raw, NEW name \in Texts, NEW line, PayloadLine(line, raw, name)
    PROVE  /\ Formed(line)
           /\ Policy(line) \in {name} \cup Builtin
           /\ line[1] = "MATCH" => raw = <<"MATCH">>
           /\ line[1] # "RULE-SET"
<1>1. CASE raw = <<"MATCH">> /\ line = <<"MATCH", name>>
  <2>1. <<"MATCH", name>> \in Seq(Texts)
    BY OwnTexts DEF OwnWords
  <2>2. line \in Lines
    BY <1>1, <2>1, Widened
  <2>3. Len(line) = 2 /\ line[1] = "MATCH" /\ line[2] = name
    BY <1>1
  <2>. QED  BY <1>1, <2>2, <2>3 DEF Formed, Policy, IsCatchAll
<1>2. CASE /\ Len(raw) >= 2 /\ raw[1] \notin {"MATCH", "FINAL", "RULE-SET"}
           /\ line \in Lines /\ Len(line) >= 3
           /\ line[1] = raw[1] /\ line[2] = raw[2]
           /\ line[3] \in {name} \cup Builtin
  BY <1>2 DEF Formed, Policy, IsCatchAll
<1>. QED  BY <1>1, <1>2 DEF PayloadLine

LEMMA SetLineFormed ==
    ASSUME NEW r \in Items, NEW k \in DOMAIN r.urls
    PROVE  Formed(SetLine(r, k)) /\ Policy(SetLine(r, k)) = r.name
<1>1. RuleSets(r) \in Seq(Lines) /\ k \in DOMAIN RuleSets(r)
      /\ RuleSets(r)[k] = SetLine(r, k)
  BY SetRulesAre
<1>2. SetLine(r, k) \in Lines
  BY <1>1
<1>3. /\ SetLine(r, k)[1] = "RULE-SET" /\ SetLine(r, k)[3] = r.name
      /\ Len(SetLine(r, k)) = 3
  BY DEF SetLine
<1>. QED  BY <1>2, <1>3 DEF Formed, Policy, IsCatchAll

(* Where the rules of a profile lead, and the only one that takes all      *)
(* connections.                                                            *)
LEMMA LinesAre ==
    ASSUME NEW rules \in Seq(Items), AllRules(rules), NEW p \in DOMAIN Rules(rules)
    PROVE  /\ Formed(Rules(rules)[p])
           /\ (\A r \in Elements(rules) : r.name \notin DOMAIN Dashed) =>
                 Policy(Rules(rules)[p]) \in
                    OwnGroupNames \cup NamesOf(rules) \cup Builtin
           /\ NoMatch(rules) =>
                 (p # Len(Rules(rules)) => Rules(rules)[p][1] # "MATCH")
<1>. DEFINE line == Rules(rules)[p]
<1>1. \/ p = Len(Rules(rules)) /\ line = CatchAll
      \/ line \in OwnLines
      \/ \E r \in Elements(rules) : MadeOf(line, r)
  BY RulesAre
<1>. HIDE DEF line
<1>2. CASE p = Len(Rules(rules)) /\ line = CatchAll
  <2>1. CatchAll[1] = "MATCH" /\ CatchAll[2] = "foreign" /\ Len(CatchAll) = 2
    BY DEF CatchAll
  <2>. QED  BY <1>2, <2>1, OwnLinesAre DEF Formed, Policy, IsCatchAll, OwnGroupNames,
                                           line
<1>3. CASE line \in OwnLines
  <2>1. /\ line[1] \in {"IP-CIDR", "IP-CIDR6", "GEOSITE", "GEOIP"}
        /\ line[3] \in {"DIRECT", "blocked", "domestic"} /\ Len(line) >= 3
    BY <1>3 DEF OwnLines
  <2>2. line \in Lines
    BY <1>3, OwnLinesAre
  <2>. QED  BY <2>1, <2>2 DEF Formed, Policy, IsCatchAll, OwnGroupNames, Builtin, line
<1>4. CASE \E r \in Elements(rules) : MadeOf(line, r)
  <2>1. PICK r \in Elements(rules) : MadeOf(line, r)
    BY <1>4
  <2>2. r \in Items
    BY DEF Elements
  <2>3. r.name \in Texts /\ Sanitized(r.name) \in Texts
        /\ (r.name \notin DOMAIN Dashed => Sanitized(r.name) = r.name)
    BY <2>2, SanitizedIs DEF Items
  <2>4. r.name \in NamesOf(rules)
    BY DEF NamesOf
  <2>5. CASE r.payload # <<>>
    <3>1. PICK raw \in Elements(r.payload) : PayloadLine(line, raw, Sanitized(r.name))
      BY <2>1, <2>5 DEF MadeOf
    <3>2. /\ Formed(line)
          /\ Policy(line) \in {Sanitized(r.name)} \cup Builtin
          /\ line[1] = "MATCH" => raw = <<"MATCH">>
      BY <2>3, <3>1, PayloadLineFormed
    <3>3. NoMatch(rules) => line[1] # "MATCH"
      BY <3>2 DEF NoMatch
    <3>. QED  BY <2>3, <2>4, <3>2, <3>3 DEF line
  <2>6. CASE r.payload = <<>>
    <3>1. PICK k \in DOMAIN r.urls : line = SetLine(r, k)
      BY <2>1, <2>6 DEF MadeOf
    <3>2. Formed(line) /\ Policy(line) = r.name
      BY <2>2, <3>1, SetLineFormed
    <3>3. line[1] = "RULE-SET"
      BY <3>1 DEF SetLine
    <3>. QED  BY <2>4, <3>2, <3>3 DEF line
  <2>. QED  BY <2>5, <2>6
<1>. QED  BY <1>1, <1>2, <1>3, <1>4

(* What a client other than Clash is given for a rule.                     *)
Carried(conv, line) ==
    CASE conv = "surge" -> SurgeRule(line)
      [] conv = "singbox" -> SingboxRule(line)
      [] OTHER -> PlainRule(line)

LastLine(conv) ==
    IF conv = "singbox" THEN <<"FINAL", "foreign">> ELSE <<"FINAL", "DIRECT">>

OtherClients == {"surge", "loon", "quantumult", "singbox"}

LEMMA RulesOfDocument ==
    ASSUME NEW rules, NEW cl, NEW nds,
           NEW doc, doc = Document(cl, nds, BuildConfig(rules))
    PROVE  LET rs == Rules(rules)
               conv == GetConverter(cl)
           IN  /\ conv \in OtherClients =>
                    doc.rules = Append(Joined([i \in DOMAIN rs |-> Carried(conv, rs[i])]),
                                       LastLine(conv))
               /\ conv \notin OtherClients =>
                    doc.rules = rs /\ doc.providers = Providers(rules)
<1>. DEFINE cfg == BuildConfig(rules)  rs == Rules(rules)  conv == GetConverter(cl)
<1>1. cfg.rules = rs /\ cfg.providers = Providers(rules)
  BY DEF BuildConfig
<1>. HIDE DEF cfg, rs
<1>2. doc = Document(cl, nds, cfg)
  BY DEF cfg
<1>3. CASE conv = "surge"
  <2>1. doc = SurgeDocument(nds, cfg)
    BY <1>2, <1>3 DEF Document
  <2>2. doc.rules = Append(Joined([i \in DOMAIN rs |-> SurgeRule(rs[i])]),
                           <<"FINAL", "DIRECT">>)
    BY <1>1, <2>1 DEF SurgeDocument, Each
  <2>3. \A line : Carried(conv, line) = SurgeRule(line)
    BY <1>3 DEF Carried
  <2>. HIDE DEF conv
  <2>. QED  BY <1>3, <2>2, <2>3 DEF LastLine, OtherClients, rs, conv
<1>4. CASE conv = "singbox"
  <2>1. doc = SingboxDocument(nds, cfg)
    BY <1>2, <1>4 DEF Document
  <2>2. doc.rules = Append(Joined([i \in DOMAIN rs |-> SingboxRule(rs[i])]),
                           <<"FINAL", "foreign">>)
    BY <1>1, <2>1 DEF SingboxDocument, Each
  <2>3. \A line : Carried(conv, line) = SingboxRule(line)
    BY <1>4 DEF Carried
  <2>. HIDE DEF conv
  <2>. QED  BY <1>4, <2>2, <2>3 DEF LastLine, OtherClients, rs, conv
<1>5. CASE conv = "loon"
  <2>1. doc = LoonDocument(nds, cfg)
    BY <1>2, <1>5 DEF Document
  <2>2. doc.rules = Append(Joined([i \in DOMAIN rs |-> PlainRule(rs[i])]),
                           <<"FINAL", "DIRECT">>)
    BY <1>1, <2>1 DEF LoonDocument, Each
  <2>3. \A line : Carried(conv, line) = PlainRule(line)
    BY <1>5 DEF Carried
  <2>. HIDE DEF conv
  <2>. QED  BY <1>5, <2>2, <2>3 DEF LastLine, OtherClients, rs, conv
<1>6. CASE conv = "quantumult"
  <2>1. doc = QuantumultDocument(nds, cfg)
    BY <1>2, <1>6 DEF Document
  <2>2. doc.rules = Append(Joined([i \in DOMAIN rs |-> PlainRule(rs[i])]),
                           <<"FINAL", "DIRECT">>)
    BY <1>1, <2>1 DEF QuantumultDocument, Each
  <2>3. \A line : Carried(conv, line) = PlainRule(line)
    BY <1>6 DEF Carried
  <2>. HIDE DEF conv
  <2>. QED  BY <1>6, <2>2, <2>3 DEF LastLine, OtherClients, rs, conv
<1>7. CASE conv \notin OtherClients
  <2>1. doc = ClashDocument(nds, cfg)
    BY <1>2, <1>7 DEF Document, OtherClients
  <2>2. doc.rules = cfg.rules /\ doc.providers = cfg.providers
    BY <2>1 DEF ClashDocument
  <2>. QED  BY <1>1, <1>7, <2>2 DEF rs
<1>. QED  BY <1>3, <1>4, <1>5, <1>6, <1>7 DEF OtherClients

(* A rule stays the same rule, but for the policies Odd is about, or is    *)
(* dropped.                                                                *)
SameRule(conv, line, l) ==
    \/ line[1] = "MATCH" /\ conv # "singbox" /\ l[1] = "FINAL" /\ l[2] = line[2]
    \/ /\ line[1] # "MATCH" /\ l[1] = line[1] /\ l[2] = line[2]
       /\ \/ l[3] = line[3]
          \/ conv \in {"surge", "singbox"} /\ line[1] \in {"GEOIP", "GEOSITE"}

Dropped(conv, line) ==
    IF conv = "singbox" THEN line[1] \notin SingboxKinds
    ELSE line[1] \in {"RULE-SET", "GEOSITE", "GEOIP"}

LEMMA CarriedIs ==
    ASSUME NEW conv \in OtherClients, NEW line, Formed(line)
    PROVE  /\ Carried(conv, line) \in Seq(Lines)
           /\ \/ Carried(conv, line) = <<>> /\ Dropped(conv, line)
              \/ \E l \in Lines : /\ Carried(conv, line) = <<l>>
                                  /\ SameRule(conv, line, l)
<1>1. line \in Lines /\ Len(line) \in Nat /\ Len(line) >= 2
  BY DEF Formed, Lines
<1>2. line[1] \in Words /\ line[2] \in Words
  BY <1>1 DEF Lines
<1>3. ASSUME NEW l \in Lines, Carried(conv, line) = <<l>>, SameRule(conv, line, l)
      PROVE  /\ Carried(conv, line) \in Seq(Lines)
             /\ \E x \in Lines : Carried(conv, line) = <<x>> /\ SameRule(conv, line, x)
  BY <1>3
<1>4. ASSUME Carried(conv, line) = <<>>
      PROVE  Carried(conv, line) \in Seq(Lines)
  BY <1>4
<1>5. ASSUME line[1] = "MATCH", Len(line) = 2
      PROVE  \E l \in Lines : Final(line) = <<l>> /\ l[1] = "FINAL" /\ l[2] = line[2]
  <2>. DEFINE f == <<"FINAL">>  t == Tail1(line)  l == f \o t
  <2>1. t \in Seq(Words) /\ Len(t) = 1 /\ t[1] = line[2]
    <3>1. line \in Seq(Words) /\ Len(line) = 2
      BY <1>1, <1>5 DEF Lines
    <3>2. /\ SubSeq(line, 2, 2) \in Seq(Words) /\ Len(SubSeq(line, 2, 2)) = 1
          /\ SubSeq(line, 2, 2)[1] = line[2]
      BY <3>1
    <3>. QED  BY <3>1, <3>2 DEF Tail1
  <2>2. f \in Seq(Words) /\ Len(f) = 1 /\ f[1] = "FINAL"
    BY OwnTexts DEF Words, OwnWords
  <2>3. Final(line) = <<l>>
    BY DEF Final
  <2>. HIDE DEF f, t
  <2>4. l \in Seq(Words) /\ l[1] = f[1] /\ l[2] = t[1]
    <3>1. l = f \o t
      OBVIOUS
    <3>. HIDE DEF l
    <3>2. /\ l \in Seq(Words)
          /\ \A k \in 1..Len(f) : l[k] = f[k]
          /\ \A k \in 1..Len(t) : l[Len(f) + k] = t[k]
      <4>1. f \in Seq(Words) /\ t \in Seq(Words)
        BY <2>1, <2>2
      <4>. QED  BY <3>1, <4>1, ConcatIs
    <3>3. l[1] = f[1]
      BY <2>2, <3>2
    <3>4. l[1 + 1] = t[1]
      BY <2>1, <2>2, <3>2
    <3>. QED  BY <3>2, <3>3, <3>4
  <2>. HIDE DEF l
  <2>. QED  BY <2>1, <2>2, <2>3, <2>4 DEF Lines
<1>6. ASSUME NEW l, l[1] = "FINAL", l[2] = line[2], line[1] = "MATCH", conv # "singbox"
      PROVE  SameRule(conv, line, l)
  BY <1>6 DEF SameRule
<1>7. CASE conv = "surge"
  <2>0. Carried(conv, line) = SurgeRule(line)
    BY <1>7 DEF Carried
  <2>1. CASE line[1] \in {"RULE-SET", "GEOSITE"}
    <3>1. Carried(conv, line) = <<>> /\ Dropped(conv, line)
      BY <1>7, <2>0, <2>1 DEF SurgeRule, Dropped
    <3>. QED  BY <1>4, <3>1
  <2>2. CASE line[1] = "GEOIP"
    <3>. DEFINE l == SubSeq(line, 1, 2)
    <3>1. l \in Lines /\ l[1] = line[1] /\ l[2] = line[2]
      BY <1>1 DEF Lines
    <3>2. Carried(conv, line) = <<l>>
      BY <2>0, <2>2 DEF SurgeRule
    <3>. HIDE DEF l
    <3>3. SameRule(conv, line, l)
      BY <1>7, <2>2, <3>1 DEF SameRule
    <3>. QED  BY <1>3, <3>1, <3>2, <3>3
  <2>3. CASE line[1] = "MATCH"
    <3>1. Carried(conv, line) = Final(line)
      BY <2>0, <2>3 DEF SurgeRule
    <3>2. PICK l \in Lines : Final(line) = <<l>> /\ l[1] = "FINAL" /\ l[2] = line[2]
      BY <1>5, <2>3 DEF Formed
    <3>. QED  BY <1>3, <1>6, <1>7, <2>3, <3>1, <3>2
  <2>4. CASE line[1] \notin {"RULE-SET", "GEOSITE", "GEOIP", "MATCH"}
    <3>1. Carried(conv, line) = <<line>>
      BY <2>0, <2>4 DEF SurgeRule
    <3>2. SameRule(conv, line, line)
      BY <2>4 DEF SameRule
    <3>. QED  BY <1>1, <1>3, <3>1, <3>2
  <2>. QED  BY <2>1, <2>2, <2>3, <2>4
<1>8. CASE conv = "singbox"
  <2>0. Carried(conv, line) = SingboxRule(line)
    BY <1>8 DEF Carried
  <2>1. CASE line[1] \in SingboxKinds
    <3>. DEFINE l == <<line[1], line[2], line[3]>>
    <3>1. Len(line) >= 3 /\ line[1] # "MATCH"
      BY <2>1 DEF Formed, SingboxKinds
    <3>2. l \in Lines
      <4>1. line[3] \in Words
        BY <1>1, <3>1 DEF Lines
      <4>. QED  BY <1>2, <4>1 DEF Lines
    <3>3. Carried(conv, line) = <<l>>
      <4>1. line[1] \notin {"GEOIP", "GEOSITE"}
        BY <2>1 DEF SingboxKinds
      <4>2. SingboxRule(line) = << <<line[1], line[2], line[3]>> >>
        BY <2>1, <3>1, <4>1, Zenon DEF SingboxRule
      <4>. QED  BY <2>0, <4>2
    <3>4. l[1] = line[1] /\ l[2] = line[2] /\ l[3] = line[3]
      OBVIOUS
    <3>. HIDE DEF l
    <3>5. SameRule(conv, line, l)
      BY <3>1, <3>4 DEF SameRule
    <3>. QED  BY <1>3, <3>2, <3>3, <3>5
  <2>2. CASE line[1] \in {"GEOIP", "GEOSITE"}
    <3>. DEFINE l == <<line[1], line[2], line[2]>>
    <3>1. l \in Lines
      BY <1>2 DEF Lines
    <3>2. Carried(conv, line) = <<l>>
      BY <2>0, <2>2 DEF SingboxRule, SingboxKinds
    <3>3. l[1] = line[1] /\ l[2] = line[2]
      OBVIOUS
    <3>. HIDE DEF l
    <3>4. SameRule(conv, line, l)
      BY <1>8, <2>2, <3>3 DEF SameRule
    <3>. QED  BY <1>3, <3>1, <3>2, <3>4
  <2>3. CASE line[1] \notin SingboxKinds \cup {"GEOIP", "GEOSITE"}
    <3>1. Carried(conv, line) = <<>> /\ Dropped(conv, line)
      BY <1>8, <2>0, <2>3 DEF SingboxRule, Dropped
    <3>. QED  BY <1>4, <3>1
  <2>. QED  BY <2>1, <2>2, <2>3
<1>9. CASE conv \in {"loon", "quantumult"}
  <2>0. Carried(conv, line) = PlainRule(line)
    BY <1>9 DEF Carried
  <2>1. CASE line[1] \in {"RULE-SET", "GEOSITE", "GEOIP"}
    <3>1. Carried(conv, line) = <<>> /\ Dropped(conv, line)
      BY <1>9, <2>0, <2>1 DEF PlainRule, Dropped
    <3>. QED  BY <1>4, <3>1
  <2>2. CASE line[1] = "MATCH"
    <3>1. Carried(conv, line) = Final(line)
      BY <2>0, <2>2 DEF PlainRule
    <3>2. PICK l \in Lines : Final(line) = <<l>> /\ l[1] = "FINAL" /\ l[2] = line[2]
      BY <1>5, <2>2 DEF Formed
    <3>. QED  BY <1>3, <1>6, <1>9, <2>2, <3>1, <3>2
  <2>3. CASE line[1] \notin {"RULE-SET", "GEOSITE", "GEOIP", "MATCH"}
    <3>1. Carried(conv, line) = <<line>>
      BY <2>0, <2>3 DEF PlainRule
    <3>2. SameRule(conv, line, line)
      BY <2>3 DEF SameRule
    <3>. QED  BY <1>1, <1>3, <3>1, <3>2
  <2>. QED  BY <2>1, <2>2, <2>3
<1>. QED  BY <1>7, <1>8, <1>9 DEF OtherClients

(* The rules a document of another client begins with, one list for each   *)
(* rule of the configuration.                                              *)
CarriedLists(conv, rs) == [i \in DOMAIN rs |-> Carried(conv, rs[i])]

LEMMA CarriedListsAre ==
    ASSUME NEW conv \in OtherClients, NEW rs \in Seq(Lines),
           \A i \in DOMAIN rs : Formed(rs[i])
    PROVE  /\ CarriedLists(conv, rs) \in Seq(Seq(Lines))
           /\ DOMAIN CarriedLists(conv, rs) = DOMAIN rs
           /\ \A i \in DOMAIN rs : CarriedLists(conv, rs)[i] = Carried(conv, rs[i])
<1>. DEFINE n == Len(rs)  ss == CarriedLists(conv, rs)
<1>1. n \in Nat /\ DOMAIN rs = 1..n
  OBVIOUS
<1>2. DOMAIN ss = 1..n /\ ss = [i \in 1..n |-> ss[i]]
  BY <1>1 DEF CarriedLists
<1>3. \A i \in DOMAIN rs : ss[i] = Carried(conv, rs[i])
  BY DEF CarriedLists
<1>4. \A i \in 1..n : ss[i] \in Seq(Lines)
  BY <1>1, <1>3, CarriedIs
<1>. HIDE DEF ss, n
<1>. QED  BY <1>1, <1>2, <1>3, <1>4 DEF ss

(* Where the rules of a document lead.                                     *)
LEMMA TargetsAre ==
    ASSUME NEW rules \in Seq(Items), AllRules(rules),
           \A r \in Elements(rules) : r.name \notin DOMAIN Dashed,
           NEW cl, NEW nds, NEW doc, doc = Document(cl, nds, BuildConfig(rules)),
           NEW line \in Elements(doc.rules)
    PROVE  \/ /\ GetConverter(cl) \in {"surge", "singbox"}
              /\ line[1] \in {"GEOIP", "GEOSITE"}
           \/ Policy(line) \in {g.name : g \in Elements(doc.groups)} \cup Builtin
<1>. DEFINE conv == GetConverter(cl)
            rs == Rules(rules)
            N == OwnGroupNames \cup NamesOf(rules)
            D == {g.name : g \in Elements(doc.groups)}
<1>1. N \subseteq D
  <2>1. D = IF conv = "surge" THEN {EscapeName(n) : n \in N} ELSE N
    BY NamesInDocument
  <2>2. \A n \in N : EscapeName(n) = n
    <3>1. \A n \in OwnGroupNames : EscapeName(n) = n
      BY OwnNamesStay DEF OwnGroupNames, OwnNames
    <3>2. \A n \in NamesOf(rules) : EscapeName(n) = n
      <4>. TAKE n \in NamesOf(rules)
      <4>1. PICK r \in Elements(rules) : n = r.name
        BY DEF NamesOf
      <4>0. r \in Items
        BY DEF Elements
      <4>2. r.name \in Texts
        BY <4>0 DEF Items
      <4>. QED  BY <4>1, <4>2, SanitizedIs
    <3>. QED  BY <3>1, <3>2
  <2>. HIDE DEF D, N
  <2>. QED  BY <2>1, <2>2
<1>2. rs \in Seq(Lines)
  BY RulesAre
<1>3. \A p \in DOMAIN rs : Formed(rs[p]) /\ Policy(rs[p]) \in N \cup Builtin
  BY LinesAre
<1>4. /\ conv \in OtherClients =>
            doc.rules = Append(Joined(CarriedLists(conv, rs)), LastLine(conv))
      /\ conv \notin OtherClients => doc.rules = rs
  BY RulesOfDocument DEF CarriedLists
<1>. HIDE DEF rs, conv, N, D
<1>5. CASE conv \notin OtherClients
  <2>1. PICK p \in DOMAIN rs : line = rs[p]
    BY <1>4, <1>5 DEF Elements
  <2>. QED  BY <1>1, <1>3, <2>1 DEF D
<1>6. CASE conv \in OtherClients
  <2>. DEFINE ss == CarriedLists(conv, rs)
  <2>1. /\ ss \in Seq(Seq(Lines)) /\ DOMAIN ss = DOMAIN rs
        /\ \A i \in DOMAIN rs : ss[i] = Carried(conv, rs[i])
    BY <1>2, <1>3, <1>6, CarriedListsAre
  <2>2. doc.rules = Append(Joined(ss), LastLine(conv))
    BY <1>4, <1>6
  <2>. HIDE DEF ss
  <2>3. /\ Joined(ss) \in Seq(Lines)
        /\ \A e : e \in Elements(Joined(ss)) <=> \E i \in DOMAIN ss : e \in Elements(ss[i])
    BY <2>1, ElementsOfJoined
  <2>4. /\ LastLine(conv) \in Lines
        /\ Policy(LastLine(conv)) \in N \cup Builtin
    <3>1. <<"FINAL", "foreign">> \in Seq(Texts) /\ <<"FINAL", "DIRECT">> \in Seq(Texts)
      BY OwnTexts DEF OwnWords, OwnNames
    <3>2. /\ Policy(<<"FINAL", "foreign">>) = "foreign"
          /\ Policy(<<"FINAL", "DIRECT">>) = "DIRECT"
      BY DEF Policy, IsCatchAll
    <3>3. "foreign" \in N /\ "DIRECT" \in Builtin
      BY DEF N, OwnGroupNames, Builtin
    <3>. QED  BY <3>1, <3>2, <3>3, Widened DEF LastLine
  <2>. DEFINE j == Joined(ss)  last == LastLine(conv)
  <2>5. Elements(doc.rules) = Elements(j) \cup {last}
    <3>1. j \in Seq(Lines) /\ last \in Lines /\ doc.rules = Append(j, last)
      BY <2>2, <2>3, <2>4
    <3>. HIDE DEF j, last
    <3>2. Elements(Append(j, last)) = Elements(j) \cup {last}
      BY <3>1, ElementsOfAppend
    <3>. QED  BY <3>1, <3>2
  <2>6. CASE line = last
    BY <1>1, <2>4, <2>6 DEF D
  <2>7. CASE line \in Elements(j)
    <3>1. PICK i \in DOMAIN rs : line \in Elements(Carried(conv, rs[i]))
      BY <2>1, <2>3, <2>7
    <3>2. Carried(conv, rs[i]) # <<>>
      BY <3>1 DEF Elements
    <3>3. PICK l \in Lines : Carried(conv, rs[i]) = <<l>> /\ SameRule(conv, rs[i], l)
      BY <1>3, <1>6, <3>2, CarriedIs
    <3>4. line = l
      BY <3>1, <3>3 DEF Elements
    <3>5. Formed(rs[i]) /\ Policy(rs[i]) \in N \cup Builtin
      BY <1>3
    <3>6. \/ conv \in {"surge", "singbox"} /\ line[1] \in {"GEOIP", "GEOSITE"}
          \/ Policy(line) = Policy(rs[i])
      BY <3>3, <3>4, <3>5 DEF SameRule, Policy, IsCatchAll, Formed
    <3>. QED  BY <1>1, <3>5, <3>6 DEF conv, D
  <2>. QED  BY <2>5, <2>6, <2>7
<1>. QED  BY <1>5, <1>6

-----------------------------------------------------------------------------
(* The rule a connection takes.                                            *)

First(rs, conn, providers, i) ==
    /\ i \in DOMAIN rs /\ Matches(rs[i], conn, providers)
    /\ \A j \in 1..(i - 1) : ~Matches(rs[j], conn, providers)

LEMMA TakenIs ==
    ASSUME NEW rs \in Seq(Lines), NEW conn, NEW providers, NEW i,
           First(rs, conn, providers, i)
    PROVE  Taken(rs, conn, providers) = rs[i]
<1>. DEFINE M(k) == Matches(rs[k], conn, providers)
            P(k) == M(k) /\ \A j \in 1..(k - 1) : ~M(j)
<1>1. DOMAIN rs = 1..Len(rs) /\ Len(rs) \in Nat
  OBVIOUS
<1>2. i \in DOMAIN rs /\ P(i)
  BY DEF First
<1>3. Taken(rs, conn, providers) = rs[CHOOSE k \in DOMAIN rs : P(k)]
  BY DEF Taken
<1>. HIDE DEF M
<1>4. ASSUME NEW k \in DOMAIN rs, P(k) PROVE k = i
  <2>1. k \in Nat /\ i \in Nat /\ k >= 1 /\ i >= 1
    BY <1>1, <1>2
  <2>2. CASE k < i
    <3>1. k \in 1..(i - 1)
      BY <2>1, <2>2
    <3>. QED  BY <1>2, <1>4, <3>1
  <2>3. CASE i < k
    <3>1. i \in 1..(k - 1)
      BY <2>1, <2>3
    <3>. QED  BY <1>2, <1>4, <3>1
  <2>. QED  BY <2>1, <2>2, <2>3
<1>. HIDE DEF P
<1>5. (CHOOSE k \in DOMAIN rs : P(k)) = i
  BY <1>2, <1>4
<1>. QED  BY <1>3, <1>5

(* A list with a rule that matches has a first one.                        *)
LEMMA FirstIs ==
    ASSUME NEW rs \in Seq(Lines), NEW conn, NEW providers,
           NEW q \in DOMAIN rs, Matches(rs[q], conn, providers)
    PROVE  \E i \in DOMAIN rs : i <= q /\ First(rs, conn, providers, i)
<1>. DEFINE I == {k \in DOMAIN rs : Matches(rs[k], conn, providers)}
            n == Len(rs)
<1>1. n \in Nat /\ DOMAIN rs = 1..n
  OBVIOUS
<1>2. I \in SUBSET (1..n) /\ q \in I
  BY <1>1
<1>. HIDE DEF I, n
<1>3. PICK i \in I : \A j \in I : i <= j
  BY <1>1, <1>2, LeastIndex
<1>4. i \in DOMAIN rs /\ Matches(rs[i], conn, providers) /\ i <= q
  BY <1>2, <1>3 DEF I
<1>5. ASSUME NEW j \in 1..(i - 1) PROVE ~Matches(rs[j], conn, providers)
  <2>1. j \in DOMAIN rs /\ ~(i <= j)
    BY <1>1, <1>4
  <2>. QED  BY <1>3, <2>1 DEF I
<1>. QED  BY <1>4, <1>5 DEF First

(* The provider of every URL, when no two items for rule sets have one     *)
(* name.                                                                   *)
LEMMA ProviderIs ==
    ASSUME NEW rules \in Seq(Items),
           \A r \in Elements(rules) : r.name \notin DOMAIN Dashed,
           \A i, j \in DOMAIN rules :
               /\ rules[i].payload = <<>> /\ rules[j].payload = <<>>
               /\ rules[i].name = rules[j].name
               => i = j,
           NEW i \in DOMAIN rules, rules[i].payload = <<>>,
           NEW k \in DOMAIN rules[i].urls
    PROVE  Providers(rules)[ProviderName(rules[i], k)] = rules[i].urls[k]
<1>. DEFINE Named(j) == IF rules[j].payload # <<>> THEN {}
                        ELSE {ProviderName(rules[j], m) : m \in DOMAIN rules[j].urls}
            LastOf(p) == CHOOSE j \in DOMAIN rules :
                            /\ p \in Named(j)
                            /\ \A h \in DOMAIN rules : p \in Named(h) => h <= j
            name == ProviderName(rules[i], k)
<1>1. \A j \in DOMAIN rules : /\ rules[j] \in Items
                              /\ Sanitized(rules[j].name) = rules[j].name
  <2>. TAKE j \in DOMAIN rules
  <2>1. rules[j] \in Items /\ rules[j] \in Elements(rules)
    BY DEF Elements
  <2>. QED  BY <2>1, SanitizedIs DEF Items
<1>2. name = <<rules[i].name, k - 1>>
  BY <1>1 DEF ProviderName
<1>3. name \in Named(i)
  OBVIOUS
<1>4. ASSUME NEW j \in DOMAIN rules, name \in Named(j)
      PROVE  j = i
  <2>1. rules[j].payload = <<>>
    BY <1>4
  <2>2. PICK m \in DOMAIN rules[j].urls : name = ProviderName(rules[j], m)
    BY <1>4, <2>1
  <2>3. name = <<rules[j].name, m - 1>>
    BY <1>1, <2>2 DEF ProviderName
  <2>4. rules[j].name = rules[i].name
    BY <1>2, <2>3
  <2>. QED  BY <2>1, <2>4
<1>5. Providers(rules) = [p \in UNION {Named(j) : j \in DOMAIN rules} |->
                             rules[LastOf(p)].urls[p[2] + 1]]
  BY DEF Providers
<1>6. i \in Nat
  OBVIOUS
<1>. HIDE DEF Named, name
<1>7. LastOf(name) = i
  BY <1>3, <1>4, <1>6
<1>. HIDE DEF LastOf
<1>8. Providers(rules)[name] = rules[i].urls[name[2] + 1]
  BY <1>3, <1>5, <1>7
<1>9. name[2] + 1 = k
  <2>1. rules[i].urls \in Seq(Texts)
    BY <1>1 DEF Items
  <2>2. k \in Nat
    BY <2>1
  <2>. QED  BY <1>2, <2>2
<1>. QED  BY <1>8, <1>9 DEF name

(* With Clash, a rule set goes to the first item with its URL.             *)
LEMMA SetsGoTo ==
    ASSUME NEW rules \in Seq(Items), AllRules(rules), NoMatch(rules),
           \A r \in Elements(rules) : r.name \notin DOMAIN Dashed,
           \A i, j \in DOMAIN rules :
               /\ rules[i].payload = <<>> /\ rules[j].payload = <<>>
               /\ rules[i].name = rules[j].name
               => i = j,
           NEW u,
           NEW i \in DOMAIN rules, rules[i].payload = <<>>,
           u \in Elements(rules[i].urls),
           \A j \in DOMAIN rules :
               rules[j].payload = <<>> /\ u \in Elements(rules[j].urls) => i <= j
    PROVE  Policy(Taken(Rules(rules), {<<"RULE-SET", u>>}, Providers(rules)))
           = rules[i].name
<1>. DEFINE rs == Rules(rules)  conn == {<<"RULE-SET", u>>}  pr == Providers(rules)
<1>1. rs \in Seq(Lines) /\ Len(rs) \in DOMAIN rs /\ rs[Len(rs)] = CatchAll
  BY RulesAre
<1>2. PICK at : SetsAt(rules, rs, at)
  BY RulesAre
<1>3. \A p \in DOMAIN rs : /\ Formed(rs[p])
                           /\ p # Len(rs) => rs[p][1] # "MATCH"
  BY LinesAre
<1>4. ASSUME NEW j \in DOMAIN rules, rules[j].payload = <<>>,
             NEW m \in DOMAIN rules[j].urls
      PROVE  /\ at[j] + m \in DOMAIN rs /\ rs[at[j] + m] = SetLine(rules[j], m)
             /\ pr[ProviderName(rules[j], m)] = rules[j].urls[m]
             /\ m \in 1..Len(rules[j].urls) /\ m \in Nat /\ Len(rules[j].urls) \in Nat
             /\ at[j] \in Nat
  <2>1. at[j] + m \in DOMAIN rs /\ rs[at[j] + m] = SetLine(rules[j], m) /\ at[j] \in Nat
    BY <1>2, <1>4 DEF SetsAt
  <2>2. pr[ProviderName(rules[j], m)] = rules[j].urls[m]
    BY <1>4, ProviderIs
  <2>3. rules[j] \in Items
    OBVIOUS
  <2>4. rules[j].urls \in Seq(Texts)
    BY <2>3 DEF Items
  <2>5. m \in 1..Len(rules[j].urls) /\ m \in Nat /\ Len(rules[j].urls) \in Nat
    BY <2>4
  <2>. QED  BY <2>1, <2>2, <2>5
<1>. HIDE DEF rs, pr
<1>5. PICK k \in DOMAIN rules[i].urls : rules[i].urls[k] = u
  BY DEF Elements
<1>. DEFINE q == at[i] + k
<1>6. q \in DOMAIN rs /\ rs[q] = SetLine(rules[i], k)
  BY <1>4
<1>7. rs[q][1] = "RULE-SET" /\ rs[q][2] = ProviderName(rules[i], k)
  BY <1>6 DEF SetLine
<1>8. Matches(rs[q], conn, pr)
  BY <1>4, <1>5, <1>7 DEF Matches
<1>9. q # Len(rs)
  BY <1>1, <1>7 DEF CatchAll
<1>. HIDE DEF q
<1>10. PICK p \in DOMAIN rs : p <= q /\ First(rs, conn, pr, p)
  BY <1>1, <1>6, <1>8, FirstIs
<1>11. Taken(rs, conn, pr) = rs[p] /\ Matches(rs[p], conn, pr)
  <2>1. Taken(rs, conn, pr) = rs[p]
    BY <1>1, <1>10, TakenIs
  <2>2. Matches(rs[p], conn, pr)
    BY <1>10 DEF First
  <2>. QED  BY <2>1, <2>2
<1>12. p # Len(rs)
  BY <1>1, <1>6, <1>9, <1>10
<1>13. ~IsCatchAll(rs[p])
  BY <1>3, <1>12 DEF IsCatchAll, Formed
<1>14. rs[p][1] = "RULE-SET" /\ pr[rs[p][2]] = u
  BY <1>11, <1>13 DEF Matches
<1>15. PICK j \in DOMAIN rules : /\ rules[j].payload = <<>>
                                 /\ \E m \in DOMAIN rules[j].urls : p = at[j] + m
  BY <1>2, <1>14 DEF SetsAt
<1>16. PICK m \in DOMAIN rules[j].urls : p = at[j] + m
  BY <1>15
<1>17. rs[p] = SetLine(rules[j], m) /\ pr[ProviderName(rules[j], m)] = rules[j].urls[m]
  BY <1>4, <1>15, <1>16
<1>18. rules[j].urls[m] = u /\ rs[p][3] = rules[j].name
  BY <1>14, <1>17 DEF SetLine
<1>19. i <= j
  BY <1>15, <1>18 DEF Elements
<1>20. ~(i < j)
  <2>. SUFFICES ASSUME i < j PROVE FALSE
    OBVIOUS
  <2>1. at[i] + Len(rules[i].urls) <= at[j]
    BY <1>2 DEF SetsAt
  <2>. DEFINE x == at[i]  y == at[j]  z == Len(rules[i].urls)
  <2>2. x \in Nat /\ z \in Nat /\ k \in Nat /\ k <= z /\ q = x + k
    BY <1>4 DEF q
  <2>3. y \in Nat /\ m \in Nat /\ m >= 1 /\ p = y + m
    BY <1>4, <1>15, <1>16
  <2>4. x + z <= y /\ p <= q
    BY <1>10, <2>1
  <2>. HIDE DEF x, y, z
  <2>. QED  BY <2>2, <2>3, <2>4
<1>21. i = j
  BY <1>19, <1>20
<1>22. Policy(rs[p]) = rules[i].name
  BY <1>13, <1>18, <1>21 DEF Policy
<1>. QED  BY <1>11, <1>22 DEF rs, pr

(* What the payloads of a profile can match.                               *)
KeysOf(rules) ==
    {<<p[1], p[2]>> : p \in {q \in UNION {Elements(r.payload) : r \in Elements(rules)} :
                                Len(q) >= 2}}

LEMMA KeysAre ==
    ASSUME NEW rules \in Seq(Items), AllRules(rules), NEW key \in KeysOf(rules)
    PROVE  key[1] \notin {"MATCH", "FINAL", "RULE-SET"}
<1>1. PICK p \in {q \in UNION {Elements(r.payload) : r \in Elements(rules)} :
                    Len(q) >= 2} : key = <<p[1], p[2]>>
  BY DEF KeysOf
<1>2. PICK r \in Elements(rules) : p \in Elements(r.payload)
  OBVIOUS
<1>3. IsRule(p) /\ Len(p) >= 2
  BY <1>2 DEF AllRules
<1>4. p # <<>>
  <2>. SUFFICES ASSUME p = <<>> PROVE FALSE
    OBVIOUS
  <2>1. Len(p) = 0
    OBVIOUS
  <2>. QED  BY <1>3, <2>1
<1>5. p # <<"MATCH">>
  <2>. SUFFICES ASSUME p = <<"MATCH">> PROVE FALSE
    OBVIOUS
  <2>1. Len(p) = 1
    OBVIOUS
  <2>. QED  BY <1>3, <2>1
<1>6. p[1] \notin {"MATCH", "FINAL", "RULE-SET"}
  BY <1>3, <1>4, <1>5 DEF IsRule
<1>. QED  BY <1>1, <1>6

(* A rule and what a client makes of it match the same, and a rule that is *)
(* not lost is there for the connections it matches.                       *)
LEMMA CarriedMatches ==
    ASSUME NEW conv \in OtherClients, NEW line, Formed(line), line[1] # "MATCH",
           NEW conn, \A key \in conn : key[1] # "RULE-SET", NEW providers,
           NEW l, SameRule(conv, line, l)
    PROVE  /\ ~IsCatchAll(l)
           /\ Matches(l, conn, providers) <=> Matches(line, conn, providers)
<1>1. l[1] = line[1] /\ l[2] = line[2] /\ ~IsCatchAll(line) /\ ~IsCatchAll(l)
  BY DEF SameRule, IsCatchAll, Formed
<1>2. \A x : <<"RULE-SET", x>> \notin conn
  <2>. SUFFICES ASSUME NEW x, <<"RULE-SET", x>> \in conn PROVE FALSE
    OBVIOUS
  <2>1. <<"RULE-SET", x>>[1] = "RULE-SET"
    OBVIOUS
  <2>. QED  BY <2>1
<1>. QED  BY <1>1, <1>2 DEF Matches

LostBy(conv, line) ==
    /\ ~IsCatchAll(line)
    /\ \/ conv = "singbox" /\ line[1] \notin SingboxKinds
       \/ conv \in {"surge", "loon", "quantumult"} /\ line[1] \in {"GEOIP", "GEOSITE"}

(* A connection that only payloads match is decided on alike.              *)
LEMMA DecidedAlike ==
    ASSUME NEW rules \in Seq(Items), AllRules(rules), NoMatch(rules),
           NEW cl, NEW nds, NEW doc, doc = Document(cl, nds, BuildConfig(rules)),
           NEW conn \in SUBSET KeysOf(rules), NEW providers
    PROVE  LET line == Taken(Rules(rules), conn, providers)
           IN  \/ LostBy(GetConverter(cl), line)
               \/ Policy(Taken(doc.rules, conn, providers)) = Policy(line)
<1>. DEFINE conv == GetConverter(cl)
            rs == Rules(rules)
            M(l) == Matches(l, conn, providers)
<1>1. rs \in Seq(Lines) /\ Len(rs) \in DOMAIN rs /\ rs[Len(rs)] = CatchAll
  BY RulesAre
<1>2. \A p \in DOMAIN rs : /\ Formed(rs[p])
                           /\ p # Len(rs) => rs[p][1] # "MATCH"
  BY LinesAre
<1>3. /\ conv \in OtherClients =>
            doc.rules = Append(Joined(CarriedLists(conv, rs)), LastLine(conv))
      /\ conv \notin OtherClients => doc.rules = rs
  BY RulesOfDocument DEF CarriedLists
<1>4. \A key \in conn : key[1] # "RULE-SET"
  BY KeysAre
<1>. HIDE DEF rs, conv
<1>5. CASE conv \notin OtherClients
  BY <1>3, <1>5 DEF rs
<1>6. CASE conv \in OtherClients
  <2>. DEFINE ss == CarriedLists(conv, rs)
              j == Joined(ss)
              last == LastLine(conv)
              d == Append(j, last)
  <2>1. /\ ss \in Seq(Seq(Lines)) /\ DOMAIN ss = DOMAIN rs
        /\ \A i \in DOMAIN rs : ss[i] = Carried(conv, rs[i])
    BY <1>1, <1>2, <1>6, CarriedListsAre
  <2>2. doc.rules = d
    BY <1>3, <1>6
  <2>. HIDE DEF ss
  <2>3. j \in Seq(Lines)
    BY <2>1, JoinedIs
  <2>4. PICK start : JoinedAt(ss, j, start)
    BY <2>1, JoinedIs
  <2>5. last \in Lines /\ IsCatchAll(last)
    <3>1. <<"FINAL", "foreign">> \in Seq(Texts) /\ <<"FINAL", "DIRECT">> \in Seq(Texts)
      BY OwnTexts DEF OwnWords, OwnNames
    <3>. QED  BY <3>1, Widened DEF LastLine, IsCatchAll
  <2>. HIDE DEF j, last
  <2>6. /\ d \in Seq(Lines) /\ Len(d) = Len(j) + 1 /\ DOMAIN d = 1..(Len(j) + 1)
        /\ \A k \in DOMAIN j : d[k] = j[k]
        /\ d[Len(j) + 1] = last
        /\ Len(j) \in Nat /\ DOMAIN j = 1..Len(j)
    BY <2>3, <2>5
  <2>. HIDE DEF d
  <2>7. PICK p \in DOMAIN rs : First(rs, conn, providers, p)
    <3>1. Matches(rs[Len(rs)], conn, providers)
      BY <1>1 DEF CatchAll, Matches, IsCatchAll
    <3>. QED  BY <1>1, <3>1, FirstIs
  <2>8. Taken(rs, conn, providers) = rs[p] /\ M(rs[p]) /\ \A k \in 1..(p - 1) : ~M(rs[k])
    <3>1. Taken(rs, conn, providers) = rs[p]
      BY <1>1, <2>7, TakenIs
    <3>. QED  BY <2>7, <3>1 DEF First
  <2>9. p \in Nat /\ p <= Len(rs) /\ Len(rs) \in Nat /\ DOMAIN rs = 1..Len(rs)
    BY <1>1
  (* A rule of the document comes from one of the configuration. *)
  <2>10. ASSUME NEW k \in DOMAIN j
         PROVE  \E i \in DOMAIN rs :
                   /\ k = start[i] + 1 /\ start[i] \in Nat
                   /\ ss[i] = <<j[k]>> /\ SameRule(conv, rs[i], j[k])
    <3>1. PICK i \in DOMAIN ss : \E m \in DOMAIN ss[i] : k = start[i] + m
      BY <2>4 DEF JoinedAt
    <3>2. PICK m \in DOMAIN ss[i] : k = start[i] + m
      BY <3>1
    <3>3. i \in DOMAIN rs /\ ss[i] = Carried(conv, rs[i]) /\ Formed(rs[i])
      BY <1>2, <2>1
    <3>4. ss[i] # <<>>
      BY <3>2
    <3>5. PICK l \in Lines : ss[i] = <<l>> /\ SameRule(conv, rs[i], l)
      BY <1>6, <3>3, <3>4, CarriedIs
    <3>6. m = 1 /\ ss[i][1] = l
      BY <3>2, <3>5
    <3>7. j[k] = l /\ start[i] \in Nat
      BY <2>4, <3>2, <3>6 DEF JoinedAt
    <3>. QED  BY <3>2, <3>3, <3>5, <3>6, <3>7
  (* What comes from a rule before p does not match. *)
  <2>11. ASSUME NEW i \in DOMAIN rs, i < p, NEW l, SameRule(conv, rs[i], l)
         PROVE  ~M(l)
    <3>1. i \in 1..(p - 1) /\ i # Len(rs)
      BY <2>9, <2>11
    <3>2. ~M(rs[i]) /\ Formed(rs[i]) /\ rs[i][1] # "MATCH"
      BY <1>2, <2>8, <3>1
    <3>. HIDE DEF M
    <3>3. M(l) <=> M(rs[i])
      BY <1>4, <1>6, <2>11, <3>2, CarriedMatches DEF M
    <3>. QED  BY <3>2, <3>3
  <2>12. CASE ss[p] # <<>>
    <3>1. ss[p] = Carried(conv, rs[p]) /\ Formed(rs[p])
      BY <1>2, <2>1
    <3>2. PICK l \in Lines : ss[p] = <<l>> /\ SameRule(conv, rs[p], l)
      BY <1>6, <2>12, <3>1, CarriedIs
    <3>. DEFINE x == start[p]
    <3>3. x \in Nat /\ x + 1 \in DOMAIN j /\ j[x + 1] = l
      <4>1. 1 \in DOMAIN ss[p] /\ ss[p][1] = l /\ p \in DOMAIN ss
        BY <2>1, <3>2
      <4>. QED  BY <2>4, <4>1 DEF JoinedAt
    <3>4. x + 1 \in DOMAIN d /\ d[x + 1] = l
      BY <2>6, <3>3
    <3>. HIDE DEF x
    <3>5. M(l)
      <4>1. CASE rs[p][1] = "MATCH"
        BY <3>2, <4>1 DEF SameRule, Matches, IsCatchAll
      <4>2. CASE rs[p][1] # "MATCH"
        <5>. HIDE DEF M
        <5>1. M(l) <=> M(rs[p])
          BY <1>4, <1>6, <3>1, <3>2, <4>2, CarriedMatches DEF M
        <5>. QED  BY <2>8, <5>1
      <4>. QED  BY <4>1, <4>2
    <3>6. ASSUME NEW k \in 1..((x + 1) - 1) PROVE ~M(d[k])
      <4>1. k \in DOMAIN j /\ d[k] = j[k] /\ k <= x /\ k \in Nat
        BY <2>6, <3>3
      <4>2. PICK i \in DOMAIN rs : /\ k = start[i] + 1 /\ start[i] \in Nat
                                   /\ ss[i] = <<j[k]>> /\ SameRule(conv, rs[i], j[k])
        BY <2>10, <4>1
      <4>3. ~(p < i)
        <5>. SUFFICES ASSUME p < i PROVE FALSE
          OBVIOUS
        <5>1. start[p] + Len(ss[p]) <= start[i]
          BY <2>1, <2>4 DEF JoinedAt
        <5>2. Len(ss[p]) = 1
          BY <3>2
        <5>. QED  BY <3>3, <4>1, <4>2, <5>1, <5>2 DEF x
      <4>4. i # p
        BY <3>3, <4>1, <4>2 DEF x
      <4>5. i < p
        BY <2>9, <4>3, <4>4
      <4>. HIDE DEF M
      <4>. QED  BY <2>11, <4>1, <4>2, <4>5
    <3>7. First(d, conn, providers, x + 1)
      BY <3>4, <3>5, <3>6 DEF First
    <3>8. Taken(d, conn, providers) = l
      <4>1. Taken(d, conn, providers) = d[x + 1]
        BY <2>6, <3>7, TakenIs
      <4>. QED  BY <3>4, <4>1
    <3>9. Policy(l) = Policy(rs[p]) \/ LostBy(conv, rs[p])
      BY <1>6, <3>1, <3>2 DEF SameRule, Policy, IsCatchAll, LostBy, Formed, SingboxKinds
    <3>. QED  BY <2>2, <2>8, <3>8, <3>9 DEF rs, conv
  <2>13. CASE ss[p] = <<>>
    <3>1. Carried(conv, rs[p]) = <<>> /\ Formed(rs[p])
      BY <1>2, <2>1, <2>13
    <3>2. Dropped(conv, rs[p])
      <4>1. \A l : <<l>> # <<>>
        OBVIOUS
      <4>. QED  BY <1>6, <3>1, <4>1, CarriedIs
    <3>3. CASE rs[p][1] # "MATCH"
      <4>1. ~IsCatchAll(rs[p])
        BY <3>1, <3>3 DEF Formed, IsCatchAll
      <4>2. rs[p][1] # "RULE-SET"
        <5>. SUFFICES ASSUME rs[p][1] = "RULE-SET" PROVE FALSE
          OBVIOUS
        <5>1. <<"RULE-SET", providers[rs[p][2]]>> \in conn
          BY <2>8, <4>1 DEF Matches
        <5>2. <<"RULE-SET", providers[rs[p][2]]>>[1] = "RULE-SET"
          OBVIOUS
        <5>. QED  BY <1>4, <5>1, <5>2
      <4>3. LostBy(conv, rs[p])
        BY <1>6, <3>2, <4>1, <4>2 DEF Dropped, LostBy, OtherClients
      <4>. QED  BY <2>8, <4>3 DEF rs, conv
    <3>4. CASE rs[p][1] = "MATCH"
      <4>1. p = Len(rs) /\ rs[p] = CatchAll
        BY <1>1, <1>2, <3>4
      <4>2. conv = "singbox"
        BY <3>2, <3>4 DEF Dropped
      <4>3. ASSUME NEW k \in DOMAIN j PROVE ~M(j[k])
        <5>1. PICK i \in DOMAIN rs : /\ ss[i] = <<j[k]>> /\ SameRule(conv, rs[i], j[k])
          BY <2>10
        <5>2. i # p
          <6>1. \A l : <<l>> # <<>>
            OBVIOUS
          <6>. QED  BY <2>13, <5>1, <6>1
        <5>3. i < p
          BY <2>9, <4>1, <5>2
        <5>. HIDE DEF M
        <5>. QED  BY <2>11, <5>1, <5>3
      <4>. DEFINE n == Len(j) + 1
      <4>4. n \in DOMAIN d /\ d[n] = last /\ M(d[n])
        BY <2>5, <2>6 DEF Matches
      <4>5. \A k \in 1..(n - 1) : ~M(d[k])
        <5>. TAKE k \in 1..(n - 1)
        <5>1. k \in DOMAIN j
          BY <2>6
        <5>. QED  BY <2>6, <4>3, <5>1
      <4>. HIDE DEF n
      <4>6. First(d, conn, providers, n)
        BY <4>4, <4>5 DEF First
      <4>7. Taken(d, conn, providers) = last
        <5>1. Taken(d, conn, providers) = d[n]
          BY <2>6, <4>6, TakenIs
        <5>. QED  BY <4>4, <5>1
      <4>8. Policy(last) = Policy(CatchAll)
        BY <4>2 DEF last, LastLine, CatchAll, Policy, IsCatchAll
      <4>. QED  BY <2>2, <2>8, <4>1, <4>7, <4>8 DEF rs, conv
    <3>. QED  BY <3>3, <3>4
  <2>. QED  BY <2>12, <2>13
<1>. QED  BY <1>5, <1>6

-----------------------------------------------------------------------------
(* Links.                                                                  *)

Keys(m) == DOMAIN m
NoText == ""

(* The fields of a map that is put together.                               *)
LEMMA FieldsOfBoth ==
    ASSUME NEW f, NEW g, NEW k
    PROVE  /\ k \in Keys(f @@ g) <=> k \in Keys(f) \/ k \in Keys(g)
           /\ k \notin Keys(f) => Field(f, k) = NoText
           /\ k \in Keys(f) => Field(f @@ g, k) = Field(f, k)
           /\ k \notin Keys(f) => Field(f @@ g, k) = Field(g, k)
<1>1. DOMAIN (f @@ g) = DOMAIN f \cup DOMAIN g
  BY DEF @@
<1>2. ASSUME k \in DOMAIN f PROVE Field(f @@ g, k) = Field(f, k)
  <2>1. (f @@ g)[k] = f[k]
    BY <1>2 DEF @@
  <2>. QED  BY <1>1, <1>2, <2>1 DEF Field
<1>3. ASSUME k \in DOMAIN g, k \notin DOMAIN f PROVE Field(f @@ g, k) = Field(g, k)
  <2>1. (f @@ g)[k] = g[k]
    BY <1>3 DEF @@
  <2>. QED  BY <1>1, <1>3, <2>1 DEF Field
<1>4. k \notin DOMAIN f => Field(f, k) = NoText
  BY DEF Field, NoText
<1>5. k \notin DOMAIN f \cup DOMAIN g =>
          Field(f @@ g, k) = NoText /\ Field(g, k) = NoText
  BY <1>1 DEF Field, NoText
<1>. QED  BY <1>1, <1>2, <1>3, <1>4, <1>5 DEF Keys

LEMMA FieldsOfOne ==
    ASSUME NEW j, NEW v, NEW k
    PROVE  /\ k \in Keys(j :> v) <=> k = j
           /\ Field(j :> v, j) = v
           /\ k \in Keys(Put(j, v)) <=> k = j /\ v # NoText
           /\ Field(Put(j, v), j) = v
<1>1. (k \in Keys(j :> v) <=> k = j) /\ Field(j :> v, j) = v
  BY DEF Field, :>, Keys
<1>2. k \notin Keys(Nothing) /\ Field(Nothing, j) = NoText
  BY DEF Nothing, Field, Keys, NoText
<1>3. CASE v = NoText
  <2>1. Put(j, v) = Nothing
    BY <1>3 DEF Put, NoText
  <2>. QED  BY <1>1, <1>2, <1>3, <2>1
<1>4. CASE v # NoText
  <2>1. Put(j, v) = j :> v
    BY <1>4 DEF Put, NoText
  <2>. QED  BY <1>1, <1>4, <2>1
<1>. QED  BY <1>1, <1>3, <1>4

LEMMA FieldsOfMaps ==
    /\ \A f, g, k : k \in Keys(f @@ g) <=> k \in Keys(f) \/ k \in Keys(g)
    /\ \A f, k : k \notin Keys(f) => Field(f, k) = NoText
    /\ \A f, g, k : k \in Keys(f) => Field(f @@ g, k) = Field(f, k)
    /\ \A f, g, k : k \notin Keys(f) => Field(f @@ g, k) = Field(g, k)
    /\ \A j, v, k : k \in Keys(j :> v) <=> k = j
    /\ \A j, v : Field(j :> v, j) = v
    /\ \A j, v, k : k \in Keys(Put(j, v)) <=> k = j /\ v # NoText
    /\ \A j, v : Field(Put(j, v), j) = v
<1>1. ASSUME NEW f, NEW g, NEW k
      PROVE  /\ k \in Keys(f @@ g) <=> k \in Keys(f) \/ k \in Keys(g)
             /\ k \notin Keys(f) => Field(f, k) = NoText
             /\ k \in Keys(f) => Field(f @@ g, k) = Field(f, k)
             /\ k \notin Keys(f) => Field(f @@ g, k) = Field(g, k)
  BY FieldsOfBoth
<1>2. ASSUME NEW j, NEW v, NEW k
      PROVE  /\ k \in Keys(j :> v) <=> k = j
             /\ Field(j :> v, j) = v
             /\ k \in Keys(Put(j, v)) <=> k = j /\ v # NoText
             /\ Field(Put(j, v), j) = v
  BY FieldsOfOne
<1>3. /\ \A f, g, k : k \in Keys(f @@ g) <=> k \in Keys(f) \/ k \in Keys(g)
      /\ \A f, g, k : k \in Keys(f) => Field(f @@ g, k) = Field(f, k)
      /\ \A f, g, k : k \notin Keys(f) => Field(f @@ g, k) = Field(g, k)
  BY <1>1
<1>4. \A f, k : k \notin Keys(f) => Field(f, k) = NoText
  BY <1>1
<1>5. /\ \A j, v, k : k \in Keys(j :> v) <=> k = j
      /\ \A j, v : Field(j :> v, j) = v
  BY <1>2
<1>6. /\ \A j, v, k : k \in Keys(Put(j, v)) <=> k = j /\ v # NoText
      /\ \A j, v : Field(Put(j, v), j) = v
  BY <1>2
<1>. QED  BY <1>3, <1>4, <1>5, <1>6

(* The fields every link gives.                                            *)
LEMMA ParsedFields ==
    ASSUME NEW u, NEW p, NEW m, m = Parsed(u, p)
    PROVE  /\ Field(m, "type") = u.scheme
           /\ Field(m, "server") = u.host
           /\ Field(m, "port") = u.port
           /\ \A k : k \notin {"type", "server", "port", "name"} =>
                 Field(m, k) = Field(p, k)
<1>1. ASSUME NEW k, k \notin {"type", "server", "port", "name"}
      PROVE  Field(m, k) = Field(p, k)
  BY <1>1, FieldsOfMaps DEF Parsed
<1>2. /\ Field(m, "type") = u.scheme
      /\ Field(m, "server") = u.host
      /\ Field(m, "port") = u.port
  BY FieldsOfMaps DEF Parsed
<1>. QED  BY <1>1, <1>2

(* The parts of a link, and the parameters that are put on a condition.    *)
LEMMA LinkFields ==
    ASSUME NEW n, NEW user, NEW query, NEW name, NEW u,
           u = Link(n, user, query, name)
    PROVE  /\ u.scheme = Field(n, "type")
           /\ u.host = Field(n, "server")
           /\ Field(n, "port") # NoText => u.port = Field(n, "port")
           /\ u.user = user /\ u.query = query
  BY DEF Link, Either, NoText

LEMMA IfFields ==
    ASSUME NEW c, NEW m
    PROVE  /\ \A k : k \in Keys(PutIf(c, m)) => k \in Keys(m)
           /\ c => PutIf(c, m) = m
           /\ ~c => \A k : k \notin Keys(PutIf(c, m))
<1>1. CASE c
  BY <1>1 DEF PutIf
<1>2. CASE ~c
  BY <1>2 DEF PutIf, Nothing, Keys
<1>. QED  BY <1>1, <1>2

(* The parameters of each sort.                                            *)
LEMMA WsFields ==
    ASSUME NEW n
    PROVE  /\ \A k : k \in Keys(WsQuery(n)) => k \in {"path", "host"}
           /\ Field(WsQuery(n), "path") = Field(n, "ws-path")
           /\ HasHeaders(n) /\ "Host" \in Keys(n) =>
                 Field(WsQuery(n), "host") = Field(n, "Host")
<1>. DEFINE p == Put("path", Field(n, "ws-path"))
            h == Put("host", Printed(n, "Host"))
            c == PutIf(HasHeaders(n), h)
<1>1. WsQuery(n) = p @@ c
  BY DEF WsQuery
<1>2. /\ \A k : k \in Keys(c) => k \in Keys(h)
      /\ HasHeaders(n) => c = h
  <2>. HIDE DEF h
  <2>. QED  BY IfFields
<1>3. /\ \A k : k \in Keys(p) => k = "path"
      /\ \A k : k \in Keys(h) => k = "host"
      /\ Field(p, "path") = Field(n, "ws-path")
      /\ Field(h, "host") = Printed(n, "Host")
  BY FieldsOfMaps
<1>4. "Host" \in Keys(n) => Printed(n, "Host") = Field(n, "Host")
  BY DEF Printed, Field, Keys
<1>. HIDE DEF p, h, c
<1>5. \A k : k \in Keys(WsQuery(n)) => k \in {"path", "host"}
  BY <1>1, <1>2, <1>3, FieldsOfMaps
<1>6. Field(WsQuery(n), "path") = Field(p, "path")
  BY <1>1, <1>2, <1>3, FieldsOfMaps
<1>7. Field(WsQuery(n), "host") = Field(c, "host")
  BY <1>1, <1>3, FieldsOfMaps
<1>. QED  BY <1>2, <1>3, <1>4, <1>5, <1>6, <1>7

LEMMA ParsedWsFields ==
    ASSUME NEW u
    PROVE  /\ \A k : k \in Keys(ParsedWs(u)) => k \in {"ws-path", "ws-headers", "Host"}
           /\ Field(ParsedWs(u), "ws-path") = Field(u.query, "path")
           /\ Field(ParsedWs(u), "Host") = Field(u.query, "host")
  BY FieldsOfMaps DEF ParsedWs

(* What the link of each scheme keeps.                                     *)
LEMMA SsrKept ==
    ASSUME NEW n, Field(n, "type") = "ssr", NEW m, m = ParseURI(ToURI(n)),
           NEW k \in Kept(n)
    PROVE  Field(m, k) = Field(n, k)
<1>. DEFINE u == ToSSR(n)
<1>1. ToURI(n) = u /\ u.scheme = "ssr"
  BY DEF ToURI, ToSSR, Link
<1>2. /\ u.scheme = Field(n, "type")
      /\ u.host = Field(n, "server")
      /\ Field(n, "port") # NoText => u.port = Field(n, "port")
      /\ u.user = <<Field(n, "protocol"), Field(n, "cipher"), Field(n, "obfs"),
                    Field(n, "password")>>
  BY LinkFields DEF ToSSR
<1>3. m = Parsed(u, ParseSsr(u))
  BY <1>1 DEF ParseURI
<1>4. /\ k \in {"type", "server", "port", "cipher", "password", "protocol", "obfs"}
      /\ k = "port" => Field(n, "port") # NoText
  BY DEF Kept, NoText
<1>. HIDE DEF u
<1>5. /\ Field(ParseSsr(u), "protocol") = u.user[1]
      /\ Field(ParseSsr(u), "cipher") = u.user[2]
      /\ Field(ParseSsr(u), "obfs") = u.user[3]
      /\ Field(ParseSsr(u), "password") = u.user[4]
  BY FieldsOfMaps DEF ParseSsr
<1>6. /\ u.user[1] = Field(n, "protocol") /\ u.user[2] = Field(n, "cipher")
      /\ u.user[3] = Field(n, "obfs") /\ u.user[4] = Field(n, "password")
  BY <1>2
<1>. QED  BY <1>2, <1>3, <1>4, <1>5, <1>6, ParsedFields

LEMMA SsKept ==
    ASSUME NEW n, Field(n, "type") = "ss", NEW m, m = ParseURI(ToURI(n)),
           NEW k \in Kept(n)
    PROVE  Field(m, k) = Field(n, k)
<1>. DEFINE u == ToSS(n)
<1>1. ToURI(n) = u /\ u.scheme = "ss"
  BY DEF ToURI, ToSS, Link
<1>2. /\ u.scheme = Field(n, "type")
      /\ u.host = Field(n, "server")
      /\ Field(n, "port") # NoText => u.port = Field(n, "port")
      /\ u.user = <<Field(n, "cipher"), Field(n, "password")>>
  BY LinkFields DEF ToSS
<1>3. m = Parsed(u, ParseSs(u))
  BY <1>1 DEF ParseURI
<1>4. /\ k \in {"type", "server", "port", "cipher", "password"}
      /\ k = "port" => Field(n, "port") # NoText
  BY DEF Kept, NoText
<1>. HIDE DEF u
<1>5. /\ Field(ParseSs(u), "cipher") = u.user[1]
      /\ Field(ParseSs(u), "password") = u.user[2]
  BY FieldsOfMaps DEF ParseSs
<1>6. u.user[1] = Field(n, "cipher") /\ u.user[2] = Field(n, "password")
  BY <1>2
<1>. QED  BY <1>2, <1>3, <1>4, <1>5, <1>6, ParsedFields

LEMMA TrojanKept ==
    ASSUME NEW n, Field(n, "type") = "trojan", NEW m, m = ParseURI(ToURI(n)),
           NEW k \in Kept(n)
    PROVE  Field(m, k) = Field(n, k)
<1>. DEFINE u == ToTrojan(n)
            q == u.query
            a == PutIf(Is(n, "skip-cert-verify"), "allowInsecure" :> "1")
            w == "type" :> "ws" @@ WsQuery(n)
            b == PutIf(Field(n, "network") = "ws", w)
<1>1. ToURI(n) = u /\ u.scheme = "trojan"
  BY DEF ToURI, ToTrojan, Link
<1>2. /\ u.scheme = Field(n, "type")
      /\ u.host = Field(n, "server")
      /\ Field(n, "port") # NoText => u.port = Field(n, "port")
      /\ q = Put("sni", Field(n, "sni")) @@ a @@ b
  BY LinkFields DEF ToTrojan
<1>3. m = Parsed(u, ParseTrojan(u))
  BY <1>1 DEF ParseURI
<1>4. /\ k \in {"type", "server", "port", "sni"}
      /\ k = "port" => Field(n, "port") # NoText
  BY DEF Kept, NoText
<1>5. "sni" \notin Keys(w) /\ "sni" \notin Keys("allowInsecure" :> "1")
  BY FieldsOfMaps, WsFields
<1>6. "sni" \notin Keys(a) /\ "sni" \notin Keys(b)
  <2>. HIDE DEF w
  <2>. QED  BY <1>5, IfFields
<1>. HIDE DEF a, b, q, u
<1>7. Field(q, "sni") = Field(n, "sni")
  BY <1>2, <1>6, FieldsOfMaps
<1>8. Field(ParseTrojan(u), "sni") = Field(q, "sni")
  BY FieldsOfMaps DEF ParseTrojan, q
<1>. QED  BY <1>2, <1>3, <1>4, <1>7, <1>8, ParsedFields

LEMMA VmessKept ==
    ASSUME NEW n, Field(n, "type") = "vmess", NEW m, m = ParseURI(ToURI(n))
    PROVE  /\ \A k \in Kept(n) : Field(m, k) = Field(n, k)
           /\ Is(m, "tls") = Is(n, "tls")
<1>. DEFINE u == ToVmess(n)
            q == u.query
            w == WsQuery(n)
            t == IF Is(n, "tls") THEN "tls" ELSE "false"
            s == PutIf(q["tls"] = "tls", "tls" :> "true")
            h == ParsedWs(u)
            p == ParseVmess(u)
<1>1. ToURI(n) = u /\ u.scheme = "vmess"
  BY DEF ToURI, ToVmess, Link
<1>2. /\ u.scheme = Field(n, "type")
      /\ u.host = Field(n, "server")
      /\ Field(n, "port") # NoText => u.port = Field(n, "port")
      /\ u.user = <<Field(n, "uuid")>>
      /\ q = "aid" :> Either(Field(n, "alterId"), "0")
             @@ "scy" :> Either(Field(n, "cipher"), "auto")
             @@ "net" :> Either(Field(n, "network"), "ws")
             @@ "tls" :> t @@ w @@ Put("sni", Field(n, "sni"))
             @@ Put("fp", Field(n, "client-fingerprint"))
  BY LinkFields DEF ToVmess
<1>3. m = Parsed(u, p)
  BY <1>1 DEF ParseURI
<1>4. \A k \in Kept(n) :
         \/ k \in {"type", "server", "uuid", "ws-path"}
         \/ k = "port" /\ Field(n, "port") # NoText
         \/ k = "Host" /\ HasHeaders(n) /\ "Host" \in Keys(n)
  BY DEF Kept, NoText, Keys
<1>5. \A k : k \in Keys(s) => k \in {"tls"}
  BY IfFields, FieldsOfMaps
<1>6. p = "uuid" :> u.user[1] @@ "cipher" :> "auto" @@ "alterId" :> q["aid"]
          @@ s @@ "skip-cert-verify" :> "true" @@ "network" :> q["net"] @@ h
  BY DEF ParseVmess
<1>7. Is(n, "tls") <=> t = "tls"
  OBVIOUS
<1>8. /\ \A k : k \in Keys(w) => k \in {"path", "host"}
      /\ Field(w, "path") = Field(n, "ws-path")
      /\ HasHeaders(n) /\ "Host" \in Keys(n) => Field(w, "host") = Field(n, "Host")
      /\ \A k : k \in Keys(h) => k \in {"ws-path", "ws-headers", "Host"}
      /\ Field(h, "ws-path") = Field(q, "path") /\ Field(h, "Host") = Field(q, "host")
  <2>. HIDE DEF u
  <2>. QED  BY WsFields, ParsedWsFields
<1>. HIDE DEF u, w, t, p, h
<1>9. /\ Field(q, "path") = Field(w, "path") /\ Field(q, "host") = Field(w, "host")
      /\ Field(q, "tls") = t /\ "tls" \in Keys(q)
  <2>. HIDE DEF q
  <2>. QED  BY <1>2, <1>8, FieldsOfMaps
<1>10. Is(n, "tls") <=> q["tls"] = "tls"
  <2>. HIDE DEF q
  <2>1. q["tls"] = t
    BY <1>9 DEF Field, Keys
  <2>. QED  BY <1>7, <2>1
<1>11. u.user[1] = Field(n, "uuid")
  BY <1>2
<1>12. Is(n, "tls") => Field(p, "tls") = "true"
  <2>1. SUFFICES ASSUME Is(n, "tls") PROVE Field(p, "tls") = "true"
    OBVIOUS
  <2>2. s = "tls" :> "true"
    BY <1>10, <2>1, IfFields
  <2>. HIDE DEF s, q
  <2>. QED  BY <1>6, <2>2, FieldsOfMaps
<1>13. ~Is(n, "tls") => Field(p, "tls") = NoText
  <2>1. SUFFICES ASSUME ~Is(n, "tls") PROVE Field(p, "tls") = NoText
    OBVIOUS
  <2>2. "tls" \notin Keys(s)
    BY <1>10, <2>1, IfFields
  <2>. HIDE DEF s, q
  <2>. QED  BY <1>6, <1>8, <2>2, FieldsOfMaps
<1>14. /\ Field(p, "uuid") = u.user[1] /\ Field(p, "ws-path") = Field(h, "ws-path")
       /\ Field(p, "Host") = Field(h, "Host")
  <2>. HIDE DEF s, q
  <2>. QED  BY <1>5, <1>6, FieldsOfMaps
<1>. HIDE DEF s, q
<1>15. \A k \in Kept(n) : Field(m, k) = Field(n, k)
  BY <1>2, <1>3, <1>4, <1>8, <1>9, <1>11, <1>14, ParsedFields
<1>16. Field(m, "tls") = Field(p, "tls")
  BY <1>3, ParsedFields
<1>17. Is(m, "tls") <=> Is(n, "tls")
  <2>1. CASE Is(n, "tls")
    BY <1>12, <1>16, <2>1 DEF Is
  <2>2. CASE ~Is(n, "tls")
    BY <1>13, <1>16, <2>2 DEF Is, NoText
  <2>. QED  BY <2>1, <2>2
<1>. QED  BY <1>15, <1>17 DEF Is

LEMMA HysteriaKept ==
    ASSUME NEW n, Field(n, "type") = "hysteria2", NEW m, m = ParseURI(ToURI(n)),
           NEW k \in Kept(n)
    PROVE  Field(m, k) = Field(n, k)
<1>. DEFINE u == ToHysteria2(n)
            q == u.query
            a == PutIf(Is(n, "skip-cert-verify"), "insecure" :> "1")
            w == "obfs" :> Field(n, "obfs")
                 @@ Put("obfs-password", Field(n, "obfs-password"))
            b == PutIf(Field(n, "obfs") # "", w)
            p == ParseHysteria2(u)
            c == PutIf(Field(q, "insecure") = "1", "skip-cert-verify" :> "true")
            x == "obfs" :> Field(q, "obfs")
                 @@ Put("obfs-password", Field(q, "obfs-password"))
            d == PutIf(Field(q, "obfs") # "", x)
<1>1. ToURI(n) = u /\ u.scheme = "hysteria2"
  BY DEF ToURI, ToHysteria2, Link
<1>2. /\ u.scheme = Field(n, "type")
      /\ u.host = Field(n, "server")
      /\ Field(n, "port") # NoText => u.port = Field(n, "port")
      /\ q = Put("sni", Field(n, "sni")) @@ a @@ b
  <2>1. u = Link(n, <<Field(n, "password")>>,
                 Put("sni", Field(n, "sni")) @@ a @@ b, EscapedName(n))
    BY DEF ToHysteria2
  <2>. HIDE DEF a, b, u
  <2>. QED  BY <2>1, LinkFields
<1>3. m = Parsed(u, p)
  BY <1>1 DEF ParseURI
<1>4. /\ k \in {"type", "server", "port", "sni", "obfs", "obfs-password"}
      /\ k = "obfs-password" => Field(n, "obfs") # NoText
      /\ k = "port" => Field(n, "port") # NoText
  BY DEF Kept, NoText
<1>5. /\ p = Put("password", Password(u)) @@ c @@ Put("sni", Field(q, "sni"))
             @@ Put("up", Field(q, "upmbps")) @@ Put("down", Field(q, "downmbps")) @@ d
      /\ \A j : j \in Keys(a) => j \in {"insecure"}
      /\ \A j : j \in Keys(c) => j \in {"skip-cert-verify"}
  BY IfFields, FieldsOfMaps DEF ParseHysteria2
<1>6. /\ Field(n, "obfs") # NoText => b = w
      /\ Field(n, "obfs") = NoText => \A j : j \notin Keys(b)
  BY IfFields DEF NoText
<1>7. /\ Field(q, "obfs") # NoText => d = x
      /\ Field(q, "obfs") = NoText => \A j : j \notin Keys(d)
  <2>. HIDE DEF q, x
  <2>. QED  BY IfFields DEF NoText
<1>. HIDE DEF a, b, c, d, p, q, u
<1>8. /\ Field(b, "obfs") = Field(n, "obfs")
      /\ Field(n, "obfs") # NoText =>
            Field(b, "obfs-password") = Field(n, "obfs-password")
      /\ \A j : j \in Keys(b) => j \in {"obfs", "obfs-password"}
  BY <1>6, FieldsOfMaps
<1>9. /\ Field(d, "obfs") = Field(q, "obfs")
      /\ Field(q, "obfs") # NoText =>
            Field(d, "obfs-password") = Field(q, "obfs-password")
      /\ \A j : j \in Keys(d) => j \in {"obfs", "obfs-password"}
  BY <1>7, FieldsOfMaps
<1>10. /\ Field(q, "sni") = Field(n, "sni") /\ Field(q, "obfs") = Field(b, "obfs")
       /\ Field(q, "obfs-password") = Field(b, "obfs-password")
  BY <1>2, <1>5, <1>8, FieldsOfMaps
<1>11. /\ Field(p, "sni") = Field(q, "sni") /\ Field(p, "obfs") = Field(d, "obfs")
       /\ Field(p, "obfs-password") = Field(d, "obfs-password")
  BY <1>5, <1>9, FieldsOfMaps
<1>. QED  BY <1>2, <1>3, <1>4, <1>8, <1>9, <1>10, <1>11, ParsedFields

(* The parameters of VLESS.  REALITY is put first, so that it stays.        *)
LEMMA TransportFields ==
    ASSUME NEW n, NEW t, t = TransportQuery(n)
    PROVE  /\ \A k : k \in Keys(t) => k \in {"type", "path", "host", "serviceName"}
           /\ Field(t, "type") = Field(n, "network")
           /\ Field(n, "network") = "ws" => Field(t, "path") = Field(n, "ws-path")
           /\ Field(n, "network") = "ws" /\ HasHeaders(n) /\ "Host" \in Keys(n) =>
                 Field(t, "host") = Field(n, "Host")
           /\ Field(n, "network") = "grpc" =>
                 Field(t, "serviceName") = Field(n, "grpc-service-name")
<1>. DEFINE w == WsQuery(n)
            s == Put("serviceName", Field(n, "grpc-service-name"))
            ifws == PutIf(Field(n, "network") = "ws", w)
            ifgrpc == PutIf(Field(n, "network") = "grpc", s)
<1>1. t = Put("type", Field(n, "network")) @@ ifws @@ ifgrpc
  BY DEF TransportQuery
<1>2. /\ \A k : k \in Keys(w) => k \in {"path", "host"}
      /\ Field(w, "path") = Field(n, "ws-path")
      /\ HasHeaders(n) /\ "Host" \in Keys(n) => Field(w, "host") = Field(n, "Host")
  BY WsFields
<1>3. /\ \A k : k \in Keys(s) => k \in {"serviceName"}
      /\ Field(s, "serviceName") = Field(n, "grpc-service-name")
  BY FieldsOfMaps
<1>4. /\ \A k : k \in Keys(ifws) => k \in Keys(w)
      /\ Field(n, "network") = "ws" => ifws = w
      /\ \A k : k \in Keys(ifgrpc) => k \in Keys(s)
      /\ Field(n, "network") = "grpc" => ifgrpc = s
  BY IfFields
<1>. HIDE DEF w, s, ifws, ifgrpc
<1>5. \A k : k \in Keys(t) => k \in {"type", "path", "host", "serviceName"}
  BY <1>1, <1>2, <1>3, <1>4, FieldsOfMaps
<1>6. Field(t, "type") = Field(n, "network")
  BY <1>1, <1>2, <1>3, <1>4, FieldsOfMaps
<1>7. /\ Field(t, "path") = Field(ifws, "path") /\ Field(t, "host") = Field(ifws, "host")
      /\ Field(t, "serviceName") = Field(ifgrpc, "serviceName")
  BY <1>1, <1>2, <1>3, <1>4, FieldsOfMaps
<1>. QED  BY <1>2, <1>3, <1>4, <1>5, <1>6, <1>7

LEMMA SecurityFields ==
    ASSUME NEW n, NEW s, s = SecurityQuery(n)
    PROVE  /\ \A k : k \in Keys(s) => k \in {"security", "pbk", "sid", "sni", "fp"}
           /\ HasReality(n) =>
                 /\ Field(s, "security") = "reality"
                 /\ Field(s, "pbk") = Printed(n, "public-key")
                 /\ Field(s, "sid") = Printed(n, "short-id")
                 /\ Field(n, "servername") # NoText =>
                       Field(s, "sni") = Field(n, "servername")
           /\ ~HasReality(n) /\ Is(n, "tls") =>
                 /\ Field(s, "security") = "tls"
                 /\ Field(s, "sni") = Field(n, "sni")
           /\ ~Secure(n) => \A k : k \notin Keys(s)
           /\ Secure(n) => Field(s, "fp") = Field(n, "client-fingerprint")
<1>. DEFINE x == "security" :> "reality" @@ Put("pbk", Printed(n, "public-key"))
                 @@ Put("sid", Printed(n, "short-id"))
                 @@ Put("sni", Field(n, "servername"))
                 @@ Put("fp", Field(n, "client-fingerprint"))
            y == "security" :> "tls" @@ Put("sni", Field(n, "sni"))
                 @@ Put("fp", Field(n, "client-fingerprint"))
            r == RealityQuery(n)
            t == TLSQuery(n)
<1>1. s = r @@ t
  BY DEF SecurityQuery
<1>2. /\ HasReality(n) => r = x
      /\ ~HasReality(n) => \A k : k \notin Keys(r)
  <2>1. r = PutIf(HasReality(n), x)
    BY DEF RealityQuery
  <2>. HIDE DEF x, r
  <2>. QED  BY <2>1, IfFields
<1>3. /\ Is(n, "tls") => t = y
      /\ ~Is(n, "tls") => \A k : k \notin Keys(t)
  <2>1. t = PutIf(Is(n, "tls"), y)
    BY DEF TLSQuery
  <2>. HIDE DEF y, t
  <2>. QED  BY <2>1, IfFields
<1>4. /\ \A k : k \in Keys(x) => k \in {"security", "pbk", "sid", "sni", "fp"}
      /\ Field(x, "security") = "reality" /\ "security" \in Keys(x)
      /\ Field(x, "pbk") = Printed(n, "public-key")
      /\ Field(x, "sid") = Printed(n, "short-id")
      /\ Field(x, "sni") = Field(n, "servername")
      /\ Field(n, "servername") # NoText => "sni" \in Keys(x)
      /\ Field(x, "fp") = Field(n, "client-fingerprint")
      /\ Field(n, "client-fingerprint") # NoText => "fp" \in Keys(x)
  BY FieldsOfMaps
<1>5. /\ \A k : k \in Keys(y) => k \in {"security", "sni", "fp"}
      /\ Field(y, "security") = "tls"
      /\ Field(y, "sni") = Field(n, "sni")
      /\ Field(y, "fp") = Field(n, "client-fingerprint")
  BY FieldsOfMaps
<1>. HIDE DEF x, y, r, t
<1>6. \A k : k \in Keys(s) => k \in {"security", "pbk", "sid", "sni", "fp"}
  BY <1>1, <1>2, <1>3, <1>4, <1>5, FieldsOfMaps
<1>7. ASSUME HasReality(n)
      PROVE  /\ Field(s, "security") = "reality"
             /\ Field(s, "pbk") = Printed(n, "public-key")
             /\ Field(s, "sid") = Printed(n, "short-id")
             /\ Field(n, "servername") # NoText =>
                   Field(s, "sni") = Field(n, "servername")
             /\ Field(s, "fp") = Field(n, "client-fingerprint")
  <2>1. r = x
    BY <1>2, <1>7
  <2>2. /\ Field(s, "security") = Field(x, "security")
        /\ Field(n, "servername") # NoText => Field(s, "sni") = Field(x, "sni")
        /\ Field(n, "client-fingerprint") # NoText => Field(s, "fp") = Field(x, "fp")
    BY <1>1, <1>4, <2>1, FieldsOfMaps
  <2>3. "pbk" \notin Keys(t) /\ "sid" \notin Keys(t)
    BY <1>3, <1>5
  <2>4. Field(s, "pbk") = Field(x, "pbk") /\ Field(s, "sid") = Field(x, "sid")
    BY <1>1, <2>1, <2>3, FieldsOfMaps
  <2>5. Field(t, "fp") = Field(n, "client-fingerprint") \/ "fp" \notin Keys(t)
    BY <1>3, <1>5
  <2>6. Field(n, "client-fingerprint") = NoText => Field(s, "fp") = NoText
    BY <1>1, <1>4, <2>1, <2>5, FieldsOfMaps
  <2>. QED  BY <1>4, <2>2, <2>4, <2>6
<1>8. ASSUME ~HasReality(n), Is(n, "tls")
      PROVE  /\ Field(s, "security") = "tls"
             /\ Field(s, "sni") = Field(n, "sni")
             /\ Field(s, "fp") = Field(n, "client-fingerprint")
  <2>1. t = y /\ \A k : k \notin Keys(r)
    BY <1>2, <1>3, <1>8
  <2>2. \A k : Field(s, k) = Field(y, k)
    BY <1>1, <2>1, FieldsOfMaps
  <2>. QED  BY <1>5, <2>2
<1>9. ASSUME ~Secure(n)
      PROVE  \A k : k \notin Keys(s)
  BY <1>1, <1>2, <1>3, <1>9, FieldsOfMaps DEF Secure
<1>. QED  BY <1>6, <1>7, <1>8, <1>9 DEF Secure

(* What the parser of VLESS makes of them.                                 *)
LEMMA ParsedVless ==
    ASSUME NEW u, NEW q, q = u.query, NEW p, p = ParseVless(u)
    PROVE  /\ Field(p, "uuid") = u.user[1]
           /\ Field(p, "network") = Field(q, "type")
           /\ Field(q, "type") = "ws" =>
                 Field(p, "ws-path") = Field(q, "path") /\ Field(p, "Host") = Field(q, "host")
           /\ Field(q, "type") = "grpc" =>
                 Field(p, "grpc-service-name") = Field(q, "serviceName")
           /\ Field(p, "sni") = Field(q, "sni")
           /\ Field(p, "client-fingerprint") = Field(q, "fp")
           /\ Field(p, "alpn") = Field(q, "alpn")
           /\ Field(p, "flow") = Field(q, "flow")
           /\ Field(q, "security") = "reality" =>
                 /\ Field(p, "public-key") = Field(q, "pbk")
                 /\ Field(p, "short-id") = Field(q, "sid")
                 /\ Field(p, "servername") = Field(q, "sni")
           /\ Field(q, "security") = "reality" <=> "reality-opts" \in Keys(p)
           /\ Field(q, "security") \in {"tls", "reality"} => Field(p, "tls") = "true"
           /\ Field(q, "security") \notin {"tls", "reality"} => Field(p, "tls") = NoText
<1>. DEFINE security == Field(q, "security")
            network == Field(q, "type")
            tls == "tls" :> "true"
            w == ParsedWs(u)
            g == Put("grpc-service-name", Field(q, "serviceName"))
            r == "reality-opts" :> "map" @@ "public-key" :> Field(q, "pbk")
                 @@ "short-id" :> Field(q, "sid") @@ Put("servername", Field(q, "sni"))
            a == PutIf(security \in {"tls", "reality"}, tls)
            b == PutIf(network = "ws", w)
            c == PutIf(network = "grpc", g)
            d == PutIf(security = "reality", r)
            start == "uuid" :> u.user[1] @@ "skip-cert-verify" :> "true"
<1>1. p = start @@ a @@ Put("network", network) @@ b @@ c
          @@ Put("sni", Field(q, "sni")) @@ Put("client-fingerprint", Field(q, "fp"))
          @@ Put("alpn", Field(q, "alpn")) @@ d @@ Put("flow", Field(q, "flow"))
  BY DEF ParseVless
<1>2. /\ \A k : k \in Keys(start) => k \in {"uuid", "skip-cert-verify"}
      /\ "uuid" \in Keys(start) /\ Field(start, "uuid") = u.user[1]
  BY FieldsOfMaps
<1>3. /\ \A k : k \in Keys(tls) <=> k = "tls"
      /\ Field(tls, "tls") = "true"
  BY FieldsOfMaps
<1>4. /\ \A k : k \in Keys(w) => k \in {"ws-path", "ws-headers", "Host"}
      /\ Field(w, "ws-path") = Field(q, "path") /\ Field(w, "Host") = Field(q, "host")
  BY ParsedWsFields
<1>5. /\ \A k : k \in Keys(g) => k = "grpc-service-name"
      /\ Field(g, "grpc-service-name") = Field(q, "serviceName")
  BY FieldsOfMaps
<1>6. /\ \A k : k \in Keys(r) =>
             k \in {"reality-opts", "public-key", "short-id", "servername"}
      /\ "reality-opts" \in Keys(r)
      /\ Field(r, "public-key") = Field(q, "pbk")
      /\ Field(r, "short-id") = Field(q, "sid")
      /\ Field(r, "servername") = Field(q, "sni")
  BY FieldsOfMaps
<1>. HIDE DEF tls, w, g, r, start
<1>7. /\ \A k : k \in Keys(a) => k \in Keys(tls)
      /\ security \in {"tls", "reality"} => a = tls
      /\ security \notin {"tls", "reality"} => \A k : k \notin Keys(a)
  BY IfFields
<1>8. /\ \A k : k \in Keys(b) => k \in Keys(w)
      /\ network = "ws" => b = w
      /\ \A k : k \in Keys(c) => k \in Keys(g)
      /\ network = "grpc" => c = g
  BY IfFields
<1>9. /\ \A k : k \in Keys(d) => k \in Keys(r)
      /\ security = "reality" => d = r
      /\ security # "reality" => \A k : k \notin Keys(d)
  BY IfFields
<1>. HIDE DEF a, b, c, d
<1>10. /\ \A k : k \in Keys(a) => k = "tls"
       /\ \A k : k \in Keys(b) => k \in {"ws-path", "ws-headers", "Host"}
       /\ \A k : k \in Keys(c) => k = "grpc-service-name"
       /\ \A k : k \in Keys(d) =>
              k \in {"reality-opts", "public-key", "short-id", "servername"}
  BY <1>3, <1>4, <1>5, <1>6, <1>7, <1>8, <1>9
<1>11. /\ Field(p, "uuid") = u.user[1]
       /\ Field(p, "network") = network
  BY <1>1, <1>2, <1>10, FieldsOfMaps
<1>12. /\ Field(p, "ws-path") = Field(b, "ws-path") /\ Field(p, "Host") = Field(b, "Host")
       /\ Field(p, "grpc-service-name") = Field(c, "grpc-service-name")
  BY <1>1, <1>2, <1>10, FieldsOfMaps
<1>13. /\ Field(p, "sni") = Field(q, "sni")
       /\ Field(p, "client-fingerprint") = Field(q, "fp")
       /\ Field(p, "alpn") = Field(q, "alpn")
       /\ Field(p, "flow") = Field(q, "flow")
  BY <1>1, <1>2, <1>10, FieldsOfMaps
<1>14. /\ Field(p, "public-key") = Field(d, "public-key")
       /\ Field(p, "short-id") = Field(d, "short-id")
       /\ Field(p, "servername") = Field(d, "servername")
       /\ Field(p, "tls") = Field(a, "tls")
       /\ "reality-opts" \in Keys(p) <=> "reality-opts" \in Keys(d)
  BY <1>1, <1>2, <1>10, FieldsOfMaps
<1>15. /\ security # "reality" => "reality-opts" \notin Keys(d)
       /\ security \notin {"tls", "reality"} => Field(a, "tls") = NoText
  BY <1>7, <1>9, FieldsOfMaps
<1>16. /\ security = "reality" =>
             /\ Field(p, "public-key") = Field(q, "pbk")
             /\ Field(p, "short-id") = Field(q, "sid")
             /\ Field(p, "servername") = Field(q, "sni")
       /\ security \in {"tls", "reality"} => Field(p, "tls") = "true"
  BY <1>3, <1>6, <1>7, <1>9, <1>14
<1>17. /\ network = "ws" =>
             Field(p, "ws-path") = Field(q, "path") /\ Field(p, "Host") = Field(q, "host")
       /\ network = "grpc" =>
             Field(p, "grpc-service-name") = Field(q, "serviceName")
  BY <1>4, <1>5, <1>8, <1>12
<1>. HIDE DEF security
<1>18. /\ security = "reality" <=> "reality-opts" \in Keys(p)
       /\ security \notin {"tls", "reality"} => Field(p, "tls") = NoText
  BY <1>6, <1>9, <1>14, <1>15
<1>. QED  BY <1>11, <1>13, <1>16, <1>17, <1>18 DEF security

LEMMA VlessKept ==
    ASSUME NEW n, Field(n, "type") = "vless", NEW m, m = ParseURI(ToURI(n))
    PROVE  /\ \A k \in Kept(n) : Field(m, k) = Field(n, k)
           /\ Is(m, "tls") = Secure(n)
           /\ HasReality(m) = HasReality(n)
<1>. DEFINE u == ToVless(n)
            q == u.query
            p == ParseVless(u)
            s == SecurityQuery(n)
            t == TransportQuery(n)
<1>1. ToURI(n) = u /\ u.scheme = "vless"
  BY DEF ToURI, ToVless, Link
<1>2. /\ u.scheme = Field(n, "type")
      /\ u.host = Field(n, "server")
      /\ Field(n, "port") # NoText => u.port = Field(n, "port")
      /\ u.user[1] = Field(n, "uuid")
      /\ q = s @@ t @@ Put("flow", Field(n, "flow")) @@ Put("alpn", Field(n, "alpn"))
  <2>1. u = Link(n, <<Field(n, "uuid")>>,
                 s @@ t @@ Put("flow", Field(n, "flow"))
                 @@ Put("alpn", Field(n, "alpn")), EscapedName(n))
    BY DEF ToVless
  <2>. HIDE DEF s, t, u
  <2>. QED  BY <2>1, LinkFields
<1>3. m = Parsed(u, p)
  BY <1>1 DEF ParseURI
<1>4. /\ \A k : k \in Keys(t) => k \in {"type", "path", "host", "serviceName"}
      /\ Field(t, "type") = Field(n, "network")
      /\ Field(n, "network") = "ws" => Field(t, "path") = Field(n, "ws-path")
      /\ Field(n, "network") = "ws" /\ HasHeaders(n) /\ "Host" \in Keys(n) =>
            Field(t, "host") = Field(n, "Host")
      /\ Field(n, "network") = "grpc" =>
            Field(t, "serviceName") = Field(n, "grpc-service-name")
  BY TransportFields
<1>5. \A k : k \in Keys(s) => k \in {"security", "pbk", "sid", "sni", "fp"}
  BY SecurityFields
<1>6. HasReality(n) =>
         /\ Field(s, "security") = "reality"
         /\ Field(s, "pbk") = Printed(n, "public-key")
         /\ Field(s, "sid") = Printed(n, "short-id")
         /\ Field(n, "servername") # NoText =>
               Field(s, "sni") = Field(n, "servername")
  BY SecurityFields
<1>7. /\ ~HasReality(n) /\ Is(n, "tls") =>
            Field(s, "security") = "tls" /\ Field(s, "sni") = Field(n, "sni")
      /\ ~Secure(n) => Field(s, "security") = NoText
      /\ Secure(n) => Field(s, "fp") = Field(n, "client-fingerprint")
  BY SecurityFields, FieldsOfMaps
<1>. HIDE DEF s, t, u, p, q
<1>8. /\ Field(q, "security") = Field(s, "security")
      /\ Field(q, "pbk") = Field(s, "pbk") /\ Field(q, "sid") = Field(s, "sid")
      /\ Field(q, "sni") = Field(s, "sni") /\ Field(q, "fp") = Field(s, "fp")
  BY <1>2, <1>4, FieldsOfMaps
<1>9. /\ Field(q, "type") = Field(t, "type")
      /\ Field(q, "path") = Field(t, "path") /\ Field(q, "host") = Field(t, "host")
      /\ Field(q, "serviceName") = Field(t, "serviceName")
      /\ Field(q, "flow") = Field(n, "flow") /\ Field(q, "alpn") = Field(n, "alpn")
  BY <1>2, <1>4, <1>5, FieldsOfMaps
<1>10. /\ Field(p, "uuid") = u.user[1]
       /\ Field(p, "network") = Field(q, "type")
       /\ Field(q, "type") = "ws" =>
             Field(p, "ws-path") = Field(q, "path") /\ Field(p, "Host") = Field(q, "host")
       /\ Field(q, "type") = "grpc" =>
             Field(p, "grpc-service-name") = Field(q, "serviceName")
       /\ Field(p, "sni") = Field(q, "sni")
       /\ Field(p, "client-fingerprint") = Field(q, "fp")
       /\ Field(p, "alpn") = Field(q, "alpn")
       /\ Field(p, "flow") = Field(q, "flow")
  BY ParsedVless DEF p, q
<1>11. /\ Field(q, "security") = "reality" =>
             /\ Field(p, "public-key") = Field(q, "pbk")
             /\ Field(p, "short-id") = Field(q, "sid")
             /\ Field(p, "servername") = Field(q, "sni")
       /\ Field(q, "security") = "reality" <=> "reality-opts" \in Keys(p)
       /\ Field(q, "security") \in {"tls", "reality"} => Field(p, "tls") = "true"
       /\ Field(q, "security") \notin {"tls", "reality"} => Field(p, "tls") = NoText
  BY ParsedVless DEF p, q
<1>12. \A k : k \in Keys(n) => Printed(n, k) = Field(n, k)
  BY DEF Printed, Field, Keys
<1>13. \/ HasReality(n) /\ Field(q, "security") = "reality"
       \/ ~HasReality(n) /\ Is(n, "tls") /\ Field(q, "security") = "tls"
       \/ ~Secure(n) /\ Field(q, "security") = NoText
  BY <1>6, <1>7, <1>8 DEF Secure
<1>14. ASSUME NEW k \in Kept(n)
       PROVE  \/ k \in {"type", "server"}
              \/ k = "port" /\ Field(n, "port") # NoText
              \/ /\ k \notin {"type", "server", "port", "name"}
                 /\ Field(p, k) = Field(n, k)
  <2>1. \/ k \in {"type", "server"}
        \/ k = "port" /\ Field(n, "port") # NoText
        \/ k \in {"uuid", "network", "flow", "alpn"}
        \/ k = "ws-path" /\ Field(n, "network") = "ws"
        \/ /\ k = "Host" /\ Field(n, "network") = "ws"
           /\ HasHeaders(n) /\ "Host" \in Keys(n)
        \/ k = "grpc-service-name" /\ Field(n, "network") = "grpc"
        \/ k = "client-fingerprint" /\ Secure(n)
        \/ k \in {"public-key", "short-id"} /\ HasReality(n) /\ k \in Keys(n)
        \/ k = "servername" /\ HasReality(n) /\ Field(n, "servername") # NoText
        \/ k = "sni" /\ ~HasReality(n) /\ Is(n, "tls")
    BY <1>14 DEF Kept, NoText, Keys
  <2>2. CASE k \in {"uuid", "network", "flow", "alpn"}
    BY <1>2, <1>4, <1>9, <1>10, <2>2
  <2>3. CASE \/ k = "ws-path" /\ Field(n, "network") = "ws"
             \/ /\ k = "Host" /\ Field(n, "network") = "ws"
                /\ HasHeaders(n) /\ "Host" \in Keys(n)
             \/ k = "grpc-service-name" /\ Field(n, "network") = "grpc"
    BY <1>4, <1>9, <1>10, <2>3
  <2>4. CASE k = "client-fingerprint" /\ Secure(n)
    BY <1>7, <1>8, <1>10, <2>4
  <2>5. CASE k \in {"public-key", "short-id"} /\ HasReality(n) /\ k \in Keys(n)
    BY <1>6, <1>8, <1>11, <1>12, <2>5
  <2>6. CASE HasReality(n) /\ k = "servername"
    BY <1>6, <1>8, <1>11, <2>1, <2>6
  <2>7. CASE k = "sni" /\ ~HasReality(n) /\ Is(n, "tls")
    BY <1>7, <1>8, <1>10, <2>7
  <2>. QED  BY <2>1, <2>2, <2>3, <2>4, <2>5, <2>6, <2>7
<1>15. \A k \in Kept(n) : Field(m, k) = Field(n, k)
  BY <1>2, <1>3, <1>14, ParsedFields
<1>16. Field(m, "tls") = Field(p, "tls")
  BY <1>3, ParsedFields
<1>17. Is(m, "tls") <=> Secure(n)
  <2>1. CASE Secure(n)
    <3>1. Field(q, "security") \in {"tls", "reality"}
      BY <1>13, <2>1
    <3>. QED  BY <1>11, <1>16, <2>1, <3>1 DEF Is
  <2>2. CASE ~Secure(n)
    <3>1. Field(q, "security") \notin {"tls", "reality"}
      BY <1>13, <2>2 DEF NoText, Secure
    <3>. QED  BY <1>11, <1>16, <2>2, <3>1 DEF Is, NoText
  <2>. QED  BY <2>1, <2>2
<1>18. HasReality(m) <=> "reality-opts" \in Keys(p)
  BY <1>3, FieldsOfMaps DEF Parsed, HasReality, Keys
<1>19. HasReality(m) <=> HasReality(n)
  <2>1. NoText # "reality"
    BY DEF NoText
  <2>. QED  BY <1>11, <1>13, <1>18, <2>1 DEF Secure
<1>. QED  BY <1>15, <1>17, <1>19 DEF Is, Secure, HasReality

(* Whatever the scheme, what Kept says is kept.                            *)
LEMMA NodeKept ==
    ASSUME NEW n, NEW m, m = ParseURI(ToURI(n)),
           Field(n, "type") \in {"vmess", "ss", "trojan", "vless", "hysteria2", "ssr"}
    PROVE  /\ \A k \in Kept(n) : Field(m, k) = Field(n, k)
           /\ Field(n, "type") = "vmess" => Is(m, "tls") = Is(n, "tls")
           /\ Field(n, "type") = "vless" =>
                 Is(m, "tls") = Secure(n) /\ HasReality(m) = HasReality(n)
<1>1. CASE Field(n, "type") = "vmess"
  BY <1>1, VmessKept
<1>2. CASE Field(n, "type") = "vless"
  BY <1>2, VlessKept
<1>3. CASE Field(n, "type") = "ss"
  BY <1>3, SsKept
<1>4. CASE Field(n, "type") = "trojan"
  BY <1>4, TrojanKept
<1>5. CASE Field(n, "type") = "hysteria2"
  BY <1>5, HysteriaKept
<1>6. CASE Field(n, "type") = "ssr"
  BY <1>6, SsrKept
<1>. QED  BY <1>1, <1>2, <1>3, <1>4, <1>5, <1>6

(* Without the comment, the document is read link by link.                 *)
LEMMA RereadIs ==
    ASSUME NEW nds, nds \in Seq(Elements(nds)), NEW back,
           back = ParseYAML([Base64Document(nds) EXCEPT !.comment = FALSE])
    PROVE  /\ DOMAIN back = DOMAIN Linked(nds)
           /\ \A i \in DOMAIN Linked(nds) :
                 /\ back[i] = ParseURI(ToURI(Linked(nds)[i]))
                 /\ Field(Linked(nds)[i], "type") \in
                       {"vmess", "ss", "trojan", "vless", "hysteria2", "ssr"}
<1>. DEFINE linked == Linked(nds)
            types == {"vmess", "ss", "trojan", "vless", "hysteria2", "ssr"}
            I == {i \in DOMAIN nds : Field(nds[i], "type") \in types}
            links == [i \in DOMAIN linked |-> ToURI(linked[i])]
            text == [Base64Document(nds) EXCEPT !.comment = FALSE]
<1>1. text.encoded /\ ~text.comment /\ text.links = links
  <2>1. Base64Document(nds) = [comment |-> TRUE, encoded |-> TRUE, links |-> links]
    BY Zenon DEF Base64Document
  <2>. HIDE DEF links
  <2>. QED  BY <2>1
<1>2. back = [i \in DOMAIN links |-> ParseURI(links[i])]
  <2>. HIDE DEF links, text
  <2>1. back = ParseYAML(text)
    BY DEF text
  <2>. QED  BY <1>1, <2>1 DEF ParseYAML, IsBase64
<1>3. ASSUME NEW i \in DOMAIN linked PROVE Field(linked[i], "type") \in types
  <2>1. linked = Sublist(nds, I)
    BY DEF Linked
  <2>2. Nth(I, i) \in I /\ linked[i] = nds[Nth(I, i)]
    <3>. HIDE DEF I, linked
    <3>1. I \in SUBSET (DOMAIN nds)
      BY DEF I
    <3>. QED  BY <1>3, <2>1, <3>1, SublistIs
  <2>. QED  BY <2>2
<1>. HIDE DEF linked
<1>4. /\ DOMAIN back = DOMAIN linked
      /\ \A i \in DOMAIN linked : back[i] = ParseURI(ToURI(linked[i]))
  BY <1>2
<1>. QED  BY <1>3, <1>4 DEF linked

-----------------------------------------------------------------------------
(* The inductive invariant: each step has made what it makes of the        *)
(* profile, the nodes and the client that were asked for.                  *)
RenderInv ==
    /\ stored \in Stores /\ nodes \in NodeLists /\ client \in ClientTypes
    /\ step \in {"new", "built", "converted", "read", "stripped"}
    /\ step # "new" => config = BuildConfig(Asked)
    /\ Shown => document = Document(client, nodes, config)
    /\ step = "converted" /\ AsLinks => document = Base64Document(nodes)
    /\ step = "stripped" =>
          reread = ParseYAML([Base64Document(nodes) EXCEPT !.comment = FALSE])

(* The configuration and the document are those of the profile, the nodes  *)
(* and the client, and what is read back is what the parser makes of that  *)
(* document (pipeline.go:147-149, sub.go:79-80).                           *)
THEOREM RenderInvariance == RenderSpec => []RenderInv
<1>1. RenderInit => RenderInv
  BY DEF RenderInit, RenderInv, Shown
<1>2. ASSUME RenderInv, [RenderNext]_renderVars
      PROVE  RenderInv'
  <2>. USE <1>2 DEF RenderInv
  <2>1. CASE Build
    BY <2>1 DEF Build, Asked, Shown
  <2>2. CASE Convert
    BY <2>2 DEF Convert, Asked, Shown, AsLinks
  <2>3. CASE ReadDocument
    BY <2>3 DEF ReadDocument, Asked, Shown, AsLinks
  <2>4. CASE ReadStripped
    BY <2>4 DEF ReadStripped, Asked, Shown, AsLinks
  <2>5. CASE UNCHANGED renderVars
    BY <2>5 DEF renderVars, Asked, Shown, AsLinks
  <2>. QED  BY <1>2, <2>1, <2>2, <2>3, <2>4, <2>5 DEF RenderNext
<1>. QED  BY <1>1, <1>2, PTL DEF RenderSpec

(* What the invariant says of a document that is shown.                    *)
LEMMA ShownIs ==
    ASSUME RenderInv, Shown
    PROVE  /\ Asked \in Seq(Items) /\ config = BuildConfig(Asked)
           /\ document = Document(client, nodes, BuildConfig(Asked))
           /\ nodes \in Seq(Elements(nodes))
<1>1. step # "new" /\ stored \in Stores /\ nodes \in NodeLists
  BY DEF RenderInv, Shown
<1>2. Asked \in Seq(Items)
  BY <1>1, AskedIs DEF Asked
<1>3. nodes \in Seq(Elements(nodes))
  BY <1>1, RenderingAssumption
<1>. QED  BY <1>1, <1>2, <1>3 DEF RenderInv

(* Every rule of a document leads to a group of it, or to DIRECT or        *)
(* REJECT, but for the GEOIP and GEOSITE rules of sing-box and the GEOIP   *)
(* rules of Surge (Odd), for any profile without commas in its names and   *)
(* with rules for payloads, any nodes and any client (engine.go:29-42,     *)
(* 139-151, surge.go:221-250, loon.go:188-205, singbox.go:330-393).        *)
THEOREM RulesLeadSomewhere == RenderSpec => []TargetsResolve
<1>1. RenderInv => TargetsResolve
  <2>. SUFFICES ASSUME RenderInv, Shown, CommaFree, PayloadsAreRules,
                       NEW line \in Elements(document.rules)
                PROVE  Odd(line) \/ Policy(line) \in GroupNames \cup Builtin
    BY DEF TargetsResolve
  <2>1. /\ Asked \in Seq(Items)
        /\ document = Document(client, nodes, BuildConfig(Asked))
    BY ShownIs
  <2>2. AllRules(Asked) /\ \A r \in Elements(Asked) : r.name \notin DOMAIN Dashed
    BY DEF PayloadsAreRules, AllRules, CommaFree
  <2>3. \/ /\ GetConverter(client) \in {"surge", "singbox"}
           /\ line[1] \in {"GEOIP", "GEOSITE"}
        \/ Policy(line) \in {g.name : g \in Elements(document.groups)} \cup Builtin
    BY <2>1, <2>2, TargetsAre
  <2>. QED  BY <2>3 DEF Odd, GroupNames
<1>. QED  BY <1>1, RenderInvariance, PTL

(* The members of the groups of a document are groups or nodes of it, but  *)
(* for the extra proxies of the profile that are neither                   *)
(* (engine.go:45-119).                                                     *)
THEOREM MembersAreThere == RenderSpec => []MembersResolve
<1>1. RenderInv => MembersResolve
  <2>. DEFINE own == (UNION {Elements(r.extra) : r \in Elements(Asked)})
                     \ {r.name : r \in Elements(Asked)}
  <2>. SUFFICES ASSUME RenderInv, Shown,
                       NEW g \in Elements(document.groups), NEW m \in Elements(g.members)
                PROVE  m \in GroupNames \cup Builtin \cup {"direct"}
                             \cup Elements(document.nodes)
                             \cup own \cup {EscapeName(e) : e \in own}
    BY DEF MembersResolve
  <2>1. /\ Asked \in Seq(Items) /\ nodes \in Seq(Elements(nodes))
        /\ document = Document(client, nodes, BuildConfig(Asked))
    BY ShownIs
  <2>2. own = Strangers(Asked)
    BY DEF Strangers, Extras, NamesOf
  <2>. HIDE DEF own
  <2>3. m \in {h.name : h \in Elements(document.groups)} \cup Builtin \cup {"direct"}
              \cup Elements(document.nodes) \cup Strangers(Asked)
              \cup {EscapeName(e) : e \in Strangers(Asked)}
    BY <2>1, MembersAre
  <2>. QED  BY <2>2, <2>3 DEF GroupNames
<1>. QED  BY <1>1, RenderInvariance, PTL

(* Every selector of sing-box but "balance" has a default that is a group  *)
(* or a proxy the profile names, so that Convert does not fail             *)
(* (singbox.go:302, engine.go:102-119).                                    *)
THEOREM SelectorsAreSet == RenderSpec => []SelectorsHaveDefault
<1>1. RenderInv => SelectorsHaveDefault
  <2>. SUFFICES ASSUME RenderInv, Shown, GetConverter(client) = "singbox",
                       NEW g \in Elements(document.groups),
                       g.type = "selector" /\ g.name # "balance"
                PROVE  g.default \in GroupNames \cup Elements(document.nodes)
                             \cup UNION {Elements(r.extra) : r \in Elements(Asked)}
    BY DEF SelectorsHaveDefault
  <2>1. /\ Asked \in Seq(Items)
        /\ document = Document(client, nodes, BuildConfig(Asked))
    BY ShownIs
  <2>2. \A h \in Elements(document.groups) :
          h.type = "selector" /\ h.name # "balance" =>
            h.default \in {x.name : x \in Elements(document.groups)} \cup Extras(Asked)
    BY <2>1, DefaultsAre
  <2>3. g.default \in {x.name : x \in Elements(document.groups)} \cup Extras(Asked)
    BY <2>2
  <2>. QED  BY <2>3 DEF GroupNames, Extras
<1>. QED  BY <1>1, RenderInvariance, PTL

(* A connection that only payloads match takes the policy of the           *)
(* configuration with every client, unless the client has no rules of the  *)
(* kind that decides on it, whatever the order and the options of the      *)
(* rules (surge.go:221-250, loon.go:188-205, singbox.go:330-393).          *)
THEOREM ClientsAgree == RenderSpec => []SamePolicy
<1>1. RenderInv => SamePolicy
  <2>. SUFFICES ASSUME RenderInv, Shown, NoCatchAll, PayloadsAreRules,
                       NEW conn \in SUBSET PayloadKeys
                PROVE  LET line == Taken(config.rules, conn, config.providers)
                       IN  \/ Lost(line)
                           \/ Policy(Taken(document.rules, conn, config.providers))
                                = Policy(line)
    BY DEF SamePolicy
  <2>1. /\ Asked \in Seq(Items)
        /\ document = Document(client, nodes, BuildConfig(Asked))
        /\ config.rules = Rules(Asked)
    BY ShownIs DEF BuildConfig
  <2>2. AllRules(Asked) /\ NoMatch(Asked) /\ conn \in SUBSET KeysOf(Asked)
    BY DEF PayloadsAreRules, AllRules, NoCatchAll, NoMatch, PayloadKeys, KeysOf
  <2>. DEFINE line == Taken(Rules(Asked), conn, config.providers)
  <2>3. \/ LostBy(GetConverter(client), line)
        \/ Policy(Taken(document.rules, conn, config.providers)) = Policy(line)
    BY <2>1, <2>2, DecidedAlike
  <2>. HIDE DEF line
  <2>4. LostBy(GetConverter(client), line) => Lost(line)
    BY DEF LostBy, Lost
  <2>5. Taken(config.rules, conn, config.providers) = line
    BY <2>1 DEF line
  <2>. QED  BY <2>3, <2>4, <2>5
<1>. QED  BY <1>1, RenderInvariance, PTL

(* With Clash, a rule set goes to the first item of the profile with its   *)
(* URL, for any profile in which no two items for rule sets have one name  *)
(* (engine.go:29-42).                                                      *)
THEOREM SetsAreRouted == RenderSpec => []RuleSetsRouted
<1>1. RenderInv => RuleSetsRouted
  <2>. DEFINE With(u) == {i \in DOMAIN Asked : /\ Asked[i].payload = <<>>
                                               /\ u \in Elements(Asked[i].urls)}
  <2>. SUFFICES ASSUME RenderInv, Shown, GetConverter(client) = "clash",
                       CommaFree, NoCatchAll, PayloadsAreRules, OneItemPerName,
                       NEW u, With(u) # {}
                PROVE  Policy(Taken(document.rules, {<<"RULE-SET", u>>},
                                    document.providers))
                       = Asked[CHOOSE i \in With(u) : \A j \in With(u) : i <= j].name
    BY DEF RuleSetsRouted
  <2>1. /\ Asked \in Seq(Items)
        /\ document = Document(client, nodes, BuildConfig(Asked))
    BY ShownIs
  <2>2. /\ AllRules(Asked) /\ NoMatch(Asked)
        /\ \A r \in Elements(Asked) : r.name \notin DOMAIN Dashed
    BY DEF PayloadsAreRules, AllRules, NoCatchAll, NoMatch, CommaFree
  <2>3. document.rules = Rules(Asked) /\ document.providers = Providers(Asked)
    <3>1. GetConverter(client) \notin OtherClients
      BY DEF OtherClients
    <3>. QED  BY <2>1, <3>1, RulesOfDocument
  <2>. DEFINE i == CHOOSE k \in With(u) : \A j \in With(u) : k <= j
  <2>4. i \in With(u) /\ \A j \in With(u) : i <= j
    <3>1. DOMAIN Asked = 1..Len(Asked) /\ Len(Asked) \in Nat
      BY <2>1
    <3>2. With(u) \in SUBSET (1..Len(Asked))
      BY <3>1
    <3>. HIDE DEF With
    <3>3. \E k \in With(u) : \A j \in With(u) : k <= j
      BY <3>1, <3>2, LeastIndex
    <3>. QED  BY <3>3
  <2>. HIDE DEF i
  <2>5. /\ i \in DOMAIN Asked /\ Asked[i].payload = <<>>
        /\ u \in Elements(Asked[i].urls)
        /\ \A j \in DOMAIN Asked :
              Asked[j].payload = <<>> /\ u \in Elements(Asked[j].urls) => i <= j
    BY <2>4
  <2>6. Policy(Taken(Rules(Asked), {<<"RULE-SET", u>>}, Providers(Asked))) = Asked[i].name
    <3>1. \A k, j \in DOMAIN Asked :
             /\ Asked[k].payload = <<>> /\ Asked[j].payload = <<>>
             /\ Asked[k].name = Asked[j].name
             => k = j
      BY DEF OneItemPerName
    <3>. QED  BY <2>1, <2>2, <2>5, <3>1, SetsGoTo
  <2>. QED  BY <2>3, <2>6 DEF i
<1>. QED  BY <1>1, RenderInvariance, PTL

(* A node of any scheme that goes out as a link and comes back has what    *)
(* Kept says as it had it, and the same place among the nodes with links:  *)
(* the endpoint, the secrets, the transport, TLS and the keys of REALITY   *)
(* that it has.  Kept leaves out what the node misses, for a missing port  *)
(* comes back as 0 and a missing entry of reality-opts or ws-headers as    *)
(* the text <nil>, and what the parser does not look for                   *)
(* (base64.go:60-244, uri.go:71-353).                                      *)
THEOREM LinksComeBack == RenderSpec => []ReimportKeeps
<1>1. RenderInv => ReimportKeeps
  <2>. SUFFICES ASSUME RenderInv, step = "stripped"
                PROVE  /\ DOMAIN reread = DOMAIN Linked(nodes)
                       /\ \A i \in DOMAIN Linked(nodes) :
                            LET n == Linked(nodes)[i]  m == reread[i]
                            IN  /\ \A k \in Kept(n) : Field(m, k) = Field(n, k)
                                /\ Field(n, "type") = "vmess" =>
                                      Is(m, "tls") = Is(n, "tls")
                                /\ Field(n, "type") = "vless" =>
                                      /\ Is(m, "tls") = Secure(n)
                                      /\ HasReality(m) = HasReality(n)
    BY DEF ReimportKeeps
  <2>1. /\ nodes \in Seq(Elements(nodes))
        /\ reread = ParseYAML([Base64Document(nodes) EXCEPT !.comment = FALSE])
    BY RenderingAssumption DEF RenderInv
  <2>2. /\ DOMAIN reread = DOMAIN Linked(nodes)
        /\ \A i \in DOMAIN Linked(nodes) :
              /\ reread[i] = ParseURI(ToURI(Linked(nodes)[i]))
              /\ Field(Linked(nodes)[i], "type") \in
                    {"vmess", "ss", "trojan", "vless", "hysteria2", "ssr"}
    BY <2>1, RereadIs
  <2>3. ASSUME NEW i \in DOMAIN Linked(nodes), NEW n, n = Linked(nodes)[i]
        PROVE  /\ \A k \in Kept(n) : Field(reread[i], k) = Field(n, k)
               /\ Field(n, "type") = "vmess" => Is(reread[i], "tls") = Is(n, "tls")
               /\ Field(n, "type") = "vless" =>
                     /\ Is(reread[i], "tls") = Secure(n)
                     /\ HasReality(reread[i]) = HasReality(n)
    BY <2>2, <2>3, NodeKept
  <2>. QED  BY <2>2, <2>3
<1>. QED  BY <1>1, RenderInvariance, PTL
=============================================================================
