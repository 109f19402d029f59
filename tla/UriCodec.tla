------------------------------ MODULE UriCodec ------------------------------
(***************************************************************************)
(* internal/converter/base64.go and internal/parser: nodes to links and    *)
(* back.  A node is a map of its fields to texts, without the empty ones   *)
(* (strField and its kind take an absent field for ""; of a null they make *)
(* "<nil>", which is its text here).  The entries of its two maps are      *)
(* fields of their own, empty ones too: public-key and short-id where      *)
(* there is a reality-opts, Host where there is a ws-headers, which is     *)
(* "map", or "texts" for the Go type the parser gives it and mapField does *)
(* not accept.  A link is its parts.  The parts of a link of vmess are     *)
(* those of its JSON object, and of ss and ssr those of its encoded text.  *)
(* User parts are taken to have no reserved character.                     *)
(***************************************************************************)
EXTENDS Sublists, Maps

CONSTANTS
    Plussed,    \* a name with blanks -> the name with + instead
    Unpadded    \* a text whose length is no multiple of three -> its base64

Field(n, k) == IF k \in DOMAIN n THEN n[k] ELSE ""
Is(n, k) == Field(n, k) \in {"true", "1"}
Reads(table, t) == IF t \in DOMAIN table THEN table[t] ELSE t
Either(t, other) == IF t = "" THEN other ELSE t

(* %v of an entry, also of one that is not there.                          *)
Printed(n, k) == IF k \in DOMAIN n THEN n[k] ELSE "<nil>"

Nothing == [k \in {} |-> ""]
(* The map with this one entry, if there is something to put.              *)
Put(k, v) == IF v = "" THEN Nothing ELSE k :> v
PutIf(condition, map) == IF condition THEN map ELSE Nothing

Link(n, user, query, name) ==
    [scheme |-> Field(n, "type"), user |-> user, host |-> Field(n, "server"),
     port |-> Either(Field(n, "port"), "0"), query |-> query, name |-> name]

HasHeaders(n) == Field(n, "ws-headers") = "map"

WsQuery(n) ==
    Put("path", Field(n, "ws-path"))
    @@ PutIf(HasHeaders(n), Put("host", Printed(n, "Host")))

-----------------------------------------------------------------------------
(* internal/converter/base64.go                                            *)

ToVmess(n) ==
    Link(n, <<Field(n, "uuid")>>,
         "aid" :> Either(Field(n, "alterId"), "0")
         @@ "scy" :> Either(Field(n, "cipher"), "auto")
         @@ "net" :> Either(Field(n, "network"), "ws")
         @@ "tls" :> (IF Is(n, "tls") THEN "tls" ELSE "false")
         @@ WsQuery(n) @@ Put("sni", Field(n, "sni"))
         @@ Put("fp", Field(n, "client-fingerprint")), Field(n, "name"))

(* QueryEscape writes a blank as a plus, and a fragment is not read so.    *)
EscapedName(n) == Reads(Plussed, Field(n, "name"))

ToSS(n) ==
    Link(n, <<Field(n, "cipher"), Field(n, "password")>>, Nothing, EscapedName(n))

ToTrojan(n) ==
    Link(n, <<Field(n, "password")>>,
         Put("sni", Field(n, "sni"))
         @@ PutIf(Is(n, "skip-cert-verify"), "allowInsecure" :> "1")
         @@ PutIf(Field(n, "network") = "ws", "type" :> "ws" @@ WsQuery(n)),
         EscapedName(n))

TransportQuery(n) ==
    Put("type", Field(n, "network"))
    @@ PutIf(Field(n, "network") = "ws", WsQuery(n))
    @@ PutIf(Field(n, "network") = "grpc",
             Put("serviceName", Field(n, "grpc-service-name")))

TLSQuery(n) ==
    PutIf(Is(n, "tls"), "security" :> "tls" @@ Put("sni", Field(n, "sni"))
                        @@ Put("fp", Field(n, "client-fingerprint")))

HasReality(n) == "reality-opts" \in DOMAIN n

RealityQuery(n) ==
    PutIf(HasReality(n),
          "security" :> "reality" @@ Put("pbk", Printed(n, "public-key"))
          @@ Put("sid", Printed(n, "short-id"))
          @@ Put("sni", Field(n, "servername"))
          @@ Put("fp", Field(n, "client-fingerprint")))

\* Mutant of SecurityQuery: TLS is set after REALITY.
SecurityTLSLast(n) == TLSQuery(n) @@ RealityQuery(n)

(* What REALITY sets stays.                                                *)
SecurityQuery(n) == RealityQuery(n) @@ TLSQuery(n)

ToVless(n) ==
    Link(n, <<Field(n, "uuid")>>,
         SecurityQuery(n) @@ TransportQuery(n) @@ Put("flow", Field(n, "flow"))
         @@ Put("alpn", Field(n, "alpn")), EscapedName(n))

ToHysteria2(n) ==
    Link(n, <<Field(n, "password")>>,
         Put("sni", Field(n, "sni"))
         @@ PutIf(Is(n, "skip-cert-verify"), "insecure" :> "1")
         @@ PutIf(Field(n, "obfs") # "",
                  "obfs" :> Field(n, "obfs")
                  @@ Put("obfs-password", Field(n, "obfs-password"))),
         EscapedName(n))

(* The name and the parameters lose their padding, without which they are  *)
(* not decoded.                                                            *)
ToSSR(n) ==
    Link(n, <<Field(n, "protocol"), Field(n, "cipher"), Field(n, "obfs"),
              Field(n, "password")>>,
         Put("obfsparam", Reads(Unpadded, Field(n, "obfs-param")))
         @@ Put("protoparam", Reads(Unpadded, Field(n, "protocol-param"))),
         Reads(Unpadded, Field(n, "name")))

ToURI(n) ==
    CASE Field(n, "type") = "vmess" -> ToVmess(n)
      [] Field(n, "type") = "ss" -> ToSS(n)
      [] Field(n, "type") = "trojan" -> ToTrojan(n)
      [] Field(n, "type") = "vless" -> ToVless(n)
      [] Field(n, "type") = "hysteria2" -> ToHysteria2(n)
      [] Field(n, "type") = "ssr" -> ToSSR(n)

(* The nodes ToURI has a case for: it writes nothing for the others.       *)
Linked(nodes) ==
    Sublist(nodes, {i \in DOMAIN nodes : Field(nodes[i], "type") \in
                       {"vmess", "ss", "trojan", "vless", "hysteria2", "ssr"}})

(* A text is what is encoded, and whether a comment is before it.          *)
Base64Document(nodes) ==
    LET linked == Linked(nodes)
    IN  [comment |-> TRUE, encoded |-> TRUE,
         links |-> [i \in DOMAIN linked |-> ToURI(linked[i])]]

-----------------------------------------------------------------------------
(* internal/parser                                                         *)

Parsed(u, fields) ==
    "type" :> u.scheme @@ "server" :> u.host @@ "port" :> u.port
    @@ "name" :> u.name @@ fields

(* The second part of a user part, which trojan and hysteria2 have not.    *)
Password(u) == IF Len(u.user) = 2 THEN u.user[2] ELSE ""

ParsedWs(u) ==
    Put("ws-path", Field(u.query, "path"))
    @@ "ws-headers" :> "texts" @@ "Host" :> Field(u.query, "host")

ParseVmess(u) ==
    "uuid" :> u.user[1] @@ "cipher" :> "auto" @@ "alterId" :> u.query["aid"]
    @@ PutIf(u.query["tls"] = "tls", "tls" :> "true")
    @@ "skip-cert-verify" :> "true" @@ "network" :> u.query["net"]
    @@ ParsedWs(u)

ParseSs(u) == "cipher" :> u.user[1] @@ "password" :> u.user[2]

ParseTrojan(u) ==
    Put("password", Password(u)) @@ Put("sni", Field(u.query, "sni"))
    @@ "skip-cert-verify" :> "true"

ParseVless(u) ==
    LET network == Field(u.query, "type")
        security == Field(u.query, "security")
    IN  "uuid" :> u.user[1] @@ "skip-cert-verify" :> "true"
        @@ PutIf(security \in {"tls", "reality"}, "tls" :> "true")
        @@ Put("network", network)
        @@ PutIf(network = "ws", ParsedWs(u))
        @@ PutIf(network = "grpc",
                 Put("grpc-service-name", Field(u.query, "serviceName")))
        @@ Put("sni", Field(u.query, "sni"))
        @@ Put("client-fingerprint", Field(u.query, "fp"))
        @@ Put("alpn", Field(u.query, "alpn"))
        @@ PutIf(security = "reality",
                 "reality-opts" :> "map" @@ "public-key" :> Field(u.query, "pbk")
                 @@ "short-id" :> Field(u.query, "sid")
                 @@ Put("servername", Field(u.query, "sni")))
        @@ Put("flow", Field(u.query, "flow"))

ParseHysteria2(u) ==
    Put("password", Password(u))
    @@ PutIf(Field(u.query, "insecure") = "1", "skip-cert-verify" :> "true")
    @@ Put("sni", Field(u.query, "sni"))
    @@ Put("up", Field(u.query, "upmbps"))
    @@ Put("down", Field(u.query, "downmbps"))
    @@ PutIf(Field(u.query, "obfs") # "",
             "obfs" :> Field(u.query, "obfs")
             @@ Put("obfs-password", Field(u.query, "obfs-password")))

ParseSsr(u) ==
    Put("protocol", u.user[1]) @@ "cipher" :> u.user[2]
    @@ Put("obfs", u.user[3]) @@ "password" :> u.user[4]
    @@ Put("obfs-param", Field(u.query, "obfsparam"))
    @@ Put("protocol-param", Field(u.query, "protoparam"))

ParseURI(u) ==
    Parsed(u, CASE u.scheme = "vmess" -> ParseVmess(u)
                [] u.scheme = "ss" -> ParseSs(u)
                [] u.scheme = "trojan" -> ParseTrojan(u)
                [] u.scheme = "vless" -> ParseVless(u)
                [] u.scheme = "hysteria2" -> ParseHysteria2(u)
                [] OTHER -> ParseSsr(u))

(* A comment has characters that base64 has not.                           *)
IsBase64(text) == text.encoded /\ ~text.comment

(* An encoded text is decoded; links that can be read are parsed; all else *)
(* is taken for YAML, without nodes.                                       *)
ParseYAML(text) ==
    LET plain == ~text.encoded \/ IsBase64(text)
    IN  IF plain THEN [i \in DOMAIN text.links |-> ParseURI(text.links[i])]
        ELSE <<>>
=============================================================================
