------------------------------ MODULE MCRender ------------------------------
(* The way from sources to a document in one instance for TLC: the initial *)
(* state picks the pipeline or the rendering, which share no variable, and *)
(* only that one moves.                                                    *)
EXTENDS Pipeline, Rendering

VARIABLE active

vars == <<active, pipeVars, renderVars>>

None == [x \in {} |-> {}]

-----------------------------------------------------------------------------
(* The pipeline: keywords of two words, of another script and of one       *)
(* region, an address whose look-up may fail, nodes that are equal,        *)
(* incomplete, or have two keywords or one that stripping puts together.   *)
Hong == <<"hong", " ", "kong">>
MCRegionOf == <<"hk">> :> "hk" @@ Hong :> "hk" @@ <<"xg">> :> "hk"
              @@ <<"jp">> :> "jp" @@ <<"us">> :> "us"
MCTurn == Hong :> 1 @@ <<"xg">> :> 2 @@ <<"us">> :> 3 @@ <<"hk">> :> 4 @@ <<"jp">> :> 5
MCGeo == "ip1" :> {"jp"} @@ "ip2" :> {"us", ""} @@ "dom" :> {"zz"} @@ "" :> {""}
Order == <<"", " ", "-", "?", "UN", "a", "b", "hk", "hong", "jp", "kong", "ss", "us",
           "vless", "x", "xg", "noname", "ip1", "dom", "ip2", "zz">>
MCRank == [w \in {Order[i] : i \in DOMAIN Order} |->
            CHOOSE i \in DOMAIN Order : Order[i] = w]

Node(type, server, name) ==
    [type |-> type, server |-> server, name |-> name, no |-> 0,
     source |-> "", prefix |-> ""]
N1 == Node("ss", "ip1", <<"hk", "-", "b">>)
N2 == Node("ss", "ip1", <<"jp", " ", "a">>)
N3 == Node("vless", "ip1", <<"hk", "-", " ", "jp", " ", "a">>)
N4 == Node("ss", "ip2", <<"b">>)
N5 == Node("ss", "ip2", <<"noname">>)
N6 == Node("vless", "dom", <<"b", "xg", "a">>)
N7 == Node("ss", "", <<"b", "jp">>)
N8 == Node("ss", "ip1", <<"jp", "-", "hong", "-", "kong">>)
N9 == Node("vless", "ip1", <<"hong", " ", "kong">>)
Answers ==
    {<<>>, <<N1, N7>>, <<N2, N4>>, <<N5, N3>>, <<N6, N1>>, <<N3, N2>>, <<N8, N9>>}
MCFeeds == {f \in [{"s1", "s2", "s3"} -> Answers] : f["s3"] \in {<<N6, N1>>, <<>>}}

(* What stripping makes of "jp-hong-kong", "hk- jp a" and "b*a", where * is *)
(* a keyword of another script: a keyword that was not there, one word,    *)
(* and two words become one (region.go:206-225).                           *)
ASSUME StripExamples ==
    /\ StripRegionKeywords(N8.name) = Hong
    /\ StripRegionKeywords(N3.name) = <<"a">>
    /\ StripRegionKeywords(N6.name) = <<"b", "a">>

Plain ==
    [include |-> {}, exclude |-> {}, types |-> {}, servers |-> "",
     script |-> [drops |-> {}, throws |-> {}, sets |-> None],
     overrides |-> None, rename |-> <<>>, sort |-> "", prefix |-> FALSE,
     compiles |-> TRUE]
MCProfiles ==
    { [Plain EXCEPT !.prefix = TRUE],
      [Plain EXCEPT !.compiles = FALSE],
      [Plain EXCEPT !.sort = "name"],
      [Plain EXCEPT !.include = {"hk"}, !.exclude = {"jp"}, !.sort = "type",
                    !.prefix = TRUE],
      [Plain EXCEPT !.servers = "ip", !.rename = <<"{code}", " ", "{tag}">>,
                    !.sort = "region"],
      [Plain EXCEPT !.servers = "domain", !.rename = <<"{name}", "-", "{server}">>],
      [Plain EXCEPT !.types = {"ss"}, !.rename = <<"{code}", "-", "{type}", "x">>,
                    !.prefix = TRUE],
      [Plain EXCEPT !.script = [drops |-> {}, throws |-> {"vless"},
                                sets |-> [name |-> <<"xg", "-", "a">>]],
                    !.sort = "name", !.rename = <<"{tag}">>],
      [Plain EXCEPT !.script = [drops |-> {"vless"}, throws |-> {}, sets |-> None],
                    !.overrides = [type |-> "ss", server |-> "dom"],
                    !.prefix = TRUE, !.sort = "region"],
      [Plain EXCEPT !.script = [drops |-> {}, throws |-> {},
                                sets |-> [name |-> <<"a">>, server |-> "ip1"]],
                    !.sort = "name", !.prefix = TRUE] }

-----------------------------------------------------------------------------
(* The rendering.                                                          *)
MCTexts == STRING
MCDashed == "g,h" :> "g-h" @@ "n,1" :> "n-1"
MCSpaced == "g,h" :> "g h" @@ "n,1" :> "n 1"
MCPlussed == "n 2" :> "n+2"
MCUnpadded == "n,1" :> "bix" @@ "n 2" :> "biAy" @@ "n4" :> "bjQ"

Item(name, gfw) ==
    [name |-> name, gfw |-> gfw, urls |-> <<>>, payload |-> <<>>, extra |-> <<>>]
D1 == <<"DOMAIN", "d1">>
MCStores ==
    { None,
      [default |-> << >>, r |->
          << [Item("g", TRUE) EXCEPT !.urls = <<"u1", "u2">>],
             [Item("h", FALSE) EXCEPT !.urls = <<"u2">>, !.extra = <<"REJECT">>],
             [Item("x", FALSE) EXCEPT
                  !.payload = << <<"GEOIP", "US">>, D1 >>, !.urls = <<"u4">>] >>],
      [default |->
          << [Item("x", TRUE) EXCEPT
                  !.payload = << <<"IP-CIDR", "i1", "no-resolve">>,
                                 <<"PROCESS-NAME", "p1">>, <<>> >>],
             [Item("y", FALSE) EXCEPT
                  !.payload = << D1, <<"IP-CIDR6", "i2", "NO-RESOLVE">> >>,
                  !.extra = <<"x", "n,1">>],
             [Item("z", TRUE) EXCEPT
                  !.payload = << D1, <<"DOMAIN-KEYWORD", "k1", "REJECT">> >>,
                  !.extra = <<"REJECT">>] >>],
      [r |-> << [Item("g,h", TRUE) EXCEPT !.payload = << D1 >>, !.extra = <<"g,h">>],
                [Item("g-h", FALSE) EXCEPT !.urls = <<"u1">>] >>],
      [r |-> << [Item("g", FALSE) EXCEPT !.payload = << <<"MATCH">> >>],
                [Item("h", TRUE) EXCEPT !.payload = << D1 >>, !.urls = <<"u1">>] >>],
      [r |-> << [Item("g", TRUE) EXCEPT !.urls = <<"u1", "u2">>],
                [Item("g", FALSE) EXCEPT !.urls = <<"u2">>],
                [Item("h", FALSE) EXCEPT !.payload = << <<"DOMAIN">> >>] >>] }

Address == [server |-> "h1", port |-> "443"]
Common(type, name) == [type |-> type, name |-> name] @@ Address
Vless ==
    [uuid |-> "id", network |-> "ws", tls |-> "true", sni |-> "s1"]
    @@ ("ws-path" :> "/w") @@ ("ws-headers" :> "map") @@ ("Host" :> "o")
    @@ Common("vless", "n 2")
Reality ==
    [uuid |-> "id", network |-> "grpc", tls |-> "true", sni |-> "s1",
     servername |-> "s2", flow |-> "vision", alpn |-> "h2,http"]
    @@ ("reality-opts" :> "map") @@ ("public-key" :> "pk") @@ ("short-id" :> "7")
    @@ ("client-fingerprint" :> "fp") @@ ("grpc-service-name" :> "gs")
    @@ Common("vless", "n3")
(* Maps without what is looked for in them.                                *)
NoShortID ==
    [uuid |-> "id", network |-> "ws", type |-> "vless", name |-> "n7", server |-> "h1"]
    @@ ("reality-opts" :> "map") @@ ("public-key" :> "pk") @@ ("ws-headers" :> "map")
Vmess ==
    [uuid |-> "id", tls |-> "true", alterId |-> "2"] @@ ("ws-path" :> "/w")
    @@ ("ws-headers" :> "texts") @@ ("Host" :> "o") @@ Common("vmess", "n,1")
Ss == [cipher |-> "c", password |-> "pw"] @@ Common("ss", "n 2")
Ssr ==
    [cipher |-> "c", password |-> "pw", protocol |-> "o", obfs |-> "t"]
    @@ ("obfs-param" :> "opt") @@ Common("ssr", "n4")
Trojan ==
    [password |-> "pw", sni |-> "s1", network |-> "ws"] @@ ("ws-path" :> "/w")
    @@ ("skip-cert-verify" :> "true") @@ Common("trojan", "n 2")
Hysteria2 ==
    [password |-> "pw", obfs |-> "sal"] @@ ("obfs-password" :> "op")
    @@ ("skip-cert-verify" :> "1") @@ Common("hysteria2", "n5")
Tuic == Common("tuic", "n6")
MCNodeLists ==
    { <<>>, <<Tuic>>, <<Ss, Tuic, Vmess>>, <<Vless, Reality, Trojan>>,
      <<Ssr, Hysteria2, [Vless EXCEPT !.tls = "false", !.network = "tcp"],
        [Vmess EXCEPT !.tls = "0"], NoShortID>> }

-----------------------------------------------------------------------------
Init ==
    \/ /\ active = "pipeline" /\ PipeInit
       /\ stored = None /\ routingID = "" /\ nodes = <<>> /\ client = "clash"
       /\ step = "new" /\ config = <<>> /\ document = <<>> /\ reread = <<>>
    \/ /\ active = "rendering" /\ RenderInit
       /\ profile = Plain /\ feed = None /\ fetch = None /\ merged = <<>>
       /\ firstConfig = "" /\ run = "error" /\ output = <<>>

Next ==
    /\ UNCHANGED active
    /\ \/ active = "pipeline" /\ PipeNext /\ UNCHANGED renderVars
       \/ active = "rendering" /\ RenderNext /\ UNCHANGED pipeVars

PipelineMoves == active = "pipeline" /\ PipeNext /\ UNCHANGED <<active, renderVars>>

(* wg.Wait returns: every fetch has a timeout and every goroutine runs on. *)
Spec == Init /\ [][Next]_vars /\ WF_vars(PipelineMoves)
=============================================================================
