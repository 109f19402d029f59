------------------------ MODULE SubscriptionProofs ------------------------
(***************************************************************************)
(* Subscription for any sources, any number of requests at once, any times *)
(* to live and any outcomes of fetches: the types are right, no answer is  *)
(* too old, and a refresh that ran alone is not undone.                    *)
(***************************************************************************)
EXTENDS Subscription, TLAPS

Remote == Sources \ LocalSources
Watched == Sources \ (raced \cup LocalSources)

(* The leg l of a fetch carries a body: it has arrived, or is used.        *)
Carries(l) == l.st \in {"got", "stored"} \/ (l.st = "done" /\ l.ok)

-----------------------------------------------------------------------------
(* What stage a request is at.                                             *)

(* A request that is over fetches nothing; one that is alone is the only   *)
(* one; a test or refresh does not look in the cache.                      *)
IdleFetchesNothing ==
    \A r \in Requests : Idle(r) => \A s \in Sources : leg[r][s].st = "off"

AloneIsAlone ==
    \A r \in Requests : (~ Idle(r) /\ req[r].alone) =>
        \A q \in Requests \ {r} : Idle(q)

Renews(r) == ~ Idle(r) /\ req[r].kind \in {"test", "refresh"}

RenewsByForce ==
    \A r \in Requests :
        /\ Renews(r) => \A s \in Sources : leg[r][s].st \notin {"peek", "look"}
        /\ (~ Idle(r) /\ req[r].pc = "stale") => req[r].kind = "sub"
        /\ (~ Idle(r) /\ req[r].pc = "clear") => req[r].kind = "refresh"

Stages == IdleFetchesNothing /\ AloneIsAlone /\ RenewsByForce

-----------------------------------------------------------------------------
(* The age of bodies and answers.                                          *)

(* When the server answered, how long the body was on its way, and until   *)
(* when it is cached.                                                      *)
BodyAge(b, t) ==
    b # NoBody => b.exp = b.at + b.held + SourceTTL /\ b.at + b.held <= t

(* A body in use was alive when its request began, or after.               *)
LegAge(l, started, t) ==
    /\ l.at <= t
    /\ l.st = "got" => started <= l.at
    /\ (Carries(l) /\ l.st # "got") => started <= l.at + l.held + SourceTTL

(* An answer expires at the latest when its bodies, the building and both  *)
(* times to live have passed.                                              *)
OutputAge(a, t) ==
    a # NoOutput =>
        /\ a.exp <= t + OutputTTL
        /\ \A p \in a.parts :
              a.exp <= p.at + p.held + SourceTTL + a.took + OutputTTL

(* What GetStale finds was stored since the request began.                 *)
StaleAge(r) ==
    (~ Idle(r) /\ req[r].pc = "stale" /\ outCache["sub"] # NoOutput) =>
        req[r].started + OutputTTL <= outCache["sub"].exp

Ages ==
    /\ \A s \in Sources : BodyAge(srcCache[s], now) /\ BodyAge(srcFile[s], now)
    /\ \A o \in Outputs : OutputAge(outCache[o], now)
    /\ \A r \in Requests : ~ Idle(r) =>
          /\ req[r].started <= now
          /\ StaleAge(r)
          /\ \A s \in Sources : LegAge(leg[r][s], req[r].started, now)

-----------------------------------------------------------------------------
(* What no older body reaches.                                             *)

OutputSticks(a) ==
    a # NoOutput =>
        \A p \in a.parts : p.src \in Watched => p.at >= tested[p.src]

BodySticks(b, s) == (b # NoBody /\ b.form = "typed") => b.at >= tested[s]

Sticks ==
    /\ \A s \in Sources : tested[s] <= now
    /\ \A o \in Outputs : OutputSticks(outCache[o])
    /\ \A s \in Watched :
          /\ BodySticks(srcCache[s], s)
          /\ \A r \in Requests : Carries(leg[r][s]) => leg[r][s].at >= tested[s]

(* A test or refresh that is alone and has fetched a source anew: the      *)
(* caches have nothing older.                                              *)
Newest(l, b) ==
    (l.st # "got" /\ Carries(l) /\ b # NoBody /\ b.form = "typed") => b.at >= l.at

Over(l) == l.st = "done" /\ l.ok

Renewed(r, s) ==
    /\ Newest(leg[r][s], srcCache[s])
    /\ Over(leg[r][s]) => outCache["filter"] = NoOutput

LoneRenewal ==
    \A r \in Requests : (Renews(r) /\ req[r].alone) =>
        /\ \A s \in Remote : Renewed(r, s)
        /\ req[r].pc = "clear" => outCache["sub"] = NoOutput

IInv ==
    /\ TypeOK
    /\ Stages
    /\ Ages
    /\ AgeBound
    /\ Sticks
    /\ LoneRenewal
    /\ LoneRefreshSticks

-----------------------------------------------------------------------------
(* The fields of what the variables hold.                                  *)

(* The constants are numbers and sets, as the module assumes.              *)
LEMMA Constants ==
    /\ LocalSources \subseteq Sources
    /\ SourceTTL \in Nat /\ OutputTTL \in Nat /\ MaxTime \in Nat
BY SubscriptionAssumption

(* The fields of a cached body.                                            *)
LEMMA BodyForm ==
    ASSUME NEW b \in Bodies \cup {NoBody}, b # NoBody
    PROVE  /\ b \in Bodies
           /\ b.at \in Nat /\ b.held \in Nat /\ b.exp \in Nat
           /\ b.ok \in BOOLEAN /\ b.form \in {"typed", "generic"}
BY DEF Bodies

(* The fields of a leg, which is the record of them.                       *)
LEMMA LegForm ==
    ASSUME NEW l \in Legs
    PROVE  /\ l.at \in Nat /\ l.held \in Nat /\ l.ok \in BOOLEAN
           /\ l.st \in LegStates
           /\ l = [st |-> l.st, at |-> l.at, held |-> l.held, ok |-> l.ok]
BY DEF Legs

(* A fetch that has just come to a step carries no body.                   *)
LEMMA NewLeg ==
    ASSUME NEW st \in LegStates
    PROVE  /\ Leg(st) \in Legs
           /\ Leg(st).st = st /\ Leg(st).at = 0 /\ Leg(st).held = 0
           /\ ~ Leg(st).ok
           /\ st \notin {"got", "stored"} => ~ Carries(Leg(st))
BY DEF Leg, Legs, Carries

(* The fields of a cached answer.                                          *)
LEMMA OutputForm ==
    ASSUME NEW a \in Answers \cup {NoOutput}, a # NoOutput
    PROVE  /\ a.exp \in Nat /\ a.took \in Nat
           /\ a.parts \subseteq Parts
           /\ \A p \in a.parts : /\ p.src \in Sources
                                 /\ p.at \in Nat /\ p.held \in Nat
<1>1. a \in Answers
  OBVIOUS
<1>2. a.exp \in Nat /\ a.took \in Nat /\ a.parts \subseteq Parts
  BY <1>1 DEF Answers
<1>. QED  BY <1>2 DEF Parts

(* The fields of a request in progress.                                    *)
LEMMA RequestForm ==
    ASSUME TypeOK, NEW r \in Requests, ~ Idle(r)
    PROVE  /\ req[r] \in Active
           /\ req[r].kind \in AllKinds
           /\ req[r].pc \in {"stale", "fetch", "clear"}
           /\ req[r].started \in Nat /\ req[r].alone \in BOOLEAN
<1>1. req[r] \in Active
  BY DEF TypeOK, Idle
<1>. QED  BY <1>1 DEF Active

-----------------------------------------------------------------------------
(* AgeBound and LoneRefreshSticks of a reply.                              *)

ReplySticks ==
    reply # Nothing =>
        \A p \in reply.parts : p.src \in Watched => p.at >= tested[p.src]

(* The caches and the reply hold nothing older than the last refresh.      *)
LEMMA SticksSuffice == Sticks /\ ReplySticks => LoneRefreshSticks
BY DEF Sticks, OutputSticks, ReplySticks, Watched, LoneRefreshSticks

(* A step that answers nobody breaks neither property of answers.          *)
LEMMA NoReply ==
    ASSUME reply' = Nothing, Sticks'
    PROVE  AgeBound' /\ LoneRefreshSticks'
<1>1. Nothing' = Nothing
  BY DEF Nothing
<1>2. AgeBound' /\ ReplySticks'
  BY <1>1 DEF AgeBound, ReplySticks
<1>3. (Sticks /\ ReplySticks => LoneRefreshSticks)'
  BY DEF Sticks, OutputSticks, ReplySticks, Watched, LoneRefreshSticks
<1>. QED  BY <1>2, <1>3

-----------------------------------------------------------------------------
(* The start.                                                              *)

(* Nothing is cached and nothing is in progress.                           *)
LEMMA Initially == Init => IInv
<1>. SUFFICES ASSUME Init PROVE IInv
  OBVIOUS
<1>. USE Constants
<1>1. /\ \A s \in Sources : srcCache[s] = NoBody /\ srcFile[s] = NoBody
                            /\ tested[s] = 0
      /\ \A o \in Outputs : outCache[o] = NoOutput
      /\ \A r \in Requests : Idle(r) /\ ~ Renews(r)
      /\ \A r \in Requests, s \in Sources : leg[r][s] = Leg("off")
      /\ reply = Nothing /\ now = 0
  BY DEF Init, Idle, Renews
<1>2. Leg("off") \in Legs /\ Leg("off").st = "off" /\ ~ Carries(Leg("off"))
  BY NewLeg DEF LegStates
<1>3. TypeOK
  BY <1>2 DEF Init, TypeOK
<1>4. Stages
  BY <1>1, <1>2 DEF Stages, IdleFetchesNothing, AloneIsAlone, RenewsByForce
<1>5. Ages
  BY <1>1 DEF Ages, BodyAge, OutputAge
<1>6. Sticks /\ ReplySticks
  BY <1>1, <1>2
     DEF Sticks, OutputSticks, BodySticks, ReplySticks, Watched
<1>7. AgeBound
  BY <1>1 DEF AgeBound
<1>8. LoneRenewal
  BY <1>1 DEF LoneRenewal
<1>. QED  BY <1>3, <1>4, <1>5, <1>6, <1>7, <1>8, SticksSuffice DEF IInv

-----------------------------------------------------------------------------
(* A fetch goes a step further.                                            *)

(* Step changes one leg, and only that.                                    *)
LEMMA LegStep ==
    ASSUME TypeOK, NEW r \in Requests, NEW s \in Sources, NEW l \in Legs,
           Step(r, s, l)
    PROVE  /\ leg' \in [Requests -> [Sources -> Legs]]
           /\ leg'[r][s] = l
           /\ \A q \in Requests, t \in Sources :
                 (q # r \/ t # s) => leg'[q][t] = leg[q][t]
<1>1. leg \in [Requests -> [Sources -> Legs]]
  BY DEF TypeOK
<1>2. leg' = [leg EXCEPT ![r] = [leg[r] EXCEPT ![s] = l]]
  BY DEF Step
<1>. DEFINE g == [leg[r] EXCEPT ![s] = l]
<1>3. /\ g \in [Sources -> Legs] /\ g[s] = l
      /\ \A t \in Sources : t # s => g[t] = leg[r][t]
  BY <1>1
<1>4. leg' = [leg EXCEPT ![r] = g]
  BY <1>2
<1>. HIDE DEF g
<1>5. /\ leg' \in [Requests -> [Sources -> Legs]]
      /\ leg'[r] = g
      /\ \A q \in Requests : q # r => leg'[q] = leg[q]
  BY <1>1, <1>3, <1>4
<1>. QED  BY <1>3, <1>5

(* The step gives the fetch a new leg l, and the source cache the body b.  *)
LEMMA FetchKeeps ==
    ASSUME IInv,
           NEW r \in Requests, NEW s \in Sources, NEW l \in Legs,
           NEW b \in Bodies \cup {NoBody},
           ~ Idle(r), req[r].pc = "fetch",
           Step(r, s, l),
           srcCache' = [srcCache EXCEPT ![s] = b],
           srcFile' = srcFile \/ srcFile' = [srcFile EXCEPT ![s] = b],
           \/ outCache' = outCache
           \/ outCache' = [outCache EXCEPT !["filter"] = NoOutput],
           UNCHANGED <<now, req, tested, raced>>,
           reply' = Nothing,
           Renews(r) => l.st \notin {"peek", "look"},
           LegAge(l, req[r].started, now),
           BodyAge(b, now),
           s \in Watched => BodySticks(b, s),
           s \in Watched => (Carries(l) => l.at >= tested[s]),
           (Renews(r) /\ req[r].alone /\ s \in Remote)
               => Newest(l, b) /\ (Over(l) => outCache'["filter"] = NoOutput)
    PROVE  IInv'
<1>. USE Constants
<1>1. TypeOK /\ Stages /\ Ages /\ Sticks /\ LoneRenewal
  BY DEF IInv
<1>2. /\ leg' \in [Requests -> [Sources -> Legs]]
      /\ leg'[r][s] = l
      /\ \A q \in Requests, t \in Sources :
            (q # r \/ t # s) => leg'[q][t] = leg[q][t]
  BY <1>1, LegStep
<1>3. /\ srcCache' \in [Sources -> Bodies \cup {NoBody}]
      /\ srcCache'[s] = b
      /\ \A t \in Sources : t # s => srcCache'[t] = srcCache[t]
  BY <1>1 DEF TypeOK
<1>4. /\ srcFile' \in [Sources -> Bodies \cup {NoBody}]
      /\ \A t \in Sources : srcFile'[t] \in {srcFile[t], b}
      /\ \A t \in Sources : t # s => srcFile'[t] = srcFile[t]
  BY <1>1 DEF TypeOK
<1>5. /\ outCache' \in [Outputs -> Answers \cup {NoOutput}]
      /\ \A o \in Outputs : outCache'[o] \in {outCache[o], NoOutput}
      /\ outCache'["sub"] = outCache["sub"]
  BY <1>1 DEF TypeOK, Outputs
<1>6. now' = now /\ req' = req /\ tested' = tested /\ raced' = raced
  OBVIOUS
<1>7. /\ \A q \in Requests : Idle(q)' <=> Idle(q)
      /\ \A q \in Requests : Renews(q)' <=> Renews(q)
      /\ Watched' = Watched
  BY <1>6 DEF Idle, Renews, Watched, IdleReq
<1>8. TypeOK'
  <2>1. reply' \in Replies \cup {Nothing}
    OBVIOUS
  <2>. QED  BY <1>1, <1>2, <1>3, <1>4, <1>5, <1>6, <2>1 DEF TypeOK, Nothing
<1>9. Stages'
  <2>1. IdleFetchesNothing'
    <3>. SUFFICES ASSUME NEW q \in Requests, Idle(q)', NEW t \in Sources
                  PROVE  leg'[q][t].st = "off"
      BY DEF IdleFetchesNothing
    <3>1. Idle(q) /\ q # r
      BY <1>7
    <3>. QED  BY <3>1, <1>1, <1>2 DEF Stages, IdleFetchesNothing
  <2>2. AloneIsAlone'
    BY <1>1, <1>6, <1>7 DEF Stages, AloneIsAlone
  <2>3. RenewsByForce'
    <3>1. ASSUME NEW q \in Requests, Renews(q), NEW t \in Sources
          PROVE  leg'[q][t].st \notin {"peek", "look"}
      <4>1. CASE q = r /\ t = s
        BY <3>1, <4>1, <1>2
      <4>2. CASE q # r \/ t # s
        BY <3>1, <4>2, <1>1, <1>2 DEF Stages, RenewsByForce
      <4>. QED  BY <4>1, <4>2
    <3>. QED  BY <3>1, <1>1, <1>6, <1>7 DEF Stages, RenewsByForce
  <2>. QED  BY <2>1, <2>2, <2>3 DEF Stages
<1>10. Ages'
  <2>1. \A t \in Sources : BodyAge(srcCache'[t], now) /\ BodyAge(srcFile'[t], now)
    BY <1>1, <1>3, <1>4 DEF Ages
  <2>2. \A o \in Outputs : OutputAge(outCache'[o], now)
    <3>1. OutputAge(NoOutput, now)
      BY DEF OutputAge
    <3>. QED  BY <3>1, <1>1, <1>5 DEF Ages
  <2>3. \A q \in Requests : ~ Idle(q) =>
            req[q].started <= now /\ StaleAge(q)
    BY <1>1 DEF Ages
  <2>4. \A q \in Requests : StaleAge(q) => StaleAge(q)'
    BY <1>5, <1>6, <1>7 DEF StaleAge, NoOutput
  <2>5. ASSUME NEW q \in Requests, ~ Idle(q), NEW t \in Sources
        PROVE  LegAge(leg'[q][t], req[q].started, now)
    <3>1. CASE q = r /\ t = s
      BY <3>1, <1>2
    <3>2. CASE q # r \/ t # s
      BY <2>5, <3>2, <1>1, <1>2 DEF Ages
    <3>. QED  BY <3>1, <3>2
  <2>6. /\ \A t \in Sources : BodyAge(srcCache[t], now)' /\ BodyAge(srcFile[t], now)'
        /\ \A o \in Outputs : OutputAge(outCache[o], now)'
    BY <2>1, <2>2, <1>6 DEF BodyAge, OutputAge, NoBody, NoOutput
  <2>7. \A q \in Requests : (~ Idle(q))' =>
            \A t \in Sources : LegAge(leg[q][t], req[q].started, now)'
    BY <2>5, <1>6, <1>7 DEF LegAge, Carries
  <2>. QED  BY <2>3, <2>4, <2>6, <2>7, <1>6, <1>7 DEF Ages
<1>11. Sticks'
  <2>1. \A o \in Outputs : OutputSticks(outCache[o])'
    BY <1>1, <1>5, <1>6, <1>7 DEF Sticks, OutputSticks, NoOutput
  <2>2. ASSUME NEW t \in Watched
        PROVE  /\ BodySticks(srcCache[t], t)'
               /\ \A q \in Requests :
                     Carries(leg'[q][t]) => leg'[q][t].at >= tested[t]
    <3>1. t \in Sources
      BY DEF Watched
    <3>2. BodySticks(srcCache'[t], t)
      BY <3>1, <1>1, <1>3 DEF Sticks
    <3>3. \A q \in Requests : Carries(leg'[q][t]) => leg'[q][t].at >= tested[t]
      BY <3>1, <1>1, <1>2 DEF Sticks
    <3>. QED  BY <3>2, <3>3, <1>6 DEF BodySticks, NoBody
  <2>3. \A t \in Watched, q \in Requests :
            Carries(leg[q][t])' <=> Carries(leg'[q][t])
    BY DEF Carries
  <2>. QED  BY <2>1, <2>2, <2>3, <1>1, <1>6, <1>7 DEF Sticks
<1>12. LoneRenewal'
  <2>. SUFFICES ASSUME NEW q \in Requests, Renews(q), req[q].alone
                PROVE  /\ \A t \in Remote : Renewed(q, t)'
                       /\ req[q].pc # "clear"
    BY <1>6, <1>7 DEF LoneRenewal, Remote
  <2>1. q = r
    BY <1>1 DEF Stages, AloneIsAlone, Renews
  <2>2. ASSUME NEW t \in Remote
        PROVE  /\ Newest(leg'[r][t], srcCache'[t])
               /\ Over(leg'[r][t]) => outCache'["filter"] = NoOutput
    <3>1. CASE t = s
      BY <2>1, <2>2, <3>1, <1>2, <1>3
    <3>2. CASE t # s
      <4>1. t \in Sources
        BY DEF Remote
      <4>2. leg'[r][t] = leg[r][t] /\ srcCache'[t] = srcCache[t]
        BY <3>2, <4>1, <1>2, <1>3
      <4>3. Renewed(r, t)
        BY <2>1, <1>1 DEF LoneRenewal
      <4>. QED  BY <4>2, <4>3, <1>5 DEF Renewed, Outputs
    <3>. QED  BY <3>1, <3>2
  <2>3. \A t \in Remote : Renewed(r, t)'
    BY <2>2 DEF Renewed, Newest, Over, Carries, NoBody, NoOutput
  <2>. QED  BY <2>1, <2>3
<1>. QED  BY <1>8, <1>9, <1>10, <1>11, <1>12, NoReply DEF IInv

-----------------------------------------------------------------------------
(* The steps of a fetch.                                                   *)

(* What is known of a fetch at a step.                                     *)
LEMMA Fetching ==
    ASSUME IInv, NEW r \in Requests, NEW s \in Sources, NEW st, At(r, s, st)
    PROVE  /\ ~ Idle(r) /\ req[r].pc = "fetch" /\ leg[r][s].st = st
           /\ leg[r][s] \in Legs
           /\ LegAge(leg[r][s], req[r].started, now)
           /\ req[r].started \in Nat /\ req[r].started <= now /\ now \in Nat
           /\ srcCache[s] \in Bodies \cup {NoBody}
           /\ srcCache = [srcCache EXCEPT ![s] = srcCache[s]]
           /\ BodyAge(srcCache[s], now)
           /\ BodyAge(NoBody, now) /\ BodySticks(NoBody, s)
           /\ NoBody \in Bodies \cup {NoBody}
           /\ s \in Watched => BodySticks(srcCache[s], s)
           /\ s \in Watched => (Carries(leg[r][s]) => leg[r][s].at >= tested[s])
           /\ tested[s] \in Nat /\ tested[s] <= now
           /\ st \in {"peek", "look"} => ~ Renews(r)
<1>1. TypeOK /\ Stages /\ Ages /\ Sticks
  BY DEF IInv
<1>2. ~ Idle(r) /\ req[r].pc = "fetch" /\ leg[r][s].st = st
  BY DEF At
<1>3. /\ leg[r][s] \in Legs /\ srcCache[s] \in Bodies \cup {NoBody}
      /\ srcCache = [srcCache EXCEPT ![s] = srcCache[s]]
      /\ tested[s] \in Nat /\ now \in Nat
  BY <1>1 DEF TypeOK
<1>4. req[r].started \in Nat
  BY <1>1, <1>2, RequestForm
<1>5. /\ LegAge(leg[r][s], req[r].started, now) /\ req[r].started <= now
      /\ BodyAge(srcCache[s], now)
  BY <1>1, <1>2 DEF Ages
<1>6. BodyAge(NoBody, now) /\ BodySticks(NoBody, s)
  BY DEF BodyAge, BodySticks
<1>7. /\ s \in Watched => BodySticks(srcCache[s], s)
      /\ s \in Watched => (Carries(leg[r][s]) => leg[r][s].at >= tested[s])
      /\ tested[s] <= now
  BY <1>1 DEF Sticks
<1>8. st \in {"peek", "look"} => ~ Renews(r)
  BY <1>1, <1>2 DEF Stages, RenewsByForce
<1>. QED  BY <1>2, <1>3, <1>4, <1>5, <1>6, <1>7, <1>8

(* A leg that carries nothing is never too old.                            *)
LEMMA EmptyLeg ==
    ASSUME NEW l \in Legs, ~ Carries(l), l.at = 0,
           NEW started \in Nat, NEW t \in Nat, NEW b
    PROVE  LegAge(l, started, t) /\ Newest(l, b) /\ ~ Over(l)
BY DEF LegAge, Newest, Over, Carries

(* What is used from the cache is alive, and keeps its age.                *)
LEMMA CachedLeg ==
    ASSUME TypeOK, NEW s \in Sources, Usable(s), BodyAge(srcCache[s], now),
           NEW started \in Nat, started <= now
    PROVE  /\ Parsed(s) \in Legs
           /\ LegAge(Parsed(s), started, now)
           /\ Parsed(s).st = "done"
           /\ BodySticks(srcCache[s], s)
                 => (Carries(Parsed(s)) => Parsed(s).at >= tested[s])
<1>. USE Constants
<1>1. /\ srcCache[s] \in Bodies \cup {NoBody} /\ srcCache[s] # NoBody
      /\ now \in Nat
      /\ ~ (now > srcCache[s].exp) /\ srcCache[s].form = "typed"
  BY DEF TypeOK, Usable, Held
<1>2. PICK b \in Bodies : b = srcCache[s]
  BY <1>1
<1>3. /\ b.at \in Nat /\ b.held \in Nat /\ b.exp \in Nat /\ b.ok \in BOOLEAN
      /\ b # NoBody
  BY <1>1, <1>2, BodyForm
<1>4. Parsed(s) = [st |-> "done", at |-> b.at, held |-> b.held, ok |-> b.ok]
  BY <1>2 DEF Parsed
<1>5. Parsed(s) \in Legs
  BY <1>3, <1>4 DEF Legs, LegStates
<1>6. b.exp = b.at + b.held + SourceTTL /\ b.at + b.held <= now /\ now <= b.exp
  BY <1>1, <1>2, <1>3 DEF BodyAge
<1>7. /\ Parsed(s).at = b.at /\ Parsed(s).held = b.held
      /\ Parsed(s).st = "done"
  BY <1>4
<1>8. LegAge(Parsed(s), started, now)
  BY <1>1, <1>3, <1>6, <1>7 DEF LegAge
<1>. QED  BY <1>1, <1>2, <1>5, <1>7, <1>8 DEF BodySticks

(* cache.Get leaves the entry, or deletes it.                              *)
LEMMA ExpireForm ==
    ASSUME NEW s \in Sources, Expire(s),
           srcCache = [srcCache EXCEPT ![s] = srcCache[s]]
    PROVE  srcCache' = [srcCache EXCEPT ![s] = IF Held(s) THEN srcCache[s]
                                               ELSE NoBody]
BY DEF Expire

(* A look in the cache, of Peek or of Look.                                *)
LEMMA LookKeeps ==
    ASSUME IInv, NEW r \in Requests, NEW s \in Sources,
           NEW st \in {"peek", "look"}, At(r, s, st),
           NEW l \in Legs,
           \/ l = Parsed(s) /\ Usable(s)
           \/ ~ Carries(l) /\ l.at = 0,
           Step(r, s, l), Expire(s) \/ UNCHANGED srcCache,
           reply' = Nothing,
           UNCHANGED <<now, srcFile, outCache, req, tested, raced>>
    PROVE  IInv'
<1>. USE Constants
<1>1. /\ ~ Idle(r) /\ req[r].pc = "fetch" /\ ~ Renews(r)
      /\ req[r].started \in Nat /\ req[r].started <= now /\ now \in Nat
      /\ srcCache[s] \in Bodies \cup {NoBody}
      /\ srcCache = [srcCache EXCEPT ![s] = srcCache[s]]
      /\ BodyAge(srcCache[s], now)
      /\ BodyAge(NoBody, now) /\ BodySticks(NoBody, s)
      /\ s \in Watched => BodySticks(srcCache[s], s)
  BY Fetching
<1>2. PICK b \in Bodies \cup {NoBody} :
         /\ b \in {srcCache[s], NoBody}
         /\ srcCache' = [srcCache EXCEPT ![s] = b]
  BY <1>1, ExpireForm
<1>3. BodyAge(b, now) /\ (s \in Watched => BodySticks(b, s))
  BY <1>1, <1>2
<1>4. /\ LegAge(l, req[r].started, now)
      /\ s \in Watched => (Carries(l) => l.at >= tested[s])
  <2>1. CASE l = Parsed(s) /\ Usable(s)
    <3>1. TypeOK
      BY DEF IInv
    <3>2. /\ LegAge(Parsed(s), req[r].started, now)
          /\ BodySticks(srcCache[s], s)
                => (Carries(Parsed(s)) => Parsed(s).at >= tested[s])
      BY <1>1, <2>1, <3>1, CachedLeg
    <3>. QED  BY <1>1, <2>1, <3>2
  <2>2. CASE ~ Carries(l) /\ l.at = 0
    <3>1. PICK started \in Nat : started = req[r].started
      BY <1>1
    <3>. QED  BY <1>1, <2>2, <3>1, EmptyLeg
  <2>. QED  BY <2>1, <2>2
<1>. QED  BY <1>1, <1>2, <1>3, <1>4, FetchKeeps

(* FilterHandler looks in the cache itself.                                *)
LEMMA PeekKeeps ==
    ASSUME IInv, NEW r \in Requests, NEW s \in Sources, Peek(r, s)
    PROVE  IInv'
<1>1. /\ At(r, s, "peek") /\ Expire(s) /\ reply' = Nothing
      /\ UNCHANGED <<now, srcFile, outCache, req, tested, raced>>
      /\ \/ Usable(s) /\ Step(r, s, Parsed(s))
         \/ Step(r, s, Leg("done")) \/ Step(r, s, Leg("look"))
  BY DEF Peek
<1>2. CASE Usable(s) /\ Step(r, s, Parsed(s))
  <2>1. Parsed(s) \in Legs
    <3>1. TypeOK
      BY DEF IInv
    <3>2. /\ req[r].started \in Nat /\ req[r].started <= now
          /\ BodyAge(srcCache[s], now)
      BY <1>1, Fetching
    <3>. QED  BY <1>2, <3>1, <3>2, CachedLeg
  <2>2. PICK l \in Legs : l = Parsed(s)
    BY <2>1
  <2>3. Step(r, s, l)
    BY <1>2, <2>2 DEF Step
  <2>4. l = Parsed(s) /\ Usable(s)
    BY <1>2, <2>2
  <2>. QED  BY <1>1, <2>3, <2>4, LookKeeps
<1>3. ASSUME NEW st \in {"done", "look"}, Step(r, s, Leg(st))
      PROVE  IInv'
  <2>1. Leg(st) \in Legs /\ ~ Carries(Leg(st)) /\ Leg(st).at = 0
    BY NewLeg DEF LegStates
  <2>2. PICK l \in Legs : l = Leg(st) /\ ~ Carries(l) /\ l.at = 0
    BY <2>1
  <2>3. Step(r, s, l)
    BY <1>3, <2>2 DEF Step
  <2>. QED  BY <1>1, <2>2, <2>3, LookKeeps
<1>. QED  BY <1>1, <1>2, <1>3

(* FetchAndParseYAML looks in the cache.                                   *)
LEMMA LookStepKeeps ==
    ASSUME IInv, NEW r \in Requests, NEW s \in Sources, Look(r, s)
    PROVE  IInv'
<1>1. /\ At(r, s, "look") /\ (Expire(s) \/ UNCHANGED srcCache)
      /\ reply' = Nothing
      /\ UNCHANGED <<now, srcFile, outCache, req, tested, raced>>
      /\ \/ Usable(s) /\ Step(r, s, Parsed(s))
         \/ Step(r, s, Leg("http"))
  BY DEF Look
<1>2. CASE Usable(s) /\ Step(r, s, Parsed(s))
  <2>1. Parsed(s) \in Legs
    <3>1. TypeOK
      BY DEF IInv
    <3>2. /\ req[r].started \in Nat /\ req[r].started <= now
          /\ BodyAge(srcCache[s], now)
      BY <1>1, Fetching
    <3>. QED  BY <1>2, <3>1, <3>2, CachedLeg
  <2>2. PICK l \in Legs : l = Parsed(s)
    BY <2>1
  <2>3. Step(r, s, l)
    BY <1>2, <2>2 DEF Step
  <2>4. l = Parsed(s) /\ Usable(s)
    BY <1>2, <2>2
  <2>. QED  BY <1>1, <2>3, <2>4, LookKeeps
<1>3. CASE Step(r, s, Leg("http"))
  <2>1. Leg("http") \in Legs /\ ~ Carries(Leg("http")) /\ Leg("http").at = 0
    BY NewLeg DEF LegStates
  <2>2. PICK l \in Legs : l = Leg("http") /\ ~ Carries(l) /\ l.at = 0
    BY <2>1
  <2>3. Step(r, s, l)
    BY <1>3, <2>2 DEF Step
  <2>. QED  BY <1>1, <2>2, <2>3, LookKeeps
<1>. QED  BY <1>1, <1>2, <1>3

(* The server answers, or the fetch fails.                                 *)
LEMMA RespondKeeps ==
    ASSUME IInv, NEW r \in Requests, NEW s \in Sources, Respond(r, s)
    PROVE  IInv'
<1>1. /\ At(r, s, "http") /\ reply' = Nothing
      /\ UNCHANGED <<now, srcCache, srcFile, outCache, req, tested, raced>>
      /\ \/ \E outcome \in Outcomes \ {"error"} :
               Step(r, s, [st |-> "got", at |-> now, held |-> 0,
                           ok |-> outcome = "good"])
         \/ Step(r, s, Leg("done"))
  BY DEF Respond
<1>2. /\ ~ Idle(r) /\ req[r].pc = "fetch"
      /\ req[r].started \in Nat /\ req[r].started <= now /\ now \in Nat
      /\ srcCache[s] \in Bodies \cup {NoBody}
      /\ srcCache = [srcCache EXCEPT ![s] = srcCache[s]]
      /\ BodyAge(srcCache[s], now)
      /\ s \in Watched => BodySticks(srcCache[s], s)
      /\ tested[s] \in Nat /\ tested[s] <= now
  BY <1>1, Fetching
<1>3. PICK b \in Bodies \cup {NoBody} : b = srcCache[s]
  BY <1>2
<1>4. srcCache' = [srcCache EXCEPT ![s] = b]
  BY <1>1, <1>2, <1>3
<1>5. BodyAge(b, now) /\ (s \in Watched => BodySticks(b, s))
  BY <1>2, <1>3
<1>6. PICK started \in Nat : started = req[r].started
  BY <1>2
<1>7. PICK t \in Nat : t = now
  BY <1>2
<1>8. ASSUME NEW ok \in BOOLEAN,
             Step(r, s, [st |-> "got", at |-> now, held |-> 0, ok |-> ok])
      PROVE  IInv'
  <2>1. PICK l \in Legs :
           l = [st |-> "got", at |-> t, held |-> 0, ok |-> ok]
    BY DEF Legs, LegStates
  <2>2. Step(r, s, l)
    BY <1>7, <1>8, <2>1
  <2>3. l.st = "got" /\ l.at = t
    BY <2>1
  <2>4. LegAge(l, req[r].started, now)
    BY <1>2, <1>7, <2>3 DEF LegAge
  <2>5. Newest(l, b) /\ ~ Over(l) /\ l.at >= tested[s]
    BY <1>2, <1>7, <2>3 DEF Newest, Over
  <2>. QED  BY <1>1, <1>2, <1>4, <1>5, <2>2, <2>3, <2>4, <2>5, FetchKeeps
<1>9. CASE Step(r, s, Leg("done"))
  <2>1. Leg("done") \in Legs /\ ~ Carries(Leg("done")) /\ Leg("done").at = 0
        /\ Leg("done").st = "done"
    BY NewLeg DEF LegStates
  <2>2. PICK l \in Legs :
           l = Leg("done") /\ ~ Carries(l) /\ l.at = 0 /\ l.st = "done"
    BY <2>1
  <2>3. Step(r, s, l)
    BY <1>9, <2>2 DEF Step
  <2>4. LegAge(l, started, t) /\ Newest(l, b) /\ ~ Over(l)
    BY <2>2, EmptyLeg
  <2>5. LegAge(l, req[r].started, now)
    BY <1>6, <1>7, <2>4
  <2>. QED  BY <1>1, <1>2, <1>4, <1>5, <2>2, <2>3, <2>4, <2>5, FetchKeeps
<1>10. \A outcome : (outcome = "good") \in BOOLEAN
  OBVIOUS
<1>. QED  BY <1>1, <1>8, <1>9, <1>10

(* The body goes into the cache and, at some time, into its file.          *)
LEMMA StoreKeeps ==
    ASSUME IInv, NEW r \in Requests, NEW s \in Sources, Store(r, s)
    PROVE  IInv'
<1>. USE Constants
<1>1. /\ At(r, s, "got") /\ reply' = Nothing
      /\ UNCHANGED <<now, outCache, req, tested, raced>>
  BY DEF Store
<1>2. /\ ~ Idle(r) /\ req[r].pc = "fetch" /\ leg[r][s].st = "got"
      /\ leg[r][s] \in Legs
      /\ LegAge(leg[r][s], req[r].started, now)
      /\ req[r].started \in Nat /\ req[r].started <= now /\ now \in Nat
      /\ s \in Watched => (Carries(leg[r][s]) => leg[r][s].at >= tested[s])
      /\ tested[s] \in Nat
  BY <1>1, Fetching
<1>3. PICK k \in Legs : k = leg[r][s]
  BY <1>2
<1>4. /\ k.st = "got" /\ k.at \in Nat /\ k.ok \in BOOLEAN
      /\ k.at <= now /\ req[r].started <= k.at
      /\ s \in Watched => k.at >= tested[s]
  BY <1>2, <1>3, LegForm DEF LegAge, Carries
<1>5. PICK t \in Nat : t = now
  BY <1>2
<1>6. PICK held \in Nat : held = t - k.at
  BY <1>4, <1>5
<1>7. PICK st \in {"done", "stored"} :
         st = IF s \in LocalSources THEN "done" ELSE "stored"
  OBVIOUS
<1>8. PICK b \in Bodies :
         b = [form |-> "typed", at |-> k.at, held |-> held, ok |-> k.ok,
              exp |-> t + SourceTTL]
  <2>1. t + SourceTTL \in Nat
    BY <1>5
  <2>2. [form |-> "typed", at |-> k.at, held |-> held, ok |-> k.ok,
         exp |-> t + SourceTTL] \in Bodies
    BY <1>4, <2>1 DEF Bodies
  <2>. QED  BY <2>2
<1>9. PICK l \in Legs :
         l = [st |-> st, at |-> k.at, held |-> held, ok |-> k.ok]
  BY <1>4, <1>6, <1>7 DEF Legs, LegStates
<1>10. [k EXCEPT !.held = held, !.st = st] = l
  <2>1. k = [st |-> k.st, at |-> k.at, held |-> k.held, ok |-> k.ok]
    BY LegForm
  <2>. DEFINE z == [st |-> k.st, at |-> k.at, held |-> held, ok |-> k.ok]
  <2>2. [k EXCEPT !.held = held] = z
    BY <2>1
  <2>3. [z EXCEPT !.st = st] = l
    BY <1>9
  <2>. HIDE DEF z
  <2>. QED  BY <2>2, <2>3
<1>11. /\ srcCache' = [srcCache EXCEPT ![s] = b]
       /\ srcFile' = [srcFile EXCEPT ![s] = b] \/ srcFile' = srcFile
       /\ Step(r, s, l)
  <2>1. /\ t - k.at = now - leg[r][s].at
        /\ held = now - leg[r][s].at
    BY <1>3, <1>5, <1>6
  <2>2. b = [form |-> "typed", at |-> leg[r][s].at,
             held |-> now - leg[r][s].at, ok |-> leg[r][s].ok,
             exp |-> now + SourceTTL]
    BY <1>3, <1>5, <1>8, <2>1
  <2>3. l = [leg[r][s] EXCEPT !.held = now - leg[r][s].at,
                !.st = IF s \in LocalSources THEN "done" ELSE "stored"]
    BY <1>3, <1>7, <1>10, <2>1
  <2>. QED  BY <2>2, <2>3 DEF Store
<1>12. /\ b.form = "typed" /\ b.at = k.at /\ b.held = held
       /\ b.exp = t + SourceTTL
       /\ l.st = st /\ l.at = k.at /\ l.held = held
  BY <1>8, <1>9
<1>13. BodyAge(b, now) /\ (s \in Watched => BodySticks(b, s))
  BY <1>4, <1>5, <1>6, <1>12 DEF BodyAge, BodySticks
<1>14. LegAge(l, req[r].started, now)
  <2>1. k.at <= now /\ l.st # "got"
    BY <1>4, <1>7, <1>12
  <2>2. req[r].started <= k.at + held + SourceTTL
    BY <1>2, <1>4, <1>6
  <2>. QED  BY <1>12, <2>1, <2>2 DEF LegAge
<1>15. Newest(l, b) /\ (s \in Remote => ~ Over(l))
  BY <1>4, <1>7, <1>12 DEF Newest, Over, Remote
<1>16. b \in Bodies \cup {NoBody} /\ l.st \notin {"peek", "look"}
  BY <1>7, <1>12
<1>17. s \in Watched => (Carries(l) => l.at >= tested[s])
  BY <1>4, <1>12
<1>. QED
  BY <1>1, <1>2, <1>11, <1>13, <1>14, <1>15, <1>16, <1>17, FetchKeeps

(* The answers of /filter are cleared after the body is stored.            *)
LEMMA InvalidateKeeps ==
    ASSUME IInv, NEW r \in Requests, NEW s \in Sources, Invalidate(r, s)
    PROVE  IInv'
<1>. USE Constants
<1>1. /\ At(r, s, "stored") /\ reply' = Nothing
      /\ outCache' = [outCache EXCEPT !["filter"] = NoOutput]
      /\ UNCHANGED <<now, srcCache, srcFile, req, tested, raced>>
  BY DEF Invalidate
<1>2. /\ ~ Idle(r) /\ req[r].pc = "fetch" /\ leg[r][s].st = "stored"
      /\ leg[r][s] \in Legs
      /\ LegAge(leg[r][s], req[r].started, now)
      /\ srcCache[s] \in Bodies \cup {NoBody}
      /\ srcCache = [srcCache EXCEPT ![s] = srcCache[s]]
      /\ BodyAge(srcCache[s], now)
      /\ s \in Watched => BodySticks(srcCache[s], s)
      /\ s \in Watched => (Carries(leg[r][s]) => leg[r][s].at >= tested[s])
  BY <1>1, Fetching
<1>3. PICK k \in Legs : k = leg[r][s]
  BY <1>2
<1>4. PICK b \in Bodies \cup {NoBody} : b = srcCache[s]
  BY <1>2
<1>5. PICK l \in Legs :
         l = [st |-> "done", at |-> k.at, held |-> k.held, ok |-> k.ok]
  <2>1. k.at \in Nat /\ k.held \in Nat /\ k.ok \in BOOLEAN
    BY LegForm
  <2>. QED  BY <2>1 DEF Legs, LegStates
<1>6. Step(r, s, l)
  <2>1. k = [st |-> k.st, at |-> k.at, held |-> k.held, ok |-> k.ok]
    BY LegForm
  <2>. DEFINE y == [st |-> k.st, at |-> k.at, held |-> k.held, ok |-> k.ok]
  <2>2. [y EXCEPT !.st = "done"] = l
    BY <1>5
  <2>3. [leg[r][s] EXCEPT !.st = "done"] = l
    BY <1>3, <2>1, <2>2
  <2>. QED  BY <2>3 DEF Invalidate
<1>7. l.st = "done" /\ l.at = k.at /\ l.held = k.held /\ (l.ok <=> k.ok)
  BY <1>5
<1>8. Carries(k) /\ k.st = "stored"
  BY <1>2, <1>3 DEF Carries
<1>9. LegAge(l, req[r].started, now)
  BY <1>2, <1>3, <1>7, <1>8 DEF LegAge, Carries
<1>10. s \in Watched => (Carries(l) => l.at >= tested[s])
  BY <1>2, <1>3, <1>7, <1>8
<1>11. (Renews(r) /\ req[r].alone /\ s \in Remote)
           => Newest(l, b) /\ (Over(l) => outCache'["filter"] = NoOutput)
  <2>. SUFFICES ASSUME Renews(r), req[r].alone, s \in Remote
                PROVE  Newest(l, b) /\ outCache'["filter"] = NoOutput
    OBVIOUS
  <2>1. Newest(k, b)
    BY <1>3, <1>4 DEF IInv, LoneRenewal, Renewed
  <2>2. Newest(l, b)
    BY <1>7, <1>8, <2>1 DEF Newest
  <2>3. outCache'["filter"] = NoOutput
    BY <1>1 DEF IInv, TypeOK, Outputs
  <2>. QED  BY <2>2, <2>3
<1>12. srcCache' = [srcCache EXCEPT ![s] = b]
  BY <1>1, <1>2, <1>4
<1>13. BodyAge(b, now) /\ (s \in Watched => BodySticks(b, s))
  BY <1>2, <1>4
<1>14. l.st \notin {"peek", "look"}
  BY <1>7
<1>. QED
  BY <1>1, <1>2, <1>6, <1>9, <1>10, <1>11, <1>12, <1>13, <1>14, FetchKeeps

-----------------------------------------------------------------------------
(* A request arrives.                                                      *)

Restless == {"off", "peek", "look", "http"}

(* The first step of a fetch carries no body.                              *)
LEMMA FirstLeg ==
    ASSUME NEW st \in Restless
    PROVE  /\ Leg(st) \in Legs /\ Leg(st).st = st /\ ~ Carries(Leg(st))
           /\ \A started, t \in Nat : LegAge(Leg(st), started, t)
<1>1. st \in LegStates /\ st \notin {"got", "stored"}
  BY DEF Restless, LegStates
<1>2. /\ Leg(st) \in Legs /\ Leg(st).st = st /\ ~ Carries(Leg(st))
      /\ Leg(st).at = 0
  BY <1>1, NewLeg
<1>3. PICK l \in Legs : l = Leg(st)
  BY <1>2
<1>4. \A started, t \in Nat : LegAge(l, started, t)
  BY <1>2, <1>3 DEF LegAge, Carries
<1>. QED  BY <1>2, <1>3, <1>4

(* Begin makes r a request, and no other is alone any more.                *)
LEMMA BeginRequests ==
    ASSUME TypeOK, NEW r \in Requests, NEW kind \in AllKinds,
           NEW pc \in {"stale", "fetch"}, NEW targets,
           NEW first \in Restless,
           Begin(r, kind, pc, targets, first), Idle(r)
    PROVE  /\ req' \in [Requests -> Active \cup {IdleReq}]
           /\ req'[r].kind = kind /\ req'[r].pc = pc /\ req'[r].started = now
           /\ req'[r] # IdleReq
           /\ req'[r].alone => \A q \in Requests \ {r} : Idle(q)
           /\ \A q \in Requests \ {r} :
                 /\ (req'[q] = IdleReq) <=> Idle(q)
                 /\ ~ Idle(q) => /\ req'[q].kind = req[q].kind
                                 /\ req'[q].pc = req[q].pc
                                 /\ req'[q].started = req[q].started
                                 /\ ~ req'[q].alone
<1>1. now \in Nat /\ req \in [Requests -> Active \cup {IdleReq}]
  BY DEF TypeOK
<1>2. \A x \in Active : x # IdleReq
  BY DEF Active, IdleReq, AllKinds
<1>3. PICK t \in Nat : t = now
  BY <1>1
<1>4. PICK lone \in BOOLEAN : lone = (\A p \in Requests \ {r} : Idle(p))
  OBVIOUS
<1>5. PICK new \in Active :
         new = [kind |-> kind, pc |-> pc, started |-> t, alone |-> lone]
  BY DEF Active
<1>6. /\ new.kind = kind /\ new.pc = pc /\ new.started = t
      /\ new.alone <=> lone
  BY <1>5
<1>7. ASSUME NEW x \in Active
      PROVE  /\ [x EXCEPT !.alone = FALSE] \in Active
             /\ [x EXCEPT !.alone = FALSE].kind = x.kind
             /\ [x EXCEPT !.alone = FALSE].pc = x.pc
             /\ [x EXCEPT !.alone = FALSE].started = x.started
             /\ ~ [x EXCEPT !.alone = FALSE].alone
  BY <1>7 DEF Active
<1>8. req' = [q \in Requests |->
                 IF q = r THEN new
                 ELSE IF Idle(q) THEN IdleReq
                 ELSE [req[q] EXCEPT !.alone = FALSE]]
  BY <1>3, <1>4, <1>5 DEF Begin
<1>9. req'[r] = new
  BY <1>8
<1>10. ASSUME NEW q \in Requests \ {r}
       PROVE  /\ req'[q] \in Active \cup {IdleReq}
              /\ (req'[q] = IdleReq) <=> Idle(q)
              /\ ~ Idle(q) => /\ req'[q].kind = req[q].kind
                              /\ req'[q].pc = req[q].pc
                              /\ req'[q].started = req[q].started
                              /\ ~ req'[q].alone
  <2>1. CASE Idle(q)
    BY <1>8, <1>10, <2>1
  <2>2. CASE ~ Idle(q)
    <3>1. req[q] \in Active
      BY <1>1, <2>2 DEF Idle
    <3>2. PICK x \in Active : x = req[q]
      BY <3>1
    <3>3. req'[q] = [x EXCEPT !.alone = FALSE]
      BY <1>8, <1>10, <2>2, <3>2
    <3>. QED  BY <1>2, <1>7, <2>2, <3>2, <3>3
  <2>. QED  BY <2>1, <2>2
<1>11. req' \in [Requests -> Active \cup {IdleReq}]
  <2>1. \A q \in Requests : req'[q] \in Active \cup {IdleReq}
    BY <1>9, <1>10
  <2>2. req' = [q \in Requests |-> req'[q]]
    BY <1>8
  <2>. QED  BY <2>1, <2>2
<1>12. (req'[r].alone) => \A q \in Requests \ {r} : Idle(q)
  BY <1>4, <1>6, <1>9
<1>. QED  BY <1>2, <1>3, <1>6, <1>9, <1>10, <1>11, <1>12

(* Begin sets the legs of r, and only those.                               *)
LEMMA BeginLegs ==
    ASSUME TypeOK, NEW r \in Requests, NEW kind, NEW pc, NEW targets,
           NEW first \in Restless,
           Begin(r, kind, pc, targets, first)
    PROVE  /\ leg' \in [Requests -> [Sources -> Legs]]
           /\ \A s \in Sources : \E st \in {first, "off"} : leg'[r][s] = Leg(st)
           /\ \A q \in Requests \ {r} : leg'[q] = leg[q]
<1>1. leg \in [Requests -> [Sources -> Legs]]
  BY DEF TypeOK
<1>. DEFINE g == [s \in Sources |->
                     Leg(IF s \in targets THEN first ELSE "off")]
<1>2. Leg(first) \in Legs /\ Leg("off") \in Legs
  BY FirstLeg DEF Restless
<1>3. /\ g \in [Sources -> Legs]
      /\ \A s \in Sources : \E st \in {first, "off"} : g[s] = Leg(st)
  BY <1>2
<1>4. leg' = [leg EXCEPT ![r] = g]
  BY DEF Begin
<1>. HIDE DEF g
<1>5. leg'[r] = g /\ \A q \in Requests \ {r} : leg'[q] = leg[q]
  BY <1>1, <1>4
<1>6. leg' \in [Requests -> [Sources -> Legs]]
  BY <1>1, <1>3, <1>4
<1>. QED  BY <1>3, <1>5, <1>6

(* A request begins, and at most one output is cleared with it.            *)
LEMMA BeginKeeps ==
    ASSUME IInv,
           NEW r \in Requests, NEW kind \in AllKinds,
           NEW pc \in {"stale", "fetch"}, NEW targets,
           NEW first \in Restless,
           Idle(r), Begin(r, kind, pc, targets, first),
           kind \in {"test", "refresh"} => first \notin {"peek", "look"},
           pc = "stale" => kind = "sub" /\ outCache'["sub"] = NoOutput,
           \/ outCache' = outCache
           \/ \E o \in Outputs : outCache' = [outCache EXCEPT ![o] = NoOutput],
           reply' = Nothing,
           UNCHANGED <<now, srcCache, srcFile, tested, raced>>
    PROVE  IInv'
<1>. USE Constants
<1>1. TypeOK /\ Stages /\ Ages /\ Sticks /\ now \in Nat
  BY DEF IInv, TypeOK
<1>2. /\ req' \in [Requests -> Active \cup {IdleReq}]
      /\ req'[r].kind = kind /\ req'[r].pc = pc /\ req'[r].started = now
      /\ req'[r] # IdleReq
      /\ req'[r].alone => \A q \in Requests \ {r} : Idle(q)
      /\ \A q \in Requests \ {r} :
            /\ (req'[q] = IdleReq) <=> Idle(q)
            /\ ~ Idle(q) => /\ req'[q].kind = req[q].kind
                            /\ req'[q].pc = req[q].pc
                            /\ req'[q].started = req[q].started
                            /\ ~ req'[q].alone
  BY <1>1, BeginRequests
<1>3. /\ leg' \in [Requests -> [Sources -> Legs]]
      /\ \A s \in Sources : \E st \in {first, "off"} : leg'[r][s] = Leg(st)
      /\ \A q \in Requests \ {r} : leg'[q] = leg[q]
  BY <1>1, BeginLegs
<1>4. ASSUME NEW s \in Sources
      PROVE  /\ leg'[r][s].st \in {first, "off"}
             /\ ~ Carries(leg'[r][s])
             /\ LegAge(leg'[r][s], now, now)
  <2>1. PICK st \in {first, "off"} : leg'[r][s] = Leg(st)
    BY <1>3, <1>4
  <2>2. st \in Restless
    BY DEF Restless
  <2>. QED  BY <1>1, <2>1, <2>2, FirstLeg
<1>5. /\ outCache' \in [Outputs -> Answers \cup {NoOutput}]
      /\ \A o \in Outputs : outCache'[o] \in {outCache[o], NoOutput}
  BY <1>1 DEF TypeOK
<1>6. /\ now' = now /\ srcCache' = srcCache /\ srcFile' = srcFile
      /\ tested' = tested /\ raced' = raced
  OBVIOUS
<1>7. /\ ~ Idle(r)'
      /\ \A q \in Requests \ {r} : Idle(q)' <=> Idle(q)
      /\ Renews(r)' <=> kind \in {"test", "refresh"}
      /\ \A q \in Requests \ {r} : Renews(q)' <=> Renews(q)
      /\ Watched' = Watched
  BY <1>2, <1>6 DEF Idle, Renews, Watched, IdleReq
<1>8. TypeOK'
  <2>1. reply' \in Replies \cup {Nothing}
    OBVIOUS
  <2>. QED  BY <1>1, <1>2, <1>3, <1>5, <1>6, <2>1 DEF TypeOK, Nothing
<1>9. Stages'
  <2>1. IdleFetchesNothing'
    BY <1>1, <1>3, <1>7 DEF Stages, IdleFetchesNothing
  <2>2. AloneIsAlone'
    BY <1>2, <1>7 DEF AloneIsAlone
  <2>3. RenewsByForce'
    <3>1. /\ Renews(r)' => \A s \in Sources : leg'[r][s].st \notin {"peek", "look"}
          /\ req'[r].pc = "stale" => req'[r].kind = "sub"
          /\ req'[r].pc # "clear"
      BY <1>2, <1>4, <1>7
    <3>2. ASSUME NEW q \in Requests \ {r}
          PROVE  /\ Renews(q)' => \A s \in Sources :
                                     leg'[q][s].st \notin {"peek", "look"}
                 /\ (~ Idle(q)' /\ req'[q].pc = "stale") => req'[q].kind = "sub"
                 /\ (~ Idle(q)' /\ req'[q].pc = "clear")
                       => req'[q].kind = "refresh"
      BY <1>1, <1>2, <1>3, <1>7, <3>2 DEF Stages, RenewsByForce
    <3>. QED  BY <3>1, <3>2 DEF RenewsByForce
  <2>. QED  BY <2>1, <2>2, <2>3 DEF Stages
<1>10. Ages'
  <2>1. \A t \in Sources : BodyAge(srcCache[t], now)' /\ BodyAge(srcFile[t], now)'
    BY <1>1, <1>6 DEF Ages, BodyAge, NoBody
  <2>2. \A o \in Outputs : OutputAge(outCache[o], now)'
    BY <1>1, <1>5, <1>6 DEF Ages, OutputAge, NoOutput
  <2>3. /\ req'[r].started <= now
        /\ StaleAge(r)'
        /\ \A s \in Sources : LegAge(leg'[r][s], req'[r].started, now)
    BY <1>1, <1>2, <1>4 DEF StaleAge, NoOutput
  <2>4. ASSUME NEW q \in Requests \ {r}, ~ Idle(q)
        PROVE  /\ req'[q].started <= now
               /\ StaleAge(q)'
               /\ \A s \in Sources : LegAge(leg'[q][s], req'[q].started, now)
    <3>1. /\ req'[q].started = req[q].started /\ req'[q].pc = req[q].pc
          /\ leg'[q] = leg[q]
      BY <1>2, <1>3, <2>4
    <3>2. StaleAge(q)'
      <4>1. outCache'["sub"] \in {outCache["sub"], NoOutput}
        BY <1>5 DEF Outputs
      <4>. QED  BY <1>1, <2>4, <3>1, <4>1 DEF Ages, StaleAge, NoOutput
    <3>. QED  BY <1>1, <2>4, <3>1, <3>2 DEF Ages
  <2>5. ASSUME NEW q \in Requests, ~ Idle(q)'
        PROVE  /\ req'[q].started <= now'
               /\ StaleAge(q)'
               /\ \A s \in Sources : LegAge(leg[q][s], req[q].started, now)'
    <3>1. /\ req'[q].started <= now
          /\ StaleAge(q)'
          /\ \A s \in Sources : LegAge(leg'[q][s], req'[q].started, now)
      BY <1>7, <2>3, <2>4, <2>5
    <3>. QED  BY <1>6, <3>1 DEF LegAge, Carries
  <2>. QED  BY <2>1, <2>2, <2>5 DEF Ages
<1>11. Sticks'
  <2>1. \A o \in Outputs : OutputSticks(outCache[o])'
    BY <1>1, <1>5, <1>6, <1>7 DEF Sticks, OutputSticks, NoOutput
  <2>2. ASSUME NEW t \in Watched
        PROVE  /\ BodySticks(srcCache[t], t)'
               /\ \A q \in Requests :
                     Carries(leg'[q][t]) => leg'[q][t].at >= tested[t]
    <3>1. t \in Sources
      BY DEF Watched
    <3>2. BodySticks(srcCache[t], t)
      BY <3>1, <1>1 DEF Sticks
    <3>3. \A q \in Requests : Carries(leg'[q][t]) => leg'[q][t].at >= tested[t]
      BY <3>1, <1>1, <1>3, <1>4 DEF Sticks
    <3>. QED  BY <3>2, <3>3, <1>6 DEF BodySticks, NoBody
  <2>3. \A t \in Watched, q \in Requests :
            Carries(leg[q][t])' <=> Carries(leg'[q][t])
    BY DEF Carries
  <2>. QED  BY <2>1, <2>2, <2>3, <1>1, <1>6, <1>7 DEF Sticks
<1>12. LoneRenewal'
  <2>. SUFFICES ASSUME NEW q \in Requests, Renews(q)', req'[q].alone
                PROVE  /\ \A t \in Remote : Renewed(q, t)'
                       /\ req'[q].pc # "clear"
    BY DEF LoneRenewal, Remote
  <2>1. q = r
    BY <1>2, <1>7 DEF Renews
  <2>2. \A t \in Remote : ~ Carries(leg'[r][t])
    BY <1>4 DEF Remote
  <2>3. \A t \in Remote : Renewed(r, t)'
    BY <2>2 DEF Renewed, Newest, Over, Carries
  <2>. QED  BY <1>2, <2>1, <2>3
<1>. QED  BY <1>8, <1>9, <1>10, <1>11, <1>12, NoReply DEF IInv

(* An answer is asked for, and is not there or has expired.                *)
LEMMA OutputMissKeeps ==
    ASSUME IInv, NEW r \in Requests, NEW o \in Outputs, OutputMiss(r, o)
    PROVE  IInv'
<1>1. /\ Idle(r) /\ reply' = Nothing
      /\ outCache' = [outCache EXCEPT ![o] = NoOutput]
      /\ UNCHANGED <<now, srcCache, srcFile, tested, raced>>
      /\ IF o = "sub"
         THEN Begin(r, "sub", "stale", {}, "off")
         ELSE Begin(r, "filter", "fetch", Sources, "peek")
  BY DEF OutputMiss
<1>2. outCache'[o] = NoOutput
  BY <1>1 DEF IInv, TypeOK
<1>3. "off" \in Restless /\ "peek" \in Restless
      /\ "sub" \in AllKinds /\ "filter" \in AllKinds
  BY DEF Restless, AllKinds
<1>4. CASE o = "sub"
  <2>1. Begin(r, "sub", "stale", {}, "off")
    BY <1>1, <1>4
  <2>2. outCache'["sub"] = NoOutput
    BY <1>2, <1>4
  <2>. QED  BY <1>1, <1>3, <2>1, <2>2, BeginKeeps
<1>5. CASE o # "sub"
  <2>1. Begin(r, "filter", "fetch", Sources, "peek")
    BY <1>1, <1>5
  <2>. QED  BY <1>1, <1>3, <2>1, BeginKeeps
<1>. QED  BY <1>4, <1>5

(* A preview clears the answers of /sub first.                             *)
LEMMA PreviewKeeps ==
    ASSUME IInv, NEW r \in Requests, Preview(r)
    PROVE  IInv'
<1>1. /\ Idle(r) /\ reply' = Nothing
      /\ outCache' = [outCache EXCEPT !["sub"] = NoOutput]
      /\ UNCHANGED <<now, srcCache, srcFile, tested, raced>>
      /\ Begin(r, "preview", "fetch", Sources, "look")
  BY DEF Preview
<1>2. "look" \in Restless /\ "preview" \in AllKinds /\ "sub" \in Outputs
  BY DEF Restless, AllKinds, Outputs
<1>. QED  BY <1>1, <1>2, BeginKeeps

(* The requests that touch no output when they begin.                      *)
LEMMA StartsKeeps ==
    ASSUME IInv, NEW r \in Requests, NEW targets,
           \/ Starts(r, "run", targets, "look")
           \/ Starts(r, "load", targets, "look")
           \/ Starts(r, "refresh", targets, "http")
           \/ Starts(r, "test", targets, "http")
    PROVE  IInv'
<1>1. /\ Idle(r) /\ reply' = Nothing /\ outCache' = outCache
      /\ UNCHANGED <<now, srcCache, srcFile, tested, raced>>
  BY DEF Starts
<1>2. \/ Begin(r, "run", "fetch", targets, "look")
      \/ Begin(r, "load", "fetch", targets, "look")
      \/ Begin(r, "refresh", "fetch", targets, "http")
      \/ Begin(r, "test", "fetch", targets, "http")
  BY DEF Starts
<1>3. "look" \in Restless /\ "http" \in Restless
      /\ {"run", "load", "refresh", "test"} \subseteq AllKinds
  BY DEF Restless, AllKinds
<1>4. ASSUME Begin(r, "run", "fetch", targets, "look")
      PROVE  IInv'
  BY <1>1, <1>3, <1>4, BeginKeeps
<1>5. ASSUME Begin(r, "load", "fetch", targets, "look")
      PROVE  IInv'
  BY <1>1, <1>3, <1>5, BeginKeeps
<1>6. ASSUME Begin(r, "refresh", "fetch", targets, "http")
      PROVE  IInv'
  BY <1>1, <1>3, <1>6, BeginKeeps
<1>7. ASSUME Begin(r, "test", "fetch", targets, "http")
      PROVE  IInv'
  BY <1>1, <1>3, <1>7, BeginKeeps
<1>. QED  BY <1>2, <1>4, <1>5, <1>6, <1>7

-----------------------------------------------------------------------------
(* Cached answers.                                                         *)

(* No more than this has passed since the bodies of a cached answer.       *)
LEMMA AnswerAge ==
    ASSUME IInv, NEW o \in Outputs, outCache[o] # NoOutput,
           NEW waited \in Nat, now <= outCache[o].exp + waited,
           NEW p \in outCache[o].parts
    PROVE  now - p.at <= p.held + SourceTTL + outCache[o].took + OutputTTL + waited
<1>. USE Constants
<1>1. /\ now \in Nat /\ outCache[o] \in Answers \cup {NoOutput}
      /\ OutputAge(outCache[o], now)
  BY DEF IInv, TypeOK, Ages
<1>2. PICK a \in Answers : a = outCache[o] /\ a # NoOutput
  BY <1>1
<1>3. a.exp \in Nat /\ a.took \in Nat /\ p.at \in Nat /\ p.held \in Nat
  BY <1>2, OutputForm
<1>4. a.exp <= p.at + p.held + SourceTTL + a.took + OutputTTL
  BY <1>1, <1>2 DEF OutputAge
<1>5. now <= a.exp + waited
  BY <1>2
<1>6. now - p.at <= p.held + SourceTTL + a.took + OutputTTL + waited
  BY <1>1, <1>3, <1>4, <1>5
<1>. QED  BY <1>2, <1>6

(* A reply made of a cached answer.                                        *)
LEMMA CachedReply ==
    ASSUME IInv, NEW x \in {"HIT", "STALE"}, NEW o \in Outputs,
           outCache[o] # NoOutput,
           NEW waited \in Nat, now <= outCache[o].exp + waited,
           Answered(x, o, waited),
           UNCHANGED <<now, tested, raced>>, Sticks'
    PROVE  /\ reply' \in Replies \cup {Nothing}'
           /\ AgeBound' /\ LoneRefreshSticks'
<1>. USE Constants
<1>1. outCache[o] \in Answers \cup {NoOutput} /\ OutputSticks(outCache[o])
  BY DEF IInv, TypeOK, Sticks
<1>2. PICK a \in Answers : a = outCache[o] /\ a # NoOutput
  BY <1>1
<1>3. a.took \in Nat /\ a.parts \in SUBSET Parts
  BY <1>2, OutputForm
<1>4. reply' = [x |-> x, parts |-> a.parts, took |-> a.took, waited |-> waited]
  BY <1>2 DEF Answered
<1>5. reply' \in Replies
  BY <1>3, <1>4 DEF Replies
<1>6. /\ reply'.parts = a.parts /\ reply'.took = a.took
      /\ reply'.waited = waited
  BY <1>4
<1>7. ReplySticks'
  BY <1>1, <1>2, <1>6 DEF OutputSticks, ReplySticks, Watched
<1>8. AgeBound'
  <2>1. \A p \in a.parts :
           now - p.at <= p.held + SourceTTL + a.took + OutputTTL + waited
    BY <1>2, AnswerAge
  <2>. QED  BY <1>6, <2>1 DEF AgeBound
<1>9. (Sticks /\ ReplySticks => LoneRefreshSticks)'
  BY DEF Sticks, OutputSticks, ReplySticks, Watched, LoneRefreshSticks
<1>. QED  BY <1>5, <1>7, <1>8, <1>9 DEF Nothing

(* A cached answer is sent.                                                *)
LEMMA OutputHitKeeps ==
    ASSUME IInv, NEW r \in Requests, NEW o \in Outputs, OutputHit(r, o)
    PROVE  IInv'
<1>. USE Constants
<1>1. /\ outCache[o] # NoOutput /\ ~ Dead(o) /\ Answered("HIT", o, 0)
      /\ now' = now /\ srcCache' = srcCache /\ srcFile' = srcFile
      /\ outCache' = outCache /\ req' = req /\ leg' = leg
      /\ tested' = tested /\ raced' = raced
  BY DEF OutputHit
<1>2. TypeOK /\ Stages /\ Ages /\ Sticks /\ LoneRenewal
  BY DEF IInv
<1>3. /\ Stages' /\ Sticks' /\ LoneRenewal'
  BY <1>1, <1>2
     DEF Stages, IdleFetchesNothing, AloneIsAlone, RenewsByForce, Idle, Renews,
         Sticks, OutputSticks, BodySticks, Carries, Watched, LoneRenewal,
         Renewed, Newest, Over, NoBody, NoOutput, IdleReq
<1>4. Ages'
  BY <1>1, <1>2
     DEF Ages, BodyAge, OutputAge, LegAge, StaleAge, Carries, Idle, NoBody,
         NoOutput, IdleReq
<1>5. now <= outCache[o].exp + 0
  <2>1. outCache[o] \in Answers \cup {NoOutput} /\ now \in Nat
    BY <1>2 DEF TypeOK
  <2>2. PICK a \in Answers : a = outCache[o] /\ a # NoOutput
    BY <1>1, <2>1
  <2>3. a.exp \in Nat /\ ~ (now > a.exp)
    BY <1>1, <2>2, OutputForm DEF Dead
  <2>. QED  BY <2>1, <2>2, <2>3
<1>6. /\ reply' \in Replies \cup {Nothing}'
      /\ AgeBound' /\ LoneRefreshSticks'
  BY <1>1, <1>3, <1>5, CachedReply
<1>7. TypeOK'
  BY <1>1, <1>2, <1>6 DEF TypeOK
<1>. QED  BY <1>2, <1>3, <1>4, <1>6, <1>7 DEF IInv

-----------------------------------------------------------------------------
(* SubHandler goes on, with the request x, to fetch.                       *)

(* Whatever GetStale found, the rest is an ordinary run of the pipeline.    *)
LEMMA StaleAsked ==
    ASSUME IInv, NEW r \in Requests, ~ Idle(r), req[r].pc = "stale",
           NEW x \in Active,
           x.kind \in {"sub", "run"}, x.pc = "fetch",
           x.started = req[r].started, x.alone <=> req[r].alone,
           req' = [req EXCEPT ![r] = x],
           leg' = [leg EXCEPT ![r] = [s \in Sources |-> Leg("look")]],
           UNCHANGED <<now, srcCache, srcFile, outCache, tested, raced>>
    PROVE  Stages' /\ Ages' /\ Sticks' /\ LoneRenewal'
           /\ req' \in [Requests -> Active \cup {IdleReq}]
           /\ leg' \in [Requests -> [Sources -> Legs]]
<1>. USE Constants
<1>1. TypeOK /\ Stages /\ Ages /\ Sticks /\ LoneRenewal /\ now \in Nat
  BY DEF IInv, TypeOK
<1>2. /\ req' \in [Requests -> Active \cup {IdleReq}]
      /\ req'[r] = x
      /\ \A q \in Requests \ {r} : req'[q] = req[q]
  BY <1>1 DEF TypeOK
<1>3. x # IdleReq
  BY DEF Active, IdleReq, AllKinds
<1>4. /\ leg' \in [Requests -> [Sources -> Legs]]
      /\ \A s \in Sources : leg'[r][s] = Leg("look")
      /\ \A q \in Requests \ {r} : leg'[q] = leg[q]
  <2>. DEFINE g == [s \in Sources |-> Leg("look")]
  <2>1. Leg("look") \in Legs
    BY FirstLeg DEF Restless
  <2>2. g \in [Sources -> Legs] /\ \A s \in Sources : g[s] = Leg("look")
    BY <2>1
  <2>3. leg' = [leg EXCEPT ![r] = g]
    OBVIOUS
  <2>. HIDE DEF g
  <2>4. leg \in [Requests -> [Sources -> Legs]]
    BY <1>1 DEF TypeOK
  <2>5. /\ leg' \in [Requests -> [Sources -> Legs]]
        /\ leg'[r] = g /\ \A q \in Requests \ {r} : leg'[q] = leg[q]
    BY <2>2, <2>3, <2>4
  <2>. QED  BY <2>2, <2>5
<1>5. req[r].started \in Nat /\ req[r].started <= now
  BY <1>1, RequestForm DEF Ages
<1>6. \A s \in Sources : /\ leg'[r][s].st = "look"
                         /\ ~ Carries(leg'[r][s])
                         /\ LegAge(leg'[r][s], req[r].started, now)
  <2>1. PICK started \in Nat : started = req[r].started
    BY <1>5
  <2>2. Leg("look").st = "look" /\ ~ Carries(Leg("look"))
        /\ LegAge(Leg("look"), started, now)
    BY <1>1, FirstLeg DEF Restless
  <2>. QED  BY <1>4, <2>1, <2>2
<1>7. /\ now' = now /\ srcCache' = srcCache /\ srcFile' = srcFile
      /\ outCache' = outCache /\ tested' = tested /\ raced' = raced
  OBVIOUS
<1>8. /\ ~ Idle(r)' /\ ~ Renews(r)' /\ Watched' = Watched
      /\ \A q \in Requests \ {r} :
            (Idle(q)' <=> Idle(q)) /\ (Renews(q)' <=> Renews(q))
  BY <1>2, <1>3, <1>7 DEF Idle, Renews, Watched, IdleReq
<1>9. Stages'
  <2>1. IdleFetchesNothing'
    BY <1>1, <1>4, <1>8 DEF Stages, IdleFetchesNothing
  <2>2. AloneIsAlone'
    BY <1>1, <1>2, <1>8 DEF Stages, AloneIsAlone
  <2>3. RenewsByForce'
    BY <1>1, <1>2, <1>4, <1>8 DEF Stages, RenewsByForce
  <2>. QED  BY <2>1, <2>2, <2>3 DEF Stages
<1>10. Ages'
  <2>1. \A t \in Sources : BodyAge(srcCache[t], now)' /\ BodyAge(srcFile[t], now)'
    BY <1>1, <1>7 DEF Ages, BodyAge, NoBody
  <2>2. \A o \in Outputs : OutputAge(outCache[o], now)'
    BY <1>1, <1>7 DEF Ages, OutputAge, NoOutput
  <2>3. /\ req'[r].started <= now
        /\ StaleAge(r)'
        /\ \A s \in Sources : LegAge(leg'[r][s], req'[r].started, now)
    BY <1>2, <1>5, <1>6 DEF StaleAge
  <2>4. ASSUME NEW q \in Requests \ {r}, ~ Idle(q)
        PROVE  /\ req'[q].started <= now
               /\ StaleAge(q)'
               /\ \A s \in Sources : LegAge(leg'[q][s], req'[q].started, now)
    BY <1>1, <1>2, <1>4, <1>7, <2>4 DEF Ages, StaleAge, NoOutput
  <2>5. ASSUME NEW q \in Requests, ~ Idle(q)'
        PROVE  /\ req'[q].started <= now'
               /\ StaleAge(q)'
               /\ \A s \in Sources : LegAge(leg[q][s], req[q].started, now)'
    <3>1. /\ req'[q].started <= now
          /\ StaleAge(q)'
          /\ \A s \in Sources : LegAge(leg'[q][s], req'[q].started, now)
      BY <1>8, <2>3, <2>4, <2>5
    <3>. QED  BY <1>7, <3>1 DEF LegAge, Carries
  <2>. QED  BY <2>1, <2>2, <2>5 DEF Ages
<1>11. Sticks'
  <2>1. \A o \in Outputs : OutputSticks(outCache[o])'
    BY <1>1, <1>7, <1>8 DEF Sticks, OutputSticks, NoOutput
  <2>2. ASSUME NEW t \in Watched
        PROVE  /\ BodySticks(srcCache[t], t)'
               /\ \A q \in Requests :
                     Carries(leg'[q][t]) => leg'[q][t].at >= tested[t]
    <3>1. t \in Sources
      BY DEF Watched
    <3>2. BodySticks(srcCache[t], t)
      BY <3>1, <1>1 DEF Sticks
    <3>3. \A q \in Requests : Carries(leg'[q][t]) => leg'[q][t].at >= tested[t]
      BY <3>1, <1>1, <1>4, <1>6 DEF Sticks
    <3>. QED  BY <3>2, <3>3, <1>7 DEF BodySticks, NoBody
  <2>3. \A t \in Watched, q \in Requests :
            Carries(leg[q][t])' <=> Carries(leg'[q][t])
    BY DEF Carries
  <2>. QED  BY <2>1, <2>2, <2>3, <1>1, <1>7, <1>8 DEF Sticks
<1>12. LoneRenewal'
  <2>. SUFFICES ASSUME NEW q \in Requests, Renews(q)', req'[q].alone
                PROVE  FALSE
    BY DEF LoneRenewal
  <2>1. q # r /\ Renews(q) /\ req[q].alone
    BY <1>2, <1>8
  <2>. QED  BY <1>1, <2>1 DEF Stages, AloneIsAlone, Renews
<1>. QED  BY <1>2, <1>4, <1>9, <1>10, <1>11, <1>12

(* The request that asked is the request x, but for its kind and its step. *)
LEMMA NextRequest ==
    ASSUME NEW q \in Active, NEW kind \in AllKinds
    PROVE  /\ [q EXCEPT !.kind = kind, !.pc = "fetch"]
                 = [kind |-> kind, pc |-> "fetch", started |-> q.started,
                    alone |-> q.alone]
           /\ [q EXCEPT !.pc = "fetch"]
                 = [kind |-> q.kind, pc |-> "fetch", started |-> q.started,
                    alone |-> q.alone]
<1>1. q = [kind |-> q.kind, pc |-> q.pc, started |-> q.started,
           alone |-> q.alone]
  BY DEF Active
<1>. DEFINE z == [kind |-> kind, pc |-> q.pc, started |-> q.started,
                  alone |-> q.alone]
<1>2. [q EXCEPT !.kind = kind] = z
  BY <1>1
<1>3. [z EXCEPT !.pc = "fetch"]
         = [kind |-> kind, pc |-> "fetch", started |-> q.started,
            alone |-> q.alone]
  OBVIOUS
<1>4. [q EXCEPT !.pc = "fetch"]
         = [kind |-> q.kind, pc |-> "fetch", started |-> q.started,
            alone |-> q.alone]
  BY <1>1
<1>. HIDE DEF z
<1>. QED  BY <1>2, <1>3, <1>4

(* What GetStale finds is sent, and the pipeline runs on.                  *)
LEMMA StaleHitKeeps ==
    ASSUME IInv, NEW r \in Requests, StaleHit(r)
    PROVE  IInv'
<1>. USE Constants
<1>1. /\ ~ Idle(r) /\ req[r].pc = "stale" /\ outCache["sub"] # NoOutput
      /\ Answered("STALE", "sub", Waited(r))
      /\ req' = [req EXCEPT ![r] = [req[r] EXCEPT !.kind = "run", !.pc = "fetch"]]
      /\ leg' = [leg EXCEPT ![r] = [s \in Sources |-> Leg("look")]]
      /\ UNCHANGED <<now, srcCache, srcFile, outCache, tested, raced>>
  BY DEF StaleHit
<1>2. TypeOK /\ Ages /\ now \in Nat
  BY DEF IInv, TypeOK
<1>3. req[r] \in Active
  BY <1>1, <1>2, RequestForm
<1>4. PICK q \in Active : q = req[r]
  BY <1>3
<1>5. PICK x \in Active :
         x = [kind |-> "run", pc |-> "fetch", started |-> q.started,
              alone |-> q.alone]
  BY DEF Active, AllKinds
<1>6. "run" \in AllKinds /\ "sub" \in Outputs
  BY DEF AllKinds, Outputs
<1>7. req' = [req EXCEPT ![r] = x]
  BY <1>1, <1>4, <1>5, <1>6, NextRequest
<1>8. /\ x.kind = "run" /\ x.pc = "fetch" /\ x.started = req[r].started
      /\ x.alone <=> req[r].alone
  BY <1>4, <1>5
<1>9. /\ Stages' /\ Ages' /\ Sticks' /\ LoneRenewal'
      /\ req' \in [Requests -> Active \cup {IdleReq}]
      /\ leg' \in [Requests -> [Sources -> Legs]]
  BY <1>1, <1>7, <1>8, StaleAsked
<1>10. PICK waited \in Nat :
          waited = Waited(r) /\ now <= outCache["sub"].exp + waited
  <2>1. q.started \in Nat /\ q.started <= now /\ StaleAge(r)
    BY <1>1, <1>2, <1>4 DEF Ages, Active
  <2>2. PICK waited \in Nat : waited = now - q.started
    BY <1>2, <2>1
  <2>3. outCache["sub"] \in Answers \cup {NoOutput}
    BY <1>2, <1>6 DEF TypeOK
  <2>4. PICK a \in Answers : a = outCache["sub"] /\ a # NoOutput
    BY <1>1, <2>3
  <2>5. a.exp \in Nat
    BY <2>4, OutputForm
  <2>6. q.started + OutputTTL <= a.exp
    BY <1>1, <1>4, <2>1, <2>4 DEF StaleAge
  <2>7. now <= a.exp + waited
    BY <1>2, <2>1, <2>2, <2>5, <2>6
  <2>. QED  BY <1>4, <2>2, <2>4, <2>7 DEF Waited
<1>11. Answered("STALE", "sub", waited)
  BY <1>1, <1>10 DEF Answered
<1>12. /\ reply' \in Replies \cup {Nothing}'
       /\ AgeBound' /\ LoneRefreshSticks'
  BY <1>1, <1>6, <1>9, <1>10, <1>11, CachedReply
<1>13. TypeOK'
  BY <1>1, <1>2, <1>9, <1>12 DEF TypeOK
<1>. QED  BY <1>9, <1>12, <1>13 DEF IInv

(* GetStale finds nothing.                                                 *)
LEMMA StaleMissKeeps ==
    ASSUME IInv, NEW r \in Requests, StaleMiss(r)
    PROVE  IInv'
<1>1. /\ ~ Idle(r) /\ req[r].pc = "stale" /\ reply' = Nothing
      /\ req' = [req EXCEPT ![r] = [req[r] EXCEPT !.pc = "fetch"]]
      /\ leg' = [leg EXCEPT ![r] = [s \in Sources |-> Leg("look")]]
      /\ UNCHANGED <<now, srcCache, srcFile, outCache, tested, raced>>
  BY DEF StaleMiss
<1>2. TypeOK /\ Stages
  BY DEF IInv
<1>3. req[r] \in Active /\ req[r].kind = "sub"
  BY <1>1, <1>2, RequestForm DEF Stages, RenewsByForce
<1>4. PICK q \in Active : q = req[r]
  BY <1>3
<1>5. PICK x \in Active :
         x = [kind |-> q.kind, pc |-> "fetch", started |-> q.started,
              alone |-> q.alone]
  BY DEF Active
<1>6. req' = [req EXCEPT ![r] = x]
  <2>1. "sub" \in AllKinds
    BY DEF AllKinds
  <2>. QED  BY <1>1, <1>4, <1>5, <2>1, NextRequest
<1>7. /\ x.kind = "sub" /\ x.pc = "fetch" /\ x.started = req[r].started
      /\ x.alone <=> req[r].alone
  BY <1>3, <1>4, <1>5
<1>8. /\ Stages' /\ Ages' /\ Sticks' /\ LoneRenewal'
      /\ req' \in [Requests -> Active \cup {IdleReq}]
      /\ leg' \in [Requests -> [Sources -> Legs]]
  BY <1>1, <1>6, <1>7, StaleAsked
<1>9. AgeBound' /\ LoneRefreshSticks'
  BY <1>1, <1>8, NoReply
<1>10. TypeOK'
  BY <1>1, <1>2, <1>8 DEF TypeOK, Nothing
<1>. QED  BY <1>8, <1>9, <1>10 DEF IInv

-----------------------------------------------------------------------------
(* A request ends.                                                         *)

(* End makes r idle, and touches no other request.                         *)
LEMMA Ended ==
    ASSUME TypeOK, NEW r \in Requests, ~ Idle(r), End(r)
    PROVE  /\ req' \in [Requests -> Active \cup {IdleReq}]
           /\ leg' \in [Requests -> [Sources -> Legs]]
           /\ Idle(r)'
           /\ \A s \in Sources : /\ leg'[r][s].st = "off"
                                 /\ ~ Carries(leg'[r][s])
           /\ \A q \in Requests \ {r} : /\ req'[q] = req[q]
                                        /\ leg'[q] = leg[q]
                                        /\ Idle(q)' <=> Idle(q)
                                        /\ Renews(q)' <=> Renews(q)
<1>1. /\ req \in [Requests -> Active \cup {IdleReq}]
      /\ leg \in [Requests -> [Sources -> Legs]]
  BY DEF TypeOK
<1>2. /\ req' \in [Requests -> Active \cup {IdleReq}]
      /\ req'[r] = IdleReq
      /\ \A q \in Requests \ {r} : req'[q] = req[q]
  BY <1>1 DEF End
<1>. DEFINE g == [s \in Sources |-> Leg("off")]
<1>3. Leg("off") \in Legs /\ Leg("off").st = "off" /\ ~ Carries(Leg("off"))
  BY FirstLeg DEF Restless
<1>4. g \in [Sources -> Legs] /\ \A s \in Sources : g[s] = Leg("off")
  BY <1>3
<1>5. leg' = [leg EXCEPT ![r] = g]
  BY DEF End
<1>. HIDE DEF g
<1>6. /\ leg' \in [Requests -> [Sources -> Legs]]
      /\ leg'[r] = g /\ \A q \in Requests \ {r} : leg'[q] = leg[q]
  BY <1>1, <1>4, <1>5
<1>7. /\ Idle(r)'
      /\ \A q \in Requests \ {r} : /\ Idle(q)' <=> Idle(q)
                                   /\ Renews(q)' <=> Renews(q)
  BY <1>2 DEF Idle, Renews, IdleReq
<1>. QED  BY <1>2, <1>3, <1>4, <1>6, <1>7

(* A request ends, and the outputs it leaves are not too old.              *)
LEMMA EndKeeps ==
    ASSUME IInv, NEW r \in Requests, ~ Idle(r), End(r),
           UNCHANGED <<now, srcCache, srcFile>>,
           \A o \in Outputs : OutputAge(outCache'[o], now),
           \A q \in Requests :
              (~ Idle(q) /\ req[q].pc = "stale" /\ outCache'["sub"] # NoOutput)
                 => req[q].started + OutputTTL <= outCache'["sub"].exp
    PROVE  Stages' /\ Ages' /\ LoneRenewal'
<1>. USE Constants
<1>1. TypeOK /\ Stages /\ Ages
  BY DEF IInv
<1>2. /\ Idle(r)'
      /\ \A s \in Sources : /\ leg'[r][s].st = "off"
                            /\ ~ Carries(leg'[r][s])
      /\ \A q \in Requests \ {r} : /\ req'[q] = req[q]
                                   /\ leg'[q] = leg[q]
                                   /\ Idle(q)' <=> Idle(q)
                                   /\ Renews(q)' <=> Renews(q)
  BY <1>1, Ended
<1>3. Stages'
  <2>1. IdleFetchesNothing'
    BY <1>1, <1>2 DEF Stages, IdleFetchesNothing
  <2>2. AloneIsAlone'
    BY <1>1, <1>2 DEF Stages, AloneIsAlone
  <2>3. RenewsByForce'
    BY <1>1, <1>2 DEF Stages, RenewsByForce, Renews
  <2>. QED  BY <2>1, <2>2, <2>3 DEF Stages
<1>4. Ages'
  <2>1. \A t \in Sources : BodyAge(srcCache[t], now)' /\ BodyAge(srcFile[t], now)'
    BY <1>1 DEF Ages, BodyAge, NoBody
  <2>2. \A o \in Outputs : OutputAge(outCache[o], now)'
    BY DEF OutputAge, NoOutput
  <2>3. ASSUME NEW q \in Requests, ~ Idle(q)'
        PROVE  /\ req'[q].started <= now'
               /\ StaleAge(q)'
               /\ \A s \in Sources : LegAge(leg[q][s], req[q].started, now)'
    <3>1. q # r
      BY <1>2, <2>3
    <3>2. ~ Idle(q) /\ req'[q] = req[q] /\ leg'[q] = leg[q]
      BY <1>2, <2>3, <3>1
    <3>3. /\ req[q].started <= now
          /\ \A s \in Sources : LegAge(leg[q][s], req[q].started, now)
      BY <1>1, <3>2 DEF Ages
    <3>4. StaleAge(q)'
      BY <3>2 DEF StaleAge, NoOutput
    <3>. QED  BY <3>2, <3>3, <3>4 DEF LegAge, Carries
  <2>. QED  BY <2>1, <2>2, <2>3 DEF Ages
<1>5. LoneRenewal'
  <2>. SUFFICES ASSUME NEW q \in Requests, Renews(q)', req'[q].alone
                PROVE  FALSE
    BY DEF LoneRenewal
  <2>1. q # r
    BY <1>2 DEF Renews
  <2>2. ~ Idle(q) /\ req[q].alone
    BY <1>2, <2>1 DEF Renews
  <2>. QED  BY <1>1, <2>1, <2>2 DEF Stages, AloneIsAlone
<1>. QED  BY <1>3, <1>4, <1>5

(* The answer that Build makes.                                            *)
LEMMA Built ==
    ASSUME IInv, NEW r \in Requests, Fetched(r)
    PROVE  /\ Waited(r) \in Nat
           /\ PartsOf(r) \in SUBSET Parts
           /\ \A p \in PartsOf(r) :
                 /\ p.src \in Watched => p.at >= tested[p.src]
                 /\ now <= p.at + p.held + SourceTTL + Waited(r)
<1>. USE Constants
<1>1. TypeOK /\ Ages /\ Sticks /\ now \in Nat /\ ~ Idle(r)
  BY DEF IInv, TypeOK, Fetched
<1>2. req[r].started \in Nat /\ req[r].started <= now
  BY <1>1, RequestForm DEF Ages
<1>3. Waited(r) \in Nat
  BY <1>1, <1>2 DEF Waited
<1>4. ASSUME NEW s \in Good(r)
      PROVE  /\ s \in Sources /\ leg[r][s].at \in Nat /\ leg[r][s].held \in Nat
             /\ s \in Watched => leg[r][s].at >= tested[s]
             /\ now <= leg[r][s].at + leg[r][s].held + SourceTTL + Waited(r)
  <2>1. s \in Sources /\ leg[r][s].st = "done" /\ leg[r][s].ok
    BY DEF Good
  <2>2. leg[r][s] \in Legs
    BY <1>1, <2>1 DEF TypeOK
  <2>3. PICK l \in Legs : l = leg[r][s]
    BY <2>2
  <2>4. l.at \in Nat /\ l.held \in Nat /\ Carries(l)
    BY <2>1, <2>3, LegForm DEF Carries
  <2>5. s \in Watched => l.at >= tested[s]
    BY <1>1, <2>3, <2>4 DEF Sticks
  <2>6. LegAge(l, req[r].started, now)
    BY <1>1, <2>1, <2>3 DEF Ages
  <2>7. req[r].started <= l.at + l.held + SourceTTL
    BY <2>1, <2>3, <2>4, <2>6 DEF LegAge
  <2>8. now <= l.at + l.held + SourceTTL + Waited(r)
    BY <1>1, <1>2, <2>4, <2>7 DEF Waited
  <2>. QED  BY <2>1, <2>3, <2>4, <2>5, <2>8
<1>5. ASSUME NEW p \in PartsOf(r)
      PROVE  /\ p \in Parts
             /\ p.src \in Watched => p.at >= tested[p.src]
             /\ now <= p.at + p.held + SourceTTL + Waited(r)
  <2>1. PICK s \in Good(r) :
           p = [src |-> s, at |-> leg[r][s].at, held |-> leg[r][s].held]
    BY DEF PartsOf
  <2>. QED  BY <1>4, <2>1 DEF Parts
<1>. QED  BY <1>3, <1>5

(* Ends that leave the history as it was.                                  *)
LEMMA EndSticks ==
    ASSUME IInv, NEW r \in Requests, ~ Idle(r), End(r),
           UNCHANGED <<now, srcCache, tested, raced>>,
           \A o \in Outputs : OutputSticks(outCache'[o])
    PROVE  Sticks'
<1>1. TypeOK /\ Sticks
  BY DEF IInv
<1>2. /\ \A s \in Sources : ~ Carries(leg'[r][s])
      /\ \A q \in Requests \ {r} : leg'[q] = leg[q]
  BY <1>1, Ended
<1>3. Watched' = Watched
  BY DEF Watched
<1>4. \A o \in Outputs : OutputSticks(outCache[o])'
  BY <1>3 DEF OutputSticks, NoOutput
<1>5. ASSUME NEW t \in Watched
      PROVE  /\ BodySticks(srcCache[t], t)'
             /\ \A q \in Requests :
                   Carries(leg'[q][t]) => leg'[q][t].at >= tested[t]
  <2>1. t \in Sources
    BY DEF Watched
  <2>2. BodySticks(srcCache[t], t)
    BY <1>1 DEF Sticks
  <2>3. \A q \in Requests : Carries(leg'[q][t]) => leg'[q][t].at >= tested[t]
    BY <2>1, <1>1, <1>2 DEF Sticks
  <2>. QED  BY <2>2, <2>3 DEF BodySticks, NoBody
<1>6. \A t \in Watched, q \in Requests :
          Carries(leg[q][t])' <=> Carries(leg'[q][t])
  BY DEF Carries
<1>. QED  BY <1>1, <1>3, <1>4, <1>5, <1>6 DEF Sticks

(* The answer is cached and sent, or there is none.                        *)
LEMMA BuildKeeps ==
    ASSUME IInv, NEW r \in Requests, Build(r)
    PROVE  IInv'
<1>. USE Constants
<1>1. /\ Fetched(r) /\ ~ Idle(r) /\ End(r) /\ req[r].kind \in Outputs
      /\ now' = now /\ srcCache' = srcCache /\ srcFile' = srcFile
      /\ tested' = tested /\ raced' = raced
  BY DEF Build, Fetched
<1>2. TypeOK /\ Ages /\ Sticks /\ now \in Nat
  BY DEF IInv, TypeOK
<1>3. /\ req' \in [Requests -> Active \cup {IdleReq}]
      /\ leg' \in [Requests -> [Sources -> Legs]]
  BY <1>1, <1>2, Ended
<1>4. CASE outCache' = outCache /\ reply' = Nothing
  <2>1. /\ \A o \in Outputs : /\ OutputAge(outCache'[o], now)
                              /\ OutputSticks(outCache'[o])
        /\ \A q \in Requests : ~ Idle(q) => StaleAge(q)
    BY <1>2, <1>4 DEF Ages, Sticks
  <2>2. Stages' /\ Ages' /\ LoneRenewal'
    BY <1>1, <1>4, <2>1, EndKeeps DEF StaleAge
  <2>3. Sticks'
    BY <1>1, <2>1, EndSticks
  <2>4. TypeOK'
    BY <1>1, <1>2, <1>3, <1>4 DEF TypeOK, Nothing
  <2>. QED  BY <1>4, <2>2, <2>3, <2>4, NoReply DEF IInv
<1>5. CASE /\ outCache' = [outCache EXCEPT ![req[r].kind] =
                              [form |-> "output", parts |-> PartsOf(r),
                               exp |-> now + OutputTTL, took |-> Waited(r)]]
           /\ reply' = [x |-> "MISS", parts |-> PartsOf(r), took |-> Waited(r),
                        waited |-> 0]
  <2>1. PICK took \in Nat : took = Waited(r)
    BY <1>1, Built
  <2>2. PICK parts \in SUBSET Parts : parts = PartsOf(r)
    BY <1>1, Built
  <2>3. PICK t \in Nat : t = now
    BY <1>2
  <2>4. PICK u \in Outputs : u = req[r].kind
    BY <1>1
  <2>5. \A p \in parts :
           /\ p.src \in Watched => p.at >= tested[p.src]
           /\ t <= p.at + p.held + SourceTTL + took
           /\ p.at \in Nat /\ p.held \in Nat
    <3>1. \A p \in parts : p.at \in Nat /\ p.held \in Nat
      BY DEF Parts
    <3>. QED  BY <1>1, <2>1, <2>2, <2>3, <3>1, Built
  <2>6. PICK a \in Answers :
           a = [form |-> "output", parts |-> parts, exp |-> t + OutputTTL,
                took |-> took]
    <3>1. t + OutputTTL \in Nat
      OBVIOUS
    <3>. QED  BY <3>1 DEF Answers
  <2>7. a.exp = t + OutputTTL /\ a.parts = parts /\ a.took = took
    BY <2>6
  <2>8. outCache' = [outCache EXCEPT ![u] = a]
    BY <1>5, <2>1, <2>2, <2>3, <2>4, <2>6
  <2>9. /\ outCache' \in [Outputs -> Answers \cup {NoOutput}]
        /\ \A o \in Outputs : outCache'[o] \in {outCache[o], a}
    BY <1>2, <2>8 DEF TypeOK
  <2>10. OutputAge(a, now) /\ OutputSticks(a)
    <3>1. a.exp <= now + OutputTTL
      BY <2>3, <2>7
    <3>2. \A p \in a.parts :
             a.exp <= p.at + p.held + SourceTTL + a.took + OutputTTL
      BY <2>5, <2>7
    <3>3. \A p \in a.parts : p.src \in Watched => p.at >= tested[p.src]
      BY <2>5, <2>7
    <3>. QED  BY <3>1, <3>2, <3>3 DEF OutputAge, OutputSticks
  <2>11. \A o \in Outputs : /\ OutputAge(outCache'[o], now)
                            /\ OutputSticks(outCache'[o])
    BY <1>2, <2>9, <2>10 DEF Ages, Sticks
  <2>12. \A q \in Requests :
            (~ Idle(q) /\ req[q].pc = "stale" /\ outCache'["sub"] # NoOutput)
               => req[q].started + OutputTTL <= outCache'["sub"].exp
    <3>. SUFFICES ASSUME NEW q \in Requests, ~ Idle(q), req[q].pc = "stale",
                         outCache'["sub"] # NoOutput
                  PROVE  req[q].started + OutputTTL <= outCache'["sub"].exp
      OBVIOUS
    <3>1. req[q].started \in Nat /\ req[q].started <= now /\ StaleAge(q)
      BY <1>2, RequestForm DEF Ages
    <3>2. outCache'["sub"] \in {outCache["sub"], a}
      BY <2>9 DEF Outputs
    <3>3. CASE outCache'["sub"] = outCache["sub"]
      BY <3>1, <3>3 DEF StaleAge
    <3>4. CASE outCache'["sub"] = a
      <4>1. req[q].started + OutputTTL <= a.exp
        BY <2>3, <2>7, <3>1
      <4>. QED  BY <3>4, <4>1
    <3>. QED  BY <3>2, <3>3, <3>4
  <2>13. Stages' /\ Ages' /\ LoneRenewal'
    BY <1>1, <2>11, <2>12, EndKeeps
  <2>14. Sticks'
    BY <1>1, <2>11, EndSticks
  <2>15. reply' = [x |-> "MISS", parts |-> parts, took |-> took, waited |-> 0]
    BY <1>5, <2>1, <2>2
  <2>16. reply' \in Replies
    BY <2>15 DEF Replies
  <2>17. reply'.parts = parts /\ reply'.took = took /\ reply'.waited = 0
    BY <2>15
  <2>18. AgeBound'
    <3>1. \A p \in parts :
             t - p.at <= p.held + SourceTTL + took + OutputTTL + 0
      BY <2>5
    <3>. QED  BY <1>1, <2>3, <2>17, <3>1 DEF AgeBound
  <2>19. ReplySticks'
    BY <1>1, <2>5, <2>17 DEF ReplySticks, Watched
  <2>20. LoneRefreshSticks'
    <3>1. (Sticks /\ ReplySticks => LoneRefreshSticks)'
      BY DEF Sticks, OutputSticks, ReplySticks, Watched, LoneRefreshSticks
    <3>. QED  BY <2>14, <2>19, <3>1
  <2>21. TypeOK'
    BY <1>1, <1>2, <1>3, <2>9, <2>16 DEF TypeOK
  <2>. QED  BY <2>13, <2>14, <2>18, <2>20, <2>21 DEF IInv
<1>6. \/ outCache' = outCache /\ reply' = Nothing
      \/ /\ outCache' = [outCache EXCEPT ![req[r].kind] =
                              [form |-> "output", parts |-> PartsOf(r),
                               exp |-> now + OutputTTL, took |-> Waited(r)]]
         /\ reply' = [x |-> "MISS", parts |-> PartsOf(r), took |-> Waited(r),
                      waited |-> 0]
  BY DEF Build
<1>. QED  BY <1>4, <1>5, <1>6

(* A result nobody asked to cache is dropped.                              *)
LEMMA DropKeeps ==
    ASSUME IInv, NEW r \in Requests, Drop(r)
    PROVE  IInv'
<1>1. /\ ~ Idle(r) /\ End(r) /\ reply' = Nothing
      /\ now' = now /\ srcCache' = srcCache /\ srcFile' = srcFile
      /\ outCache' = outCache /\ tested' = tested /\ raced' = raced
  BY DEF Drop, Fetched
<1>2. TypeOK /\ Ages /\ Sticks
  BY DEF IInv
<1>3. /\ \A o \in Outputs : /\ OutputAge(outCache'[o], now)
                            /\ OutputSticks(outCache'[o])
      /\ \A q \in Requests : ~ Idle(q) => StaleAge(q)
  BY <1>1, <1>2 DEF Ages, Sticks
<1>4. Stages' /\ Ages' /\ LoneRenewal'
  BY <1>1, <1>3, EndKeeps DEF StaleAge
<1>5. Sticks'
  BY <1>1, <1>3, EndSticks
<1>6. TypeOK'
  <2>1. /\ req' \in [Requests -> Active \cup {IdleReq}]
        /\ leg' \in [Requests -> [Sources -> Legs]]
    BY <1>1, <1>2, Ended
  <2>. QED  BY <1>1, <1>2, <2>1 DEF TypeOK, Nothing
<1>. QED  BY <1>1, <1>4, <1>5, <1>6, NoReply DEF IInv

-----------------------------------------------------------------------------
(* A test or refresh is over.                                              *)

(* What the history says after a test or refresh.                          *)
LEMMA History ==
    ASSUME IInv, NEW r \in Requests, ~ Idle(r), Finished(r), now' = now
    PROVE  /\ tested' \in [Sources -> Nat] /\ raced' \subseteq Sources
           /\ \A s \in Sources : tested'[s] <= now
           /\ \A s \in Good(r) : s \in Sources /\ tested'[s] = leg[r][s].at
           /\ \A s \in Sources \ Good(r) : tested'[s] = tested[s]
           /\ \A s \in Watched' \ Good(r) : s \in Watched
           /\ ~ req[r].alone => Watched' \cap Good(r) = {}
<1>1. TypeOK /\ Ages /\ Sticks
  BY DEF IInv
<1>2. ASSUME NEW s \in Good(r)
      PROVE  s \in Sources /\ leg[r][s].at \in Nat /\ leg[r][s].at <= now
  <2>1. s \in Sources
    BY DEF Good
  <2>2. leg[r][s] \in Legs /\ LegAge(leg[r][s], req[r].started, now)
    BY <1>1, <2>1 DEF TypeOK, Ages
  <2>3. PICK l \in Legs : l = leg[r][s]
    BY <2>2
  <2>4. l.at \in Nat /\ l.at <= now
    BY <2>2, <2>3, LegForm DEF LegAge
  <2>. QED  BY <2>1, <2>3, <2>4
<1>3. /\ tested \in [Sources -> Nat] /\ raced \subseteq Sources
      /\ \A s \in Sources : tested[s] <= now
  BY <1>1 DEF TypeOK, Sticks
<1>4. /\ tested' = [s \in Sources |->
                       IF s \in Good(r) THEN leg[r][s].at ELSE tested[s]]
      /\ raced' = IF req[r].alone THEN raced \ Good(r) ELSE raced \cup Good(r)
  BY DEF Finished
<1>5. \A s \in Sources : /\ s \in Good(r) => tested'[s] = leg[r][s].at
                         /\ s \notin Good(r) => tested'[s] = tested[s]
  BY <1>4
<1>6. tested' \in [Sources -> Nat]
  BY <1>2, <1>3, <1>4
<1>7. raced' \subseteq Sources
  BY <1>2, <1>3, <1>4
<1>8. /\ \A s \in Watched' \ Good(r) : s \in Watched
      /\ ~ req[r].alone => Watched' \cap Good(r) = {}
  BY <1>4 DEF Watched
<1>9. \A s \in Sources : tested'[s] <= now
  BY <1>2, <1>3, <1>5
<1>. QED  BY <1>2, <1>5, <1>6, <1>7, <1>8, <1>9

(* The history moves on: the caches hold nothing older than it says.       *)
LEMMA FinishKeeps ==
    ASSUME IInv, NEW r \in Requests, Renews(r), Finished(r), End(r),
           outCache' \in [Outputs -> Answers \cup {NoOutput}],
           \A o \in Outputs : outCache'[o] \in {outCache[o], NoOutput},
           req[r].alone => outCache'["sub"] = NoOutput,
           (req[r].alone /\ Good(r) \cap Remote # {})
              => outCache'["filter"] = NoOutput,
           reply' = Nothing,
           UNCHANGED <<now, srcCache, srcFile>>
    PROVE  IInv'
<1>1. TypeOK /\ Ages /\ Sticks /\ LoneRenewal /\ ~ Idle(r)
  BY DEF IInv, Renews
<1>2. /\ now' = now /\ srcCache' = srcCache /\ srcFile' = srcFile
  OBVIOUS
<1>3. /\ req' \in [Requests -> Active \cup {IdleReq}]
      /\ leg' \in [Requests -> [Sources -> Legs]]
      /\ Idle(r)'
      /\ \A s \in Sources : ~ Carries(leg'[r][s])
      /\ \A q \in Requests \ {r} : leg'[q] = leg[q] /\ (Idle(q)' <=> Idle(q))
  BY <1>1, Ended
<1>4. /\ tested' \in [Sources -> Nat] /\ raced' \subseteq Sources
      /\ \A s \in Sources : tested'[s] <= now
      /\ \A s \in Good(r) : s \in Sources /\ tested'[s] = leg[r][s].at
      /\ \A s \in Sources \ Good(r) : tested'[s] = tested[s]
      /\ \A s \in Watched' \ Good(r) : s \in Watched
      /\ ~ req[r].alone => Watched' \cap Good(r) = {}
  BY <1>1, <1>2, History
<1>5. TypeOK'
  BY <1>1, <1>2, <1>3, <1>4 DEF TypeOK, Nothing
<1>6. Stages' /\ Ages' /\ LoneRenewal'
  <2>1. \A o \in Outputs : OutputAge(outCache'[o], now)
    <3>1. OutputAge(NoOutput, now)
      BY DEF OutputAge
    <3>. QED  BY <1>1, <3>1 DEF Ages
  <2>2. \A q \in Requests :
           (~ Idle(q) /\ req[q].pc = "stale" /\ outCache'["sub"] # NoOutput)
              => req[q].started + OutputTTL <= outCache'["sub"].exp
    <3>1. outCache'["sub"] \in {outCache["sub"], NoOutput}
      BY DEF Outputs
    <3>. QED  BY <1>1, <3>1 DEF Ages, StaleAge
  <2>. QED  BY <1>1, <1>2, <2>1, <2>2, EndKeeps
<1>7. \A s \in Watched' : s \in Sources /\ s \in Remote
  BY DEF Watched, Remote
<1>8. ASSUME NEW s \in Watched', s \in Good(r)
      PROVE  /\ req[r].alone /\ \A o \in Outputs : outCache'[o] = NoOutput
             /\ BodySticks(srcCache[s], s)'
             /\ \A q \in Requests : ~ Carries(leg'[q][s])
  <2>1. req[r].alone
    BY <1>4, <1>8
  <2>2. Good(r) \cap Remote # {}
    BY <1>7, <1>8
  <2>3. \A o \in Outputs : outCache'[o] = NoOutput
    BY <2>1, <2>2 DEF Outputs
  <2>4. leg[r][s].st = "done" /\ leg[r][s].ok
    BY <1>8 DEF Good
  <2>5. Newest(leg[r][s], srcCache[s])
    BY <1>1, <1>7, <2>1 DEF LoneRenewal, Renewed
  <2>6. BodySticks(srcCache[s], s)'
    BY <1>2, <1>4, <1>8, <2>4, <2>5 DEF BodySticks, Newest, Carries, NoBody
  <2>7. \A q \in Requests : ~ Carries(leg'[q][s])
    <3>. SUFFICES ASSUME NEW q \in Requests \ {r}
                  PROVE  ~ Carries(leg'[q][s])
      BY <1>3, <1>7
    <3>1. Idle(q)'
      BY <1>1, <1>3, <2>1 DEF IInv, Stages, AloneIsAlone
    <3>2. leg'[q][s].st = "off"
      BY <1>6, <1>7, <3>1 DEF Stages, IdleFetchesNothing
    <3>. QED  BY <3>2 DEF Carries
  <2>. QED  BY <2>1, <2>3, <2>6, <2>7
<1>9. ASSUME NEW s \in Watched', s \notin Good(r)
      PROVE  /\ s \in Watched /\ tested'[s] = tested[s]
             /\ BodySticks(srcCache[s], s)'
             /\ \A q \in Requests :
                   Carries(leg'[q][s]) => leg'[q][s].at >= tested'[s]
  <2>1. s \in Watched /\ tested'[s] = tested[s] /\ s \in Sources
    BY <1>4, <1>7, <1>9
  <2>2. BodySticks(srcCache[s], s)
    BY <1>1, <2>1 DEF Sticks
  <2>3. BodySticks(srcCache[s], s)'
    BY <1>2, <2>1, <2>2 DEF BodySticks, NoBody
  <2>4. \A q \in Requests :
           Carries(leg'[q][s]) => leg'[q][s].at >= tested[s]
    BY <1>1, <1>3, <2>1 DEF Sticks
  <2>. QED  BY <2>1, <2>3, <2>4
<1>10. Sticks'
  <2>1. ASSUME NEW o \in Outputs
        PROVE  OutputSticks(outCache[o])'
    <3>. SUFFICES ASSUME outCache'[o] # NoOutput, NEW p \in outCache'[o].parts,
                         p.src \in Watched'
                  PROVE  p.at >= tested'[p.src]
      BY DEF OutputSticks, NoOutput
    <3>1. p.src \notin Good(r)
      BY <1>8
    <3>2. p.src \in Watched /\ tested'[p.src] = tested[p.src]
      BY <1>9, <3>1
    <3>3. outCache'[o] = outCache[o]
      OBVIOUS
    <3>. QED  BY <1>1, <3>2, <3>3 DEF Sticks, OutputSticks
  <2>2. \A s \in Watched' :
           /\ BodySticks(srcCache[s], s)'
           /\ \A q \in Requests : Carries(leg'[q][s]) => leg'[q][s].at >= tested'[s]
    BY <1>8, <1>9
  <2>3. \A s \in Watched', q \in Requests :
            Carries(leg[q][s])' <=> Carries(leg'[q][s])
    BY DEF Carries
  <2>4. \A s \in Sources : tested'[s] <= now'
    BY <1>2, <1>4
  <2>. QED  BY <2>1, <2>2, <2>3, <2>4 DEF Sticks
<1>. QED  BY <1>5, <1>6, <1>10, NoReply DEF IInv

(* The end of a test.                                                      *)
LEMMA EndTestKeeps ==
    ASSUME IInv, NEW r \in Requests, EndTest(r)
    PROVE  IInv'
<1>1. /\ ~ Idle(r) /\ req[r].kind = "test" /\ Finished(r) /\ End(r)
      /\ outCache' = [outCache EXCEPT !["sub"] = NoOutput]
      /\ reply' = Nothing
      /\ UNCHANGED <<now, srcCache, srcFile>>
  BY DEF EndTest, Fetched
<1>2. Renews(r)
  BY <1>1 DEF Renews
<1>3. TypeOK /\ LoneRenewal
  BY DEF IInv
<1>4. /\ outCache' \in [Outputs -> Answers \cup {NoOutput}]
      /\ outCache'["sub"] = NoOutput
      /\ outCache'["filter"] = outCache["filter"]
      /\ \A o \in Outputs : outCache'[o] \in {outCache[o], NoOutput}
  BY <1>1, <1>3 DEF TypeOK, Outputs
<1>5. (req[r].alone /\ Good(r) \cap Remote # {})
         => outCache'["filter"] = NoOutput
  BY <1>2, <1>3, <1>4 DEF LoneRenewal, Renewed, Over, Good
<1>. QED  BY <1>1, <1>2, <1>4, <1>5, FinishKeeps

(* The end of a refresh.                                                   *)
LEMMA ClearFilterKeeps ==
    ASSUME IInv, NEW r \in Requests, ClearFilter(r)
    PROVE  IInv'
<1>1. /\ ~ Idle(r) /\ req[r].pc = "clear" /\ Finished(r) /\ End(r)
      /\ outCache' = [outCache EXCEPT !["filter"] = NoOutput]
      /\ reply' = Nothing
      /\ UNCHANGED <<now, srcCache, srcFile>>
  BY DEF ClearFilter
<1>2. TypeOK /\ LoneRenewal /\ Stages
  BY DEF IInv
<1>3. Renews(r)
  BY <1>1, <1>2 DEF Renews, Stages, RenewsByForce
<1>4. /\ outCache' \in [Outputs -> Answers \cup {NoOutput}]
      /\ outCache'["filter"] = NoOutput
      /\ outCache'["sub"] = outCache["sub"]
      /\ \A o \in Outputs : outCache'[o] \in {outCache[o], NoOutput}
  BY <1>1, <1>2 DEF TypeOK, Outputs
<1>5. req[r].alone => outCache'["sub"] = NoOutput
  BY <1>1, <1>2, <1>3, <1>4 DEF LoneRenewal
<1>. QED  BY <1>1, <1>3, <1>4, <1>5, FinishKeeps

(* A refresh clears the answers of /sub before those of /filter.           *)
LEMMA ClearSubKeeps ==
    ASSUME IInv, NEW r \in Requests, ClearSub(r)
    PROVE  IInv'
<1>. USE Constants
<1>1. /\ Fetched(r) /\ ~ Idle(r) /\ req[r].pc = "fetch"
      /\ req[r].kind = "refresh" /\ reply' = Nothing
      /\ outCache' = [outCache EXCEPT !["sub"] = NoOutput]
      /\ req' = [req EXCEPT ![r] = [req[r] EXCEPT !.pc = "clear"]]
      /\ now' = now /\ srcCache' = srcCache /\ srcFile' = srcFile
      /\ leg' = leg /\ tested' = tested /\ raced' = raced
  BY DEF ClearSub, Fetched
<1>2. TypeOK /\ Stages /\ Ages /\ Sticks /\ LoneRenewal
  BY DEF IInv
<1>3. PICK q \in Active : q = req[r]
  BY <1>1, <1>2, RequestForm
<1>4. PICK x \in Active :
         x = [kind |-> "refresh", pc |-> "clear", started |-> q.started,
              alone |-> q.alone]
  BY DEF Active, AllKinds
<1>5. [q EXCEPT !.pc = "clear"] = x
  <2>1. q = [kind |-> "refresh", pc |-> q.pc, started |-> q.started,
             alone |-> q.alone]
    BY <1>1, <1>3 DEF Active
  <2>. DEFINE y == [kind |-> "refresh", pc |-> q.pc, started |-> q.started,
                    alone |-> q.alone]
  <2>2. [y EXCEPT !.pc = "clear"] = x
    BY <1>4
  <2>. QED  BY <2>1, <2>2
<1>6. /\ x.kind = "refresh" /\ x.pc = "clear" /\ x.started = req[r].started
      /\ x.alone <=> req[r].alone
  BY <1>3, <1>4
<1>7. /\ req' \in [Requests -> Active \cup {IdleReq}]
      /\ req'[r] = x
      /\ \A p \in Requests \ {r} : req'[p] = req[p]
  <2>1. req' = [req EXCEPT ![r] = x]
    BY <1>1, <1>3, <1>5
  <2>. QED  BY <1>2, <2>1 DEF TypeOK
<1>8. x # IdleReq
  BY DEF Active, IdleReq, AllKinds
<1>9. /\ \A p \in Requests : (Idle(p)' <=> Idle(p)) /\ (Renews(p)' <=> Renews(p))
      /\ \A p \in Requests : ~ Idle(p) =>
            /\ req'[p].started = req[p].started
            /\ req'[p].alone <=> req[p].alone
            /\ req'[p].kind = req[p].kind
      /\ Watched' = Watched
  BY <1>1, <1>6, <1>7, <1>8 DEF Idle, Renews, IdleReq, Watched
<1>10. /\ outCache' \in [Outputs -> Answers \cup {NoOutput}]
       /\ outCache'["sub"] = NoOutput
       /\ outCache'["filter"] = outCache["filter"]
       /\ \A o \in Outputs : outCache'[o] \in {outCache[o], NoOutput}
  BY <1>1, <1>2 DEF TypeOK, Outputs
<1>11. TypeOK'
  BY <1>1, <1>2, <1>7, <1>10 DEF TypeOK, Nothing
<1>12. Stages'
  <2>1. IdleFetchesNothing'
    BY <1>1, <1>2, <1>9 DEF Stages, IdleFetchesNothing
  <2>2. AloneIsAlone'
    BY <1>2, <1>9 DEF Stages, AloneIsAlone
  <2>3. RenewsByForce'
    BY <1>1, <1>2, <1>6, <1>7, <1>9 DEF Stages, RenewsByForce
  <2>. QED  BY <2>1, <2>2, <2>3 DEF Stages
<1>13. Ages'
  <2>1. \A t \in Sources : BodyAge(srcCache[t], now)' /\ BodyAge(srcFile[t], now)'
    BY <1>1, <1>2 DEF Ages, BodyAge, NoBody
  <2>2. \A o \in Outputs : OutputAge(outCache[o], now)'
    BY <1>1, <1>2, <1>10 DEF Ages, OutputAge, NoOutput
  <2>3. ASSUME NEW p \in Requests, ~ Idle(p)'
        PROVE  /\ req'[p].started <= now'
               /\ StaleAge(p)'
               /\ \A s \in Sources : LegAge(leg[p][s], req[p].started, now)'
    <3>1. ~ Idle(p) /\ req'[p].started = req[p].started
      BY <1>9, <2>3
    <3>2. StaleAge(p)'
      BY <1>10 DEF StaleAge, NoOutput
    <3>3. /\ req[p].started <= now
          /\ \A s \in Sources : LegAge(leg[p][s], req[p].started, now)
      BY <1>2, <3>1 DEF Ages
    <3>. QED  BY <1>1, <3>1, <3>2, <3>3 DEF LegAge, Carries
  <2>. QED  BY <2>1, <2>2, <2>3 DEF Ages
<1>14. Sticks'
  <2>1. \A o \in Outputs : OutputSticks(outCache[o])'
    BY <1>1, <1>2, <1>9, <1>10 DEF Sticks, OutputSticks, NoOutput
  <2>. QED
    BY <1>1, <1>2, <1>9, <2>1 DEF Sticks, BodySticks, Carries, NoBody
<1>15. LoneRenewal'
  <2>. SUFFICES ASSUME NEW p \in Requests, Renews(p)', req'[p].alone
                PROVE  \A s \in Remote : Renewed(p, s)'
    BY <1>10 DEF LoneRenewal, Remote
  <2>1. Renews(p) /\ req[p].alone
    BY <1>9 DEF Renews
  <2>2. \A s \in Remote : Renewed(p, s)
    BY <1>2, <2>1 DEF LoneRenewal
  <2>. QED  BY <1>1, <1>10, <2>2
            DEF Renewed, Newest, Over, Carries, NoBody, NoOutput
<1>. QED  BY <1>1, <1>11, <1>12, <1>13, <1>14, <1>15, NoReply DEF IInv

-----------------------------------------------------------------------------
(* The process restarts; time passes.                                      *)

(* After a restart only files are left, read back as generic maps.         *)
LEMMA RestartKeeps == ASSUME IInv, Restart PROVE IInv'
<1>. USE Constants
<1>1. PICK found \in SUBSET {s \in Sources : srcFile[s] # NoBody} :
         /\ srcCache' = [s \in Sources |->
                            IF s \in found
                            THEN [srcFile[s] EXCEPT !.form = "generic"]
                            ELSE NoBody]
         /\ srcFile' = [s \in Sources |->
                           IF s \in found THEN srcFile[s] ELSE NoBody]
  BY DEF Restart
<1>2. /\ outCache' = [o \in Outputs |-> NoOutput]
      /\ req' = [r \in Requests |-> IdleReq]
      /\ leg' = [r \in Requests |-> [s \in Sources |-> Leg("off")]]
      /\ reply' = Nothing
      /\ now' = now /\ tested' = tested /\ raced' = raced
  BY DEF Restart
<1>3. TypeOK /\ Ages /\ Sticks
  BY DEF IInv
<1>4. Leg("off") \in Legs /\ Leg("off").st = "off" /\ ~ Carries(Leg("off"))
  BY FirstLeg DEF Restless
<1>5. ASSUME NEW s \in Sources
      PROVE  /\ srcFile'[s] \in {srcFile[s], NoBody}
             /\ srcCache'[s] \in Bodies \cup {NoBody}
             /\ srcCache'[s] # NoBody => srcCache'[s].form = "generic"
             /\ BodyAge(srcCache'[s], now) /\ BodyAge(srcFile'[s], now)
  <2>1. BodyAge(srcFile[s], now) /\ BodyAge(NoBody, now)
    BY <1>3 DEF Ages, BodyAge
  <2>2. CASE s \in found
    <3>1. srcFile[s] # NoBody /\ srcFile[s] \in Bodies
      BY <1>3, <2>2 DEF TypeOK
    <3>2. PICK b \in Bodies : b = srcFile[s] /\ b # NoBody
      BY <3>1
    <3>3. /\ [b EXCEPT !.form = "generic"] \in Bodies
          /\ [b EXCEPT !.form = "generic"].form = "generic"
          /\ [b EXCEPT !.form = "generic"].at = b.at
          /\ [b EXCEPT !.form = "generic"].held = b.held
          /\ [b EXCEPT !.form = "generic"].exp = b.exp
      BY DEF Bodies
    <3>4. srcCache'[s] = [b EXCEPT !.form = "generic"] /\ srcFile'[s] = b
      BY <1>1, <2>2, <3>2
    <3>5. BodyAge(b, now)
      BY <2>1, <3>2
    <3>. QED  BY <3>2, <3>3, <3>4, <3>5 DEF BodyAge
  <2>3. CASE s \notin found
    BY <1>1, <2>1, <2>3
  <2>. QED  BY <2>2, <2>3
<1>6. /\ \A r \in Requests : Idle(r)' /\ ~ Renews(r)'
      /\ \A r \in Requests, s \in Sources : /\ leg'[r][s].st = "off"
                                            /\ ~ Carries(leg[r][s])'
      /\ \A o \in Outputs : outCache'[o] = NoOutput
      /\ Watched' = Watched
  BY <1>2, <1>4 DEF Idle, Renews, Watched, IdleReq, Carries
<1>7. TypeOK'
  <2>1. /\ srcCache' \in [Sources -> Bodies \cup {NoBody}]
        /\ srcFile' \in [Sources -> Bodies \cup {NoBody}]
    <3>1. \A s \in Sources : srcFile'[s] \in Bodies \cup {NoBody}
      BY <1>3, <1>5 DEF TypeOK
    <3>2. /\ srcCache' = [s \in Sources |-> srcCache'[s]]
          /\ srcFile' = [s \in Sources |-> srcFile'[s]]
      BY <1>1
    <3>. QED  BY <1>5, <3>1, <3>2
  <2>2. leg' \in [Requests -> [Sources -> Legs]]
    BY <1>2, <1>4
  <2>. QED  BY <1>2, <1>3, <2>1, <2>2 DEF TypeOK, Nothing
<1>8. Stages'
  BY <1>6 DEF Stages, IdleFetchesNothing, AloneIsAlone, RenewsByForce, Renews
<1>9. Ages'
  BY <1>2, <1>5, <1>6 DEF Ages, BodyAge, OutputAge, NoBody, NoOutput
<1>10. Sticks'
  <2>1. \A o \in Outputs : OutputSticks(outCache[o])'
    BY <1>6 DEF OutputSticks, NoOutput
  <2>2. ASSUME NEW s \in Watched'
        PROVE  /\ BodySticks(srcCache[s], s)'
               /\ \A r \in Requests : ~ Carries(leg[r][s])'
    <3>1. s \in Sources
      BY <1>6 DEF Watched
    <3>2. BodySticks(srcCache[s], s)'
      BY <1>5, <3>1 DEF BodySticks, NoBody
    <3>. QED  BY <1>6, <3>1, <3>2
  <2>3. \A s \in Sources : tested'[s] <= now'
    BY <1>2, <1>3 DEF Sticks
  <2>. QED  BY <2>1, <2>2, <2>3 DEF Sticks
<1>11. LoneRenewal'
  BY <1>6 DEF LoneRenewal, Renews
<1>. QED  BY <1>2, <1>7, <1>8, <1>9, <1>10, <1>11, NoReply DEF IInv

(* Every bound moves with the clock.                                       *)
LEMMA TickKeeps == ASSUME IInv, Tick PROVE IInv'
<1>. USE Constants
<1>1. /\ now' = now + 1
      /\ srcFile' = [s \in Sources |->
                        IF srcFile[s] # NoBody /\ now' > srcFile[s].exp
                        THEN NoBody ELSE srcFile[s]]
      /\ reply' = Nothing
      /\ srcCache' = srcCache /\ outCache' = outCache /\ req' = req
      /\ leg' = leg /\ tested' = tested /\ raced' = raced
  BY DEF Tick
<1>2. TypeOK /\ Stages /\ Ages /\ Sticks /\ LoneRenewal /\ now \in Nat
  BY DEF IInv, TypeOK
<1>3. /\ srcFile' \in [Sources -> Bodies \cup {NoBody}]
      /\ \A s \in Sources : srcFile'[s] \in {srcFile[s], NoBody}
  BY <1>1, <1>2 DEF TypeOK
<1>4. TypeOK'
  BY <1>1, <1>2, <1>3 DEF TypeOK, Nothing
<1>5. /\ Stages' /\ LoneRenewal'
  BY <1>1, <1>2
     DEF Stages, IdleFetchesNothing, AloneIsAlone, RenewsByForce, Idle, Renews,
         LoneRenewal, Renewed, Newest, Over, Carries, NoBody, NoOutput, IdleReq
<1>6. ASSUME NEW b \in Bodies \cup {NoBody}, BodyAge(b, now)
      PROVE  BodyAge(b, now)' /\ BodyAge(NoBody, now)'
  BY <1>1, <1>2, <1>6, BodyForm DEF BodyAge, NoBody
<1>7. Ages'
  <2>1. ASSUME NEW s \in Sources
        PROVE  BodyAge(srcCache[s], now)' /\ BodyAge(srcFile[s], now)'
    <3>1. PICK b \in Bodies \cup {NoBody} : b = srcCache[s] /\ BodyAge(b, now)
      BY <1>2 DEF TypeOK, Ages
    <3>2. PICK f \in Bodies \cup {NoBody} : f = srcFile[s] /\ BodyAge(f, now)
      BY <1>2 DEF TypeOK, Ages
    <3>3. /\ BodyAge(b, now)' /\ BodyAge(f, now)' /\ BodyAge(NoBody, now)'
      BY <1>6, <3>1, <3>2
    <3>. QED  BY <1>1, <1>3, <3>1, <3>2, <3>3 DEF BodyAge, NoBody
  <2>2. ASSUME NEW o \in Outputs
        PROVE  OutputAge(outCache[o], now)'
    <3>1. PICK a \in Answers \cup {NoOutput} :
             a = outCache[o] /\ OutputAge(a, now)
      BY <1>2 DEF TypeOK, Ages
    <3>2. a # NoOutput => a.exp \in Nat
      BY OutputForm
    <3>3. OutputAge(a, now)'
      BY <1>1, <1>2, <3>1, <3>2 DEF OutputAge, NoOutput
    <3>. QED  BY <1>1, <3>1, <3>3 DEF OutputAge, NoOutput
  <2>3. ASSUME NEW r \in Requests, ~ Idle(r)'
        PROVE  /\ req'[r].started <= now'
               /\ StaleAge(r)'
               /\ \A s \in Sources : LegAge(leg[r][s], req[r].started, now)'
    <3>1. ~ Idle(r)
      BY <1>1, <2>3 DEF Idle, IdleReq
    <3>2. /\ req[r].started \in Nat /\ req[r].started <= now /\ StaleAge(r)
      BY <1>2, <3>1, RequestForm DEF Ages
    <3>3. ASSUME NEW s \in Sources
          PROVE  LegAge(leg[r][s], req[r].started, now)'
      <4>1. PICK l \in Legs : l = leg[r][s] /\ LegAge(l, req[r].started, now)
        BY <1>2, <3>1 DEF TypeOK, Ages
      <4>2. l.at \in Nat
        BY LegForm
      <4>3. LegAge(l, req[r].started, now)'
        BY <1>1, <1>2, <4>1, <4>2 DEF LegAge, Carries
      <4>. QED  BY <1>1, <4>1, <4>3 DEF LegAge, Carries
    <3>. QED  BY <1>1, <1>2, <3>2, <3>3 DEF StaleAge, Idle, NoOutput, IdleReq
  <2>. QED  BY <2>1, <2>2, <2>3 DEF Ages
<1>8. Sticks'
  <2>1. \A s \in Sources : tested[s] \in Nat /\ tested[s] <= now
    BY <1>2 DEF TypeOK, Sticks
  <2>2. \A s \in Sources : tested'[s] <= now'
    BY <1>1, <1>2, <2>1
  <2>. QED
    BY <1>1, <1>2, <2>2
       DEF Sticks, OutputSticks, BodySticks, Carries, Watched, NoBody, NoOutput
<1>. QED  BY <1>1, <1>4, <1>5, <1>7, <1>8, NoReply DEF IInv

(* Nothing changes.                                                        *)
LEMMA StutterKeeps == ASSUME IInv, UNCHANGED vars PROVE IInv'
<1>1. /\ now' = now /\ srcCache' = srcCache /\ srcFile' = srcFile
      /\ outCache' = outCache /\ req' = req /\ leg' = leg /\ reply' = reply
      /\ tested' = tested /\ raced' = raced
  BY DEF vars
<1>2. TypeOK /\ Stages /\ Ages /\ AgeBound /\ Sticks /\ LoneRenewal
      /\ LoneRefreshSticks
  BY DEF IInv
<1>3. TypeOK'
  BY <1>1, <1>2 DEF TypeOK
<1>4. Stages' /\ Sticks' /\ LoneRenewal'
  BY <1>1, <1>2
     DEF Stages, IdleFetchesNothing, AloneIsAlone, RenewsByForce, Idle, Renews,
         Sticks, OutputSticks, BodySticks, Carries, Watched, LoneRenewal,
         Renewed, Newest, Over, NoBody, NoOutput, IdleReq
<1>5. Ages'
  BY <1>1, <1>2
     DEF Ages, BodyAge, OutputAge, LegAge, StaleAge, Carries, Idle, NoBody,
         NoOutput, IdleReq
<1>6. AgeBound' /\ LoneRefreshSticks'
  BY <1>1, <1>2 DEF AgeBound, LoneRefreshSticks, Nothing, NoOutput
<1>. QED  BY <1>2, <1>3, <1>4, <1>5, <1>6 DEF IInv

-----------------------------------------------------------------------------

(* Every action of Next keeps the invariant.                               *)
LEMMA StepKeeps == ASSUME IInv, Next PROVE IInv'
<1>1. ASSUME NEW r \in Requests, Arrive(r)
      PROVE  IInv'
  <2>1. ASSUME NEW o \in Outputs, OutputHit(r, o)
        PROVE  IInv'
    BY <2>1, OutputHitKeeps
  <2>2. ASSUME NEW o \in Outputs, OutputMiss(r, o)
        PROVE  IInv'
    BY <2>2, OutputMissKeeps
  <2>3. ASSUME Preview(r)
        PROVE  IInv'
    BY <2>3, PreviewKeeps
  <2>4. ASSUME Simulate(r)
        PROVE  IInv'
    BY <2>4, StartsKeeps DEF Simulate
  <2>5. ASSUME Refresh(r)
        PROVE  IInv'
    BY <2>5, StartsKeeps DEF Refresh
  <2>6. ASSUME NEW s \in Sources, Load(r, s)
        PROVE  IInv'
    BY <2>6, StartsKeeps DEF Load
  <2>7. ASSUME NEW s \in Sources, Test(r, s)
        PROVE  IInv'
    BY <2>7, StartsKeeps DEF Test
  <2>. QED
    BY <1>1, <2>1, <2>2, <2>3, <2>4, <2>5, <2>6, <2>7 DEF Arrive
<1>2. ASSUME NEW r \in Requests, Proceed(r)
      PROVE  IInv'
  <2>1. ASSUME NEW s \in Sources, Peek(r, s)
        PROVE  IInv'
    BY <2>1, PeekKeeps
  <2>2. ASSUME NEW s \in Sources, Look(r, s)
        PROVE  IInv'
    BY <2>2, LookStepKeeps
  <2>3. ASSUME NEW s \in Sources, Respond(r, s)
        PROVE  IInv'
    BY <2>3, RespondKeeps
  <2>4. ASSUME NEW s \in Sources, Store(r, s)
        PROVE  IInv'
    BY <2>4, StoreKeeps
  <2>5. ASSUME NEW s \in Sources, Invalidate(r, s)
        PROVE  IInv'
    BY <2>5, InvalidateKeeps
  <2>6. StaleHit(r) => IInv'
    BY StaleHitKeeps
  <2>7. StaleMiss(r) => IInv'
    BY StaleMissKeeps
  <2>8. Build(r) => IInv'
    BY BuildKeeps
  <2>9. Drop(r) => IInv'
    BY DropKeeps
  <2>10. EndTest(r) => IInv'
    BY EndTestKeeps
  <2>11. ClearSub(r) => IInv'
    BY ClearSubKeeps
  <2>12. ClearFilter(r) => IInv'
    BY ClearFilterKeeps
  <2>. QED
    BY <1>2, <2>1, <2>2, <2>3, <2>4, <2>5, <2>6, <2>7, <2>8, <2>9, <2>10,
       <2>11, <2>12 DEF Proceed
<1>. QED  BY <1>1, <1>2, RestartKeeps, TickKeeps DEF Next

(* The types, the stages, ages and histories of both caches, and the two   *)
(* properties of what clients get, hold in every behaviour.                *)
THEOREM Invariance == Spec => []IInv
<1>1. Init => IInv
  BY Initially
<1>2. IInv /\ [Next]_vars => IInv'
  BY StepKeeps, StutterKeeps
<1>. QED  BY <1>1, <1>2, PTL DEF Spec

(* Every variable keeps to its type: what is cached, in a file, on its way *)
(* or sent has the form the code gives it.                                 *)
THEOREM TypeCorrect == Spec => []TypeOK
<1>1. IInv => TypeOK
  BY DEF IInv
<1>. QED  BY <1>1, Invariance, PTL

(* No answer holds a body older than both times to live, the body's own    *)
(* way, the building of the answer and the wait of the request allow       *)
(* (sub.go:48-92, filter.go:30-38, provider.go:66-150).                    *)
THEOREM AnswersAge == Spec => []AgeBound
<1>1. IInv => AgeBound
  BY DEF IInv
<1>. QED  BY <1>1, Invariance, PTL

(* What a test or refresh that ran alone has fetched is not undone by any  *)
(* older body, in a cache, in a file or on its way (test.go:54-71,         *)
(* source_refresh.go:54-94, provider.go:92-93).                            *)
THEOREM RefreshIsKept == Spec => []LoneRefreshSticks
<1>1. IInv => LoneRefreshSticks
  BY DEF IInv
<1>. QED  BY <1>1, Invariance, PTL

=============================================================================
