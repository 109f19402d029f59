---------------------------- MODULE StoreProofs ----------------------------
(***************************************************************************)
(* The stores, for any passwords, entries, categories, requests at once    *)
(* and bounds.                                                             *)
(*   Auth: tokens outlive restarts, and a password that was set alone is   *)
(*   kept.                                                                 *)
(*   NamedStore: routing profiles outlive a restart.                       *)
(*   Catalog: requests that decode into the same slice leave it whole, and *)
(*   an empty answer has one cause, a first write that was cut short.      *)
(*   MCStores: with the stores side by side each one runs as it does       *)
(*   alone.                                                                *)
(***************************************************************************)
EXTENDS MCStores, SourceProofs, TLAPS

(* Auth.                                                                   *)

Busy(r) == req[r] # IdleReq
AllIdle == \A r \in Reqs : ~Busy(r)

PastPcs == {"copied", "save", "write", "publish", "init", "load"}
Past(r) == req[r].pc \in PastPcs

-----------------------------------------------------------------------------
(* One secret is drawn, and it is everywhere: the invariant of tokens.     *)

OnlyUpIsBusy == authUp # "up" => AllIdle

Files == {Absent, Torn} \cup [state : {"ok"}, cfg : Configs]

Secrets ==
    /\ secrets \in {0, 1}
    /\ issued \subseteq {1}
    /\ authUp # "booting" => secrets = 1 /\ cfg.secret = 1
    /\ authUp = "booting" => /\ cfg.secret = 0
                             /\ authFile # Torn
                             /\ authFile = Absent => secrets = 0
    /\ authUp = "saving" => authFile = Torn
    /\ authFile = Absent => authUp = "booting"
    /\ Readable => secrets = 1 /\ authFile.cfg.secret = 1
    /\ \A r \in Reqs :
          Past(r) => \/ req[r].c.secret = 1
                     \/ req[r].pc = "load" /\ req[r].c = Zero

OneSecret == ~authWrecked => Secrets

-----------------------------------------------------------------------------
(* What a request in progress knows, as long as no two overlapped.         *)

Agrees(c) ==
    /\ c.hash # NoHash => c.enabled
    /\ acked # NoHash => c.hash = acked

Settled == authFile = Ok(cfg) /\ Agrees(cfg)

HasSet(r, c) == c.enabled /\ c.hash = req[r].new

Progress(r) ==
    /\ req[r].pc \in {"hash", "copied"} => Settled
    /\ req[r].pc = "copied" => req[r].c = cfg
    /\ req[r].pc \in {"save", "write", "publish"} => HasSet(r, req[r].c)
    /\ req[r].pc = "publish" => authFile = Ok(req[r].c)
    /\ req[r].pc \in {"init", "load"} => HasSet(r, cfg) /\ authFile = Ok(cfg)
    /\ req[r].pc = "load" => req[r].c = cfg

Lone ==
    /\ \A r, o \in Reqs : Busy(r) /\ Busy(o) => r = o
    /\ \A r \in Reqs : Busy(r) => Progress(r)
    /\ (authUp = "up" /\ AllIdle) => Settled
    /\ authUp = "saving" => Agrees(cfg)
    /\ authUp = "booting" => /\ cfg = Zero
                             /\ authFile = Absent => acked = NoHash
                             /\ Readable => Agrees(authFile.cfg)

LoneRequest == (~authWrecked /\ ~overlapped) => Lone

AuthInv ==
    /\ AuthTypeOK
    /\ OnlyUpIsBusy
    /\ OneSecret
    /\ LoneRequest

-----------------------------------------------------------------------------
(* What a step of one request does to the others: nothing.                 *)

LEMMA ZeroConfig == Zero \in Configs /\ Zero.secret = 0 /\ Zero.hash = NoHash
BY DEF Zero, Configs, Hashes

LEMMA OkHolds ==
    ASSUME NEW c \in Configs
    PROVE  Ok(c) \in Files /\ Ok(c).state = "ok" /\ Ok(c).cfg = c
                /\ Ok(c) # Absent /\ Ok(c) # Torn
BY DEF Ok, Files, Absent, Torn

LEMMA FileForm ==
    ASSUME AuthTypeOK, Readable
    PROVE  authFile.cfg \in Configs /\ authFile = Ok(authFile.cfg)
BY DEF AuthTypeOK, Readable, Absent, Torn, Ok

LEMMA IdleForm ==
    ASSUME AuthTypeOK, NEW r \in Reqs
    PROVE  /\ Busy(r) <=> req[r].pc # "idle"
           /\ req[r].pc \in {"idle", "hash"} \cup PastPcs
           /\ req[r].pc # "idle" => req[r].new \in Passwords
<1>1. req[r] \in Calls
  BY DEF AuthTypeOK
<1>. QED  BY <1>1 DEF Calls, IdleReq, Busy, PastPcs

LEMMA PastForm ==
    ASSUME AuthTypeOK, NEW r \in Reqs, Past(r)
    PROVE  /\ Busy(r)
           /\ req[r].c \in Configs
           /\ req[r].new \in Passwords
           /\ req[r] = [pc |-> req[r].pc, new |-> req[r].new,
                        kind |-> req[r].kind, c |-> req[r].c]
           /\ req[r].kind \in {"setup", "change"}
<1>1. req[r] \in [pc : PastPcs, new : Passwords, kind : {"setup", "change"},
                  c : Configs]
  BY DEF AuthTypeOK, Calls, IdleReq, Past, PastPcs
<1>. QED  BY <1>1 DEF Busy, IdleReq, PastPcs

LEMMA PastCalls ==
    ASSUME NEW pc \in PastPcs, NEW n \in Passwords,
           NEW k \in {"setup", "change"}, NEW c \in Configs
    PROVE  [pc |-> pc, new |-> n, kind |-> k, c |-> c] \in Calls \ {IdleReq}
BY DEF Calls, IdleReq, PastPcs

LEMMA AtForm ==
    ASSUME NEW r \in Reqs, NEW pc \in PastPcs \cup {"hash"}, At(r, pc)
    PROVE  authUp = "up" /\ Busy(r)
BY DEF At, Busy, IdleReq, PastPcs

LEMMA ReqStep ==
    ASSUME AuthTypeOK, NEW r \in Reqs, NEW x \in Calls,
           req' = [req EXCEPT ![r] = x]
    PROVE  /\ req' \in [Reqs -> Calls]
           /\ req'[r] = x
           /\ \A o \in Reqs \ {r} : req'[o] = req[o]
BY DEF AuthTypeOK

LEMMA SecretStep ==
    ASSUME AuthTypeOK, Secrets, authUp = "up", authUp' = authUp,
           secrets' = secrets, cfg'.secret = 1, issued' \subseteq {1},
           authFile' # Absent, Readable' => authFile'.cfg.secret = 1,
           NEW r \in Reqs, NEW x \in Calls, req' = [req EXCEPT ![r] = x],
           x.pc \in PastPcs => \/ x.c.secret = 1
                               \/ x.pc = "load" /\ x.c = Zero
    PROVE  Secrets'
<1>1. \A o \in Reqs :
        Past(o)' => \/ req'[o].c.secret = 1
                    \/ req'[o].pc = "load" /\ req'[o].c = Zero'
  BY ReqStep DEF Secrets, Past, Zero
<1>. QED  BY <1>1 DEF Secrets

(* The one request in progress makes a step: what has to be shown of it.   *)
LEMMA LoneStep ==
    ASSUME AuthTypeOK, authUp = "up", authUp' = authUp,
           NEW r \in Reqs, NEW x \in Calls, req' = [req EXCEPT ![r] = x],
           \A o \in Reqs \ {r} : ~Busy(o),
           x # IdleReq => Progress(r)',
           x = IdleReq => Settled'
    PROVE  Lone'
<1>1. req'[r] = x /\ \A o \in Reqs \ {r} : req'[o] = IdleReq
  BY ReqStep DEF Busy
<1>2. \A r1, o \in Reqs : Busy(r1)' /\ Busy(o)' => r1 = o
  BY <1>1 DEF Busy
<1>3. \A o \in Reqs : Busy(o)' => Progress(o)'
  BY <1>1 DEF Busy
<1>4. AllIdle' => Settled'
  BY <1>1 DEF AllIdle, Busy
<1>. QED  BY <1>2, <1>3, <1>4 DEF Lone

(* Another request is not in progress, if no two have overlapped.          *)
LEMMA OthersIdle ==
    ASSUME Lone, NEW r \in Reqs, Busy(r)
    PROVE  \A o \in Reqs \ {r} : ~Busy(o)
BY DEF Lone

LEMMA AuthInitially == AuthInit => AuthInv
<1>. SUFFICES ASSUME AuthInit PROVE AuthInv
  OBVIOUS
<1>1. \A r \in Reqs : req[r] = IdleReq /\ ~Past(r) /\ ~Busy(r)
  BY DEF AuthInit, IdleReq, Past, PastPcs, Busy
<1>2. req \in [Reqs -> Calls]
  BY DEF AuthInit, Calls
<1>3. AuthTypeOK
  BY <1>2, ZeroConfig DEF AuthInit, AuthTypeOK, Hashes
<1>4. OnlyUpIsBusy
  BY <1>1 DEF OnlyUpIsBusy, AllIdle
<1>5. Secrets
  BY <1>1, ZeroConfig DEF AuthInit, Secrets, Readable, Absent, Torn
<1>6. Lone
  BY <1>1 DEF AuthInit, Lone, Readable, Absent
<1>. QED  BY <1>3, <1>4, <1>5, <1>6 DEF AuthInv, OneSecret, LoneRequest

-----------------------------------------------------------------------------
(* The start and the crash.                                                *)

LEMMA BootLoadKeeps ==
    ASSUME AuthInv, BootLoad
    PROVE  AuthInv'
<1>. DEFINE loaded == IF Readable THEN authFile.cfg ELSE cfg
<1>1. loaded \in Configs
  BY FileForm DEF AuthInv, AuthTypeOK
<1>2. /\ loaded.secret = 0 =>
           /\ secrets' = secrets + 1
           /\ cfg' = [loaded EXCEPT !.secret = secrets + 1]
           /\ authFile' = Torn /\ authUp' = "saving"
      /\ loaded.secret # 0 =>
           cfg' = loaded /\ authUp' = "up"
           /\ authFile' = authFile /\ secrets' = secrets
  BY DEF BootLoad
<1>3. /\ secrets \in Nat /\ secrets' \in Nat /\ secrets <= secrets'
      /\ cfg' \in Configs
      /\ authFile' \in {Absent, Torn} \cup [state : {"ok"}, cfg : Configs]
      /\ authUp' \in {"booting", "saving", "up"}
  <2>. HIDE DEF loaded
  <2>. QED  BY <1>1, <1>2 DEF AuthInv, AuthTypeOK, Configs
<1>4. AuthTypeOK'
  BY <1>3 DEF AuthInv, AuthTypeOK, BootLoad
<1>5. /\ AllIdle /\ AllIdle' /\ req' = req
      /\ \A r \in Reqs : ~Past(r)'
  BY DEF AuthInv, OnlyUpIsBusy, BootLoad, AllIdle, Busy, Past, PastPcs, IdleReq
<1>6. ASSUME ~authWrecked PROVE Secrets'
  <2>3. issued' \subseteq {1}
    BY <1>6 DEF AuthInv, OneSecret, Secrets, BootLoad
  <2>1. CASE Readable
    <3>1. secrets = 1 /\ loaded.secret = 1
      BY <1>6, <2>1 DEF AuthInv, OneSecret, Secrets
    <3>2. cfg' = loaded /\ authUp' = "up" /\ authFile' = authFile
          /\ secrets' = secrets
      BY <1>2, <3>1
    <3>. QED  BY <1>5, <2>1, <2>3, <3>1, <3>2 DEF Secrets, Readable, Absent
  <2>2. CASE ~Readable
    <3>1. authFile = Absent /\ secrets = 0 /\ authUp = "booting"
      BY <1>6, <2>2 DEF AuthInv, OneSecret, Secrets, AuthTypeOK, BootLoad, Readable
    <3>2. \/ loaded.secret = 0
          \/ authUp' = "up" /\ authFile' = Absent
      BY <1>2, <3>1
    <3>3. CASE loaded.secret = 0
      <4>1. secrets' = 1 /\ cfg'.secret = 1
        BY <1>1, <1>2, <3>1, <3>3 DEF Configs
      <4>. QED  BY <1>2, <1>5, <2>3, <3>3, <4>1 DEF Secrets, Readable, Absent, Torn
    <3>4. CASE loaded.secret # 0
      (* Without a file the configuration is the zero one.                 *)
      <4>1. cfg.secret = 0
        BY <1>6, <3>1 DEF AuthInv, OneSecret, Secrets
      <4>. QED  BY <2>2, <3>4, <4>1
    <3>. QED  BY <3>3, <3>4
  <2>. QED  BY <2>1, <2>2
<1>7. ASSUME ~authWrecked, ~overlapped PROVE Lone'
  <2>1. Agrees(loaded) /\ acked' = acked
    <3>1. cfg = Zero /\ (authFile = Absent => acked = NoHash)
          /\ (Readable => Agrees(authFile.cfg))
      BY <1>7 DEF AuthInv, LoneRequest, Lone, BootLoad
    <3>2. ~Readable => authFile = Absent
      BY <1>7 DEF AuthInv, OneSecret, Secrets, AuthTypeOK, BootLoad, Readable
    <3>. QED  BY <3>1, <3>2, ZeroConfig DEF Agrees, BootLoad
  <2>2. cfg'.hash = loaded.hash /\ cfg'.enabled = loaded.enabled
    BY <1>1, <1>2 DEF Configs
  <2>3. Agrees(cfg)'
    BY <2>1, <2>2 DEF Agrees
  <2>4. authUp' = "up" => authFile' = Ok(cfg)'
    <3>1. authUp' = "up" => cfg' = loaded /\ authFile' = authFile
                            /\ loaded.secret # 0
      BY <1>2
    <3>2. cfg.secret = 0
      BY <1>7, ZeroConfig DEF AuthInv, LoneRequest, Lone, BootLoad
    <3>. QED  BY <3>1, <3>2, FileForm DEF AuthInv, Ok
  <2>5. authUp' # "booting"
    BY <1>2
  <2>. QED  BY <1>5, <2>3, <2>4, <2>5 DEF Lone, Settled, AllIdle
<1>. QED
  BY <1>4, <1>5, <1>6, <1>7
     DEF AuthInv, OnlyUpIsBusy, OneSecret, LoneRequest, BootLoad

LEMMA BootSaveKeeps ==
    ASSUME AuthInv, BootSave
    PROVE  AuthInv'
<1>1. /\ AllIdle /\ AllIdle' /\ req' = req
      /\ \A r \in Reqs : ~Past(r)'
  BY DEF AuthInv, OnlyUpIsBusy, BootSave, AllIdle, Busy, Past, PastPcs, IdleReq
<1>2. cfg \in Configs /\ cfg' = cfg
  BY DEF AuthInv, AuthTypeOK, BootSave
<1>3. CASE authFile' = Ok(cfg) /\ UNCHANGED <<authWrecked, authFailures>>
  <2>1. AuthTypeOK'
    BY <1>2, <1>3, OkHolds DEF AuthInv, AuthTypeOK, BootSave, Files
  <2>2. ASSUME ~authWrecked PROVE Secrets'
    <3>1. authUp' = "up" /\ secrets' = secrets /\ secrets = 1
          /\ cfg.secret = 1
      BY <2>2 DEF AuthInv, OneSecret, Secrets, BootSave
    <3>2. issued' \subseteq {1}
      BY <2>2 DEF AuthInv, OneSecret, Secrets, BootSave
    <3>. QED  BY <1>1, <1>2, <1>3, <3>1, <3>2, OkHolds DEF Secrets, Readable
  <2>3. ASSUME ~authWrecked, ~overlapped PROVE Lone'
    <3>1. Agrees(cfg) /\ Agrees(cfg)'
      BY <1>2, <2>3 DEF AuthInv, LoneRequest, Lone, BootSave, Agrees
    <3>. QED  BY <1>1, <1>2, <1>3, <3>1 DEF Lone, Settled, BootSave, AllIdle
  <2>. QED
    BY <1>1, <1>3, <2>1, <2>2, <2>3
       DEF AuthInv, OnlyUpIsBusy, OneSecret, LoneRequest, BootSave
<1>4. CASE /\ authFailures' = authFailures + 1
           /\ authWrecked' = TRUE
           /\ UNCHANGED authFile
  <2>1. AuthTypeOK'
    BY <1>2, <1>4 DEF AuthInv, AuthTypeOK, BootSave
  <2>. QED
    BY <1>1, <1>4, <2>1 DEF AuthInv, OnlyUpIsBusy, OneSecret, LoneRequest, BootSave
<1>. QED  BY <1>3, <1>4 DEF BootSave

LEMMA AuthCrashKeeps ==
    ASSUME AuthInv, AuthCrash
    PROVE  AuthInv'
<1>1. \A r \in Reqs : req'[r] = IdleReq /\ ~Busy(r)' /\ ~Past(r)'
  BY DEF AuthCrash, IdleReq, Busy, Past, PastPcs
<1>2. req' \in [Reqs -> Calls]
  BY DEF AuthCrash, Calls
<1>3. authWrecked' \in BOOLEAN /\ overlapped' \in BOOLEAN
  BY Zenon DEF AuthCrash
<1>4. AuthTypeOK'
  BY <1>2, <1>3, ZeroConfig DEF AuthInv, AuthTypeOK, AuthCrash
<1>5. ASSUME ~authWrecked' PROVE Secrets'
  <2>1. ~authWrecked /\ authFile # Torn /\ authFile' = authFile
    BY <1>5 DEF AuthCrash
  <2>2. Secrets
    BY <2>1 DEF AuthInv, OneSecret
  <2>3. authFile = Absent => secrets = 0
    BY <2>2 DEF Secrets
  <2>. QED
    BY <1>1, <2>1, <2>2, <2>3, ZeroConfig DEF Secrets, AuthCrash, Readable
<1>6. ASSUME ~authWrecked', ~overlapped' PROVE Lone'
  <2>1. ~authWrecked /\ ~overlapped /\ AllIdle
    BY <1>6 DEF AuthCrash, AllIdle, Busy
  <2>2. Lone /\ Secrets /\ authFile' = authFile /\ acked' = acked
    BY <2>1 DEF AuthInv, LoneRequest, OneSecret, AuthCrash
  <2>3. authFile = Absent => acked = NoHash
    BY <2>2 DEF Lone, Secrets
  <2>4. Readable => Agrees(authFile.cfg)
    <3>1. CASE authUp = "booting"
      BY <2>2, <3>1 DEF Lone
    <3>2. CASE authUp = "saving"
      BY <2>2, <3>2 DEF Secrets, Readable, Torn
    <3>3. CASE authUp = "up"
      BY <2>1, <2>2, <3>3 DEF Lone, Settled, Ok
    <3>. QED  BY <3>1, <3>2, <3>3 DEF AuthInv, AuthTypeOK
  <2>5. authUp' = "booting" /\ cfg' = Zero'
    BY DEF AuthCrash, Zero
  <2>. QED  BY <1>1, <2>2, <2>3, <2>4, <2>5 DEF Lone, Readable, Agrees
<1>. QED
  BY <1>1, <1>4, <1>5, <1>6
     DEF AuthInv, OnlyUpIsBusy, OneSecret, LoneRequest, AllIdle

-----------------------------------------------------------------------------
(* The handlers.                                                           *)

LEMMA LoginKeeps ==
    ASSUME AuthInv, Login
    PROVE  AuthInv'
<1>1. /\ UNCHANGED <<authUp, authFile, cfg, req, saveMu, secrets, acked,
                     overlapped, authWrecked, authCrashes, authFailures>>
      /\ authUp = "up"
      /\ issued' = issued \cup {cfg.secret}
  BY DEF Login
<1>2. AuthTypeOK'
  BY <1>1 DEF AuthInv, AuthTypeOK, Configs
<1>3. ASSUME ~authWrecked PROVE Secrets'
  BY <1>1, <1>3 DEF AuthInv, OneSecret, Secrets, Readable, Past
<1>4. ASSUME ~authWrecked, ~overlapped PROVE Lone'
  BY <1>1, <1>4 DEF AuthInv, LoneRequest, Lone, Settled, Agrees, Progress, HasSet,
                    Readable, Busy, AllIdle
<1>. QED
  BY <1>1, <1>2, <1>3, <1>4
     DEF AuthInv, OnlyUpIsBusy, OneSecret, LoneRequest, AllIdle, Busy

(* A request begins, Setup or ChangePassword, with what it copied.         *)
LEMMA BeginKeeps ==
    ASSUME AuthInv, NEW r \in Reqs, NEW x \in Calls, Begin(r, x),
           x # IdleReq,
           x.pc \in {"hash", "copied"},
           x.pc = "copied" => x.c = cfg
    PROVE  AuthInv'
<1>1. /\ authUp = "up" /\ authUp' = authUp /\ ~Busy(r)
      /\ req' = [req EXCEPT ![r] = x]
      /\ overlapped' = (overlapped \/ \E o \in Reqs : req[o] # IdleReq)
      /\ UNCHANGED <<authFile, cfg, saveMu, issued, acked, authWrecked,
                     authFailures, secrets, authCrashes>>
  BY DEF Begin, Step, Busy
<1>2. req' \in [Reqs -> Calls] /\ req'[r] = x
  BY <1>1, ReqStep DEF AuthInv
<1>3. overlapped' \in BOOLEAN
  BY <1>1, Zenon
<1>4. AuthTypeOK'
  BY <1>1, <1>2, <1>3 DEF AuthInv, AuthTypeOK
<1>5. ASSUME ~authWrecked PROVE Secrets'
  <2>1. Secrets
    BY <1>5 DEF AuthInv, OneSecret
  <2>. QED
    BY <1>1, <2>1, SecretStep DEF AuthInv, Secrets, Readable, PastPcs
<1>6. ASSUME ~authWrecked, ~overlapped' PROVE Lone'
  <2>1. ~overlapped /\ AllIdle /\ Lone
    BY <1>1, <1>6 DEF AuthInv, LoneRequest, AllIdle, Busy
  <2>2. Settled /\ Settled'
    BY <1>1, <2>1 DEF Lone, Settled, Agrees
  <2>3. Progress(r)'
    BY <1>1, <1>2, <2>2 DEF Progress
  <2>. QED  BY <1>1, <2>1, <2>3, LoneStep DEF AuthInv, AllIdle
<1>. QED
  BY <1>1, <1>4, <1>5, <1>6 DEF AuthInv, OnlyUpIsBusy, OneSecret, LoneRequest

LEMMA SetupKeeps ==
    ASSUME AuthInv, NEW r \in Reqs, Setup(r)
    PROVE  AuthInv'
<1>1. PICK p \in Passwords : Begin(r, [pc |-> "hash", new |-> p])
  BY DEF Setup
<1>2. [pc |-> "hash", new |-> p] \in Calls \ {IdleReq}
  BY DEF Calls, IdleReq
<1>. QED  BY <1>1, <1>2, BeginKeeps

LEMMA ChangePasswordKeeps ==
    ASSUME AuthInv, NEW r \in Reqs, ChangePassword(r)
    PROVE  AuthInv'
<1>1. PICK p \in Passwords :
        Begin(r, [pc |-> "copied", new |-> p, kind |-> "change", c |-> cfg])
  BY DEF ChangePassword
<1>2. [pc |-> "copied", new |-> p, kind |-> "change", c |-> cfg]
         \in Calls \ {IdleReq}
  BY PastCalls DEF AuthInv, AuthTypeOK, PastPcs
<1>. QED  BY <1>1, <1>2, BeginKeeps

-----------------------------------------------------------------------------
(* Every other step of a request is at a pc of its own, leaves what        *)
(* overlaps alone, and keeps the invariant if what it does to the          *)
(* configuration, the file and its own record keeps both parts of it.      *)
LEMMA RequestKeeps ==
    ASSUME AuthInv, NEW r \in Reqs, authUp = "up", Busy(r),
           NEW x \in Calls, Step(r, x),
           overlapped' = overlapped, authWrecked' \in BOOLEAN,
           authWrecked => authWrecked',
           cfg' \in Configs,
           authFile' \in {Absent, Torn} \cup [state : {"ok"}, cfg : Configs],
           saveMu' \in Reqs \cup {NoReq}, issued' \subseteq Nat,
           acked' \in Hashes, authFailures' \in Nat,
           (~authWrecked' /\ Secrets) =>
               /\ cfg'.secret = 1 /\ issued' \subseteq {1}
               /\ authFile' # Absent
               /\ Readable' => authFile'.cfg.secret = 1
               /\ x.pc \in PastPcs => \/ x.c.secret = 1
                                      \/ x.pc = "load" /\ x.c = Zero,
           (~authWrecked' /\ Secrets /\ Progress(r)) =>
               /\ x = IdleReq => Settled'
               /\ x # IdleReq => Progress(r)'
    PROVE  AuthInv'
<1>1. /\ req' = [req EXCEPT ![r] = x]
      /\ authUp' = authUp /\ secrets' = secrets /\ authCrashes' = authCrashes
  BY DEF Step
<1>2. AuthTypeOK'
  BY <1>1, ReqStep DEF AuthInv, AuthTypeOK
<1>3. ASSUME ~authWrecked' PROVE Secrets'
  <2>1. Secrets
    BY <1>3 DEF AuthInv, OneSecret
  <2>. QED  BY <1>1, <1>3, <2>1, SecretStep DEF AuthInv
<1>4. ASSUME ~authWrecked', ~overlapped' PROVE Lone'
  <2>1. Secrets /\ Lone
    BY <1>4 DEF AuthInv, OneSecret, LoneRequest
  <2>2. Progress(r) /\ \A o \in Reqs \ {r} : ~Busy(o)
    BY <1>1, <2>1, OthersIdle DEF Lone
  <2>. QED  BY <1>1, <1>4, <2>1, <2>2, LoneStep DEF AuthInv
<1>. QED
  BY <1>1, <1>2, <1>3, <1>4 DEF AuthInv, OnlyUpIsBusy, OneSecret, LoneRequest

(* The arguments of RequestKeeps that hold when nothing but the record     *)
(* changes.                                                                *)
Rest == <<cfg, authFile, saveMu, issued, acked, overlapped, authWrecked,
          authFailures>>

LEMMA RecordKeeps ==
    ASSUME AuthInv, NEW r \in Reqs, authUp = "up", Busy(r),
           NEW x \in Calls, Step(r, x), UNCHANGED Rest,
           (Secrets /\ x.pc \in PastPcs) =>
               \/ x.c.secret = 1
               \/ x.pc = "load" /\ x.c = Zero,
           (Secrets /\ Progress(r)) =>
               /\ x = IdleReq => Settled
               /\ x # IdleReq => Progress(r)'
    PROVE  AuthInv'
<1>1. Settled => Settled'
  BY DEF Rest, Settled, Agrees
<1>2. Secrets => /\ cfg.secret = 1 /\ issued \subseteq {1}
                 /\ authFile # Absent
                 /\ Readable => authFile.cfg.secret = 1
  BY <1>1 DEF Secrets
<1>. QED
  BY <1>1, <1>2, RequestKeeps DEF AuthInv, AuthTypeOK, Rest, Readable

LEMMA SetupCopyKeeps ==
    ASSUME AuthInv, NEW r \in Reqs, SetupCopy(r)
    PROVE  AuthInv'
<1>. DEFINE c == [cfg EXCEPT !.enabled = TRUE, !.hash = req[r].new]
<1>1. /\ At(r, "hash") /\ UNCHANGED Rest
      /\ Step(r, [pc |-> "save", new |-> req[r].new, kind |-> "setup",
                  c |-> c])
  BY DEF SetupCopy, Quiet, Rest
<1>2. req[r].new \in Passwords
  BY <1>1, IdleForm DEF AuthInv, At
<1>3. /\ c \in Configs /\ c.secret = cfg.secret
      /\ c.enabled = TRUE /\ c.hash = req[r].new
  BY <1>2 DEF AuthInv, AuthTypeOK, Configs, Hashes
<1>. HIDE DEF c
<1>4. PICK x \in Calls :
        x # IdleReq /\ x = [pc |-> "save", new |-> req[r].new, kind |-> "setup", c |-> c]
  BY <1>2, <1>3, PastCalls DEF PastPcs
<1>5. Secrets => x.c.secret = 1
  BY <1>1, <1>3, <1>4 DEF Secrets, At
<1>6. Progress(r)'
  <2>1. req'[r] = x
    BY <1>1, <1>4, ReqStep DEF AuthInv, Step
  <2>. QED  BY <1>3, <1>4, <2>1 DEF Progress, HasSet
<1>7. authUp = "up" /\ Busy(r)
  BY <1>1, AtForm
<1>8. Step(r, x)
  BY <1>1, <1>4 DEF Step
<1>. QED  BY <1>1, <1>4, <1>5, <1>6, <1>7, <1>8, RecordKeeps

LEMMA ChangeCheckKeeps ==
    ASSUME AuthInv, NEW r \in Reqs, ChangeCheck(r)
    PROVE  AuthInv'
<1>1. /\ At(r, "copied") /\ UNCHANGED Rest /\ Past(r)
      /\ authUp = "up" /\ Busy(r)
  BY AtForm DEF ChangeCheck, Quiet, Rest, At, Past, PastPcs
<1>. DEFINE c == [req[r].c EXCEPT !.hash = req[r].new]
<1>2. /\ req[r].new \in Passwords /\ req[r].kind \in {"setup", "change"}
      /\ req[r].c \in Configs
      /\ req[r] = [pc |-> req[r].pc, new |-> req[r].new, kind |-> req[r].kind,
                   c |-> req[r].c]
  BY <1>1, PastForm DEF AuthInv
<1>3. /\ c \in Configs /\ c.secret = req[r].c.secret
      /\ c.enabled = req[r].c.enabled /\ c.hash = req[r].new
  BY <1>2 DEF Configs, Hashes
<1>4. [req[r] EXCEPT !.pc = "save", !.c.hash = req[r].new] =
         [pc |-> "save", new |-> req[r].new, kind |-> req[r].kind, c |-> c]
  <2>. DEFINE y == [req[r] EXCEPT !.pc = "save"]
  <2>1. y = [pc |-> "save", new |-> req[r].new, kind |-> req[r].kind,
             c |-> req[r].c]
    BY <1>2
  <2>2. [req[r] EXCEPT !.pc = "save", !.c.hash = req[r].new] =
           [y EXCEPT !.c.hash = req[r].new]
    OBVIOUS
  <2>. HIDE DEF y
  <2>3. [y EXCEPT !.c.hash = req[r].new] =
           [pc |-> "save", new |-> req[r].new, kind |-> req[r].kind, c |-> c]
    BY <2>1
  <2>. QED  BY <2>2, <2>3
<1>. HIDE DEF c
<1>5. PICK x \in Calls :
        x # IdleReq /\ x = [pc |-> "save", new |-> req[r].new, kind |-> req[r].kind, c |-> c]
  BY <1>2, <1>3, PastCalls DEF PastPcs
<1>6. CASE cfg.hash # NoHash /\ Step(r, x)
  <2>1. Secrets => x.c.secret = 1
    BY <1>1, <1>3, <1>5 DEF Secrets, At
  <2>2. req'[r] = x
    BY <1>5, <1>6, ReqStep DEF AuthInv, Step
  <2>3. Progress(r) => Progress(r)'
    <3>1. Progress(r) => req[r].c = cfg /\ cfg.enabled
      BY <1>1, <1>6 DEF Progress, At, Settled, Agrees
    <3>. QED  BY <1>3, <1>5, <2>2, <3>1 DEF Progress, HasSet
  <2>. QED  BY <1>1, <1>5, <1>6, <2>1, <2>3, RecordKeeps
<1>7. CASE Step(r, IdleReq)
  <2>1. IdleReq \in Calls /\ IdleReq.pc \notin PastPcs
    BY DEF Calls, IdleReq, PastPcs
  <2>2. Progress(r) => Settled
    BY <1>1 DEF Progress, At
  <2>. QED  BY <1>1, <1>7, <2>1, <2>2, RecordKeeps
<1>. QED  BY <1>4, <1>5, <1>6, <1>7 DEF ChangeCheck

-----------------------------------------------------------------------------
(* SaveConfigSafe, Init and the answer.                                    *)

(* A request moves on, and keeps what it is about.                         *)
LEMMA Moved ==
    ASSUME AuthInv, NEW r \in Reqs, Past(r), NEW pc \in PastPcs,
           NEW c \in Configs, NEW y,
           y = [pc |-> pc, new |-> req[r].new, kind |-> req[r].kind, c |-> c],
           Step(r, y)
    PROVE  /\ y \in Calls /\ y # IdleReq
           /\ y.pc = pc /\ y.new = req[r].new /\ y.c = c
           /\ req'[r] = y
<1>1. req[r].new \in Passwords /\ req[r].kind \in {"setup", "change"}
  BY PastForm DEF AuthInv
<1>2. y \in Calls /\ y # IdleReq
  BY <1>1, PastCalls
<1>3. req'[r] = y
  BY <1>2, ReqStep DEF AuthInv, Step
<1>. QED  BY <1>2, <1>3

LEMMA SaveStartKeeps ==
    ASSUME AuthInv, NEW r \in Reqs, SaveStart(r)
    PROVE  AuthInv'
<1>1. /\ At(r, "save") /\ Past(r) /\ authUp = "up" /\ Busy(r)
      /\ Step(r, [req[r] EXCEPT !.pc = "write"])
      /\ authFile' = Torn /\ saveMu' = r /\ cfg' = cfg
      /\ UNCHANGED <<issued, acked, overlapped, authWrecked, authFailures>>
  BY AtForm DEF SaveStart, Quiet, At, Past, PastPcs
<1>2. PICK x : x = [pc |-> "write", new |-> req[r].new, kind |-> req[r].kind,
                    c |-> req[r].c]
  OBVIOUS
<1>3. Step(r, x) /\ req[r].c \in Configs
  <2>1. /\ req[r].c \in Configs
        /\ req[r] = [pc |-> req[r].pc, new |-> req[r].new,
                     kind |-> req[r].kind, c |-> req[r].c]
    BY <1>1, PastForm DEF AuthInv
  <2>2. x = [req[r] EXCEPT !.pc = "write"]
    BY <1>2, <2>1
  <2>. QED  BY <1>1, <2>1, <2>2 DEF Step
<1>4. /\ x \in Calls /\ x # IdleReq /\ req'[r] = x
      /\ x.pc = "write" /\ x.new = req[r].new /\ x.c = req[r].c
  BY <1>1, <1>2, <1>3, Moved DEF PastPcs
<1>5. Torn # Absent /\ Torn.state # "ok"
  BY DEF Torn, Absent
<1>6. Secrets => /\ cfg'.secret = 1 /\ issued' \subseteq {1}
                 /\ x.c.secret = 1
  BY <1>1, <1>4 DEF Secrets, At
<1>7. Progress(r) => Progress(r)'
  BY <1>1, <1>4 DEF Progress, HasSet, At
<1>. QED
  BY <1>1, <1>3, <1>4, <1>5, <1>6, <1>7, RequestKeeps
     DEF AuthInv, AuthTypeOK, Readable

LEMMA SaveEndKeeps ==
    ASSUME AuthInv, NEW r \in Reqs, SaveEnd(r)
    PROVE  AuthInv'
<1>1. /\ At(r, "write") /\ Past(r) /\ authUp = "up" /\ Busy(r)
      /\ Step(r, [req[r] EXCEPT !.pc = "publish"])
      /\ authFile' = Ok(req[r].c) /\ saveMu' = saveMu /\ cfg' = cfg
      /\ UNCHANGED <<issued, acked, overlapped, authWrecked, authFailures>>
  BY AtForm DEF SaveEnd, Quiet, At, Past, PastPcs
<1>2. PICK x : x = [pc |-> "publish", new |-> req[r].new, kind |-> req[r].kind,
                    c |-> req[r].c]
  OBVIOUS
<1>3. Step(r, x) /\ req[r].c \in Configs
  <2>1. /\ req[r].c \in Configs
        /\ req[r] = [pc |-> req[r].pc, new |-> req[r].new,
                     kind |-> req[r].kind, c |-> req[r].c]
    BY <1>1, PastForm DEF AuthInv
  <2>2. x = [req[r] EXCEPT !.pc = "publish"]
    BY <1>2, <2>1
  <2>. QED  BY <1>1, <2>1, <2>2 DEF Step
<1>4. /\ x \in Calls /\ x # IdleReq /\ req'[r] = x
      /\ x.pc = "publish" /\ x.new = req[r].new /\ x.c = req[r].c
  BY <1>1, <1>2, <1>3, Moved DEF PastPcs
<1>5. /\ authFile' \in Files /\ authFile' # Absent
      /\ authFile'.cfg = req[r].c
  BY <1>1, <1>3, OkHolds
<1>6. Secrets => /\ cfg'.secret = 1 /\ issued' \subseteq {1}
                 /\ x.c.secret = 1 /\ req[r].c.secret = 1
  BY <1>1, <1>4 DEF Secrets, At
<1>7. Progress(r) => Progress(r)'
  BY <1>1, <1>4 DEF Progress, HasSet, At
<1>. QED
  BY <1>1, <1>3, <1>4, <1>5, <1>6, <1>7, RequestKeeps
     DEF AuthInv, AuthTypeOK, Files

LEMMA WriteFailsKeeps ==
    ASSUME AuthInv, NEW r \in Reqs, WriteFails(r)
    PROVE  AuthInv'
<1>1. /\ authUp = "up" /\ Busy(r) /\ Step(r, IdleReq) /\ IdleReq \in Calls
      /\ authFailures' = authFailures + 1 /\ authWrecked' = TRUE
      /\ saveMu' = NoReq
      /\ UNCHANGED <<authFile, cfg, issued, acked, overlapped>>
  BY AtForm DEF WriteFails, PastPcs, Calls
<1>2. authFailures' \in Nat
  BY <1>1 DEF AuthInv, AuthTypeOK
<1>. QED  BY <1>1, <1>2, RequestKeeps DEF AuthInv, AuthTypeOK

LEMMA PublishKeeps ==
    ASSUME AuthInv, NEW r \in Reqs, Publish(r)
    PROVE  AuthInv'
<1>1. /\ At(r, "publish") /\ Past(r) /\ authUp = "up" /\ Busy(r)
      /\ Step(r, [req[r] EXCEPT !.pc = "init"])
      /\ authFile' = authFile /\ saveMu' = NoReq /\ cfg' = req[r].c
      /\ UNCHANGED <<issued, acked, overlapped, authWrecked, authFailures>>
  BY AtForm DEF Publish, Quiet, At, Past, PastPcs
<1>2. PICK x : x = [pc |-> "init", new |-> req[r].new, kind |-> req[r].kind,
                    c |-> req[r].c]
  OBVIOUS
<1>3. Step(r, x) /\ req[r].c \in Configs
  <2>1. /\ req[r].c \in Configs
        /\ req[r] = [pc |-> req[r].pc, new |-> req[r].new,
                     kind |-> req[r].kind, c |-> req[r].c]
    BY <1>1, PastForm DEF AuthInv
  <2>2. x = [req[r] EXCEPT !.pc = "init"]
    BY <1>2, <2>1
  <2>. QED  BY <1>1, <2>1, <2>2 DEF Step
<1>4. /\ x \in Calls /\ x # IdleReq /\ req'[r] = x
      /\ x.pc = "init" /\ x.new = req[r].new /\ x.c = req[r].c
  BY <1>1, <1>2, <1>3, Moved DEF PastPcs
<1>5. Secrets => /\ cfg'.secret = 1 /\ issued' \subseteq {1}
                 /\ x.c.secret = 1
                 /\ authFile' # Absent
                 /\ Readable' => authFile'.cfg.secret = 1
  BY <1>1, <1>4 DEF Secrets, At, Readable
<1>6. Progress(r) => Progress(r)'
  BY <1>1, <1>4 DEF Progress, HasSet, At, Ok
<1>. QED
  BY <1>1, <1>3, <1>4, <1>5, <1>6, RequestKeeps DEF AuthInv, AuthTypeOK

LEMMA InitReadKeeps ==
    ASSUME AuthInv, NEW r \in Reqs, InitRead(r)
    PROVE  AuthInv'
<1>. DEFINE c == IF Readable THEN authFile.cfg ELSE Zero
<1>1. /\ At(r, "init") /\ Past(r) /\ authUp = "up" /\ Busy(r)
      /\ Step(r, [req[r] EXCEPT !.pc = "load", !.c = c])
      /\ UNCHANGED Rest
  BY AtForm DEF InitRead, Quiet, At, Past, PastPcs, Rest
<1>2. c \in Configs
  BY FileForm, ZeroConfig DEF AuthInv
<1>3. PICK d \in Configs : d = c
  BY <1>2
<1>. HIDE DEF c
<1>4. PICK x : x = [pc |-> "load", new |-> req[r].new, kind |-> req[r].kind,
                    c |-> d]
  OBVIOUS
<1>5. Step(r, x)
  <2>. DEFINE y == [req[r] EXCEPT !.pc = "load"]
  <2>1. req[r] = [pc |-> req[r].pc, new |-> req[r].new,
                  kind |-> req[r].kind, c |-> req[r].c]
    BY <1>1, PastForm DEF AuthInv
  <2>2. y = [pc |-> "load", new |-> req[r].new, kind |-> req[r].kind,
             c |-> req[r].c]
    BY <2>1
  <2>3. [req[r] EXCEPT !.pc = "load", !.c = c] = [y EXCEPT !.c = c]
    OBVIOUS
  <2>. HIDE DEF y
  <2>4. [y EXCEPT !.c = c] = x
    BY <1>3, <1>4, <2>2
  <2>. QED  BY <1>1, <2>3, <2>4 DEF Step
<1>6. /\ x \in Calls /\ x # IdleReq /\ req'[r] = x
      /\ x.pc = "load" /\ x.new = req[r].new /\ x.c = c
  BY <1>1, <1>3, <1>4, <1>5, Moved DEF PastPcs
<1>7. Secrets => \/ x.c.secret = 1
                 \/ x.pc = "load" /\ x.c = Zero
  BY <1>6 DEF Secrets, c
<1>8. Progress(r) => Progress(r)'
  <2>1. Progress(r) => HasSet(r, cfg) /\ authFile = Ok(cfg) /\ c = cfg
    BY <1>1, OkHolds DEF Progress, At, Readable, Ok, c
  <2>. QED  BY <1>1, <1>6, <2>1 DEF Progress, HasSet, Rest
<1>. QED  BY <1>1, <1>5, <1>6, <1>7, <1>8, RecordKeeps

LEMMA InitLoadKeeps ==
    ASSUME AuthInv, NEW r \in Reqs, InitLoad(r)
    PROVE  AuthInv'
<1>. DEFINE c == IF req[r].c = Zero THEN cfg ELSE req[r].c
<1>1. /\ At(r, "load") /\ Past(r) /\ authUp = "up" /\ Busy(r)
      /\ Step(r, IdleReq) /\ IdleReq \in Calls
      /\ cfg' = c /\ acked' = req[r].new
      /\ issued' = issued \/ issued' = issued \cup {c.secret}
      /\ UNCHANGED <<authFile, saveMu, overlapped, authWrecked, authFailures>>
  BY AtForm DEF InitLoad, Assigned, At, Past, PastPcs, Calls
<1>2. /\ req[r].c \in Configs /\ req[r].new \in Passwords
      /\ cfg \in Configs
  BY <1>1, PastForm DEF AuthInv, AuthTypeOK
<1>3. c \in Configs /\ issued' \subseteq Nat /\ acked' \in Hashes
  BY <1>1, <1>2 DEF Configs, Hashes, AuthInv, AuthTypeOK
<1>4. Secrets => /\ c.secret = 1 /\ issued' \subseteq {1}
                 /\ authFile' # Absent
                 /\ Readable' => authFile'.cfg.secret = 1
  <2>. SUFFICES ASSUME Secrets
                PROVE  /\ c.secret = 1 /\ issued' \subseteq {1}
                       /\ authFile' # Absent
                       /\ Readable' => authFile'.cfg.secret = 1
    OBVIOUS
  <2>1. cfg.secret = 1 /\ (req[r].c # Zero => req[r].c.secret = 1)
    BY <1>1 DEF Secrets, At, Past
  <2>2. c.secret = 1
    BY <2>1
  <2>. HIDE DEF c
  <2>. QED  BY <1>1, <2>2 DEF Secrets, Readable
<1>5. Progress(r) => Settled'
  <2>1. Progress(r) => /\ c = cfg /\ HasSet(r, cfg) /\ authFile = Ok(cfg)
    BY <1>1 DEF Progress, At
  <2>. HIDE DEF c
  <2>. QED  BY <1>1, <2>1 DEF Settled, Agrees, HasSet, Ok
<1>6. IdleReq.pc \notin PastPcs
  BY DEF IdleReq, PastPcs
<1>. HIDE DEF c
<1>. QED
  BY <1>1, <1>3, <1>4, <1>5, <1>6, RequestKeeps DEF AuthInv, AuthTypeOK

-----------------------------------------------------------------------------
(* In every state reached, the secret, the file, the configuration and the *)
(* requests in progress stand as AuthInv says.                                *)
THEOREM AuthInvariance == AuthSpec => []AuthInv
<1>1. ASSUME AuthInv, [AuthNext]_authVars PROVE AuthInv'
  <2>1. CASE UNCHANGED authVars
    BY <1>1, <2>1
       DEF authVars, AuthInv, AuthTypeOK, OnlyUpIsBusy, OneSecret, Secrets,
           LoneRequest, Lone, Settled, Agrees, Progress, HasSet, Past, Busy,
           AllIdle, Readable
  <2>2. CASE BootLoad \/ BootSave \/ Login \/ AuthCrash
    BY <1>1, <2>2, BootLoadKeeps, BootSaveKeeps, LoginKeeps, AuthCrashKeeps
  <2>3. ASSUME NEW r \in Reqs,
               Setup(r) \/ ChangePassword(r) \/ SetupCopy(r) \/ ChangeCheck(r)
        PROVE  AuthInv'
    BY <1>1, <2>3, SetupKeeps, ChangePasswordKeeps, SetupCopyKeeps,
       ChangeCheckKeeps
  <2>4. ASSUME NEW r \in Reqs,
               \/ SaveStart(r) \/ SaveEnd(r) \/ WriteFails(r) \/ Publish(r)
               \/ InitRead(r) \/ InitLoad(r)
        PROVE  AuthInv'
    BY <1>1, <2>4, SaveStartKeeps, SaveEndKeeps, WriteFailsKeeps, PublishKeeps,
       InitReadKeeps, InitLoadKeeps
  <2>. QED  BY <1>1, <2>1, <2>2, <2>3, <2>4 DEF AuthNext
<1>. QED  BY AuthInitially, <1>1, PTL DEF AuthSpec

(* Tokens outlive restarts: every token issued is signed with the secret   *)
(* the program checks it against, unless a write failed or was cut short   *)
(* (auth.go:29-51).                                                        *)
THEOREM TokensOutliveRestarts == AuthSpec => []TokensValid
<1>1. AuthInv => TokensValid
  BY DEF AuthInv, OneSecret, Secrets, TokensValid
<1>. QED  BY AuthInvariance, <1>1, PTL

(* A password that a client was told is set, by a request that overlapped  *)
(* no other, is the one in memory and in the file                          *)
(* (handler/auth.go:104-113).                                              *)
THEOREM PasswordIsKept == AuthSpec => []LonePasswordSticks
<1>1. AuthInv => LonePasswordSticks
  BY AuthAssumption
     DEF AuthInv, LoneRequest, Lone, Settled, Agrees, AllIdle, Busy,
         LonePasswordSticks
<1>. QED  BY AuthInvariance, <1>1, PTL

-----------------------------------------------------------------------------
(* NamedStore.                                                             *)

Calling(c) == call[c] # Done
NoCall == \A c \in Clients : ~Calling(c)

(* The mutex of datastore is held by the change that writes, and only a    *)
(* program that serves has changes in progress.                            *)
Exclusive ==
    /\ \A c \in Clients : writer = c <=> call[c].pc = "write"
    /\ namedUp # "up" => NoCall

(* A change that overlaps no other saves what memory holds.                *)
AloneWrites ==
    alone => \A c \in Clients :
        Calling(c) =>
            /\ \A d \in Clients : Calling(d) => d = c
            /\ call[c].pc \in {"lock", "write"} => call[c].map = mem

(* The routing profiles have the default one from the start on.            *)
HasDefault == namedUp # "booting" => mem[DefaultRoutingID] # NoEntry

(* Between changes the file is what memory holds, ...                      *)
FileCurrent ==
    (namedUp = "up" /\ alone /\ ~unsaved /\ NoCall) => namedFile = Stored(mem)

(* ... it is what the start reads, and then memory holds it again.         *)
Remembered ==
    before.known =>
        /\ namedUp = "booting" => /\ namedFile = Stored(before.map)
                                  /\ before.map[DefaultRoutingID] # NoEntry
        /\ namedUp # "saving"
        /\ namedUp = "up" => mem = before.map

RoutingInv ==
    kind = "routing" => HasDefault /\ FileCurrent /\ Remembered

NamedInv == NamedTypeOK /\ Exclusive /\ AloneWrites /\ RoutingInv

USE NamedAssumption

-----------------------------------------------------------------------------
LEMMA MapsHold ==
    /\ EmptyMap \in Maps
    /\ \A m \in Maps, i \in Ids, e \in Entries \cup {NoEntry} :
          [m EXCEPT ![i] = e] \in Maps
    /\ \A m \in Maps, e \in Entries :
          /\ WithDefault(m, e) \in Maps
          /\ WithDefault(m, e)[DefaultRoutingID] = e
BY DEF EmptyMap, Maps, WithDefault, Ids

LEMMA LoadHolds == NamedTypeOK => LoadFromConfig \in Maps
BY MapsHold DEF NamedTypeOK, LoadFromConfig, NoStore, TornStore

LEMMA StoredHolds ==
    ASSUME NEW m \in Maps
    PROVE  /\ Stored(m) \in [state : {"ok"}, map : Maps]
           /\ Stored(m).state = "ok" /\ Stored(m).map = m
BY DEF Stored

(* The forms a change in progress has.                                     *)
LEMMA CallForm ==
    ASSUME NamedTypeOK, NEW c \in Clients
    PROVE  /\ call[c].pc \in {"done", "copy", "lock", "write"}
           /\ Calling(c) <=> call[c].pc # "done"
           /\ call[c].pc \in {"lock", "write"} =>
                /\ call[c].map \in Maps
                /\ call[c] = [pc |-> call[c].pc, map |-> call[c].map]
<1>1. call[c] \in {Done} \cup [pc : {"copy"}]
                  \cup [pc : {"lock", "write"}, map : Maps]
  BY DEF NamedTypeOK
<1>. QED  BY <1>1 DEF Calling, Done

LEMMA NamedInitially == NamedInit => NamedInv
<1>. SUFFICES ASSUME NamedInit PROVE NamedInv
  OBVIOUS
<1>1. namedFile \in {NoStore, TornStore} \cup [state : {"ok"}, map : Maps]
  BY MapsHold, StoredHolds DEF NamedInit, FirstFile
<1>2. call \in [Clients -> {Done}] /\ \A c \in Clients : call[c] = Done
  BY DEF NamedInit
<1>3. NamedTypeOK
  BY <1>1, <1>2, MapsHold DEF NamedInit, NamedTypeOK, Unknown
<1>4. Exclusive
  BY <1>2 DEF NamedInit, Exclusive, NoCall, Calling, Done
<1>5. AloneWrites
  BY <1>2 DEF AloneWrites, Calling
<1>6. RoutingInv
  BY DEF NamedInit, RoutingInv, HasDefault, FileCurrent, Remembered, Unknown
<1>. QED  BY <1>3, <1>4, <1>5, <1>6 DEF NamedInv

-----------------------------------------------------------------------------
(* The start and the crash.                                                *)

LEMMA BootRoutingKeeps ==
    ASSUME NamedInv, BootRouting
    PROVE  NamedInv'
<1>1. LoadFromConfig \in Maps
  BY LoadHolds DEF NamedInv
<1>2. mem' \in Maps /\ mem'[DefaultRoutingID] # NoEntry
  BY <1>1, MapsHold DEF BootRouting
<1>3. NamedTypeOK'
  BY <1>2 DEF NamedInv, NamedTypeOK, BootRouting
<1>4. Exclusive' /\ AloneWrites'
  BY DEF NamedInv, Exclusive, AloneWrites, BootRouting, NoCall, Calling
<1>5. FileCurrent'
  <2>. SUFFICES ASSUME namedUp' = "up" PROVE namedFile' = Stored(mem')
    BY DEF FileCurrent, Stored
  <2>1. LoadFromConfig[DefaultRoutingID] # NoEntry /\ mem' = LoadFromConfig
        /\ namedFile' = namedFile
    BY DEF BootRouting
  <2>2. namedFile.state = "ok"
    BY <2>1 DEF LoadFromConfig, EmptyMap, Ids
  <2>3. namedFile \in [state : {"ok"}, map : Maps]
    BY <2>2 DEF NamedInv, NamedTypeOK, NoStore, TornStore
  <2>. QED  BY <2>1, <2>2, <2>3 DEF Stored, LoadFromConfig
<1>6. Remembered'
  <2>. SUFFICES ASSUME before.known
                PROVE  namedUp' = "up" /\ mem' = before.map
    BY DEF Remembered, BootRouting
  <2>1. /\ namedFile = Stored(before.map)
        /\ before.map[DefaultRoutingID] # NoEntry
    BY DEF NamedInv, RoutingInv, Remembered, BootRouting
  <2>2. LoadFromConfig = before.map
    BY <2>1 DEF LoadFromConfig, Stored
  <2>. QED  BY <2>1, <2>2 DEF BootRouting
<1>. QED
  BY <1>2, <1>3, <1>4, <1>5, <1>6 DEF NamedInv, RoutingInv, HasDefault

LEMMA SavedDefaultKeeps ==
    ASSUME NamedInv, SavedDefault
    PROVE  NamedInv'
<1>1. mem \in Maps /\ mem' = mem
  BY DEF NamedInv, NamedTypeOK, SavedDefault
<1>2. NamedTypeOK'
  <2>1. namedFile' \in {NoStore, TornStore} \cup [state : {"ok"}, map : Maps]
    BY <1>1, StoredHolds DEF NamedInv, NamedTypeOK, SavedDefault
  <2>2. unsaved' \in BOOLEAN
    BY Zenon DEF SavedDefault
  <2>3. namedFailures' \in Nat
    BY DEF NamedInv, NamedTypeOK, SavedDefault
  <2>. QED  BY <2>1, <2>2, <2>3 DEF NamedInv, NamedTypeOK, SavedDefault
<1>3. Exclusive' /\ AloneWrites'
  BY DEF NamedInv, Exclusive, AloneWrites, SavedDefault, NoCall, Calling
<1>4. RoutingInv'
  BY DEF NamedInv, RoutingInv, HasDefault, FileCurrent, Remembered, SavedDefault,
         Stored
<1>. QED  BY <1>2, <1>3, <1>4 DEF NamedInv

LEMMA BootRuleSetsKeeps ==
    ASSUME NamedInv, BootRuleSets
    PROVE  NamedInv'
<1>1. NamedTypeOK' /\ Exclusive' /\ AloneWrites'
  BY DEF NamedInv, NamedTypeOK, Exclusive, AloneWrites, BootRuleSets, NoCall, Calling
<1>2. RoutingInv'
  BY DEF RoutingInv, BootRuleSets
<1>. QED  BY <1>1, <1>2 DEF NamedInv

LEMMA NamedCrashKeeps ==
    ASSUME NamedInv, NamedCrash
    PROVE  NamedInv'
<1>1. \A c \in Clients : call'[c] = Done
  BY DEF NamedCrash
<1>2. mem \in Maps /\ mem' \in Maps
  BY MapsHold DEF NamedInv, NamedTypeOK, NamedCrash
<1>3. before' \in {Unknown} \cup [known : {TRUE}, map : Maps]
  BY <1>2 DEF NamedCrash
<1>4. call' \in [Clients -> {Done}]
  BY DEF NamedCrash
<1>5. NamedTypeOK'
  BY <1>2, <1>3, <1>4 DEF NamedInv, NamedTypeOK, NamedCrash
<1>6. Exclusive'
  BY <1>1 DEF NamedCrash, Exclusive, NoCall, Calling, Done
<1>7. AloneWrites'
  BY <1>1 DEF AloneWrites, Calling, Done
<1>8. ASSUME kind' = "routing" PROVE Remembered'
  <2>1. CASE before' = Unknown
    BY <2>1 DEF Remembered, Unknown
  <2>2. CASE before' # Unknown
    <3>1. /\ namedUp = "up" /\ alone /\ ~unsaved /\ NoCall
          /\ before' = [known |-> TRUE, map |-> mem]
      BY <2>2 DEF NamedCrash, NoCall, Calling
    <3>2. kind = "routing"
      BY <1>8 DEF NamedCrash
    <3>3. namedFile = Stored(mem) /\ mem[DefaultRoutingID] # NoEntry
      BY <3>1, <3>2 DEF NamedInv, RoutingInv, FileCurrent, HasDefault
    <3>. QED  BY <3>1, <3>3 DEF NamedCrash, Remembered
  <2>. QED  BY <2>1, <2>2
<1>9. HasDefault' /\ FileCurrent'
  BY DEF NamedCrash, HasDefault, FileCurrent
<1>. QED  BY <1>5, <1>6, <1>7, <1>8, <1>9 DEF NamedInv, RoutingInv

-----------------------------------------------------------------------------
(* The changes.                                                            *)

LEMMA ChangeKeeps ==
    ASSUME NamedInv, NEW c \in Clients, NEW m \in Maps, Changes(c, m),
           kind = "routing" => m[DefaultRoutingID] # NoEntry,
           call' = [call EXCEPT ![c] = [pc |-> "copy"]]
    PROVE  NamedInv'
<1>1. call[c] = Done /\ namedUp = "up" /\ mem' = m
  BY DEF Changes
<1>2. /\ call'[c] = [pc |-> "copy"]
      /\ \A d \in Clients \ {c} : call'[d] = call[d]
  BY DEF NamedInv, NamedTypeOK
<1>3. call' \in [Clients -> {Done} \cup [pc : {"copy"}]
                            \cup [pc : {"lock", "write"}, map : Maps]]
  BY DEF NamedInv, NamedTypeOK
<1>4. NamedTypeOK'
  BY <1>1, <1>3 DEF NamedInv, NamedTypeOK, Changes
<1>5. Exclusive'
  BY <1>1, <1>2 DEF NamedInv, Exclusive, Changes, Done
<1>6. AloneWrites'
  <2>. SUFFICES ASSUME alone' PROVE \A d \in Clients : Calling(d)' => d = c
    BY <1>2 DEF AloneWrites
  <2>1. \A d \in Clients : call[d] = Done
    BY DEF Changes
  <2>. QED  BY <1>2, <2>1 DEF Calling, Done
<1>7. ~NoCall'
  BY <1>2 DEF NoCall, Calling, Done
<1>8. RoutingInv'
  BY <1>1, <1>7 DEF RoutingInv, HasDefault, FileCurrent, Remembered, Changes,
                    Unknown
<1>. QED  BY <1>4, <1>5, <1>6, <1>8 DEF NamedInv

LEMMA PutKeeps ==
    ASSUME NamedInv, NEW c \in Clients, Put(c)
    PROVE  NamedInv'
<1>1. PICK i \in Ids, e \in Entries :
        /\ Changes(c, [mem EXCEPT ![i] = e])
        /\ call' = [call EXCEPT ![c] = [pc |-> "copy"]]
  BY DEF Put
<1>. DEFINE m == [mem EXCEPT ![i] = e]
<1>2. mem \in Maps /\ m \in Maps
  BY MapsHold DEF NamedInv, NamedTypeOK
<1>3. kind = "routing" => m[DefaultRoutingID] # NoEntry
  <2>1. kind = "routing" => mem[DefaultRoutingID] # NoEntry
    BY <1>1 DEF NamedInv, RoutingInv, HasDefault, Changes
  <2>. QED  BY <1>2, <2>1 DEF Maps
<1>. HIDE DEF m
<1>. QED  BY <1>1, <1>2, <1>3, ChangeKeeps DEF m

LEMMA DeleteKeeps ==
    ASSUME NamedInv, NEW c \in Clients, Delete(c)
    PROVE  NamedInv'
<1>1. PICK i \in Ids :
        /\ kind = "routing" => i # DefaultRoutingID
        /\ Changes(c, [mem EXCEPT ![i] = NoEntry])
        /\ call' = [call EXCEPT ![c] = [pc |-> "copy"]]
  BY DEF Delete
<1>. DEFINE m == [mem EXCEPT ![i] = NoEntry]
<1>2. mem \in Maps /\ m \in Maps
  BY MapsHold DEF NamedInv, NamedTypeOK
<1>3. kind = "routing" => m[DefaultRoutingID] # NoEntry
  <2>1. kind = "routing" => mem[DefaultRoutingID] # NoEntry
    BY <1>1 DEF NamedInv, RoutingInv, HasDefault, Changes
  <2>. QED  BY <1>1, <1>2, <2>1 DEF Maps
<1>. HIDE DEF m
<1>. QED  BY <1>1, <1>2, <1>3, ChangeKeeps DEF m

LEMMA CopyKeeps ==
    ASSUME NamedInv, NEW c \in Clients, Copy(c)
    PROVE  NamedInv'
<1>1. /\ call'[c] = [pc |-> "lock", map |-> mem]
      /\ \A d \in Clients \ {c} : call'[d] = call[d]
  BY DEF NamedInv, NamedTypeOK, Copy
<1>2. mem \in Maps /\ mem' = mem
  BY DEF NamedInv, NamedTypeOK, Copy
<1>3. call' \in [Clients -> {Done} \cup [pc : {"copy"}]
                            \cup [pc : {"lock", "write"}, map : Maps]]
  BY <1>2 DEF NamedInv, NamedTypeOK, Copy
<1>4. NamedTypeOK'
  BY <1>3 DEF NamedInv, NamedTypeOK, Copy
<1>5. Calling(c) /\ call[c].pc # "write"
  BY CallForm DEF NamedInv, Copy
<1>6. namedUp = "up"
  BY <1>5 DEF NamedInv, Exclusive, NoCall
<1>7. Exclusive'
  BY <1>1, <1>5, <1>6 DEF NamedInv, Exclusive, Copy
<1>8. \A d \in Clients : Calling(d)' <=> Calling(d)
  BY <1>1, <1>5 DEF Calling, Done
<1>9. AloneWrites'
  BY <1>1, <1>2, <1>5, <1>8 DEF NamedInv, AloneWrites, Copy
<1>10. RoutingInv'
  BY <1>5, <1>8 DEF NamedInv, RoutingInv, HasDefault, FileCurrent, Remembered, NoCall,
                    Copy
<1>. QED  BY <1>4, <1>7, <1>9, <1>10 DEF NamedInv

LEMMA WriteStartKeeps ==
    ASSUME NamedInv, NEW c \in Clients, WriteStart(c)
    PROVE  NamedInv'
<1>1. /\ call[c].map \in Maps
      /\ call[c] = [pc |-> "lock", map |-> call[c].map]
      /\ Calling(c)
  BY CallForm DEF NamedInv, WriteStart
<1>2. /\ call'[c] = [pc |-> "write", map |-> call[c].map]
      /\ \A d \in Clients \ {c} : call'[d] = call[d]
  BY <1>1 DEF NamedInv, NamedTypeOK, WriteStart
<1>3. call' \in [Clients -> {Done} \cup [pc : {"copy"}]
                            \cup [pc : {"lock", "write"}, map : Maps]]
  <2>1. call'[c] \in [pc : {"lock", "write"}, map : Maps]
    BY <1>1, <1>2
  <2>2. call' = [call EXCEPT ![c] = call'[c]]
    BY DEF NamedInv, NamedTypeOK, WriteStart
  <2>. QED  BY <2>1, <2>2 DEF NamedInv, NamedTypeOK
<1>4. NamedTypeOK'
  BY <1>3 DEF NamedInv, NamedTypeOK, WriteStart
<1>5. namedUp = "up"
  BY <1>1 DEF NamedInv, Exclusive, NoCall
<1>6. Exclusive'
  BY <1>2, <1>5 DEF NamedInv, Exclusive, WriteStart
<1>7. \A d \in Clients : Calling(d)' <=> Calling(d)
  BY <1>1, <1>2 DEF Calling, Done
<1>8. AloneWrites'
  BY <1>1, <1>2, <1>7 DEF NamedInv, AloneWrites, WriteStart
<1>9. RoutingInv'
  BY <1>1, <1>5, <1>7 DEF NamedInv, RoutingInv, HasDefault, FileCurrent, Remembered,
                          NoCall, WriteStart
<1>. QED  BY <1>4, <1>6, <1>8, <1>9 DEF NamedInv

LEMMA WriteEndKeeps ==
    ASSUME NamedInv, NEW c \in Clients, WriteEnd(c)
    PROVE  NamedInv'
<1>1. /\ call[c].map \in Maps /\ Calling(c)
      /\ writer = c
  BY CallForm DEF NamedInv, Exclusive, WriteEnd
<1>2. /\ call'[c] = Done
      /\ \A d \in Clients \ {c} : call'[d] = call[d]
  BY DEF NamedInv, NamedTypeOK, WriteEnd
<1>3. call' \in [Clients -> {Done} \cup [pc : {"copy"}]
                            \cup [pc : {"lock", "write"}, map : Maps]]
  BY DEF NamedInv, NamedTypeOK, WriteEnd
<1>4. NamedTypeOK'
  <2>1. namedFile' \in {NoStore, TornStore} \cup [state : {"ok"}, map : Maps]
    BY <1>1, StoredHolds DEF NamedInv, NamedTypeOK, WriteEnd
  <2>2. unsaved' \in BOOLEAN
    BY Zenon DEF WriteEnd
  <2>3. namedFailures' \in Nat
    BY DEF NamedInv, NamedTypeOK, WriteEnd
  <2>. QED  BY <1>3, <2>1, <2>2, <2>3 DEF NamedInv, NamedTypeOK, WriteEnd
<1>5. namedUp = "up"
  BY <1>1 DEF NamedInv, Exclusive, NoCall
<1>6. Exclusive'
  BY <1>1, <1>2, <1>5 DEF NamedInv, Exclusive, WriteEnd, Done
<1>7. AloneWrites'
  BY <1>2 DEF NamedInv, AloneWrites, WriteEnd, Calling
<1>8. FileCurrent' \/ kind # "routing"
  <2>. SUFFICES ASSUME alone, ~unsaved' PROVE namedFile' = Stored(mem')
    BY DEF FileCurrent, WriteEnd
  <2>1. namedFile' = Stored(call[c].map) /\ mem' = mem
    BY DEF WriteEnd
  <2>2. call[c].map = mem
    BY <1>1 DEF NamedInv, AloneWrites, WriteEnd
  <2>. QED  BY <2>1, <2>2
<1>9. RoutingInv'
  BY <1>5, <1>8 DEF NamedInv, RoutingInv, HasDefault, Remembered, WriteEnd
<1>. QED  BY <1>4, <1>6, <1>7, <1>9 DEF NamedInv

-----------------------------------------------------------------------------
(* In every state reached, memory, the file and the changes in progress    *)
(* stand as NamedInv says.                                                 *)
THEOREM NamedInvariance == NamedSpec => []NamedInv
<1>1. ASSUME NamedInv, [NamedNext]_namedVars PROVE NamedInv'
  <2>1. CASE UNCHANGED namedVars
    BY <1>1, <2>1 DEF namedVars, NamedInv, NamedTypeOK, Exclusive, AloneWrites,
       RoutingInv, HasDefault, FileCurrent, Remembered, NoCall, Calling
  <2>2. CASE BootRouting \/ SavedDefault \/ BootRuleSets \/ NamedCrash
    BY <1>1, <2>2, BootRoutingKeeps, SavedDefaultKeeps, BootRuleSetsKeeps,
       NamedCrashKeeps
  <2>3. CASE \E c \in Clients :
                 Put(c) \/ Delete(c) \/ Copy(c) \/ WriteStart(c) \/ WriteEnd(c)
    BY <1>1, <2>3, PutKeeps, DeleteKeeps, CopyKeeps, WriteStartKeeps,
       WriteEndKeeps
  <2>. QED  BY <1>1, <2>1, <2>2, <2>3 DEF NamedNext
<1>. QED  BY NamedInitially, <1>1, PTL DEF NamedSpec

(* A routing profile whose change was answered, overlapped no other and    *)
(* was written is there after a restart (routing.go:69-93, main.go:54).    *)
THEOREM RoutingIsKept == NamedSpec => []RoutingSurvivesRestart
<1>1. NamedInv => RoutingSurvivesRestart
  BY DEF NamedInv, RoutingInv, Remembered, RoutingSurvivesRestart, SurvivesRestart
<1>. QED  BY NamedInvariance, <1>1, PTL

-----------------------------------------------------------------------------
(* Catalog.                                                                *)

(* The slice has what each request has decoded, and is short only while    *)
(* one is at it.                                                           *)
Decoding ==
    /\ \A r \in Readers : reader[r] # Idle => reader[r] <= catalogData
    /\ catalogData \in {0, Categories} \/ \E r \in Readers : reader[r] # Idle

(* Where the file stands: a program that is up without a whole file has    *)
(* failed to write it, or an earlier start was cut short at it; nobody is  *)
(* served before the program is up.                                        *)
FileState ==
    /\ catalogUp = "up" /\ catalogFile # "ok" => catalogFailed
    /\ catalogUp = "writing" => catalogFile = "torn"
    /\ catalogUp = "booting" /\ catalogFile = "torn" => catalogFailed
    /\ catalogUp # "up" => \A r \in Readers : served[r] = Idle
    /\ \A r \in Readers :
          reader[r] # Idle => catalogUp = "up" /\ catalogFile = "ok"

CatalogInv ==
    /\ CatalogTypeOK
    /\ Decoding
    /\ FileState
    /\ EmptyOnlyAfterFailure

USE CatalogAssumption

LEMMA IdleInteger ==
    /\ Idle \in 0..Idle
    /\ Idle > Categories
    /\ 0 \in 0..Categories
BY DEF Idle

LEMMA CatalogInitially == CatalogInit => CatalogInv
<1>. SUFFICES ASSUME CatalogInit PROVE CatalogInv
  OBVIOUS
<1>1. CatalogTypeOK
  <2>1. reader \in [Readers -> 0..Idle] /\ served \in [Readers -> 0..Idle]
    BY IdleInteger DEF CatalogInit
  <2>. QED  BY <2>1, IdleInteger DEF CatalogInit, CatalogTypeOK
<1>2. Decoding /\ FileState
  BY IdleInteger DEF CatalogInit, Decoding, FileState
<1>3. EmptyOnlyAfterFailure
  BY IdleInteger DEF CatalogInit, EmptyOnlyAfterFailure
<1>. QED  BY <1>1, <1>2, <1>3 DEF CatalogInv

LEMMA EnsureKeeps ==
    ASSUME CatalogInv, EnsureCatalogDefault
    PROVE  CatalogInv'
<1>1. CatalogTypeOK'
  BY DEF CatalogInv, CatalogTypeOK, EnsureCatalogDefault, Idle
<1>2. Decoding'
  BY DEF CatalogInv, Decoding, EnsureCatalogDefault, Idle
<1>3. FileState'
  BY DEF CatalogInv, FileState, CatalogTypeOK, EnsureCatalogDefault, Idle
<1>4. EmptyOnlyAfterFailure'
  BY IdleInteger DEF CatalogInv, EmptyOnlyAfterFailure, FileState, Idle,
                     EnsureCatalogDefault
<1>. QED  BY <1>1, <1>2, <1>3, <1>4 DEF CatalogInv

LEMMA GetCatalogKeeps ==
    ASSUME CatalogInv, NEW r \in Readers, GetCatalog(r)
    PROVE  CatalogInv'
<1>1. CatalogTypeOK'
  BY DEF CatalogInv, CatalogTypeOK, GetCatalog, Answer, Idle
<1>2. Decoding'
  BY DEF CatalogInv, Decoding, CatalogTypeOK, GetCatalog, Answer, Idle
<1>3. FileState'
  BY DEF CatalogInv, FileState, CatalogTypeOK, GetCatalog, Answer, Idle
<1>4. EmptyOnlyAfterFailure'
  BY DEF CatalogInv, EmptyOnlyAfterFailure, FileState, CatalogTypeOK, GetCatalog,
         Answer, Idle
<1>. QED  BY <1>1, <1>2, <1>3, <1>4 DEF CatalogInv

LEMMA DecodeKeeps ==
    ASSUME CatalogInv, NEW r \in Readers, Decode(r)
    PROVE  CatalogInv'
<1>1. /\ reader[r] \in 0..(Categories - 1)
      /\ reader[r] <= catalogData
      /\ catalogData \in 0..Categories
  BY DEF CatalogInv, Decoding, CatalogTypeOK, Decode, Idle
<1>2. /\ catalogData' \in 0..Categories
      /\ catalogData' >= catalogData
      /\ catalogData' >= reader[r] + 1
  BY <1>1 DEF Decode, Longer
<1>3. reader' = [reader EXCEPT ![r] = @ + 1] /\ reader'[r] # Idle
  BY <1>1 DEF Decode, CatalogInv, CatalogTypeOK, Idle
<1>4. CatalogTypeOK'
  BY <1>1, <1>2, <1>3 DEF CatalogInv, CatalogTypeOK, Decode, Idle
<1>5. Decoding'
  BY <1>1, <1>2, <1>3 DEF CatalogInv, Decoding, CatalogTypeOK, Idle
<1>6. FileState'
  BY <1>1, <1>3 DEF CatalogInv, FileState, CatalogTypeOK, Decode, Idle
<1>7. EmptyOnlyAfterFailure'
  BY DEF CatalogInv, EmptyOnlyAfterFailure, Decode
<1>. QED  BY <1>4, <1>5, <1>6, <1>7 DEF CatalogInv

LEMMA DecodedKeeps ==
    ASSUME CatalogInv, NEW r \in Readers, Decoded(r)
    PROVE  CatalogInv'
<1>1. catalogData = Categories
  BY DEF CatalogInv, Decoding, CatalogTypeOK, Decoded, Idle
<1>2. CatalogTypeOK'
  BY <1>1 DEF CatalogInv, CatalogTypeOK, Decoded, Answer, Idle
<1>3. Decoding'
  BY <1>1 DEF CatalogInv, Decoding, CatalogTypeOK, Decoded, Answer, Idle
<1>4. FileState'
  BY DEF CatalogInv, FileState, CatalogTypeOK, Decoded, Answer, Idle
<1>5. EmptyOnlyAfterFailure'
  BY <1>1 DEF CatalogInv, EmptyOnlyAfterFailure, CatalogTypeOK, Decoded, Answer
<1>. QED  BY <1>2, <1>3, <1>4, <1>5 DEF CatalogInv

LEMMA CatalogCrashKeeps ==
    ASSUME CatalogInv, CatalogCrash
    PROVE  CatalogInv'
<1>1. CatalogTypeOK'
  BY IdleInteger DEF CatalogInv, CatalogTypeOK, CatalogCrash, Idle
<1>2. \A r \in Readers : reader'[r] = Idle' /\ served'[r] = Idle'
  BY DEF CatalogCrash, Idle
<1>3. Decoding' /\ FileState'
  BY <1>2 DEF CatalogInv, Decoding, FileState, CatalogTypeOK, CatalogCrash
<1>4. EmptyOnlyAfterFailure'
  BY <1>2 DEF EmptyOnlyAfterFailure, Idle
<1>. QED  BY <1>1, <1>3, <1>4 DEF CatalogInv

(* In every state reached, the slice and the file stand as CatalogInv has  *)
(* it.                                                                     *)
THEOREM CatalogInvariance == CatalogSpec => []CatalogInv
<1>1. ASSUME CatalogInv, [CatalogNext]_catalogVars PROVE CatalogInv'
  <2>1. CASE UNCHANGED catalogVars
    BY <1>1, <2>1 DEF catalogVars, CatalogInv, CatalogTypeOK, Decoding, FileState,
                      EmptyOnlyAfterFailure
  <2>2. CASE CatalogNext
    BY <1>1, <2>2, EnsureKeeps, GetCatalogKeeps, DecodeKeeps, DecodedKeeps,
       CatalogCrashKeeps DEF CatalogNext
  <2>. QED  BY <1>1, <2>1, <2>2
<1>. QED  BY CatalogInitially, <1>1, PTL DEF CatalogSpec

(* However many requests decode at once, when none of them is left the     *)
(* catalogue in memory is nil or complete (catalog.go:39-57).              *)
THEOREM Whole == CatalogSpec => []WholeOnceQuiet
<1>1. CatalogInv => WholeOnceQuiet
  BY DEF CatalogInv, Decoding, WholeOnceQuiet
<1>. QED  BY CatalogInvariance, <1>1, PTL

(* An empty catalogue is served only if the last write of its file failed  *)
(* or was cut short (catalog.go:60-80).                                    *)
THEOREM EmptyHasOneCause == CatalogSpec => []EmptyOnlyAfterFailure
<1>1. CatalogInv => EmptyOnlyAfterFailure
  BY DEF CatalogInv
<1>. QED  BY CatalogInvariance, <1>1, PTL

-----------------------------------------------------------------------------
(* The stores side by side.                                                *)

(* Each store is what it is alone: what is proved of it holds here.        *)
THEOREM EachStoreRuns ==
    Spec => AuthSpec /\ SourceSpec /\ ListSpec /\ NamedSpec /\ CatalogSpec
<1>1. Init => AuthInit /\ SourceInit /\ ListInit /\ NamedInit /\ CatalogInit
  BY DEF Init
<1>2. [Next]_vars => /\ [AuthNext]_authVars /\ [SourceNext]_srcVars
                     /\ [ListNext]_listVars /\ [NamedNext]_namedVars
                     /\ [CatalogNext]_catalogVars
  BY DEF Next, vars
<1>. QED
  BY <1>1, <1>2, PTL DEF Spec, AuthSpec, SourceSpec, ListSpec, NamedSpec, CatalogSpec

(* Every store's variables have their types, whatever the handlers,        *)
(* crashes, failed writes and restarts do.                                 *)
THEOREM TypesHold == Spec => []TypeOK
<1>1. AuthInv /\ SrcInv /\ ListInv /\ NamedInv /\ CatalogInv => TypeOK
  BY DEF AuthInv, SrcInv, ListInv, NamedInv, CatalogInv, TypeOK
<1>. QED
  BY <1>1, EachStoreRuns, AuthInvariance, SourceInvariance, ListInvariance,
     NamedInvariance, CatalogInvariance, PTL
=============================================================================
