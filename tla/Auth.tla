-------------------------------- MODULE Auth --------------------------------
(***************************************************************************)
(* internal/auth and internal/handler/auth.go: the administrator's         *)
(* account.  The configuration in memory (cfg, under mu) is saved as       *)
(* data/auth.json under saveMu.  A set-up or a change of the password      *)
(* takes a copy of cfg, works on it for a while (bcrypt), saves it,        *)
(* assigns it to cfg, and then calls Init, which reads the file again.     *)
(* Tokens are signed with the secret of the configuration, which is drawn  *)
(* when the program starts and finds none.                                 *)
(*                                                                         *)
(* A hash stands for the user name and the password it was made from.      *)
(***************************************************************************)
EXTENDS Naturals

CONSTANTS
    Passwords,       \* what a client may set
    Reqs,            \* bound: requests that save, at once
    MaxAuthCrashes,  \* bound on crashes, restarts included
    MaxAuthFailures  \* bound on failed writes

VARIABLES
    authUp,          \* "booting", "saving" (Init saves a new secret) or "up"
    authFile,        \* data/auth.json
    cfg,             \* auth.cfg
    req,             \* the requests in progress
    saveMu,          \* who holds saveMu, or NoReq
    secrets,         \* the number of secrets drawn
    issued,          \* history: the secrets that tokens were signed with
    acked,           \* history: the last hash a client was told is set
    overlapped,      \* history: two requests were in progress at once
    authWrecked,     \* history: a write failed or was cut short
    authCrashes,
    authFailures

authVars == <<authUp, authFile, cfg, req, saveMu, secrets, issued, acked,
              overlapped, authWrecked, authCrashes, authFailures>>

NoHash == "nohash"
NoReq == "noreq"

ASSUME AuthAssumption == NoHash \notin Passwords

Hashes == Passwords \cup {NoHash}
Configs == [enabled : BOOLEAN, hash : Hashes, secret : Nat]
Zero == [enabled |-> FALSE, hash |-> NoHash, secret |-> 0]

(* "torn": created or truncated, and not written in full.                  *)
Absent == [state |-> "absent"]
Torn == [state |-> "torn"]
Ok(c) == [state |-> "ok", cfg |-> c]

IdleReq == [pc |-> "idle"]
Calls ==
    {IdleReq}
    \cup [pc : {"hash"}, new : Passwords]
    \cup [pc : {"copied", "save", "write", "publish", "init", "load"},
          new : Passwords, kind : {"setup", "change"}, c : Configs]

AuthTypeOK ==
    /\ authUp \in {"booting", "saving", "up"}
    /\ authFile \in {Absent, Torn} \cup [state : {"ok"}, cfg : Configs]
    /\ cfg \in Configs
    /\ req \in [Reqs -> Calls]
    /\ saveMu \in Reqs \cup {NoReq}
    /\ issued \subseteq Nat
    /\ acked \in Hashes
    /\ overlapped \in BOOLEAN /\ authWrecked \in BOOLEAN
    /\ secrets \in Nat /\ authCrashes \in Nat /\ authFailures \in Nat

AuthInit ==
    /\ authUp = "booting"
    /\ authFile = Absent
    /\ cfg = Zero
    /\ req = [r \in Reqs |-> IdleReq]
    /\ saveMu = NoReq
    /\ secrets = 0
    /\ issued = {}
    /\ acked = NoHash
    /\ overlapped = FALSE
    /\ authWrecked = FALSE
    /\ authCrashes = 0
    /\ authFailures = 0

-----------------------------------------------------------------------------
(* Init at the start of the program.                                       *)

Readable == authFile.state = "ok"

(* An unreadable file leaves the zero configuration, and a configuration   *)
(* without a secret is given one and saved.                                *)
BootLoad ==
    LET loaded == IF Readable THEN authFile.cfg ELSE cfg
    IN  /\ authUp = "booting"
        /\ IF loaded.secret = 0
           THEN /\ secrets' = secrets + 1
                /\ cfg' = [loaded EXCEPT !.secret = secrets + 1]
                /\ authFile' = Torn
                /\ authUp' = "saving"
           ELSE /\ cfg' = loaded
                /\ authUp' = "up"
                /\ UNCHANGED <<authFile, secrets>>
        /\ UNCHANGED <<req, saveMu, issued, acked, overlapped, authWrecked,
                       authCrashes, authFailures>>

(* The error of this save is ignored.                                      *)
BootSave ==
    /\ authUp = "saving"
    /\ authUp' = "up"
    /\ \/ /\ authFile' = Ok(cfg)
          /\ UNCHANGED <<authWrecked, authFailures>>
       \/ /\ authFailures < MaxAuthFailures
          /\ authFailures' = authFailures + 1
          /\ authWrecked' = TRUE
          /\ UNCHANGED authFile
    /\ UNCHANGED <<cfg, req, saveMu, secrets, issued, acked, overlapped,
                   authCrashes>>

-----------------------------------------------------------------------------
(* The handlers, up to SaveConfigSafe.                                     *)

NeedsSetup == ~cfg.enabled \/ cfg.hash = NoHash
Authenticated == ~cfg.enabled \/ cfg.secret \in issued

Step(r, next) ==
    /\ req' = [req EXCEPT ![r] = next]
    /\ UNCHANGED <<authUp, secrets, authCrashes>>

Begin(r, next) ==
    /\ authUp = "up"
    /\ req[r] = IdleReq
    /\ overlapped' = (overlapped \/ \E o \in Reqs : req[o] # IdleReq)
    /\ Step(r, next)
    /\ UNCHANGED <<authFile, cfg, saveMu, issued, acked, authWrecked,
                   authFailures>>

Login ==
    /\ authUp = "up"
    /\ ~NeedsSetup
    /\ issued' = issued \cup {cfg.secret}
    /\ UNCHANGED <<authUp, authFile, cfg, req, saveMu, secrets, acked,
                   overlapped, authWrecked, authCrashes, authFailures>>

(* SetupHandler checks that there is no account before it hashes.          *)
Setup(r) ==
    \E p \in Passwords :
        NeedsSetup /\ Begin(r, [pc |-> "hash", new |-> p])

(* ChangePasswordHandler copies the configuration before it checks the     *)
(* old password.                                                           *)
ChangePassword(r) ==
    \E p \in Passwords :
        Authenticated /\ Begin(r, [pc |-> "copied", new |-> p,
                                   kind |-> "change", c |-> cfg])

At(r, pc) ==
    /\ authUp = "up"
    /\ req[r].pc = pc

Quiet == UNCHANGED <<issued, acked, overlapped, authWrecked, authFailures>>

\* Mutant of SetupCopy: the configuration is made afresh instead of copied.
SetupFresh(r) ==
    /\ At(r, "hash")
    /\ Step(r, [pc |-> "save", new |-> req[r].new, kind |-> "setup",
                c |-> [Zero EXCEPT !.enabled = TRUE, !.hash = req[r].new]])
    /\ Quiet
    /\ UNCHANGED <<authFile, cfg, saveMu>>

SetupCopy(r) ==
    /\ At(r, "hash")
    /\ Step(r, [pc |-> "save", new |-> req[r].new, kind |-> "setup",
                c |-> [cfg EXCEPT !.enabled = TRUE, !.hash = req[r].new]])
    /\ Quiet
    /\ UNCHANGED <<authFile, cfg, saveMu>>

(* The old password is the current one, or the request is refused.         *)
ChangeCheck(r) ==
    /\ At(r, "copied")
    /\ \/ /\ cfg.hash # NoHash
          /\ Step(r, [req[r] EXCEPT !.pc = "save", !.c.hash = req[r].new])
       \/ Step(r, IdleReq)
    /\ Quiet
    /\ UNCHANGED <<authFile, cfg, saveMu>>

-----------------------------------------------------------------------------
(* SaveConfigSafe, under saveMu; then Init and the answer.                 *)

SaveStart(r) ==
    /\ At(r, "save")
    /\ saveMu = NoReq
    /\ saveMu' = r
    /\ authFile' = Torn
    /\ Step(r, [req[r] EXCEPT !.pc = "write"])
    /\ Quiet
    /\ UNCHANGED cfg

\* Mutant of SaveEnd: the configuration in memory is written.
WriteCurrent(r) ==
    /\ At(r, "write")
    /\ authFile' = Ok(cfg)
    /\ Step(r, [req[r] EXCEPT !.pc = "publish"])
    /\ Quiet
    /\ UNCHANGED <<cfg, saveMu>>

SaveEnd(r) ==
    /\ At(r, "write")
    /\ authFile' = Ok(req[r].c)
    /\ Step(r, [req[r] EXCEPT !.pc = "publish"])
    /\ Quiet
    /\ UNCHANGED <<cfg, saveMu>>

(* A failed write answers 500 and leaves the configuration in memory.      *)
WriteFails(r) ==
    /\ At(r, "write")
    /\ authFailures < MaxAuthFailures
    /\ authFailures' = authFailures + 1
    /\ authWrecked' = TRUE
    /\ saveMu' = NoReq
    /\ Step(r, IdleReq)
    /\ UNCHANGED <<authFile, cfg, issued, acked, overlapped>>

Publish(r) ==
    /\ At(r, "publish")
    /\ cfg' = req[r].c
    /\ saveMu' = NoReq
    /\ Step(r, [req[r] EXCEPT !.pc = "init"])
    /\ Quiet
    /\ UNCHANGED authFile

(* Init reads the file without saveMu ...                                  *)
InitRead(r) ==
    /\ At(r, "init")
    /\ Step(r, [req[r] EXCEPT !.pc = "load",
                              !.c = IF Readable THEN authFile.cfg ELSE Zero])
    /\ Quiet
    /\ UNCHANGED <<authFile, cfg, saveMu>>

Assigned(r, c) ==
    /\ At(r, "load")
    /\ cfg' = c
    /\ acked' = req[r].new
    /\ issued' = IF req[r].kind = "setup" THEN issued \cup {cfg'.secret}
                                          ELSE issued
    /\ Step(r, IdleReq)
    /\ UNCHANGED <<authFile, saveMu, overlapped, authWrecked, authFailures>>

\* Mutant of InitLoad: what was read is assigned, readable or not.
LoadAnything(r) == Assigned(r, req[r].c)

(* ... and assigns what it read; an unreadable file changes nothing.  A    *)
(* set-up answers with a token.                                            *)
InitLoad(r) == Assigned(r, IF req[r].c = Zero THEN cfg ELSE req[r].c)

-----------------------------------------------------------------------------
(* The process ends at any moment, and is started again.                   *)
AuthCrash ==
    /\ authCrashes < MaxAuthCrashes
    /\ authCrashes' = authCrashes + 1
    /\ authUp' = "booting"
    /\ cfg' = Zero
    /\ req' = [r \in Reqs |-> IdleReq]
    /\ saveMu' = NoReq
    /\ authWrecked' = (authWrecked \/ authFile = Torn)
    /\ overlapped' = (overlapped \/ \E r \in Reqs : req[r] # IdleReq)
    /\ UNCHANGED <<authFile, secrets, issued, acked, authFailures>>

AuthNext ==
    \/ BootLoad \/ BootSave \/ Login \/ AuthCrash
    \/ \E r \in Reqs :
          \/ Setup(r) \/ ChangePassword(r) \/ SetupCopy(r) \/ ChangeCheck(r)
          \/ SaveStart(r) \/ SaveEnd(r) \/ WriteFails(r) \/ Publish(r)
          \/ InitRead(r) \/ InitLoad(r)

AuthSpec == AuthInit /\ [][AuthNext]_authVars

-----------------------------------------------------------------------------
(* README.md:126 says that the key is kept in data/auth.json and that      *)
(* tokens outlive a restart.  As long as no write failed or was cut short, *)
(* every token ever issued is signed with the secret the running program   *)
(* checks it against, whatever set-ups and changes of the password         *)
(* interleave (auth.go:29-51, handler/auth.go:99-113).                     *)
TokensValid ==
    (authUp = "up" /\ ~authWrecked) => \A s \in issued : s = cfg.secret

(* A password the client was told is set is the one the program checks     *)
(* and the one the file holds, through restarts, if its request overlapped *)
(* no other and no crash, and no write failed (handler/auth.go:104-113).   *)
LonePasswordSticks ==
    (/\ authUp = "up" /\ ~authWrecked /\ ~overlapped
     /\ acked # NoHash
     /\ \A r \in Reqs : req[r] = IdleReq)
        => /\ cfg.enabled /\ cfg.hash = acked
           /\ authFile = Ok(cfg)
=============================================================================
