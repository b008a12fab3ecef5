----------------------------- MODULE AuthSessions -----------------------------
(***************************************************************************)
(* Accounts, lockout and sessions of the api-server (auth/routes.ts,       *)
(* auth/repository.ts) for one e-mail address.  Every await of a route     *)
(* handler is a step: the requests of Clients interleave there.            *)
(*                                                                         *)
(* A session is one pair of tokens issued together.  Its access token is a *)
(* JWT that verifies until it expires and is revoked by an entry in Redis; *)
(* its refresh token is valid while Redis holds it, or, when Redis does    *)
(* not answer, while the process's own map holds it.  A command to Redis   *)
(* can be applied although its answer is lost.                             *)
(***************************************************************************)
EXTENDS Naturals, FiniteSets

CONSTANTS
  Clients,        \* requests that can be in flight together
  Passwords,      \* what a client can offer
  MaxAttempts,    \* failed logins before the account is locked (5 in the code)
  LockTicks,      \* duration of a lock (15 minutes in the code)
  AccessTicks,    \* ACCESS_TOKEN_SEC
  RefreshTicks,   \* REFRESH_TOKEN_SEC
  EvictAbove,     \* size of the map above which expired entries are evicted (100)
  MaxTime,        \* bound on the clock
  MaxSessions,    \* bound on the sessions issued
  MaxCrashes      \* bound on the restarts of the process

ASSUME AuthAssumption ==
  /\ IsFiniteSet(Clients) /\ Passwords # {}
  /\ MaxAttempts \in Nat \ {0} /\ LockTicks \in Nat \ {0}
  /\ AccessTicks \in Nat \ {0} /\ RefreshTicks \in Nat \ {0}
  /\ EvictAbove \in Nat /\ MaxTime \in Nat /\ MaxSessions \in Nat /\ MaxCrashes \in Nat

VARIABLES
  row,       \* the row of table users: password hash, failed attempts, locked_until (0: NULL)
  req,       \* per client, the request it is waiting for
  issued,    \* per session, when it was issued and the login family it descends from
  refreshTokens,   \* the refresh tokens in Redis
  memory,    \* inMemoryRefreshTokens
  black,     \* per session, when its entry on the blacklist expires (0: none)
  now, crashes,
  ended,     \* history: tokens whose revocation Redis carried out
  shared     \* history: families used by two requests together, with an outdated pair,
             \* or while Redis did not answer

authVars == <<row, req, issued, refreshTokens, memory, black, now, crashes, ended, shared>>

Sessions == 1 .. MaxSessions
NoUser == [pw |-> "none", failed |-> 0, lock |-> 0]
NoAuthRequest == [pc |-> "idle", pw |-> "none", valid |-> FALSE, s |-> 0, then |-> "idle"]
Unissued == [at |-> 0, fam |-> 0]
Steps == {"idle", "create", "isLocked", "clear", "count", "lock", "update",
          "revoke", "delete", "issue"}

FindById == row # NoUser
Live(s) == issued[s].fam # 0
Exp(s) == issued[s].at + AccessTicks

UserRow == [pw : Passwords \cup {"none"}, failed : Nat, lock : Nat]
AuthRequest == [pc : Steps, pw : Passwords \cup {"none"}, valid : BOOLEAN,
                s : 0 .. MaxSessions, then : {"idle", "issue"}]

AuthTypeOK ==
  /\ row \in UserRow /\ req \in [Clients -> AuthRequest]
  /\ issued \in [Sessions -> [at : 0 .. MaxTime, fam : 0 .. MaxSessions]]
  /\ refreshTokens \subseteq Sessions /\ memory \subseteq Sessions
  /\ ended \subseteq Sessions \X {"access", "refresh"} /\ shared \subseteq Sessions
  /\ black \in [Sessions -> 0 .. (MaxTime + AccessTicks)]
  /\ now \in 0 .. MaxTime /\ crashes \in 0 .. MaxCrashes

AuthInit ==
  /\ row = NoUser
  /\ req = [c \in Clients |-> NoAuthRequest]
  /\ issued = [s \in Sessions |-> Unissued]
  /\ refreshTokens = {} /\ memory = {} /\ ended = {} /\ shared = {}
  /\ black = [s \in Sessions |-> 0]
  /\ now = 0 /\ crashes = 0

Goto(c, pc) == req' = [req EXCEPT ![c].pc = pc]
Respond(c) == req' = [req EXCEPT ![c] = NoAuthRequest]

(* What a command to Redis can come to: done, refused (no connection included), or done *)
(* with the answer lost.  An outage is a row of refusals.                                *)
Outcomes == {"ok", "refused", "lost"}
Applied(o) == o # "refused"

-----------------------------------------------------------------------------
(* verifyJWT and isTokenRevoked: without Redis no token counts as revoked. *)

Verifies(s) == Live(s) /\ now <= Exp(s)
IsTokenRevoked(s, o) == o = "ok" /\ black[s] > now
Authenticate(s) == Verifies(s) /\ \E o \in Outcomes : ~IsTokenRevoked(s, o)

(* verifyRefreshToken: Redis decides when it answers; the map only when it does not. *)
Outdated(s) == issued[s].at + RefreshTicks < now
VerifyRefreshToken(s, o) == IF o = "ok" THEN s \in refreshTokens ELSE s \in memory /\ ~Outdated(s)

(* A request that presents s joins others of its family, or s has been replaced already. *)
Contended(s) ==
  \/ \E c \in Clients : req[c].s # 0 /\ issued[req[c].s].fam = issued[s].fam
  \/ \E t \in Sessions : t > s /\ issued[t].fam = issued[s].fam
Share(s) == shared' = IF Contended(s) THEN shared \cup {issued[s].fam} ELSE shared

-----------------------------------------------------------------------------
(* POST /api/auth/register: find, hash, insert.  The unique e-mail decides a race. *)

Register(c, p) ==
  /\ req[c].pc = "idle" /\ row = NoUser
  /\ req' = [req EXCEPT ![c] = [NoAuthRequest EXCEPT !.pc = "create", !.pw = p, !.then = "issue"]]
  /\ UNCHANGED <<row, issued, refreshTokens, memory, black, now, crashes, ended, shared>>

(* At boot the administrator's account is created in the same two steps; nobody is logged in. *)
EnsureAdminUser(c, p) ==
  /\ req[c].pc = "idle" /\ row = NoUser
  /\ req' = [req EXCEPT ![c] = [NoAuthRequest EXCEPT !.pc = "create", !.pw = p]]
  /\ UNCHANGED <<row, issued, refreshTokens, memory, black, now, crashes, ended, shared>>

Create(c) ==
  /\ req[c].pc = "create"
  /\ IF row = NoUser
     THEN /\ row' = [NoUser EXCEPT !.pw = req[c].pw]
          /\ req' = [req EXCEPT ![c] = [NoAuthRequest EXCEPT !.pc = req[c].then]]
     ELSE Respond(c) /\ UNCHANGED row
  /\ UNCHANGED <<issued, refreshTokens, memory, black, now, crashes, ended, shared>>

(* POST /api/auth/login.  The password is compared with the hash read first, whatever the *)
(* row holds by then.                                                                      *)
Login(c, p) ==
  /\ req[c].pc = "idle" /\ row # NoUser
  /\ req' = [req EXCEPT ![c] = [NoAuthRequest EXCEPT !.pc = "isLocked", !.valid = (p = row.pw)]]
  /\ UNCHANGED <<row, issued, refreshTokens, memory, black, now, crashes, ended, shared>>

Compare(c) ==
  req' = [req EXCEPT ![c] = [NoAuthRequest EXCEPT !.pc = IF req[c].valid THEN "issue" ELSE "count"]]

IsLocked(c) ==
  /\ req[c].pc = "isLocked"
  /\ \/ row.lock > now /\ Respond(c)
     \/ row.lock = 0 /\ Compare(c)
     \/ row.lock # 0 /\ row.lock <= now /\ Goto(c, "clear")
  /\ UNCHANGED <<row, issued, refreshTokens, memory, black, now, crashes, ended, shared>>

ClearLock(c) ==
  /\ req[c].pc = "clear"
  /\ row' = [row EXCEPT !.lock = 0]
  /\ Compare(c)
  /\ UNCHANGED <<issued, refreshTokens, memory, black, now, crashes, ended, shared>>

(* incrementFailedLogin: an atomic increment, then a second UPDATE when it reached the bound. *)
Reached_Equal(n) == n = MaxAttempts
Reached(n) == n >= MaxAttempts

CountFailure(c) ==
  /\ req[c].pc = "count"
  /\ row' = [row EXCEPT !.failed = @ + 1]
  /\ IF Reached(row.failed + 1) THEN Goto(c, "lock") ELSE Respond(c)
  /\ UNCHANGED <<issued, refreshTokens, memory, black, now, crashes, ended, shared>>

LockAccount(c) ==
  /\ req[c].pc = "lock"
  /\ row' = [row EXCEPT !.failed = 0, !.lock = now + LockTicks]
  /\ Respond(c)
  /\ UNCHANGED <<issued, refreshTokens, memory, black, now, crashes, ended, shared>>

-----------------------------------------------------------------------------
(* signJWT and storeRefreshToken: the map is used when Redis did not confirm. *)

Evict(tokens) ==
  IF Cardinality(tokens) > EvictAbove THEN {t \in tokens : ~Outdated(t)} ELSE tokens

Issue(c, s, o) ==
  /\ req[c].pc = "issue" /\ o \in Outcomes
  /\ ~Live(s) /\ \A t \in 1 .. (s - 1) : Live(t)
  /\ issued' = [issued EXCEPT ![s] = [at |-> now,
                   fam |-> IF req[c].s = 0 THEN s ELSE issued[req[c].s].fam]]
  /\ refreshTokens' = IF Applied(o) THEN refreshTokens \cup {s} ELSE refreshTokens
  /\ memory' = IF o = "ok" THEN memory ELSE Evict(memory \cup {s})
  /\ Respond(c)
  /\ UNCHANGED <<row, black, now, crashes, ended, shared>>

(* POST /api/auth/refresh: the account exists and nothing in the code disables one. *)
Rotate_IssueOnly == "issue"
Rotate == "delete"

Refresh(c, s, o) ==
  /\ req[c].pc = "idle" /\ o \in Outcomes \ {"lost"} /\ VerifyRefreshToken(s, o) /\ FindById
  /\ req' = [req EXCEPT ![c] = [NoAuthRequest EXCEPT !.pc = Rotate, !.s = s, !.then = "issue"]]
  /\ Share(s)
  /\ UNCHANGED <<row, issued, refreshTokens, memory, black, now, crashes, ended>>

(* A token of the map that is out of date is dropped where it is found. *)
RefreshOutdated(s) ==
  /\ s \in memory /\ Outdated(s)
  /\ memory' = memory \ {s}
  /\ UNCHANGED <<row, req, issued, refreshTokens, black, now, crashes, ended, shared>>

(* POST /api/auth/change-password: authenticate, findById and comparePassword, then the UPDATE. *)
ChangePassword(c, s, p, q) ==
  /\ req[c].pc = "idle" /\ Authenticate(s) /\ FindById /\ p = row.pw
  /\ req' = [req EXCEPT ![c] = [NoAuthRequest EXCEPT !.pc = "update", !.pw = q, !.s = s, !.then = "issue"]]
  /\ Share(s)
  /\ UNCHANGED <<row, issued, refreshTokens, memory, black, now, crashes, ended>>

UpdatePassword(c) ==
  /\ req[c].pc = "update"
  /\ row' = [row EXCEPT !.pw = req[c].pw]
  /\ req' = [req EXCEPT ![c].pc = "revoke", ![c].pw = "none"]
  /\ UNCHANGED <<issued, refreshTokens, memory, black, now, crashes, ended, shared>>

(* POST /api/auth/logout *)
Logout(c, s) ==
  /\ req[c].pc = "idle" /\ Authenticate(s)
  /\ req' = [req EXCEPT ![c] = [NoAuthRequest EXCEPT !.pc = "revoke", !.s = s]]
  /\ Share(s)
  /\ UNCHANGED <<row, issued, refreshTokens, memory, black, now, crashes, ended>>

(* revokeToken: an entry that lives as long as the token does, at least one tick. *)
Ttl(s) ==
  IF ~Verifies(s) THEN AccessTicks
  ELSE IF Exp(s) - now < 1 THEN 1 ELSE Exp(s) - now

RevokeToken(c, o) ==
  /\ req[c].pc = "revoke" /\ o \in Outcomes
  /\ black' = IF Applied(o) THEN [black EXCEPT ![req[c].s] = now + Ttl(req[c].s)] ELSE black
  /\ ended' = IF Applied(o) THEN ended \cup {<<req[c].s, "access">>} ELSE ended
  /\ Goto(c, "delete")
  /\ UNCHANGED <<row, issued, refreshTokens, memory, now, crashes, shared>>

(* revokeRefreshToken: best effort on Redis, then the map, whatever Redis did. *)
Forget_RedisOnly(s, o) == IF o = "ok" THEN memory ELSE memory \ {s}
Forget(s, o) == memory \ {s}

RevokeRefreshToken(c, o) ==
  LET s == req[c].s IN
  /\ req[c].pc = "delete" /\ o \in Outcomes
  /\ refreshTokens' = IF Applied(o) THEN refreshTokens \ {s} ELSE refreshTokens
  /\ memory' = Forget(s, o)
  /\ ended' = IF Applied(o) THEN ended \cup {<<s, "refresh">>} ELSE ended
  /\ shared' = IF Applied(o) THEN shared ELSE shared \cup {issued[s].fam}
  /\ IF req[c].then = "issue" THEN Goto(c, "issue") ELSE Respond(c)
  /\ UNCHANGED <<row, issued, black, now, crashes>>

-----------------------------------------------------------------------------
(* The environment: the clock (Redis drops what is out of date) and a restart. *)

AuthTick ==
  /\ now < MaxTime
  /\ now' = now + 1
  /\ refreshTokens' = {s \in refreshTokens : issued[s].at + RefreshTicks > now + 1}
  /\ black' = [s \in Sessions |-> IF black[s] > now + 1 THEN black[s] ELSE 0]
  /\ UNCHANGED <<row, req, issued, memory, crashes, ended, shared>>

Restart ==
  /\ crashes < MaxCrashes
  /\ crashes' = crashes + 1
  /\ req' = [c \in Clients |-> NoAuthRequest]
  /\ memory' = {}
  /\ UNCHANGED <<row, issued, refreshTokens, black, now, ended, shared>>

Handle(c) ==
  \/ Create(c) \/ IsLocked(c) \/ ClearLock(c) \/ CountFailure(c) \/ LockAccount(c)
  \/ UpdatePassword(c)
  \/ \E o \in Outcomes : RevokeToken(c, o) \/ RevokeRefreshToken(c, o)
  \/ \E s \in Sessions, o \in Outcomes : Issue(c, s, o)

Arrive(c) ==
  \/ \E p \in Passwords : Register(c, p) \/ EnsureAdminUser(c, p) \/ Login(c, p)
  \/ \E s \in Sessions, p \in Passwords, q \in Passwords : ChangePassword(c, s, p, q)
  \/ \E s \in Sessions : Logout(c, s)
  \/ \E s \in Sessions, o \in Outcomes : Refresh(c, s, o)

AuthNext ==
  \/ \E c \in Clients : Arrive(c) \/ Handle(c)
  \/ \E s \in Sessions : RefreshOutdated(s)
  \/ AuthTick \/ Restart

AuthSpec == AuthInit /\ [][AuthNext]_authVars

-----------------------------------------------------------------------------
(* However failed logins interleave, the counter passes the bound only by the      *)
(* requests that are about to lock the account, or that a restart cut off between *)
(* the two UPDATEs of incrementFailedLogin: no further guess goes unpunished.      *)
LockReached ==
  /\ AuthTypeOK
  /\ row.failed <= MaxAttempts - 1 + Cardinality({c \in Clients : req[c].pc = "lock"})
                   + crashes * Cardinality(Clients)

(* A token whose revocation reached Redis is never accepted again: its refresh      *)
(* token is in neither store, also not in the copy that storeRefreshToken keeps when *)
(* Redis stored the token but the answer was lost, and the entry on the blacklist    *)
(* stays until the second in which the access token expires.                         *)
LoggedOutStaysOut ==
  \A s \in Sessions :
    /\ <<s, "refresh">> \in ended => s \notin refreshTokens \cup memory
    /\ <<s, "access">> \in ended /\ now < Exp(s) => black[s] > now

(* The refresh tokens that descend from one login replace one another: as long as  *)
(* its holder sends one request at a time with its newest pair and Redis carries   *)
(* out the deletions, at most one of them is stored, through rotation, password    *)
(* change, outages and restarts.                                                   *)
OneTokenPerFamily ==
  \A f \in Sessions \ shared :
    Cardinality({s \in refreshTokens \cup memory : issued[s].fam = f}) <= 1
=============================================================================
