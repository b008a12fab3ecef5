----------------------------- MODULE PlaneProofs -----------------------------
(***************************************************************************)
(* Proofs about the planes: the sessions of the authentication routes, the *)
(* memory plane with its write queue, the path of a tool call through the  *)
(* policy plane and the tool proxy, and the API server.                    *)
(*                                                                         *)
(* Sessions: a family descends from one login.  While its holder keeps to  *)
(* one request at a time, with the newest pair, and the deletions of Redis *)
(* are carried out, only that request can know the newest session, and     *)
(* what is stored of the family is that session or nothing (OneHolder).    *)
(* The entry on the blacklist lives as long as the token it refuses.       *)
(*                                                                         *)
(* Memory plane: the queue holds the accepted writes in order but for the  *)
(* head, of which an upsert may be under way (QueueInv).  A deletion seen  *)
(* by both stores with nothing under way is undone neither by a reply, for *)
(* those were sent earlier, nor by a write, for none is queued (Calm).     *)
(*                                                                         *)
(* Tool path: an allowance in the cache is no younger than OPA's last word *)
(* on its input (Backed), so a fresh one is recent.                        *)
(*                                                                         *)
(* API server: an attempt has no effect before its answer, and only what   *)
(* was answered 5xx is repeated after an effect (AttemptTrue).  The count  *)
(* of the window under way covers what it let through, but for what the    *)
(* sweeps of its later minutes took away (Counting).  The lists are cut    *)
(* from rows that are sequences (RowsTyped), whatever calls did to them.   *)
(***************************************************************************)
EXTENDS AuthSessions, MemoryPlane, ToolPath, RestApi, FiniteSetTheorems, SequenceTheorems, TLAPS

-----------------------------------------------------------------------------
(* Selections. *)

(* In a finite set of numbers each rank up to its size belongs to one element. *)
LEMMA RankGrows ==
  ASSUME NEW S \in SUBSET Int, IsFiniteSet(S), NEW i \in S, NEW j \in S, i < j
  PROVE  Rank(S, i) \in 1 .. Cardinality(S) /\ Rank(S, i) < Rank(S, j)
<1>1. PICK A : A = {l \in S : l <= i}
  OBVIOUS
<1>2. PICK B : B = {l \in S : l <= j}
  OBVIOUS
<1>3. A \in SUBSET S /\ B \in SUBSET S /\ A \in SUBSET B /\ i \in A /\ j \in B /\ j \notin A
  <2>1. A \in SUBSET S /\ B \in SUBSET S
    BY <1>1, <1>2
  <2>2. \A l \in S : l <= i => l <= j
    OBVIOUS
  <2>3. ~(j <= i) /\ i <= i /\ j <= j
    OBVIOUS
  <2> QED BY <1>1, <1>2, <2>1, <2>2, <2>3
<1>4. IsFiniteSet(A) /\ IsFiniteSet(B)
  BY <1>3, FS_Subset
<1>5. Cardinality(A) <= Cardinality(S) /\ Cardinality(A) <= Cardinality(B) /\ Cardinality(A) # Cardinality(B)
  BY <1>3, <1>4, FS_Subset
<1>6. Cardinality(A) # 0
  BY <1>3, <1>4, FS_EmptySet
<1>7. Cardinality(A) \in Nat /\ Cardinality(B) \in Nat /\ Cardinality(S) \in Nat
  BY <1>4, FS_CardinalityType
<1>8. Rank(S, i) = Cardinality(A) /\ Rank(S, j) = Cardinality(B)
  BY <1>1, <1>2 DEF Rank
<1> QED BY <1>5, <1>6, <1>7, <1>8

LEMMA RankBounds ==
  ASSUME NEW S \in SUBSET Int, IsFiniteSet(S), NEW i \in S
  PROVE  Rank(S, i) \in 1 .. Cardinality(S)
<1>1. PICK A : A = {l \in S : l <= i}
  OBVIOUS
<1>2. A \in SUBSET S /\ i \in A
  BY <1>1
<1>3. IsFiniteSet(A) /\ Cardinality(A) <= Cardinality(S)
  BY <1>2, FS_Subset
<1>4. Cardinality(A) # 0
  BY <1>2, <1>3, FS_EmptySet
<1>5. Cardinality(A) \in Nat /\ Cardinality(S) \in Nat
  BY <1>3, FS_CardinalityType
<1>6. Rank(S, i) = Cardinality(A)
  BY <1>1 DEF Rank
<1> QED BY <1>3, <1>4, <1>5, <1>6

LEMMA RankTaken ==
  ASSUME NEW S \in SUBSET Int, IsFiniteSet(S), NEW n \in 1 .. Cardinality(S)
  PROVE  \E i \in S : Rank(S, i) = n
<1>1. PICK r : r = [i \in S |-> Rank(S, i)]
  OBVIOUS
<1>2. r \in [S -> 1 .. Cardinality(S)]
  BY <1>1, RankBounds
<1>3. \A i, j \in S : i # j => r[i] # r[j]
  <2>1. SUFFICES ASSUME NEW i \in S, NEW j \in S, i < j PROVE r[i] # r[j]
    OBVIOUS
  <2>2. Rank(S, i) < Rank(S, j) /\ Rank(S, i) \in Nat /\ Rank(S, j) \in Nat
    BY <2>1, RankGrows, RankBounds
  <2> QED BY <1>1, <2>2
<1>4. r \in Injection(S, 1 .. Cardinality(S))
  BY <1>2, <1>3 DEF Injection, IsInjective
<1>5. Cardinality(S) \in Nat
  BY FS_CardinalityType
<1>6. IsFiniteSet(1 .. Cardinality(S)) /\ Cardinality(1 .. Cardinality(S)) = Cardinality(S)
  BY <1>5, FS_Interval
<1>7. r \in Surjection(S, 1 .. Cardinality(S))
  BY <1>4, <1>6, FS_Injection
<1>8. \E i \in S : r[i] = n
  BY <1>7 DEF Surjection
<1> QED BY <1>1, <1>8

(* InOrder lists the set, increasing. *)
LEMMA InOrderLists ==
  ASSUME NEW S \in SUBSET Int, IsFiniteSet(S)
  PROVE  /\ InOrder(S) \in [1 .. Cardinality(S) -> S]
         /\ \A m, n \in 1 .. Cardinality(S) : m < n => InOrder(S)[m] < InOrder(S)[n]
         /\ \A i \in S : \E n \in 1 .. Cardinality(S) : InOrder(S)[n] = i
<1>1. ASSUME NEW n \in 1 .. Cardinality(S)
      PROVE InOrder(S)[n] \in S /\ Rank(S, InOrder(S)[n]) = n
  <2>1. InOrder(S)[n] = CHOOSE i \in S : Rank(S, i) = n
    BY DEF InOrder
  <2>2. PICK i \in S : Rank(S, i) = n
    BY RankTaken
  <2> HIDE DEF Rank
  <2> QED BY <2>1, <2>2
<1>2. InOrder(S) \in [1 .. Cardinality(S) -> S]
  <2>1. InOrder(S) = [n \in 1 .. Cardinality(S) |-> InOrder(S)[n]]
    BY DEF InOrder
  <2> QED BY <1>1, <2>1
<1>3. ASSUME NEW m \in 1 .. Cardinality(S), NEW n \in 1 .. Cardinality(S), m < n
      PROVE InOrder(S)[m] < InOrder(S)[n]
  <2>1. PICK i \in S : i = InOrder(S)[m] /\ Rank(S, i) = m
    BY <1>1
  <2>2. PICK j \in S : j = InOrder(S)[n] /\ Rank(S, j) = n
    BY <1>1
  <2>3. i # j
    BY <1>3, <2>1, <2>2
  <2>4. j < i => n < m
    BY <2>1, <2>2, RankGrows
  <2>5. ~(n < m)
    BY <1>3
  <2> QED BY <2>1, <2>2, <2>3, <2>4, <2>5
<1>4. ASSUME NEW i \in S PROVE \E n \in 1 .. Cardinality(S) : InOrder(S)[n] = i
  <2>1. PICK n \in 1 .. Cardinality(S) : n = Rank(S, i)
    BY RankBounds
  <2>2. PICK j \in S : j = InOrder(S)[n] /\ Rank(S, j) = n
    BY <1>1
  <2>3. i < j => Rank(S, i) < Rank(S, j)
    BY RankGrows
  <2>4. j < i => Rank(S, j) < Rank(S, i)
    BY RankGrows
  <2>5. ~(n < n)
    OBVIOUS
  <2>6. i = j
    BY <2>1, <2>2, <2>3, <2>4, <2>5
  <2> QED BY <2>2, <2>6
<1> QED BY <1>2, <1>3, <1>4

(* Keep keeps, in their order and each once, the elements at the places in I. *)
LEMMA KeepFacts ==
  ASSUME NEW T, NEW s \in Seq(T), NEW I \in SUBSET (DOMAIN s)
  PROVE  /\ Keep(s, I) \in Seq(T)
         /\ Len(Keep(s, I)) <= Len(s)
         /\ \E f \in [DOMAIN Keep(s, I) -> I] :
              /\ \A n \in DOMAIN Keep(s, I) : Keep(s, I)[n] = s[f[n]]
              /\ \A m, n \in DOMAIN Keep(s, I) : m < n => f[m] < f[n]
<1>1. DOMAIN s = 1 .. Len(s) /\ Len(s) \in Nat
  OBVIOUS
<1>2. IsFiniteSet(DOMAIN s) /\ Cardinality(DOMAIN s) = Len(s)
  <2>1. PICK l \in Nat : l = Len(s)
    OBVIOUS
  <2>2. IsFiniteSet(1 .. l) /\ Cardinality(1 .. l) = l
    BY FS_Interval
  <2> QED BY <1>1, <2>1, <2>2
<1>3. IsFiniteSet(I) /\ Cardinality(I) <= Len(s) /\ I \in SUBSET Int
  <2>1. IsFiniteSet(I) /\ Cardinality(I) <= Len(s)
    BY <1>2, FS_Subset
  <2>2. I \in SUBSET (1 .. Len(s))
    BY <1>1
  <2> QED BY <1>1, <2>1, <2>2
<1>4. PICK N \in Nat : N = Cardinality(I)
  BY <1>3, FS_CardinalityType
<1>5. PICK f : f = InOrder(I)
  OBVIOUS
<1>6. f \in [1 .. N -> I] /\ \A m, n \in 1 .. N : m < n => f[m] < f[n]
  BY <1>3, <1>4, <1>5, InOrderLists
<1>7. Keep(s, I) = [n \in 1 .. N |-> s[f[n]]]
  BY <1>4, <1>5 DEF Keep
<1>8. \A n \in 1 .. N : s[f[n]] \in T
  BY <1>6
<1>9. Keep(s, I) \in Seq(T) /\ Len(Keep(s, I)) = N /\ DOMAIN Keep(s, I) = 1 .. N
  BY <1>7, <1>8
<1> QED BY <1>3, <1>4, <1>6, <1>7, <1>9

-----------------------------------------------------------------------------
(* Sessions. *)
(* Sessions are issued in order, and a family is named for its first session. *)
Ordered ==
  \A s \in Sessions : Live(s) =>
    /\ issued[s].at <= now
    /\ issued[s].fam <= s /\ Live(issued[s].fam)
    /\ \A t \in 1 .. s : Live(t)

(* What has been stored, revoked or presented was issued before. *)
Presented ==
  /\ \A s \in refreshTokens \cup memory : Live(s)
  /\ \A e \in ended : Live(e[1])
  /\ \A c \in Clients :
       /\ req[c].s # 0 => Live(req[c].s)
       /\ req[c].pc \in {"update", "revoke", "delete"} => req[c].s # 0

(* The entry on the blacklist outlives the token. *)
Blacklisted ==
  \A s \in Sessions : <<s, "access">> \in ended /\ now < Exp(s) => black[s] >= Exp(s)

Deleted == \A s \in Sessions : <<s, "refresh">> \in ended => s \notin refreshTokens \cup memory

(* s is the last of its family. *)
Newest(s) == \A t \in Sessions : issued[t].fam = issued[s].fam => t <= s
Alone(s) == issued[s].fam \notin shared

(* In a family that is not shared only the newest pair is presented, by one request, *)
(* and only its refresh token can be stored.                                          *)
OneHolder ==
  /\ \A c \in Clients : req[c].s # 0 /\ Alone(req[c].s) =>
       /\ Newest(req[c].s)
       /\ \A d \in Clients : req[d].s # 0 /\ issued[req[d].s].fam = issued[req[c].s].fam => d = c
       /\ req[c].pc = "issue" =>
            \A t \in refreshTokens \cup memory : issued[t].fam # issued[req[c].s].fam
  /\ \A s \in refreshTokens \cup memory : Alone(s) => Newest(s)

AuthInv == AuthTypeOK /\ Ordered /\ Presented /\ Blacklisted /\ Deleted /\ OneHolder /\ LockReached

(* The requests from which nothing is deleted, revoked or issued. *)
Quiet(c) ==
  \/ \E p \in Passwords : Register(c, p) \/ EnsureAdminUser(c, p) \/ Login(c, p)
  \/ Create(c) \/ IsLocked(c) \/ ClearLock(c) \/ CountFailure(c) \/ LockAccount(c)
  \/ UpdatePassword(c)

(* The arrival of a request that presents session s. *)
Present(c, s) ==
  \/ \E p \in Passwords, q \in Passwords : ChangePassword(c, s, p, q)
  \/ Logout(c, s)
  \/ \E o \in Outcomes : Refresh(c, s, o)

Ending == {"update", "revoke", "delete"}

(* Request d lets go of its session or keeps it, and is no nearer to revoking or issuing. *)
Calmer(d) ==
  \/ req'[d].s = 0 /\ req'[d].pc \notin Ending
  \/ /\ req'[d].s = req[d].s
     /\ req'[d].pc = "issue" => req[d].pc = "issue"
     /\ req'[d].pc \in Ending => req[d].pc \in Ending

LEMMA AuthCases ==
  ASSUME AuthNext
  PROVE \/ \E c \in Clients : Quiet(c)
        \/ \E c \in Clients, s \in Sessions : Present(c, s)
        \/ \E c \in Clients, o \in Outcomes : RevokeToken(c, o) \/ RevokeRefreshToken(c, o)
        \/ \E c \in Clients, s \in Sessions, o \in Outcomes : Issue(c, s, o)
        \/ \E s \in Sessions : RefreshOutdated(s)
        \/ AuthTick \/ Restart
BY DEF AuthNext, Arrive, Handle, Quiet, Present

LEMMA NoAuthRequestType ==
  /\ NoAuthRequest \in AuthRequest
  /\ NoAuthRequest.s = 0 /\ NoAuthRequest.pc = "idle"
BY AuthAssumption DEF NoAuthRequest, AuthRequest, Steps

LEMMA NoUserType == NoUser \in UserRow /\ NoUser.failed = 0
BY AuthAssumption DEF NoUser, UserRow

(* Client c turns to a request r that has no session, or none to revoke or issue any more. *)
LEMMA TurnsTo ==
  ASSUME AuthTypeOK, NEW c \in Clients, NEW r \in AuthRequest,
         r.s = 0, r.pc \notin Ending, req' = [req EXCEPT ![c] = r]
  PROVE req' \in [Clients -> AuthRequest] /\ \A d \in Clients : Calmer(d)
BY DEF AuthTypeOK, Calmer, Ending

LEMMA QuietSteps ==
  ASSUME AuthTypeOK, NEW c \in Clients, Quiet(c)
  PROVE /\ UNCHANGED <<issued, refreshTokens, memory, black, now, crashes, ended, shared>>
        /\ \A d \in Clients : Calmer(d)
        /\ req' \in [Clients -> AuthRequest]
        /\ row' \in UserRow
<1> DEFINE Turns == \E r \in AuthRequest :
             r.s = 0 /\ r.pc \notin Ending /\ req' = [req EXCEPT ![c] = r]
<1> DEFINE Moves == req' \in [Clients -> AuthRequest] /\ \A d \in Clients : Calmer(d)
<1>0. Turns => Moves
  BY TurnsTo
<1> HIDE DEF Turns, Moves
<1>r. row \in UserRow /\ req \in [Clients -> AuthRequest]
  BY DEF AuthTypeOK
<1>i. ASSUME Respond(c) PROVE Moves
  BY <1>0, <1>i, NoAuthRequestType DEF Respond, Ending, Turns
<1>g. ASSUME NEW pc \in Steps \ Ending, pc # "issue" \/ req[c].s = 0, Goto(c, pc)
      PROVE Moves
  BY <1>g, <1>r DEF Goto, AuthRequest, Calmer, Moves
<1>p. ASSUME NEW pc \in Steps \ Ending, req' = [req EXCEPT ![c] = [NoAuthRequest EXCEPT !.pc = pc]]
      PROVE Moves
  <2>1. [NoAuthRequest EXCEPT !.pc = pc] \in AuthRequest /\ [NoAuthRequest EXCEPT !.pc = pc].s = 0
        /\ [NoAuthRequest EXCEPT !.pc = pc].pc = pc
    BY NoAuthRequestType DEF AuthRequest
  <2> QED BY <1>0, <1>p, <2>1 DEF Turns
<1>c. ASSUME Compare(c) PROVE Moves
  <2>1. (IF req[c].valid THEN "issue" ELSE "count") \in Steps \ Ending
    BY DEF Steps, Ending
  <2> QED BY <1>c, <1>p, <2>1 DEF Compare
<1>1. ASSUME NEW p \in Passwords, Register(c, p) \/ EnsureAdminUser(c, p) \/ Login(c, p)
      PROVE Moves /\ row' \in UserRow
  <2>1. [NoAuthRequest EXCEPT !.pc = "create", !.pw = p, !.then = "issue"]
          \in {r \in AuthRequest : r.s = 0 /\ r.pc \notin Ending}
    BY NoAuthRequestType DEF AuthRequest, Steps, Ending
  <2>2. [NoAuthRequest EXCEPT !.pc = "create", !.pw = p]
          \in {r \in AuthRequest : r.s = 0 /\ r.pc \notin Ending}
    BY NoAuthRequestType DEF AuthRequest, Steps, Ending
  <2>3. [NoAuthRequest EXCEPT !.pc = "isLocked", !.valid = (p = row.pw)]
          \in {r \in AuthRequest : r.s = 0 /\ r.pc \notin Ending}
    BY NoAuthRequestType DEF AuthRequest, Steps, Ending
  <2>4. Turns
    BY <1>1, <2>1, <2>2, <2>3 DEF Register, EnsureAdminUser, Login, Turns
  <2> QED BY <1>0, <1>1, <1>r, <2>4 DEF Register, EnsureAdminUser, Login
<1>2. ASSUME Create(c) PROVE Moves /\ row' \in UserRow
  <2>1. [NoUser EXCEPT !.pw = req[c].pw] \in UserRow
    BY <1>r, NoUserType DEF UserRow, AuthRequest
  <2>2. req[c].then \in Steps \ Ending
    BY <1>r DEF Steps, Ending, AuthRequest
  <2> QED BY <1>2, <1>r, <1>i, <1>p, <2>1, <2>2 DEF Create
<1>3. ASSUME IsLocked(c) PROVE Moves /\ row' \in UserRow
  BY <1>3, <1>r, <1>i, <1>c, <1>g DEF IsLocked, Steps, Ending
<1>4. ASSUME ClearLock(c) PROVE Moves /\ row' \in UserRow
  <2>1. [row EXCEPT !.lock = 0] \in UserRow
    BY <1>r DEF UserRow
  <2> QED BY <1>4, <1>c, <2>1 DEF ClearLock
<1>5. ASSUME CountFailure(c) PROVE Moves /\ row' \in UserRow
  <2>1. [row EXCEPT !.failed = @ + 1] \in UserRow
    BY <1>r DEF UserRow
  <2> QED BY <1>5, <1>i, <1>g, <2>1 DEF CountFailure, Steps, Ending
<1>6. ASSUME LockAccount(c) PROVE Moves /\ row' \in UserRow
  <2>1. now + LockTicks \in Nat
    BY AuthAssumption DEF AuthTypeOK
  <2>2. [row EXCEPT !.failed = 0, !.lock = now + LockTicks] \in UserRow
    BY <1>r, <2>1 DEF UserRow
  <2> QED BY <1>6, <1>i, <2>2 DEF LockAccount
<1>7. ASSUME UpdatePassword(c) PROVE Moves /\ row' \in UserRow
  <2>1. [row EXCEPT !.pw = req[c].pw] \in UserRow
    BY <1>r DEF UserRow, AuthRequest
  <2>2. Moves
    BY SMT, ZenonT(40), <1>7, <1>r DEF UpdatePassword, AuthRequest, Steps, Calmer, Ending, Moves
  <2> QED BY <1>7, <2>1, <2>2 DEF UpdatePassword
<1>8. UNCHANGED <<issued, refreshTokens, memory, black, now, crashes, ended, shared>>
  BY DEF Quiet, Register, EnsureAdminUser, Login, Create, IsLocked, ClearLock, CountFailure,
         LockAccount, UpdatePassword
<1> QED BY <1>1, <1>2, <1>3, <1>4, <1>5, <1>6, <1>7, <1>8 DEF Quiet, Moves

(* A presented session was issued. *)
LEMMA PresentSteps ==
  ASSUME AuthTypeOK, Presented, NEW c \in Clients, NEW s \in Sessions, Present(c, s)
  PROVE /\ Live(s) /\ Share(s)
        /\ UNCHANGED <<row, issued, refreshTokens, memory, black, now, crashes, ended>>
        /\ req[c].pc = "idle"
        /\ req'[c].pc \in Ending /\ req'[c].s = s
        /\ \A d \in Clients \ {c} : req'[d] = req[d]
        /\ req' \in [Clients -> AuthRequest]
<1> DEFINE Asks == {r \in AuthRequest : r.s = s /\ r.pc \in Ending}
<1>0. s \in 0 .. MaxSessions
  BY AuthAssumption DEF Sessions
<1>1. ASSUME NEW q \in Passwords
      PROVE [NoAuthRequest EXCEPT !.pc = "update", !.pw = q, !.s = s, !.then = "issue"] \in Asks
  BY <1>0, NoAuthRequestType DEF AuthRequest, Steps, Ending
<1>2. [NoAuthRequest EXCEPT !.pc = "revoke", !.s = s] \in Asks
  BY <1>0, NoAuthRequestType DEF AuthRequest, Steps, Ending
<1>3. [NoAuthRequest EXCEPT !.pc = Rotate, !.s = s, !.then = "issue"] \in Asks
  BY <1>0, NoAuthRequestType DEF AuthRequest, Steps, Ending, Rotate
<1>4. \E r \in Asks : req' = [req EXCEPT ![c] = r]
  BY <1>1, <1>2, <1>3 DEF Present, ChangePassword, Logout, Refresh
<1>5. Live(s)
  BY DEF Present, ChangePassword, Logout, Refresh, Authenticate, Verifies, VerifyRefreshToken, Presented
<1>6. /\ Share(s) /\ req[c].pc = "idle"
      /\ UNCHANGED <<row, issued, refreshTokens, memory, black, now, crashes, ended>>
  BY DEF Present, ChangePassword, Logout, Refresh
<1> QED BY <1>4, <1>5, <1>6 DEF AuthTypeOK

(* A new session joins the family of the session presented, or founds one. *)
LEMMA IssueStep ==
  ASSUME AuthTypeOK, Ordered, Presented,
         NEW c \in Clients, NEW s \in Sessions, NEW o \in Outcomes, Issue(c, s, o)
  PROVE /\ UNCHANGED <<row, black, now, crashes, ended, shared>>
        /\ req[c].pc = "issue" /\ req' = [req EXCEPT ![c] = NoAuthRequest]
        /\ refreshTokens' \subseteq refreshTokens \cup {s}
        /\ memory' \subseteq memory \cup {s}
        /\ ~Live(s) /\ \A t \in Sessions : Live(t) <=> t < s
        /\ issued' \in [Sessions -> [at : 0 .. MaxTime, fam : 0 .. MaxSessions]]
        /\ issued'[s].at = now /\ \A t \in Sessions \ {s} : issued'[t] = issued[t]
        /\ issued'[s].fam \in 1 .. s
        /\ IF req[c].s = 0 THEN issued'[s].fam = s
           ELSE issued'[s].fam = issued[req[c].s].fam /\ issued'[s].fam < s
        /\ req' \in [Clients -> AuthRequest]
<1> DEFINE fam == IF req[c].s = 0 THEN s ELSE issued[req[c].s].fam
<1>1. \A t \in Sessions : Live(t) <=> t < s
  BY AuthAssumption DEF Issue, Ordered, Sessions
<1>2. req[c].s \in 0 .. MaxSessions
  BY DEF AuthTypeOK, AuthRequest
<1>3. ASSUME req[c].s # 0
      PROVE issued[req[c].s].fam \in 1 .. MaxSessions /\ issued[req[c].s].fam < s
  <2>1. PICK r \in Sessions : r = req[c].s /\ Live(r)
    BY <1>2, <1>3, AuthAssumption DEF Presented, Sessions
  <2>2. r < s /\ s \in Nat /\ r \in Nat /\ s <= MaxSessions
    BY <1>1, <2>1, AuthAssumption DEF Sessions
  <2>3. issued[r].fam <= r /\ Live(issued[r].fam) /\ issued[r].fam \in 0 .. MaxSessions
    BY <2>1 DEF Ordered, AuthTypeOK
  <2>4. issued[r].fam # 0
    BY <2>1 DEF Live
  <2> QED BY <2>1, <2>2, <2>3, <2>4, AuthAssumption
<1>4. fam \in 1 .. s /\ fam \in 0 .. MaxSessions /\ s # 0
  BY <1>3, AuthAssumption DEF Sessions
<1>5. issued' = [issued EXCEPT ![s] = [at |-> now, fam |-> fam]]
  BY DEF Issue
<1>6. /\ issued' \in [Sessions -> [at : 0 .. MaxTime, fam : 0 .. MaxSessions]]
      /\ issued'[s] = [at |-> now, fam |-> fam]
      /\ \A t \in Sessions \ {s} : issued'[t] = issued[t]
  <2> HIDE DEF fam
  <2> QED BY <1>4, <1>5 DEF AuthTypeOK
<1>7. memory' \subseteq memory \cup {s} /\ refreshTokens' \subseteq refreshTokens \cup {s}
  BY DEF Issue, Evict
<1>8. req' \in [Clients -> AuthRequest]
  BY NoAuthRequestType DEF Issue, Respond, AuthTypeOK
<1> QED BY <1>1, <1>2, <1>3, <1>4, <1>6, <1>7, <1>8 DEF Issue, Respond, Sessions

(* A request to revoke a token goes on, or ends. *)
LEMMA RevokeStep ==
  ASSUME AuthTypeOK, Presented, NEW c \in Clients, NEW o \in Outcomes,
         RevokeToken(c, o) \/ RevokeRefreshToken(c, o)
  PROVE /\ req' \in [Clients -> AuthRequest]
        /\ req[c].pc \in Ending /\ req'[c].s \in {0, req[c].s}
        /\ req'[c].s = 0 => req'[c].pc = "idle"
        /\ req'[c].s # 0 => req'[c].pc = IF req[c].pc = "revoke" THEN "delete" ELSE "issue"
        /\ \A d \in Clients \ {c} : req'[d] = req[d]
        /\ refreshTokens' \subseteq refreshTokens /\ memory' \subseteq memory
        /\ UNCHANGED <<row, issued, now, crashes>> /\ shared \subseteq shared'
<1>1. req[c] \in AuthRequest /\ req[c].pc \in Ending /\ req[c].s # 0
  BY DEF RevokeToken, RevokeRefreshToken, Ending, AuthTypeOK, Presented
<1>2. ASSUME NEW pc \in {"delete", "issue"}, Goto(c, pc)
      PROVE /\ req' \in [Clients -> AuthRequest] /\ \A d \in Clients \ {c} : req'[d] = req[d]
            /\ req'[c].s = req[c].s /\ req'[c].pc = pc
  BY <1>2 DEF Goto, AuthTypeOK, AuthRequest, Steps
<1>3. ASSUME Respond(c)
      PROVE /\ req' \in [Clients -> AuthRequest] /\ \A d \in Clients \ {c} : req'[d] = req[d]
            /\ req'[c].s = 0 /\ req'[c].pc = "idle"
  BY <1>3, NoAuthRequestType DEF Respond, AuthTypeOK
<1>4. CASE RevokeToken(c, o)
  BY <1>1, <1>2, <1>4 DEF RevokeToken
<1>5. CASE RevokeRefreshToken(c, o)
  BY <1>1, <1>2, <1>3, <1>5 DEF RevokeRefreshToken, Forget
<1> QED BY <1>4, <1>5

LEMMA FamilyIsSession ==
  ASSUME AuthTypeOK, NEW s \in Sessions, Live(s)
  PROVE issued[s].fam \in Sessions
<1>1. issued[s] \in [at : 0 .. MaxTime, fam : 0 .. MaxSessions]
  BY DEF AuthTypeOK
<1> QED BY <1>1, AuthAssumption DEF Live, Sessions

(* An entry on the blacklist is made for one tick at least, and for no longer than a token lasts. *)
LEMMA TtlBounds ==
  ASSUME AuthTypeOK, Ordered, NEW s \in Sessions, Live(s)
  PROVE Ttl(s) \in 1 .. AccessTicks /\ now + Ttl(s) >= Exp(s) /\ Exp(s) \in Nat
BY AuthAssumption DEF AuthTypeOK, Ordered, Ttl, Verifies, Exp

-----------------------------------------------------------------------------
LEMMA AuthTypeStep ==
  ASSUME AuthTypeOK, Ordered, Presented, AuthNext
  PROVE AuthTypeOK'
<1>1. ASSUME NEW c \in Clients, Quiet(c) PROVE AuthTypeOK'
  BY <1>1, QuietSteps DEF AuthTypeOK
<1>2. ASSUME NEW c \in Clients, NEW s \in Sessions, Present(c, s) PROVE AuthTypeOK'
  <2>1. issued[s].fam \in Sessions
    BY <1>2, PresentSteps, FamilyIsSession
  <2> QED BY <1>2, <2>1, PresentSteps DEF AuthTypeOK, Share
<1>3. ASSUME NEW c \in Clients, NEW o \in Outcomes, RevokeToken(c, o) PROVE AuthTypeOK'
  <2>1. req[c].s \in Sessions /\ Live(req[c].s)
    BY <1>3, AuthAssumption DEF AuthTypeOK, AuthRequest, Presented, RevokeToken, Sessions
  <2>2. now + Ttl(req[c].s) \in 0 .. (MaxTime + AccessTicks)
    BY <2>1, TtlBounds, AuthAssumption DEF AuthTypeOK
  <2>3. ended' \subseteq Sessions \X {"access", "refresh"} /\ shared' = shared
    BY <1>3, <2>1 DEF AuthTypeOK, RevokeToken
  <2>4. black' \in [Sessions -> 0 .. (MaxTime + AccessTicks)]
    BY <1>3, <2>2 DEF AuthTypeOK, RevokeToken
  <2> QED BY <1>3, <2>3, <2>4, RevokeStep DEF AuthTypeOK
<1>4. ASSUME NEW c \in Clients, NEW o \in Outcomes, RevokeRefreshToken(c, o) PROVE AuthTypeOK'
  <2>1. req[c].s \in Sessions /\ Live(req[c].s)
    BY <1>4, AuthAssumption DEF AuthTypeOK, AuthRequest, Presented, RevokeRefreshToken, Sessions
  <2>2. issued[req[c].s].fam \in Sessions
    BY <2>1, FamilyIsSession
  <2>3. shared' \subseteq Sessions /\ ended' \subseteq Sessions \X {"access", "refresh"} /\ black' = black
    BY <1>4, <2>1, <2>2 DEF AuthTypeOK, RevokeRefreshToken
  <2> QED BY <1>4, <2>3, RevokeStep DEF AuthTypeOK
<1>5. ASSUME NEW c \in Clients, NEW s \in Sessions, NEW o \in Outcomes, Issue(c, s, o) PROVE AuthTypeOK'
  BY <1>5, IssueStep DEF AuthTypeOK
<1>6. ASSUME NEW s \in Sessions, RefreshOutdated(s) PROVE AuthTypeOK'
  BY <1>6 DEF AuthTypeOK, RefreshOutdated
<1>7. CASE AuthTick
  BY <1>7, AuthAssumption DEF AuthTypeOK, AuthTick
<1>8. CASE Restart
  BY <1>8, NoAuthRequestType, AuthAssumption DEF AuthTypeOK, Restart
<1> QED BY <1>1, <1>2, <1>3, <1>4, <1>5, <1>6, <1>7, <1>8, AuthCases

LEMMA OrderedStep ==
  ASSUME AuthTypeOK, Ordered, Presented, AuthNext
  PROVE Ordered'
<1>1. CASE issued' = issued /\ now' >= now
  <2>1. \A s \in Sessions : issued[s].at \in Nat /\ now \in Nat
    BY AuthAssumption DEF AuthTypeOK
  <2>2. now' \in Int => \A s \in Sessions : Live(s) => issued'[s].at <= now'
    BY <1>1, <2>1 DEF Ordered
  <2> QED BY <1>1, <2>2, AuthTypeStep DEF Ordered, Live, AuthTypeOK
<1>2. ASSUME NEW c \in Clients, NEW s \in Sessions, NEW o \in Outcomes, Issue(c, s, o) PROVE Ordered'
  <2>1. ASSUME NEW t \in Sessions PROVE Live(t)' <=> t <= s
    <3>1. CASE t = s
      BY <1>2, <3>1, IssueStep, AuthAssumption DEF Live, Sessions
    <3>2. CASE t # s
      BY <1>2, <3>2, IssueStep, AuthAssumption DEF Live, Sessions
    <3> QED BY <3>1, <3>2
  <2>2. now' = now /\ now \in Nat
    BY <1>2, IssueStep, AuthAssumption DEF AuthTypeOK
  <2>3. ASSUME NEW t \in Sessions, Live(t)'
        PROVE issued'[t].at <= now /\ issued'[t].fam \in 1 .. t
    <3>1. CASE t = s
      BY <1>2, <2>2, <3>1, IssueStep
    <3>2. CASE t # s
      <4>1. issued'[t] = issued[t]
        BY <1>2, <3>2, IssueStep
      <4> QED BY <2>3, <4>1, FamilyIsSession, AuthAssumption DEF Ordered, Live, Sessions
    <3> QED BY <3>1, <3>2
  <2> QED BY <2>1, <2>2, <2>3, AuthAssumption DEF Ordered, Sessions
<1>3. ASSUME NEW c \in Clients, Quiet(c) PROVE issued' = issued /\ now' = now
  BY <1>3, QuietSteps
<1>4. ASSUME NEW c \in Clients, NEW s \in Sessions, Present(c, s) PROVE issued' = issued /\ now' = now
  BY <1>4, PresentSteps
<1> QED BY <1>1, <1>2, <1>3, <1>4, AuthCases
        DEF RevokeToken, RevokeRefreshToken, RefreshOutdated, AuthTick, Restart, AuthTypeOK

LEMMA PresentedStep ==
  ASSUME AuthTypeOK, Ordered, Presented, AuthNext
  PROVE Presented'
<1>t. AuthTypeOK'
  BY AuthTypeStep
<1>1. ASSUME NEW c \in Clients, Quiet(c) PROVE Presented'
  BY <1>1, QuietSteps DEF Presented, Calmer, Live, Ending
<1>2. ASSUME NEW c \in Clients, NEW s \in Sessions, Present(c, s) PROVE Presented'
  <2>1. s # 0
    BY AuthAssumption DEF Sessions
  <2> QED BY <1>2, <2>1, PresentSteps DEF Presented, Live
<1>3. ASSUME NEW c \in Clients, NEW o \in Outcomes, RevokeToken(c, o) \/ RevokeRefreshToken(c, o)
      PROVE Presented'
  <2>1. Live(req[c].s) /\ ended' \subseteq ended \cup {<<req[c].s, "access">>, <<req[c].s, "refresh">>}
    BY <1>3 DEF RevokeToken, RevokeRefreshToken, Presented
  <2> QED BY <1>3, <2>1, RevokeStep DEF Presented, Live, Ending
<1>4. ASSUME NEW c \in Clients, NEW s \in Sessions, NEW o \in Outcomes, Issue(c, s, o) PROVE Presented'
  <2>1. ASSUME NEW t \in Sessions, Live(t) PROVE Live(t)' /\ t # s
    BY <1>4, <2>1, IssueStep DEF Live
  <2>2. Live(s)'
    BY <1>4, IssueStep, AuthAssumption DEF Live, Sessions
  <2>3. \A e \in ended : e[1] \in Sessions
    BY DEF AuthTypeOK
  <2>4. \A d \in Clients : req[d].s # 0 => req[d].s \in Sessions
    BY AuthAssumption DEF AuthTypeOK, AuthRequest, Sessions
  <2>5. \A d \in Clients : req'[d] = IF d = c THEN NoAuthRequest ELSE req[d]
    BY <1>4, IssueStep DEF AuthTypeOK
  <2>6. \A d \in Clients : /\ req'[d].s # 0 => Live(req[d].s) /\ req'[d].s = req[d].s
                           /\ req'[d].pc \in Ending => req'[d].s # 0
    BY <2>5, NoAuthRequestType DEF Presented, Ending
  <2>7. \A t \in refreshTokens' \cup memory' : Live(t)'
    BY <1>4, <2>1, <2>2, IssueStep DEF Presented, AuthTypeOK
  <2>8. \A e \in ended' : Live(e[1])'
    BY <1>4, <2>1, <2>3, IssueStep DEF Presented
  <2>9. \A d \in Clients : req'[d].s # 0 => Live(req[d].s)'
    BY <2>1, <2>4, <2>6
  <2> QED BY <2>6, <2>7, <2>8, <2>9 DEF Presented, Live, Ending
<1>5. ASSUME NEW s \in Sessions, RefreshOutdated(s) PROVE Presented'
  BY <1>5 DEF RefreshOutdated, Presented, Live
<1>6. CASE AuthTick
  BY <1>6 DEF AuthTick, Presented, Live
<1>7. CASE Restart
  BY <1>7, NoAuthRequestType DEF Restart, Presented, Live
<1> QED BY <1>1, <1>2, <1>3, <1>4, <1>5, <1>6, <1>7, AuthCases

(* Redis drops an entry only once the token it is for has expired. *)
LEMMA BlacklistedStep ==
  ASSUME AuthTypeOK, Ordered, Presented, Blacklisted, AuthNext
  PROVE Blacklisted'
<1>1. CASE UNCHANGED <<issued, black, now, ended>>
  BY <1>1 DEF Blacklisted, Exp
<1>2. ASSUME NEW c \in Clients, NEW o \in Outcomes, RevokeToken(c, o) PROVE Blacklisted'
  <2>1. req[c].s \in Sessions /\ Live(req[c].s)
    BY <1>2, AuthAssumption DEF AuthTypeOK, AuthRequest, Presented, RevokeToken, Sessions
  <2>2. now + Ttl(req[c].s) >= Exp(req[c].s)
    BY <2>1, TtlBounds
  <2>3. UNCHANGED <<issued, now>>
    BY <1>2 DEF RevokeToken
  <2>4. CASE ~Applied(o)
    BY <1>1, <1>2, <2>4 DEF RevokeToken
  <2>5. CASE Applied(o)
    <3>1. /\ black' = [black EXCEPT ![req[c].s] = now + Ttl(req[c].s)]
          /\ ended' = ended \cup {<<req[c].s, "access">>}
      BY <1>2, <2>5 DEF RevokeToken
    <3> QED BY <2>1, <2>2, <2>3, <3>1 DEF Blacklisted, Exp, AuthTypeOK
  <2> QED BY <2>4, <2>5
<1>3. ASSUME NEW c \in Clients, NEW o \in Outcomes, RevokeRefreshToken(c, o) PROVE Blacklisted'
  BY <1>3 DEF RevokeRefreshToken, Blacklisted, Exp
<1>4. ASSUME NEW c \in Clients, NEW s \in Sessions, NEW o \in Outcomes, Issue(c, s, o) PROVE Blacklisted'
  <2>1. <<s, "access">> \notin ended
    BY <1>4, IssueStep DEF Presented
  <2> QED BY <1>4, <2>1, IssueStep DEF Blacklisted, Exp
<1>5. CASE AuthTick
  <2>1. ASSUME NEW s \in Sessions, <<s, "access">> \in ended, now + 1 < Exp(s)
        PROVE black'[s] = black[s] /\ black[s] >= Exp(s)
    <3>1. black[s] >= Exp(s) /\ black[s] > now + 1
      BY <2>1, AuthAssumption DEF Blacklisted, AuthTypeOK, Exp
    <3> QED BY <1>5, <3>1 DEF AuthTick
  <2> QED BY <1>5, <2>1 DEF AuthTick, Blacklisted, Exp
<1>6. ASSUME NEW c \in Clients, Quiet(c) PROVE UNCHANGED <<issued, black, now, ended>>
  BY <1>6, QuietSteps
<1>7. ASSUME NEW c \in Clients, NEW s \in Sessions, Present(c, s) PROVE UNCHANGED <<issued, black, now, ended>>
  BY <1>7, PresentSteps
<1> QED BY <1>1, <1>2, <1>3, <1>4, <1>5, <1>6, <1>7, AuthCases DEF RefreshOutdated, Restart

LEMMA DeletedStep ==
  ASSUME AuthTypeOK, Ordered, Presented, Deleted, AuthNext
  PROVE Deleted'
<1>1. CASE refreshTokens' \subseteq refreshTokens /\ memory' \subseteq memory /\ ended' = ended
  BY <1>1 DEF Deleted
<1>2. ASSUME NEW c \in Clients, NEW o \in Outcomes, RevokeToken(c, o) PROVE Deleted'
  BY <1>2 DEF RevokeToken, Deleted
<1>3. ASSUME NEW c \in Clients, NEW o \in Outcomes, RevokeRefreshToken(c, o) PROVE Deleted'
  BY <1>3 DEF RevokeRefreshToken, Deleted, Forget
<1>4. ASSUME NEW c \in Clients, NEW s \in Sessions, NEW o \in Outcomes, Issue(c, s, o) PROVE Deleted'
  <2>1. <<s, "refresh">> \notin ended
    BY <1>4, IssueStep DEF Presented
  <2> QED BY <1>4, <2>1, IssueStep DEF Deleted
<1>6. ASSUME NEW c \in Clients, Quiet(c) PROVE UNCHANGED <<refreshTokens, memory, ended>>
  BY <1>6, QuietSteps
<1>7. ASSUME NEW c \in Clients, NEW s \in Sessions, Present(c, s) PROVE UNCHANGED <<refreshTokens, memory, ended>>
  BY <1>7, PresentSteps
<1> QED BY <1>1, <1>2, <1>3, <1>4, <1>6, <1>7, AuthCases DEF RefreshOutdated, Restart, AuthTick

(* The lock is pending for every failure beyond the bound, unless a restart lost it. *)
Locking == {c \in Clients : req[c].pc = "lock"}

LEMMA LockingSize ==
  ASSUME AuthTypeOK
  PROVE /\ Cardinality(Locking) \in Nat /\ Cardinality(Clients) \in Nat
        /\ crashes * Cardinality(Clients) \in Nat
        /\ (crashes + 1) * Cardinality(Clients) = crashes * Cardinality(Clients) + Cardinality(Clients)
        /\ Cardinality(Locking) <= Cardinality(Clients) /\ IsFiniteSet(Locking)
<1>1. IsFiniteSet(Clients)
  BY AuthAssumption
<1>2. Cardinality(Clients) \in Nat
  BY <1>1, FS_CardinalityType
<1>3. IsFiniteSet(Locking) /\ Cardinality(Locking) <= Cardinality(Clients)
  BY <1>1, FS_Subset DEF Locking
<1>4. Cardinality(Locking) \in Nat
  BY <1>3, FS_CardinalityType
<1>5. crashes \in Nat
  BY AuthAssumption DEF AuthTypeOK
<1> QED BY <1>2, <1>3, <1>4, <1>5

LEMMA LockStep ==
  ASSUME AuthTypeOK, Ordered, Presented, LockReached, AuthNext
  PROVE LockReached'
<1>t. AuthTypeOK'
  BY AuthTypeStep
<1>b. LockReached <=>
        AuthTypeOK /\ row.failed <= MaxAttempts - 1 + Cardinality(Locking) + crashes * Cardinality(Clients)
  BY DEF LockReached, Locking
<1>c. LockReached' <=>
        row'.failed <= MaxAttempts - 1 + Cardinality(Locking') + crashes' * Cardinality(Clients)
  BY <1>t DEF LockReached, Locking
<1>n. /\ Cardinality(Locking') \in Nat /\ Cardinality(Locking) \in Nat /\ crashes * Cardinality(Clients) \in Nat
      /\ IsFiniteSet(Locking) /\ IsFiniteSet(Locking')
      /\ row.failed \in Nat /\ MaxAttempts \in Nat \ {0}
  <2>1. Cardinality(Locking') \in Nat /\ IsFiniteSet(Locking')
    <3>1. IsFiniteSet(Clients) /\ Locking' \subseteq Clients
      BY AuthAssumption DEF Locking
    <3> QED BY <3>1, FS_Subset, FS_CardinalityType
  <2> QED BY <2>1, LockingSize, AuthAssumption DEF AuthTypeOK, UserRow
<1>1. ASSUME row'.failed = row.failed, Locking \subseteq Locking', crashes' = crashes PROVE LockReached'
  <2>1. Cardinality(Locking) <= Cardinality(Locking')
    BY <1>1, <1>n, FS_Subset
  <2> QED BY <1>1, <1>b, <1>c, <1>n, <2>1
<1>2. ASSUME row'.failed <= MaxAttempts - 1, row'.failed \in Nat, crashes' = crashes PROVE LockReached'
  BY <1>2, <1>c, <1>n
<1>3. CASE Restart
  <2>1. row' = row /\ crashes' = crashes + 1
    BY <1>3 DEF Restart
  <2> QED BY <1>b, <1>c, <1>n, <2>1, LockingSize
<1>4. ASSUME NEW c \in Clients, CountFailure(c) PROVE LockReached'
  <2>1. row'.failed = row.failed + 1 /\ crashes' = crashes
    BY <1>4 DEF CountFailure, AuthTypeOK, UserRow
  <2>2. CASE Reached(row.failed + 1)
    <3>1. Locking' = Locking \cup {c} /\ c \notin Locking
      BY <1>4, <2>2 DEF CountFailure, Goto, Locking, AuthTypeOK, AuthRequest
    <3>2. Cardinality(Locking') = Cardinality(Locking) + 1
      BY <1>n, <3>1, FS_AddElement
    <3> QED BY <1>b, <1>c, <1>n, <2>1, <3>2
  <2>3. CASE ~Reached(row.failed + 1)
    BY <1>2, <1>n, <2>1, <2>3 DEF Reached
  <2> QED BY <2>2, <2>3
<1>5. ASSUME NEW c \in Clients, LockAccount(c) PROVE LockReached'
  <2>1. row'.failed = 0 /\ crashes' = crashes
    BY <1>5 DEF LockAccount, AuthTypeOK, UserRow
  <2> QED BY <1>2, <1>n, <2>1
<1>6. ASSUME NEW c \in Clients, Create(c) PROVE LockReached'
  <2>1. CASE row = NoUser
    <3>1. row'.failed = 0 /\ crashes' = crashes
      BY <1>6, <2>1, NoUserType DEF Create, UserRow
    <3> QED BY <1>2, <1>n, <3>1
  <2>2. CASE row # NoUser
    BY <1>1, <1>6, <2>2 DEF Create, Respond, Locking, AuthTypeOK
  <2> QED BY <2>1, <2>2
<1>7. ASSUME NEW c \in Clients, req[c].pc # "lock", \A d \in Clients \ {c} : req'[d] = req[d] 
      PROVE Locking \subseteq Locking'
  BY <1>7 DEF Locking
<1>8. ASSUME NEW c \in Clients,
             \/ \E p \in Passwords : Register(c, p) \/ EnsureAdminUser(c, p) \/ Login(c, p)
             \/ IsLocked(c) \/ ClearLock(c) \/ UpdatePassword(c)
      PROVE row'.failed = row.failed /\ crashes' = crashes /\ Locking \subseteq Locking'
  <2>1. row'.failed = row.failed /\ crashes' = crashes
    BY <1>8 DEF Register, EnsureAdminUser, Login, IsLocked, ClearLock, UpdatePassword, AuthTypeOK, UserRow
  <2>2. req[c].pc # "lock"
    BY <1>8 DEF Register, EnsureAdminUser, Login, IsLocked, ClearLock, UpdatePassword
  <2>3. \A d \in Clients \ {c} : req'[d] = req[d]
    BY <1>8 DEF Register, EnsureAdminUser, Login, IsLocked, ClearLock, UpdatePassword,
                Respond, Goto, Compare, AuthTypeOK
  <2> QED BY <1>7, <2>1, <2>2, <2>3
<1>9. ASSUME NEW c \in Clients, Quiet(c) PROVE LockReached'
  BY <1>1, <1>4, <1>5, <1>6, <1>8, <1>9 DEF Quiet
<1>10. ASSUME NEW c \in Clients, NEW s \in Sessions, Present(c, s) PROVE LockReached'
  BY <1>1, <1>7, <1>10, PresentSteps
<1>11. ASSUME NEW c \in Clients, NEW o \in Outcomes, RevokeToken(c, o) \/ RevokeRefreshToken(c, o)
       PROVE LockReached'
  BY <1>1, <1>7, <1>11, RevokeStep DEF Ending
<1>12. ASSUME NEW c \in Clients, NEW s \in Sessions, NEW o \in Outcomes, Issue(c, s, o) PROVE LockReached'
  BY <1>1, <1>7, <1>12, IssueStep DEF AuthTypeOK
<1>13. ASSUME UNCHANGED <<row, req, crashes>> PROVE LockReached'
  BY <1>1, <1>13 DEF Locking
<1> QED BY <1>3, <1>9, <1>10, <1>11, <1>12, <1>13, AuthCases DEF RefreshOutdated, AuthTick

-----------------------------------------------------------------------------
(* One holder per family that is not shared: the arrival of a request that presents a  *)
(* session next to another, or an old one, makes the family shared, and what is stored *)
(* of the family is deleted before its successor is issued.                             *)
LEMMA OneHolderStep ==
  ASSUME AuthTypeOK, Ordered, Presented, OneHolder, AuthNext
  PROVE OneHolder'
<1>k. ASSUME issued' = issued, shared \subseteq shared',
             refreshTokens' \subseteq refreshTokens, memory' \subseteq memory
      PROVE \A s \in refreshTokens' \cup memory' : Alone(s)' => Newest(s)'
  BY <1>k DEF OneHolder, Alone, Newest
<1>1. ASSUME issued' = issued, shared \subseteq shared',
             refreshTokens' \subseteq refreshTokens, memory' \subseteq memory,
             \A d \in Clients : Calmer(d)
      PROVE OneHolder'
  <2>1. ASSUME NEW c \in Clients, req'[c].s # 0, Alone(req[c].s)'
        PROVE /\ Newest(req[c].s)'
              /\ \A d \in Clients : req'[d].s # 0 /\ issued'[req'[d].s].fam = issued'[req'[c].s].fam => d = c
              /\ req'[c].pc = "issue" =>
                   \A t \in refreshTokens' \cup memory' : issued'[t].fam # issued'[req'[c].s].fam
    <3>1. req'[c].s = req[c].s /\ Alone(req[c].s)
      BY <1>1, <2>1 DEF Calmer, Alone
    <3>2. \A d \in Clients : req'[d].s # 0 => req'[d].s = req[d].s
      BY <1>1 DEF Calmer
    <3> QED BY <1>1, <2>1, <3>1, <3>2 DEF OneHolder, Newest, Calmer
  <2> QED BY <1>1, <1>k, <2>1 DEF OneHolder
<1>2. ASSUME NEW c \in Clients, NEW s \in Sessions, Present(c, s) PROVE OneHolder'
  <2>1. /\ Live(s) /\ Share(s) /\ UNCHANGED <<issued, refreshTokens, memory>>
        /\ req[c].pc = "idle" /\ req'[c].pc \in Ending /\ req'[c].s = s
        /\ \A d \in Clients \ {c} : req'[d] = req[d]
    BY <1>2, PresentSteps
  <2>2. shared \subseteq shared'
    BY <2>1 DEF Share
  <2>3. Alone(s)' => ~Contended(s)
    BY <2>1 DEF Share, Alone
  <2>4. ~Contended(s) => Newest(s)
    BY AuthAssumption DEF Contended, Newest, Sessions
  <2>5. ASSUME NEW d \in Clients, req'[d].s # 0, Alone(req[d].s)'
        PROVE /\ Newest(req[d].s)'
              /\ \A b \in Clients : req'[b].s # 0 /\ issued'[req'[b].s].fam = issued'[req'[d].s].fam => b = d
              /\ req'[d].pc = "issue" =>
                   \A t \in refreshTokens' \cup memory' : issued'[t].fam # issued'[req'[d].s].fam
    <3>1. CASE d = c
      BY <2>1, <2>3, <2>4, <2>5, <3>1 DEF Contended, Newest, Ending
    <3>2. CASE d # c
      <4>1. req'[d] = req[d] /\ Alone(req[d].s)
        BY <2>1, <2>2, <2>5, <3>2 DEF Alone
      <4>2. issued[s].fam # issued[req[d].s].fam
        <5>1. SUFFICES ASSUME issued[s].fam = issued[req[d].s].fam PROVE FALSE
          OBVIOUS
        <5>2. Contended(s)
          BY <2>5, <4>1, <5>1 DEF Contended
        <5> QED BY <2>1, <2>3, <2>5, <4>1, <5>1, <5>2 DEF Alone
      <4> QED BY <2>1, <2>5, <4>1, <4>2 DEF OneHolder, Newest
    <3> QED BY <3>1, <3>2
  <2> QED BY <1>k, <2>1, <2>2, <2>5 DEF OneHolder
<1>3. ASSUME NEW c \in Clients, NEW o \in Outcomes, RevokeToken(c, o) PROVE OneHolder'
  <2>1. \A d \in Clients : req'[d].s = req[d].s /\ (req'[d].pc = "issue" => req[d].pc = "issue")
    BY <1>3 DEF RevokeToken, Goto, AuthTypeOK, AuthRequest
  <2>2. UNCHANGED <<issued, refreshTokens, memory, shared>>
    BY <1>3 DEF RevokeToken
  <2> QED BY <2>1, <2>2 DEF OneHolder, Alone, Newest
<1>4. ASSUME NEW c \in Clients, NEW o \in Outcomes, RevokeRefreshToken(c, o) PROVE OneHolder'
  <2>0. PICK s : s = req[c].s
    OBVIOUS
  <2>1. /\ req[c].pc \in Ending /\ s # 0 /\ req'[c].s \in {0, s}
        /\ \A d \in Clients \ {c} : req'[d] = req[d]
        /\ refreshTokens' \subseteq refreshTokens /\ memory' \subseteq memory
        /\ issued' = issued /\ shared \subseteq shared'
    BY <1>4, <2>0, RevokeStep DEF Presented, Ending
  <2>2. s \in Sessions
    BY <2>0, <2>1, AuthAssumption DEF AuthTypeOK, AuthRequest, Sessions
  <2>3. refreshTokens \subseteq Sessions /\ memory \subseteq Sessions
    BY DEF AuthTypeOK
  <2>4. ASSUME Alone(s)'
        PROVE \A t \in refreshTokens' \cup memory' : issued[t].fam # issued[s].fam
    <3>1. Applied(o) /\ Alone(s)
      BY <1>4, <2>0, <2>1, <2>4 DEF RevokeRefreshToken, Alone
    <3>2. refreshTokens' = refreshTokens \ {s} /\ memory' = memory \ {s}
      BY <1>4, <2>0, <3>1 DEF RevokeRefreshToken, Forget
    <3>3. SUFFICES ASSUME NEW t \in refreshTokens' \cup memory', issued[t].fam = issued[s].fam
                   PROVE FALSE
      OBVIOUS
    <3>4. t \in Sessions /\ t # s /\ t \in refreshTokens \cup memory
      BY <2>3, <3>2
    <3>5. t <= s
      BY <2>0, <2>1, <3>1, <3>3, <3>4 DEF OneHolder, Newest
    <3>6. s <= t
      BY <2>0, <2>1, <2>2, <3>1, <3>3, <3>4 DEF OneHolder, Newest, Alone
    <3> QED BY <2>2, <3>4, <3>5, <3>6, AuthAssumption DEF Sessions
  <2>5. ASSUME NEW d \in Clients, req'[d].s # 0, Alone(req[d].s)'
        PROVE /\ Newest(req[d].s)'
              /\ \A b \in Clients : req'[b].s # 0 /\ issued'[req'[b].s].fam = issued'[req'[d].s].fam => b = d
              /\ req'[d].pc = "issue" =>
                   \A t \in refreshTokens' \cup memory' : issued'[t].fam # issued'[req'[d].s].fam
    <3>1. \A b \in Clients : req'[b].s # 0 => req'[b].s = req[b].s
      BY <2>0, <2>1
    <3>2. req'[d].s = req[d].s /\ Alone(req[d].s)
      BY <2>0, <2>1, <2>5, <3>1 DEF Alone
    <3>3. /\ Newest(req[d].s)
          /\ \A b \in Clients : req[b].s # 0 /\ issued[req[b].s].fam = issued[req[d].s].fam => b = d
      BY <2>5, <3>2 DEF OneHolder
    <3>4. CASE d = c
      BY <2>0, <2>1, <2>4, <2>5, <3>1, <3>2, <3>3, <3>4 DEF Newest
    <3>5. CASE d # c
      BY <2>0, <2>1, <2>5, <3>1, <3>2, <3>3, <3>5 DEF Newest, OneHolder
    <3> QED BY <3>4, <3>5
  <2> QED BY <1>k, <2>1, <2>5 DEF OneHolder
<1>5. ASSUME NEW c \in Clients, NEW s \in Sessions, NEW o \in Outcomes, Issue(c, s, o) PROVE OneHolder'
  <2> DEFINE f == issued'[s].fam
  <2>0. /\ UNCHANGED shared
        /\ issued'[s].fam \in 1 .. s
        /\ req[c].s = 0 => issued'[s].fam = s
        /\ req[c].s # 0 => issued'[s].fam = issued[req[c].s].fam
    BY <1>5, IssueStep
  <2>1. /\ refreshTokens' \subseteq refreshTokens \cup {s} /\ memory' \subseteq memory \cup {s}
        /\ req[c].pc = "issue" /\ shared' = shared
        /\ \A t \in Sessions : Live(t) <=> t < s
        /\ \A t \in Sessions \ {s} : issued'[t] = issued[t]
        /\ f # 0 /\ IF req[c].s = 0 THEN f = s ELSE f = issued[req[c].s].fam
    <3>1. f # 0
      BY <2>0, AuthAssumption DEF Sessions
    <3>2. IF req[c].s = 0 THEN f = s ELSE f = issued[req[c].s].fam
      BY <2>0
    <3>3. /\ refreshTokens' \subseteq refreshTokens \cup {s} /\ memory' \subseteq memory \cup {s}
          /\ req[c].pc = "issue"
          /\ \A t \in Sessions : Live(t) <=> t < s
          /\ \A t \in Sessions \ {s} : issued'[t] = issued[t]
      BY <1>5, IssueStep
    <3> QED BY <2>0, <3>1, <3>2, <3>3
  <2>2. /\ refreshTokens \subseteq Sessions /\ memory \subseteq Sessions
        /\ \A d \in Clients : req[d].s # 0 => req[d].s \in Sessions
    <3>1. \A d \in Clients : req[d].s \in 0 .. MaxSessions
      BY DEF AuthTypeOK, AuthRequest
    <3>2. refreshTokens \subseteq Sessions /\ memory \subseteq Sessions
      BY DEF AuthTypeOK
    <3> QED BY <3>1, <3>2, AuthAssumption DEF Sessions
  <2>3. \A d \in Clients : req'[d].s # 0 => d # c /\ req'[d] = req[d] /\ req[d].s # s
    <3>1. ~Live(s)
      BY <1>5, IssueStep
    <3> QED BY <1>5, <3>1, IssueStep, NoAuthRequestType DEF AuthTypeOK, Presented
  <2>4. \A t \in Sessions : t < s => issued[t].fam # s
    <3>1. ASSUME NEW t \in Sessions, t < s PROVE issued[t].fam # s
      <4>1. issued[t].fam <= t /\ issued[t].fam \in Nat
        BY <2>1, <3>1, FamilyIsSession, AuthAssumption DEF Ordered, Sessions
      <4> QED BY <3>1, <4>1, AuthAssumption DEF Sessions
    <3> QED BY <3>1
  <2>5. \A t \in (refreshTokens \cup memory) : t < s /\ t \in Sessions
    BY <2>1, <2>2 DEF Presented
  <2>6. f \notin shared => \A t \in refreshTokens \cup memory : issued[t].fam # f
    BY <2>1, <2>4, <2>5 DEF OneHolder, Alone
  <2>7. ASSUME f \notin shared, NEW d \in Clients, d # c, req[d].s # 0 PROVE issued[req[d].s].fam # f
    <3>1. req[d].s \in Sessions /\ req[d].s < s
      BY <2>1, <2>2, <2>7 DEF Presented
    <3> QED BY <2>1, <2>4, <2>7, <3>1 DEF OneHolder, Alone
  <2>8. Newest(s)'
    <3>1. ASSUME NEW t \in Sessions, issued'[t].fam = f PROVE t <= s
      <4>1. CASE t = s
        BY <4>1, AuthAssumption DEF Sessions
      <4>2. CASE t # s
        BY <2>1, <3>1, <4>2, AuthAssumption DEF Live, Sessions
      <4> QED BY <4>1, <4>2
    <3> QED BY <3>1 DEF Newest
  <2>9. ASSUME NEW t \in Sessions, t # s, Newest(t), issued[t].fam # f PROVE Newest(t)'
    BY <2>1, <2>9 DEF Newest
  <2>10. ASSUME NEW t \in refreshTokens' \cup memory', Alone(t)' PROVE Newest(t)'
    <3>1. CASE t = s
      BY <2>8, <3>1
    <3>2. CASE t # s
      <4>1. t \in refreshTokens \cup memory /\ t \in Sessions /\ issued'[t] = issued[t]
        BY <2>1, <2>2, <3>2
      <4>2. Alone(t)
        BY <2>1, <2>10, <4>1 DEF Alone
      <4>3. issued[t].fam # f
        BY <2>6, <4>1, <4>2 DEF Alone
      <4> QED BY <2>9, <3>2, <4>1, <4>2, <4>3 DEF OneHolder
    <3> QED BY <3>1, <3>2
  <2>11. ASSUME NEW d \in Clients, req'[d].s # 0, Alone(req[d].s)'
         PROVE /\ Newest(req[d].s)'
               /\ \A b \in Clients : req'[b].s # 0 /\ issued'[req'[b].s].fam = issued'[req'[d].s].fam => b = d
               /\ req'[d].pc = "issue" =>
                    \A t \in refreshTokens' \cup memory' : issued'[t].fam # issued'[req'[d].s].fam
    <3>1. \A b \in Clients : req'[b].s # 0 =>
            b # c /\ req'[b] = req[b] /\ req[b].s \in Sessions \ {s} /\ issued'[req[b].s] = issued[req[b].s]
      BY <2>1, <2>2, <2>3
    <3>2. d # c /\ req'[d] = req[d] /\ req[d].s \in Sessions \ {s} /\ Alone(req[d].s)
      BY <2>1, <2>11, <3>1 DEF Alone
    <3>3. issued[req[d].s].fam # f
      BY <2>7, <2>11, <3>2 DEF Alone
    <3>4. /\ Newest(req[d].s)
          /\ \A b \in Clients : req[b].s # 0 /\ issued[req[b].s].fam = issued[req[d].s].fam => b = d
          /\ req[d].pc = "issue" => \A t \in refreshTokens \cup memory : issued[t].fam # issued[req[d].s].fam
      BY <2>11, <3>2 DEF OneHolder
    <3>5. Newest(req[d].s)'
      BY <2>9, <3>2, <3>3, <3>4
    <3>6. ASSUME NEW t \in refreshTokens' \cup memory', req'[d].pc = "issue"
          PROVE issued'[t].fam # issued'[req'[d].s].fam
      <4>1. CASE t = s
        BY <2>11, <3>1, <3>2, <3>3, <4>1
      <4>2. CASE t # s
        <5>1. t \in refreshTokens \cup memory /\ issued'[t] = issued[t]
          BY <2>1, <2>2, <4>2
        <5> QED BY <2>11, <3>1, <3>2, <3>4, <3>6, <5>1
      <4> QED BY <4>1, <4>2
    <3> QED BY <2>11, <3>1, <3>2, <3>4, <3>5, <3>6
  <2> QED BY <2>10, <2>11 DEF OneHolder
<1>6. ASSUME NEW c \in Clients, Quiet(c) PROVE OneHolder'
  BY <1>1, <1>6, QuietSteps
<1>7. ASSUME req' = req \/ req' = [c \in Clients |-> NoAuthRequest] PROVE \A d \in Clients : Calmer(d)
  BY <1>7, NoAuthRequestType DEF Calmer, Ending
<1> QED BY <1>1, <1>2, <1>3, <1>4, <1>5, <1>6, <1>7, AuthCases DEF RefreshOutdated, AuthTick, Restart

(* The inductive invariant. *)
LEMMA AuthInvariant == AuthSpec => []AuthInv
<1>1. AuthInit => AuthInv
  <2> SUFFICES ASSUME AuthInit PROVE AuthInv
    OBVIOUS
  <2>1. AuthTypeOK
    BY AuthAssumption, NoAuthRequestType, NoUserType
       DEF AuthInit, AuthTypeOK, Unissued, Sessions
  <2>2. \A s \in Sessions : ~Live(s)
    BY DEF AuthInit, Live, Unissued
  <2>3. \A c \in Clients : req[c].s = 0 /\ req[c].pc = "idle"
    BY NoAuthRequestType DEF AuthInit
  <2>4. Ordered /\ Presented /\ Blacklisted /\ Deleted /\ OneHolder
    BY <2>2, <2>3 DEF AuthInit, Ordered, Presented, Blacklisted, Deleted, OneHolder
  <2>5. LockReached
    <3>1. row.failed = 0
      BY NoUserType DEF AuthInit
    <3> QED BY <2>1, <3>1, LockingSize, AuthAssumption DEF LockReached, Locking
  <2> QED BY <2>1, <2>4, <2>5 DEF AuthInv
<1>2. AuthInv /\ [AuthNext]_authVars => AuthInv'
  <2>1. AuthInv /\ AuthNext => AuthInv'
    BY AuthTypeStep, OrderedStep, PresentedStep, BlacklistedStep, DeletedStep, OneHolderStep, LockStep
       DEF AuthInv
  <2>2. AuthInv /\ UNCHANGED authVars => AuthInv'
    BY DEF authVars, AuthInv, AuthTypeOK, Ordered, Presented, Blacklisted, Deleted, OneHolder,
           LockReached, Live, Exp, Alone, Newest
  <2> QED BY <2>1, <2>2
<1> QED BY <1>1, <1>2, PTL DEF AuthSpec

(* The type invariant of the accounts and sessions (auth/routes.ts). *)
THEOREM AuthTypeCorrect == AuthSpec => []AuthTypeOK
BY AuthInvariant, PTL DEF AuthInv

(* However many failed logins interleave, for every number of attempts allowed and of   *)
(* clients: the counter outruns the bound only by the requests about to lock the account *)
(* and by those that a restart cut off (incrementFailedLogin).                            *)
THEOREM LockIsReached == AuthSpec => []LockReached
BY AuthInvariant, PTL DEF AuthInv

(* A revoked token stays refused whatever is stored, lost or expires after it, for every *)
(* life time of the tokens (revokeToken, revokeRefreshToken).                             *)
THEOREM LogoutIsFinal == AuthSpec => []LoggedOutStaysOut
<1>1. AuthInv => LoggedOutStaysOut
  <2> SUFFICES ASSUME AuthInv, NEW s \in Sessions
               PROVE /\ <<s, "refresh">> \in ended => s \notin refreshTokens \cup memory
                     /\ <<s, "access">> \in ended /\ now < Exp(s) => black[s] > now
    BY DEF LoggedOutStaysOut
  <2>1. now \in Nat /\ black[s] \in Int /\ Exp(s) \in Nat
    BY AuthAssumption DEF AuthInv, AuthTypeOK, Exp
  <2> QED BY <2>1 DEF AuthInv, Deleted, Blacklisted
<1> QED BY <1>1, AuthInvariant, PTL

(* At most one refresh token of a login is stored at a time, as long as its holder sends   *)
(* one request at a time with the newest pair and Redis carries out the deletions, however *)
(* many times the token is rotated and through outages and restarts.                       *)
THEOREM RotationReplaces == AuthSpec => []OneTokenPerFamily
<1>1. AuthInv => OneTokenPerFamily
  <2> SUFFICES ASSUME AuthInv, NEW f \in Sessions \ shared
               PROVE Cardinality({s \in refreshTokens \cup memory : issued[s].fam = f}) <= 1
    BY DEF OneTokenPerFamily
  <2> DEFINE T == {s \in refreshTokens \cup memory : issued[s].fam = f}
  <2>1. ASSUME NEW s \in T, NEW t \in T PROVE s = t
    <3>1. s \in Sessions /\ t \in Sessions
      BY DEF AuthInv, AuthTypeOK
    <3>2. s <= t /\ t <= s
      BY <3>1 DEF AuthInv, OneHolder, Newest, Alone
    <3> QED BY <3>1, <3>2, AuthAssumption DEF Sessions
  <2>2. T = {} \/ \E s \in T : T = {s}
    BY <2>1
  <2> HIDE DEF T
  <2>3. Cardinality(T) <= 1
    BY <2>2, FS_EmptySet, FS_Singleton
  <2> QED BY <2>3 DEF T
<1> QED BY <1>1, AuthInvariant, PTL

-----------------------------------------------------------------------------
(* The write queue.  It holds the last writes accepted; the flush loop is off only  *)
(* when there are none, and else holds the head or one that an overflow has dropped *)
(* from under it.                                                                    *)
Consecutive ==
  /\ Len(queue) <= accepted
  /\ \A i \in 1 .. Len(queue) : queue[i] = accepted - Len(queue) + i

HeadHeld ==
  IF flusher = "off" THEN queue = <<>> /\ op = NoOp
  ELSE /\ queue # <<>> /\ op \in Writes
       /\ op <= accepted - Len(queue) + 1
       /\ dropped = {} => op = accepted - Len(queue) + 1

(* What PostgreSQL has seen is not ahead of the loop, and what is ahead of it has attempts left. *)
Low == IF flusher = "off" THEN accepted + 1 ELSE op

Behind ==
  /\ \A i \in 1 .. Len(db) : db[i] <= IF flusher = "off" THEN accepted ELSE op
  /\ \A w \in Writes : w >= Low => attempts[w] < maxAttempts

KeptOrReported ==
  /\ dropped = {} => \A w \in 1 .. (accepted - Len(queue)) : w \in Elements(db) \cup failed
  /\ process = "exited" => flusher = "off"

QueueInv == TypeOK /\ Consecutive /\ HeadHeld /\ Behind /\ KeptOrReported /\ AppliedInOrder

LEMMA Shifted ==
  ASSUME NEW S, NEW q \in Seq(S), q # <<>>
  PROVE /\ Shift(q) \in Seq(S) /\ Len(q) \in Nat \ {0} /\ Len(Shift(q)) = Len(q) - 1
        /\ \A i \in 1 .. Len(Shift(q)) : Shift(q)[i] = q[i + 1]
        /\ Head(q) = q[1] /\ q[1] \in S
<1>1. Len(q) \in Nat \ {0}
  BY EmptySeq
<1> QED BY <1>1, HeadTailProperties, ElementOfSeq DEF Shift

LEMMA Appended ==
  ASSUME NEW S, NEW q \in Seq(S), NEW e \in S
  PROVE /\ Append(q, e) \in Seq(S) /\ Len(q) \in Nat /\ Len(Append(q, e)) = Len(q) + 1
        /\ \A i \in 1 .. Len(q) : Append(q, e)[i] = q[i]
        /\ Append(q, e)[Len(q) + 1] = e
        /\ Append(q, e) # q
        /\ Elements(Append(q, e)) = Elements(q) \cup {e}
<1>1. /\ Append(q, e) \in Seq(S) /\ Len(q) \in Nat /\ Len(Append(q, e)) = Len(q) + 1
      /\ \A i \in 1 .. Len(q) : Append(q, e)[i] = q[i]
      /\ Append(q, e)[Len(q) + 1] = e
  BY AppendProperties
<1>2. Elements(Append(q, e)) = Elements(q) \cup {e}
  BY <1>1 DEF Elements
<1>3. Append(q, e) # q
  BY <1>1
<1> QED BY <1>1, <1>2, <1>3

(* A write enters the queue behind the others, and perhaps pushes the oldest out. *)
LEMMA EnqueueStep == QueueInv /\ Enqueue => QueueInv'
<1> SUFFICES ASSUME QueueInv, Enqueue PROVE QueueInv'
  OBVIOUS
<1> USE WritesAssumption, SizeAssumption, MaxAttemptsAssumption
<1>1. /\ accepted' = accepted + 1 /\ accepted + 1 \in Writes /\ accepted \in Nat
      /\ UNCHANGED <<attempts, process, db, failed>> /\ process # "exited"
  BY DEF Enqueue, QueueInv, TypeOK, Writes
<1>2. queue \in Seq(Writes) /\ Len(queue) \in Nat /\ Len(queue) <= maxQueueSize
  BY DEF QueueInv, TypeOK
<1>3. /\ queue' \in Seq(Writes) /\ Len(queue') <= maxQueueSize /\ Len(queue') \in Nat \ {0} /\ queue' # <<>>
      /\ Consecutive' /\ dropped' \subseteq Writes
      /\ dropped' = {} => dropped = {} /\ Len(queue') = Len(queue) + 1
      /\ Len(queue') <= Len(queue) + 1
  <2>1. CASE Len(queue) >= maxQueueSize
    <3>1. queue # <<>>
      BY <1>2, <2>1
    <3>2. /\ queue' = Append(Shift(queue), accepted + 1)
          /\ dropped' = dropped \cup {Head(queue)}
      BY <1>1, <2>1 DEF Enqueue, Admit
    <3>3. /\ Shift(queue) \in Seq(Writes) /\ Len(Shift(queue)) = Len(queue) - 1
          /\ \A i \in 1 .. Len(Shift(queue)) : Shift(queue)[i] = queue[i + 1]
          /\ Head(queue) \in Writes
      BY <1>2, <3>1, Shifted
    <3>4. /\ queue' \in Seq(Writes) /\ Len(queue') = Len(queue)
          /\ \A i \in 1 .. Len(queue) - 1 : queue'[i] = queue[i + 1]
          /\ queue'[Len(queue)] = accepted + 1
      BY <1>1, <1>2, <3>2, <3>3, Appended
    <3>5. Consecutive'
      <4>1. \A i \in 1 .. Len(queue) - 1 : queue[i + 1] = accepted - Len(queue) + (i + 1)
        BY <1>2 DEF QueueInv, Consecutive
      <4>2. Len(queue) <= accepted
        BY DEF QueueInv, Consecutive
      <4>3. ASSUME NEW i \in 1 .. Len(queue) PROVE queue'[i] = accepted + 1 - Len(queue) + i
        <5>1. CASE i = Len(queue)
          BY <1>1, <1>2, <3>4, <5>1
        <5>2. CASE i \in 1 .. Len(queue) - 1
          <6>1. queue'[i] = accepted - Len(queue) + (i + 1)
            BY <3>4, <4>1, <5>2
          <6> QED BY <1>1, <1>2, <6>1
        <5> QED BY <1>2, <5>1, <5>2
      <4> QED BY <1>1, <1>2, <3>4, <4>2, <4>3 DEF Consecutive
    <3>6. dropped' \subseteq Writes /\ dropped' # {}
      BY <3>2, <3>3 DEF QueueInv, TypeOK
    <3> QED BY <1>2, <2>1, <3>4, <3>5, <3>6
  <2>2. CASE ~(Len(queue) >= maxQueueSize)
    <3>1. queue' = Append(queue, accepted + 1) /\ dropped' = dropped
      BY <1>1, <2>2 DEF Enqueue, Admit
    <3>2. /\ queue' \in Seq(Writes) /\ Len(queue') = Len(queue) + 1
          /\ \A i \in 1 .. Len(queue) : queue'[i] = queue[i]
          /\ queue'[Len(queue) + 1] = accepted + 1
      BY <1>1, <1>2, <3>1, Appended
    <3>3. Consecutive'
      BY <1>1, <1>2, <3>2 DEF QueueInv, Consecutive
    <3> QED BY <1>2, <2>2, <3>1, <3>2, <3>3 DEF QueueInv, TypeOK
  <2> QED BY <2>1, <2>2
<1>4. CASE flusher = "off"
  <2>1. queue = <<>> /\ Len(queue) = 0
    BY <1>4 DEF QueueInv, HeadHeld
  <2>2. Len(queue') = 1 /\ queue'[1] = accepted + 1
    <3>1. Len(queue') = 1
      BY SMTT(20), <1>3, <2>1
    <3> QED BY <1>1, <1>3, <3>1 DEF Consecutive
  <2>3. flusher' = "setting" /\ op' = accepted + 1
    BY <1>3, <1>4, <2>2, Shifted DEF Enqueue, StartFlush, FlushNext
  <2>4. TypeOK'
    BY SMTT(20), <1>1, <1>3, <2>3 DEF QueueInv, TypeOK, Writes
  <2>5. HeadHeld'
    BY <1>1, <1>3, <2>2, <2>3 DEF HeadHeld
  <2>6. Behind'
    <3>1. \A i \in 1 .. Len(db) : db[i] \in Writes
      BY ElementOfSeq DEF QueueInv, TypeOK
    <3> QED BY <1>1, <1>4, <2>3, <3>1 DEF QueueInv, Behind, Low, Writes
  <2>7. KeptOrReported'
    BY <1>1, <1>3, <2>1, <2>2, <2>3 DEF QueueInv, KeptOrReported
  <2> QED BY <1>1, <1>3, <2>4, <2>5, <2>6, <2>7 DEF QueueInv, AppliedInOrder
<1>5. CASE flusher # "off"
  <2>1. UNCHANGED <<flusher, op>>
    BY <1>5 DEF Enqueue, StartFlush
  <2>2. TypeOK'
    BY SMTT(20), <1>1, <1>3, <2>1 DEF QueueInv, TypeOK, Writes
  <2>3. HeadHeld'
    BY <1>1, <1>2, <1>3, <1>5, <2>1 DEF QueueInv, HeadHeld, Writes
  <2>4. Behind'
    BY <1>1, <1>5, <2>1 DEF QueueInv, Behind, Low
  <2>5. KeptOrReported'
    BY <1>1, <1>2, <1>3, <1>5, <2>1 DEF QueueInv, KeptOrReported
  <2> QED BY <1>1, <1>3, <2>2, <2>3, <2>4, <2>5 DEF QueueInv, AppliedInOrder
<1> QED BY <1>4, <1>5

(* The loop turns to what is the head now; the queue lost nothing, or the write just dealt with. *)
LEMMA TurnStep ==
  ASSUME QueueInv, flusher # "off", FlushNext(queue'), UNCHANGED <<process, accepted, dropped>>,
         \/ queue' = queue
         \/ queue' = Shift(queue) /\ (dropped = {} => op \in Elements(db') \cup failed'),
         db' \in {db, Append(db, op)}, failed' \in {failed, failed \cup {op}},
         attempts' \in [Writes -> 0 .. maxAttempts],
         \A w \in Writes : w # op => attempts'[w] = attempts[w],
         queue' = queue => attempts' = attempts
  PROVE QueueInv'
<1> USE WritesAssumption, SizeAssumption, MaxAttemptsAssumption
<1>1. /\ queue \in Seq(Writes) /\ Len(queue) \in Nat \ {0} /\ Len(queue) <= maxQueueSize
      /\ accepted \in Nat /\ op \in Writes /\ db \in Seq(Writes) /\ queue # <<>>
      /\ Len(queue) <= accepted /\ Writes \subseteq Nat /\ op \in Nat /\ accepted <= NumWrites
  <2>1. /\ queue \in Seq(Writes) /\ Len(queue) <= maxQueueSize /\ accepted \in Nat /\ accepted <= NumWrites
        /\ db \in Seq(Writes) /\ queue # <<>> /\ op \in Writes /\ Len(queue) <= accepted
    BY DEF QueueInv, TypeOK, HeadHeld, Consecutive
  <2> QED BY <2>1, Shifted DEF Writes
<1>2. /\ queue' \in Seq(Writes) /\ Len(queue') \in Nat /\ Len(queue') <= maxQueueSize /\ Consecutive'
      /\ queue' # <<>> => Head(queue') = accepted - Len(queue') + 1 /\ Len(queue') # 0
      /\ queue' = <<>> => Len(queue') = 0
      /\ queue' = queue \/ Len(queue') = Len(queue) - 1
  <2>1. CASE queue' = queue
    BY <1>1, <2>1, Shifted DEF QueueInv, Consecutive
  <2>2. CASE queue' = Shift(queue)
    <3>1. /\ queue' \in Seq(Writes) /\ Len(queue') = Len(queue) - 1
          /\ \A i \in 1 .. Len(queue') : queue'[i] = queue[i + 1]
      BY <1>1, <2>2, Shifted
    <3>2. \A i \in 1 .. Len(queue') : queue[i + 1] = accepted - Len(queue) + (i + 1)
      BY <1>1, <3>1 DEF QueueInv, Consecutive
    <3>3. ASSUME NEW i \in 1 .. Len(queue') PROVE queue'[i] = accepted - Len(queue') + i
      BY <1>1, <3>1, <3>2
    <3>4. Consecutive'
      BY <1>1, <3>1, <3>3 DEF Consecutive
    <3>5. queue' # <<>> => Head(queue') = accepted - Len(queue') + 1 /\ Len(queue') # 0
      <4>1. ASSUME queue' # <<>> PROVE Head(queue') = queue'[1] /\ Len(queue') \in Nat \ {0}
        BY <3>1, <4>1, Shifted
      <4> QED BY <3>3, <4>1
    <3> QED BY <1>1, <3>1, <3>4, <3>5
  <2> QED BY <2>1, <2>2
<1>3. /\ flusher' = IF queue' = <<>> THEN "off" ELSE "setting"
      /\ op' = IF queue' = <<>> THEN NoOp ELSE accepted - Len(queue') + 1
  BY <1>2 DEF FlushNext
<1>4. op <= accepted - Len(queue) + 1
  BY DEF QueueInv, HeadHeld
<1>5. queue' # <<>> => op' \in Writes /\ op <= op' /\ (queue' # queue => op < op')
  <2>1. Len(queue') <= accepted
    BY <1>2 DEF Consecutive
  <2>2. queue' # <<>> => op' \in 1 .. NumWrites
    BY <1>1, <1>2, <1>3, <2>1
  <2>3. queue' # <<>> => op <= op'
    <3>1. CASE queue' = queue
      BY <1>1, <1>3, <1>4, <3>1
    <3>2. CASE Len(queue') = Len(queue) - 1
      BY <1>1, <1>3, <1>4, <3>2
    <3> QED BY <1>2, <3>1, <3>2
  <2>4. queue' # <<>> /\ queue' # queue => op < op'
    <3>1. CASE Len(queue') = Len(queue) - 1
      BY <1>1, <1>3, <1>4, <3>1
    <3> QED BY <1>2, <3>1
  <2> QED BY <2>2, <2>3, <2>4 DEF Writes
<1>6. queue' = <<>> => op <= accepted
  BY <1>1, <1>2, <1>4
<1>7. /\ db' \in Seq(Writes) /\ Len(db') \in Nat
      /\ Elements(db) \subseteq Elements(db') /\ failed \subseteq failed' /\ failed' \subseteq Writes
      /\ AppliedInOrder' /\ \A i \in 1 .. Len(db') : db'[i] <= op /\ db'[i] \in Nat
  <2>1. AppliedInOrder /\ \A i \in 1 .. Len(db) : db[i] <= op
    BY DEF QueueInv, Behind
  <2>2. \A i \in 1 .. Len(db) : db[i] \in Nat
    BY <1>1, ElementOfSeq
  <2>3. CASE db' = db
    BY <1>1, <2>1, <2>2, <2>3 DEF AppliedInOrder, QueueInv, TypeOK
  <2>4. CASE db' = Append(db, op)
    <3>1. /\ db' \in Seq(Writes) /\ Len(db) \in Nat /\ Len(db') = Len(db) + 1
          /\ \A i \in 1 .. Len(db) : db'[i] = db[i]
          /\ db'[Len(db) + 1] = op /\ Elements(db') = Elements(db) \cup {op}
      BY <1>1, <2>4, Appended
    <3>2. \A i \in 1 .. Len(db') : i \in 1 .. Len(db) \/ i = Len(db) + 1
      BY <3>1
    <3>3. \A i \in 1 .. Len(db') : db'[i] <= op /\ db'[i] \in Nat
      BY <1>1, <2>1, <2>2, <3>1, <3>2
    <3>4. AppliedInOrder'
      <4>1. SUFFICES ASSUME NEW i \in 1 .. Len(db'), NEW j \in 1 .. Len(db'), i < j
                     PROVE db'[i] <= db'[j]
        BY DEF AppliedInOrder
      <4>2. CASE j = Len(db) + 1
        BY <3>1, <3>3, <4>2
      <4>3. CASE j # Len(db) + 1
        BY <2>1, <3>1, <3>2, <4>1, <4>3 DEF AppliedInOrder
      <4> QED BY <4>2, <4>3
    <3> QED BY <1>1, <3>1, <3>3, <3>4 DEF QueueInv, TypeOK
  <2> QED BY <2>3, <2>4
<1>8. TypeOK'
  BY <1>1, <1>2, <1>3, <1>5, <1>7 DEF QueueInv, TypeOK
<1>9. HeadHeld'
  BY <1>1, <1>2, <1>3, <1>5 DEF HeadHeld
<1>10. Behind'
  <2>1. \A i \in 1 .. Len(db') : db'[i] <= IF flusher' = "off" THEN accepted ELSE op'
    BY SMTT(20), <1>1, <1>3, <1>5, <1>6, <1>7
  <2>2. ASSUME NEW w \in Writes, w >= Low' PROVE attempts'[w] < maxAttempts
    <3>1. w \in Nat /\ w >= op
      BY <1>1, <1>3, <1>5, <1>6, <2>2 DEF Low
    <3>2. attempts[w] < maxAttempts
      BY <3>1 DEF QueueInv, Behind, Low
    <3>3. CASE queue' = queue
      BY <3>2, <3>3
    <3>4. CASE queue' # queue
      <4>1. w # op
        BY <1>1, <1>3, <1>5, <1>6, <2>2, <3>1, <3>4 DEF Low
      <4> QED BY <3>2, <4>1
    <3> QED BY <3>3, <3>4
  <2> QED BY <2>1, <2>2 DEF Behind
<1>11. KeptOrReported'
  <2>1. process # "exited"
    BY DEF QueueInv, KeptOrReported
  <2>2. ASSUME dropped = {}, NEW w \in 1 .. (accepted - Len(queue')) PROVE w \in Elements(db') \cup failed'
    <3>1. CASE w \in 1 .. (accepted - Len(queue))
      BY <1>7, <2>2, <3>1 DEF QueueInv, KeptOrReported
    <3>2. CASE w \notin 1 .. (accepted - Len(queue))
      <4>1. queue' # queue /\ w = accepted - Len(queue) + 1
        <5>1. CASE queue' = queue
          BY <3>2, <5>1
        <5>2. CASE queue' # queue
          <6>1. Len(queue') = Len(queue) - 1
            BY <1>2, <5>2
          <6> QED BY <1>1, <2>2, <3>2, <5>2, <6>1
        <5> QED BY <5>1, <5>2
      <4>2. op = accepted - Len(queue) + 1
        BY <2>2 DEF QueueInv, HeadHeld
      <4> QED BY <2>2, <4>1, <4>2
    <3> QED BY <3>1, <3>2
  <2> QED BY <2>1, <2>2 DEF KeptOrReported
<1> QED BY <1>2, <1>7, <1>8, <1>9, <1>10, <1>11 DEF QueueInv

(* Of a failure with an attempt left only the count and what PostgreSQL did remain. *)
LEMMA FlushKeeps == QueueInv /\ Flush => QueueInv'
<1> SUFFICES ASSUME QueueInv, Flush PROVE QueueInv'
  OBVIOUS
<1> USE WritesAssumption, SizeAssumption, MaxAttemptsAssumption
<1>1. flusher # "off" /\ op \in Writes /\ attempts[op] < maxAttempts
  BY DEF Flush, SetDone, SetFails, BackoffOver, QueueInv, HeadHeld, Behind, Low, Writes
<1>2. attempts \in [Writes -> 0 .. maxAttempts]
  BY DEF QueueInv, TypeOK
<1>3. CASE SetDone
  <2>1. db \in Seq(Writes)
    BY DEF QueueInv, TypeOK
  <2>2. op \in Elements(db')
    BY <1>1, <1>3, <2>1, Appended DEF SetDone
  <2> QED BY <1>1, <1>2, <1>3, <2>2, TurnStep DEF SetDone, history
<1>4. CASE BackoffOver
  BY <1>1, <1>2, <1>4, TurnStep DEF BackoffOver, history
<1>5. CASE SetFails
  <2>1. /\ db' \in {db, Append(db, op)} /\ UNCHANGED <<process, accepted, dropped>>
        /\ attempts' = [attempts EXCEPT ![op] = attempts[op] + 1]
    BY <1>5 DEF SetFails
  <2>2. /\ attempts' \in [Writes -> 0 .. maxAttempts] /\ attempts'[op] = attempts[op] + 1
        /\ \A w \in Writes : w # op => attempts'[w] = attempts[w]
    BY <1>1, <1>2, <2>1
  <2>3. CASE attempts'[op] >= maxAttempts
    <3>1. queue' = Shift(queue) /\ failed' = failed \cup {op} /\ FlushNext(queue')
      BY <1>5, <2>3 DEF SetFails, GiveUp
    <3>2. queue' # queue
      <4>1. queue # <<>> /\ queue \in Seq(Writes)
        BY <1>1 DEF QueueInv, HeadHeld, TypeOK
      <4> QED BY <3>1, <4>1, Shifted
    <3> QED BY <1>1, <2>1, <2>2, <3>1, <3>2, TurnStep
  <2>4. CASE ~(attempts'[op] >= maxAttempts)
    <3>1. flusher' = "backoff" /\ UNCHANGED <<queue, op, failed>>
      BY <1>5, <2>4 DEF SetFails, Retry
    <3>2. /\ db' \in Seq(Writes) /\ AppliedInOrder' /\ Elements(db) \subseteq Elements(db')
          /\ \A i \in 1 .. Len(db') : db'[i] <= op
      <4>1. /\ db \in Seq(Writes) /\ AppliedInOrder /\ \A i \in 1 .. Len(db) : db[i] <= op
        BY <1>1 DEF QueueInv, TypeOK, Behind
      <4>2. CASE db' = db
        BY <4>1, <4>2 DEF AppliedInOrder
      <4>3. CASE db' = Append(db, op)
        <5>1. /\ db' \in Seq(Writes) /\ Len(db) \in Nat /\ Len(db') = Len(db) + 1
              /\ \A i \in 1 .. Len(db) : db'[i] = db[i]
              /\ db'[Len(db) + 1] = op /\ Elements(db') = Elements(db) \cup {op}
          BY <1>1, <4>1, <4>3, Appended
        <5>2. \A i \in 1 .. Len(db') : i \in 1 .. Len(db) \/ i = Len(db) + 1
          BY <5>1
        <5>3. \A i \in 1 .. Len(db') : db'[i] <= op
          BY SMTT(20), <1>1, <4>1, <5>1, <5>2 DEF Writes
        <5>4. AppliedInOrder'
          BY <4>1, <5>1, <5>2, <5>3 DEF AppliedInOrder
        <5> QED BY <5>1, <5>3, <5>4
      <4> QED BY <2>1, <4>2, <4>3
    <3>3. TypeOK'
      BY <2>1, <2>2, <3>1, <3>2 DEF QueueInv, TypeOK
    <3>4. Behind'
      <4>1. \A w \in Writes : w >= op => attempts'[w] < maxAttempts
        BY <1>1, <1>2, <2>2, <2>4 DEF QueueInv, Behind, Low
      <4> QED BY <3>1, <3>2, <4>1 DEF Behind, Low
    <3>5. Consecutive' /\ HeadHeld' /\ KeptOrReported'
      BY <1>1, <2>1, <3>1, <3>2 DEF QueueInv, Consecutive, HeadHeld, KeptOrReported
    <3> QED BY <3>2, <3>3, <3>4, <3>5 DEF QueueInv
  <2> QED BY <2>3, <2>4
<1> QED BY <1>3, <1>4, <1>5 DEF Flush

-----------------------------------------------------------------------------
(* The memory plane.  The replies of Redis to writes stand in the order in which Redis *)
(* executed them: pos says where.                                                       *)
Unanswered == (accepted + 1) .. written

Stand(pos) ==
  /\ \A v, w \in Unanswered : v < w => pos[v] < pos[w]
  /\ \A w \in Unanswered : replies[pos[w]].call = "write" /\ replies[pos[w]].key = keyOf[w]
  /\ \A i \in 1 .. Len(replies) : replies[i].call = "write" => \E w \in Unanswered : pos[w] = i

RepliesStand ==
  accepted <= written /\ \E pos \in [Unanswered -> 1 .. Len(replies)] : Stand(pos)

(* PostgreSQL has rows under sanitised keys only. *)
RowsSafe == \A k \in Keys : rows[k].live => Safe[k] = k

(* Nothing that is under way can bring a deleted entry back. *)
Calm(e) ==
  /\ redis[e] = None /\ ~rows[e[2]].live
  /\ \A w \in Elements(queue) \cup {op} : w # NoOp => keyOf[w] # e[2]
  /\ \A w \in Unanswered : keyOf[w] # e[2]
  /\ \A r \in Readers : reads[r].pc = "backfill" => RedisKey(reads[r].type, reads[r].key) # e

MemoryInv ==
  QueueInv /\ MemoryTypeOK /\ RepliesStand /\ RowsSafe /\ \A e \in quiet : Calm(e)

StoreReply == [call : {"write", "delete"}, key : Keys]
ReadCall == [pc : {"idle", "get", "backfill"}, type : Types, key : Keys, val : Writes \cup {None}]

LEMMA SafeKeysAreKeys ==
  /\ SafeKeys \subseteq Keys
  /\ \A k \in SafeKeys : Safe[k] = k
  /\ \A k \in Keys : Safe[k] \in SafeKeys
BY SafeAssumption DEF SafeKeys

LEMMA EntriesAreKeyed ==
  /\ \A e \in Entries : e[1] \in Types /\ e[2] \in SafeKeys /\ e[2] \in Keys
  /\ \A t \in Types, k \in Keys : RedisKey(t, k) \in Entries /\ RedisKey(t, k)[2] = Safe[k]
BY SafeKeysAreKeys DEF Entries, RedisKey

LEMMA IdleType == Idle \in ReadCall /\ Idle.pc = "idle"
BY KeysAssumption, TypesAssumption DEF Idle, ReadCall

(* What the queue and the loop hold after a step was there before, or is the write that came in. *)
LEMMA EnqueueHolds ==
  ASSUME QueueInv, Enqueue
  PROVE /\ Elements(queue') \cup {op'} \subseteq Elements(queue) \cup {op, accepted + 1}
        /\ accepted' = accepted + 1 /\ UNCHANGED <<process, db>>
<1>1. /\ queue \in Seq(Writes) /\ accepted' = accepted + 1 /\ accepted + 1 \in Writes
      /\ UNCHANGED <<process, db>>
  BY WritesAssumption DEF QueueInv, TypeOK, Enqueue, Writes
<1>2. Elements(Shift(queue)) \subseteq Elements(queue) /\ Shift(queue) \in Seq(Writes)
  <2>1. CASE queue = <<>>
    BY <1>1, <2>1 DEF Shift
  <2>2. CASE queue # <<>>
    BY SMTT(20), <1>1, <2>2, Shifted DEF Elements
  <2> QED BY <2>1, <2>2
<1>3. queue' \in {Append(queue, accepted + 1), Append(Shift(queue), accepted + 1)}
  BY <1>1 DEF Enqueue, Admit
<1>4. Elements(queue') \subseteq Elements(queue) \cup {accepted + 1} /\ queue' \in Seq(Writes) /\ queue' # <<>>
  <2>1. ASSUME NEW q \in Seq(Writes), Elements(q) \subseteq Elements(queue), queue' = Append(q, accepted + 1)
        PROVE Elements(queue') \subseteq Elements(queue) \cup {accepted + 1} /\ queue' \in Seq(Writes) /\ queue' # <<>>
    <3>1. /\ queue' \in Seq(Writes) /\ Elements(queue') = Elements(q) \cup {accepted + 1}
          /\ Len(queue') = Len(q) + 1 /\ Len(q) \in Nat
      BY <1>1, <2>1, Appended
    <3>2. Len(queue') # 0
      BY <3>1
    <3> QED BY <2>1, <3>1, <3>2
  <2> QED BY <1>1, <1>2, <1>3, <2>1
<1>5. Head(queue') \in Elements(queue')
  BY <1>4, Shifted DEF Elements
<1>6. op' \in {op, Head(queue')}
  BY <1>4 DEF Enqueue, StartFlush, FlushNext
<1> QED BY <1>1, <1>4, <1>5, <1>6

LEMMA FlushHolds ==
  ASSUME QueueInv, Flush
  PROVE /\ Elements(queue') \cup {op'} \subseteq Elements(queue) \cup {op, NoOp}
        /\ op \in Writes /\ UNCHANGED <<accepted, process>>
<1>1. queue \in Seq(Writes) /\ queue # <<>> /\ op \in Writes
  BY DEF QueueInv, TypeOK, HeadHeld, Flush, SetDone, SetFails, BackoffOver
<1>2. Elements(Shift(queue)) \subseteq Elements(queue) /\ Shift(queue) \in Seq(Writes)
  <2>1. /\ Shift(queue) \in Seq(Writes) /\ Len(queue) \in Nat \ {0} /\ Len(Shift(queue)) = Len(queue) - 1
        /\ \A i \in 1 .. Len(Shift(queue)) : Shift(queue)[i] = queue[i + 1]
    BY <1>1, Shifted
  <2>2. \A i \in 1 .. Len(Shift(queue)) : i + 1 \in 1 .. Len(queue)
    BY <2>1
  <2> QED BY <2>1, <2>2 DEF Elements
<1>3. /\ queue' \in {queue, Shift(queue)} /\ UNCHANGED <<accepted, process>>
      /\ op' = op \/ FlushNext(queue')
  BY DEF Flush, SetDone, SetFails, BackoffOver, GiveUp, Retry, history
<1>4. queue' \in Seq(Writes) /\ Elements(queue') \subseteq Elements(queue)
  BY <1>1, <1>2, <1>3
<1>5. queue' # <<>> => Head(queue') \in Elements(queue')
  BY <1>4, Shifted DEF Elements
<1> QED BY <1>1, <1>3, <1>4, <1>5 DEF FlushNext

-----------------------------------------------------------------------------
(* A reply joins the others at the end. *)
LEMMA ReplyJoins ==
  ASSUME MemoryTypeOK, RepliesStand, NEW r \in StoreReply, replies' = Append(replies, r),
         accepted' = accepted,
         \/ r.call = "delete" /\ UNCHANGED <<written, keyOf>>
         \/ /\ r.call = "write" /\ written' = written + 1
            /\ keyOf'[written + 1] = r.key
            /\ \A w \in Unanswered : keyOf'[w] = keyOf[w]
  PROVE RepliesStand'
<1>1. replies \in Seq(StoreReply) /\ accepted \in Nat /\ written \in Nat
  BY WritesAssumption DEF MemoryTypeOK, TypeOK, StoreReply
<1>2. PICK pos \in [Unanswered -> 1 .. Len(replies)] : Stand(pos)
  BY DEF RepliesStand
<1>3. /\ Len(replies) \in Nat /\ Len(replies') = Len(replies) + 1
      /\ \A i \in 1 .. Len(replies) : replies'[i] = replies[i]
      /\ replies'[Len(replies) + 1] = r
  BY <1>1, Appended
<1>4. CASE r.call = "delete" /\ UNCHANGED <<written, keyOf>>
  <2>1. Unanswered' = Unanswered /\ pos \in [Unanswered -> 1 .. Len(replies')]
    BY <1>2, <1>3, <1>4 DEF Unanswered
  <2>2. Stand(pos)'
    BY <1>2, <1>3, <1>4, <2>1 DEF Stand
  <2> QED BY <1>4, <2>1, <2>2 DEF RepliesStand
<1>5. CASE /\ r.call = "write" /\ written' = written + 1
           /\ keyOf'[written + 1] = r.key
           /\ \A w \in Unanswered : keyOf'[w] = keyOf[w]
  <2>1. /\ Unanswered' = Unanswered \cup {written + 1} /\ written + 1 \notin Unanswered
        /\ \A w \in Unanswered : w < written + 1 /\ w \in Nat
    BY <1>1, <1>5 DEF Unanswered, RepliesStand
  <2>2. PICK new \in [Unanswered' -> 1 .. Len(replies')] :
          /\ \A w \in Unanswered : new[w] = pos[w] /\ pos[w] \in 1 .. Len(replies)
          /\ new[written + 1] = Len(replies) + 1
    <3> DEFINE n == [w \in Unanswered' |-> IF w \in Unanswered THEN pos[w] ELSE Len(replies) + 1]
    <3>1. /\ \A w \in Unanswered : n[w] = pos[w] /\ pos[w] \in 1 .. Len(replies)
          /\ n[written + 1] = Len(replies) + 1
      BY <1>2, <2>1
    <3>2. n \in [Unanswered' -> 1 .. Len(replies')]
      BY <1>3, <2>1, <3>1
    <3> HIDE DEF n
    <3> QED BY <3>1, <3>2
  <2>4. Stand(new)'
    <3>1. ASSUME NEW v \in Unanswered', NEW w \in Unanswered', v < w PROVE new[v] < new[w]
      BY <1>1, <1>2, <1>3, <2>1, <2>2, <3>1 DEF Stand
    <3>2. ASSUME NEW w \in Unanswered'
          PROVE replies'[new[w]].call = "write" /\ replies'[new[w]].key = keyOf'[w]
      BY <1>2, <1>3, <1>5, <2>1, <2>2 DEF Stand
    <3>3. ASSUME NEW i \in 1 .. Len(replies'), replies'[i].call = "write"
          PROVE \E w \in Unanswered' : new[w] = i
      <4>1. CASE i \in 1 .. Len(replies)
        BY <1>2, <1>3, <2>1, <2>2, <3>3, <4>1 DEF Stand
      <4>2. CASE i = Len(replies) + 1
        BY <2>1, <2>2, <4>2
      <4> QED BY <1>3, <4>1, <4>2
    <3> QED BY <3>1, <3>2, <3>3 DEF Stand
  <2> QED BY <1>1, <1>5, <2>4 DEF RepliesStand
<1> QED BY <1>4, <1>5

(* The first reply is taken: of a write, the first that is unanswered. *)
LEMMA ReplyTaken ==
  ASSUME MemoryTypeOK, RepliesStand, replies # <<>>, replies' = Tail(replies),
         UNCHANGED <<written, keyOf>>,
         \/ Head(replies).call = "delete" /\ accepted' = accepted
         \/ Head(replies).call = "write" /\ accepted' = accepted + 1
  PROVE RepliesStand'
<1>1. replies \in Seq(StoreReply) /\ accepted \in Nat /\ written \in Nat
  BY WritesAssumption DEF MemoryTypeOK, TypeOK, StoreReply
<1>2. PICK pos \in [Unanswered -> 1 .. Len(replies)] : Stand(pos)
  BY DEF RepliesStand
<1>3. /\ Len(replies) \in Nat \ {0} /\ Len(replies') = Len(replies) - 1 /\ Head(replies) = replies[1]
      /\ \A i \in 1 .. Len(replies') : replies'[i] = replies[i + 1]
  BY <1>1, Shifted DEF Shift
<1>4. /\ Unanswered' \subseteq Unanswered /\ \A w \in Unanswered' : pos[w] # 1
      /\ \A w \in Unanswered : pos[w] # 1 => w \in Unanswered'
      /\ accepted' <= written
  <2>1. CASE Head(replies).call = "delete" /\ accepted' = accepted
    <3>1. Unanswered' = Unanswered
      BY <2>1 DEF Unanswered
    <3>2. \A w \in Unanswered : pos[w] # 1
      BY <1>2, <1>3, <2>1 DEF Stand
    <3> QED BY <2>1, <3>1, <3>2 DEF RepliesStand
  <2>2. CASE Head(replies).call = "write" /\ accepted' = accepted + 1
    <3>1. PICK u \in Unanswered : pos[u] = 1
      BY <1>2, <1>3, <2>2 DEF Stand
    <3>2. \A w \in Unanswered : ~(w < u)
      BY <1>2, <1>3, <3>1 DEF Stand
    <3>3. u = accepted + 1 /\ accepted + 1 <= written
      <4>1. u \in (accepted + 1) .. written
        BY <3>1 DEF Unanswered
      <4>2. accepted + 1 \in Unanswered
        BY <1>1, <4>1 DEF Unanswered
      <4> QED BY <1>1, <3>2, <4>1, <4>2
    <3>4. Unanswered' = Unanswered \ {u}
      BY <1>1, <2>2, <3>3 DEF Unanswered
    <3>5. \A w \in Unanswered : u < w => pos[w] # 1
      BY <1>2, <3>1 DEF Stand
    <3>6. \A w \in Unanswered \ {u} : u < w
      BY <1>1, <3>3 DEF Unanswered
    <3> QED BY <2>2, <3>1, <3>3, <3>4, <3>5, <3>6
  <2> QED BY <2>1, <2>2
<1>5. PICK new \in [Unanswered' -> 1 .. Len(replies')] :
        \A w \in Unanswered' : new[w] = pos[w] - 1 /\ pos[w] \in 2 .. Len(replies)
  <2> DEFINE n == [w \in Unanswered' |-> pos[w] - 1]
  <2>1. \A w \in Unanswered' : pos[w] \in 2 .. Len(replies)
    BY <1>2, <1>3, <1>4
  <2>2. n \in [Unanswered' -> 1 .. Len(replies')] /\ \A w \in Unanswered' : n[w] = pos[w] - 1
    BY <1>3, <2>1
  <2> HIDE DEF n
  <2> QED BY <2>1, <2>2
<1>6. Stand(new)'
  <2>1. ASSUME NEW v \in Unanswered', NEW w \in Unanswered', v < w PROVE new[v] < new[w]
    BY <1>2, <1>3, <1>4, <1>5, <2>1 DEF Stand
  <2>2. ASSUME NEW w \in Unanswered'
        PROVE replies'[new[w]].call = "write" /\ replies'[new[w]].key = keyOf'[w]
    <3>1. replies'[new[w]] = replies[pos[w]]
      BY <1>3, <1>5
    <3>2. w \in Unanswered /\ keyOf' = keyOf
      BY <1>4
    <3> QED BY <1>2, <3>1, <3>2 DEF Stand
  <2>3. ASSUME NEW i \in 1 .. Len(replies'), replies'[i].call = "write"
        PROVE \E w \in Unanswered' : new[w] = i
    <3>1. i + 1 \in 1 .. Len(replies) /\ replies[i + 1].call = "write"
      BY <1>3, <2>3
    <3>2. PICK w \in Unanswered : pos[w] = i + 1
      BY <1>2, <3>1 DEF Stand
    <3> QED BY <1>3, <1>4, <1>5, <3>2
  <2> QED BY <2>1, <2>2, <2>3 DEF Stand
<1> QED BY <1>4, <1>5, <1>6 DEF RepliesStand

-----------------------------------------------------------------------------
(* The steps that leave the queue alone, and what each of them can change. *)
Handlers ==
  \/ \E t \in Types, k \in Keys : Write(t, k) \/ WriteError(t, k) \/ Delete(t, k)
  \/ DeleteReply
  \/ \E k \in Keys : PgDelete(k) \/ PgDeleteFails(k) \/ RowExpires(k)
  \/ \E r \in Readers, t \in Types, k \in Keys : ReadMiss(r, t, k)
  \/ \E r \in Readers : ReadStep(r)
  \/ \E e \in Entries : RedisExpire(e)
  \/ clearExpired

LEMMA MemoryCases ==
  ASSUME NextMemory
  PROVE \/ Handlers /\ UNCHANGED queueVars
        \/ WriteReply \/ FlushStep \/ Stop
<1>1. Handlers => UNCHANGED queueVars
  BY DEF Handlers, Write, WriteError, Delete, DeleteReply, PgDelete, PgDeleteFails, RowExpires,
         ReadMiss, ReadStep, ReadRow, ReadBackfill, ReadFails, RedisExpire, clearExpired
<1> QED BY <1>1 DEF NextMemory, Handlers, Replies

LEMMA StopKeeps ==
  ASSUME QueueInv, Stop
  PROVE QueueInv' /\ UNCHANGED <<queue, op, accepted>>
<1>1. /\ UNCHANGED <<queue, attempts, flusher, op, accepted, dropped, failed, db>>
      /\ process' \in Alive \cup {"exited", "killed"}
      /\ process' = "exited" => flusher = "off"
  BY DEF Stop, Shutdown, Dispose, CleanExit, ForcedExit, history, Alive
<1> QED BY <1>1 DEF QueueInv, TypeOK, Consecutive, HeadHeld, Behind, Low, KeptOrReported, AppliedInOrder

LEMMA QueueStep == QueueInv /\ NextMemory => QueueInv'
<1> SUFFICES ASSUME QueueInv, NextMemory PROVE QueueInv'
  OBVIOUS
<1>1. CASE UNCHANGED queueVars
  BY <1>1 DEF queueVars, history, QueueInv, TypeOK, Consecutive, HeadHeld, Behind, Low, KeptOrReported, AppliedInOrder
<1>2. WriteReply => Enqueue
  BY DEF WriteReply
<1>3. FlushStep => Flush
  BY DEF FlushStep
<1> QED BY <1>1, <1>2, <1>3, EnqueueStep, FlushKeeps, StopKeeps, MemoryCases

LEMMA MemoryTypeStep ==
  ASSUME QueueInv, MemoryTypeOK, RepliesStand, NextMemory
  PROVE MemoryTypeOK'
<1> USE WritesAssumption, DeletesAssumption
<1>q. TypeOK'
  BY QueueStep DEF QueueInv
<1>n. accepted \in Nat /\ written \in Nat /\ written <= NumWrites /\ deletes \in Nat
  BY DEF MemoryTypeOK, TypeOK
<1>1. CASE Handlers /\ UNCHANGED queueVars
  <2>1. UNCHANGED <<accepted>>
    BY <1>1 DEF queueVars, history
  <2>2. ASSUME NEW t \in Types, NEW k \in Keys, Write(t, k) PROVE MemoryTypeOK'
    <3>1. Safe[k] \in SafeKeys /\ Safe[k] \in Keys /\ written + 1 \in Writes /\ written + 1 \in accepted .. NumWrites
      BY <1>n, <2>2, SafeKeysAreKeys DEF Write, Writes, MemoryTypeOK
    <3>2. replies' \in Seq(StoreReply)
      <4>1. [call |-> "write", key |-> Safe[k]] \in StoreReply
        BY <3>1 DEF StoreReply
      <4> QED BY <2>2, <4>1, Appended DEF Write, MemoryTypeOK, StoreReply
    <3>3. written' \in accepted' .. NumWrites /\ keyOf' \in [Writes -> SafeKeys]
      BY <2>1, <2>2, <3>1 DEF Write, MemoryTypeOK
    <3>4. /\ redis' \in [Entries -> Writes \cup {None, Orphan}]
          /\ truth' \in [SafeKeys -> Writes \cup {None, Orphan}] /\ quiet' \subseteq Entries
      BY <2>2, <3>1, EntriesAreKeyed DEF Write, MemoryTypeOK
    <3> QED BY <1>q, <2>2, <3>2, <3>3, <3>4 DEF Write, MemoryTypeOK, StoreReply
  <2>3. ASSUME NEW t \in Types, NEW k \in Keys, WriteError(t, k) PROVE MemoryTypeOK'
    <3>1. /\ redis' \in [Entries -> Writes \cup {None, Orphan}]
          /\ truth' \in [SafeKeys -> Writes \cup {None, Orphan}] /\ quiet' \subseteq Entries
      BY <2>3, EntriesAreKeyed DEF WriteError, MemoryTypeOK
    <3> QED BY <1>q, <2>1, <2>3, <3>1 DEF WriteError, MemoryTypeOK
  <2>4. ASSUME NEW t \in Types, NEW k \in Keys, Delete(t, k) PROVE MemoryTypeOK'
    <3>1. /\ redis' \in [Entries -> Writes \cup {None, Orphan}]
          /\ truth' \in [SafeKeys -> Writes \cup {None, Orphan}]
      BY <2>4, EntriesAreKeyed DEF Delete, MemoryTypeOK
    <3>3. deletes' \in 0 .. MaxDeletes
      BY <1>n, <2>4 DEF Delete
    <3>2. replies' \in Seq(StoreReply)
      <4>1. [call |-> "delete", key |-> k] \in StoreReply
        BY DEF StoreReply
      <4> QED BY <2>4, <4>1, Appended DEF Delete, MemoryTypeOK, StoreReply
    <3> QED BY <1>q, <2>1, <2>4, <3>1, <3>2, <3>3 DEF Delete, MemoryTypeOK, StoreReply
  <2>5. CASE DeleteReply
    <3>1. Head(replies) \in StoreReply /\ replies' \in Seq(StoreReply)
      <4>1. replies \in Seq(StoreReply) /\ replies # <<>> /\ replies' = Tail(replies)
        BY <2>5 DEF DeleteReply, MemoryTypeOK, StoreReply
      <4> QED BY <4>1, Shifted DEF Shift
    <3>2. pgDeletes' \subseteq Keys
      BY <2>5, <3>1 DEF DeleteReply, MemoryTypeOK, StoreReply
    <3> QED BY <1>q, <2>1, <2>5, <3>1, <3>2 DEF DeleteReply, MemoryTypeOK, StoreReply
  <2>6. ASSUME NEW k \in Keys, PgDelete(k) \/ PgDeleteFails(k) \/ RowExpires(k) PROVE MemoryTypeOK'
    <3>1. rows' \in [Keys -> [val : Writes \cup {None}, live : BOOLEAN]] /\ pgDeletes' \subseteq Keys
      <4>1. rows' = [rows EXCEPT ![k].live = FALSE] \/ rows' = rows
        BY <2>6 DEF PgDelete, PgDeleteFails, RowExpires
      <4>2. rows' \in [Keys -> [val : Writes \cup {None}, live : BOOLEAN]]
        BY SMT, ZenonT(40), <4>1 DEF MemoryTypeOK
      <4> QED BY <2>6, <4>2 DEF PgDelete, PgDeleteFails, RowExpires, MemoryTypeOK
    <3>2. quiet' \subseteq Entries
      BY <2>6 DEF PgDelete, PgDeleteFails, RowExpires, MemoryTypeOK
    <3> QED BY <1>q, <2>1, <2>6, <3>1, <3>2 DEF PgDelete, PgDeleteFails, RowExpires, MemoryTypeOK
  <2>7. ASSUME NEW r \in Readers, reads' \in [Readers -> ReadCall], redis' \in [Entries -> Writes \cup {None, Orphan}],
               UNCHANGED <<rows, keyOf, written, replies, pgDeletes, deletes, truth, quiet>>
        PROVE MemoryTypeOK'
    BY <1>q, <2>1, <2>7 DEF MemoryTypeOK, ReadCall
  <2>r. reads \in [Readers -> ReadCall] /\ redis \in [Entries -> Writes \cup {None, Orphan}]
    BY DEF MemoryTypeOK, ReadCall
  <2>8. ASSUME NEW r \in Readers, NEW t \in Types, NEW k \in Keys, ReadMiss(r, t, k) PROVE MemoryTypeOK'
    <3>1. [pc |-> "get", type |-> t, key |-> k, val |-> None] \in ReadCall
      BY DEF ReadCall
    <3> QED BY <2>7, <2>8, <2>r, <3>1 DEF ReadMiss
  <2>9. ASSUME NEW r \in Readers, ReadRow(r) PROVE MemoryTypeOK'
    <3>1. rows[reads[r].key].val \in Writes \cup {None}
      BY <2>r DEF MemoryTypeOK, ReadCall
    <3>2. [reads[r] EXCEPT !.pc = "backfill", !.val = rows[reads[r].key].val] \in ReadCall
      BY <2>r, <3>1 DEF ReadCall
    <3> QED BY <2>7, <2>9, <2>r, <3>2, IdleType DEF ReadRow
  <2>10. ASSUME NEW r \in Readers, ReadBackfill(r) \/ ReadFails(r) PROVE MemoryTypeOK'
    <3>1. reads[r].val \in Writes \cup {None} /\ RedisKey(reads[r].type, reads[r].key) \in Entries
      BY <2>r, EntriesAreKeyed DEF ReadCall
    <3> QED BY <2>7, <2>10, <2>r, <3>1, IdleType DEF ReadBackfill, ReadFails
  <2>11. ASSUME NEW e \in Entries, RedisExpire(e) PROVE MemoryTypeOK'
    <3>1. redis' \in [Entries -> Writes \cup {None, Orphan}]
      BY <2>11, <2>r DEF RedisExpire
    <3> QED BY <1>q, <2>1, <2>11, <3>1 DEF RedisExpire, MemoryTypeOK
  <2>12. CASE clearExpired
    <3>1. rows' \in [Keys -> [val : Writes \cup {None}, live : BOOLEAN]]
      BY <2>12 DEF clearExpired, MemoryTypeOK, NoRow
    <3> QED BY <1>q, <2>1, <2>12, <3>1 DEF clearExpired, MemoryTypeOK
  <2> QED BY <1>1, <2>2, <2>3, <2>4, <2>5, <2>6, <2>8, <2>9, <2>10, <2>11, <2>12 DEF Handlers, ReadStep
<1>2. CASE WriteReply
  <2>1. replies' \in Seq(StoreReply)
    BY <1>2, Shifted DEF WriteReply, MemoryTypeOK, Shift, StoreReply
  <2>2. accepted' = accepted + 1
    BY <1>2 DEF WriteReply, Enqueue
  <2>3. accepted' <= written
    BY <1>2, <2>2, ReplyTaken DEF WriteReply, RepliesStand
  <2> QED BY <1>2, <1>n, <1>q, <2>1, <2>2, <2>3 DEF WriteReply, MemoryTypeOK, StoreReply
<1>3. CASE FlushStep
  <2>1. op \in Writes /\ UNCHANGED accepted
    BY <1>3, FlushHolds DEF FlushStep
  <2>2. keyOf[op] \in Keys
    BY <2>1, SafeKeysAreKeys DEF MemoryTypeOK
  <2>3. rows' \in [Keys -> [val : Writes \cup {None}, live : BOOLEAN]]
    <3>1. [val |-> op, live |-> TRUE] \in [val : Writes \cup {None}, live : BOOLEAN]
      BY <2>1
    <3> QED BY <1>3, <2>2, <3>1 DEF FlushStep, Upsert, MemoryTypeOK
  <2> QED BY <1>3, <1>q, <2>1, <2>3 DEF FlushStep, MemoryTypeOK
<1>4. CASE Stop
  BY <1>4, <1>q, StopKeeps DEF Stop, planeVars, MemoryTypeOK
<1> QED BY <1>1, <1>2, <1>3, <1>4, MemoryCases

LEMMA RepliesStep ==
  ASSUME QueueInv, MemoryTypeOK, RepliesStand, NextMemory
  PROVE RepliesStand'
<1> USE WritesAssumption
<1>1. CASE UNCHANGED <<accepted, written, keyOf, replies>>
  BY <1>1 DEF RepliesStand, Unanswered, Stand
<1>2. CASE Handlers /\ UNCHANGED queueVars
  <2>1. accepted' = accepted
    BY <1>2 DEF queueVars, history
  <2>2. ASSUME NEW t \in Types, NEW k \in Keys, Write(t, k) PROVE RepliesStand'
    <3> DEFINE r == [call |-> "write", key |-> Safe[k]]
    <3>1. Safe[k] \in Keys /\ written \in Nat /\ written + 1 \in Writes
      BY <2>2, SafeKeysAreKeys DEF Write, Writes, MemoryTypeOK, TypeOK
    <3>2. r \in StoreReply /\ r.call = "write" /\ r.key = Safe[k]
      BY <3>1 DEF StoreReply
    <3>3. /\ keyOf'[written + 1] = Safe[k] /\ written' = written + 1 /\ replies' = Append(replies, r)
          /\ \A w \in Unanswered : keyOf'[w] = keyOf[w]
      BY <2>2, <3>1 DEF Write, MemoryTypeOK, TypeOK, Unanswered, Writes
    <3> HIDE DEF r
    <3> QED BY <2>1, <3>2, <3>3, ReplyJoins
  <2>3. ASSUME NEW t \in Types, NEW k \in Keys, Delete(t, k) PROVE RepliesStand'
    <3> DEFINE r == [call |-> "delete", key |-> k]
    <3>1. r \in StoreReply /\ r.call = "delete"
      BY DEF StoreReply
    <3>2. replies' = Append(replies, r) /\ UNCHANGED <<written, keyOf>>
      BY <2>3 DEF Delete
    <3> HIDE DEF r
    <3> QED BY <2>1, <3>1, <3>2, ReplyJoins
  <2>4. CASE DeleteReply
    BY <2>1, <2>4, ReplyTaken DEF DeleteReply
  <2>5. \/ \E t \in Types, k \in Keys : Write(t, k) \/ Delete(t, k)
        \/ DeleteReply
        \/ UNCHANGED <<written, keyOf, replies>>
    BY <1>2 DEF Handlers, WriteError, PgDelete, PgDeleteFails, RowExpires,
                ReadMiss, ReadStep, ReadRow, ReadBackfill, ReadFails, RedisExpire, clearExpired
  <2> QED BY <1>1, <2>1, <2>2, <2>3, <2>4, <2>5
<1>3. CASE WriteReply
  BY <1>3, ReplyTaken DEF WriteReply, Enqueue
<1>4. CASE FlushStep
  BY <1>1, <1>4, FlushHolds DEF FlushStep
<1>5. CASE Stop
  BY <1>1, <1>5, StopKeeps DEF Stop, planeVars
<1> QED BY <1>2, <1>3, <1>4, <1>5, MemoryCases

(* Only the flush loop makes a row live, and it writes under the sanitised key. *)
LEMMA RowsStep ==
  ASSUME QueueInv, MemoryTypeOK, RowsSafe, NextMemory
  PROVE RowsSafe'
<1>1. ASSUME \A k \in Keys : rows'[k].live => rows[k].live PROVE RowsSafe'
  BY <1>1 DEF RowsSafe
<1>2. CASE FlushStep
  <2>1. op \in Writes /\ keyOf[op] \in SafeKeys
    BY <1>2, FlushHolds DEF FlushStep, MemoryTypeOK
  <2> QED BY <1>2, <2>1, SafeKeysAreKeys DEF FlushStep, Upsert, RowsSafe, MemoryTypeOK
<1>3. CASE Handlers
  <2>1. ASSUME NEW k \in Keys, PgDelete(k) \/ RowExpires(k) PROVE RowsSafe'
    BY SMT, ZenonT(40), <1>1, <2>1 DEF PgDelete, RowExpires, MemoryTypeOK
  <2>2. CASE clearExpired
    BY <1>1, <2>2 DEF clearExpired, NoRow
  <2>3. \/ \E k \in Keys : PgDelete(k) \/ RowExpires(k)
        \/ clearExpired
        \/ UNCHANGED rows
    BY <1>3 DEF Handlers, Write, WriteError, Delete, DeleteReply, PgDeleteFails,
                ReadMiss, ReadStep, ReadRow, ReadBackfill, ReadFails, RedisExpire
  <2> QED BY <1>1, <2>1, <2>2, <2>3
<1> QED BY <1>1, <1>2, <1>3, MemoryCases DEF WriteReply, Stop, planeVars

(* An entry that is deleted with nothing under way stays so until the next write of its key. *)
LEMMA CalmStep ==
  ASSUME QueueInv, MemoryTypeOK, RepliesStand, RowsSafe, \A e \in quiet : Calm(e), NextMemory
  PROVE (\A e \in quiet : Calm(e))'
<1> USE WritesAssumption
<1>s. quiet \subseteq Entries /\ redis \in [Entries -> Writes \cup {None, Orphan}]
      /\ rows \in [Keys -> [val : Writes \cup {None}, live : BOOLEAN]]
  BY DEF MemoryTypeOK
<1>r. reads \in [Readers -> ReadCall]
  BY DEF MemoryTypeOK, ReadCall
<1>1. ASSUME NEW e \in quiet,
             redis'[e] = None, ~rows'[e[2]].live, UNCHANGED <<queue, op, accepted, written, keyOf>>,
             \A r \in Readers : reads'[r].pc = "backfill" => RedisKey(reads'[r].type, reads'[r].key) # e
      PROVE Calm(e)'
  BY <1>1 DEF Calm, Unanswered
<1>2. CASE Handlers /\ UNCHANGED queueVars
  <2>1. UNCHANGED <<queue, op, accepted>>
    BY <1>2 DEF queueVars, history
  <2>2. ASSUME NEW t \in Types, NEW k \in Keys, Write(t, k), NEW j \in quiet' PROVE Calm(j)'
    <3>1. /\ Safe[k] \in SafeKeys /\ written \in Nat /\ accepted \in Nat /\ written + 1 \in Writes
          /\ op \in Writes \cup {NoOp} /\ keyOf \in [Writes -> SafeKeys]
          /\ \A w \in Elements(queue) : w <= accepted
      <4>1. \A w \in Elements(queue) : w <= accepted
        BY DEF QueueInv, Consecutive, Elements, TypeOK
      <4> QED BY <2>2, <4>1, SafeKeysAreKeys DEF Write, Writes, MemoryTypeOK, TypeOK
    <3>2. j \in quiet /\ j[2] # Safe[k] /\ j \in Entries
      BY <1>s, <2>2 DEF Write
    <3>3. keyOf' = [keyOf EXCEPT ![written + 1] = Safe[k]] /\ written' = written + 1
      BY <2>2 DEF Write
    <3>4. \A w \in Writes : keyOf'[w] # keyOf[w] => keyOf'[w] # j[2]
      BY <3>1, <3>2, <3>3
    <3>5. \A w \in Elements(queue) \cup {op} : w # NoOp => w \in Writes
      BY ElementOfSeq DEF Elements, QueueInv, TypeOK
    <3>6. \A w \in Unanswered' : w \in Unanswered \/ w = written + 1
      BY <2>1, <3>1, <3>3 DEF Unanswered
    <3>7. keyOf'[written + 1] # j[2] /\ \A w \in Unanswered : w \in Writes
      BY <3>1, <3>2, <3>3 DEF Unanswered, Writes
    <3>8. redis'[j] = None /\ ~rows'[j[2]].live /\ reads' = reads
      <4>1. RedisKey(t, k) # j /\ Calm(j)
        BY <3>2, EntriesAreKeyed
      <4> QED BY <1>s, <2>2, <3>2, <4>1 DEF Write, Calm
    <3> QED BY <2>1, <3>2, <3>4, <3>5, <3>6, <3>7, <3>8 DEF Calm
  <2>3. ASSUME NEW t \in Types, NEW k \in Keys, WriteError(t, k) \/ Delete(t, k), NEW j \in quiet' PROVE Calm(j)'
    <3>1. /\ j \in quiet /\ UNCHANGED <<rows, keyOf, written, reads>>
          /\ \/ redis' = [redis EXCEPT ![RedisKey(t, k)] = None]
             \/ redis' = [redis EXCEPT ![RedisKey(t, k)] = Orphan] /\ j # RedisKey(t, k)
      BY <2>3 DEF WriteError, Delete
    <3>2. redis'[j] = None
      BY <1>s, <1>2, <3>1 DEF Calm
    <3> QED BY <1>1, <2>1, <3>1, <3>2 DEF Calm
  <2>5. ASSUME NEW k \in Keys, PgDelete(k), NEW j \in quiet' PROVE Calm(j)'
    <3>1. /\ UNCHANGED <<redis, keyOf, written, reads>>
          /\ rows' = [rows EXCEPT ![k].live = FALSE]
          /\ j \in quiet \/ (j \in Entries /\ j[2] = k /\ NothingInFlight(j))
      BY <2>5 DEF PgDelete
    <3>2. CASE j \in quiet
      <4>1. ~rows'[j[2]].live
        BY <1>s, <3>1, <3>2, EntriesAreKeyed DEF Calm
      <4> QED BY <1>1, <2>1, <3>1, <3>2, <4>1 DEF Calm
    <3>3. CASE j \in Entries /\ j[2] = k /\ NothingInFlight(j)
      <4>1. ~rows'[j[2]].live
        BY <1>s, <3>1, <3>3
      <4>2. ASSUME NEW w \in Unanswered PROVE keyOf[w] # j[2]
        <5>1. PICK pos \in [Unanswered -> 1 .. Len(replies)] : Stand(pos)
          BY DEF RepliesStand
        <5>2. pos[w] \in DOMAIN replies
          BY <5>1, LenProperties DEF MemoryTypeOK
        <5>3. Safe[keyOf[w]] # j[2]
          BY <3>3, <5>1, <5>2 DEF NothingInFlight, Stand
        <5> QED BY <3>3, <5>3, EntriesAreKeyed, SafeKeysAreKeys
      <4>3. \A r \in Readers : reads[r].pc = "backfill" => RedisKey(reads[r].type, reads[r].key) # j
        BY <3>3 DEF NothingInFlight
      <4> QED BY <2>1, <3>1, <3>3, <4>1, <4>2, <4>3 DEF Calm, NothingInFlight, Unanswered
    <3> QED BY <3>1, <3>2, <3>3
  <2>6. ASSUME NEW k \in Keys, RowExpires(k) \/ PgDeleteFails(k), NEW j \in quiet' PROVE Calm(j)'
    <3>1. UNCHANGED <<quiet, redis, keyOf, written, reads>> /\ rows' \in {rows, [rows EXCEPT ![k].live = FALSE]}
      BY <2>6 DEF RowExpires, PgDeleteFails
    <3>2. ~rows'[j[2]].live
      BY <1>s, <2>6, <3>1, EntriesAreKeyed DEF Calm
    <3> QED BY <1>1, <2>1, <2>6, <3>1, <3>2 DEF Calm
  <2>7. ASSUME NEW r \in Readers, NEW t \in Types, NEW k \in Keys, ReadMiss(r, t, k), NEW j \in quiet'
        PROVE Calm(j)'
    <3>1. /\ UNCHANGED <<quiet, redis, rows, keyOf, written>>
          /\ reads' = [reads EXCEPT ![r] = [pc |-> "get", type |-> t, key |-> k, val |-> None]]
      BY <2>7 DEF ReadMiss
    <3>2. \A q \in Readers : reads'[q].pc = "backfill" => reads'[q] = reads[q]
      BY <1>r, <3>1
    <3> QED BY <1>1, <2>1, <2>7, <3>1, <3>2 DEF Calm
  <2>8. ASSUME NEW r \in Readers, ReadRow(r), NEW j \in quiet' PROVE Calm(j)'
    <3>1. UNCHANGED <<quiet, redis, rows, keyOf, written>>
      BY <2>8 DEF ReadRow
    <3>2. \A q \in Readers \ {r} : reads'[q] = reads[q]
      BY <1>r, <2>8 DEF ReadRow
    <3>3. ASSUME reads'[r].pc = "backfill" PROVE RedisKey(reads'[r].type, reads'[r].key) # j
      <4>1. /\ rows[reads[r].key].live /\ reads[r].type \in Types /\ reads[r].key \in Keys
            /\ reads'[r].type = reads[r].type /\ reads'[r].key = reads[r].key
        <5>1. rows[reads[r].key].live
          BY <1>r, <2>8, <3>3, IdleType DEF ReadRow
        <5>2. reads'[r] = [reads[r] EXCEPT !.pc = "backfill", !.val = rows[reads[r].key].val]
          BY <1>r, <2>8, <5>1 DEF ReadRow
        <5> QED BY <1>r, <5>1, <5>2 DEF ReadCall
      <4>2. RedisKey(reads[r].type, reads[r].key)[2] = reads[r].key
        BY <4>1, EntriesAreKeyed DEF RowsSafe
      <4> QED BY <2>8, <3>1, <4>1, <4>2 DEF Calm
    <3> QED BY <1>1, <2>1, <2>8, <3>1, <3>2, <3>3 DEF Calm
  <2>9. ASSUME NEW r \in Readers, ReadBackfill(r), NEW j \in quiet' PROVE Calm(j)'
    <3>1. /\ UNCHANGED <<quiet, rows, keyOf, written>> /\ reads' = [reads EXCEPT ![r] = Idle]
          /\ redis' = [redis EXCEPT ![RedisKey(reads[r].type, reads[r].key)] = reads[r].val]
          /\ RedisKey(reads[r].type, reads[r].key) # j
      BY <2>9 DEF ReadBackfill, Calm
    <3>2. \A q \in Readers : reads'[q].pc = "backfill" => reads'[q] = reads[q]
      BY <1>r, <3>1, IdleType
    <3>3. redis'[j] = None
      BY <1>s, <2>9, <3>1 DEF Calm
    <3> QED BY <1>1, <2>1, <2>9, <3>1, <3>2, <3>3 DEF Calm
  <2>10. ASSUME NEW r \in Readers, ReadFails(r), NEW j \in quiet' PROVE Calm(j)'
    <3>1. UNCHANGED <<quiet, redis, rows, keyOf, written>> /\ reads' = [reads EXCEPT ![r] = Idle]
      BY <2>10 DEF ReadFails
    <3>2. \A q \in Readers : reads'[q].pc = "backfill" => reads'[q] = reads[q]
      BY <1>r, <3>1, IdleType
    <3> QED BY <1>1, <2>1, <2>10, <3>1, <3>2 DEF Calm
  <2>11. ASSUME NEW e \in Entries, RedisExpire(e), NEW j \in quiet' PROVE Calm(j)'
    <3>1. UNCHANGED <<quiet, rows, keyOf, written, reads>> /\ redis' = [redis EXCEPT ![e] = None]
      BY <2>11 DEF RedisExpire
    <3>2. redis'[j] = None
      BY <1>s, <2>11, <3>1 DEF Calm
    <3> QED BY <1>1, <2>1, <2>11, <3>1, <3>2 DEF Calm
  <2>12. ASSUME clearExpired \/ DeleteReply, NEW j \in quiet' PROVE Calm(j)'
    <3>1. UNCHANGED <<quiet, redis, keyOf, written, reads>>
      BY <2>12 DEF clearExpired, DeleteReply
    <3>2. ~rows'[j[2]].live
      BY <1>s, <2>12, <3>1, EntriesAreKeyed DEF clearExpired, DeleteReply, Calm, NoRow
    <3> QED BY <1>1, <2>1, <2>12, <3>1, <3>2 DEF Calm
  <2> QED BY <1>2, <2>2, <2>3, <2>5, <2>6, <2>7, <2>8, <2>9, <2>10, <2>11, <2>12
          DEF Handlers, ReadStep
<1>3. ASSUME WriteReply, NEW e \in quiet' PROVE Calm(e)'
  <2>1. /\ UNCHANGED <<redis, rows, keyOf, written, reads, quiet>> /\ Enqueue
        /\ replies # <<>> /\ Head(replies).call = "write"
    BY <1>3 DEF WriteReply
  <2>2. /\ Elements(queue') \cup {op'} \subseteq Elements(queue) \cup {op, accepted + 1}
        /\ accepted' = accepted + 1
    BY <2>1, EnqueueHolds
  <2>3. accepted + 1 \in Unanswered
    <3>1. accepted' <= written
      BY <1>3, <2>1, <2>2, ReplyTaken DEF WriteReply, RepliesStand
    <3> QED BY <2>2, <3>1 DEF Unanswered, MemoryTypeOK, TypeOK
  <2>4. Unanswered' \subseteq Unanswered
    BY <2>1, <2>2 DEF Unanswered, MemoryTypeOK, TypeOK
  <2> QED BY <1>3, <2>1, <2>2, <2>3, <2>4 DEF Calm
<1>4. ASSUME FlushStep, NEW e \in quiet' PROVE Calm(e)'
  <2>1. /\ Elements(queue') \cup {op'} \subseteq Elements(queue) \cup {op, NoOp}
        /\ op \in Writes /\ UNCHANGED accepted
    BY <1>4, FlushHolds DEF FlushStep
  <2>2. UNCHANGED <<redis, keyOf, written, reads, quiet>>
    BY <1>4 DEF FlushStep
  <2>3. op # NoOp /\ keyOf[op] # e[2]
    BY <1>4, <2>1, <2>2 DEF Calm, Writes, NoOp
  <2>4. rows'[e[2]].live = rows[e[2]].live
    <3>1. e[2] \in Keys /\ (rows' = rows \/ rows' = [rows EXCEPT ![keyOf[op]] = [val |-> op, live |-> TRUE]])
      BY <1>4, <1>s, <2>2, EntriesAreKeyed DEF FlushStep, Upsert
    <3> QED BY <1>s, <2>3, <3>1
  <2> QED BY <1>4, <2>1, <2>2, <2>4 DEF Calm, Unanswered
<1>5. ASSUME Stop, NEW e \in quiet' PROVE Calm(e)'
  BY <1>5, StopKeeps DEF Stop, planeVars, Calm, Unanswered
<1> QED BY <1>2, <1>3, <1>4, <1>5, MemoryCases

(* The inductive invariant. *)
LEMMA MemoryInvariant == SpecMemory => []MemoryInv
<1>1. InitMemory => MemoryInv
  <2> SUFFICES ASSUME InitMemory PROVE MemoryInv
    OBVIOUS
  <2> USE WritesAssumption, SizeAssumption, MaxAttemptsAssumption, DeletesAssumption
  <2>1. queue = <<>> /\ replies = <<>> /\ db = <<>> /\ Len(queue) = 0 /\ Len(replies) = 0 /\ Len(db) = 0
    BY DEF InitMemory, InitQueue
  <2>2. TypeOK
    BY <2>1 DEF InitMemory, InitQueue, TypeOK, Alive
  <2>3. QueueInv
    BY <2>1, <2>2 DEF InitMemory, InitQueue, QueueInv, Consecutive, HeadHeld, Behind, Low,
                      KeptOrReported, AppliedInOrder, Writes
  <2>4. MemoryTypeOK
    <3>1. (CHOOSE k \in SafeKeys : TRUE) \in SafeKeys
      BY KeysAssumption, SafeKeysAreKeys
    <3>2. reads \in [Readers -> ReadCall]
      BY IdleType DEF InitMemory
    <3>3. rows \in [Keys -> [val : Writes \cup {None}, live : BOOLEAN]]
      BY DEF InitMemory, NoRow
    <3>4. written \in accepted .. NumWrites /\ deletes \in 0 .. MaxDeletes
      BY DEF InitMemory, InitQueue
    <3>5. /\ redis \in [Entries -> Writes \cup {None, Orphan}]
          /\ truth \in [SafeKeys -> Writes \cup {None, Orphan}]
          /\ keyOf \in [Writes -> SafeKeys]
      BY <3>1 DEF InitMemory
    <3> QED BY <2>1, <2>2, <3>2, <3>3, <3>4, <3>5 DEF InitMemory, MemoryTypeOK, ReadCall
  <2>5. RepliesStand
    <3>1. Unanswered = {} /\ accepted = written
      BY DEF InitMemory, InitQueue, Unanswered
    <3>2. [w \in {} |-> 0] \in [Unanswered -> 1 .. Len(replies)] /\ Stand([w \in {} |-> 0])
      BY <2>1, <3>1 DEF Stand
    <3>3. accepted <= written
      BY DEF InitMemory, InitQueue
    <3> QED BY <3>2, <3>3 DEF RepliesStand
  <2> QED BY <2>3, <2>4, <2>5 DEF InitMemory, MemoryInv, RowsSafe, NoRow
<1>2. MemoryInv /\ [NextMemory]_allVars => MemoryInv'
  <2>1. MemoryInv /\ NextMemory => MemoryInv'
    BY QueueStep, MemoryTypeStep, RepliesStep, RowsStep, CalmStep DEF MemoryInv
  <2>2. MemoryInv /\ UNCHANGED allVars => MemoryInv'
    <3> SUFFICES ASSUME MemoryInv, UNCHANGED allVars PROVE MemoryInv'
      OBVIOUS
    <3>1. UNCHANGED queueVars /\ UNCHANGED planeVars
      BY DEF allVars
    <3>2. QueueInv'
      BY <3>1 DEF queueVars, history, MemoryInv, QueueInv, TypeOK, Consecutive, HeadHeld, Behind, Low,
                  KeptOrReported, AppliedInOrder
    <3>3. MemoryTypeOK'
      BY <3>1, <3>2 DEF queueVars, history, planeVars, MemoryInv, QueueInv, MemoryTypeOK
    <3>4. RepliesStand' /\ RowsSafe'
      BY <3>1 DEF queueVars, history, planeVars, MemoryInv, RepliesStand, Unanswered, Stand, RowsSafe
    <3>5. (\A e \in quiet : Calm(e))'
      BY <3>1 DEF queueVars, history, planeVars, MemoryInv, Calm, Unanswered
    <3> QED BY <3>2, <3>3, <3>4, <3>5 DEF MemoryInv
  <2> QED BY <2>1, <2>2
<1> QED BY <1>1, <1>2, PTL DEF SpecMemory

(* The type invariant of the memory plane and its queue. *)
THEOREM MemoryTypeCorrect == SpecMemory => []MemoryTypeOK
BY MemoryInvariant, PTL DEF MemoryInv

(* PostgreSQL executes the writes in their order, and as long as the queue has not overflowed *)
(* none is lost unreported, for every capacity of the queue, number of attempts and of writes *)
(* (write-queue.ts).                                                                           *)
THEOREM QueueIsFaithful == SpecMemory => []QueueFaithful
<1>1. MemoryInv => QueueFaithful
  <2> SUFFICES ASSUME MemoryInv, dropped = {}, NEW w \in 1 .. accepted
               PROVE w \in Pending \cup Elements(db) \cup dropped \cup failed
    BY DEF QueueFaithful, NoSilentLossBelowBound, SilentlyLost, MemoryInv, QueueInv
  <2>1. queue \in Seq(Writes) /\ Len(queue) \in Nat /\ accepted \in Nat
    BY DEF MemoryInv, QueueInv, TypeOK
  <2>2. CASE w \in 1 .. (accepted - Len(queue))
    BY <2>2 DEF MemoryInv, QueueInv, KeptOrReported
  <2>3. CASE w \notin 1 .. (accepted - Len(queue))
    <3>1. w - (accepted - Len(queue)) \in 1 .. Len(queue)
      BY <2>1, <2>3 DEF MemoryInv, QueueInv, Consecutive
    <3>2. queue[w - (accepted - Len(queue))] = w
      BY <2>1, <3>1 DEF MemoryInv, QueueInv, Consecutive
    <3>3. w \in Elements(queue)
      BY <3>1, <3>2 DEF Elements
    <3>4. process # "exited"
      BY <2>1, <3>1 DEF MemoryInv, QueueInv, KeptOrReported, HeadHeld
    <3> QED BY <3>3, <3>4 DEF Pending
  <2> QED BY <2>2, <2>3
<1> QED BY <1>1, MemoryInvariant, PTL

(* An entry that Redis no longer holds when a deletion of its key, under any type, reaches      *)
(* PostgreSQL with nothing under way stays deleted until the key is written again: no queued     *)
(* write, no reply, no backfill and nothing cached under another type brings it back, for every *)
(* set of types, keys and readers and however sanitizeKeyComponent maps the keys                 *)
(* (memory-plane/src/index.ts).                                                                   *)
THEOREM DeletionIsFinal == SpecMemory => []DeletedStaysDeleted
<1>1. MemoryInv => DeletedStaysDeleted
  <2> SUFFICES ASSUME MemoryInv, NEW e \in quiet
               PROVE redis[e] = None /\ ~rows[e[2]].live /\ e[2] \notin ListEntries(e[1])
    BY DEF DeletedStaysDeleted, MemoryInv
  <2>1. e \in Entries /\ Calm(e)
    BY DEF MemoryInv, MemoryTypeOK
  <2>2. e = <<e[1], e[2]>> /\ e[2] \in SafeKeys
    BY <2>1 DEF Entries
  <2> QED BY <2>1, <2>2 DEF Calm, ListEntries
<1> QED BY <1>1, MemoryInvariant, PTL

-----------------------------------------------------------------------------
(* The path of a tool call. *)

Breakers == [state : {"CLOSED", "OPEN", "HALF_OPEN"},
             failures : 0 .. failureThreshold, since : 0 .. recoveryTime]
Entry == [key : Inputs, allow : BOOLEAN, age : 0 .. Never]
Evals == [pc : {"idle", "asking", "allowed", "denied"}, req : Requests]

(* An allowance in the cache is no younger than OPA's last word on its input, an allowance. *)
Backed == \A i \in DOMAIN cache : cache[i].allow => opaSaid[cache[i].key] <= cache[i].age

Cached ==
  /\ cache \in Seq(Entry) /\ Len(cache) <= maxSize
  /\ \A i, j \in DOMAIN cache : cache[i].key = cache[j].key => i = j
  /\ opaSaid \in [Inputs -> 0 .. Never]
  /\ Backed

(* A call that waits for its next attempt has one left. *)
Attempting == \A c \in ToolCalls : toolCalls[c].pc = "sleeping" => toolCalls[c].attempt < maxRetries

LEMMA NeverType == Never \in Nat /\ ttl \in Nat /\ ~(Never <= ttl)
BY PolicyConstants DEF Never

LEMMA CacheKept ==
  ASSUME Cached, NEW I \in SUBSET (DOMAIN cache), cache' = Keep(cache, I), UNCHANGED opaSaid
  PROVE  Cached'
<1>1. cache \in Seq(Entry) /\ Len(cache) <= maxSize
  BY DEF Cached
<1>2. PICK s : s = cache'
  OBVIOUS
<1>3. /\ s \in Seq(Entry) /\ Len(s) <= Len(cache)
      /\ \E f \in [DOMAIN s -> I] :
           /\ \A n \in DOMAIN s : s[n] = cache[f[n]]
           /\ \A m, n \in DOMAIN s : m < n => f[m] < f[n]
  BY <1>1, <1>2, KeepFacts
<1>4. PICK f \in [DOMAIN s -> I] :
           /\ \A n \in DOMAIN s : s[n] = cache[f[n]]
           /\ \A m, n \in DOMAIN s : m < n => f[m] < f[n]
  BY <1>3
<1>5. Len(s) <= maxSize
  <2>1. Len(s) \in Nat /\ Len(cache) \in Nat /\ maxSize \in Nat
    BY <1>1, <1>3, PolicyConstants
  <2> QED BY <1>1, <1>3, <2>1
<1>6. ASSUME NEW i \in DOMAIN s, NEW j \in DOMAIN s, s[i].key = s[j].key PROVE i = j
  <2>1. f[i] \in DOMAIN cache /\ f[j] \in DOMAIN cache /\ f[i] = f[j]
    BY <1>4, <1>6 DEF Cached
  <2>2. i \in Nat /\ j \in Nat /\ f[i] \in Nat
    <3>1. DOMAIN s = 1 .. Len(s) /\ DOMAIN cache = 1 .. Len(cache)
      BY <1>1, <1>3
    <3> QED BY <2>1, <3>1
  <2>3. ~(i < j) /\ ~(j < i)
    BY <1>4, <2>1, <2>2
  <2> QED BY <2>2, <2>3
<1>7. ASSUME NEW i \in DOMAIN s, s[i].allow
      PROVE opaSaid[s[i].key] <= s[i].age
  BY <1>4, <1>7 DEF Cached, Backed
<1>8. opaSaid' \in [Inputs -> 0 .. Never]
  BY DEF Cached
<1> QED BY <1>2, <1>3, <1>5, <1>6, <1>7, <1>8 DEF Cached, Backed

LEMMA CacheAged ==
  ASSUME Cached, AgePolicy
  PROVE  Cached'
<1>1. cache \in Seq(Entry) /\ Len(cache) \in Nat /\ DOMAIN cache = 1 .. Len(cache)
  BY DEF Cached
<1>2. ASSUME NEW a \in 0 .. Never PROVE Lower(a + 1, Never) \in 0 .. Never
  BY <1>2, NeverType DEF Lower
<1>3. cache' = [i \in 1 .. Len(cache) |-> [cache[i] EXCEPT !.age = Lower(cache[i].age + 1, Never)]]
  BY <1>1 DEF AgePolicy
<1>4. ASSUME NEW i \in 1 .. Len(cache)
      PROVE /\ cache'[i] \in Entry /\ cache'[i].age = Lower(cache[i].age + 1, Never)
            /\ cache'[i].key = cache[i].key /\ cache'[i].allow = cache[i].allow
  <2>1. cache[i] \in Entry
    BY <1>1
  <2>2. PICK e \in Entry : e = cache[i]
    BY <2>1
  <2>3. PICK a \in 0 .. Never : a = Lower(e.age + 1, Never)
    BY <1>2 DEF Entry
  <2>4. cache'[i] = [e EXCEPT !.age = a]
    BY <1>3, <2>2, <2>3
  <2> QED BY <2>2, <2>3, <2>4 DEF Entry
<1>5. cache' \in Seq(Entry) /\ Len(cache') = Len(cache) /\ DOMAIN cache' = 1 .. Len(cache)
  <2>1. PICK s, n : n \in Nat /\ n = Len(cache) /\ s = cache'
    BY <1>1
  <2>n. n \in Nat
    BY <2>1
  <2>2. DOMAIN s = 1 .. n /\ s = [i \in 1 .. n |-> s[i]]
    BY <1>3, <2>1
  <2>3. \A i \in 1 .. n : s[i] \in Entry
    BY <1>4, <2>1
  <2>4. s \in Seq(Entry) /\ Len(s) = n
    BY <2>n, <2>2, <2>3
  <2> QED BY <2>1, <2>2, <2>4
<1>6. opaSaid' = [k \in Inputs |-> Lower(opaSaid[k] + 1, Never)]
  BY DEF AgePolicy
<1>7. opaSaid' \in [Inputs -> 0 .. Never]
  BY <1>2, <1>6 DEF Cached
<1>8. ASSUME NEW i \in DOMAIN cache', cache'[i].allow
      PROVE opaSaid'[cache'[i].key] <= cache'[i].age
  <2>1. cache[i] \in Entry
    BY <1>1, <1>5
  <2>2. PICK k \in Inputs : k = cache[i].key
    BY <2>1 DEF Entry
  <2>3. opaSaid[k] <= cache[i].age
    BY <1>1, <1>4, <1>5, <1>8, <2>2 DEF Cached, Backed
  <2>4. PICK a \in Nat, b \in Nat : a = opaSaid[k] /\ b = cache[i].age
    BY <2>1, NeverType DEF Cached, Entry
  <2>5. Lower(a + 1, Never) <= Lower(b + 1, Never)
    BY <2>3, <2>4, NeverType DEF Lower
  <2> QED BY <1>4, <1>5, <1>6, <2>2, <2>4, <2>5
<1>9. \A i, j \in DOMAIN cache' : cache'[i].key = cache'[j].key => i = j
  BY <1>1, <1>4, <1>5 DEF Cached
<1> QED BY <1>5, <1>7, <1>8, <1>9 DEF Cached, Backed

(* An answer of OPA is stored at the place of its key, or last. *)
LEMMA CacheStores ==
  ASSUME Cached, NEW r \in Requests, NEW allow \in BOOLEAN,
         cache' = CacheSet(CacheKey(r), allow),
         opaSaid' = [opaSaid EXCEPT ![CacheKey(r)] = IF allow THEN 0 ELSE Never]
  PROVE  Cached'
<1>1. PICK entry : entry = [key |-> CacheKey(r), allow |-> allow, age |-> 0]
  OBVIOUS
<1>2. entry \in Entry /\ entry.key = CacheKey(r) /\ entry.allow = allow /\ entry.age = 0
  <2>1. CacheKey(r) \in Inputs /\ 0 \in 0 .. Never
    BY NeverType DEF CacheKey, Inputs
  <2> QED BY <1>1, <2>1 DEF Entry
<1>3. PICK room : room = IF Len(cache) >= maxSize THEN Tail(cache) ELSE cache
  OBVIOUS
<1>4. cache \in Seq(Entry) /\ Len(cache) \in Nat /\ DOMAIN cache = 1 .. Len(cache)
      /\ Len(cache) <= maxSize /\ maxSize \in Nat \ {0}
  BY PolicyConstants DEF Cached
<1>5. /\ room \in Seq(Entry) /\ Len(room) < maxSize
      /\ \E d \in {0, 1} : \A i \in 1 .. Len(room) : i + d \in 1 .. Len(cache) /\ room[i] = cache[i + d]
  <2>1. CASE Len(cache) >= maxSize
    <3>1. cache # <<>>
      BY <1>4, <2>1
    <3>2. room = Tail(cache)
      BY <1>3, <2>1
    <3>3. room \in Seq(Entry) /\ Len(room) = Len(cache) - 1
      BY <1>4, <3>1, <3>2
    <3>4. \A i \in 1 .. Len(room) : i + 1 \in 1 .. Len(cache) /\ room[i] = cache[i + 1]
      BY <1>4, <3>1, <3>2, <3>3
    <3> QED BY <1>4, <3>3, <3>4
  <2>2. CASE ~(Len(cache) >= maxSize)
    <3>1. room = cache
      BY <1>3, <2>2
    <3>2. \A i \in 1 .. Len(room) : i + 0 \in 1 .. Len(cache) /\ room[i] = cache[i + 0]
      BY <1>4, <3>1
    <3> QED BY <1>4, <2>2, <3>1, <3>2
  <2> QED BY <2>1, <2>2
<1>6. PICK d \in {0, 1} : \A i \in 1 .. Len(room) : i + d \in 1 .. Len(cache) /\ room[i] = cache[i + d]
  BY <1>5
<1>7. Len(room) \in Nat /\ DOMAIN room = 1 .. Len(room)
  BY <1>5
<1>8. \A i, j \in 1 .. Len(room) : room[i].key = room[j].key => i = j
  <2> SUFFICES ASSUME NEW i \in 1 .. Len(room), NEW j \in 1 .. Len(room), room[i].key = room[j].key
               PROVE i = j
    OBVIOUS
  <2>1. PICK a \in DOMAIN cache, b \in DOMAIN cache :
          a = i + d /\ b = j + d /\ room[i] = cache[a] /\ room[j] = cache[b]
    BY <1>4, <1>6
  <2>2. a = b
    BY <2>1 DEF Cached
  <2> QED BY <1>7, <2>1, <2>2
<1>9. \A i \in 1 .. Len(room) : room[i].allow => opaSaid[room[i].key] <= room[i].age
  BY <1>4, <1>6 DEF Cached, Backed
<1>10. PICK same : same = IndexOf(CacheKey(r), room)
  OBVIOUS
<1>11. same = {i \in 1 .. Len(room) : room[i].key = CacheKey(r)}
  BY <1>7, <1>10 DEF IndexOf
<1>12. cache' = IF same = {} THEN Append(room, entry)
                ELSE [room EXCEPT ![CHOOSE i \in same : TRUE] = entry]
  BY <1>1, <1>3, <1>10 DEF CacheSet
<1>13. /\ cache' \in Seq(Entry) /\ Len(cache') <= maxSize
       /\ \E p \in 1 .. Len(cache') :
            /\ cache'[p] = entry
            /\ \A i \in 1 .. Len(cache') : i # p =>
                 i \in 1 .. Len(room) /\ cache'[i] = room[i] /\ room[i].key # CacheKey(r)
  <2>1. CASE same = {}
    <3>1. cache' = Append(room, entry)
      BY <1>12, <2>1
    <3>2. cache' \in Seq(Entry) /\ Len(cache') = Len(room) + 1
      BY <1>2, <1>5, <3>1
    <3>3. /\ cache'[Len(room) + 1] = entry
          /\ \A i \in 1 .. Len(room) : cache'[i] = room[i]
      BY <1>5, <1>7, <3>1
    <3>4. \A i \in 1 .. Len(room) : room[i].key # CacheKey(r)
      BY <1>11, <2>1
    <3>5. \A i \in 1 .. Len(cache') : i # Len(room) + 1 => i \in 1 .. Len(room)
      BY <1>7, <3>2
    <3>6. Len(room) + 1 \in 1 .. Len(cache') /\ Len(cache') <= maxSize
      BY <1>4, <1>5, <1>7, <3>2
    <3> QED BY <3>2, <3>3, <3>4, <3>5, <3>6
  <2>2. CASE same # {}
    <3>1. PICK p \in same : p = CHOOSE i \in same : TRUE
      BY <2>2
    <3>2. p \in 1 .. Len(room) /\ room[p].key = CacheKey(r)
      BY <1>11, <3>1
    <3>3. cache' = [room EXCEPT ![p] = entry]
      BY <1>12, <2>2, <3>1
    <3>4. cache' \in Seq(Entry) /\ Len(cache') = Len(room)
      BY <1>2, <1>5, <1>7, <3>2, <3>3
    <3>5. cache'[p] = entry /\ \A i \in 1 .. Len(room) : i # p => cache'[i] = room[i]
      BY <1>7, <3>2, <3>3
    <3>6. \A i \in 1 .. Len(room) : i # p => room[i].key # CacheKey(r)
      BY <1>8, <3>2
    <3>7. Len(cache') <= maxSize
      BY <1>4, <1>5, <1>7, <3>4
    <3> QED BY <3>2, <3>4, <3>5, <3>6, <3>7
  <2> QED BY <2>1, <2>2
<1>14. PICK p \in 1 .. Len(cache') :
         /\ cache'[p] = entry
         /\ \A i \in 1 .. Len(cache') : i # p =>
              i \in 1 .. Len(room) /\ cache'[i] = room[i] /\ room[i].key # CacheKey(r)
  BY <1>13
<1>15. DOMAIN cache' = 1 .. Len(cache')
  BY <1>13
<1>16. /\ opaSaid' \in [Inputs -> 0 .. Never]
       /\ \A k \in Inputs : opaSaid'[k] = IF k # CacheKey(r) THEN opaSaid[k] ELSE IF allow THEN 0 ELSE Never
  <2>1. PICK v \in 0 .. Never : v = IF allow THEN 0 ELSE Never
    BY NeverType
  <2>2. opaSaid' = [opaSaid EXCEPT ![CacheKey(r)] = v]
    BY <2>1
  <2> QED BY <2>1, <2>2 DEF Cached
<1>17. \A i, j \in DOMAIN cache' : cache'[i].key = cache'[j].key => i = j
  BY <1>2, <1>8, <1>14, <1>15
<1>18. ASSUME NEW i \in DOMAIN cache', cache'[i].allow
       PROVE opaSaid'[cache'[i].key] <= cache'[i].age
  <2>1. CASE i = p
    <3>1. PICK k \in Inputs : k = CacheKey(r)
      BY <1>2 DEF Entry
    <3>2. allow /\ cache'[i].key = k /\ cache'[i].age = 0
      BY <1>2, <1>14, <1>18, <2>1, <3>1
    <3>3. opaSaid'[k] = 0
      BY <1>16, <3>1, <3>2
    <3>4. PICK o, a : o = opaSaid'[cache'[i].key] /\ a = cache'[i].age
      OBVIOUS
    <3>5. o = 0 /\ a = 0 /\ o <= a
      BY <3>2, <3>3, <3>4
    <3> QED BY <3>4, <3>5
  <2>2. CASE i # p
    <3>1. i \in 1 .. Len(room) /\ cache'[i] = room[i] /\ room[i].key # CacheKey(r)
      BY <1>14, <1>15, <2>2
    <3>e. room[i] \in Entry
      BY <1>5, <1>7, <3>1
    <3>2. PICK k \in Inputs : k = room[i].key
      BY <3>e DEF Entry
    <3>3. opaSaid'[k] = opaSaid[k]
      BY <1>16, <3>1, <3>2
    <3> QED BY <1>9, <1>18, <3>1, <3>2, <3>3
  <2> QED BY <2>1, <2>2
<1> QED BY <1>13, <1>16, <1>17, <1>18 DEF Cached, Backed

(* Nobody is answered "allow" but by a decision that is recent. *)
AnswersRecent ==
  \A c \in Callers :
    evals'[c].pc = "allowed" /\ evals[c].pc # "allowed" => opaSaid'[CacheKey(evals'[c].req)] <= ttl

LEMMA CallerTurns ==
  ASSUME evals \in [Callers -> Evals], NEW c \in Callers, NEW e \in Evals,
         evals' = [evals EXCEPT ![c] = e], e.pc = "allowed" => opaSaid'[CacheKey(e.req)] <= ttl
  PROVE  evals' \in [Callers -> Evals] /\ AnswersRecent
BY DEF AnswersRecent

LEMMA CallerAnswered ==
  ASSUME evals \in [Callers -> Evals], NEW c \in Callers, NEW p \in {"denied", "allowed"},
         evals' = [evals EXCEPT ![c].pc = p], p = "allowed" => opaSaid'[CacheKey(evals[c].req)] <= ttl
  PROVE  evals' \in [Callers -> Evals] /\ AnswersRecent
<1>1. PICK e \in Evals : e = [evals[c] EXCEPT !.pc = p]
  BY DEF Evals
<1>2. e.pc = p /\ e.req = evals[c].req /\ evals' = [evals EXCEPT ![c] = e]
  BY <1>1 DEF Evals
<1> QED BY <1>1, <1>2, CallerTurns

LEMMA BreakerTurns ==
  ASSUME breaker \in Breakers
  PROVE  /\ Probing \in Breakers
         /\ RecordFailure \/ RecordSuccess => breaker' \in Breakers
<1>1. failureThreshold \in Nat \ {0} /\ recoveryTime \in Nat
  BY PolicyConstants
<1>2. Probing \in Breakers
  <2>1. PICK s \in {"CLOSED", "OPEN", "HALF_OPEN"} :
          s = IF breaker.state = "OPEN" THEN "HALF_OPEN" ELSE breaker.state
    BY DEF Breakers
  <2>2. Probing = [breaker EXCEPT !.state = s]
    BY <2>1 DEF Probing
  <2> QED BY <2>2 DEF Breakers
<1>3. ASSUME RecordFailure PROVE breaker' \in Breakers
  <2>1. PICK n \in 0 .. failureThreshold : n = Lower(breaker.failures + 1, failureThreshold)
    BY <1>1 DEF Lower, Breakers
  <2>2. PICK s \in {"CLOSED", "OPEN", "HALF_OPEN"} :
          s = IF n >= failureThreshold THEN "OPEN" ELSE breaker.state
    BY DEF Breakers
  <2>3. breaker' = [state |-> s, failures |-> n, since |-> 0]
    BY <1>3, <2>1, <2>2 DEF RecordFailure
  <2> QED BY <1>1, <2>3 DEF Breakers
<1>4. ASSUME RecordSuccess PROVE breaker' \in Breakers
  <2>1. breaker' = [breaker EXCEPT !.state = "CLOSED", !.failures = 0]
    BY <1>4 DEF RecordSuccess
  <2>2. PICK z \in 0 .. failureThreshold : z = 0
    BY <1>1
  <2>3. breaker' = [breaker EXCEPT !.state = "CLOSED", !.failures = z]
    BY <2>1, <2>2
  <2> QED BY <2>3 DEF Breakers
<1> QED BY <1>2, <1>3, <1>4

PolicyInv == breaker \in Breakers /\ evals \in [Callers -> Evals] /\ Cached

LEMMA PolicyStep ==
  ASSUME PolicyInv, NEW c \in Callers,
         (\E q \in Requests : Evaluate(c, q)) \/ RejectRequest(c) \/ OpaStep(c)
  PROVE  PolicyInv' /\ AnswersRecent
<1>0. breaker \in Breakers /\ evals \in [Callers -> Evals] /\ Cached
  BY DEF PolicyInv
<1>k. UNCHANGED <<cache, opaSaid>> => Cached'
  BY <1>0 DEF Cached, Backed
<1>1. ASSUME NEW q \in Requests, Shed(c, q) PROVE PolicyInv' /\ AnswersRecent
  <2>1. PICK e \in Evals : e = [pc |-> "denied", req |-> q]
    BY DEF Evals
  <2>2. evals' = [evals EXCEPT ![c] = e] /\ e.pc # "allowed"
    BY <1>1, <2>1 DEF Shed
  <2>3. evals' \in [Callers -> Evals] /\ AnswersRecent
    BY <1>0, <2>2, CallerTurns
  <2> QED BY <1>0, <1>1, <1>k, <2>3 DEF Shed, PolicyInv
<1>2. ASSUME NEW q \in Requests, FromCache(c, q) PROVE PolicyInv' /\ AnswersRecent
  <2>1. breaker' = Probing /\ UNCHANGED <<cache, opaSaid>>
    BY <1>2 DEF FromCache
  <2>2. PICK h \in Hits(CacheKey(q)) : evals' = [evals EXCEPT ![c] = [pc |-> Verdict(h.allow), req |-> q]]
    BY <1>2 DEF FromCache
  <2>3. PICK i \in DOMAIN cache : h = cache[i] /\ cache[i].key = CacheKey(q) /\ h.age <= ttl
    BY <2>2 DEF Hits, IndexOf, Fresh
  <2>4. h \in Entry
    BY <1>0, <2>3 DEF Cached
  <2>5. h.allow => opaSaid[CacheKey(q)] <= h.age
    BY <1>0, <2>3 DEF Cached, Backed
  <2>6. h.allow => opaSaid[CacheKey(q)] <= ttl
    <3>1. opaSaid[CacheKey(q)] \in Nat /\ h.age \in Nat
      BY <1>0, <2>4, NeverType DEF Cached, Entry, CacheKey, Inputs
    <3> QED BY <2>3, <2>5, <3>1, NeverType
  <2>v. PICK v \in {"allowed", "denied"} : v = Verdict(h.allow)
    BY DEF Verdict
  <2>7. PICK e \in Evals : e = [pc |-> Verdict(h.allow), req |-> q]
    BY <2>v DEF Evals
  <2>8. e.pc = "allowed" => opaSaid'[CacheKey(e.req)] <= ttl
    BY <2>1, <2>6, <2>7 DEF Verdict
  <2>9. evals' \in [Callers -> Evals] /\ AnswersRecent
    BY <1>0, <2>2, <2>7, <2>8, CallerTurns
  <2> QED BY <1>0, <1>k, <2>1, <2>9, BreakerTurns DEF PolicyInv
<1>3. ASSUME NEW q \in Requests, AskOpa(c, q) PROVE PolicyInv' /\ AnswersRecent
  <2>1. PICK e \in Evals : e = [pc |-> "asking", req |-> q]
    BY DEF Evals
  <2>2. evals' \in [Callers -> Evals] /\ AnswersRecent
    BY <1>0, <1>3, <2>1, CallerTurns DEF AskOpa
  <2>3. Cached'
    BY <1>0, <1>3, CacheKept DEF AskOpa, Without
  <2> QED BY <1>0, <1>3, <2>2, <2>3, BreakerTurns DEF AskOpa, PolicyInv
<1>4. ASSUME RejectRequest(c) PROVE PolicyInv' /\ AnswersRecent
  BY <1>0, <1>4, <1>k, CallerAnswered DEF RejectRequest, PolicyInv
<1>5. ASSUME OpaAnswers(c) PROVE PolicyInv' /\ AnswersRecent
  <2>1. PICK allow \in BOOLEAN :
          /\ cache' = CacheSet(CacheKey(evals[c].req), allow)
          /\ evals' = [evals EXCEPT ![c].pc = Verdict(allow)]
          /\ opaSaid' = [opaSaid EXCEPT ![CacheKey(evals[c].req)] = IF allow THEN 0 ELSE Never]
    BY <1>5 DEF OpaAnswers
  <2>2. PICK r \in Requests : r = evals[c].req
    BY <1>0 DEF Evals
  <2>3. Cached'
    BY <1>0, <2>1, <2>2, CacheStores
  <2>4. PICK p \in {"denied", "allowed"} : p = Verdict(allow)
    BY DEF Verdict
  <2>5. p = "allowed" => opaSaid'[CacheKey(r)] <= ttl
    BY <1>0, <2>1, <2>2, <2>4, NeverType DEF Verdict, Cached, CacheKey, Inputs
  <2>6. evals' \in [Callers -> Evals] /\ AnswersRecent
    BY <1>0, <2>1, <2>2, <2>4, <2>5, CallerAnswered
  <2>7. breaker' \in Breakers
    BY <1>0, <1>5, BreakerTurns DEF OpaAnswers
  <2> QED BY <2>3, <2>6, <2>7 DEF PolicyInv
<1>6. ASSUME OpaFails(c) PROVE PolicyInv' /\ AnswersRecent
  <2>1. evals' \in [Callers -> Evals] /\ AnswersRecent
    BY <1>0, <1>6, CallerAnswered DEF OpaFails
  <2> QED BY <1>0, <1>6, <1>k, <2>1, BreakerTurns DEF OpaFails, PolicyInv
<1> QED BY <1>1, <1>2, <1>3, <1>4, <1>5, <1>6 DEF Evaluate, OpaStep

LEMMA PolicyAges ==
  ASSUME PolicyInv, AgePolicy
  PROVE  PolicyInv' /\ AnswersRecent
<1>1. PICK n \in 0 .. recoveryTime : n = Lower(breaker.since + 1, recoveryTime)
  BY PolicyConstants DEF PolicyInv, Breakers, Lower
<1>2. breaker' = [breaker EXCEPT !.since = n]
  BY <1>1 DEF AgePolicy
<1>3. breaker' \in Breakers
  BY <1>2 DEF PolicyInv, Breakers
<1> QED BY <1>3, CacheAged DEF PolicyInv, AgePolicy, AnswersRecent

LEMMA PolicyEvicts ==
  ASSUME PolicyInv, EvictExpired
  PROVE  PolicyInv' /\ AnswersRecent
BY CacheKept DEF PolicyInv, EvictExpired, AnswersRecent

(* The proxy. *)
ToolCall == [pc : {"idle", "fetching", "sleeping"} \cup FinalAnswers,
             attempt : 0 .. maxRetries, timedOut : BOOLEAN]
ToolInv ==
  /\ bucket \in Seq(0 .. rateWindow)
  /\ toolCalls \in [ToolCalls -> ToolCall]
  /\ Attempting

LEMMA ToolTurns ==
  ASSUME ToolInv, NEW c \in ToolCalls, NEW e \in ToolCall, toolCalls' = [toolCalls EXCEPT ![c] = e],
         e.pc = "sleeping" => e.attempt < maxRetries, bucket' \in Seq(0 .. rateWindow)
  PROVE  ToolInv'
BY DEF ToolInv, Attempting

LEMMA ToolAnswers ==
  ASSUME ToolInv, NEW c \in ToolCalls, NEW p \in {"fetching", "sleeping"} \cup FinalAnswers, Answer(c, p),
         p = "sleeping" => toolCalls[c].attempt < maxRetries, bucket' \in Seq(0 .. rateWindow)
  PROVE  ToolInv'
<1>1. PICK t \in ToolCall : t = toolCalls[c]
  BY DEF ToolInv
<1>2. PICK e : e = [t EXCEPT !.pc = p]
  OBVIOUS
<1>3. e \in ToolCall /\ e.pc = p /\ e.attempt = t.attempt
  BY <1>2 DEF ToolCall
<1>4. toolCalls' = [toolCalls EXCEPT ![c] = e]
  BY <1>1, <1>2 DEF Answer
<1> QED BY <1>1, <1>3, <1>4, ToolTurns

LEMMA BucketKeeps ==
  ASSUME ToolInv
  PROVE  /\ Active(bucket) \in Seq(0 .. rateWindow)
         /\ Check => bucket' \in Seq(0 .. rateWindow)
<1>1. Active(bucket) \in Seq(0 .. rateWindow)
  BY KeepFacts DEF Active, ToolInv
<1>2. PICK z \in 0 .. rateWindow : z = 0
  BY ToolConstants
<1>3. Append(Active(bucket), z) \in Seq(0 .. rateWindow)
  BY <1>1
<1> QED BY <1>1, <1>2, <1>3 DEF Check

LEMMA ToolStep ==
  ASSUME ToolInv, NEW c \in ToolCalls,
         CallLimited(c) \/ CallAdmitted(c) \/ FetchStep(c) \/ SignalFires(c) \/ TakeAnswer(c)
  PROVE  ToolInv'
<1>0. bucket \in Seq(0 .. rateWindow)
  BY DEF ToolInv
<1>1. PICK t \in ToolCall : t = toolCalls[c]
  BY DEF ToolInv
<1>2. CASE CallLimited(c)
  BY <1>2, ToolAnswers, BucketKeeps DEF CallLimited, FinalAnswers
<1>3. CASE CallAdmitted(c)
  <2>1. PICK p \in {"fetching", "refused"} : Answer(c, p)
    BY <1>3 DEF CallAdmitted
  <2> QED BY <1>3, <2>1, ToolAnswers, BucketKeeps DEF CallAdmitted, FinalAnswers
<1>4. CASE FetchOk(c)
  BY <1>0, <1>4, ToolAnswers DEF FetchOk, FinalAnswers
<1>5. CASE FetchBad(c)
  BY <1>0, <1>5, ToolAnswers DEF FetchBad, FinalAnswers
<1>6. CASE FetchThrows(c)
  <2>1. PICK p \in {"sleeping", "failed"} : Answer(c, p) /\ (p = "sleeping" => toolCalls[c].attempt < maxRetries)
    BY <1>6 DEF FetchThrows
  <2> QED BY <1>0, <1>6, <2>1, ToolAnswers DEF FetchThrows, FinalAnswers
<1>7. CASE SleepOver(c)
  <2>1. t.attempt < maxRetries
    BY <1>1, <1>7 DEF ToolInv, Attempting, SleepOver
  <2>2. PICK n \in 0 .. maxRetries : n = t.attempt + 1
    BY <2>1, ToolConstants DEF ToolCall
  <2>3. PICK e : e = [t EXCEPT !.pc = "fetching", !.attempt = n]
    OBVIOUS
  <2>4. e \in ToolCall /\ e.pc = "fetching"
    BY <2>3 DEF ToolCall
  <2>5. toolCalls' = [toolCalls EXCEPT ![c] = e]
    BY <1>1, <1>7, <2>2, <2>3 DEF SleepOver, ToolInv, ToolCall
  <2> QED BY <1>0, <1>7, <2>4, <2>5, ToolTurns DEF SleepOver
<1>8. CASE SignalFires(c)
  <2>1. PICK e : e = [t EXCEPT !.timedOut = TRUE]
    OBVIOUS
  <2>2. e \in ToolCall /\ e.pc = t.pc /\ e.attempt = t.attempt
    BY <2>1 DEF ToolCall
  <2>3. toolCalls' = [toolCalls EXCEPT ![c] = e]
    BY <1>1, <1>8, <2>1 DEF SignalFires
  <2>4. e.pc = "sleeping" => e.attempt < maxRetries
    BY <1>1, <2>2 DEF ToolInv, Attempting
  <2> QED BY <1>0, <1>8, <2>2, <2>3, <2>4, ToolTurns DEF SignalFires
<1>9. CASE TakeAnswer(c)
  <2>1. NoToolCall \in ToolCall /\ NoToolCall.pc = "idle"
    BY ToolConstants DEF NoToolCall, ToolCall
  <2> QED BY <1>0, <1>9, <2>1, ToolTurns DEF TakeAnswer
<1> QED BY <1>2, <1>3, <1>4, <1>5, <1>6, <1>7, <1>8, <1>9 DEF FetchStep

LEMMA ToolsQuiet ==
  ASSUME ToolInv, Cleanup \/ AgeTools \/ UNCHANGED toolVars
  PROVE  ToolInv'
<1>1. CASE Cleanup
  BY <1>1, BucketKeeps DEF Cleanup, ToolInv, Attempting
<1>2. CASE AgeTools
  <2>1. PICK s, n : n \in Nat /\ n = Len(bucket) /\ s = bucket'
    BY DEF ToolInv
  <2>n. n \in Nat
    BY <2>1
  <2>2. bucket \in Seq(0 .. rateWindow) /\ DOMAIN bucket = 1 .. n
    BY <2>1 DEF ToolInv
  <2>3. s = [i \in 1 .. n |-> IF bucket[i] < rateWindow THEN bucket[i] + 1 ELSE bucket[i]]
    BY <1>2, <2>1, <2>2 DEF AgeTools
  <2>4. \A i \in 1 .. n : s[i] \in 0 .. rateWindow
    <3>1. \A b \in 0 .. rateWindow : (IF b < rateWindow THEN b + 1 ELSE b) \in 0 .. rateWindow
      BY ToolConstants
    <3>t. PICK T : T = 0 .. rateWindow
      OBVIOUS
    <3>s. bucket \in Seq(T)
      BY <2>2, <3>t
    <3>d. \A i \in DOMAIN bucket : bucket[i] \in T
      BY <3>s
    <3>2. \A i \in DOMAIN bucket : bucket[i] \in 0 .. rateWindow
      BY <3>d, <3>t
    <3> QED BY <2>2, <2>3, <3>1, <3>2
  <2>5. DOMAIN s = 1 .. n /\ s = [i \in 1 .. n |-> s[i]]
    BY <2>3
  <2>t. PICK T : T = 0 .. rateWindow
    OBVIOUS
  <2>6. s \in Seq(0 .. rateWindow)
    <3>1. \A i \in 1 .. n : s[i] \in T
      BY <2>4, <2>t
    <3>2. s \in Seq(T)
      BY <2>n, <2>5, <3>1
    <3> QED BY <2>t, <3>2
  <2> QED BY <1>2, <2>1, <2>6 DEF AgeTools, ToolInv, Attempting
<1>3. CASE UNCHANGED toolVars
  BY <1>3 DEF toolVars, ToolInv, Attempting
<1> QED BY <1>1, <1>2, <1>3

LEMMA PathKeeps ==
  PolicyInv /\ ToolInv /\ [PathNext]_pathVars => PolicyInv' /\ ToolInv' /\ AnswersRecent
<1> SUFFICES ASSUME PolicyInv, ToolInv, [PathNext]_pathVars
             PROVE  PolicyInv' /\ ToolInv' /\ AnswersRecent
  OBVIOUS
<1>p. UNCHANGED policyVars => PolicyInv' /\ AnswersRecent
  BY DEF policyVars, PolicyInv, Cached, Backed, AnswersRecent
<1>1. ASSUME NEW c \in Callers, NEW q \in Requests, Evaluate(c, q), UNCHANGED toolVars
      PROVE PolicyInv' /\ ToolInv' /\ AnswersRecent
  BY <1>1, PolicyStep, ToolsQuiet
<1>2. ASSUME NEW c \in Callers, RejectRequest(c) \/ OpaStep(c), UNCHANGED toolVars
      PROVE PolicyInv' /\ ToolInv' /\ AnswersRecent
  BY <1>2, PolicyStep, ToolsQuiet
<1>3. CASE EvictExpired /\ UNCHANGED toolVars
  BY <1>3, PolicyEvicts, ToolsQuiet
<1>4. ASSUME NEW c \in Callers, CallTool(c) PROVE PolicyInv' /\ ToolInv' /\ AnswersRecent
  BY <1>4, <1>p, ToolStep, CallersCallTools DEF CallTool
<1>5. ASSUME NEW c \in ToolCalls, FetchStep(c) \/ SignalFires(c), UNCHANGED policyVars
      PROVE PolicyInv' /\ ToolInv' /\ AnswersRecent
  BY <1>5, <1>p, ToolStep
<1>6. CASE Cleanup /\ UNCHANGED policyVars
  BY <1>6, <1>p, ToolsQuiet
<1>7. ASSUME NEW c \in Callers, Finish(c) PROVE PolicyInv' /\ ToolInv' /\ AnswersRecent
  <2>1. ToolInv'
    BY <1>7, ToolStep, ToolsQuiet, CallersCallTools DEF Finish
  <2>2. NoEval \in Evals /\ NoEval.pc = "idle"
    BY PolicyConstants DEF NoEval, NoRequest, Evals
  <2>3. evals' \in [Callers -> Evals] /\ AnswersRecent
    BY <1>7, <2>2, CallerTurns DEF Finish, PolicyInv
  <2>4. breaker' \in Breakers /\ Cached'
    BY <1>7 DEF Finish, PolicyInv, Cached, Backed
  <2> QED BY <2>1, <2>3, <2>4 DEF PolicyInv
<1>8. CASE PathTick
  BY <1>8, PolicyAges, ToolsQuiet DEF PathTick
<1>9. CASE UNCHANGED pathVars
  BY <1>9, <1>p, ToolsQuiet DEF pathVars
<1> QED BY <1>1, <1>2, <1>3, <1>4, <1>5, <1>6, <1>7, <1>8, <1>9 DEF PathNext

LEMMA PathStarts == PathInit => PolicyInv /\ ToolInv
<1> SUFFICES ASSUME PathInit PROVE PolicyInv /\ ToolInv
  OBVIOUS
<1>1. breaker \in Breakers
  BY PolicyConstants DEF PathInit, InitPolicy, Breakers
<1>2. evals \in [Callers -> Evals]
  <2>1. NoEval \in Evals
    BY PolicyConstants DEF NoEval, NoRequest, Evals
  <2> QED BY <2>1 DEF PathInit, InitPolicy
<1>3. Cached
  <2>1. cache = <<>> /\ opaSaid = [k \in Inputs |-> Never]
    BY DEF PathInit, InitPolicy
  <2>2. cache \in Seq(Entry) /\ Len(cache) <= maxSize /\ DOMAIN cache = {}
    BY <2>1, PolicyConstants
  <2>3. opaSaid \in [Inputs -> 0 .. Never]
    BY <2>1, NeverType
  <2> QED BY <2>2, <2>3 DEF Cached, Backed
<1>4. ToolInv
  <2>1. bucket \in Seq(0 .. rateWindow)
    BY DEF PathInit, InitTools
  <2>2. NoToolCall \in ToolCall /\ NoToolCall.pc = "idle"
    BY ToolConstants DEF NoToolCall, ToolCall
  <2> QED BY <2>1, <2>2 DEF PathInit, InitTools, ToolInv, Attempting
<1> QED BY <1>1, <1>2, <1>3, <1>4 DEF PolicyInv

LEMMA PathInvariant == PathSpec => [](PolicyInv /\ ToolInv)
<1>1. PathInit => PolicyInv /\ ToolInv
  BY PathStarts
<1>2. PolicyInv /\ ToolInv /\ [PathNext]_pathVars => (PolicyInv /\ ToolInv)'
  BY PathKeeps
<1> QED BY <1>1, <1>2, PTL DEF PathSpec

(* Whatever the policy plane and the proxy do together, their state keeps its type: the *)
(* cache its bound and one entry per key, and a call its number of attempts.            *)
THEOREM PathTypeCorrect == PathSpec => []PathTypeOK
<1>1. PolicyInv /\ ToolInv => PathTypeOK
  BY DEF PolicyInv, ToolInv, PathTypeOK, PolicyTypeOK, ToolTypeOK, Breakers, Evals, Entry, Cached, ToolCall
<1> QED BY <1>1, PathInvariant, PTL

(* An "allow" of evaluatePolicy is OPA's last word on the input, at most a time to live ago, *)
(* whatever other policies are asked about the same input and however calls overlap.        *)
THEOREM AllowanceIsRecent == PathSpec => AllowIsRecent
<1>1. PolicyInv /\ ToolInv /\ [PathNext]_pathVars =>
        [\A c \in Callers : (evals'[c].pc = "allowed" /\ evals[c].pc # "allowed")
             => opaSaid'[CacheKey(evals'[c].req)] <= ttl]_policyVars
  BY PathKeeps DEF AnswersRecent
<1> QED BY <1>1, PathInvariant, PTL DEF PathSpec, AllowIsRecent

-----------------------------------------------------------------------------
(* REST calls. *)

Refusals == {"conflict", "notfound", "denied", "limited"}
CallRecord ==
  [client : {"idle", "waiting", "done"}, who : {"sdk", "console"}, op : Ops, attempt : 0 .. MaxRetries + 1,
   server : {"none", "queued", "handling", "answered"},
   answer : Refusals \cup {"none", "ok", "error", "timeout"}, effects : Nat, errors : Nat]

(* Until it is answered, the attempt under way has had no effect, and what is repeated has *)
(* had none that was not answered 5xx.                                                     *)
AttemptTrue(c) ==
  /\ c.effects <= 1 + c.errors
  /\ c.server # "answered" => c.effects <= c.errors /\ c.answer \in {"none", "timeout"}
  /\ c.answer \in {"error", "limited"} => c.effects <= c.errors
  /\ c.answer = "ok" => c.effects >= 1
  /\ c.errors = 0 /\ c.op.kind \notin Vague /\ c.answer \in Refusals => c.effects = 0

CallsTrue == calls \in [Calls -> CallRecord] /\ \A k \in Calls : AttemptTrue(calls[k])

(* The sweeps of this window's counter so far, at most. *)
Sweeps ==
  IF minute - WindowStart >= CleanupAge
  THEN minute - WindowStart - CleanupAge + (IF due THEN 0 ELSE 1) ELSE 0

(* What was let through in this window is counted there, but for what the sweeps took away. *)
Counting ==
  /\ window \in Nat \ {0} /\ minute \in 0 .. MaxMinute /\ due \in BOOLEAN /\ passed \in Nat
  /\ DOMAIN hits \subseteq Nat /\ \A w \in DOMAIN hits : hits[w] \in Nat
  /\ WindowStart \in Nat /\ WindowStart <= minute
  /\ passed <= RateLimitMax * (1 + Sweeps)
  /\ WindowStart \in DOMAIN hits => passed <= hits[WindowStart] + RateLimitMax * Sweeps
  /\ WindowStart \notin DOMAIN hits => passed <= RateLimitMax * Sweeps

NamespacesTyped == namespaces \in [Slugs -> SUBSET Stamps]

RestInv == CallsTrue /\ Counting /\ NamespacesTyped

LEMMA CallStep ==
  ASSUME CallsTrue, NEW k \in Calls, NEW c \in CallRecord, AttemptTrue(c), calls' = [calls EXCEPT ![k] = c]
  PROVE  CallsTrue'
<1>1. calls' \in [Calls -> CallRecord]
  BY DEF CallsTrue
<1>2. \A j \in Calls : calls'[j] = IF j = k THEN c ELSE calls[j]
  BY DEF CallsTrue
<1>3. \A j \in Calls : AttemptTrue(calls'[j])
  BY <1>2 DEF CallsTrue
<1> QED BY <1>1, <1>3 DEF CallsTrue

LEMMA AnsweredFields ==
  ASSUME NEW c \in CallRecord, NEW a \in Refusals \cup {"ok", "error"}
  PROVE  /\ Answered(c, a) \in CallRecord
         /\ Answered(c, a).server = "answered" /\ Answered(c, a).op = c.op /\ Answered(c, a).effects = c.effects
         /\ Answered(c, a).answer = (IF c.client = "waiting" THEN a ELSE c.answer)
         /\ Answered(c, a).errors = (IF a = "error" THEN c.errors + 1 ELSE c.errors)
<1>1. PICK b, e : b = (IF c.client = "waiting" THEN a ELSE c.answer) /\ e = (IF a = "error" THEN c.errors + 1 ELSE c.errors)
  OBVIOUS
<1>2. Answered(c, a) = [c EXCEPT !.server = "answered", !.answer = b, !.errors = e]
  BY <1>1 DEF Answered, CallRecord
<1>3. b \in Refusals \cup {"none", "ok", "error", "timeout"} /\ e \in Nat
  BY <1>1 DEF CallRecord
<1>4. PICK d : d = [c EXCEPT !.server = "answered", !.answer = b, !.errors = e]
  OBVIOUS
<1>5. d \in CallRecord /\ d.server = "answered" /\ d.op = c.op /\ d.effects = c.effects /\ d.answer = b /\ d.errors = e
  BY <1>3, <1>4 DEF CallRecord
<1> QED BY <1>1, <1>2, <1>4, <1>5

(* A route's answer keeps to the truth if it tells of a failure as an error, or is vague. *)
LEMMA ReplyStep ==
  ASSUME CallsTrue, NEW k \in Calls, calls[k].server = "handling",
         NEW can \in BOOLEAN, NEW o \in {"ok", "failed", "lost"},
         NEW otherwise \in {"conflict", "notfound", "error"}, NEW onFailure \in {"conflict", "notfound", "error"},
         onFailure = "error" \/ calls[k].op.kind \in Vague \/ o = "ok",
         Reply(k, can, o, otherwise, onFailure)
  PROVE  CallsTrue' /\ UNCHANGED rateVars
<1>1. PICK c \in CallRecord : c = calls[k] /\ AttemptTrue(c)
  BY DEF CallsTrue
<1>2. PICK a : a = AnswerOf(can, o, otherwise, onFailure)
  OBVIOUS
<1>3. /\ a \in Refusals \cup {"ok", "error"}
      /\ a = "ok" => o = "ok" /\ can
      /\ a \in {"error", "limited"} \cup Refusals /\ Takes(can, o) => a = onFailure /\ o # "ok"
  BY <1>2 DEF AnswerOf, Takes, Refusals
<1>4. PICK b \in CallRecord : b = Answered(c, a)
  BY <1>3, AnsweredFields
<1>5. /\ b.server = "answered" /\ b.op = c.op /\ b.effects = c.effects
      /\ b.answer = (IF c.client = "waiting" THEN a ELSE c.answer)
      /\ b.errors = (IF a = "error" THEN c.errors + 1 ELSE c.errors)
  BY <1>3, <1>4, AnsweredFields
<1>6. PICK d : d = [b EXCEPT !.effects = IF Takes(can, o) THEN @ + 1 ELSE @]
  OBVIOUS
<1>7. /\ d \in CallRecord /\ d.server = "answered" /\ d.op = c.op /\ d.answer = b.answer /\ d.errors = b.errors
      /\ d.effects = (IF Takes(can, o) THEN c.effects + 1 ELSE c.effects)
  BY <1>5, <1>6 DEF CallRecord
<1>8. /\ c.effects <= c.errors /\ c.answer \in {"none", "timeout"} /\ c.effects \in Nat /\ c.errors \in Nat
  BY <1>1 DEF AttemptTrue, CallRecord
<1>9. AttemptTrue(d)
  BY <1>1, <1>3, <1>5, <1>7, <1>8 DEF AttemptTrue, Takes, Refusals
<1>10. calls' = [calls EXCEPT ![k] = calls'[k]] /\ UNCHANGED rateVars
  BY DEF Reply, CallsTrue
<1>11. calls'[k] = [Answered(calls[k], AnswerOf(can, o, otherwise, onFailure))
                     EXCEPT !.effects = IF Takes(can, o) THEN @ + 1 ELSE @]
  BY DEF Reply, CallsTrue
<1> QED BY <1>1, <1>2, <1>4, <1>6, <1>7, <1>9, <1>10, <1>11, CallStep

(* Every route. *)
LEMMA RouteStep ==
  ASSUME CallsTrue, NEW k \in Calls, HandleCall(k)
  PROVE  CallsTrue' /\ UNCHANGED rateVars
<1>1. CASE Refuse(k)
  <2>1. PICK c \in CallRecord : c = calls[k] /\ AttemptTrue(c)
    BY DEF CallsTrue
  <2>2. c.server = "handling" /\ calls' = [calls EXCEPT ![k] = Answered(c, "denied")]
    BY <1>1, <2>1 DEF Refuse
  <2>a. PICK a \in Refusals : a = "denied"
    BY DEF Refusals
  <2>3. PICK d \in CallRecord : d = Answered(c, a)
    BY AnsweredFields
  <2>4. /\ d.op = c.op /\ d.effects = c.effects /\ d.errors = c.errors
        /\ d.answer = (IF c.client = "waiting" THEN a ELSE c.answer) /\ d.server = "answered" /\ a # "error"
    BY <2>a, <2>3, AnsweredFields
  <2>5. c.effects <= c.errors /\ c.effects \in Nat /\ c.errors \in Nat /\ c.answer \in {"none", "timeout"}
    BY <1>1, <2>1, <2>2 DEF AttemptTrue, CallRecord
  <2>6. AttemptTrue(d)
    BY <2>4, <2>5 DEF AttemptTrue, Refusals
  <2> QED BY <1>1, <2>2, <2>a, <2>3, <2>6, CallStep DEF Refuse
<1>2. ASSUME NEW o \in {"ok", "failed", "lost"}, NEW can \in BOOLEAN,
             NEW otherwise \in {"conflict", "notfound", "error"}, Reply(k, can, o, otherwise, "error"),
             calls[k].server = "handling"
      PROVE  CallsTrue' /\ UNCHANGED rateVars
  BY <1>2, ReplyStep
<1>3. ASSUME NEW o \in {"ok", "failed", "lost"},
             CreateNamespace(k, o) \/ UpdateNamespace(k, o) \/ DeleteNamespace(k, o)
      PROVE  CallsTrue' /\ UNCHANGED rateVars
  <2>1. calls[k].server = "handling" /\ calls[k].op.kind \in Vague
    BY <1>3 DEF CreateNamespace, UpdateNamespace, DeleteNamespace, Handling, Vague
  <2>a. PICK free : free = (namespaces[calls[k].op.on] = {})
    OBVIOUS
  <2>b. PICK found : found = Exists(calls[k].op.on)
    OBVIOUS
  <2>2. free \in BOOLEAN /\ found \in BOOLEAN
    BY <2>a, <2>b DEF Exists
  <2>3. Reply(k, free, o, "conflict", "conflict") \/ Reply(k, found, o, "notfound", "notfound")
    BY <1>3, <2>a, <2>b DEF CreateNamespace, UpdateNamespace, DeleteNamespace, CreateFailed, UpdateFailed, DeleteFailed
  <2> QED BY <2>1, <2>2, <2>3, ReplyStep
<1>4. ASSUME NEW o \in {"ok", "failed", "lost"},
             CreatePolicy(k, o) \/ UpdatePolicy(k, o) \/ DeletePolicy(k, o)
      PROVE  CallsTrue' /\ UNCHANGED rateVars
  <2>1. calls[k].server = "handling"
    BY <1>4 DEF CreatePolicy, UpdatePolicy, DeletePolicy, Handling
  <2>a. PICK free : free = (calls[k].op.on \notin PolicyNames)
    OBVIOUS
  <2>b. PICK found : found = (calls[k].op.on \in PolicyNames)
    OBVIOUS
  <2>2. free \in BOOLEAN /\ found \in BOOLEAN
    BY <2>a, <2>b
  <2>3. Reply(k, free, o, "conflict", "error") \/ Reply(k, found, o, "notfound", "error")
    BY <1>4, <2>a, <2>b DEF CreatePolicy, UpdatePolicy, DeletePolicy
  <2> QED BY <1>2, <2>1, <2>2, <2>3
<1>5. ASSUME NEW o \in {"ok", "failed", "lost"},
             \/ CreateChannel(k, o) \/ UpdateChannel(k, o) \/ DeleteChannel(k, o)
             \/ CreateRule(k, o) \/ UpdateRule(k, o) \/ DeleteRule(k, o)
      PROVE  CallsTrue' /\ UNCHANGED rateVars
  <2>1. calls[k].server = "handling"
    BY <1>5 DEF CreateChannel, UpdateChannel, DeleteChannel, CreateRule, UpdateRule, DeleteRule, Handling
  <2>a. PICK channel : channel = (Seed \in ToSet(channels))
    OBVIOUS
  <2>b. PICK rule : rule = (\E r \in ToSet(rules) : r.id = Seed)
    OBVIOUS
  <2>2. channel \in BOOLEAN /\ rule \in BOOLEAN
    BY <2>a, <2>b
  <2>3. \E can \in {TRUE, channel, rule}, otherwise \in {"notfound", "error"} : Reply(k, can, o, otherwise, "error")
    BY <1>5, <2>a, <2>b DEF CreateChannel, UpdateChannel, DeleteChannel, CreateRule, UpdateRule, DeleteRule
  <2> QED BY <1>2, <2>1, <2>2, <2>3
<1>6. ASSUME NEW o \in {"ok", "failed", "lost"}, NEW found \in BOOLEAN,
             \/ CreateAgent(k, found, o) \/ UpdateAgent(k, found, o) \/ DeleteAgent(k, found, o)
             \/ RunAgent(k, found, o) \/ RollbackAgent(k, found, o)
      PROVE  CallsTrue' /\ UNCHANGED rateVars
  <2>1. \A kind : kind # "listAgents" => ~ResolveScope(kind)
    BY DEF ResolveScope, PassesMetadata
  <2>2. ASSUME NEW kind \in {"createAgent", "updateAgent", "deleteAgent", "runAgent"},
               NEW otherwise \in {"conflict", "notfound", "error"}, NEW onFailure \in {"conflict", "notfound", "error"},
               Bridged(k, kind, found, o, otherwise, onFailure)
        PROVE  CallsTrue' /\ UNCHANGED rateVars
    <3>1. calls[k].server = "handling" /\ Reply(k, FALSE, "ok", otherwise, onFailure)
      BY <2>1, <2>2 DEF Bridged, Handling
    <3> QED BY <3>1, ReplyStep
  <2>3. CASE RollbackAgent(k, found, o)
    BY <2>3, ReplyStep DEF RollbackAgent, Handling
  <2> QED BY <1>6, <2>2, <2>3 DEF CreateAgent, UpdateAgent, DeleteAgent, RunAgent
<1> QED BY <1>1, <1>2, <1>3, <1>4, <1>5, <1>6 DEF HandleCall

LEMMA BeginStep ==
  ASSUME CallsTrue, NEW k \in Calls, NEW who \in {"sdk", "console"}, NEW what \in Ops, Begin(k, who, what)
  PROVE  CallsTrue'
<1>1. PICK c : c = [NoCall EXCEPT !.client = "waiting", !.who = who, !.op = what, !.attempt = 1, !.server = "queued"]
  OBVIOUS
<1>2. c = [client |-> "waiting", who |-> who, op |-> what, attempt |-> 1,
           server |-> "queued", answer |-> "none", effects |-> 0, errors |-> 0]
  BY <1>1 DEF NoCall
<1>3. c \in CallRecord /\ AttemptTrue(c)
  BY <1>2, RestAssumption DEF CallRecord, AttemptTrue, Refusals
<1> QED BY <1>1, <1>3, CallStep DEF Begin

LEMMA ReceiveStep ==
  ASSUME CallsTrue, NEW k \in Calls, Receive(k)
  PROVE  CallsTrue'
<1>1. PICK c \in CallRecord : c = calls[k] /\ AttemptTrue(c)
  BY DEF CallsTrue
<1>2. c.server = "answered" /\ c.client = "waiting"
  BY <1>1 DEF Receive
<1>3. CASE Retried(c)
  <2>1. c.answer \in {"error", "limited"} /\ c.attempt <= MaxRetries
    BY <1>3 DEF Retried, SdkRetries, ConsoleRetries
  <2>2. PICK d : d = [c EXCEPT !.attempt = IF @ > MaxRetries THEN @ ELSE @ + 1, !.server = "queued", !.answer = "none"]
    OBVIOUS
  <2>3. PICK n : n = IF c.attempt > MaxRetries THEN c.attempt ELSE c.attempt + 1
    OBVIOUS
  <2>4. n \in 0 .. MaxRetries + 1
    BY <2>1, <2>3, RestAssumption DEF CallRecord
  <2>5. d = [c EXCEPT !.attempt = n, !.server = "queued", !.answer = "none"]
    BY <2>2, <2>3 DEF CallRecord
  <2>6. /\ d \in CallRecord /\ d.effects = c.effects /\ d.errors = c.errors /\ d.op = c.op
        /\ d.server = "queued" /\ d.answer = "none"
    BY <2>4, <2>5 DEF CallRecord
  <2>7. AttemptTrue(d)
    BY <1>1, <2>1, <2>6 DEF AttemptTrue, CallRecord, Refusals
  <2>8. calls' = [calls EXCEPT ![k] = calls'[k]]
    BY <1>1, <1>3 DEF Receive, CallsTrue
  <2>9. calls'[k] = [calls[k] EXCEPT !.attempt = IF @ > MaxRetries THEN @ ELSE @ + 1,
                                     !.server = "queued", !.answer = "none"]
    BY <1>1, <1>3 DEF Receive, CallsTrue
  <2> QED BY <1>1, <2>2, <2>6, <2>7, <2>8, <2>9, CallStep
<1>4. CASE ~Retried(c)
  <2>1. PICK d : d = [c EXCEPT !.client = "done"]
    OBVIOUS
  <2>2. d \in CallRecord /\ AttemptTrue(d)
    BY <1>1, <2>1 DEF CallRecord, AttemptTrue
  <2>3. calls' = [calls EXCEPT ![k] = d]
    BY <1>1, <1>4, <2>1 DEF Receive
  <2> QED BY <2>2, <2>3, CallStep
<1> QED BY <1>3, <1>4

LEMMA AbortStep ==
  ASSUME CallsTrue, NEW k \in Calls, Abort(k)
  PROVE  CallsTrue'
<1>1. PICK c \in CallRecord : c = calls[k] /\ AttemptTrue(c)
  BY DEF CallsTrue
<1>2. PICK d : d = [c EXCEPT !.client = "done", !.answer = "timeout"]
  OBVIOUS
<1>3. d \in CallRecord /\ AttemptTrue(d)
  BY <1>1, <1>2 DEF CallRecord, AttemptTrue, Abort, Refusals
<1>4. calls' = [calls EXCEPT ![k] = d]
  BY <1>1, <1>2 DEF Abort, CallsTrue
<1> QED BY <1>3, <1>4, CallStep

LEMMA LimiterStep ==
  ASSUME CallsTrue, NEW k \in Calls, OnRequest(k)
  PROVE  CallsTrue'
<1>1. PICK c \in CallRecord : c = calls[k] /\ AttemptTrue(c)
  BY DEF CallsTrue
<1>2. CASE Counted > RateLimitMax
  <2>1. c.server = "queued" /\ calls' = [calls EXCEPT ![k] = Answered(c, "limited")]
    BY <1>1, <1>2 DEF OnRequest
  <2>a. PICK a \in Refusals : a = "limited"
    BY DEF Refusals
  <2>3. PICK d \in CallRecord : d = Answered(c, a)
    BY AnsweredFields
  <2>4. /\ d.op = c.op /\ d.effects = c.effects /\ d.errors = c.errors
        /\ d.answer = (IF c.client = "waiting" THEN a ELSE c.answer) /\ d.server = "answered" /\ a # "error"
    BY <2>a, <2>3, AnsweredFields
  <2>5. c.effects <= c.errors /\ c.effects \in Nat /\ c.errors \in Nat /\ c.answer \in {"none", "timeout"}
    BY <1>1, <2>1 DEF AttemptTrue, CallRecord
  <2>6. AttemptTrue(d)
    BY <2>4, <2>5 DEF AttemptTrue, Refusals
  <2> QED BY <2>1, <2>a, <2>3, <2>6, CallStep
<1>3. CASE ~(Counted > RateLimitMax)
  <2>1. PICK d : d = [c EXCEPT !.server = "handling"]
    OBVIOUS
  <2>2. d \in CallRecord /\ AttemptTrue(d)
    BY <1>1, <1>3, <2>1 DEF CallRecord, AttemptTrue, OnRequest
  <2>3. calls' = [calls EXCEPT ![k] = d]
    BY <1>1, <1>3, <2>1 DEF OnRequest, CallsTrue
  <2> QED BY <2>2, <2>3, CallStep
<1> QED BY <1>2, <1>3

-----------------------------------------------------------------------------
LEMMA WindowFacts ==
  ASSUME NEW n \in Nat, NEW w \in Nat \ {0}
  PROVE  /\ (n \div w) * w \in Nat /\ (n \div w) * w <= n /\ n < (n \div w) * w + w
         /\ (n + 1) % w # 0 => ((n + 1) \div w) * w = (n \div w) * w
<1>1. (n \div w) * w <= n /\ n < (n \div w) * w + w /\ n \div w \in Nat
  OBVIOUS
<1>2. (n + 1) % w # 0 => (n + 1) \div w = n \div w
  OBVIOUS
<1> QED BY <1>1, <1>2

LEMMA SweepsNat ==
  ASSUME Counting
  PROVE  Sweeps \in Nat /\ minute \in Nat /\ window \in Nat \ {0} /\ RateLimitMax * Sweeps \in Nat
         /\ RateLimitMax * (1 + Sweeps) = RateLimitMax + RateLimitMax * Sweeps
<1>1. minute \in Nat /\ window \in Nat \ {0}
  BY RestAssumption DEF Counting
<1>2. PICK n : n = Sweeps
  OBVIOUS
<1>3. n \in Nat
  BY <1>1, <1>2, RestAssumption DEF Sweeps, Counting
<1>4. RateLimitMax * n \in Nat /\ RateLimitMax * (1 + n) = RateLimitMax + RateLimitMax * n
  BY <1>3, RestAssumption
<1> QED BY <1>1, <1>2, <1>3, <1>4

LEMMA Monotone ==
  ASSUME NEW m \in Nat, NEW i \in Nat, NEW j \in Nat, i <= j
  PROVE  m * i <= m * j
<1>1. PICK d \in Nat : j = i + d
  OBVIOUS
<1>2. m * j = m * i + m * d /\ m * d \in Nat
  BY <1>1
<1> QED BY <1>2

(* An attempt is let through only while its window's count is not above the maximum. *)
LEMMA CountingStep ==
  ASSUME Counting, NEW k \in Calls, OnRequest(k)
  PROVE  Counting'
<1>1. PICK s : s = WindowStart
  OBVIOUS
<1>2. s \in Nat
  BY <1>1 DEF Counting
<1>3. WindowStart' = s /\ Sweeps' = Sweeps /\ UNCHANGED <<window, minute, due>>
  BY <1>1 DEF WindowStart, Sweeps, OnRequest
<1>4. PICK n : n = Counted
  OBVIOUS
<1>5. /\ n \in Nat
      /\ s \notin DOMAIN hits => n = 1
      /\ s \in DOMAIN hits => n = IF hits[s] > RateLimitMax THEN hits[s] ELSE hits[s] + 1
  BY <1>1, <1>4 DEF Counted, Counting
<1>6. /\ hits' = [w \in DOMAIN hits \cup {s} |-> IF w = s THEN n ELSE hits[w]]
      /\ passed' = IF n > RateLimitMax THEN passed ELSE passed + 1
  BY <1>1, <1>4 DEF OnRequest
<1>7. /\ DOMAIN hits' = DOMAIN hits \cup {s} /\ hits'[s] = n
      /\ \A w \in DOMAIN hits \ {s} : hits'[w] = hits[w]
  BY <1>6
<1>8. PICK taken : taken = RateLimitMax * Sweeps
  OBVIOUS
<1>9. taken \in Nat /\ RateLimitMax * (1 + Sweeps) = RateLimitMax + taken /\ RateLimitMax \in Nat \ {0}
  BY <1>8, SweepsNat, RestAssumption
<1>10. passed' \in Nat /\ passed' <= RateLimitMax + taken /\ passed' <= n + taken
  <2>1. /\ passed \in Nat /\ passed <= RateLimitMax + taken
        /\ s \in DOMAIN hits => hits[s] \in Nat /\ passed <= hits[s] + taken
        /\ s \notin DOMAIN hits => passed <= taken
    BY <1>1, <1>8, <1>9 DEF Counting
  <2> QED BY <1>5, <1>6, <1>9, <2>1
<1>11. DOMAIN hits' \subseteq Nat /\ \A w \in DOMAIN hits' : hits'[w] \in Nat
  BY <1>2, <1>5, <1>7 DEF Counting
<1> QED BY <1>1, <1>3, <1>7, <1>8, <1>9, <1>10, <1>11 DEF Counting

(* A sweep takes the window's counter only at an age that is counted. *)
LEMMA SweepStep ==
  ASSUME Counting, CleanupRateLimit
  PROVE  Counting'
<1>1. PICK s, n : s = WindowStart /\ n = Sweeps
  OBVIOUS
<1>2. /\ s \in Nat /\ n \in Nat /\ minute \in Nat /\ s <= minute
      /\ RateLimitMax \in Nat \ {0} /\ CleanupAge \in Nat
  BY <1>1, SweepsNat, RestAssumption DEF Counting
<1>3. WindowStart' = s /\ UNCHANGED <<window, minute, passed>> /\ due' \in BOOLEAN
  BY <1>1 DEF WindowStart, CleanupRateLimit
<1>4. Sweeps' = IF minute - s >= CleanupAge THEN n + 1 ELSE n
  BY <1>1, <1>2, <1>3 DEF Sweeps, CleanupRateLimit
<1>5. hits' = [w \in DOMAIN hits \ Swept |-> hits[w]]
  BY DEF CleanupRateLimit
<1>6. /\ DOMAIN hits' = DOMAIN hits \ Swept
      /\ \A w \in DOMAIN hits \ Swept : hits'[w] = hits[w]
  BY <1>5
<1>7. DOMAIN hits' \subseteq Nat /\ \A w \in DOMAIN hits' : hits'[w] \in Nat
  BY <1>6 DEF Counting
<1>8. PICK taken, more : taken = RateLimitMax * n /\ more = RateLimitMax * (n + 1)
  OBVIOUS
<1>9. taken \in Nat /\ more = RateLimitMax + taken /\ RateLimitMax * (1 + n) = more
      /\ RateLimitMax * (1 + (n + 1)) = RateLimitMax + more
  BY <1>2, <1>8
<1>10. /\ passed \in Nat /\ passed <= more
       /\ s \in DOMAIN hits => hits[s] \in Nat /\ passed <= hits[s] + taken
       /\ s \notin DOMAIN hits => passed <= taken
  BY <1>1, <1>8, <1>9 DEF Counting
<1>11. CASE minute - s >= CleanupAge
  <2>1. Sweeps' = n + 1
    BY <1>4, <1>11
  <2>2. passed <= RateLimitMax + more /\ passed <= more /\ (s \in DOMAIN hits => passed <= hits[s] + more)
    BY <1>2, <1>9, <1>10
  <2>3. /\ passed' <= RateLimitMax * (1 + Sweeps')
        /\ s \in DOMAIN hits' => passed' <= hits'[s] + RateLimitMax * Sweeps'
        /\ s \notin DOMAIN hits' => passed' <= RateLimitMax * Sweeps'
    BY <1>3, <1>6, <1>8, <1>9, <2>1, <2>2
  <2> QED BY <1>1, <1>2, <1>3, <1>7, <2>3 DEF Counting
<1>12. CASE ~(minute - s >= CleanupAge)
  <2>1. Sweeps' = n /\ s \notin Swept
    BY <1>2, <1>4, <1>12 DEF Swept
  <2>2. /\ passed' <= RateLimitMax * (1 + Sweeps')
        /\ s \in DOMAIN hits' => passed' <= hits'[s] + RateLimitMax * Sweeps'
        /\ s \notin DOMAIN hits' => passed' <= RateLimitMax * Sweeps'
    BY <1>3, <1>6, <1>8, <1>9, <1>10, <2>1
  <2> QED BY <1>1, <1>2, <1>3, <1>7, <2>2 DEF Counting
<1> QED BY <1>11, <1>12

LEMMA TickStep ==
  ASSUME Counting, Tick
  PROVE  Counting'
<1>1. minute \in Nat /\ window \in Nat \ {0} /\ Sweeps \in Nat
  BY SweepsNat
<1>2. minute' = minute + 1 /\ minute < MaxMinute /\ due' = TRUE /\ UNCHANGED <<window, hits>>
  BY DEF Tick
<1>3. minute' \in 0 .. MaxMinute
  BY <1>1, <1>2, RestAssumption
<1>4. PICK s, t, n, m : s = WindowStart /\ t = ((minute + 1) \div window) * window /\ n = Sweeps /\ m = minute + 1
  OBVIOUS
<1>5. WindowStart' = t
  BY <1>2, <1>4 DEF WindowStart
<1>6. m \in Nat \ {0} /\ t \in Nat /\ t <= m /\ n \in Nat
  BY <1>1, <1>4, WindowFacts
<1>7. PICK k : k = (IF m - t >= CleanupAge THEN m - t - CleanupAge ELSE 0)
  OBVIOUS
<1>8. Sweeps' = k
  BY <1>2, <1>4, <1>5, <1>7 DEF Sweeps
<1>9. k \in Nat /\ CleanupAge \in Nat
  BY <1>6, <1>7, RestAssumption
<1>10. PICK a, b : a = RateLimitMax * n /\ b = RateLimitMax * k
  OBVIOUS
<1>11. /\ a \in Nat /\ b \in Nat /\ RateLimitMax \in Nat
       /\ RateLimitMax * (1 + n) = RateLimitMax + a /\ RateLimitMax * (1 + k) = RateLimitMax + b
  BY <1>6, <1>9, <1>10, RestAssumption
<1>12. CASE m % window = 0
  <2>1. passed' = 0
    BY <1>2, <1>4, <1>12 DEF Tick
  <2>2. t \in DOMAIN hits => hits[t] \in Nat
    BY DEF Counting
  <2>3. /\ passed' <= RateLimitMax + b
        /\ t \in DOMAIN hits => passed' <= hits[t] + b
        /\ t \notin DOMAIN hits => passed' <= b
    BY <1>11, <2>1, <2>2
  <2>4. passed' \in Nat
    BY <2>1
  <2> QED BY <1>2, <1>3, <1>4, <1>5, <1>6, <1>8, <1>10, <1>11, <2>3, <2>4 DEF Counting
<1>13. CASE m % window # 0
  <2>1. passed' = passed
    BY <1>2, <1>4, <1>13 DEF Tick
  <2>2. t = s
    BY <1>1, <1>4, <1>13, WindowFacts DEF WindowStart
  <2>3. n <= k
    <3>1. n = (IF minute - s >= CleanupAge THEN minute - s - CleanupAge + (IF due THEN 0 ELSE 1) ELSE 0)
      BY <1>4 DEF Sweeps
    <3>2. s \in Nat /\ s <= minute
      BY <1>4 DEF Counting
    <3> QED BY <1>1, <1>4, <1>7, <1>9, <2>2, <3>1, <3>2
  <2>4. a <= b
    BY <1>6, <1>9, <1>10, <2>3, Monotone, RestAssumption
  <2>5. /\ passed \in Nat /\ passed <= RateLimitMax + a
        /\ s \in DOMAIN hits => hits[s] \in Nat /\ passed <= hits[s] + a
        /\ s \notin DOMAIN hits => passed <= a
    BY <1>4, <1>10, <1>11 DEF Counting
  <2>6. /\ passed' <= RateLimitMax + b
        /\ t \in DOMAIN hits => passed' <= hits[t] + b
        /\ t \notin DOMAIN hits => passed' <= b
    BY <1>11, <2>1, <2>2, <2>4, <2>5
  <2>7. passed' \in Nat
    BY <2>1, <2>5
  <2> QED BY <1>2, <1>3, <1>4, <1>5, <1>6, <1>8, <1>10, <1>11, <2>6, <2>7 DEF Counting
<1> QED BY <1>4, <1>12, <1>13

-----------------------------------------------------------------------------
(* The row of a deleted namespace does not change. *)
NamespaceMoves ==
  \A s \in Slugs :
    /\ namespaces'[s] \in SUBSET Stamps
    /\ "deleted" \in namespaces[s] => namespaces'[s] = namespaces[s]

LEMMA NamespaceStep ==
  ASSUME CallsTrue, NamespacesTyped, RestNext
  PROVE  NamespacesTyped' /\ NamespaceMoves
<1>1. CASE UNCHANGED namespaces
  BY <1>1 DEF NamespacesTyped, NamespaceMoves
<1>2. ASSUME NEW s \in Slugs, NEW mark \in Stamps, NEW takes \in BOOLEAN,
             takes => "deleted" \notin namespaces[s], Stamp(s, mark, takes)
      PROVE  NamespacesTyped' /\ NamespaceMoves
  BY <1>2 DEF NamespacesTyped, NamespaceMoves, Stamp
<1>3. ASSUME NEW k \in Calls,
             Handling(k, "createNamespace") \/ Handling(k, "updateNamespace") \/ Handling(k, "deleteNamespace")
      PROVE  calls[k].op.on \in Slugs
  <2>1. calls[k].op \in Ops
    BY DEF CallsTrue, CallRecord
  <2>2. calls[k].op.kind \in {"createNamespace", "updateNamespace", "deleteNamespace"}
    BY <1>3 DEF Handling
  <2> QED BY <2>1, <2>2 DEF Ops
<1>4. ASSUME NEW k \in Calls, NEW o \in {"ok", "failed", "lost"}, CreateNamespace(k, o) \/ DeleteNamespace(k, o)
      PROVE  NamespacesTyped' /\ NamespaceMoves
  BY <1>2, <1>3, <1>4 DEF CreateNamespace, DeleteNamespace, Takes, Exists, Stamps
<1>5. ASSUME NEW s \in Slugs, SuspendNamespace(s)
      PROVE  NamespacesTyped' /\ NamespaceMoves
  BY <1>5, <1>2 DEF SuspendNamespace, Exists, Stamps
<1>6. ASSUME NEW k \in Calls, HandleCall(k)
      PROVE  NamespacesTyped' /\ NamespaceMoves
  BY <1>1, <1>4, <1>6
     DEF HandleCall, Refuse, UpdateNamespace, CreatePolicy, UpdatePolicy, DeletePolicy, CreateChannel, UpdateChannel,
         DeleteChannel, CreateRule, UpdateRule, DeleteRule, CreateAgent, UpdateAgent, DeleteAgent, RunAgent,
         RollbackAgent, rowVars
<1> QED BY <1>1, <1>5, <1>6
        DEF RestNext, Begin, Receive, Abort, OnRequest, StartAgentExecution, CleanupRateLimit, Tick, rowVars

-----------------------------------------------------------------------------
LEMMA RestStarts ==
  ASSUME RestInit
  PROVE  RestInv
<1>1. NoCall \in CallRecord /\ AttemptTrue(NoCall)
  <2>1. PICK seed : seed = [kind |-> "runAgent", on |-> "seed"]
    OBVIOUS
  <2>2. seed \in Ops
    BY <2>1 DEF Ops
  <2>3. NoCall = [client |-> "idle", who |-> "sdk", op |-> seed, attempt |-> 0,
                  server |-> "none", answer |-> "none", effects |-> 0, errors |-> 0]
    BY <2>1 DEF NoCall
  <2> QED BY <2>2, <2>3, RestAssumption DEF CallRecord, AttemptTrue, Refusals
<1>2. CallsTrue
  BY <1>1 DEF RestInit, CallsTrue
<1>3. hits = << >> /\ DOMAIN hits = {}
  BY DEF RestInit
<1>4. Counting
  <2>1. /\ window \in Nat \ {0} /\ minute = 0 /\ passed = 0 /\ due = TRUE
        /\ MaxMinute \in Nat /\ CleanupAge \in Nat /\ RateLimitMax \in Nat
    BY RestAssumption DEF RestInit
  <2>2. WindowStart = 0
    BY <2>1, WindowFacts DEF WindowStart
  <2>3. Sweeps = 0
    BY <2>1, <2>2 DEF Sweeps
  <2> QED BY <1>3, <2>1, <2>2, <2>3 DEF Counting
<1>5. NamespacesTyped
  BY DEF RestInit, NamespacesTyped, Stamps
<1> QED BY <1>2, <1>4, <1>5 DEF RestInv

LEMMA RestKeeps == RestInv /\ [RestNext]_restVars => RestInv' /\ [NamespaceMoves]_restVars
<1> SUFFICES ASSUME RestInv, [RestNext]_restVars PROVE RestInv' /\ [NamespaceMoves]_restVars
  OBVIOUS
<1> USE DEF RestInv
<1>1. CASE UNCHANGED restVars
  <2>1. UNCHANGED <<calls, window, minute, due, hits, passed, namespaces>>
    BY <1>1 DEF restVars, rateVars, rowVars
  <2>2. CallsTrue'
    BY <2>1 DEF CallsTrue
  <2>3. Counting'
    BY <2>1 DEF Counting, WindowStart, Sweeps
  <2> QED BY <1>1, <2>1, <2>2, <2>3 DEF NamespacesTyped
<1>2. CASE RestNext
  <2>1. NamespacesTyped' /\ NamespaceMoves
    BY <1>2, NamespaceStep
  <2>2. ASSUME UNCHANGED <<window, minute, due, hits, passed>> PROVE Counting'
    BY <2>2 DEF Counting, WindowStart, Sweeps
  <2>3. ASSUME NEW k \in Calls, HandleCall(k) PROVE CallsTrue' /\ Counting'
    BY <2>2, <2>3, RouteStep DEF rateVars
  <2>4. ASSUME NEW k \in Calls, OnRequest(k) PROVE CallsTrue' /\ Counting'
    BY <2>4, LimiterStep, CountingStep
  <2>5. ASSUME NEW k \in Calls, NEW who \in {"sdk", "console"}, NEW what \in Ops, Begin(k, who, what)
        PROVE  CallsTrue' /\ Counting'
    BY <2>2, <2>5, BeginStep DEF Begin, rateVars
  <2>6. ASSUME NEW k \in Calls, Receive(k) PROVE CallsTrue' /\ Counting'
    BY <2>2, <2>6, ReceiveStep DEF Receive, rateVars
  <2>7. ASSUME NEW k \in Calls, Abort(k) PROVE CallsTrue' /\ Counting'
    BY <2>2, <2>7, AbortStep DEF Abort, rateVars
  <2>8. ASSUME UNCHANGED calls PROVE CallsTrue'
    BY <2>8 DEF CallsTrue
  <2>9. ASSUME CleanupRateLimit PROVE CallsTrue' /\ Counting'
    BY <2>8, <2>9, SweepStep DEF CleanupRateLimit
  <2>10. ASSUME Tick PROVE CallsTrue' /\ Counting'
    BY <2>8, <2>10, TickStep DEF Tick
  <2>11. ASSUME NEW s \in Slugs, SuspendNamespace(s) PROVE CallsTrue' /\ Counting'
    BY <2>2, <2>8, <2>11 DEF SuspendNamespace, rateVars
  <2>12. ASSUME NEW named \in BOOLEAN, StartAgentExecution(named) PROVE CallsTrue' /\ Counting'
    BY <2>2, <2>8, <2>12 DEF StartAgentExecution, rateVars
  <2> QED BY <1>2, <2>1, <2>3, <2>4, <2>5, <2>6, <2>7, <2>9, <2>10, <2>11, <2>12 DEF RestNext
<1> QED BY <1>1, <1>2

LEMMA RestInvariant == RestSpec => []RestInv
<1>1. RestInit => RestInv
  BY RestStarts
<1>2. RestInv /\ [RestNext]_restVars => RestInv'
  BY RestKeeps
<1> QED BY <1>1, <1>2, PTL DEF RestSpec

(* What a client of the SDK or the console is told is what happened, through its repeated *)
(* attempts, aborts and lost answers of statements.                                       *)
THEOREM AnswersAreTrue == RestSpec => []AnswersTrue
<1>1. RestInv => AnswersTrue
  <2> SUFFICES ASSUME RestInv, NEW k \in Calls
               PROVE  /\ calls[k].effects <= 1 + calls[k].errors
                      /\ (calls[k].client = "done" /\ calls[k].answer = "ok") => calls[k].effects >= 1
                      /\ (/\ calls[k].client = "done" /\ calls[k].errors = 0 /\ calls[k].op.kind \notin Vague
                          /\ calls[k].answer \in {"conflict", "notfound", "denied", "limited"})
                           => calls[k].effects = 0
    BY DEF AnswersTrue
  <2>1. AttemptTrue(calls[k])
    BY DEF RestInv, CallsTrue
  <2> QED BY <2>1 DEF AttemptTrue, Refusals
<1> QED BY <1>1, RestInvariant, PTL

(* A window lets no more attempts through than the maximum for each minute that a sweep may *)
(* take its open counter away, and the maximum before: for every window, sweep age and limit. *)
THEOREM LimitsAreKept == RestSpec => []LimitsHold
<1>1. RestInv => LimitsHold
  <2> SUFFICES ASSUME RestInv PROVE RestTypeOK /\ WindowLimit
    BY DEF LimitsHold
  <2>1. /\ minute \in 0 .. MaxMinute /\ due \in BOOLEAN /\ passed \in Nat /\ DOMAIN hits \subseteq Nat
        /\ Counting /\ namespaces \in [Slugs -> SUBSET Stamps]
    BY DEF RestInv, Counting, NamespacesTyped
  <2>2. \A k \in Calls : calls[k] \in CallRecord
    BY DEF RestInv, CallsTrue
  <2>3. WindowLimit
    <3>1. PICK n, o : n = Sweeps /\ o = Overtime
      OBVIOUS
    <3>2. n \in Nat /\ o \in Nat /\ n <= o /\ RateLimitMax \in Nat
      BY <2>1, <3>1, SweepsNat, RestAssumption DEF Sweeps, Overtime, Counting
    <3>3. 1 + n \in Nat /\ 1 + o \in Nat /\ 1 + n <= 1 + o
      BY <3>2
    <3>4. RateLimitMax * (1 + n) <= RateLimitMax * (1 + o)
      BY <3>2, <3>3, Monotone
    <3>5. passed <= RateLimitMax * (1 + n) /\ RateLimitMax * (1 + n) \in Nat /\ RateLimitMax * (1 + o) \in Nat
      BY <2>1, <3>1, <3>2 DEF Counting
    <3> QED BY <2>1, <3>1, <3>4, <3>5 DEF WindowLimit
  <2> QED BY <2>1, <2>2, <2>3 DEF RestTypeOK, CallRecord
<1> QED BY <1>1, RestInvariant, PTL

(* No retry, concurrent update or suspension touches the row of a deleted namespace. *)
THEOREM DeletedNamespaceStays == RestSpec => NamespaceGone
<1>1. RestInv /\ [RestNext]_restVars
       => [\A s \in Slugs : "deleted" \in namespaces[s] => namespaces'[s] = namespaces[s]]_restVars
  BY RestKeeps DEF NamespaceMoves
<1> QED BY <1>1, RestInvariant, PTL DEF RestSpec, NamespaceGone

-----------------------------------------------------------------------------
(* The rows and their pages. *)

(* The rows the lists are taken from. *)
RowIds == {Seed} \cup (Calls \X Nat)
PolicyRow == [name : Names, version : Nat]
RuleRow == [id : RowIds, channel : RowIds]
RunRow == [named : BOOLEAN]
RowsTyped ==
  /\ policies \in Seq(PolicyRow) /\ channels \in Seq(RowIds)
  /\ rules \in Seq(RuleRow) /\ runs \in Seq(RunRow)

LEMMA RowsStart ==
  ASSUME RestInit
  PROVE  RowsTyped
<1>1. PICK s \in Slugs, n \in Names : policies = <<[name |-> n, version |-> 1]>>
  BY DEF RestInit
<1>2. PICK p \in PolicyRow : p = [name |-> n, version |-> 1]
  BY DEF PolicyRow
<1>3. PICK id \in RowIds : id = Seed
  BY DEF RowIds
<1>4. PICK r \in RuleRow : r = [id |-> id, channel |-> id]
  BY DEF RuleRow
<1>5. policies = <<p>> /\ channels = <<id>> /\ rules = <<r>> /\ runs = << >>
  BY <1>1, <1>2, <1>3, <1>4 DEF RestInit
<1> QED BY <1>5 DEF RowsTyped

LEMMA RowsKept ==
  ASSUME CallsTrue, RowsTyped, RestNext
  PROVE  RowsTyped'
<1>0. /\ policies \in Seq(PolicyRow) /\ channels \in Seq(RowIds)
      /\ rules \in Seq(RuleRow) /\ runs \in Seq(RunRow)
  BY DEF RowsTyped
<1>1. ASSUME UNCHANGED <<policies, channels, rules, runs>> PROVE RowsTyped'
  BY <1>1 DEF RowsTyped
<1>2. ASSUME NEW k \in Calls PROVE FreshId(k) \in RowIds
  <2>1. calls[k].attempt \in Nat
    BY RestAssumption DEF CallsTrue, CallRecord
  <2> QED BY <2>1 DEF FreshId, RowIds
<1>3. ASSUME NEW k \in Calls, NEW o, CreatePolicy(k, o) \/ UpdatePolicy(k, o) \/ DeletePolicy(k, o)
      PROVE  RowsTyped'
  <2>1. calls[k].op \in Ops /\ calls[k].op.kind \in {"createPolicy", "updatePolicy", "deletePolicy"}
    BY <1>3 DEF CallsTrue, CallRecord, CreatePolicy, UpdatePolicy, DeletePolicy, Handling
  <2>2. PICK n \in Names : n = calls[k].op.on
    BY <2>1 DEF Ops
  <2>3. Others(n) \in Seq(PolicyRow)
    BY <1>0, KeepFacts DEF Others
  <2>4. PICK a \in PolicyRow : a = [name |-> n, version |-> 1]
    BY DEF PolicyRow
  <2>5. ASSUME n \in PolicyNames PROVE [Policy(n) EXCEPT !.version = @ + 1] \in PolicyRow
    <3>1. \E p \in ToSet(policies) : p.name = n
      BY <1>0, <2>5 DEF PolicyNames, ToSet
    <3>2. Policy(n) \in ToSet(policies)
      BY <3>1 DEF Policy
    <3>3. Policy(n) \in PolicyRow
      BY <1>0, <3>2 DEF ToSet
    <3>4. PICK p \in PolicyRow : p = Policy(n)
      BY <3>3
    <3>5. PICK v \in Nat : v = p.version + 1
      BY DEF PolicyRow
    <3>6. [p EXCEPT !.version = v] \in PolicyRow
      BY DEF PolicyRow
    <3> QED BY <3>4, <3>5, <3>6
  <2>6. policies' \in {policies, Others(n), Append(policies, a)}
        \/ (n \in PolicyNames /\ policies' = Append(Others(n), [Policy(n) EXCEPT !.version = @ + 1]))
    BY <1>3, <2>2, <2>4 DEF CreatePolicy, UpdatePolicy, DeletePolicy, Takes
  <2>7. policies' \in Seq(PolicyRow)
    <3>1. Append(policies, a) \in Seq(PolicyRow)
      BY <1>0
    <3>2. ASSUME n \in PolicyNames
          PROVE Append(Others(n), [Policy(n) EXCEPT !.version = @ + 1]) \in Seq(PolicyRow)
      BY <2>3, <2>5, <3>2
    <3> QED BY <1>0, <2>3, <2>6, <3>1, <3>2
  <2>8. UNCHANGED <<channels, rules, runs>>
    BY <1>3 DEF CreatePolicy, UpdatePolicy, DeletePolicy
  <2> QED BY <1>0, <2>7, <2>8 DEF RowsTyped
<1>4. ASSUME NEW k \in Calls, NEW o, CreateChannel(k, o) \/ DeleteChannel(k, o) \/ CreateRule(k, o) \/ DeleteRule(k, o)
      PROVE  RowsTyped'
  <2>1. PICK id \in RowIds : id = FreshId(k)
    BY <1>2
  <2>2. PICK r \in RuleRow : r = [id |-> id, channel |-> Seed]
    BY DEF RuleRow, RowIds
  <2>3. channels' \in {channels, Append(channels, id), Keep(channels, {i \in DOMAIN channels : channels[i] # Seed})}
    BY <1>4, <2>1 DEF CreateChannel, DeleteChannel, CreateRule, DeleteRule
  <2>4. rules' \in {rules, Append(rules, r), Keep(rules, {i \in DOMAIN rules : rules[i].channel # Seed}),
                    Keep(rules, {i \in DOMAIN rules : rules[i].id # Seed})}
    BY <1>4, <2>1, <2>2 DEF CreateChannel, DeleteChannel, CreateRule, DeleteRule
  <2>5. channels' \in Seq(RowIds)
    <3>1. Keep(channels, {i \in DOMAIN channels : channels[i] # Seed}) \in Seq(RowIds)
      BY <1>0, KeepFacts
    <3>2. Append(channels, id) \in Seq(RowIds)
      BY <1>0
    <3> QED BY <1>0, <2>3, <3>1, <3>2
  <2>6. rules' \in Seq(RuleRow)
    <3>1. Keep(rules, {i \in DOMAIN rules : rules[i].channel # Seed}) \in Seq(RuleRow)
      BY <1>0, KeepFacts
    <3>2. Keep(rules, {i \in DOMAIN rules : rules[i].id # Seed}) \in Seq(RuleRow)
      BY <1>0, KeepFacts
    <3>3. Append(rules, r) \in Seq(RuleRow)
      BY <1>0
    <3> QED BY <1>0, <2>4, <3>1, <3>2, <3>3
  <2>7. UNCHANGED <<policies, runs>>
    BY <1>4 DEF CreateChannel, DeleteChannel, CreateRule, DeleteRule
  <2> QED BY <1>0, <2>5, <2>6, <2>7 DEF RowsTyped
<1>5. ASSUME UNCHANGED <<policies, channels, rules>>, NEW named \in BOOLEAN, runs' \in {runs, Append(runs, [named |-> named])}
      PROVE  RowsTyped'
  <2>1. PICK r \in RunRow : r = [named |-> named]
    BY DEF RunRow
  <2>2. Append(runs, r) \in Seq(RunRow)
    BY <1>0
  <2> QED BY <1>0, <1>5, <2>1, <2>2 DEF RowsTyped
<1>6. ASSUME NEW k \in Calls, NEW o, NEW found \in BOOLEAN, RunAgent(k, found, o) PROVE RowsTyped'
  BY <1>5, <1>6 DEF RunAgent
<1>7. ASSUME NEW named \in BOOLEAN, StartAgentExecution(named) PROVE RowsTyped'
  BY <1>5, <1>7 DEF StartAgentExecution
<1>8. ASSUME NEW k \in Calls, HandleCall(k) PROVE RowsTyped'
  <2>1. CASE \E o \in {"ok", "failed", "lost"} : CreatePolicy(k, o) \/ UpdatePolicy(k, o) \/ DeletePolicy(k, o)
    BY <1>3, <2>1
  <2>2. CASE \E o \in {"ok", "failed", "lost"} :
               CreateChannel(k, o) \/ DeleteChannel(k, o) \/ CreateRule(k, o) \/ DeleteRule(k, o)
    BY <1>4, <2>2
  <2>3. CASE \E o \in {"ok", "failed", "lost"}, found \in BOOLEAN : RunAgent(k, found, o)
    BY <1>6, <2>3
  <2>4. \/ \E o \in {"ok", "failed", "lost"} : CreatePolicy(k, o) \/ UpdatePolicy(k, o) \/ DeletePolicy(k, o)
        \/ \E o \in {"ok", "failed", "lost"} :
             CreateChannel(k, o) \/ DeleteChannel(k, o) \/ CreateRule(k, o) \/ DeleteRule(k, o)
        \/ \E o \in {"ok", "failed", "lost"}, found \in BOOLEAN : RunAgent(k, found, o)
        \/ UNCHANGED <<policies, channels, rules, runs>>
    BY <1>8 DEF HandleCall, Refuse, CreateNamespace, UpdateNamespace, DeleteNamespace, UpdateChannel, UpdateRule,
                CreateAgent, UpdateAgent, DeleteAgent, RollbackAgent, rowVars
  <2> QED BY <1>1, <2>1, <2>2, <2>3, <2>4
<1> QED BY <1>1, <1>7, <1>8
        DEF RestNext, Begin, Receive, Abort, OnRequest, SuspendNamespace, CleanupRateLimit, Tick, rowVars

-----------------------------------------------------------------------------
LEMMA SliceFacts ==
  ASSUME NEW T, NEW s \in Seq(T), NEW from \in Nat, NEW n \in Nat
  PROVE  /\ Slice(s, from, n) \in Seq(T)
         /\ from + n <= Len(s) => Len(Slice(s, from, n)) = n
         /\ from <= Len(s) /\ Len(s) < from + n => Len(Slice(s, from, n)) = Len(s) - from
         /\ \A i \in 1 .. Len(Slice(s, from, n)) : Slice(s, from, n)[i] = s[from + i]
<1>1. PICK l \in Nat : l = Len(s)
  OBVIOUS
<1>2. PICK to \in Nat : to = (IF from + n < l THEN from + n ELSE l) /\ to <= l
  BY <1>1
<1>3. PICK c : c = SubSeq(s, from + 1, to)
  OBVIOUS
<1>4. Slice(s, from, n) = c
  BY <1>1, <1>2, <1>3 DEF Slice
<1>5. PICK first \in Int : first = from + 1
  OBVIOUS
<1>6. \A i \in first .. to : s[i] \in T
  BY <1>1, <1>2, <1>5
<1>7. /\ c \in Seq(T)
      /\ Len(c) = IF first <= to THEN (to - first) + 1 ELSE 0
      /\ \A i \in 1 .. (to - first) + 1 : c[i] = s[(first + i) - 1]
  <2>1. to \in Int /\ c = SubSeq(s, first, to)
    BY <1>3, <1>5
  <2> QED BY <1>6, <2>1, SubSeqProperties
<1>8. \A i \in 1 .. (to - first) + 1 : (first + i) - 1 = from + i
  BY <1>5
<1>9. \A i \in 1 .. Len(c) : c[i] = s[from + i]
  BY <1>2, <1>5, <1>7, <1>8
<1>10. (from + n <= l => Len(c) = n) /\ (from <= l /\ l < from + n => Len(c) = l - from)
  BY <1>1, <1>2, <1>5, <1>7
<1> QED BY <1>1, <1>4, <1>7, <1>9, <1>10

LEMMA SliceFirst ==
  ASSUME NEW T, NEW s \in Seq(T), NEW n \in Nat
  PROVE  /\ Slice(s, 0, n) \in Seq(T)
         /\ Len(Slice(s, 0, n)) = IF n <= Len(s) THEN n ELSE Len(s)
         /\ \A i \in 1 .. Len(Slice(s, 0, n)) : Slice(s, 0, n)[i] = s[i]
<1>1. PICK z \in Nat : z = 0
  OBVIOUS
<1>2. z \in Nat
  BY <1>1
<1>3. /\ Slice(s, z, n) \in Seq(T)
      /\ z + n <= Len(s) => Len(Slice(s, z, n)) = n
      /\ z <= Len(s) /\ Len(s) < z + n => Len(Slice(s, z, n)) = Len(s) - z
      /\ \A i \in 1 .. Len(Slice(s, z, n)) : Slice(s, z, n)[i] = s[z + i]
  BY <1>2, SliceFacts
<1>4. PICK c : c = Slice(s, z, n)
  OBVIOUS
<1>5. c \in Seq(T) /\ Len(c) \in Nat /\ Len(s) \in Nat
  BY <1>3, <1>4
<1>6. Len(c) = IF n <= Len(s) THEN n ELSE Len(s)
  BY <1>1, <1>3, <1>4, <1>5
<1>7. \A i \in 1 .. Len(c) : c[i] = s[i]
  BY <1>1, <1>3, <1>4, <1>5
<1> QED BY <1>1, <1>4, <1>5, <1>6, <1>7

LEMMA ReverseFacts ==
  ASSUME NEW T, NEW s \in Seq(T)
  PROVE  /\ Reverse(s) \in Seq(T) /\ Len(Reverse(s)) = Len(s)
         /\ \A i \in 1 .. Len(s) : Reverse(s)[i] = s[Len(s) + 1 - i]
<1>1. PICK l \in Nat : l = Len(s)
  OBVIOUS
<1>2. PICK c : c = [i \in 1 .. l |-> s[(l - i) + 1]]
  OBVIOUS
<1>3. \A i \in 1 .. l : (l - i) + 1 \in 1 .. l /\ (l - i) + 1 = l + 1 - i
  BY <1>1
<1>4. \A i \in 1 .. l : s[(l - i) + 1] \in T
  BY <1>1, <1>3
<1>5. c \in Seq(T) /\ Len(c) = l
  BY <1>2, <1>4
<1>6. Reverse(s) = c
  BY <1>1, <1>2 DEF Reverse
<1> QED BY <1>1, <1>2, <1>3, <1>5, <1>6

(* The pages cut of everything: item i is on the page where the division puts it. *)
LEMMA PagesCut ==
  ASSUME NEW T, NEW s \in Seq(T), NEW limit \in 1 .. MaxLimit, NEW i \in 1 .. Len(s),
         NEW n, n = ((i - 1) \div limit) + 1, NEW at, at = ((i - 1) % limit) + 1,
         NEW page, page = Paginate(s, n, limit, MaxLimit)
  PROVE  /\ at <= Len(page.items) /\ page.items[at] = s[i]
         /\ page.hasNext = (n * limit < Len(s))
<1>1. PICK l \in Nat : l = Len(s)
  OBVIOUS
<1>2. PICK d, r : d = (i - 1) \div limit /\ r = (i - 1) % limit
  OBVIOUS
<1>3. limit \in Nat \ {0} /\ i - 1 \in Nat
  BY DEF MaxLimit
<1>4. d \in Nat /\ r \in 0 .. (limit - 1) /\ i - 1 = d * limit + r
  BY <1>2, <1>3
<1>5. n = d + 1 /\ at = r + 1
  BY <1>2
<1>6. PICK start \in Nat : start = d * limit
  BY <1>3, <1>4
<1>7. Start(n, limit) = start /\ n * limit = start + limit
  BY <1>3, <1>4, <1>5, <1>6 DEF Start
<1>8. (IF limit < MaxLimit THEN limit ELSE MaxLimit) = limit
  BY DEF MaxLimit
<1>9. page = [items |-> Slice(s, start, limit), hasNext |-> start + limit < l]
  BY <1>1, <1>7, <1>8 DEF Paginate
<1>b. PICK b : b = (start + limit < l)
  OBVIOUS
<1>10. page.items = Slice(s, start, limit) /\ page.hasNext = b
  BY <1>9, <1>b
<1>11. PICK c : c = Slice(s, start, limit)
  OBVIOUS
<1>12. /\ c \in Seq(T)
       /\ start + limit <= l => Len(c) = limit
       /\ start <= l /\ l < start + limit => Len(c) = l - start
       /\ \A j \in 1 .. Len(c) : c[j] = s[start + j]
  <2>1. start \in Nat /\ limit \in Nat
    BY <1>3, <1>6
  <2>2. /\ Slice(s, start, limit) \in Seq(T)
        /\ start + limit <= Len(s) => Len(Slice(s, start, limit)) = limit
        /\ start <= Len(s) /\ Len(s) < start + limit => Len(Slice(s, start, limit)) = Len(s) - start
        /\ \A j \in 1 .. Len(Slice(s, start, limit)) : Slice(s, start, limit)[j] = s[start + j]
    BY <2>1, SliceFacts
  <2> QED BY <1>1, <1>11, <2>2
<1>13. i = start + at /\ at \in 1 .. limit /\ i \in 1 .. l
  BY <1>1, <1>3, <1>4, <1>5, <1>6
<1>14. at \in 1 .. Len(c)
  <2>1. PICK m \in Nat : m = Len(c)
    BY <1>12
  <2>2. start \in Nat /\ start <= l /\ (start + limit <= l \/ l < start + limit)
    <3>1. start \in Nat /\ limit \in Nat
      BY <1>3, <1>6
    <3> QED BY <1>1, <1>13, <3>1
  <2>3. at \in 1 .. m
    BY <1>1, <1>3, <1>12, <1>13, <2>1, <2>2
  <2> QED BY <2>1, <2>3
<1>15. at <= Len(c) /\ c[at] = s[i]
  <2>1. c[at] = s[start + at]
    BY <1>12, <1>14
  <2>2. Len(c) \in Nat
    BY <1>12
  <2> QED BY <1>13, <1>14, <2>1, <2>2
<1> QED BY <1>1, <1>7, <1>b, <1>10, <1>11, <1>15

(* The first page, cut of rows that were cut to the page already. *)
LEMMA FirstPage ==
  ASSUME NEW T, NEW s \in Seq(T), NEW limit \in Nat, NEW most \in Nat, most >= limit \/ most = Len(s)
  PROVE  Shows(Paginate(Slice(Reverse(s), 0, limit), 1, limit, most), s, limit)
<1>1. PICK l \in Nat : l = Len(s)
  OBVIOUS
<1>2. PICK q \in Seq(T) : q = Reverse(s)
  BY ReverseFacts
<1>3. Len(q) = l /\ \A i \in 1 .. l : q[i] = s[l + 1 - i]
  BY <1>1, <1>2, ReverseFacts
<1>4. PICK cut \in Seq(T) : cut = Slice(q, 0, limit)
  BY SliceFirst
<1>5. PICK m \in Nat : m = IF l < limit THEN l ELSE limit
  BY <1>1
<1>6. Len(cut) = m /\ \A i \in 1 .. m : cut[i] = q[i]
  <2>1. Len(cut) = IF limit <= Len(q) THEN limit ELSE Len(q)
    BY <1>2, <1>4, SliceFirst
  <2>2. \A i \in 1 .. Len(cut) : cut[i] = q[i]
    BY <1>2, <1>4, SliceFirst
  <2> QED BY <1>1, <1>3, <1>5, <2>1, <2>2
<1>7. PICK safe \in Nat : safe = IF limit < most THEN limit ELSE most
  OBVIOUS
<1>8. m <= safe
  BY <1>1, <1>5, <1>7
<1>9. PICK c : c = Slice(cut, 0, safe)
  OBVIOUS
<1>10. Len(c) = m /\ \A i \in 1 .. m : c[i] = cut[i]
  <2>1. Len(c) = IF safe <= Len(cut) THEN safe ELSE Len(cut)
    BY <1>4, <1>7, <1>9, SliceFirst
  <2>2. \A i \in 1 .. Len(c) : c[i] = cut[i]
    BY <1>4, <1>7, <1>9, SliceFirst
  <2> QED BY <1>5, <1>6, <1>7, <1>8, <2>1, <2>2
<1>11. PICK page : page = Paginate(cut, 1, limit, most)
  OBVIOUS
<1>12. Start(1, safe) = 0
  BY DEF Start
<1>13. page = [items |-> Slice(cut, 0, safe), hasNext |-> 0 + safe < Len(cut)]
  BY <1>7, <1>11, <1>12 DEF Paginate
<1>14. page.items = c
  BY <1>9, <1>13
<1>15. \A i \in 1 .. m : i \in 1 .. l
  BY <1>1, <1>5
<1>16. Len(page.items) = m /\ \A i \in 1 .. m : page.items[i] = s[l + 1 - i]
  BY <1>3, <1>6, <1>10, <1>14, <1>15
<1>17. Shows(page, s, limit)
  BY <1>1, <1>5, <1>16 DEF Shows
<1> QED BY <1>2, <1>4, <1>11, <1>17

LEMMA RowsPaged ==
  ASSUME NEW T, NEW s \in Seq(T), NEW limit \in Nat
  PROVE  Shows(DbPage(Reverse(s), 1, limit), s, limit)
<1>1. Len(Reverse(s)) = Len(s) /\ Len(s) \in Nat
  BY ReverseFacts
<1>2. PICK m \in Nat : m = Len(s)
  OBVIOUS
<1>3. Shows(Paginate(Slice(Reverse(s), 0, limit), 1, limit, m), s, limit)
  BY <1>2, FirstPage
<1>4. DbPage(Reverse(s), 1, limit) = Paginate(Slice(Reverse(s), 0, limit), 1, limit, m)
  <2>1. (1 - 1) * limit = 0
    OBVIOUS
  <2> QED BY <1>1, <1>2, <2>1 DEF DbPage
<1> QED BY <1>3, <1>4

LEMMA ListsPage == RowsTyped => ListPages
<1> SUFFICES ASSUME RowsTyped, NEW limit \in 1 .. 2
    PROVE
    /\ \A i \in 1 .. Len(Named) :
         LET n == ((i - 1) \div limit) + 1  at == ((i - 1) % limit) + 1  page == ListExecutions(n, limit)
         IN /\ at <= Len(page.items) /\ page.items[at] = Reverse(Named)[i]
            /\ page.hasNext <=> n * limit < Len(Named)
    /\ Shows(ListTraces(1, limit), Numbered, limit) /\ Shows(ListChannels(1, limit), channels, limit)
    /\ Shows(ListRules(1, limit), rules, limit) /\ Shows(ListPolicies(1, limit), policies, limit)
  BY DEF ListPages
<1>1. limit \in Nat /\ limit \in 1 .. MaxLimit /\ MaxLimit \in Nat /\ MaxLimit >= limit
  BY DEF MaxLimit
<1>2. PICK T : T = [id : Nat, named : BOOLEAN]
  OBVIOUS
<1>3. Numbered \in Seq(T) /\ Len(Numbered) = Len(runs)
  <2>1. PICK l \in Nat : l = Len(runs)
    BY DEF RowsTyped
  <2>2. \A i \in 1 .. l : [id |-> i, named |-> runs[i].named] \in T
    <3>1. \A i \in 1 .. l : runs[i] \in RunRow
      BY <2>1 DEF RowsTyped
    <3>2. \A i \in 1 .. l : i \in Nat /\ runs[i].named \in BOOLEAN
      BY <3>1 DEF RunRow
    <3> QED BY <1>2, <3>2
  <2>3. Numbered = [i \in 1 .. l |-> [id |-> i, named |-> runs[i].named]]
    BY <2>1 DEF Numbered
  <2> QED BY <2>1, <2>2, <2>3
<1>4. Named \in Seq(T)
  <2>1. {i \in DOMAIN runs : runs[i].named} \in SUBSET (DOMAIN Numbered)
    <3>1. DOMAIN Numbered = 1 .. Len(runs)
      BY DEF Numbered
    <3>2. DOMAIN runs = 1 .. Len(runs)
      BY DEF RowsTyped
    <3> QED BY <3>1, <3>2
  <2> QED BY <1>3, <2>1, KeepFacts DEF Named
<1>5. ASSUME NEW i \in 1 .. Len(Named), NEW n, n = ((i - 1) \div limit) + 1, NEW at, at = ((i - 1) % limit) + 1,
             NEW page, page = ListExecutions(n, limit)
      PROVE  /\ at <= Len(page.items) /\ page.items[at] = Reverse(Named)[i]
             /\ page.hasNext <=> n * limit < Len(Named)
  <2>1. PICK q \in Seq(T) : q = Reverse(Named)
    BY <1>4, ReverseFacts
  <2>2. Len(q) = Len(Named)
    BY <1>4, <2>1, ReverseFacts
  <2>3. page = Paginate(q, n, limit, MaxLimit)
    BY <1>5, <2>1 DEF ListExecutions
  <2>4. at <= Len(page.items) /\ page.items[at] = q[i] /\ page.hasNext = (n * limit < Len(q))
    <3>1. i \in 1 .. Len(q)
      BY <2>2
    <3> QED BY <1>1, <1>5, <2>3, <3>1, PagesCut, SMTT(30)
  <2> QED BY <2>1, <2>2, <2>4
<1>6. Shows(ListTraces(1, limit), Numbered, limit)
  BY <1>1, <1>3, FirstPage DEF ListTraces
<1>7. Shows(ListChannels(1, limit), channels, limit)
  BY <1>1, RowsPaged DEF ListChannels, RowsTyped
<1>8. Shows(ListRules(1, limit), rules, limit)
  BY <1>1, RowsPaged DEF ListRules, RowsTyped
<1>9. Shows(ListPolicies(1, limit), policies, limit)
  BY <1>1, RowsPaged DEF ListPolicies, RowsTyped
<1> QED BY <1>5, <1>6, <1>7, <1>8, <1>9

(* The pages of every list are those of the rows, whatever calls do to the rows between *)
(* two requests.                                                                         *)
THEOREM ListsArePaged == RestSpec => []ListPages
<1>1. RestInit => RowsTyped
  BY RowsStart
<1>2. RestInv /\ RowsTyped /\ [RestNext]_restVars => RowsTyped'
  <2> SUFFICES ASSUME RestInv, RowsTyped, [RestNext]_restVars PROVE RowsTyped'
    OBVIOUS
  <2>1. CallsTrue
    BY DEF RestInv
  <2>2. CASE UNCHANGED restVars
    BY <2>2 DEF restVars, rowVars, RowsTyped
  <2> QED BY <2>1, <2>2, RowsKept
<1> QED BY <1>1, <1>2, ListsPage, RestInvariant, PTL DEF RestSpec
=============================================================================
