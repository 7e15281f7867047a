----------------------------- MODULE AccessProofs -----------------------------
(***************************************************************************)
(* The safety of Access, for every set of users, sessions, roles and       *)
(* requests, and every life of a token.                                    *)
(*                                                                         *)
(* A request signs with the roles and at the time that it has read before; *)
(* its session may end in between.  What can be said is that the roles     *)
(* were those of the account since the request began (Sound), and that an  *)
(* access JWT was signed before its session ended or expired               *)
(* (SignedInLife): a rotation is refused unless the session is active when *)
(* it commits, and a session that has ended never lives again.             *)
(***************************************************************************)
EXTENDS Access, TLAPS

SessionRow == [status : {"none", "active", "expired", "compromised", "revoked"},
               user : User \cup {None}, exp : Nat]

TokenRow == [status : {"none", "active", "rotated", "revoked", "expired"},
             sid : SessionId \cup {None}, user : User \cup {None}, exp : Nat,
             next : TokenId \cup {None}, prev : TokenId \cup {None}]

\* The session tables.  A token belongs to a session and a user.
StoreOK ==
  /\ now \in 0..MaxTime
  /\ sess \in [SessionId -> SessionRow]
  /\ tok \in [TokenId -> TokenRow]
  /\ \A t \in TokenId : tok[t].status # "none" => tok[t].sid \in SessionId /\ tok[t].user \in User

\* What a request knows: q is its record.
Sound(q) ==
  /\ q.pc # "idle" => q.user \in User
  /\ q.tid # None => tok[q.tid].status # "none"
  /\ q.at <= now
  /\ q.pc = "roles" => roles[q.user] \in q.held
  /\ q.pc \in {"sign", "commit"} => q.roles \in q.held

\* An access JWT was signed in the past, and before the end of its session.
SignedInLife(j) ==
  /\ j.sub \in User /\ j.sid \in SessionId /\ j.iat \in Nat
  /\ j.iat <= now
  /\ sess[j.sid].status # "none"
  /\ j.iat <= sess[j.sid].exp
  /\ sess[j.sid].status # "active" => j.iat <= ended[j.sid]

IInv == /\ TypeOK
        /\ StoreOK
        /\ \A r \in Req : Sound(req[r])
        /\ \A j \in issued : SignedInLife(j)

USE AccessAssumption

-----------------------------------------------------------------------------
(* Records and JWTs.                                                       *)

LEMMA FreshType ==
  ASSUME NEW pc \in {"idle", "roles", "sign", "commit", "users", "profiles", "written"},
         NEW u \in User \cup {None}, NEW t \in TokenId \cup {None},
         NEW held \in SUBSET SUBSET Role, NEW in \in Inputs \cup {NoUpdate}
  PROVE  Fresh(pc, u, t, held, in) \in Request
BY DEF Fresh, Request

LEMMA IdleType == Idle \in Request /\ Idle.pc = "idle" /\ Idle.at = 0 /\ Idle.tid = None
BY FreshType DEF Idle, Fresh

LEMMA RequestFields ==
  ASSUME NEW q \in Request
  PROVE  /\ \A x \in {"roles", "sign", "commit", "profiles", "written"} :
              [q EXCEPT !.pc = x] \in Request
         /\ \A x \in SUBSET Role : [q EXCEPT !.roles = x] \in Request
         /\ \A x \in Nat : [q EXCEPT !.at = x] \in Request
         /\ \A x \in SUBSET SUBSET Role : [q EXCEPT !.held = x] \in Request
BY DEF Request

\* What verifyAccessToken and verifyRefreshToken have found out.
LEMMA Verified ==
  ASSUME NEW j, NEW n
  PROVE  /\ VerifyAccess(j, n) = "ok" =>
              j.use = "access" /\ ~(n >= j.exp) /\ j.sub # None /\ j.sid # None
         /\ VerifyRefresh(j, n) = "ok" =>
              j.use = "refresh" /\ ~(n >= j.exp) /\ j.sub # None /\ j.sid # None /\ j.jti # None
<1>1. \A key : Signed(j, key, n) = "ok" => ~(n >= j.exp)
  BY Zenon DEF Signed
<1>2. \A set : Claims(set) = "ok" => None \notin set
  BY Zenon DEF Claims
<1>3. ASSUME VerifyAccess(j, n) = "ok"
      PROVE  Signed(j, AccessKey, n) = "ok" /\ j.use = "access" /\ Claims({j.sub, j.sid}) = "ok"
  BY <1>3, Zenon DEF VerifyAccess
<1>4. ASSUME VerifyRefresh(j, n) = "ok"
      PROVE  /\ Signed(j, RefreshKey, n) = "ok" /\ j.use = "refresh"
             /\ Claims({j.sub, j.sid, j.jti}) = "ok"
  BY <1>4, Zenon DEF VerifyRefresh
<1>5. VerifyAccess(j, n) = "ok" =>
        j.use = "access" /\ ~(n >= j.exp) /\ j.sub # None /\ j.sid # None
  BY <1>1, <1>2, <1>3
<1>6. VerifyRefresh(j, n) = "ok" =>
        j.use = "refresh" /\ ~(n >= j.exp) /\ j.sub # None /\ j.sid # None /\ j.jti # None
  BY <1>1, <1>2, <1>4
<1> QED BY <1>5, <1>6

\* A JWT that passes for an access JWT is one, and one that passes for a
\* refresh JWT was made from a row of the tokens, even if the secrets are the same.
LEMMA KindOfJwt ==
  ASSUME IInv, NEW j \in Wallet
  PROVE  /\ VerifyAccess(j, now) = "ok" => j \in issued /\ j.sub \in User
         /\ VerifyRefresh(j, now) = "ok" =>
              \E t \in TokenId : /\ j = RefreshJwt(t) /\ j.jti = t
                                 /\ j.sub = tok[t].user /\ j.sub \in User
                                 /\ j.sid = tok[t].sid /\ tok[t].status # "none"
<1>1. CASE j \in issued
  <2>1. j = SignAccess(j.sub, j.sid, j.roles, j.iat) /\ j.sub \in User
    BY <1>1 DEF IInv, TypeOK, SignedInLife
  <2>2. j.use = "access"
    BY <2>1 DEF SignAccess
  <2> QED BY <1>1, <2>1, <2>2, Verified
<1>2. CASE j \notin issued
  <2>1. PICK t \in TokenId : j = RefreshJwt(t) /\ tok[t].status # "none"
    BY <1>2 DEF Wallet
  <2>2. j.use = "refresh" /\ j.jti = t /\ j.sub = tok[t].user /\ j.sid = tok[t].sid
    BY <2>1 DEF RefreshJwt, SignRefresh
  <2>3. tok[t].user \in User \cup {None}
    BY DEF IInv, StoreOK, TokenRow
  <2> QED BY <2>1, <2>2, <2>3, Verified
<1> QED BY <1>1, <1>2

-----------------------------------------------------------------------------
(* The session tables.                                                     *)

\* How the tables may change: what has ended stays ended, and no life grows.
Onward ==
  /\ StoreOK' /\ now' = now
  /\ \A s \in SessionId :
       sess[s].status # "none" => /\ sess'[s].status # "none"
                                  /\ sess'[s].exp = sess[s].exp
                                  /\ sess[s].status # "active" => sess'[s].status # "active"
  /\ \A t \in TokenId : tok[t].status # "none" => tok'[t].status # "none"

LEMMA CreateOnward ==
  ASSUME IInv, NEW u \in User, Store!Create(u)
  PROVE  Onward
<1>1. StoreOK
  BY DEF IInv
<1>2. PICK s \in SessionId, n \in TokenId, at \in 0..now :
        /\ sess[s].status = "none" /\ tok[n].status = "none"
        /\ sess' = [sess EXCEPT ![s] = [status |-> "active", user |-> u, exp |-> at + Ttl]]
        /\ tok' = [tok EXCEPT ![n] =
                     [status |-> "active", sid |-> s, user |-> u, exp |-> at + Ttl,
                      next |-> None, prev |-> None]]
        /\ now' = now
  BY DEF Store!Create
<1>3. at + Ttl \in Nat
  BY <1>1 DEF StoreOK
<1> DEFINE new == [status |-> "active", sid |-> s, user |-> u, exp |-> at + Ttl,
                   next |-> None, prev |-> None]
<1>4. new \in TokenRow /\ new.sid \in SessionId /\ new.user \in User
  BY <1>3 DEF TokenRow
<1> HIDE DEF new
<1>5. tok' \in [TokenId -> TokenRow] /\ tok'[n] = new /\ \A t \in TokenId : t # n => tok'[t] = tok[t]
  BY <1>1, <1>2, <1>4 DEF StoreOK, new
<1>6. sess' \in [SessionId -> SessionRow] /\ \A x \in SessionId : x # s => sess'[x] = sess[x]
  BY <1>1, <1>2, <1>3 DEF StoreOK, SessionRow
<1>7. StoreOK'
  BY <1>1, <1>2, <1>4, <1>5, <1>6 DEF StoreOK
<1> QED BY <1>2, <1>5, <1>6, <1>7 DEF Onward

\* A rotation replaces one row and inserts one that lives from at on.
LEMMA ExchangeOnward ==
  ASSUME IInv, NEW t \in TokenId, Store!Exchange(t)
  PROVE  /\ Onward
         /\ sess' = sess /\ tok[t].sid \in SessionId /\ sess[tok[t].sid].status = "active"
         /\ \E n \in TokenId, at \in 0..now :
              /\ at < sess[tok[t].sid].exp
              /\ tok'[n].exp = at + Ttl
              /\ \A x \in TokenId : tok[x].status = "none" /\ tok'[x].status # "none" => x = n
<1>1. StoreOK
  BY DEF IInv
<1> DEFINE s == tok[t].sid
           new(n, at) == [status |-> "active", sid |-> s, user |-> tok[t].user,
                          exp |-> at + Ttl, next |-> None, prev |-> t]
<1>2. tok[t].status = "active" /\ sess[s].status = "active" /\ now' = now /\ sess' = sess
  BY DEF Store!Exchange
<1>3. PICK n \in TokenId, at \in 0..now :
        /\ tok[n].status = "none" /\ at < sess[s].exp
        /\ tok' = [tok EXCEPT ![t].status = "rotated", ![t].next = n, ![n] = new(n, at)]
  BY DEF Store!Exchange
<1>4. s \in SessionId /\ tok[t].user \in User /\ n # t
  BY <1>1, <1>2, <1>3 DEF StoreOK
<1>5. at + Ttl \in Nat
  BY <1>1 DEF StoreOK
<1> DEFINE row == new(n, at)
           old == [tok[t] EXCEPT !.status = "rotated", !.next = n]
<1>6. row \in TokenRow /\ row.sid \in SessionId /\ row.user \in User /\ row.exp = at + Ttl
  BY <1>4, <1>5 DEF TokenRow
<1>7. old \in TokenRow /\ old.status = "rotated" /\ old.sid = s /\ old.user = tok[t].user
  <2>1. tok[t] \in TokenRow
    BY <1>1 DEF StoreOK
  <2> QED BY <2>1 DEF TokenRow
<1>8. tok' = [tok EXCEPT ![t] = old, ![n] = row]
  BY <1>1, <1>3, <1>4 DEF StoreOK
<1> HIDE DEF row, old, s, new
<1>9. /\ tok' \in [TokenId -> TokenRow] /\ tok'[t] = old /\ tok'[n] = row
      /\ \A x \in TokenId : x \notin {t, n} => tok'[x] = tok[x]
  BY <1>1, <1>4, <1>6, <1>7, <1>8 DEF StoreOK
<1>10. StoreOK'
  BY <1>1, <1>2, <1>4, <1>6, <1>7, <1>9 DEF StoreOK
<1>11. Onward
  BY <1>2, <1>3, <1>7, <1>9, <1>10 DEF Onward
<1>12. \A x \in TokenId : tok[x].status = "none" /\ tok'[x].status # "none" => x = n
  BY <1>2, <1>9
<1> QED BY <1>2, <1>3, <1>4, <1>6, <1>9, <1>11, <1>12 DEF s

\* Sessions that are active end, and tokens with them.
LEMMA EndOnward ==
  ASSUME IInv, NEW S, \A s \in S \cap SessionId : sess[s].status = "active",
         NEW T, NEW how \in {"expired", "compromised", "revoked"}, Store!End(S, T, how),
         \A t \in T \cap TokenId : tok[t].status = "active"
  PROVE  Onward
<1>1. StoreOK
  BY DEF IInv
<1>2. ASSUME NEW s \in SessionId
      PROVE  /\ sess'[s] \in SessionRow /\ sess'[s].exp = sess[s].exp
             /\ s \in S => sess'[s].status = how
             /\ s \notin S => sess'[s] = sess[s]
  <2>1. sess[s] \in SessionRow
    BY <1>1 DEF StoreOK
  <2> QED BY <2>1 DEF Store!End, SessionRow
<1>3. ASSUME NEW t \in TokenId
      PROVE  /\ tok'[t] \in TokenRow /\ tok'[t].sid = tok[t].sid /\ tok'[t].user = tok[t].user
             /\ t \in T => tok'[t].status # "none"
             /\ t \notin T => tok'[t] = tok[t]
  <2>1. tok[t] \in TokenRow
    BY <1>1 DEF StoreOK
  <2> QED BY <2>1 DEF Store!End, TokenRow
<1>4. sess' \in [SessionId -> SessionRow] /\ tok' \in [TokenId -> TokenRow] /\ now' = now
  BY <1>2, <1>3 DEF Store!End
<1>5. \A t \in TokenId : tok'[t].status # "none" => tok[t].status # "none"
  BY <1>3
<1>6. StoreOK'
  BY <1>1, <1>3, <1>4, <1>5 DEF StoreOK
<1> QED BY <1>2, <1>3, <1>4, <1>6 DEF Onward

\* All that requests do with the tables, but for a login and a rotation.
LEMMA EndingsOnward ==
  ASSUME IInv, NEW s, NEW u,
         \/ Store!Expire(s) \/ Store!Compromise(s) \/ Store!Logout(s) \/ Store!RevokeAll(u)
         \/ UNCHANGED <<now, sess, tok>>
  PROVE  Onward
<1>1. ASSUME Store!Expire(s) \/ Store!Compromise(s) \/ Store!Logout(s) PROVE Onward
  <2>1. PICK how \in {"expired", "compromised", "revoked"} :
          Store!End({s}, Store!ActiveIn({s}), how)
    BY <1>1 DEF Store!Expire, Store!Compromise, Store!Logout
  <2>2. sess[s].status = "active"
    BY <1>1 DEF Store!Expire, Store!Compromise, Store!Logout
  <2> QED BY <2>1, <2>2, EndOnward DEF Store!ActiveIn
<1>2. ASSUME Store!RevokeAll(u) PROVE Onward
  <2>1. PICK S \in SUBSET Store!LiveOf(u), T \in SUBSET Store!ActiveOf(u) :
          Store!End(S, T, "revoked")
    BY <1>2 DEF Store!RevokeAll
  <2> QED BY <2>1, EndOnward DEF Store!LiveOf, Store!ActiveOf
<1>3. ASSUME UNCHANGED <<now, sess, tok>> PROVE Onward
  BY <1>3 DEF IInv, StoreOK, Onward
<1> QED BY <1>1, <1>2, <1>3

\* What has been issued stays signed within the life of its session.
LEMMA LivesKept ==
  ASSUME IInv, Onward, Remembered
  PROVE  /\ ended' \in [SessionId -> 0..MaxTime]
         /\ \A j \in issued : SignedInLife(j)'
<1>1. StoreOK /\ TypeOK /\ now \in 0..MaxTime
  BY DEF IInv, StoreOK
<1>2. ended' \in [SessionId -> 0..MaxTime]
  BY <1>1 DEF Remembered, TypeOK
<1>3. ASSUME NEW j \in issued PROVE SignedInLife(j)'
  <2> DEFINE s == j.sid
  <2>1. SignedInLife(j)
    BY DEF IInv
  <2>2. s \in SessionId /\ j.iat <= now /\ sess[s].status # "none"
    BY <2>1 DEF SignedInLife
  <2>3. /\ now' = now /\ sess'[s].status # "none" /\ sess'[s].exp = sess[s].exp
        /\ sess[s].status # "active" => sess'[s].status # "active"
    BY <2>2 DEF Onward
  <2>4. sess'[s].status # "active" => j.iat <= ended'[s]
    <3>1. CASE sess[s].status = "active"
      BY <2>2, <3>1 DEF Remembered
    <3>2. CASE sess[s].status # "active"
      BY <2>1, <2>2, <3>2 DEF Remembered, SignedInLife
    <3> QED BY <3>1, <3>2
  <2> QED BY <2>1, <2>3, <2>4 DEF SignedInLife
<1> QED BY <1>2, <1>3

-----------------------------------------------------------------------------
(* The invariant.                                                          *)

LEMMA InitIInv == Init => IInv
<1> SUFFICES ASSUME Init PROVE IInv
  OBVIOUS
<1>1. StoreOK
  BY DEF Init, Store!Init, Store!NoSession, Store!NoToken, StoreOK, SessionRow, TokenRow
<1>2. TypeOK
  BY IdleType DEF Init, TypeOK, Profile
<1>3. ASSUME NEW r \in Req PROVE Sound(req[r])
  BY <1>1, IdleType DEF Init, Sound, StoreOK
<1> QED BY <1>1, <1>2, <1>3 DEF Init, IInv

\* A request goes on and nothing else changes of what concerns the others.
LEMMA RequestStep ==
  ASSUME IInv, NEW r \in Req, NEW new \in Request,
         req' = [req EXCEPT ![r] = new], Sound(new), Onward, roles' = roles
  PROVE  req' \in [Req -> Request] /\ \A q \in Req : Sound(req[q])'
<1>1. req \in [Req -> Request] /\ \A q \in Req : Sound(req[q])
  BY DEF IInv, TypeOK
<1>2. req'[r] = new /\ \A q \in Req : q # r => req'[q] = req[q]
  BY <1>1
<1>3. \A q \in Req : req[q].tid \in TokenId \cup {None}
  BY <1>1 DEF Request
<1> QED BY <1>1, <1>2, <1>3 DEF Sound, Onward, Request

\* A request goes on and nothing else changes.
LEMMA QuietStep ==
  ASSUME IInv, NEW r \in Req, NEW new \in Request,
         req' = [req EXCEPT ![r] = new], Sound(new),
         Unsaved, UNCHANGED <<roles, issued>>, profile' \in [User -> Profile]
  PROVE  IInv'
<1>1. Onward
  BY EndingsOnward DEF Unsaved
<1>2. req' \in [Req -> Request] /\ \A q \in Req : Sound(req[q])'
  BY <1>1, RequestStep
<1>3. TypeOK'
  BY <1>2 DEF IInv, TypeOK, Unsaved
<1>4. \A j \in issued' : SignedInLife(j)'
  BY DEF IInv, SignedInLife, Unsaved
<1> QED BY <1>1, <1>2, <1>3, <1>4 DEF IInv, Onward

\* Logins and refreshes up to their commit.
LEMMA SigningSteps ==
  ASSUME IInv, NEW r \in Req,
         \/ \E u \in User : StartLogin(r, u)
         \/ \E j \in Wallet : StartRefresh(r, j)
         \/ ReadRoles(r) \/ Sign(r)
  PROVE  IInv'
<1>0. /\ TypeOK /\ req[r] \in Request /\ Sound(req[r])
      /\ now \in Nat /\ profile \in [User -> Profile]
  BY DEF IInv, TypeOK, StoreOK
<1>1. ASSUME NEW u \in User, NEW t \in TokenId \cup {None},
             t # None => tok[t].status # "none",
             req' = [req EXCEPT ![r] = Fresh("roles", u, t, {roles[u]}, NoUpdate)],
             Unsaved, UNCHANGED <<roles, profile, issued>>
      PROVE  IInv'
  <2> DEFINE new == Fresh("roles", u, t, {roles[u]}, NoUpdate)
  <2>1. roles[u] \in SUBSET Role
    BY <1>0 DEF TypeOK
  <2>2. new \in Request
    BY <2>1, FreshType
  <2>3. Sound(new)
    BY <1>0, <1>1 DEF Sound, Fresh
  <2>4. req' = [req EXCEPT ![r] = new]
    BY <1>1
  <2> HIDE DEF new
  <2> QED BY <1>0, <1>1, <2>2, <2>3, <2>4, QuietStep
<1>2. ASSUME NEW u \in User, StartLogin(r, u) PROVE IInv'
  BY <1>1, <1>2 DEF StartLogin
<1>3. ASSUME NEW j \in Wallet, StartRefresh(r, j) PROVE IInv'
  <2>1. j.sub \in User /\ j.jti \in TokenId /\ tok[j.jti].status # "none"
    BY <1>3, KindOfJwt DEF StartRefresh
  <2> QED BY <1>1, <1>3, <2>1 DEF StartRefresh
<1>4. ASSUME ReadRoles(r) PROVE IInv'
  <2> DEFINE set == roles[req[r].user]
             mid == [req[r] EXCEPT !.pc = "sign"]
             new == [mid EXCEPT !.roles = set]
  <2>1. set \in SUBSET Role /\ set \in req[r].held
    BY <1>0, <1>4 DEF ReadRoles, Sound, TypeOK
  <2>2. mid \in Request
    BY <1>0, RequestFields
  <2>3. new \in Request
    BY <2>1, <2>2, RequestFields
  <2>4. new = [req[r] EXCEPT !.pc = "sign", !.roles = set]
    BY <1>0 DEF Request
  <2>5. req' = [req EXCEPT ![r] = new]
    BY <1>0, <1>4, <2>4 DEF ReadRoles, TypeOK
  <2>6. new.pc = "sign" /\ new.roles = set /\ new.held = req[r].held
        /\ new.user = req[r].user /\ new.at = req[r].at /\ new.tid = req[r].tid
    BY <1>0, <2>4 DEF Request
  <2> HIDE DEF set, mid, new
  <2>7. Sound(new)
    BY <1>0, <1>4, <2>1, <2>6 DEF Sound, ReadRoles
  <2> QED BY <1>0, <1>4, <2>3, <2>5, <2>7, QuietStep DEF ReadRoles
<1>5. ASSUME Sign(r) PROVE IInv'
  <2> DEFINE mid == [req[r] EXCEPT !.pc = "commit"]
             new == [mid EXCEPT !.at = now]
  <2>1. mid \in Request
    BY <1>0, RequestFields
  <2>2. new \in Request
    BY <1>0, <2>1, RequestFields
  <2>3. new = [req[r] EXCEPT !.pc = "commit", !.at = now]
    BY <1>0 DEF Request
  <2>4. req' = [req EXCEPT ![r] = new]
    BY <1>0, <1>5, <2>3 DEF Sign, TypeOK
  <2>5. new.pc = "commit" /\ new.roles = req[r].roles /\ new.held = req[r].held
        /\ new.user = req[r].user /\ new.at = now /\ new.tid = req[r].tid
    BY <1>0, <2>3 DEF Request
  <2> HIDE DEF mid, new
  <2>6. Sound(new)
    BY <1>0, <1>5, <2>5 DEF Sound, Sign
  <2> QED BY <1>0, <1>5, <2>2, <2>4, <2>6, QuietStep DEF Sign
<1> QED BY <1>2, <1>3, <1>4, <1>5

\* The update of a profile, and a request that fails.
LEMMA PatchSteps ==
  ASSUME IInv, NEW r \in Req,
         \/ \E j \in Wallet, in \in Inputs : StartPatch(r, j, in)
         \/ WriteUsers(r) \/ WriteProfiles(r) \/ CommitPatch(r) \/ Abort(r)
  PROVE  IInv'
<1>0. /\ TypeOK /\ req[r] \in Request /\ Sound(req[r])
      /\ now \in Nat /\ profile \in [User -> Profile]
  BY DEF IInv, TypeOK, StoreOK
<1>1. ASSUME NEW j \in Wallet, NEW in \in Inputs, StartPatch(r, j, in) PROVE IInv'
  <2> DEFINE pc == IF in.display = Absent THEN "profiles" ELSE "users"
             new == Fresh(pc, j.sub, None, {}, in)
  <2>1. j.sub \in User
    BY <1>1, KindOfJwt DEF StartPatch
  <2>2. new \in Request
    BY <2>1, FreshType
  <2>3. Sound(new)
    BY <1>0, <2>1 DEF Sound, Fresh
  <2>4. req' = [req EXCEPT ![r] = new]
    BY <1>1 DEF StartPatch
  <2> HIDE DEF new
  <2> QED BY <1>0, <1>1, <2>2, <2>3, <2>4, QuietStep DEF StartPatch
<1>2. ASSUME WriteUsers(r) \/ WriteProfiles(r) PROVE IInv'
  <2>1. PICK pc \in {"profiles", "written"} : req' = [req EXCEPT ![r].pc = pc]
    BY <1>2 DEF WriteUsers, WriteProfiles
  <2> DEFINE new == [req[r] EXCEPT !.pc = pc]
  <2>2. new \in Request /\ req' = [req EXCEPT ![r] = new]
    BY <1>0, <2>1, RequestFields DEF TypeOK
  <2>3. Sound(new)
    BY <1>0, <1>2 DEF Sound, Request, WriteUsers, WriteProfiles
  <2> HIDE DEF new
  <2> QED BY <1>0, <1>2, <2>2, <2>3, QuietStep DEF WriteUsers, WriteProfiles
<1>3. Sound(Idle)
  BY <1>0, IdleType DEF Sound
<1>4. ASSUME CommitPatch(r) PROVE IInv'
  <2> DEFINE u == req[r].user
             row == Merged(profile[u], req[r].update)
  <2>1. u \in User /\ profile[u] \in Profile /\ req[r].update \in Update
    BY <1>0, <1>4 DEF CommitPatch, Sound, Request, Update, NoUpdate
  <2>2. row \in Profile
    BY <2>1 DEF Merged, Profile, Update
  <2>3. profile' \in [User -> Profile]
    BY <1>0, <1>4, <2>1, <2>2 DEF CommitPatch
  <2> QED BY <1>3, <1>4, <2>3, IdleType, QuietStep DEF CommitPatch
<1>5. ASSUME Abort(r) PROVE IInv'
  BY <1>0, <1>3, <1>5, IdleType, QuietStep DEF Abort
<1> QED BY <1>1, <1>2, <1>4, <1>5

\* A request commits and hands out an access JWT that it signed while its
\* session lived.
LEMMA HandOutStep ==
  ASSUME IInv, NEW r \in Req, req[r].pc = "commit", NEW s \in SessionId, HandOut(r, s),
         Onward, Remembered, UNCHANGED <<roles, profile>>,
         sess'[s].status = "active", req[r].at <= sess'[s].exp
  PROVE  IInv'
<1>0. PICK j : j = SignAccess(req[r].user, s, req[r].roles, req[r].at)
  OBVIOUS
<1>1. TypeOK /\ req[r] \in Request /\ Sound(req[r]) /\ now \in Nat /\ now' = now
  BY DEF IInv, TypeOK, StoreOK, Onward
<1>2. /\ issued' = issued \cup {j}
      /\ req' = [req EXCEPT ![r] = Idle]
  BY <1>0 DEF HandOut
<1>3. /\ j.sub = req[r].user /\ j.sid = s /\ j.iat = req[r].at /\ j.roles = req[r].roles
      /\ j = SignAccess(j.sub, j.sid, j.roles, j.iat)
  BY <1>0 DEF SignAccess
<1>4. req[r].user \in User /\ req[r].at \in Nat /\ req[r].at <= now
  BY <1>1 DEF Sound, Request
<1>5. SignedInLife(j)'
  BY <1>1, <1>3, <1>4 DEF SignedInLife
<1>6. /\ ended' \in [SessionId -> 0..MaxTime]
      /\ \A k \in issued' : SignedInLife(k)'
  BY <1>2, <1>5, LivesKept
<1>7. req' \in [Req -> Request] /\ \A q \in Req : Sound(req[q])'
  <2>1. Sound(Idle)
    BY <1>1, IdleType DEF Sound
  <2> QED BY <1>1, <1>2, <2>1, IdleType, RequestStep
<1>8. TypeOK'
  BY <1>1, <1>2, <1>3, <1>6, <1>7 DEF TypeOK
<1> QED BY <1>6, <1>7, <1>8 DEF IInv, Onward

LEMMA CommitLoginStep ==
  ASSUME IInv, NEW r \in Req, CommitLogin(r)
  PROVE  IInv'
<1>1. req[r] \in Request /\ Sound(req[r]) /\ req[r].pc = "commit"
  BY DEF IInv, TypeOK, CommitLogin
<1>2. req[r].user \in User /\ req[r].at \in Nat /\ Ttl \in Nat
  BY <1>1 DEF Sound, Request
<1>3. Onward
  BY <1>2, CreateOnward DEF CommitLogin
<1>4. PICK s \in SessionId : /\ sess'[s].status = "active"
                             /\ sess'[s].exp = req[r].at + Ttl
                             /\ HandOut(r, s)
  BY DEF CommitLogin
<1>5. req[r].at <= sess'[s].exp
  BY <1>2, <1>4
<1> QED BY <1>1, <1>3, <1>4, <1>5, HandOutStep DEF CommitLogin

LEMMA CommitRefreshStep ==
  ASSUME IInv, NEW r \in Req, CommitRefresh(r)
  PROVE  IInv'
<1> DEFINE t == req[r].tid
           s == tok[t].sid
<1>1. req[r] \in Request /\ req[r].pc = "commit" /\ t \in TokenId /\ req[r].at \in Nat
  BY DEF IInv, TypeOK, CommitRefresh, Request
<1>2. Store!Exchange(t) /\ HandOut(r, s) /\ Remembered /\ UNCHANGED <<roles, profile>>
  BY DEF CommitRefresh
<1>3. PICK m \in TokenId : /\ tok[m].status = "none" /\ tok'[m].status = "active"
                           /\ tok'[m].exp = req[r].at + Ttl
  BY DEF CommitRefresh
<1>4. Onward /\ sess' = sess /\ s \in SessionId /\ sess[s].status = "active"
  BY <1>1, <1>2, ExchangeOnward
<1>5. PICK n \in TokenId, at \in 0..now :
        /\ at < sess[s].exp
        /\ tok'[n].exp = at + Ttl
        /\ \A x \in TokenId : tok[x].status = "none" /\ tok'[x].status # "none" => x = n
  BY <1>1, <1>2, ExchangeOnward
<1>6. m = n
  BY <1>3, <1>5
<1>7. at = req[r].at
  <2>1. at \in Nat /\ Ttl \in Nat /\ at + Ttl = req[r].at + Ttl
    BY <1>3, <1>5, <1>6 DEF IInv, StoreOK
  <2> QED BY <1>1, <2>1
<1>8. sess[s].exp \in Nat
  BY <1>4 DEF IInv, StoreOK, SessionRow
<1> QED BY <1>1, <1>2, <1>4, <1>5, <1>7, <1>8, HandOutStep

\* A refusal, a logout or a reset: sessions may end, nothing is handed out.
LEMMA EndingSteps ==
  ASSUME IInv,
         \/ \E r \in Req : Refused(r)
         \/ \E j \in Wallet : Logout(j) \/ LogoutAll(j)
         \/ \E u \in User : Reset(u)
  PROVE  IInv'
<1>1. Onward /\ Remembered /\ UNCHANGED <<roles, profile, issued>>
  BY EndingsOnward DEF Refused, Logout, LogoutAll, Reset
<1>2. /\ ended' \in [SessionId -> 0..MaxTime]
      /\ \A j \in issued' : SignedInLife(j)'
  BY <1>1, LivesKept
<1>3. now' = now /\ StoreOK' /\ TypeOK /\ now \in Nat
  BY <1>1 DEF Onward, IInv, StoreOK
<1>4. req' \in [Req -> Request] /\ \A q \in Req : Sound(req[q])'
  <2>1. CASE req' = req
    BY <1>1, <1>3, <2>1 DEF IInv, TypeOK, Sound, Onward, Request
  <2>2. CASE \E r \in Req : req' = [req EXCEPT ![r] = Idle]
    <3>1. Sound(Idle)
      BY <1>3, IdleType DEF Sound
    <3> QED BY <1>1, <1>3, <2>2, <3>1, IdleType, RequestStep
  <2> QED BY <2>1, <2>2 DEF Refused, Logout, LogoutAll, Reset
<1>5. TypeOK'
  BY <1>1, <1>2, <1>3, <1>4 DEF TypeOK
<1> QED BY <1>2, <1>3, <1>4, <1>5 DEF IInv

\* Requests under way have the new roles among those the account has had.
LEMMA ChangeRolesStep ==
  ASSUME IInv, NEW u \in User, ChangeRoles(u)
  PROVE  IInv'
<1>1. TypeOK /\ Unsaved /\ UNCHANGED <<profile, issued>>
  BY DEF IInv, ChangeRoles
<1>2. PICK x \in Role :
        roles' = [roles EXCEPT ![u] = IF x \in @ THEN @ \ {x} ELSE @ \cup {x}]
  BY DEF ChangeRoles
<1>3. roles' \in [User -> SUBSET Role] /\ \A v \in User : v # u => roles'[v] = roles[v]
  BY <1>1, <1>2 DEF TypeOK
<1> DEFINE Told(q) == req[q].pc \in {"roles", "sign", "commit"} /\ req[q].user = u
           new(q) == [req[q] EXCEPT !.held = @ \cup {roles'[u]}]
<1>4. req' = [q \in Req |-> IF Told(q) THEN new(q) ELSE req[q]]
  BY DEF ChangeRoles
<1>5. ASSUME NEW q \in Req PROVE req'[q] \in Request /\ Sound(req[q])'
  <2>1. req[q] \in Request /\ Sound(req[q])
    BY <1>1 DEF IInv, TypeOK
  <2>2. CASE Told(q)
    <3>1. req'[q] = [req[q] EXCEPT !.held = @ \cup {roles'[u]}]
      BY <1>4, <2>2
    <3>2. req[q].held \cup {roles'[u]} \in SUBSET SUBSET Role
      BY <1>3, <2>1 DEF Request
    <3>3. req'[q] \in Request
      BY <2>1, <3>1, <3>2, RequestFields
    <3>4. /\ req'[q].pc = req[q].pc /\ req'[q].user = u /\ req'[q].at = req[q].at
          /\ req'[q].tid = req[q].tid
          /\ req'[q].roles = req[q].roles /\ req'[q].held = req[q].held \cup {roles'[u]}
      BY <2>1, <2>2, <3>1 DEF Request
    <3>5. Sound(req[q])'
      BY <1>1, <2>1, <3>4 DEF Sound, Unsaved
    <3> QED BY <3>3, <3>5
  <2>3. CASE ~Told(q)
    <3>1. req'[q] = req[q]
      BY <1>4, <2>3
    <3>2. req[q].pc = "roles" => req[q].user \in User /\ req[q].user # u
      BY <2>1, <2>3 DEF Sound
    <3>3. Sound(req[q])'
      BY <1>1, <1>3, <2>1, <3>1, <3>2 DEF Sound, Unsaved
    <3> QED BY <2>1, <3>1, <3>3
  <2> QED BY <2>2, <2>3
<1> HIDE DEF Told, new
<1>6. TypeOK'
  BY <1>1, <1>3, <1>4, <1>5 DEF TypeOK, Unsaved
<1>7. StoreOK' /\ \A j \in issued' : SignedInLife(j)'
  BY <1>1 DEF IInv, StoreOK, SignedInLife, Unsaved
<1> QED BY <1>5, <1>6, <1>7 DEF IInv

LEMMA TickStep ==
  ASSUME IInv, Tick
  PROVE  IInv'
<1>1. /\ now < MaxTime /\ now' = now + 1 /\ issued' \subseteq issued
      /\ UNCHANGED <<sess, tok, ended, roles, profile, req>>
  BY DEF Tick, Store!Tick
<1>2. TypeOK'
  BY <1>1 DEF IInv, TypeOK
<1>3. now \in Nat /\ StoreOK'
  BY <1>1 DEF IInv, StoreOK
<1>4. ASSUME NEW q \in Req PROVE Sound(req[q])'
  <2>1. Sound(req[q]) /\ req[q].at \in Nat
    BY DEF IInv, TypeOK, Request
  <2> QED BY <1>1, <1>3, <2>1 DEF Sound
<1>5. ASSUME NEW j \in issued' PROVE SignedInLife(j)'
  <2>1. SignedInLife(j)
    BY <1>1 DEF IInv
  <2> QED BY <1>1, <1>3, <2>1 DEF SignedInLife
<1> QED BY <1>2, <1>3, <1>4, <1>5 DEF IInv

LEMMA StepIInv == IInv /\ [Next]_vars => IInv'
<1> SUFFICES ASSUME IInv, [Next]_vars PROVE IInv'
  OBVIOUS
<1>1. CASE UNCHANGED vars
  BY <1>1 DEF vars, IInv, TypeOK, StoreOK, Sound, SignedInLife
<1> QED BY <1>1, SigningSteps, CommitLoginStep, CommitRefreshStep, PatchSteps, EndingSteps,
           ChangeRolesStep, TickStep DEF Next

-----------------------------------------------------------------------------
(* What a step may do.                                                     *)

\* Only a commit hands out an access JWT, with the roles of its request.
LEMMA RolesStep ==
  ASSUME IInv, [Next]_vars
  PROVE  \A j \in issued' \ issued :
           \E r \in Req : /\ req[r].pc = "commit" /\ req[r].user = j.sub
                          /\ j.roles \in req[r].held
<1> DEFINE Goal == \A j \in issued' \ issued :
                     \E r \in Req : /\ req[r].pc = "commit" /\ req[r].user = j.sub
                                    /\ j.roles \in req[r].held
<1>1. ASSUME NEW r \in Req, NEW s, req[r].pc = "commit", HandOut(r, s) PROVE Goal
  <2>1. Sound(req[r])
    BY DEF IInv
  <2> QED BY <1>1, <2>1 DEF HandOut, SignAccess, Sound
<1>2. issued' \subseteq issued => Goal
  OBVIOUS
<1> HIDE DEF Goal
<1>3. ASSUME NEW r \in Req, CommitLogin(r) \/ CommitRefresh(r) PROVE Goal
  BY <1>1, <1>3 DEF CommitLogin, CommitRefresh
<1>4. ASSUME NEW r \in Req,
             \/ \E u \in User : StartLogin(r, u)
             \/ \E j \in Wallet : \/ StartRefresh(r, j)
                                  \/ \E in \in Inputs : StartPatch(r, j, in)
             \/ ReadRoles(r) \/ Sign(r) \/ Refused(r)
             \/ WriteUsers(r) \/ WriteProfiles(r) \/ CommitPatch(r) \/ Abort(r)
      PROVE  issued' = issued
  BY <1>4 DEF StartLogin, StartRefresh, StartPatch, ReadRoles, Sign, Refused, WriteUsers,
              WriteProfiles, CommitPatch, Abort
<1>5. ASSUME \/ \E j \in Wallet : Logout(j) \/ LogoutAll(j)
             \/ \E u \in User : ChangeRoles(u) \/ Reset(u)
             \/ UNCHANGED vars
      PROVE  issued' = issued
  BY <1>5 DEF Logout, LogoutAll, ChangeRoles, Reset, vars
<1>6. Tick => issued' \subseteq issued
  BY DEF Tick
<1>7. Goal
  BY <1>2, <1>3, <1>4, <1>5, <1>6 DEF Next
<1> QED BY <1>7 DEF Goal

\* Only the commit of an update changes a profile, from what it is then.
LEMMA ProfileStep ==
  ASSUME IInv, [Next]_vars, NEW u \in User, profile'[u] # profile[u]
  PROVE  \E r \in Req : /\ req[r].user = u /\ req'[r] = Idle
                        /\ profile'[u] = Merged(profile[u], req[r].update)
<1>1. ASSUME NEW r \in Req,
             \/ \E v \in User : StartLogin(r, v)
             \/ \E j \in Wallet : \/ StartRefresh(r, j)
                                  \/ \E in \in Inputs : StartPatch(r, j, in)
             \/ ReadRoles(r) \/ Sign(r) \/ CommitLogin(r) \/ CommitRefresh(r) \/ Refused(r)
             \/ WriteUsers(r) \/ WriteProfiles(r) \/ Abort(r)
      PROVE  profile' = profile
  BY <1>1 DEF StartLogin, StartRefresh, StartPatch, ReadRoles, Sign, CommitLogin,
              CommitRefresh, Refused, WriteUsers, WriteProfiles, Abort
<1>2. ASSUME \/ \E j \in Wallet : Logout(j) \/ LogoutAll(j)
             \/ \E v \in User : ChangeRoles(v) \/ Reset(v)
             \/ Tick \/ UNCHANGED vars
      PROVE  profile' = profile
  BY <1>2 DEF Logout, LogoutAll, ChangeRoles, Reset, Tick, vars
<1>3. PICK r \in Req : CommitPatch(r)
  BY <1>1, <1>2 DEF Next
<1>4. profile \in [User -> Profile] /\ req \in [Req -> Request]
  BY DEF IInv, TypeOK
<1>5. req[r].user = u
  BY <1>3, <1>4 DEF CommitPatch
<1> QED BY <1>3, <1>4, <1>5 DEF CommitPatch

\* What Access does to the session tables are operations of their contract.
LEMMA StoreStep ==
  ASSUME IInv, [Next]_vars
  PROVE  [Store!Next]_(Store!vars)
<1> DEFINE Same == UNCHANGED <<now, sess, tok>>
<1>1. ASSUME NEW r \in Req,
             \/ \E u \in User : StartLogin(r, u)
             \/ \E j \in Wallet : \/ StartRefresh(r, j)
                                  \/ \E in \in Inputs : StartPatch(r, j, in)
             \/ ReadRoles(r) \/ Sign(r)
             \/ WriteUsers(r) \/ WriteProfiles(r) \/ CommitPatch(r) \/ Abort(r)
      PROVE  Same
  BY <1>1 DEF StartLogin, StartRefresh, StartPatch, ReadRoles, Sign, WriteUsers,
              WriteProfiles, CommitPatch, Abort, Unsaved
<1>2. (\E u \in User : ChangeRoles(u)) \/ UNCHANGED vars => Same
  BY DEF ChangeRoles, Unsaved, vars
<1>3. Same => [Store!Next]_(Store!vars)
  BY DEF Store!vars
<1> HIDE DEF Same
<1>4. ASSUME NEW r \in Req, CommitLogin(r) PROVE Store!Next
  <2>1. req[r].user \in User
    BY <1>4 DEF IInv, Sound, CommitLogin
  <2> QED BY <1>4, <2>1 DEF CommitLogin, Store!Next
<1>5. ASSUME NEW r \in Req, CommitRefresh(r) PROVE Store!Next
  <2>1. req[r].tid \in TokenId
    BY <1>5 DEF IInv, TypeOK, Request, CommitRefresh
  <2> QED BY <1>5, <2>1 DEF CommitRefresh, Store!Next
<1>6. ASSUME NEW r \in Req, Refused(r) PROVE [Store!Next]_(Store!vars)
  <2>1. req[r].tid \in TokenId /\ tok[req[r].tid].status # "none"
    BY <1>6 DEF IInv, TypeOK, Sound, Request, Refused
  <2>2. tok[req[r].tid].sid \in SessionId
    BY <2>1 DEF IInv, StoreOK
  <2> QED BY <1>6, <2>2 DEF Refused, Store!Next, Store!vars
<1>7. ASSUME NEW j \in Wallet, Logout(j) PROVE Store!Next
  <2>1. j.sid \in SessionId
    BY <1>7, KindOfJwt DEF Logout, IInv, StoreOK
  <2> QED BY <1>7, <2>1 DEF Logout, Store!Next
<1>8. ASSUME NEW j \in Wallet, LogoutAll(j) PROVE Store!Next
  BY <1>8, KindOfJwt DEF LogoutAll, Store!Next
<1>9. ASSUME NEW u \in User, Reset(u) PROVE Store!Next
  BY <1>9 DEF Reset, Store!Next
<1>10. Tick => Store!Next
  BY DEF Tick, Store!Next
<1> QED BY <1>1, <1>2, <1>3, <1>4, <1>5, <1>6, <1>7, <1>8, <1>9, <1>10 DEF Next

-----------------------------------------------------------------------------
(* The theorems.                                                           *)

\* The invariant holds in every run of the service.
THEOREM Invariance == Spec => []IInv
BY InitIInv, StepIInv, PTL DEF Spec

\* Requests, profiles and JWTs keep their shape: an update never leaves a
\* profile with a field that was left out of the request.
THEOREM TypeCorrect == Spec => []TypeOK
<1>1. IInv => TypeOK
  BY DEF IInv
<1> QED BY <1>1, Invariance, PTL

\* The roles of an access JWT are those that login.service.ts or resolveRoles
\* read, hence of the account at some moment of the request.
THEOREM RolesAreOfTheRequest == Spec => RolesHeldMeanwhile
BY RolesStep, Invariance, PTL DEF Spec, RolesHeldMeanwhile

\* PATCH /users/me is all or nothing, and COALESCE keeps what it does not name.
THEOREM UpdatesAreWhole == Spec => UpdateWhole
<1>1. IInv /\ [Next]_vars =>
        \A u \in User : profile'[u] # profile[u] =>
          \E r \in Req : /\ req[r].user = u /\ req'[r] = Idle
                         /\ profile'[u] = Merged(profile[u], req[r].update)
  BY ProfileStep
<1> QED BY <1>1, Invariance, PTL DEF Spec, UpdateWhole

\* A revoked or expired session grants access for less than the life of an
\* access JWT: what was signed for it was signed before its end.
THEOREM RevocationWorks == Spec => []AccessEndsSoon
<1>1. ASSUME IInv, NEW j \in Wallet, VerifyAccess(j, now) = "ok"
      PROVE  now < EndOf(j.sid) + AccessTtl
  <2>1. j \in issued /\ ~(now >= j.exp)
    BY <1>1, KindOfJwt, Verified
  <2>2. j = SignAccess(j.sub, j.sid, j.roles, j.iat) /\ SignedInLife(j)
    BY <1>1, <2>1 DEF IInv, TypeOK
  <2>3. j.exp = j.iat + AccessTtl
    BY <2>2 DEF SignAccess
  <2>4. /\ sess[j.sid].exp \in Nat /\ ended[j.sid] \in Nat /\ now \in Nat
        /\ j.iat \in Nat /\ AccessTtl \in Nat
    BY <1>1, <2>2 DEF IInv, TypeOK, StoreOK, SessionRow, SignedInLife
  <2>5. EndOf(j.sid) \in Nat /\ j.iat <= EndOf(j.sid)
    BY <2>2, <2>4 DEF EndOf, SignedInLife
  <2> QED BY <2>1, <2>3, <2>4, <2>5
<1>2. IInv => AccessEndsSoon
  BY <1>1 DEF AccessEndsSoon
<1> QED BY <1>2, Invariance, PTL

\* Logins, refreshes, logouts and resets use the session tables only in ways
\* that their contract allows, each for a user, a session or a token that is
\* there.
THEOREM UsesTheContract == Spec => Store!Spec
<1>1. Init => Store!Init
  BY DEF Init
<1> QED BY <1>1, StoreStep, Invariance, PTL DEF Spec, Store!Spec

Kept == INSTANCE SessionContractProofs
          WITH User <- User, SessionId <- SessionId, TokenId <- TokenId,
               None <- None, Ttl <- Ttl, now <- now, sess <- sess, tok <- tok

\* So what the contract keeps holds for all that clients do: their refresh
\* JWTs name tokens that agree with their sessions, one of a session at most
\* can be exchanged, only while the session is active, and only once.
THEOREM WalletsStaySound ==
  Spec => [](Kept!OfItsSession /\ Kept!OneActive /\ Kept!ExchangedOnce)
<1>1. Kept!GoodConstants
  BY DEF Kept!GoodConstants
<1>2. Kept!Spec => []Kept!RowsOK
  BY <1>1, Kept!ContractSafe
<1>3. Store!Spec => Kept!Spec
  <2>1. Store!Init => Kept!Init
    BY DEF Store!Init, Kept!Init, Store!NoSession, Store!NoToken, Kept!NoSession, Kept!NoToken
  <2>2. [Store!Next]_<<now, sess, tok>> => [Kept!Next]_<<now, sess, tok>>
    BY DEF Store!Next, Kept!Next, Store!Create, Kept!Create, Store!RevokeAll, Kept!RevokeAll,
           Store!Exchange, Kept!Exchange, Store!Expire, Kept!Expire,
           Store!Compromise, Kept!Compromise, Store!Logout, Kept!Logout,
           Store!Tick, Kept!Tick, Store!End, Kept!End, Store!ActiveIn, Kept!ActiveIn,
           Store!ActiveOf, Kept!ActiveOf, Store!LiveOf, Kept!LiveOf
  <2> QED BY <2>1, <2>2, PTL DEF Store!Spec, Kept!Spec, Store!vars, Kept!vars
<1>4. Kept!RowsOK => Kept!OfItsSession /\ Kept!OneActive /\ Kept!ExchangedOnce
  BY DEF Kept!RowsOK
<1> QED BY <1>2, <1>3, <1>4, UsesTheContract, PTL
=============================================================================
