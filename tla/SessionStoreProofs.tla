------------------------- MODULE SessionStoreProofs -------------------------
(***************************************************************************)
(* The safety of SessionStore, for every set of accounts, ids and requests *)
(* and every lifetime.                                                     *)
(*                                                                         *)
(* None of the properties is inductive alone.  IInv adds to them what the  *)
(* code relies on: reserved ids are fresh and private to one request; a    *)
(* token belongs to an existing session of the same user; a locked session *)
(* is live and its owner is entitled to it; and the rows a transaction has *)
(* yet to visit, with those it has locked, cover what it must change.      *)
(***************************************************************************)
EXTENDS SessionStore, TLAPS

\* s is a session the revocation r is about, whatever has become of it.
About(r, s) ==
  /\ sess[s].status # "none"
  /\ IF req[r].op \in UserWide THEN sess[s].user = req[r].user
                               ELSE s = req[r].sid

\* A stored token belongs to a stored session of the same user.
RowsConsistent ==
  \A t \in TokenId : tok[t].status # "none" =>
    /\ tok[t].sid \in SessionId
    /\ tok[t].user \in User
    /\ sess[tok[t].sid].status # "none"
    /\ sess[tok[t].sid].user = tok[t].user

\* Reserved ids are not stored and nobody else has reserved them.
Reserved ==
  /\ \A r \in Req : req[r].new # None =>
       /\ tok[req[r].new].status = "none"
       /\ \A q \in Req : req[q].new = req[r].new => q = r
  /\ \A r \in Req : req[r].pc = "create" =>
       /\ sess[req[r].sid].status = "none"
       /\ \A q \in Req : req[q].sid = req[r].sid => q = r

\* What a rotation knows of the token it presents.
Exchanges(r) ==
  /\ req[r].tid \in TokenId
  /\ tok[req[r].tid].status # "none"
  /\ tok[req[r].tid].sid = req[r].sid
  /\ tok[req[r].tid].user = req[r].user
  /\ req[r].new \in TokenId

\* The operation and the fields that go with each control point.
StepFields(r) ==
  /\ req[r].pc = "idle" => req[r] = Idle
  /\ req[r].pc = "create" => /\ req[r].op = "create"
                             /\ req[r].sid \in SessionId
                             /\ req[r].user \in User
                             /\ req[r].new \in TokenId
  /\ req[r].pc \in {"rotate", "token"} => req[r].op = "rotate" /\ Exchanges(r)
  /\ req[r].pc \in {"begin", "sessions"} => req[r].op \in Revocations
  /\ req[r].pc \in {"sweep", "tokens"} => req[r].op \in Revocations \cup RotationEnds
  /\ req[r].op \in SingleSession \cup RotationEnds => req[r].sid \in SessionId
  /\ req[r].op \in UserWide => req[r].user \in User

\* A session it has locked is live, and the request is entitled to it.
OwnLocks(r) ==
  \A s \in SessionId : lockS[s] = r =>
    /\ Live(s)
    /\ req[r].pc \in {"token", "sessions", "sweep", "tokens"}
    /\ About(r, s)

\* A rotation past its first step holds its session, unexpired when checked.
RotationHolds(r) ==
  /\ req[r].pc = "token" \/ req[r].op \in RotationEnds => lockS[req[r].sid] = r
  /\ req[r].pc = "token" => req[r].at < sess[req[r].sid].exp

\* The snapshot of a revocation holds sessions it is about, and with the
\* sessions locked so far it covers the live ones among those it saw.
SnapshotCovers(r) ==
  /\ req[r].pc = "sessions" => \A s \in req[r].ss : About(r, s)
  /\ req[r].op \notin Revocations => req[r].seen = {}
  /\ req[r].op \in Revocations =>
       \A s \in req[r].seen :
         /\ About(r, s)
         /\ \/ req[r].pc = "begin"
            \/ ~Live(s)
            \/ lockS[s] = r
            \/ req[r].pc = "sessions" /\ s \in req[r].ss

\* The active tokens of the sessions about to be closed are in the snapshot of
\* the sweep or locked by it.
SweepCovers(r) ==
  req[r].pc = "tokens" =>
    \A t \in TokenId : tok[t].status = "active" /\ lockS[tok[t].sid] = r =>
      t \in req[r].ts \/ lockT[t] = r

\* The session of a second revocation exists and is closed.
FollowUpClosed(r) ==
  req[r].op = "reuse_detected" => sess[req[r].sid].status \notin {"none", "active"}

RequestOK(r) == /\ StepFields(r)
                /\ OwnLocks(r)
                /\ RotationHolds(r)
                /\ SnapshotCovers(r)
                /\ SweepCovers(r)
                /\ FollowUpClosed(r)

IInv ==
  /\ TypeOK
  /\ RowsConsistent
  /\ Reserved
  /\ \A r \in Req : RequestOK(r)
  /\ OneActiveToken
  /\ ClosedSessionTokens
  /\ RotationChain
  /\ SessionLifetime

-----------------------------------------------------------------------------
(* Type correctness.                                                       *)

USE ConstantsAssumption DEF SingleSession, UserWide, Revocations, RotationEnds

\* The verdicts on a rotation are among the results of the repository.
LEMMA VerdictValues ==
  ASSUME NEW r
  PROVE  Verdict(r) \in RotationEnds \cup
           {"session_missing", "session_revoked", "lock_token", "token_missing", "rotated"}
BY DEF Verdict, SessionVerdict, TokenVerdict

\* The lock tables keep their type when a request lets go of its rows.
LEMMA ReleaseType ==
  ASSUME TypeOK, NEW r \in Req, Release(r)
  PROVE  /\ lockS' \in [SessionId -> Req \cup {None}]
         /\ lockT' \in [TokenId -> Req \cup {None}]
BY DEF TypeOK, Release, Free

\* The record of an idle request has the type of a request.
LEMMA IdleType == Idle \in Request
BY DEF Idle, Fresh, Request, PC, Op

\* A request stays a request when one of its fields changes.
LEMMA RequestFields ==
  ASSUME NEW q \in Request
  PROVE  /\ \A x \in PC : [q EXCEPT !.pc = x] \in Request
         /\ \A x \in Op : [q EXCEPT !.op = x] \in Request
         /\ [q EXCEPT !.new = None] \in Request
         /\ \A x \in SUBSET SessionId : [q EXCEPT !.ss = x] \in Request
         /\ \A x \in SUBSET TokenId : [q EXCEPT !.ts = x] \in Request
BY DEF Request

\* Every step keeps every variable in its type.
LEMMA TypeStep == TypeOK /\ [Next]_vars => TypeOK'
<1> SUFFICES ASSUME TypeOK, [Next]_vars PROVE TypeOK'
    OBVIOUS
<1> USE DEF TypeOK
<1>1. ASSUME NEW r \in Req, NEW u \in User, StartCreate(r, u) PROVE TypeOK'
  <2>1. PICK s \in FreshSession, n \in FreshToken :
          req' = [req EXCEPT ![r] = Fresh("create", "create", u, s, None, n, now, {})]
    BY <1>1 DEF StartCreate
  <2>2. Fresh("create", "create", u, s, None, n, now, {}) \in Request
    BY DEF Fresh, Request, PC, Op, FreshSession, FreshToken
  <2> QED BY <1>1, <2>1, <2>2 DEF StartCreate
<1>2. ASSUME NEW r \in Req, NEW u \in User, StartLogoutAll(r, u) PROVE TypeOK'
  <2>1. Fresh("begin", "logout_all", u, None, None, None, 0, LiveSessions(u)) \in Request
    BY DEF Fresh, Request, PC, Op, LiveSessions
  <2> QED BY <1>2, <2>1 DEF StartLogoutAll, Revoke
<1>3. ASSUME NEW r \in Req, NEW u \in User, StartReset(r, u) PROVE TypeOK'
  <2>1. Fresh("begin", "password_reset", u, None, None, None, 0, LiveSessions(u)) \in Request
    BY DEF Fresh, Request, PC, Op, LiveSessions
  <2> QED BY <1>3, <2>1 DEF StartReset, Revoke
<1>4. ASSUME NEW r \in Req, NEW t \in TokenId, StartRotate(r, t) PROVE TypeOK'
  <2>1. PICK n \in FreshToken : req' = [req EXCEPT ![r] =
          Fresh("rotate", "rotate", tok[t].user, tok[t].sid, t, n, now, {})]
    BY <1>4 DEF StartRotate
  <2>2. Fresh("rotate", "rotate", tok[t].user, tok[t].sid, t, n, now, {}) \in Request
    BY DEF Fresh, Request, PC, Op, FreshToken, TokenRow
  <2> QED BY <1>4, <2>1, <2>2 DEF StartRotate
<1>5. ASSUME NEW r \in Req, NEW t \in TokenId, StartLogout(r, t) PROVE TypeOK'
  <2> DEFINE A == {s \in SessionId : s = tok[t].sid /\ Live(s)}
  <2>1. Fresh("begin", "logout", None, tok[t].sid, None, None, 0, A) \in Request
    BY DEF Fresh, Request, PC, Op, TokenRow
  <2> QED BY <1>5, <2>1 DEF StartLogout, Revoke
<1>6. ASSUME NEW r \in Req, LockToken(r) PROVE TypeOK'
  <2>1. [req[r] EXCEPT !.pc = "token"] \in Request
    BY DEF Request, PC
  <2> QED BY <1>6, <2>1 DEF LockToken
<1>7. ASSUME NEW r \in Req, Refuse(r) PROVE TypeOK'
    BY <1>7, ReleaseType, IdleType DEF Refuse
<1>8. ASSUME NEW r \in Req, Close(r) PROVE TypeOK'
  <2>1. [req[r] EXCEPT !.pc = "sweep", !.op = Verdict(r), !.new = None] \in Request
    <3>1. "sweep" \in PC /\ Verdict(r) \in Op
      BY <1>8 DEF Close, PC, Op
    <3> QED BY <3>1, RequestFields
  <2> QED BY <1>8, <2>1 DEF Close
<1>9. ASSUME NEW r \in Req, Rotate(r) PROVE TypeOK'
  <2>1. NewToken(r, req[r].tid) \in TokenRow
    BY DEF NewToken, TokenRow, TokenStatus, Request
  <2>2. ASSUME NEW t \in TokenId
        PROVE  [tok[t] EXCEPT !.status = "rotated", !.next = req[r].new] \in TokenRow
    <3>1. [tok[t] EXCEPT !.status = "rotated"] \in TokenRow
      BY DEF TokenRow, TokenStatus
    <3> QED BY <3>1 DEF TokenRow, Request
  <2>3. tok' \in [TokenId -> TokenRow]
    BY <1>9, <2>1, <2>2 DEF Rotate
  <2> QED BY <1>9, <2>3, ReleaseType, IdleType DEF Rotate
<1>10. ASSUME NEW r \in Req, NEW s \in SessionId, UpdateSession(r, s) PROVE TypeOK'
    BY <1>10 DEF UpdateSession, Request
<1>11. ASSUME NEW r \in Req, NEW t \in TokenId, UpdateToken(r, t) PROVE TypeOK'
    BY <1>11 DEF UpdateToken, Request
<1>12. ASSUME NEW r \in Req, CommitCreate(r) PROVE TypeOK'
  <2>1. NewToken(r, None) \in TokenRow
    BY DEF NewToken, TokenRow, TokenStatus, Request
  <2>2. [status |-> "active", user |-> req[r].user, exp |-> req[r].at + Ttl] \in SessionRow
    BY DEF SessionRow, SessionStatus, Request
  <2> QED BY <1>12, <2>1, <2>2, IdleType DEF CommitCreate
<1>13. ASSUME NEW r \in Req, BeginRevoke(r) PROVE TypeOK'
  <2>1. [req[r] EXCEPT !.pc = "sessions", !.ss = RevokeTargets(r)] \in Request
    <3>1. "sessions" \in PC /\ RevokeTargets(r) \in SUBSET SessionId
      BY DEF RevokeTargets, LiveSessions, PC
    <3> QED BY <3>1, RequestFields
  <2> QED BY <1>13, <2>1 DEF BeginRevoke
<1>14. ASSUME NEW r \in Req, EndRevoke(r) PROVE TypeOK'
  <2>1. [req[r] EXCEPT !.pc = "sweep"] \in Request
    BY DEF Request, PC
  <2> QED BY <1>14, <2>1, IdleType DEF EndRevoke
<1>15. ASSUME NEW r \in Req, BeginSweep(r) PROVE TypeOK'
  <2>1. [req[r] EXCEPT !.pc = "tokens", !.ts = {t \in TokenId : Targeted(r, t)}] \in Request
    <3>1. "tokens" \in PC /\ {t \in TokenId : Targeted(r, t)} \in SUBSET TokenId
      BY DEF PC
    <3> QED BY <3>1, RequestFields
  <2> QED BY <1>15, <2>1 DEF BeginSweep
<1>16. ASSUME NEW r \in Req, Commit(r) PROVE TypeOK'
  <2>1. sess' \in [SessionId -> SessionRow]
    BY <1>16 DEF Commit, ClosedSessions, ClosedStatus, SessionRow, SessionStatus
  <2>2. tok' \in [TokenId -> TokenRow]
    BY <1>16 DEF Commit, SweptTokens, SweptStatus, TokenRow, TokenStatus
  <2>3. AfterCommit(r) \in Request
    BY IdleType DEF AfterCommit, Fresh, Request, PC, Op
  <2> QED BY <1>16, <2>1, <2>2, <2>3, ReleaseType DEF Commit
<1>17. ASSUME NEW r \in Req, Rollback(r) PROVE TypeOK'
    BY <1>17, ReleaseType, IdleType DEF Rollback
<1>18. CASE Tick
    BY <1>18 DEF Tick
<1>19. CASE UNCHANGED vars
    BY <1>19 DEF vars
<1> QED
  BY <1>1, <1>2, <1>3, <1>4, <1>5, <1>6, <1>7, <1>8, <1>9, <1>10, <1>11, <1>12,
     <1>13, <1>14, <1>15, <1>16, <1>17, <1>18, <1>19
  DEF Next, Start, Waiting, Running, Abort, Victim

\* Every reachable state has every variable in its type.
THEOREM TypeCorrect == Spec => []TypeOK
<1>1. Init => TypeOK
    BY IdleType DEF Init, TypeOK, SessionRow, SessionStatus, NoSession, TokenRow,
       TokenStatus, NoToken
<1> QED BY <1>1, TypeStep, PTL DEF Spec

-----------------------------------------------------------------------------
(* What a step does to the rows.                                           *)

\* Only three actions write rows.
LEMMA RowWriters ==
  ASSUME [Next]_vars
  PROVE  \/ UNCHANGED <<sess, tok>>
         \/ \E r \in Req : CommitCreate(r) \/ Rotate(r) \/ Commit(r)
BY DEF Next, Start, Waiting, Running, Abort, Victim, Rollback, vars, StartCreate,
       StartLogoutAll, StartReset, StartRotate, StartLogout, Revoke, LockToken,
       Refuse, Close, UpdateSession, UpdateToken, BeginRevoke, EndRevoke,
       BeginSweep, Tick

\* The columns of a token that no step changes.
SameToken(t) == /\ tok'[t].sid = tok[t].sid
                /\ tok'[t].user = tok[t].user
                /\ tok'[t].exp = tok[t].exp
                /\ tok'[t].prev = tok[t].prev

\* The columns of the token that r inserts.
Inserted(r, prev) ==
  LET n == tok'[req[r].new] IN
  /\ n.status = "active" /\ n.sid = req[r].sid /\ n.user = req[r].user
  /\ n.exp = req[r].at + Ttl /\ n.prev = prev

\* A new session and its token, the rows unused before.
LEMMA Creation ==
  ASSUME IInv, NEW r \in Req, CommitCreate(r)
  PROVE  LET s == req[r].sid  n == req[r].new IN
         /\ s \in SessionId /\ n \in TokenId /\ req[r].user \in User
         /\ sess[s].status = "none" /\ tok[n].status = "none"
         /\ sess'[s].status = "active" /\ sess'[s].user = req[r].user
         /\ sess'[s].exp = req[r].at + Ttl
         /\ Inserted(r, None)
         /\ \A x \in SessionId : x # s => sess'[x] = sess[x]
         /\ \A x \in TokenId : x # n => tok'[x] = tok[x]
<1>1. StepFields(r) /\ TypeOK /\ Reserved
  BY DEF IInv, RequestOK
<1>2. /\ req[r].pc = "create" /\ req[r].new # None
      /\ req[r].sid \in SessionId /\ req[r].new \in TokenId /\ req[r].user \in User
  BY <1>1 DEF StepFields, CommitCreate
<1>3. sess[req[r].sid].status = "none" /\ tok[req[r].new].status = "none"
  BY <1>1, <1>2 DEF Reserved
<1>4. Inserted(r, None)
  BY <1>1, <1>2 DEF TypeOK, CommitCreate, Inserted, NewToken
<1> QED BY <1>1, <1>2, <1>3, <1>4 DEF TypeOK, CommitCreate

\* A rotation replaces the active token of a live session.
LEMMA Rotation ==
  ASSUME IInv, NEW r \in Req, Rotate(r)
  PROVE  LET s == req[r].sid  t == req[r].tid  n == req[r].new IN
         /\ s \in SessionId /\ t \in TokenId /\ n \in TokenId /\ n # t
         /\ lockS[s] = r /\ Live(s)
         /\ tok[t].status = "active" /\ tok[t].sid = s /\ tok[t].user = req[r].user
         /\ tok[n].status = "none"
         /\ req[r].at < sess[s].exp
         /\ sess' = sess
         /\ tok'[t].status = "rotated" /\ tok'[t].next = n /\ SameToken(t)
         /\ Inserted(r, t)
         /\ \A x \in TokenId : x # t /\ x # n => tok'[x] = tok[x]
<1>1. /\ StepFields(r) /\ TypeOK /\ Reserved /\ RowsConsistent
      /\ OwnLocks(r) /\ RotationHolds(r)
  BY DEF IInv, RequestOK
<1>2. req[r].pc = "token" /\ TokenVerdict(r) = "rotated"
  BY DEF Rotate, RowFree, Verdict, SessionVerdict
<1>3. /\ tok[req[r].tid].status = "active"
      /\ tok[req[r].tid].sid = req[r].sid
      /\ tok[req[r].tid].user = req[r].user
  BY <1>2 DEF TokenVerdict
<1>4. req[r].tid \in TokenId /\ req[r].new \in TokenId
  BY <1>1, <1>2 DEF StepFields, Exchanges
<1>5. req[r].sid \in SessionId
  BY <1>1, <1>3, <1>4 DEF RowsConsistent
<1>6. tok[req[r].new].status = "none"
  BY <1>1, <1>4 DEF Reserved
<1>7. /\ lockS[req[r].sid] = r /\ Live(req[r].sid)
      /\ req[r].at < sess[req[r].sid].exp
  BY <1>1, <1>2, <1>5 DEF RotationHolds, OwnLocks
<1>8. /\ sess' = sess
      /\ tok' = [tok EXCEPT ![req[r].tid].status = "rotated",
                            ![req[r].tid].next = req[r].new,
                            ![req[r].new] = NewToken(r, req[r].tid)]
  BY DEF Rotate
<1>9. /\ tok'[req[r].tid] = [tok[req[r].tid] EXCEPT !.status = "rotated", !.next = req[r].new]
      /\ tok'[req[r].new] = NewToken(r, req[r].tid)
      /\ \A x \in TokenId : x # req[r].tid /\ x # req[r].new => tok'[x] = tok[x]
  BY <1>1, <1>3, <1>4, <1>6, <1>8 DEF TypeOK
<1>10. Inserted(r, req[r].tid)
  BY <1>9 DEF Inserted, NewToken
<1>11. /\ tok'[req[r].tid].status = "rotated" /\ tok'[req[r].tid].next = req[r].new
       /\ SameToken(req[r].tid)
  BY <1>1, <1>4, <1>9 DEF SameToken, TypeOK, TokenRow
<1> QED BY <1>3, <1>4, <1>5, <1>6, <1>7, <1>8, <1>9, <1>10, <1>11

\* A closing transaction gives sessions one of these statuses.
LEMMA ClosedStatusValues ==
  ASSUME NEW op PROVE ClosedStatus(op) \in {"revoked", "expired", "compromised"}
BY DEF ClosedStatus

\* A closing transaction gives tokens one of these statuses.
LEMMA SweptStatusValues ==
  ASSUME NEW op PROVE SweptStatus(op) \in {"revoked", "expired"}
BY DEF SweptStatus

\* A closing transaction closes the sessions it holds and sweeps their tokens.
LEMMA Closing ==
  ASSUME IInv, NEW r \in Req, Commit(r)
  PROVE  /\ \A s \in SessionId : lockS[s] # r => sess'[s] = sess[s]
         /\ \A s \in SessionId : lockS[s] = r =>
              /\ Live(s)
              /\ sess'[s].status \in {"revoked", "expired", "compromised"}
              /\ sess'[s].user = sess[s].user /\ sess'[s].exp = sess[s].exp
         /\ \A t \in TokenId :
              \/ tok'[t] = tok[t]
              \/ /\ tok[t].status = "active"
                 /\ tok'[t].status \in {"revoked", "expired"}
                 /\ SameToken(t)
         /\ \A t \in TokenId :
              tok[t].status = "active" /\ lockS[tok[t].sid] = r => tok'[t].status # "active"
<1>1. /\ StepFields(r) /\ TypeOK /\ RowsConsistent
      /\ OwnLocks(r) /\ SweepCovers(r)
  BY DEF IInv, RequestOK
<1>2. /\ req[r].pc = "tokens" /\ req[r].ts = {}
      /\ sess' = ClosedSessions(r) /\ tok' = SweptTokens(r)
  BY DEF Commit
<1>3. ASSUME NEW s \in SessionId, lockS[s] # r
      PROVE  sess'[s] = sess[s]
  BY <1>2, <1>3 DEF ClosedSessions
<1>4. ASSUME NEW s \in SessionId, lockS[s] = r
      PROVE  /\ Live(s)
             /\ sess'[s].status \in {"revoked", "expired", "compromised"}
             /\ sess'[s].user = sess[s].user /\ sess'[s].exp = sess[s].exp
  <2>1. sess'[s] = [sess[s] EXCEPT !.status = ClosedStatus(req[r].op)]
    BY <1>2, <1>4 DEF ClosedSessions
  <2>2. sess[s] \in SessionRow
    BY <1>1 DEF TypeOK
  <2>3. Live(s)
    BY <1>1, <1>4 DEF OwnLocks
  <2> QED BY <2>1, <2>2, <2>3, ClosedStatusValues DEF SessionRow
<1>5. ASSUME NEW t \in TokenId, lockT[t] = r, Targeted(r, t)
      PROVE  /\ tok'[t].status \in {"revoked", "expired"}
             /\ SameToken(t)
  <2>1. tok'[t] = [tok[t] EXCEPT !.status = SweptStatus(req[r].op)]
    BY <1>2, <1>5 DEF SweptTokens
  <2>2. tok[t] \in TokenRow
    BY <1>1 DEF TypeOK
  <2> QED BY <2>1, <2>2, SweptStatusValues DEF TokenRow, SameToken
<1>6. ASSUME NEW t \in TokenId
      PROVE  \/ tok'[t] = tok[t]
             \/ /\ tok[t].status = "active"
                /\ tok'[t].status \in {"revoked", "expired"}
                /\ SameToken(t)
  <2>1. CASE lockT[t] = r /\ Targeted(r, t)
    BY <1>5, <2>1 DEF Targeted
  <2>2. CASE ~(lockT[t] = r /\ Targeted(r, t))
    BY <1>2, <2>2 DEF SweptTokens
  <2> QED BY <2>1, <2>2
<1>7. ASSUME NEW t \in TokenId, tok[t].status = "active", lockS[tok[t].sid] = r
      PROVE  tok'[t].status # "active"
  <2>1. lockT[t] = r
    BY <1>1, <1>2, <1>7 DEF SweepCovers
  <2>2. /\ tok[t].sid \in SessionId
        /\ sess[tok[t].sid].user = tok[t].user
        /\ About(r, tok[t].sid)
    BY <1>1, <1>7 DEF RowsConsistent, OwnLocks
  <2>3. Targeted(r, t)
    BY <1>7, <2>2 DEF Targeted, About
  <2> QED BY <1>5, <2>1, <2>3
<1> QED BY <1>3, <1>4, <1>6, <1>7

\* Rows never disappear, keep their identity, and are final once not active.
RowsEvolve ==
  /\ \A s \in SessionId : sess[s].status # "none" =>
       /\ sess'[s].status # "none"
       /\ sess'[s].user = sess[s].user
       /\ sess'[s].exp = sess[s].exp
       /\ ~Live(s) => sess'[s] = sess[s]
  /\ \A t \in TokenId : tok[t].status # "none" =>
       /\ tok'[t].status # "none"
       /\ SameToken(t)
       /\ tok[t].status # "active" => tok'[t] = tok[t]

\* Every step changes rows in one of the ways RowsEvolve lists.
LEMMA RowsKept == IInv /\ [Next]_vars => RowsEvolve
<1> SUFFICES ASSUME IInv, [Next]_vars PROVE RowsEvolve
    OBVIOUS
<1>1. CASE UNCHANGED <<sess, tok>>
  BY <1>1 DEF RowsEvolve, SameToken
<1>2. ASSUME NEW r \in Req, CommitCreate(r) PROVE RowsEvolve
  BY <1>2, Creation DEF RowsEvolve, SameToken
<1>3. ASSUME NEW r \in Req, Rotate(r) PROVE RowsEvolve
  BY <1>3, Rotation DEF RowsEvolve, SameToken
<1>4. ASSUME NEW r \in Req, Commit(r) PROVE RowsEvolve
  BY <1>4, Closing DEF RowsEvolve, SameToken
<1> QED BY <1>1, <1>2, <1>3, <1>4, RowWriters

\* Tokens keep agreeing with the sessions they belong to.
LEMMA RowsConsistentStep == IInv /\ [Next]_vars => RowsConsistent'
<1> SUFFICES ASSUME IInv, [Next]_vars PROVE RowsConsistent'
    OBVIOUS
<1>0. TypeOK /\ RowsConsistent /\ RowsEvolve
  BY RowsKept DEF IInv
<1>1. CASE UNCHANGED <<sess, tok>>
  BY <1>0, <1>1 DEF RowsConsistent
<1>2. ASSUME NEW r \in Req, CommitCreate(r) PROVE RowsConsistent'
  BY <1>0, <1>2, Creation DEF RowsConsistent, RowsEvolve, SameToken, Inserted
<1>3. ASSUME NEW r \in Req, Rotate(r) PROVE RowsConsistent'
  BY <1>0, <1>3, Rotation DEF RowsConsistent, RowsEvolve, SameToken, Inserted
<1>4. ASSUME NEW r \in Req, Commit(r) PROVE RowsConsistent'
  <2> SUFFICES ASSUME NEW t \in TokenId, tok'[t].status # "none"
               PROVE  /\ tok'[t].sid \in SessionId
                      /\ tok'[t].user \in User
                      /\ sess'[tok'[t].sid].status # "none"
                      /\ sess'[tok'[t].sid].user = tok'[t].user
    BY DEF RowsConsistent
  <2>1. tok[t].status # "none"
    BY <1>4, Closing
  <2> QED BY <1>0, <2>1 DEF RowsConsistent, RowsEvolve, SameToken
<1> QED BY <1>1, <1>2, <1>3, <1>4, RowWriters

-----------------------------------------------------------------------------
(* The properties of the rows.                                             *)

\* No step gives a session a second active token.
LEMMA OneActiveTokenStep == IInv /\ [Next]_vars => OneActiveToken'
<1> SUFFICES ASSUME IInv, [Next]_vars PROVE OneActiveToken'
    OBVIOUS
<1>0. TypeOK /\ RowsConsistent /\ RowsEvolve /\ OneActiveToken
  BY RowsKept DEF IInv
<1>1. CASE UNCHANGED <<sess, tok>>
  BY <1>0, <1>1 DEF OneActiveToken
<1>2. ASSUME NEW r \in Req, CommitCreate(r) PROVE OneActiveToken'
  BY <1>0, <1>2, Creation DEF OneActiveToken, RowsConsistent, Inserted
<1>3. ASSUME NEW r \in Req, Rotate(r) PROVE OneActiveToken'
  BY <1>0, <1>3, Rotation DEF OneActiveToken, Inserted, SameToken
<1>4. ASSUME NEW r \in Req, Commit(r) PROVE OneActiveToken'
  <2>1. \A t \in TokenId : tok'[t].status = "active" => tok'[t] = tok[t]
    BY <1>0, <1>4, Closing
  <2> QED BY <1>0, <2>1 DEF OneActiveToken
<1> QED BY <1>1, <1>2, <1>3, <1>4, RowWriters

\* No step leaves an active token in a closed session.
LEMMA ClosedSessionTokensStep == IInv /\ [Next]_vars => ClosedSessionTokens'
<1> SUFFICES ASSUME IInv, [Next]_vars PROVE ClosedSessionTokens'
    OBVIOUS
<1>0. TypeOK /\ RowsConsistent /\ RowsEvolve /\ ClosedSessionTokens
  BY RowsKept DEF IInv
<1>1. CASE UNCHANGED <<sess, tok>>
  BY <1>0, <1>1 DEF ClosedSessionTokens, Live
<1>2. ASSUME NEW r \in Req, CommitCreate(r) PROVE ClosedSessionTokens'
  BY <1>0, <1>2, Creation DEF ClosedSessionTokens, RowsConsistent, Inserted, Live
<1>3. ASSUME NEW r \in Req, Rotate(r) PROVE ClosedSessionTokens'
  BY <1>0, <1>3, Rotation DEF ClosedSessionTokens, Inserted, SameToken, Live
<1>4. ASSUME NEW r \in Req, Commit(r) PROVE ClosedSessionTokens'
  <2> SUFFICES ASSUME NEW t \in TokenId, tok'[t].status = "active"
               PROVE  sess'[tok'[t].sid].status = "active"
    BY DEF ClosedSessionTokens, Live
  <2>1. tok'[t] = tok[t]
    BY <1>0, <1>4, Closing
  <2>2. tok[t].sid \in SessionId /\ Live(tok[t].sid)
    BY <1>0, <2>1 DEF RowsConsistent, ClosedSessionTokens
  <2>3. lockS[tok[t].sid] # r
    BY <1>0, <1>4, <2>1, Closing
  <2> QED BY <1>4, <2>1, <2>2, <2>3, Closing DEF Live
<1> QED BY <1>1, <1>2, <1>3, <1>4, RowWriters

\* No step breaks a link of a chain of replacements.
LEMMA RotationChainStep == IInv /\ [Next]_vars => RotationChain'
<1> SUFFICES ASSUME IInv, [Next]_vars PROVE RotationChain'
    OBVIOUS
<1>0. TypeOK /\ RowsEvolve /\ RotationChain
  BY RowsKept DEF IInv
<1>1. CASE UNCHANGED <<sess, tok>>
  BY <1>0, <1>1 DEF RotationChain
<1>2. ASSUME NEW r \in Req, CommitCreate(r) PROVE RotationChain'
  BY <1>0, <1>2, Creation DEF RotationChain, Inserted, TypeOK, TokenRow
<1>3. ASSUME NEW r \in Req, Rotate(r) PROVE RotationChain'
  BY <1>0, <1>3, Rotation DEF RotationChain, Inserted, SameToken, TypeOK, TokenRow
<1>4. ASSUME NEW r \in Req, Commit(r) PROVE RotationChain'
  <2> SUFFICES ASSUME NEW n \in TokenId, tok'[n].prev # None
               PROVE  LET p == tok'[tok'[n].prev] IN
                      /\ p.status = "rotated" /\ p.next = n
                      /\ p.sid = tok'[n].sid /\ p.user = tok'[n].user
    BY DEF RotationChain
  <2>1. tok'[n].prev = tok[n].prev /\ tok'[n].sid = tok[n].sid /\ tok'[n].user = tok[n].user
    BY <1>0, <1>4, Closing DEF SameToken
  <2>2. tok[n].prev \in TokenId /\ tok[tok[n].prev].status = "rotated"
    BY <1>0, <2>1 DEF RotationChain, TypeOK, TokenRow
  <2>3. tok'[tok[n].prev] = tok[tok[n].prev]
    BY <1>4, <2>2, Closing
  <2> QED BY <1>0, <2>1, <2>3 DEF RotationChain
<1> QED BY <1>1, <1>2, <1>3, <1>4, RowWriters

\* No step stores a token that outlives its session too long.
LEMMA SessionLifetimeStep == IInv /\ [Next]_vars => SessionLifetime'
<1> SUFFICES ASSUME IInv, [Next]_vars PROVE SessionLifetime'
    OBVIOUS
<1>0. TypeOK /\ RowsConsistent /\ RowsEvolve /\ SessionLifetime
  BY RowsKept DEF IInv
<1>1. CASE UNCHANGED <<sess, tok>>
  BY <1>0, <1>1 DEF SessionLifetime
<1>2. ASSUME NEW r \in Req, CommitCreate(r) PROVE SessionLifetime'
  BY <1>0, <1>2, Creation DEF SessionLifetime, RowsConsistent, RowsEvolve, SameToken, Inserted, TypeOK, Request
<1>3. ASSUME NEW r \in Req, Rotate(r) PROVE SessionLifetime'
  <2> SUFFICES ASSUME NEW t \in TokenId, tok'[t].status # "none"
               PROVE  tok'[t].exp < sess'[tok'[t].sid].exp + Ttl
    BY DEF SessionLifetime
  <2>1. CASE t = req[r].new
    <3>1. req[r].at \in Nat /\ sess[req[r].sid].exp \in Nat
      BY <1>0, <1>3, Rotation DEF TypeOK, Request, SessionRow
    <3>2. req[r].at + Ttl < sess[req[r].sid].exp + Ttl
      BY <1>3, <3>1, Rotation
    <3> QED BY <1>3, <2>1, <3>2, Rotation DEF Inserted
  <2>2. CASE t # req[r].new
    <3>1. SameToken(t) /\ tok[t].status # "none" /\ sess' = sess
      BY <1>3, <2>2, Rotation DEF SameToken
    <3> QED BY <1>0, <3>1 DEF SessionLifetime, SameToken
  <2> QED BY <2>1, <2>2
<1>4. ASSUME NEW r \in Req, Commit(r) PROVE SessionLifetime'
  <2> SUFFICES ASSUME NEW t \in TokenId, tok'[t].status # "none"
               PROVE  tok'[t].exp < sess'[tok'[t].sid].exp + Ttl
    BY DEF SessionLifetime
  <2>1. tok[t].status # "none"
    BY <1>4, Closing
  <2> QED BY <1>0, <2>1 DEF RowsConsistent, RowsEvolve, SameToken, SessionLifetime
<1> QED BY <1>1, <1>2, <1>3, <1>4, RowWriters

-----------------------------------------------------------------------------
(* The requests.                                                           *)

\* One step of request r.
Step(r) == Start(r) \/ Waiting(r) \/ Running(r) \/ Rollback(r)

\* What a step of r leaves to the other request q: its record, the rows it has
\* locked, and what those sessions and their active tokens hold.
Untouched(q) ==
  /\ req'[q] = req[q]
  /\ \A s \in SessionId : lockS'[s] = q <=> lockS[s] = q
  /\ \A s \in SessionId : lockS[s] = q => sess'[s] = sess[s]
  /\ \A t \in TokenId : lockT'[t] = q <=> lockT[t] = q
  /\ \A t \in TokenId : tok'[t].status = "active" /\ lockS[tok'[t].sid] = q =>
       tok[t].status = "active" /\ tok'[t].sid = tok[t].sid

\* A step of r changes its own record and locks only rows nobody has locked.
LEMMA OwnRecord ==
  ASSUME IInv, NEW r \in Req, Step(r), NEW q \in Req, q # r
  PROVE  /\ req'[q] = req[q]
         /\ \A s \in SessionId : lockS'[s] = q <=> lockS[s] = q
         /\ \A t \in TokenId : lockT'[t] = q <=> lockT[t] = q
<1>0. TypeOK /\ RotationHolds(r) /\ None \notin Req
  BY DEF IInv, RequestOK
<1> USE <1>0 DEF TypeOK
<1>1. ASSUME Release(r)
      PROVE  /\ \A s \in SessionId : lockS'[s] = q <=> lockS[s] = q
             /\ \A t \in TokenId : lockT'[t] = q <=> lockT[t] = q
  BY <1>1 DEF Release, Free
<1>2. CASE Start(r)
  BY <1>2 DEF Start, StartCreate, StartLogoutAll, StartReset, StartRotate,
     StartLogout, Revoke
<1>3. CASE LockToken(r) \/ Close(r)
  <2>1. lockS[req[r].sid] \in {None, r}
    BY <1>3 DEF LockToken, Close, RowFree, RotationHolds
  <2>2. lockS' = [lockS EXCEPT ![req[r].sid] = r]
    BY <1>3 DEF LockToken, Close
  <2>3. lockT' = lockT \/ (lockT[req[r].tid] = None /\ lockT' = [lockT EXCEPT ![req[r].tid] = r])
    BY <1>3 DEF LockToken, Close, RowFree
  <2>4. req'[q] = req[q]
    BY <1>3 DEF LockToken, Close
  <2> QED BY <2>1, <2>2, <2>3, <2>4
<1>4. CASE Refuse(r) \/ Rotate(r) \/ Commit(r) \/ Rollback(r)
  BY <1>1, <1>4 DEF Refuse, Rotate, Commit, Rollback
<1>5. ASSUME NEW s \in SessionId, UpdateSession(r, s)
      PROVE  /\ req'[q] = req[q]
             /\ \A x \in SessionId : lockS'[x] = q <=> lockS[x] = q
             /\ \A t \in TokenId : lockT'[t] = q <=> lockT[t] = q
  BY <1>5 DEF UpdateSession
<1>6. ASSUME NEW t \in TokenId, UpdateToken(r, t)
      PROVE  /\ req'[q] = req[q]
             /\ \A s \in SessionId : lockS'[s] = q <=> lockS[s] = q
             /\ \A x \in TokenId : lockT'[x] = q <=> lockT[x] = q
  BY <1>6 DEF UpdateToken
<1>7. CASE CommitCreate(r) \/ BeginRevoke(r) \/ EndRevoke(r) \/ BeginSweep(r)
  BY <1>7 DEF CommitCreate, BeginRevoke, EndRevoke, BeginSweep
<1> QED BY <1>2, <1>3, <1>4, <1>5, <1>6, <1>7 DEF Step, Waiting, Running

\* A step of r leaves the other requests and their locks alone.
LEMMA OthersUntouched ==
  ASSUME IInv, NEW r \in Req, Step(r), NEW q \in Req, q # r
  PROVE  Untouched(q)
<1>0. TypeOK /\ RowsConsistent /\ OwnLocks(q)
  BY DEF IInv, RequestOK
<1>1. \/ UNCHANGED <<sess, tok>>
      \/ CommitCreate(r) \/ Rotate(r) \/ Commit(r)
  BY DEF Step, Start, Waiting, Running, Rollback, StartCreate, StartLogoutAll,
     StartReset, StartRotate, StartLogout, Revoke, LockToken, Refuse, Close,
     UpdateSession, UpdateToken, BeginRevoke, EndRevoke, BeginSweep
<1>2. ASSUME NEW s \in SessionId, lockS[s] = q PROVE sess'[s] = sess[s]
  <2>1. Live(s)
    BY <1>0, <1>2 DEF OwnLocks
  <2>2. CASE CommitCreate(r)
    BY <1>2, <2>1, <2>2, Creation DEF Live
  <2>3. CASE Commit(r)
    BY <1>2, <2>3, Closing
  <2> QED BY <1>1, <2>2, <2>3, Rotation
<1>3. ASSUME NEW t \in TokenId, tok'[t].status = "active", lockS[tok'[t].sid] = q
      PROVE  tok[t].status = "active" /\ tok'[t].sid = tok[t].sid
  <2>1. CASE CommitCreate(r)
    <3>1. lockS[req[r].sid] # q
      BY <1>0, <2>1, Creation DEF OwnLocks, Live
    <3> QED BY <1>3, <2>1, <3>1, Creation DEF Inserted
  <2>2. CASE Rotate(r)
    BY <1>3, <2>2, Rotation DEF Inserted
  <2>3. CASE Commit(r)
    BY <1>3, <2>3, Closing
  <2> QED BY <1>1, <1>3, <2>1, <2>2, <2>3
<1> QED BY <1>2, <1>3, OwnRecord DEF Untouched

\* Whatever r does, the other requests keep their invariant.
LEMMA OthersKept ==
  ASSUME IInv, NEW r \in Req, Step(r), RowsEvolve, RowsConsistent',
         NEW q \in Req, q # r
  PROVE  RequestOK(q)'
<1>0. TypeOK /\ RowsConsistent /\ RequestOK(q) /\ Untouched(q) /\ Reserved
  BY OthersUntouched DEF IInv
<1> USE DEF RequestOK
<1>1. StepFields(q)'
  <2>1. ASSUME Exchanges(q) PROVE Exchanges(q)'
    BY <1>0, <2>1 DEF Exchanges, Untouched, RowsEvolve, SameToken
  <2> QED BY <1>0, <2>1 DEF StepFields, Untouched
<1>2. ASSUME NEW s \in SessionId, About(q, s) PROVE About(q, s)'
  BY <1>0, <1>2 DEF About, Untouched, RowsEvolve
<1>3. OwnLocks(q)'
  BY <1>0, <1>2 DEF OwnLocks, Untouched, Live
<1>4. RotationHolds(q)'
  BY <1>0 DEF RotationHolds, Untouched, StepFields, Exchanges, RowsConsistent
<1>5. SnapshotCovers(q)'
  <2>1. ASSUME NEW s \in SessionId, sess[s].status # "none", ~Live(s) PROVE ~Live(s)'
    BY <2>1 DEF RowsEvolve, Live
  <2>2. req[q].seen \in SUBSET SessionId /\ req[q].ss \in SUBSET SessionId
    BY <1>0 DEF TypeOK, Request
  <2> QED BY <1>0, <1>2, <2>1, <2>2 DEF SnapshotCovers, Untouched, About
<1>6. SweepCovers(q)'
  <2>1. \A t \in TokenId : tok'[t].status = "active" => tok'[t].sid \in SessionId
    BY DEF RowsConsistent
  <2> QED BY <1>0, <2>1 DEF SweepCovers, Untouched
<1>7. FollowUpClosed(q)'
  BY <1>0 DEF FollowUpClosed, Untouched, StepFields, RowsEvolve, Live
<1> QED BY <1>1, <1>3, <1>4, <1>5, <1>6, <1>7

\* A step of r leaves the record of every other request alone.
LEMMA StrangerUntouched ==
  ASSUME IInv, NEW r \in Req, Step(r)
  PROVE  \A q \in Req : q # r => req'[q] = req[q]
BY OwnRecord

\* Idle keeps the invariant of a request that holds no session.
LEMMA IdleOK ==
  ASSUME NEW r \in Req, req'[r] = Idle, \A s \in SessionId : lockS'[s] # r
  PROVE  RequestOK(r)'
BY DEF RequestOK, StepFields, OwnLocks, RotationHolds, SnapshotCovers, SweepCovers,
       FollowUpClosed, Idle, Fresh

\* A step that ends or starts a request leaves it with no session locked.
LEMMA Released ==
  ASSUME TypeOK, NEW r \in Req, Release(r)
  PROVE  \A s \in SessionId : lockS'[s] # r
BY DEF Release, Free, TypeOK

\* A request that is idle or starting holds no session.
LEMMA IdleHoldsNothing ==
  ASSUME IInv, NEW r \in Req, req[r].pc \in {"idle", "create", "rotate", "begin"}
  PROVE  \A s \in SessionId : lockS[s] # r
BY DEF IInv, RequestOK, OwnLocks

\* The actions that end with the request idle.
LEMMA EndKept ==
  ASSUME IInv, NEW r \in Req,
         CommitCreate(r) \/ Refuse(r) \/ Rotate(r) \/ Rollback(r)
  PROVE  RequestOK(r)'
<1>0. TypeOK
  BY DEF IInv
<1>1. CASE CommitCreate(r)
  <2>1. req'[r] = Idle /\ lockS' = lockS /\ req[r].pc = "create"
    BY <1>0, <1>1 DEF CommitCreate, TypeOK
  <2> QED BY <2>1, IdleOK, IdleHoldsNothing
<1>2. CASE Refuse(r) \/ Rotate(r) \/ Rollback(r)
  <2>1. req'[r] = Idle /\ Release(r)
    BY <1>0, <1>2 DEF Refuse, Rotate, Rollback, TypeOK
  <2> QED BY <1>0, <2>1, IdleOK, Released
<1> QED BY <1>1, <1>2

\* A request that starts fulfils the invariant.
LEMMA StartKept ==
  ASSUME IInv, NEW r \in Req, Start(r)
  PROVE  RequestOK(r)'
<1>0. TypeOK /\ RowsConsistent /\ req[r] = Idle
  BY DEF IInv, Start, StartCreate, StartLogoutAll, StartReset, StartRotate, StartLogout
<1>1. (\A s \in SessionId : lockS[s] # r) /\ UNCHANGED <<sess, tok, lockS, lockT>>
  BY <1>0, IdleHoldsNothing DEF Start, StartCreate, StartLogoutAll, StartReset,
     StartRotate, StartLogout, Revoke, Idle, Fresh
<1> USE DEF RequestOK, StepFields, OwnLocks, RotationHolds, SnapshotCovers,
            SweepCovers, FollowUpClosed, Fresh
<1>2. ASSUME NEW u \in User, StartCreate(r, u) PROVE RequestOK(r)'
  <2>1. PICK s \in FreshSession, n \in FreshToken :
          req' = [req EXCEPT ![r] = Fresh("create", "create", u, s, None, n, now, {})]
    BY <1>2 DEF StartCreate
  <2>2. s \in SessionId /\ n \in TokenId
    BY DEF FreshSession, FreshToken
  <2> QED BY <1>0, <1>1, <2>1, <2>2 DEF TypeOK
<1>3. ASSUME NEW u \in User, NEW op \in UserWide, Revoke(r, op, u, None, LiveSessions(u))
      PROVE  RequestOK(r)'
  <2>1. req'[r] = Fresh("begin", op, u, None, None, None, 0, LiveSessions(u))
    BY <1>0, <1>3 DEF Revoke, TypeOK
  <2>2. \A s \in LiveSessions(u) : About(r, s)'
    BY <1>1, <2>1 DEF LiveSessions, About, Live
  <2> QED BY <1>1, <2>1, <2>2
<1>4. ASSUME NEW t \in TokenId, StartRotate(r, t) PROVE RequestOK(r)'
  <2>1. PICK n \in FreshToken : req' = [req EXCEPT ![r] =
          Fresh("rotate", "rotate", tok[t].user, tok[t].sid, t, n, now, {})]
    BY <1>4 DEF StartRotate
  <2>2. n \in TokenId /\ tok[t].status # "none"
    BY <1>4 DEF FreshToken, StartRotate, Presentable
  <2> QED BY <1>0, <1>1, <2>1, <2>2 DEF TypeOK, Exchanges
<1>5. ASSUME NEW t \in TokenId, StartLogout(r, t) PROVE RequestOK(r)'
  <2> DEFINE A == {s \in SessionId : s = tok[t].sid /\ Live(s)}
  <2>1. req'[r] = Fresh("begin", "logout", None, tok[t].sid, None, None, 0, A)
    BY <1>0, <1>5 DEF StartLogout, Revoke, TypeOK
  <2>2. tok[t].sid \in SessionId
    BY <1>0, <1>5 DEF StartLogout, Presentable, RowsConsistent
  <2>3. \A s \in A : About(r, s)'
    BY <1>1, <2>1 DEF About, Live
  <2> QED BY <1>1, <2>1, <2>2, <2>3
<1> QED BY <1>2, <1>3, <1>4, <1>5 DEF Start, StartLogoutAll, StartReset

\* Taking the session's lock keeps the invariant of r.
LEMMA LockTokenKept ==
  ASSUME IInv, NEW r \in Req, LockToken(r) PROVE RequestOK(r)'
<1>0. TypeOK /\ RowsConsistent /\ RequestOK(r)
  BY DEF IInv
<1>1. /\ req[r].pc = "rotate" /\ req[r].op = "rotate" /\ Exchanges(r)
      /\ SessionVerdict(r) = "lock_token"
  BY <1>0 DEF LockToken, RowFree, Verdict, TokenVerdict, RequestOK, StepFields
<1>2. /\ req[r].sid \in SessionId /\ Live(req[r].sid)
      /\ req[r].at < sess[req[r].sid].exp
  <2>1. req[r].sid \in SessionId
    BY <1>0, <1>1 DEF RowsConsistent, Exchanges
  <2>2. sess[req[r].sid].exp \in Nat /\ req[r].at \in Nat
    BY <1>0, <2>1 DEF TypeOK, SessionRow, Request
  <2> QED BY <1>1, <2>1, <2>2 DEF SessionVerdict, Live
<1>3. req'[r] = [req[r] EXCEPT !.pc = "token"] /\ UNCHANGED <<sess, tok, lockT>>
  BY <1>0 DEF LockToken, TypeOK
<1>4. /\ req'[r].pc = "token" /\ req'[r].op = "rotate" /\ req'[r].sid = req[r].sid
      /\ req'[r].tid = req[r].tid /\ req'[r].user = req[r].user
      /\ req'[r].new = req[r].new /\ req'[r].at = req[r].at
      /\ req'[r].seen = req[r].seen
  BY <1>0, <1>1, <1>3 DEF TypeOK, Request
<1>5. \A s \in SessionId : lockS'[s] = r <=> s = req[r].sid
  BY <1>0, <1>1, <1>2, IdleHoldsNothing DEF LockToken, TypeOK
<1> QED
  BY <1>0, <1>1, <1>2, <1>3, <1>4, <1>5
  DEF RequestOK, StepFields, Exchanges, OwnLocks, RotationHolds, SnapshotCovers,
      SweepCovers, FollowUpClosed, About, Live

\* Deciding to close the session keeps the invariant of r.
LEMMA CloseKept ==
  ASSUME IInv, NEW r \in Req, Close(r) PROVE RequestOK(r)'
<1>0. TypeOK /\ RowsConsistent /\ RequestOK(r)
  BY DEF IInv
<1>1. /\ req[r].pc \in {"rotate", "token"} /\ req[r].op = "rotate" /\ Exchanges(r)
      /\ Verdict(r) \in RotationEnds
  BY <1>0 DEF Close, RowFree, RequestOK, StepFields
<1>2. /\ req[r].sid \in SessionId
      /\ sess[req[r].sid].user = req[r].user
  BY <1>0, <1>1 DEF RowsConsistent, Exchanges
<1>3. Live(req[r].sid)
  <2>1. CASE req[r].pc = "rotate"
    BY <1>1, <1>2, <2>1 DEF Verdict, SessionVerdict, Live
  <2>2. CASE req[r].pc = "token"
    BY <1>0, <1>2, <2>2 DEF RequestOK, RotationHolds, OwnLocks
  <2> QED BY <1>1, <2>1, <2>2
<1>4. /\ req'[r].pc = "sweep" /\ req'[r].op = Verdict(r) /\ req'[r].sid = req[r].sid
      /\ req'[r].seen = req[r].seen
  BY <1>0 DEF Close, TypeOK, Request
<1>5. \A s \in SessionId : lockS'[s] = r <=> s = req[r].sid
  <2>1. \A s \in SessionId : lockS[s] = r => s = req[r].sid
    BY <1>0, <1>1 DEF RequestOK, OwnLocks, About
  <2> QED BY <1>0, <1>2, <2>1 DEF Close, TypeOK
<1>6. sess' = sess /\ req[r].seen = {}
  BY <1>0, <1>1 DEF Close, RequestOK, SnapshotCovers
<1> QED
  BY <1>1, <1>2, <1>3, <1>4, <1>5, <1>6
  DEF RequestOK, StepFields, OwnLocks, RotationHolds, SnapshotCovers,
      SweepCovers, FollowUpClosed, About, Live

\* The snapshot of the sessions covers what is left to revoke.
LEMMA BeginRevokeKept ==
  ASSUME IInv, NEW r \in Req, BeginRevoke(r) PROVE RequestOK(r)'
<1>0. TypeOK /\ RequestOK(r) /\ req[r].pc = "begin"
  BY DEF IInv, BeginRevoke
<1>1. /\ req'[r].pc = "sessions" /\ req'[r].ss = RevokeTargets(r)
      /\ req'[r].op = req[r].op /\ req'[r].sid = req[r].sid
      /\ req'[r].user = req[r].user /\ req'[r].seen = req[r].seen
      /\ UNCHANGED <<sess, tok, lockS, lockT>>
  BY <1>0 DEF BeginRevoke, TypeOK, Request
<1>2. req[r].op \in Revocations /\ \A s \in SessionId : lockS[s] # r
  BY <1>0, IdleHoldsNothing DEF RequestOK, StepFields
<1>3. \A s \in RevokeTargets(r) : s \in SessionId /\ About(r, s)'
  BY <1>1 DEF RevokeTargets, LiveSessions, About, Live
<1>4. \A s \in req[r].seen : /\ About(r, s)'
                             /\ ~Live(s)' \/ s \in RevokeTargets(r)
  <2>1. \A s \in req[r].seen : s \in SessionId /\ About(r, s)
    BY <1>0, <1>2 DEF RequestOK, SnapshotCovers, TypeOK, Request
  <2> QED BY <1>1, <2>1 DEF RevokeTargets, LiveSessions, About, Live
<1> QED
  BY <1>0, <1>1, <1>2, <1>3, <1>4
  DEF RequestOK, StepFields, OwnLocks, RotationHolds, SnapshotCovers,
      SweepCovers, FollowUpClosed, Live

\* Visiting a session keeps the invariant of r.
LEMMA UpdateSessionKept ==
  ASSUME IInv, NEW r \in Req, NEW s \in SessionId, UpdateSession(r, s)
  PROVE  RequestOK(r)'
<1>0. /\ TypeOK /\ RequestOK(r) /\ req[r].pc = "sessions" /\ s \in req[r].ss
      /\ lockS[s] = None
  BY DEF IInv, UpdateSession
<1>1. /\ req'[r].pc = "sessions" /\ req'[r].ss = req[r].ss \ {s}
      /\ req'[r].op = req[r].op /\ req'[r].sid = req[r].sid
      /\ req'[r].user = req[r].user /\ req'[r].seen = req[r].seen
      /\ UNCHANGED <<sess, tok, lockT>>
  BY <1>0 DEF UpdateSession, TypeOK, Request
<1>2. req[r].op \in Revocations /\ About(r, s)
  BY <1>0 DEF RequestOK, StepFields, SnapshotCovers
<1>3. \A x \in SessionId : lockS'[x] = r <=> lockS[x] = r \/ (x = s /\ Live(s))
  BY <1>0 DEF UpdateSession, TypeOK
<1>4. \A x \in SessionId : About(r, x)' <=> About(r, x)
  BY <1>1 DEF About
<1>5. OwnLocks(r)'
  BY <1>0, <1>1, <1>2, <1>3, <1>4 DEF RequestOK, OwnLocks, Live
<1>6. SnapshotCovers(r)'
  <2>1. req[r].seen \in SUBSET SessionId /\ req[r].ss \in SUBSET SessionId
    BY <1>0 DEF TypeOK, Request
  <2> QED BY <1>0, <1>1, <1>2, <1>3, <1>4, <2>1 DEF RequestOK, SnapshotCovers, Live
<1> QED
  BY <1>0, <1>1, <1>2, <1>5, <1>6
  DEF RequestOK, StepFields, RotationHolds, SweepCovers, FollowUpClosed

\* Passing from the sessions to the tokens keeps the invariant of r.
LEMMA EndRevokeKept ==
  ASSUME IInv, NEW r \in Req, EndRevoke(r) PROVE RequestOK(r)'
<1>0. TypeOK /\ RequestOK(r) /\ req[r].pc = "sessions" /\ req[r].ss = {}
  BY DEF IInv, EndRevoke
<1>1. UNCHANGED <<sess, tok, lockS, lockT>> /\ req[r].op \in Revocations
  BY <1>0 DEF EndRevoke, RequestOK, StepFields
<1>2. CASE Holds(r) \/ req[r].op = "password_reset"
  <2>1. /\ req'[r].pc = "sweep" /\ req'[r].op = req[r].op
        /\ req'[r].sid = req[r].sid /\ req'[r].user = req[r].user
        /\ req'[r].seen = req[r].seen
    BY <1>0, <1>2 DEF EndRevoke, TypeOK, Request
  <2> QED
    BY <1>0, <1>1, <2>1
    DEF RequestOK, StepFields, OwnLocks, RotationHolds, SnapshotCovers,
        SweepCovers, FollowUpClosed, About, Live
<1>3. CASE ~(Holds(r) \/ req[r].op = "password_reset")
  <2>1. req'[r] = Idle /\ \A s \in SessionId : lockS'[s] # r
    BY <1>0, <1>1, <1>3 DEF EndRevoke, TypeOK, Holds
  <2> QED BY <2>1, IdleOK
<1> QED BY <1>2, <1>3

\* The snapshot of the tokens covers what is left to sweep.
LEMMA BeginSweepKept ==
  ASSUME IInv, NEW r \in Req, BeginSweep(r) PROVE RequestOK(r)'
<1>0. TypeOK /\ RowsConsistent /\ RequestOK(r) /\ req[r].pc = "sweep"
  BY DEF IInv, BeginSweep
<1>1. /\ req'[r].pc = "tokens" /\ req'[r].ts = {t \in TokenId : Targeted(r, t)}
      /\ req'[r].op = req[r].op /\ req'[r].sid = req[r].sid
      /\ req'[r].user = req[r].user /\ req'[r].seen = req[r].seen
      /\ UNCHANGED <<sess, tok, lockS, lockT>>
  <2>1. req'[r] = [req[r] EXCEPT !.pc = "tokens", !.ts = {t \in TokenId : Targeted(r, t)}]
    BY <1>0 DEF BeginSweep, TypeOK
  <2> QED BY <1>0, <2>1 DEF BeginSweep, TypeOK, Request
<1>2. SweepCovers(r)'
  <2> SUFFICES ASSUME NEW t \in TokenId, tok[t].status = "active", lockS[tok[t].sid] = r
               PROVE  Targeted(r, t)
    BY <1>1 DEF SweepCovers
  <2> QED BY <1>0 DEF RequestOK, OwnLocks, About, RowsConsistent, Targeted
<1> QED
  BY <1>0, <1>1, <1>2
  DEF RequestOK, StepFields, OwnLocks, RotationHolds, SnapshotCovers,
      FollowUpClosed, About, Live

\* Visiting a token keeps the invariant of r.
LEMMA UpdateTokenKept ==
  ASSUME IInv, NEW r \in Req, NEW t \in TokenId, UpdateToken(r, t)
  PROVE  RequestOK(r)'
<1>0. TypeOK /\ RowsConsistent /\ RequestOK(r) /\ req[r].pc = "tokens"
  BY DEF IInv, UpdateToken
<1>1. /\ req'[r].pc = "tokens" /\ req'[r].ts = req[r].ts \ {t}
      /\ req'[r].op = req[r].op /\ req'[r].sid = req[r].sid
      /\ req'[r].user = req[r].user /\ req'[r].seen = req[r].seen
      /\ UNCHANGED <<sess, tok, lockS>>
  BY <1>0 DEF UpdateToken, TypeOK, Request
<1>2. \A x \in TokenId : lockT'[x] = r <=> lockT[x] = r \/ (x = t /\ Targeted(r, t))
  BY <1>0 DEF UpdateToken, TypeOK
<1>3. SweepCovers(r)'
  <2> SUFFICES ASSUME NEW x \in TokenId, tok[x].status = "active", lockS[tok[x].sid] = r
               PROVE  x \in req'[r].ts \/ lockT'[x] = r
    BY <1>1 DEF SweepCovers
  <2>1. Targeted(r, x)
    BY <1>0 DEF RequestOK, OwnLocks, About, RowsConsistent, Targeted
  <2> QED BY <1>0, <1>1, <1>2, <2>1 DEF RequestOK, SweepCovers
<1> QED
  BY <1>0, <1>1, <1>3
  DEF RequestOK, StepFields, OwnLocks, RotationHolds, SnapshotCovers,
      FollowUpClosed, About, Live

\* A commit leaves r idle or with a session that is closed.
LEMMA CommitKept ==
  ASSUME IInv, NEW r \in Req, Commit(r) PROVE RequestOK(r)'
<1>0. TypeOK /\ RequestOK(r) /\ req'[r] = AfterCommit(r) /\ Release(r)
  BY DEF IInv, Commit, TypeOK
<1>1. \A s \in SessionId : lockS'[s] # r
  BY <1>0, Released
<1>2. CASE req[r].op \notin {"token_mismatch", "token_reused"}
  BY <1>0, <1>1, <1>2, IdleOK DEF AfterCommit
<1>3. CASE req[r].op \in {"token_mismatch", "token_reused"}
  <2>1. req'[r] = Fresh("begin", "reuse_detected", None, req[r].sid, None, None, 0, {})
    BY <1>0, <1>3 DEF AfterCommit
  <2>2. req[r].sid \in SessionId /\ lockS[req[r].sid] = r
    BY <1>0, <1>3 DEF RequestOK, StepFields, RotationHolds
  <2>3. sess'[req[r].sid].status \notin {"none", "active"}
    BY <2>2, Closing
  <2> QED
    BY <1>1, <2>1, <2>2, <2>3
    DEF RequestOK, StepFields, OwnLocks, RotationHolds, SnapshotCovers,
        SweepCovers, FollowUpClosed, Fresh
<1> QED BY <1>2, <1>3

-----------------------------------------------------------------------------
(* The reserved ids.                                                       *)

\* What r has reserved after its step: nothing new, or ids that are fresh.
LEMMA OwnReservation ==
  ASSUME IInv, NEW r \in Req, Step(r)
  PROVE  /\ \/ req'[r].new = None
            \/ req'[r].new = req[r].new /\ UNCHANGED <<sess, tok>>
            \/ req'[r].new \in FreshToken /\ UNCHANGED <<sess, tok>>
         /\ \/ req'[r].pc # "create"
            \/ /\ req'[r].sid \in FreshSession /\ UNCHANGED <<sess, tok>>
<1>0. TypeOK /\ StepFields(r)
  BY DEF IInv, RequestOK
<1> USE DEF TypeOK, Fresh, Idle
<1>1. ASSUME NEW u \in User, StartCreate(r, u)
      PROVE  /\ req'[r].new \in FreshToken /\ req'[r].sid \in FreshSession
             /\ UNCHANGED <<sess, tok>>
  BY <1>0, <1>1 DEF StartCreate
<1>2. ASSUME NEW t \in TokenId, StartRotate(r, t)
      PROVE  req'[r].new \in FreshToken /\ req'[r].pc # "create" /\ UNCHANGED <<sess, tok>>
  BY <1>0, <1>2 DEF StartRotate
<1>3. ASSUME NEW op, NEW u, NEW s, NEW about, Revoke(r, op, u, s, about)
      PROVE  req'[r].new = None /\ req'[r].pc # "create"
  BY <1>0, <1>3 DEF Revoke
<1>4. CASE Start(r)
  BY <1>1, <1>2, <1>3, <1>4 DEF Start, StartLogoutAll, StartReset, StartLogout
<1>5. CASE CommitCreate(r) \/ Refuse(r) \/ Rotate(r) \/ Rollback(r)
  BY <1>0, <1>5 DEF CommitCreate, Refuse, Rotate, Rollback
<1>6. CASE Commit(r)
  BY <1>0, <1>6 DEF Commit, AfterCommit
<1>7. CASE Close(r)
  BY <1>0, <1>7 DEF Close, Request
<1>8. CASE LockToken(r)
  BY <1>0, <1>8 DEF LockToken, Request
<1>9. CASE BeginRevoke(r) \/ BeginSweep(r)
  <2>1. /\ req'[r].new = req[r].new /\ req'[r].pc # "create" /\ UNCHANGED <<sess, tok>>
    <3>1. CASE BeginRevoke(r)
      BY <1>0, <3>1 DEF BeginRevoke, Request
    <3>2. CASE BeginSweep(r)
      BY <1>0, <3>2 DEF BeginSweep, Request
    <3> QED BY <1>9, <3>1, <3>2
  <2> QED BY <2>1
<1>10. CASE EndRevoke(r)
  BY <1>0, <1>10 DEF EndRevoke, Request
<1>11. ASSUME NEW s \in SessionId, UpdateSession(r, s)
       PROVE  req'[r].new = req[r].new /\ req'[r].pc # "create" /\ UNCHANGED <<sess, tok>>
  BY <1>0, <1>11 DEF UpdateSession, Request
<1>12. ASSUME NEW t \in TokenId, UpdateToken(r, t)
       PROVE  req'[r].new = req[r].new /\ req'[r].pc # "create" /\ UNCHANGED <<sess, tok>>
  BY <1>0, <1>12 DEF UpdateToken, Request
<1> QED
  BY <1>4, <1>5, <1>6, <1>7, <1>8, <1>9, <1>10, <1>11, <1>12 DEF Step, Waiting, Running

\* A step of r stores no id that another request has reserved.
LEMMA OthersReservation ==
  ASSUME IInv, NEW r \in Req, Step(r), NEW q \in Req, q # r
  PROVE  /\ req[q].new # None => tok'[req[q].new].status = "none"
         /\ req[q].pc = "create" => sess'[req[q].sid].status = "none"
<1>0. TypeOK /\ Reserved /\ StepFields(q) /\ OwnLocks(r)
  BY DEF IInv, RequestOK
<1>1. \/ UNCHANGED <<sess, tok>>
      \/ CommitCreate(r) \/ Rotate(r) \/ Commit(r)
  BY DEF Step, Start, Waiting, Running, Rollback, StartCreate, StartLogoutAll,
     StartReset, StartRotate, StartLogout, Revoke, LockToken, Refuse, Close,
     UpdateSession, UpdateToken, BeginRevoke, EndRevoke, BeginSweep
<1>2. req[q].new # None => req[q].new \in TokenId /\ tok[req[q].new].status = "none"
                           /\ req[q].new # req[r].new
  BY <1>0 DEF TypeOK, Request, Reserved
<1>3. req[q].pc = "create" => req[q].sid \in SessionId /\ sess[req[q].sid].status = "none"
                              /\ req[q].sid # req[r].sid
  BY <1>0 DEF StepFields, Reserved
<1>4. CASE UNCHANGED <<sess, tok>>
  BY <1>2, <1>3, <1>4
<1>5. CASE CommitCreate(r)
  BY <1>2, <1>3, <1>5, Creation
<1>6. CASE Rotate(r)
  BY <1>2, <1>3, <1>6, Rotation
<1>7. CASE Commit(r)
  BY <1>2, <1>3, <1>7, Closing DEF Live
<1> QED BY <1>1, <1>4, <1>5, <1>6, <1>7

\* r does not come to work on a session that another request is creating.
LEMMA OwnSession ==
  ASSUME IInv, NEW r \in Req, Step(r), NEW q \in Req, q # r, req[q].pc = "create"
  PROVE  req'[r].sid # req[q].sid
<1>0. TypeOK /\ Reserved /\ RowsConsistent /\ StepFields(q)
  BY DEF IInv, RequestOK
<1>1. /\ req[q].sid \in SessionId /\ req[q].sid # None /\ sess[req[q].sid].status = "none"
      /\ req[r].sid # req[q].sid
  BY <1>0 DEF StepFields, Reserved
<1> USE DEF TypeOK, Fresh, Idle
<1>2. ASSUME NEW u \in User, StartCreate(r, u) PROVE req'[r].sid # req[q].sid
  BY <1>0, <1>2 DEF StartCreate, FreshSession
<1>3. ASSUME NEW t \in TokenId, StartRotate(r, t) \/ StartLogout(r, t)
      PROVE  req'[r].sid # req[q].sid
  <2>1. req'[r].sid = tok[t].sid /\ tok[t].status # "none"
    BY <1>0, <1>3 DEF StartRotate, StartLogout, Revoke, Presentable
  <2> QED BY <1>0, <1>1, <2>1 DEF RowsConsistent
<1>4. ASSUME NEW u \in User, StartLogoutAll(r, u) \/ StartReset(r, u)
      PROVE  req'[r].sid # req[q].sid
  BY <1>0, <1>1, <1>4 DEF StartLogoutAll, StartReset, Revoke
<1>5. CASE \/ CommitCreate(r) \/ Refuse(r) \/ Rotate(r) \/ Rollback(r) \/ Commit(r)
  BY <1>0, <1>1, <1>5 DEF CommitCreate, Refuse, Rotate, Rollback, Commit, AfterCommit
<1>6. CASE Close(r)
  BY <1>0, <1>1, <1>6 DEF Close, Request
<1>7. CASE LockToken(r)
  BY <1>0, <1>1, <1>7 DEF LockToken, Request
<1>8. CASE BeginRevoke(r)
  BY <1>0, <1>1, <1>8 DEF BeginRevoke, Request
<1>9. CASE BeginSweep(r)
  BY <1>0, <1>1, <1>9 DEF BeginSweep, Request
<1>10. CASE EndRevoke(r)
  BY <1>0, <1>1, <1>10 DEF EndRevoke, Request
<1>11. ASSUME NEW s \in SessionId, UpdateSession(r, s) PROVE req'[r].sid # req[q].sid
  BY <1>0, <1>1, <1>11 DEF UpdateSession, Request
<1>12. ASSUME NEW t \in TokenId, UpdateToken(r, t) PROVE req'[r].sid # req[q].sid
  BY <1>0, <1>1, <1>12 DEF UpdateToken, Request
<1> QED
  BY <1>2, <1>3, <1>4, <1>5, <1>6, <1>7, <1>8, <1>9, <1>10, <1>11, <1>12
  DEF Step, Start, Waiting, Running

\* Reserved ids stay distinct and unused.
LEMMA ReservedStep ==
  ASSUME IInv, NEW r \in Req, Step(r) PROVE Reserved'
<1>0. TypeOK /\ Reserved /\ \A q \in Req : q # r => req'[q] = req[q]
  BY StrangerUntouched DEF IInv
<1>1. ASSUME NEW a \in Req, req'[a].new # None
      PROVE  /\ tok'[req'[a].new].status = "none"
             /\ \A q \in Req : req'[q].new = req'[a].new => q = a
  <2>1. CASE a = r
    BY <1>0, <1>1, <2>1, OwnReservation DEF Reserved, FreshToken
  <2>2. CASE a # r
    <3>1. tok'[req'[a].new].status = "none"
      BY <1>0, <1>1, <2>2, OthersReservation
    <3>2. req'[r].new # req'[a].new
      BY <1>0, <1>1, <2>2, OwnReservation DEF Reserved, FreshToken
    <3> QED BY <1>0, <1>1, <2>2, <3>1, <3>2 DEF Reserved
  <2> QED BY <2>1, <2>2
<1>2. ASSUME NEW a \in Req, req'[a].pc = "create"
      PROVE  /\ sess'[req'[a].sid].status = "none"
             /\ \A q \in Req : req'[q].sid = req'[a].sid => q = a
  <2>1. CASE a = r
    BY <1>0, <1>2, <2>1, OwnReservation DEF FreshSession
  <2>2. CASE a # r
    <3>1. sess'[req'[a].sid].status = "none"
      BY <1>0, <1>2, <2>2, OthersReservation
    <3>2. req'[r].sid # req'[a].sid
      BY <1>0, <1>2, <2>2, OwnSession
    <3> QED BY <1>0, <1>2, <2>2, <3>1, <3>2 DEF Reserved
  <2> QED BY <2>1, <2>2
<1> QED BY <1>1, <1>2 DEF Reserved

-----------------------------------------------------------------------------
(* The inductive invariant and its consequences.                           *)

\* Every step of r keeps the invariant of r.
LEMMA OwnKept ==
  ASSUME IInv, NEW r \in Req, Step(r) PROVE RequestOK(r)'
BY StartKept, EndKept, LockTokenKept, CloseKept, BeginRevokeKept, UpdateSessionKept,
   EndRevokeKept, BeginSweepKept, UpdateTokenKept, CommitKept
   DEF Step, Waiting, Running

\* The inductive invariant holds at the start.
LEMMA InductiveInit == Init => IInv
<1> SUFFICES ASSUME Init PROVE IInv
    OBVIOUS
<1>1. TypeOK
  BY IdleType DEF Init, TypeOK, SessionRow, SessionStatus, NoSession, TokenRow,
     TokenStatus, NoToken
<1>2. /\ \A s \in SessionId : sess[s].status = "none" /\ lockS[s] = None
      /\ \A t \in TokenId : tok[t].status = "none" /\ tok[t].prev = None
      /\ \A r \in Req : req[r] = Idle
  BY DEF Init, NoSession, NoToken
<1>3. RowsConsistent /\ OneActiveToken /\ ClosedSessionTokens /\ RotationChain /\ SessionLifetime
  BY <1>2 DEF RowsConsistent, OneActiveToken, ClosedSessionTokens, RotationChain, SessionLifetime
<1>4. Reserved
  BY <1>2 DEF Reserved, Idle, Fresh
<1>5. ASSUME NEW r \in Req PROVE RequestOK(r)
  <2>1. req[r] = Idle
    BY <1>2
  <2>2. req[r].pc = "idle" /\ req[r].op = "none" /\ req[r].seen = {}
    BY <2>1 DEF Idle, Fresh
  <2>3. \A s \in SessionId : lockS[s] # r
    BY <1>2, ConstantsAssumption
  <2> QED BY <2>1, <2>2, <2>3 DEF RequestOK, StepFields, OwnLocks, RotationHolds, SnapshotCovers,
          SweepCovers, FollowUpClosed
<1> QED BY <1>1, <1>3, <1>4, <1>5 DEF IInv

\* The inductive invariant is preserved by every step.
LEMMA InductiveStep == IInv /\ [Next]_vars => IInv'
<1> SUFFICES ASSUME IInv, [Next]_vars PROVE IInv'
    OBVIOUS
<1>1. /\ TypeOK' /\ RowsConsistent' /\ OneActiveToken' /\ ClosedSessionTokens'
      /\ RotationChain' /\ SessionLifetime'
  BY TypeStep, RowsConsistentStep, OneActiveTokenStep, ClosedSessionTokensStep,
     RotationChainStep, SessionLifetimeStep DEF IInv
<1>2. Reserved' /\ \A q \in Req : RequestOK(q)'
  <2>1. ASSUME NEW r \in Req, Step(r) PROVE Reserved' /\ \A q \in Req : RequestOK(q)'
    BY <1>1, <2>1, ReservedStep, OwnKept, OthersKept, RowsKept
  <2>2. CASE UNCHANGED <<sess, tok, lockS, lockT, req>>
    BY <2>2 DEF IInv, Reserved, RequestOK, StepFields, Exchanges, OwnLocks, RotationHolds,
       SnapshotCovers, SweepCovers, FollowUpClosed, About, Live
  <2>3. UNCHANGED <<sess, tok, lockS, lockT, req>> \/ \E r \in Req : Step(r)
    BY DEF Next, Step, Abort, Victim, Tick, vars
  <2> QED BY <2>1, <2>2, <2>3
<1> QED BY <1>1, <1>2 DEF IInv

\* Every reachable state satisfies the inductive invariant.
THEOREM Invariance == Spec => []IInv
BY InductiveInit, InductiveStep, PTL DEF Spec

\* However rotations, revocations and failures overlap, a session never has two
\* tokens that could both be exchanged.
THEOREM OneActiveTokenAlways == Spec => []OneActiveToken
<1>1. IInv => OneActiveToken
  BY DEF IInv
<1> QED BY <1>1, Invariance, PTL

\* A closed session never has a token that could be exchanged.
THEOREM ClosedSessionTokensAlways == Spec => []ClosedSessionTokens
<1>1. IInv => ClosedSessionTokens
  BY DEF IInv
<1> QED BY <1>1, Invariance, PTL

\* A refresh token is accepted at most once, by the replacement it names.
THEOREM RotationChainAlways == Spec => []RotationChain
<1>1. IInv => RotationChain
  BY DEF IInv
<1> QED BY <1>1, Invariance, PTL

\* No replacement is minted at or after the end of its session.
THEOREM SessionLifetimeAlways == Spec => []SessionLifetime
<1>1. IInv => SessionLifetime
  BY DEF IInv
<1> QED BY <1>1, Invariance, PTL

\* A revocation closes every session that was live when it was accepted.
THEOREM RevocationCoversAlways == Spec => []RevocationCovers
<1>1. IInv => RevocationCovers
  <2> SUFFICES ASSUME IInv, NEW r \in Req, NEW s \in req[r].seen,
                      \/ req[r].pc \in {"sweep", "tokens"}
                      \/ req[r].pc = "sessions" /\ req[r].ss = {}
               PROVE  ~Live(s) \/ lockS[s] = r
    BY DEF RevocationCovers
  <2>1. SnapshotCovers(r)
    BY DEF IInv, RequestOK
  <2> QED BY <2>1 DEF SnapshotCovers
<1> QED BY <1>1, Invariance, PTL

\* The second revocation after a reuse or mismatch finds the session closed.
THEOREM FollowUpFindsClosedAlways == Spec => []FollowUpFindsClosed
<1>1. IInv => FollowUpFindsClosed
  BY DEF IInv, RequestOK, FollowUpClosed, FollowUpFindsClosed, Live
<1> QED BY <1>1, Invariance, PTL

\* No step changes a session or token row that has reached its end.
THEOREM EndsAreFinalAlways == Spec => EndsAreFinal
<1>1. IInv /\ [Next]_vars =>
        [/\ \A s \in SessionId : sess[s].status \notin {"none", "active"} => sess'[s] = sess[s]
         /\ \A t \in TokenId : tok[t].status \notin {"none", "active"} => tok'[t] = tok[t]]_vars
  BY RowsKept DEF RowsEvolve, Live
<1> QED BY <1>1, Invariance, PTL DEF Spec, EndsAreFinal

-----------------------------------------------------------------------------
(* Deadlocks.  A request that closes one session holds that session while  *)
(* it updates its tokens, so two of them never wait for each other, and    *)
(* neither does a rotation, which holds its session, too: only a user-wide *)
(* revocation takes tokens of sessions that it does not hold.  And one of  *)
(* those is not enough: it takes one token of a session at most, so it     *)
(* cannot both hold a token that a closing session waits for and wait for  *)
(* one that this has locked.                                               *)

\* The tokens it has locked exist, and are of its session if it has but one.
TokenLocks(r) ==
  \A t \in TokenId : lockT[t] = r =>
    /\ tok[t].status # "none"
    /\ \/ req[r].pc = "tokens"
       \/ req[r].pc = "sweep" /\ req[r].op \in RotationEnds
    /\ req[r].op \notin UserWide => tok[t].sid = req[r].sid

\* So are the tokens it has yet to visit.
SweepRows(r) ==
  /\ req[r].pc # "tokens" => req[r].ts = {}
  /\ \A t \in req[r].ts : /\ tok[t].status # "none"
                          /\ req[r].op \notin UserWide => tok[t].sid = req[r].sid

\* A revocation of one session that gets to its tokens holds the session.
HoldsItsSession(r) ==
  req[r].pc \in {"sweep", "tokens"} /\ req[r].op \in SingleSession => lockS[req[r].sid] = r

Takes(r) == req[r].ts \cup {t \in TokenId : lockT[t] = r}

\* Of each session, a user-wide revocation takes one token at most.
OneTokenEach(r) ==
  req[r].op \in UserWide =>
    \A t, x \in Takes(r) : tok[t].sid = tok[x].sid => t = x

SweepOK(r) == /\ TokenLocks(r)
              /\ SweepRows(r)
              /\ HoldsItsSession(r)
              /\ OneTokenEach(r)

SweepInv == \A r \in Req : SweepOK(r)

\* A step of r leaves to the other requests what they count on.
LEMMA OthersSweep ==
  ASSUME IInv, SweepInv, NEW r \in Req, Step(r), RowsEvolve, NEW q \in Req, q # r
  PROVE  SweepOK(q)'
<1>1. SweepOK(q) /\ req[q].ts \in SUBSET TokenId
  BY DEF SweepInv, IInv, TypeOK, Request
<1>2. /\ req'[q] = req[q]
      /\ \A s \in SessionId : lockS'[s] = q <=> lockS[s] = q
      /\ \A t \in TokenId : lockT'[t] = q <=> lockT[t] = q
  BY OwnRecord
<1>3. \A t \in TokenId : tok[t].status # "none" =>
        tok'[t].status # "none" /\ tok'[t].sid = tok[t].sid
  BY DEF RowsEvolve, SameToken
<1>4. TokenLocks(q)'
  BY <1>1, <1>2, <1>3 DEF SweepOK, TokenLocks
<1>5. SweepRows(q)'
  BY <1>1, <1>2, <1>3 DEF SweepOK, SweepRows
<1>6. HoldsItsSession(q)'
  <2>1. req[q].op \in SingleSession => req[q].sid \in SessionId
    BY DEF IInv, RequestOK, StepFields
  <2> QED BY <1>1, <1>2, <2>1 DEF SweepOK, HoldsItsSession
<1>7. OneTokenEach(q)'
  <2>1. \A t \in Takes(q) : t \in TokenId /\ tok'[t].sid = tok[t].sid
    BY <1>1, <1>3 DEF Takes, SweepOK, SweepRows, TokenLocks
  <2>2. Takes(q)' = Takes(q)
    BY <1>2 DEF Takes
  <2> QED BY <1>1, <1>2, <2>1, <2>2 DEF SweepOK, OneTokenEach
<1> QED BY <1>4, <1>5, <1>6, <1>7 DEF SweepOK

\* A request that does not take tokens yet, or no more.
LEMMA NoTokensTaken ==
  ASSUME NEW r \in Req, req'[r].pc \notin {"sweep", "tokens"}, req'[r].ts = {},
         \A t \in TokenId : lockT'[t] # r
  PROVE  SweepOK(r)'
BY DEF SweepOK, TokenLocks, SweepRows, HoldsItsSession, OneTokenEach, Takes

\* The request that takes the step, if it goes on without taking tokens.
LEMMA EasySweep ==
  ASSUME IInv, SweepInv, NEW r \in Req,
         \/ Start(r) \/ CommitCreate(r) \/ LockToken(r) \/ Refuse(r) \/ Rotate(r)
         \/ BeginRevoke(r) \/ (\E s \in SessionId : UpdateSession(r, s))
         \/ Commit(r) \/ Rollback(r)
  PROVE  SweepOK(r)'
<1>0. TypeOK /\ SweepOK(r) /\ StepFields(r) /\ req[r] \in Request
  BY DEF IInv, SweepInv, RequestOK, TypeOK
<1>1. ASSUME req[r].pc \notin {"sweep", "tokens"}
      PROVE  req[r].ts = {} /\ \A t \in TokenId : lockT[t] # r
  BY <1>0, <1>1 DEF SweepOK, SweepRows, TokenLocks
<1>2. ASSUME Start(r) PROVE SweepOK(r)'
  <2>1. req[r].pc = "idle" /\ lockT' = lockT
    BY <1>2 DEF Start, StartCreate, StartLogoutAll, StartReset, StartRotate, StartLogout,
                Revoke, Idle, Fresh
  <2>2. req'[r].pc \in {"create", "rotate", "begin"} /\ req'[r].ts = {}
    BY <1>0, <1>2 DEF TypeOK, Start, StartCreate, StartLogoutAll, StartReset, StartRotate,
                      StartLogout, Revoke, Fresh
  <2> QED BY <1>1, <2>1, <2>2, NoTokensTaken
<1>3. ASSUME CommitCreate(r) PROVE SweepOK(r)'
  <2>1. req[r].pc = "create" /\ lockT' = lockT /\ req'[r] = Idle
    BY <1>0, <1>3 DEF CommitCreate, TypeOK
  <2> QED BY <1>1, <2>1, NoTokensTaken DEF Idle, Fresh
<1>4. ASSUME LockToken(r) \/ BeginRevoke(r) \/ (\E s \in SessionId : UpdateSession(r, s))
      PROVE  SweepOK(r)'
  <2>1. req[r].pc \in {"rotate", "token", "begin", "sessions"} /\ lockT' = lockT
    BY <1>4 DEF LockToken, RowFree, BeginRevoke, UpdateSession
  <2>2. req'[r].pc \in {"token", "sessions"} /\ req'[r].ts = req[r].ts
    BY <1>0, <1>4 DEF LockToken, BeginRevoke, UpdateSession, TypeOK, Request
  <2> QED BY <1>1, <2>1, <2>2, NoTokensTaken
<1>5. ASSUME Refuse(r) \/ Rotate(r) \/ Commit(r) \/ Rollback(r) PROVE SweepOK(r)'
  <2>1. Release(r) /\ (req'[r] = Idle \/ req'[r] = AfterCommit(r))
    BY <1>0, <1>5 DEF Refuse, Rotate, Commit, Rollback, TypeOK
  <2>2. req'[r].pc \in {"idle", "begin"} /\ req'[r].ts = {}
    BY <2>1 DEF AfterCommit, Idle, Fresh
  <2>3. \A t \in TokenId : lockT'[t] # r
    BY <1>0, <2>1 DEF Release, Free, TypeOK
  <2> QED BY <2>2, <2>3, NoTokensTaken
<1> QED BY <1>2, <1>3, <1>4, <1>5

\* A rotation that closes its session has locked the token it was about.
LEMMA CloseSweep ==
  ASSUME IInv, SweepInv, NEW r \in Req, Close(r)
  PROVE  SweepOK(r)'
<1>0. TypeOK /\ SweepOK(r) /\ StepFields(r) /\ req[r] \in Request
  BY DEF IInv, SweepInv, RequestOK, TypeOK
<1>1. req[r].pc \in {"rotate", "token"} /\ Exchanges(r) /\ Verdict(r) \in RotationEnds
  BY <1>0 DEF Close, RowFree, StepFields
<1>2. req[r].ts = {} /\ \A t \in TokenId : lockT[t] # r
  BY <1>0, <1>1 DEF SweepOK, SweepRows, TokenLocks
<1>3. /\ req'[r].pc = "sweep" /\ req'[r].op \in RotationEnds
      /\ req'[r].sid = req[r].sid /\ req'[r].ts = {} /\ tok' = tok
  BY <1>0, <1>1, <1>2 DEF Close, TypeOK, Request
<1>4. \A t \in TokenId : lockT'[t] = r => t = req[r].tid
  BY <1>0, <1>2 DEF Close, TypeOK
<1>5. \A t \in TokenId : lockT'[t] = r => tok'[t].status # "none" /\ tok'[t].sid = req'[r].sid
  BY <1>1, <1>3, <1>4 DEF Exchanges
<1> QED BY <1>3, <1>5 DEF SweepOK, TokenLocks, SweepRows, HoldsItsSession, OneTokenEach

\* A revocation that goes on to the tokens has locked its session.
LEMMA EndRevokeSweep ==
  ASSUME IInv, SweepInv, NEW r \in Req, EndRevoke(r)
  PROVE  SweepOK(r)'
<1>0. TypeOK /\ SweepOK(r) /\ RequestOK(r) /\ req[r] \in Request /\ req[r].pc = "sessions"
  BY DEF IInv, SweepInv, TypeOK, EndRevoke
<1>1. req[r].ts = {} /\ (\A t \in TokenId : lockT[t] # r) /\ lockT' = lockT /\ lockS' = lockS
  BY <1>0 DEF SweepOK, SweepRows, TokenLocks, EndRevoke
<1>2. CASE Holds(r) \/ req[r].op = "password_reset"
  <2>1. /\ req'[r].pc = "sweep" /\ req'[r].op = req[r].op
        /\ req'[r].sid = req[r].sid /\ req'[r].ts = {}
    BY <1>0, <1>1, <1>2 DEF EndRevoke, TypeOK
  <2>2. req[r].op \in SingleSession => lockS[req[r].sid] = r
    BY <1>0, <1>2 DEF Holds, RequestOK, OwnLocks, About
  <2> QED BY <1>1, <2>1, <2>2
       DEF SweepOK, TokenLocks, SweepRows, HoldsItsSession, OneTokenEach, Takes
<1>3. CASE ~(Holds(r) \/ req[r].op = "password_reset")
  <2>1. req'[r] = Idle
    BY <1>0, <1>3 DEF EndRevoke, TypeOK
  <2> QED BY <1>1, <2>1, NoTokensTaken DEF Idle, Fresh
<1> QED BY <1>2, <1>3

\* The snapshot of an UPDATE of tokens has one active token of each session.
LEMMA BeginSweepSweep ==
  ASSUME IInv, SweepInv, NEW r \in Req, BeginSweep(r)
  PROVE  SweepOK(r)'
<1>0. TypeOK /\ SweepOK(r) /\ req[r] \in Request /\ req[r].pc = "sweep" /\ OneActiveToken
  BY DEF IInv, SweepInv, TypeOK, BeginSweep
<1> DEFINE ts == {t \in TokenId : Targeted(r, t)}
<1>1. /\ req'[r].pc = "tokens" /\ req'[r].op = req[r].op /\ req'[r].sid = req[r].sid
      /\ req'[r].ts = ts /\ UNCHANGED <<tok, lockS, lockT>>
  <2>1. req'[r] = [req[r] EXCEPT !.pc = "tokens", !.ts = ts]
    BY <1>0 DEF BeginSweep, TypeOK
  <2>2. UNCHANGED <<tok, lockS, lockT>>
    BY DEF BeginSweep
  <2> HIDE DEF ts
  <2> QED BY <1>0, <2>1, <2>2 DEF Request
<1>2. \A t \in ts : tok[t].status = "active" /\ (req[r].op \notin UserWide => tok[t].sid = req[r].sid)
  BY DEF Targeted
<1>3. TokenLocks(r)'
  BY <1>0, <1>1 DEF SweepOK, TokenLocks
<1>4. SweepRows(r)'
  BY <1>1, <1>2 DEF SweepRows
<1>5. HoldsItsSession(r)'
  BY <1>0, <1>1 DEF SweepOK, HoldsItsSession
<1>6. OneTokenEach(r)'
  <2>1. req[r].op \in UserWide => \A t \in TokenId : lockT[t] # r
    BY <1>0 DEF SweepOK, TokenLocks
  <2>2. \A t, x \in ts : tok[t].sid = tok[x].sid => t = x
    BY <1>0, <1>2 DEF OneActiveToken
  <2> HIDE DEF ts
  <2> QED BY <1>1, <2>1, <2>2 DEF OneTokenEach, Takes
<1> QED BY <1>3, <1>4, <1>5, <1>6 DEF SweepOK

\* A token is visited and perhaps locked, and is taken as before.
LEMMA UpdateTokenSweep ==
  ASSUME IInv, SweepInv, NEW r \in Req, NEW t \in TokenId, UpdateToken(r, t)
  PROVE  SweepOK(r)'
<1>0. TypeOK /\ SweepOK(r) /\ req[r] \in Request /\ req[r].pc = "tokens" /\ t \in req[r].ts
  BY DEF IInv, SweepInv, TypeOK, UpdateToken
<1>1. /\ req'[r].pc = "tokens" /\ req'[r].op = req[r].op /\ req'[r].sid = req[r].sid
      /\ req'[r].ts = req[r].ts \ {t} /\ UNCHANGED <<tok, lockS>>
  BY <1>0 DEF UpdateToken, TypeOK, Request
<1>2. \A x \in TokenId : lockT'[x] = r => lockT[x] = r \/ x = t
  BY <1>0 DEF UpdateToken, TypeOK
<1>3. TokenLocks(r)'
  BY <1>0, <1>1, <1>2 DEF SweepOK, TokenLocks, SweepRows
<1>4. SweepRows(r)'
  BY <1>0, <1>1 DEF SweepOK, SweepRows
<1>5. HoldsItsSession(r)'
  BY <1>0, <1>1 DEF SweepOK, HoldsItsSession
<1>6. OneTokenEach(r)'
  <2>1. Takes(r)' \subseteq Takes(r)
    BY <1>0, <1>1, <1>2 DEF Takes
  <2> QED BY <1>0, <1>1, <2>1 DEF SweepOK, OneTokenEach
<1> QED BY <1>3, <1>4, <1>5, <1>6 DEF SweepOK

LEMMA SweepInit == Init => SweepInv
<1> SUFFICES ASSUME Init, NEW r \in Req PROVE SweepOK(r)
  BY DEF SweepInv
<1>1. req[r].pc = "idle" /\ req[r].op = "none" /\ req[r].ts = {}
      /\ \A t \in TokenId : lockT[t] # r
  BY DEF Init, Idle, Fresh
<1> QED BY <1>1 DEF SweepOK, TokenLocks, SweepRows, HoldsItsSession, OneTokenEach

LEMMA SweepStep == IInv /\ SweepInv /\ [Next]_vars => SweepInv'
<1> SUFFICES ASSUME IInv, SweepInv, [Next]_vars, NEW q \in Req PROVE SweepOK(q)'
  BY DEF SweepInv
<1>1. ASSUME NEW r \in Req, Step(r) PROVE SweepOK(q)'
  <2>1. CASE q = r
    BY <1>1, <2>1, EasySweep, CloseSweep, EndRevokeSweep, BeginSweepSweep, UpdateTokenSweep
       DEF Step, Waiting, Running
  <2>2. CASE q # r
    BY <1>1, <2>2, OthersSweep, RowsKept
  <2> QED BY <2>1, <2>2
<1>2. CASE UNCHANGED <<tok, lockS, lockT, req>>
  BY <1>2 DEF SweepInv, SweepOK, TokenLocks, SweepRows, HoldsItsSession, OneTokenEach, Takes
<1>3. UNCHANGED <<tok, lockS, lockT, req>> \/ \E r \in Req : Step(r)
  BY DEF Next, Step, Abort, Victim, Tick, vars
<1> QED BY <1>1, <1>2, <1>3

\* Every reachable state satisfies what is claimed of the sweeps.
THEOREM SweepInvariance == Spec => []SweepInv
BY Invariance, SweepInit, SweepStep, PTL DEF Spec

\* Two user-wide revocations among the requests of S.
TwoSweeps(S) == \E q, r \in S : q # r /\ {req[q].op, req[r].op} \subseteq UserWide

\* Who waits for a row of S's requests, and where they can be.
LEMMA CycleWaits ==
  ASSUME NEW S \in SUBSET Req, WaitCycle(S), NEW r \in S
  PROVE  /\ req[r].pc \in {"rotate", "token", "sessions", "tokens"}
         /\ req[r].pc = "rotate" => lockS[req[r].sid] \in S \ {r}
         /\ req[r].pc = "token" => lockT[req[r].tid] \in S \ {r}
         /\ req[r].pc = "sessions" => \E s \in req[r].ss : TRUE
         /\ req[r].pc = "sessions" => \A s \in req[r].ss : lockS[s] \in S \ {r}
         /\ req[r].pc = "tokens" => \E t \in req[r].ts : TRUE
         /\ req[r].pc = "tokens" => \A t \in req[r].ts : lockT[t] \in S \ {r}
<1>1. Blockers(r) # {} /\ Blockers(r) \subseteq S \ {r}
  BY DEF WaitCycle
<1>2. CASE req[r].pc = "rotate"
  BY <1>1, <1>2 DEF Blockers
<1>3. CASE req[r].pc = "token"
  BY <1>1, <1>3 DEF Blockers
<1>4. CASE req[r].pc = "sessions"
  <2>1. Blockers(r) = {lockS[s] : s \in req[r].ss}
    BY <1>4 DEF Blockers
  <2> QED BY <1>1, <1>4, <2>1
<1>5. CASE req[r].pc = "tokens"
  <2>1. Blockers(r) = {lockT[t] : t \in req[r].ts}
    BY <1>5 DEF Blockers
  <2> QED BY <1>1, <1>5, <2>1
<1>6. req[r].pc \in {"rotate", "token", "sessions", "tokens"}
  BY <1>1 DEF Blockers
<1> QED BY <1>2, <1>3, <1>4, <1>5, <1>6

\* A token is locked, within a cycle, by a request that visits tokens; unless
\* this is a user-wide revocation, it holds the token's session.
LEMMA TokenOwner ==
  ASSUME IInv, SweepInv, NEW S \in SUBSET Req, WaitCycle(S),
         NEW t \in TokenId, NEW p \in S, lockT[t] = p
  PROVE  /\ req[p].pc = "tokens"
         /\ req[p].op \notin UserWide => lockS[tok[t].sid] = p
<1>1. TokenLocks(p) /\ HoldsItsSession(p) /\ StepFields(p) /\ RotationHolds(p)
  BY DEF IInv, RequestOK, SweepInv, SweepOK
<1>2. req[p].pc = "tokens"
  BY <1>1, CycleWaits DEF TokenLocks
<1>3. ASSUME req[p].op \notin UserWide PROVE lockS[tok[t].sid] = p
  <2>1. tok[t].sid = req[p].sid
    BY <1>1, <1>3 DEF TokenLocks
  <2>2. req[p].op \in SingleSession \cup RotationEnds
    BY <1>1, <1>2, <1>3 DEF StepFields
  <2> QED BY <1>1, <1>2, <2>1, <2>2 DEF HoldsItsSession, RotationHolds
<1> QED BY <1>2, <1>3

\* A rotation or a revocation of one session that waits for a token waits for
\* a user-wide revocation: the others would hold the session that it holds.
LEMMA WaitsForSweep ==
  ASSUME IInv, SweepInv, NEW S \in SUBSET Req, WaitCycle(S),
         NEW q \in S, req[q].pc \in {"token", "tokens"}, req[q].op \notin UserWide
  PROVE  \E t \in TokenId, p \in S :
           /\ lockT[t] = p /\ p # q /\ tok[t].sid = req[q].sid
           /\ req[p].pc = "tokens" /\ req[p].op \in UserWide
<1>1. /\ SweepRows(q) /\ HoldsItsSession(q) /\ StepFields(q) /\ RotationHolds(q)
      /\ req[q].ts \in SUBSET TokenId
  BY DEF IInv, RequestOK, SweepInv, SweepOK, TypeOK, Request
<1>2. lockS[req[q].sid] = q
  <2>1. CASE req[q].pc = "token"
    BY <1>1, <2>1 DEF RotationHolds
  <2>2. CASE req[q].pc = "tokens"
    <3>1. req[q].op \in SingleSession \cup RotationEnds
      BY <1>1, <2>2 DEF StepFields
    <3> QED BY <1>1, <2>2, <3>1 DEF HoldsItsSession, RotationHolds
  <2> QED BY <2>1, <2>2
<1>3. \E t \in TokenId : lockT[t] \in S \ {q} /\ tok[t].sid = req[q].sid
  <2>1. CASE req[q].pc = "token"
    BY <1>1, <2>1, CycleWaits DEF StepFields, Exchanges
  <2>2. CASE req[q].pc = "tokens"
    <3>1. PICK t \in req[q].ts : lockT[t] \in S \ {q}
      BY <2>2, CycleWaits
    <3> QED BY <1>1, <3>1 DEF SweepRows
  <2> QED BY <2>1, <2>2
<1>4. PICK t \in TokenId : lockT[t] \in S \ {q} /\ tok[t].sid = req[q].sid
  BY <1>3
<1>5. PICK p \in S : p = lockT[t] /\ p # q
  BY <1>4
<1>6. req[p].pc = "tokens" /\ (req[p].op \notin UserWide => lockS[req[q].sid] = p)
  BY <1>4, <1>5, TokenOwner
<1> QED BY <1>2, <1>4, <1>5, <1>6

\* A user-wide revocation that waits for a token is not the only one: if it
\* waits for a request that closes the token's session, that one waits for
\* another token of this session, which the first cannot have taken too.
LEMMA SweepIsNotAlone ==
  ASSUME IInv, SweepInv, NEW S \in SUBSET Req, WaitCycle(S),
         NEW p \in S, req[p].pc = "tokens", req[p].op \in UserWide
  PROVE  TwoSweeps(S)
<1>1. OneTokenEach(p) /\ req[p].ts \in SUBSET TokenId
  BY DEF IInv, SweepInv, SweepOK, TypeOK, Request
<1>2. PICK t \in req[p].ts : lockT[t] \in S \ {p}
  BY CycleWaits
<1>3. PICK q \in S : q = lockT[t] /\ q # p
  BY <1>2
<1>4. t \in TokenId /\ lockT[t] = q
  BY <1>1, <1>3
<1>5. CASE req[q].op \in UserWide
  BY <1>3, <1>5 DEF TwoSweeps
<1>6. CASE req[q].op \notin UserWide
  <2>1. req[q].pc = "tokens" /\ tok[t].sid = req[q].sid
    BY <1>4, <1>6, TokenOwner DEF SweepInv, SweepOK, TokenLocks
  <2>2. PICK x \in TokenId, p2 \in S :
          /\ lockT[x] = p2 /\ tok[x].sid = req[q].sid /\ req[p2].op \in UserWide
    BY <1>6, <2>1, WaitsForSweep
  <2>3. p2 # p
    <3> SUFFICES ASSUME p2 = p PROVE FALSE
      OBVIOUS
    <3>1. t \in Takes(p) /\ x \in Takes(p) /\ tok[t].sid = tok[x].sid
      BY <1>2, <2>1, <2>2 DEF Takes
    <3>2. t = x
      BY <1>1, <3>1 DEF OneTokenEach
    <3> QED BY <1>3, <1>4, <2>2, <3>2
  <2> QED BY <2>2, <2>3 DEF TwoSweeps
<1> QED BY <1>5, <1>6

\* A session is held, within a cycle, by a request that waits for a token or
\* by a user-wide revocation that waits for another session.
LEMMA SessionOwner ==
  ASSUME IInv, SweepInv, NEW S \in SUBSET Req, WaitCycle(S),
         NEW s \in SessionId, NEW q \in S, lockS[s] = q
  PROVE  \/ req[q].pc \in {"token", "tokens"}
         \/ req[q].pc = "sessions" /\ req[q].op \in UserWide
<1>1. OwnLocks(q) /\ StepFields(q) /\ SnapshotCovers(q)
  BY DEF IInv, RequestOK
<1>2. req[q].pc \in {"token", "sessions", "tokens"} /\ About(q, s)
  BY <1>1, CycleWaits DEF OwnLocks
<1>3. ASSUME req[q].pc = "sessions", req[q].op \notin UserWide PROVE FALSE
  <2>1. PICK x \in req[q].ss : lockS[x] \in S \ {q}
    BY <1>3, CycleWaits
  <2>2. x = req[q].sid /\ s = req[q].sid
    BY <1>1, <1>2, <1>3 DEF SnapshotCovers, About
  <2> QED BY <2>1, <2>2
<1> QED BY <1>2, <1>3

\* So whoever holds a session that a cycle waits for leads to two of them.
LEMMA OwnerLeadsToTwo ==
  ASSUME IInv, SweepInv, NEW S \in SUBSET Req, WaitCycle(S),
         NEW q \in S, \/ req[q].pc \in {"token", "tokens"}
                      \/ req[q].pc = "sessions" /\ req[q].op \in UserWide
  PROVE  TwoSweeps(S)
<1>1. ASSUME NEW r \in S, req[r].pc \in {"token", "tokens"} PROVE TwoSweeps(S)
  <2>1. CASE req[r].pc = "tokens" /\ req[r].op \in UserWide
    BY <2>1, SweepIsNotAlone
  <2>2. CASE req[r].op \notin UserWide
    <3>1. PICK p \in S : req[p].pc = "tokens" /\ req[p].op \in UserWide
      BY <1>1, <2>2, WaitsForSweep
    <3> QED BY <3>1, SweepIsNotAlone
  <2>3. req[r].pc = "token" => req[r].op \notin UserWide
    BY DEF IInv, RequestOK, StepFields
  <2> QED BY <1>1, <2>1, <2>2, <2>3
<1>2. ASSUME req[q].pc = "sessions", req[q].op \in UserWide PROVE TwoSweeps(S)
  <2>1. PICK s \in req[q].ss : lockS[s] \in S \ {q}
    BY <1>2, CycleWaits
  <2>2. s \in SessionId
    BY DEF IInv, TypeOK, Request
  <2>3. PICK r \in S : r = lockS[s] /\ r # q
    BY <2>1
  <2>4. \/ req[r].pc \in {"token", "tokens"}
        \/ req[r].pc = "sessions" /\ req[r].op \in UserWide
    BY <2>2, <2>3, SessionOwner
  <2>5. CASE req[r].op \in UserWide
    BY <1>2, <2>3, <2>5 DEF TwoSweeps
  <2> QED BY <1>1, <2>4, <2>5
<1> QED BY <1>1, <1>2

\* Requests that wait for each other include two user-wide revocations,
\* however many there are and whether or not the cycle is a minimal one.
LEMMA CycleHasTwoSweeps ==
  ASSUME IInv, SweepInv, NEW S \in SUBSET Req, WaitCycle(S)
  PROVE  TwoSweeps(S)
<1>1. PICK r \in S : TRUE
  BY DEF WaitCycle
<1>2. CASE req[r].pc \in {"token", "tokens"}
  BY <1>2, OwnerLeadsToTwo
<1>3. ASSUME req[r].pc \in {"rotate", "sessions"} PROVE TwoSweeps(S)
  <2>1. \E s \in SessionId : lockS[s] \in S
    <3>1. CASE req[r].pc = "rotate"
      <4>1. req[r].tid \in TokenId /\ tok[req[r].tid].status # "none"
            /\ tok[req[r].tid].sid = req[r].sid
        BY <3>1 DEF IInv, RequestOK, StepFields, Exchanges
      <4>2. req[r].sid \in SessionId
        BY <4>1 DEF IInv, RowsConsistent
      <4> QED BY <3>1, <4>2, CycleWaits
    <3>2. CASE req[r].pc = "sessions"
      <4>1. PICK s \in req[r].ss : lockS[s] \in S \ {r}
        BY <3>2, CycleWaits
      <4> QED BY <4>1 DEF IInv, TypeOK, Request
    <3> QED BY <1>3, <3>1, <3>2
  <2>2. PICK s \in SessionId : lockS[s] \in S
    BY <2>1
  <2>3. PICK q \in S : q = lockS[s]
    BY <2>2
  <2> QED BY <2>3, SessionOwner, OwnerLeadsToTwo
<1> QED BY <1>1, <1>2, <1>3, CycleWaits

\* Rotations, logouts of one session and logins never deadlock among
\* themselves: every deadlock has two user-wide revocations in it.
THEOREM DeadlocksAreOfTwoSweeps == Spec => []DeadlockNeedsTwoSweeps
<1>1. IInv /\ SweepInv => DeadlockNeedsTwoSweeps
  BY CycleHasTwoSweeps DEF DeadlockNeedsTwoSweeps, Deadlocks, TwoSweeps
<1> QED BY <1>1, Invariance, SweepInvariance, PTL
=============================================================================
