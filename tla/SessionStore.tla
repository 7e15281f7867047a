---------------------------- MODULE SessionStore ----------------------------
(***************************************************************************)
(* Refresh-token sessions of the user-management service: the rows of      *)
(* user_sessions and refresh_tokens, and the requests that work on them    *)
(* from every replica of the service (session.service.ts,                  *)
(* postgres-session.repository.ts and the last statements of               *)
(* password-reset.service.ts).                                             *)
(*                                                                         *)
(* sess and tok are the committed rows.  A transaction runs statement by   *)
(* statement under READ COMMITTED: an UPDATE takes its target rows from a  *)
(* snapshot (the fields ss and ts of the request), then visits them in any *)
(* order, waits for each row's lock and checks its WHERE clause again on   *)
(* the row it finds.  What a transaction has written is visible to others  *)
(* only when it commits; until then its writes are the rows it has locked, *)
(* with the status its operation gives them.                               *)
(***************************************************************************)
EXTENDS Naturals

CONSTANTS
  User,       \* account ids
  SessionId,  \* ids the generator may give a session
  TokenId,    \* ids the generator may give a refresh token
  Req,        \* requests in progress at once, on all replicas
  None,       \* SQL NULL, and the owner of a row nobody has locked
  Ttl,        \* JWT_REFRESH_EXPIRES_DAYS: life of a session and of a refresh JWT
  AccessTtl,  \* life of an access JWT
  MaxTime     \* bound of the clock

ASSUME ConstantsAssumption ==
  /\ None \notin User \cup SessionId \cup TokenId \cup Req
  /\ Ttl \in Nat \ {0}
  /\ AccessTtl \in Nat
  /\ MaxTime \in Nat

VARIABLES
  now,    \* the wall clock, in units of the lifetimes
  sess,   \* user_sessions, as committed
  tok,    \* refresh_tokens, as committed
  lockS,  \* owner of the row lock of each session
  lockT,  \* owner of the row lock of each token
  req     \* what each request is doing

vars == <<now, sess, tok, lockS, lockT, req>>

-----------------------------------------------------------------------------
(* Types. "none" is the status of a row that does not exist.               *)

SessionStatus == {"none", "active", "revoked", "expired", "compromised"}
TokenStatus   == {"none", "active", "rotated", "revoked", "expired"}

SingleSession == {"logout", "reuse_detected"}        \* revokeSession
UserWide      == {"logout_all", "password_reset"}    \* by user_id
Revocations   == SingleSession \cup UserWide
RotationEnds  == {"session_expired", "token_mismatch", "token_reused"}
Op == {"none", "create", "rotate"} \cup Revocations \cup RotationEnds

PC == {"idle",      \* no request
       "create",    \* ids reserved, the insert not yet committed
       "rotate",    \* wants the session row
       "token",     \* holds the session row, wants the token row
       "begin",     \* revocation accepted, its UPDATE of sessions not begun
       "sessions",  \* UPDATE user_sessions in progress
       "sweep",     \* sessions closed, UPDATE refresh_tokens not begun
       "tokens"}    \* UPDATE refresh_tokens in progress

SessionRow == [status : SessionStatus, user : User \cup {None}, exp : Nat]

\* prev is not a column: it records which token a replacement was issued for.
TokenRow == [status : TokenStatus, sid : SessionId \cup {None},
             user : User \cup {None}, exp : Nat,
             next : TokenId \cup {None}, prev : TokenId \cup {None}]

\* new: reserved token id.  at: the clock when the request was accepted.
\* seen: the sessions that were live then, the ones a revocation is about.
Request == [pc : PC, op : Op, user : User \cup {None},
            sid : SessionId \cup {None}, tid : TokenId \cup {None},
            new : TokenId \cup {None}, at : Nat,
            ss : SUBSET SessionId, ts : SUBSET TokenId, seen : SUBSET SessionId]

NoSession == [status |-> "none", user |-> None, exp |-> 0]
NoToken   == [status |-> "none", sid |-> None, user |-> None, exp |-> 0,
              next |-> None, prev |-> None]

\* A request that has visited no row yet.
Fresh(pc, op, u, s, t, n, at, about) ==
  [pc |-> pc, op |-> op, user |-> u, sid |-> s, tid |-> t, new |-> n, at |-> at,
   ss |-> {}, ts |-> {}, seen |-> about]

Idle == Fresh("idle", "none", None, None, None, None, 0, {})

TypeOK ==
  /\ now \in 0..MaxTime
  /\ sess \in [SessionId -> SessionRow]
  /\ tok \in [TokenId -> TokenRow]
  /\ lockS \in [SessionId -> Req \cup {None}]
  /\ lockT \in [TokenId -> Req \cup {None}]
  /\ req \in [Req -> Request]

Init ==
  /\ now = 0
  /\ sess = [s \in SessionId |-> NoSession]
  /\ tok = [t \in TokenId |-> NoToken]
  /\ lockS = [s \in SessionId |-> None]
  /\ lockT = [t \in TokenId |-> None]
  /\ req = [r \in Req |-> Idle]

-----------------------------------------------------------------------------
(* Rows and locks.                                                         *)

Live(s) == sess[s].status = "active"

LiveSessions(u) == {s \in SessionId : Live(s) /\ sess[s].user = u}

\* The id generator never repeats an id, stored or about to be stored.
FreshSession == {s \in SessionId : sess[s].status = "none"
                                     /\ \A r \in Req : req[r].sid # s}
FreshToken == {t \in TokenId : tok[t].status = "none"
                                 /\ \A r \in Req : req[r].new # t}

Free(lock, r) == [x \in DOMAIN lock |-> IF lock[x] = r THEN None ELSE lock[x]]

Release(r) == /\ lockS' = Free(lockS, r)
              /\ lockT' = Free(lockT, r)

NewToken(r, prev) ==
  [status |-> "active", sid |-> req[r].sid, user |-> req[r].user,
   exp |-> req[r].at + Ttl, next |-> None, prev |-> prev]

-----------------------------------------------------------------------------
(* Creating a session (login): one transaction inserts both rows.          *)

StartCreate(r, u) ==
  /\ req[r] = Idle
  /\ \E s \in FreshSession, n \in FreshToken :
       req' = [req EXCEPT ![r] =
                 Fresh("create", "create", u, s, None, n, now, {})]
  /\ UNCHANGED <<now, sess, tok, lockS, lockT>>

CommitCreate(r) ==
  /\ req[r].pc = "create"
  /\ sess' = [sess EXCEPT ![req[r].sid] =
                [status |-> "active", user |-> req[r].user,
                 exp |-> req[r].at + Ttl]]
  /\ tok' = [tok EXCEPT ![req[r].new] = NewToken(r, None)]
  /\ req' = [req EXCEPT ![r] = Idle]
  /\ UNCHANGED <<now, lockS, lockT>>

-----------------------------------------------------------------------------
(* Rotating a refresh token.                                               *)

\* The JWT of t verifies: it was issued, and it has not expired.
Presentable(t) == tok[t].status # "none" /\ now < tok[t].exp

StartRotate(r, t) ==
  /\ req[r] = Idle
  /\ Presentable(t)
  /\ \E n \in FreshToken :
       req' = [req EXCEPT ![r] =
                 Fresh("rotate", "rotate", tok[t].user, tok[t].sid, t, n, now, {})]
  /\ UNCHANGED <<now, sess, tok, lockS, lockT>>

\* The row the rotation waits for is unlocked.
RowFree(r) ==
  \/ req[r].pc = "rotate" /\ lockS[req[r].sid] = None
  \/ req[r].pc = "token" /\ lockT[req[r].tid] = None

\* Mutant: a session is still good at the instant it expires.
SessionVerdictLate(r) ==
  LET s == sess[req[r].sid] IN
  IF s.status = "none" THEN "session_missing"
  ELSE IF s.user # req[r].user THEN "token_mismatch"
  ELSE IF s.status # "active" THEN "session_revoked"
  ELSE IF s.exp < req[r].at THEN "session_expired"
  ELSE "lock_token"

\* What the locked session row makes of the rotation.
SessionVerdict(r) ==
  LET s == sess[req[r].sid] IN
  IF s.status = "none" THEN "session_missing"
  ELSE IF s.user # req[r].user THEN "token_mismatch"
  ELSE IF s.status # "active" THEN "session_revoked"
  ELSE IF s.exp <= req[r].at THEN "session_expired"
  ELSE "lock_token"

\* Mutant: the token's status is not looked at.
TokenVerdictBlind(r) ==
  LET t == tok[req[r].tid] IN
  IF t.status = "none" THEN "token_missing"
  ELSE IF t.sid # req[r].sid \/ t.user # req[r].user THEN "token_mismatch"
  ELSE "rotated"

\* What the locked token row makes of it.  The signed JWT fixes the hash.
TokenVerdict(r) ==
  LET t == tok[req[r].tid] IN
  IF t.status = "none" THEN "token_missing"
  ELSE IF t.sid # req[r].sid \/ t.user # req[r].user THEN "token_mismatch"
  ELSE IF t.status # "active" THEN "token_reused"
  ELSE "rotated"

Verdict(r) == IF req[r].pc = "rotate" THEN SessionVerdict(r) ELSE TokenVerdict(r)

\* Mutant: the session is read without FOR UPDATE.
LockTokenOnly(r) ==
  /\ RowFree(r)
  /\ Verdict(r) = "lock_token"
  /\ req' = [req EXCEPT ![r].pc = "token"]
  /\ UNCHANGED <<now, sess, tok, lockS, lockT>>

\* The session may be used: hold its row and ask for the token's.
LockToken(r) ==
  /\ RowFree(r)
  /\ Verdict(r) = "lock_token"
  /\ lockS' = [lockS EXCEPT ![req[r].sid] = r]
  /\ req' = [req EXCEPT ![r].pc = "token"]
  /\ UNCHANGED <<now, sess, tok, lockT>>

\* ROLLBACK, and an error to the client.
Refuse(r) ==
  /\ RowFree(r)
  /\ Verdict(r) \in {"session_missing", "session_revoked", "token_missing"}
  /\ Release(r)
  /\ req' = [req EXCEPT ![r] = Idle]
  /\ UNCHANGED <<now, sess, tok>>

\* The transaction turns into one that closes the session: it writes the
\* session row it holds and will sweep the session's tokens.
Close(r) ==
  /\ RowFree(r)
  /\ Verdict(r) \in RotationEnds
  /\ lockS' = [lockS EXCEPT ![req[r].sid] = r]
  /\ lockT' = IF req[r].pc = "token"
              THEN [lockT EXCEPT ![req[r].tid] = r] ELSE lockT
  /\ req' = [req EXCEPT ![r].pc = "sweep", ![r].op = Verdict(r),
                        ![r].new = None]
  /\ UNCHANGED <<now, sess, tok>>

\* Mutant: the replacement is inserted and the old token stays active.
RotateKeepingOld(r) ==
  /\ RowFree(r)
  /\ Verdict(r) = "rotated"
  /\ tok' = [tok EXCEPT ![req[r].tid].next = req[r].new,
                        ![req[r].new] = NewToken(r, req[r].tid)]
  /\ Release(r)
  /\ req' = [req EXCEPT ![r] = Idle]
  /\ UNCHANGED <<now, sess>>

\* The token is good: mark it rotated, insert its replacement, commit.
Rotate(r) ==
  /\ RowFree(r)
  /\ Verdict(r) = "rotated"
  /\ tok' = [tok EXCEPT ![req[r].tid].status = "rotated",
                        ![req[r].tid].next = req[r].new,
                        ![req[r].new] = NewToken(r, req[r].tid)]
  /\ Release(r)
  /\ req' = [req EXCEPT ![r] = Idle]
  /\ UNCHANGED <<now, sess>>

-----------------------------------------------------------------------------
(* Revoking sessions.                                                      *)

Revoke(r, op, u, s, about) ==
  /\ req' = [req EXCEPT ![r] = Fresh("begin", op, u, s, None, None, 0, about)]
  /\ UNCHANGED <<now, sess, tok, lockS, lockT>>

\* POST /logout: the refresh JWT names the session, its row is not read.
StartLogout(r, t) ==
  /\ req[r] = Idle
  /\ Presentable(t)
  /\ Revoke(r, "logout", None, tok[t].sid,
            {s \in SessionId : s = tok[t].sid /\ Live(s)})

\* POST /logout-all: any unexpired access JWT of the user, of whatever session.
StartLogoutAll(r, u) ==
  /\ req[r] = Idle
  /\ \E t \in TokenId : /\ tok[t].status # "none"
                        /\ tok[t].user = u
                        /\ now + Ttl < tok[t].exp + AccessTtl
  /\ Revoke(r, "logout_all", u, None, LiveSessions(u))

\* POST /reset-password, once its reset token and the user's row are updated:
\* the lock on that row keeps other resets of the user out until it commits.
StartReset(r, u) ==
  /\ req[r] = Idle
  /\ \A q \in Req : ~(req[q].op = "password_reset" /\ req[q].user = u)
  /\ Revoke(r, "password_reset", u, None, LiveSessions(u))

\* The snapshot of UPDATE user_sessions ... WHERE ... AND status = 'active'.
RevokeTargets(r) ==
  IF req[r].op \in UserWide THEN LiveSessions(req[r].user)
  ELSE {s \in SessionId : s = req[r].sid /\ Live(s)}

BeginRevoke(r) ==
  /\ req[r].pc = "begin"
  /\ req' = [req EXCEPT ![r].pc = "sessions", ![r].ss = RevokeTargets(r)]
  /\ UNCHANGED <<now, sess, tok, lockS, lockT>>

\* Mutant: locked rows are skipped, as with SKIP LOCKED.
UpdateSessionSkipping(r, s) ==
  /\ req[r].pc = "sessions"
  /\ s \in req[r].ss
  /\ lockS' = IF Live(s) /\ lockS[s] = None THEN [lockS EXCEPT ![s] = r] ELSE lockS
  /\ req' = [req EXCEPT ![r].ss = @ \ {s}]
  /\ UNCHANGED <<now, sess, tok, lockT>>

\* Mutant: the row is written as the snapshot had it, without the second look.
UpdateSessionFromSnapshot(r, s) ==
  /\ req[r].pc = "sessions"
  /\ s \in req[r].ss
  /\ lockS[s] = None
  /\ lockS' = [lockS EXCEPT ![s] = r]
  /\ req' = [req EXCEPT ![r].ss = @ \ {s}]
  /\ UNCHANGED <<now, sess, tok, lockT>>

\* One row of that UPDATE, its WHERE clause checked again once it is unlocked.
UpdateSession(r, s) ==
  /\ req[r].pc = "sessions"
  /\ s \in req[r].ss
  /\ lockS[s] = None
  /\ lockS' = IF Live(s) THEN [lockS EXCEPT ![s] = r] ELSE lockS
  /\ req' = [req EXCEPT ![r].ss = @ \ {s}]
  /\ UNCHANGED <<now, sess, tok, lockT>>

Holds(r) == \E s \in SessionId : lockS[s] = r

\* revokeSession and revokeAllUserSessions stop when no row was updated; a
\* password reset goes on to the tokens whatever the count.
EndRevoke(r) ==
  /\ req[r].pc = "sessions"
  /\ req[r].ss = {}
  /\ req' = [req EXCEPT ![r] = IF Holds(r) \/ req[r].op = "password_reset"
                               THEN [@ EXCEPT !.pc = "sweep"] ELSE Idle]
  /\ UNCHANGED <<now, sess, tok, lockS, lockT>>

-----------------------------------------------------------------------------
(* The UPDATE of refresh_tokens that every closing transaction ends with.  *)

\* Mutant: every operation sweeps all tokens of the session's user.
TargetedByUser(r, t) ==
  /\ tok[t].status = "active"
  /\ tok[t].user = IF req[r].op \in UserWide THEN req[r].user
                                             ELSE sess[req[r].sid].user

\* A user-wide revocation sweeps by user_id, the others by session_id.
Targeted(r, t) ==
  /\ tok[t].status = "active"
  /\ IF req[r].op \in UserWide THEN tok[t].user = req[r].user
                               ELSE tok[t].sid = req[r].sid

BeginSweep(r) ==
  /\ req[r].pc = "sweep"
  /\ req' = [req EXCEPT ![r].pc = "tokens",
                        ![r].ts = {t \in TokenId : Targeted(r, t)}]
  /\ UNCHANGED <<now, sess, tok, lockS, lockT>>

UpdateToken(r, t) ==
  /\ req[r].pc = "tokens"
  /\ t \in req[r].ts
  /\ lockT[t] \in {None, r}
  /\ lockT' = IF Targeted(r, t) THEN [lockT EXCEPT ![t] = r] ELSE lockT
  /\ req' = [req EXCEPT ![r].ts = @ \ {t}]
  /\ UNCHANGED <<now, sess, tok, lockS>>

\* Mutant: a logout writes a status the table's CHECK does not know.
ClosedStatusOwnName(op) ==
  CASE op = "session_expired" -> "expired"
    [] op \in {"token_mismatch", "token_reused", "reuse_detected"} -> "compromised"
    [] op = "logout" -> "logged_out"
    [] OTHER -> "revoked"

ClosedStatus(op) ==
  CASE op = "session_expired" -> "expired"
    [] op \in {"token_mismatch", "token_reused", "reuse_detected"} -> "compromised"
    [] OTHER -> "revoked"

SweptStatus(op) == IF op = "session_expired" THEN "expired" ELSE "revoked"

\* Mutant: a reuse leaves the session to the second revocation.
ClosedSessionsButReuse(r) ==
  [s \in SessionId |-> IF lockS[s] = r /\ req[r].op # "token_reused"
     THEN [sess[s] EXCEPT !.status = ClosedStatus(req[r].op)] ELSE sess[s]]

ClosedSessions(r) ==
  [s \in SessionId |-> IF lockS[s] = r
     THEN [sess[s] EXCEPT !.status = ClosedStatus(req[r].op)] ELSE sess[s]]

SweptTokens(r) ==
  [t \in TokenId |-> IF lockT[t] = r /\ Targeted(r, t)
     THEN [tok[t] EXCEPT !.status = SweptStatus(req[r].op)] ELSE tok[t]]

\* After a reuse or a mismatch the service revokes the session once more, in
\* a transaction of its own.
AfterCommit(r) ==
  IF req[r].op \in {"token_mismatch", "token_reused"}
  THEN Fresh("begin", "reuse_detected", None, req[r].sid, None, None, 0, {})
  ELSE Idle

Commit(r) ==
  /\ req[r].pc = "tokens"
  /\ req[r].ts = {}
  /\ sess' = ClosedSessions(r)
  /\ tok' = SweptTokens(r)
  /\ Release(r)
  /\ req' = [req EXCEPT ![r] = AfterCommit(r)]
  /\ UNCHANGED now

-----------------------------------------------------------------------------
(* Failures.                                                               *)

\* Mutant: the connection goes back to the pool with its transaction open.
RollbackForgotten(r) ==
  /\ req' = [req EXCEPT ![r] = Idle]
  /\ UNCHANGED <<now, sess, tok, lockS, lockT>>

Rollback(r) ==
  /\ Release(r)
  /\ req' = [req EXCEPT ![r] = Idle]
  /\ UNCHANGED <<now, sess, tok>>

\* A statement fails, the connection is lost or the replica stops: PostgreSQL
\* rolls the open transaction back.
Abort(r) == req[r].pc # "idle" /\ Rollback(r)

\* The owners of all the rows a request could visit next; it is blocked when
\* none of them is None or itself.
Blockers(r) ==
  CASE req[r].pc = "rotate"   -> {lockS[req[r].sid]}
    [] req[r].pc = "token"    -> {lockT[req[r].tid]}
    [] req[r].pc = "sessions" -> {lockS[s] : s \in req[r].ss}
    [] req[r].pc = "tokens"   -> {lockT[t] : t \in req[r].ts}
    [] OTHER -> {}

WaitCycle(S) == S # {} /\ \A r \in S : Blockers(r) # {} /\ Blockers(r) \subseteq S \ {r}

Deadlocks == {S \in SUBSET Req :
                WaitCycle(S) /\ \A T \in SUBSET S : WaitCycle(T) => T = S}

\* The deadlock detector rolls one transaction of the cycle back.
Victim(r) == (\E S \in Deadlocks : r \in S) /\ Rollback(r)

Tick == /\ now < MaxTime
        /\ now' = now + 1
        /\ UNCHANGED <<sess, tok, lockS, lockT, req>>

-----------------------------------------------------------------------------
Start(r) == \/ \E u \in User : \/ StartCreate(r, u)
                               \/ StartLogoutAll(r, u)
                               \/ StartReset(r, u)
            \/ \E t \in TokenId : StartRotate(r, t) \/ StartLogout(r, t)

\* Statements that wait for a row.
Waiting(r) == \/ LockToken(r) \/ Refuse(r) \/ Close(r) \/ Rotate(r)
              \/ \E s \in SessionId : UpdateSession(r, s)
              \/ \E t \in TokenId : UpdateToken(r, t)

\* Statements that do not.
Running(r) == \/ CommitCreate(r) \/ BeginRevoke(r) \/ EndRevoke(r)
              \/ BeginSweep(r) \/ Commit(r)

Next == \/ \E r \in Req : Start(r) \/ Waiting(r) \/ Running(r) \/ Abort(r) \/ Victim(r)
        \/ Tick

Spec == Init /\ [][Next]_vars

\* A statement that can run is run; a waiter is in PostgreSQL's queue for the
\* row, so it is not passed over for ever; the detector looks at every cycle.
Fairness == \A r \in Req : WF_vars(Running(r)) /\ SF_vars(Waiting(r)) /\ WF_vars(Victim(r))

FairSpec == Spec /\ Fairness
-----------------------------------------------------------------------------
(* Properties.                                                             *)

\* At most one token of a session can be exchanged at any moment, whatever
\* rotations, revocations and rollbacks overlap: the two statements of a
\* rotation (mark rotated, insert replacement) are never seen apart, and a
\* second request with the same token finds it already used.
OneActiveToken ==
  \A t1, t2 \in TokenId :
    tok[t1].status = "active" /\ tok[t2].status = "active"
      /\ tok[t1].sid = tok[t2].sid => t1 = t2

\* When a session is closed no token of it is left active: the UPDATE of the
\* tokens, whose snapshot is older than the commit, misses no replacement
\* that a concurrent rotation inserted.
ClosedSessionTokens ==
  \A t \in TokenId : tok[t].status = "active" => Live(tok[t].sid)

\* A refresh token is accepted only once (AUTH-003.md): a replacement's
\* predecessor is marked rotated and names that replacement and no other, and
\* the chain stays in one session of one user.
RotationChain ==
  \A n \in TokenId :
    tok[n].prev # None =>
      LET p == tok[tok[n].prev] IN
      /\ p.status = "rotated" /\ p.next = n
      /\ p.sid = tok[n].sid /\ p.user = tok[n].user

\* A logout, logout of all devices or password reset reaches every session
\* that was live when it was accepted: once its UPDATE of sessions is through,
\* each of them is closed already or will be by this very commit.
RevocationCovers ==
  \A r \in Req :
    req[r].pc \in {"sweep", "tokens"} \/ (req[r].pc = "sessions" /\ req[r].ss = {}) =>
      \A s \in req[r].seen : ~Live(s) \/ lockS[s] = r

\* The second revocation after a reuse or mismatch has nothing left to do: the
\* session was closed by the transaction that found the reuse, even if the
\* service stops before the second one.
FollowUpFindsClosed ==
  \A r \in Req : req[r].op = "reuse_detected" => ~Live(req[r].sid)

\* Rotating, logging out of one session and creating sessions never deadlock
\* among themselves: every cycle has two user-wide revocations in it.
DeadlockNeedsTwoSweeps ==
  \A S \in Deadlocks : \E q, r \in S : q # r /\ {req[q].op, req[r].op} \subseteq UserWide

\* No token outlives its session by a full refresh lifetime: a session is not
\* extended by rotation, and no replacement is minted at or after its end.
SessionLifetime ==
  \A t \in TokenId :
    tok[t].status # "none" => tok[t].exp < sess[tok[t].sid].exp + Ttl

\* Every way a session or a token ends is final: a later revocation, expiry or
\* replay neither reopens a row nor rewrites how it ended, although it may have
\* picked the row from a snapshot in which it was active.
EndsAreFinal ==
  [][/\ \A s \in SessionId : sess[s].status \notin {"none", "active"} => sess'[s] = sess[s]
     /\ \A t \in TokenId : tok[t].status \notin {"none", "active"} => tok'[t] = tok[t]]_vars

\* No request waits for ever on the row locks of the others.
RequestsFinish == \A r \in Req : req[r].pc # "idle" ~> req[r] = Idle

\* AUTH-003.md on replay: "When a token whose status is already `rotated` is
\* submitted again, the repository reports `token_reused`."  So a session found
\* compromised has had a token exchanged that was presented again.
CompromiseMeansReplay ==
  \A s \in SessionId :
    sess[s].status = "compromised" =>
      \E t \in TokenId : tok[t].sid = s /\ tok[t].status = "rotated"
=============================================================================
