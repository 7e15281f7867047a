-------------------------- MODULE SessionRefinement --------------------------
(***************************************************************************)
(* SessionStore implements SessionContract: the committed rows of the one  *)
(* are the rows of the other, every commit is one of its atomic            *)
(* operations, and every other step changes no row.                        *)
(***************************************************************************)
EXTENDS SessionStoreProofs

Contract == INSTANCE SessionContract
              WITH User <- User, SessionId <- SessionId, TokenId <- TokenId,
                   None <- None, Ttl <- Ttl, now <- now, sess <- sess, tok <- tok

\* The transactions of session.service.ts and postgres-session.repository.ts,
\* run statement by statement with their locks and failures, cannot be told
\* from atomic operations by anyone who reads committed rows.
ImplementsContract == Contract!Spec

-----------------------------------------------------------------------------
(* What a request still knows, when it commits, of what it has checked.    *)

ChecksHold(r) ==
  /\ req[r].pc \in {"create", "rotate", "token"} => req[r].at <= now
  /\ req[r].pc \in {"rotate", "token"} => req[r].at < tok[req[r].tid].exp
  /\ req[r].pc \in {"sweep", "tokens"} =>
       /\ req[r].op # "token_mismatch"
       /\ req[r].op = "session_expired" => sess[req[r].sid].exp <= now
       /\ req[r].op = "token_reused" =>
            /\ req[r].tid \in TokenId
            /\ tok[req[r].tid].sid = req[r].sid
            /\ tok[req[r].tid].status \notin {"none", "active"}
       /\ req[r].op \in SingleSession => lockS[req[r].sid] = r

Checks == \A r \in Req : ChecksHold(r)

USE ConstantsAssumption DEF SingleSession, UserWide, Revocations, RotationEnds

\* A request that has not checked anything, or is over, has nothing to keep.
LEMMA NothingChecked ==
  ASSUME NEW r \in Req, req'[r].pc \in {"idle", "begin", "sessions"}
  PROVE  ChecksHold(r)'
BY DEF ChecksHold

\* What a request has checked stays true while others move and time passes.
LEMMA ChecksLast ==
  ASSUME IInv, RowsEvolve, NEW q \in Req, ChecksHold(q),
         req'[q] = req[q], now \in Nat, now' \in Nat, now <= now',
         \A s \in SessionId : lockS'[s] = q <=> lockS[s] = q
  PROVE  ChecksHold(q)'
<1>0. TypeOK /\ StepFields(q) /\ OwnLocks(q) /\ RotationHolds(q)
  BY DEF IInv, RequestOK
<1>t. req[q] \in Request
  BY <1>0 DEF TypeOK
<1>1. req[q].pc \in {"create", "rotate", "token"} => req[q].at <= now'
  BY <1>t DEF ChecksHold, Request
<1>2. ASSUME req[q].pc \in {"rotate", "token"} PROVE req[q].at < tok'[req[q].tid].exp
  <2>1. req[q].tid \in TokenId /\ tok[req[q].tid].status # "none"
    BY <1>0, <1>2 DEF StepFields, Exchanges
  <2> QED BY <1>2, <2>1 DEF ChecksHold, RowsEvolve, SameToken
<1>3. ASSUME req[q].pc \in {"sweep", "tokens"}, req[q].op = "session_expired"
      PROVE  sess'[req[q].sid].exp <= now'
  <2>1. req[q].sid \in SessionId /\ sess[req[q].sid].status = "active"
    BY <1>0, <1>3 DEF StepFields, RotationHolds, OwnLocks, Live
  <2>2. sess'[req[q].sid].exp = sess[req[q].sid].exp /\ sess[req[q].sid].exp \in Nat
    BY <1>0, <2>1 DEF RowsEvolve, TypeOK, SessionRow
  <2> QED BY <1>3, <2>2 DEF ChecksHold
<1>4. ASSUME req[q].pc \in {"sweep", "tokens"}, req[q].op = "token_reused"
      PROVE  tok'[req[q].tid] = tok[req[q].tid]
  BY <1>4 DEF ChecksHold, RowsEvolve
<1>5. ASSUME req[q].pc \in {"sweep", "tokens"}, req[q].op \in SingleSession
      PROVE  lockS'[req[q].sid] = q
  BY <1>0, <1>5 DEF ChecksHold, StepFields
<1> QED BY <1>1, <1>2, <1>3, <1>4, <1>5 DEF ChecksHold

\* A request starts at the present moment, with a token that has not expired.
LEMMA StartChecks ==
  ASSUME IInv, NEW r \in Req, Start(r)
  PROVE  ChecksHold(r)'
<1>0. TypeOK /\ now \in Nat
  BY DEF IInv, TypeOK
<1>u. UNCHANGED <<now, tok>>
  BY DEF Start, StartCreate, StartLogoutAll, StartReset, StartRotate,
     StartLogout, Revoke
<1>1. ASSUME NEW u \in User, StartCreate(r, u) PROVE ChecksHold(r)'
  BY <1>0, <1>u, <1>1 DEF StartCreate, ChecksHold, Fresh, TypeOK
<1>2. ASSUME NEW t \in TokenId, StartRotate(r, t) PROVE ChecksHold(r)'
  BY <1>0, <1>u, <1>2 DEF StartRotate, Presentable, ChecksHold, Fresh, TypeOK
<1>3. ASSUME NEW op, NEW u, NEW s, NEW about, Revoke(r, op, u, s, about) PROVE ChecksHold(r)'
  BY <1>0, <1>3 DEF Revoke, ChecksHold, Fresh, TypeOK
<1> QED BY <1>1, <1>2, <1>3 DEF Start, StartLogoutAll, StartReset, StartLogout

\* A session is closed for the reason that the locked rows give.
LEMMA CloseChecks ==
  ASSUME IInv, NEW r \in Req, ChecksHold(r), Close(r)
  PROVE  ChecksHold(r)'
<1>0. TypeOK /\ StepFields(r) /\ RowsConsistent
  BY DEF IInv, RequestOK
<1>1. /\ req'[r] = [req[r] EXCEPT !.pc = "sweep", !.op = Verdict(r), !.new = None]
      /\ UNCHANGED <<now, sess, tok>>
  BY <1>0 DEF Close, TypeOK
<1>2. /\ req'[r].pc = "sweep" /\ req'[r].op = Verdict(r)
      /\ req'[r].sid = req[r].sid /\ req'[r].tid = req[r].tid
  BY <1>0, <1>1 DEF TypeOK, Request
<1>3. req[r].pc \in {"rotate", "token"} /\ Exchanges(r)
  BY <1>0 DEF Close, RowFree, StepFields
<1>4. /\ sess[req[r].sid].user = req[r].user
      /\ req[r].sid \in SessionId
  BY <1>0, <1>3 DEF Exchanges, RowsConsistent
<1>5. Verdict(r) # "token_mismatch"
  BY <1>3, <1>4 DEF Verdict, SessionVerdict, TokenVerdict, Exchanges
<1>6. Verdict(r) = "session_expired" => sess[req[r].sid].exp <= now
  <2>1. Verdict(r) = "session_expired" => sess[req[r].sid].exp <= req[r].at
    BY DEF Verdict, SessionVerdict, TokenVerdict
  <2>2. /\ req[r].at <= now /\ req[r].at \in Nat /\ now \in Nat
        /\ sess[req[r].sid].exp \in Nat
    BY <1>0, <1>3, <1>4 DEF ChecksHold, TypeOK, SessionRow, Request
  <2> QED BY <2>1, <2>2
<1>7. Verdict(r) = "token_reused" => tok[req[r].tid].status \notin {"none", "active"}
  BY DEF Verdict, SessionVerdict, TokenVerdict
<1>8. Verdict(r) \in RotationEnds
  BY DEF Close
<1> QED BY <1>1, <1>2, <1>3, <1>5, <1>6, <1>7, <1>8 DEF ChecksHold, Exchanges

\* A revocation of one session goes on to the tokens only with the session held.
LEMMA EndRevokeChecks ==
  ASSUME IInv, NEW r \in Req, EndRevoke(r)
  PROVE  ChecksHold(r)'
<1>0. TypeOK /\ StepFields(r) /\ OwnLocks(r)
  BY DEF IInv, RequestOK
<1>1. CASE req'[r] = Idle
  BY <1>1, NothingChecked DEF Idle, Fresh
<1>2. CASE req'[r] # Idle
  <2>1. /\ req'[r] = [req[r] EXCEPT !.pc = "sweep"]
        /\ Holds(r) \/ req[r].op = "password_reset"
        /\ lockS' = lockS /\ req[r].op \in Revocations
    BY <1>0, <1>2 DEF EndRevoke, TypeOK, StepFields
  <2>2. req'[r].pc = "sweep" /\ req'[r].op = req[r].op /\ req'[r].sid = req[r].sid
    BY <1>0, <2>1 DEF TypeOK, Request
  <2>3. req[r].op \in SingleSession => lockS[req[r].sid] = r
    BY <1>0, <2>1 DEF Holds, OwnLocks, About
  <2> QED BY <2>1, <2>2, <2>3 DEF ChecksHold
<1> QED BY <1>1, <1>2

\* Every step of a request keeps what it has checked.
LEMMA OwnChecks ==
  ASSUME IInv, NEW r \in Req, ChecksHold(r), Step(r)
  PROVE  ChecksHold(r)'
<1>0. TypeOK /\ StepFields(r)
  BY DEF IInv, RequestOK
<1>1. CASE CommitCreate(r) \/ Refuse(r) \/ Rotate(r) \/ Rollback(r)
  <2>1. req'[r] = Idle
    BY <1>0, <1>1 DEF CommitCreate, Refuse, Rotate, Rollback, TypeOK
  <2> QED BY <2>1, NothingChecked DEF Idle, Fresh
<1>2. CASE BeginRevoke(r) \/ \E s \in SessionId : UpdateSession(r, s)
  <2>1. req'[r].pc = "sessions"
    BY <1>0, <1>2 DEF BeginRevoke, UpdateSession, TypeOK, Request
  <2> QED BY <2>1, NothingChecked
<1>3. CASE Commit(r)
  <2>1. req'[r] = AfterCommit(r)
    BY <1>0, <1>3 DEF Commit, TypeOK
  <2>2. req'[r].pc \in {"idle", "begin"}
    BY <2>1 DEF AfterCommit, Idle, Fresh
  <2> QED BY <2>2, NothingChecked
<1>4. CASE LockToken(r)
  <2>1. /\ req'[r] = [req[r] EXCEPT !.pc = "token"] /\ UNCHANGED <<now, tok>>
        /\ req[r].pc \in {"rotate", "token"}
    BY <1>0, <1>4 DEF LockToken, RowFree, TypeOK
  <2>2. req'[r].pc = "token" /\ req'[r].at = req[r].at /\ req'[r].tid = req[r].tid
    BY <1>0, <2>1 DEF TypeOK, Request
  <2> QED BY <2>1, <2>2 DEF ChecksHold
<1>5. CASE BeginSweep(r) \/ \E t \in TokenId : UpdateToken(r, t)
  <2>1. /\ req'[r].pc = "tokens" /\ req'[r].op = req[r].op
        /\ req'[r].sid = req[r].sid /\ req'[r].tid = req[r].tid
        /\ req[r].pc \in {"sweep", "tokens"}
        /\ UNCHANGED <<now, sess, tok, lockS>>
    BY <1>0, <1>5 DEF BeginSweep, UpdateToken, TypeOK, Request
  <2> QED BY <2>1 DEF ChecksHold
<1> QED BY <1>1, <1>2, <1>3, <1>4, <1>5, StartChecks, CloseChecks, EndRevokeChecks
        DEF Step, Waiting, Running

\* What requests have checked still holds after any step.
LEMMA ChecksStep == IInv /\ Checks /\ [Next]_vars => Checks'
<1> SUFFICES ASSUME IInv, Checks, [Next]_vars, NEW q \in Req PROVE ChecksHold(q)'
    BY DEF Checks
<1>0. RowsEvolve /\ ChecksHold(q) /\ TypeOK /\ TypeOK'
  BY RowsKept, TypeStep DEF Checks, IInv
<1>1. now \in Nat /\ now' \in Nat
  BY <1>0 DEF TypeOK
<1>2. ASSUME NEW r \in Req, Step(r) PROVE ChecksHold(q)'
  <2>1. CASE r = q
    BY <1>0, <1>2, <2>1, OwnChecks
  <2>2. CASE r # q
    <3>1. now' = now
      BY <1>2 DEF Step, Start, Waiting, Running, Rollback, StartCreate, StartLogoutAll,
         StartReset, StartRotate, StartLogout, Revoke, LockToken, Refuse, Close, Rotate,
         UpdateSession, UpdateToken, CommitCreate, BeginRevoke, EndRevoke, BeginSweep, Commit
    <3>2. req'[q] = req[q] /\ \A s \in SessionId : lockS'[s] = q <=> lockS[s] = q
      BY <1>2, <2>2, OwnRecord
    <3> QED BY <1>0, <1>1, <3>1, <3>2, ChecksLast
  <2> QED BY <2>1, <2>2
<1>3. CASE UNCHANGED <<sess, tok, lockS, lockT, req>> /\ now <= now'
  BY <1>0, <1>1, <1>3, ChecksLast
<1>4. \/ UNCHANGED <<sess, tok, lockS, lockT, req>> /\ now <= now'
      \/ \E r \in Req : Step(r)
  BY <1>1 DEF Next, Step, Abort, Victim, Tick, vars
<1> QED BY <1>2, <1>3, <1>4

-----------------------------------------------------------------------------
(* Every step is one of the contract's, or changes no row.                 *)

\* The insert of a session and its first token.
LEMMA CreateImplements ==
  ASSUME IInv, NEW r \in Req, ChecksHold(r), CommitCreate(r)
  PROVE  \E u \in User : Contract!Create(u)
<1>0. TypeOK /\ StepFields(r)
  BY DEF IInv, RequestOK
<1>1. req[r].pc = "create" /\ req[r].user \in User /\ now' = now
  BY <1>0 DEF CommitCreate, StepFields
<1>2. req[r].at \in 0..now
  BY <1>0, <1>1 DEF ChecksHold, TypeOK, Request
<1>3. /\ req[r].sid \in SessionId /\ sess[req[r].sid].status = "none"
      /\ req[r].new \in TokenId /\ tok[req[r].new].status = "none"
  BY Creation
<1> QED BY <1>1, <1>2, <1>3 DEF Contract!Create, CommitCreate, NewToken

\* The exchange of a token for its replacement.
LEMMA RotateImplements ==
  ASSUME IInv, NEW r \in Req, ChecksHold(r), Rotate(r)
  PROVE  \E t \in TokenId : Contract!Exchange(t)
<1>0. TypeOK /\ StepFields(r)
  BY DEF IInv, RequestOK
<1>1. /\ req[r].pc \in {"rotate", "token"} /\ now' = now /\ sess' = sess
      /\ tok' = [tok EXCEPT ![req[r].tid].status = "rotated",
                            ![req[r].tid].next = req[r].new,
                            ![req[r].new] = NewToken(r, req[r].tid)]
  BY DEF Rotate, RowFree
<1>2. req[r].at \in 0..now /\ req[r].at < tok[req[r].tid].exp
  BY <1>0, <1>1 DEF ChecksHold, TypeOK, Request
<1>3. /\ req[r].tid \in TokenId /\ req[r].new \in TokenId
      /\ tok[req[r].tid].status = "active" /\ tok[req[r].new].status = "none"
      /\ tok[req[r].tid].sid = req[r].sid /\ tok[req[r].tid].user = req[r].user
      /\ sess[req[r].sid].status = "active" /\ req[r].at < sess[req[r].sid].exp
  BY Rotation DEF Live
<1>4. Contract!Exchange(req[r].tid)
  BY <1>1, <1>2, <1>3 DEF Contract!Exchange, NewToken
<1> QED BY <1>3, <1>4

\* A closing transaction ends the sessions it has locked and the tokens it has
\* swept, and these are all the active tokens of those sessions.
LEMMA CommitEnds ==
  ASSUME IInv, NEW r \in Req, Commit(r),
         NEW S, S = {s \in SessionId : lockS[s] = r},
         NEW T, T = {t \in TokenId : lockT[t] = r /\ Targeted(r, t)}
  PROVE  /\ Contract!End(S, T, ClosedStatus(req[r].op))
         /\ Contract!ActiveIn(S) \subseteq T
<1>0. TypeOK /\ StepFields(r) /\ OwnLocks(r) /\ SweepCovers(r) /\ RowsConsistent
  BY DEF IInv, RequestOK
<1>1. /\ sess' = ClosedSessions(r) /\ tok' = SweptTokens(r) /\ now' = now
      /\ req[r].pc = "tokens" /\ req[r].ts = {}
  BY DEF Commit
<1>2. req[r].op \in Revocations \cup RotationEnds
  BY <1>0, <1>1 DEF StepFields
<1>3. SweptStatus(req[r].op) =
        IF ClosedStatus(req[r].op) = "expired" THEN ClosedStatus(req[r].op) ELSE "revoked"
  BY <1>2 DEF SweptStatus, ClosedStatus
<1>4. Contract!End(S, T, ClosedStatus(req[r].op))
  BY <1>1, <1>3 DEF Contract!End, ClosedSessions, SweptTokens
<1>5. ASSUME NEW t \in TokenId, tok[t].status = "active", tok[t].sid \in S
      PROVE  t \in T
  <2>1. lockS[tok[t].sid] = r /\ lockT[t] = r
    BY <1>0, <1>1, <1>5 DEF SweepCovers
  <2>2. About(r, tok[t].sid) /\ sess[tok[t].sid].user = tok[t].user
    BY <1>0, <1>5, <2>1 DEF OwnLocks, RowsConsistent
  <2> QED BY <1>5, <2>1, <2>2 DEF About, Targeted
<1> QED BY <1>4, <1>5 DEF Contract!ActiveIn

\* The transactions that close one session take it with all its active tokens.
LEMMA CloseOneImplements ==
  ASSUME IInv, NEW r \in Req, ChecksHold(r), Commit(r), req[r].op \notin UserWide,
         lockS[req[r].sid] = r
  PROVE  \E s \in SessionId :
           Contract!Expire(s) \/ Contract!Compromise(s) \/ Contract!Logout(s)
<1>0. TypeOK /\ StepFields(r) /\ OwnLocks(r)
  BY DEF IInv, RequestOK
<1>1. req[r].pc = "tokens" /\ req[r].op \in SingleSession \cup RotationEnds
  BY <1>0 DEF Commit, StepFields
<1> DEFINE s == req[r].sid
           S == {x \in SessionId : lockS[x] = r}
           T == {t \in TokenId : lockT[t] = r /\ Targeted(r, t)}
<1>2. s \in SessionId /\ sess[s].status = "active"
  BY <1>0, <1>1 DEF StepFields, OwnLocks, Live
<1>3. S = {s}
  BY <1>0, <1>1, <1>2 DEF OwnLocks, About
<1>4. Contract!End(S, T, ClosedStatus(req[r].op)) /\ Contract!ActiveIn(S) \subseteq T
  BY CommitEnds
<1>5. T = Contract!ActiveIn({s})
  BY <1>1, <1>3, <1>4 DEF Contract!ActiveIn, Targeted
<1>6. Contract!End({s}, Contract!ActiveIn({s}), ClosedStatus(req[r].op))
  BY <1>3, <1>4, <1>5
<1>7. CASE req[r].op = "session_expired"
  <2>1. Contract!Expire(s)
    BY <1>1, <1>2, <1>6, <1>7 DEF Contract!Expire, ChecksHold, ClosedStatus
  <2> QED BY <1>2, <2>1
<1>8. CASE req[r].op = "token_reused"
  <2>1. \E t \in TokenId : tok[t].sid = s /\ tok[t].status \notin {"none", "active"}
    BY <1>1, <1>8 DEF ChecksHold
  <2>2. Contract!Compromise(s)
    BY <1>2, <1>6, <1>8, <2>1 DEF Contract!Compromise, ClosedStatus
  <2> QED BY <1>2, <2>2
<1>9. CASE req[r].op = "logout"
  <2>1. Contract!Logout(s)
    BY <1>2, <1>6, <1>9 DEF Contract!Logout, ClosedStatus
  <2> QED BY <1>2, <2>1
<1>10. req[r].op \notin {"token_mismatch", "reuse_detected"}
  <2>1. req[r].op # "token_mismatch"
    BY <1>1 DEF ChecksHold
  <2>2. req[r].op # "reuse_detected"
    BY <1>2 DEF IInv, RequestOK, FollowUpClosed
  <2> QED BY <2>1, <2>2
<1> QED BY <1>1, <1>7, <1>8, <1>9, <1>10

\* The transactions that go by user take live sessions and active tokens of it.
LEMMA RevokeAllImplements ==
  ASSUME IInv, NEW r \in Req, Commit(r), req[r].op \in UserWide
  PROVE  \E u \in User : Contract!RevokeAll(u)
<1>0. TypeOK /\ StepFields(r) /\ OwnLocks(r)
  BY DEF IInv, RequestOK
<1> DEFINE u == req[r].user
           S == {x \in SessionId : lockS[x] = r}
           T == {t \in TokenId : lockT[t] = r /\ Targeted(r, t)}
<1>1. u \in User
  BY <1>0 DEF StepFields
<1>2. S \in SUBSET Contract!LiveOf(u)
  BY <1>0 DEF OwnLocks, About, Live, Contract!LiveOf
<1>3. T \in SUBSET Contract!ActiveOf(u)
  BY DEF Targeted, Contract!ActiveOf
<1>4. Contract!End(S, T, ClosedStatus(req[r].op)) /\ Contract!ActiveIn(S) \subseteq T
  BY CommitEnds
<1>5. ClosedStatus(req[r].op) = "revoked"
  BY DEF ClosedStatus
<1>6. Contract!RevokeAll(u)
  <2>. HIDE DEF u, S, T
  <2> QED BY <1>2, <1>3, <1>4, <1>5 DEF Contract!RevokeAll
<1> QED BY <1>1, <1>6

\* A commit is an operation of the contract.
LEMMA CommitImplements ==
  ASSUME IInv, NEW r \in Req, ChecksHold(r), Commit(r)
  PROVE  Contract!Next
<1>0. /\ StepFields(r) /\ RotationHolds(r) /\ req[r].pc = "tokens"
  BY DEF IInv, RequestOK, Commit
<1>1. CASE req[r].op \in UserWide
  BY <1>1, RevokeAllImplements DEF Contract!Next
<1>2. CASE req[r].op \notin UserWide
  <2>1. lockS[req[r].sid] = r
    BY <1>0, <1>2 DEF StepFields, RotationHolds, ChecksHold
  <2> QED BY <1>2, <2>1, CloseOneImplements DEF Contract!Next
<1> QED BY <1>1, <1>2

\* Every step of SessionStore is a step of the contract or changes no row.
LEMMA StepImplements ==
  ASSUME IInv, Checks, [Next]_vars
  PROVE  [Contract!Next]_(Contract!vars)
<1>1. ASSUME NEW r \in Req, CommitCreate(r) PROVE Contract!Next
  BY <1>1, CreateImplements DEF Checks, Contract!Next
<1>2. ASSUME NEW r \in Req, Rotate(r) PROVE Contract!Next
  BY <1>2, RotateImplements DEF Checks, Contract!Next
<1>3. ASSUME NEW r \in Req, Commit(r) PROVE Contract!Next
  BY <1>3, CommitImplements DEF Checks
<1>4. CASE Tick
  BY <1>4 DEF Tick, Contract!Next, Contract!Tick
<1>5. CASE UNCHANGED <<now, sess, tok>>
  BY <1>5 DEF Contract!vars
<1>6. \/ Tick \/ UNCHANGED <<now, sess, tok>>
      \/ \E r \in Req : CommitCreate(r) \/ Rotate(r) \/ Commit(r)
  BY DEF Next, Start, Waiting, Running, Abort, Victim, Rollback, vars, StartCreate,
     StartLogoutAll, StartReset, StartRotate, StartLogout, Revoke, LockToken,
     Refuse, Close, UpdateSession, UpdateToken, BeginRevoke, EndRevoke, BeginSweep
<1> QED BY <1>1, <1>2, <1>3, <1>4, <1>5, <1>6

\* Sessions behave as if every operation on them were atomic.
THEOREM StoreImplementsContract == Spec => ImplementsContract
<1>1. Init => Checks /\ Contract!Init
  BY DEF Init, Checks, ChecksHold, Idle, Fresh, Contract!Init, NoSession, NoToken,
     Contract!NoSession, Contract!NoToken
<1>2. IInv /\ Checks /\ [Next]_vars => Checks' /\ [Contract!Next]_(Contract!vars)
  BY ChecksStep, StepImplements
<1> QED BY <1>1, <1>2, Invariance, PTL DEF Spec, ImplementsContract, Contract!Spec
=============================================================================
