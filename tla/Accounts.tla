------------------------------ MODULE Accounts ------------------------------
(***************************************************************************)
(* Accounts of the user-management service: registration, verification of  *)
(* the e-mail address, login with its lockout, and password reset          *)
(* (registration.service.ts, login.service.ts, password-reset.service.ts). *)
(*                                                                         *)
(* Each request is a transaction that locks the row of its user and, for   *)
(* the tokens sent by mail, rows of email_verification_tokens or           *)
(* password_reset_tokens; some take the user first and some the token.     *)
(* A login creates its session after its own transaction has committed.    *)
(* Sessions are seen here as what they were given for: a user and the      *)
(* password that was presented.                                            *)
(***************************************************************************)
EXTENDS Naturals, FiniteSets

CONSTANTS
  User,       \* e-mail addresses
  Token,      \* verification and reset tokens that are ever issued
  SessionId,  \* bound: sessions that are live at once
  Password,
  Req,        \* requests in progress at once, on all replicas
  None,       \* SQL NULL, and the owner of a row nobody has locked
  Threshold,  \* ACCOUNT_LOCK_THRESHOLD
  LockTime,   \* ACCOUNT_LOCK_MINUTES
  TokenLife,  \* lives of the tokens, per kind
  MaxFails,   \* bound of failed_login_attempts
  MaxTime     \* bound of the clock

Kind == {"verify", "reset"}

ASSUME AccountsAssumption ==
  /\ None \notin User \cup Token \cup SessionId \cup Password \cup Req \cup Kind
  /\ {Threshold, LockTime, MaxFails} \subseteq Nat \ {0}
  /\ TokenLife \in [Kind -> Nat \ {0}]
  /\ MaxTime \in Nat

VARIABLES
  now,     \* the wall clock
  users,   \* compound.users, as committed
  tokens,  \* both token tables, as committed
  sess,    \* the live sessions
  lockU,   \* owner of the row lock of each user
  lockT,   \* owner of the row lock of each token
  req      \* what each request is doing

vars == <<now, users, tokens, sess, lockU, lockT, req>>

-----------------------------------------------------------------------------
\* "none": not registered.
Status == {"none", "pending_verification", "active", "suspended", "locked", "disabled"}

\* until: locked_until, 0 for NULL.
UserRow == [status : Status, verified : BOOLEAN, fails : Nat, until : Nat,
            pw : Password \cup {None}]

TokenRow == [kind : Kind \cup {None}, user : User \cup {None}, exp : Nat, used : BOOLEAN]

Session == [user : User \cup {None}, pw : Password \cup {None}]

Issues == {"resend", "forgot"}  \* send a new token
Uses   == {"verify", "reset"}   \* present one

PC == {"idle",
       "user",      \* wants the row of its user
       "token",     \* wants the row of the token it presents
       "check",     \* login: holds the user, verifies the password
       "session",   \* login: committed, the session not yet created
       "revoke",    \* reset: holds token and user, sessions to be revoked
       "tokens"}    \* holds the user, UPDATE of the user's tokens in progress

NoUser == [status |-> "none", verified |-> FALSE, fails |-> 0, until |-> 0, pw |-> None]
NoToken == [kind |-> None, user |-> None, exp |-> 0, used |-> FALSE]
NoSession == [user |-> None, pw |-> None]

\* at: the start of the transaction, which is what NOW() returns throughout.
\* seen: the user's row as the login read it.  ss, ts: the rows of an UPDATE.
Request == [pc : PC, op : {"none", "login"} \cup Issues \cup Uses,
            user : User \cup {None}, tok : Token \cup {None},
            pw : Password \cup {None}, at : Nat, seen : UserRow,
            ss : SUBSET SessionId, ts : SUBSET Token]

Fresh(pc, op, u, t, p, at) ==
  [pc |-> pc, op |-> op, user |-> u, tok |-> t, pw |-> p, at |-> at,
   seen |-> NoUser, ss |-> {}, ts |-> {}]

Idle == Fresh("idle", "none", None, None, None, 0)

TypeOK ==
  /\ now \in 0..MaxTime
  /\ users \in [User -> UserRow]
  /\ tokens \in [Token -> TokenRow]
  /\ sess \in [SessionId -> Session]
  /\ lockU \in [User -> Req \cup {None}]
  /\ lockT \in [Token -> Req \cup {None}]
  /\ req \in [Req -> Request]

Init ==
  /\ now = 0
  /\ users = [u \in User |-> NoUser]
  /\ tokens = [t \in Token |-> NoToken]
  /\ sess = [s \in SessionId |-> NoSession]
  /\ lockU = [u \in User |-> None]
  /\ lockT = [t \in Token |-> None]
  /\ req = [r \in Req |-> Idle]

-----------------------------------------------------------------------------
Exists(u) == users[u].status # "none"

Unused(kind, u) ==
  {t \in Token : tokens[t].kind = kind /\ tokens[t].user = u /\ ~tokens[t].used}

SessionsOf(u) == {s \in SessionId : sess[s].user = u}

NewToken(kind, u, at) ==
  [kind |-> kind, user |-> u, exp |-> at + TokenLife[kind], used |-> FALSE]

Free(lock, r) == [x \in DOMAIN lock |-> IF lock[x] = r THEN None ELSE lock[x]]

Release(r) == lockU' = Free(lockU, r) /\ lockT' = Free(lockT, r)

\* The transaction ends and with it the request.
Finish(r) == Release(r) /\ req' = [req EXCEPT ![r] = Idle]

Begin(r, request) ==
  /\ req[r] = Idle
  /\ req' = [req EXCEPT ![r] = request]
  /\ UNCHANGED <<now, users, tokens, sess, lockU, lockT>>

-----------------------------------------------------------------------------
(* Registration: the user, its first verification token and its mail are   *)
(* one transaction; the unique index on the address refuses a second one.  *)

Register(u, p) ==
  /\ ~Exists(u)
  /\ users' = [users EXCEPT ![u] = [NoUser EXCEPT !.status = "pending_verification", !.pw = p]]
  /\ \E t \in Token : /\ tokens[t] = NoToken
                      /\ tokens' = [tokens EXCEPT ![t] = NewToken("verify", u, now)]
  /\ UNCHANGED <<now, sess, lockU, lockT, req>>

-----------------------------------------------------------------------------
(* Login.                                                                  *)

\* MaxFails bounds the failures, those of logins under way included.
StartLogin(r, u, p) ==
  /\ users[u].fails + Cardinality({q \in Req : req[q].op = "login"}) < MaxFails
  /\ Begin(r, Fresh("user", "login", u, None, p, now))

LoginUnknown(r) ==
  /\ req[r].pc = "user" /\ req[r].op = "login"
  /\ ~Exists(req[r].user)
  /\ req' = [req EXCEPT ![r] = Idle]
  /\ UNCHANGED <<now, users, tokens, sess, lockU, lockT>>

\* Mutant: the row is read without FOR UPDATE.
LoginReadUnlocked(r) ==
  LET u == req[r].user IN
  /\ req[r].pc = "user" /\ req[r].op = "login"
  /\ Exists(u)
  /\ req' = [req EXCEPT ![r].pc = "check", ![r].seen = users[u]]
  /\ UNCHANGED <<now, users, tokens, sess, lockU, lockT>>

\* SELECT ... FOR UPDATE.
LoginRead(r) ==
  LET u == req[r].user IN
  /\ req[r].pc = "user" /\ req[r].op = "login"
  /\ Exists(u) /\ lockU[u] = None
  /\ lockU' = [lockU EXCEPT ![u] = r]
  /\ req' = [req EXCEPT ![r].pc = "check", ![r].seen = users[u]]
  /\ UNCHANGED <<now, users, tokens, sess, lockT>>

LockedOut(r) == req[r].seen.until > now

\* Mutant: an account that is not verified may log in.
AvailableUnverified(row) == row.status \in {"active", "locked", "pending_verification"}

Available(row) == row.verified /\ row.status \in {"active", "locked"}

\* The lock still runs, or the account is not verified or not in service.
LoginRefused(r) ==
  /\ req[r].pc = "check"
  /\ LockedOut(r) \/ (req[r].pw = req[r].seen.pw /\ ~Available(req[r].seen))
  /\ Finish(r)
  /\ UNCHANGED <<now, users, tokens, sess>>

\* Mutant: the lock is set when the count meets the threshold, not beyond it.
AfterWrongPasswordOnce(row, seen, at) ==
  LET locks == seen.fails + 1 = Threshold IN
  [row EXCEPT !.fails = seen.fails + 1,
              !.until = IF locks THEN at + LockTime ELSE 0,
              !.status = IF locks THEN "locked" ELSE @]

AfterWrongPassword(row, seen, at) ==
  LET locks == seen.fails + 1 >= Threshold IN
  [row EXCEPT !.fails = seen.fails + 1,
              !.until = IF locks THEN at + LockTime ELSE 0,
              !.status = IF locks THEN "locked" ELSE @]

LoginWrong(r) ==
  /\ req[r].pc = "check"
  /\ ~LockedOut(r)
  /\ req[r].pw # req[r].seen.pw
  /\ users' = [users EXCEPT ![req[r].user] = AfterWrongPassword(@, req[r].seen, req[r].at)]
  /\ Finish(r)
  /\ UNCHANGED <<now, tokens, sess>>

\* The account is as good as new and the transaction commits.
LoginAccepted(r) ==
  /\ req[r].pc = "check"
  /\ ~LockedOut(r)
  /\ req[r].pw = req[r].seen.pw /\ Available(req[r].seen)
  /\ users' = [users EXCEPT ![req[r].user] =
                 [@ EXCEPT !.fails = 0, !.until = 0, !.status = "active"]]
  /\ Release(r)
  /\ req' = [req EXCEPT ![r] = Fresh("session", "login", @.user, None, @.pw, 0)]
  /\ UNCHANGED <<now, tokens, sess>>

\* SessionService.createSession, a transaction of its own.
CreateSession(r) ==
  /\ req[r].pc = "session"
  /\ \E s \in SessionId :
       /\ sess[s] = NoSession
       /\ sess' = [sess EXCEPT ![s] = [user |-> req[r].user, pw |-> req[r].pw]]
  /\ req' = [req EXCEPT ![r] = Idle]
  /\ UNCHANGED <<now, users, tokens, lockU, lockT>>

-----------------------------------------------------------------------------
(* Sending a token: resendVerification and requestReset.                   *)

KindOf(op) == IF op \in {"resend", "verify"} THEN "verify" ELSE "reset"

StartIssue(r, op, u) == Begin(r, Fresh("user", op, u, None, None, now))

Eligible(op, row) ==
  IF op = "resend" THEN ~row.verified /\ row.status = "pending_verification"
  ELSE row.status \notin {"none", "disabled", "suspended"}

\* A row that does not qualify as committed is not waited for.
IssueNothing(r) ==
  LET u == req[r].user IN
  /\ req[r].pc = "user" /\ req[r].op \in Issues
  /\ ~Eligible(req[r].op, users[u])
  /\ req' = [req EXCEPT ![r] = Idle]
  /\ UNCHANGED <<now, users, tokens, sess, lockU, lockT>>

\* Mutant: the user's row is read without FOR UPDATE.
IssueLockNothing(r) ==
  LET u == req[r].user IN
  /\ req[r].pc = "user" /\ req[r].op \in Issues
  /\ Eligible(req[r].op, users[u])
  /\ req' = [req EXCEPT ![r].pc = "tokens", ![r].ts = Unused(KindOf(req[r].op), u)]
  /\ UNCHANGED <<now, users, tokens, sess, lockU, lockT>>

\* Mutant: the older tokens stay usable.
IssueLockKeeping(r) ==
  LET u == req[r].user IN
  /\ req[r].pc = "user" /\ req[r].op \in Issues
  /\ lockU[u] = None /\ Eligible(req[r].op, users[u])
  /\ lockU' = [lockU EXCEPT ![u] = r]
  /\ req' = [req EXCEPT ![r].pc = "tokens"]
  /\ UNCHANGED <<now, users, tokens, sess, lockT>>

\* The user's row is locked; the UPDATE of its unused tokens begins.
IssueLock(r) ==
  LET u == req[r].user IN
  /\ req[r].pc = "user" /\ req[r].op \in Issues
  /\ lockU[u] = None /\ Eligible(req[r].op, users[u])
  /\ lockU' = [lockU EXCEPT ![u] = r]
  /\ req' = [req EXCEPT ![r].pc = "tokens", ![r].ts = Unused(KindOf(req[r].op), u)]
  /\ UNCHANGED <<now, users, tokens, sess, lockT>>

\* One row of the UPDATE of tokens.  A reset takes its user's tokens used or not.
VisitToken(r, t) ==
  /\ req[r].pc = "tokens"
  /\ t \in req[r].ts
  /\ lockT[t] \in {None, r}
  /\ lockT' = IF req[r].op = "reset" \/ ~tokens[t].used THEN [lockT EXCEPT ![t] = r] ELSE lockT
  /\ req' = [req EXCEPT ![r].ts = @ \ {t}]
  /\ UNCHANGED <<now, users, tokens, sess, lockU>>

\* The tokens that r has locked are used.
Spend(r) == [t \in Token |-> IF lockT[t] = r THEN [tokens[t] EXCEPT !.used = TRUE] ELSE tokens[t]]

\* Insert the new token, queue its mail, commit.
CommitIssue(r) ==
  /\ req[r].pc = "tokens" /\ req[r].op \in Issues
  /\ req[r].ts = {}
  /\ \E t \in Token :
       /\ tokens[t] = NoToken
       /\ tokens' = [Spend(r) EXCEPT ![t] = NewToken(KindOf(req[r].op), req[r].user, req[r].at)]
  /\ Finish(r)
  /\ UNCHANGED <<now, users, sess>>

-----------------------------------------------------------------------------
(* Presenting a token: verifyEmail and resetPassword.                      *)

StartUse(r, t, p) ==
  /\ tokens[t].kind # None
  /\ tokens[t].kind = "verify" => p = None
  /\ tokens[t].kind = "reset" => p # None
  /\ Begin(r, Fresh("token", tokens[t].kind, tokens[t].user, t, p, now))

\* Mutant: the token is looked up first, and marked as used only at the end.
UseTokenUnlocked(r) ==
  LET t == req[r].tok IN
  /\ req[r].pc = "token"
  /\ ~tokens[t].used /\ tokens[t].exp > req[r].at
  /\ req' = [req EXCEPT ![r].pc = "user"]
  /\ UNCHANGED <<now, users, tokens, sess, lockU, lockT>>

\* UPDATE ... SET used_at ... WHERE used_at IS NULL AND expires_at > NOW().
UseToken(r) ==
  LET t == req[r].tok IN
  /\ req[r].pc = "token"
  /\ lockT[t] = None
  /\ ~tokens[t].used /\ tokens[t].exp > req[r].at
  /\ lockT' = [lockT EXCEPT ![t] = r]
  /\ req' = [req EXCEPT ![r].pc = "user"]
  /\ UNCHANGED <<now, users, tokens, sess, lockU>>

TokenInvalid(r) ==
  LET t == req[r].tok IN
  /\ req[r].pc = "token"
  /\ tokens[t].used \/ tokens[t].exp <= req[r].at
  /\ req' = [req EXCEPT ![r] = Idle]
  /\ UNCHANGED <<now, users, tokens, sess, lockU, lockT>>

CommitVerify(r) ==
  /\ req[r].pc = "user" /\ req[r].op = "verify"
  /\ lockU[req[r].user] = None
  /\ users' = [users EXCEPT ![req[r].user] = [@ EXCEPT !.verified = TRUE, !.status = "active"]]
  /\ tokens' = Spend(r)
  /\ Finish(r)
  /\ UNCHANGED <<now, sess>>

ResetLock(r) ==
  LET u == req[r].user IN
  /\ req[r].pc = "user" /\ req[r].op = "reset"
  /\ lockU[u] = None
  /\ lockU' = [lockU EXCEPT ![u] = r]
  /\ req' = [req EXCEPT ![r].pc = "revoke"]
  /\ UNCHANGED <<now, users, tokens, sess, lockT>>

\* The sessions of the user that are live now are revoked at the commit; then
\* the UPDATE of all its reset tokens begins.
ResetRevoke(r) ==
  LET u == req[r].user IN
  /\ req[r].pc = "revoke"
  /\ req' = [req EXCEPT ![r].pc = "tokens", ![r].ss = SessionsOf(u),
       ![r].ts = {t \in Token : tokens[t].kind = "reset" /\ tokens[t].user = u}]
  /\ UNCHANGED <<now, users, tokens, sess, lockU, lockT>>

\* Mutant: the count is cleared to NULL instead of 0.
AfterResetNull(row, p) ==
  [row EXCEPT !.pw = p, !.fails = None, !.until = 0,
              !.status = IF @ = "locked" THEN "active" ELSE @]

AfterReset(row, p) ==
  [row EXCEPT !.pw = p, !.fails = 0, !.until = 0,
              !.status = IF @ = "locked" THEN "active" ELSE @]

CommitReset(r) ==
  /\ req[r].pc = "tokens" /\ req[r].op = "reset"
  /\ req[r].ts = {}
  /\ users' = [users EXCEPT ![req[r].user] = AfterReset(@, req[r].pw)]
  /\ sess' = [s \in SessionId |-> IF s \in req[r].ss THEN NoSession ELSE sess[s]]
  /\ tokens' = Spend(r)
  /\ Finish(r)
  /\ UNCHANGED now

-----------------------------------------------------------------------------
(* Failures and the rest of the world.                                     *)

\* Mutant: the connection goes back to the pool with its transaction open.
RollbackForgotten(r) ==
  /\ req' = [req EXCEPT ![r] = Idle]
  /\ UNCHANGED <<now, users, tokens, sess, lockU, lockT>>

Rollback(r) == Finish(r) /\ UNCHANGED <<now, users, tokens, sess>>

\* A statement fails or the replica stops, also between login and session.
Abort(r) == req[r].pc # "idle" /\ Rollback(r)

Blockers(r) ==
  CASE req[r].pc = "user"   -> {lockU[req[r].user]}
    [] req[r].pc = "token"  -> {lockT[req[r].tok]}
    [] req[r].pc = "tokens" -> {lockT[t] : t \in req[r].ts}
    [] OTHER -> {}

WaitCycle(S) == S # {} /\ \A r \in S : Blockers(r) # {} /\ Blockers(r) \subseteq S \ {r}

Deadlocks == {S \in SUBSET Req :
                WaitCycle(S) /\ \A T \in SUBSET S : WaitCycle(T) => T = S}

Victim(r) == (\E S \in Deadlocks : r \in S) /\ Rollback(r)

\* A logout, an expiry or a replay; a row that a reset has updated is locked.
EndSession(s) ==
  /\ sess[s] # NoSession
  /\ \A r \in Req : s \notin req[r].ss
  /\ sess' = [sess EXCEPT ![s] = NoSession]
  /\ UNCHANGED <<now, users, tokens, lockU, lockT, req>>

\* An operator takes the account out of service.
Suspend(u) ==
  /\ Exists(u) /\ users[u].status # "suspended" /\ lockU[u] = None
  /\ users' = [users EXCEPT ![u].status = "suspended"]
  /\ UNCHANGED <<now, tokens, sess, lockU, lockT, req>>

Tick == /\ now < MaxTime
        /\ now' = now + 1
        /\ UNCHANGED <<users, tokens, sess, lockU, lockT, req>>

-----------------------------------------------------------------------------
Start(r) ==
  \/ \E u \in User : \/ \E p \in Password : StartLogin(r, u, p)
                     \/ \E op \in Issues : StartIssue(r, op, u)
  \/ \E t \in Token, p \in Password \cup {None} : StartUse(r, t, p)

Waiting(r) == \/ LoginRead(r) \/ IssueNothing(r) \/ IssueLock(r)
              \/ UseToken(r) \/ TokenInvalid(r) \/ CommitVerify(r) \/ ResetLock(r)
              \/ \E t \in Token : VisitToken(r, t)

Running(r) == \/ LoginUnknown(r) \/ LoginRefused(r) \/ LoginWrong(r) \/ LoginAccepted(r)
              \/ CreateSession(r) \/ CommitIssue(r) \/ ResetRevoke(r) \/ CommitReset(r)

Next == \/ \E r \in Req : Start(r) \/ Waiting(r) \/ Running(r) \/ Abort(r) \/ Victim(r)
        \/ \E u \in User : Suspend(u) \/ \E p \in Password : Register(u, p)
        \/ \E s \in SessionId : EndSession(s)
        \/ Tick

Spec == Init /\ [][Next]_vars

\* As for the sessions: lock queues are fair and deadlocks are detected.
Fairness == \A r \in Req : WF_vars(Running(r)) /\ SF_vars(Waiting(r)) /\ WF_vars(Victim(r))

FairSpec == Spec /\ Fairness
-----------------------------------------------------------------------------
(* Properties.                                                             *)

\* A user has at most one usable token of a kind: a new one ends the others,
\* even if requests for one overlap each other and the use of an older one.
OneUsableToken ==
  \A u \in User, kind \in Kind : Cardinality(Unused(kind, u)) <= 1

\* A token works once: from the moment a request has found it good until that
\* request commits, nobody else uses it or makes it useless.
TokenStaysGood ==
  \A r \in Req :
    req[r].op \in Uses /\ req[r].pc \in {"user", "revoke", "tokens"} =>
      ~tokens[req[r].tok].used /\ lockT[req[r].tok] = r

\* An account enters service by its first verification or out of a lock, and
\* is locked by enough failures, whatever requests overlap.  Only an operator
\* takes it out of service; but failures lock a suspended account, too, a
\* verification mail sent before the suspension reinstates it, and a reset
\* makes a locked account active that was never verified.
StatusChanges ==
  [][\A u \in User :
       LET old == users[u]  new == users'[u] IN
       old.status # new.status =>
         CASE new.status = "pending_verification" -> old.status = "none"
           [] new.status = "active" -> old.status = "locked" \/ (~old.verified /\ new.verified)
           [] new.status = "locked" -> new.fails >= Threshold
           [] OTHER -> new.status = "suspended"]_vars

\* The lock, the count and the time of a locked account agree, whatever logins,
\* resets and verifications have happened to it: enough failures give a time,
\* and a status of locked stands for enough failures.
LockAgrees ==
  \A u \in User : /\ users[u].fails >= Threshold => users[u].until > 0
                  /\ users[u].status = "locked" => users[u].fails >= Threshold

\* A login judges the account as it is at that moment, not as it was before a
\* login, a reset, a lock or a suspension that it overlapped: no failure is
\* lost, and only the password of now, of an account in service, is accepted.
LoginsJudgeCurrentRow ==
  [][\A r \in Req :
       LET row == users[req[r].user] IN
       /\ LoginWrong(r) => users'[req[r].user].fails = row.fails + 1
       /\ LoginAccepted(r) => row.pw = req[r].pw /\ row.until <= now /\ Available(row)]_vars

\* Only sending a token and presenting one of the same kind and user deadlock;
\* requests of one sort never do.
DeadlockNeedsIssueAndUse ==
  \A S \in Deadlocks : \E q, r \in S :
    /\ req[q].op \in Issues /\ req[r].op \in Uses
    /\ KindOf(req[q].op) = KindOf(req[r].op) /\ req[q].user = req[r].user

\* No request waits for ever.  (A request that finds no unissued token id or
\* free session id has met a bound of the model.)
RequestsFinish ==
  \A r \in Req :
    req[r].pc # "idle" ~>
      \/ req[r] = Idle
      \/ \A t \in Token : tokens[t] # NoToken
      \/ \A s \in SessionId : sess[s] # NoSession

\* auth-api.test.ts: after a password reset, a refresh of a session that was
\* made with the old password is answered 401.  So a live session was given for
\* the password that its user has now.
SessionsOfCurrentPassword ==
  \A s \in SessionId : sess[s] # NoSession => sess[s].pw = users[sess[s].user].pw
=============================================================================
