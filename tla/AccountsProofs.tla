--------------------------- MODULE AccountsProofs ---------------------------
(***************************************************************************)
(* The safety of Accounts, for every set of users, tokens and requests,    *)
(* every threshold and every lifetime.                                     *)
(*                                                                         *)
(* What the properties rest on is the discipline of the row locks: who     *)
(* holds a row, at which step, and what he may count on while he does.  A  *)
(* login that verifies a password holds the row it has read; a request     *)
(* that sends a token holds the user and, of the usable tokens, those it   *)
(* has visited, the others being still in its list; a request that has     *)
(* found a token good holds it; and a verified user has no usable          *)
(* verification token, nor will a request under way give him one.          *)
(***************************************************************************)
EXTENDS Accounts, FiniteSetTheorems, TLAPS

\* Steps at which a request holds the row of its user.
HoldingUser == {"check", "revoke", "tokens"}

\* The operation and the fields that go with each step.
StepFields(r) ==
  /\ req[r].pc = "idle" => req[r] = Idle
  /\ req[r].pc # "idle" => req[r].user \in User
  /\ req[r].pc \in {"check", "session"} => req[r].op = "login"
  /\ req[r].pc = "token" => req[r].op \in Uses
  /\ req[r].pc = "revoke" => req[r].op = "reset"
  /\ req[r].pc = "tokens" => req[r].op \in Issues \cup {"reset"}
  /\ req[r].op \in Uses => /\ req[r].tok \in Token
                           /\ tokens[req[r].tok].kind = req[r].op
                           /\ tokens[req[r].tok].user = req[r].user

\* It has locked the user it is about, and tokens of the kind and user it is
\* about: those of an UPDATE, or the one that was presented to it.
OwnLocks(r) ==
  /\ \A u \in User : lockU[u] = r => u = req[r].user /\ req[r].pc \in HoldingUser
  /\ \A t \in Token : lockT[t] = r =>
       /\ tokens[t].kind = KindOf(req[r].op) /\ tokens[t].user = req[r].user
       /\ \/ req[r].pc = "tokens"
          \/ req[r].op \in Uses /\ req[r].pc \in {"user", "revoke"} /\ t = req[r].tok

\* What it holds: an existing user, and a token that is still good.
Holds(r) ==
  /\ req[r].pc \in HoldingUser => lockU[req[r].user] = r /\ Exists(req[r].user)
  /\ req[r].op \in Uses /\ req[r].pc \in {"user", "revoke", "tokens"} =>
       ~tokens[req[r].tok].used /\ lockT[req[r].tok] = r

\* An UPDATE of tokens has the usable ones of its user in its list or locked.
UpdateCovers(r) ==
  req[r].pc = "tokens" =>
    /\ \A t \in req[r].ts : /\ tokens[t].kind = KindOf(req[r].op)
                            /\ tokens[t].user = req[r].user
    /\ \A t \in Unused(KindOf(req[r].op), req[r].user) : t \in req[r].ts \/ lockT[t] = r

\* What was read of the user is still so.
ReadIsCurrent(r) ==
  /\ req[r].pc = "check" => req[r].seen = users[req[r].user]
  /\ req[r].pc = "tokens" /\ req[r].op = "resend" => ~users[req[r].user].verified

RequestOK(r) == /\ StepFields(r)
                /\ OwnLocks(r)
                /\ Holds(r)
                /\ UpdateCovers(r)
                /\ ReadIsCurrent(r)

\* A token belongs to an existing user; one that was never issued is not locked.
TokenRows ==
  \A t \in Token :
    /\ tokens[t].kind = None => tokens[t] = NoToken /\ lockT[t] = None
    /\ tokens[t].kind # None => tokens[t].user \in User /\ Exists(tokens[t].user)

\* Two usable tokens of one kind and user are the same.
UsableIsOne ==
  \A u \in User, kind \in Kind : \A s, t \in Unused(kind, u) : s = t

\* A verified user has nothing left to verify.
VerifiedIsDone == \A u \in User : users[u].verified => Unused("verify", u) = {}

IInv ==
  /\ TypeOK
  /\ TokenRows
  /\ UsableIsOne
  /\ VerifiedIsDone
  /\ LockAgrees
  /\ \A r \in Req : RequestOK(r)

USE AccountsAssumption DEF Issues, Uses, Kind, HoldingUser

-----------------------------------------------------------------------------
(* Type correctness.                                                       *)

LEMMA RowTypes ==
  /\ NoUser \in UserRow
  /\ NoToken \in TokenRow
  /\ NoSession \in Session
BY DEF NoUser, UserRow, Status, NoToken, TokenRow, NoSession, Session

\* The record of a request that has just begun, and of one that is idle.
LEMMA FreshType ==
  ASSUME NEW pc \in PC, NEW op \in {"none", "login"} \cup Issues \cup Uses,
         NEW u \in User \cup {None}, NEW t \in Token \cup {None},
         NEW p \in Password \cup {None}, NEW at \in Nat
  PROVE  Fresh(pc, op, u, t, p, at) \in Request
BY RowTypes DEF Fresh, Request

LEMMA IdleType == Idle \in Request
BY FreshType DEF Idle, PC

\* A request stays a request when one of its fields changes.
LEMMA RequestFields ==
  ASSUME NEW q \in Request
  PROVE  /\ \A x \in PC : [q EXCEPT !.pc = x] \in Request
         /\ \A x \in UserRow : [q EXCEPT !.seen = x] \in Request
         /\ \A x \in SUBSET SessionId : [q EXCEPT !.ss = x] \in Request
         /\ \A x \in SUBSET Token : [q EXCEPT !.ts = x] \in Request
BY DEF Request

\* A user's row stays one when a login, a verification or a reset changes it.
LEMMA UserFields ==
  ASSUME NEW row \in UserRow
  PROVE  /\ \A x \in Status : [row EXCEPT !.status = x] \in UserRow
         /\ \A x \in Nat : [row EXCEPT !.fails = x] \in UserRow
         /\ \A x \in Nat : [row EXCEPT !.until = x] \in UserRow
         /\ \A x \in BOOLEAN : [row EXCEPT !.verified = x] \in UserRow
         /\ \A x \in Password \cup {None} : [row EXCEPT !.pw = x] \in UserRow
BY DEF UserRow

\* What a failed login leaves, field by field.
LEMMA WrongPasswordRow ==
  ASSUME NEW row \in UserRow, NEW seen \in UserRow, NEW at, at \in Nat,
         NEW new, new = AfterWrongPassword(row, seen, at)
  PROVE  /\ new \in UserRow
         /\ new.fails = seen.fails + 1
         /\ seen.fails + 1 >= Threshold => new.until = at + LockTime /\ new.status = "locked"
         /\ ~(seen.fails + 1 >= Threshold) => new.until = 0 /\ new.status = row.status
         /\ new.verified = row.verified
<1> DEFINE locks == seen.fails + 1 >= Threshold
           until == IF locks THEN at + LockTime ELSE 0
           status == IF locks THEN "locked" ELSE row.status
           a == [row EXCEPT !.fails = seen.fails + 1]
           b == [a EXCEPT !.until = until]
           c == [b EXCEPT !.status = status]
<1>1. seen.fails + 1 \in Nat /\ until \in Nat /\ status \in Status
  <2>1. seen.fails \in Nat /\ LockTime \in Nat /\ row.status \in Status
    BY DEF UserRow
  <2>2. "locked" \in Status
    BY DEF Status
  <2> QED BY <2>1, <2>2
<1> HIDE DEF until, status
<1>2. a \in UserRow /\ b \in UserRow /\ c \in UserRow
  BY <1>1, UserFields
<1>3. new = c
  BY DEF AfterWrongPassword, until, status, UserRow
<1>4. /\ c.fails = seen.fails + 1 /\ c.until = until /\ c.status = status
      /\ c.verified = row.verified
  BY DEF UserRow
<1> QED BY <1>2, <1>3, <1>4 DEF until, status

\* What an accepted login, a verification and a reset leave.
LEMMA AcceptedRow ==
  ASSUME NEW row \in UserRow,
         NEW new, new = [row EXCEPT !.fails = 0, !.until = 0, !.status = "active"]
  PROVE  /\ new \in UserRow
         /\ new.fails = 0 /\ new.until = 0 /\ new.status = "active"
         /\ new.verified = row.verified
BY DEF UserRow, Status

LEMMA VerifiedRow ==
  ASSUME NEW row \in UserRow,
         NEW new, new = [row EXCEPT !.verified = TRUE, !.status = "active"]
  PROVE  /\ new \in UserRow
         /\ new.fails = row.fails /\ new.until = row.until /\ new.status = "active"
         /\ new.verified
BY DEF UserRow, Status

LEMMA ResetRow ==
  ASSUME NEW row \in UserRow, NEW p \in Password \cup {None},
         NEW new, new = AfterReset(row, p)
  PROVE  /\ new \in UserRow
         /\ new.fails = 0 /\ new.until = 0
         /\ row.status = "locked" => new.status = "active"
         /\ row.status # "locked" => new.status = row.status
         /\ new.verified = row.verified
<1>1. "active" \in Status /\ row.status \in Status
  BY DEF Status, UserRow
<1> QED BY <1>1 DEF UserRow, AfterReset

\* A request that lets go of its rows frees those, and no others.
LEMMA ReleaseFrees ==
  ASSUME TypeOK, NEW r \in Req, Release(r)
  PROVE  /\ lockU' \in [User -> Req \cup {None}]
         /\ lockT' \in [Token -> Req \cup {None}]
         /\ \A u \in User : lockU'[u] = IF lockU[u] = r THEN None ELSE lockU[u]
         /\ \A t \in Token : lockT'[t] = IF lockT[t] = r THEN None ELSE lockT[t]
BY DEF TypeOK, Release, Free

\* To spend tokens changes nothing of them but that they are used.
LEMMA SpendType ==
  ASSUME TypeOK, NEW r
  PROVE  /\ Spend(r) \in [Token -> TokenRow]
         /\ \A t \in Token : /\ Spend(r)[t].kind = tokens[t].kind
                             /\ Spend(r)[t].user = tokens[t].user
                             /\ Spend(r)[t].used = (tokens[t].used \/ lockT[t] = r)
                             /\ lockT[t] # r => Spend(r)[t] = tokens[t]
<1>1. ASSUME NEW t \in Token
      PROVE  /\ Spend(r)[t] \in TokenRow
             /\ Spend(r)[t].kind = tokens[t].kind
             /\ Spend(r)[t].user = tokens[t].user
             /\ Spend(r)[t].used = (tokens[t].used \/ lockT[t] = r)
             /\ lockT[t] # r => Spend(r)[t] = tokens[t]
  <2>1. tokens[t] \in TokenRow
    BY DEF TypeOK
  <2>2. CASE lockT[t] = r
    <3>1. Spend(r)[t] = [tokens[t] EXCEPT !.used = TRUE]
      BY <2>2 DEF Spend
    <3> QED BY <2>1, <2>2, <3>1 DEF TokenRow
  <2>3. CASE lockT[t] # r
    <3>1. Spend(r)[t] = tokens[t]
      BY <2>3 DEF Spend
    <3>2. tokens[t].used \in BOOLEAN
      BY <2>1 DEF TokenRow
    <3> QED BY <2>1, <2>3, <3>1, <3>2
  <2> QED BY <2>2, <2>3
<1>2. Spend(r) = [t \in Token |-> Spend(r)[t]]
  BY DEF Spend
<1> HIDE DEF Spend
<1> QED BY <1>1, <1>2

\* The kind of token that an operation is about, and the token it sends.
LEMMA KindType ==
  ASSUME NEW op \in Issues \cup Uses
  PROVE  KindOf(op) \in Kind /\ (op \in Uses => KindOf(op) = op)
BY DEF KindOf

LEMMA NewTokenType ==
  ASSUME NEW kind \in Kind, NEW u \in User, NEW at \in Nat
  PROVE  NewToken(kind, u, at) \in TokenRow
<1>1. at + TokenLife[kind] \in Nat
  <2>1. TokenLife[kind] \in Nat
    BY Zenon
  <2> QED BY <2>1
<1> QED BY <1>1 DEF NewToken, TokenRow

\* The fields of a request.
LEMMA RequestTypes ==
  ASSUME TypeOK, NEW r \in Req
  PROVE  /\ req[r] \in Request
         /\ req[r].op \in {"none", "login"} \cup Issues \cup Uses
         /\ req[r].user \in User \cup {None} /\ req[r].pw \in Password \cup {None}
         /\ req[r].at \in Nat /\ req[r].seen \in UserRow
         /\ req[r].ts \in SUBSET Token /\ req[r].ss \in SUBSET SessionId
<1>1. req[r] \in Request
  BY DEF TypeOK
<1> QED BY <1>1 DEF Request

-----------------------------------------------------------------------------
(* One request at a time.                                                  *)

\* A step of r touches no other request and no lock of one.
OthersLocks(r) ==
  \A q \in Req : q # r =>
    /\ req'[q] = req[q]
    /\ \A u \in User : (lockU'[u] = q) <=> (lockU[u] = q)
    /\ \A t \in Token : (lockT'[t] = q) <=> (lockT[t] = q)

\* It changes no user that another request has locked, and removes none.
OthersUsers(r) ==
  \A u \in User :
    /\ \A q \in Req : q # r /\ lockU[u] = q => users'[u] = users[u]
    /\ Exists(u) => Exists(u)'

\* It changes no token that another request has locked, and of no token whose
\* it is; what is used stays used; and it sends a token only to a user whose
\* row it has locked, or to a new one.
OthersTokens(r) ==
  \A t \in Token :
    /\ \A q \in Req : q # r /\ lockT[t] = q => tokens'[t] = tokens[t]
    /\ tokens[t].kind # None => /\ tokens'[t].kind = tokens[t].kind
                                /\ tokens'[t].user = tokens[t].user
                                /\ tokens[t].used => tokens'[t].used
    /\ tokens[t].kind = None /\ tokens'[t].kind # None =>
         lockU[tokens'[t].user] = r \/ ~Exists(tokens'[t].user)

\* Under these terms, whatever another request counts on stays true.
LEMMA OthersKept ==
  ASSUME IInv, NEW r, OthersLocks(r), OthersUsers(r), OthersTokens(r), NEW q \in Req, q # r
  PROVE  RequestOK(q)'
<1>1. RequestOK(q) /\ TypeOK /\ TokenRows
  BY DEF IInv
<1>2. req'[q] = req[q] /\ req[q] \in Request
  BY <1>1 DEF OthersLocks, TypeOK
<1>3. StepFields(q)'
  <2>1. StepFields(q)
    BY <1>1 DEF RequestOK
  <2>2. req[q].op \in Uses => /\ tokens'[req[q].tok].kind = req[q].op
                              /\ tokens'[req[q].tok].user = req[q].user
    BY <1>1, <2>1 DEF StepFields, OthersTokens
  <2> QED BY <1>2, <2>1, <2>2 DEF StepFields
<1>4. OwnLocks(q)'
  <2>1. OwnLocks(q) /\ StepFields(q)
    BY <1>1 DEF RequestOK
  <2>2. ASSUME NEW u \in User, lockU'[u] = q
        PROVE  u = req'[q].user /\ req'[q].pc \in HoldingUser
    BY <1>2, <2>1, <2>2 DEF OwnLocks, OthersLocks
  <2>3. ASSUME NEW t \in Token, lockT'[t] = q
        PROVE  /\ tokens'[t].kind = KindOf(req'[q].op) /\ tokens'[t].user = req'[q].user
               /\ \/ req'[q].pc = "tokens"
                  \/ req'[q].op \in Uses /\ req'[q].pc \in {"user", "revoke"} /\ t = req'[q].tok
    <3>1. lockT[t] = q
      BY <2>3 DEF OthersLocks
    <3>2. tokens'[t] = tokens[t]
      BY <3>1 DEF OthersTokens
    <3> QED BY <1>2, <2>1, <3>1, <3>2 DEF OwnLocks
  <2> QED BY <2>2, <2>3 DEF OwnLocks
<1>5. Holds(q)'
  <2>1. Holds(q) /\ StepFields(q)
    BY <1>1 DEF RequestOK
  <2>2. CASE req[q].pc \in HoldingUser
    <3>1. /\ req[q].user \in User /\ lockU[req[q].user] = q
          /\ Exists(req[q].user)
      BY <2>1, <2>2 DEF Holds, StepFields
    <3>2. lockU'[req[q].user] = q /\ Exists(req[q].user)'
      BY <1>2, <3>1 DEF OthersLocks, OthersUsers, Exists
    <3> QED BY <1>2, <2>1, <3>2 DEF Holds, StepFields, OthersLocks, OthersTokens, Exists
  <2>3. CASE req[q].pc \notin HoldingUser
    BY <1>2, <2>1, <2>3 DEF Holds, StepFields, OthersLocks, OthersTokens
  <2> QED BY <2>2, <2>3
<1>6. UpdateCovers(q)'
  <2> SUFFICES ASSUME req[q].pc = "tokens"
               PROVE  UpdateCovers(q)'
    BY <1>2 DEF UpdateCovers
  <2> DEFINE kind == KindOf(req[q].op)
             u == req[q].user
  <2>1. /\ UpdateCovers(q) /\ kind \in Kind /\ u \in User
        /\ lockU[u] = q /\ Exists(u) /\ req[q].ts \subseteq Token
    BY <1>1, KindType, RequestTypes DEF RequestOK, StepFields, Holds
  <2>2. ASSUME NEW t \in req[q].ts PROVE tokens'[t].kind = kind /\ tokens'[t].user = u
    <3>1. tokens[t].kind = kind /\ tokens[t].user = u /\ t \in Token
      BY <2>1 DEF UpdateCovers
    <3>2. kind # None
      BY <2>1, <1>1, <3>1, RowTypes DEF TokenRows, NoToken
    <3> QED BY <3>1, <3>2 DEF OthersTokens
  <2>3. ASSUME NEW t \in Token, tokens'[t].kind = kind, tokens'[t].user = u, ~tokens'[t].used
        PROVE  t \in req[q].ts \/ lockT'[t] = q
    <3>1. tokens[t].kind # None
      <4>1. tokens'[t].kind # None
        BY <2>1, <2>3
      <4>2. lockU[tokens'[t].user] # r /\ Exists(tokens'[t].user)
        BY <2>1, <2>3
      <4> QED BY <4>1, <4>2 DEF OthersTokens
    <3>2. t \in Unused(kind, u)
      BY <2>3, <3>1 DEF Unused, OthersTokens
    <3>3. t \in req[q].ts \/ lockT[t] = q
      BY <2>1, <3>2 DEF UpdateCovers
    <3> QED BY <3>3 DEF OthersLocks
  <2> QED BY <1>2, <2>2, <2>3 DEF UpdateCovers, Unused
<1>7. ReadIsCurrent(q)'
  <2>1. ReadIsCurrent(q) /\ StepFields(q) /\ Holds(q)
    BY <1>1 DEF RequestOK
  <2>2. CASE req[q].pc \in {"check", "tokens"}
    <3>1. req[q].user \in User /\ lockU[req[q].user] = q
      BY <2>1, <2>2 DEF StepFields, Holds
    <3>2. users'[req[q].user] = users[req[q].user]
      BY <3>1 DEF OthersUsers
    <3> QED BY <1>2, <2>1, <3>2 DEF ReadIsCurrent
  <2>3. CASE req[q].pc \notin {"check", "tokens"}
    BY <1>2, <2>3 DEF ReadIsCurrent
  <2> QED BY <2>2, <2>3
<1> QED BY <1>3, <1>4, <1>5, <1>6, <1>7 DEF RequestOK

\* So much for others: the invariant is kept when the step leaves the tables
\* in order and the request itself with what it must have.
LEMMA RequestStep ==
  ASSUME IInv, NEW r \in Req, OthersLocks(r), OthersUsers(r), OthersTokens(r),
         TypeOK', TokenRows', UsableIsOne', VerifiedIsDone', LockAgrees', RequestOK(r)'
  PROVE  IInv'
<1>1. ASSUME NEW q \in Req PROVE RequestOK(q)'
  <2>1. CASE q = r
    BY <2>1
  <2>2. CASE q # r
    BY <2>2, OthersKept
  <2> QED BY <2>1, <2>2
<1> QED BY <1>1 DEF IInv

\* Tables that stay as they are are no concern.
LEMMA TablesKept ==
  ASSUME IInv, NEW r
  PROVE  /\ users' = users => OthersUsers(r) /\ LockAgrees'
         /\ tokens' = tokens => OthersTokens(r) /\ UsableIsOne'
         /\ users' = users /\ tokens' = tokens => VerifiedIsDone'
<1>1. users' = users => OthersUsers(r) /\ LockAgrees'
  BY DEF IInv, OthersUsers, Exists, LockAgrees
<1>2. ASSUME tokens' = tokens PROVE OthersTokens(r) /\ UsableIsOne'
  <2>1. OthersTokens(r)
    BY <1>2 DEF OthersTokens
  <2>2. \A u \in User, kind \in Kind : Unused(kind, u)' = Unused(kind, u)
    BY <1>2 DEF Unused
  <2> QED BY <2>1, <2>2 DEF IInv, UsableIsOne
<1>3. ASSUME users' = users, tokens' = tokens PROVE VerifiedIsDone'
  <2>1. \A u \in User : Unused("verify", u)' = Unused("verify", u)
    BY <1>3 DEF Unused
  <2> QED BY <1>3, <2>1 DEF IInv, VerifiedIsDone
<1> QED BY <1>1, <1>2, <1>3

\* A step that changes neither table and locks none but issued tokens.
LEMMA QuietStep ==
  ASSUME IInv, NEW r \in Req, OthersLocks(r), users' = users, tokens' = tokens, TypeOK',
         \A t \in Token : lockT'[t] \in {None, lockT[t]} \/ tokens[t].kind # None,
         RequestOK(r)'
  PROVE  IInv'
<1>1. TokenRows'
  BY DEF IInv, TokenRows, Exists
<1> QED BY <1>1, TablesKept, RequestStep

\* A request that has ended, and that holds no row.
LEMMA IdleIsFine ==
  ASSUME NEW r \in Req, req'[r] = Idle,
         \A u \in User : lockU'[u] # r, \A t \in Token : lockT'[t] # r
  PROVE  RequestOK(r)'
<1>1. req'[r].pc = "idle" /\ req'[r].op = "none"
  BY DEF Idle, Fresh
<1> QED BY <1>1 DEF RequestOK, StepFields, OwnLocks, Holds, UpdateCovers, ReadIsCurrent

\* The end of a transaction.
LEMMA FinishIsFine ==
  ASSUME IInv, NEW r \in Req, Finish(r)
  PROVE  /\ OthersLocks(r) /\ RequestOK(r)'
         /\ req' \in [Req -> Request]
         /\ lockU' \in [User -> Req \cup {None}]
         /\ lockT' \in [Token -> Req \cup {None}]
         /\ \A t \in Token : lockT'[t] \in {None, lockT[t]}
<1>1. TypeOK /\ Release(r) /\ req' = [req EXCEPT ![r] = Idle]
  BY DEF IInv, Finish
<1>2. /\ lockU' \in [User -> Req \cup {None}]
      /\ lockT' \in [Token -> Req \cup {None}]
      /\ \A u \in User : lockU'[u] = IF lockU[u] = r THEN None ELSE lockU[u]
      /\ \A t \in Token : lockT'[t] = IF lockT[t] = r THEN None ELSE lockT[t]
  BY <1>1, ReleaseFrees
<1>3. req' \in [Req -> Request] /\ req'[r] = Idle /\ \A q \in Req : q # r => req'[q] = req[q]
  BY <1>1, IdleType DEF TypeOK
<1>4. OthersLocks(r)
  BY <1>2, <1>3 DEF OthersLocks
<1>5. (\A u \in User : lockU'[u] # r) /\ (\A t \in Token : lockT'[t] # r)
  BY <1>2
<1>6. RequestOK(r)'
  BY <1>3, <1>5, IdleIsFine
<1> QED BY <1>2, <1>3, <1>4, <1>6

\* A transaction that is rolled back, or that commits without a change.
LEMMA RollbackStep ==
  ASSUME IInv, NEW r \in Req, Rollback(r)
  PROVE  IInv'
<1>1. Finish(r) /\ UNCHANGED <<now, users, tokens, sess>>
  BY DEF Rollback
<1>2. TypeOK'
  BY <1>1, FinishIsFine DEF IInv, TypeOK
<1> QED BY <1>1, <1>2, FinishIsFine, QuietStep

\* The request has locked no row.
HoldsNothing(r) == /\ \A u \in User : lockU[u] # r
                   /\ \A t \in Token : lockT[t] # r

\* A request that waits for its first row has none to let go of.
LEMMA EndStep ==
  ASSUME IInv, NEW r \in Req, req' = [req EXCEPT ![r] = Idle],
         UNCHANGED <<now, users, tokens, lockU, lockT>>, sess' \in [SessionId -> Session],
         HoldsNothing(r)
  PROVE  IInv'
<1>1. TypeOK
  BY DEF IInv
<1>2. req' \in [Req -> Request] /\ req'[r] = Idle /\ \A q \in Req : q # r => req'[q] = req[q]
  BY <1>1, IdleType DEF TypeOK
<1>3. (\A u \in User : lockU'[u] # r) /\ (\A t \in Token : lockT'[t] # r)
  BY DEF HoldsNothing
<1>4. RequestOK(r)'
  BY <1>2, <1>3, IdleIsFine
<1>5. OthersLocks(r)
  BY <1>2 DEF OthersLocks
<1>6. TypeOK'
  BY <1>1, <1>2 DEF TypeOK
<1> QED BY <1>4, <1>5, <1>6, QuietStep

-----------------------------------------------------------------------------
(* Requests begin, wait for their rows and read.                           *)

LEMMA BeginStep ==
  ASSUME IInv, NEW r \in Req, NEW new \in Request, Begin(r, new),
         new.user \in User,
         \/ new.pc = "user" /\ new.op \in {"login"} \cup Issues
         \/ /\ new.pc = "token" /\ new.op \in Uses /\ new.tok \in Token
            /\ tokens[new.tok].kind = new.op /\ tokens[new.tok].user = new.user
  PROVE  IInv'
<1>1. TypeOK /\ OwnLocks(r)
  BY DEF IInv, RequestOK
<1>2. /\ req[r].pc = "idle" /\ req[r].op = "none"
      /\ req' = [req EXCEPT ![r] = new]
      /\ UNCHANGED <<now, users, tokens, sess, lockU, lockT>>
  BY DEF Begin, Idle, Fresh
<1>3. req' \in [Req -> Request] /\ req'[r] = new /\ \A q \in Req : q # r => req'[q] = req[q]
  BY <1>1, <1>2 DEF TypeOK
<1>4. (\A u \in User : lockU'[u] # r) /\ (\A t \in Token : lockT'[t] # r)
  BY <1>1, <1>2 DEF OwnLocks
<1>5. RequestOK(r)'
  BY <1>2, <1>3, <1>4
     DEF RequestOK, StepFields, OwnLocks, Holds, UpdateCovers, ReadIsCurrent
<1>6. OthersLocks(r)
  BY <1>2, <1>3 DEF OthersLocks
<1>7. TypeOK'
  BY <1>1, <1>2, <1>3 DEF TypeOK
<1> QED BY <1>2, <1>5, <1>6, <1>7, QuietStep

LEMMA StartSteps ==
  ASSUME IInv, NEW r \in Req, Start(r)
  PROVE  IInv'
<1>0. now \in Nat
  BY DEF IInv, TypeOK
<1>1. ASSUME NEW u \in User, NEW p \in Password, StartLogin(r, u, p) PROVE IInv'
  <2> DEFINE new == Fresh("user", "login", u, None, p, now)
  <2>1. new \in Request
    BY <1>0, FreshType DEF PC
  <2>2. new.user = u /\ new.pc = "user" /\ new.op = "login" /\ Begin(r, new)
    BY <1>1 DEF Fresh, StartLogin
  <2> HIDE DEF new
  <2> QED BY <2>1, <2>2, BeginStep
<1>2. ASSUME NEW u \in User, NEW op \in Issues, StartIssue(r, op, u) PROVE IInv'
  <2> DEFINE new == Fresh("user", op, u, None, None, now)
  <2>1. new \in Request
    BY <1>0, FreshType DEF PC
  <2>2. new.user = u /\ new.pc = "user" /\ new.op \in Issues /\ Begin(r, new)
    BY <1>2 DEF Fresh, StartIssue
  <2> HIDE DEF new
  <2> QED BY <2>1, <2>2, BeginStep
<1>3. ASSUME NEW t \in Token, NEW p \in Password \cup {None}, StartUse(r, t, p) PROVE IInv'
  <2> DEFINE new == Fresh("token", tokens[t].kind, tokens[t].user, t, p, now)
  <2>1. tokens[t].kind \in Uses /\ tokens[t].user \in User
    <3>1. tokens[t] \in TokenRow /\ tokens[t].kind # None
      BY <1>3 DEF IInv, TypeOK, StartUse
    <3>2. tokens[t].kind \in Uses
      BY <3>1 DEF TokenRow
    <3> QED BY <3>1, <3>2 DEF IInv, TokenRows
  <2>2. new \in Request
    BY <1>0, <2>1, FreshType DEF PC
  <2>3. /\ new.user = tokens[t].user /\ new.pc = "token" /\ new.op = tokens[t].kind
        /\ new.tok = t /\ Begin(r, new)
    BY <1>3 DEF Fresh, StartUse
  <2> HIDE DEF new
  <2> QED BY <2>1, <2>2, <2>3, BeginStep
<1> QED BY <1>1, <1>2, <1>3 DEF Start

LEMMA LoginReadStep ==
  ASSUME IInv, NEW r \in Req, LoginRead(r)
  PROVE  IInv'
<1> DEFINE u == req[r].user
<1>1. TypeOK /\ StepFields(r) /\ OwnLocks(r)
  BY DEF IInv, RequestOK
<1>2. /\ req[r].pc = "user" /\ req[r].op = "login" /\ u \in User
      /\ Exists(u) /\ lockU[u] = None
      /\ lockU' = [lockU EXCEPT ![u] = r]
      /\ req' = [req EXCEPT ![r] = [req[r] EXCEPT !.pc = "check", !.seen = users[u]]]
      /\ UNCHANGED <<now, users, tokens, sess, lockT>>
  BY <1>1 DEF LoginRead, StepFields, TypeOK
<1> HIDE DEF u
<1>3. /\ [req[r] EXCEPT !.pc = "check", !.seen = users[u]] \in Request
      /\ [req[r] EXCEPT !.pc = "check", !.seen = users[u]].pc = "check"
      /\ [req[r] EXCEPT !.pc = "check", !.seen = users[u]].op = "login"
      /\ [req[r] EXCEPT !.pc = "check", !.seen = users[u]].user = u
      /\ [req[r] EXCEPT !.pc = "check", !.seen = users[u]].seen = users[u]
  <2>1. req[r] \in Request /\ users[u] \in UserRow
    BY <1>1, <1>2 DEF TypeOK
  <2>2. "check" \in PC
    BY DEF PC
  <2> QED BY <1>2, <2>1, <2>2 DEF Request, u
<1>4. /\ req' \in [Req -> Request]
      /\ req'[r].pc = "check" /\ req'[r].op = "login" /\ req'[r].user = u /\ req'[r].seen = users[u]
      /\ \A q \in Req : q # r => req'[q] = req[q]
  BY <1>1, <1>2, <1>3 DEF TypeOK
<1>5. /\ lockU' \in [User -> Req \cup {None}]
      /\ lockU'[u] = r
      /\ \A v \in User : v # u => lockU'[v] = lockU[v]
  BY <1>1, <1>2 DEF TypeOK
<1>6. TypeOK'
  BY <1>1, <1>2, <1>4, <1>5 DEF TypeOK
<1>7. OthersLocks(r)
  BY <1>2, <1>4, <1>5 DEF OthersLocks
<1>8. \A t \in Token : lockT[t] # r
  BY <1>1, <1>2 DEF OwnLocks
<1>9. \A v \in User : lockU[v] # r
  BY <1>1, <1>2 DEF OwnLocks
<1>10. RequestOK(r)'
  BY <1>2, <1>4, <1>5, <1>8, <1>9
     DEF RequestOK, StepFields, OwnLocks, Holds, UpdateCovers, ReadIsCurrent, Exists
<1> QED BY <1>2, <1>6, <1>7, <1>10, QuietStep

LEMMA IssueLockStep ==
  ASSUME IInv, NEW r \in Req, IssueLock(r)
  PROVE  IInv'
<1> DEFINE u == req[r].user
           op == req[r].op
           ts == Unused(KindOf(op), u)
           new == [req[r] EXCEPT !.pc = "tokens", !.ts = ts]
<1>1. TypeOK /\ StepFields(r) /\ OwnLocks(r)
  BY DEF IInv, RequestOK
<1>2. /\ req[r].pc = "user" /\ op \in Issues /\ u \in User
      /\ Eligible(op, users[u]) /\ lockU[u] = None
      /\ lockU' = [lockU EXCEPT ![u] = r]
      /\ req' = [req EXCEPT ![r] = new]
      /\ UNCHANGED <<now, users, tokens, sess, lockT>>
  BY <1>1 DEF IssueLock, StepFields, TypeOK
<1>3. ts \subseteq Token /\ req[r] \in Request
  BY <1>1 DEF Unused, TypeOK
<1>4. /\ new \in Request
      /\ new.pc = "tokens" /\ new.op = op /\ new.user = u /\ new.ts = ts
  <2> HIDE DEF ts
  <2>1. "tokens" \in PC
    BY DEF PC
  <2> QED BY <1>3, <2>1 DEF Request
<1> HIDE DEF new
<1>5. /\ req' \in [Req -> Request]
      /\ req'[r].pc = "tokens" /\ req'[r].op = op /\ req'[r].user = u /\ req'[r].ts = ts
      /\ \A q \in Req : q # r => req'[q] = req[q]
  <2> HIDE DEF ts
  <2> QED BY <1>1, <1>2, <1>4 DEF TypeOK
<1>6. /\ lockU' \in [User -> Req \cup {None}]
      /\ lockU'[u] = r
      /\ \A v \in User : v # u => lockU'[v] = lockU[v]
  BY <1>1, <1>2 DEF TypeOK
<1>7. TypeOK'
  BY <1>1, <1>2, <1>5, <1>6 DEF TypeOK
<1>8. OthersLocks(r)
  BY <1>2, <1>5, <1>6 DEF OthersLocks
<1>9. (\A t \in Token : lockT[t] # r) /\ (\A v \in User : lockU[v] # r)
  BY <1>1, <1>2 DEF OwnLocks
<1>10. Exists(u) /\ (op = "resend" => ~users[u].verified)
  BY <1>2 DEF Eligible, Exists
<1>11. StepFields(r)' /\ OwnLocks(r)' /\ Holds(r)' /\ ReadIsCurrent(r)'
  BY <1>2, <1>5, <1>6, <1>9, <1>10
     DEF StepFields, OwnLocks, Holds, ReadIsCurrent, Exists
<1>12. UpdateCovers(r)'
  BY <1>2, <1>5 DEF UpdateCovers, Unused
<1>13. RequestOK(r)'
  BY <1>11, <1>12 DEF RequestOK
<1> QED BY <1>2, <1>7, <1>8, <1>13, QuietStep

\* A row of the UPDATE is locked, or passed over because it was used meanwhile.
LEMMA VisitTokenStep ==
  ASSUME IInv, NEW r \in Req, NEW t \in Token, VisitToken(r, t)
  PROVE  IInv'
<1> DEFINE u == req[r].user
           op == req[r].op
           ts == req[r].ts \ {t}
           new == [req[r] EXCEPT !.ts = ts]
<1>1. TypeOK /\ RequestOK(r) /\ TokenRows
  BY DEF IInv
<1>2. /\ req[r].pc = "tokens" /\ u \in User /\ op \in Issues \cup Uses
      /\ t \in req[r].ts /\ lockT[t] \in {None, r}
      /\ lockT' = IF op = "reset" \/ ~tokens[t].used THEN [lockT EXCEPT ![t] = r] ELSE lockT
      /\ req' = [req EXCEPT ![r] = new]
      /\ UNCHANGED <<now, users, tokens, sess, lockU>>
  BY <1>1 DEF VisitToken, RequestOK, StepFields, TypeOK
<1>3. /\ req[r] \in Request /\ ts \subseteq Token
      /\ new \in Request
      /\ new.pc = "tokens" /\ new.op = op /\ new.user = u /\ new.tok = req[r].tok
      /\ new.seen = req[r].seen /\ new.ts = ts
  <2>1. req[r] \in Request /\ ts \subseteq Token
    BY <1>1, RequestTypes
  <2> HIDE DEF ts
  <2> QED BY <1>2, <2>1 DEF Request
<1> HIDE DEF new
<1>4. /\ req' \in [Req -> Request]
      /\ req'[r].pc = "tokens" /\ req'[r].op = op /\ req'[r].user = u
      /\ req'[r].tok = req[r].tok /\ req'[r].ts = ts
      /\ \A q \in Req : q # r => req'[q] = req[q]
  <2> HIDE DEF ts
  <2> QED BY <1>1, <1>2, <1>3 DEF TypeOK
<1>5. /\ lockT' \in [Token -> Req \cup {None}]
      /\ lockT'[t] \in {r, lockT[t]} /\ (~tokens[t].used => lockT'[t] = r)
      /\ \A s \in Token : s # t => lockT'[s] = lockT[s]
  BY <1>1, <1>2 DEF TypeOK
<1>6. TypeOK'
  BY <1>1, <1>2, <1>4, <1>5 DEF TypeOK
<1>7. OthersLocks(r)
  BY <1>2, <1>4, <1>5 DEF OthersLocks
<1>8. tokens[t].kind = KindOf(op) /\ tokens[t].user = u /\ tokens[t].kind # None
  <2>1. tokens[t].kind = KindOf(op) /\ tokens[t].user = u
    BY <1>1, <1>2 DEF RequestOK, UpdateCovers
  <2> QED BY <1>2, <2>1, KindType
<1>9. StepFields(r)' /\ Holds(r)' /\ ReadIsCurrent(r)'
  <2>1. StepFields(r) /\ Holds(r) /\ ReadIsCurrent(r)
    BY <1>1 DEF RequestOK
  <2>2. StepFields(r)' /\ ReadIsCurrent(r)'
    BY <1>2, <1>4, <2>1 DEF StepFields, ReadIsCurrent
  <2>3. Holds(r)'
    BY <1>2, <1>4, <1>5, <2>1 DEF Holds, Exists, StepFields
  <2> QED BY <2>2, <2>3
<1>10. OwnLocks(r)'
  BY <1>1, <1>2, <1>4, <1>5, <1>8 DEF RequestOK, OwnLocks
<1>11. UpdateCovers(r)'
  <2>1. UpdateCovers(r)
    BY <1>1 DEF RequestOK
  <2>2. ASSUME NEW s \in ts PROVE tokens'[s].kind = KindOf(op) /\ tokens'[s].user = u
    BY <1>2, <2>1 DEF UpdateCovers
  <2>3. ASSUME NEW s \in Unused(KindOf(op), u) PROVE s \in ts \/ lockT'[s] = r
    BY <1>2, <1>5, <2>1, <2>3 DEF UpdateCovers, Unused
  <2>4. Unused(KindOf(op), u)' = Unused(KindOf(op), u)
    BY <1>2, <1>4 DEF Unused
  <2> QED BY <1>4, <2>2, <2>3, <2>4 DEF UpdateCovers, Unused
<1>12. RequestOK(r)'
  BY <1>9, <1>10, <1>11 DEF RequestOK
<1> QED BY <1>2, <1>5, <1>6, <1>7, <1>8, <1>12, QuietStep

\* The presented token is found good and locked.
LEMMA UseTokenStep ==
  ASSUME IInv, NEW r \in Req, UseToken(r)
  PROVE  IInv'
<1> DEFINE t == req[r].tok
           new == [req[r] EXCEPT !.pc = "user"]
<1>1. TypeOK /\ RequestOK(r)
  BY DEF IInv
<1>2. /\ req[r].pc = "token" /\ req[r].op \in Uses /\ t \in Token
      /\ lockT[t] = None /\ ~tokens[t].used
      /\ lockT' = [lockT EXCEPT ![t] = r]
      /\ req' = [req EXCEPT ![r] = new]
      /\ UNCHANGED <<now, users, tokens, sess, lockU>>
  BY <1>1 DEF UseToken, RequestOK, StepFields, TypeOK
<1>3. tokens[t].kind = req[r].op /\ tokens[t].user = req[r].user
  BY <1>1, <1>2 DEF RequestOK, StepFields
<1>4. /\ new \in Request
      /\ new.pc = "user" /\ new.op = req[r].op /\ new.user = req[r].user /\ new.tok = t
  <2>1. req[r] \in Request /\ "user" \in PC
    BY <1>1 DEF TypeOK, PC
  <2> QED BY <2>1 DEF Request
<1> HIDE DEF new
<1>5. /\ req' \in [Req -> Request]
      /\ req'[r].pc = "user" /\ req'[r].op = req[r].op /\ req'[r].user = req[r].user
      /\ req'[r].tok = t
      /\ \A q \in Req : q # r => req'[q] = req[q]
  BY <1>1, <1>2, <1>4 DEF TypeOK
<1>6. /\ lockT' \in [Token -> Req \cup {None}]
      /\ lockT'[t] = r
      /\ \A s \in Token : s # t => lockT'[s] = lockT[s]
  BY <1>1, <1>2 DEF TypeOK
<1>7. TypeOK'
  BY <1>1, <1>2, <1>5, <1>6 DEF TypeOK
<1>8. OthersLocks(r)
  BY <1>2, <1>5, <1>6 DEF OthersLocks
<1>9. (\A s \in Token : lockT[s] # r) /\ (\A v \in User : lockU[v] # r)
  BY <1>1, <1>2 DEF RequestOK, OwnLocks
<1>10. tokens[t].kind # None /\ KindOf(req[r].op) = req[r].op
  BY <1>2, <1>3, KindType
<1>11. StepFields(r)' /\ OwnLocks(r)' /\ Holds(r)'
  BY <1>1, <1>2, <1>3, <1>5, <1>6, <1>9, <1>10 DEF RequestOK, StepFields, OwnLocks, Holds
<1>12. UpdateCovers(r)' /\ ReadIsCurrent(r)'
  BY <1>5 DEF UpdateCovers, ReadIsCurrent
<1>13. RequestOK(r)'
  BY <1>11, <1>12 DEF RequestOK
<1> QED BY <1>2, <1>6, <1>7, <1>8, <1>10, <1>3, <1>13, QuietStep

\* A reset locks its user, whom the token shows to exist.
LEMMA ResetLockStep ==
  ASSUME IInv, NEW r \in Req, ResetLock(r)
  PROVE  IInv'
<1> DEFINE u == req[r].user
           new == [req[r] EXCEPT !.pc = "revoke"]
<1>1. TypeOK /\ RequestOK(r) /\ TokenRows
  BY DEF IInv
<1>2. /\ req[r].pc = "user" /\ req[r].op = "reset" /\ u \in User
      /\ lockU[u] = None
      /\ lockU' = [lockU EXCEPT ![u] = r]
      /\ req' = [req EXCEPT ![r] = new]
      /\ UNCHANGED <<now, users, tokens, sess, lockT>>
  BY <1>1 DEF ResetLock, RequestOK, StepFields, TypeOK
<1>3. /\ req[r].tok \in Token
      /\ tokens[req[r].tok].kind = "reset" /\ tokens[req[r].tok].user = u
  BY <1>1, <1>2 DEF RequestOK, StepFields
<1>4. Exists(u)
  <2>1. "reset" # None
    BY DEF AccountsAssumption
  <2> QED BY <1>1, <1>3, <2>1 DEF TokenRows
<1>5. /\ new \in Request
      /\ new.pc = "revoke" /\ new.op = "reset" /\ new.user = u /\ new.tok = req[r].tok
  <2>1. req[r] \in Request /\ "revoke" \in PC
    BY <1>1 DEF TypeOK, PC
  <2> QED BY <1>2, <2>1 DEF Request
<1> HIDE DEF new
<1>6. /\ req' \in [Req -> Request]
      /\ req'[r].pc = "revoke" /\ req'[r].op = "reset" /\ req'[r].user = u
      /\ req'[r].tok = req[r].tok
      /\ \A q \in Req : q # r => req'[q] = req[q]
  BY <1>1, <1>2, <1>5 DEF TypeOK
<1>7. /\ lockU' \in [User -> Req \cup {None}]
      /\ lockU'[u] = r
      /\ \A v \in User : v # u => lockU'[v] = lockU[v]
  BY <1>1, <1>2 DEF TypeOK
<1>8. TypeOK'
  BY <1>1, <1>2, <1>6, <1>7 DEF TypeOK
<1>9. OthersLocks(r)
  BY <1>2, <1>6, <1>7 DEF OthersLocks
<1>10. StepFields(r)' /\ OwnLocks(r)' /\ Holds(r)'
  <2>1. StepFields(r)'
    BY <1>2, <1>3, <1>6 DEF StepFields
  <2>2. OwnLocks(r)'
    BY <1>1, <1>2, <1>6, <1>7 DEF RequestOK, OwnLocks
  <2>3. Holds(r)'
    BY <1>1, <1>2, <1>4, <1>6, <1>7 DEF RequestOK, Holds, Exists
  <2> QED BY <2>1, <2>2, <2>3
<1>11. UpdateCovers(r)' /\ ReadIsCurrent(r)'
  BY <1>6 DEF UpdateCovers, ReadIsCurrent
<1>12. RequestOK(r)'
  BY <1>10, <1>11 DEF RequestOK
<1> QED BY <1>2, <1>8, <1>9, <1>12, QuietStep

\* Its UPDATE has all reset tokens of the user in its list.
LEMMA ResetRevokeStep ==
  ASSUME IInv, NEW r \in Req, ResetRevoke(r)
  PROVE  IInv'
<1> DEFINE u == req[r].user
           ss == SessionsOf(u)
           ts == {t \in Token : tokens[t].kind = "reset" /\ tokens[t].user = u}
           new == [req[r] EXCEPT !.pc = "tokens", !.ss = ss, !.ts = ts]
<1>1. TypeOK /\ RequestOK(r)
  BY DEF IInv
<1>2. /\ req[r].pc = "revoke" /\ req[r].op = "reset" /\ u \in User
      /\ req' = [req EXCEPT ![r] = new]
      /\ UNCHANGED <<now, users, tokens, sess, lockU, lockT>>
  BY <1>1 DEF ResetRevoke, RequestOK, StepFields, TypeOK
<1>3. /\ new \in Request
      /\ new.pc = "tokens" /\ new.op = "reset" /\ new.user = u /\ new.tok = req[r].tok
      /\ new.ts = ts
  <2>1. req[r] \in Request /\ "tokens" \in PC /\ ss \subseteq SessionId /\ ts \subseteq Token
    BY <1>1 DEF TypeOK, PC, SessionsOf
  <2> HIDE DEF ss, ts
  <2> QED BY <1>2, <2>1 DEF Request
<1> HIDE DEF new
<1>4. /\ req' \in [Req -> Request]
      /\ req'[r].pc = "tokens" /\ req'[r].op = "reset" /\ req'[r].user = u
      /\ req'[r].tok = req[r].tok /\ req'[r].ts = ts
      /\ \A q \in Req : q # r => req'[q] = req[q]
  <2> HIDE DEF ts
  <2> QED BY <1>1, <1>2, <1>3 DEF TypeOK
<1>5. TypeOK'
  BY <1>1, <1>2, <1>4 DEF TypeOK
<1>6. OthersLocks(r)
  BY <1>2, <1>4 DEF OthersLocks
<1>7. StepFields(r)' /\ OwnLocks(r)' /\ Holds(r)'
  <2> HIDE DEF ts
  <2>1. StepFields(r)'
    BY <1>1, <1>2, <1>4 DEF RequestOK, StepFields
  <2>2. OwnLocks(r)'
    BY <1>1, <1>2, <1>4 DEF RequestOK, OwnLocks
  <2>3. Holds(r)'
    BY <1>1, <1>2, <1>4 DEF RequestOK, Holds, Exists
  <2> QED BY <2>1, <2>2, <2>3
<1>8. UpdateCovers(r)'
  <2>1. KindOf("reset") = "reset"
    BY DEF KindOf
  <2> QED BY <1>2, <1>4, <2>1 DEF UpdateCovers, Unused
<1>9. ReadIsCurrent(r)'
  BY <1>4 DEF ReadIsCurrent
<1>10. RequestOK(r)'
  BY <1>7, <1>8, <1>9 DEF RequestOK
<1> QED BY <1>2, <1>5, <1>6, <1>10, QuietStep

-----------------------------------------------------------------------------
(* Transactions that commit.                                               *)

\* The lock, the count and the time in one row of users.
RowAgrees(row) == /\ row.fails >= Threshold => row.until > 0
                  /\ row.status = "locked" => row.fails >= Threshold

\* A user's row changes while no other request has locked it.
LEMMA UserUpdate ==
  ASSUME IInv, NEW r, NEW u \in User, NEW row \in UserRow,
         row.status # "none", RowAgrees(row),
         \A q \in Req : q # r => lockU[u] # q,
         users' = [users EXCEPT ![u] = row]
  PROVE  /\ users' \in [User -> UserRow] /\ users'[u] = row
         /\ \A v \in User : v # u => users'[v] = users[v]
         /\ OthersUsers(r) /\ LockAgrees'
         /\ row.verified = users[u].verified /\ tokens' = tokens => VerifiedIsDone'
<1>1. TypeOK /\ LockAgrees /\ VerifiedIsDone
  BY DEF IInv
<1>2. /\ users' \in [User -> UserRow] /\ users'[u] = row
      /\ \A v \in User : v # u => users'[v] = users[v]
  BY <1>1 DEF TypeOK
<1>3. OthersUsers(r)
  BY <1>2 DEF OthersUsers, Exists
<1>4. LockAgrees'
  BY <1>1, <1>2 DEF LockAgrees, RowAgrees
<1>5. row.verified = users[u].verified /\ tokens' = tokens => VerifiedIsDone'
  <2> SUFFICES ASSUME row.verified = users[u].verified, tokens' = tokens
               PROVE  VerifiedIsDone'
    OBVIOUS
  <2>1. \A v \in User : Unused("verify", v)' = Unused("verify", v)
    BY DEF Unused
  <2> QED BY <1>1, <1>2, <2>1 DEF VerifiedIsDone
<1> QED BY <1>2, <1>3, <1>4, <1>5

\* A login that verifies a password has its user's row as it is, to itself.
LEMMA LoginHolds ==
  ASSUME IInv, NEW r \in Req, req[r].pc = "check"
  PROVE  /\ req[r].user \in User /\ req[r].seen = users[req[r].user]
         /\ req[r].seen \in UserRow /\ req[r].at \in Nat
         /\ Exists(req[r].user)
         /\ \A q \in Req : q # r => lockU[req[r].user] # q
         /\ RowAgrees(users[req[r].user])
         /\ \A t \in Token : lockT[t] # r
<1>1. TypeOK /\ RequestOK(r) /\ LockAgrees
  BY DEF IInv
<1>2. /\ req[r].user \in User /\ req[r].seen = users[req[r].user]
      /\ Exists(req[r].user) /\ lockU[req[r].user] = r
  BY <1>1 DEF RequestOK, StepFields, ReadIsCurrent, Holds
<1>3. \A t \in Token : lockT[t] # r
  BY <1>1 DEF RequestOK, OwnLocks
<1> QED BY <1>1, <1>2, <1>3, RequestTypes DEF LockAgrees, RowAgrees

\* A failure counts, and enough of them lock the account for a time.
LEMMA WrongPasswordAgrees ==
  ASSUME NEW row \in UserRow, RowAgrees(row), NEW at, at \in Nat,
         NEW new, new = AfterWrongPassword(row, row, at)
  PROVE  RowAgrees(new)
<1>1. /\ new.fails = row.fails + 1
      /\ row.fails + 1 >= Threshold => new.until = at + LockTime /\ new.status = "locked"
      /\ ~(row.fails + 1 >= Threshold) => new.status = row.status
  BY WrongPasswordRow DEF UserRow
<1>2. row.fails \in Nat
  BY DEF UserRow
<1>3. ASSUME row.fails + 1 >= Threshold PROVE RowAgrees(new)
  <2>1. at + LockTime > 0
    OBVIOUS
  <2> QED BY <1>1, <1>3, <2>1 DEF RowAgrees
<1>4. ASSUME ~(row.fails + 1 >= Threshold) PROVE RowAgrees(new)
  <2>1. ~(row.fails >= Threshold)
    BY <1>2, <1>4
  <2> QED BY <1>1, <1>4, <2>1 DEF RowAgrees
<1> QED BY <1>3, <1>4

LEMMA LoginWrongStep ==
  ASSUME IInv, NEW r \in Req, LoginWrong(r)
  PROVE  IInv'
<1> DEFINE u == req[r].user
           row == AfterWrongPassword(users[u], users[u], req[r].at)
<1>1. /\ req[r].pc = "check" /\ Finish(r)
      /\ users' = [users EXCEPT ![u] = row]
      /\ UNCHANGED <<now, tokens, sess>>
  <2>1. u \in User /\ req[r].seen = users[u]
    BY LoginHolds DEF LoginWrong
  <2> QED BY <2>1 DEF LoginWrong, IInv, TypeOK
<1>2. /\ u \in User /\ users[u] \in UserRow /\ req[r].at \in Nat
      /\ Exists(u) /\ RowAgrees(users[u])
      /\ \A q \in Req : q # r => lockU[u] # q
  BY <1>1, LoginHolds
<1>3. row = AfterWrongPassword(users[u], users[u], req[r].at)
  OBVIOUS
<1> HIDE DEF row, u
<1>4. row \in UserRow /\ row.verified = users[u].verified /\ RowAgrees(row)
  <2>1. row \in UserRow
    BY <1>2, <1>3, WrongPasswordRow
  <2>2. row.verified = users[u].verified
    BY <1>2, <1>3, WrongPasswordRow DEF UserRow
  <2>3. RowAgrees(row)
    BY <1>2, <1>3, WrongPasswordAgrees
  <2> QED BY <2>1, <2>2, <2>3
<1>5. row.status # "none"
  BY <1>2, <1>3, WrongPasswordRow DEF Exists, UserRow
<1>6. users' \in [User -> UserRow] /\ OthersUsers(r) /\ LockAgrees' /\ VerifiedIsDone'
  BY <1>1, <1>2, <1>4, <1>5, UserUpdate
<1>7. /\ OthersLocks(r) /\ RequestOK(r)' /\ OthersTokens(r) /\ UsableIsOne'
      /\ \A t \in Token : lockT'[t] \in {None, lockT[t]}
  BY <1>1, FinishIsFine, TablesKept
<1>8. TypeOK'
  BY <1>1, <1>6, FinishIsFine DEF IInv, TypeOK
<1>9. TokenRows'
  BY <1>1, <1>6, <1>7 DEF IInv, TokenRows, OthersUsers
<1> QED BY <1>6, <1>7, <1>8, <1>9, RequestStep

LEMMA LoginAcceptedStep ==
  ASSUME IInv, NEW r \in Req, LoginAccepted(r)
  PROVE  IInv'
<1> DEFINE u == req[r].user
           row == [users[u] EXCEPT !.fails = 0, !.until = 0, !.status = "active"]
           new == Fresh("session", "login", u, None, req[r].pw, 0)
<1>0. TypeOK
  BY DEF IInv
<1>1. /\ req[r].pc = "check" /\ Release(r)
      /\ users' = [users EXCEPT ![u] = row]
      /\ req' = [req EXCEPT ![r] = new]
      /\ UNCHANGED <<now, tokens, sess>>
  <2>1. u \in User
    BY LoginHolds DEF LoginAccepted
  <2> QED BY <1>0, <2>1 DEF LoginAccepted, TypeOK
<1>2. /\ u \in User /\ users[u] \in UserRow
      /\ \A q \in Req : q # r => lockU[u] # q
  BY <1>1, LoginHolds
<1>3. /\ row \in UserRow /\ row.fails = 0 /\ row.until = 0 /\ row.status = "active"
      /\ row.verified = users[u].verified
  BY <1>2, AcceptedRow
<1>4. RowAgrees(row)
  BY <1>3 DEF RowAgrees
<1>5. new \in Request /\ new.pc = "session" /\ new.op = "login" /\ new.user = u
  <2>1. req[r].pw \in Password \cup {None} /\ "session" \in PC
    BY <1>0, RequestTypes DEF PC
  <2>2. new \in Request
    BY <1>2, <2>1, FreshType
  <2> QED BY <2>2 DEF Fresh
<1> HIDE DEF row, u, new
<1>6. users' \in [User -> UserRow] /\ OthersUsers(r) /\ LockAgrees' /\ VerifiedIsDone'
  BY <1>1, <1>2, <1>3, <1>4, UserUpdate
<1>7. /\ lockU' \in [User -> Req \cup {None}]
      /\ lockT' \in [Token -> Req \cup {None}]
      /\ \A v \in User : lockU'[v] = IF lockU[v] = r THEN None ELSE lockU[v]
      /\ \A t \in Token : lockT'[t] = IF lockT[t] = r THEN None ELSE lockT[t]
  BY <1>0, <1>1, ReleaseFrees
<1>8. req' \in [Req -> Request] /\ req'[r] = new /\ \A q \in Req : q # r => req'[q] = req[q]
  BY <1>0, <1>1, <1>5 DEF TypeOK
<1>9. OthersLocks(r)
  BY <1>7, <1>8 DEF OthersLocks
<1>10. RequestOK(r)'
  <2>1. (\A v \in User : lockU'[v] # r) /\ (\A t \in Token : lockT'[t] # r)
    BY <1>7
  <2> QED BY <1>2, <1>5, <1>8, <2>1
      DEF RequestOK, StepFields, OwnLocks, Holds, UpdateCovers, ReadIsCurrent
<1>11. OthersTokens(r) /\ UsableIsOne'
  BY <1>1, TablesKept
<1>12. TypeOK'
  BY <1>0, <1>1, <1>6, <1>7, <1>8 DEF TypeOK
<1>13. TokenRows'
  BY <1>1, <1>6, <1>7 DEF IInv, TokenRows, OthersUsers
<1> QED BY <1>6, <1>9, <1>10, <1>11, <1>12, <1>13, RequestStep

\* What a transaction spends is gone, and nothing else has changed.
LEMMA SpendIsFine ==
  ASSUME IInv, NEW r \in Req
  PROVE  /\ Spend(r) \in [Token -> TokenRow]
         /\ tokens' = Spend(r) =>
              /\ OthersTokens(r)
              /\ \A u \in User, kind \in Kind :
                   Unused(kind, u)' = {t \in Unused(kind, u) : lockT[t] # r}
              /\ UsableIsOne'
<1>1. TypeOK /\ UsableIsOne /\ RowTypes
  BY RowTypes DEF IInv
<1>2. /\ Spend(r) \in [Token -> TokenRow]
      /\ \A t \in Token : /\ Spend(r)[t].kind = tokens[t].kind
                          /\ Spend(r)[t].user = tokens[t].user
                          /\ Spend(r)[t].used = (tokens[t].used \/ lockT[t] = r)
                          /\ lockT[t] # r => Spend(r)[t] = tokens[t]
  BY <1>1, SpendType
<1> HIDE DEF Spend
<1>3. ASSUME tokens' = Spend(r)
      PROVE  /\ OthersTokens(r)
             /\ \A u \in User, kind \in Kind :
                  Unused(kind, u)' = {t \in Unused(kind, u) : lockT[t] # r}
             /\ UsableIsOne'
  <2>1. OthersTokens(r)
    BY <1>2, <1>3 DEF OthersTokens
  <2>2. ASSUME NEW u \in User, NEW kind \in Kind
        PROVE  Unused(kind, u)' = {t \in Unused(kind, u) : lockT[t] # r}
    BY <1>2, <1>3 DEF Unused
  <2>3. UsableIsOne'
    BY <1>1, <2>2 DEF UsableIsOne
  <2> QED BY <2>1, <2>2, <2>3
<1> QED BY <1>2, <1>3

\* The new token is the only usable one: the others were in the UPDATE.
LEMMA CommitIssueStep ==
  ASSUME IInv, NEW r \in Req, CommitIssue(r)
  PROVE  IInv'
<1> DEFINE u == req[r].user
           kind == KindOf(req[r].op)
           new == NewToken(kind, u, req[r].at)
<1>0. TypeOK /\ RequestOK(r) /\ TokenRows /\ UsableIsOne /\ VerifiedIsDone
  BY DEF IInv
<1>1. /\ req[r].pc = "tokens" /\ req[r].op \in Issues /\ req[r].ts = {}
      /\ Finish(r) /\ UNCHANGED <<now, users, sess>>
  BY DEF CommitIssue
<1>2. /\ u \in User /\ kind \in Kind /\ lockU[u] = r /\ Exists(u)
      /\ \A s \in Unused(kind, u) : lockT[s] = r
      /\ req[r].op = "resend" => ~users[u].verified
  BY <1>0, <1>1, KindType DEF RequestOK, StepFields, Holds, UpdateCovers, ReadIsCurrent
<1>3. new \in TokenRow /\ new.kind = kind /\ new.user = u /\ ~new.used
  <2>1. req[r].at \in Nat
    BY <1>0, RequestTypes
  <2> QED BY <1>2, <2>1, NewTokenType DEF NewToken
<1>4. PICK t \in Token : tokens[t] = NoToken /\ tokens' = [Spend(r) EXCEPT ![t] = new]
  BY DEF CommitIssue
<1>5. tokens[t].kind = None /\ lockT[t] = None
  BY <1>0, <1>4 DEF NoToken, TokenRows
<1>6. /\ Spend(r) \in [Token -> TokenRow]
      /\ \A s \in Token : /\ Spend(r)[s].kind = tokens[s].kind
                          /\ Spend(r)[s].user = tokens[s].user
                          /\ Spend(r)[s].used = (tokens[s].used \/ lockT[s] = r)
                          /\ lockT[s] # r => Spend(r)[s] = tokens[s]
  BY <1>0, SpendType
<1> HIDE DEF u, kind, new, Spend
<1>7. /\ tokens' \in [Token -> TokenRow]
      /\ tokens'[t] = new
      /\ \A s \in Token : s # t =>
           /\ tokens'[s].kind = tokens[s].kind
           /\ tokens'[s].user = tokens[s].user
           /\ tokens'[s].used = (tokens[s].used \/ lockT[s] = r)
           /\ lockT[s] # r => tokens'[s] = tokens[s]
  BY <1>3, <1>4, <1>6
<1>8. OthersTokens(r)
  <2>1. tokens'[t].user = u /\ \A q \in Req : lockT[t] # q
    BY <1>3, <1>5, <1>7
  <2>2. ASSUME NEW s \in Token, s # t
        PROVE  /\ tokens'[s].kind = tokens[s].kind /\ tokens'[s].user = tokens[s].user
               /\ tokens[s].used => tokens'[s].used
               /\ \A q \in Req : q # r /\ lockT[s] = q => tokens'[s] = tokens[s]
    BY <1>7, <2>2
  <2> QED BY <1>2, <1>5, <2>1, <2>2 DEF OthersTokens
<1>9. \A k \in Kind, v \in User : \A s \in Unused(k, v)' :
        \/ s = t /\ k = kind /\ v = u
        \/ s # t /\ s \in Unused(k, v) /\ lockT[s] # r
  BY <1>3, <1>7 DEF Unused
<1>10. UsableIsOne'
  <2> SUFFICES ASSUME NEW v \in User, NEW k \in Kind,
                      NEW s1 \in Unused(k, v)', NEW s2 \in Unused(k, v)'
               PROVE  s1 = s2
    BY DEF UsableIsOne
  <2>1. CASE k = kind /\ v = u
    <3>1. s1 = t /\ s2 = t
      BY <1>2, <1>9, <2>1
    <3> QED BY <3>1
  <2>2. CASE ~(k = kind /\ v = u)
    <3>1. s1 \in Unused(k, v) /\ s2 \in Unused(k, v)
      BY <1>9, <2>2
    <3> QED BY <1>0, <3>1 DEF UsableIsOne
  <2> QED BY <2>1, <2>2
<1>11. VerifiedIsDone'
  <2> SUFFICES ASSUME NEW v \in User, users[v].verified, NEW s \in Unused("verify", v)'
               PROVE  FALSE
    BY <1>1 DEF VerifiedIsDone
  <2>1. Unused("verify", v) = {}
    BY <1>0 DEF VerifiedIsDone
  <2>2. kind = "verify" /\ v = u
    BY <1>9, <2>1
  <2>3. req[r].op = "resend"
    BY <1>1, <2>2 DEF KindOf, kind
  <2> QED BY <1>2, <2>2, <2>3
<1>12. OthersUsers(r) /\ LockAgrees'
  BY <1>1, TablesKept
<1>13. /\ OthersLocks(r) /\ RequestOK(r)'
       /\ \A s \in Token : lockT'[s] \in {None, lockT[s]}
  BY <1>1, FinishIsFine
<1>14. TypeOK'
  BY <1>0, <1>1, <1>7, FinishIsFine DEF TypeOK
<1>15. TokenRows'
  <2> SUFFICES ASSUME NEW s \in Token
               PROVE  /\ tokens'[s].kind = None => tokens'[s] = NoToken /\ lockT'[s] = None
                      /\ tokens'[s].kind # None =>
                           tokens'[s].user \in User /\ users'[tokens'[s].user].status # "none"
    BY DEF TokenRows, Exists
  <2>1. CASE s = t
    BY <1>1, <1>2, <1>3, <1>7, <2>1 DEF Exists
  <2>2. CASE s # t
    <3>1. tokens'[s].kind = tokens[s].kind /\ tokens'[s].user = tokens[s].user
      BY <1>7, <2>2
    <3>2. tokens[s].kind = None => tokens'[s] = NoToken /\ lockT'[s] = None
      BY <1>0, <1>7, <1>13, <2>2 DEF TokenRows
    <3> QED BY <1>0, <1>1, <3>1, <3>2 DEF TokenRows, Exists
  <2> QED BY <2>1, <2>2
<1> QED BY <1>8, <1>10, <1>11, <1>12, <1>13, <1>14, <1>15, RequestStep

\* Spending tokens leaves every one with its user, who still exists.
LEMMA SpentRows ==
  ASSUME IInv, NEW r \in Req, tokens' = Spend(r), OthersUsers(r),
         \A t \in Token : lockT'[t] \in {None, lockT[t]}
  PROVE  TokenRows'
<1>1. TypeOK /\ TokenRows
  BY DEF IInv
<1>2. \A t \in Token : /\ tokens'[t].kind = tokens[t].kind
                       /\ tokens'[t].user = tokens[t].user
                       /\ lockT[t] # r => tokens'[t] = tokens[t]
  BY <1>1, SpendType
<1>3. ASSUME NEW t \in Token
      PROVE  /\ tokens'[t].kind = None => tokens'[t] = NoToken /\ lockT'[t] = None
             /\ tokens'[t].kind # None =>
                  tokens'[t].user \in User /\ users'[tokens'[t].user].status # "none"
  BY <1>1, <1>2 DEF TokenRows, OthersUsers, Exists
<1> QED BY <1>3 DEF TokenRows, Exists

\* The verified user has no other usable token than the one that is spent.
LEMMA CommitVerifyStep ==
  ASSUME IInv, NEW r \in Req, CommitVerify(r)
  PROVE  IInv'
<1> DEFINE u == req[r].user
           row == [users[u] EXCEPT !.verified = TRUE, !.status = "active"]
<1>0. TypeOK /\ RequestOK(r) /\ UsableIsOne /\ VerifiedIsDone /\ LockAgrees
  BY DEF IInv
<1>1. /\ req[r].pc = "user" /\ req[r].op = "verify" /\ u \in User /\ lockU[u] = None
      /\ users' = [users EXCEPT ![u] = row]
      /\ tokens' = Spend(r) /\ Finish(r) /\ UNCHANGED <<now, sess>>
  BY <1>0 DEF CommitVerify, RequestOK, StepFields, TypeOK
<1>2. /\ req[r].tok \in Unused("verify", u) /\ lockT[req[r].tok] = r
  BY <1>0, <1>1 DEF RequestOK, StepFields, Holds, Unused
<1>3. /\ row \in UserRow /\ row.status # "none" /\ row.verified
      /\ row.fails = users[u].fails /\ row.until = users[u].until /\ row.status = "active"
  <2>1. users[u] \in UserRow
    BY <1>0, <1>1 DEF TypeOK
  <2> HIDE DEF u
  <2> QED BY <2>1, VerifiedRow
<1>4. RowAgrees(row)
  BY <1>0, <1>1, <1>3 DEF RowAgrees, LockAgrees
<1> HIDE DEF row, u
<1>5. /\ users' \in [User -> UserRow] /\ users'[u] = row
      /\ \A v \in User : v # u => users'[v] = users[v]
      /\ OthersUsers(r) /\ LockAgrees'
  <2>1. \A q \in Req : q # r => lockU[u] # q
    BY <1>1
  <2> QED BY <1>1, <1>3, <1>4, <2>1, UserUpdate
<1>6. /\ tokens' \in [Token -> TokenRow] /\ OthersTokens(r) /\ UsableIsOne'
      /\ \A v \in User, kind \in Kind :
           Unused(kind, v)' = {t \in Unused(kind, v) : lockT[t] # r}
  BY <1>1, SpendIsFine
<1>7. VerifiedIsDone'
  <2> SUFFICES ASSUME NEW v \in User, users'[v].verified, NEW t \in Unused("verify", v)'
               PROVE  FALSE
    BY DEF VerifiedIsDone
  <2>1. t \in Unused("verify", v) /\ lockT[t] # r
    BY <1>6
  <2>2. CASE v = u
    BY <1>0, <1>2, <2>1, <2>2 DEF UsableIsOne
  <2>3. CASE v # u
    BY <1>0, <1>5, <2>1, <2>3 DEF VerifiedIsDone
  <2> QED BY <2>2, <2>3
<1>8. /\ OthersLocks(r) /\ RequestOK(r)'
      /\ \A s \in Token : lockT'[s] \in {None, lockT[s]}
  BY <1>1, FinishIsFine
<1>9. TypeOK'
  BY <1>0, <1>1, <1>5, <1>6, FinishIsFine DEF TypeOK
<1>10. TokenRows'
  BY <1>1, <1>5, <1>8, SpentRows
<1> QED BY <1>5, <1>6, <1>7, <1>8, <1>9, <1>10, RequestStep

LEMMA CommitResetStep ==
  ASSUME IInv, NEW r \in Req, CommitReset(r)
  PROVE  IInv'
<1> DEFINE u == req[r].user
           row == AfterReset(users[u], req[r].pw)
<1>0. TypeOK /\ RequestOK(r) /\ VerifiedIsDone
  BY DEF IInv
<1>1. /\ req[r].pc = "tokens" /\ req[r].op = "reset" /\ u \in User
      /\ Exists(u) /\ \A q \in Req : q # r => lockU[u] # q
      /\ users' = [users EXCEPT ![u] = row]
      /\ tokens' = Spend(r) /\ Finish(r) /\ now' = now
      /\ sess' = [s \in SessionId |-> IF s \in req[r].ss THEN NoSession ELSE sess[s]]
  <2>1. req[r].pc = "tokens" /\ req[r].op = "reset" /\ u \in User
    BY <1>0 DEF CommitReset, RequestOK, StepFields
  <2>2. Exists(u) /\ lockU[u] = r
    BY <1>0, <2>1 DEF RequestOK, Holds
  <2> QED BY <1>0, <2>1, <2>2 DEF CommitReset, TypeOK
<1>2. req[r].pw \in Password \cup {None} /\ users[u] \in UserRow
  BY <1>0, <1>1, RequestTypes DEF TypeOK
<1>3. /\ row \in UserRow /\ row.verified = users[u].verified
      /\ row.fails = 0 /\ row.until = 0
      /\ row.status \in {"active", users[u].status} /\ row.status # "locked"
  <2> HIDE DEF u
  <2>1. /\ row \in UserRow /\ row.verified = users[u].verified
        /\ row.fails = 0 /\ row.until = 0
    BY <1>2, ResetRow
  <2>2. row.status \in {"active", users[u].status} /\ row.status # "locked"
    BY <1>2, ResetRow
  <2> QED BY <2>1, <2>2
<1>4. row.status # "none" /\ RowAgrees(row)
  BY <1>1, <1>3 DEF RowAgrees, Exists
<1> HIDE DEF row, u
<1>5. /\ users' \in [User -> UserRow] /\ users'[u] = row
      /\ \A v \in User : v # u => users'[v] = users[v]
      /\ OthersUsers(r) /\ LockAgrees'
  BY <1>1, <1>3, <1>4, UserUpdate
<1>6. /\ tokens' \in [Token -> TokenRow] /\ OthersTokens(r) /\ UsableIsOne'
      /\ \A v \in User, kind \in Kind :
           Unused(kind, v)' = {t \in Unused(kind, v) : lockT[t] # r}
  BY <1>1, SpendIsFine
<1>7. VerifiedIsDone'
  <2>1. \A v \in User : users'[v].verified = users[v].verified
    BY <1>3, <1>5
  <2> QED BY <1>0, <1>6, <2>1 DEF VerifiedIsDone
<1>8. /\ OthersLocks(r) /\ RequestOK(r)'
      /\ \A s \in Token : lockT'[s] \in {None, lockT[s]}
  BY <1>1, FinishIsFine
<1>9. sess' \in [SessionId -> Session]
  BY <1>0, <1>1, RowTypes DEF TypeOK
<1>10. TypeOK'
  BY <1>0, <1>1, <1>5, <1>6, <1>9, FinishIsFine DEF TypeOK
<1>11. TokenRows'
  BY <1>1, <1>5, <1>8, SpentRows
<1> QED BY <1>5, <1>6, <1>7, <1>8, <1>10, <1>11, RequestStep

-----------------------------------------------------------------------------
(* The rest of the world: no request takes the step.                       *)

LEMMA WorldStep ==
  ASSUME IInv, UNCHANGED <<lockU, lockT, req>>, OthersUsers(None), OthersTokens(None),
         TypeOK', TokenRows', UsableIsOne', VerifiedIsDone', LockAgrees'
  PROVE  IInv'
<1>1. OthersLocks(None)
  BY DEF OthersLocks
<1>2. \A q \in Req : RequestOK(q)'
  BY <1>1, OthersKept
<1> QED BY <1>2 DEF IInv

LEMMA RegisterStep ==
  ASSUME IInv, NEW u \in User, NEW p \in Password, Register(u, p)
  PROVE  IInv'
<1> DEFINE row == [NoUser EXCEPT !.status = "pending_verification", !.pw = p]
           new == NewToken("verify", u, now)
<1>0. TypeOK /\ TokenRows /\ UsableIsOne /\ VerifiedIsDone
  BY DEF IInv
<1>1. /\ ~Exists(u)
      /\ users' = [users EXCEPT ![u] = row]
      /\ UNCHANGED <<now, sess, lockU, lockT, req>>
  BY DEF Register
<1>2. PICK t \in Token : tokens[t] = NoToken /\ tokens' = [tokens EXCEPT ![t] = new]
  BY DEF Register
<1>3. /\ row \in UserRow /\ row.status = "pending_verification" /\ ~row.verified
      /\ RowAgrees(row)
  <2>1. row \in UserRow /\ row.status = "pending_verification" /\ ~row.verified /\ row.fails = 0
    BY DEF NoUser, UserRow, Status
  <2> QED BY <2>1 DEF RowAgrees
<1>4. new \in TokenRow /\ new.kind = "verify" /\ new.user = u /\ ~new.used
  <2>1. now \in Nat
    BY <1>0 DEF TypeOK
  <2> QED BY <2>1, NewTokenType DEF NewToken
<1>5. \A q \in Req : lockU[u] # q
  <2> SUFFICES ASSUME NEW q \in Req, lockU[u] = q PROVE FALSE
    OBVIOUS
  <2>1. OwnLocks(q) /\ Holds(q)
    BY DEF IInv, RequestOK
  <2> QED BY <1>1, <2>1 DEF OwnLocks, Holds
<1> HIDE DEF row, new
<1>6. /\ users' \in [User -> UserRow] /\ users'[u] = row
      /\ \A v \in User : v # u => users'[v] = users[v]
      /\ OthersUsers(None) /\ LockAgrees'
  BY <1>1, <1>3, <1>5, UserUpdate
<1>7. tokens[t].kind = None /\ lockT[t] = None
  BY <1>0, <1>2 DEF NoToken, TokenRows
<1>8. /\ tokens' \in [Token -> TokenRow]
      /\ tokens'[t] = new
      /\ \A s \in Token : s # t => tokens'[s] = tokens[s]
  BY <1>0, <1>2, <1>4 DEF TypeOK
<1>9. OthersTokens(None)
  BY <1>1, <1>4, <1>7, <1>8 DEF OthersTokens
<1>10. \A k \in Kind, v \in User : \A s \in Unused(k, v)' :
         \/ s = t /\ k = "verify" /\ v = u
         \/ v # u /\ s \in Unused(k, v)
  <2>1. \A k \in Kind : Unused(k, u) = {}
    BY <1>0, <1>1 DEF Unused, TokenRows
  <2>2. \A k \in Kind, v \in User : \A s \in Unused(k, v)' :
          (s = t /\ k = "verify" /\ v = u) \/ s \in Unused(k, v)
    BY <1>4, <1>8 DEF Unused
  <2> QED BY <2>1, <2>2
<1>11. UsableIsOne'
  BY <1>0, <1>10 DEF UsableIsOne
<1>12. VerifiedIsDone'
  BY <1>0, <1>3, <1>6, <1>10 DEF VerifiedIsDone
<1>13. TypeOK'
  BY <1>0, <1>1, <1>6, <1>8 DEF TypeOK
<1>14. TokenRows'
  <2> SUFFICES ASSUME NEW s \in Token
               PROVE  /\ tokens'[s].kind = None => tokens'[s] = NoToken /\ lockT'[s] = None
                      /\ tokens'[s].kind # None =>
                           tokens'[s].user \in User /\ users'[tokens'[s].user].status # "none"
    BY DEF TokenRows, Exists
  <2>1. CASE s = t
    BY <1>3, <1>4, <1>6, <1>8, <2>1
  <2>2. CASE s # t
    BY <1>0, <1>1, <1>3, <1>6, <1>8, <2>2 DEF TokenRows, Exists
  <2> QED BY <2>1, <2>2
<1> QED BY <1>1, <1>6, <1>9, <1>11, <1>12, <1>13, <1>14, WorldStep

LEMMA SuspendStep ==
  ASSUME IInv, NEW u \in User, Suspend(u)
  PROVE  IInv'
<1> DEFINE row == [users[u] EXCEPT !.status = "suspended"]
<1>0. TypeOK /\ LockAgrees /\ TokenRows
  BY DEF IInv
<1>1. /\ \A q \in Req : lockU[u] # q
      /\ users' = [users EXCEPT ![u] = row]
      /\ UNCHANGED <<now, tokens, sess, lockU, lockT, req>>
  BY DEF Suspend
<1>2. /\ row \in UserRow /\ row.status = "suspended" /\ row.verified = users[u].verified
      /\ row.fails = users[u].fails /\ row.until = users[u].until
  <2>1. users[u] \in UserRow
    BY <1>0 DEF TypeOK
  <2> QED BY <2>1 DEF UserRow, Status
<1>3. RowAgrees(row)
  BY <1>0, <1>2 DEF RowAgrees, LockAgrees
<1> HIDE DEF row
<1>4. /\ users' \in [User -> UserRow] /\ OthersUsers(None) /\ LockAgrees' /\ VerifiedIsDone'
  <2>1. row.status # "none" /\ \A q \in Req : q # None => lockU[u] # q
    BY <1>1, <1>2
  <2>2. users' \in [User -> UserRow] /\ OthersUsers(None) /\ LockAgrees'
    BY <1>1, <1>2, <1>3, <2>1, UserUpdate
  <2>3. VerifiedIsDone'
    BY <1>1, <1>2, <1>3, <2>1, UserUpdate
  <2> QED BY <2>2, <2>3
<1>5. OthersTokens(None) /\ UsableIsOne'
  BY <1>1, TablesKept
<1>6. TypeOK'
  BY <1>0, <1>1, <1>4 DEF TypeOK
<1>7. TokenRows'
  BY <1>0, <1>1, <1>4 DEF TokenRows, OthersUsers
<1> QED BY <1>1, <1>4, <1>5, <1>6, <1>7, WorldStep

\* A step that leaves both tables and all requests alone.
LEMMA AloofStep ==
  ASSUME IInv, UNCHANGED <<users, tokens, lockU, lockT, req>>, TypeOK'
  PROVE  IInv'
<1>1. TokenRows'
  BY DEF IInv, TokenRows, Exists
<1> QED BY <1>1, TablesKept, WorldStep

-----------------------------------------------------------------------------
(* The invariant.                                                          *)

LEMMA InitIInv == Init => IInv
<1> SUFFICES ASSUME Init PROVE IInv
  OBVIOUS
<1>1. TypeOK
  BY RowTypes, IdleType DEF Init, TypeOK
<1>2. TokenRows /\ UsableIsOne /\ VerifiedIsDone
  <2>1. \A k \in Kind, u \in User : Unused(k, u) = {}
    BY DEF Init, Unused, NoToken
  <2>2. TokenRows
    BY DEF Init, TokenRows, NoToken
  <2> QED BY <2>1, <2>2 DEF UsableIsOne, VerifiedIsDone
<1>3. LockAgrees
  <2>1. \A u \in User : users[u].fails = 0 /\ users[u].status = "none"
    BY DEF Init, NoUser
  <2>2. ~(0 >= Threshold)
    OBVIOUS
  <2> QED BY <2>1, <2>2 DEF LockAgrees
<1>4. ASSUME NEW r \in Req PROVE RequestOK(r)
  <2>1. req[r] = Idle /\ req[r].pc = "idle" /\ req[r].op = "none"
    BY DEF Init, Idle, Fresh
  <2>2. (\A u \in User : lockU[u] # r) /\ (\A t \in Token : lockT[t] # r)
    BY DEF Init
  <2> QED BY <2>1, <2>2 DEF RequestOK, StepFields, OwnLocks, Holds, UpdateCovers, ReadIsCurrent
<1> QED BY <1>1, <1>2, <1>3, <1>4 DEF IInv

LEMMA StepIInv == IInv /\ [Next]_vars => IInv'
<1> SUFFICES ASSUME IInv, [Next]_vars PROVE IInv'
  OBVIOUS
<1>0. TypeOK
  BY DEF IInv
<1>1. ASSUME NEW r \in Req, Start(r) PROVE IInv'
  BY <1>1, StartSteps
<1>10. ASSUME NEW r \in Req,
             \/ req[r].pc = "token" \/ req[r].pc = "session"
             \/ req[r].pc = "user" /\ req[r].op \notin Uses
      PROVE  HoldsNothing(r)
  <2>1. OwnLocks(r)
    BY DEF IInv, RequestOK
  <2> QED BY <1>10, <2>1 DEF OwnLocks, HoldsNothing
<1>11. sess \in [SessionId -> Session]
  BY <1>0 DEF TypeOK
<1>2. ASSUME NEW r \in Req, Waiting(r) PROVE IInv'
  <2>1. CASE IssueNothing(r)
    <3>1. HoldsNothing(r)
      BY <1>10, <2>1 DEF IssueNothing
    <3> QED BY <1>11, <2>1, <3>1, EndStep DEF IssueNothing
  <2>2. CASE TokenInvalid(r)
    <3>1. HoldsNothing(r)
      BY <1>10, <2>2 DEF TokenInvalid
    <3> QED BY <1>11, <2>2, <3>1, EndStep DEF TokenInvalid
  <2> QED BY <1>2, <2>1, <2>2, LoginReadStep, IssueLockStep, UseTokenStep,
             CommitVerifyStep, ResetLockStep, VisitTokenStep DEF Waiting
<1>3. ASSUME NEW r \in Req, Running(r) PROVE IInv'
  <2>1. CASE LoginUnknown(r)
    <3>1. HoldsNothing(r)
      BY <1>10, <2>1 DEF LoginUnknown
    <3> QED BY <1>11, <2>1, <3>1, EndStep DEF LoginUnknown
  <2>2. CASE CreateSession(r)
    <3>1. HoldsNothing(r)
      BY <1>10, <2>2 DEF CreateSession
    <3>2. [user |-> req[r].user, pw |-> req[r].pw] \in Session
      BY <1>0, RequestTypes DEF Session
    <3>3. sess' \in [SessionId -> Session]
      BY <1>11, <2>2, <3>2 DEF CreateSession
    <3> QED BY <2>2, <3>1, <3>3, EndStep DEF CreateSession
  <2>3. CASE LoginRefused(r)
    BY <2>3, RollbackStep DEF LoginRefused, Rollback
  <2> QED BY <1>3, <2>1, <2>2, <2>3, LoginWrongStep, LoginAcceptedStep,
             CommitIssueStep, ResetRevokeStep, CommitResetStep DEF Running
<1>4. ASSUME NEW r \in Req, Abort(r) \/ Victim(r) PROVE IInv'
  BY <1>4, RollbackStep DEF Abort, Victim
<1>5. ASSUME NEW u \in User, Suspend(u) PROVE IInv'
  BY <1>5, SuspendStep
<1>6. ASSUME NEW u \in User, NEW p \in Password, Register(u, p) PROVE IInv'
  BY <1>6, RegisterStep
<1>7. ASSUME NEW s \in SessionId, EndSession(s) PROVE IInv'
  <2>1. sess' \in [SessionId -> Session]
    BY <1>0, <1>7, RowTypes DEF EndSession, TypeOK
  <2>2. TypeOK'
    BY <1>0, <1>7, <2>1 DEF EndSession, TypeOK
  <2> QED BY <1>7, <2>2, AloofStep DEF EndSession
<1>8. CASE Tick
  <2>1. now' \in 0..MaxTime
    BY <1>0, <1>8 DEF Tick, TypeOK
  <2>2. TypeOK'
    BY <1>0, <1>8, <2>1 DEF Tick, TypeOK
  <2> QED BY <1>8, <2>2, AloofStep DEF Tick
<1>9. CASE UNCHANGED vars
  <2>1. TypeOK'
    BY <1>0, <1>9 DEF vars, TypeOK
  <2> QED BY <1>9, <2>1, AloofStep DEF vars
<1> QED BY <1>1, <1>2, <1>3, <1>4, <1>5, <1>6, <1>7, <1>8, <1>9 DEF Next

-----------------------------------------------------------------------------
(* Action properties.                                                      *)

\* How the status of an account may change.
MayBecome(old, new) ==
  CASE new.status = "pending_verification" -> old.status = "none"
    [] new.status = "active" -> old.status = "locked" \/ (~old.verified /\ new.verified)
    [] new.status = "locked" -> new.fails >= Threshold
    [] OTHER -> new.status = "suspended"

\* Only the row of one user changes in a step, and as it may.
LEMMA StatusOfOne ==
  ASSUME IInv, NEW u \in User, NEW row,
         users' = [users EXCEPT ![u] = row],
         row.status # users[u].status => MayBecome(users[u], row)
  PROVE  \A v \in User : users[v].status # users'[v].status => MayBecome(users[v], users'[v])
<1>1. users'[u] = row /\ \A v \in User : v # u => users'[v] = users[v]
  BY DEF IInv, TypeOK
<1> QED BY <1>1

LEMMA StatusStep ==
  ASSUME IInv, [Next]_vars
  PROVE  \A u \in User : users[u].status # users'[u].status => MayBecome(users[u], users'[u])
<1> DEFINE Goal == \A u \in User :
                     users[u].status # users'[u].status => MayBecome(users[u], users'[u])
<1>0. TypeOK
  BY DEF IInv
<1>1. users' = users => Goal
  OBVIOUS
<1>2. ASSUME NEW r \in Req, LoginWrong(r) PROVE Goal
  <2> DEFINE u == req[r].user
             row == AfterWrongPassword(users[u], users[u], req[r].at)
  <2>1. /\ u \in User /\ users[u] \in UserRow /\ req[r].at \in Nat
        /\ req[r].seen = users[u]
    BY <1>2, LoginHolds DEF LoginWrong
  <2>2. users' = [users EXCEPT ![u] = row]
    BY <1>0, <1>2, <2>1 DEF LoginWrong, TypeOK
  <2>3. row = AfterWrongPassword(users[u], users[u], req[r].at)
    OBVIOUS
  <2> HIDE DEF u, row
  <2>4. row.status # users[u].status => row.status = "locked" /\ row.fails >= Threshold
    BY <2>1, <2>3, WrongPasswordRow DEF UserRow
  <2>5. row.status # users[u].status => MayBecome(users[u], row)
    BY <2>4 DEF MayBecome
  <2> QED BY <2>1, <2>2, <2>5, StatusOfOne
<1>3. ASSUME NEW r \in Req, LoginAccepted(r) PROVE Goal
  <2> DEFINE u == req[r].user
             row == [users[u] EXCEPT !.fails = 0, !.until = 0, !.status = "active"]
  <2>1. /\ u \in User /\ users[u] \in UserRow /\ req[r].seen = users[u]
        /\ users[u].status \in {"active", "locked"}
    BY <1>3, LoginHolds DEF LoginAccepted, Available
  <2>2. users' = [users EXCEPT ![u] = row] /\ row.status = "active"
    BY <1>0, <1>3, <2>1 DEF LoginAccepted, TypeOK, UserRow
  <2> HIDE DEF u, row
  <2>3. row.status # users[u].status => MayBecome(users[u], row)
    BY <2>1, <2>2 DEF MayBecome
  <2> QED BY <2>1, <2>2, <2>3, StatusOfOne
<1>4. ASSUME NEW r \in Req, CommitVerify(r) PROVE Goal
  <2> DEFINE u == req[r].user
             row == [users[u] EXCEPT !.verified = TRUE, !.status = "active"]
  <2>1. RequestOK(r) /\ VerifiedIsDone
    BY DEF IInv
  <2>2. u \in User /\ req[r].tok \in Unused("verify", u)
    BY <1>4, <2>1 DEF CommitVerify, RequestOK, StepFields, Holds, Unused
  <2>3. ~users[u].verified
    BY <2>1, <2>2 DEF VerifiedIsDone
  <2>4. users' = [users EXCEPT ![u] = row] /\ row.status = "active" /\ row.verified
    BY <1>0, <1>4, <2>2 DEF CommitVerify, TypeOK, UserRow
  <2> HIDE DEF u, row
  <2>5. MayBecome(users[u], row)
    BY <2>3, <2>4 DEF MayBecome
  <2> QED BY <2>2, <2>4, <2>5, StatusOfOne
<1>5. ASSUME NEW r \in Req, CommitReset(r) PROVE Goal
  <2> DEFINE u == req[r].user
             row == AfterReset(users[u], req[r].pw)
  <2>1. /\ u \in User /\ users[u] \in UserRow
        /\ users' = [users EXCEPT ![u] = row]
    BY <1>0, <1>5 DEF CommitReset, IInv, RequestOK, StepFields, TypeOK
  <2>2. row.status # users[u].status => row.status = "active" /\ users[u].status = "locked"
    BY <2>1 DEF AfterReset, UserRow
  <2> HIDE DEF u, row
  <2>3. row.status # users[u].status => MayBecome(users[u], row)
    BY <2>2 DEF MayBecome
  <2> QED BY <2>1, <2>3, StatusOfOne
<1>6. ASSUME NEW u \in User, Suspend(u) PROVE Goal
  <2> DEFINE row == [users[u] EXCEPT !.status = "suspended"]
  <2>1. users' = [users EXCEPT ![u] = row] /\ row.status = "suspended"
    BY <1>0, <1>6 DEF Suspend, TypeOK, UserRow
  <2> HIDE DEF row
  <2>2. MayBecome(users[u], row)
    BY <2>1 DEF MayBecome
  <2> QED BY <2>1, <2>2, StatusOfOne
<1>7. ASSUME NEW u \in User, NEW p \in Password, Register(u, p) PROVE Goal
  <2> DEFINE row == [NoUser EXCEPT !.status = "pending_verification", !.pw = p]
  <2>1. /\ users' = [users EXCEPT ![u] = row] /\ row.status = "pending_verification"
        /\ users[u].status = "none"
    BY <1>7 DEF Register, NoUser, Exists
  <2> HIDE DEF row
  <2>2. MayBecome(users[u], row)
    BY <2>1 DEF MayBecome
  <2> QED BY <2>1, <2>2, StatusOfOne
<1>8. ASSUME NEW r \in Req, Start(r) PROVE users' = users
  BY <1>8 DEF Start, StartLogin, StartIssue, StartUse, Begin
<1>9. ASSUME NEW r \in Req, Waiting(r), ~CommitVerify(r) PROVE users' = users
  BY <1>9 DEF Waiting, LoginRead, IssueNothing, IssueLock, UseToken, TokenInvalid, ResetLock,
              VisitToken
<1>10. ASSUME NEW r \in Req, Running(r), ~LoginWrong(r), ~LoginAccepted(r), ~CommitReset(r)
       PROVE  users' = users
  BY <1>10 DEF Running, LoginUnknown, LoginRefused, CreateSession, CommitIssue, ResetRevoke
<1>11. ASSUME NEW r \in Req, Abort(r) \/ Victim(r) PROVE users' = users
  BY <1>11 DEF Abort, Victim, Rollback
<1>12. ASSUME NEW s \in SessionId, EndSession(s) PROVE users' = users
  BY <1>12 DEF EndSession
<1>13. Tick \/ UNCHANGED vars => users' = users
  BY DEF Tick, vars
<1> HIDE DEF Goal
<1>14. Goal
  BY <1>1, <1>2, <1>3, <1>4, <1>5, <1>6, <1>7, <1>8, <1>9, <1>10, <1>11, <1>12, <1>13 DEF Next
<1> QED BY <1>14 DEF Goal

LEMMA JudgeStep ==
  ASSUME IInv, NEW r \in Req
  PROVE  LET row == users[req[r].user] IN
         /\ LoginWrong(r) => users'[req[r].user].fails = row.fails + 1
         /\ LoginAccepted(r) => row.pw = req[r].pw /\ row.until <= now /\ Available(row)
<1> DEFINE u == req[r].user
<1>0. TypeOK
  BY DEF IInv
<1>1. ASSUME LoginWrong(r) PROVE users'[u].fails = users[u].fails + 1
  <2> DEFINE row == AfterWrongPassword(users[u], users[u], req[r].at)
  <2>1. /\ u \in User /\ users[u] \in UserRow /\ req[r].at \in Nat
        /\ req[r].seen = users[u]
    BY <1>1, LoginHolds DEF LoginWrong
  <2>2. users'[u] = row
    BY <1>0, <1>1, <2>1 DEF LoginWrong, TypeOK
  <2>3. row = AfterWrongPassword(users[u], users[u], req[r].at)
    OBVIOUS
  <2> HIDE DEF u, row
  <2>4. row.fails = users[u].fails + 1
    BY <2>1, <2>3, WrongPasswordRow DEF UserRow
  <2> QED BY <2>2, <2>4
<1>2. ASSUME LoginAccepted(r)
      PROVE  users[u].pw = req[r].pw /\ users[u].until <= now /\ Available(users[u])
  <2>1. u \in User /\ users[u] \in UserRow /\ req[r].seen = users[u]
    BY <1>2, LoginHolds DEF LoginAccepted
  <2>2. users[u].pw = req[r].pw /\ ~(users[u].until > now) /\ Available(users[u])
    BY <1>2, <2>1 DEF LoginAccepted, LockedOut
  <2>3. users[u].until \in Nat /\ now \in Nat
    BY <1>0, <2>1 DEF TypeOK, UserRow
  <2> QED BY <2>2, <2>3
<1> QED BY <1>1, <1>2

-----------------------------------------------------------------------------
(* Deadlocks.  In a cycle of waits every request waits for another one of  *)
(* it.  Follow the waits: whoever waits for a token waits for a request    *)
(* that holds one, hence for one that waits for a user or updates tokens;  *)
(* whoever waits for a user waits for one that updates tokens; and one     *)
(* that updates tokens can only be kept waiting by the use of one of them. *)

\* A request that sends a token, and one that presents one of its kind and user.
IssueAndUse(q, r) ==
  /\ req[q].op \in Issues /\ req[r].op \in Uses
  /\ KindOf(req[q].op) = KindOf(req[r].op) /\ req[q].user = req[r].user

\* An UPDATE of tokens waits for one that is being presented, and is not itself
\* the end of a reset: that one holds the only usable token.
LEMMA UpdateWaits ==
  ASSUME IInv, NEW S \in SUBSET Req, WaitCycle(S), NEW q \in S, req[q].pc = "tokens"
  PROVE  \E p \in S : IssueAndUse(q, p)
<1>1. Blockers(q) = {lockT[t] : t \in req[q].ts}
  BY DEF Blockers
<1>2. Blockers(q) # {} /\ Blockers(q) \subseteq S \ {q}
  BY DEF WaitCycle
<1>3. PICK t \in req[q].ts : lockT[t] \in S /\ lockT[t] # q
  BY <1>1, <1>2
<1> DEFINE p == lockT[t]
<1>4. TypeOK /\ RequestOK(q) /\ RequestOK(p) /\ UsableIsOne /\ p \in Req /\ p # q /\ p \in S
  BY <1>3 DEF IInv
<1>5. t \in Token /\ req[q].user \in User
  BY <1>3, <1>4, RequestTypes DEF RequestOK, StepFields
<1>6. tokens[t].kind = KindOf(req[q].op) /\ tokens[t].user = req[q].user
  BY <1>3, <1>4 DEF RequestOK, UpdateCovers
<1>7. tokens[t].kind = KindOf(req[p].op) /\ tokens[t].user = req[p].user
  BY <1>4, <1>5 DEF RequestOK, OwnLocks
<1>8. req[p].op \in Uses /\ req[p].pc = "user" /\ t = req[p].tok
  <2>1. lockU[req[q].user] = q
    BY <1>4 DEF RequestOK, Holds
  <2>2. req[p].pc \in HoldingUser => lockU[req[p].user] = p
    BY <1>4 DEF RequestOK, Holds
  <2>3. req[p].pc \notin HoldingUser
    BY <1>4, <1>6, <1>7, <2>1, <2>2
  <2>4. \/ req[p].pc = "tokens"
        \/ req[p].op \in Uses /\ req[p].pc \in {"user", "revoke"} /\ t = req[p].tok
    BY <1>4, <1>5 DEF RequestOK, OwnLocks
  <2> QED BY <2>3, <2>4
<1>9. req[q].op \in Issues
  <2>1. SUFFICES ASSUME req[q].op = "reset" PROVE FALSE
    BY <1>4 DEF RequestOK, StepFields
  <2>2. req[q].tok \in Token /\ ~tokens[req[q].tok].used /\ lockT[req[q].tok] = q
        /\ tokens[req[q].tok].kind = "reset" /\ tokens[req[q].tok].user = req[q].user
    BY <1>4, <2>1 DEF RequestOK, StepFields, Holds
  <2>3. ~tokens[t].used
    BY <1>4, <1>8 DEF RequestOK, Holds
  <2>4. tokens[t].kind = "reset" /\ tokens[t].user = req[q].user
    BY <1>6, <2>1 DEF KindOf
  <2>5. t \in Unused("reset", req[q].user) /\ req[q].tok \in Unused("reset", req[q].user)
    BY <1>5, <2>2, <2>3, <2>4 DEF Unused
  <2>6. t = req[q].tok
    BY <1>4, <1>5, <2>5 DEF UsableIsOne
  <2> QED BY <1>4, <2>2, <2>6
<1>10. IssueAndUse(q, p)
  BY <1>6, <1>7, <1>8, <1>9 DEF IssueAndUse
<1> QED BY <1>4, <1>10

\* A user's row is waited for only while its holder updates tokens.
LEMMA UserWaits ==
  ASSUME IInv, NEW S \in SUBSET Req, WaitCycle(S), NEW r \in S, req[r].pc = "user"
  PROVE  \E q \in S : req[q].pc = "tokens"
<1> DEFINE u == req[r].user
           q == lockU[u]
<1>1. q \in S
  BY DEF WaitCycle, Blockers
<1>2. u \in User /\ q \in Req /\ OwnLocks(q) /\ TypeOK
  BY <1>1 DEF IInv, RequestOK, StepFields
<1>3. req[q].pc \in HoldingUser
  BY <1>2 DEF OwnLocks
<1>4. Blockers(q) # {}
  BY <1>1 DEF WaitCycle
<1>5. req[q].pc = "tokens"
  BY <1>3, <1>4 DEF Blockers
<1> QED BY <1>1, <1>5

\* A token is waited for while its holder wants a user or updates tokens.
LEMMA TokenWaits ==
  ASSUME IInv, NEW S \in SUBSET Req, WaitCycle(S), NEW r \in S, req[r].pc = "token"
  PROVE  \E q \in S : req[q].pc \in {"user", "tokens"}
<1> DEFINE t == req[r].tok
           q == lockT[t]
<1>1. q \in S
  BY DEF WaitCycle, Blockers
<1>2. t \in Token /\ q \in Req /\ OwnLocks(q) /\ TypeOK
  BY <1>1 DEF IInv, RequestOK, StepFields
<1>3. req[q].pc \in {"user", "revoke", "tokens"}
  BY <1>2 DEF OwnLocks
<1>4. Blockers(q) # {}
  BY <1>1 DEF WaitCycle
<1>5. req[q].pc \in {"user", "tokens"}
  BY <1>3, <1>4 DEF Blockers
<1> QED BY <1>1, <1>5

LEMMA CycleHasBoth ==
  ASSUME IInv, NEW S \in SUBSET Req, WaitCycle(S)
  PROVE  \E q, p \in S : IssueAndUse(q, p)
<1>1. PICK r \in S : Blockers(r) # {}
  BY DEF WaitCycle
<1>2. req[r].pc \in {"user", "token", "tokens"}
  BY <1>1 DEF Blockers
<1>3. PICK q \in S : req[q].pc = "tokens"
  BY <1>2, UserWaits, TokenWaits
<1> QED BY <1>3, UpdateWaits

-----------------------------------------------------------------------------
(* The theorems.                                                           *)

\* The invariant holds in every run of the service.
THEOREM Invariance == Spec => []IInv
BY InitIInv, StepIInv, PTL DEF Spec

\* Every row and every request keeps its shape: a failed login cannot leave a
\* count that is no number, nor a request a lock that names no request.
THEOREM TypeCorrect == Spec => []TypeOK
<1>1. IInv => TypeOK
  BY DEF IInv
<1> QED BY <1>1, Invariance, PTL

\* A token that a request has found good (verifyEmail, resetPassword) is good
\* and its own until it commits.
THEOREM GoodTokensStay == Spec => []TokenStaysGood
<1>1. IInv => TokenStaysGood
  BY DEF IInv, RequestOK, Holds, TokenStaysGood
<1> QED BY <1>1, Invariance, PTL

\* However resendVerification, requestReset, verifyEmail and resetPassword
\* overlap, one token of a kind is usable per user.
THEOREM OneTokenUsable == Spec => []OneUsableToken
<1>1. ASSUME IInv, NEW u \in User, NEW kind \in Kind PROVE Cardinality(Unused(kind, u)) <= 1
  <2>1. CASE Unused(kind, u) = {}
    BY <2>1, FS_EmptySet
  <2>2. CASE Unused(kind, u) # {}
    <3>1. PICK t : t \in Unused(kind, u)
      BY <2>2
    <3>2. Unused(kind, u) = {t}
      BY <1>1, <3>1 DEF IInv, UsableIsOne
    <3> QED BY <3>2, FS_Singleton
  <2> QED BY <2>1, <2>2
<1>2. IInv => OneUsableToken
  BY <1>1 DEF OneUsableToken
<1> QED BY <1>2, Invariance, PTL

\* Count, time and status of a locked account agree (login.service.ts and the
\* resets and verifications that clear what it has set).
THEOREM LocksAgree == Spec => []LockAgrees
<1>1. IInv => LockAgrees
  BY DEF IInv
<1> QED BY <1>1, Invariance, PTL

\* An account changes its status only as its owner's verification, its logins,
\* its resets or an operator make it.
THEOREM StatusFollowsTheCode == Spec => StatusChanges
<1>1. IInv /\ [Next]_vars =>
        \A u \in User :
          LET old == users[u]  new == users'[u] IN
          old.status # new.status =>
            CASE new.status = "pending_verification" -> old.status = "none"
              [] new.status = "active" -> old.status = "locked" \/ (~old.verified /\ new.verified)
              [] new.status = "locked" -> new.fails >= Threshold
              [] OTHER -> new.status = "suspended"
  BY StatusStep DEF MayBecome
<1> QED BY <1>1, Invariance, PTL DEF Spec, StatusChanges

\* A login is judged by the row as it is when it commits: the row lock that it
\* took with SELECT ... FOR UPDATE has kept it current.
THEOREM LoginsAreCurrent == Spec => LoginsJudgeCurrentRow
<1>1. IInv =>
        \A r \in Req :
          LET row == users[req[r].user] IN
          /\ LoginWrong(r) => users'[req[r].user].fails = row.fails + 1
          /\ LoginAccepted(r) => row.pw = req[r].pw /\ row.until <= now /\ Available(row)
  BY JudgeStep
<1> QED BY <1>1, Invariance, PTL DEF LoginsJudgeCurrentRow

\* The transactions that take the user first and those that take the token
\* first deadlock with each other and never among themselves.
THEOREM DeadlocksAreMixed == Spec => []DeadlockNeedsIssueAndUse
<1>1. IInv => DeadlockNeedsIssueAndUse
  BY CycleHasBoth DEF DeadlockNeedsIssueAndUse, Deadlocks, IssueAndUse
<1> QED BY <1>1, Invariance, PTL
=============================================================================
