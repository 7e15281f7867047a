-------------------------------- MODULE Access --------------------------------
(***************************************************************************)
(* What a client of the user-management service holds and does with it:    *)
(* logins and refreshes that read the roles of the account, sign JWTs and  *)
(* only then commit (app.ts, session.routes.ts, session.service.ts), the   *)
(* requests that an access JWT authorises, the update of the profile among *)
(* them (authorization.middleware.ts, user.service.ts).                    *)
(*                                                                         *)
(* The session tables are seen through their contract, SessionContract,    *)
(* which SessionStore implements.                                          *)
(***************************************************************************)
EXTENDS Jwt

CONSTANTS
  User, SessionId, TokenId,
  Role,
  Req,     \* requests in progress at once, on all replicas
  Text,    \* what a field of a profile may hold
  Absent,  \* a field that a request leaves out
  Inputs,  \* updates of profiles that are sent
  MaxTime  \* bound of the clock

Profile == [display : Text \cup {None}, bio : Text \cup {None}]

Update == [display : Text \cup {None, Absent}, bio : Text \cup {None, Absent}]

NoUpdate == [display |-> Absent, bio |-> Absent]

ASSUME AccessAssumption ==
  /\ {Ttl, AccessTtl} \subseteq Nat \ {0} /\ MaxTime \in Nat
  /\ None \notin User \cup SessionId \cup TokenId \cup Text
  /\ Absent \notin Text \cup {None}
  /\ Inputs \subseteq Update \ {NoUpdate}  \* updateSchema wants a field

VARIABLES
  now, sess, tok,  \* the session tables
  ended,           \* when each session ended (history)
  roles,           \* compound.user_roles
  profile,         \* display_name and a column of user_profiles, as committed
  issued,          \* the access JWTs in the hands of clients
  req              \* what each request is doing

vars == <<now, sess, tok, ended, roles, profile, issued, req>>

Store == INSTANCE SessionContract
           WITH User <- User, SessionId <- SessionId, TokenId <- TokenId,
                None <- None, Ttl <- Ttl, now <- now, sess <- sess, tok <- tok

-----------------------------------------------------------------------------
\* roles, at: as read, and when it signed.  held: the sets of roles that the
\* account has had since the request began (history).
Request ==
  [pc : {"idle",
         "roles", "sign", "commit",        \* login and refresh
         "users", "profiles", "written"},  \* profile update, statement by statement
   user : User \cup {None}, tid : TokenId \cup {None}, roles : SUBSET Role,
   at : Nat, held : SUBSET SUBSET Role, update : Inputs \cup {NoUpdate}]

Fresh(pc, u, t, held, update) ==
  [pc |-> pc, user |-> u, tid |-> t, roles |-> {}, at |-> 0, held |-> held,
   update |-> update]

Idle == Fresh("idle", None, None, {}, NoUpdate)

TypeOK == /\ ended \in [SessionId -> 0..MaxTime]
          /\ roles \in [User -> SUBSET Role]
          /\ profile \in [User -> Profile]
          /\ \A j \in issued : j \in {SignAccess(j.sub, j.sid, j.roles, j.iat)}
          /\ req \in [Req -> Request]

Init == /\ Store!Init
        /\ ended = [s \in SessionId |-> 0]
        /\ roles = [u \in User |-> {}]
        /\ profile = [u \in User |-> [display |-> None, bio |-> None]]
        /\ issued = {}
        /\ req = [r \in Req |-> Idle]

\* Every refresh JWT that was ever handed out, and the access JWTs.
RefreshJwt(t) == SignRefresh(tok[t].user, tok[t].sid, t, tok[t].exp - Ttl)

Wallet == issued \cup {RefreshJwt(t) : t \in {t \in TokenId : tok[t].status # "none"}}

Remembered ==
  ended' = [s \in SessionId |-> IF sess[s].status = "active" /\ sess'[s].status # "active"
                                THEN now ELSE ended[s]]

Unsaved == UNCHANGED <<now, sess, tok, ended>>

-----------------------------------------------------------------------------
(* Login and refresh.                                                      *)

\* The password has been accepted.
StartLogin(r, u) ==
  /\ req[r] = Idle
  /\ req' = [req EXCEPT ![r] = Fresh("roles", u, None, {roles[u]}, NoUpdate)]
  /\ Unsaved /\ UNCHANGED <<roles, profile, issued>>

StartRefresh(r, j) ==
  /\ req[r] = Idle
  /\ VerifyRefresh(j, now) = "ok"
  /\ req' = [req EXCEPT ![r] = Fresh("roles", j.sub, j.jti, {roles[j.sub]}, NoUpdate)]
  /\ Unsaved /\ UNCHANGED <<roles, profile, issued>>

\* Mutant: the roles are taken over from an access JWT of the user.
CarryRoles(r) ==
  /\ req[r].pc = "roles"
  /\ \E set \in {j.roles : j \in issued} \cup {roles[req[r].user]} :
       req' = [req EXCEPT ![r].pc = "sign", ![r].roles = set]
  /\ Unsaved /\ UNCHANGED <<roles, profile, issued>>

\* The SELECT in the login, or resolveRoles.
ReadRoles(r) ==
  /\ req[r].pc = "roles"
  /\ req' = [req EXCEPT ![r].pc = "sign", ![r].roles = roles[req[r].user]]
  /\ Unsaved /\ UNCHANGED <<roles, profile, issued>>

\* createSession and rotateRefreshToken take the time and sign before they
\* commit; the latter verifies the refresh JWT a second time.
Sign(r) ==
  /\ req[r].pc = "sign"
  /\ req[r].tid # None => VerifyRefresh(RefreshJwt(req[r].tid), now) = "ok"
  /\ req' = [req EXCEPT ![r].pc = "commit", ![r].at = now]
  /\ Unsaved /\ UNCHANGED <<roles, profile, issued>>

HandOut(r, s) ==
  /\ issued' = issued \cup {SignAccess(req[r].user, s, req[r].roles, req[r].at)}
  /\ req' = [req EXCEPT ![r] = Idle]

\* The new session is the one whose life begins when the request signed.
CommitLogin(r) ==
  /\ req[r].pc = "commit" /\ req[r].tid = None
  /\ Store!Create(req[r].user)
  /\ \E s \in SessionId : /\ sess[s].status = "none" /\ sess'[s].status = "active"
                          /\ sess'[s].exp = req[r].at + Ttl
                          /\ HandOut(r, s)
  /\ Remembered /\ UNCHANGED <<roles, profile>>

CommitRefresh(r) ==
  /\ req[r].pc = "commit" /\ req[r].tid # None
  /\ Store!Exchange(req[r].tid)
  /\ \E n \in TokenId : /\ tok[n].status = "none" /\ tok'[n].status = "active"
                        /\ tok'[n].exp = req[r].at + Ttl
  /\ HandOut(r, tok[req[r].tid].sid)
  /\ Remembered /\ UNCHANGED <<roles, profile>>

\* Mutant: the access JWT is handed out although the rotation was refused.
RefusedAnyway(r) ==
  /\ req[r].pc = "commit" /\ req[r].tid # None
  /\ \/ Store!Expire(tok[req[r].tid].sid)
     \/ Store!Compromise(tok[req[r].tid].sid)
     \/ UNCHANGED <<now, sess, tok>>
  /\ HandOut(r, tok[req[r].tid].sid)
  /\ Remembered /\ UNCHANGED <<roles, profile>>

\* The rotation is refused: the session may be expired or compromised by that.
Refused(r) ==
  /\ req[r].pc = "commit" /\ req[r].tid # None
  /\ \/ Store!Expire(tok[req[r].tid].sid)
     \/ Store!Compromise(tok[req[r].tid].sid)
     \/ UNCHANGED <<now, sess, tok>>
  /\ req' = [req EXCEPT ![r] = Idle]
  /\ Remembered /\ UNCHANGED <<roles, profile, issued>>

-----------------------------------------------------------------------------
(* Logouts.                                                                *)

Logout(j) ==
  /\ VerifyRefresh(j, now) = "ok"
  /\ Store!Logout(j.sid)
  /\ Remembered /\ UNCHANGED <<roles, profile, issued, req>>

LogoutAll(j) ==
  /\ VerifyAccess(j, now) = "ok"
  /\ Store!RevokeAll(j.sub)
  /\ Remembered /\ UNCHANGED <<roles, profile, issued, req>>

-----------------------------------------------------------------------------
(* PATCH /users/me: one transaction, the row of users before the row of    *)
(* user_profiles.                                                          *)

\* authenticate() and updateSchema.
StartPatch(r, j, in) ==
  /\ req[r] = Idle
  /\ VerifyAccess(j, now) = "ok"
  /\ req' = [req EXCEPT ![r] =
       Fresh(IF in.display = Absent THEN "profiles" ELSE "users", j.sub, None, {}, in)]
  /\ Unsaved /\ UNCHANGED <<roles, profile, issued>>

HoldsUsers(q)    == req[q].pc \in {"profiles", "written"} /\ req[q].update.display # Absent
HoldsProfiles(q) == req[q].pc = "written"

\* Mutant: the first statement goes to the pool, outside the transaction.
WriteUsersAtOnce(r) ==
  /\ req[r].pc = "users"
  /\ req' = [req EXCEPT ![r].pc = "profiles"]
  /\ profile' = [profile EXCEPT ![req[r].user].display = req[r].update.display]
  /\ Unsaved /\ UNCHANGED <<roles, issued>>

\* UPDATE compound.users, only if displayName is given.
WriteUsers(r) ==
  /\ req[r].pc = "users"
  /\ \A q \in Req : HoldsUsers(q) => req[q].user # req[r].user
  /\ req' = [req EXCEPT ![r].pc = "profiles"]
  /\ Unsaved /\ UNCHANGED <<roles, profile, issued>>

\* INSERT ... ON CONFLICT DO UPDATE.
WriteProfiles(r) ==
  /\ req[r].pc = "profiles"
  /\ \A q \in Req : HoldsProfiles(q) => req[q].user # req[r].user
  /\ req' = [req EXCEPT ![r].pc = "written"]
  /\ Unsaved /\ UNCHANGED <<roles, profile, issued>>

\* Mutant: a display name that is left out is written all the same.
MergedUndefined(p, in) ==
  [display |-> in.display, bio |-> IF in.bio \in Text THEN in.bio ELSE p.bio]

\* NULL clears the display name; COALESCE keeps every other field that is NULL.
Merged(p, in) ==
  [display |-> IF in.display = Absent THEN p.display ELSE in.display,
   bio |-> IF in.bio \in Text THEN in.bio ELSE p.bio]

CommitPatch(r) ==
  /\ req[r].pc = "written"
  /\ profile' = [profile EXCEPT ![req[r].user] = Merged(@, req[r].update)]
  /\ req' = [req EXCEPT ![r] = Idle]
  /\ Unsaved /\ UNCHANGED <<roles, issued>>

-----------------------------------------------------------------------------
\* A query fails, or the replica stops.
Abort(r) ==
  /\ req[r] # Idle
  /\ req' = [req EXCEPT ![r] = Idle]
  /\ Unsaved /\ UNCHANGED <<roles, profile, issued>>

\* An administrator gives a role or takes it away.
ChangeRoles(u) ==
  /\ \E x \in Role :
       roles' = [roles EXCEPT ![u] = IF x \in @ THEN @ \ {x} ELSE @ \cup {x}]
  /\ req' = [r \in Req |-> IF req[r].pc \in {"roles", "sign", "commit"} /\ req[r].user = u
                           THEN [req[r] EXCEPT !.held = @ \cup {roles'[u]}] ELSE req[r]]
  /\ Unsaved /\ UNCHANGED <<profile, issued>>

\* A password reset.
Reset(u) == /\ Store!RevokeAll(u)
            /\ Remembered /\ UNCHANGED <<roles, profile, issued, req>>

\* JWTs that have expired are forgotten: nothing accepts them any more.
Tick == /\ now < MaxTime
        /\ Store!Tick
        /\ issued' = {j \in issued : now' < j.exp}
        /\ UNCHANGED <<ended, roles, profile, req>>

Next ==
  \/ \E r \in Req : \/ \E u \in User : StartLogin(r, u)
                    \/ \E j \in Wallet : \/ StartRefresh(r, j)
                                         \/ \E in \in Inputs : StartPatch(r, j, in)
                    \/ ReadRoles(r) \/ Sign(r)
                    \/ CommitLogin(r) \/ CommitRefresh(r) \/ Refused(r)
                    \/ WriteUsers(r) \/ WriteProfiles(r) \/ CommitPatch(r)
                    \/ Abort(r)
  \/ \E j \in Wallet : Logout(j) \/ LogoutAll(j)
  \/ \E u \in User : ChangeRoles(u) \/ Reset(u)
  \/ Tick

Spec == Init /\ [][Next]_vars

-----------------------------------------------------------------------------
(* Properties.                                                             *)

\* The roles in an access JWT are those the account had at some moment of the
\* very request that issued it, however roles change and requests overlap: a
\* refresh never brings back a role from the life of an earlier token.
RolesHeldMeanwhile ==
  [][\A j \in issued' \ issued :
       \E r \in Req : /\ req[r].pc = "commit" /\ req[r].user = j.sub
                      /\ j.roles \in req[r].held]_vars

EndOf(s) == IF sess[s].status = "active" \/ sess[s].exp < ended[s] THEN sess[s].exp
            ELSE ended[s]

\* A session that has been revoked or has expired is forgotten soon: whatever
\* JWT still passes for an access JWT, its session ended less than the life of
\* an access JWT ago, also when signing and revocation overlap and when the two
\* secrets are the same.
AccessEndsSoon ==
  \A j \in Wallet : VerifyAccess(j, now) = "ok" => now < EndOf(j.sid) + AccessTtl

\* An update of a profile is all or nothing, and a field that it does not name
\* keeps what overlapping updates have written.
UpdateWhole ==
  [][\A u \in User : profile'[u] # profile[u] =>
       \E r \in Req : /\ req[r].user = u /\ req'[r] = Idle
                      /\ profile'[u] = Merged(profile[u], req[r].update)]_vars
=============================================================================
