--------------------------- MODULE SessionContract ---------------------------
(***************************************************************************)
(* What the session tables promise to the rest of the service: every       *)
(* operation is one atomic change of the rows.  SessionStore, in which an  *)
(* operation is a transaction of several statements with locks, snapshots  *)
(* and failures, implements this specification (SessionRefinement).        *)
(*                                                                         *)
(* The promise is weaker in one place than a reader of the service would   *)
(* expect: a revocation of all sessions of a user (RevokeAll) may also     *)
(* revoke tokens of sessions that it leaves active.                        *)
(***************************************************************************)
EXTENDS Naturals

CONSTANTS
  User, SessionId, TokenId,
  None,  \* SQL NULL
  Ttl    \* life of a session and of a refresh JWT

VARIABLES now, sess, tok

vars == <<now, sess, tok>>

NoSession == [status |-> "none", user |-> None, exp |-> 0]
NoToken   == [status |-> "none", sid |-> None, user |-> None, exp |-> 0,
              next |-> None, prev |-> None]

Init == /\ now = 0
        /\ sess = [s \in SessionId |-> NoSession]
        /\ tok = [t \in TokenId |-> NoToken]

-----------------------------------------------------------------------------
LiveOf(u)   == {s \in SessionId : sess[s].status = "active" /\ sess[s].user = u}
ActiveOf(u) == {t \in TokenId : tok[t].status = "active" /\ tok[t].user = u}
ActiveIn(S) == {t \in TokenId : tok[t].status = "active" /\ tok[t].sid \in S}

\* The request was accepted at some earlier moment, at.
Create(u) ==
  \E s \in SessionId, n \in TokenId, at \in 0..now :
    /\ sess[s].status = "none"
    /\ tok[n].status = "none"
    /\ sess' = [sess EXCEPT ![s] = [status |-> "active", user |-> u, exp |-> at + Ttl]]
    /\ tok' = [tok EXCEPT ![n] =
                 [status |-> "active", sid |-> s, user |-> u, exp |-> at + Ttl,
                  next |-> None, prev |-> None]]
    /\ UNCHANGED now

\* One usable token is replaced by another: neither the token nor its session
\* had expired when the request was accepted, both are active now.
Exchange(t) ==
  LET s == tok[t].sid IN
  /\ tok[t].status = "active"
  /\ sess[s].status = "active"
  /\ \E n \in TokenId, at \in 0..now :
       /\ tok[n].status = "none"
       /\ at < tok[t].exp /\ at < sess[s].exp
       /\ tok' = [tok EXCEPT ![t].status = "rotated", ![t].next = n,
                    ![n] = [status |-> "active", sid |-> s, user |-> tok[t].user,
                            exp |-> at + Ttl, next |-> None, prev |-> t]]
  /\ UNCHANGED <<now, sess>>

\* The sessions S end, and with them the tokens T.
End(S, T, how) ==
  /\ sess' = [s \in SessionId |->
       IF s \in S THEN [sess[s] EXCEPT !.status = how] ELSE sess[s]]
  /\ tok' = [t \in TokenId |->
       IF t \in T THEN [tok[t] EXCEPT !.status = IF how = "expired" THEN how ELSE "revoked"]
       ELSE tok[t]]
  /\ UNCHANGED now

Expire(s) ==
  /\ sess[s].status = "active"
  /\ sess[s].exp <= now
  /\ End({s}, ActiveIn({s}), "expired")

\* Only because one of the session's tokens has been presented that had
\* been rotated or revoked before.
Compromise(s) ==
  /\ sess[s].status = "active"
  /\ \E t \in TokenId : tok[t].sid = s /\ tok[t].status \notin {"none", "active"}
  /\ End({s}, ActiveIn({s}), "compromised")

Logout(s) ==
  /\ sess[s].status = "active"
  /\ End({s}, ActiveIn({s}), "revoked")

RevokeAll(u) ==
  \E S \in SUBSET LiveOf(u), T \in SUBSET ActiveOf(u) :
    ActiveIn(S) \subseteq T /\ End(S, T, "revoked")

Tick == now' = now + 1 /\ UNCHANGED <<sess, tok>>

Next == \/ \E u \in User : Create(u) \/ RevokeAll(u)
        \/ \E t \in TokenId : Exchange(t)
        \/ \E s \in SessionId : Expire(s) \/ Compromise(s) \/ Logout(s)
        \/ Tick

Spec == Init /\ [][Next]_vars
=============================================================================
