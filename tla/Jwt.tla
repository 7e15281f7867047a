---------------------------------- MODULE Jwt ----------------------------------
(***************************************************************************)
(* The access and refresh JWTs of the user-management service: what        *)
(* JwtService signs and what it accepts (jwt.service.ts).  A JWT is the    *)
(* record of its claims and the secret that signed it; issuer, audience    *)
(* and algorithm are the same for all.                                     *)
(***************************************************************************)
EXTENDS Naturals

CONSTANTS
  AccessKey, RefreshKey,  \* the two secrets; nothing keeps them different
  Ttl,                    \* JWT_REFRESH_EXPIRES_DAYS
  AccessTtl,              \* JWT_ACCESS_EXPIRES_IN
  None                    \* a claim that is absent

\* Roles are a set: normalizeRoles and signAccessToken drop duplicates.
SignAccess(u, s, roles, at) ==
  [key |-> AccessKey, use |-> "access", sub |-> u, sid |-> s, jti |-> None,
   roles |-> roles, iat |-> at, exp |-> at + AccessTtl]

SignRefresh(u, s, t, at) ==
  [key |-> RefreshKey, use |-> "refresh", sub |-> u, sid |-> s, jti |-> t,
   roles |-> {}, iat |-> at, exp |-> at + Ttl]

\* The code of the JwtTokenError that verify throws, or "ok".
Signed(j, key, now) == CASE j.key # key -> "TOKEN_INVALID"
                         [] now >= j.exp -> "TOKEN_EXPIRED"
                         [] OTHER -> "ok"

\* The claims of one that verify accepts are there.
Claims(set) == IF None \in set THEN "TOKEN_CLAIMS_INVALID" ELSE "ok"

VerifyAccess(j, now) ==
  LET signed == Signed(j, AccessKey, now)
  IN IF signed # "ok" THEN signed
     ELSE IF j.use # "access" THEN "TOKEN_TYPE_INVALID"
     ELSE Claims({j.sub, j.sid})

VerifyRefresh(j, now) ==
  LET signed == Signed(j, RefreshKey, now)
  IN IF signed # "ok" THEN signed
     ELSE IF j.use # "refresh" THEN "TOKEN_TYPE_INVALID"
     ELSE Claims({j.sub, j.sid, j.jti})
=============================================================================
