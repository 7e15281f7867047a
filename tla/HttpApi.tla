------------------------------- MODULE HttpApi -------------------------------
(***************************************************************************)
(* The HTTP interface of the user-management service: in which order       *)
(* app.ts mounts rate limiters and routers, how a limiter counts           *)
(* (rate-limit.middleware.ts), and which requests the routers may refuse   *)
(* before any query.                                                       *)
(***************************************************************************)
EXTENDS Naturals, Sequences, FiniteSetsExt

CONSTANT Quota  \* requests a limiter lets through in one window

Limit == {"auth", "login", "recovery"}

ASSUME QuotaAssumption == Quota \in [Limit -> Nat \ {0}]

-----------------------------------------------------------------------------
RegistrationApi == {"register", "verify-email", "resend-verification"}
SessionApi      == {"refresh", "logout", "logout-all"}
LoginApi        == {"login"}
RecoveryApi     == {"forgot-password", "reset-password"}
UserApi         == {"get-me", "patch-me", "users-other"}
ScaffoldApi     == {"health", "ready", "metrics", "ping"}
OpsApi          == ScaffoldApi \cup {"openapi"}
UnderAuth       == RegistrationApi \cup SessionApi \cup LoginApi \cup RecoveryApi
                     \cup {"auth-other"}

\* The requests the service tells apart; the "other" ones match no route.
Endpoint == UnderAuth \cup UserApi \cup OpsApi \cup {"other"}

Limiter(l, S) == [limit |-> l, paths |-> S]
Router(S)     == [limit |-> "none", paths |-> S]

\* Mutant: the routers come first, the limiters of their paths after them.
MountsRoutersFirst == <<
  Limiter("auth", UnderAuth),
  Router(RegistrationApi), Router(UserApi), Router(SessionApi),
  Router(LoginApi), Router(RecoveryApi),
  Limiter("login", LoginApi), Limiter("recovery", RecoveryApi),
  Router(OpsApi), Router(Endpoint) >>

\* The app.use calls in their order; the last router is notFoundHandler.
Mounts == <<
  Limiter("auth", UnderAuth),
  Router(RegistrationApi), Router(UserApi), Router(SessionApi),
  Limiter("login", LoginApi), Limiter("recovery", RecoveryApi),
  Router(LoginApi), Router(RecoveryApi), Router(OpsApi), Router(Endpoint) >>

\* The router that answers e, and the limiters before it.
Handler(e) == Min({i \in DOMAIN Mounts : Mounts[i].limit = "none" /\ e \in Mounts[i].paths})

Limits == [e \in Endpoint |->
  {i \in 1..Handler(e) : Mounts[i].limit # "none" /\ e \in Mounts[i].paths}]

\* The limiters that refuse e, given the requests counted in their windows.
Refusing(e, hits) == {i \in Limits[e] : hits[Mounts[i].limit] >= Quota[Mounts[i].limit]}

\* A request counts for every limiter up to the first that refuses it.  The
\* counts stop at Quota, above which nothing changes.
Counted(e, hits) ==
  {Mounts[i].limit : i \in {i \in Limits[e] : \A j \in Refusing(e, hits) : i < j}}

Count(e, hits) ==
  [l \in Limit |-> IF l \in Counted(e, hits) THEN hits[l] + 1 ELSE hits[l]]

\* Requests that a router may refuse before its service makes any query: the
\* schema of the body, the JWT, or the password policy comes first.
SchemaFirst == RegistrationApi \cup LoginApi \cup RecoveryApi \cup {"refresh", "logout", "patch-me"}
TokenFirst  == SessionApi \cup UserApi
PolicyFirst == {"register", "reset-password"}

RefusedEarly(e) == e \in SchemaFirst \cup TokenFirst \cup PolicyFirst
=============================================================================
