--------------------------- MODULE ReplicaProofs ---------------------------
(***************************************************************************)
(* The safety of Replica, for every number of connections, every size of   *)
(* the pool and every quota of the limiters.                               *)
(*                                                                         *)
(* That the limiters limit what they are meant for is a fact about the     *)
(* order of app.ts (GuardCounts): each of the two narrow limiters comes    *)
(* before the router that answers its requests, so that every request      *)
(* which runs a handler has been counted.  The invariant is then that no   *)
(* more ran in a window than were counted.                                 *)
(***************************************************************************)
EXTENDS Replica, TLAPS

\* What ran was counted.
RanWasCounted == \A l \in DOMAIN Guarded : ran[l] <= hits[l]

IInv == /\ TypeOK
        /\ RanWasCounted
        /\ ServedBeforeClosed

-----------------------------------------------------------------------------
(* The limiters.                                                           *)

LEMMA GuardedTypes ==
  /\ DOMAIN Guarded = {"login", "recovery"}
  /\ Guarded["login"] = LoginApi /\ Guarded["recovery"] = RecoveryApi
  /\ DOMAIN Guarded \subseteq Limit
BY DEF Guarded, Limit

LEMMA MinIs ==
  ASSUME NEW S \in SUBSET Nat, NEW x \in S, \A y \in S : x <= y
  PROVE  Min(S) = x
<1>1. Min(S) \in S /\ \A y \in S : Min(S) <= y
  BY DEF Min
<1>2. Min(S) \in Nat /\ x \in Nat /\ Min(S) <= x /\ x <= Min(S)
  BY <1>1
<1> QED BY <1>2

\* The app.use calls that come before the router of a login and of a recovery.
LEMMA HandlerOf ==
  /\ Handler("login") = 7
  /\ \A e \in RecoveryApi : Handler(e) = 8
<1>1. Handler("login") = 7
  <2> DEFINE S == {i \in DOMAIN Mounts : Mounts[i].limit = "none" /\ "login" \in Mounts[i].paths}
  <2>1. S \subseteq Nat /\ 7 \in S /\ \A i \in S : 7 <= i
    BY DEF Mounts, Router, Limiter, LoginApi, RegistrationApi, UserApi, SessionApi
  <2>2. Min(S) = 7
    BY <2>1, MinIs
  <2> QED BY <2>2 DEF Handler
<1>2. ASSUME NEW e \in RecoveryApi PROVE Handler(e) = 8
  <2> DEFINE S == {i \in DOMAIN Mounts : Mounts[i].limit = "none" /\ e \in Mounts[i].paths}
  <2>1. S \subseteq Nat /\ 8 \in S /\ \A i \in S : 8 <= i
    BY DEF Mounts, Router, Limiter, LoginApi, RegistrationApi, UserApi, SessionApi, RecoveryApi
  <2>2. Min(S) = 8
    BY <2>1, MinIs
  <2> QED BY <2>2 DEF Handler
<1> QED BY <1>1, <1>2

\* Every request for a login or a recovery passes the limiter meant for it.
LEMMA GuardCounts ==
  ASSUME NEW l \in DOMAIN Guarded, NEW e \in Guarded[l]
  PROVE  e \in Endpoint /\ \E i \in Limits[e] : Mounts[i].limit = l
<1>1. CASE l = "login"
  <2>1. e = "login" /\ e \in Endpoint /\ Handler(e) = 7
    BY <1>1, GuardedTypes, HandlerOf DEF LoginApi, Endpoint, UnderAuth
  <2>2. 5 \in 1..7 /\ Mounts[5].limit = "login" /\ "login" \in Mounts[5].paths
    BY DEF Mounts, Limiter, LoginApi
  <2> QED BY <1>1, <2>1, <2>2 DEF Limits
<1>2. CASE l = "recovery"
  <2>1. e \in RecoveryApi /\ e \in Endpoint /\ Handler(e) = 8
    BY <1>2, GuardedTypes, HandlerOf DEF Endpoint, UnderAuth
  <2>2. 6 \in 1..8 /\ Mounts[6].limit = "recovery" /\ Mounts[6].paths = RecoveryApi
    BY DEF Mounts, Limiter
  <2>3. Mounts[6].limit # "none"
    BY <2>2
  <2> QED BY <1>2, <2>1, <2>2, <2>3 DEF Limits
<1> QED BY <1>1, <1>2, GuardedTypes

\* A count stays within its quota, and goes up by the requests let through.
LEMMA CountIs ==
  ASSUME NEW h \in [Limit -> Nat], \A l \in Limit : h[l] <= Quota[l], NEW e \in Endpoint
  PROVE  /\ Count(e, h) \in [Limit -> Nat]
         /\ \A l \in Limit : h[l] <= Count(e, h)[l] /\ Count(e, h)[l] <= Quota[l]
         /\ Refusing(e, h) = {} =>
              \A i \in Limits[e] : Mounts[i].limit \in Limit =>
                Count(e, h)[Mounts[i].limit] = h[Mounts[i].limit] + 1
<1>1. ASSUME NEW l \in Limit, l \in Counted(e, h) PROVE h[l] + 1 <= Quota[l]
  <2>1. PICK i \in Limits[e] : l = Mounts[i].limit /\ \A j \in Refusing(e, h) : i < j
    BY <1>1 DEF Counted
  <2>2. i \in Nat
    BY <2>1 DEF Limits
  <2>3. i \notin Refusing(e, h)
    BY <2>1, <2>2
  <2>4. ~(h[l] >= Quota[l])
    BY <2>1, <2>3 DEF Refusing
  <2> QED BY <2>4, QuotaAssumption
<1>2. ASSUME Refusing(e, h) = {}, NEW i \in Limits[e] PROVE Mounts[i].limit \in Counted(e, h)
  BY <1>2 DEF Counted
<1> QED BY <1>1, <1>2 DEF Count

-----------------------------------------------------------------------------
(* The invariant.                                                          *)

\* A connection stays one when its request goes on or is abandoned.
LEMMA ConnectionTypes ==
  /\ Closed \in Connection /\ [Closed EXCEPT !.pc = "kept"] \in Connection
  /\ \A n \in 0..3 : [pc |-> "waiting", left |-> n, gone |-> FALSE] \in Connection
  /\ \A x \in Connection :
       /\ [x EXCEPT !.pc = "holding"] \in Connection
       /\ [x EXCEPT !.gone = TRUE] \in Connection
       /\ x.left > 1 => [x EXCEPT !.pc = "waiting", !.left = @ - 1] \in Connection
<1>1. Closed \in Connection /\ [Closed EXCEPT !.pc = "kept"] \in Connection
  <2>1. Closed \in Connection
    BY DEF Closed, Connection
  <2>2. [Closed EXCEPT !.pc = "kept"] \in Connection
    BY <2>1 DEF Connection
  <2> QED BY <2>1, <2>2
<1>2. \A n \in 0..3 : [pc |-> "waiting", left |-> n, gone |-> FALSE] \in Connection
  BY DEF Connection
<1>3. ASSUME NEW x \in Connection
      PROVE  /\ [x EXCEPT !.pc = "holding"] \in Connection
             /\ [x EXCEPT !.gone = TRUE] \in Connection
  BY DEF Connection
<1>4. ASSUME NEW x \in Connection, x.left > 1
      PROVE  [x EXCEPT !.pc = "waiting", !.left = @ - 1] \in Connection
  <2> DEFINE y == [x EXCEPT !.pc = "waiting"]
             new == [y EXCEPT !.left = y.left - 1]
  <2>1. y \in Connection /\ y.left = x.left /\ x.left - 1 \in 0..3
    BY <1>4 DEF Connection
  <2>2. new = [x EXCEPT !.pc = "waiting", !.left = @ - 1]
    BY DEF Connection
  <2> HIDE DEF y
  <2>3. new \in Connection
    BY <2>1 DEF Connection
  <2> QED BY <2>2, <2>3
<1> QED BY <1>1, <1>2, <1>3, <1>4

LEMMA UsesTypes ==
  ASSUME NEW e
  PROVE  Uses(e) \in 0..3
<1>1. Uses(e) \in {0, 1, 2, 3}
  BY Zenon DEF Uses
<1> QED BY <1>1

LEMMA ZeroTypes ==
  /\ Zero(Limit) \in [Limit -> Nat] /\ \A l \in Limit : Zero(Limit)[l] = 0
  /\ Zero(DOMAIN Guarded) \in [DOMAIN Guarded -> Nat]
  /\ \A l \in DOMAIN Guarded : Zero(DOMAIN Guarded)[l] = 0
BY DEF Zero

LEMMA InitIInv == Init => IInv
<1> SUFFICES ASSUME Init PROVE IInv
  OBVIOUS
<1>1. \A l \in Limit : hits[l] = 0 /\ hits[l] <= Quota[l]
  BY ZeroTypes, QuotaAssumption DEF Init
<1>2. TypeOK
  BY <1>1, ZeroTypes, ConnectionTypes DEF Init, TypeOK, Phase
<1>3. RanWasCounted
  BY <1>1, GuardedTypes, ZeroTypes DEF Init, RanWasCounted
<1>4. ServedBeforeClosed
  BY DEF Init, ServedBeforeClosed, InFlight, Closed
<1> QED BY <1>2, <1>3, <1>4 DEF IInv

\* The end of the process.
LEMMA StopStep ==
  ASSUME IInv, Stop
  PROVE  IInv'
<1>1. \A l \in Limit : hits'[l] = 0 /\ hits'[l] <= Quota[l]
  BY ZeroTypes, QuotaAssumption DEF Stop
<1>2. TypeOK'
  BY <1>1, ZeroTypes, ConnectionTypes DEF Stop, IInv, TypeOK, Phase
<1>3. RanWasCounted'
  BY <1>1, GuardedTypes, ZeroTypes DEF Stop, RanWasCounted
<1>4. ServedBeforeClosed'
  BY DEF Stop, ServedBeforeClosed, InFlight, Closed
<1> QED BY <1>2, <1>3, <1>4 DEF IInv

\* A step that leaves the limiters alone.
LEMMA Uncounted ==
  ASSUME IInv, UNCHANGED <<hits, ran>>, TypeOK', ServedBeforeClosed'
  PROVE  IInv'
BY DEF IInv, RanWasCounted

\* A step of the process or the worker.
LEMMA ProcessStep ==
  ASSUME IInv,
         \/ Start \/ Listen \/ Signal \/ Drained \/ TimedOut
         \/ Poll \/ WorkerAcquires \/ WorkerGoesOn
  PROVE  IInv'
<1>1. ASSUME Start \/ Listen PROVE IInv'
  <2>1. /\ phase \in {"off", "connecting"} /\ phase' \in {"connecting", "serving"}
        /\ worker' \in {worker, "want", "off"}
        /\ UNCHANGED <<service, again, conn, hits, ran>>
    BY <1>1 DEF Start, Listen
  <2>2. TypeOK' /\ ServedBeforeClosed'
    BY <2>1 DEF IInv, TypeOK, Phase, ServedBeforeClosed, InFlight
  <2> QED BY <2>1, <2>2, Uncounted
<1>2. ASSUME Signal PROVE IInv'
  <2>1. TypeOK' /\ ServedBeforeClosed'
    BY <1>2 DEF Signal, IInv, TypeOK, Phase, ServedBeforeClosed, InFlight
  <2> QED BY <1>2, <2>1, Uncounted DEF Signal
<1>3. ASSUME Drained PROVE IInv'
  <2>1. TypeOK' /\ ServedBeforeClosed'
    BY <1>3 DEF Drained, IInv, TypeOK, Phase, ServedBeforeClosed, InFlight
  <2> QED BY <1>3, <2>1, Uncounted DEF Drained
<1>4. ASSUME TimedOut PROVE IInv'
  <2>1. TypeOK' /\ ServedBeforeClosed'
    BY <1>4 DEF TimedOut, IInv, TypeOK, Phase, ServedBeforeClosed, InFlight
  <2> QED BY <1>4, <2>1, Uncounted DEF TimedOut
<1>5. ASSUME Poll \/ WorkerAcquires \/ WorkerGoesOn PROVE IInv'
  <2>1. /\ worker' \in {"want", "claim", "update", "send", "mark", "idle"}
        /\ UNCHANGED <<service, phase, again, conn, hits, ran>>
    BY <1>5 DEF Poll, WorkerAcquires, WorkerGoesOn, Step
  <2>2. TypeOK' /\ ServedBeforeClosed'
    BY <2>1 DEF IInv, TypeOK, ServedBeforeClosed, InFlight
  <2> QED BY <2>1, <2>2, Uncounted
<1> QED BY <1>1, <1>2, <1>3, <1>4, <1>5

\* A connection changes, and is in flight for a client who is still there only
\* if it was or the pool is open.
LEMMA ConnectionStep ==
  ASSUME IInv, NEW c \in Conn, NEW new \in Connection,
         conn' = [conn EXCEPT ![c] = new],
         UNCHANGED <<service, phase, again, worker, hits, ran>>,
         new.pc \in {"waiting", "holding"} /\ ~new.gone => InFlight(c) /\ ~conn[c].gone
  PROVE  IInv'
<1>1. TypeOK'
  BY DEF IInv, TypeOK
<1>2. conn'[c] = new /\ \A d \in Conn : d # c => conn'[d] = conn[d]
  BY DEF IInv, TypeOK
<1>3. ServedBeforeClosed'
  BY <1>2 DEF IInv, ServedBeforeClosed, InFlight
<1> QED BY <1>1, <1>3, Uncounted

LEMMA RequestStep ==
  ASSUME IInv, NEW c \in Conn,
         \/ Acquire(c) \/ GoOn(c) \/ Answer(c) \/ TooLate(c)
         \/ Cancelled(c) \/ Abandon(c) \/ HangUp(c)
  PROVE  IInv'
<1>0. conn[c] \in Connection /\ conn \in [Conn -> Connection]
  BY DEF IInv, TypeOK
<1>1. ASSUME Acquire(c) PROVE IInv'
  <2> DEFINE new == [conn[c] EXCEPT !.pc = "holding"]
  <2>1. new \in Connection /\ conn' = [conn EXCEPT ![c] = new] /\ new.gone = conn[c].gone
    BY <1>0, <1>1, ConnectionTypes DEF Acquire, Connection
  <2>2. InFlight(c)
    BY <1>1 DEF Acquire, InFlight
  <2> HIDE DEF new
  <2> QED BY <1>1, <2>1, <2>2, ConnectionStep DEF Acquire
<1>2. ASSUME GoOn(c) PROVE IInv'
  <2> DEFINE new == [conn[c] EXCEPT !.pc = "waiting", !.left = @ - 1]
  <2>1. new \in Connection
    BY <1>0, <1>2, ConnectionTypes DEF GoOn
  <2>2. conn' = [conn EXCEPT ![c] = new]
    BY <1>0, <1>2 DEF GoOn
  <2>3. new.gone = conn[c].gone
    BY <1>0 DEF Connection
  <2>4. InFlight(c)
    BY <1>2 DEF GoOn, InFlight
  <2> HIDE DEF new
  <2> QED BY <1>2, <2>1, <2>2, <2>3, <2>4, ConnectionStep DEF GoOn
<1>3. ASSUME Answer(c) PROVE IInv'
  <2>1. Answered(c) \in Connection /\ Answered(c).pc \in {"kept", "closed"}
    BY ConnectionTypes DEF Answered, Closed
  <2> QED BY <1>3, <2>1, ConnectionStep DEF Answer
<1>4. ASSUME TooLate(c) \/ Cancelled(c) \/ HangUp(c) PROVE IInv'
  <2>1. /\ conn' = [conn EXCEPT ![c] = Closed] /\ Closed.pc = "closed"
        /\ UNCHANGED <<service, phase, again, worker, hits, ran>>
    BY <1>4 DEF TooLate, Cancelled, HangUp, Closed
  <2> QED BY <2>1, ConnectionTypes, ConnectionStep
<1>5. ASSUME Abandon(c) PROVE IInv'
  <2> DEFINE new == [conn[c] EXCEPT !.gone = TRUE]
  <2>1. new \in Connection /\ conn' = [conn EXCEPT ![c] = new] /\ new.gone
    BY <1>0, <1>5, ConnectionTypes DEF Abandon, Connection
  <2> HIDE DEF new
  <2> QED BY <1>5, <2>1, ConnectionStep DEF Abandon
<1> QED BY <1>1, <1>2, <1>3, <1>4, <1>5

\* A request is counted before it runs.
LEMMA ReceiveStep ==
  ASSUME IInv, NEW c \in Conn, NEW e \in Endpoint, Receive(c, e)
  PROVE  IInv'
<1>1. /\ TypeOK /\ RanWasCounted
      /\ \A l \in Limit : hits[l] <= Quota[l]
  BY DEF IInv, TypeOK
<1>2. hits' = Count(e, hits) /\ hits \in [Limit -> Nat]
  BY <1>1 DEF Receive, TypeOK
<1>3. /\ hits' \in [Limit -> Nat]
      /\ \A l \in Limit : hits[l] <= hits'[l] /\ hits'[l] <= Quota[l]
  BY <1>1, <1>2, CountIs
<1>4. /\ ran' \in [DOMAIN Guarded -> Nat]
      /\ \A l \in DOMAIN Guarded :
           ran'[l] = IF Refusing(e, hits) = {} /\ e \in Guarded[l] THEN ran[l] + 1 ELSE ran[l]
  BY <1>1 DEF Receive, TypeOK
<1>5. RanWasCounted'
  <2>1. SUFFICES ASSUME NEW l \in DOMAIN Guarded PROVE ran'[l] <= hits'[l]
    BY DEF RanWasCounted
  <2>2. l \in Limit /\ ran[l] <= hits[l] /\ ran[l] \in Nat /\ hits[l] \in Nat /\ hits'[l] \in Nat
    BY <1>1, <1>3, GuardedTypes DEF TypeOK, RanWasCounted
  <2>3. CASE Refusing(e, hits) = {} /\ e \in Guarded[l]
    <3>1. PICK i \in Limits[e] : Mounts[i].limit = l
      BY <2>3, GuardCounts
    <3>2. hits'[l] = hits[l] + 1
      BY <1>1, <1>2, <2>2, <2>3, <3>1, CountIs
    <3> QED BY <1>4, <2>2, <2>3, <3>2
  <2>4. CASE ~(Refusing(e, hits) = {} /\ e \in Guarded[l])
    <3>1. ran'[l] = ran[l] /\ hits[l] <= hits'[l]
      BY <1>3, <1>4, <2>2, <2>4
    <3> QED BY <2>2, <3>1
  <2> QED BY <2>3, <2>4
<1>6. conn' \in [Conn -> Connection] /\ phase' \in {"serving", "draining"}
  <2> DEFINE new == [pc |-> "waiting", left |-> Uses(e), gone |-> FALSE]
  <2>1. new \in Connection
    BY UsesTypes, ConnectionTypes
  <2>2. conn' = conn \/ conn' = [conn EXCEPT ![c] = new]
    BY DEF Receive
  <2> HIDE DEF new
  <2>3. phase' \in {"serving", "draining"}
    BY DEF Receive
  <2> QED BY <1>1, <2>1, <2>2, <2>3 DEF TypeOK
<1>7. TypeOK'
  BY <1>1, <1>3, <1>4, <1>6 DEF Receive, TypeOK
<1>8. ServedBeforeClosed'
  BY <1>6 DEF ServedBeforeClosed
<1> QED BY <1>5, <1>7, <1>8 DEF IInv

LEMMA WindowStep ==
  ASSUME IInv, NEW l \in Limit, NewWindow(l)
  PROVE  IInv'
<1>1. TypeOK /\ RanWasCounted
  BY DEF IInv
<1>2. /\ hits' \in [Limit -> Nat] /\ hits'[l] = 0
      /\ \A k \in Limit : k # l => hits'[k] = hits[k]
  BY <1>1 DEF NewWindow, TypeOK
<1>3. /\ ran' \in [DOMAIN Guarded -> Nat]
      /\ \A k \in DOMAIN Guarded : ran'[k] = IF k = l THEN 0 ELSE ran[k]
  BY <1>1 DEF NewWindow, TypeOK
<1>4. \A k \in Limit : hits'[k] <= Quota[k]
  BY <1>1, <1>2, QuotaAssumption DEF TypeOK
<1>5. TypeOK'
  BY <1>1, <1>2, <1>3, <1>4 DEF NewWindow, TypeOK
<1>6. RanWasCounted'
  BY <1>1, <1>2, <1>3, GuardedTypes DEF RanWasCounted
<1>7. ServedBeforeClosed'
  BY DEF NewWindow, IInv, ServedBeforeClosed, InFlight
<1> QED BY <1>5, <1>6, <1>7 DEF IInv

LEMMA StepIInv == IInv /\ [Next]_vars => IInv'
<1> SUFFICES ASSUME IInv, [Next]_vars PROVE IInv'
  OBVIOUS
<1>1. ASSUME Die \/ Exit PROVE IInv'
  BY <1>1, StopStep DEF Die, Exit
<1>2. CASE UNCHANGED vars
  BY <1>2 DEF vars, IInv, TypeOK, RanWasCounted, ServedBeforeClosed, InFlight
<1> QED BY <1>1, <1>2, ProcessStep, RequestStep, ReceiveStep, WindowStep DEF Next

-----------------------------------------------------------------------------
(* The theorems.                                                           *)

\* The invariant holds in every run of a replica.
THEOREM Invariance == Spec => []IInv
BY InitIInv, StepIInv, PTL DEF Spec

\* The state keeps its shape: a request has no more uses of a client left than
\* any handler makes, and a limiter never counts beyond its quota.
THEOREM TypeCorrect == Spec => []TypeOK
<1>1. IInv => TypeOK
  BY DEF IInv
<1> QED BY <1>1, Invariance, PTL

\* Whatever signals come and however often, main.ts ends the pool only after
\* every request whose client is still there has been answered.
THEOREM NobodyCutOff == Spec => []ServedBeforeClosed
<1>1. IInv => ServedBeforeClosed
  BY DEF IInv
<1> QED BY <1>1, Invariance, PTL

\* The limiters of app.ts hold for the handlers they are meant for.
THEOREM LimitersHold == Spec => []AttemptsLimited
<1>1. ASSUME IInv, NEW l \in DOMAIN ran PROVE ran[l] <= Quota[l]
  <2>1. l \in DOMAIN Guarded /\ l \in Limit
    BY <1>1, GuardedTypes DEF IInv, TypeOK
  <2>2. ran[l] <= hits[l] /\ hits[l] <= Quota[l] /\ ran[l] \in Nat /\ hits[l] \in Nat
    BY <1>1, <2>1 DEF IInv, TypeOK, RanWasCounted
  <2> QED BY <2>1, <2>2, QuotaAssumption
<1>2. IInv => AttemptsLimited
  BY <1>1 DEF AttemptsLimited
<1> QED BY <1>2, Invariance, PTL
=============================================================================
