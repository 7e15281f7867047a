------------------------------- MODULE Replica -------------------------------
(***************************************************************************)
(* One replica of a service as a process: its start and its shutdown       *)
(* (main.ts), the connections it serves, the pool of database clients they *)
(* and the outbox worker share (db.ts), and the rate limiters in its       *)
(* memory.  What a request does in the database is modelled in             *)
(* SessionStore, Accounts and Access; here it is so many uses of a client. *)
(*                                                                         *)
(* The eighteen scaffolds in TypeScript are this process without worker    *)
(* and limiters; trading-engine (main.go) differs in how it shuts down.    *)
(*                                                                         *)
(* A body that express.json cannot read is answered before anything else   *)
(* and changes nothing; all requests come from one address, as the         *)
(* limiters count each address apart.                                      *)
(***************************************************************************)
EXTENDS HttpApi, Integers, FiniteSets

CONSTANTS
  Conn,      \* connections at once
  PoolSize   \* clients of the pool

ASSUME ReplicaAssumption == PoolSize \in Nat \ {0}

VARIABLES
  service, \* which program the process runs
  phase,   \* of the process
  again,   \* a second signal has come
  conn,    \* what each connection is used for
  worker,  \* the outbox worker
  hits,    \* requests counted by each limiter in its window
  ran      \* requests that got past the limiters meant for them (history)

vars == <<service, phase, again, conn, worker, hits, ran>>

Service == {"user-management", "scaffold", "trading-engine"}

\* The requests that the two narrow limiters are meant for.
Guarded == [login |-> LoginApi, recovery |-> RecoveryApi]

Phase == {"off", "connecting", "serving",
          "draining",  \* server.close called, requests still running
          "closing"}   \* its callback runs

Closed == [pc |-> "closed", left |-> 0, gone |-> FALSE]

\* left: uses of a client that the handler may still make, this one included.
\* gone: the client of the request has hung up.
Connection ==
  [pc : {"closed", "kept",       \* kept: idle on a server that is draining
         "waiting", "holding"},  \* for, or with, a database client
   left : 0..3, gone : BOOLEAN]

TypeOK ==
  /\ service \in Service /\ phase \in Phase /\ again \in BOOLEAN
  /\ conn \in [Conn -> Connection]
  /\ worker \in {"off", "idle",
                 "want", "claim",   \* for, or with, the client of claimBatch
                 "send",
                 "mark", "update"}  \* the same for the outcome of a message
  /\ hits \in [Limit -> Nat] /\ \A l \in Limit : hits[l] <= Quota[l]
  /\ ran \in [DOMAIN Guarded -> Nat]

Zero(S) == [l \in S |-> 0]

Init == /\ service \in Service
        /\ phase = "off" /\ again = FALSE
        /\ conn = [c \in Conn |-> Closed]
        /\ worker = "off"
        /\ hits = Zero(Limit) /\ ran = Zero(DOMAIN Guarded)

-----------------------------------------------------------------------------
(* The process.                                                            *)

\* The settings are fine: else config.ts, or createEmailSender in app.ts, throws
\* while it is loaded, and the process remains off.
Start == /\ phase = "off"
         /\ phase' = "connecting"
         /\ UNCHANGED <<service, again, conn, worker, hits, ran>>

\* connectCache has returned: the worker polls at once and the server listens.
Listen == /\ phase = "connecting"
          /\ phase' = "serving"
          /\ worker' = IF service = "user-management" THEN "want" ELSE "off"
          /\ UNCHANGED <<service, again, conn, hits, ran>>

Stop == /\ phase' = "off" /\ again' = FALSE
        /\ conn' = [c \in Conn |-> Closed]
        /\ worker' = "off"
        /\ hits' = Zero(Limit) /\ ran' = Zero(DOMAIN Guarded)
        /\ UNCHANGED service

\* Redis refuses, a signal comes before its handler is installed, a lost
\* connection of Redis or of an idle database client raises an 'error' event
\* nobody listens to, or the container is killed.
Die == phase # "off" /\ Stop

\* shutdown().  A second signal registers a second callback; in Go nobody
\* receives it.
Signal == /\ \/ phase = "serving" /\ phase' = "draining" /\ UNCHANGED again
             \/ /\ phase \in {"draining", "closing"} /\ service # "trading-engine"
                /\ again' = TRUE /\ UNCHANGED phase
          /\ UNCHANGED <<service, conn, worker, hits, ran>>

InFlight(c) == conn[c].pc \in {"waiting", "holding"}

\* Mutant: the connections are closed without waiting for server.close.
DrainedAtOnce == /\ phase = "draining"
                 /\ phase' = "closing"
                 /\ UNCHANGED <<service, again, conn, worker, hits, ran>>

\* server.close calls back: no connection is open.
Drained == /\ phase = "draining"
           /\ \A c \in Conn : conn[c].pc = "closed" \/ conn[c].gone
           /\ phase' = "closing"
           /\ UNCHANGED <<service, again, conn, worker, hits, ran>>

\* server.Shutdown in Go returns after ten seconds in any case.
TimedOut == /\ phase = "draining" /\ service = "trading-engine"
            /\ phase' = "closing"
            /\ UNCHANGED <<service, again, conn, worker, hits, ran>>

\* Mutant: the worker keeps its client for the whole batch.
HeldForBatch == {c \in Conn : conn[c].pc = "holding"}
                  \cup (IF worker \in {"off", "idle", "want"} THEN {} ELSE {"worker"})

\* Database clients that are checked out.
Held == {c \in Conn : conn[c].pc = "holding"}
          \cup (IF worker \in {"claim", "update"} THEN {"worker"} ELSE {})

\* pool.end waits for the clients that are checked out.  In the second callback
\* closeCache finds Redis closed already and pool.end refuses to be called
\* twice, so that it exits at once.
Exit == /\ phase = "closing"
        /\ again \/ Held = {}
        /\ Stop

-----------------------------------------------------------------------------
(* Requests.                                                               *)

\* How often a handler asks the pool for a client, at most: a login for its
\* transaction and its session, a refresh for roles, rotation and the
\* revocation after a reuse, a profile update for its transaction and the
\* profile it returns.
Uses(e) == CASE e = "refresh" -> 3
             [] e \in {"login", "patch-me"} -> 2
             [] e \in (OpsApi \ {"ready"}) \cup {"auth-other", "users-other", "other"} -> 0
             [] OTHER -> 1

Offered == IF service = "user-management" THEN Endpoint ELSE ScaffoldApi \cup {"other"}

Receive(c, e) ==
  /\ e \in Offered
  /\ \/ phase = "serving" /\ conn[c].pc = "closed"
     \/ phase = "draining" /\ conn[c].pc = "kept"
  /\ hits' = Count(e, hits)
  /\ ran' = [l \in DOMAIN ran |->
       IF Refusing(e, hits) = {} /\ e \in Guarded[l] THEN ran[l] + 1 ELSE ran[l]]
  /\ \/ /\ Refusing(e, hits) # {} \/ Uses(e) = 0 \/ RefusedEarly(e)
        /\ UNCHANGED conn
     \/ /\ Refusing(e, hits) = {} /\ Uses(e) > 0
        /\ conn' = [conn EXCEPT ![c] = [pc |-> "waiting", left |-> Uses(e), gone |-> FALSE]]
  /\ UNCHANGED <<service, phase, again, worker>>

\* The pool serves its queue while it is open.
ClientFree == Cardinality(Held) < PoolSize /\ phase \in {"serving", "draining"}

Acquire(c) == /\ conn[c].pc = "waiting" /\ ClientFree
              /\ conn' = [conn EXCEPT ![c].pc = "holding"]
              /\ UNCHANGED <<service, phase, again, worker, hits, ran>>

\* Mutant: one use of a client too many.
GoOnOnceMore(c) == /\ conn[c].pc = "holding" /\ conn[c].left >= 0
                   /\ conn' = [conn EXCEPT ![c].pc = "waiting", ![c].left = @ - 1]
                   /\ UNCHANGED <<service, phase, again, worker, hits, ran>>

\* client.release, and the handler goes on.
GoOn(c) == /\ conn[c].pc = "holding" /\ conn[c].left > 1
           /\ conn' = [conn EXCEPT ![c].pc = "waiting", ![c].left = @ - 1]
           /\ UNCHANGED <<service, phase, again, worker, hits, ran>>

\* Go closes the connection of a server that is shutting down.
Answered(c) == IF phase = "draining" /\ ~conn[c].gone /\ service # "trading-engine"
               THEN [Closed EXCEPT !.pc = "kept"] ELSE Closed

\* client.release and the answer, after a success or an error.
Answer(c) == /\ conn[c].pc = "holding"
             /\ conn' = [conn EXCEPT ![c] = Answered(c)]
             /\ UNCHANGED <<service, phase, again, worker, hits, ran>>

\* A handler asks a pool that has been ended.
TooLate(c) == /\ conn[c].pc = "waiting" /\ phase = "closing"
              /\ conn' = [conn EXCEPT ![c] = Closed]
              /\ UNCHANGED <<service, phase, again, worker, hits, ran>>

\* In Go the request's context ends with its client.
Cancelled(c) == /\ conn[c].pc = "waiting" /\ conn[c].gone /\ service = "trading-engine"
                /\ conn' = [conn EXCEPT ![c] = Closed]
                /\ UNCHANGED <<service, phase, again, worker, hits, ran>>

\* The client of a running request, or of a connection that is kept, hangs up;
\* an idle connection is closed after keepAliveTimeout.
Abandon(c) == /\ InFlight(c) /\ ~conn[c].gone
              /\ conn' = [conn EXCEPT ![c].gone = TRUE]
              /\ UNCHANGED <<service, phase, again, worker, hits, ran>>

HangUp(c) == /\ conn[c].pc = "kept"
             /\ conn' = [conn EXCEPT ![c] = Closed]
             /\ UNCHANGED <<service, phase, again, worker, hits, ran>>

\* The window of a limiter ends.
NewWindow(l) == /\ hits[l] > 0
                /\ hits' = [hits EXCEPT ![l] = 0]
                /\ ran' = [k \in DOMAIN ran |-> IF k = l THEN 0 ELSE ran[k]]
                /\ UNCHANGED <<service, phase, again, conn, worker>>

-----------------------------------------------------------------------------
(* The outbox worker: its batches, as far as they concern the pool.        *)

Step(from, to) == /\ worker = from /\ worker' = to
                  /\ UNCHANGED <<service, phase, again, conn, hits, ran>>

\* The timer, until stop() clears it.
Poll == phase = "serving" /\ Step("idle", "want")

WorkerAcquires == ClientFree /\ (Step("want", "claim") \/ Step("mark", "update"))

\* An empty batch or an error ends it; the UPDATE of an outcome is a query of
\* its own, after which the next message is sent or the batch ends.
WorkerGoesOn == \/ \E to \in {"send", "idle"} : Step("claim", to) \/ Step("update", to)
                \/ Step("send", "mark")
                \/ phase = "closing" /\ Step("mark", "idle")

-----------------------------------------------------------------------------
Next == \/ Start \/ Listen \/ Die \/ Signal \/ Drained \/ TimedOut \/ Exit
        \/ \E c \in Conn : \/ \E e \in Endpoint : Receive(c, e)
                           \/ Acquire(c) \/ GoOn(c) \/ Answer(c) \/ TooLate(c)
                           \/ Cancelled(c) \/ Abandon(c) \/ HangUp(c)
        \/ \E l \in Limit : NewWindow(l)
        \/ Poll \/ WorkerAcquires \/ WorkerGoesOn

Spec == Init /\ [][Next]_vars

\* Queries and requests to the provider end, the pool's queue is first come,
\* first served, and no client keeps a draining connection busy for ever.
Fairness ==
  /\ \A c \in Conn : /\ SF_vars(Acquire(c)) /\ SF_vars(HangUp(c))
                     /\ WF_vars(GoOn(c) \/ Answer(c))
  /\ SF_vars(WorkerAcquires) /\ WF_vars(WorkerGoesOn)
  /\ WF_vars(Drained) /\ WF_vars(TimedOut) /\ WF_vars(Exit)

FairSpec == Spec /\ Fairness

-----------------------------------------------------------------------------
(* Properties.                                                             *)

\* A shutdown, however often it is asked for, leaves the database to every
\* request whose client is still there: the pool is open until it is answered,
\* but for trading-engine, which waits ten seconds.
ServedBeforeClosed ==
  service # "trading-engine" =>
    \A c \in Conn : InFlight(c) /\ ~conn[c].gone => phase \in {"serving", "draining"}

\* In one window a replica runs no handler more often than the limiter meant
\* for it allows: no route is mounted before its limiter.
AttemptsLimited == \A l \in DOMAIN ran : ran[l] <= Quota[l]

\* A request is answered or its connection lost, although all of them and the
\* worker share the pool; a shutdown that has begun ends the process.
NothingHangs ==
  /\ \A c \in Conn : InFlight(c) ~> ~InFlight(c)
  /\ phase \in {"draining", "closing"} ~> phase = "off"
=============================================================================
