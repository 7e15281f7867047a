# A verification project for the compound-trader ecosystem

This directory holds TLA+ models of the services under `services/`, the TLC
configurations that check them on small instances, and machine-checked proofs
of what matters most. Paths in this document are relative to the repository.

## 1. Inventory

The repository is a monorepo of 25 services, of which one has domain logic:
`services/user-management`. The other 24 are scaffolds (health, readiness,
metrics, ping; a database pool and a cache client) in TypeScript, Python and Go.
Two or more replicas of user-management share one PostgreSQL database
(`services/user-management/k8s/deployment.yaml`), and hardly any state lives in the
process: nearly all concurrency is between transactions of different replicas.

| Component | State | Operations | Interacts with | Hard behaviour | Correct when |
|---|---|---|---|---|---|
| Sessions and refresh tokens (`src/auth/session`) | `user_sessions`, `refresh_tokens` | create, rotate, logout, logout of all devices | called by login, session routes; its tables are also written by the password reset | overlapping transactions under READ COMMITTED, snapshots older than the rows, lock waits and deadlocks, two-step handling of a replay | a token is accepted once, a session has one usable token, a closed session has none, a revocation misses nothing, ends are final, every request ends |
| E-mail outbox (`src/auth/email`) | `compound.email_outbox`; per replica: a timer, `running`, a claimed batch | enqueue, claim, send with retries, record delivered or failed | fed by registration, resend, reset inside their transactions; HTTP provider | leases that run out under slow deliveries, late outcomes, lost answers, crash with claims open | attempts are exclusive and bounded, delivered means accepted, nothing is forgotten |
| Login and lockout (`src/auth/login`) | `compound.users`: status, failures, `locked_until`; `login_attempts` | login | creates a session after its own transaction has committed | a reset or a lock between the two transactions; status changes of a locked account | the lock holds for its time, a session is only given for the current password |
| Registration and verification (`src/auth/registration`) | `compound.users`, `email_verification_tokens` | register, verify, resend | enqueues mail | token and user rows locked in opposite orders; accounts whose status changes before verification | a token works once, only the last one works, an account can always be verified |
| Password reset (`src/auth/password-reset`) | `compound.users`, `password_reset_tokens`; revokes sessions | request, reset | enqueues mail, sessions | as above, and the gap between its two UPDATEs of sessions and tokens | a reset token works once and ends all sessions of its user |
| JWT and authorization (`src/auth/jwt`, `src/auth/authorization`) | none | sign, verify, require role | all routes | tokens that outlive the state they were issued for; roles read, tokens signed and rows committed at three moments | roles are those of the request that issued them, a session that has ended is forgotten within the life of an access JWT |
| Passwords (`src/auth/password`) | none | policy, hash, verify | registration, login, reset | verification takes long and is judged on a row read before it | the verdict is for the password the row has when it is acted on |
| Profile (`src/users`) | `compound.users`, `user_profiles` | read, partial update | access JWT | partial updates of two tables that overlap | an update is whole and keeps what it does not name |
| Migrations (`scripts/migrate.ts`) | `schema_migrations`, the schema | apply the new files in order | deployment job | a crash between a file and its record, two runners | what is recorded was executed, in order; edits are refused; a Job gives up only after as many faults and lost races as it has attempts |
| Lifecycle (`src/main.ts`, `app.ts`, `db.ts`, `cache.ts`, `config.ts`) | server, pool of clients, cache client, timer | start, serve, signal, drain, end | orchestrator; all requests and the outbox worker share the pool | a second signal, a pool at its limit, requests and a batch in progress when the signal comes | nothing is cut off by an orderly shutdown, nothing hangs, shutdown ends |
| HTTP interface (`src/http`, the routers, `app.ts`) | per replica: counts of the rate limiters | count, refuse, route, answer errors | every service | the order of limiters and routers | no route of a login or recovery escapes its limiter |
| OpenAPI, logging, metrics, request ids | - | - | - | - | - |
| The 24 scaffolds, deployment files | pool, cache client | start, readiness, shutdown | orchestrator | as for the lifecycle | as for the lifecycle |

`PROJECT.json` lists every service with its status, and the hazards of the code, each at its line.

## 2. Plan

In order of importance. Built:

1. `SessionStore`: sessions and tokens, statement by statement. The core.
2. `SessionStoreProofs`: its inductive invariant and safety properties for all constants.
3. `EmailOutbox`: the outbox, its workers and the provider.
4. `SessionContract`: the abstract specification - sessions whose operations are
   atomic - which `SessionStore` implements; checked by TLC and proved (`SessionRefinement`).
5. `Accounts`: users, verification and reset tokens, login and lockout, as
   interleaved transactions on the user's row, with the session that a login creates afterwards.
6. `Migrations`: the migration runner, beside other runners and releases, with crashes.
7. `Jwt` and `Access`: what clients hold and do with it, over `SessionContract`: roles,
   access JWTs, logouts, resets and updates of the profile.
8. `HttpApi` and `Replica`: one replica as a process - limiters, routers, the shared pool, start and shutdown.
9. `EmailOutboxProofs`: the outbox's inductive invariant and its safety properties for
   any number of workers and messages.

10. `MigrationsProofs`, `AccountsProofs`, `ReplicaProofs`, `AccessProofs`: an inductive invariant for
    each, and every safety property that its runs check.
11. The deadlocks of the sessions, in `SessionStoreProofs`.
12. `SessionContractProofs`: what the contract is worth by itself, and so to `Access`.

Left:

13. Abstract specifications of the outbox (a message is accepted, counted, settled) and of the accounts
    (requests as single steps), with the proofs that `EmailOutbox` and `Accounts` implement them.

## 3. SessionStore

### Correspondence

| Model | Code |
|---|---|
| `sess`, `tok` | the committed rows of `user_sessions` and `refresh_tokens` |
| `lockS`, `lockT` | PostgreSQL's row locks; the pending write of a locked row follows from the operation |
| `req[r]` | one HTTP request and its open transaction, on any replica |
| `StartCreate`, `CommitCreate` | `SessionService.createSession`, `PostgresSessionRepository.createSession` |
| `StartRotate` | the route verifies the JWT, the service draws a replacement and takes the time |
| `LockToken`, `Refuse`, `Close`, `Rotate` | `rotateRefreshTokenAtomically`: what it does once the session row, then the token row, is locked |
| `StartLogout`, `StartLogoutAll`, `StartReset` | the routes and `resetPassword` up to its UPDATE of sessions |
| `BeginRevoke`, `UpdateSession`, `EndRevoke` | UPDATE of `user_sessions`: the snapshot, each row, the row count |
| `BeginSweep`, `UpdateToken` | UPDATE of `refresh_tokens`: the snapshot, each row |
| `Commit`, `AfterCommit` | COMMIT, and the second revocation of the service after a reuse or mismatch |
| `Abort`, `Victim` | an error in any statement or a stopped replica; the deadlock detector |

An UPDATE under READ COMMITTED picks rows from a snapshot, waits for each row's
lock and checks its WHERE clause again on the newest version; the order of the
rows is not defined, so the model takes any. Rows that another transaction
inserts after the snapshot are not seen. This is where the code could go wrong,
and it is modelled row by row.

Abstracted: columns that only inform (device, address, timestamps of ends), the
security events (inserted with the change they describe), row locks on `users`
(only that two resets of a user exclude each other is kept), the hash of a token
(a genuine JWT fixes it, and only genuine JWTs pass verification). With the session
row locked first and the token's session and user fixed by the JWT, the branches
`token_mismatch`, `session_missing` and `token_missing` cannot be reached by a
request of the program; they are in the model and TLC evaluates their guards. The branch
`concurrent_refresh_detected` needs a second writer of a locked row and has no action.

### Runs

| Run | Question | Bounds |
|---|---|---|
| `sessions_races` | do the safety properties hold under every interleaving, also when time passes between statements? does the statement-level model implement the atomic one? | 2 users, 2 sessions, 3 tokens, 2 requests, lifetime 2 (1 for access JWTs), clock 0..2 |
| `sessions_progress` | does every request end? | 1 user, 2 sessions, 2 tokens, 2 requests |
| `sessions_false_replay` | is every session found compromised one with a replayed token? No. | 1 user, 2 sessions, 2 tokens, 2 requests |

Bounds. Every conflict in the code is between two transactions; what a third one adds - to
invalidate what one of them has read - is also done here by the same two request
slots, since one that is over can start again while the other still runs. That no number of requests at
once makes a difference is proved for every safety property, also for
`DeadlockNeedsTwoSweeps`, which a run with two requests hardly tests. Two
sessions are the fewest that two revocations can lock in opposite orders, and a
third token lets a session be rotated while another exists or be rotated twice. Two users
keep user-wide revocations apart. Ids
and requests are interchangeable, hence the symmetry sets (not in the liveness run).
`MaxTime` bounds the clock; requests are not bounded in number, since a request that is over can start again.

Fairness (`FairSpec`, used only by `sessions_progress`). `WF(Running)`: a statement
that need not wait is executed. `SF(Waiting)`: PostgreSQL queues the
waiters of a row, so one that finds the row free again and again gets it in the
end. `WF(Victim)`: the deadlock detector looks at every cycle after
`deadlock_timeout`. Nothing makes clients send requests, and failures are never fair.

### What the runs show

- `OneActiveToken`, `ClosedSessionTokens`, `RotationChain`: locking the session row
  first orders rotations and revocations of a session; the sweep's snapshot is
  taken with that lock held, so no replacement slips past it.
- `RevocationCovers`: a revocation closes every session that was live when the
  request was accepted, although it selects them later, from a snapshot.
- `EndsAreFinal`: the second look at the WHERE clause keeps a revocation from rewriting an ended row.
- `FollowUpFindsClosed`: the service's second revocation after a replay is redundant, so
  losing it (a crash between the two transactions) loses nothing.
- `DeadlockNeedsTwoSweeps`: two logouts of all devices, or one and a reset, can
  deadlock on sessions or tokens; nothing else can. `RequestsFinish` shows that the detector and the rollback resolve it.
- `SessionLifetime`: expiry is judged by the time the request arrived, so a rotation that waits is
  late by at most its wait; no token outlives its session by a full lifetime.
- Finding `CompromiseMeansReplay`: a login that commits between the two UPDATEs of a user-wide
  revocation leaves a live session whose only token is revoked. Its owner's first
  refresh is reported as a replay, and raises a critical security event.

## 4. EmailOutbox

### Correspondence

| Model | Code |
|---|---|
| `msg` | rows of `compound.email_outbox`; `wait` and `lease` count down to `available_at` and `claimed_at + 5 minutes` |
| `worker[w]` | the worker of a replica: the batch it still has to deliver, the record in hand, the tries so far |
| `Enqueue` | `PostgresEmailQueue.enqueue`, at the commit of its transaction |
| `Poll`, `CommitClaim` | `claimBatch`: the SELECT ... SKIP LOCKED, and the commit of the claim |
| `Take`, `FinishBatch` | the loop of `processBatch` |
| `Accept`, `AcceptUnheard`, `Unavailable`, `Reject` | `HttpEmailSender.send`: accepted; accepted but the answer is lost; no answer, 429 or 5xx; any other answer |
| `MarkDelivered`, `MarkFailed` | the two UPDATEs of `deliver` |
| `LoseDeliveredUpdate`, `LoseFailedUpdate`, `Crash` | an UPDATE that fails, a replica that stops |

The UPDATEs of `deliver` test only `status = 'processing'`, not the claim, so an
outcome may be written to a row that another worker has claimed since; the model keeps that.
Counters of metrics and the text of errors are left out.

### Runs

| Run | Question | Bounds |
|---|---|---|
| `outbox_progress` | are attempts exclusive, bounded, final, and honestly recorded? is a message ever forgotten before its attempts are used? without faults, does every message settle? | 2 messages, 2 workers, batches of 2, 2 attempts of 1 try, 1 fault |
| `outbox_exhausted` | is an exhausted message always recorded as failed? No. | 1 message, 2 workers, 1 fault |
| `outbox_lease` | does a claim exclude other workers while its lease runs? No. | 1 message, 2 workers, 3 attempts |

Two workers and two attempts are enough for a take-over, and for an outcome that is recorded after
it; two messages make batches and their order matter. Several tries within one `send` are the proofs' part. The lease is one
unit (two in `outbox_lease`) and every delivery may take any time, so slow
and fast batches both occur. `MaxFaults` bounds crashes and failed UPDATEs.

Fairness. The interval timer fires again and again and a request to the provider
is aborted by its timeout, so a worker with something to do does it: `WF(Work)`.
Time passes: `WF(Tick)`. Faults are never fair.

What the runs show: `AttemptsExclusive` - SKIP LOCKED and the count together give each
attempt to one worker, although claims overlap after a lease; `CopiesBounded`,
`DeliveredWasAccepted`, `OutcomesAreFinal` - the lost answers, failed UPDATEs and late outcomes that
are inherent in the design duplicate messages boundedly, never mark delivered what the provider has not
accepted, and never change a final status (a row marked failed may have been accepted all the same: its answer or its UPDATE was lost); `NothingForgotten`, `Settles` - what is queued is delivered or uses up its attempts.

Findings: `ExhaustedIsFailed` - a worker that stops during the last attempt leaves the row
`processing` for ever, invisible to the alert on exhausted messages; `LeaseExcludes` - a
failure recorded after a take-over resets the row under its new owner, and a third claim follows while the second one's lease still runs.

## 5. Accounts

### Correspondence

| Model | Code |
|---|---|
| `users` | committed rows of `compound.users`: status, `email_verified`, `failed_login_attempts`, `locked_until`, which password the hash is of |
| `tokens` | committed rows of `email_verification_tokens` and `password_reset_tokens` |
| `sess` | live sessions, as the user and the password they were given for; their own life is `SessionStore` |
| `lockU`, `lockT` | row locks; what a request has locked it changes at its commit |
| `req[r]` | one HTTP request and its transaction, on any replica; `seen` is the row in `login`'s hands |
| `Register` | `RegistrationService.register`, one transaction that conflicts with nothing but the unique index |
| `LoginRead` ... `LoginAccepted` | `login`: SELECT ... FOR UPDATE, then one action per way out of the transaction |
| `CreateSession` | `createSession`, after the transaction |
| `IssueLock`, `VisitToken`, `CommitIssue` | `resendVerification` and `requestReset`: lock the user, retire its unused tokens row by row, insert one, commit |
| `UseToken`, `TokenInvalid` | the first UPDATE of `verifyEmail` and `resetPassword` |
| `CommitVerify`; `ResetLock`, `ResetRevoke`, `VisitToken`, `CommitReset` | the rest of the two |
| `Abort`, `Victim` | an error in any statement or a stopped replica; the deadlock detector |
| `Suspend`, `EndSession` | external: administration, and the ends of sessions modelled in `SessionStore` |

`NOW()` is the start of the transaction (`at`), `Date.now()` the present (`now`): the code
judges tokens by the first and the lock by the second, and so does the model.
A verification token outlives a reset token, as the defaults of `config.ts` do. Left out:
roles, profile fields, `login_attempts` and the audit log, and soft deletion (`deleted_at`), which nothing in the program sets.

### Runs

| Run | Question | Bounds |
|---|---|---|
| `accounts_races` | do tokens work once, are failures counted and locks kept, who deadlocks? | 1 user, 3 tokens, 1 session, 2 passwords, 2 requests, threshold 3, at most 4 failures, clock 0..1 |
| `accounts_progress` | does every request end? | 1 user, 3 tokens, 1 password, 2 requests, threshold 1 |
| `accounts_old_password` | is every live session one of the current password? No. | 1 user, 2 tokens, 2 passwords, 2 requests |

Users share no row, so one user is enough. Three tokens let one be used while another is
issued after a first; every conflict in the code is between two requests. Four failures
with a threshold of three pass the lock, its end and the next failure. `MaxFails` counts
logins under way, so it never stops one that has started.

Fairness is that of the sessions. `RequestsFinish` excuses a request that finds all token ids or
session ids in use, which is a bound of the model and no state of the program.

### What the runs show

- `OneUsableToken`: the lock on the user orders overlapping requests for mails, so the last token alone works.
- `TokenStaysGood`: the first UPDATE holds the token's row to the end; nobody else uses or retires it.
- `LoginsJudgeCurrentRow`: the row lock that `login` keeps while Argon2 runs makes its
  count of failures exact and its verdict current. Without FOR UPDATE both fail.
- `LockAgrees`: count, time and status of a lock stay consistent through failures, lock ends, resets and verification.
- `StatusChanges`: which changes of status overlapping requests can make. An account becomes active by its first
  verification or from `locked`, locked by enough failures, suspended by an operator alone.
- `DeadlockNeedsIssueAndUse`: a request for a mail and the use of an older token of the same
  kind lock user and token in opposite orders and can deadlock; nothing else can.
- Finding `SessionsOfCurrentPassword`: a reset that commits between a login's commit and its
  `createSession` misses that session, which lives on, given for the old password.
- Seen, and allowed by `StatusChanges` because nothing in the repository says otherwise: wrong passwords
  move an account of any status to `locked`. A suspended account comes back to `active` by a
  reset or a good login, or by a verification mail sent before the suspension; an unverified one becomes active by a
  reset without ever being verified, and never returns to
  `pending_verification`, so that no new verification mail can be asked for.

## 6. Migrations

`image` is the directory of the latest release, `records` the table `schema_migrations`,
`applied` the files that were executed, and `runner[r]` a run of `scripts/migrate.ts`: a pod of the Job, or a run
by hand. `StartJob` lists the files; for each, `Skip`, `Refuse` or `Begin` is
the lookup, `Apply` the execution (one query, hence one transaction), `Record` or `Conflict` the INSERT. `Fail` is
any error or a lost pod, and `EndAttempt` the exit with an error, after which the Job starts the
image again, `backoffLimit` times. What a file does to the schema is left out: every file is
written to be executed again without harm (IF NOT EXISTS, OR REPLACE, ON CONFLICT), and the model relies on it.

`lost` and `broken` keep, for the properties alone, the files at which attempts of the Job ended because another runner had
recorded them first, and how many attempts a fault ended.

Run `migrations`: 3 file names, 2 contents, 2 runners, 3 releases, 1 fault, 3 attempts. The repository has 4 files and 4 attempts
(`backoffLimit: 3`); the run is one smaller in both, so that, as there, a Job can lose every attempt to a file of its own,
and does in some behaviours. Two runners are what a Job and a run by hand, or the Jobs of two releases, amount to; three
releases add all files, or fewer and edit one. Fairness: a process that runs goes on, and a Job starts its next attempt
by itself; nothing makes anyone start a Job or faults happen.

- `RecordedWasApplied`, `InOrder`: a crash at any point leaves no file recorded but not executed, and none executed before its predecessors.
- `DoneMeansRecorded`: of two releases that differ in a file, only one succeeds, as the primary key makes the other's INSERT fail.
- `GivesUpRightly`: no two attempts of a Job are lost to the same file, since the next one finds it on record. A Job whose files
  agree with the record thus fails only if faults and races lost at different files, together, are as many as its attempts.
- `JobSucceeds`: a Job ends, and ends well, unless a file differs from the record or it is out of attempts in that
  sense. The limit is real at the repository's own size: a Job that is overtaken at each of the four files, in four attempts, gives up
  without any fault or mismatch, though the runner that overtook it has recorded everything; running it again finds nothing to do. With more
  attempts than files and faults together it cannot happen.
- Seen, and excluded only by the rule that published files are immutable: a file executed but
  not recorded, then edited, is executed again in its new form and passes the checksum.

## 7. Access (with Jwt)

`Access` composes what the other models keep apart: `SessionContract` for the session tables
(`Store!Create`, `Exchange`, `Expire`, `Compromise`, `Logout`, `RevokeAll` - `SessionStore` is proved to
implement it), the roles of an account, the JWTs that clients hold, and the rows of the
profile. `Jwt` is `JwtService`: a JWT is the record of its claims and the key that signed it.

| Model | Code |
|---|---|
| `issued`, `Wallet` | access JWTs handed out; all JWTs that clients may present |
| `StartLogin`, `StartRefresh`, `ReadRoles`, `Sign`, `CommitLogin`, `CommitRefresh`, `Refused` | a login or refresh: verify, read the roles (`resolveRoles` or the login's SELECT), take the time and sign, and only then commit |
| `Logout`, `LogoutAll` | the two routes; verification and revocation as one step, as `SessionStore` has their parts |
| `StartPatch`, `WriteUsers`, `WriteProfiles`, `CommitPatch`, `Abort` | `PATCH /users/me`: one transaction, its two rows in order, row locks until its end |
| `Merged` | NULL clears `display_name`, COALESCE keeps any other field that is NULL or left out |
| `ChangeRoles`, `Tick` | external: administration, the clock |

Abstracted: the nine fields are `display_name`, which can be cleared, and `bio` for those that COALESCE protects;
the reply to an update is read after its commit and may already show a later one. The audit record is part of the transaction.
Signature, issuer, audience and algorithm are the same for all JWTs of the service. Nothing in `config.ts` keeps
the two secrets different, so the run gives both JWTs the same key.

Run `access`: 1 user, 1 session, 2 tokens, 1 role, 3 updates (both fields; one cleared; one that COALESCE
refuses), 2 requests, session lifetime 2, access lifetime 1, clock 0..2. An account's rows and JWTs concern no other account. A refresh that
overlaps with another request, or with what ends its session, needs two requests and two tokens; the lifetimes
are the smallest that differ.

- `RolesHeldMeanwhile`: roles may be stale by the length of one request and no more, as each refresh reads
  them again; the claims of an earlier access JWT are never carried over.
- `AccessEndsSoon`: no route looks a session up when it sees an access JWT, so a revoked session still authorises
  requests - for less than the life of an access JWT from its end, also when the JWT is signed before a
  revocation and handed out by a commit, and when both secrets are equal (`token_use` tells the two sorts apart).
- `UpdateWhole`: overlapping updates, failures between the two statements and COALESCE never leave half an
  update, nor undo a field that another one has written.

## 8. Replica (with HttpApi)

`Replica` is one process of user-management, of one of the eighteen scaffolds in TypeScript (whose `main.ts` and `app.ts` are all
the same: no worker, no limiters) or of `trading-engine` (`main.go`: no second signal, a shutdown that waits ten
seconds at most, requests that end with their client), as `service` says: `phase` follows `main.ts` from the start to the exit, `conn` what the server's connections are
used for, `worker` the outbox worker as far as it uses the pool, `hits` the counts of the limiters (in memory, hence gone
after a restart). `HttpApi` is the interface as data: the routes, the mounts of `app.ts` in order, how
limiters count, and which requests a router may refuse before any query.

| Model | Code |
|---|---|
| `Start`, `Listen` | loading `config.ts` and `app.ts`, which throw if the settings are wrong (the process then stays off; which settings these are is left out); `connectCache`, `emailOutboxWorker.start`, `app.listen` |
| `Receive` | express.json, the limiters before the route, the router's checks before any query |
| `Acquire`, `GoOn`, `Answer`, `TooLate` | `pool.connect` or `pool.query`; `client.release` and the next use; the answer; the error of an ended pool |
| `Signal`, `Drained`, `TimedOut`, `Exit` | `shutdown`; `server.close` calls back; `closeCache`, `closeDatabase`, `process.exit`; in Go the end of `server.Shutdown`'s ten seconds |
| `Die` | a failed start, a lost Redis or idle database connection that raises `error` with no listener, a kill |
| `Poll`, `WorkerAcquires`, `WorkerGoesOn` | the timer, `claimBatch`, `deliver` |
| `Abandon`, `Cancelled`, `HangUp`, `NewWindow` | external: clients, `keepAliveTimeout`, the limiter's library |

What a request does in the database is in the other modules; here it uses a client a bounded number of times (`Uses`), one at a time.
All requests come from one address, since the limiters count each address apart. A body that express.json
cannot read is answered 500 by `errorHandler` before any route, like every error that no router knows. The status of an answer is
left out: the routers map the errors of their services to it without any state, which is for tests of the routes.

Run `replica`: 2 connections, a pool of 1, limits 3, 2 and 1 for 100, 10 and 5. A pool of one and three users of it (two connections, the worker) is the
contention that ten clients have under load; the limits keep their order. Fairness: queries and requests to the
provider end (`WF` of `GoOn`, `Answer`, the worker); the pool's queue is first come, first served (`SF` of
`Acquire`, `WorkerAcquires`); a draining connection is not kept busy for ever by its client (`SF` of `HangUp`; Node closes idle ones after
`keepAliveTimeout`). Nobody is obliged to send signals or requests.

- `ServedBeforeClosed`: the pool outlives every request with a client at the other end, a second signal included (`trading-engine` waits ten seconds and is left out);
  what it can cut off is the outbox worker's batch, which `EmailOutbox` survives.
- `AttemptsLimited`: the order of mounts in `app.ts` leaves no route of a login or a recovery outside its limiter.
- `NothingHangs`: no handler asks for a second client while it holds one, so a full pool delays and never blocks; a shutdown that has begun ends.

## 9. Proofs

`SessionStoreProofs` proves, for all finite or infinite sets of users, ids and
requests and all lifetimes, from `ConstantsAssumption` alone (`None` is not an
id, lifetimes are naturals, `Ttl` is positive):

- `TypeCorrect`, `OneActiveTokenAlways`, `ClosedSessionTokensAlways`, `RotationChainAlways`,
  `SessionLifetimeAlways`, `RevocationCoversAlways`, `FollowUpFindsClosedAlways`, `EndsAreFinalAlways`;
- `Invariance`: the inductive invariant `IInv` they rest on;
- `DeadlocksAreOfTwoSweeps`, from `IInv` and a second invariant, `SweepInv`;
- `StoreImplementsContract` (in `SessionRefinement`): every behaviour of `SessionStore` is one of
  `SessionContract`, under the mapping that keeps the committed rows and the clock and forgets locks and requests.

`IInv` says, beyond the properties themselves: reserved ids are fresh (`Reserved`);
a stored token agrees with its session (`RowsConsistent`); and for each request
`RequestOK`: a session it has locked is live and one it is entitled to (`OwnLocks`), a rotation
past its first step holds its session, unexpired when it was checked
(`RotationHolds`), the sessions a revocation has yet to visit or has locked cover the
live ones it must close (`SnapshotCovers`), and likewise for the tokens of the
sessions it is about to close (`SweepCovers`). The last two are the heart: `SweepCovers`
is kept by a rotation of another request because a new token needs the session's
lock, and by the creation of a session because that session is not locked.
The proof of the step treats a step of request `r` once for `r` (one lemma
per action) and once for all others (`OthersUntouched`, `OthersKept`).

The deadlock argument needs no bound on the requests and no minimal cycle (`CycleHasTwoSweeps`). A request that
closes one session holds it while it updates its tokens (`HoldsItsSession`), and so does a rotation; hence neither waits for the other's
tokens, but only for a user-wide revocation (`WaitsForSweep`), which takes tokens without their sessions. If that one waits, in
turn, for a token of a session being closed, it is not the one that this closing waits for: of each session it takes one
token at most (`OneTokenEach`, by `OneActiveToken` at the moment of its snapshot) and cannot have
locked one and want another. So there are two (`SweepIsNotAlone`), and whoever waits for a session
waits, through its owner, for such a request (`SessionOwner`, `OwnerLeadsToTwo`).

`SessionContractProofs` proves of the atomic sessions, from `GoodConstants` (as above), that a token agrees with its
session, that a session has one active token at most and none when it is closed, and that a token is exchanged once
(`ContractSafe`), and that ends are final (`ContractEndsFinal`). With `StoreImplementsContract` this is a second way to those
properties of `SessionStore`; its use is for `Access`, below.

`EmailOutboxProofs` proves, for any finite set of messages, any set of workers and all settings,
`TypeCorrect`, `AttemptsExclusiveAlways`, `DeliveredWasAcceptedAlways`, `CopiesBoundedAlways` and
`OutcomesAreFinalAlways`, from the three assumptions of `EmailOutbox`; `BackoffAssumption` is arithmetic of powers
of two, which TLC evaluates and the provers cannot derive. The inductive invariant adds: a row not yet
queued has no attempts (`Unqueued`); a batch holds one claim per row, apart from the message being sent, and a message
whose delivery is about to be recorded has been accepted (`WellHeld`); a claim that is not committed is the next attempt at its row, a committed
one an attempt that the row has counted (`Numbered`); and, for `CopiesBounded`, the copies that the provider has are
as many distinct pairs of an attempt and a try, none of them still ahead of the
worker that has the attempt (`Paired`). The count of copies alone is not inductive, since a worker whose claim was taken
over goes on trying while the next attempt is made.

`AccountsProofs` proves, for any sets of users, tokens, sessions and requests and from `AccountsAssumption`
(`None` is no id, lifetimes, threshold and bounds are positive), every safety property of `accounts_races`. None is inductive: they
rest on who holds which row at which step. `IInv` says, for each request (`RequestOK`), that at the steps where it should hold
its user or its token it does, and the token is still good (`Holds`, `OwnLocks`); that what it has read of the user is so still
(`ReadIsCurrent`); and that the usable tokens it must void are locked by it or yet to be visited (`UpdateCovers`). For the rows it adds that a
verified user has no usable verification token (`VerifiedIsDone`): a verification that finds its token good thus finds the account not yet
verified. `OneUsableToken` follows as only the holder of the user inserts a token, and after voiding the others.
`DeadlockNeedsIssueAndUse` is proved for any number of requests: in a cycle, every wait leads to an UPDATE of tokens
(`UserWaits`, `TokenWaits`); what keeps that waiting is a request which presents one of these tokens
(`UpdateWaits`), and the UPDATE is then not the one at the end of a reset, as that one holds the only usable token itself.

`MigrationsProofs` proves `RecordedWasApplied`, `DoneMeansRecorded`, `InOrder` and `GivesUpRightly` for any number of files, contents, runners, releases and
faults, from `MigrationsAssumption`. `IInv` adds what a runner has established on its way: the files of its image before the one it
is at are on record as it has them (`AtWork`, `AtEnd`), which lasts because records never change; and
between a file and its record the content has been executed (`ToBeRecorded`). That the loop passes over no file
of the image (`AfterIsNext`) rests on the order of the naturals being well-founded. For the attempts `IInv` keeps an account (`Accounted`):
spent, running and left ones add up to `Attempts` unless there is a mismatch, which is for good; a file that an attempt was lost to is on record, so
it is never begun again, and a lost race adds a new file each time (`ConflictCharges`). The theorem covers the repository's four
files and four attempts, and every other number.

`ReplicaProofs` proves `ServedBeforeClosed` and `AttemptsLimited` for any number of connections, any
pool and any quotas. For the limiters it first shows, from the mounts of `app.ts`, that each narrow limiter
is passed before the router of its requests (`GuardCounts`); `RanWasCounted` is then inductive: no
more ran in a window than were counted.

`AccessProofs` proves `RolesHeldMeanwhile`, `UpdateWhole` and `AccessEndsSoon` for any sets of users, sessions, roles and
requests, from `AccessAssumption`. `IInv` says of a request that the roles it has read were held since it began, and
that it has signed in the past (`Sound`); and of an access JWT that it was signed before its session ended or expired
(`SignedInLife`): the commit of a login or refresh hands it out only with a session that is active then, and an
ended session never lives again (`Onward`, for each operation of the contract). `UsesTheContract` states that every step of `Access` is one that
`SessionContract` allows or leaves the tables alone, and `WalletsStaySound` draws on it: the theorems about the contract hold for all that clients do.

Each of these invariants was first checked by TLC with the constants of the module's run, as an invariant; the
proofs lift it to all values of the constants.

Only model-checked: liveness (`RequestsFinish`, `Settles`, `NothingForgotten`, `JobSucceeds`, `NothingHangs`), which like
ENABLED is beyond the prover; and the counterexamples, which need a single behaviour
(`CompromiseMeansReplay`, `ExhaustedIsFailed`, `LeaseExcludes`, `SessionsOfCurrentPassword`). Every invariant and every action property
that a passing run checks is a theorem.

## 10. Not modelled

- The settings that `config.ts` accepts, the rules of the password policy and the statuses of answers: functions of their inputs
  alone, which no property here depends on.
- Users who are gone while an access JWT of theirs is valid: nothing in the program removes or soft-deletes a user. Read in the source:
  `PATCH /users/me` then violates the foreign key of `user_profiles` (`src/users/user.service.ts:48`) and is answered 500, for a soft-deleted
  user 200 with `data: null` (`user.routes.ts:42-43`), where `GET /users/me` answers 404.
- Argon2, signatures and random ids are libraries and taken to work. The costs of Argon2 are read twice, once by `config.ts` and once
  by `password.service.ts`, which parses them differently; forms of numbers are below these models.
- `JWT_ACCESS_EXPIRES_IN` is any string; the models take it for a positive lifetime.
- `requireRoles`, `needsRehash`, `validate`, `decode` and `listActiveSessions` are used by no route and change no state.
- Login attempts, the audit log and security events are inserted with the change they describe and read by nothing.
- Request ids, OpenAPI, logging and metrics; the text of mails; the SQL schema that migrations make.
- The five services in Python keep no state: the functions that connect, check and close their database and cache are empty.
- That a scaffold's dependencies answer its readiness probe; the model takes either answer.
